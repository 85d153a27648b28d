---------------------------- MODULE MemoryProof ----------------------------
(***************************************************************************)
(* What the calls on the memory keep between them, for any number of       *)
(* users, texts and threads and any thresholds.                            *)
(***************************************************************************)
EXTENDS Memory, FiniteSetTheorems, SequenceTheorems, TLAPS

-----------------------------------------------------------------------------
(* The inductive invariant.                                                *)

Keys == {"hash", "named"} \X SUBSET (Texts \union Facts \union {"next_task", "working_tree"})
RowSet == [owner : Owners, scope : Scopes, key : Keys, content : SUBSET Texts,
           source : {"tool", "extract", "family", "bootstrap", "summary"},
           expires : Nat, bucket : Nat, live : BOOLEAN, edited : BOOLEAN, used : BOOLEAN]
Steps == {"idle", "look", "store", "count", "check", "summarize", "answer",
          "upsert", "fields", "event", "list", "mark"}
CallSet == [at : Steps, job : Jobs \union {None}, owner : Owners, text : SUBSET Texts, id : Nat,
            ids : (SUBSET Texts) \union (SUBSET Nat), bucket : Nat]
ProjectSet == [milestone : SUBSET Texts, events : SUBSET SUBSET Texts]

Typed ==
    /\ rows \in Seq(RowSet) /\ Len(rows) <= MaxRows
    /\ projects \in [Users -> ProjectSet]
    /\ threads \in [Threads -> CallSet]
    /\ now \in 1..MaxTime /\ calls \in 0..MaxCalls
    /\ touched \in [Threads -> SUBSET Ids]

(* A key that is a hash is made of the content as long as nobody edits it, *)
(* and the tool's keys are hashes; the system's rows are neither edited nor*)
(* forgotten, and its session rows are the summaries, which do not expire. *)
WellKept(r) ==
    /\ r.key[1] = "hash" /\ ~r.edited => r.key = <<"hash", r.content>>
    /\ r.source = "tool" => r.key[1] = "hash"
    /\ r.owner = System => r.live
    /\ r.source = "summary" <=> r.owner = System /\ r.scope = "session"
    /\ r.source = "summary" => r.expires = Never

(* The partial unique index.                                               *)
SameIdentity(r, q) == r.owner = q.owner /\ r.scope = q.scope /\ r.key = q.key
Unique == \A i, j \in Ids : rows[i].live /\ rows[j].live /\ SameIdentity(rows[i], rows[j]) => i = j

(* Which call is at which step.                                            *)
CallOK(c) ==
    /\ c.at # "idle" => c.owner \in Users
    /\ c.at \in {"look", "store", "count", "check", "summarize"} => c.job = "remember"
    /\ c.at = "upsert" => c.job \in {"extract", "session", "family"}
    /\ c.at \in {"fields", "event"} => c.job = "extract"
    /\ c.at \in {"idle", "look", "list"} => c.id = 0
    /\ c.at \in {"check", "summarize"} => c.ids \in SUBSET Texts
    /\ c.at \in {"count", "check", "summarize", "answer", "fields", "event"} => c.id \in Ids

(* From the insert on, a call that remembers a text has it in its row, or  *)
(* somebody else has changed that row.                                     *)
Holding(t) ==
    LET c == threads[t] IN
    c.job = "remember" /\ c.at \in {"count", "check", "summarize", "answer"} =>
        /\ rows[c.id].owner = c.owner
        /\ (rows[c.id].live /\ rows[c.id].content = c.text) \/ c.id \in touched[t]

(* Who is about to store a summary has seen none of its bucket.            *)
SeesNone(t) ==
    threads[t].at = "summarize" =>
        \A j \in Ids : rows[j].source = "summary" /\ rows[j].bucket = threads[t].bucket
                       => j \in touched[t]

ThreadOK(t) == CallOK(threads[t]) /\ Holding(t) /\ SeesNone(t)

IInv ==
    /\ Typed
    /\ \A i \in Ids : WellKept(rows[i])
    /\ Unique
    /\ \A t \in Threads : ThreadOK(t)

-----------------------------------------------------------------------------
(* The rows the calls write.                                               *)

New(r) == r \in RowSet /\ r.live /\ ~r.edited /\ WellKept(r)

LEMMA Bounds ==
  /\ System \notin Users /\ Threshold \in Nat /\ Threshold > 0 /\ Ttl \in Nat
  /\ MaxRows \in Nat /\ MaxRows > 0 /\ MaxTime \in Nat /\ MaxTime > 0 /\ MaxCalls \in Nat
  BY MemoryAssumption

LEMMA KeysType ==
  /\ \A s \in SUBSET Texts : <<"hash", s>> \in Keys
  /\ \A f \in Facts : <<"named", {f}>> \in Keys
  /\ <<"named", {"next_task"}>> \in Keys /\ <<"named", {"working_tree"}>> \in Keys
  BY DEF Keys

LEMMA FactIsNew == ASSUME NEW f \in Facts, NEW c \in Texts PROVE New(Fact(f, c))
<1>1. <<"named", {f}>> \in Keys /\ {c} \in SUBSET Texts
  BY KeysType
<1>2. Fact(f, c) \in RowSet
  BY <1>1 DEF Fact, Row, RowSet, Owners, Scopes, Never
<1>3. QED BY <1>2 DEF New, Fact, Row, WellKept

LEMMA NewRowIsNew == ASSUME NEW c \in CallSet, c.owner \in Users PROVE New(NewRow(c))
<1>1. <<"hash", c.text>> \in Keys /\ c.text \in SUBSET Texts /\ c.owner \in Owners
  BY KeysType DEF CallSet
<1>2. NewRow(c) \in RowSet
  BY <1>1 DEF NewRow, Row, RowSet, Scopes, Never
<1>3. QED BY <1>2, Bounds DEF New, NewRow, Row, WellKept

LEMMA SummaryIsNew == ASSUME NEW c \in CallSet, c.ids \in SUBSET Texts PROVE New(Summary(c))
<1> DEFINE plain == Row(System, "session", <<"hash", c.ids>>, c.ids, "summary", Never)
<1>1. <<"hash", c.ids>> \in Keys /\ c.bucket \in Nat
  BY KeysType DEF CallSet
<1>2. plain \in RowSet
  BY <1>1 DEF Row, RowSet, Owners, Scopes, Never
<1>3. Summary(c) = [plain EXCEPT !.bucket = c.bucket]
  BY DEF Summary
<1>4. Summary(c) \in RowSet
  BY <1>1, <1>2, <1>3 DEF RowSet
<1>5. /\ Summary(c).live /\ ~Summary(c).edited /\ Summary(c).source = "summary"
      /\ Summary(c).key = <<"hash", c.ids>> /\ Summary(c).content = c.ids
      /\ Summary(c).owner = System /\ Summary(c).scope = "session" /\ Summary(c).expires = Never
  BY <1>3 DEF Row
<1>6. QED BY <1>4, <1>5 DEF New, WellKept

LEMMA ExtractedIsNew ==
  ASSUME NEW c \in CallSet, c.owner \in Users, c.job \in {"extract", "session", "family"}, now \in Nat
  PROVE  New(Extracted(c))
<1>1. c.text \in SUBSET Texts /\ c.owner \in Owners /\ System \in Owners /\ now + Ttl \in Nat /\ c.owner # System
  BY Bounds DEF CallSet, Owners
<1>2. CASE c.job = "extract"
  <2>1. Extracted(c) = Row(c.owner, "project", <<"named", {"next_task"}>>, c.text, "extract", Never)
    BY <1>2 DEF Extracted
  <2>2. Row(c.owner, "project", <<"named", {"next_task"}>>, c.text, "extract", Never) \in RowSet
    BY <1>1, KeysType DEF Row, RowSet, Scopes, Never
  <2>3. QED BY <1>1, <2>1, <2>2 DEF New, Row, WellKept
<1>3. CASE c.job = "session"
  <2>1. Extracted(c) = Row(c.owner, "session", <<"named", {"working_tree"}>>, c.text, "extract", now + Ttl)
    BY <1>3 DEF Extracted
  <2>2. Row(c.owner, "session", <<"named", {"working_tree"}>>, c.text, "extract", now + Ttl) \in RowSet
    BY <1>1, KeysType DEF Row, RowSet, Scopes
  <2>3. QED BY <1>1, <2>1, <2>2 DEF New, Row, WellKept
<1>4. CASE c.job = "family"
  <2>1. Extracted(c) = Row(System, "preference", <<"hash", c.text>>, c.text, "family", Never)
    BY <1>4 DEF Extracted
  <2>2. Row(System, "preference", <<"hash", c.text>>, c.text, "family", Never) \in RowSet
    BY <1>1, KeysType DEF Row, RowSet, Scopes, Never
  <2>3. QED BY <2>1, <2>2 DEF New, Row, WellKept
<1>5. QED BY <1>2, <1>3, <1>4

-----------------------------------------------------------------------------
(* What a write does to the table.                                         *)

(* The same but for the mark of use.                                       *)
Marked(q, r) == q \in RowSet /\ q = [r EXCEPT !.used = q.used]

LEMMA MarkedFields ==
  ASSUME NEW r \in RowSet, NEW q, Marked(q, r)
  PROVE  /\ q.owner = r.owner /\ q.scope = r.scope /\ q.key = r.key /\ q.content = r.content
         /\ q.source = r.source /\ q.expires = r.expires /\ q.bucket = r.bucket
         /\ q.live = r.live /\ q.edited = r.edited
  BY DEF Marked, RowSet

(* At most row i is changed or added, its owner excepted.                  *)
Changes(i) ==
    /\ rows' \in Seq(RowSet) /\ Len(rows') <= MaxRows
    /\ Ids \subseteq Ids' /\ Ids' \subseteq Ids \union {i}
    /\ \A j \in Ids \ {i} : Marked(rows'[j], rows[j])
    /\ i \in Ids => rows'[i].owner = rows[i].owner

Writes(i, r) ==
    /\ Changes(i)
    /\ i \in Ids'
    /\ \A j \in Ids \ {i} : rows'[j] = rows[j]
    /\ Marked(rows'[i], r)
    /\ i \in Ids => i \in Conflicts(r)
    /\ i \notin Ids => Conflicts(r) = {}

LEMMA UpsertWrites ==
  ASSUME Typed, NEW r \in RowSet, Upsert(r)
  PROVE  Writes(UpsertId(r), r)
<1>1. rows \in Seq(RowSet) /\ Len(rows) \in Nat /\ Ids = 1..Len(rows) /\ \A j \in Ids : rows[j] \in RowSet
  BY DEF Typed, Ids
<1>2. \A q \in RowSet : Marked(q, q)
  BY DEF Marked, RowSet
<1>3. CASE Conflicts(r) = {}
  <2>1. rows' = Append(rows, r) /\ UpsertId(r) = Len(rows) + 1 /\ Len(rows) < MaxRows
    BY <1>3 DEF Upsert, UpsertId
  <2>2. /\ rows' \in Seq(RowSet) /\ Len(rows') = Len(rows) + 1 /\ rows'[Len(rows) + 1] = r
        /\ \A j \in Ids : rows'[j] = rows[j]
    BY <1>1, <2>1
  <2>3. Ids' = 1..(Len(rows) + 1)
    BY <2>2 DEF Ids
  <2>4. UpsertId(r) \notin Ids
    BY <1>1, <2>1
  <2>5. QED BY <1>1, <1>2, <1>3, <2>1, <2>2, <2>3, <2>4, Bounds DEF Writes, Changes
<1>4. CASE Conflicts(r) # {}
  <2> DEFINE i == UpsertId(r)
             new == [r EXCEPT !.used = rows[i].used]
  <2>1. i \in Conflicts(r)
    BY <1>4 DEF UpsertId
  <2>2. i \in Ids /\ rows[i].owner = r.owner
    BY <2>1 DEF Conflicts, SameKey
  <2>3. rows' = [rows EXCEPT ![i] = new]
    BY <1>4 DEF Upsert
  <2>4. new \in RowSet /\ new.used = rows[i].used /\ new.owner = r.owner
    BY <1>1, <2>2 DEF RowSet
  <2> HIDE DEF i, new
  <2>5. rows' \in Seq(RowSet) /\ Len(rows') = Len(rows) /\ rows'[i] = new /\ \A j \in Ids \ {i} : rows'[j] = rows[j]
    BY <1>1, <2>2, <2>3, <2>4
  <2>6. Ids' = Ids
    BY <1>1, <2>5 DEF Ids
  <2>7. Marked(new, r)
    BY <2>4 DEF Marked, new
  <2>8. Writes(i, r)
    BY <1>1, <1>2, <2>1, <2>2, <2>4, <2>5, <2>6, <2>7 DEF Writes, Changes, Typed
  <2>9. QED BY <2>8 DEF i
<1>5. QED BY <1>3, <1>4

(* The index holds after it, and so does what is said of each row.         *)
LEMMA WritesKeepRows ==
  ASSUME IInv, NEW r, New(r), NEW i, Writes(i, r)
  PROVE  Unique' /\ \A j \in Ids' : WellKept(rows'[j])
<1>1. SameIdentity(rows'[i], r) /\ WellKept(rows'[i])
  BY MarkedFields DEF Writes, New, SameIdentity, WellKept
<1>2. \A j \in Ids' : j = i \/ (j \in Ids /\ rows'[j] = rows[j])
  BY DEF Writes, Changes
<1>3. \A j \in Ids' : j # i /\ rows'[j].live => ~SameIdentity(rows'[j], r)
  <2> SUFFICES ASSUME NEW j \in Ids', j # i, rows'[j].live, SameIdentity(rows'[j], r) PROVE FALSE
    OBVIOUS
  <2>1. j \in Ids /\ rows[j].live /\ SameIdentity(rows[j], r)
    BY <1>2
  <2>2. j \in Conflicts(r)
    BY <2>1 DEF Conflicts, SameKey, SameIdentity
  <2>3. i \in Conflicts(r)
    BY <2>2 DEF Writes
  <2>4. i \in Ids /\ rows[i].live /\ SameIdentity(rows[i], r)
    BY <2>3 DEF Conflicts, SameKey, SameIdentity
  <2>5. SameIdentity(rows[i], rows[j])
    BY <2>1, <2>4 DEF SameIdentity
  <2>6. QED BY <2>1, <2>4, <2>5 DEF IInv, Unique
<1>4. Unique'
  <2> SUFFICES ASSUME NEW j \in Ids', NEW k \in Ids', rows'[j].live, rows'[k].live,
                      SameIdentity(rows'[j], rows'[k]), j # k
               PROVE  FALSE
    BY DEF Unique, SameIdentity
  <2>1. CASE j = i
    BY <2>1, <1>1, <1>3 DEF SameIdentity
  <2>2. CASE k = i
    BY <2>2, <1>1, <1>3 DEF SameIdentity
  <2>3. CASE j # i /\ k # i
    BY <2>3, <1>2 DEF IInv, Unique
  <2>4. QED BY <2>1, <2>2, <2>3
<1>5. QED BY <1>1, <1>2, <1>4 DEF IInv

(* A thread that runs on meanwhile: what it holds is still there, or it has*)
(* been touched.                                                           *)
LEMMA OthersKeep ==
  ASSUME IInv, NEW i, Changes(i), NEW u \in Threads, threads'[u] = threads[u],
         touched[u] \subseteq touched'[u],
         threads[u].at # "idle" /\ i \in Ids' => i \in touched'[u]
  PROVE  ThreadOK(u)'
<1>1. \A j \in Ids \ {i} : /\ rows'[j].owner = rows[j].owner /\ rows'[j].live = rows[j].live
                           /\ rows'[j].content = rows[j].content /\ rows'[j].source = rows[j].source
                           /\ rows'[j].bucket = rows[j].bucket
  BY MarkedFields DEF Changes, IInv, Typed, Ids
<1>2. CallOK(threads[u])'
  BY DEF Changes, IInv, ThreadOK, CallOK
<1>3. Holding(u)'
  BY <1>1 DEF Changes, IInv, ThreadOK, CallOK, Holding
<1>4. SeesNone(u)'
  BY <1>1 DEF Changes, IInv, ThreadOK, SeesNone
<1>5. QED BY <1>2, <1>3, <1>4 DEF ThreadOK

LEMMA InitIInv == Init => IInv
<1> SUFFICES ASSUME Init PROVE IInv
  OBVIOUS
<1>1. /\ rows \in Seq(RowSet) /\ Len(rows) <= MaxRows
      /\ \A i \in Ids : WellKept(rows[i])
      /\ \A i, j \in Ids : i = j
  <2>1. CASE rows = <<>>
    BY <2>1, Bounds DEF Ids
  <2>2. CASE \E f \in Facts, c \in Texts : rows = <<Fact(f, c)>>
    <3>1. PICK f \in Facts, c \in Texts : rows = <<Fact(f, c)>>
      BY <2>2
    <3>2. New(Fact(f, c))
      BY FactIsNew
    <3>3. Ids = {1} /\ rows[1] = Fact(f, c) /\ rows \in Seq(RowSet) /\ Len(rows) = 1
      BY <3>1, <3>2 DEF Ids, New
    <3>4. QED BY <3>2, <3>3, Bounds DEF New
  <2>3. QED BY <2>1, <2>2 DEF Init
<1>2. Idle \in CallSet /\ CallOK(Idle)
  BY DEF Idle, Call, CallSet, CallOK, Owners, Steps, None
<1>3. Typed
  <2>1. projects \in [Users -> ProjectSet]
    BY DEF Init, ProjectSet
  <2>2. threads \in [Threads -> CallSet] /\ touched \in [Threads -> SUBSET Ids]
    BY <1>2 DEF Init
  <2>3. now \in 1..MaxTime /\ calls \in 0..MaxCalls
    BY Bounds DEF Init
  <2>4. QED BY <1>1, <2>1, <2>2, <2>3 DEF Typed
<1>4. \A t \in Threads : ThreadOK(t)
  BY <1>2 DEF Init, ThreadOK, Holding, SeesNone, Idle, Call
<1>5. QED BY <1>1, <1>3, <1>4 DEF IInv, Unique

-----------------------------------------------------------------------------
(* The steps of a thread.                                                  *)

(* A step that leaves the rows alone disturbs no other thread, and the     *)
(* thread itself may forget what has been touched when it returns.         *)
LEMMA QuietStep ==
  ASSUME IInv, rows' = rows, NEW t \in Threads, NEW c \in CallSet, CallOK(c),
         threads' = [threads EXCEPT ![t] = c],
         touched' = touched \/ touched' = [touched EXCEPT ![t] = {}],
         projects' \in [Users -> ProjectSet], now' = now, calls' \in 0..MaxCalls,
         (Holding(t) /\ SeesNone(t))'
  PROVE  IInv'
<1>1. Ids' = Ids
  BY DEF Ids
<1>2. Typed'
  <2>1. threads' \in [Threads -> CallSet] /\ touched' \in [Threads -> SUBSET Ids]
    BY DEF IInv, Typed
  <2>2. QED BY <1>1, <2>1 DEF IInv, Typed
<1>3. Changes(0)
  <2>1. 0 \notin Ids /\ \A j \in Ids : rows[j] \in RowSet
    BY DEF IInv, Typed, Ids
  <2>2. \A q \in RowSet : Marked(q, q)
    BY DEF Marked, RowSet
  <2>3. QED BY <1>1, <2>1, <2>2 DEF Changes, IInv, Typed
<1>4. \A u \in Threads \ {t} : ThreadOK(u)'
  <2> SUFFICES ASSUME NEW u \in Threads, u # t PROVE ThreadOK(u)'
    OBVIOUS
  <2>1. threads'[u] = threads[u] /\ touched'[u] = touched[u]
    BY DEF IInv, Typed
  <2>2. 0 \notin Ids'
    BY <1>1 DEF Ids, IInv, Typed
  <2>3. QED BY <1>3, <2>1, <2>2, OthersKeep
<1>5. ThreadOK(t)'
  <2>1. threads'[t] = c
    BY DEF IInv, Typed
  <2>2. CallOK(threads[t])'
    BY <1>1, <2>1 DEF CallOK
  <2>3. QED BY <2>2 DEF ThreadOK
<1>6. Unique' /\ \A i \in Ids' : WellKept(rows'[i])
  BY <1>1 DEF IInv, Unique
<1>7. \A u \in Threads : ThreadOK(u)'
  BY <1>4, <1>5
<1>8. QED BY <1>2, <1>6, <1>7 DEF IInv

LEMMA StartStep == ASSUME IInv, NEW t \in Threads, Start(t) PROVE IInv'
<1>1. PICK job \in Jobs, o \in Users, text \in SUBSET Texts :
        threads' = [threads EXCEPT ![t] = Call(job, FirstStep(job), o, text)]
  <2>1. PICK job \in Jobs, o \in Users, c \in Texts :
          threads' = [threads EXCEPT ![t] = Call(job, FirstStep(job), o, IF job = "recall" THEN {} ELSE {c})]
    BY DEF Start
  <2>2. (IF job = "recall" THEN {} ELSE {c}) \in SUBSET Texts
    OBVIOUS
  <2>3. QED BY <2>1, <2>2
<1> DEFINE c == Call(job, FirstStep(job), o, text)
<1>2. c = [at |-> FirstStep(job), job |-> job, owner |-> o, text |-> text, id |-> 0, ids |-> {}, bucket |-> 0]
  BY DEF Call
<1>3. FirstStep(job) \in Steps /\ FirstStep(job) = CASE job = "remember" -> "look" [] job = "recall" -> "list" [] OTHER -> "upsert"
  BY DEF FirstStep, Jobs, Steps
<1>4. c \in CallSet
  BY <1>2, <1>3 DEF CallSet, Owners
<1>5. CallOK(c) /\ c.at \in {"look", "list", "upsert"}
  BY <1>2, <1>3 DEF CallOK, Jobs
<1> HIDE DEF c
<1>6. /\ rows' = rows /\ projects' = projects /\ now' = now /\ calls' \in 0..MaxCalls
      /\ touched' = [touched EXCEPT ![t] = {}] /\ threads' = [threads EXCEPT ![t] = c]
  <2>1. calls' \in 0..MaxCalls
    BY Bounds DEF Start, IInv, Typed
  <2>2. threads' = [threads EXCEPT ![t] = c]
    BY <1>1 DEF c
  <2>3. QED BY <2>1, <2>2 DEF Start
<1>7. threads'[t] = c
  BY <1>6 DEF IInv, Typed
<1>8. (Holding(t) /\ SeesNone(t))'
  BY <1>5, <1>7 DEF Holding, SeesNone
<1>9. projects' \in [Users -> ProjectSet]
  BY <1>6 DEF IInv, Typed
<1>10. QED BY <1>4, <1>5, <1>6, <1>8, <1>9, QuietStep

LEMMA LookStep == ASSUME IInv, NEW t \in Threads, Look(t) PROVE IInv'
<1> DEFINE old == threads[t]
<1>1. /\ old \in CallSet /\ old.at = "look" /\ old.job = "remember" /\ old.owner \in Users
      /\ UNCHANGED <<rows, projects, now, calls, touched>>
  BY DEF Look, IInv, Typed, ThreadOK, CallOK
<1>2. projects' \in [Users -> ProjectSet] /\ calls' \in 0..MaxCalls
  BY <1>1 DEF IInv, Typed
<1>3. CASE threads' = [threads EXCEPT ![t].at = "store"]
  <2> DEFINE c == [old EXCEPT !.at = "store"]
  <2>1. c \in CallSet /\ c.at = "store" /\ c.job = "remember" /\ c.owner \in Users
    BY <1>1 DEF CallSet, Steps
  <2>2. CallOK(c)
    BY <2>1 DEF CallOK
  <2>3. threads' = [threads EXCEPT ![t] = c] /\ threads'[t] = c
    BY <1>3 DEF IInv, Typed
  <2> HIDE DEF c
  <2>4. (Holding(t) /\ SeesNone(t))'
    BY <2>1, <2>3 DEF Holding, SeesNone
  <2>5. QED BY <1>1, <1>2, <2>1, <2>2, <2>3, <2>4, QuietStep
<1>4. CASE \E i \in Duplicates(old) : threads' = [threads EXCEPT ![t].at = "answer", ![t].id = i]
  <2>1. PICK i \in Duplicates(old) : threads' = [threads EXCEPT ![t].at = "answer", ![t].id = i]
    BY <1>4
  <2>2. i \in Ids /\ i \in Nat /\ rows[i].live /\ rows[i].owner = old.owner /\ rows[i].content = old.text
    BY DEF Duplicates, Ids, IInv, Typed
  <2> DEFINE c == [[old EXCEPT !.at = "answer"] EXCEPT !.id = i]
  <2>3. /\ c \in CallSet /\ c.at = "answer" /\ c.job = "remember" /\ c.owner = old.owner
        /\ c.text = old.text /\ c.id = i
    BY <1>1, <2>2 DEF CallSet, Steps
  <2>4. CallOK(c)
    BY <1>1, <2>2, <2>3 DEF CallOK
  <2>5. threads' = [threads EXCEPT ![t] = c] /\ threads'[t] = c
    BY <2>1 DEF IInv, Typed
  <2> HIDE DEF c
  <2>6. (Holding(t) /\ SeesNone(t))'
    BY <1>1, <2>2, <2>3, <2>5 DEF Holding, SeesNone
  <2>7. QED BY <1>1, <1>2, <2>3, <2>4, <2>5, <2>6, QuietStep
<1>5. QED BY <1>3, <1>4 DEF Look, Goto

(* A step that writes a row disturbs nobody whose touched rows it is added *)
(* to.                                                                     *)
LEMMA TouchedBy ==
  ASSUME IInv, NEW others \in SUBSET Threads, NEW i, Touch(others, i), i \in Ids', Ids \subseteq Ids'
  PROVE  /\ touched' \in [Threads -> SUBSET Ids']
         /\ \A u \in Threads : touched[u] \subseteq touched'[u]
         /\ \A u \in others : threads[u].at # "idle" => i \in touched'[u]
         /\ \A u \in Threads \ others : touched'[u] = touched[u]
  BY DEF Touch, IInv, Typed

LEMMA WriteStep ==
  ASSUME IInv, NEW r, New(r), Upsert(r), NEW others \in SUBSET Threads, Touch(others, UpsertId(r)),
         \A u \in others : threads'[u] = threads[u], threads' \in [Threads -> CallSet],
         \A u \in Threads \ others : ThreadOK(u)',
         projects' = projects, now' = now, calls' \in 0..MaxCalls
  PROVE  IInv'
<1> DEFINE i == UpsertId(r)
<1>1. Writes(i, r)
  BY UpsertWrites DEF IInv, New
<1>2. Changes(i) /\ i \in Ids'
  BY <1>1 DEF Writes
<1> HIDE DEF i
<1>3. /\ touched' \in [Threads -> SUBSET Ids']
      /\ \A u \in Threads : touched[u] \subseteq touched'[u]
      /\ \A u \in others : threads[u].at # "idle" => i \in touched'[u]
  <2>1. Touch(others, i)
    BY DEF i
  <2>2. QED BY <1>2, <2>1, TouchedBy DEF Changes
<1>4. Typed'
  BY <1>2, <1>3 DEF Changes, IInv, Typed
<1>5. Unique' /\ \A j \in Ids' : WellKept(rows'[j])
  BY <1>1, WritesKeepRows
<1>6. \A u \in others : ThreadOK(u)'
  BY <1>2, <1>3, OthersKeep
<1>7. \A u \in Threads : ThreadOK(u)'
  BY <1>6
<1>8. QED BY <1>4, <1>5, <1>7 DEF IInv

LEMMA StoreStep == ASSUME IInv, NEW t \in Threads, Store(t) PROVE IInv'
<1> DEFINE old == threads[t]
           r == NewRow(old)
           i == UpsertId(r)
           c == [[old EXCEPT !.at = "count"] EXCEPT !.id = i]
<1>1. /\ old \in CallSet /\ old.at = "store" /\ old.job = "remember" /\ old.owner \in Users
      /\ Upsert(r) /\ Touch(Others(t), i) /\ UNCHANGED <<projects, now, calls>>
      /\ threads' = [threads EXCEPT ![t] = c]
  BY DEF Store, IInv, Typed, ThreadOK, CallOK
<1>2. New(r) /\ r.owner = old.owner /\ r.content = old.text
  BY <1>1, NewRowIsNew DEF NewRow, Row
<1> HIDE DEF r
<1>3. Writes(i, r)
  BY <1>1, <1>2, UpsertWrites DEF IInv, New
<1>4. i \in Ids' /\ rows'[i].owner = old.owner /\ rows'[i].live /\ rows'[i].content = old.text
  BY <1>2, <1>3, MarkedFields DEF Writes, New
<1>5. i \in Nat
  BY <1>4, <1>3 DEF Ids, Writes, Changes
<1> HIDE DEF i
<1>6. c \in CallSet /\ c.at = "count" /\ c.job = "remember" /\ c.owner = old.owner /\ c.text = old.text /\ c.id = i
  BY <1>1, <1>5 DEF CallSet, Steps
<1> HIDE DEF c
<1>7. threads' \in [Threads -> CallSet] /\ threads'[t] = c /\ \A u \in Others(t) : threads'[u] = threads[u]
  BY <1>1, <1>6 DEF IInv, Typed, Others
<1>8. ThreadOK(t)'
  BY <1>1, <1>4, <1>6, <1>7 DEF ThreadOK, CallOK, Holding, SeesNone
<1>9. calls' \in 0..MaxCalls /\ Threads \ Others(t) = {t} /\ Others(t) \in SUBSET Threads
  BY <1>1 DEF IInv, Typed, Others
<1>10. Touch(Others(t), UpsertId(r))
  BY <1>1 DEF i
<1>11. QED BY <1>1, <1>2, <1>7, <1>8, <1>9, <1>10, WriteStep

LEMMA CountStep == ASSUME IInv, NEW t \in Threads, Count(t) PROVE IInv'
<1> DEFINE old == threads[t]
           step == IF Bucket = 0 THEN "answer" ELSE "check"
           texts == UNION {rows[i].content : i \in Summarized}
           c == [[[old EXCEPT !.at = step] EXCEPT !.bucket = Bucket] EXCEPT !.ids = texts]
<1>1. /\ old \in CallSet /\ old.at = "count" /\ old.job = "remember" /\ old.owner \in Users /\ old.id \in Ids
      /\ UNCHANGED <<rows, projects, now, calls, touched>>
      /\ threads' = [threads EXCEPT ![t] = c]
  BY DEF Count, IInv, Typed, ThreadOK, CallOK
<1>2. Bucket \in Nat
  <2>1. IsFiniteSet(Ids)
    BY FS_Interval DEF Ids, IInv, Typed
  <2>2. Summarized \subseteq Ids
    BY DEF Summarized
  <2>3. Cardinality(Summarized) \in Nat
    BY <2>1, <2>2, FS_Subset, FS_CardinalityType
  <2>4. QED BY <2>3, Bounds DEF Bucket
<1>3. texts \in SUBSET Texts
  <2>1. \A i \in Summarized : rows[i] \in RowSet
    BY DEF Summarized, IInv, Typed, Ids
  <2>2. \A i \in Summarized : rows[i].content \subseteq Texts
    BY <2>1 DEF RowSet
  <2>3. QED BY <2>2
<1> HIDE DEF texts
<1>4. /\ c \in CallSet /\ c.at \in {"answer", "check"} /\ c.job = "remember" /\ c.owner = old.owner
      /\ c.text = old.text /\ c.id = old.id /\ c.ids \in SUBSET Texts
  BY <1>1, <1>2, <1>3 DEF CallSet, Steps
<1> HIDE DEF c
<1>5. CallOK(c)
  BY <1>1, <1>4 DEF CallOK
<1>6. threads'[t] = c
  BY <1>1 DEF IInv, Typed
<1>7. Holding(t)'
  BY <1>1, <1>4, <1>6 DEF IInv, ThreadOK, Holding
<1>8. SeesNone(t)'
  BY <1>4, <1>6 DEF SeesNone
<1>9. projects' \in [Users -> ProjectSet] /\ calls' \in 0..MaxCalls
  BY <1>1 DEF IInv, Typed
<1>10. QED BY <1>1, <1>4, <1>5, <1>7, <1>8, <1>9, QuietStep

(* A summary never dies, so who has looked for one in vain has seen them   *)
(* all.                                                                    *)
LEMMA CheckStep == ASSUME IInv, NEW t \in Threads, Check(t) PROVE IInv'
<1> DEFINE old == threads[t]
           step == IF SummaryOf(old.bucket) = {} THEN "summarize" ELSE "answer"
           c == [old EXCEPT !.at = step]
<1>1. /\ old \in CallSet /\ old.at = "check" /\ old.job = "remember" /\ old.owner \in Users /\ old.id \in Ids
      /\ old.ids \in SUBSET Texts
      /\ UNCHANGED <<rows, projects, now, calls, touched>>
      /\ threads' = [threads EXCEPT ![t] = c]
  BY DEF Check, Goto, IInv, Typed, ThreadOK, CallOK
<1>2. /\ c \in CallSet /\ c.at = step /\ step \in {"answer", "summarize"} /\ c.job = "remember"
      /\ c.owner = old.owner /\ c.text = old.text /\ c.id = old.id /\ c.ids = old.ids /\ c.bucket = old.bucket
  BY <1>1 DEF CallSet, Steps
<1> HIDE DEF c
<1>3. CallOK(c)
  BY <1>1, <1>2 DEF CallOK
<1>4. threads'[t] = c
  BY <1>1 DEF IInv, Typed
<1>5. Holding(t)'
  BY <1>1, <1>2, <1>4 DEF IInv, ThreadOK, Holding
<1>6. SeesNone(t)'
  <2> SUFFICES ASSUME step = "summarize", NEW j \in Ids, rows[j].source = "summary", rows[j].bucket = old.bucket
               PROVE  FALSE
    BY <1>1, <1>2, <1>4 DEF SeesNone, Ids
  <2>1. j \in SummaryOf(old.bucket)
    BY DEF IInv, WellKept, SummaryOf, Active
  <2>2. QED BY <2>1
<1>7. projects' \in [Users -> ProjectSet] /\ calls' \in 0..MaxCalls
  BY <1>1 DEF IInv, Typed
<1>8. QED BY <1>1, <1>2, <1>3, <1>5, <1>6, <1>7, QuietStep

LEMMA SummarizeStep == ASSUME IInv, NEW t \in Threads, Summarize(t) PROVE IInv'
<1> DEFINE old == threads[t]
           r == Summary(old)
           i == UpsertId(r)
           c == [old EXCEPT !.at = "answer"]
<1>1. /\ old \in CallSet /\ old.at = "summarize" /\ old.job = "remember" /\ old.owner \in Users
      /\ old.id \in Ids /\ old.ids \in SUBSET Texts
      /\ Upsert(r) /\ Touch(Others(t), i) /\ UNCHANGED <<projects, now, calls>>
      /\ threads' = [threads EXCEPT ![t] = c]
  BY DEF Summarize, Goto, IInv, Typed, ThreadOK, CallOK
<1>2. New(r) /\ r.owner = System
  BY <1>1, SummaryIsNew DEF Summary, Row
<1> HIDE DEF r
<1>3. Writes(i, r)
  BY <1>1, <1>2, UpsertWrites DEF IInv, New
<1>4. rows[old.id].owner = old.owner
  BY <1>1 DEF IInv, ThreadOK, Holding
<1>5. old.id # i
  <2>1. i \in Ids => rows[i].owner = System
    BY <1>2, <1>3 DEF Writes, Conflicts, SameKey
  <2>2. QED BY <1>1, <1>4, <2>1, Bounds
<1>6. rows'[old.id] = rows[old.id] /\ old.id \in Ids'
  BY <1>1, <1>3, <1>5 DEF Writes, Changes
<1>7. c \in CallSet /\ c.at = "answer" /\ c.job = "remember" /\ c.owner = old.owner /\ c.text = old.text /\ c.id = old.id
  BY <1>1 DEF CallSet, Steps
<1> HIDE DEF c, i
<1>8. threads' \in [Threads -> CallSet] /\ threads'[t] = c /\ \A u \in Others(t) : threads'[u] = threads[u]
  BY <1>1, <1>7 DEF IInv, Typed, Others
<1>9. touched'[t] = touched[t]
  BY <1>1 DEF Touch, Others
<1>10. ThreadOK(t)'
  <2>1. Holding(t)'
    BY <1>1, <1>6, <1>7, <1>8, <1>9 DEF IInv, ThreadOK, Holding
  <2>2. QED BY <1>1, <1>6, <1>7, <1>8, <2>1 DEF ThreadOK, CallOK, SeesNone
<1>11. calls' \in 0..MaxCalls /\ Threads \ Others(t) = {t} /\ Others(t) \in SUBSET Threads
  BY <1>1 DEF IInv, Typed, Others
<1>12. Touch(Others(t), UpsertId(r))
  BY <1>1 DEF i
<1>13. QED BY <1>1, <1>2, <1>8, <1>10, <1>11, <1>12, WriteStep

LEMMA ExtractStep == ASSUME IInv, NEW t \in Threads, Extract(t) PROVE IInv'
<1> DEFINE old == threads[t]
           r == Extracted(old)
           i == UpsertId(r)
           step == IF old.job = "extract" THEN "fields" ELSE "answer"
           c == [[old EXCEPT !.at = step] EXCEPT !.id = i]
<1>1. /\ old \in CallSet /\ old.at = "upsert" /\ old.job \in {"extract", "session", "family"} /\ old.owner \in Users
      /\ Upsert(r) /\ Touch(Others(t), i) /\ UNCHANGED <<projects, now, calls>>
      /\ threads' = [threads EXCEPT ![t] = c]
  BY DEF Extract, IInv, Typed, ThreadOK, CallOK
<1>2. New(r)
  BY <1>1, ExtractedIsNew DEF IInv, Typed
<1> HIDE DEF r
<1>3. Writes(i, r)
  BY <1>1, <1>2, UpsertWrites DEF IInv, New
<1>4. i \in Ids' /\ i \in Nat
  BY <1>3 DEF Ids, Writes, Changes
<1> HIDE DEF i
<1>5. c \in CallSet /\ c.at = step /\ c.job = old.job /\ c.owner = old.owner /\ c.id = i
  BY <1>1, <1>4 DEF CallSet, Steps
<1> HIDE DEF c
<1>6. threads' \in [Threads -> CallSet] /\ threads'[t] = c /\ \A u \in Others(t) : threads'[u] = threads[u]
  BY <1>1, <1>5 DEF IInv, Typed, Others
<1>7. ThreadOK(t)'
  BY <1>1, <1>4, <1>5, <1>6 DEF ThreadOK, CallOK, Holding, SeesNone
<1>8. calls' \in 0..MaxCalls /\ Threads \ Others(t) = {t} /\ Others(t) \in SUBSET Threads
  BY <1>1 DEF IInv, Typed, Others
<1>9. Touch(Others(t), UpsertId(r))
  BY <1>1 DEF i
<1>10. QED BY <1>1, <1>2, <1>6, <1>7, <1>8, <1>9, WriteStep

LEMMA IdleOK == Idle \in CallSet /\ CallOK(Idle) /\ Idle.at = "idle" /\ Idle.job = None
  BY DEF Idle, Call, CallSet, CallOK, Owners, Steps

LEMMA AnswerStep == ASSUME IInv, NEW t \in Threads, Answer(t) PROVE IInv'
<1>1. /\ UNCHANGED <<rows, projects, now, calls>>
      /\ threads' = [threads EXCEPT ![t] = Idle] /\ touched' = [touched EXCEPT ![t] = {}]
  BY DEF Answer, Return
<1>2. threads'[t] = Idle
  BY <1>1 DEF IInv, Typed
<1>3. (Holding(t) /\ SeesNone(t))'
  BY <1>2, IdleOK DEF Holding, SeesNone, None
<1>4. projects' \in [Users -> ProjectSet] /\ calls' \in 0..MaxCalls
  BY <1>1 DEF IInv, Typed
<1>5. QED BY <1>1, <1>3, <1>4, IdleOK, QuietStep

LEMMA MergedType ==
  ASSUME NEW p \in ProjectSet, NEW text \in SUBSET Texts
  PROVE  /\ Merged(p, text) \in ProjectSet /\ Merged(p, text).events = p.events
         /\ p.milestone # {} => Merged(p, text).milestone # {}
  BY DEF Merged, ProjectSet

LEMMA RecordedType ==
  ASSUME NEW p \in ProjectSet, NEW text \in SUBSET Texts
  PROVE  /\ Recorded(p, text) \in ProjectSet /\ Recorded(p, text).milestone = p.milestone
         /\ p.events \subseteq Recorded(p, text).events
  BY DEF Recorded, ProjectSet

LEMMA FieldsStep == ASSUME IInv, NEW t \in Threads, Fields(t) \/ Event(t) PROVE IInv'
<1> DEFINE old == threads[t]
<1>1. /\ old \in CallSet /\ old.at \in {"fields", "event"} /\ old.job = "extract" /\ old.owner \in Users /\ old.id \in Ids
      /\ UNCHANGED <<rows, now, calls, touched>>
  BY DEF Fields, Event, IInv, Typed, ThreadOK, CallOK
<1>2. PICK step \in {"event", "answer"} : threads' = [threads EXCEPT ![t].at = step]
  BY DEF Fields, Event, Goto
<1> DEFINE c == [old EXCEPT !.at = step]
<1>3. c \in CallSet /\ c.at = step /\ c.job = "extract" /\ c.owner = old.owner /\ c.id = old.id
  BY <1>1 DEF CallSet, Steps
<1>4. threads' = [threads EXCEPT ![t] = c] /\ threads'[t] = c
  BY <1>2 DEF IInv, Typed
<1> HIDE DEF c
<1>5. CallOK(c)
  BY <1>1, <1>3 DEF CallOK
<1>6. (Holding(t) /\ SeesNone(t))'
  BY <1>3, <1>4 DEF Holding, SeesNone
<1>7. projects' \in [Users -> ProjectSet]
  <2>1. projects[old.owner] \in ProjectSet /\ old.text \in SUBSET Texts /\ {} \in SUBSET Texts
    BY <1>1 DEF IInv, Typed, CallSet
  <2>2. CASE Fields(t)
    BY <2>1, <2>2, MergedType DEF Fields, IInv, Typed
  <2>3. CASE Event(t)
    <3> DEFINE m == Merged(projects[old.owner], {})
               n == Recorded(m, old.text)
    <3>1. m \in ProjectSet
      BY <2>1, MergedType
    <3>2. n \in ProjectSet
      BY <2>1, <3>1, RecordedType
    <3>3. projects' = [projects EXCEPT ![old.owner] = n]
      BY <2>3 DEF Event
    <3>4. QED BY <3>2, <3>3 DEF IInv, Typed
  <2>4. QED BY <2>2, <2>3
<1>8. calls' \in 0..MaxCalls
  BY <1>1 DEF IInv, Typed
<1>9. QED BY <1>1, <1>3, <1>4, <1>5, <1>6, <1>7, <1>8, QuietStep

LEMMA ListStep == ASSUME IInv, NEW t \in Threads, List(t) PROVE IInv'
<1> DEFINE old == threads[t]
<1>1. /\ old \in CallSet /\ old.at = "list" /\ old.owner \in Users
      /\ UNCHANGED <<rows, projects, now, calls, touched>>
  BY DEF List, IInv, Typed, ThreadOK, CallOK
<1>2. PICK found \in SUBSET Nat : threads' = [threads EXCEPT ![t].at = "mark", ![t].ids = found]
  <2>1. Recalled(old.owner) \in SUBSET Nat
    BY DEF Recalled, Ids, IInv, Typed
  <2>2. FamilySafe(old.owner) \in SUBSET Nat
    BY <2>1 DEF FamilySafe
  <2>3. QED BY <2>1, <2>2 DEF List
<1> DEFINE c == [[old EXCEPT !.at = "mark"] EXCEPT !.ids = found]
<1>3. c \in CallSet /\ c.at = "mark" /\ c.owner = old.owner
  BY <1>1 DEF CallSet, Steps
<1>4. threads' = [threads EXCEPT ![t] = c] /\ threads'[t] = c
  BY <1>2 DEF IInv, Typed
<1> HIDE DEF c
<1>5. CallOK(c)
  BY <1>1, <1>3 DEF CallOK
<1>6. (Holding(t) /\ SeesNone(t))'
  BY <1>3, <1>4 DEF Holding, SeesNone
<1>7. projects' \in [Users -> ProjectSet] /\ calls' \in 0..MaxCalls
  BY <1>1 DEF IInv, Typed
<1>8. QED BY <1>1, <1>3, <1>4, <1>5, <1>6, <1>7, QuietStep

-----------------------------------------------------------------------------
(* The steps that change the rows without an INSERT.                       *)

LEMMA MarkEffect ==
  ASSUME IInv, NEW t \in Threads, Mark(t)
  PROVE  Changes(0) /\ Ids' = Ids /\ \A j \in Ids : Marked(rows'[j], rows[j])
<1>1. rows \in Seq(RowSet) /\ Len(rows) \in Nat /\ Ids = 1..Len(rows) /\ Len(rows) <= MaxRows /\ \A j \in Ids : rows[j] \in RowSet
  BY DEF IInv, Typed, Ids
<1>2. rows' = [i \in Ids |-> IF i \in threads[t].ids THEN [rows[i] EXCEPT !.used = TRUE] ELSE rows[i]]
  BY DEF Mark
<1>3. \A j \in Ids : Marked(rows'[j], rows[j])
  <2> SUFFICES ASSUME NEW j \in Ids PROVE Marked(rows'[j], rows[j])
    OBVIOUS
  <2>1. rows[j] \in RowSet
    BY <1>1
  <2>2. CASE rows'[j] = [rows[j] EXCEPT !.used = TRUE]
    BY <2>1, <2>2 DEF Marked, RowSet
  <2>3. CASE rows'[j] = rows[j]
    BY <2>1, <2>3 DEF Marked, RowSet
  <2>4. QED BY <1>2, <2>2, <2>3
<1>4. rows' \in [1..Len(rows) -> RowSet]
  BY <1>1, <1>2, <1>3 DEF Marked
<1>5. rows' \in Seq(RowSet) /\ Len(rows') = Len(rows) /\ Ids' = Ids
  BY <1>1, <1>4 DEF Ids
<1>6. QED BY <1>1, <1>3, <1>5 DEF Changes

LEMMA MarkStep == ASSUME IInv, NEW t \in Threads, Mark(t) PROVE IInv'
<1>1. /\ Changes(0) /\ Ids' = Ids /\ 0 \notin Ids
      /\ \A j \in Ids : rows[j] \in RowSet /\ Marked(rows'[j], rows[j])
  BY MarkEffect DEF IInv, Typed, Ids
<1>2. /\ UNCHANGED <<projects, now, calls>>
      /\ threads' = [threads EXCEPT ![t] = Idle] /\ touched' = [touched EXCEPT ![t] = {}]
  BY DEF Mark, Return
<1>3. Typed'
  BY <1>1, <1>2, IdleOK DEF Changes, IInv, Typed
<1>4. \A j \in Ids : /\ SameIdentity(rows'[j], rows[j]) /\ rows'[j].live = rows[j].live
                     /\ WellKept(rows'[j])
  <2> SUFFICES ASSUME NEW j \in Ids
               PROVE  SameIdentity(rows'[j], rows[j]) /\ rows'[j].live = rows[j].live /\ WellKept(rows'[j])
    OBVIOUS
  <2>1. WellKept(rows[j])
    BY DEF IInv
  <2>2. QED BY <1>1, <2>1, MarkedFields DEF SameIdentity, WellKept
<1>5. Unique'
  BY <1>1, <1>4 DEF IInv, Unique, SameIdentity
<1>6. ThreadOK(t)'
  <2>1. threads'[t] = Idle
    BY <1>2 DEF IInv, Typed
  <2>2. CallOK(threads[t])'
    BY <1>1, <2>1, IdleOK DEF CallOK
  <2>3. QED BY <2>1, <2>2, IdleOK DEF ThreadOK, Holding, SeesNone, None
<1>7. \A u \in Threads \ {t} : ThreadOK(u)'
  <2> SUFFICES ASSUME NEW u \in Threads, u # t PROVE ThreadOK(u)'
    OBVIOUS
  <2>1. threads'[u] = threads[u] /\ touched'[u] = touched[u]
    BY <1>2 DEF IInv, Typed
  <2>2. QED BY <1>1, <2>1, OthersKeep
<1>8. \A u \in Threads : ThreadOK(u)'
  BY <1>6, <1>7
<1>9. QED BY <1>1, <1>3, <1>4, <1>5, <1>8 DEF IInv

(* A user changes a row of his.                                            *)
LEMMA OwnRowStep ==
  ASSUME IInv, NEW i \in Ids, NEW new \in RowSet, rows' = [rows EXCEPT ![i] = new],
         rows[i].owner \in Users, SameIdentity(new, rows[i]), new.live => rows[i].live,
         new.source = rows[i].source, new.expires = rows[i].expires,
         ~new.edited => ~rows[i].edited /\ new.content = rows[i].content,
         Touch(Threads, i), UNCHANGED <<projects, threads, now>>, calls' \in 0..MaxCalls
  PROVE  IInv'
<1>1. rows \in Seq(RowSet) /\ Len(rows) \in Nat /\ Ids = 1..Len(rows) /\ Len(rows) <= MaxRows /\ \A j \in Ids : rows[j] \in RowSet
  BY DEF IInv, Typed, Ids
<1>2. /\ rows' \in Seq(RowSet) /\ Len(rows') = Len(rows) /\ rows'[i] = new
      /\ \A j \in Ids \ {i} : rows'[j] = rows[j]
  BY <1>1
<1>3. Ids' = Ids
  BY <1>1, <1>2 DEF Ids
<1>4. Changes(i)
  <2>1. \A q \in RowSet : Marked(q, q)
    BY DEF Marked, RowSet
  <2>2. QED BY <1>1, <1>2, <1>3, <2>1 DEF Changes, SameIdentity
<1>5. /\ touched' \in [Threads -> SUBSET Ids']
      /\ \A u \in Threads : touched[u] \subseteq touched'[u]
      /\ \A u \in Threads : threads[u].at # "idle" => i \in touched'[u]
  BY <1>3, TouchedBy
<1>6. Typed'
  BY <1>2, <1>3, <1>5, <1>1 DEF IInv, Typed
<1>7. WellKept(new)
  BY Bounds DEF IInv, WellKept, SameIdentity
<1>8. \A j \in Ids' : WellKept(rows'[j])
  BY <1>2, <1>3, <1>7 DEF IInv
<1>9. \A j \in Ids : SameIdentity(rows'[j], rows[j]) /\ (rows'[j].live => rows[j].live)
  BY <1>2 DEF SameIdentity
<1>10. Unique'
  BY <1>3, <1>9 DEF IInv, Unique, SameIdentity
<1>11. \A u \in Threads : ThreadOK(u)'
  BY <1>3, <1>4, <1>5, OthersKeep
<1>12. QED BY <1>6, <1>8, <1>10, <1>11 DEF IInv

LEMMA UpdateStep ==
  ASSUME IInv, NEW o \in Users, NEW i \in Ids, NEW c \in Texts, Update(o, i, c)
  PROVE  IInv'
<1> DEFINE new == Edited(rows[i], c)
<1>1. rows[i] \in RowSet
  BY DEF IInv, Typed, Ids
<1>2. /\ new \in RowSet /\ SameIdentity(new, rows[i]) /\ new.live = rows[i].live /\ new.edited
      /\ new.source = rows[i].source /\ new.expires = rows[i].expires
  BY <1>1 DEF Edited, RowSet, SameIdentity
<1>3. calls' \in 0..MaxCalls
  BY Bounds DEF Update, IInv, Typed
<1>4. rows' = [rows EXCEPT ![i] = new]
  BY DEF Update
<1> HIDE DEF new
<1>5. QED BY <1>2, <1>3, <1>4, OwnRowStep DEF Update

LEMMA ForgetStep ==
  ASSUME IInv, NEW o \in Users, NEW i \in Ids, Forget(o, i)
  PROVE  IInv'
<1> DEFINE new == Forgotten(rows[i])
<1>1. rows[i] \in RowSet /\ WellKept(rows[i])
  BY DEF IInv, Typed, Ids
<1>2. /\ new \in RowSet /\ SameIdentity(new, rows[i]) /\ ~new.live /\ new.edited = rows[i].edited
      /\ new.source = rows[i].source /\ new.expires = rows[i].expires /\ new.content = rows[i].content
      /\ new.key = rows[i].key
  BY <1>1 DEF Forgotten, RowSet, SameIdentity
<1>3. rows' = [rows EXCEPT ![i] = new] /\ calls' \in 0..MaxCalls
  BY DEF Forget, IInv, Typed
<1> HIDE DEF new
<1>4. QED BY <1>2, <1>3, OwnRowStep DEF Forget

LEMMA BootstrapStep ==
  ASSUME IInv, NEW f \in Facts, NEW c \in Texts, Bootstrap(f, c)
  PROVE  IInv'
<1>1. New(Fact(f, c))
  BY FactIsNew
<1>2. calls' \in 0..MaxCalls
  BY Bounds DEF Bootstrap, IInv, Typed
<1>3. /\ Upsert(Fact(f, c)) /\ Touch(Threads, UpsertId(Fact(f, c)))
      /\ UNCHANGED <<projects, threads, now>> /\ threads' \in [Threads -> CallSet]
  BY DEF Bootstrap, IInv, Typed
<1>4. Threads \in SUBSET Threads /\ Threads \ Threads = {}
  OBVIOUS
<1>5. QED BY <1>1, <1>2, <1>3, <1>4, WriteStep

-----------------------------------------------------------------------------
(* The rest leaves rows and calls alone, or ends all calls.                *)

LEMMA RestStep ==
  ASSUME IInv,
         \/ \E o \in Users, c \in Texts : EditProject(o, {c}) \/ EditProject(o, {})
         \/ Restart \/ Tick \/ UNCHANGED vars
  PROVE  IInv'
<1>1. rows' = rows /\ Ids' = Ids
  BY DEF EditProject, Restart, Tick, vars, Ids
<1>2. Unique' /\ \A i \in Ids' : WellKept(rows'[i])
  BY <1>1 DEF IInv, Unique
<1>3. CASE \E o \in Users, c \in Texts : EditProject(o, {c}) \/ EditProject(o, {})
  <2>1. PICK o \in Users, text \in SUBSET Texts : EditProject(o, text)
    <3>1. PICK o \in Users, c \in Texts : EditProject(o, {c}) \/ EditProject(o, {})
      BY <1>3
    <3>2. {c} \in SUBSET Texts /\ {} \in SUBSET Texts
      OBVIOUS
    <3>3. QED BY <3>1, <3>2
  <2>2. Merged(projects[o], text) \in ProjectSet
    BY MergedType DEF IInv, Typed
  <2>3. projects' \in [Users -> ProjectSet] /\ calls' \in 0..MaxCalls
    BY <2>1, <2>2, Bounds DEF EditProject, IInv, Typed
  <2>4. UNCHANGED <<threads, now, touched>>
    BY <2>1 DEF EditProject
  <2>5. QED BY <1>1, <1>2, <2>3, <2>4 DEF IInv, Typed, ThreadOK, CallOK, Holding, SeesNone
<1>4. CASE Restart
  <2>1. threads' \in [Threads -> CallSet] /\ touched' \in [Threads -> SUBSET Ids']
    BY <1>4, IdleOK DEF Restart
  <2>2. \A t \in Threads : threads'[t] = Idle
    BY <1>4 DEF Restart
  <2>3. \A t \in Threads : CallOK(threads[t])'
    BY <1>1, <2>2, IdleOK DEF CallOK
  <2>4. \A t \in Threads : ThreadOK(t)'
    BY <2>2, <2>3, IdleOK DEF ThreadOK, Holding, SeesNone, None
  <2>5. QED BY <1>1, <1>2, <1>4, <2>1, <2>4 DEF Restart, IInv, Typed
<1>5. CASE Tick \/ UNCHANGED vars
  <2>1. UNCHANGED <<threads, touched, projects, calls>> /\ now' \in 1..MaxTime
    BY <1>5, Bounds DEF Tick, vars, IInv, Typed
  <2>2. QED BY <1>1, <1>2, <2>1 DEF IInv, Typed, ThreadOK, CallOK, Holding, SeesNone
<1>6. QED BY <1>3, <1>4, <1>5

LEMMA NextIInv == IInv /\ [Next]_vars => IInv'
<1> SUFFICES ASSUME IInv, [Next]_vars PROVE IInv'
  OBVIOUS
<1>1. CASE \E t \in Threads : ThreadStep(t)
  <2>1. PICK t \in Threads : ThreadStep(t)
    BY <1>1
  <2>2. QED BY <2>1, StartStep, LookStep, StoreStep, CountStep, CheckStep, SummarizeStep, AnswerStep,
               ExtractStep, FieldsStep, ListStep, MarkStep DEF ThreadStep
<1>2. CASE \E o \in Users, i \in Ids : Forget(o, i) \/ \E c \in Texts : Update(o, i, c)
  BY <1>2, ForgetStep, UpdateStep
<1>3. CASE \E f \in Facts, c \in Texts : Bootstrap(f, c)
  BY <1>3, BootstrapStep
<1>4. CASE \/ \E o \in Users, c \in Texts : EditProject(o, {c}) \/ EditProject(o, {})
           \/ Restart \/ Tick \/ UNCHANGED vars
  BY <1>4, RestStep
<1>5. QED BY <1>1, <1>2, <1>3, <1>4 DEF Next

-----------------------------------------------------------------------------
(* The inductive invariant holds of every behaviour of the memory's calls. *)
THEOREM MemoryInvariant == Spec => []IInv
<1>1. QED BY InitIInv, NextIInv, PTL DEF Spec

(* TypeOK: rows, projects and calls stay within their types, and an answer *)
(* names a row that is there.                                              *)
THEOREM MemoryTypes == Spec => []TypeOK
<1>1. IInv => TypeOK
  <2> SUFFICES ASSUME IInv PROVE TypeOK
    OBVIOUS
  <2>1. \A t \in Threads : threads[t] \in CallSet /\ CallOK(threads[t])
    BY DEF IInv, Typed, ThreadOK
  <2>2. \A t \in Threads : /\ threads[t].at \in Steps
                           /\ threads[t].at \in {"idle", "look", "list"} => threads[t].id = 0
                           /\ threads[t].at = "answer" => threads[t].id \in Ids
    BY <2>1 DEF CallSet, CallOK
  <2>3. QED BY <2>2 DEF IInv, Typed, TypeOK, RowSet, Keys, ProjectSet, Steps
<1>2. QED BY <1>1, MemoryInvariant, PTL

(* NoDuplicateRemember: however the look-ups and the inserts of any number *)
(* of calls interleave, a text remembered twice has one live row.          *)
THEOREM RememberedOnce == Spec => []NoDuplicateRemember
<1>1. IInv => NoDuplicateRemember
  <2> SUFFICES ASSUME IInv, NEW i \in Ids, NEW j \in Ids, rows[i].live, rows[j].live,
                      rows[i].source = "tool", rows[j].source = "tool", ~rows[i].edited, ~rows[j].edited,
                      rows[i].owner = rows[j].owner, rows[i].scope = rows[j].scope,
                      rows[i].content = rows[j].content
               PROVE  i = j
    BY DEF NoDuplicateRemember
  <2>1. rows[i].key = rows[j].key
    BY DEF IInv, WellKept
  <2>2. QED BY <2>1 DEF IInv, Unique, SameIdentity
<1>2. QED BY <1>1, MemoryInvariant, PTL

(* RememberedOrTaken: what remember returns is there and holds the text,   *)
(* unless another call changed that row under it.                          *)
THEOREM AnswersAreTrue == Spec => []RememberedOrTaken
<1>1. IInv => RememberedOrTaken
  BY DEF IInv, ThreadOK, Holding, RememberedOrTaken
<1>2. QED BY <1>1, MemoryInvariant, PTL

-----------------------------------------------------------------------------
(* The ways in which the table changes.                                    *)

Untouched == rows' = rows
Inserted == \E r : /\ New(r) /\ Upsert(r)
                   /\ r.source = "summary" => \E t \in Threads : /\ threads[t].at = "summarize"
                                                                 /\ r.bucket = threads[t].bucket
Altered == \E i \in Ids : /\ rows[i].live /\ Ids' = Ids
                          /\ \A j \in Ids \ {i} : rows'[j] = rows[j]
                          /\ rows'[i].edited \/ rows'[i].content = rows[i].content
Used == Ids' = Ids /\ \A j \in Ids : Marked(rows'[j], rows[j])

LEMMA EveryChange == IInv /\ [Next]_vars => Untouched \/ Inserted \/ Altered \/ Used
<1> SUFFICES ASSUME IInv, [Next]_vars PROVE Untouched \/ Inserted \/ Altered \/ Used
  OBVIOUS
<1>1. ASSUME NEW t \in Threads, ThreadStep(t) PROVE Untouched \/ Inserted \/ Used
  <2> DEFINE c == threads[t]
  <2>1. c \in CallSet /\ CallOK(c) /\ now \in Nat
    BY DEF IInv, Typed, ThreadOK
  <2>2. CASE Store(t)
    <3>1. c.owner \in Users /\ Upsert(NewRow(c))
      BY <2>1, <2>2 DEF Store, CallOK
    <3>2. New(NewRow(c)) /\ NewRow(c).source = "tool"
      BY <2>1, <3>1, NewRowIsNew DEF NewRow, Row
    <3>3. QED BY <3>1, <3>2 DEF Inserted
  <2>3. CASE Summarize(t)
    <3>1. c.at = "summarize" /\ c.ids \in SUBSET Texts /\ Upsert(Summary(c))
      BY <2>1, <2>3 DEF Summarize, CallOK
    <3>2. New(Summary(c)) /\ Summary(c).bucket = c.bucket
      BY <2>1, <3>1, SummaryIsNew DEF Summary, Row
    <3>3. QED BY <3>1, <3>2 DEF Inserted
  <2>4. CASE Extract(t)
    <3>1. c.owner \in Users /\ c.job \in {"extract", "session", "family"} /\ Upsert(Extracted(c))
      BY <2>1, <2>4 DEF Extract, CallOK
    <3>2. New(Extracted(c))
      BY <2>1, <3>1, ExtractedIsNew
    <3>3. Extracted(c).source \in {"extract", "family"}
      BY <3>1 DEF Extracted, Row
    <3>4. QED BY <3>1, <3>2, <3>3 DEF Inserted
  <2>5. CASE Mark(t)
    BY <2>5, MarkEffect DEF Used
  <2>6. CASE \/ Start(t) \/ Look(t) \/ Count(t) \/ Check(t) \/ Answer(t) \/ Fields(t) \/ Event(t) \/ List(t)
    BY <2>6 DEF Start, Look, Count, Check, Answer, Fields, Event, List, Untouched
  <2>7. QED BY <1>1, <2>2, <2>3, <2>4, <2>5, <2>6 DEF ThreadStep
<1>2. ASSUME NEW o \in Users, NEW i \in Ids, Forget(o, i) \/ \E c \in Texts : Update(o, i, c) PROVE Altered
  <2>1. rows[i].live /\ \E new : rows' = [rows EXCEPT ![i] = new]
    BY <1>2 DEF Forget, Update
  <2>2. Ids' = Ids /\ \A j \in Ids \ {i} : rows'[j] = rows[j]
    BY <2>1 DEF Ids
  <2>3. rows[i] \in RowSet /\ rows \in Seq(RowSet)
    BY DEF IInv, Typed, Ids
  <2>4. rows'[i].edited \/ rows'[i].content = rows[i].content
    BY <1>2, <2>3 DEF Forget, Forgotten, Update, Edited, RowSet, Ids
  <2>5. QED BY <2>1, <2>2, <2>4 DEF Altered
<1>3. ASSUME NEW f \in Facts, NEW c \in Texts, Bootstrap(f, c) PROVE Inserted
  <2>1. New(Fact(f, c)) /\ Fact(f, c).source = "bootstrap"
    BY FactIsNew DEF Fact, Row
  <2>2. QED BY <1>3, <2>1 DEF Bootstrap, Inserted
<1>4. CASE \/ \E o \in Users, c \in Texts : EditProject(o, {c}) \/ EditProject(o, {})
           \/ Restart \/ Tick \/ UNCHANGED vars
  BY <1>4 DEF EditProject, Restart, Tick, vars, Untouched
<1>5. QED BY <1>1, <1>2, <1>3, <1>4 DEF Next

LEMMA ForgottenStays ==
  ASSUME IInv, [Next]_vars, NEW i \in Ids, ~rows[i].live
  PROVE  rows'[i] = [rows[i] EXCEPT !.used = rows'[i].used]
<1>1. rows[i] \in RowSet
  BY DEF IInv, Typed, Ids
<1>2. Marked(rows[i], rows[i])
  BY <1>1 DEF Marked, RowSet
<1>3. CASE Untouched
  BY <1>2, <1>3 DEF Untouched, Marked
<1>4. CASE Inserted
  <2>1. PICK r : New(r) /\ Upsert(r)
    BY <1>4 DEF Inserted
  <2>2. Writes(UpsertId(r), r)
    BY <2>1, UpsertWrites DEF New, IInv
  <2>3. rows'[i] = rows[i]
    BY <2>2 DEF Writes, Conflicts
  <2>4. QED BY <1>2, <2>3 DEF Marked
<1>5. CASE Altered
  BY <1>2, <1>5 DEF Altered, Marked
<1>6. CASE Used
  BY <1>6 DEF Used, Marked
<1>7. QED BY <1>3, <1>4, <1>5, <1>6, EveryChange

(* A row that is overwritten had the key of what overwrites it, so where   *)
(* both keys are the hash of the text the text is the same.                *)
LEMMA UneditedStays ==
  ASSUME IInv, [Next]_vars, NEW i \in Ids, rows[i].key[1] = "hash", ~rows[i].edited
  PROVE  rows'[i].content = rows[i].content \/ rows'[i].edited
<1>1. rows[i] \in RowSet /\ WellKept(rows[i])
  BY DEF IInv, Typed, Ids
<1>2. CASE Untouched
  BY <1>2 DEF Untouched
<1>3. CASE Inserted
  <2>1. PICK r : New(r) /\ Upsert(r)
    BY <1>3 DEF Inserted
  <2>2. Writes(UpsertId(r), r)
    BY <2>1, UpsertWrites DEF New, IInv
  <2>3. CASE i # UpsertId(r)
    BY <2>2, <2>3 DEF Writes
  <2>4. CASE i = UpsertId(r)
    <3>1. rows[i].key = r.key /\ rows'[i].content = r.content
      BY <2>1, <2>2, <2>4, MarkedFields DEF Writes, Conflicts, SameKey, New
    <3>2. r.key = <<"hash", r.content>>
      BY <2>1, <3>1 DEF New, WellKept
    <3>3. rows[i].key = <<"hash", rows[i].content>>
      BY <1>1 DEF WellKept
    <3>4. QED BY <3>1, <3>2, <3>3
  <2>5. QED BY <2>3, <2>4
<1>4. CASE Altered
  BY <1>4 DEF Altered
<1>5. CASE Used
  BY <1>1, <1>5, MarkedFields DEF Used
<1>6. QED BY <1>2, <1>3, <1>4, <1>5, EveryChange

LEMMA ProjectsKept ==
  ASSUME IInv, [Next]_vars, NEW o \in Users
  PROVE  /\ projects[o].events \subseteq projects'[o].events
         /\ projects[o].milestone # {} => projects'[o].milestone # {}
<1>1. projects \in [Users -> ProjectSet] /\ projects[o] \in ProjectSet
  BY DEF IInv, Typed
<1>2. CASE projects' = projects
  BY <1>2
<1>3. ASSUME NEW v \in Users, NEW text \in SUBSET Texts, projects' = [projects EXCEPT ![v] = Merged(@, text)]
      PROVE  /\ projects[o].events \subseteq projects'[o].events
             /\ projects[o].milestone # {} => projects'[o].milestone # {}
  BY <1>1, <1>3, MergedType
<1>4. ASSUME NEW v \in Users, NEW text \in SUBSET Texts,
             projects' = [projects EXCEPT ![v] = Recorded(Merged(@, {}), text)]
      PROVE  /\ projects[o].events \subseteq projects'[o].events
             /\ projects[o].milestone # {} => projects'[o].milestone # {}
  <2>1. CASE o # v
    BY <1>1, <1>4, <2>1
  <2>2. CASE o = v
    <3>1. projects'[o] = Recorded(Merged(projects[o], {}), text)
      BY <1>1, <1>4, <2>2
    <3>2. {} \in SUBSET Texts
      OBVIOUS
    <3>3. /\ Merged(projects[o], {}) \in ProjectSet /\ Merged(projects[o], {}).events = projects[o].events
          /\ projects[o].milestone # {} => Merged(projects[o], {}).milestone # {}
      BY <1>1, <3>2, MergedType
    <3>4. QED BY <3>1, <3>3, RecordedType
  <2>3. QED BY <2>1, <2>2
<1>5. CASE \E t \in Threads : ThreadStep(t)
  <2>1. PICK t \in Threads : ThreadStep(t)
    BY <1>5
  <2>2. CASE Fields(t) \/ Event(t)
    <3>1. threads[t].owner \in Users /\ threads[t].text \in SUBSET Texts
      BY <2>2 DEF Fields, Event, IInv, Typed, ThreadOK, CallOK, CallSet
    <3>2. QED BY <2>2, <3>1, <1>3, <1>4 DEF Fields, Event
  <2>3. CASE ~(Fields(t) \/ Event(t))
    BY <2>1, <2>3, <1>2 DEF ThreadStep, Start, Look, Store, Count, Check, Summarize, Answer, Extract, List, Mark
  <2>4. QED BY <2>2, <2>3
<1>6. CASE \E v \in Users, c \in Texts : EditProject(v, {c}) \/ EditProject(v, {})
  <2>1. PICK v \in Users, c \in Texts : EditProject(v, {c}) \/ EditProject(v, {})
    BY <1>6
  <2>2. {c} \in SUBSET Texts /\ {} \in SUBSET Texts
    OBVIOUS
  <2>3. QED BY <2>1, <2>2, <1>3 DEF EditProject
<1>7. CASE \/ \E v \in Users, i \in Ids : Forget(v, i) \/ \E c \in Texts : Update(v, i, c)
           \/ \E f \in Facts, c \in Texts : Bootstrap(f, c)
           \/ Restart \/ Tick \/ UNCHANGED vars
  BY <1>7, <1>2 DEF Forget, Update, Bootstrap, Restart, Tick, vars
<1>8. QED BY <1>5, <1>6, <1>7 DEF Next

(* Durable: no call ever brings a forgotten memory back or rewrites it, and*)
(* neither a milestone nor an event of a project is lost.                  *)
THEOREM MemoryIsDurable == Spec => Durable
<1>1. IInv /\ [Next]_vars =>
        [/\ \A i \in Ids : ~rows[i].live => rows'[i] = [rows[i] EXCEPT !.used = rows'[i].used]
         /\ \A o \in Users : /\ projects[o].events \subseteq projects'[o].events
                             /\ projects[o].milestone # {} => projects'[o].milestone # {}]_vars
  BY ForgottenStays, ProjectsKept
<1>2. QED BY <1>1, MemoryInvariant, PTL DEF Spec, Durable

(* UneditedIsKept: the finding's exact extent.  Only a text whose row its  *)
(* user has rewritten can be overwritten under the key of another text.    *)
THEOREM UneditedTextsAreKept == Spec => UneditedIsKept
<1>1. IInv /\ [Next]_vars =>
        [\A i \in Ids : rows[i].key[1] = "hash" /\ ~rows[i].edited =>
           rows'[i].content = rows[i].content \/ rows'[i].edited]_vars
  BY UneditedStays
<1>2. QED BY <1>1, MemoryInvariant, PTL DEF Spec, UneditedIsKept

(* SummaryOnce: a second summary of a bucket is stored only by a call under*)
(* which the first one was.                                                *)
THEOREM OneSummaryPerBucket == Spec => SummaryOnce
<1>1. ASSUME IInv, [Next]_vars, NEW i \in DOMAIN rows' \ Ids, rows'[i].source = "summary"
      PROVE  \E t \in Threads :
               /\ threads[t].at = "summarize"
               /\ \A j \in Ids : rows[j].source = "summary" /\ rows[j].bucket = rows'[i].bucket
                                => j \in touched[t]
  <2>1. Inserted
    BY <1>1, EveryChange DEF Untouched, Altered, Used, Ids
  <2>2. PICK r : /\ New(r) /\ Upsert(r)
                 /\ r.source = "summary" => \E t \in Threads : /\ threads[t].at = "summarize"
                                                               /\ r.bucket = threads[t].bucket
    BY <2>1 DEF Inserted
  <2>3. Writes(UpsertId(r), r)
    BY <1>1, <2>2, UpsertWrites DEF New, IInv
  <2>4. i = UpsertId(r)
    BY <1>1, <2>3 DEF Writes, Changes, Ids
  <2>5. rows'[i].source = r.source /\ rows'[i].bucket = r.bucket
    BY <2>2, <2>3, <2>4, MarkedFields DEF Writes, New
  <2>6. PICK t \in Threads : threads[t].at = "summarize" /\ r.bucket = threads[t].bucket
    BY <1>1, <2>2, <2>5
  <2>7. SeesNone(t)
    BY <1>1 DEF IInv, ThreadOK
  <2>8. QED BY <2>5, <2>6, <2>7 DEF SeesNone
<1>2. IInv /\ [Next]_vars =>
        [\A i \in DOMAIN rows' \ Ids : rows'[i].source = "summary" =>
           \E t \in Threads :
              /\ threads[t].at = "summarize"
              /\ \A j \in Ids : rows[j].source = "summary" /\ rows[j].bucket = rows'[i].bucket
                               => j \in touched[t]]_vars
  BY <1>1
<1>3. QED BY <1>2, MemoryInvariant, PTL DEF Spec, SummaryOnce

=============================================================================
