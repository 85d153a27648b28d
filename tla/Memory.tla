------------------------------- MODULE Memory -------------------------------
(***************************************************************************)
(* The long-term memory (src/app/memory): the rows of table `memories` and *)
(* of `projects`, and the calls that read and write them.  Every call runs *)
(* in a worker thread and is a sequence of SQLite transactions; a thread   *)
(* whose request has passed its deadline is not stopped, so calls overlap. *)
(*                                                                         *)
(* A text is a model value; the text of an automatic summary is the set of *)
(* the texts it sums up.  One project is modelled: `project`, `namespace`  *)
(* and the project's key are constant, and so is the type given to the     *)
(* remember tool.  How often and when a row was used is one bit.           *)
(***************************************************************************)
EXTENDS Naturals, Sequences, FiniteSets

CONSTANTS
    Users,      \* Telegram users, the owners of personal rows
    System,     \* owner_id 0: bootstrap, family and summary rows
    Texts,      \* what may be remembered
    Threads,    \* worker threads that may run a call at the same time
    Facts,      \* keys of the bootstrap file
    Threshold,  \* summary_threshold: the rows that make a summary due
    Ttl,        \* how long a session summary lives (14 days)
    MaxRows,    \* bound: rows ever inserted
    MaxTime,    \* bound: clock
    MaxCalls    \* bound: calls ever started

ASSUME MemoryAssumption ==
    /\ System \notin Users
    /\ {Threshold, MaxRows, MaxTime} \subseteq Nat \ {0}
    /\ {Ttl, MaxCalls} \subseteq Nat

VARIABLES
    rows,       \* the table memories, by id; AUTOINCREMENT, no row is deleted
    projects,   \* owner -> the milestone of its project and its events
    threads,    \* thread -> the call it runs
    now,        \* wall clock
    calls,      \* calls started so far
    touched     \* history: thread -> rows others have changed during its call

vars == <<rows, projects, threads, now, calls, touched>>

Owners == Users \union {System}
None == "none"
Never == 0
Jobs == {"remember", "extract", "session", "family", "recall"}
Scopes == {"project", "session", "preference"}

(* A call; rest is what it holds between two of its transactions.          *)
Call(job, step, owner, text) ==
    [at |-> step, job |-> job, owner |-> owner, text |-> text, id |-> 0, ids |-> {}, bucket |-> 0]
Idle == Call(None, "idle", System, {})

Row(owner, scope, key, content, source, expires) ==
    [owner |-> owner, scope |-> scope, key |-> key, content |-> content, source |-> source,
     expires |-> expires, bucket |-> 0, live |-> TRUE, edited |-> FALSE, used |-> FALSE]

(* A fact of the command line's bootstrap.                                 *)
Fact(f, c) == Row(System, "project", <<"named", {f}>>, {c}, "bootstrap", Never)

(* The database is new, or an operator has bootstrapped it.                *)
Init ==
    /\ rows \in {<<>>} \union {<<Fact(f, c)>> : f \in Facts, c \in Texts}
    /\ projects = [o \in Users |-> [milestone |-> {}, events |-> {}]]
    /\ threads = [t \in Threads |-> Idle]
    /\ now = 1
    /\ calls = 0
    /\ touched = [t \in Threads |-> {}]

-----------------------------------------------------------------------------
(* The storage's statements.                                               *)

Ids == DOMAIN rows
(* list_active: neither forgotten nor expired.                             *)
Active(i) == rows[i].live /\ (rows[i].expires = Never \/ rows[i].expires > now)

(* The row the partial unique index finds for a key.                       *)
SameKey(r) == {i \in Ids : rows[i].owner = r.owner /\ rows[i].scope = r.scope /\ rows[i].key = r.key}
Conflicts_Forgotten(r) == SameKey(r)
Conflicts_None(r) == {}
Conflicts(r) == {i \in SameKey(r) : rows[i].live}
UpsertId(r) == IF Conflicts(r) = {} THEN Len(rows) + 1 ELSE CHOOSE i \in Conflicts(r) : TRUE

(* upsert_memory: one INSERT .. ON CONFLICT DO UPDATE.                     *)
Upsert(r) ==
    /\ Conflicts(r) # {} \/ Len(rows) < MaxRows
    /\ rows' = IF Conflicts(r) = {} THEN Append(rows, r)
               ELSE [rows EXCEPT ![UpsertId(r)] = [r EXCEPT !.used = rows[UpsertId(r)].used]]

(* find_duplicate: by owner and content; expiry is not asked.              *)
Duplicates_Forgotten(c) == {i \in Ids : rows[i].owner = c.owner /\ rows[i].content = c.text}
Duplicates(c) == {i \in Ids : rows[i].live /\ rows[i].owner = c.owner /\ rows[i].content = c.text}

(* The calls in flight under which row i changes.                          *)
Touch(others, i) == touched' = [u \in Threads |-> IF u \in others /\ threads[u].at # "idle"
                                                  THEN touched[u] \union {i} ELSE touched[u]]
Others(t) == Threads \ {t}
Return(t) == /\ threads' = [threads EXCEPT ![t] = Idle]
             /\ touched' = [touched EXCEPT ![t] = {}]
Goto(t, step) == threads' = [threads EXCEPT ![t].at = step]

-----------------------------------------------------------------------------
(* A request's call: a tool the model asked for, the automatic extraction  *)
(* from the user's text, the family note, or the recall for the prompt.    *)
FirstStep(job) == CASE job = "remember" -> "look" [] job = "recall" -> "list" [] OTHER -> "upsert"
Start(t) ==
    /\ threads[t].at = "idle"
    /\ calls < MaxCalls
    /\ \E job \in Jobs, o \in Users, c \in Texts :
        threads' = [threads EXCEPT ![t] = Call(job, FirstStep(job), o,
                                                 IF job = "recall" THEN {} ELSE {c})]
    /\ calls' = calls + 1
    /\ touched' = [touched EXCEPT ![t] = {}]
    /\ UNCHANGED <<rows, projects, now>>

(* MemoryManager.remember, first transaction: an exact duplicate is the    *)
(* answer.                                                                 *)
Look(t) ==
    /\ threads[t].at = "look"
    /\ LET d == Duplicates(threads[t]) IN
        \/ d = {} /\ Goto(t, "store")
        \/ \E first \in d : /\ \A i \in d : first <= i
                            /\ threads' = [threads EXCEPT ![t].at = "answer", ![t].id = first]
    /\ UNCHANGED <<rows, projects, now, calls, touched>>

(* create: a row of its own, its key the hash of its content.              *)
NewRow_KeyOfNoText(c) == Row(c.owner, "project", <<"hash", {}>>, c.text, "tool", Never)
NewRow(c) == Row(c.owner, "project", <<"hash", c.text>>, c.text, "tool", Never)
Store(t) ==
    /\ threads[t].at = "store"
    /\ Upsert(NewRow(threads[t]))
    /\ threads' = [threads EXCEPT ![t].at = "count", ![t].id = UpsertId(NewRow(threads[t]))]
    /\ Touch(Others(t), UpsertId(NewRow(threads[t])))
    /\ UNCHANGED <<projects, now, calls>>

(* maybe_summarize counts the rows of the system only (list_active without *)
(* an owner).                                                              *)
Summarized == {i \in Ids : Active(i) /\ rows[i].owner = System /\ rows[i].source = "bootstrap"}
Bucket == Cardinality(Summarized) \div Threshold
Count(t) ==
    /\ threads[t].at = "count"
    /\ threads' = [threads EXCEPT ![t].at = IF Bucket = 0 THEN "answer" ELSE "check",
                                  ![t].bucket = Bucket,
                                  ![t].ids = UNION {rows[i].content : i \in Summarized}]
    /\ UNCHANGED <<rows, projects, now, calls, touched>>

SummaryOf_SameText(b) == {i \in Ids : Active(i) /\ rows[i].source = "summary"
                                       /\ rows[i].content = UNION {rows[j].content : j \in Summarized}}
SummaryOf(b) == {i \in Ids : Active(i) /\ rows[i].source = "summary" /\ rows[i].bucket = b}
Check(t) ==
    /\ threads[t].at = "check"
    /\ Goto(t, IF SummaryOf(threads[t].bucket) = {} THEN "summarize" ELSE "answer")
    /\ UNCHANGED <<rows, projects, now, calls, touched>>

Summary(c) == [Row(System, "session", <<"hash", c.ids>>, c.ids, "summary", Never)
               EXCEPT !.bucket = c.bucket]
Summarize(t) ==
    /\ threads[t].at = "summarize"
    /\ Upsert(Summary(threads[t]))
    /\ Goto(t, "answer")
    /\ Touch(Others(t), UpsertId(Summary(threads[t])))
    /\ UNCHANGED <<projects, now, calls>>

Answer(t) ==
    /\ threads[t].at = "answer"
    /\ Return(t)
    /\ UNCHANGED <<rows, projects, now, calls>>

-----------------------------------------------------------------------------
(* extract_and_remember and remember_family: a fact under a key of its     *)
(* own; "next task" also goes to the project and its events, a session     *)
(* fact expires.                                                           *)
Extracted(c) ==
    CASE c.job = "extract" -> Row(c.owner, "project", <<"named", {"next_task"}>>, c.text, "extract", Never)
      [] c.job = "session" -> Row(c.owner, "session", <<"named", {"working_tree"}>>, c.text, "extract", now + Ttl)
      [] c.job = "family"  -> Row(System, "preference", <<"hash", c.text>>, c.text, "family", Never)
Extract(t) ==
    /\ threads[t].at = "upsert"
    /\ Upsert(Extracted(threads[t]))
    /\ threads' = [threads EXCEPT ![t].at = IF threads[t].job = "extract" THEN "fields" ELSE "answer",
                                  ![t].id = UpsertId(Extracted(threads[t]))]
    /\ Touch(Others(t), UpsertId(Extracted(threads[t])))
    /\ UNCHANGED <<projects, now, calls>>

(* upsert_project: an empty field leaves what is there.                    *)
Merged(p, text) == [p EXCEPT !.milestone = IF text # {} THEN text ELSE @]
Fields(t) ==
    /\ threads[t].at = "fields"
    /\ projects' = [projects EXCEPT ![threads[t].owner] = Merged(@, threads[t].text)]
    /\ Goto(t, "event")
    /\ UNCHANGED <<rows, now, calls, touched>>

(* record_project_event: update_project with a name only, then the event   *)
(* under its deduplication key.                                            *)
Recorded(p, text) == [p EXCEPT !.events = @ \union {text}]
Event(t) ==
    /\ threads[t].at = "event"
    /\ projects' = [projects EXCEPT ![threads[t].owner] = Recorded(Merged(@, {}), threads[t].text)]
    /\ Goto(t, "answer")
    /\ UNCHANGED <<rows, now, calls, touched>>

-----------------------------------------------------------------------------
(* recall: the user's rows and the system's, for a family member only what *)
(* is personal or the family's; afterwards, in another transaction, the    *)
(* marks of their use.                                                     *)
Recalled(o) == {i \in Ids : Active(i) /\ rows[i].owner \in {o, System}}
FamilySafe(o) == {i \in Recalled(o) : /\ rows[i].owner = o \/ rows[i].source = "family"
                                      /\ rows[i].scope # "project"}
List(t) ==
    /\ threads[t].at = "list"
    /\ \E found \in {Recalled(threads[t].owner), FamilySafe(threads[t].owner)} :
          threads' = [threads EXCEPT ![t].at = "mark", ![t].ids = found]
    /\ UNCHANGED <<rows, projects, now, calls, touched>>
Mark(t) ==
    /\ threads[t].at = "mark"
    /\ rows' = [i \in Ids |-> IF i \in threads[t].ids THEN [rows[i] EXCEPT !.used = TRUE] ELSE rows[i]]
    /\ Return(t)
    /\ UNCHANGED <<projects, now, calls>>

(* update_memory and forget: one statement each, on a live row of the      *)
(* caller.  update leaves the key.                                         *)
Edited(r, c) == [r EXCEPT !.content = {c}, !.edited = TRUE]
Update(o, i, c) ==
    /\ calls < MaxCalls
    /\ rows[i].live /\ rows[i].owner = o
    /\ rows' = [rows EXCEPT ![i] = Edited(@, c)]
    /\ calls' = calls + 1
    /\ Touch(Threads, i)
    /\ UNCHANGED <<projects, threads, now>>
Forgotten(r) == [r EXCEPT !.live = FALSE]
Forget(o, i) ==
    /\ rows[i].live /\ rows[i].owner = o
    /\ rows' = [rows EXCEPT ![i] = Forgotten(@)]
    /\ Touch(Threads, i)
    /\ UNCHANGED <<projects, threads, now, calls>>

(* The command line's bootstrap, a process of its own: facts of the system *)
(* under the keys of a file, which may say something else the next time.   *)
Bootstrap(f, c) ==
    /\ calls < MaxCalls
    /\ Upsert(Fact(f, c))
    /\ calls' = calls + 1
    /\ Touch(Threads, UpsertId(Fact(f, c)))
    /\ UNCHANGED <<projects, threads, now>>

(* update_project_memory sends every field, an empty one included.         *)
EditProject(o, text) ==
    /\ calls < MaxCalls
    /\ projects' = [projects EXCEPT ![o] = Merged(@, text)]
    /\ calls' = calls + 1
    /\ UNCHANGED <<rows, threads, now, touched>>

(* The process restarts: the calls in flight are gone, the rows stay.      *)
Restart ==
    /\ threads' = [t \in Threads |-> Idle]
    /\ touched' = [t \in Threads |-> {}]
    /\ UNCHANGED <<rows, projects, now, calls>>

(* Nothing but a row that is yet to expire tells one instant from another. *)
Tick == /\ now < MaxTime
        /\ \E i \in Ids : rows[i].expires > now
        /\ now' = now + 1
        /\ UNCHANGED <<rows, projects, threads, calls, touched>>

ThreadStep(t) == \/ Start(t) \/ Look(t) \/ Store(t) \/ Count(t) \/ Check(t) \/ Summarize(t)
                 \/ Answer(t) \/ Extract(t) \/ Fields(t) \/ Event(t) \/ List(t) \/ Mark(t)
Next ==
    \/ \E t \in Threads : ThreadStep(t)
    \/ \E o \in Users, i \in Ids : Forget(o, i) \/ \E c \in Texts : Update(o, i, c)
    \/ \E f \in Facts, c \in Texts : Bootstrap(f, c)
    \/ \E o \in Users, c \in Texts : EditProject(o, {c}) \/ EditProject(o, {})
    \/ Restart
    \/ Tick

Spec == Init /\ [][Next]_vars

-----------------------------------------------------------------------------
TypeOK ==
    /\ rows \in Seq([owner : Owners, scope : Scopes,
                     key : {"hash", "named"} \X SUBSET (Texts \union Facts \union {"next_task", "working_tree"}),
                     content : SUBSET Texts,
                     source : {"tool", "extract", "family", "bootstrap", "summary"},
                     expires : Nat, bucket : Nat, live : BOOLEAN, edited : BOOLEAN, used : BOOLEAN])
    /\ Len(rows) <= MaxRows
    /\ projects \in [Users -> [milestone : SUBSET Texts, events : SUBSET SUBSET Texts]]
    /\ \A t \in Threads : /\ threads[t].at \in {"idle", "look", "store", "count", "check", "summarize", "answer",
                                                "upsert", "fields", "event", "list", "mark"}
                          /\ threads[t].at \in {"idle", "look", "list"} => threads[t].id = 0
                          /\ threads[t].at = "answer" => threads[t].id \in Ids
    /\ now \in 1..MaxTime /\ calls \in 0..MaxCalls
    /\ touched \in [Threads -> SUBSET Ids]

(* Two threads that remember the same text for the same user end up with   *)
(* one row: the look-up and the insert are two transactions, and the key   *)
(* made of the content settles the race (manager.remember, storage.create).*)
NoDuplicateRemember ==
    \A i, j \in Ids :
        LET r == rows[i]
            q == rows[j]
        IN  /\ r.live /\ q.live
            /\ r.source = "tool" /\ q.source = "tool"
            /\ ~r.edited /\ ~q.edited
            /\ <<r.owner, r.scope, r.content>> = <<q.owner, q.scope, q.content>>
            => i = j

(* When remember returns a row, that row is live and holds the text, unless*)
(* somebody else changed that very row during the call.                    *)
RememberedOrTaken ==
    \A t \in Threads : LET c == threads[t] IN
        c.at = "answer" /\ c.job = "remember" =>
            \/ rows[c.id].live /\ rows[c.id].content = c.text
            \/ c.id \in touched[t]

(* A forgotten row stays as it is, whatever is remembered, extracted or    *)
(* marked afterwards, and no call loses a project's milestone or events.   *)
Durable ==
    [][/\ \A i \in Ids : ~rows[i].live => rows'[i] = [rows[i] EXCEPT !.used = rows'[i].used]
       /\ \A o \in Users : /\ projects[o].events \subseteq projects'[o].events
                           /\ projects[o].milestone # {} => projects'[o].milestone # {}]_vars

(* A bucket gets a second summary only from a call during which another    *)
(* call stored the first: counting, looking for a summary and storing it   *)
(* are three transactions (manager.maybe_summarize).                       *)
SummaryOnce ==
    [][\A i \in DOMAIN rows' \ Ids : rows'[i].source = "summary" =>
          \E t \in Threads :
             /\ threads[t].at = "summarize"
             /\ \A j \in Ids : rows[j].source = "summary" /\ rows[j].bucket = rows'[i].bucket
                              => j \in touched[t]]_vars

(* A text kept under its own hash is lost to no later call, unless its user*)
(* has rewritten it since: remembering, extracting, summing up, a family   *)
(* note and the bootstrap overwrite rows by key, in transactions that      *)
(* interleave, and a key outlives the text it was made of                  *)
(* (storage.upsert_memory, storage.update).                                *)
UneditedIsKept ==
    [][\A i \in Ids : rows[i].key[1] = "hash" /\ ~rows[i].edited =>
          rows'[i].content = rows[i].content \/ rows'[i].edited]_vars

(* storage.create: "Legacy creates use a content hash-like stable key only *)
(* for exact dedup": storing a text never changes a row that holds another.*)
DedupIsExact ==
    [][\A t \in Threads : Store(t) => \A i \in Ids : rows'[i].content = rows[i].content]_vars

=============================================================================
