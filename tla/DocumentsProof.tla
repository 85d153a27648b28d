--------------------------- MODULE DocumentsProof ---------------------------
(***************************************************************************)
(* What ingestion, forgetting and both clean-ups keep between the rows and *)
(* the storage directory, for any number of chats, threads, documents and  *)
(* faults, whatever the limits and the time to live.                       *)
(***************************************************************************)
EXTENDS Documents, FiniteSetTheorems, TLAPS

-----------------------------------------------------------------------------
(* The inductive invariant.                                                *)

DocRow == [state : {"none", "ready", "forgotten"}, msg : 0..MaxUploads,
           chat : Chats \union {"none"}, expires : Nat, chunks : BOOLEAN]
Handling == [step : {"idle", "download", "check", "extract"}, msg : 0..MaxUploads, doc : 0..MaxDocs]
Work == [at : {"idle", "unlink", "commit"}, doc : 0..MaxDocs, rest : SUBSET Docs]

Typed ==
    /\ messages \in Seq(Chats) /\ Len(messages) <= MaxUploads
    /\ docs \in [Docs -> DocRow]
    /\ handler \in Handling
    /\ workers \in [Workers -> Work]
    /\ bot \in {"up", "lame", "down"}
    /\ now \in Nat
    /\ used \in [forgets : Nat, faults : Nat, names : 0..MaxDocs]

(* The document in work has a name of its own, which no row has yet, and   *)
(* its file; what was downloaded for it is gone.                           *)
InWork ==
    /\ handler.step = "extract" =>
          /\ handler.doc \in Docs /\ handler.doc <= used.names
          /\ docs[handler.doc].state = "none" /\ Target(handler.doc) \in files
          /\ Incoming(handler.msg) \notin files
    /\ handler.step # "extract" => handler.doc = 0
    /\ handler.step = "idle" => handler.msg = 0
    /\ handler.step # "idle" => handler.msg \in DOMAIN messages

(* Names are used once.                                                    *)
NamesUsed == \A d \in Docs : docs[d].state # "none" \/ Target(d) \in files => d <= used.names

(* Only documents with a row are forgotten, and a file whose row is about  *)
(* to be forgotten is gone, or the system has refused to remove it.        *)
Forgettable ==
    \A w \in Workers :
        /\ workers[w].at # "idle" => workers[w].doc \in Docs /\ docs[workers[w].doc].state # "none"
        /\ \A d \in workers[w].rest : docs[d].state # "none"
        /\ workers[w].at = "commit" => Target(workers[w].doc) \notin files \/ workers[w].doc \in left

IInv == Typed /\ InWork /\ NamesUsed /\ Forgettable /\ FilesAccounted

-----------------------------------------------------------------------------

LEMMA Names ==
    /\ \A d, e : Target(d) = Target(e) => d = e
    /\ \A m, n : Incoming(m) = Incoming(n) => m = n
    /\ \A d, m : Target(d) # Incoming(m)
  BY DEF Target, Incoming

LEMMA DocsAreNumbers == Docs \subseteq 1..MaxDocs /\ MaxDocs \in Nat /\ MaxUploads \in Nat /\ 0 \notin Docs
  BY DocumentsAssumption DEF Docs

LEMMA InitIInv == Init => IInv
<1> SUFFICES ASSUME Init PROVE IInv
  OBVIOUS
<1> USE DocumentsAssumption DEF Init
<1>1. Typed
  <2>1. <<>> \in Seq(Chats) /\ Len(<<>>) = 0 /\ 0 <= MaxUploads
    OBVIOUS
  <2>2. NoRow \in DocRow /\ Resting \in Handling /\ Idle \in Work
    BY DEF NoRow, DocRow, Resting, Handling, Idle, Work
  <2>3. QED BY <2>1, <2>2 DEF Typed
<1>2. InWork
  BY DEF InWork, Resting
<1>3. NamesUsed
  BY DEF NamesUsed, NoRow
<1>4. Forgettable
  BY DEF Forgettable, Idle
<1>5. FilesAccounted
  BY DEF FilesAccounted, NoRow
<1>6. QED BY <1>1, <1>2, <1>3, <1>4, <1>5 DEF IInv

(* A fault counts.                                                         *)
LEMMA FaultCounts ==
  ASSUME Typed, Fault
  PROVE  /\ used' \in [forgets : Nat, faults : Nat, names : 0..MaxDocs]
         /\ used'.faults > 0 /\ used'.names = used.names
  BY DEF Typed, Fault, Use

LEMMA ForgetCounts ==
  ASSUME Typed, NEW bound, Use("forgets", bound)
  PROVE  /\ used' \in [forgets : Nat, faults : Nat, names : 0..MaxDocs]
         /\ used'.faults = used.faults /\ used'.names = used.names
  BY DEF Typed, Use

-----------------------------------------------------------------------------
(* The handler.                                                            *)

LEMMA BeginStep ==
  ASSUME IInv,
         \/ \E chat \in Chats : SendDocument(chat)
         \/ \E m \in DOMAIN messages : DeliverAgain(m)
  PROVE  IInv'
<1>1. PICK m : /\ handler' = [step |-> "download", msg |-> m, doc |-> 0]
               /\ m \in DOMAIN messages' /\ m \in 1..MaxUploads
               /\ messages' \in Seq(Chats) /\ Len(messages') <= MaxUploads
               /\ DOMAIN messages \subseteq DOMAIN messages'
               /\ \A n \in DOMAIN messages' \ {m} : n \in DOMAIN messages
  <2>1. ASSUME NEW chat \in Chats, SendDocument(chat)
        PROVE  LET m == Len(messages) + 1 IN
               /\ handler' = [step |-> "download", msg |-> m, doc |-> 0]
               /\ m \in DOMAIN messages' /\ m \in 1..MaxUploads
               /\ messages' \in Seq(Chats) /\ Len(messages') <= MaxUploads
               /\ DOMAIN messages \subseteq DOMAIN messages'
               /\ \A n \in DOMAIN messages' \ {m} : n \in DOMAIN messages
    BY <2>1, DocsAreNumbers DEF SendDocument, Begin, IInv, Typed
  <2>2. ASSUME NEW m \in DOMAIN messages, DeliverAgain(m)
        PROVE  /\ handler' = [step |-> "download", msg |-> m, doc |-> 0]
               /\ messages' = messages /\ m \in 1..MaxUploads
    BY <2>2, DocsAreNumbers DEF DeliverAgain, Begin, IInv, Typed
  <2>3. messages \in Seq(Chats) /\ Len(messages) <= MaxUploads
    BY DEF IInv, Typed
  <2>4. QED BY <2>1, <2>2, <2>3
<1>2. handler = Resting /\ UNCHANGED <<docs, files, workers, bot, now, used, left, torn>>
  BY DEF SendDocument, DeliverAgain, Begin
<1>3. Typed'
  <2>1. handler' \in Handling
    BY <1>1, DocsAreNumbers DEF Handling
  <2>2. QED BY <1>1, <1>2, <2>1 DEF IInv, Typed
<1>4. InWork'
  BY <1>1, <1>2 DEF InWork
<1>5. NamesUsed' /\ Forgettable'
  BY <1>2 DEF IInv, NamesUsed, Forgettable
<1>6. FilesAccounted'
  <2>1. \A n \in DOMAIN messages' : Incoming(n) \in files' => handler'.msg = n \/ used'.faults > 0
    <3> SUFFICES ASSUME NEW n \in DOMAIN messages', Incoming(n) \in files', n # m
                 PROVE  used'.faults > 0
      BY <1>1
    <3>1. n \in DOMAIN messages
      BY <1>1
    <3>2. handler.msg # n
      BY <1>2, <3>1 DEF Resting, IInv, Typed
    <3>3. QED BY <1>2, <3>1, <3>2 DEF IInv, FilesAccounted
  <2>2. \A d \in Docs : handler.doc # d
    BY <1>2, DocsAreNumbers DEF Resting
  <2>3. QED BY <1>2, <2>1, <2>2 DEF IInv, FilesAccounted
<1>7. QED BY <1>3, <1>4, <1>5, <1>6 DEF IInv

LEMMA DownloadStep == ASSUME IInv, Download PROVE IInv'
<1>1. /\ handler.step = "download" /\ handler' = [handler EXCEPT !.step = "check"]
      /\ files' = files \union {Incoming(handler.msg)}
      /\ UNCHANGED <<messages, docs, workers, bot, now, used, left, torn>>
  BY DEF Download
<1>2. \A d : Target(d) \in files' <=> Target(d) \in files
  BY <1>1, Names
<1>3. Typed'
  BY <1>1 DEF IInv, Typed, Handling
<1>4. handler'.msg = handler.msg /\ handler'.doc = handler.doc /\ handler'.step = "check"
  BY <1>1 DEF IInv, Typed, Handling
<1>5. InWork'
  BY <1>1, <1>4 DEF IInv, InWork
<1>6. NamesUsed' /\ Forgettable'
  BY <1>1, <1>2 DEF IInv, NamesUsed, Forgettable
<1>7. FilesAccounted'
  <2>1. \A n : Incoming(n) \in files' => n = handler.msg \/ Incoming(n) \in files
    BY <1>1, Names
  <2>2. QED BY <1>1, <1>2, <1>4, <2>1 DEF IInv, FilesAccounted
<1>8. QED BY <1>3, <1>5, <1>6, <1>7 DEF IInv

(* The handler gives up: nothing is left of what it downloaded.            *)
LEMMA GiveUpStep == ASSUME IInv, Refuse \/ Reject PROVE IInv'
<1>1. /\ handler.step # "idle" /\ handler' = Resting
      /\ UNCHANGED <<messages, docs, workers, bot, now, used, left, torn>>
      /\ files' \subseteq files /\ Incoming(handler.msg) \notin files'
  BY DEF Refuse, Reject, Cleaned
<1>2. \A d : Target(d) \in files /\ Target(d) \notin files' => d = handler.doc /\ handler.step = "extract"
  BY Names DEF Refuse, Reject, Cleaned
<1>3. \A d \in Docs : Target(d) \in files' => d # handler.doc
  <2>1. CASE handler.step = "extract"
    BY <2>1, Names DEF Refuse, Reject, Cleaned
  <2>2. CASE handler.step # "extract"
    BY <2>2, DocsAreNumbers DEF IInv, InWork
  <2>3. QED BY <2>1, <2>2
<1>4. Typed'
  BY <1>1, DocsAreNumbers DEF IInv, Typed, Resting, Handling
<1>5. InWork'
  BY <1>1 DEF InWork, Resting
<1>6. NamesUsed' /\ Forgettable'
  BY <1>1 DEF IInv, NamesUsed, Forgettable
<1>7. FilesAccounted'
  <2>1. \A d \in Docs : docs[d].state = "ready" /\ Target(d) \in files => Target(d) \in files'
    BY <1>2 DEF IInv, InWork
  <2>2. \A n \in DOMAIN messages' : Incoming(n) \in files' => used'.faults > 0
    BY <1>1 DEF IInv, FilesAccounted
  <2>3. QED BY <1>1, <1>3, <2>1, <2>2 DEF IInv, FilesAccounted
<1>8. QED BY <1>4, <1>5, <1>6, <1>7 DEF IInv

LEMMA MoveStep == ASSUME IInv, Move PROVE IInv'
<1> DEFINE name == used.names + 1
<1>1. /\ handler.step = "check" /\ used.names < MaxDocs
      /\ used' = [used EXCEPT !.names = @ + 1]
      /\ files' = (files \ {Incoming(handler.msg)}) \union {Target(name)}
      /\ handler' = [handler EXCEPT !.step = "extract", !.doc = name]
      /\ UNCHANGED <<messages, docs, workers, bot, now, left, torn>>
  BY DEF Move, Use
<1>2. name \in Docs /\ name \in 0..MaxDocs /\ name > used.names
  BY <1>1, DocsAreNumbers DEF IInv, Typed, Docs
<1>3. handler'.step = "extract" /\ handler'.doc = name /\ handler'.msg = handler.msg
  BY <1>1 DEF IInv, Typed, Handling
<1>4. used'.names = name /\ used'.faults = used.faults
  BY <1>1 DEF IInv, Typed
<1>5. \A d \in Docs : Target(d) \in files' <=> d = name \/ Target(d) \in files
  BY <1>1, Names
<1>6. docs[name].state = "none" /\ Target(name) \notin files
  BY <1>2, DocsAreNumbers DEF IInv, Typed, DocRow, NamesUsed
<1>7. Incoming(handler.msg) \notin files'
  BY <1>1, Names
<1>8. Typed'
  <2>1. handler' \in Handling
    <3> DEFINE extracting == [handler EXCEPT !.step = "extract"]
    <3>1. extracting \in Handling
      BY DEF IInv, Typed, Handling
    <3>2. [extracting EXCEPT !.doc = name] \in Handling
      BY <3>1, <1>2 DEF Handling
    <3>3. handler' = [extracting EXCEPT !.doc = name]
      BY <1>1
    <3>4. QED BY <3>2, <3>3
  <2>2. used' \in [forgets : Nat, faults : Nat, names : 0..MaxDocs]
    BY <1>1, <1>2 DEF IInv, Typed
  <2>3. QED BY <1>1, <2>1, <2>2 DEF IInv, Typed
<1>9. InWork'
  BY <1>1, <1>2, <1>3, <1>4, <1>5, <1>6, <1>7, DocsAreNumbers DEF IInv, InWork
<1>10. NamesUsed'
  <2> SUFFICES ASSUME NEW d \in Docs, docs[d].state # "none" \/ Target(d) \in files'
               PROVE  d <= name
    BY <1>1, <1>4 DEF NamesUsed
  <2>1. CASE d = name
    BY <2>1, <1>2, DocsAreNumbers
  <2>2. CASE d # name
    <3>1. d <= used.names
      BY <2>2, <1>5 DEF IInv, NamesUsed
    <3>2. QED BY <3>1, DocsAreNumbers DEF IInv, Typed
  <2>3. QED BY <2>1, <2>2
<1>11. Forgettable'
  BY <1>1, <1>5, <1>6 DEF IInv, Forgettable
<1>12. FilesAccounted'
  <2>1. \A m \in DOMAIN messages' : Incoming(m) \in files' => used'.faults > 0
    BY <1>1, <1>4, <1>7, Names DEF IInv, FilesAccounted
  <2>2. \A d \in Docs : handler.doc # d
    BY <1>1, DocsAreNumbers DEF IInv, InWork
  <2>3. QED BY <1>1, <1>3, <1>5, <2>1, <2>2 DEF IInv, FilesAccounted
<1>13. QED BY <1>8, <1>9, <1>10, <1>11, <1>12 DEF IInv

LEMMA BreakStep == ASSUME IInv, Break PROVE IInv'
<1>1. /\ handler.step = "extract" /\ handler' = Resting /\ left' = left \union {handler.doc}
      /\ UNCHANGED <<messages, docs, files, workers, bot, now, torn>>
  BY DEF Break
<1>2. /\ used' \in [forgets : Nat, faults : Nat, names : 0..MaxDocs]
      /\ used'.faults > 0 /\ used'.names = used.names
  BY FaultCounts DEF Break, IInv
<1>3. Typed'
  BY <1>1, <1>2, DocsAreNumbers DEF IInv, Typed, Resting, Handling
<1>4. InWork'
  BY <1>1 DEF InWork, Resting
<1>5. NamesUsed' /\ Forgettable'
  BY <1>1, <1>2 DEF IInv, NamesUsed, Forgettable
<1>6. FilesAccounted'
  BY <1>1, <1>2 DEF IInv, FilesAccounted
<1>7. QED BY <1>3, <1>4, <1>5, <1>6 DEF IInv

LEMMA InsertStep == ASSUME IInv, Insert PROVE IInv'
<1> DEFINE new == handler.doc
           row == [state |-> "ready", msg |-> handler.msg, chat |-> messages[handler.msg],
                   expires |-> now + Ttl, chunks |-> TRUE]
<1>1. /\ handler.step = "extract" /\ handler' = Resting
      /\ docs' = [docs EXCEPT ![new] = row]
      /\ UNCHANGED <<messages, files, workers, bot, now, used, left, torn>>
  BY DEF Insert
<1>2. /\ new \in Docs /\ new <= used.names /\ docs[new].state = "none"
      /\ Target(new) \in files /\ Incoming(handler.msg) \notin files
      /\ handler.msg \in DOMAIN messages
  BY <1>1 DEF IInv, InWork
<1>3. row \in DocRow
  BY <1>2, DocumentsAssumption DEF IInv, Typed, Handling, DocRow
<1>4. docs'[new].state = "ready" /\ docs'[new].chunks /\ \A d \in Docs \ {new} : docs'[d] = docs[d]
  BY <1>1, <1>2 DEF IInv, Typed
<1>5. Typed'
  BY <1>1, <1>2, <1>3, DocsAreNumbers DEF IInv, Typed, Resting, Handling
<1>6. InWork'
  BY <1>1 DEF InWork, Resting
<1>7. NamesUsed'
  BY <1>1, <1>2, <1>4 DEF IInv, NamesUsed
<1>8. Forgettable'
  <2> SUFFICES ASSUME NEW w \in Workers
               PROVE  /\ workers[w].at # "idle" => workers[w].doc \in Docs /\ docs'[workers[w].doc].state # "none"
                      /\ \A d \in workers[w].rest : docs'[d].state # "none"
                      /\ workers[w].at = "commit" => Target(workers[w].doc) \notin files \/ workers[w].doc \in left
    BY <1>1 DEF Forgettable
  <2>1. workers[w].rest \subseteq Docs
    BY DEF IInv, Typed, Work
  <2>2. QED BY <1>2, <1>4, <2>1 DEF IInv, Forgettable
<1>9. FilesAccounted'
  <2>1. \A m \in DOMAIN messages' : Incoming(m) \in files' => used'.faults > 0
    BY <1>1, <1>2 DEF IInv, FilesAccounted
  <2>2. \A d \in Docs \ {new} : Target(d) \in files' => docs'[d].state = "ready" \/ d \in left'
    BY <1>1, <1>4 DEF IInv, FilesAccounted
  <2>3. \A d \in Docs : docs'[d].state = "ready" =>
          \/ Target(d) \in files' /\ docs'[d].chunks
          \/ d \in torn'
          \/ \E w \in Workers : workers'[w].doc = d /\ workers'[w].at = "commit"
    BY <1>1, <1>2, <1>4 DEF IInv, FilesAccounted
  <2>4. \A d \in Docs : docs'[d].state = "forgotten" => ~docs'[d].chunks
    BY <1>4 DEF IInv, FilesAccounted
  <2>5. QED BY <1>4, <2>1, <2>2, <2>3, <2>4 DEF FilesAccounted
<1>10. QED BY <1>5, <1>6, <1>7, <1>8, <1>9 DEF IInv

-----------------------------------------------------------------------------
(* Who forgets.                                                            *)

(* Somebody begins: he holds documents that have rows.                     *)
LEMMA BeginForgetting ==
  ASSUME IInv, NEW w \in Workers, workers[w].at # "commit", NEW d \in Docs, docs[d].state # "none",
         NEW rest \in SUBSET Docs, \A e \in rest : docs[e].state # "none",
         workers' = [workers EXCEPT ![w] = Forgetting(d, rest)],
         used' \in [forgets : Nat, faults : Nat, names : 0..MaxDocs],
         used'.faults = used.faults, used'.names = used.names,
         UNCHANGED <<messages, docs, files, handler, bot, now, left, torn>>
  PROVE  IInv'
<1>1. Forgetting(d, rest) \in Work
  BY DocsAreNumbers DEF Forgetting, Work
<1>2. /\ workers' \in [Workers -> Work]
      /\ workers'[w] = Forgetting(d, rest)
      /\ \A v \in Workers \ {w} : workers'[v] = workers[v]
  BY <1>1 DEF IInv, Typed
<1>3. Typed'
  BY <1>2 DEF IInv, Typed
<1>4. InWork' /\ NamesUsed'
  BY DEF IInv, InWork, NamesUsed
<1>5. Forgettable'
  BY <1>2 DEF IInv, Forgettable, Forgetting
<1>6. FilesAccounted'
  <2>1. \A v \in Workers : workers[v].at = "commit" => workers'[v] = workers[v]
    BY <1>2
  <2>2. QED BY <2>1 DEF IInv, FilesAccounted
<1>7. QED BY <1>3, <1>4, <1>5, <1>6 DEF IInv

LEMMA AskStep == ASSUME IInv, NEW w \in Threads, NEW chat \in Chats, AskToForget(w, chat) PROVE IInv'
<1>1. PICK d \in Newest(chat) \union Owned(chat) : workers' = [workers EXCEPT ![w] = Forgetting(d, {})]
  BY DEF AskToForget
<1>2. d \in Docs /\ docs[d].state # "none"
  BY <1>1 DEF Newest, Owned, Live
<1>3. w \in Workers /\ workers[w].at # "commit"
  BY DEF AskToForget, Idle, Workers
<1>4. /\ used' \in [forgets : Nat, faults : Nat, names : 0..MaxDocs]
      /\ used'.faults = used.faults /\ used'.names = used.names
  BY ForgetCounts DEF AskToForget, IInv
<1>5. UNCHANGED <<messages, docs, files, handler, bot, now, left, torn>>
  BY DEF AskToForget
<1>6. {} \in SUBSET Docs /\ \A e \in {} : docs[e].state # "none"
  OBVIOUS
<1>7. QED BY <1>1, <1>2, <1>3, <1>4, <1>5, <1>6, BeginForgetting

LEMMA CleanupStep == ASSUME IInv, HourlyCleanup \/ CliCleanup PROVE IInv'
<1>1. PICK w \in {"loop", "cli"} : StartCleanup(w)
  BY DEF HourlyCleanup, CliCleanup
<1>2. PICK d \in Listed : workers' = [workers EXCEPT ![w] = Forgetting(d, Listed \ {d})]
  BY <1>1 DEF StartCleanup
<1>3. Listed \subseteq Docs /\ \A e \in Listed : docs[e].state # "none"
  BY DEF Listed, Expired
<1>4. w \in Workers /\ workers[w].at # "commit"
  BY <1>1 DEF StartCleanup, Idle, Workers
<1>5. /\ used' \in [forgets : Nat, faults : Nat, names : 0..MaxDocs]
      /\ used'.faults = used.faults /\ used'.names = used.names
  <2>1. CASE HourlyCleanup
    BY <2>1 DEF HourlyCleanup, IInv, Typed
  <2>2. CASE CliCleanup
    BY <2>2, ForgetCounts DEF CliCleanup, IInv
  <2>3. QED BY <2>1, <2>2
<1>6. UNCHANGED <<messages, docs, files, handler, bot, now, left, torn>>
  BY DEF HourlyCleanup, CliCleanup
<1>7. Listed \ {d} \in SUBSET Docs /\ \A e \in Listed \ {d} : docs[e].state # "none"
  BY <1>3
<1>8. QED BY <1>2, <1>3, <1>4, <1>5, <1>6, <1>7, BeginForgetting

(* From the file to the row.                                               *)
LEMMA UnlinkStep == ASSUME IInv, NEW w \in Workers, Unlink(w) \/ UnlinkRefused(w) PROVE IInv'
<1> DEFINE old == workers[w].doc
<1>1. /\ workers[w].at = "unlink" /\ workers' = [workers EXCEPT ![w].at = "commit"]
      /\ UNCHANGED <<messages, docs, handler, bot, now, torn>>
      /\ files' \subseteq files /\ left \subseteq left'
  BY DEF Unlink, UnlinkRefused
<1>2. /\ workers' \in [Workers -> Work]
      /\ workers'[w].at = "commit" /\ workers'[w].doc = old /\ workers'[w].rest = workers[w].rest
      /\ \A v \in Workers \ {w} : workers'[v] = workers[v]
  BY <1>1 DEF IInv, Typed, Work
<1>3. old \in Docs /\ docs[old].state # "none"
  BY <1>1 DEF IInv, Forgettable
<1>4. /\ used' \in [forgets : Nat, faults : Nat, names : 0..MaxDocs]
      /\ used'.names = used.names
      /\ used.faults > 0 => used'.faults > 0
  <2>1. CASE Unlink(w)
    BY <2>1 DEF Unlink, IInv, Typed
  <2>2. CASE UnlinkRefused(w)
    BY <2>2, FaultCounts DEF UnlinkRefused, IInv
  <2>3. QED BY <2>1, <2>2
<1>5. \A x \in files : x # Target(old) => x \in files'
  BY DEF Unlink, UnlinkRefused
<1>6. Target(old) \notin files' \/ old \in left'
  <2>1. CASE Unlink(w) /\ docs[old].state = "ready"
    BY <2>1 DEF Unlink
  <2>2. CASE Unlink(w) /\ docs[old].state # "ready"
    <3>1. handler.doc # old
      BY <1>3, DocsAreNumbers DEF IInv, InWork
    <3>2. Target(old) \in files => old \in left
      BY <2>2, <3>1, <1>3 DEF IInv, FilesAccounted
    <3>3. QED BY <1>1, <3>2
  <2>3. CASE UnlinkRefused(w)
    BY <2>3 DEF UnlinkRefused
  <2>4. QED BY <2>1, <2>2, <2>3
<1>7. Typed'
  BY <1>1, <1>2, <1>4 DEF IInv, Typed
<1>8. InWork'
  <2>1. handler.step = "extract" => handler.doc # old
    BY <1>3 DEF IInv, InWork
  <2>2. handler.step = "extract" => Target(handler.doc) \in files'
    BY <2>1, <1>5, Names DEF IInv, InWork
  <2>3. QED BY <1>1, <1>4, <2>2 DEF IInv, InWork
<1>9. NamesUsed'
  BY <1>1, <1>4 DEF IInv, NamesUsed
<1>10. Forgettable'
  BY <1>1, <1>2, <1>3, <1>6 DEF IInv, Forgettable
<1>11. FilesAccounted'
  <2>1. \A d \in Docs : Target(d) \in files' => docs'[d].state = "ready" \/ handler'.doc = d \/ d \in left'
    BY <1>1 DEF IInv, FilesAccounted
  <2>2. \A m \in DOMAIN messages' : Incoming(m) \in files' => handler'.msg = m \/ used'.faults > 0
    BY <1>1, <1>4 DEF IInv, FilesAccounted
  <2>3. \A d \in Docs : docs'[d].state = "ready" =>
          \/ Target(d) \in files' /\ docs'[d].chunks
          \/ d \in torn'
          \/ \E v \in Workers : workers'[v].doc = d /\ workers'[v].at = "commit"
    <3> SUFFICES ASSUME NEW d \in Docs, docs[d].state = "ready", d # old
                 PROVE  \/ Target(d) \in files' /\ docs[d].chunks
                        \/ d \in torn
                        \/ \E v \in Workers : workers'[v].doc = d /\ workers'[v].at = "commit"
      BY <1>1, <1>2
    <3>1. Target(d) \in files => Target(d) \in files'
      BY <1>5, Names
    <3>2. ASSUME NEW v \in Workers, workers[v].doc = d, workers[v].at = "commit"
          PROVE  workers'[v].doc = d /\ workers'[v].at = "commit"
      BY <3>2, <1>1, <1>2
    <3>3. QED BY <3>1, <3>2 DEF IInv, FilesAccounted
  <2>4. QED BY <1>1, <2>1, <2>2, <2>3 DEF IInv, FilesAccounted
<1>12. QED BY <1>7, <1>8, <1>9, <1>10, <1>11 DEF IInv

LEMMA CommitStep == ASSUME IInv, NEW w \in Workers, Commit(w) PROVE IInv'
<1> DEFINE old == workers[w].doc
<1>1. PICK following \in Following(w) : workers' = [workers EXCEPT ![w] = following]
  BY DEF Commit
<1>2. /\ workers[w].at = "commit" /\ docs' = [docs EXCEPT ![old] = Forgotten(@)]
      /\ UNCHANGED <<messages, files, handler, bot, now, used, left, torn>>
  BY DEF Commit
<1>3. old \in Docs /\ docs[old].state # "none" /\ (Target(old) \notin files \/ old \in left)
  BY <1>2 DEF IInv, Forgettable
<1>4. workers[w].rest \subseteq Docs /\ \A d \in workers[w].rest : docs[d].state # "none"
  BY DEF IInv, Typed, Work, Forgettable
<1>5. /\ following \in Work /\ following.at # "commit"
      /\ following.at # "idle" => following.doc \in Docs /\ docs[following.doc].state # "none"
      /\ \A d \in following.rest : docs[d].state # "none"
  <2>1. CASE following = Idle
    BY <2>1, DocsAreNumbers DEF Idle, Work
  <2>2. CASE \E d \in workers[w].rest : following = Forgetting(d, workers[w].rest \ {d})
    <3>1. PICK d \in workers[w].rest : following = Forgetting(d, workers[w].rest \ {d})
      BY <2>2
    <3>2. d \in Docs /\ d \in 0..MaxDocs /\ workers[w].rest \ {d} \in SUBSET Docs
      <4>1. d \in Docs
        BY <1>4
      <4>2. workers[w].rest \ {d} \in SUBSET Docs
        BY <1>4
      <4>3. d \in 0..MaxDocs
        BY <4>1, DocsAreNumbers
      <4>4. QED BY <4>1, <4>2, <4>3
    <3>3. /\ following.at = "unlink" /\ following.doc = d
          /\ following.rest = workers[w].rest \ {d} /\ following \in Work
      BY <3>1, <3>2 DEF Forgetting, Work
    <3>4. QED BY <3>2, <3>3, <1>4
  <2>3. following = Idle \/ \E d \in workers[w].rest : following = Forgetting(d, workers[w].rest \ {d})
    BY <1>1 DEF Following
  <2>4. QED BY <2>1, <2>2, <2>3
<1>6. /\ workers' \in [Workers -> Work] /\ workers'[w] = following
      /\ \A v \in Workers \ {w} : workers'[v] = workers[v]
  BY <1>1, <1>5 DEF IInv, Typed
<1>7. /\ docs' \in [Docs -> DocRow] /\ docs'[old].state = "forgotten" /\ ~docs'[old].chunks
      /\ \A d \in Docs \ {old} : docs'[d] = docs[d]
  BY <1>2, <1>3 DEF IInv, Typed, Forgotten, DocRow
<1>8. \A d \in Docs : docs[d].state # "none" <=> docs'[d].state # "none"
  BY <1>3, <1>7
<1>9. Typed'
  BY <1>2, <1>6, <1>7 DEF IInv, Typed
<1>10. InWork'
  BY <1>2, <1>8 DEF IInv, InWork
<1>11. NamesUsed'
  BY <1>2, <1>8 DEF IInv, NamesUsed
<1>12. Forgettable'
  <2> SUFFICES ASSUME NEW v \in Workers
               PROVE  /\ workers'[v].at # "idle" => workers'[v].doc \in Docs /\ docs'[workers'[v].doc].state # "none"
                      /\ \A d \in workers'[v].rest : docs'[d].state # "none"
                      /\ workers'[v].at = "commit" => Target(workers'[v].doc) \notin files \/ workers'[v].doc \in left
    BY <1>2 DEF Forgettable
  <2>1. workers'[v].rest \subseteq Docs
    BY <1>6 DEF Work
  <2>2. CASE v = w
    BY <2>1, <2>2, <1>5, <1>6, <1>8
  <2>3. CASE v # w
    BY <2>1, <2>3, <1>6, <1>8 DEF IInv, Forgettable
  <2>4. QED BY <2>2, <2>3
<1>13. FilesAccounted'
  <2>1. \A d \in Docs : Target(d) \in files' => docs'[d].state = "ready" \/ handler'.doc = d \/ d \in left'
    BY <1>2, <1>3, <1>7 DEF IInv, FilesAccounted
  <2>2. \A m \in DOMAIN messages' : Incoming(m) \in files' => handler'.msg = m \/ used'.faults > 0
    BY <1>2 DEF IInv, FilesAccounted
  <2>3. \A d \in Docs : docs'[d].state = "ready" =>
          \/ Target(d) \in files' /\ docs'[d].chunks
          \/ d \in torn'
          \/ \E v \in Workers : workers'[v].doc = d /\ workers'[v].at = "commit"
    <3> SUFFICES ASSUME NEW d \in Docs, docs[d].state = "ready", d # old
                 PROVE  \/ Target(d) \in files /\ docs[d].chunks
                        \/ d \in torn
                        \/ \E v \in Workers : workers'[v].doc = d /\ workers'[v].at = "commit"
      BY <1>2, <1>7
    <3>1. ASSUME NEW v \in Workers, workers[v].doc = d, workers[v].at = "commit"
          PROVE  workers'[v].doc = d /\ workers'[v].at = "commit"
      BY <3>1, <1>6
    <3>2. QED BY <3>1 DEF IInv, FilesAccounted
  <2>4. \A d \in Docs : docs'[d].state = "forgotten" => ~docs'[d].chunks
    BY <1>7 DEF IInv, FilesAccounted
  <2>5. QED BY <2>1, <2>2, <2>3, <2>4 DEF FilesAccounted
<1>14. QED BY <1>9, <1>10, <1>11, <1>12, <1>13 DEF IInv

(* A worker that stops half-way leaves a document torn.                    *)
LEMMA Stopping ==
  ASSUME IInv, NEW ws \in SUBSET Workers,
         workers' = [w \in Workers |-> IF w \in ws THEN Idle ELSE workers[w]],
         torn' = torn \union HalfDone(ws),
         handler' = handler \/ handler' = Resting,
         handler' # handler /\ handler.step = "extract" => handler.doc \in left',
         left \subseteq left', Fault, bot' \in {"up", "lame", "down"},
         UNCHANGED <<messages, docs, files, now>>
  PROVE  IInv'
<1>1. /\ used' \in [forgets : Nat, faults : Nat, names : 0..MaxDocs]
      /\ used'.faults > 0 /\ used'.names = used.names
  BY FaultCounts DEF IInv
<1>2. Idle \in Work /\ Idle.at = "idle" /\ Idle.rest = {} /\ Resting \in Handling
  BY DocsAreNumbers DEF Idle, Work, Resting, Handling
<1>3. /\ \A w \in ws : workers'[w] = Idle
      /\ \A w \in Workers \ ws : workers'[w] = workers[w]
  OBVIOUS
<1>4. Typed'
  <2>1. workers' \in [Workers -> Work]
    BY <1>2 DEF IInv, Typed
  <2>2. QED BY <1>1, <1>2, <2>1 DEF IInv, Typed
<1>5. InWork'
  <2>1. CASE handler' = handler
    BY <2>1, <1>1 DEF IInv, InWork
  <2>2. CASE handler' = Resting
    BY <2>2 DEF InWork, Resting
  <2>3. QED BY <2>1, <2>2
<1>6. NamesUsed'
  BY <1>1 DEF IInv, NamesUsed
<1>7. Forgettable'
  <2> SUFFICES ASSUME NEW w \in Workers
               PROVE  /\ workers'[w].at # "idle" => workers'[w].doc \in Docs /\ docs[workers'[w].doc].state # "none"
                      /\ \A d \in workers'[w].rest : docs[d].state # "none"
                      /\ workers'[w].at = "commit" => Target(workers'[w].doc) \notin files \/ workers'[w].doc \in left'
    BY DEF Forgettable
  <2>1. CASE w \in ws
    BY <2>1, <1>2, <1>3
  <2>2. CASE w \notin ws
    BY <2>2, <1>3 DEF IInv, Forgettable
  <2>3. QED BY <2>1, <2>2
<1>8. FilesAccounted'
  <2>1. \A d \in Docs : Target(d) \in files' => docs'[d].state = "ready" \/ handler'.doc = d \/ d \in left'
    <3> SUFFICES ASSUME NEW d \in Docs, Target(d) \in files, docs[d].state # "ready", d \notin left
                 PROVE  handler'.doc = d \/ d \in left'
      OBVIOUS
    <3>1. handler.doc = d
      BY DEF IInv, FilesAccounted
    <3>2. handler.step = "extract"
      BY <3>1, DocsAreNumbers DEF IInv, InWork
    <3>3. QED BY <3>1, <3>2
  <2>2. \A d \in Docs : docs'[d].state = "ready" =>
          \/ Target(d) \in files' /\ docs'[d].chunks
          \/ d \in torn'
          \/ \E w \in Workers : workers'[w].doc = d /\ workers'[w].at = "commit"
    <3> SUFFICES ASSUME NEW d \in Docs, NEW w \in Workers, workers[w].doc = d, workers[w].at = "commit"
                 PROVE  d \in torn' \/ (workers'[w].doc = d /\ workers'[w].at = "commit")
      BY DEF IInv, FilesAccounted
    <3>1. CASE w \in ws
      BY <3>1 DEF HalfDone
    <3>2. CASE w \notin ws
      BY <3>2, <1>3
    <3>3. QED BY <3>1, <3>2
  <2>3. QED BY <1>1, <2>1, <2>2 DEF IInv, FilesAccounted
<1>9. QED BY <1>4, <1>5, <1>6, <1>7, <1>8 DEF IInv

LEMMA AbortStep == ASSUME IInv, NEW w \in Workers, Abort(w) PROVE IInv'
<1>1. workers' = [v \in Workers |-> IF v \in {w} THEN Idle ELSE workers[v]]
  BY DEF Abort, IInv, Typed
<1>2. /\ torn' = torn \union HalfDone({w}) /\ Fault
      /\ UNCHANGED <<messages, docs, files, handler, now, left>>
  BY DEF Abort
<1>3. bot' \in {"up", "lame", "down"}
  BY DEF Abort, IInv, Typed
<1>4. {w} \in SUBSET Workers
  OBVIOUS
<1>5. QED BY <1>1, <1>2, <1>3, <1>4, Stopping

LEMMA CrashStep == ASSUME IInv, Crash PROVE IInv'
<1> DEFINE ws == Workers \ {"cli"}
<1>1. workers' = [v \in Workers |-> IF v \in ws THEN Idle ELSE workers[v]]
  BY DEF Crash
<1>2. /\ torn' = torn \union HalfDone(ws) /\ Fault /\ bot' = "down" /\ handler' = Resting
      /\ left \subseteq left' /\ (handler.step = "extract" => handler.doc \in left')
      /\ UNCHANGED <<messages, docs, files, now>>
  BY DEF Crash
<1>3. ws \in SUBSET Workers
  OBVIOUS
<1> HIDE DEF ws
<1>4. QED BY <1>1, <1>2, <1>3, Stopping

LEMMA QuietStep == ASSUME IInv, Boot \/ Tick \/ UNCHANGED vars PROVE IInv'
<1>1. /\ UNCHANGED <<messages, docs, files, handler, workers, used, left, torn>>
      /\ bot' \in {"up", "lame", "down"} /\ now' \in Nat
  BY DEF IInv, Typed, Boot, Tick, vars
<1>2. QED BY <1>1 DEF IInv, Typed, InWork, NamesUsed, Forgettable, FilesAccounted

-----------------------------------------------------------------------------

LEMMA NextIInv == IInv /\ [Next]_vars => IInv'
<1> SUFFICES ASSUME IInv, [Next]_vars PROVE IInv'
  OBVIOUS
<1>1. CASE (\E chat \in Chats : SendDocument(chat)) \/ (\E m \in DOMAIN messages : DeliverAgain(m))
  BY <1>1, BeginStep
<1>2. CASE Download
  BY <1>2, DownloadStep
<1>3. CASE Refuse \/ Reject
  BY <1>3, GiveUpStep
<1>4. CASE Move
  BY <1>4, MoveStep
<1>5. CASE Break
  BY <1>5, BreakStep
<1>6. CASE Insert
  BY <1>6, InsertStep
<1>7. CASE \E w \in Threads, chat \in Chats : AskToForget(w, chat)
  BY <1>7, AskStep
<1>8. CASE HourlyCleanup \/ CliCleanup
  BY <1>8, CleanupStep
<1>9. CASE \E w \in Workers : WorkerStep(w) \/ UnlinkRefused(w) \/ Abort(w)
  BY <1>9, UnlinkStep, CommitStep, AbortStep DEF WorkerStep
<1>10. CASE Crash
  BY <1>10, CrashStep
<1>11. CASE Boot \/ Tick \/ UNCHANGED vars
  BY <1>11, QuietStep
<1>12. QED BY <1>1, <1>2, <1>3, <1>4, <1>5, <1>6, <1>7, <1>8, <1>9, <1>10, <1>11 DEF Next

(* The inductive invariant holds of every behaviour of handle_document,    *)
(* forget and cleanup.                                                     *)
THEOREM DocumentsInvariant == Spec => []IInv
<1>1. QED BY InitIInv, NextIInv, PTL DEF Spec

(* FilesAccounted: no file stays behind unless a fault left it, no ready   *)
(* document lacks its file or its chunks unless a fault tore it, and of a  *)
(* forgotten one no chunk is left (ingest, forget, cleanup).               *)
THEOREM FilesAreAccounted == Spec => []FilesAccounted
<1>1. IInv => FilesAccounted
  BY DEF IInv
<1>2. QED BY <1>1, DocumentsInvariant, PTL

-----------------------------------------------------------------------------
(* The limit and the messages.  Room is asked for before the extraction and*)
(* the row is inserted after it: the invariant says that nobody else uses  *)
(* the room up meanwhile.                                                  *)

LiveDocs == {d \in Docs : Live(d)}
RoomKept ==
    /\ Cardinality(LiveDocs) <= MaxActive
    /\ handler.step = "extract" => Cardinality(LiveDocs) < MaxActive
OneRow == \A d, e \in Docs : docs[d].msg = docs[e].msg /\ docs[d].msg # 0 => d = e
NewMessage == handler.step # "idle" => \A d \in Docs : docs[d].msg # handler.msg
Counted == RoomKept /\ OneRow /\ NewMessage

LEMMA LiveIsFinite == IsFiniteSet(LiveDocs) /\ Cardinality(LiveDocs) \in Nat
<1>1. IsFiniteSet(Docs)
  BY FS_Interval, DocumentsAssumption DEF Docs
<1>2. LiveDocs \subseteq Docs
  BY DEF LiveDocs
<1>3. QED BY <1>1, <1>2, FS_Subset, FS_CardinalityType

LEMMA LiveMayShrink ==
  ASSUME RoomKept, LiveDocs' \subseteq LiveDocs, handler'.step = "extract" => handler.step = "extract"
  PROVE  RoomKept'
<1>1. Cardinality(LiveDocs') <= Cardinality(LiveDocs) /\ Cardinality(LiveDocs') \in Nat
  BY LiveIsFinite, FS_Subset, FS_CardinalityType
<1>2. QED BY <1>1, LiveIsFinite, DocumentsAssumption DEF RoomKept

(* A step that writes no row and starts nothing.                           *)
LEMMA NothingNew ==
  ASSUME Counted, UNCHANGED <<docs, now>>, handler' = handler \/ handler' = Resting
  PROVE  Counted'
<1>1. LiveDocs' = LiveDocs
  BY DEF LiveDocs, Live
<1>2. RoomKept'
  BY <1>1, LiveMayShrink DEF Counted, Resting
<1>3. OneRow' /\ NewMessage'
  BY DEF Counted, OneRow, NewMessage, Resting
<1>4. QED BY <1>2, <1>3 DEF Counted

LEMMA InitCounted == Init => Counted
<1> SUFFICES ASSUME Init PROVE Counted
  OBVIOUS
<1>1. LiveDocs = {}
  BY DEF Init, LiveDocs, Live, NoRow
<1>2. Cardinality(LiveDocs) <= MaxActive
  BY <1>1, FS_EmptySet, DocumentsAssumption
<1>3. QED BY <1>2 DEF Init, Counted, RoomKept, OneRow, NewMessage, NoRow, Resting

LEMMA HandlerCounted ==
  ASSUME IInv, Counted,
         \/ \E chat \in Chats : SendDocument(chat)
         \/ \E m \in DOMAIN messages : DeliverAgain(m)
         \/ Download \/ Move
  PROVE  Counted'
<1>1. UNCHANGED <<docs, now>>
  BY DEF SendDocument, DeliverAgain, Download, Move
<1>2. LiveDocs' = LiveDocs /\ OneRow'
  BY <1>1 DEF LiveDocs, Live, Counted, OneRow
<1>3. CASE (\E chat \in Chats : SendDocument(chat)) \/ (\E m \in DOMAIN messages : DeliverAgain(m))
  <2>1. PICK m : handler' = [step |-> "download", msg |-> m, doc |-> 0] /\ ByMessage(m) = {}
    BY <1>3 DEF SendDocument, DeliverAgain, Begin
  <2>2. NewMessage'
    BY <2>1, <1>1 DEF NewMessage, ByMessage
  <2>3. RoomKept'
    BY <2>1, <1>2, LiveMayShrink DEF Counted
  <2>4. QED BY <1>2, <2>2, <2>3 DEF Counted
<1>4. CASE Download
  <2>1. handler'.step = "check" /\ handler'.msg = handler.msg /\ handler.step = "download"
    BY <1>4 DEF Download, IInv, Typed, Handling
  <2>2. NewMessage'
    BY <2>1, <1>1 DEF Counted, NewMessage
  <2>3. RoomKept'
    BY <2>1, <1>2, LiveMayShrink DEF Counted
  <2>4. QED BY <1>2, <2>2, <2>3 DEF Counted
<1>5. CASE Move
  <2>1. handler'.msg = handler.msg /\ handler.step = "check"
    BY <1>5 DEF Move, IInv, Typed, Handling
  <2>2. NewMessage'
    BY <2>1, <1>1 DEF Counted, NewMessage
  <2>3. Cardinality(LiveDocs) < MaxActive
    BY <1>5 DEF Move, Room, LiveDocs
  <2>4. RoomKept'
    BY <2>3, <1>2 DEF Counted, RoomKept
  <2>5. QED BY <1>2, <2>2, <2>4 DEF Counted
<1>6. QED BY <1>3, <1>4, <1>5

LEMMA InsertCounted == ASSUME IInv, Counted, Insert PROVE Counted'
<1> DEFINE new == handler.doc
<1>1. /\ handler.step = "extract" /\ handler' = Resting /\ now' = now
      /\ new \in Docs /\ docs'[new].msg = handler.msg
      /\ \A d \in Docs \ {new} : docs'[d] = docs[d]
  BY DEF Insert, IInv, Typed, InWork
<1>2. OneRow'
  BY <1>1 DEF Counted, OneRow, NewMessage
<1>3. NewMessage'
  BY <1>1 DEF NewMessage, Resting
<1>4. RoomKept'
  <2>1. LiveDocs' \subseteq LiveDocs \union {new}
    BY <1>1 DEF LiveDocs, Live
  <2>2. /\ IsFiniteSet(LiveDocs \union {new}) /\ Cardinality(LiveDocs \union {new}) \in Nat
        /\ Cardinality(LiveDocs \union {new}) <= Cardinality(LiveDocs) + 1
    BY LiveIsFinite, FS_AddElement, FS_CardinalityType
  <2>3. Cardinality(LiveDocs') <= Cardinality(LiveDocs \union {new}) /\ Cardinality(LiveDocs') \in Nat
    BY <2>1, <2>2, FS_Subset, FS_CardinalityType
  <2>4. Cardinality(LiveDocs) < MaxActive /\ handler'.step = "idle"
    BY <1>1 DEF Counted, RoomKept, Resting
  <2>5. Cardinality(LiveDocs') <= MaxActive
    BY <2>2, <2>3, <2>4, LiveIsFinite, DocumentsAssumption
  <2>6. QED BY <2>4, <2>5 DEF RoomKept
<1>5. QED BY <1>2, <1>3, <1>4 DEF Counted

LEMMA CommitCounted == ASSUME IInv, Counted, NEW w \in Workers, Commit(w) PROVE Counted'
<1> DEFINE old == workers[w].doc
<1>1. docs' = [docs EXCEPT ![old] = Forgotten(@)] /\ UNCHANGED <<handler, now>>
  BY DEF Commit
<1>2. old \in Docs
  BY DEF IInv, Forgettable, Commit
<1>3. \A d \in Docs : docs'[d].msg = docs[d].msg
  BY <1>1, <1>2 DEF IInv, Typed, DocRow, Forgotten
<1>4. docs'[old].state = "forgotten" /\ \A d \in Docs \ {old} : docs'[d] = docs[d]
  BY <1>1, <1>2 DEF IInv, Typed, DocRow, Forgotten
<1>5. LiveDocs' \subseteq LiveDocs
  BY <1>1, <1>4 DEF LiveDocs, Live
<1>6. RoomKept'
  BY <1>1, <1>5, LiveMayShrink DEF Counted
<1>7. OneRow' /\ NewMessage'
  BY <1>1, <1>3 DEF Counted, OneRow, NewMessage
<1>8. QED BY <1>6, <1>7 DEF Counted

LEMMA TickCounted == ASSUME IInv, Counted, Tick PROVE Counted'
<1>1. UNCHANGED <<docs, handler>> /\ now' = now + 1 /\ now \in Nat
  BY DEF Tick, IInv, Typed
<1>2. LiveDocs' \subseteq LiveDocs
  BY <1>1 DEF IInv, Typed, DocRow, LiveDocs, Live
<1>3. RoomKept'
  BY <1>1, <1>2, LiveMayShrink DEF Counted
<1>4. OneRow' /\ NewMessage'
  BY <1>1 DEF Counted, OneRow, NewMessage
<1>5. QED BY <1>3, <1>4 DEF Counted

LEMMA NextCounted == IInv /\ Counted /\ [Next]_vars => Counted'
<1> SUFFICES ASSUME IInv, Counted, [Next]_vars PROVE Counted'
  OBVIOUS
<1>1. CASE \/ \E chat \in Chats : SendDocument(chat)
           \/ \E m \in DOMAIN messages : DeliverAgain(m)
           \/ Download \/ Move
  BY <1>1, HandlerCounted
<1>2. CASE Insert
  BY <1>2, InsertCounted
<1>3. CASE Tick
  BY <1>3, TickCounted
<1>4. CASE Refuse \/ Reject \/ Break \/ Crash
  BY <1>4, NothingNew DEF Refuse, Reject, Break, Crash
<1>5. CASE \E w \in Threads, chat \in Chats : AskToForget(w, chat)
  BY <1>5, NothingNew DEF AskToForget
<1>6. CASE \E w \in Workers : WorkerStep(w) \/ UnlinkRefused(w) \/ Abort(w)
  <2>1. PICK w \in Workers : Commit(w) \/ Unlink(w) \/ UnlinkRefused(w) \/ Abort(w)
    BY <1>6 DEF WorkerStep
  <2>2. CASE Commit(w)
    BY <2>2, CommitCounted
  <2>3. CASE Unlink(w) \/ UnlinkRefused(w) \/ Abort(w)
    BY <2>3, NothingNew DEF Unlink, UnlinkRefused, Abort
  <2>4. QED BY <2>1, <2>2, <2>3
<1>7. CASE HourlyCleanup \/ CliCleanup \/ Boot \/ UNCHANGED vars
  BY <1>7, NothingNew DEF HourlyCleanup, CliCleanup, Boot, vars
<1>8. QED BY <1>1, <1>2, <1>3, <1>4, <1>5, <1>6, <1>7 DEF Next

LEMMA CountedHolds == Spec => []Counted
<1>1. QED BY InitCounted, NextCounted, DocumentsInvariant, PTL DEF Spec

(* TypeOK: in all his chats together a user never has more live documents  *)
(* than max_active_per_user, although the count and the insert are two     *)
(* statements, and a message that is delivered twice has one row.          *)
THEOREM DocumentsTypes == Spec => []TypeOK
<1>1. IInv /\ Counted => TypeOK
  BY DEF IInv, Typed, DocRow, Handling, Work, Counted, RoomKept, LiveDocs, OneRow, TypeOK
<1>2. QED BY <1>1, CountedHolds, DocumentsInvariant, PTL

-----------------------------------------------------------------------------
(* Documents implements DocumentLifecycle.                                 *)

(* Only rows have messages, and nobody has a document to forget twice.     *)
Listing ==
    /\ \A d \in Docs : docs[d].state # "none" <=> docs[d].msg # 0
    /\ \A w \in Workers :
          /\ workers[w].at = "idle" => workers[w] = Idle
          /\ workers[w].at # "idle" => workers[w].doc \notin workers[w].rest

LEMMA InitListing == Init => Listing
  BY DEF Init, Listing, NoRow, Idle

(* Whoever starts with some of the documents, goes on or stops. *)
LEMMA ListingWorkers ==
  ASSUME Listing, docs' = docs,
         \A w \in Workers :
            \/ workers'[w] = workers[w] \/ workers'[w] = Idle
            \/ \E d, rest : d \notin rest /\ workers'[w] = Forgetting(d, rest)
            \/ /\ workers[w].at = "unlink" /\ workers'[w].at = "commit"
               /\ workers'[w].doc = workers[w].doc /\ workers'[w].rest = workers[w].rest
  PROVE  Listing'
<1>1. ASSUME NEW w \in Workers
      PROVE  /\ workers'[w].at = "idle" => workers'[w] = Idle
             /\ workers'[w].at # "idle" => workers'[w].doc \notin workers'[w].rest
  <2>1. CASE workers'[w] = workers[w]
    BY <2>1 DEF Listing
  <2>2. CASE workers'[w] = Idle
    BY <2>2 DEF Idle
  <2>3. ASSUME NEW d, NEW rest, d \notin rest, workers'[w] = Forgetting(d, rest)
        PROVE  workers'[w].at = "unlink" /\ workers'[w].doc \notin workers'[w].rest
    BY <2>3 DEF Forgetting
  <2>4. CASE /\ workers[w].at = "unlink" /\ workers'[w].at = "commit"
             /\ workers'[w].doc = workers[w].doc /\ workers'[w].rest = workers[w].rest
    BY <2>4 DEF Listing
  <2>5. QED BY <2>1, <2>2, <2>3, <2>4
<1>2. QED BY <1>1 DEF Listing

LEMMA NextListing == IInv /\ Listing /\ [Next]_vars => Listing'
<1> SUFFICES ASSUME IInv, Listing, [Next]_vars PROVE Listing'
  OBVIOUS
<1>1. CASE UNCHANGED <<docs, workers>>
  BY <1>1 DEF Listing
<1>2. CASE Insert
  <2>1. /\ handler.doc \in Docs /\ handler.msg # 0 /\ workers' = workers
        /\ docs'[handler.doc].state = "ready" /\ docs'[handler.doc].msg = handler.msg
        /\ \A d \in Docs \ {handler.doc} : docs'[d] = docs[d]
    BY <1>2 DEF Insert, IInv, Typed, InWork
  <2>2. QED BY <2>1 DEF Listing
<1>3. CASE \E w \in Threads, chat \in Chats : AskToForget(w, chat)
  <2>1. PICK w \in Workers, d \in Docs :
          workers' = [workers EXCEPT ![w] = Forgetting(d, {})] /\ docs' = docs
    BY <1>3 DEF AskToForget, Newest, Owned, Workers
  <2>2. workers'[w] = Forgetting(d, {}) /\ \A v \in Workers \ {w} : workers'[v] = workers[v]
    BY <2>1 DEF IInv, Typed
  <2>3. QED BY <2>1, <2>2, ListingWorkers
<1>4. CASE HourlyCleanup \/ CliCleanup
  <2>1. PICK w \in Workers, d \in Listed :
          workers' = [workers EXCEPT ![w] = Forgetting(d, Listed \ {d})] /\ docs' = docs
    BY <1>4 DEF HourlyCleanup, CliCleanup, StartCleanup, Workers
  <2>2. /\ workers'[w] = Forgetting(d, Listed \ {d})
        /\ \A v \in Workers \ {w} : workers'[v] = workers[v]
    BY <2>1 DEF IInv, Typed
  <2>3. QED BY <2>1, <2>2, ListingWorkers
<1>5. ASSUME NEW w \in Workers, Unlink(w) \/ UnlinkRefused(w) PROVE Listing'
  <2>1. /\ workers[w].at = "unlink" /\ workers' = [workers EXCEPT ![w].at = "commit"]
        /\ docs' = docs
    BY <1>5 DEF Unlink, UnlinkRefused
  <2>2. /\ workers'[w].at = "commit" /\ workers'[w].doc = workers[w].doc
        /\ workers'[w].rest = workers[w].rest
        /\ \A v \in Workers \ {w} : workers'[v] = workers[v]
    BY <2>1 DEF IInv, Typed, Work
  <2>3. QED BY <2>1, <2>2, ListingWorkers
<1>6. ASSUME NEW w \in Workers, Commit(w) PROVE Listing'
  <2>1. PICK following \in Following(w) : workers' = [workers EXCEPT ![w] = following]
    BY <1>6 DEF Commit
  <2>2. following = Idle \/ \E d, rest : d \notin rest /\ following = Forgetting(d, rest)
    BY <2>1 DEF Following
  <2>3. workers'[w] = following /\ \A v \in Workers \ {w} : workers'[v] = workers[v]
    BY <2>1 DEF IInv, Typed
  <2>4. \A v \in Workers : /\ workers'[v].at = "idle" => workers'[v] = Idle
                           /\ workers'[v].at # "idle" => workers'[v].doc \notin workers'[v].rest
    <3>1. ASSUME NEW v \in Workers \ {w}
          PROVE  /\ workers'[v].at = "idle" => workers'[v] = Idle
                 /\ workers'[v].at # "idle" => workers'[v].doc \notin workers'[v].rest
      BY <2>3 DEF Listing
    <3>2. CASE following = Idle
      BY <3>1, <3>2, <2>3 DEF Idle
    <3>3. ASSUME NEW d, NEW rest, d \notin rest, following = Forgetting(d, rest)
          PROVE  workers'[w].at = "unlink" /\ workers'[w].doc \notin workers'[w].rest
      BY <3>3, <2>3 DEF Forgetting
    <3>4. QED BY <2>2, <3>1, <3>2, <3>3
  <2>5. \A d \in Docs : docs'[d].state # "none" <=> docs'[d].msg # 0
    <3>1. workers[w].doc \in Docs /\ docs[workers[w].doc].state # "none"
      BY <1>6 DEF Commit, IInv, Forgettable
    <3>2. /\ docs'[workers[w].doc].state = "forgotten"
          /\ docs'[workers[w].doc].msg = docs[workers[w].doc].msg
          /\ \A d \in Docs \ {workers[w].doc} : docs'[d] = docs[d]
      BY <1>6, <3>1 DEF Commit, Forgotten, IInv, Typed, DocRow
    <3>3. QED BY <3>1, <3>2 DEF Listing
  <2>6. QED BY <2>4, <2>5 DEF Listing
<1>7. CASE Crash \/ \E w \in Workers : Abort(w)
  <2>1. docs' = docs /\ \A v \in Workers : workers'[v] = workers[v] \/ workers'[v] = Idle
    BY <1>7 DEF Crash, Abort, IInv, Typed
  <2>2. QED BY <2>1, ListingWorkers
<1>8. UNCHANGED <<docs, workers>>
      \/ Insert \/ (\E w \in Threads, chat \in Chats : AskToForget(w, chat))
      \/ HourlyCleanup \/ CliCleanup \/ Crash
      \/ \E w \in Workers : Unlink(w) \/ UnlinkRefused(w) \/ Commit(w) \/ Abort(w)
  BY DEF Next, vars, SendDocument, DeliverAgain, Download, Refuse, Move, Reject, Break, Boot,
         Tick, WorkerStep
<1>9. QED BY <1>1, <1>2, <1>3, <1>4, <1>5, <1>6, <1>7, <1>8

LEMMA ListingHolds == Spec => []Listing
<1>1. QED BY InitListing, NextListing, DocumentsInvariant, PTL DEF Spec

Tracked == IInv /\ Counted /\ Listing

(* What the lifecycle sees of a message is the state of its one row.       *)
RowStatus(d) == IF docs[d].state # "ready" THEN "gone"
                ELSE IF docs[d].expires > now THEN "kept" ELSE "due"

LEMMA StatusOfRow ==
  ASSUME Tracked, NEW d \in Docs, docs[d].state # "none"
  PROVE  /\ docs[d].msg \in 1..MaxUploads
         /\ Status[docs[d].msg] = RowStatus(d)
<1>1. docs[d].msg \in 1..MaxUploads /\ docs[d].expires \in Nat /\ now \in Nat
  BY DocsAreNumbers DEF Tracked, IInv, Typed, DocRow, Listing
<1>2. ByMessage(docs[d].msg) = {d}
  BY <1>1 DEF ByMessage, Tracked, Counted, OneRow
<1>3. Live(d) <=> RowStatus(d) = "kept"
  BY DEF Live, RowStatus
<1>4. Expired(d) <=> RowStatus(d) = "due"
  BY <1>1 DEF Expired, RowStatus
<1>5. RowStatus(d) \in {"kept", "due", "gone"}
  BY DEF RowStatus
<1>6. QED BY <1>1, <1>2, <1>3, <1>4, <1>5 DEF Status

LEMMA StatusOfNone ==
  ASSUME NEW m \in 1..MaxUploads, \A d \in Docs : docs[d].msg # m
  PROVE  Status[m] = "none"
<1>1. ByMessage(m) = {}
  BY DEF ByMessage
<1>2. QED BY <1>1 DEF Status

(* A message either has its row or none. *)
LEMMA StatusKept ==
  ASSUME Tracked, Tracked', NEW m \in 1..MaxUploads,
         \A d \in Docs : docs[d].msg = m => docs'[d].msg = m /\ RowStatus(d)' = RowStatus(d),
         \A d \in Docs : docs'[d].msg = m => docs[d].msg = m
  PROVE  Status'[m] = Status[m]
<1>1. CASE \E d \in Docs : docs[d].msg = m
  <2>1. PICK d \in Docs : docs[d].msg = m
    BY <1>1
  <2>2. docs[d].state # "none" /\ docs'[d].state # "none" /\ docs'[d].msg = m
    BY <2>1, DocsAreNumbers DEF Tracked, Listing
  <2>3. Status[m] = RowStatus(d)
    BY <2>1, <2>2, StatusOfRow
  <2>4. (docs[d].state # "none" => Status[docs[d].msg] = RowStatus(d))'
    BY StatusOfRow, PTL
  <2>5. QED BY <2>1, <2>2, <2>3, <2>4
<1>2. CASE ~ \E d \in Docs : docs[d].msg = m
  <2>1. Status[m] = "none"
    BY <1>2, StatusOfNone
  <2>2. ByMessage(m)' = {}
    BY <1>2 DEF ByMessage
  <2>3. Status'[m] = "none"
    BY <2>2 DEF Status
  <2>4. QED BY <2>1, <2>3
<1>3. QED BY <1>1, <1>2

LEMMA StatusDomain == Status = [m \in 1..MaxUploads |-> Status[m]]
  BY DEF Status

LEMMA DoomedDomain == Doomed = [w \in Workers |-> Doomed[w]]
  BY DEF Doomed

LEMMA LifecycleInit == Init => Lifecycle!Init
<1> SUFFICES ASSUME Init PROVE Lifecycle!Init
  OBVIOUS
<1>1. \A m \in 1..MaxUploads : Status[m] = "none"
  BY StatusOfNone DEF Init, NoRow
<1>2. \A w \in Workers : Doomed[w] = {}
  BY DEF Init, Doomed, Idle
<1>3. Workers = Threads \union {"loop", "cli"}
  BY DEF Workers
<1>4. QED BY <1>1, <1>2, <1>3, StatusDomain, DoomedDomain DEF Lifecycle!Init

(* Steps that neither side can tell from none.                             *)
LEMMA LifecycleQuiet ==
  ASSUME UNCHANGED <<docs, workers, now>>
  PROVE  UNCHANGED <<Status, Doomed>>
  BY DEF Status, Doomed, ByMessage, Live, Expired

LEMMA StatusSame == ASSUME UNCHANGED <<docs, now>> PROVE Status' = Status
  BY DEF Status, ByMessage, Live, Expired

LEMMA InsertKeeps ==
  ASSUME Tracked, Tracked', Insert
  PROVE  Lifecycle!Next
<1>0. PICK d \in Docs : d = handler.doc
  BY DEF Insert, Tracked, IInv, InWork
<1>m. PICK m : m = handler.msg
  OBVIOUS
<1>1. /\ d \in Docs /\ m \in 1..MaxUploads /\ docs[d].state = "none"
      /\ workers' = workers /\ now' = now /\ now \in Nat
      /\ \A e \in Docs \ {d} : docs'[e] = docs[e]
      /\ docs'[d].state = "ready" /\ docs'[d].msg = m /\ docs'[d].expires = now + Ttl
  BY <1>0, <1>m, DocsAreNumbers DEF Insert, Tracked, IInv, Typed, InWork
<1>2. \A e \in Docs : docs[e].msg # m
  BY <1>0, <1>m, <1>1 DEF Tracked, Counted, NewMessage, Insert
<1>3. Status[m] = "none"
  BY <1>1, <1>2, StatusOfNone
<1>4. Status'[m] = "kept"
  <2>1. RowStatus(d)' = "kept"
    BY <1>1, DocumentsAssumption DEF RowStatus
  <2>2. (docs[d].state # "none" => Status[docs[d].msg] = RowStatus(d))'
    BY StatusOfRow, PTL
  <2>3. QED BY <1>1, <2>1, <2>2
<1>5. ASSUME NEW n \in (1..MaxUploads) \ {m} PROVE Status'[n] = Status[n]
  <2>1. ASSUME NEW e \in Docs, docs[e].msg = n
        PROVE  docs'[e].msg = n /\ RowStatus(e)' = RowStatus(e)
    <3>1. e # d
      BY <2>1, <1>1, DocsAreNumbers DEF Tracked, Listing
    <3>2. QED BY <2>1, <3>1, <1>1 DEF RowStatus
  <2>2. \A e \in Docs : docs'[e].msg = n => docs[e].msg = n
    BY <1>1
  <2>3. QED BY <2>1, <2>2, StatusKept
<1>6. Doomed' = Doomed
  <2>1. \A w \in Workers : \A e \in workers[w].rest \union
               (IF workers[w] = Idle THEN {} ELSE {workers[w].doc}) : e \in Docs /\ e # d
    <3>1. ASSUME NEW w \in Workers, workers[w] # Idle
          PROVE  workers[w].doc \in Docs /\ workers[w].doc # d
      BY <3>1, <1>1 DEF Tracked, Listing, IInv, Forgettable
    <3>2. ASSUME NEW w \in Workers, NEW e \in workers[w].rest
          PROVE  e \in Docs /\ e # d
      BY <1>1 DEF Tracked, IInv, Typed, Work, Forgettable
    <3>3. QED BY <3>1, <3>2
  <2>2. QED BY <1>1, <2>1 DEF Doomed
<1>7. Status' = [Status EXCEPT ![m] = "kept"]
  BY <1>1, <1>4, <1>5, StatusDomain DEF Status
<1>8. Lifecycle!Keep(m)
  BY <1>3, <1>6, <1>7 DEF Lifecycle!Keep
<1>9. QED BY <1>1, <1>8 DEF Lifecycle!Next

LEMMA TickLapses ==
  ASSUME Tracked, Tracked', Tick
  PROVE  Lifecycle!Next
<1>1. docs' = docs /\ workers' = workers /\ now' = now + 1 /\ now \in Nat
  BY DEF Tick, Tracked, IInv, Typed
<1>2. Doomed' = Doomed
  BY <1>1 DEF Doomed
<1> DEFINE S == {m \in 1..MaxUploads : Status[m] = "kept" /\ Status'[m] # "kept"}
<1>3. ASSUME NEW m \in 1..MaxUploads
      PROVE  Status'[m] = IF m \in S THEN "due" ELSE Status[m]
  <2>1. CASE \A d \in Docs : docs[d].msg # m
    <3>1. Status[m] = "none" /\ Status'[m] = Status[m]
      BY <2>1, <1>1, StatusOfNone, StatusKept
    <3>2. QED BY <3>1
  <2>2. CASE \E d \in Docs : docs[d].msg = m
    <3>1. PICK d \in Docs : docs[d].msg = m
      BY <2>2
    <3>2. docs[d].state # "none" /\ docs[d].expires \in Nat
      BY <3>1, DocsAreNumbers DEF Tracked, Listing, IInv, Typed, DocRow
    <3>3. Status[m] = RowStatus(d)
      BY <3>1, <3>2, StatusOfRow
    <3>4. (docs[d].state # "none" => Status[docs[d].msg] = RowStatus(d))'
      BY StatusOfRow, PTL
    <3>5. Status'[m] = RowStatus(d)'
      BY <3>1, <3>2, <3>4, <1>1
    <3>6. RowStatus(d)' = RowStatus(d) \/ (RowStatus(d) = "kept" /\ RowStatus(d)' = "due")
      BY <1>1, <3>2 DEF RowStatus
    <3>7. QED BY <3>3, <3>5, <3>6
  <2>3. QED BY <2>1, <2>2
<1>4. S \in SUBSET (1..MaxUploads) /\ \A m \in S : Status[m] = "kept"
  OBVIOUS
<1> HIDE DEF S
<1>5. Status' = [m \in 1..MaxUploads |-> IF m \in S THEN "due" ELSE Status[m]]
  BY <1>3 DEF Status
<1>6. Lifecycle!Lapse(S)
  BY <1>2, <1>4, <1>5 DEF Lifecycle!Lapse
<1>7. QED BY <1>4, <1>6 DEF Lifecycle!Next

(* What a worker has to forget, and how that changes.                      *)
LEMMA DoomedOf ==
  ASSUME NEW w \in Workers
  PROVE  /\ workers[w] = Idle => Doomed[w] = {}
         /\ \A d, rest : workers[w] = Forgetting(d, rest) =>
               Doomed[w] = {docs[e].msg : e \in rest \union {d}}
  BY DEF Doomed, Idle, Forgetting

LEMMA DoomedStep ==
  ASSUME docs' = docs, NEW w \in Workers,
         \A v \in Workers \ {w} : workers'[v] = workers[v]
  PROVE  Doomed' = [Doomed EXCEPT ![w] = Doomed'[w]]
  BY DEF Doomed

LEMMA AskDooms ==
  ASSUME Tracked, NEW w \in Threads, NEW chat, AskToForget(w, chat)
  PROVE  Lifecycle!Next
<1>1. PICK d \in Docs : /\ workers' = [workers EXCEPT ![w] = Forgetting(d, {})]
                        /\ docs[d].state # "none"
  BY DEF AskToForget, Newest, Owned, Live
<1>2. w \in Workers /\ workers[w] = Idle /\ UNCHANGED <<docs, now>>
  BY DEF AskToForget, Workers
<1>3. /\ workers'[w] = Forgetting(d, {})
      /\ \A v \in Workers \ {w} : workers'[v] = workers[v]
  BY <1>1, <1>2 DEF Tracked, IInv, Typed
<1>4. Doomed[w] = {}
  BY <1>2, DoomedOf
<1>5. Doomed'[w] = {docs[d].msg}
  BY <1>2, <1>3 DEF Doomed, Forgetting, Idle
<1>6. Doomed' = [Doomed EXCEPT ![w] = {docs[d].msg}]
  BY <1>2, <1>3, <1>5, DoomedStep
<1>7. docs[d].msg \in 1..MaxUploads /\ Status[docs[d].msg] # "none"
  BY <1>1, StatusOfRow DEF RowStatus
<1>8. Status' = Status
  BY <1>2, StatusSame
<1>9. Lifecycle!Ask(w, docs[d].msg)
  BY <1>4, <1>6, <1>7, <1>8 DEF Lifecycle!Ask, Lifecycle!Doom
<1>10. QED BY <1>7, <1>9 DEF Lifecycle!Next

LEMMA CleanupDooms ==
  ASSUME Tracked, HourlyCleanup \/ CliCleanup
  PROVE  Lifecycle!Next
<1>1. PICK w \in {"loop", "cli"} : StartCleanup(w) /\ UNCHANGED <<docs, now>>
  BY DEF HourlyCleanup, CliCleanup
<1>2. PICK d \in Listed : workers' = [workers EXCEPT ![w] = Forgetting(d, Listed \ {d})]
  BY <1>1 DEF StartCleanup
<1>3. w \in Workers /\ workers[w] = Idle
  BY <1>1 DEF StartCleanup, Workers
<1>4. /\ workers'[w] = Forgetting(d, Listed \ {d})
      /\ \A v \in Workers \ {w} : workers'[v] = workers[v]
  BY <1>2, <1>3 DEF Tracked, IInv, Typed
<1> DEFINE S == {docs[e].msg : e \in Listed}
<1>5. Doomed[w] = {}
  BY <1>3, DoomedOf
<1>6. Doomed'[w] = S
  BY <1>1, <1>2, <1>3, <1>4 DEF Doomed, Forgetting, Idle
<1>7. S \in SUBSET (1..MaxUploads) /\ \A m \in S : Status[m] = "due"
  <2>1. ASSUME NEW e \in Listed
        PROVE  docs[e].msg \in 1..MaxUploads /\ Status[docs[e].msg] = "due"
    <3>1. e \in Docs /\ docs[e].state = "ready" /\ docs[e].expires <= now
      BY DEF Listed, Expired
    <3>2. docs[e].expires \in Nat /\ now \in Nat
      BY <3>1 DEF Tracked, IInv, Typed, DocRow
    <3>3. RowStatus(e) = "due"
      BY <3>1, <3>2 DEF RowStatus
    <3>4. QED BY <3>1, <3>3, StatusOfRow
  <2>2. QED BY <2>1
<1> HIDE DEF S
<1>8. Doomed' = [Doomed EXCEPT ![w] = S]
  BY <1>1, <1>3, <1>4, <1>6, DoomedStep
<1>9. Status' = Status
  BY <1>1, StatusSame
<1>10. Lifecycle!Sweep(w, S)
  BY <1>5, <1>7, <1>8, <1>9 DEF Lifecycle!Sweep, Lifecycle!Doom
<1>11. QED BY <1>7, <1>10 DEF Lifecycle!Next

LEMMA UnlinkQuiet ==
  ASSUME Tracked, NEW w \in Workers, Unlink(w) \/ UnlinkRefused(w)
  PROVE  UNCHANGED <<Status, Doomed>>
<1>1. /\ workers[w].at = "unlink" /\ workers' = [workers EXCEPT ![w].at = "commit"]
      /\ UNCHANGED <<docs, now>>
  BY DEF Unlink, UnlinkRefused
<1>2. /\ workers'[w].at = "commit" /\ workers'[w].doc = workers[w].doc
      /\ workers'[w].rest = workers[w].rest
      /\ \A v \in Workers \ {w} : workers'[v] = workers[v]
  BY <1>1 DEF Tracked, IInv, Typed, Work
<1>3. workers[w] # Idle /\ workers'[w] # Idle
  BY <1>1, <1>2 DEF Idle
<1>4. Doomed' = Doomed
  BY <1>1, <1>2, <1>3 DEF Doomed
<1>5. QED BY <1>1, <1>4, StatusSame

LEMMA CommitForgets ==
  ASSUME Tracked, Tracked', NEW w \in Workers, Commit(w)
  PROVE  Lifecycle!Next
<1>0. PICK d \in Docs : d = workers[w].doc
  BY DEF Commit, Tracked, IInv, Forgettable
<1>1. /\ d \in Docs /\ docs[d].state # "none" /\ workers[w].at = "commit"
      /\ docs'[d].state = "forgotten" /\ docs'[d].msg = docs[d].msg
      /\ \A e \in Docs \ {d} : docs'[e] = docs[e]
      /\ now' = now
  BY <1>0 DEF Commit, Forgotten, Tracked, IInv, Typed, DocRow, Forgettable
<1>2. d \notin workers[w].rest /\ workers[w].rest \subseteq Docs
  BY <1>0, <1>1 DEF Tracked, Listing, IInv, Typed, Work
<1> DEFINE m == docs[d].msg
<1>3. m \in 1..MaxUploads
  BY <1>1, StatusOfRow
<1>4. Status' = [Status EXCEPT ![m] = "gone"]
  <2>2. (docs[d].state # "none" => Status[docs[d].msg] = RowStatus(d))'
    BY StatusOfRow, PTL
  <2>3. Status'[m] = "gone"
    BY <2>2, <1>1 DEF RowStatus
  <2>4. ASSUME NEW n \in (1..MaxUploads) \ {m} PROVE Status'[n] = Status[n]
    <3>1. \A e \in Docs : docs[e].msg = n => docs'[e].msg = n /\ RowStatus(e)' = RowStatus(e)
      BY <1>1 DEF RowStatus
    <3>2. \A e \in Docs : docs'[e].msg = n => docs[e].msg = n
      BY <1>1
    <3>3. QED BY <3>1, <3>2, StatusKept
  <2>5. QED BY <1>3, <2>3, <2>4, StatusDomain DEF Status
<1>5. PICK following \in Following(w) : workers' = [workers EXCEPT ![w] = following]
  BY DEF Commit
<1>6. /\ workers'[w] = following
      /\ \A v \in Workers \ {w} : workers'[v] = workers[v]
  BY <1>5 DEF Tracked, IInv, Typed
<1>7. \A e \in Docs : docs'[e].msg = docs[e].msg
  BY <1>1
<1>8. Doomed[w] = {docs[e].msg : e \in workers[w].rest \union {d}}
  BY <1>0, <1>1 DEF Doomed, Idle
<1>9. Doomed'[w] = {docs[e].msg : e \in workers[w].rest}
  <2>1. CASE workers[w].rest = {}
    <3>1. workers'[w] = Idle
      BY <2>1, <1>5, <1>6 DEF Following
    <3>2. Doomed'[w] = {}
      BY <3>1 DEF Doomed, Idle
    <3>3. QED BY <2>1, <3>2
  <2>2. CASE workers[w].rest # {}
    <3>1. PICK e \in workers[w].rest : workers'[w] = Forgetting(e, workers[w].rest \ {e})
      BY <2>2, <1>5, <1>6 DEF Following
    <3>2. Doomed'[w] = {docs'[f].msg : f \in (workers[w].rest \ {e}) \union {e}}
      BY <3>1 DEF Doomed, Forgetting, Idle
    <3>3. (workers[w].rest \ {e}) \union {e} = workers[w].rest
      BY <3>1
    <3>4. QED BY <3>2, <3>3, <1>2, <1>7
  <2>3. QED BY <2>1, <2>2
<1>10. m \in Doomed[w] /\ Doomed'[w] = Doomed[w] \ {m}
  <2>1. \A e \in workers[w].rest : docs[e].msg # m
    BY <1>1, <1>2, <1>3 DEF Tracked, Counted, OneRow
  <2>2. QED BY <1>8, <1>9, <2>1
<1>11. ASSUME NEW v \in Workers \ {w} PROVE Doomed'[v] = Doomed[v]
  <2>1. workers'[v] = workers[v]
    BY <1>6
  <2>2. ASSUME NEW e \in workers[v].rest \union (IF workers[v] = Idle THEN {} ELSE {workers[v].doc})
        PROVE  e \in Docs
    BY DEF Tracked, Listing, IInv, Typed, Work, Forgettable
  <2>3. QED BY <2>1, <2>2, <1>7 DEF Doomed
<1> HIDE DEF m
<1>12. Doomed' = [Doomed EXCEPT ![w] = @ \ {m}]
  BY <1>10, <1>11, DoomedDomain DEF Doomed
<1>13. Lifecycle!Forget(w, m)
  BY <1>4, <1>10, <1>12 DEF Lifecycle!Forget
<1>14. QED BY <1>3, <1>13 DEF Lifecycle!Next, Workers

LEMMA StopGivesUp ==
  ASSUME Tracked, Crash \/ \E w \in Workers : Abort(w)
  PROVE  Lifecycle!Next
<1>1. PICK W \in SUBSET Workers :
        workers' = [v \in Workers |-> IF v \in W THEN Idle ELSE workers[v]]
  <2>1. CASE Crash
    <3>1. workers' = [v \in Workers |-> IF v \in Workers \ {"cli"} THEN Idle ELSE workers[v]]
      BY <2>1 DEF Crash
    <3>2. QED BY <3>1
  <2>2. ASSUME NEW w \in Workers, Abort(w)
        PROVE  workers' = [v \in Workers |-> IF v \in {w} THEN Idle ELSE workers[v]]
    BY <2>2 DEF Abort, Tracked, IInv, Typed
  <2>3. QED BY <2>1, <2>2
<1>2. UNCHANGED <<docs, now>>
  BY DEF Crash, Abort
<1>3. Doomed' = [v \in Workers |-> IF v \in W THEN {} ELSE Doomed[v]]
  BY <1>1, <1>2 DEF Doomed, Idle
<1>4. Status' = Status
  BY <1>2, StatusSame
<1>5. Lifecycle!GiveUp(W)
  BY <1>3, <1>4 DEF Lifecycle!GiveUp, Workers
<1>6. QED BY <1>5 DEF Lifecycle!Next, Workers

LEMMA LifecycleStep ==
  Tracked /\ Tracked' /\ [Next]_vars => [Lifecycle!Next]_<<Status, Doomed>>
<1> SUFFICES ASSUME Tracked, Tracked', [Next]_vars
             PROVE  Lifecycle!Next \/ UNCHANGED <<Status, Doomed>>
  OBVIOUS
<1>1. CASE UNCHANGED <<docs, workers, now>>
  BY <1>1, LifecycleQuiet
<1>2. CASE Insert \/ Tick
  BY <1>2, InsertKeeps, TickLapses
<1>3. CASE \E w \in Threads, chat \in Chats : AskToForget(w, chat)
  BY <1>3, AskDooms
<1>4. CASE HourlyCleanup \/ CliCleanup
  BY <1>4, CleanupDooms
<1>5. ASSUME NEW w \in Workers, Unlink(w) \/ UnlinkRefused(w) \/ Commit(w)
      PROVE  Lifecycle!Next \/ UNCHANGED <<Status, Doomed>>
  BY <1>5, UnlinkQuiet, CommitForgets
<1>6. CASE Crash \/ \E w \in Workers : Abort(w)
  BY <1>6, StopGivesUp
<1>7. UNCHANGED <<docs, workers, now>>
      \/ Insert \/ Tick \/ (\E w \in Threads, chat \in Chats : AskToForget(w, chat))
      \/ HourlyCleanup \/ CliCleanup \/ Crash
      \/ \E w \in Workers : Unlink(w) \/ UnlinkRefused(w) \/ Commit(w) \/ Abort(w)
  BY DEF Next, vars, SendDocument, DeliverAgain, Download, Refuse, Move, Reject, Break, Boot,
         WorkerStep
<1>8. QED BY <1>1, <1>2, <1>3, <1>4, <1>5, <1>6, <1>7

(* OncePerMessage: whatever is delivered twice, asked for twice, swept by  *)
(* both clean-ups at once or interrupted, a message gives one document,    *)
(* which goes upon a request or after its time, and never comes back       *)
(* (ingest, by_message, forget, cleanup).                                  *)
THEOREM LifecycleImplemented == Spec => OncePerMessage
<1>1. Spec => []Tracked
  BY DocumentsInvariant, CountedHolds, ListingHolds, PTL DEF Tracked
<1>2. Tracked /\ Tracked' /\ [Next]_vars => [Lifecycle!Next]_(Lifecycle!vars)
  BY LifecycleStep DEF Lifecycle!vars
<1>3. QED BY <1>1, <1>2, LifecycleInit, PTL DEF Spec, OncePerMessage, Lifecycle!Spec

=============================================================================
