----------------------------- MODULE Documents -----------------------------
(***************************************************************************)
(* The documents a user sends (src/app/documents): handle_document, the    *)
(* ingestion in its worker thread, forgetting by a text or a tool, the     *)
(* hourly clean-up of src/app/bot.py and the clean-up of the command line. *)
(*                                                                         *)
(* The rows, their chunks and the files in documents_storage_path are kept *)
(* in step by nothing but the order of the statements.  The bot deals with *)
(* one update at a time, but a tool's thread outlives its request, and the *)
(* clean-ups run whenever they like.  Rows are read by user: one user with *)
(* some chats is modelled.  The number of a document is that of its uuid.  *)
(***************************************************************************)
EXTENDS Naturals, Sequences, FiniteSets

CONSTANTS
    Chats,
    Threads,      \* threads of the bot in which a document may be forgotten
    MaxActive,    \* max_active_per_user
    Ttl,          \* ttl_hours
    MaxUploads,   \* bound: documents sent
    MaxDocs,      \* bound: files ever moved to a name of their own
    MaxForgets,   \* bound: requests to forget a document, and cli clean-ups
    MaxFaults,    \* bound: crashes, failed statements and system calls
    MaxTime       \* bound: clock

ASSUME DocumentsAssumption ==
    /\ {"loop", "cli"} \intersect Threads = {}
    /\ {MaxActive, Ttl, MaxUploads, MaxDocs, MaxForgets, MaxFaults, MaxTime} \subseteq Nat
    /\ Ttl > 0

VARIABLES
    messages,  \* chat of each document sent, by message
    docs,      \* document -> the row of document_sessions and its chunks
    files,     \* the storage directory
    handler,   \* the document being taken in: [step, msg, doc]
    workers,   \* who forgets documents: [at, doc, rest]
    bot,       \* "down", "up", or "lame": the clean-up task has died
    now,
    used,      \* forgets and faults so far
    left,      \* history: documents whose file a fault has left behind
    torn       \* history: documents a fault has caught half forgotten

vars == <<messages, docs, files, handler, workers, bot, now, used, left, torn>>

Docs == 1..MaxDocs
Workers == Threads \union {"loop", "cli"}
Incoming(m) == <<"incoming", m>>
Target(d) == <<"document", d>>

NoRow == [state |-> "none", msg |-> 0, chat |-> "none", expires |-> 0, chunks |-> FALSE]
Resting == [step |-> "idle", msg |-> 0, doc |-> 0]
Idle == [at |-> "idle", doc |-> 0, rest |-> {}]

Init ==
    /\ messages = <<>>
    /\ docs = [d \in Docs |-> NoRow]
    /\ files = {}
    /\ handler = Resting
    /\ workers = [w \in Workers |-> Idle]
    /\ bot = "up"
    /\ now = 0
    /\ used = [forgets |-> 0, faults |-> 0, names |-> 0]
    /\ left = {}
    /\ torn = {}

Use(what, bound) == used[what] < bound /\ used' = [used EXCEPT ![what] = @ + 1]
Fault == Use("faults", MaxFaults)

(* The rows the storage's statements find.                                 *)
ByMessage(m) == {d \in Docs : docs[d].msg = m}
Live(d) == docs[d].state = "ready" /\ docs[d].expires > now
Expired(d) == docs[d].state = "ready" /\ docs[d].expires <= now
Owned(chat) == {d \in Docs : docs[d].state # "none" /\ docs[d].chat = chat}

-----------------------------------------------------------------------------
(* handle_document.                                                        *)

Begin(m) ==
    /\ bot # "down" /\ handler = Resting
    /\ ByMessage(m) = {}
    /\ handler' = [step |-> "download", msg |-> m, doc |-> 0]
SendDocument(chat) ==
    /\ Len(messages) < MaxUploads
    /\ messages' = Append(messages, chat)
    /\ Begin(Len(messages) + 1)
    /\ UNCHANGED <<docs, files, workers, bot, now, used, left, torn>>
(* Telegram delivers the message once more.                                *)
DeliverAgain(m) ==
    /\ Begin(m)
    /\ UNCHANGED <<messages, docs, files, workers, bot, now, used, left, torn>>

Download ==
    /\ handler.step = "download"
    /\ files' = files \union {Incoming(handler.msg)}
    /\ handler' = [handler EXCEPT !.step = "check"]
    /\ UNCHANGED <<messages, docs, workers, bot, now, used, left, torn>>

(* A failed or short download, the limit, a file that is not what it says: *)
(* what was downloaded is removed.                                         *)
Room_OneMore == Cardinality({d \in Docs : Live(d)}) <= MaxActive
Room == Cardinality({d \in Docs : Live(d)}) < MaxActive
Refuse ==
    /\ handler.step \in {"download", "check"}
    /\ files' = files \ {Incoming(handler.msg)}
    /\ handler' = Resting
    /\ UNCHANGED <<messages, docs, workers, bot, now, used, left, torn>>

Move ==
    /\ handler.step = "check" /\ Room
    /\ Use("names", MaxDocs)
    /\ files' = (files \ {Incoming(handler.msg)}) \union {Target(used.names + 1)}
    /\ handler' = [handler EXCEPT !.step = "extract", !.doc = used.names + 1]
    /\ UNCHANGED <<messages, docs, workers, bot, now, left, torn>>

(* ValidationError, ExtractionError and DocumentError clean up.            *)
Cleaned == files \ {Incoming(handler.msg), Target(handler.doc)}
Reject ==
    /\ handler.step = "extract"
    /\ files' = Cleaned
    /\ handler' = Resting
    /\ UNCHANGED <<messages, docs, workers, bot, now, used, left, torn>>

(* Any other exception, of the extraction or of the insert, does not.      *)
Break ==
    /\ handler.step = "extract"
    /\ Fault
    /\ handler' = Resting
    /\ left' = left \union {handler.doc}
    /\ UNCHANGED <<messages, docs, files, workers, bot, now, torn>>

(* The row and its chunks in one transaction; what follows, the answer to a*)
(* caption included, changes nothing here.                                 *)
Insert ==
    /\ handler.step = "extract"
    /\ docs' = [docs EXCEPT ![handler.doc] =
                   [state |-> "ready", msg |-> handler.msg, chat |-> messages[handler.msg],
                    expires |-> now + Ttl, chunks |-> TRUE]]
    /\ handler' = Resting
    /\ UNCHANGED <<messages, files, workers, bot, now, used, left, torn>>

-----------------------------------------------------------------------------
(* Forgetting.                                                             *)

Serves(w) == w = "cli" \/ bot # "down"
Forgetting(d, rest) == [at |-> "unlink", doc |-> d, rest |-> rest]

(* A text forgets the newest document of its chat that is live, a tool also*)
(* any one it names.                                                       *)
Newest(chat) == {d \in Docs : Live(d) /\ docs[d].chat = chat
                               /\ \A e \in Docs : Live(e) /\ docs[e].chat = chat => e <= d}
AskToForget(w, chat) ==
    /\ w \in Threads /\ Serves(w) /\ workers[w] = Idle
    /\ Use("forgets", MaxForgets)
    /\ \E d \in Newest(chat) \union Owned(chat) : workers' = [workers EXCEPT ![w] = Forgetting(d, {})]
    /\ UNCHANGED <<messages, docs, files, handler, bot, now, left, torn>>

(* cleanup lists the expired rows once and forgets them one after another, *)
(* in whatever order the table gives them.                                 *)
Listed_DryRun == {}
Listed_All == {d \in Docs : docs[d].state = "ready"}
Listed == {d \in Docs : Expired(d)}
StartCleanup(w) ==
    /\ workers[w] = Idle
    /\ \E d \in Listed : workers' = [workers EXCEPT ![w] = Forgetting(d, Listed \ {d})]
HourlyCleanup ==
    /\ bot = "up"
    /\ StartCleanup("loop")
    /\ UNCHANGED <<messages, docs, files, handler, bot, now, used, left, torn>>
CliCleanup ==
    /\ Use("forgets", MaxForgets)
    /\ StartCleanup("cli")
    /\ UNCHANGED <<messages, docs, files, handler, bot, now, left, torn>>

(* The file first, if the row still names it ...                           *)
Unlink(w) ==
    LET d == workers[w].doc IN
    /\ workers[w].at = "unlink"
    /\ files' = IF docs[d].state = "ready" THEN files \ {Target(d)} ELSE files
    /\ workers' = [workers EXCEPT ![w].at = "commit"]
    /\ UNCHANGED <<messages, docs, handler, bot, now, used, left, torn>>
(* ... and its refusal is passed over.                                     *)
UnlinkRefused(w) ==
    /\ workers[w].at = "unlink" /\ Target(workers[w].doc) \in files
    /\ Fault
    /\ workers' = [workers EXCEPT ![w].at = "commit"]
    /\ left' = left \union {workers[w].doc}
    /\ UNCHANGED <<messages, docs, files, handler, bot, now, torn>>
(* ... then chunks and row in one transaction.                             *)
Forgotten_KeepsChunks(row) == [row EXCEPT !.state = "forgotten"]
Forgotten(row) == [row EXCEPT !.state = "forgotten", !.chunks = FALSE]
Following(w) == IF workers[w].rest = {} THEN {Idle}
                ELSE {Forgetting(d, workers[w].rest \ {d}) : d \in workers[w].rest}
Commit(w) ==
    /\ workers[w].at = "commit"
    /\ docs' = [docs EXCEPT ![workers[w].doc] = Forgotten(@)]
    /\ \E following \in Following(w) : workers' = [workers EXCEPT ![w] = following]
    /\ UNCHANGED <<messages, files, handler, bot, now, used, left, torn>>

(* A statement fails: the exception ends the request, the command, or, for *)
(* nothing catches it there, the clean-up task.                            *)
HalfDone(ws) == {workers[w].doc : w \in {v \in ws : workers[v].at = "commit"}}
Abort(w) ==
    /\ workers[w] # Idle
    /\ Fault
    /\ workers' = [workers EXCEPT ![w] = Idle]
    /\ bot' = IF w = "loop" THEN "lame" ELSE bot
    /\ torn' = torn \union HalfDone({w})
    /\ UNCHANGED <<messages, docs, files, handler, now, left>>

-----------------------------------------------------------------------------
Crash ==
    /\ bot # "down"
    /\ Fault
    /\ bot' = "down"
    /\ handler' = Resting
    /\ workers' = [w \in Workers |-> IF w = "cli" THEN workers[w] ELSE Idle]
    /\ left' = left \union (IF handler.step = "extract" THEN {handler.doc} ELSE {})
    /\ torn' = torn \union HalfDone(Workers \ {"cli"})
    /\ UNCHANGED <<messages, docs, files, now>>
Boot ==
    /\ bot = "down"
    /\ bot' = "up"
    /\ UNCHANGED <<messages, docs, files, handler, workers, now, used, left, torn>>
Tick ==
    /\ now < MaxTime
    /\ now' = now + 1
    /\ UNCHANGED <<messages, docs, files, handler, workers, bot, used, left, torn>>

WorkerStep(w) == Unlink(w) \/ Commit(w)
Next ==
    \/ \E chat \in Chats : SendDocument(chat)
    \/ \E m \in DOMAIN messages : DeliverAgain(m)
    \/ Download \/ Refuse \/ Move \/ Reject \/ Break \/ Insert
    \/ \E w \in Threads, chat \in Chats : AskToForget(w, chat)
    \/ HourlyCleanup \/ CliCleanup
    \/ \E w \in Workers : WorkerStep(w) \/ UnlinkRefused(w) \/ Abort(w)
    \/ Crash \/ Boot \/ Tick

Spec == Init /\ [][Next]_vars

(* systemd restarts the bot, its hourly task wakes and its thread goes on; *)
(* requests, the command line and the faults promise nothing.              *)
FairSpec == Spec /\ WF_vars(Boot) /\ WF_vars(HourlyCleanup) /\ WF_vars(WorkerStep("loop"))

-----------------------------------------------------------------------------
(* The user has no more live documents than he may, in all chats together, *)
(* and a message has one row.                                              *)
TypeOK ==
    /\ messages \in Seq(Chats) /\ Len(messages) <= MaxUploads
    /\ docs \in [Docs -> [state : {"none", "ready", "forgotten"}, msg : 0..MaxUploads,
                          chat : Chats \union {"none"}, expires : Nat, chunks : BOOLEAN]]
    /\ handler \in [step : {"idle", "download", "check", "extract"}, msg : 0..MaxUploads, doc : 0..MaxDocs]
    /\ workers \in [Workers -> [at : {"idle", "unlink", "commit"}, doc : 0..MaxDocs, rest : SUBSET Docs]]
    /\ bot \in {"up", "lame", "down"}
    /\ Cardinality({d \in Docs : Live(d)}) <= MaxActive
    /\ \A d, e \in Docs : docs[d].msg = docs[e].msg /\ docs[d].msg # 0 => d = e

(* Every file in the directory is that of a row, of the document in work,  *)
(* or was left there by a crash, a refusal of the system or an exception   *)
(* nobody expected; a row that is ready has its file, unless it is being   *)
(* forgotten or a fault broke into that; and of a forgotten one nothing is *)
(* left (ingest, forget and cleanup against each other).                   *)
FilesAccounted ==
    /\ \A d \in Docs : Target(d) \in files =>
          docs[d].state = "ready" \/ handler.doc = d \/ d \in left
    /\ \A m \in DOMAIN messages : Incoming(m) \in files =>
          handler.msg = m \/ used.faults > 0
    /\ \A d \in Docs : docs[d].state = "ready" =>
          \/ Target(d) \in files /\ docs[d].chunks
          \/ d \in torn
          \/ \E w \in Workers : workers[w].doc = d /\ workers[w].at = "commit"
    /\ \A d \in Docs : docs[d].state = "forgotten" => ~docs[d].chunks

(* The documents implement DocumentLifecycle: one per message, forgotten   *)
(* only upon a request for it or after its time, and never back, however   *)
(* requests, both clean-ups, faults and repeated messages come together    *)
(* (by_message, forget, cleanup).                                          *)
Status == [m \in 1..MaxUploads |->
    IF \E d \in ByMessage(m) : Live(d) THEN "kept"
    ELSE IF \E d \in ByMessage(m) : Expired(d) THEN "due"
    ELSE IF ByMessage(m) # {} THEN "gone" ELSE "none"]

Doomed == [w \in Workers |->
    {docs[d].msg : d \in workers[w].rest \union
                         (IF workers[w] = Idle THEN {} ELSE {workers[w].doc})}]

Lifecycle == INSTANCE DocumentLifecycle
    WITH Messages <- 1..MaxUploads, Askers <- Threads, Sweepers <- {"loop", "cli"},
         status <- Status, doomed <- Doomed

OncePerMessage == Lifecycle!Spec

(* A document that has expired is forgotten sooner or later, unless the    *)
(* clean-up task has died: it sleeps first and then runs without a try, so *)
(* one failed statement ends it until the next start.                      *)
ExpiredAreForgotten == \A d \in Docs : Expired(d) ~> ~Expired(d) \/ bot = "lame"

=============================================================================
