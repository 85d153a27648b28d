-------------------------------- MODULE Chat --------------------------------
(***************************************************************************)
(* Texts and dialogues: handle_text of src/app/handlers.py and the caption *)
(* of its handle_document, over the table conversation_states              *)
(* (src/app/conversation) and the rate limiter of src/app/access.py.       *)
(*                                                                         *)
(* build_application registers every handler as a blocking one, so one text*)
(* is dealt with at a time.  A user writes in one chat: the key of a       *)
(* dialogue is the user.  A text is known by its sort, what                *)
(* ConversationManager.classify tells apart; of the state of a dialogue    *)
(* only the pending question, the status and the end are kept.  What the   *)
(* agent does for an answer is AgentLoop's subject.  Telegram may deliver a*)
(* text again at any time.                                                 *)
(***************************************************************************)
EXTENDS Naturals, Sequences, FiniteSets

CONSTANTS
    Users,
    Sorts,        \* the sorts of text the users write, see Classify
    Limit,        \* user -> requests the limiter lets pass in a Window
    Window,
    Ttl,          \* ttl_minutes of a dialogue
    Remembered,   \* processed updates kept (2048)
    MaxTexts,     \* bound: texts and captions sent
    MaxUpdates, \* bound: updates dealt with, of any kind
    MaxBoots,     \* bound: starts of the process
    MaxTime       \* bound: clock

ASSUME ChatAssumption ==
    /\ Sorts \subseteq {"cancel", "correction", "topic", "topicword", "short", "long"}
    /\ Limit \in [Users -> Nat]
    /\ {Window, Ttl, Remembered, MaxTexts, MaxUpdates, MaxBoots, MaxTime} \subseteq Nat
    /\ Ttl > 0

VARIABLES
    active,     \* users whose row in the table users is active
    dialogue,   \* the table conversation_states
    up,         \* the process runs
    processed,  \* processed_updates
    buckets,    \* RateLimiter._messages
    handler,    \* the text or caption in work
    texts,      \* what was sent to the bot: [user, sort, caption]
    asked,      \* questions asked so far
    now,
    updates,    \* updates the bot has dealt with so far
    boots,      \* starts so far
    past        \* history, see Past

vars == <<active, dialogue, up, processed, buckets, handler, texts, asked, now, updates, boots, past>>

Idle == [kind |-> "none", text |-> 0, step |-> "idle"]
Silent == [status |-> "none", pending |-> 0, expires |-> 0]
Fresh == [Silent EXCEPT !.status = "active"]

TextIds == 1..MaxTexts
Questions == Nat \ {0}
(* History: whom each question was put to and what became of it; when the  *)
(* bot last dealt with a user; the texts that this process has taken, and  *)
(* those it has taken more than once.                                      *)
Past == [whom : Seq(Users),
         fate : Seq({"open", "dropped", "answered", "misread"}),
         last : [Users -> Nat],
         taken : SUBSET TextIds,
         again : SUBSET TextIds]

Init ==
    /\ active = Users
    /\ dialogue = [u \in Users |-> Silent]
    /\ up = FALSE
    /\ processed = {}
    /\ buckets = [u \in Users |-> <<>>]
    /\ handler = Idle
    /\ texts = <<>>
    /\ asked = 0
    /\ now = 0
    /\ updates = 0
    /\ boots = 0
    /\ past = [whom |-> <<>>, fate |-> <<>>, last |-> [u \in Users |-> 0], taken |-> {}, again |-> {}]

-----------------------------------------------------------------------------
(* The process and its surroundings.                                       *)

Boot ==
    /\ ~up /\ boots < MaxBoots
    /\ up' = TRUE
    /\ boots' = boots + 1
    /\ UNCHANGED <<active, dialogue, processed, buckets, handler, texts, asked, now, updates, past>>

Crash ==
    /\ up
    /\ up' = FALSE
    /\ processed' = {}
    /\ buckets' = [u \in Users |-> <<>>]
    /\ handler' = Idle
    /\ past' = [past EXCEPT !.taken = {}, !.again = {}]
    /\ UNCHANGED <<active, dialogue, texts, asked, now, updates, boots>>

(* The deadline of a text is a small part of every period here; a caption  *)
(* has none.                                                               *)
Tick ==
    /\ now < MaxTime
    /\ handler.kind # "text"
    /\ now' = now + 1
    /\ UNCHANGED <<active, dialogue, up, processed, buckets, handler, texts, asked, updates, boots, past>>

(* The bot has nothing in work.                                            *)
Free == up /\ handler = Idle
NextUpdate == Free /\ updates < MaxUpdates /\ updates' = updates + 1

(* An owner's command, or an invite redeemed.                              *)
ChangeAccess(u) ==
    /\ NextUpdate
    /\ active' = IF u \in active THEN active \ {u} ELSE active \union {u}
    /\ UNCHANGED <<dialogue, up, processed, buckets, handler, texts, asked, now, boots, past>>

-----------------------------------------------------------------------------
(* Dialogues (ConversationManager and ConversationStorage).                *)

(* get_state                                                               *)
Effective_Stored(u) == dialogue[u]
Effective(u) == IF dialogue[u].status # "none" /\ dialogue[u].expires <= now
                THEN [dialogue[u] EXCEPT !.status = "expired"] ELSE dialogue[u]
Waits(d) == d.status = "active" /\ d.pending # 0
Classify(sort, d) ==
    CASE sort = "cancel" -> "CANCEL"
      [] sort = "correction" -> "CORRECTION"
      [] sort = "topic" -> "NEW_TOPIC"
      [] sort = "topicword" -> IF Waits(d) THEN "ANSWER_TO_PENDING" ELSE "NEW_TOPIC"
      [] sort = "short" -> IF Waits(d) THEN "ANSWER_TO_PENDING" ELSE "CONTINUATION"
      [] sort = "long" -> "CONTINUATION"

(* record_user: from the state found to the state saved.                   *)
Opened(d) == IF d.status \in {"none", "expired", "closed"} THEN Fresh ELSE d
Settles_ExceptAnswer(intent) == intent \in {"CANCEL", "NEW_TOPIC"}
Settles(intent) == intent \in {"ANSWER_TO_PENDING", "CANCEL", "NEW_TOPIC"}
Heard(d, intent) == [d EXCEPT !.pending = IF Settles(intent) THEN 0 ELSE @, !.expires = now + Ttl]
(* record_assistant: a new question, or the one that was pending.          *)
Said(d, q) == [(IF d.status = "none" THEN Fresh ELSE d) EXCEPT
                  !.pending = IF q # 0 THEN q ELSE @, !.expires = now + Ttl]

(* History: the open questions put to u are dropped; a question is         *)
(* answered, unless it was not open or the user has been silent for Ttl.   *)
Drop(fate, u) == [q \in DOMAIN fate |-> IF past.whom[q] = u /\ fate[q] = "open" THEN "dropped" ELSE fate[q]]
Answered(fate, u, q) ==
    [fate EXCEPT ![q] = IF @ = "open" /\ past.whom[q] = u /\ now < past.last[u] + Ttl
                        THEN "answered" ELSE "misread"]

(* /reset_context: clear is an UPDATE.                                     *)
Closed(d) == IF d.status = "none" THEN d ELSE [d EXCEPT !.status = "closed", !.pending = 0]
ResetContext(u) ==
    /\ NextUpdate /\ u \in active
    /\ dialogue' = [dialogue EXCEPT ![u] = Closed(@)]
    /\ past' = [past EXCEPT !.fate = Drop(@, u)]
    /\ UNCHANGED <<active, up, processed, buckets, handler, texts, asked, now, boots>>

-----------------------------------------------------------------------------
(* handle_text and the caption of handle_document.                         *)

(* The set keeps at most so many updates and drops any one of them.        *)
Kept_OneLess(ids) == IF Cardinality(ids) >= Remembered THEN {ids \ {t} : t \in ids} ELSE {ids}
Kept(ids) == IF Cardinality(ids) > Remembered THEN {ids \ {t} : t \in ids} ELSE {ids}

(* RateLimiter._allow: entries are made in the order of time, so those that*)
(* have left the window are at the head, from where they are taken.        *)
Gone(u) == {i \in DOMAIN buckets[u] : buckets[u][i] + Window <= now}
Recent(u) == SubSeq(buckets[u], Cardinality(Gone(u)) + 1, Len(buckets[u]))
Allowed_OneMore(u) == Len(Recent(u)) <= Limit[u]
Allowed(u) == Len(Recent(u)) < Limit[u]

(* An authorized text that this process does not know; then the limiter.   *)
Working(kind, t) == [kind |-> kind, text |-> t, step |-> "begun"]
Take(t, u) ==
    /\ NextUpdate /\ u \in active
    /\ t \notin processed
    /\ processed' \in Kept(processed \union {t})
    /\ buckets' = [buckets EXCEPT ![u] = IF Allowed(u) THEN Append(Recent(u), now) ELSE Recent(u)]
    /\ handler' = IF Allowed(u) THEN Working("text", t) ELSE Idle
    /\ past' = [past EXCEPT !.taken = @ \union {t},
                            !.again = IF t \in past.taken THEN @ \union {t} ELSE @]
    /\ UNCHANGED <<active, dialogue, up, asked, now, boots>>

Send(u, sort, caption) ==
    /\ Len(texts) < MaxTexts
    /\ texts' = Append(texts, [user |-> u, sort |-> sort, caption |-> caption])
TakeNew(u, sort) == Send(u, sort, FALSE) /\ Take(Len(texts) + 1, u)
TakeAgain(t) == ~texts[t].caption /\ Take(t, texts[t].user) /\ UNCHANGED texts
(* Neither processed_updates nor the limiter are asked about a document.   *)
TakeCaption(u, sort) ==
    /\ NextUpdate /\ u \in active
    /\ Send(u, sort, TRUE)
    /\ handler' = Working("caption", Len(texts) + 1)
    /\ UNCHANGED <<active, dialogue, up, processed, buckets, asked, now, boots, past>>

(* A reminder, a document command, a refusal before the dialogue is read.  *)
Elsewhere ==
    /\ handler.step = "begun"
    /\ handler' = Idle
    /\ UNCHANGED <<active, dialogue, up, processed, buckets, texts, asked, now, updates, boots, past>>

RecordUser ==
    LET u == texts[handler.text].user
        d == Effective(u)
        intent == Classify(texts[handler.text].sort, d) IN
    /\ handler.step = "begun"
    /\ dialogue' = [dialogue EXCEPT ![u] = Heard(Opened(d), intent)]
    /\ handler' = [handler EXCEPT !.step = "heard"]
    /\ past' = [past EXCEPT !.last[u] = now,
                  !.fate = CASE intent = "ANSWER_TO_PENDING" -> Answered(@, u, d.pending)
                             [] intent \in {"CANCEL", "NEW_TOPIC"} -> Drop(@, u)
                             [] OTHER -> @]
    /\ UNCHANGED <<active, up, processed, buckets, texts, asked, now, updates, boots>>

(* The agent has answered: with a question, or without.                    *)
RecordAssistant(asks) ==
    LET u == texts[handler.text].user
        q == IF asks THEN asked + 1 ELSE 0 IN
    /\ handler.step = "heard"
    /\ dialogue' = [dialogue EXCEPT ![u] = Said(Effective(u), q)]
    /\ asked' = IF asks THEN q ELSE asked
    /\ handler' = Idle
    /\ past' = [past EXCEPT !.last[u] = now,
                            !.whom = IF asks THEN Append(@, u) ELSE @,
                            !.fate = IF asks THEN Append(Drop(@, u), "open") ELSE @]
    /\ UNCHANGED <<active, up, processed, buckets, texts, now, updates, boots>>

(* An error of the provider, a fallback message, the deadline.             *)
Fail ==
    /\ handler.step = "heard"
    /\ handler' = Idle
    /\ UNCHANGED <<active, dialogue, up, processed, buckets, texts, asked, now, updates, boots, past>>

Next ==
    \/ Boot \/ Crash \/ Tick
    \/ \E u \in Users : ChangeAccess(u) \/ ResetContext(u)
    \/ \E u \in Users, sort \in Sorts : TakeNew(u, sort) \/ TakeCaption(u, sort)
    \/ \E t \in DOMAIN texts : TakeAgain(t)
    \/ Elsewhere \/ RecordUser \/ Fail
    \/ \E asks \in BOOLEAN : RecordAssistant(asks)

Spec == Init /\ [][Next]_vars

-----------------------------------------------------------------------------
(* The limiter's bucket holds no more than the limit, and nothing that has *)
(* left the window when its last entry was made.                           *)
TypeOK ==
    /\ active \subseteq Users
    /\ dialogue \in [Users -> [status : {"none", "active", "expired", "closed"}, pending : Nat, expires : Nat]]
    /\ \A u \in Users : dialogue[u].pending <= asked
    /\ up \in BOOLEAN
    /\ texts \in Seq([user : Users, sort : Sorts, caption : BOOLEAN])
    /\ Len(texts) <= MaxTexts
    /\ processed \subseteq DOMAIN texts
    /\ buckets \in [Users -> Seq(Nat)]
    /\ \A u \in Users : Len(buckets[u]) <= Limit[u]
    /\ \A u \in Users, i, j \in 1..Cardinality(TextIds) :
          i < j /\ j <= Len(buckets[u]) => buckets[u][i] + Window > buckets[u][j]
    /\ handler \in {Idle} \union [kind : {"text", "caption"}, text : DOMAIN texts, step : {"begun", "heard"}]
    /\ handler # Idle => up
    /\ asked \in Nat /\ now \in Nat
    /\ past \in Past
    /\ Len(past.whom) = asked /\ Len(past.fate) = asked

(* A text is taken for the answer to a question only if that question was  *)
(* put to its user and was not replaced, answered, cancelled or reset since*)
(* and the bot has dealt with him less than the time-out ago (classify and *)
(* get_state, over record_user, record_assistant and clear).               *)
AnswersOpenQuestion == \A q \in DOMAIN past.fate : past.fate[q] # "misread"

(* The pending questions of the table keep the promise of Dialogue: what   *)
(* record_user and record_assistant write over one another, and what an    *)
(* expiry or a restart leaves in the row, brings no settled question back. *)
AnsweredQuestions == {q \in DOMAIN past.fate : past.fate[q] = "answered"}
Standing == [u \in Users |-> dialogue[u].pending]

Promise == INSTANCE Dialogue WITH open <- Standing, answered <- AnsweredQuestions
DialogueKept == Promise!Spec

(* Until a process has taken more texts than it remembers, it has taken    *)
(* none of them twice (processed_updates).                                 *)
TextTakenOnce == Cardinality(past.taken) <= Remembered => past.again = {}

=============================================================================
