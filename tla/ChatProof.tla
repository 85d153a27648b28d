------------------------------ MODULE ChatProof ------------------------------
(***************************************************************************)
(* Proofs about Chat, for every set of users and sorts, every limit, window*)
(* and time-out, and any number of texts, updates, starts and ticks.       *)
(***************************************************************************)
EXTENDS Chat, FiniteSetTheorems, SequenceTheorems, TLAPS

-----------------------------------------------------------------------------
(* The inductive invariant.                                                *)

Text == [user : Users, sort : Sorts, caption : BOOLEAN]
State == [status : {"none", "active", "expired", "closed"}, pending : Nat, expires : Nat]
Fates == {"open", "dropped", "answered", "misread"}

Typed ==
    /\ dialogue \in [Users -> State]
    /\ texts \in Seq(Text) /\ Len(texts) <= MaxTexts
    /\ handler.step \in {"begun", "heard"} => handler.text \in DOMAIN texts
    /\ asked \in Nat /\ now \in Nat
    /\ past = [whom |-> past.whom, fate |-> past.fate, last |-> past.last,
               taken |-> past.taken, again |-> past.again]
    /\ past.whom \in [1..asked -> Users]
    /\ past.fate \in [1..asked -> Fates]
    /\ past.last \in [Users -> Nat]
    /\ past.taken \subseteq TextIds

(* A pending question is one that was put to this user, and as long as his *)
(* dialogue is active it is open; the dialogue ends Ttl after the bot last *)
(* dealt with him.                                                         *)
Fits(u, d, whom, fate, last) ==
    /\ d.pending # 0 => /\ d.pending \in DOMAIN whom /\ whom[d.pending] = u
                        /\ d.status = "active" => fate[d.pending] = "open"
    /\ d.status # "none" => d.expires = last[u] + Ttl
    /\ d.status = "none" => d.pending = 0
PendingOpen == \A u \in Users : Fits(u, dialogue[u], past.whom, past.fate, past.last)

(* While the process has taken no more texts than it remembers, it         *)
(* remembers all it has taken.                                             *)
AllRemembered == Cardinality(past.taken) <= Remembered => processed = past.taken /\ past.again = {}

IInv == Typed /\ PendingOpen /\ AnswersOpenQuestion /\ AllRemembered

-----------------------------------------------------------------------------

LEMMA InitIInv == Init => IInv
<1> SUFFICES ASSUME Init PROVE IInv
  OBVIOUS
<1> USE DEF Init
<1>1. Typed
  <2>1. <<>> \in Seq(Text) /\ Len(<<>>) = 0 /\ 0 <= MaxTexts
    BY ChatAssumption
  <2>2. <<>> \in [1..0 -> Users] /\ <<>> \in [1..0 -> Fates]
    OBVIOUS
  <2>3. QED BY <2>1, <2>2 DEF Typed, State, Silent, Idle
<1>2. PendingOpen
  BY DEF PendingOpen, Fits, Silent
<1>3. AnswersOpenQuestion
  BY DEF AnswersOpenQuestion
<1>4. AllRemembered
  BY DEF AllRemembered
<1>5. QED BY <1>1, <1>2, <1>3, <1>4 DEF IInv

(* What an update leaves alone that is no text.                            *)
LEMMA UnchangedStep ==
  ASSUME IInv, UNCHANGED <<dialogue, texts, asked, past, processed>>,
         handler' = handler \/ handler'.step = "idle",
         now' \in Nat
  PROVE  IInv'
<1> USE DEF IInv
<1>1. Typed'
  BY DEF Typed
<1>2. PendingOpen' /\ AnswersOpenQuestion' /\ AllRemembered'
  BY DEF PendingOpen, AnswersOpenQuestion, AllRemembered
<1>3. QED BY <1>1, <1>2

LEMMA CrashStep == ASSUME IInv, Crash PROVE IInv'
<1> USE DEF IInv, Crash
<1>1. past'.whom = past.whom /\ past'.fate = past.fate /\ past'.last = past.last
      /\ past'.taken = {} /\ past'.again = {}
  BY DEF Typed
<1>2. Typed'
  BY <1>1 DEF Typed, Idle
<1>3. PendingOpen' /\ AnswersOpenQuestion'
  BY <1>1 DEF PendingOpen, AnswersOpenQuestion
<1>4. AllRemembered'
  BY <1>1 DEF AllRemembered
<1>5. QED BY <1>2, <1>3, <1>4

(* Taking a text: the cardinality argument of TextTakenOnce.               *)
LEMMA RememberStep ==
  ASSUME IInv, NEW t \in TextIds, t \notin processed,
         processed' \in Kept(processed \union {t}),
         past'.taken = past.taken \union {t},
         past'.again = IF t \in past.taken THEN past.again \union {t} ELSE past.again
  PROVE  AllRemembered'
<1> SUFFICES ASSUME Cardinality(past'.taken) <= Remembered
             PROVE  processed' = past'.taken /\ past'.again = {}
  BY DEF AllRemembered
<1>1. IsFiniteSet(TextIds)
  BY ChatAssumption, FS_Interval DEF TextIds
<1>2. past'.taken \subseteq TextIds /\ past.taken \subseteq past'.taken
  BY DEF IInv, Typed
<1>3. IsFiniteSet(past'.taken)
  BY <1>1, <1>2, FS_Subset
<1>4. Cardinality(past.taken) <= Cardinality(past'.taken) /\ IsFiniteSet(past.taken)
  BY <1>2, <1>3, FS_Subset
<1>5. Cardinality(past.taken) <= Remembered
  BY <1>3, <1>4, FS_CardinalityType, ChatAssumption
<1>6. processed = past.taken /\ past.again = {}
  BY <1>5 DEF IInv, AllRemembered
<1>7. ~ (Cardinality(processed \union {t}) > Remembered)
  BY <1>3, <1>6, FS_CardinalityType, ChatAssumption
<1>8. processed' = processed \union {t}
  BY <1>7 DEF Kept
<1>9. QED BY <1>6, <1>8

LEMMA TakeStep ==
  ASSUME IInv, NEW t \in TextIds, NEW u \in Users, Take(t, u),
         texts' \in Seq(Text), Len(texts') <= MaxTexts,
         t \in DOMAIN texts', DOMAIN texts \subseteq DOMAIN texts'
  PROVE  IInv'
<1> USE DEF Take
<1>1. /\ past'.whom = past.whom /\ past'.fate = past.fate /\ past'.last = past.last
      /\ past'.taken = past.taken \union {t}
      /\ past'.again = IF t \in past.taken THEN past.again \union {t} ELSE past.again
      /\ past' = [whom |-> past'.whom, fate |-> past'.fate, last |-> past'.last,
                  taken |-> past'.taken, again |-> past'.again]
  BY DEF IInv, Typed
<1>2. AllRemembered'
  BY <1>1, RememberStep
<1>3. PendingOpen' /\ AnswersOpenQuestion'
  BY <1>1 DEF IInv, PendingOpen, AnswersOpenQuestion
<1>4. handler'.step \in {"begun", "heard"} => handler'.text = t
  BY DEF Working, Idle
<1>5. Typed'
  BY <1>1, <1>4 DEF IInv, Typed
<1>6. QED BY <1>2, <1>3, <1>5 DEF IInv

LEMMA TextsType ==
  ASSUME Typed
  PROVE  /\ texts \in Seq(Text) /\ Len(texts) \in Nat /\ DOMAIN texts = 1..Len(texts)
         /\ \A t \in DOMAIN texts : t \in TextIds /\ texts[t].user \in Users /\ texts[t].sort \in Sorts
<1>1. texts \in Seq(Text) /\ Len(texts) <= MaxTexts
  BY DEF Typed
<1>2. /\ Len(texts) \in Nat /\ DOMAIN texts = 1..Len(texts)
      /\ \A t \in DOMAIN texts : texts[t] \in Text
  BY <1>1
<1>3. \A t \in DOMAIN texts : t \in TextIds
  BY <1>1, <1>2, ChatAssumption DEF TextIds
<1>4. QED BY <1>1, <1>2, <1>3 DEF Text

LEMMA SendType ==
  ASSUME IInv, NEW u \in Users, NEW sort \in Sorts, NEW caption \in BOOLEAN, Send(u, sort, caption)
  PROVE  /\ texts' \in Seq(Text) /\ Len(texts') <= MaxTexts /\ DOMAIN texts \subseteq DOMAIN texts'
         /\ Len(texts) + 1 \in DOMAIN texts' /\ Len(texts) + 1 \in TextIds
<1> DEFINE new == [user |-> u, sort |-> sort, caption |-> caption]
<1>1. new \in Text /\ texts' = Append(texts, new) /\ Len(texts) < MaxTexts
  BY DEF Send, Text
<1> HIDE DEF new
<1>2. texts \in Seq(Text) /\ Len(texts) \in Nat /\ MaxTexts \in Nat
  BY ChatAssumption DEF IInv, Typed
<1>3. /\ texts' \in Seq(Text) /\ Len(texts') = Len(texts) + 1
      /\ DOMAIN texts = 1..Len(texts) /\ DOMAIN texts' = 1..Len(texts')
  BY <1>1, <1>2
<1>4. QED BY <1>1, <1>2, <1>3 DEF TextIds

LEMMA CaptionStep ==
  ASSUME IInv, NEW u \in Users, NEW sort \in Sorts, TakeCaption(u, sort)
  PROVE  IInv'
<1> USE DEF TakeCaption
<1>1. /\ texts' \in Seq(Text) /\ Len(texts') <= MaxTexts /\ Len(texts) + 1 \in DOMAIN texts'
  BY SendType
<1>2. Typed'
  BY <1>1 DEF IInv, Typed, Working
<1>3. PendingOpen' /\ AnswersOpenQuestion' /\ AllRemembered'
  BY DEF IInv, PendingOpen, AnswersOpenQuestion, AllRemembered
<1>4. QED BY <1>2, <1>3 DEF IInv

-----------------------------------------------------------------------------
(* Dialogues.                                                              *)

LEMMA EffectiveType ==
  ASSUME IInv, NEW u \in Users
  PROVE  /\ Effective(u) \in State
         /\ Fits(u, Effective(u), past.whom, past.fate, past.last)
         /\ Waits(Effective(u)) => now < past.last[u] + Ttl
<1>1. dialogue[u] \in State /\ now \in Nat /\ past.last[u] \in Nat /\ Ttl \in Nat
  BY ChatAssumption DEF IInv, Typed
<1>2. Fits(u, dialogue[u], past.whom, past.fate, past.last)
  BY DEF IInv, PendingOpen
<1>3. CASE dialogue[u].status # "none" /\ dialogue[u].expires <= now
  <2> DEFINE d == [dialogue[u] EXCEPT !.status = "expired"]
  <2>1. /\ Effective(u) = d /\ d \in State /\ d.status = "expired"
        /\ d.pending = dialogue[u].pending /\ d.expires = dialogue[u].expires
    BY <1>1, <1>3 DEF Effective, State
  <2> HIDE DEF d
  <2>2. QED BY <1>2, <1>3, <2>1 DEF Fits, Waits
<1>4. CASE ~ (dialogue[u].status # "none" /\ dialogue[u].expires <= now)
  <2>1. Effective(u) = dialogue[u]
    BY <1>4 DEF Effective
  <2>2. Waits(dialogue[u]) => now < past.last[u] + Ttl
    BY <1>1, <1>2, <1>4 DEF Waits, Fits, State
  <2>3. QED BY <1>1, <1>2, <2>1, <2>2
<1>5. QED BY <1>3, <1>4

(* Whatever changes only what concerns u leaves the others' dialogues.     *)
LEMMA OthersFit ==
  ASSUME IInv, NEW u \in Users,
         \A v \in Users : v # u => dialogue'[v] = dialogue[v],
         DOMAIN past.whom \subseteq DOMAIN past'.whom,
         \A q \in DOMAIN past.whom : past'.whom[q] = past.whom[q],
         \A q \in DOMAIN past.whom : past.whom[q] # u => past'.fate[q] = past.fate[q],
         \A v \in Users : v # u => past'.last[v] = past.last[v],
         Fits(u, dialogue'[u], past'.whom, past'.fate, past'.last)
  PROVE  PendingOpen'
<1> SUFFICES ASSUME NEW v \in Users
             PROVE  Fits(v, dialogue'[v], past'.whom, past'.fate, past'.last)
  BY DEF PendingOpen
<1>1. CASE v = u
  BY <1>1 DEF IInv, Typed
<1>2. CASE v # u
  <2>1. dialogue'[v] = dialogue[v] /\ Fits(v, dialogue[v], past.whom, past.fate, past.last)
    BY <1>2 DEF IInv, Typed, PendingOpen
  <2>2. QED BY <1>2, <2>1 DEF Fits
<1>3. QED BY <1>1, <1>2

LEMMA DropType ==
  ASSUME IInv, NEW u \in Users
  PROVE  /\ Drop(past.fate, u) \in [1..asked -> Fates]
         /\ \A q \in 1..asked : /\ Drop(past.fate, u)[q] # "misread"
                                /\ past.whom[q] # u => Drop(past.fate, u)[q] = past.fate[q]
<1>1. past.fate \in [1..asked -> Fates] /\ DOMAIN past.fate = 1..asked
  BY DEF IInv, Typed
<1>2. \A q \in 1..asked : past.fate[q] # "misread" /\ past.fate[q] \in Fates
  BY <1>1 DEF IInv, AnswersOpenQuestion
<1>3. \A q \in 1..asked :
         Drop(past.fate, u)[q] = IF past.whom[q] = u /\ past.fate[q] = "open" THEN "dropped" ELSE past.fate[q]
  BY <1>1 DEF Drop
<1>4. DOMAIN Drop(past.fate, u) = 1..asked
  BY <1>1 DEF Drop
<1>5. \A q \in 1..asked : Drop(past.fate, u)[q] \in Fates
  BY <1>2, <1>3 DEF Fates
<1>6. Drop(past.fate, u) \in [1..asked -> Fates]
  BY <1>1, <1>5 DEF Drop
<1>7. QED BY <1>2, <1>3, <1>6

LEMMA ResetStep == ASSUME IInv, NEW u \in Users, ResetContext(u) PROVE IInv'
<1> USE DEF ResetContext
<1>1. /\ past'.whom = past.whom /\ past'.fate = Drop(past.fate, u) /\ past'.last = past.last
      /\ past'.taken = past.taken /\ past'.again = past.again
      /\ past' = [whom |-> past'.whom, fate |-> past'.fate, last |-> past'.last,
                  taken |-> past'.taken, again |-> past'.again]
  BY DEF IInv, Typed
<1>2. dialogue[u] \in State /\ Fits(u, dialogue[u], past.whom, past.fate, past.last)
  BY DEF IInv, Typed, PendingOpen
<1>3. Closed(dialogue[u]) \in State
      /\ Fits(u, Closed(dialogue[u]), past'.whom, past'.fate, past'.last)
  <2>1. CASE dialogue[u].status = "none"
    BY <1>1, <1>2, <2>1 DEF Closed, Fits
  <2>2. CASE dialogue[u].status # "none"
    <3> DEFINE d == [dialogue[u] EXCEPT !.status = "closed", !.pending = 0]
    <3>1. /\ Closed(dialogue[u]) = d /\ d \in State /\ d.status = "closed" /\ d.pending = 0
          /\ d.expires = dialogue[u].expires
      BY <1>2, <2>2 DEF Closed, State
    <3> HIDE DEF d
    <3>2. QED BY <1>1, <1>2, <2>2, <3>1 DEF Fits
  <2>3. QED BY <2>1, <2>2
<1>4. dialogue' = [dialogue EXCEPT ![u] = Closed(dialogue[u])]
  OBVIOUS
<1>5. /\ DOMAIN past.whom = 1..asked /\ past'.fate \in [1..asked -> Fates]
      /\ \A q \in 1..asked : /\ past'.fate[q] # "misread"
                             /\ past.whom[q] # u => past'.fate[q] = past.fate[q]
  BY <1>1, DropType DEF IInv, Typed
<1>6. PendingOpen'
  <2>1. dialogue'[u] = Closed(dialogue[u]) /\ \A v \in Users : v # u => dialogue'[v] = dialogue[v]
    BY <1>4 DEF IInv, Typed
  <2>2. Fits(u, dialogue'[u], past'.whom, past'.fate, past'.last)
    BY <1>3, <2>1
  <2>3. /\ DOMAIN past.whom \subseteq DOMAIN past'.whom
        /\ \A q \in DOMAIN past.whom : past'.whom[q] = past.whom[q]
        /\ \A q \in DOMAIN past.whom : past.whom[q] # u => past'.fate[q] = past.fate[q]
        /\ \A v \in Users : v # u => past'.last[v] = past.last[v]
    BY <1>1, <1>5
  <2>4. QED BY <2>1, <2>2, <2>3, OthersFit
<1>7. Typed' /\ AnswersOpenQuestion' /\ AllRemembered'
  <2>1. dialogue' \in [Users -> State]
    BY <1>3, <1>4 DEF IInv, Typed
  <2>2. Typed'
    BY <1>1, <1>5, <2>1 DEF IInv, Typed
  <2>3. AnswersOpenQuestion'
    BY <1>1, <1>5 DEF AnswersOpenQuestion
  <2>4. AllRemembered'
    BY <1>1 DEF IInv, AllRemembered
  <2>5. QED BY <2>2, <2>3, <2>4
<1>8. QED BY <1>6, <1>7 DEF IInv

(* record_user: who answers, answers a question that is open.              *)
LEMMA HeardStep == ASSUME IInv, RecordUser PROVE IInv'
<1> DEFINE u == texts[handler.text].user
           d == Effective(u)
           intent == Classify(texts[handler.text].sort, d)
           e == Heard(Opened(d), intent)
<1>1. /\ handler.step = "begun" /\ handler' = [handler EXCEPT !.step = "heard"]
      /\ dialogue' = [dialogue EXCEPT ![u] = e]
      /\ past' = [past EXCEPT !.last[u] = now,
                     !.fate = CASE intent = "ANSWER_TO_PENDING" -> Answered(past.fate, u, d.pending)
                                [] intent \in {"CANCEL", "NEW_TOPIC"} -> Drop(past.fate, u)
                                [] OTHER -> past.fate]
      /\ UNCHANGED <<active, up, processed, buckets, texts, asked, now, updates, boots>>
  BY DEF RecordUser
<1>2. u \in Users /\ texts[handler.text].sort \in Sorts
  BY <1>1, TextsType DEF IInv, Typed
<1>3. d \in State /\ Fits(u, d, past.whom, past.fate, past.last)
      /\ (Waits(d) => now < past.last[u] + Ttl)
  BY <1>2, EffectiveType
<1>4. intent = "ANSWER_TO_PENDING" => Waits(d)
  BY <1>2, ChatAssumption DEF Classify
<1> HIDE DEF u, d, intent, e
<1>5. /\ past'.whom = past.whom /\ past'.taken = past.taken /\ past'.again = past.again
      /\ past'.last = [past.last EXCEPT ![u] = now]
      /\ past'.fate = CASE intent = "ANSWER_TO_PENDING" -> Answered(past.fate, u, d.pending)
                        [] intent \in {"CANCEL", "NEW_TOPIC"} -> Drop(past.fate, u)
                        [] OTHER -> past.fate
      /\ past' = [whom |-> past'.whom, fate |-> past'.fate, last |-> past'.last,
                  taken |-> past'.taken, again |-> past'.again]
  BY <1>1 DEF IInv, Typed
<1>6. /\ past.whom \in [1..asked -> Users] /\ past.fate \in [1..asked -> Fates]
      /\ past.last \in [Users -> Nat] /\ now \in Nat /\ Ttl \in Nat
      /\ \A q \in 1..asked : past.fate[q] # "misread"
  BY ChatAssumption DEF IInv, Typed, AnswersOpenQuestion
<1>7. /\ past'.fate \in [1..asked -> Fates]
      /\ \A q \in 1..asked : /\ past'.fate[q] # "misread"
                             /\ past.whom[q] # u => past'.fate[q] = past.fate[q]
      /\ ~ Settles(intent) => past'.fate = past.fate
  <2>1. CASE intent = "ANSWER_TO_PENDING"
    <3>1. /\ d.pending \in 1..asked /\ past.whom[d.pending] = u
          /\ past.fate[d.pending] = "open" /\ now < past.last[u] + Ttl
      BY <1>3, <1>4, <1>6, <2>1 DEF Waits, Fits
    <3>2. past'.fate = [past.fate EXCEPT ![d.pending] = "answered"]
      BY <1>5, <2>1, <3>1 DEF Answered
    <3>3. QED BY <1>6, <2>1, <3>1, <3>2 DEF Fates, Settles
  <2>2. CASE intent \in {"CANCEL", "NEW_TOPIC"}
    <3>1. past'.fate = Drop(past.fate, u)
      BY <1>5, <2>2
    <3>2. QED BY <1>2, <2>2, <3>1, DropType DEF Settles
  <2>3. CASE ~ Settles(intent)
    BY <1>5, <1>6, <2>3 DEF Settles
  <2>4. QED BY <2>1, <2>2, <2>3 DEF Settles
<1>8. e \in State /\ Fits(u, e, past'.whom, past'.fate, past'.last)
  <2> DEFINE o == Opened(d)
  <2>1. /\ o \in State /\ o.status = "active"
        /\ o.pending # 0 => o = d /\ d.status = "active"
    BY <1>3 DEF Opened, State, Fresh, Silent
  <2> DEFINE p == IF Settles(intent) THEN 0 ELSE o.pending
  <2>2. e = [o EXCEPT !.pending = p, !.expires = now + Ttl]
    BY DEF e, Heard
  <2>3. p \in Nat /\ now + Ttl \in Nat
    BY <1>6, <2>1 DEF State
  <2> HIDE DEF o
  <2>4. e \in State /\ e.status = "active" /\ e.pending = p /\ e.expires = now + Ttl
    <3> HIDE DEF p
    <3>1. QED BY <2>1, <2>2, <2>3 DEF State
  <2>5. p # 0 => /\ p = d.pending /\ ~ Settles(intent) /\ d.status = "active"
    BY <2>1
  <2> HIDE DEF p
  <2>6. past'.last[u] = now
    BY <1>2, <1>5, <1>6
  <2>7. p # 0 => /\ p \in DOMAIN past'.whom /\ past'.whom[p] = u /\ past'.fate[p] = "open"
    BY <1>3, <1>5, <1>7, <2>5 DEF Fits
  <2>8. QED BY <2>4, <2>6, <2>7 DEF Fits
<1>9. PendingOpen'
  <2>1. \A v \in Users : v # u => past'.last[v] = past.last[v]
    BY <1>5, <1>6
  <2>2. DOMAIN past.whom = 1..asked
    BY <1>6
  <2>3. dialogue'[u] = e /\ \A v \in Users : v # u => dialogue'[v] = dialogue[v]
    BY <1>1, <1>2 DEF IInv, Typed
  <2>4. QED BY <1>2, <1>5, <1>7, <1>8, <2>1, <2>2, <2>3, OthersFit
<1>10. Typed'
  <2>1. dialogue' \in [Users -> State] /\ past'.last \in [Users -> Nat]
    BY <1>1, <1>5, <1>6, <1>8 DEF IInv, Typed
  <2>2. handler'.text = handler.text \/ handler'.step = handler.step
    BY <1>1
  <2>3. handler'.text \in DOMAIN texts
    BY <1>1 DEF IInv, Typed
  <2>4. QED BY <1>1, <1>5, <1>7, <2>1, <2>3 DEF IInv, Typed
<1>11. AnswersOpenQuestion' /\ AllRemembered'
  BY <1>1, <1>5, <1>7 DEF IInv, AnswersOpenQuestion, AllRemembered
<1>12. QED BY <1>9, <1>10, <1>11 DEF IInv

(* record_assistant: a question that is put is open.                       *)
LEMMA SaidStep == ASSUME IInv, NEW asks \in BOOLEAN, RecordAssistant(asks) PROVE IInv'
<1> DEFINE u == texts[handler.text].user
           d == Effective(u)
           q == IF asks THEN asked + 1 ELSE 0
           e == Said(d, q)
<1>1. /\ handler.step = "heard" /\ handler' = Idle
      /\ dialogue' = [dialogue EXCEPT ![u] = e]
      /\ asked' = IF asks THEN q ELSE asked
      /\ past' = [past EXCEPT !.last[u] = now,
                    !.whom = IF asks THEN Append(past.whom, u) ELSE past.whom,
                    !.fate = IF asks THEN Append(Drop(past.fate, u), "open") ELSE past.fate]
      /\ UNCHANGED <<active, up, processed, buckets, texts, now, updates, boots>>
  BY DEF RecordAssistant
<1>2. u \in Users
  BY <1>1, TextsType DEF IInv, Typed
<1>3. d \in State /\ Fits(u, d, past.whom, past.fate, past.last)
  BY <1>2, EffectiveType
<1>q. asked \in Nat /\ q \in Nat /\ (asks => q = asked + 1 /\ q # 0) /\ (~ asks => q = 0)
  BY DEF IInv, Typed
<1> HIDE DEF u, d, q, e
<1>4. /\ past'.taken = past.taken /\ past'.again = past.again
      /\ past'.last = [past.last EXCEPT ![u] = now]
      /\ past'.whom = IF asks THEN Append(past.whom, u) ELSE past.whom
      /\ past'.fate = IF asks THEN Append(Drop(past.fate, u), "open") ELSE past.fate
      /\ past' = [whom |-> past'.whom, fate |-> past'.fate, last |-> past'.last,
                  taken |-> past'.taken, again |-> past'.again]
  BY <1>1 DEF IInv, Typed
<1>5. /\ past.whom \in [1..asked -> Users] /\ past.fate \in [1..asked -> Fates]
      /\ past.last \in [Users -> Nat] /\ now \in Nat /\ Ttl \in Nat
      /\ \A r \in 1..asked : past.fate[r] # "misread"
  BY ChatAssumption DEF IInv, Typed, AnswersOpenQuestion
<1>6. /\ past'.whom \in [1..asked' -> Users] /\ past'.fate \in [1..asked' -> Fates]
      /\ asked' \in Nat /\ asked <= asked'
      /\ \A r \in 1..asked' : past'.fate[r] # "misread"
      /\ \A r \in 1..asked : /\ past'.whom[r] = past.whom[r]
                             /\ past.whom[r] # u => past'.fate[r] = past.fate[r]
      /\ asks => q \in 1..asked' /\ past'.whom[q] = u /\ past'.fate[q] = "open"
      /\ ~ asks => past'.fate = past.fate
  <2>1. CASE asks
    <3> DEFINE f == Drop(past.fate, u)
    <3>1. f \in [1..asked -> Fates] /\ \A r \in 1..asked : f[r] # "misread"
             /\ (past.whom[r] # u => f[r] = past.fate[r])
      BY <1>2, DropType
    <3> HIDE DEF f
    <3>2. past'.fate = Append(f, "open") /\ past'.whom = Append(past.whom, u) /\ asked' = asked + 1
      BY <1>1, <1>4, <1>q, <2>1 DEF f
    <3>3. f \in Seq(Fates) /\ Len(f) = asked /\ past.whom \in Seq(Users) /\ Len(past.whom) = asked
      BY <3>1, <1>5, <1>q, SeqDef
    <3>4. "open" \in Fates
      BY DEF Fates
    <3>5. /\ past'.fate \in Seq(Fates) /\ Len(past'.fate) = asked'
          /\ past'.whom \in Seq(Users) /\ Len(past'.whom) = asked'
          /\ \A r \in 1..asked : past'.fate[r] = f[r] /\ past'.whom[r] = past.whom[r]
          /\ past'.fate[asked'] = "open" /\ past'.whom[asked'] = u
      BY <1>2, <1>q, <3>2, <3>3, <3>4, AppendProperties
    <3>6. past'.whom \in [1..asked' -> Users] /\ past'.fate \in [1..asked' -> Fates]
      BY <3>5
    <3>7. \A r \in 1..asked' : r \in 1..asked \/ r = asked'
      BY <1>q, <3>2
    <3>8. QED BY <1>q, <2>1, <3>1, <3>2, <3>5, <3>6, <3>7
  <2>2. CASE ~ asks
    BY <1>1, <1>4, <1>5, <1>q, <2>2
  <2>3. QED BY <2>1, <2>2
<1>7. e \in State /\ Fits(u, e, past'.whom, past'.fate, past'.last)
  <2> DEFINE o == IF d.status = "none" THEN Fresh ELSE d
             p == IF q # 0 THEN q ELSE o.pending
  <2>1. /\ o \in State /\ o.status # "none"
        /\ o.pending # 0 => o = d
    BY <1>3 DEF State, Fresh, Silent, Fits
  <2>2. e = [o EXCEPT !.pending = p, !.expires = now + Ttl]
    BY DEF e, Said
  <2>3. p \in Nat /\ now + Ttl \in Nat
    BY <1>5, <1>q, <2>1 DEF State
  <2>4. q # 0 => p = q
    OBVIOUS
  <2>5. q = 0 => p = o.pending
    OBVIOUS
  <2> HIDE DEF o, p
  <2>6. e \in State /\ e.status = o.status /\ e.pending = p /\ e.expires = now + Ttl
    BY <2>1, <2>2, <2>3 DEF State
  <2>7. past'.last[u] = now
    BY <1>2, <1>4, <1>5
  <2>8. e.pending # 0 => /\ e.pending \in DOMAIN past'.whom /\ past'.whom[e.pending] = u
                         /\ e.status = "active" => past'.fate[e.pending] = "open"
    <3>1. CASE q # 0
      <4>1. asks /\ e.pending = q
        BY <1>q, <2>4, <2>6, <3>1
      <4>2. QED BY <1>6, <4>1
    <3>2. CASE q = 0 /\ e.pending # 0
      <4>1. ~ asks /\ o = d /\ e.pending = d.pending /\ e.status = d.status
        BY <1>q, <2>1, <2>5, <2>6, <3>2
      <4>2. d.pending \in 1..asked /\ past.whom[d.pending] = u
            /\ (d.status = "active" => past.fate[d.pending] = "open")
        BY <1>3, <1>5, <3>2, <4>1 DEF Fits
      <4>3. d.pending \in 1..asked'
        BY <1>6, <1>q, <4>2
      <4>4. QED BY <1>6, <4>1, <4>2, <4>3
    <3>3. QED BY <3>1, <3>2
  <2>9. e.status # "none"
    BY <2>1, <2>6
  <2>10. QED BY <2>6, <2>7, <2>8, <2>9 DEF Fits
<1>8. PendingOpen'
  <2>1. \A v \in Users : v # u => past'.last[v] = past.last[v]
    BY <1>4, <1>5
  <2>2. DOMAIN past.whom = 1..asked /\ DOMAIN past.whom \subseteq DOMAIN past'.whom
    BY <1>5, <1>6, <1>q
  <2>3. dialogue'[u] = e /\ \A v \in Users : v # u => dialogue'[v] = dialogue[v]
    BY <1>1, <1>2 DEF IInv, Typed
  <2>4. QED BY <1>2, <1>6, <1>7, <2>1, <2>2, <2>3, OthersFit
<1>9. Typed'
  <2>1. dialogue' \in [Users -> State] /\ past'.last \in [Users -> Nat]
    BY <1>1, <1>4, <1>5, <1>7 DEF IInv, Typed
  <2>2. QED BY <1>1, <1>4, <1>6, <2>1 DEF IInv, Typed, Idle
<1>10. AnswersOpenQuestion' /\ AllRemembered'
  BY <1>1, <1>4, <1>6 DEF IInv, AnswersOpenQuestion, AllRemembered
<1>11. QED BY <1>8, <1>9, <1>10 DEF IInv

LEMMA NextIInv == IInv /\ [Next]_vars => IInv'
<1> SUFFICES ASSUME IInv, [Next]_vars PROVE IInv'
  OBVIOUS
<1>1. CASE Boot \/ Tick \/ Elsewhere \/ Fail \/ UNCHANGED vars
  <2>1. now' \in Nat
    BY <1>1 DEF Boot, Tick, Elsewhere, Fail, vars, IInv, Typed
  <2>2. handler' = handler \/ handler'.step = "idle"
    BY <1>1 DEF Boot, Tick, Elsewhere, Fail, vars, Idle
  <2>3. UNCHANGED <<dialogue, texts, asked, past, processed>>
    BY <1>1 DEF Boot, Tick, Elsewhere, Fail, vars
  <2>4. QED BY <2>1, <2>2, <2>3, UnchangedStep
<1>2. ASSUME NEW u \in Users, ChangeAccess(u) PROVE IInv'
  <2>1. UNCHANGED <<dialogue, texts, asked, past, processed, now, handler>>
    BY <1>2 DEF ChangeAccess
  <2>2. now' \in Nat
    BY <2>1 DEF IInv, Typed
  <2>3. QED BY <2>1, <2>2, UnchangedStep
<1>3. ASSUME NEW u \in Users, NEW sort \in Sorts, TakeNew(u, sort) PROVE IInv'
  <2>1. Send(u, sort, FALSE) /\ Take(Len(texts) + 1, u)
    BY <1>3 DEF TakeNew
  <2>2. QED BY <2>1, SendType, TakeStep
<1>4. ASSUME NEW t \in DOMAIN texts, TakeAgain(t) PROVE IInv'
  <2>1. Take(t, texts[t].user) /\ texts' = texts
    BY <1>4 DEF TakeAgain
  <2>2. texts \in Seq(Text) /\ Len(texts) <= MaxTexts
    BY DEF IInv, Typed
  <2>3. t \in TextIds /\ texts[t].user \in Users
    BY TextsType DEF IInv
  <2>4. QED BY <2>1, <2>2, <2>3, TakeStep
<1>5. QED
  BY <1>1, <1>2, <1>3, <1>4, CrashStep, ResetStep, CaptionStep, HeardStep, SaidStep DEF Next

(* The invariant of the dialogues and of what the process remembers.       *)
THEOREM ChatInvariant == Spec => []IInv
  BY InitIInv, NextIInv, PTL DEF Spec

-----------------------------------------------------------------------------
(* What the run checks.                                                    *)

(* A text is never taken for the answer to a question of somebody else's,  *)
(* one settled before, or one that has timed out (record_user, get_state). *)
THEOREM AnswersAreToOpenQuestions == Spec => []AnswersOpenQuestion
<1>1. IInv => AnswersOpenQuestion
  BY DEF IInv
<1>2. QED BY <1>1, ChatInvariant, PTL

(* As long as the process has taken no more texts than processed_updates   *)
(* holds, it has worked on none of them twice.                             *)
THEOREM TextsAreTakenOnce == Spec => []TextTakenOnce
<1>1. IInv => TextTakenOnce
  BY DEF IInv, AllRemembered, TextTakenOnce
<1>2. QED BY <1>1, ChatInvariant, PTL

-----------------------------------------------------------------------------
(* The type invariant: what IInv does not say is about the process, and    *)
(* about the limiter.  A bucket is in the order of time, so those of its   *)
(* entries that have left the window are its first ones.                   *)

Filled(b, limit, t) ==
    /\ b \in Seq(Nat) /\ Len(b) <= limit
    /\ \A i \in 1..Len(b) : b[i] <= t
    /\ \A i, j \in 1..Len(b) : i < j => b[i] <= b[j] /\ b[i] + Window > b[j]

Machine ==
    /\ active \subseteq Users /\ up \in BOOLEAN
    /\ processed \subseteq DOMAIN texts
    /\ handler \in {Idle} \union [kind : {"text", "caption"}, text : DOMAIN texts, step : {"begun", "heard"}]
    /\ handler # Idle => up
    /\ past.again \subseteq TextIds
Limited ==
    /\ buckets \in [Users -> Seq(Nat)]
    /\ \A u \in Users : Filled(buckets[u], Limit[u], now)

LEMMA LimitType == Window \in Nat /\ \A u \in Users : Limit[u] \in Nat
  BY ChatAssumption

LEMMA Counted == ASSUME NEW n \in Nat PROVE IsFiniteSet(1..n) /\ Cardinality(1..n) = n
<1>1. IsFiniteSet(1..n) /\ Cardinality(1..n) = IF 1 > n THEN 0 ELSE n - 1 + 1
  BY FS_Interval
<1>2. QED BY <1>1

LEMMA TailType ==
  ASSUME NEW b \in Seq(Nat), NEW k \in Nat, k <= Len(b), NEW r, r = SubSeq(b, k + 1, Len(b))
  PROVE  /\ r \in Seq(Nat) /\ Len(r) = Len(b) - k
         /\ \A i \in 1..Len(r) : r[i] = b[k + i] /\ k + i \in 1..Len(b) /\ k + i > k
<1>1. \A i \in k + 1 .. Len(b) : b[i] \in Nat
  OBVIOUS
<1>2. k + 1 \in Int /\ Len(b) \in Int /\ Len(b) \in Nat
  OBVIOUS
<1>3. /\ r \in Seq(Nat) /\ Len(r) = IF k + 1 <= Len(b) THEN Len(b) - (k + 1) + 1 ELSE 0
      /\ \A i \in 1 .. Len(b) - (k + 1) + 1 : r[i] = b[k + 1 + i - 1]
  BY <1>1, <1>2, SubSeqProperties
<1>4. Len(b) - (k + 1) + 1 = Len(b) - k /\ (k + 1 <= Len(b) \/ Len(b) - k = 0)
  BY <1>2
<1>5. Len(r) = Len(b) - k
  BY <1>3, <1>4
<1>6. ASSUME NEW i \in 1..Len(r) PROVE r[i] = b[k + i] /\ k + i \in 1..Len(b) /\ k + i > k
  <2>1. i \in Int /\ i >= 1 /\ i <= Len(b) - k
    BY <1>2, <1>5
  <2>2. i \in 1 .. Len(b) - (k + 1) + 1
    BY <1>3, <1>4, <1>5
  <2>3. k + 1 + i - 1 = k + i
    BY <2>1
  <2>4. r[i] = b[k + i]
    BY <1>3, <2>2, <2>3
  <2>5. QED BY <1>2, <2>1, <2>4
<1>7. QED BY <1>3, <1>5, <1>6

(* An entry behind as many as have left the window has not left it.        *)
LEMMA RecentType ==
  ASSUME IInv, Limited, NEW u \in Users
  PROVE  /\ Filled(Recent(u), Limit[u], now)
         /\ \A i \in 1..Len(Recent(u)) : Recent(u)[i] + Window > now
<1> DEFINE b == buckets[u]
           G == {i \in 1..Len(b) : b[i] + Window <= now}
           k == Cardinality(G)
           r == SubSeq(b, k + 1, Len(b))
<1>1. b \in Seq(Nat) /\ Len(b) \in Nat /\ Filled(b, Limit[u], now) /\ now \in Nat /\ DOMAIN b = 1..Len(b)
  BY DEF Limited, IInv, Typed
<1>2. Recent(u) = r
  BY <1>1 DEF Recent, Gone
<1> HIDE DEF b
<1>3. IsFiniteSet(1..Len(b)) /\ Cardinality(1..Len(b)) = Len(b)
  BY <1>1, Counted
<1>4. G \subseteq 1..Len(b) /\ IsFiniteSet(G) /\ k \in Nat /\ k <= Len(b)
  BY <1>3, FS_Subset, FS_CardinalityType
<1>5. ASSUME NEW i \in 1..Len(b), i > k PROVE b[i] + Window > now
  <2> SUFFICES ASSUME b[i] + Window <= now PROVE FALSE
    BY <1>1, LimitType
  <2>1. ASSUME NEW j \in 1..i PROVE j \in G
    <3>1. j \in 1..Len(b) /\ (j < i \/ j = i) /\ b[j] \in Nat /\ b[i] \in Nat
      BY <1>1
    <3>2. b[j] <= b[i]
      BY <1>1, <3>1 DEF Filled
    <3>3. QED BY <1>1, <3>1, <3>2, LimitType
  <2>2. i \in Nat /\ IsFiniteSet(1..i) /\ Cardinality(1..i) = i
    BY <1>1, Counted
  <2>3. i <= k
    BY <1>4, <2>1, <2>2, FS_Subset
  <2>4. QED BY <1>4, <1>5, <2>3
<1> HIDE DEF G, k
<1>6. /\ r \in Seq(Nat) /\ Len(r) = Len(b) - k
      /\ \A i \in 1..Len(r) : r[i] = b[k + i] /\ k + i \in 1..Len(b) /\ k + i > k
  BY <1>1, <1>4, TailType
<1> HIDE DEF r
<1>7. Len(r) <= Limit[u]
  BY <1>1, <1>4, <1>6, LimitType DEF Filled
<1>8. \A i \in 1..Len(r) : r[i] <= now /\ r[i] + Window > now
  BY <1>1, <1>5, <1>6 DEF Filled
<1>9. \A i, j \in 1..Len(r) : i < j => r[i] <= r[j] /\ r[i] + Window > r[j]
  <2> SUFFICES ASSUME NEW i \in 1..Len(r), NEW j \in 1..Len(r), i < j
               PROVE  r[i] <= r[j] /\ r[i] + Window > r[j]
    OBVIOUS
  <2>1. k + i < k + j /\ k + i \in 1..Len(b) /\ k + j \in 1..Len(b)
    BY <1>4, <1>6
  <2>2. QED BY <1>1, <1>6, <2>1 DEF Filled
<1>10. QED BY <1>2, <1>6, <1>7, <1>8, <1>9 DEF Filled

(* What the limiter keeps of a request it lets pass, or refuses.           *)
LEMMA FilledUp ==
  ASSUME IInv, Limited, NEW u \in Users,
         buckets' = [buckets EXCEPT ![u] = IF Allowed(u) THEN Append(Recent(u), now) ELSE Recent(u)],
         now' = now
  PROVE  Limited'
<1> DEFINE r == Recent(u)
           n == Append(r, now)
<1>1. Filled(r, Limit[u], now) /\ (\A i \in 1..Len(r) : r[i] + Window > now)
      /\ r \in Seq(Nat) /\ Len(r) \in Nat
  BY RecentType DEF Filled
<1>2. now \in Nat /\ Limit[u] \in Nat
  BY LimitType DEF IInv, Typed
<1>a. Allowed(u) => Len(r) < Limit[u]
  BY DEF Allowed
<1> HIDE DEF r
<1>3. /\ n \in Seq(Nat) /\ Len(n) = Len(r) + 1
      /\ \A i \in 1..Len(r) : n[i] = r[i]
      /\ n[Len(r) + 1] = now
  BY <1>1, <1>2, AppendProperties
<1> HIDE DEF n
<1>4. ASSUME Allowed(u) PROVE Filled(n, Limit[u], now)
  <2>1. Len(n) <= Limit[u]
    BY <1>1, <1>2, <1>3, <1>4, <1>a
  <2>2. \A i \in 1..Len(n) : i \in 1..Len(r) \/ i = Len(r) + 1
    BY <1>1, <1>3
  <2>3. \A i \in 1..Len(n) : n[i] <= now
    BY <1>1, <1>2, <1>3, <2>2 DEF Filled
  <2>4. ASSUME NEW i \in 1..Len(n), NEW j \in 1..Len(n), i < j
        PROVE  n[i] <= n[j] /\ n[i] + Window > n[j]
    <3>1. i \in 1..Len(r) /\ n[i] = r[i]
      BY <1>1, <1>3, <2>2, <2>4
    <3>2. CASE j \in 1..Len(r)
      BY <1>1, <1>3, <2>4, <3>1, <3>2 DEF Filled
    <3>3. CASE j = Len(r) + 1
      BY <1>1, <1>3, <3>1, <3>3 DEF Filled
    <3>4. QED BY <2>2, <3>2, <3>3
  <2>5. QED BY <1>3, <2>1, <2>3, <2>4 DEF Filled
<1>5. buckets \in [Users -> Seq(Nat)] /\ \A v \in Users : Filled(buckets[v], Limit[v], now)
  BY DEF Limited
<1>6. buckets' = [buckets EXCEPT ![u] = IF Allowed(u) THEN n ELSE r]
  BY DEF r, n
<1>7. QED BY <1>1, <1>3, <1>4, <1>5, <1>6 DEF Limited

LEMMA LimitedNext == IInv /\ Limited /\ [Next]_vars => Limited'
<1> SUFFICES ASSUME IInv, Limited, [Next]_vars PROVE Limited'
  OBVIOUS
<1>1. ASSUME UNCHANGED buckets, now' \in Nat, now <= now' PROVE Limited'
  <2>1. ASSUME NEW u \in Users PROVE Filled(buckets[u], Limit[u], now')
    <3>1. /\ \A i \in 1..Len(buckets[u]) : buckets[u][i] \in Nat /\ buckets[u][i] <= now
          /\ now \in Nat
      BY DEF Limited, Filled, IInv, Typed
    <3>2. \A i \in 1..Len(buckets[u]) : buckets[u][i] <= now'
      BY <1>1, <3>1
    <3>3. QED BY <3>2 DEF Limited, Filled
  <2>2. QED BY <1>1, <2>1 DEF Limited
<1>2. now \in Nat
  BY DEF IInv, Typed
<1>3. ASSUME NEW t, NEW u \in Users, Take(t, u) PROVE Limited'
  BY <1>3, FilledUp DEF Take
<1>4. ASSUME NEW t \in DOMAIN texts, TakeAgain(t) PROVE Limited'
  <2>1. texts[t].user \in Users
    BY TextsType DEF IInv
  <2>2. QED BY <1>3, <1>4, <2>1 DEF TakeAgain
<1>5. CASE Crash
  <2>1. Filled(<<>>, 0, 0) /\ <<>> \in Seq(Nat) /\ \A u \in Users : Filled(<<>>, Limit[u], now)
    BY LimitType DEF Filled
  <2>2. QED BY <1>5, <2>1 DEF Crash, Limited
<1>6. ASSUME NEW u \in Users,
             ChangeAccess(u) \/ ResetContext(u) \/ \E sort \in Sorts : TakeCaption(u, sort)
      PROVE  Limited'
  <2>1. buckets' = buckets /\ now' = now
    BY <1>6 DEF ChangeAccess, ResetContext, TakeCaption
  <2>2. QED BY <1>1, <1>2, <2>1
<1>7. CASE Boot \/ Tick \/ Elsewhere \/ Fail \/ RecordUser \/ (\E a \in BOOLEAN : RecordAssistant(a)) \/ UNCHANGED vars
  <2>1. buckets' = buckets /\ (now' = now \/ now' = now + 1)
    BY <1>7 DEF Boot, Tick, Elsewhere, Fail, RecordUser, RecordAssistant, vars
  <2>2. QED BY <1>1, <1>2, <2>1
<1>8. QED BY <1>3, <1>4, <1>5, <1>6, <1>7 DEF Next, TakeNew

LEMMA MachineTake ==
  ASSUME IInv, Machine, NEW t, NEW u \in Users, Take(t, u), t \in TextIds,
         t \in DOMAIN texts', DOMAIN texts \subseteq DOMAIN texts'
  PROVE  Machine'
<1>1. processed' \subseteq processed \union {t}
  BY DEF Take, Kept
<1>2. handler' \in {Idle, Working("text", t)} /\ up /\ up' = up /\ active' = active
  BY DEF Take, NextUpdate, Free
<1>3. Working("text", t) \in [kind : {"text", "caption"}, text : DOMAIN texts', step : {"begun", "heard"}]
  BY DEF Working
<1>4. past'.again \subseteq past.again \union {t}
  BY DEF Take, IInv, Typed
<1>5. QED BY <1>1, <1>2, <1>3, <1>4 DEF Machine

LEMMA MachineNext == IInv /\ Machine /\ [Next]_vars => Machine'
<1> SUFFICES ASSUME IInv, Machine, [Next]_vars PROVE Machine'
  OBVIOUS
<1>1. ASSUME NEW u \in Users, NEW sort \in Sorts, TakeNew(u, sort) PROVE Machine'
  <2>1. Send(u, sort, FALSE) /\ Take(Len(texts) + 1, u)
    BY <1>1 DEF TakeNew
  <2>2. QED BY <2>1, SendType, MachineTake
<1>2. ASSUME NEW t \in DOMAIN texts, TakeAgain(t) PROVE Machine'
  <2>1. Take(t, texts[t].user) /\ texts' = texts
    BY <1>2 DEF TakeAgain
  <2>2. t \in TextIds /\ texts[t].user \in Users
    BY TextsType DEF IInv
  <2>3. QED BY <2>1, <2>2, MachineTake
<1>3. ASSUME NEW u \in Users, NEW sort \in Sorts, TakeCaption(u, sort) PROVE Machine'
  <2>1. Send(u, sort, TRUE) /\ handler' = Working("caption", Len(texts) + 1) /\ up
        /\ UNCHANGED <<active, up, processed, past>>
    BY <1>3 DEF TakeCaption, NextUpdate, Free
  <2>2. DOMAIN texts \subseteq DOMAIN texts' /\ Len(texts) + 1 \in DOMAIN texts'
    BY <2>1, SendType
  <2>3. Working("caption", Len(texts) + 1)
          \in [kind : {"text", "caption"}, text : DOMAIN texts', step : {"begun", "heard"}]
    BY <2>2 DEF Working
  <2>4. QED BY <2>1, <2>2, <2>3 DEF Machine
<1>4. ASSUME past'.again = past.again \/ past'.again = {}, texts' = texts,
             handler' \in {Idle, handler, [handler EXCEPT !.step = "heard"]},
             handler.step = "idle" => handler' \in {Idle, handler},
             handler' # Idle => up', active' \subseteq Users, up' \in BOOLEAN,
             processed' = processed \/ processed' = {}
      PROVE  Machine'
  <2>1. CASE handler.step = "idle"
    BY <1>4, <2>1 DEF Machine
  <2>2. CASE handler.step # "idle"
    BY <1>4, <2>2 DEF Machine, Idle
  <2>3. QED BY <2>1, <2>2
<1>5. CASE Boot \/ Tick \/ UNCHANGED vars
  BY <1>4, <1>5 DEF Boot, Tick, vars, Machine
<1>6. CASE Crash
  <2>1. past'.again = {}
    BY <1>6 DEF Crash, IInv, Typed
  <2>2. QED BY <1>4, <1>6, <2>1 DEF Crash, Machine
<1>7. ASSUME NEW u \in Users, ChangeAccess(u) PROVE Machine'
  BY <1>4, <1>7 DEF ChangeAccess, Machine
<1>8. ASSUME NEW u \in Users, ResetContext(u) PROVE Machine'
  <2>1. past'.again = past.again
    BY <1>8 DEF ResetContext, IInv, Typed
  <2>2. QED BY <1>4, <1>8, <2>1 DEF ResetContext, Machine
<1>9. CASE Elsewhere \/ Fail
  BY <1>4, <1>9 DEF Elsewhere, Fail, Machine
<1>10. CASE RecordUser
  <2>1. past'.again = past.again
    BY <1>10 DEF RecordUser, IInv, Typed
  <2>2. handler.step = "begun" /\ handler' = [handler EXCEPT !.step = "heard"] /\ handler # Idle
        /\ UNCHANGED <<active, up, texts, processed>>
    BY <1>10 DEF RecordUser, Idle
  <2>3. QED BY <1>4, <2>1, <2>2 DEF Machine
<1>11. ASSUME NEW asks \in BOOLEAN, RecordAssistant(asks) PROVE Machine'
  <2>1. past'.again = past.again
    BY <1>11 DEF RecordAssistant, IInv, Typed
  <2>2. QED BY <1>4, <1>11, <2>1 DEF RecordAssistant, Machine
<1>12. QED BY <1>1, <1>2, <1>3, <1>5, <1>6, <1>7, <1>8, <1>9, <1>10, <1>11 DEF Next

LEMMA MachineInit == Init => Machine /\ Limited
<1> SUFFICES ASSUME Init PROVE Machine /\ Limited
  OBVIOUS
<1>1. \A u \in Users : Filled(<<>>, Limit[u], 0)
  BY LimitType DEF Filled
<1>2. Limited
  <2>1. <<>> \in Seq(Nat) /\ now = 0 /\ buckets = [u \in Users |-> <<>>]
    BY DEF Init
  <2>2. QED BY <1>1, <2>1 DEF Limited
<1>3. Machine
  BY DEF Init, Machine
<1>4. QED BY <1>2, <1>3

(* The state of the chats always has the types TypeOK gives it, and never  *)
(* more of a user's requests pass within a window than its limit.          *)
THEOREM ChatTypes == Spec => []TypeOK
<1>1. IInv /\ Machine /\ Limited => TypeOK
  <2> SUFFICES ASSUME IInv, Machine, Limited PROVE TypeOK
    OBVIOUS
  <2>1. \A u \in Users : dialogue[u].pending <= asked
    <3>1. ASSUME NEW u \in Users PROVE dialogue[u].pending <= asked
      <4>1. dialogue[u].pending # 0 => dialogue[u].pending \in 1..asked
        BY DEF IInv, Typed, PendingOpen, Fits
      <4>2. QED BY <4>1 DEF IInv, Typed
    <3>2. QED BY <3>1
  <2>2. /\ past.whom \in Seq(Users) /\ Len(past.whom) = asked
        /\ past.fate \in Seq(Fates) /\ Len(past.fate) = asked
    <3>1. past.whom \in [1..asked -> Users] /\ past.fate \in [1..asked -> Fates] /\ asked \in Nat
      BY DEF IInv, Typed
    <3>2. QED BY <3>1, SeqDef
  <2>3. past \in Past
    BY <2>2 DEF IInv, Typed, Machine, Past, Fates
  <2>4. /\ buckets \in [Users -> Seq(Nat)]
        /\ \A u \in Users : Len(buckets[u]) <= Limit[u]
    BY DEF Limited, Filled
  <2>5. ASSUME NEW u \in Users, NEW i \in 1..Cardinality(TextIds), NEW j \in 1..Cardinality(TextIds),
               i < j, j <= Len(buckets[u])
        PROVE  buckets[u][i] + Window > buckets[u][j]
    <3>1. i \in 1..Len(buckets[u]) /\ j \in 1..Len(buckets[u])
      BY <2>4, <2>5
    <3>2. QED BY <2>5, <3>1 DEF Limited, Filled
  <2>6. QED BY <2>1, <2>2, <2>3, <2>4, <2>5 DEF TypeOK, IInv, Typed, Machine, State, Text
<1>2. QED BY <1>1, ChatInvariant, MachineInit, MachineNext, LimitedNext, PTL DEF Spec

-----------------------------------------------------------------------------
(* Chat implements Dialogue.                                               *)

LEMMA EffectivePending ==
  ASSUME IInv, NEW u \in Users PROVE Effective(u).pending = dialogue[u].pending
<1>1. dialogue[u] \in State
  BY DEF IInv, Typed
<1>2. QED BY <1>1 DEF Effective, State

LEMMA StandingStep ==
  ASSUME IInv, NEW u \in Users, NEW e, NEW n,
         dialogue' = [dialogue EXCEPT ![u] = e], e.pending = n
  PROVE  Standing' = [Standing EXCEPT ![u] = n]
  BY DEF IInv, Typed, Standing

(* To drop questions is to answer none. *)
LEMMA DroppedAnswers ==
  ASSUME IInv, NEW u \in Users, past'.fate = Drop(past.fate, u)
  PROVE  AnsweredQuestions' = AnsweredQuestions
<1>1. DOMAIN past'.fate = DOMAIN past.fate
  BY DEF Drop
<1>2. \A q \in DOMAIN past.fate : past'.fate[q] = "answered" <=> past.fate[q] = "answered"
  BY DEF Drop
<1>3. QED BY <1>1, <1>2 DEF AnsweredQuestions

LEMMA PromiseInit == Init => Promise!Init
  BY DEF Init, Promise!Init, Standing, AnsweredQuestions, Silent

LEMMA PromiseReset == ASSUME IInv, NEW u \in Users, ResetContext(u) PROVE Promise!Drop(u)
<1>1. dialogue[u] \in State /\ (dialogue[u].status = "none" => dialogue[u].pending = 0)
  BY DEF IInv, Typed, PendingOpen, Fits
<1>2. Closed(dialogue[u]).pending = 0
  BY <1>1 DEF Closed, State
<1>3. dialogue' = [dialogue EXCEPT ![u] = Closed(dialogue[u])] /\ asked' = asked
  BY DEF ResetContext
<1>4. past'.fate = Drop(past.fate, u)
  BY DEF ResetContext, IInv, Typed
<1>5. QED BY <1>2, <1>3, <1>4, StandingStep, DroppedAnswers DEF Promise!Drop

LEMMA PromiseHeard ==
  ASSUME IInv, RecordUser
  PROVE  \/ \E u \in Users : Promise!Answer(u) \/ Promise!Drop(u)
         \/ UNCHANGED Promise!vars
<1> DEFINE u == texts[handler.text].user
           d == Effective(u)
           intent == Classify(texts[handler.text].sort, d)
           o == Opened(d)
           p == IF Settles(intent) THEN 0 ELSE o.pending
<1>1. /\ handler.step = "begun"
      /\ dialogue' = [dialogue EXCEPT ![u] = Heard(Opened(d), intent)]
      /\ past'.fate = CASE intent = "ANSWER_TO_PENDING" -> Answered(past.fate, u, d.pending)
                        [] intent \in {"CANCEL", "NEW_TOPIC"} -> Drop(past.fate, u)
                        [] OTHER -> past.fate
      /\ asked' = asked
  BY DEF RecordUser, IInv, Typed
<1>2. u \in Users /\ texts[handler.text].sort \in Sorts
  BY <1>1, TextsType DEF IInv, Typed
<1>3. d \in State /\ Fits(u, d, past.whom, past.fate, past.last)
      /\ (Waits(d) => now < past.last[u] + Ttl) /\ d.pending = dialogue[u].pending
  BY <1>2, EffectiveType, EffectivePending
<1>4. intent = "ANSWER_TO_PENDING" => Waits(d)
  BY <1>2, ChatAssumption DEF Classify
<1>5. o \in State /\ o.pending \in {0, d.pending}
  BY <1>3 DEF Opened, State, Fresh, Silent
<1>6. Heard(o, intent).pending = p
  <2> HIDE DEF o, intent
  <2>1. QED BY <1>5 DEF Heard, State
<1> HIDE DEF u, d, intent
<1>7. Standing' = [Standing EXCEPT ![u] = p]
  <2>1. dialogue' = [dialogue EXCEPT ![u] = Heard(o, intent)]
    BY <1>1
  <2> HIDE DEF o, p
  <2>2. QED BY <1>2, <1>6, <2>1, StandingStep
<1>8. CASE intent = "ANSWER_TO_PENDING"
  <2>1. /\ d.pending # 0 /\ d.pending \in DOMAIN past.fate /\ past.fate[d.pending] = "open"
        /\ past.whom[d.pending] = u /\ now < past.last[u] + Ttl
    BY <1>3, <1>4, <1>8 DEF Waits, Fits, IInv, Typed
  <2>2. past'.fate = [past.fate EXCEPT ![d.pending] = "answered"]
    BY <1>1, <1>8, <2>1 DEF Answered
  <2>3. AnsweredQuestions' = AnsweredQuestions \union {d.pending}
    BY <2>1, <2>2 DEF AnsweredQuestions
  <2>4. p = 0 /\ Standing[u] = d.pending
    BY <1>2, <1>3, <1>8 DEF Settles, Standing
  <2>5. Promise!Answer(u)
    BY <1>1, <1>7, <2>1, <2>3, <2>4 DEF Promise!Answer
  <2>6. QED BY <1>2, <2>5
<1>9. CASE intent \in {"CANCEL", "NEW_TOPIC"}
  <2>1. past'.fate = Drop(past.fate, u)
    BY <1>1, <1>9
  <2>2. p = 0
    BY <1>9 DEF Settles
  <2>3. Promise!Drop(u)
    BY <1>1, <1>2, <1>7, <2>1, <2>2, DroppedAnswers DEF Promise!Drop
  <2>4. QED BY <1>2, <2>3
<1>10. CASE ~ Settles(intent)
  <2>1. past'.fate = past.fate /\ p = o.pending
    BY <1>1, <1>10 DEF Settles
  <2>2. AnsweredQuestions' = AnsweredQuestions
    BY <2>1 DEF AnsweredQuestions
  <2>3. CASE p = 0
    <3>1. Promise!Drop(u)
      BY <1>1, <1>7, <2>2, <2>3 DEF Promise!Drop
    <3>2. QED BY <1>2, <3>1
  <2>4. CASE p = d.pending
    <3>1. Standing' = Standing
      BY <1>2, <1>3, <1>7, <2>4 DEF Standing
    <3>2. QED BY <1>1, <2>2, <3>1 DEF Promise!vars
  <2>5. QED BY <1>5, <2>1, <2>3, <2>4
<1>11. QED BY <1>8, <1>9, <1>10 DEF Settles

LEMMA PromiseSaid ==
  ASSUME IInv, NEW asks \in BOOLEAN, RecordAssistant(asks)
  PROVE  (\E u \in Users : Promise!Put(u)) \/ UNCHANGED Promise!vars
<1> DEFINE u == texts[handler.text].user
           d == Effective(u)
           q == IF asks THEN asked + 1 ELSE 0
           o == IF d.status = "none" THEN Fresh ELSE d
           p == IF q # 0 THEN q ELSE o.pending
<1>1. /\ handler.step = "heard"
      /\ dialogue' = [dialogue EXCEPT ![u] = Said(d, q)]
      /\ asked' = IF asks THEN q ELSE asked
      /\ past'.fate = IF asks THEN Append(Drop(past.fate, u), "open") ELSE past.fate
  BY DEF RecordAssistant, IInv, Typed
<1>2. u \in Users
  BY <1>1, TextsType DEF IInv, Typed
<1>3. d \in State /\ Fits(u, d, past.whom, past.fate, past.last)
      /\ d.pending = dialogue[u].pending
  BY <1>2, EffectiveType, EffectivePending
<1>4. o \in State /\ o.pending = d.pending
  BY <1>3 DEF State, Fresh, Silent, Fits
<1>5. Said(d, q).pending = p
  <2>1. Said(d, q) = [o EXCEPT !.pending = p, !.expires = now + Ttl]
    BY DEF Said
  <2> HIDE DEF o, p
  <2>2. QED BY <1>4, <2>1 DEF State
<1>6. Standing' = [Standing EXCEPT ![u] = p]
  <2> HIDE DEF u, d, q, o, p
  <2>1. QED BY <1>1, <1>2, <1>5, StandingStep
<1>7. CASE asks
  <2>1. q = asked + 1 /\ q # 0 /\ p = q
    BY <1>7 DEF IInv, Typed
  <2> DEFINE f == Drop(past.fate, u)
  <2>2. f \in [1..asked -> Fates] /\ asked \in Nat
    BY <1>2, DropType DEF IInv, Typed
  <2>3. \A r \in 1..asked : f[r] = "answered" <=> past.fate[r] = "answered"
    BY DEF Drop, IInv, Typed
  <2>4. past'.fate = Append(f, "open") /\ "open" \in Fates
    BY <1>1, <1>7 DEF Fates
  <2> HIDE DEF f
  <2>5. f \in Seq(Fates) /\ Len(f) = asked
    BY <2>2, SeqDef
  <2>6. /\ past'.fate \in Seq(Fates) /\ Len(past'.fate) = asked + 1
        /\ \A r \in 1..asked : past'.fate[r] = f[r]
        /\ past'.fate[asked + 1] = "open"
    BY <2>4, <2>5, AppendProperties
  <2>7. DOMAIN past'.fate = 1..(asked + 1) /\ DOMAIN past.fate = 1..asked
    BY <2>6 DEF IInv, Typed
  <2>8. \A r \in 1..(asked + 1) : r \in 1..asked \/ r = asked + 1
    BY <2>2
  <2>9. AnsweredQuestions' = AnsweredQuestions
    BY <2>2, <2>3, <2>6, <2>7, <2>8 DEF AnsweredQuestions
  <2>10. Promise!Put(u)
    BY <1>1, <1>6, <1>7, <2>1, <2>9 DEF Promise!Put
  <2>11. QED BY <1>2, <2>10
<1>8. CASE ~ asks
  <2>1. past'.fate = past.fate /\ p = d.pending /\ asked' = asked
    BY <1>1, <1>4, <1>8
  <2>2. Standing' = Standing
    BY <1>2, <1>3, <1>6, <2>1 DEF Standing
  <2>3. QED BY <2>1, <2>2 DEF Promise!vars, AnsweredQuestions
<1>9. QED BY <1>7, <1>8

LEMMA PromiseStep == IInv /\ [Next]_vars => [Promise!Next]_(Promise!vars)
<1> SUFFICES ASSUME IInv, [Next]_vars PROVE [Promise!Next]_(Promise!vars)
  OBVIOUS
<1>1. ASSUME dialogue' = dialogue, asked' = asked, past'.fate = past.fate
      PROVE  UNCHANGED Promise!vars
  BY <1>1 DEF Promise!vars, Standing, AnsweredQuestions
<1>2. CASE Boot \/ Tick \/ Elsewhere \/ Fail \/ (\E u \in Users : ChangeAccess(u)) \/ UNCHANGED vars
  BY <1>1, <1>2 DEF Boot, Tick, Elsewhere, Fail, ChangeAccess, vars
<1>3. CASE Crash
  BY <1>1, <1>3 DEF Crash, IInv, Typed
<1>4. CASE \E u \in Users, sort \in Sorts : TakeNew(u, sort) \/ TakeCaption(u, sort)
  BY <1>1, <1>4 DEF TakeNew, Take, TakeCaption, IInv, Typed
<1>5. CASE \E t \in DOMAIN texts : TakeAgain(t)
  BY <1>1, <1>5 DEF TakeAgain, Take, IInv, Typed
<1>6. CASE \E u \in Users : ResetContext(u)
  BY <1>6, PromiseReset DEF Promise!Next
<1>7. CASE RecordUser
  BY <1>7, PromiseHeard DEF Promise!Next
<1>8. CASE \E asks \in BOOLEAN : RecordAssistant(asks)
  BY <1>8, PromiseSaid DEF Promise!Next
<1>9. QED BY <1>2, <1>3, <1>4, <1>5, <1>6, <1>7, <1>8 DEF Next

(* The pending questions behave as Dialogue says: only the last question   *)
(* put to a user can be answered, once, and none comes back.               *)
THEOREM DialogueImplemented == Spec => DialogueKept
<1>1. Spec => Promise!Init /\ [][Promise!Next]_(Promise!vars)
  BY PromiseInit, PromiseStep, ChatInvariant, PTL DEF Spec
<1>2. QED BY <1>1 DEF DialogueKept, Promise!Spec

(* What Dialogue comes to, proved of Dialogue and so true of the table:    *)
(* questions are numbered as they are put, so a new one is neither answered*)
(* nor anybody's.                                                          *)
Numbered ==
    /\ asked \in Nat
    /\ DOMAIN Standing = Users
    /\ \A u \in Users : Standing[u] \in 0..asked
    /\ AnsweredQuestions \subseteq 1..asked
    /\ Promise!Settled

LEMMA NumberedInit == Promise!Init => Numbered
  BY DEF Promise!Init, Promise!Settled, Numbered, Standing

LEMMA NumberedNext == Numbered /\ [Promise!Next]_(Promise!vars) => Numbered'
<1> SUFFICES ASSUME Numbered, [Promise!Next]_(Promise!vars) PROVE Numbered'
  OBVIOUS
<1>1. DOMAIN Standing' = Users
  BY DEF Standing
<1> HIDE DEF Standing
<1>2. ASSUME NEW u \in Users, Promise!Put(u) PROVE Numbered'
  BY <1>1, <1>2 DEF Promise!Put, Promise!Settled, Numbered
<1>3. ASSUME NEW u \in Users, Promise!Answer(u) PROVE Numbered'
  <2>1. /\ Standing[u] # 0
        /\ AnsweredQuestions' = AnsweredQuestions \union {Standing[u]}
        /\ asked' = asked
        /\ Standing'[u] = 0
        /\ \A v \in Users \ {u} : Standing'[v] = Standing[v]
    BY <1>3 DEF Promise!Answer, Numbered
  <2>2. Standing[u] \in 1..asked /\ asked \in Nat
    BY <2>1 DEF Numbered
  <2>3. asked' \in Nat /\ AnsweredQuestions' \subseteq 1..asked'
    BY <2>1, <2>2 DEF Numbered
  <2>7. ASSUME NEW v \in Users PROVE Standing'[v] \in 0..asked'
    <3>1. CASE v = u
      BY <2>1, <2>2, <3>1
    <3>2. CASE v # u
      BY <2>1, <3>2 DEF Numbered
    <3>3. QED BY <3>1, <3>2
  <2>4. ASSUME NEW v \in Users, Standing'[v] # 0
        PROVE  /\ Standing'[v] \notin AnsweredQuestions'
               /\ \A w \in Users : Standing'[w] = Standing'[v] => w = v
    BY <2>1, <2>4 DEF Numbered, Promise!Settled
  <2>5. Promise!Settled'
    BY <2>4 DEF Promise!Settled
  <2>6. QED BY <1>1, <2>3, <2>7, <2>5 DEF Numbered
<1>4. ASSUME NEW u \in Users, Promise!Drop(u) PROVE Numbered'
  BY <1>1, <1>4 DEF Promise!Drop, Promise!Settled, Numbered
<1>5. CASE UNCHANGED Promise!vars
  BY <1>5 DEF Promise!vars, Promise!Settled, Numbered
<1>6. QED BY <1>2, <1>3, <1>4, <1>5 DEF Promise!Next

(* A question that is pending in the table has never been answered and is  *)
(* pending for one user only.                                              *)
THEOREM PendingIsUnanswered == Spec => []Promise!Settled
<1>1. Numbered => Promise!Settled
  BY DEF Numbered
<1>2. Spec => Promise!Init /\ [][Promise!Next]_(Promise!vars)
  BY DialogueImplemented DEF DialogueKept, Promise!Spec
<1>3. QED BY <1>1, <1>2, NumberedInit, NumberedNext, PTL
=============================================================================
