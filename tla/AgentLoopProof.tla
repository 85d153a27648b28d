--------------------------- MODULE AgentLoopProof ---------------------------
(***************************************************************************)
(* What JarvisAgent.ask keeps, for every set of requests and calls, all    *)
(* limits and whatever the model replies: the types, that no call runs     *)
(* twice, that the requests to the provider are bounded, and that an       *)
(* answer rests on the tools and the search that the routing asked for.    *)
(***************************************************************************)
EXTENDS AgentLoop, TLAPS

Permission == IF retried THEN 1 ELSE 0
Sent == IF step \in {"asking", "ended"} THEN 1 ELSE 0

(* One request to the provider per round, the one under way or the last,   *)
(* and the retry.                                                          *)
Paced == asks <= rounds + Permission + Sent

(* What has run has been seen.                                             *)
Once == \A c \in Calls : ran[c] <= 1 /\ (ran[c] > 0 => c \in seen)

(* What is credited was a success.                                         *)
Earned == executed \subseteq {Credited[t] : t \in succeeded}

(* Outcomes are of requests that have ended, and an answer is judged by    *)
(* what was credited and searched.                                         *)
Grounded ==
  /\ step # "ended" => outcome = "none"
  /\ outcome = "answered" => Missing = {} /\ (Search => hosted > 0)

(* What runs is a call.                                                    *)
Typed == TypeOK /\ (step = "running" => running \in Calls)

IInv == Typed /\ Paced /\ Once /\ Earned /\ Grounded

-----------------------------------------------------------------------------
(* The helpers.                                                            *)

LEMMA CreditKinds == \A t \in DOMAIN Credited : Credited[t] \in Capabilities \cup {"none"}
  BY DEF Credited, Capabilities

LEMMA GateOutcomes ==
  \A g \in DOMAIN Gates : Gates[g] \in Outcomes /\ Gates[g] \notin {"none", "answered"}
<1>1. Gates \in Seq(Outcomes \ {"none", "answered"})
  BY DEF Gates, Outcomes
<1>2. QED BY <1>1

LEMMA RequestTyped ==
  ASSUME NEW function \in BOOLEAN, NEW web \in BOOLEAN, NEW choice \in {"auto", "required"},
         NEW capped \in BOOLEAN, model \in {"configured", "default"}
  PROVE  Request(function, web, choice, capped) \in Ask
  BY DEF Request, Ask

LEMMA ReplyTyped ==
  ASSUME NEW r \in Replies, hosted \in Nat
  PROVE  /\ r.calls \in Seq(Calls) /\ r.hosted \in Nat
         /\ Searches(r) \in Nat
<1>1. r.calls \in CallLists /\ r.hosted \in HostedCounts
  BY DEF Replies, Responses
<1>2. r.calls \in Seq(Calls) /\ r.hosted \in Nat
  BY <1>1, CallAssumption
<1>3. QED BY <1>2 DEF Searches

(* Seven of the eleven ways to treat a reply end the request ...           *)
Stops(r) ==
  \/ StopSearching(r) \/ StopCalling(r) \/ StopUnsourced(r) \/ StopUnsearched(r)
  \/ StopEmpty(r) \/ StopRequired(r) \/ Answer(r)

LEMMA StopKinds ==
  ASSUME NEW r \in Replies, Stops(r)
  PROVE  \E why \in Outcomes :
            /\ Stop(r, why) /\ why # "none"
            /\ why = "answered" => Missing = {} /\ ~ Unsearched(r)
  BY DEF Stops, StopSearching, StopCalling, StopUnsourced, StopUnsearched, StopEmpty,
     StopRequired, Answer, Judged, Unmet, Outcomes

(* ... three retry, and only with the permission left ...                  *)
Retries(r) == RetrySearch(r) \/ RetryRefusal(r) \/ RetryRequired(r)

LEMMA RetryKinds ==
  ASSUME NEW r \in Replies, Retries(r), TypeOK
  PROVE  /\ ~ retried
         /\ \E request \in Ask : Retry(r, request)
<1>1. model \in {"configured", "default"} /\ Search \in BOOLEAN
  BY DEF TypeOK, Search
<1>2. CASE RetrySearch(r)
  <2>1. Request(FALSE, TRUE, "required", TRUE) \in Ask
    BY <1>1, RequestTyped
  <2>2. QED BY <1>2, <2>1 DEF RetrySearch
<1>3. CASE RetryRefusal(r)
  <2> DEFINE choice == IF req.caps = {"general_llm"} THEN "auto" ELSE "required"
  <2>1. choice \in {"auto", "required"}
    OBVIOUS
  <2>2. Request(TRUE, Search, choice, FALSE) \in Ask
    BY <1>1, <2>1, RequestTyped
  <2>3. QED BY <1>3, <2>2 DEF RetryRefusal, Refuses, Attempted
<1>4. CASE RetryRequired(r)
  <2>1. Request(TRUE, FALSE, "required", FALSE) \in Ask
    BY <1>1, RequestTyped
  <2>2. QED BY <1>4, <2>1 DEF RetryRequired
<1>5. QED BY <1>2, <1>3, <1>4 DEF Retries

(* ... and one goes on to the calls.                                       *)
LEMMA ReplyKinds ==
  ASSUME HandleReply
  PROVE  step = "asking" /\ \E r \in Replies : CallTools(r) \/ Stops(r) \/ Retries(r)
  BY DEF HandleReply, Stops, Retries

-----------------------------------------------------------------------------

LEMMA Blank ==
  /\ NoAsk \in Ask /\ "none" \in Outcomes
  /\ 0 \in 0 .. MaxRounds /\ <<>> \in Seq(Calls)
  /\ [c \in Calls |-> 0] \in [Calls -> Nat]
<1>1. NoAsk \in Ask /\ "none" \in Outcomes
  BY DEF NoAsk, Ask, Outcomes
<1>2. 0 \in 0 .. MaxRounds /\ [c \in Calls |-> 0] \in [Calls -> Nat]
  BY LimitAssumption
<1>3. QED BY <1>1, <1>2

LEMMA InitIInv == Init => IInv
<1> SUFFICES ASSUME Init PROVE IInv
  OBVIOUS
<1>1. Typed
  BY Blank DEF Init, Typed, TypeOK
<1>2. Paced /\ Once /\ Earned /\ Grounded
  BY DEF Init, Paced, Permission, Sent, Once, Earned, Grounded
<1>3. QED BY <1>1, <1>2 DEF IInv

(* Types.                                                                  *)
LEMMA NextTypes == Typed /\ [Next]_vars => Typed'
<1> SUFFICES ASSUME Typed, [Next]_vars PROVE Typed'
  OBVIOUS
<1> USE DEF Typed, TypeOK
<1>1. CASE NextRequest
  BY <1>1, Blank DEF NextRequest
<1>2. CASE Refuse
  BY <1>2, GateOutcomes DEF Refuse, End, progress, history
<1>3. CASE Start
  <2> DEFINE only == req.current /\ Search
  <2>1. only \in BOOLEAN /\ Search \in BOOLEAN /\ Choice \in {"auto", "required"}
    BY DEF Search, Choice
  <2>2. Request(~ only, Search, Choice, only) \in Ask
    BY <2>1, RequestTyped
  <2>3. QED BY <1>3, <2>2 DEF Start, Send, progress
<1>4. CASE HandleReply
  <2>1. PICK r \in Replies : CallTools(r) \/ Stops(r) \/ Retries(r)
    BY <1>4, ReplyKinds
  <2>2. r.calls \in Seq(Calls) /\ Searches(r) \in Nat /\ ask.model \in {"configured", "default"}
    BY ReplyTyped DEF Ask
  <2>3. CASE CallTools(r)
    BY <2>2, <2>3, LimitAssumption DEF CallTools, Receive, OutOfRounds
  <2>4. CASE Stops(r)
    <3>1. PICK why \in Outcomes : Stop(r, why)
      BY <2>4, StopKinds
    <3>2. QED BY <2>2, <3>1 DEF Stop, Receive, End
  <2>5. CASE Retries(r)
    <3>1. PICK request \in Ask : Retry(r, request)
      BY <2>5, RetryKinds
    <3>2. [request EXCEPT !.model = ask.model] \in Ask
      BY <2>2 DEF Ask
    <3>3. QED BY <2>2, <3>1, <3>2 DEF Retry, Receive, Send
  <2>6. QED BY <2>1, <2>3, <2>4, <2>5
<1>5. CASE FallBack
  <2>1. [ask EXCEPT !.model = "default"] \in Ask
    BY DEF Ask
  <2>2. QED BY <1>5, <2>1 DEF FallBack, progress, history
<1>6. CASE Reattempt
  <2> DEFINE second == [ask EXCEPT !.attempt = 2]
  <2>1. second \in Ask
    BY DEF Ask
  <2>2. [second EXCEPT !.model = model] \in Ask
    BY <2>1 DEF Ask
  <2>3. ask' = [second EXCEPT !.model = model]
    BY <1>6 DEF Reattempt
  <2>4. QED BY <1>6, <2>2, <2>3 DEF Reattempt, progress, history
<1>7. CASE FailRequest
  <2>1. FailureOutcomes \subseteq Outcomes
    BY DEF FailureOutcomes, Outcomes
  <2>2. QED BY <1>7, <2>1 DEF FailRequest, End, progress, history
<1>8. CASE StopRepeating
  BY <1>8 DEF StopRepeating, End, Outcomes, progress, history
<1>9. CASE RejectCall
  BY <1>9 DEF RejectCall, TakeCall, history
<1>10. CASE RunCall
  <2>1. Head(queue) \in Calls /\ Tail(queue) \in Seq(Calls)
    BY <1>10 DEF RunCall, TakeCall
  <2>2. ran' \in [Calls -> Nat]
    BY <1>10, <2>1 DEF RunCall
  <2>3. QED BY <1>10, <2>1, <2>2 DEF RunCall, TakeCall
<1>11. CASE ToolReturns
  <2>1. running.tool \in DOMAIN Credited \/ UNCHANGED <<executed, succeeded>>
    BY <1>11, CallAssumption DEF ToolReturns
  <2>2. executed' \subseteq Capabilities /\ succeeded' \subseteq DOMAIN Credited
    BY <1>11, <2>1, CreditKinds DEF ToolReturns
  <2>3. QED BY <1>11, <2>2 DEF ToolReturns
<1>12. CASE AskAgain
  <2>1. Search \in BOOLEAN /\ Choice \in {"auto", "required"}
    BY DEF Search, Choice
  <2>2. Request(TRUE, Search, Choice, FALSE) \in Ask
    BY <2>1, RequestTyped
  <2>3. Send(Request(TRUE, Search, Choice, FALSE))
    BY <1>12 DEF AskAgain
  <2>4. UNCHANGED <<req, model, progress, outcome, ran, succeeded>>
    BY <1>12 DEF AskAgain
  <2>5. ask' \in Ask /\ step' = "asking"
    BY <2>2, <2>3 DEF Send
  <2>6. asks' \in Nat
    BY <2>3 DEF Send
  <2>7. QED BY <2>4, <2>5, <2>6 DEF progress
<1>13. CASE Deadline
  BY <1>13 DEF Deadline, End, Outcomes, history
<1>14. CASE UNCHANGED vars
  BY <1>14 DEF vars, progress, history
<1>15. QED
  BY <1>1, <1>2, <1>3, <1>4, <1>5, <1>6, <1>7, <1>8, <1>9, <1>10, <1>11, <1>12, <1>13, <1>14
  DEF Next, Progress

-----------------------------------------------------------------------------
(* The rest of the invariant, action by action.                            *)

(* The actions that neither ask, nor handle a reply, nor begin a request.  *)
Between == \/ Refuse \/ FallBack \/ Reattempt \/ FailRequest \/ StopRepeating
           \/ RejectCall \/ RunCall \/ ToolReturns \/ Deadline \/ UNCHANGED vars

LEMMA NextPaced == Typed /\ Paced /\ [Next]_vars => Paced'
<1> SUFFICES ASSUME Typed, Paced, [Next]_vars PROVE Paced'
  OBVIOUS
<1> USE DEF Typed, TypeOK, Paced, Permission, Sent
<1>1. CASE NextRequest
  BY <1>1 DEF NextRequest
<1>2. CASE Start \/ AskAgain
  <2>1. asks' = asks + 1 /\ step' = "asking" /\ UNCHANGED <<rounds, retried>>
    BY <1>2 DEF Start, AskAgain, Send, progress
  <2>2. step \in {"idle", "calling"}
    BY <1>2 DEF Start, AskAgain
  <2>3. QED BY <2>1, <2>2
<1>3. CASE HandleReply
  <2>1. PICK r \in Replies : CallTools(r) \/ Stops(r) \/ Retries(r)
    BY <1>3, ReplyKinds
  <2>2. step = "asking"
    BY <1>3, ReplyKinds
  <2>3. CASE CallTools(r)
    BY <2>2, <2>3 DEF CallTools
  <2>4. CASE Stops(r)
    <3>1. PICK why \in Outcomes : Stop(r, why)
      BY <2>4, StopKinds
    <3>2. QED BY <2>2, <3>1 DEF Stop, End
  <2>5. CASE Retries(r)
    <3>1. ~ retried /\ \E request \in Ask : Retry(r, request)
      BY <2>5, RetryKinds
    <3>2. asks' = asks + 1 /\ step' = "asking" /\ rounds' = rounds /\ retried' = TRUE
      BY <3>1 DEF Retry, Send
    <3>3. QED BY <2>2, <3>1, <3>2
  <2>6. QED BY <2>1, <2>3, <2>4, <2>5
<1>4. CASE Between
  <2>1. UNCHANGED <<asks, rounds, retried>>
    BY <1>4 DEF Between, Refuse, FallBack, Reattempt, FailRequest, StopRepeating, RejectCall,
       RunCall, ToolReturns, Deadline, vars, progress, history
  <2>2. step = "asking" => step' \in {"asking", "ended"}
    BY <1>4 DEF Between, Refuse, FallBack, Reattempt, FailRequest, StopRepeating, RejectCall,
       TakeCall, RunCall, ToolReturns, Deadline, End, vars
  <2>3. step = "ended" => step' = "ended"
    BY <1>4 DEF Between, Refuse, FallBack, Reattempt, FailRequest, StopRepeating, RejectCall,
       TakeCall, RunCall, ToolReturns, Deadline, End, vars
  <2>4. QED BY <2>1, <2>2, <2>3
<1>5. QED BY <1>1, <1>2, <1>3, <1>4 DEF Next, Progress, Between

LEMMA NextOnce == Typed /\ Once /\ [Next]_vars => Once'
<1> SUFFICES ASSUME Typed, Once, [Next]_vars PROVE Once'
  OBVIOUS
<1> USE DEF Typed, TypeOK, Once
<1>1. CASE NextRequest
  BY <1>1 DEF NextRequest
<1>2. CASE RunCall
  <2> DEFINE call == Head(queue)
  <2>1. call \in Calls /\ call \notin seen /\ seen' = seen \cup {call}
    BY <1>2 DEF RunCall, TakeCall, Repeated
  <2>2. ran' = [ran EXCEPT ![call] = @ + 1]
    BY <1>2 DEF RunCall
  <2>3. ran[call] = 0
    BY <2>1
  <2>4. QED BY <2>1, <2>2, <2>3
<1>3. CASE RejectCall
  BY <1>3 DEF RejectCall, TakeCall, history
<1>4. CASE HandleReply
  <2>1. PICK r \in Replies : CallTools(r) \/ Stops(r) \/ Retries(r)
    BY <1>4, ReplyKinds
  <2>2. Receive(r)
    BY <2>1, StopKinds, RetryKinds DEF CallTools, Stop, Retry
  <2>3. QED BY <2>2 DEF Receive
<1>5. CASE Start \/ AskAgain \/ Refuse \/ FallBack \/ Reattempt \/ FailRequest \/ StopRepeating
           \/ ToolReturns \/ Deadline \/ UNCHANGED vars
  <2>1. UNCHANGED <<ran, seen>>
    BY <1>5 DEF Start, AskAgain, Refuse, FallBack, Reattempt, FailRequest, StopRepeating,
       ToolReturns, Deadline, vars, progress, history
  <2>2. QED BY <2>1
<1>6. QED BY <1>1, <1>2, <1>3, <1>4, <1>5 DEF Next, Progress

LEMMA NextEarned == Earned /\ [Next]_vars => Earned'
<1> SUFFICES ASSUME Earned, [Next]_vars PROVE Earned'
  OBVIOUS
<1> USE DEF Earned
<1>1. CASE NextRequest
  BY <1>1 DEF NextRequest
<1>2. CASE ToolReturns
  BY <1>2 DEF ToolReturns
<1>3. CASE HandleReply
  <2>1. PICK r \in Replies : CallTools(r) \/ Stops(r) \/ Retries(r)
    BY <1>3, ReplyKinds
  <2>2. UNCHANGED <<executed, succeeded>>
    BY <2>1 DEF CallTools, Stops, StopSearching, StopCalling, StopUnsourced, StopUnsearched, StopEmpty,
       StopRequired, Answer, Retries, RetrySearch, RetryRefusal, RetryRequired, Stop, Retry, Receive
  <2>3. QED BY <2>2
<1>4. CASE Start \/ AskAgain \/ Refuse \/ FallBack \/ Reattempt \/ FailRequest \/ StopRepeating
           \/ RejectCall \/ RunCall \/ Deadline \/ UNCHANGED vars
  <2>1. UNCHANGED <<executed, succeeded>>
    BY <1>4 DEF Start, AskAgain, Refuse, FallBack, Reattempt, FailRequest, StopRepeating,
       RejectCall, RunCall, Deadline, vars, progress, history
  <2>2. QED BY <2>1
<1>5. QED BY <1>1, <1>2, <1>3, <1>4 DEF Next, Progress

(* An answer is judged when the reply is handled, and nothing changes it.  *)
LEMMA NextGrounded == Typed /\ Grounded /\ [Next]_vars => Grounded'
<1> SUFFICES ASSUME Typed, Grounded, [Next]_vars PROVE Grounded'
  OBVIOUS
<1> USE DEF Grounded
<1>1. CASE NextRequest
  BY <1>1 DEF NextRequest
<1>2. CASE HandleReply
  <2>1. PICK r \in Replies : CallTools(r) \/ Stops(r) \/ Retries(r)
    BY <1>2, ReplyKinds
  <2>2. step = "asking" /\ outcome = "none"
    BY <1>2, ReplyKinds
  <2>3. CASE CallTools(r)
    BY <2>2, <2>3 DEF CallTools
  <2>4. CASE Stops(r)
    <3>1. PICK why \in Outcomes :
            /\ Stop(r, why) /\ why # "none"
            /\ why = "answered" => Missing = {} /\ ~ Unsearched(r)
      BY <2>4, StopKinds
    <3>2. step' = "ended" /\ outcome' = why
      BY <3>1 DEF Stop, End
    <3>3. hosted' = Searches(r) /\ UNCHANGED <<req, executed>>
      BY <3>1 DEF Stop, Receive
    <3>4. Searches(r) \in Nat
      BY ReplyTyped DEF Typed, TypeOK
    <3>5. why = "answered" => Missing' = {} /\ (Search' => hosted' > 0)
      BY <3>1, <3>3, <3>4 DEF Missing, Needs, Search, Unsearched
    <3>6. QED BY <3>2, <3>5
  <2>5. CASE Retries(r)
    <3>1. step' = "asking" /\ outcome' = outcome
      BY <2>5 DEF Retries, RetrySearch, RetryRefusal, RetryRequired, Retry, Send
    <3>2. QED BY <2>2, <3>1
  <2>6. QED BY <2>1, <2>3, <2>4, <2>5
<1>3. CASE Refuse
  <2>1. step' = "ended" /\ outcome' # "answered"
    BY <1>3, GateOutcomes DEF Refuse, End
  <2>2. QED BY <2>1
<1>4. CASE FailRequest \/ StopRepeating \/ Deadline
  <2>1. step' = "ended" /\ outcome' # "answered"
    BY <1>4 DEF FailRequest, FailureOutcomes, StopRepeating, Deadline, End
  <2>2. QED BY <2>1
<1>5. CASE Start \/ AskAgain \/ FallBack \/ Reattempt \/ RejectCall \/ RunCall \/ ToolReturns
  <2>1. step # "ended" /\ outcome' = outcome
    BY <1>5 DEF Start, AskAgain, FallBack, Reattempt, RejectCall, RunCall, TakeCall, ToolReturns
  <2>2. QED BY <2>1
<1>6. CASE UNCHANGED vars
  BY <1>6 DEF vars, progress, Missing, Needs, Search
<1>7. QED BY <1>1, <1>2, <1>3, <1>4, <1>5, <1>6 DEF Next, Progress

-----------------------------------------------------------------------------
(* The inductive invariant of ask().                                       *)
THEOREM AgentInvariant == Spec => []IInv
<1>1. IInv /\ [Next]_vars => IInv'
  BY NextTypes, NextPaced, NextOnce, NextEarned, NextGrounded DEF IInv
<1>2. QED BY InitIInv, <1>1, PTL DEF Spec

(* Type correctness: tool rounds never exceed max_tool_rounds, and what is *)
(* credited is a capability.                                               *)
THEOREM AgentTypes == Spec => []TypeOK
<1>1. IInv => TypeOK
  BY DEF IInv, Typed
<1>2. QED BY <1>1, AgentInvariant, PTL

(* No call is executed twice in a request (seen_calls), in whatever rounds *)
(* and after whatever retries the model repeats it.                        *)
THEOREM CallsRunOnce == Spec => []EachCallOnce
<1>1. IInv => EachCallOnce
  BY DEF IInv, Once, EachCallOnce
<1>2. QED BY <1>1, AgentInvariant, PTL

(* A request makes at most max_tool_rounds + 2 requests to the provider,   *)
(* for every model and every limit: the three reasons for a retry share    *)
(* guard_retried.                                                          *)
THEOREM RequestsAreBounded == Spec => []AsksBounded
<1>1. IInv => AsksBounded
  BY LimitAssumption DEF IInv, Typed, TypeOK, Paced, Permission, Sent, AsksBounded
<1>2. QED BY <1>1, AgentInvariant, PTL

(* An answer rests on a success of each specialized tool the routing asked *)
(* for and, if it needs the web, on a search: in every run of ask().       *)
THEOREM AnswersAreEvident == Spec => []EvidenceBeforeAnswer
<1>1. IInv => EvidenceBeforeAnswer
  BY DEF IInv, Earned, Grounded, Missing, EvidenceBeforeAnswer
<1>2. QED BY <1>1, AgentInvariant, PTL

-----------------------------------------------------------------------------
(* What a request has left.                                                *)

Work == IF step = "asking" THEN AttemptsLeft ELSE CallsLeft

LEMMA LeftTyped ==
  ASSUME Typed
  PROVE  RoundsLeft \in Nat /\ Stage \in 0 .. 3 /\ Work \in Nat
<1> USE DEF Typed, TypeOK
<1>1. RoundsLeft \in Nat /\ Stage \in 0 .. 3
  BY LimitAssumption DEF RoundsLeft, Stage
<1>2. AttemptsLeft \in Nat
  BY DEF AttemptsLeft, Ask
<1>3. CallsLeft \in Nat
  BY DEF CallsLeft
<1>4. QED BY <1>1, <1>2, <1>3 DEF Work

(* The order of the three numbers.                                         *)
LEMMA LeftOrder ==
  ASSUME Typed, Typed',
         \/ RoundsLeft' < RoundsLeft
         \/ RoundsLeft' = RoundsLeft /\ Stage' < Stage
         \/ RoundsLeft' = RoundsLeft /\ Stage' = Stage /\ Work' < Work
  PROVE  Less(Left', Left)
<1> DEFINE m == Left'
           n == Left
<1>1. m = <<RoundsLeft', Stage', Work'>> /\ n = <<RoundsLeft, Stage, Work>>
  BY DEF Left, Work
<1>2. CASE RoundsLeft' < RoundsLeft
  <2>1. m[1] < n[1] /\ \A j \in 1 .. 1 - 1 : m[j] = n[j]
    BY <1>1, <1>2
  <2>2. QED BY <2>1 DEF Less
<1>3. CASE RoundsLeft' = RoundsLeft /\ Stage' < Stage
  <2>1. m[2] < n[2] /\ \A j \in 1 .. 2 - 1 : m[j] = n[j]
    BY <1>1, <1>3
  <2>2. QED BY <2>1 DEF Less
<1>4. CASE RoundsLeft' = RoundsLeft /\ Stage' = Stage /\ Work' < Work
  <2>1. m[3] < n[3] /\ \A j \in 1 .. 3 - 1 : m[j] = n[j]
    BY <1>1, <1>4
  <2>2. QED BY <2>1 DEF Less
<1>5. QED BY <1>2, <1>3, <1>4

LEMMA StepsUseUp ==
  ASSUME Typed, Typed', Next, step # "ended"
  PROVE  Less(Left', Left)
<1> USE DEF Typed, TypeOK
<1>1. step' \in {"idle", "asking", "calling", "running", "ended"}
  OBVIOUS
<1>2. CASE Refuse \/ FailRequest \/ StopRepeating \/ Deadline
  <2>1. step' = "ended" /\ UNCHANGED <<rounds, retried>>
    BY <1>2 DEF Refuse, FailRequest, StopRepeating, Deadline, End, progress
  <2>2. RoundsLeft' = RoundsLeft /\ Stage' < Stage
    BY <2>1 DEF RoundsLeft, Stage
  <2>3. QED BY <2>2, LeftOrder
<1>3. CASE Start \/ AskAgain
  <2>1. step \in {"idle", "calling"} /\ step' = "asking" /\ UNCHANGED <<rounds, retried>>
    BY <1>3 DEF Start, AskAgain, Send, progress
  <2>2. RoundsLeft' = RoundsLeft /\ Stage' < Stage
    BY <2>1 DEF RoundsLeft, Stage
  <2>3. QED BY <2>2, LeftOrder
<1>4. CASE HandleReply
  <2>1. PICK r \in Replies : CallTools(r) \/ Stops(r) \/ Retries(r)
    BY <1>4, ReplyKinds
  <2>2. step = "asking"
    BY <1>4, ReplyKinds
  <2>3. CASE CallTools(r)
    <3>1. rounds' = rounds + 1 /\ retried' = retried
      BY <2>3 DEF CallTools
    <3>2. RoundsLeft' < RoundsLeft
      BY <3>1, LimitAssumption DEF RoundsLeft
    <3>3. QED BY <3>2, LeftOrder
  <2>4. CASE Stops(r)
    <3>1. PICK why \in Outcomes : Stop(r, why)
      BY <2>4, StopKinds
    <3>2. step' = "ended" /\ UNCHANGED <<rounds, retried>>
      BY <3>1 DEF Stop, End
    <3>3. RoundsLeft' = RoundsLeft /\ Stage' < Stage
      BY <2>2, <3>2 DEF RoundsLeft, Stage
    <3>4. QED BY <3>3, LeftOrder
  <2>5. CASE Retries(r)
    <3>1. ~ retried /\ \E request \in Ask : Retry(r, request)
      BY <2>5, RetryKinds
    <3>2. rounds' = rounds /\ retried' = TRUE
      BY <3>1 DEF Retry
    <3>3. RoundsLeft' < RoundsLeft
      BY <3>1, <3>2, LimitAssumption DEF RoundsLeft
    <3>4. QED BY <3>3, LeftOrder
  <2>6. QED BY <2>1, <2>3, <2>4, <2>5
<1>5. CASE FallBack \/ Reattempt
  <2>1. step = "asking" /\ step' = "asking" /\ UNCHANGED <<rounds, retried>>
    BY <1>5 DEF FallBack, Reattempt, progress
  <2>2. RoundsLeft' = RoundsLeft /\ Stage' = Stage
    BY <2>1 DEF RoundsLeft, Stage
  <2>3. AttemptsLeft' < AttemptsLeft
    <3>1. ask.attempt \in 1 .. 2 /\ ask'.attempt \in 1 .. 2
      BY DEF Ask
    <3>2. CASE FallBack
      <4>1. ask'.attempt = ask.attempt /\ ask.model = "configured" /\ ask'.model = "default"
        BY <3>2 DEF FallBack, Ask
      <4>2. QED BY <3>1, <4>1 DEF AttemptsLeft
    <3>3. CASE Reattempt
      <4>1. ask.attempt = 1 /\ ask'.attempt = 2
        BY <3>3 DEF Reattempt, RetryLeft, Ask
      <4>2. QED BY <4>1 DEF AttemptsLeft
    <3>4. QED BY <1>5, <3>2, <3>3
  <2>4. Work' < Work
    BY <2>1, <2>3 DEF Work
  <2>5. QED BY <2>2, <2>4, LeftOrder
<1>6. CASE RejectCall \/ RunCall \/ ToolReturns
  <2>1. /\ step \in {"calling", "running"} /\ step' \in {"calling", "running"}
        /\ UNCHANGED <<rounds, retried>>
    BY <1>6 DEF RejectCall, RunCall, TakeCall, ToolReturns
  <2>2. RoundsLeft' = RoundsLeft /\ Stage' = Stage
    BY <2>1 DEF RoundsLeft, Stage
  <2>3. CallsLeft' < CallsLeft
    <3>1. CASE RejectCall \/ RunCall
      <4>1. step = "calling" /\ queue # <<>> /\ queue' = Tail(queue)
        BY <3>1 DEF RejectCall, RunCall, TakeCall
      <4>2. Len(queue') = Len(queue) - 1
        BY <4>1
      <4>3. QED BY <4>1, <4>2 DEF CallsLeft
    <3>2. CASE ToolReturns
      BY <3>2 DEF ToolReturns, CallsLeft
    <3>3. QED BY <1>6, <3>1, <3>2
  <2>4. Work' < Work
    BY <2>1, <2>3 DEF Work
  <2>5. QED BY <2>2, <2>4, LeftOrder
<1>7. QED BY <1>2, <1>3, <1>4, <1>5, <1>6 DEF Next, Progress, NextRequest

(* A request cannot go on for ever, for every limit and whatever the model *)
(* replies: each of its steps makes a triple of naturals smaller in the    *)
(* lexicographic order, so that all that `Terminates` needs beyond this is *)
(* that its next step is taken.                                            *)
THEOREM RequestsAreUsedUp == Spec => UsedUp /\ [](Left \in Nat \X (0 .. 3) \X Nat)
<1>1. Typed => Left \in Nat \X (0 .. 3) \X Nat
  BY LeftTyped DEF Left, Work
<1>2. Typed /\ Typed' /\ [Next]_vars => [step # "ended" => Less(Left', Left)]_vars
  BY StepsUseUp
<1>3. Spec => []Typed
  <2>1. IInv => Typed
    BY DEF IInv
  <2>2. QED BY <2>1, AgentInvariant, PTL
<1>4. QED BY <1>1, <1>2, <1>3, PTL DEF Spec, UsedUp
=============================================================================
