------------------------------ MODULE AgentLoop ------------------------------
(***************************************************************************)
(* JarvisAgent.ask (app/ai/agent.py): one request goes through the gates,  *)
(* then through rounds of model responses and tool calls until it ends in  *)
(* an answer or in one of the fallback messages.  The model is the         *)
(* environment: it may reply anything the Responses API lets it reply to   *)
(* the tools and the tool_choice of the request.  The application handles  *)
(* its updates one after the other, so there is one request at a time; its *)
(* deadline may strike at any await.  What the request writes into the     *)
(* conversation and the memory is not part of this module.                 *)
(***************************************************************************)
EXTENDS Naturals, Sequences, FiniteSets

CONSTANTS
  Requests,      \* what users may ask, as routed (records, see RequestAssumption)
  Calls,         \* the tool calls a model may make: [tool, args]
  CallLists,     \* the lists of calls a response may carry (a bound)
  HostedCounts,  \* how many hosted searches a response may carry (a bound)
  MaxRounds,     \* max_tool_rounds
  MaxSearches,   \* MAX_HOSTED_WEB_SEARCH_CALLS
  MaxAttempts,   \* web_search_max_attempts, the max_tool_calls of a search
  SearchEnabled, \* web_search_enabled
  NoCall         \* no call is being executed

Capabilities == {"general_llm", "web_search", "location", "ssh",
                 "crypto_control", "documents", "memory", "reminders"}

(* The capabilities whose tools must have run before an answer counts.       *)
Specialized == {"ssh", "crypto_control", "reminders"}

(* One tool of each kind that _capability_for_tool and tool_capability tell  *)
(* apart, by the prefix of its name: the capability the agent credits it     *)
(* with, and whether only an owner may use it.                               *)
Credited == [get_crypto_overview       |-> "crypto_control",
             get_server_summary        |-> "ssh",
             list_server_projects      |-> "none",
             get_project_memory_status |-> "ssh",
             create_reminder           |-> "reminders",
             recall_memory             |-> "none"]

Technical == {"get_crypto_overview", "get_server_summary",
              "list_server_projects", "get_project_memory_status"}

ASSUME CallAssumption ==
  /\ \A c \in Calls : c.tool \in DOMAIN Credited /\ c.args \in {"valid", "invalid"}
  /\ CallLists \subseteq Seq(Calls)
  /\ NoCall \notin Calls
  /\ HostedCounts \subseteq Nat
(* A routed request: what UniversalRequestRouter.classify guarantees of it.  *)
Routed(q) ==
  /\ {q.active, q.owner, q.explain, q.technical, q.write, q.unclear,
      q.current, q.nolocation, q.secret, q.private} \subseteq BOOLEAN
  /\ q.caps \subseteq Capabilities
  /\ q.nolocation => "location" \in q.caps /\ "web_search" \notin q.caps
  /\ q.private => q.caps = {"documents"} /\ ~ q.current /\ ~ q.write
  /\ q.write => q.caps = {}
  /\ q.current => q.caps \cap {"web_search", "location"} # {}

ASSUME RequestAssumption == \A q \in Requests : Routed(q)

ASSUME LimitAssumption ==
  /\ MaxRounds \in Nat \ {0}
  /\ MaxSearches \in Nat /\ MaxAttempts \in Nat
  /\ SearchEnabled \in BOOLEAN

VARIABLES
  req,        \* the request under way, or the last one
  step,       \* "idle", "asking", "calling", "running" or "ended"
  ask,        \* the request to the provider: its tools, tool_choice, attempt
  model,      \* OpenAIProvider.model
  rounds,     \* tool rounds begun
  queue,      \* the calls of the last response still to be executed
  running,    \* the call that is being executed
  seen,       \* seen_calls: the fingerprints of all rounds
  executed,   \* executed_capabilities
  hosted,     \* web_search_call_count
  retried,    \* guard_retried
  outcome,    \* how the request ended
  ran,        \* history: how often each call's tool was started
  succeeded,  \* history: the tools that returned a success
  asks        \* history: requests made to the provider

progress == <<rounds, queue, running, seen, executed, hosted, retried>>
history  == <<ran, succeeded, asks>>
vars == <<req, step, ask, model, progress, outcome, history>>

Search  == "web_search" \in req.caps
Needs   == req.caps \cap Specialized
Missing == Needs \ executed

Outcomes == {"none", "invite only", "explained", "owner only", "external write",
             "clarification", "search limit", "routing error", "search disabled",
             "secret", "location required", "search not registered", "answered",
             "duplicate", "round limit", "no sources", "search not executed",
             "required tool not executed", "empty", "search unsupported",
             "search unavailable", "provider error", "timeout", "deadline"}

Ask == [function : BOOLEAN, web : BOOLEAN, choice : {"auto", "required"},
        capped : BOOLEAN, attempt : 1 .. 2, model : {"configured", "default"}]

TypeOK ==
  /\ req \in Requests
  /\ step \in {"idle", "asking", "calling", "running", "ended"}
  /\ ask \in Ask
  /\ model \in {"configured", "default"}
  /\ rounds \in 0 .. MaxRounds
  /\ queue \in Seq(Calls)
  /\ running \in Calls \cup {NoCall}
  /\ seen \subseteq Calls
  /\ executed \subseteq Capabilities
  /\ hosted \in Nat
  /\ retried \in BOOLEAN
  /\ outcome \in Outcomes
  /\ ran \in [Calls -> Nat]
  /\ succeeded \subseteq DOMAIN Credited
  /\ asks \in Nat

Request(function, web, choice, capped) ==
  [function |-> function, web |-> web, choice |-> choice, capped |-> capped,
   attempt |-> 1, model |-> model]

NoAsk == [function |-> TRUE, web |-> FALSE, choice |-> "auto", capped |-> FALSE,
          attempt |-> 1, model |-> "default"]

Init ==
  /\ req \in Requests
  /\ step = "idle"
  /\ model \in {"configured", "default"}
  /\ ask = NoAsk
  /\ rounds = 0 /\ queue = <<>> /\ running = NoCall
  /\ seen = {} /\ executed = {} /\ hosted = 0 /\ retried = FALSE
  /\ outcome = "none"
  /\ ran = [c \in Calls |-> 0]
  /\ succeeded = {} /\ asks = 0

End(why) ==
  /\ step' = "ended"
  /\ outcome' = why

(* _create_response *)
Send(request) ==
  /\ step' = "asking"
  /\ ask' = request
  /\ asks' = asks + 1

(* tool_choice of the first request and of each one after a tool round. *)
Choice == IF Search \/ Needs # {} THEN "required" ELSE "auto"

-----------------------------------------------------------------------------
(* The gates, in the order ask() tries them; `limited` is what the access    *)
(* component's limiter says of one more search.                              *)

Gates == << "invite only", "explained", "owner only", "external write",
            "clarification", "search limit", "routing error", "search disabled",
            "secret", "location required", "search not registered" >>

Closed(q, limited) ==
  LET search == "web_search" \in q.caps IN
  << ~ q.active,
     q.owner /\ q.explain,
     ~ q.owner /\ q.technical,
     q.write,
     q.unclear,
     search /\ limited,
     q.current /\ ~ search /\ ~ q.nolocation /\ ~ q.private
       /\ "crypto_control" \notin q.caps,
     search /\ ~ SearchEnabled,
     search /\ q.secret,
     q.nolocation,
     search /\ "crypto_control" \in q.caps >>

(* The next request, which starts with nothing of the last one but the model. *)
NextRequest ==
  /\ step = "ended"
  /\ step' = "idle"
  /\ req' \in Requests
  /\ ask' = NoAsk
  /\ rounds' = 0 /\ queue' = <<>> /\ running' = NoCall
  /\ seen' = {} /\ executed' = {} /\ hosted' = 0 /\ retried' = FALSE
  /\ outcome' = "none"
  /\ ran' = [c \in Calls |-> 0]
  /\ succeeded' = {} /\ asks' = 0
  /\ UNCHANGED model

Refuse ==
  /\ step = "idle"
  /\ \E limited \in BOOLEAN, g \in DOMAIN Gates :
       /\ Closed(req, limited)[g]
       /\ \A h \in 1 .. g - 1 : ~ Closed(req, limited)[h]
       /\ End(Gates[g])
  /\ UNCHANGED <<req, ask, model, progress, history>>

Start ==
  /\ step = "idle"
  /\ \E limited \in BOOLEAN : \A g \in DOMAIN Gates : ~ Closed(req, limited)[g]
  /\ LET only == req.current /\ Search IN
       Send(Request(~ only, Search, Choice, only))
  /\ UNCHANGED <<req, model, progress, outcome, ran, succeeded>>

-----------------------------------------------------------------------------
(* The provider's replies: calls of the functions it was offered, hosted     *)
(* searches if it was offered the search, and text.  tool_choice "required"  *)
(* is a demand that the agent does not trust the model to meet.              *)

Responses == [calls : CallLists, hosted : HostedCounts, sources : BOOLEAN,
              text : {"none", "refusal", "plain"}]

Replies ==
  {r \in Responses :
     /\ r.calls # <<>> => ask.function /\ r.text = "none" /\ ~ r.sources
     /\ r.hosted > 0 => ask.web
     /\ ask.capped => r.hosted <= MaxAttempts
     /\ r.sources => hosted + r.hosted > 0}

Searches(r) == hosted + r.hosted

OverSearched(r) == Searches(r) > MaxSearches

(* A reply without calls that ask() goes on to judge.                        *)
Final(r) == /\ ~ OverSearched(r)
            /\ r.calls = <<>>
            /\ Searches(r) > 0 => r.sources

Unsearched(r) == Search /\ Searches(r) = 0

Attempted_InRounds == rounds > 0
Attempted == retried \/ rounds > 0

Refuses(r) == r.text = "refusal" /\ ~ Attempted

Unmet_AnyWillDo == IF Needs \cap executed = {} THEN Needs ELSE {}
Unmet == Missing

OutOfRounds == rounds >= MaxRounds

(* The whole reply is handled before the next await.                         *)
Receive(r) ==
  /\ model' = ask.model
  /\ hosted' = Searches(r)
  /\ UNCHANGED <<req, running, seen, executed, ran, succeeded>>

Stop(r, why) ==
  /\ Receive(r)
  /\ End(why)
  /\ UNCHANGED <<ask, rounds, queue, retried, asks>>

Retry(r, request) ==
  /\ Receive(r)
  /\ Send([request EXCEPT !.model = ask.model])
  /\ retried' = TRUE
  /\ UNCHANGED <<rounds, queue, outcome>>

CallTools(r) ==
  /\ Receive(r)
  /\ ~ OverSearched(r) /\ r.calls # <<>> /\ ~ OutOfRounds
  /\ rounds' = rounds + 1
  /\ queue' = r.calls
  /\ step' = "calling"
  /\ UNCHANGED <<ask, retried, outcome, asks>>

StopSearching(r) == OverSearched(r) /\ Stop(r, "duplicate")

StopCalling(r) ==
  ~ OverSearched(r) /\ r.calls # <<>> /\ OutOfRounds /\ Stop(r, "round limit")

StopUnsourced(r) ==
  /\ ~ OverSearched(r) /\ r.calls = <<>> /\ Searches(r) > 0 /\ ~ r.sources
  /\ Stop(r, "no sources")

RetrySearch(r) ==
  /\ Final(r) /\ Unsearched(r) /\ ~ retried
  /\ Retry(r, Request(FALSE, TRUE, "required", TRUE))

StopUnsearched(r) ==
  Final(r) /\ Unsearched(r) /\ retried /\ Stop(r, "search not executed")

(* The answer guard: a refusal is retried once, if nothing was tried yet.    *)
RetryRefusal(r) ==
  /\ Final(r) /\ ~ Unsearched(r) /\ Refuses(r)
  /\ Retry(r, Request(TRUE, Search,
                      IF req.caps = {"general_llm"} THEN "auto" ELSE "required", FALSE))

Judged(r) == Final(r) /\ ~ Unsearched(r) /\ ~ Refuses(r)

StopEmpty(r) == Judged(r) /\ r.text = "none" /\ Stop(r, "empty")

RetryRequired(r) ==
  /\ Judged(r) /\ r.text # "none" /\ Unmet # {} /\ ~ retried
  /\ Retry(r, Request(TRUE, FALSE, "required", FALSE))

StopRequired(r) ==
  /\ Judged(r) /\ r.text # "none" /\ Unmet # {} /\ retried
  /\ Stop(r, "required tool not executed")

Answer(r) == Judged(r) /\ r.text # "none" /\ Unmet = {} /\ Stop(r, "answered")

HandleReply ==
  /\ step = "asking"
  /\ \E r \in Replies :
       \/ CallTools(r) \/ StopSearching(r) \/ StopCalling(r) \/ StopUnsourced(r)
       \/ RetrySearch(r) \/ StopUnsearched(r) \/ RetryRefusal(r) \/ StopEmpty(r)
       \/ RetryRequired(r) \/ StopRequired(r) \/ Answer(r)

-----------------------------------------------------------------------------
(* The provider's failures.                                                  *)

(* The configured model is refused: the same call goes to the default one.   *)
FallBack ==
  /\ step = "asking" /\ ask.model = "configured"
  /\ ask' = [ask EXCEPT !.model = "default"]
  /\ UNCHANGED <<req, step, model, progress, outcome, history>>

RetryLeft_Always == TRUE
RetryLeft == ask.attempt = 1

(* A timeout or a broken connection: one more attempt if the request offers  *)
(* the hosted search.                                                        *)
Reattempt ==
  /\ step = "asking" /\ ask.web /\ RetryLeft
  /\ ask' = [ask EXCEPT !.attempt = 2, !.model = model]
  /\ UNCHANGED <<req, step, model, progress, outcome, history>>

FailureOutcomes ==
  {"provider error"}
  \cup (IF ask.web THEN {"search unsupported", "search unavailable"} ELSE {})
  \cup (IF ask.web /\ RetryLeft THEN {} ELSE {"timeout"})

(* Every other failure ends the request.  (The answer without search that    *)
(* follows an unavailable one is for requests that need no search: but only  *)
(* those that need it offer it.)                                             *)
FailRequest ==
  /\ step = "asking"
  /\ \E why \in FailureOutcomes : End(why)
  /\ UNCHANGED <<req, ask, model, progress, history>>

-----------------------------------------------------------------------------
(* The calls of a response, one after the other.                             *)

Repeated_Never(c) == FALSE
Repeated(c) == c \in seen

Rejected(c) == c.args = "invalid" \/ (c.tool \in Technical /\ ~ req.owner)

StopRepeating ==
  /\ step = "calling" /\ queue # <<>> /\ Repeated(Head(queue))
  /\ End("duplicate")
  /\ UNCHANGED <<req, ask, model, progress, history>>

TakeCall == /\ step = "calling" /\ queue # <<>> /\ ~ Repeated(Head(queue))
            /\ queue' = Tail(queue)
            /\ seen' = seen \cup {Head(queue)}

RejectCall ==
  /\ TakeCall
  /\ Rejected(Head(queue))
  /\ UNCHANGED <<req, step, ask, model, rounds, running, executed, hosted,
                 retried, outcome, history>>

RunCall ==
  /\ TakeCall
  /\ ~ Rejected(Head(queue))
  /\ step' = "running"
  /\ running' = Head(queue)
  /\ ran' = [ran EXCEPT ![Head(queue)] = @ + 1]
  /\ UNCHANGED <<req, ask, model, rounds, executed, hosted, retried, outcome,
                 succeeded, asks>>

(* The tool returns; what it could not do, or could not say in 64 KB, counts *)
(* as a failure.                                                             *)
ToolReturns ==
  /\ step = "running"
  /\ step' = "calling"
  /\ running' = NoCall
  /\ \/ /\ executed' = executed \cup ({Credited[running.tool]} \ {"none"})
        /\ succeeded' = succeeded \cup {running.tool}
     \/ UNCHANGED <<executed, succeeded>>
  /\ UNCHANGED <<req, ask, model, rounds, queue, seen, hosted, retried, outcome,
                 ran, asks>>

(* The outputs go back to the model.                                         *)
AskAgain ==
  /\ step = "calling" /\ queue = <<>>
  /\ Send(Request(TRUE, Search, Choice, FALSE))
  /\ UNCHANGED <<req, model, progress, outcome, ran, succeeded>>

-----------------------------------------------------------------------------
(* asyncio.wait_for gives the request up at its deadline, in the middle of   *)
(* an await of the loop.  The thread that makes the call to the provider is  *)
(* not stopped: it may still fall back to the default model and keep it.     *)
Deadline ==
  /\ step \in {"asking", "running"}
  /\ End("deadline")
  /\ running' = NoCall
  /\ model' \in {model} \cup (IF step = "asking" THEN {"default"} ELSE {})
  /\ UNCHANGED <<req, ask, rounds, queue, seen, executed, hosted, retried,
                 history>>

Progress == \/ Refuse \/ Start \/ HandleReply \/ FallBack \/ Reattempt \/ FailRequest
            \/ StopRepeating \/ RejectCall \/ RunCall \/ ToolReturns \/ AskAgain

Next == NextRequest \/ Progress \/ Deadline

Spec == Init /\ [][Next]_vars

(* The provider's client has a timeout and every tool returns; nobody        *)
(* promises a next request, or that the deadline strikes.                    *)
FairSpec == Spec /\ WF_vars(Progress)

-----------------------------------------------------------------------------
(* Properties.                                                               *)

(* An answer rests on what the routing asked for: every specialized tool it  *)
(* needs has returned a success in this request, and an answer that needs    *)
(* the web comes after a search that was carried out, whatever retries and   *)
(* rounds came between (ask(), REQUIRED_TOOL_NOT_EXECUTED and                *)
(* WEB_SEARCH_NOT_EXECUTED).                                                 *)
EvidenceBeforeAnswer ==
  outcome = "answered" =>
    /\ Needs \subseteq {Credited[t] : t \in succeeded}
    /\ Search => hosted > 0

(* No call is executed twice in a request: not in a later round, not after a *)
(* retry that starts over without the earlier outputs (seen_calls).          *)
EachCallOnce == \A c \in Calls : ran[c] <= 1

(* The retries share one permission: a request makes at most one request to  *)
(* the provider per round, the first one, and one retry, whichever of the    *)
(* three reasons for a retry come together (guard_retried).                  *)
AsksBounded == asks <= MaxRounds + 2

(* What a request has left, the most significant number first: rounds and    *)
(* the retry; where it is in its round; and in there the calls still to be   *)
(* executed, or the attempts and the fall-back of one request to the         *)
(* provider.                                                                 *)
RoundsLeft == (MaxRounds - rounds) + (IF retried THEN 0 ELSE 1)

Stage == CASE step = "idle" -> 3
           [] step \in {"calling", "running"} -> 2
           [] step = "asking" -> 1
           [] step = "ended" -> 0

CallsLeft == 2 * Len(queue) + (IF step = "running" THEN 1 ELSE 0)

AttemptsLeft == 2 * (2 - ask.attempt) + (IF ask.model = "configured" THEN 1 ELSE 0)

Left == <<RoundsLeft, Stage, IF step = "asking" THEN AttemptsLeft ELSE CallsLeft>>

Less(m, n) == \E i \in 1 .. 3 : m[i] < n[i] /\ \A j \in 1 .. i - 1 : m[j] = n[j]

(* Whatever the model replies and whatever fails, each step of a request     *)
(* uses up something it never gets back: no cycle of rounds, retries,        *)
(* attempts, fall-backs and calls keeps it from its end (max_tool_rounds,    *)
(* guard_retried, the attempts of _create_response).                         *)
UsedUp == [][step # "ended" => Less(Left', Left)]_vars

(* Every request ends, even if the model refuses, repeats itself or never    *)
(* stops calling tools, and whatever fails (MAX_TOOL_ROUNDS).                *)
Terminates == (step = "idle") ~> (step = "ended")
=============================================================================
