----------------------------- MODULE SshService -----------------------------
(***************************************************************************)
(* SSHService (app/ssh_agent): a request is refused, answered from the     *)
(* configuration, or carried out as one remote check or several in a row.  *)
(* Each check takes a permit from the ConcurrencyLimiter, runs one ssh     *)
(* process with a time-out, and gives the permit back on every way out.    *)
(*                                                                         *)
(* The one service object is used from several event loops: the bot's, and *)
(* one for each worker thread in which the crypto tools call asyncio.run   *)
(* (crypto_control/service.py).  A loop works on one request at a time.    *)
(* The limiter's asyncio.Lock is meant for one loop: `lock` models what it *)
(* does when another loop finds it taken.  The metrics have no lock.       *)
(***************************************************************************)
EXTENDS Naturals, FiniteSets

CONSTANTS
  Bot,         \* the bot's event loop
  Threads,     \* loops of worker threads; each lives for one request
  NoLoop,
  Users, Servers,
  Requests,    \* [user, server, kind, children]: what the policy makes of requests
  Settings,    \* [all, user, server]: the limits, and whether the interpreter
               \* switches threads in two places where no await invites it:
               \* [contended] in the few calls on the lock and under it, [torn]
               \* in the one call of SSHMetrics.finish
  MaxRequests  \* requests of all loops together (a bound)

Loops == {Bot} \cup Threads

Request == [user : Users, server : Servers,
            kind : {"list", "single", "composite"}, children : Nat]

ASSUME LoopAssumption ==
  IsFiniteSet(Threads) /\ Bot \notin Threads /\ NoLoop \notin Loops

ASSUME RequestAssumption ==
  /\ Requests \subseteq Request /\ Requests # {}
  /\ \A r \in Requests : /\ r.kind = "list" <=> r.children = 0
                         /\ r.kind = "single" => r.children = 1

ASSUME SettingAssumption ==
  Settings \subseteq [all : Nat \ {0}, user : Nat \ {0}, server : Nat \ {0},
                      contended : BOOLEAN, torn : BOOLEAN]

ASSUME BoundAssumption == MaxRequests \in Nat

VARIABLES
  setting,  \* chosen once
  phase,    \* how far each loop is with its request
  job,      \* the locals of that request
  proc,     \* the ssh process of its running check
  lock,     \* ConcurrencyLimiter._lock
  taken,    \* _global, _users, _servers
  metrics,  \* active_requests, total_requests, total_failures
  outcome,  \* history: how the last request of each loop ended
  clean     \* history: a process of that request exited with 0 in its time

state == <<phase, job, proc>>
vars == <<setting, state, lock, taken, metrics, outcome, clean>>

Phases == {"idle", "begun", "entering", "admitting", "admitted", "running",
           "stopping", "draining", "leaving", "releasing"}

Job == [req : Requests, left : Nat, result : {"none", "ok", "unparsed", "failed"},
        good : BOOLEAN, spoiled : BOOLEAN, cancelled : BOOLEAN]

Lock == [holder : Loops \cup {NoLoop}, waiter : Loops \cup {NoLoop},
         signal : {"none", "sent", "lost"}, loop : Loops \cup {NoLoop},
         late : SUBSET Loops]  \* have found it taken and do not wait yet

TypeOK ==
  /\ setting \in Settings
  /\ phase \in [Loops -> Phases]
  /\ job \in [Loops -> Job]
  /\ proc \in [Loops -> {"none", "live", "ok", "bad"}]
  /\ lock \in Lock
  /\ taken \in [all : Nat, users : [Users -> Nat], servers : [Servers -> Nat]]
  /\ metrics \in [active : Nat, requests : Nat, failures : Nat]
  /\ outcome \in [Loops -> {"none", "listed", "success", "failure", "cancelled"}]
  /\ clean \in [Loops -> BOOLEAN]

Fresh(r) == [req |-> r, left |-> r.children, result |-> "none", good |-> FALSE,
             spoiled |-> FALSE, cancelled |-> FALSE]

NoJob == Fresh(CHOOSE r \in Requests : TRUE)

FreeLock == [holder |-> NoLoop, waiter |-> NoLoop, signal |-> "none", loop |-> NoLoop,
             late |-> {}]

Init ==
  /\ setting \in Settings
  /\ phase = [l \in Loops |-> "idle"]
  /\ job = [l \in Loops |-> NoJob]
  /\ proc = [l \in Loops |-> "none"]
  /\ lock = FreeLock
  /\ taken = [all |-> 0, users |-> [u \in Users |-> 0], servers |-> [s \in Servers |-> 0]]
  /\ metrics = [active |-> 0, requests |-> 0, failures |-> 0]
  /\ outcome = [l \in Loops |-> "none"]
  /\ clean = [l \in Loops |-> FALSE]

Goto(l, p) == phase' = [phase EXCEPT ![l] = p]

(* What active_requests holds once a request has begun or finished: finish *)
(* reads it, calls max() and writes, and what another loop writes in between*)
(* is lost.  The augmented assignments are not interrupted, so the totals  *)
(* lose nothing.                                                           *)
Written(l, n) ==
  {n} \cup IF setting.torn /\ \E k \in Loops \ {l} : phase[k] # "idle"
             THEN {metrics.active} ELSE {}

Finish_CancelledUncounted(l, how, error) ==
  /\ Goto(l, "idle")
  /\ job' = [job EXCEPT ![l] = NoJob]
  /\ outcome' = [outcome EXCEPT ![l] = how]
  /\ IF how = "cancelled" THEN metrics' = metrics ELSE
       \E n \in Written(l, IF metrics.active = 0 THEN 0 ELSE metrics.active - 1) :
         metrics' = [metrics EXCEPT !.active = n, !.failures = IF error THEN @ + 1 ELSE @]

(* SSHMetrics.finish, and the return to the caller: the locals are gone.   *)
Finish(l, how, error) ==
  /\ Goto(l, "idle")
  /\ job' = [job EXCEPT ![l] = NoJob]
  /\ outcome' = [outcome EXCEPT ![l] = how]
  /\ \E n \in Written(l, IF metrics.active = 0 THEN 0 ELSE metrics.active - 1) :
       metrics' = [metrics EXCEPT !.active = n, !.failures = IF error THEN @ + 1 ELSE @]

-----------------------------------------------------------------------------
(* _request, until the first remote check *)

(* A worker thread's loop exists for one call of git_status.               *)
Begin(l) == \E r \in Requests :
  /\ phase[l] = "idle"
  /\ l \in Threads => outcome[l] = "none" /\ r.kind = "single"
  /\ metrics.requests < MaxRequests
  /\ Goto(l, "begun")
  /\ job' = [job EXCEPT ![l] = Fresh(r)]
  /\ \E n \in Written(l, metrics.active + 1) :
       metrics' = [metrics EXCEPT !.active = n, !.requests = @ + 1]
  /\ clean' = [clean EXCEPT ![l] = FALSE]
  /\ outcome' = [outcome EXCEPT ![l] = "none"]
  /\ UNCHANGED <<setting, proc, lock, taken>>

(* A bad context, no access, SSH disabled, the rate limit, or no such plan. *)
Refuse(l) ==
  /\ phase[l] = "begun"
  /\ Finish(l, "failure", TRUE)
  /\ UNCHANGED <<setting, proc, lock, taken, clean>>

List(l) ==
  /\ phase[l] = "begun"
  /\ job[l].req.kind = "list"
  /\ Finish(l, "listed", FALSE)
  /\ UNCHANGED <<setting, proc, lock, taken, clean>>

Dispatch(l) ==
  /\ phase[l] = "begun"
  /\ job[l].req.kind # "list"
  /\ Goto(l, "entering")
  /\ UNCHANGED <<setting, job, proc, lock, taken, metrics, outcome, clean>>

-----------------------------------------------------------------------------
(* asyncio.Lock.  Its future belongs to the loop of the waiter; release()  *)
(* completes it from the holder's thread, which does not wake a loop that  *)
(* is already waiting for events.  The bot's loop is never long without    *)
(* an event; the loop of a thread has no other.                            *)

(* The critical section that follows an acquisition.                        *)
Section(l) == IF phase[l] = "entering" THEN "admitting" ELSE "releasing"

AtLock(l) ==
  phase[l] \in {"entering", "leaving"} /\ lock.waiter # l /\ l \notin lock.late

LockFree == lock.holder = NoLoop /\ lock.waiter = NoLoop

(* Looking at a free lock and taking it is one step here (README, section 7).*)
Acquire(l) ==
  /\ AtLock(l) /\ LockFree
  /\ lock' = [lock EXCEPT !.holder = l]
  /\ Goto(l, Section(l))
  /\ UNCHANGED <<setting, job, proc, taken, metrics, outcome, clean>>

(* acquire() looks at the lock first and queues a future afterwards; a     *)
(* holder on another thread may let go in between, and finds nobody to wake.*)
FindTaken(l) ==
  /\ AtLock(l) /\ ~ LockFree /\ setting.contended
  /\ lock' = [lock EXCEPT !.late = @ \cup {l}]
  /\ UNCHANGED <<setting, state, taken, metrics, outcome, clean>>

(* The first loop that has to wait binds the lock to itself (_get_loop).    *)
Wait(l) ==
  /\ l \in lock.late
  /\ lock.loop \in {NoLoop, l}
  /\ lock' = [lock EXCEPT !.waiter = l, !.loop = l, !.late = @ \ {l}]
  /\ UNCHANGED <<setting, state, taken, metrics, outcome, clean>>

(* Another loop that has to wait gets a RuntimeError, which _execute_one    *)
(* does not catch: the request ends, a permit it holds is not given back.   *)
WrongLoop(l) ==
  /\ l \in lock.late
  /\ lock.loop \notin {NoLoop, l}
  /\ lock' = [lock EXCEPT !.late = @ \ {l}]
  /\ Finish(l, "failure", TRUE)
  /\ UNCHANGED <<setting, proc, taken, clean>>

Resume(l) ==
  /\ lock.waiter = l /\ lock.signal = "sent"
  /\ lock' = [lock EXCEPT !.holder = l, !.waiter = NoLoop, !.signal = "none"]
  /\ Goto(l, Section(l))
  /\ UNCHANGED <<setting, job, proc, taken, metrics, outcome, clean>>

(* release(): the first waiter's future is completed, unless it already is. *)
Unlocked ==
  IF lock.waiter = NoLoop \/ lock.signal # "none"
    THEN {[lock EXCEPT !.holder = NoLoop]}
    ELSE {[lock EXCEPT !.holder = NoLoop, !.signal = s] :
            s \in IF lock.waiter = Bot THEN {"sent"} ELSE {"sent", "lost"}}

-----------------------------------------------------------------------------
(* _execute_one: one check *)

Full_OneMore(l) ==
  \/ taken.all > setting.all
  \/ taken.users[job[l].req.user] > setting.user
  \/ taken.servers[job[l].req.server] > setting.server

(* ConcurrencyLimiter.permit finds a limit reached.                         *)
Full(l) ==
  \/ taken.all >= setting.all
  \/ taken.users[job[l].req.user] >= setting.user
  \/ taken.servers[job[l].req.server] >= setting.server

Succeeded(l, result) == job[l].good \/ result \in {"ok", "unparsed"}

(* The result of a check: a composite request goes on with the next one and *)
(* has succeeded if any has; a single one that could not be parsed has      *)
(* succeeded, but reports an error.                                         *)
Settle(l, result) ==
  \/ /\ job[l].left > 1
     /\ Goto(l, "entering")
     /\ job' = [job EXCEPT ![l].left = @ - 1, ![l].good = Succeeded(l, result),
                           ![l].result = "none", ![l].spoiled = FALSE]
     /\ UNCHANGED <<metrics, outcome>>
  \/ /\ job[l].left = 1
     /\ Finish(l, IF Succeeded(l, result) THEN "success" ELSE "failure",
               IF job[l].req.kind = "single" THEN result # "ok"
                                             ELSE ~ Succeeded(l, result))

Busy(l) ==
  /\ phase[l] = "admitting" /\ Full(l)
  /\ lock' \in Unlocked
  /\ Settle(l, "failed")
  /\ UNCHANGED <<setting, proc, taken, clean>>

Admit(l) ==
  /\ phase[l] = "admitting" /\ ~ Full(l)
  /\ lock' \in Unlocked
  /\ taken' = [taken EXCEPT !.all = @ + 1, !.users[job[l].req.user] = @ + 1,
                            !.servers[job[l].req.server] = @ + 1]
  /\ Goto(l, "admitted")
  /\ UNCHANGED <<setting, job, proc, metrics, outcome, clean>>

Leave(l, result) ==
  /\ Goto(l, "leaving")
  /\ job' = [job EXCEPT ![l].result = result]

(* The server is disabled, the plan is not as expected, ssh cannot start.  *)
NotStarted(l) ==
  /\ phase[l] = "admitted"
  /\ Leave(l, "failed")
  /\ UNCHANGED <<setting, proc, lock, taken, metrics, outcome, clean>>

Spawn(l) ==
  /\ phase[l] = "admitted"
  /\ proc' = [proc EXCEPT ![l] = "live"]
  /\ Goto(l, "running")
  /\ UNCHANGED <<setting, job, lock, taken, metrics, outcome, clean>>

(* The process ends by itself, or upon SIGTERM.                             *)
Exit(l) == \E how \in {"ok", "bad"} :
  /\ proc[l] = "live"
  /\ proc' = [proc EXCEPT ![l] = how]
  /\ clean' = [clean EXCEPT ![l] = @ \/ (how = "ok" /\ phase[l] = "running")]
  /\ UNCHANGED <<setting, phase, job, lock, taken, metrics, outcome>>

(* The time-out, or an exception while waiting or reading: _stop_process.  *)
GiveUp(l) ==
  /\ phase[l] \in {"running", "draining"}
  /\ ~ job[l].spoiled /\ ~ job[l].cancelled
  /\ Goto(l, "stopping")
  /\ job' = [job EXCEPT ![l].spoiled = TRUE]
  /\ UNCHANGED <<setting, proc, lock, taken, metrics, outcome, clean>>

Kill_Never(l) == FALSE /\ phase[l] = "stopping" /\ UNCHANGED vars

(* The grace period after SIGTERM is over: SIGKILL.                         *)
Kill(l) ==
  /\ phase[l] = "stopping" /\ proc[l] = "live"
  /\ proc' = [proc EXCEPT ![l] = "bad"]
  /\ UNCHANGED <<setting, phase, job, lock, taken, metrics, outcome, clean>>

(* process.wait() returns.                                                  *)
Reap(l) ==
  /\ phase[l] \in {"running", "stopping"} /\ proc[l] # "live"
  /\ Goto(l, "draining")
  /\ UNCHANGED <<setting, job, proc, lock, taken, metrics, outcome, clean>>

Verdicts_ByStatus(l) ==
  IF job[l].cancelled \/ proc[l] = "bad"
    THEN {"failed"} ELSE {"ok", "unparsed", "failed"}

(* What the transport and the parsers may make of an exit.                  *)
Verdicts(l) ==
  IF job[l].spoiled \/ job[l].cancelled \/ proc[l] = "bad"
    THEN {"failed"} ELSE {"ok", "unparsed", "failed"}

(* Both pipes are at their end.                                             *)
Drain(l) ==
  /\ phase[l] = "draining"
  /\ \E result \in Verdicts(l) : Leave(l, result)
  /\ proc' = [proc EXCEPT ![l] = "none"]
  /\ UNCHANGED <<setting, lock, taken, metrics, outcome, clean>>

Release(l) ==
  /\ phase[l] = "releasing"
  /\ lock' \in Unlocked
  /\ taken' = [taken EXCEPT !.all = @ - 1, !.users[job[l].req.user] = @ - 1,
                            !.servers[job[l].req.server] = @ - 1]
  /\ IF job[l].cancelled
       THEN Finish(l, "cancelled", TRUE)
       ELSE Settle(l, job[l].result)
  /\ UNCHANGED <<setting, proc, clean>>

-----------------------------------------------------------------------------
(* The deadline of the bot's request cancels it, once, wherever it waits.  *)

Cancelled(l) == job' = [job EXCEPT ![l].cancelled = TRUE]

CancelStart_KeepsPermit(l) ==
  /\ phase[l] = "admitted"
  /\ Finish(l, "cancelled", TRUE)
  /\ UNCHANGED <<setting, proc, lock, taken, clean>>

CancelStart(l) ==
  /\ phase[l] = "admitted"
  /\ Goto(l, "leaving") /\ Cancelled(l)
  /\ UNCHANGED <<setting, proc, lock, taken, metrics, outcome, clean>>

CancelCheck_Abandons(l) ==
  /\ phase[l] \in {"running", "stopping", "draining"}
  /\ Goto(l, "leaving") /\ Cancelled(l)
  /\ UNCHANGED <<setting, proc, lock, taken, metrics, outcome, clean>>

(* execute() stops the process, drains it, and only then raises.            *)
CancelCheck(l) ==
  /\ phase[l] \in {"running", "stopping", "draining"}
  /\ Goto(l, "stopping") /\ Cancelled(l)
  /\ UNCHANGED <<setting, proc, lock, taken, metrics, outcome, clean>>

(* While it waits for the lock; if that was to give a permit back, the     *)
(* permit is not given back.                                                *)
CancelWait(l) ==
  /\ lock.waiter = l
  /\ lock' = [lock EXCEPT !.waiter = NoLoop, !.signal = "none"]
  /\ Finish(l, "cancelled", TRUE)
  /\ UNCHANGED <<setting, proc, taken, clean>>

Cancel ==
  /\ ~ job[Bot].cancelled
  /\ CancelStart(Bot) \/ CancelCheck(Bot) \/ CancelWait(Bot)

-----------------------------------------------------------------------------
Progress(l) ==
  \/ Refuse(l) \/ List(l) \/ Dispatch(l)
  \/ Acquire(l) \/ FindTaken(l) \/ Wait(l) \/ WrongLoop(l) \/ Resume(l)
  \/ Busy(l) \/ Admit(l) \/ NotStarted(l) \/ Spawn(l)
  \/ GiveUp(l) \/ Kill(l) \/ Reap(l) \/ Drain(l) \/ Release(l)

Next ==
  \/ \E l \in Loops : Begin(l) \/ Progress(l) \/ Exit(l)
  \/ Cancel

Spec == Init /\ [][Next]_vars

FairSpec == Spec /\ \A l \in Loops : WF_vars(Progress(l))

-----------------------------------------------------------------------------
(* Properties *)

Holding == {"admitted", "running", "stopping", "draining", "leaving", "releasing"}

Holders == {l \in Loops : phase[l] \in Holding}

HoldersOf(u) == {l \in Holders : job[l].req.user = u}

HoldersOn(s) == {l \in Holders : job[l].req.server = s}

(* The three counters of the limiter never run below the checks that hold a *)
(* permit, so no more checks run than the limits allow, cancellations and   *)
(* failures of any step included (limits.py, permit).  And as long as no    *)
(* loop meets the lock taken, they are exact: nothing is lost either.       *)
PermitsMatch ==
  /\ taken.all >= Cardinality(Holders)
  /\ \A u \in Users : taken.users[u] >= Cardinality(HoldersOf(u))
  /\ \A s \in Servers : taken.servers[s] >= Cardinality(HoldersOn(s))
  /\ ~ setting.contended =>
       /\ taken.all = Cardinality(Holders)
       /\ \A u \in Users : taken.users[u] = Cardinality(HoldersOf(u))
       /\ \A s \in Servers : taken.servers[s] = Cardinality(HoldersOn(s))

(* No ssh process outlives its check: whoever is past process.wait(), or    *)
(* has returned, cancelled or not, has no live process (transport.py,       *)
(* execute and _stop_process).                                              *)
ProcessesReaped ==
  \A l \in Loops : proc[l] = "live" => phase[l] \in {"running", "stopping"}

(* A request that is not a list reports success only if one of its          *)
(* processes ended with exit status 0 before it was given up: an ssh that   *)
(* leaves upon SIGTERM with status 0 does not count (transport.py, _result; *)
(* service.py, _dispatch).                                                  *)
SuccessMeansRan == \A l \in Loops : outcome[l] = "success" => clean[l]

(* A failure is counted at most once for every request, never while the    *)
(* request is under way; and as long as no thread is switched inside        *)
(* finish(), the active requests are exactly those under way, on every way  *)
(* out (metrics.py; service.py, _request).                                  *)
Ongoing == {l \in Loops : phase[l] # "idle"}

MetricsTrue ==
  /\ metrics.failures + Cardinality(Ongoing) <= metrics.requests
  /\ ~ setting.torn => metrics.active = Cardinality(Ongoing)

(* Where permits are lost: the counter moves exactly as the permits do,     *)
(* whatever fails, is refused or is cancelled, but for one way out of the   *)
(* limiter: a loop that found the lock taken when it was to give its permit *)
(* back and leaves without (limits.py, permit, the finally).                *)
Excess == taken.all - Cardinality(Holders)

LostOnlyAtLock ==
  [][\/ Excess' = Excess
     \/ /\ Excess' = Excess + 1
        /\ setting.contended
        /\ \E l \in Loops : phase[l] = "leaving" /\ phase'[l] = "idle"]_vars

(* What a request has left, the most significant number first: its checks,  *)
(* the interruptions that are still possible, and where its check is.       *)
AtDoor(l) == IF lock.waiter = l THEN 1 ELSE IF l \in lock.late THEN 2 ELSE 3

Stage(l) ==
  CASE phase[l] = "begun" -> 12
    [] phase[l] = "entering" -> 8 + AtDoor(l)
    [] phase[l] = "admitting" -> 8
    [] phase[l] = "admitted" -> 7
    [] phase[l] \in {"running", "stopping"} -> IF proc[l] = "live" THEN 6 ELSE 5
    [] phase[l] = "draining" -> 4
    [] phase[l] = "leaving" -> AtDoor(l)
    [] phase[l] \in {"releasing", "idle"} -> 0

Interruptions(l) ==
  (IF job[l].spoiled THEN 0 ELSE 1) + (IF job[l].cancelled THEN 0 ELSE 1)

Left(l) == <<job[l].left, Interruptions(l), Stage(l)>>

Less(m, n) == \E i \in 1 .. 3 : m[i] < n[i] /\ \A j \in 1 .. i - 1 : m[j] = n[j]

Own(l) == <<phase[l], job[l], proc[l], lock.waiter = l, l \in lock.late>>

(* Every step of a request, its own or one done to it, ends it or uses up   *)
(* something it never gets back, and no step of another request gives it    *)
(* anything back: time-outs, signals and cancellations that come during one *)
(* another cannot keep a check going round (transport.py, execute;          *)
(* service.py, _dispatch).                                                  *)
RequestsUsedUp ==
  [][\A l \in Loops : phase[l] # "idle" /\ phase'[l] # "idle" =>
                        Own(l)' = Own(l) \/ Less(Left(l)', Left(l))]_vars

(* Every request ends, or comes to wait for the limiter's lock: there, when *)
(* threads contend for it, its wake-up may be lost.  Processes that hang,   *)
(* time-outs and cancellations do not keep it (service.py, _request;        *)
(* transport.py, execute).                                                  *)
Answered ==
  \A l \in Loops :
    phase[l] # "idle" ~> phase[l] = "idle" \/ (setting.contended /\ lock.waiter = l)

(* The limits of SshSlots hold of the ssh processes themselves, not only of *)
(* the counters (docs/ssh-agent-deployment.md: "concurrency global 4,       *)
(* per-user 2, per-server 2").                                              *)
Check(l) == [loop |-> l, user |-> job[l].req.user, server |-> job[l].req.server]

Running == {Check(l) : l \in {k \in Loops : proc[k] = "live"}}

Limits == [all |-> setting.all, user |-> setting.user, server |-> setting.server]

Slots == INSTANCE SshSlots WITH limits <- Limits, running <- Running

SlotsKept == Slots!Spec

(* What limits.py ("atomic concurrency admission") and its tests say: when  *)
(* all requests have ended, no permit is held.                              *)
PermitsReturned == (\A l \in Loops : phase[l] = "idle") => taken.all = 0
=============================================================================
