------------------------------ MODULE Reminders ------------------------------
(***************************************************************************)
(* The reminder subsystem (app/reminders): the SQLite table, the user      *)
(* commands that worker threads run against it, and the scheduler task of  *)
(* every process, which claims due rows under a lease, sends them through  *)
(* Telegram and writes the outcome back.  Every SQLite transaction is one  *)
(* step; what the code keeps in a local variable between two transactions, *)
(* or across `await bot.send_message`, is kept here across steps too.      *)
(***************************************************************************)
EXTENDS Naturals, FiniteSets

CONSTANTS
  Processes,     \* the processes that run a ReminderScheduler
  Threads,       \* the worker threads that run user commands
  Host,          \* Host[t]: the process that thread t belongs to
  Users,
  Family,        \* the users whose access the owner may take away
  Ids,           \* the row ids the table may come to hold (a bound)
  Requests,      \* what users ask for: [user, kind, text, source, private]
  Commands,      \* the commands users give (all of them, or a bound)
  NoOwner,       \* lease_owner NULL
  NoSource,      \* source_message_id NULL
  MinLead,       \* min_lead_seconds
  Lease,         \* lease_seconds
  MaxAttempts,   \* max_attempts
  RetryDelay,    \* RetryDelay[k]: the backoff after k failures,
                 \* retry_base_seconds * 2 ^ (k - 1) in the code
  Grace,         \* overdue_grace_seconds
  DedupWindow,   \* the five minutes of _find_dedup
  MaxActive,     \* max_active_per_user
  ClaimLimit,    \* the LIMIT of claim_due
  Period,        \* the distance between two occurrences of a recurrence
  MaxTime,       \* the clock's bound
  FaultsUntil    \* crashes and storage errors happen no later (a bound)

Kinds    == {"one_time", "recurring"}
Statuses == {"scheduled", "running", "completed", "cancelled", "failed", "paused"}
Errors   == {"none", "OVERDUE_EXPIRED", "PermissionError", "TelegramError"}

ASSUME ProcessAssumption ==
  /\ Host \in [Threads -> Processes]
  /\ NoOwner \notin Processes
  /\ Family \subseteq Users
ASSUME ThreadAssumption == IsFiniteSet(Threads) /\ Threads # {}
ASSUME RequestAssumption ==
  \A q \in Requests : /\ q.user \in Users
                      /\ q.kind \in Kinds
                      /\ q.private \in BOOLEAN
ASSUME TimingAssumption ==
  /\ MinLead \in Nat /\ Lease \in Nat /\ Grace \in Nat /\ DedupWindow \in Nat
  /\ MaxActive \in Nat /\ ClaimLimit \in Nat
  /\ MaxTime \in Nat /\ FaultsUntil \in Nat
  /\ MaxAttempts \in Nat \ {0}
  /\ RetryDelay \in [1 .. MaxAttempts -> Nat]
  /\ Period \in Nat \ {0}
ASSUME CommandAssumption ==
  Commands \subseteq {"create", "cancel", "pause", "resume", "update"}

VARIABLES
  now,        \* the wall clock
  rows,       \* the reminders table, by id
  batch,      \* per process: the claimed reminders tick() has still to process
  thread,     \* per thread: the command under way
  allowed,    \* the users the access guard lets a delivery through to
  sent,       \* history: the reminders whose message reached the user
  failures,   \* history: failed delivery attempts, up to MaxAttempts
  overtaken   \* history: claims <<p, i>> whose row somebody else has written

vars == <<now, rows, batch, thread, allowed, sent, failures, overtaken>>

Idle == [step |-> "idle"]

Row == [req : Requests, status : Statuses, active : BOOLEAN,
        sched : Nat, next : Nat, attempts : 0 .. MaxAttempts - 1, error : Errors,
        owner : Processes \cup {NoOwner}, until : Nat, created : Nat]

(* A claimed reminder: what _process reads from the snapshot of its row that  *)
(* no UPDATE would leave alone, the `current` of the tick that claimed it,   *)
(* and how far its delivery has come.                                        *)
Job == [id : Ids, next : Nat, attempts : 0 .. MaxAttempts - 1, at : Nat,
        stage : {"queued", "sending", "delivered"}]

Work == {Idle}
  \cup [step : {"counted", "fresh"}, req : Requests, when : Nat, at : Nat]
  \cup [step : {"resolved"}, command : Commands \ {"create"}, id : Ids, next : Nat]

TypeOK ==
  /\ now \in Nat
  /\ DOMAIN rows \subseteq Ids
  /\ rows \in [DOMAIN rows -> Row]
  /\ batch \in [Processes -> SUBSET Job]
  /\ thread \in [Threads -> Work]
  /\ allowed \subseteq Users
  /\ sent \subseteq Ids
  /\ failures \in [Ids -> 0 .. MaxAttempts]
  /\ overtaken \subseteq Processes \X Ids

Init ==
  /\ now = 0
  /\ rows = [i \in {} |-> 0]
  /\ batch = [p \in Processes |-> {}]
  /\ thread = [t \in Threads |-> Idle]
  /\ allowed = Users
  /\ sent = {}
  /\ failures = [i \in Ids |-> 0]
  /\ overtaken = {}

-----------------------------------------------------------------------------
(* What each UPDATE writes into a row. *)

LeaseFree(r) == [r EXCEPT !.owner = NoOwner, !.until = 0]

Cancelled(r) == [LeaseFree(r) EXCEPT !.status = "cancelled", !.active = FALSE]

Paused(r) == [LeaseFree(r) EXCEPT !.status = "paused"]

Resumed(r, next) == [r EXCEPT !.status = "scheduled", !.next = next]

Moved_StillRunning(r, when) == [r EXCEPT !.sched = when, !.next = when]

Moved(r, when) == [r EXCEPT !.status = "scheduled", !.sched = when, !.next = when]

Claimed_FromDueTime(r, p) ==
  [r EXCEPT !.status = "running", !.owner = p, !.until = r.next + Lease]

Claimed(r, p) ==
  [r EXCEPT !.status = "running", !.owner = p, !.until = now + Lease]

Expired(r) ==
  [LeaseFree(r) EXCEPT !.status = "failed", !.active = FALSE,
                       !.error = "OVERDUE_EXPIRED"]

(* next_occurrence of an evenly spaced rule: strictly after t. *)
NextOccurrence(t) == ((t \div Period) + 1) * Period

(* The row after the message went out; the kind is the snapshot's, and the   *)
(* time that of the tick that claimed it.                                    *)
Delivered(r, at) ==
  IF r.req.kind = "one_time"
  THEN [LeaseFree(r) EXCEPT !.status = "completed", !.active = FALSE,
                            !.error = "none"]
  ELSE [LeaseFree(r) EXCEPT !.status = "scheduled", !.error = "none",
                            !.next = NextOccurrence(at), !.attempts = 0]

GivesUp_OneLate(attempts) == attempts > MaxAttempts
GivesUp_OneShort(attempts) == attempts + 1 >= MaxAttempts
GivesUp(attempts) == attempts >= MaxAttempts

(* The row after a failed attempt; `attempts` counts it. *)
Retried(r, attempts, at, error) ==
  LET free == [LeaseFree(r) EXCEPT !.error = error]
  IN  IF GivesUp(attempts)
      THEN IF r.req.kind = "one_time"
           THEN [free EXCEPT !.status = "failed", !.active = FALSE]
           ELSE [free EXCEPT !.status = "scheduled", !.attempts = 0,
                             !.next = NextOccurrence(at)]
      ELSE [free EXCEPT !.status = "scheduled", !.attempts = attempts,
                        !.next = at + RetryDelay[attempts]]

(* The processes with row i in their batch: a write of row i by anybody else *)
(* overtakes their claims.                                                   *)
Holders(i) == {p \in Processes : \E job \in batch[p] : job.id = i}

-----------------------------------------------------------------------------
(* User commands.  A worker thread may outlive the request that started it   *)
(* (asyncio.wait_for abandons it), so the threads interleave freely with each *)
(* other and with the schedulers, one transaction at a time.                 *)

Live(r) == r.active /\ r.status \in {"scheduled", "running", "paused"}

ActiveIds(u) == {i \in DOMAIN rows : rows[i].req.user = u /\ Live(rows[i])}

BelowLimit_OffByOne(u) == Cardinality(ActiveIds(u)) <= MaxActive
BelowLimit(u) == Cardinality(ActiveIds(u)) < MaxActive

(* create(), up to the transaction of active_count.                          *)
CreateCount(t) ==
  /\ thread[t] = Idle
  /\ "create" \in Commands
  /\ \E q \in Requests, when \in (now + MinLead) .. MaxTime :
       /\ BelowLimit(q.user)
       /\ thread' = [thread EXCEPT
            ![t] = [step |-> "counted", req |-> q, when |-> when, at |-> now]]
  /\ UNCHANGED <<now, rows, batch, allowed, sent, failures, overtaken>>

(* The deduplication key is a hash of these fields of the row.               *)
DedupKey(q, when) == <<q.user, q.text, q.kind, when>>

IsRecent(r, at) == r.active /\ r.created + DedupWindow >= at

Duplicates_NeverFound(w) == {}
Duplicates(w) ==
  {i \in DOMAIN rows : /\ DedupKey(rows[i].req, rows[i].sched) = DedupKey(w.req, w.when)
                       /\ IsRecent(rows[i], w.at)}

(* _find_dedup: a recent duplicate is returned instead of a new row.         *)
CreateDedup(t) ==
  /\ thread[t].step = "counted"
  /\ thread' = [thread EXCEPT
       ![t] = IF Duplicates(thread[t]) # {} THEN Idle ELSE [@ EXCEPT !.step = "fresh"]]
  /\ UNCHANGED <<now, rows, batch, allowed, sent, failures, overtaken>>

SameSource_Ignored(q) == {}
SameSource(q) ==
  {i \in DOMAIN rows : /\ q.source # NoSource
                       /\ rows[i].req.user = q.user
                       /\ rows[i].req.private = q.private
                       /\ rows[i].req.source = q.source}

NewRow(w) ==
  [req |-> w.req, status |-> "scheduled", active |-> TRUE, sched |-> w.when,
   next |-> w.when, attempts |-> 0, error |-> "none", owner |-> NoOwner,
   until |-> 0, created |-> now]

(* storage.create: the unique index turns a second row for the same message  *)
(* into the row that is there.                                               *)
CreateInsert(t) ==
  /\ thread[t].step = "fresh"
  /\ IF SameSource(thread[t].req) # {}
     THEN UNCHANGED rows
     ELSE \E i \in Ids \ DOMAIN rows :
            rows' = [j \in DOMAIN rows \cup {i} |->
                       IF j = i THEN NewRow(thread[t]) ELSE rows[j]]
  /\ thread' = [thread EXCEPT ![t] = Idle]
  /\ UNCHANGED <<now, batch, allowed, sent, failures, overtaken>>

(* What a command asks of the row it has resolved, and the next run it will  *)
(* write: resume computes it from the row it has read.                       *)
Accepts(c, r, when) ==
  CASE c = "resume" -> r.req.kind = "one_time" => r.next > now
    [] c = "update" -> when >= now + MinLead
    [] OTHER        -> TRUE

NextRun(c, r, when) ==
  CASE c = "resume" /\ r.req.kind = "recurring" -> NextOccurrence(now)
    [] c = "resume" /\ r.req.kind = "one_time"  -> r.next
    [] OTHER                                    -> when

(* resolve(): a reference by number finds any row of its user, whatever its  *)
(* status; a reference by text finds some of them.                           *)
Resolve(t) ==
  /\ thread[t] = Idle
  /\ \E c \in Commands \ {"create"}, i \in DOMAIN rows :
       \E when \in IF c = "update" THEN 0 .. MaxTime ELSE {0} :
         /\ Accepts(c, rows[i], when)
         /\ thread' = [thread EXCEPT
              ![t] = [step |-> "resolved", command |-> c, id |-> i,
                      next |-> NextRun(c, rows[i], when)]]
  /\ UNCHANGED <<now, rows, batch, allowed, sent, failures, overtaken>>

Obeyed(r, w) == CASE w.command = "cancel" -> Cancelled(r)
                  [] w.command = "pause"  -> Paused(r)
                  [] w.command = "resume" -> Resumed(r, w.next)
                  [] w.command = "update" -> Moved(r, w.next)

(* update_owned by the command's thread: an unconditional UPDATE of the row. *)
Commit(t) ==
  /\ thread[t].step = "resolved"
  /\ LET i == thread[t].id IN
       /\ rows' = [rows EXCEPT ![i] = Obeyed(@, thread[t])]
       /\ overtaken' = overtaken \cup (Holders(i) \X {i})
  /\ thread' = [thread EXCEPT ![t] = Idle]
  /\ UNCHANGED <<now, batch, allowed, sent, failures>>

UserStep(t) == \/ CreateCount(t)
               \/ CreateDedup(t)
               \/ CreateInsert(t)
               \/ Resolve(t)
               \/ Commit(t)

-----------------------------------------------------------------------------
(* The scheduler.  tick() claims a batch and processes it row by row; it     *)
(* sleeps and ticks again only when the batch is done.                       *)

LeaseAllows_EvenHeld(r) == TRUE
LeaseAllows(r) == r.owner = NoOwner \/ r.until < now

Claimable_EvenInactive(r) ==
  r.status \in {"scheduled", "running"} /\ r.next <= now /\ LeaseAllows(r)
Claimable_OnlyScheduled(r) ==
  r.active /\ r.status = "scheduled" /\ r.next <= now /\ LeaseAllows(r)
Claimable(r) ==
  /\ r.active
  /\ r.status \in {"scheduled", "running"}
  /\ r.next <= now
  /\ LeaseAllows(r)

Due == {i \in DOMAIN rows : Claimable(rows[i])}

(* ORDER BY next_run_at_utc LIMIT ClaimLimit. *)
IsClaim(S) ==
  /\ S \subseteq Due
  /\ S # {}
  /\ Cardinality(S) <= ClaimLimit
  /\ \A i \in Due \ S : /\ Cardinality(S) = ClaimLimit
                        /\ \A j \in S : rows[j].next <= rows[i].next

Claim(p) ==
  /\ batch[p] = {}
  /\ \E S \in SUBSET DOMAIN rows :
       /\ IsClaim(S)
       /\ rows' = [i \in DOMAIN rows |->
                     IF i \in S THEN Claimed(rows[i], p) ELSE rows[i]]
       /\ batch' = [batch EXCEPT
            ![p] = {[id |-> i, next |-> rows[i].next, attempts |-> rows[i].attempts,
                     at |-> now, stage |-> "queued"] : i \in S}]
       /\ overtaken' = (overtaken \cup UNION {Holders(i) \X {i} : i \in S})
                         \ ({p} \X S)
  /\ UNCHANGED <<now, thread, allowed, sent, failures>>

(* The reminder tick() turns to next: one at a time, in the claimed order.   *)
IsHead(p, job) ==
  /\ job \in batch[p]
  /\ \A other \in batch[p] : /\ other.stage = "queued"
                             /\ job.next <= other.next

TooLate(job) ==
  rows[job.id].req.kind = "one_time" /\ job.at > job.next + Grace

(* What the write-back of a job makes of its row, and the job is done with.  *)
(* The UPDATE names the row only by id and user: it does not ask whether the *)
(* row still is what this process claimed.                                   *)
Record(p, job, row) ==
  /\ rows' = [rows EXCEPT ![job.id] = row]
  /\ batch' = [batch EXCEPT ![p] = @ \ {job}]
  /\ overtaken' = (overtaken \cup ((Holders(job.id) \ {p}) \X {job.id}))
                    \ {<<p, job.id>>}
  /\ UNCHANGED <<now, thread, allowed>>

RecordFailure(p, job, error) ==
  /\ Record(p, job, Retried(rows[job.id], job.attempts + 1, job.at, error))
  /\ failures' = [failures EXCEPT ![job.id] = IF @ < MaxAttempts THEN @ + 1 ELSE @]
  /\ UNCHANGED sent

ExpireOverdue(p) ==
  \E job \in batch[p] :
    /\ IsHead(p, job)
    /\ TooLate(job)
    /\ Record(p, job, Expired(rows[job.id]))
    /\ UNCHANGED <<sent, failures>>

(* The access guard of ReminderDelivery.send. *)
Guarded(job) ==
  LET req == rows[job.id].req IN req.user \notin allowed \/ ~ req.private

Block(p) ==
  \E job \in batch[p] :
    /\ IsHead(p, job)
    /\ ~ TooLate(job)
    /\ Guarded(job)
    /\ RecordFailure(p, job, "PermissionError")

Send(p) ==
  \E job \in batch[p] :
    /\ IsHead(p, job)
    /\ ~ TooLate(job)
    /\ ~ Guarded(job)
    /\ batch' = [batch EXCEPT
         ![p] = (@ \ {job}) \cup {[job EXCEPT !.stage = "sending"]}]
    /\ UNCHANGED <<now, rows, thread, allowed, sent, failures, overtaken>>

(* Telegram takes the message; the answer is still on its way. *)
Arrive(p) ==
  \E job \in batch[p] :
    /\ job.stage = "sending"
    /\ batch' = [batch EXCEPT
         ![p] = (@ \ {job}) \cup {[job EXCEPT !.stage = "delivered"]}]
    /\ sent' = sent \cup {job.id}
    /\ UNCHANGED <<now, rows, thread, allowed, failures, overtaken>>

(* send_message raises: the message did not arrive, or its answer did not.   *)
Fail(p) ==
  \E job \in batch[p] : /\ job.stage \in {"sending", "delivered"}
                        /\ RecordFailure(p, job, "TelegramError")

Confirm_BeforeAnswer(p) ==
  \E job \in batch[p] : /\ job.stage \in {"sending", "delivered"}
                        /\ Record(p, job, Delivered(rows[job.id], job.at))
                        /\ UNCHANGED <<sent, failures>>

Confirm(p) ==
  \E job \in batch[p] : /\ job.stage = "delivered"
                        /\ Record(p, job, Delivered(rows[job.id], job.at))
                        /\ UNCHANGED <<sent, failures>>

(* The write-back raises (a locked or full database): tick() logs it and     *)
(* goes on; the row keeps its lease.                                         *)
Abort(p) ==
  /\ now <= FaultsUntil
  /\ \E job \in batch[p] :
       /\ \/ job.stage # "queued"
          \/ IsHead(p, job) /\ (TooLate(job) \/ Guarded(job))
       /\ batch' = [batch EXCEPT ![p] = @ \ {job}]
       /\ overtaken' = overtaken \ {<<p, job.id>>}
  /\ UNCHANGED <<now, rows, thread, allowed, sent, failures>>

(* The process stops or dies, with its threads; another start of it finds    *)
(* the table as it is, and no memory of the batch.                           *)
Crash(p) ==
  /\ now <= FaultsUntil
  /\ batch[p] # {} \/ \E t \in Threads : Host[t] = p /\ thread[t] # Idle
  /\ batch' = [batch EXCEPT ![p] = {}]
  /\ thread' = [t \in Threads |-> IF Host[t] = p THEN Idle ELSE thread[t]]
  /\ overtaken' = overtaken \ ({p} \X Ids)
  /\ UNCHANGED <<now, rows, allowed, sent, failures>>

SchedulerStep(p) == \/ Claim(p)
                    \/ ExpireOverdue(p)
                    \/ Block(p)
                    \/ Send(p)
                    \/ Arrive(p)
                    \/ Fail(p)
                    \/ Confirm(p)

-----------------------------------------------------------------------------
(* The owner enables or disables a family user (the access component); the   *)
(* owners themselves stay in the allowlist.                                  *)
SetAccess(u) ==
  /\ allowed' = IF u \in allowed THEN allowed \ {u} ELSE allowed \cup {u}
  /\ UNCHANGED <<now, rows, batch, thread, sent, failures, overtaken>>

Tick ==
  /\ now < MaxTime
  /\ now' = now + 1
  /\ UNCHANGED <<rows, batch, thread, allowed, sent, failures, overtaken>>

Next == \/ \E t \in Threads : UserStep(t)
        \/ \E p \in Processes : SchedulerStep(p) \/ Abort(p) \/ Crash(p)
        \/ \E u \in Family : SetAccess(u)
        \/ Tick

Spec == Init /\ [][Next]_vars

(* A scheduler keeps ticking and finishes each send, and time passes; nobody *)
(* promises that users act, or that faults happen or do not.                 *)
FairSpec == Spec /\ WF_vars(Tick) /\ \A p \in Processes : WF_vars(SchedulerStep(p))

-----------------------------------------------------------------------------
(* Properties.                                                               *)

IntactClaim(p, job) ==
  LET r == rows[job.id] IN
    /\ r.active
    /\ r.status = "running"
    /\ r.owner = p
    /\ r.until = job.at + Lease
    /\ r.next = job.next
    /\ r.attempts = job.attempts

(* A snapshot taken by claim_due is not stale: until somebody else writes the *)
(* row, it is exactly what the claim has left there, lease and all, however  *)
(* long tick() takes to reach it and whatever happens to the rest of the     *)
(* batch (storage.claim_due, scheduler.tick).                                *)
ClaimIntact ==
  \A p \in Processes : \A job \in batch[p] :
    <<p, job.id>> \notin overtaken => IntactClaim(p, job)

(* The lease keeps a second scheduler away: while the holder's claim is      *)
(* intact, another process takes the row only once the lease has run out     *)
(* (storage.claim_due's lease condition).                                    *)
TakesExpiredOnly ==
  \A p \in Processes : \A job \in batch[p] :
    ( /\ <<p, job.id>> \notin overtaken
      /\ rows'[job.id].owner \notin {p, NoOwner} )
    => job.at + Lease < now

NoPrematureTakeover == [][TakesExpiredOnly]_vars

(* Nothing is stranded by a scheduler that dies: a row that says "running"   *)
(* is active, due and leased, and no lease reaches further than Lease from   *)
(* now, so whatever becomes of its holder the row is claimable again within  *)
(* Lease + 1 - although user commands rewrite status, time and lease of a    *)
(* claimed row independently of each other (storage.claim_due,               *)
(* service.pause, resume, update_time).                                      *)
ClaimsRunOut ==
  \A i \in DOMAIN rows :
    LET r == rows[i] IN
      /\ r.owner # NoOwner => r.until <= now + Lease
      /\ r.status = "running" => r.active /\ r.owner # NoOwner /\ r.next <= now

(* A reminder is called completed only if its message did reach the user:    *)
(* neither a lost answer, nor an overtaken claim, nor a restart completes    *)
(* one that was never sent (scheduler._process).                             *)
CompletedWasSent ==
  \A i \in DOMAIN rows : rows[i].status = "completed" => i \in sent

(* A reminder fails for its delivery errors only after MaxAttempts of them,  *)
(* although each attempt counts from a snapshot that may be out of date      *)
(* (scheduler._retry).                                                       *)
FailedWasRetried ==
  \A i \in DOMAIN rows :
    rows[i].status = "failed" /\ rows[i].error # "OVERDUE_EXPIRED"
      => failures[i] = MaxAttempts

(* What the safety properties rest on: every batch names a row at most once; *)
(* an attempt count never exceeds the failures there were; and a job is past *)
(* its send only if its message arrived.  TLC checks the conjunction below,  *)
(* and it is the invariant the proofs carry through every step.              *)
JobsHaveRows == \A p \in Processes : \A job \in batch[p] : job.id \in DOMAIN rows

CommandsHaveRows ==
  \A t \in Threads : thread[t].step = "resolved" => thread[t].id \in DOMAIN rows

OneJobPerRow ==
  \A p \in Processes : \A j, k \in batch[p] : j.id = k.id => j = k

AttemptsCounted ==
  /\ \A i \in DOMAIN rows : rows[i].attempts <= failures[i]
  /\ \A p \in Processes : \A job \in batch[p] : job.attempts <= failures[job.id]

DeliveredWasSent ==
  \A p \in Processes : \A job \in batch[p] : job.stage = "delivered" => job.id \in sent

IInv == /\ TypeOK
        /\ JobsHaveRows
        /\ CommandsHaveRows
        /\ OneJobPerRow
        /\ ClaimIntact
        /\ DeliveredWasSent
        /\ CompletedWasSent
        /\ AttemptsCounted
        /\ FailedWasRetried

(* The subsystem keeps the promise of ReminderLifecycle: a row is over once  *)
(* is_active is 0, and a process has undertaken what its batch holds.        *)
Phase == [i \in Ids |-> IF i \notin DOMAIN rows THEN "none"
                       ELSE IF rows[i].active THEN "live" ELSE "over"]

Undertaken == [i \in Ids |-> Holders(i)]

Lifecycle == INSTANCE ReminderLifecycle WITH
  phase <- Phase, undertaken <- Undertaken, told <- sent

LifecycleKept == Lifecycle!Spec

(* A due reminder does not stay due: it is delivered, retried later, failed, *)
(* or withdrawn by its user, even if the process dies with the row claimed   *)
(* (claim_due takes a running row whose lease has run out).                  *)
IsDue(i) ==
  /\ i \in DOMAIN rows
  /\ rows[i].active
  /\ rows[i].status \in {"scheduled", "running"}
  /\ rows[i].next <= now

DueIsServed == \A i \in Ids : IsDue(i) ~> ~ IsDue(i)

(* The limit check and the INSERT are two transactions, so the limit may be  *)
(* passed, but by no more than the other threads that were under way         *)
(* (service.create).                                                         *)
LimitOvershootBounded ==
  \A u \in Users : Cardinality(ActiveIds(u)) <= MaxActive + Cardinality(Threads) - 1

(* Where no reminder is moved (update_time looks for no duplicates), two      *)
(* active rows with one deduplication key, made within the window, come only  *)
(* from creations that raced: never more of them than threads                *)
(* (service._find_dedup).                                                    *)
DuplicatesBounded ==
  \A i \in DOMAIN rows :
    Cardinality({j \in DOMAIN rows :
      /\ rows[i].active /\ rows[j].active
      /\ DedupKey(rows[j].req, rows[j].sched) = DedupKey(rows[i].req, rows[i].sched)
      /\ rows[j].created \in rows[i].created .. rows[i].created + DedupWindow})
    <= Cardinality(Threads)

(* One Telegram message makes one reminder, although both threads that       *)
(* handle it may have passed every check before either inserts               *)
(* (idx_reminders_source_unique).                                            *)
OneRowPerMessage ==
  \A i, j \in DOMAIN rows :
    /\ rows[i].req.source # NoSource
    /\ rows[i].req.user = rows[j].req.user
    /\ rows[i].req.private = rows[j].req.private
    /\ rows[i].req.source = rows[j].req.source
    => i = j
=============================================================================
