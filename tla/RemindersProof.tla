---------------------------- MODULE RemindersProof ----------------------------
(***************************************************************************)
(* Proofs about Reminders, for every set of processes, threads, users and  *)
(* rows, and every setting of the times and limits.                        *)
(***************************************************************************)
EXTENDS Reminders, FiniteSetTheorems, TLAPS

-------------------------------------------------------------------------------
(* What the UPDATEs make of a row. *)

LEMMA NextOccurrenceType == ASSUME NEW t \in Nat PROVE NextOccurrence(t) \in Nat
  BY TimingAssumption DEF NextOccurrence

LEMMA LeaseFreeType == ASSUME NEW r \in Row PROVE LeaseFree(r) \in Row
  BY DEF LeaseFree, Row

LEMMA DeliveredType ==
  ASSUME NEW r \in Row, NEW at \in Nat
  PROVE  Delivered(r, at) \in Row
<1> DEFINE free == LeaseFree(r)
<1>1. free \in Row
  BY LeaseFreeType
<1>2. NextOccurrence(at) \in Nat
  BY NextOccurrenceType
<1>3. 0 \in 0 .. MaxAttempts - 1
  BY TimingAssumption
<1> HIDE DEF free
<1>4. [free EXCEPT !.status = "completed", !.active = FALSE, !.error = "none"] \in Row
  BY <1>1 DEF Row, Statuses, Errors
<1>5. [free EXCEPT !.status = "scheduled", !.error = "none",
                   !.next = NextOccurrence(at), !.attempts = 0] \in Row
  BY <1>1, <1>2, <1>3 DEF Row, Statuses, Errors
<1>6. QED BY <1>4, <1>5 DEF Delivered, free

LEMMA RetriedType ==
  ASSUME NEW r \in Row, NEW k \in 1 .. MaxAttempts, NEW at \in Nat, NEW e \in Errors
  PROVE  Retried(r, k, at, e) \in Row
<1> DEFINE free == [LeaseFree(r) EXCEPT !.error = e]
<1>1. free \in Row
  BY LeaseFreeType DEF Row
<1>2. NextOccurrence(at) \in Nat
  BY NextOccurrenceType
<1>3. RetryDelay[k] \in Nat
  BY TimingAssumption
<1>4. at + RetryDelay[k] \in Nat
  BY <1>3
<1>5. 0 \in 0 .. MaxAttempts - 1 /\ (~ GivesUp(k) => k \in 0 .. MaxAttempts - 1)
  BY TimingAssumption DEF GivesUp
<1> HIDE DEF free
<1>6. [free EXCEPT !.status = "failed", !.active = FALSE] \in Row
  BY <1>1 DEF Row, Statuses
<1>7. [free EXCEPT !.status = "scheduled", !.attempts = 0,
                   !.next = NextOccurrence(at)] \in Row
  BY <1>1, <1>2, <1>5 DEF Row, Statuses
<1>8. ~ GivesUp(k) => [free EXCEPT !.status = "scheduled", !.attempts = k,
                                   !.next = at + RetryDelay[k]] \in Row
  BY <1>1, <1>4, <1>5 DEF Row, Statuses
<1>9. QED BY <1>6, <1>7, <1>8 DEF Retried, free

LEMMA ClaimedType ==
  ASSUME NEW r \in Row, NEW p \in Processes, now \in Nat
  PROVE  Claimed(r, p) \in Row
<1>1. now + Lease \in Nat
  BY TimingAssumption
<1>2. QED BY <1>1 DEF Claimed, Row, Statuses

LEMMA ExpiredType == ASSUME NEW r \in Row PROVE Expired(r) \in Row
  BY LeaseFreeType DEF Expired, Row, Statuses, Errors

LEMMA ObeyedType ==
  ASSUME NEW r \in Row,
         NEW w \in [step : {"resolved"}, command : Commands \ {"create"},
                    id : Ids, next : Nat]
  PROVE  Obeyed(r, w) \in Row
<1>1. w.command \in {"cancel", "pause", "resume", "update"} /\ w.next \in Nat
  BY CommandAssumption
<1>2. Cancelled(r) \in Row /\ Paused(r) \in Row
  BY LeaseFreeType DEF Cancelled, Paused, Row, Statuses
<1>3. Resumed(r, w.next) \in Row /\ Moved(r, w.next) \in Row
  BY <1>1 DEF Resumed, Moved, Row, Statuses
<1>4. QED BY <1>1, <1>2, <1>3 DEF Obeyed

LEMMA NewRowType ==
  ASSUME NEW w \in [step : {"counted", "fresh"}, req : Requests, when : Nat, at : Nat],
         now \in Nat
  PROVE  NewRow(w) \in Row
  BY TimingAssumption DEF NewRow, Row, Statuses, Errors

-------------------------------------------------------------------------------
(* The shape of the state: the types, and that whatever a batch or a command *)
(* names by id is a row of the table (no operation deletes a row).           *)
Shape == TypeOK /\ JobsHaveRows /\ CommandsHaveRows

LEMMA ShapeInit == Init => Shape
  BY TimingAssumption
  DEF Init, Shape, TypeOK, JobsHaveRows, CommandsHaveRows, Work, Idle

(* A write-back keeps the shape, whatever row it writes. *)
LEMMA RecordShape ==
  ASSUME Shape, NEW p \in Processes, NEW job \in batch[p], NEW row \in Row,
         Record(p, job, row)
  PROVE  /\ now' \in Nat
         /\ DOMAIN rows' = DOMAIN rows
         /\ rows' \in [DOMAIN rows' -> Row]
         /\ batch' \in [Processes -> SUBSET Job]
         /\ overtaken' \subseteq Processes \X Ids
         /\ JobsHaveRows'
         /\ CommandsHaveRows'
<1> USE DEF Shape, TypeOK, Record
<1>1. job \in Job /\ job.id \in DOMAIN rows /\ job.id \in Ids
  BY DEF JobsHaveRows, Job
<1>2. DOMAIN rows' = DOMAIN rows /\ rows' \in [DOMAIN rows' -> Row]
  BY <1>1
<1>3. batch' \in [Processes -> SUBSET Job]
  OBVIOUS
<1>4. overtaken' \subseteq Processes \X Ids
  BY <1>1 DEF Holders
<1>5. JobsHaveRows'
  BY <1>2 DEF JobsHaveRows
<1>6. CommandsHaveRows'
  BY <1>2 DEF CommandsHaveRows
<1>7. QED BY <1>2, <1>3, <1>4, <1>5, <1>6

LEMMA ShapeNext == Shape /\ [Next]_vars => Shape'
<1> SUFFICES ASSUME Shape, [Next]_vars PROVE Shape'
  OBVIOUS
<1> USE DEF Shape, TypeOK
<1>1. ASSUME NEW t \in Threads, CreateCount(t) PROVE Shape'
  <2>1. PICK q \in Requests, when \in (now + MinLead) .. MaxTime :
          thread' = [thread EXCEPT
            ![t] = [step |-> "counted", req |-> q, when |-> when, at |-> now]]
    BY <1>1 DEF CreateCount
  <2>2. when \in Nat
    BY TimingAssumption
  <2>3. [step |-> "counted", req |-> q, when |-> when, at |-> now] \in Work
    BY <2>2 DEF Work
  <2>4. thread' \in [Threads -> Work]
    BY <2>1, <2>3
  <2>5. CommandsHaveRows'
    BY <1>1, <2>1 DEF CreateCount, CommandsHaveRows
  <2>6. QED BY <1>1, <2>4, <2>5 DEF CreateCount, JobsHaveRows
<1>2. ASSUME NEW t \in Threads, CreateDedup(t) PROVE Shape'
  <2>1. thread[t] \in [step : {"counted", "fresh"}, req : Requests, when : Nat, at : Nat]
    BY <1>2 DEF CreateDedup, Work, Idle
  <2>2. /\ Idle \in Work
        /\ [thread[t] EXCEPT !.step = "fresh"] \in Work
    BY <2>1 DEF Work
  <2>3. /\ thread' \in [Threads -> Work]
        /\ CommandsHaveRows'
    BY <1>2, <2>1, <2>2 DEF CreateDedup, CommandsHaveRows, Idle
  <2>4. QED BY <1>2, <2>3 DEF CreateDedup, JobsHaveRows
<1>3. ASSUME NEW t \in Threads, CreateInsert(t) PROVE Shape'
  <2>1. thread[t] \in [step : {"counted", "fresh"}, req : Requests, when : Nat, at : Nat]
    BY <1>3 DEF CreateInsert, Work, Idle
  <2>2. NewRow(thread[t]) \in Row
    BY <2>1, NewRowType
  <2>3. /\ DOMAIN rows \subseteq DOMAIN rows'
        /\ DOMAIN rows' \subseteq Ids
        /\ rows' \in [DOMAIN rows' -> Row]
    BY <1>3, <2>2 DEF CreateInsert
  <2>4. /\ thread' \in [Threads -> Work]
        /\ CommandsHaveRows'
    BY <1>3, <2>3 DEF CreateInsert, CommandsHaveRows, Idle, Work
  <2>5. QED BY <1>3, <2>3, <2>4 DEF CreateInsert, JobsHaveRows
<1>4. ASSUME NEW t \in Threads, Resolve(t) PROVE Shape'
  <2>1. PICK c \in Commands \ {"create"}, i \in DOMAIN rows :
          \E when \in IF c = "update" THEN 0 .. MaxTime ELSE {0} :
            /\ Accepts(c, rows[i], when)
            /\ thread' = [thread EXCEPT
                 ![t] = [step |-> "resolved", command |-> c, id |-> i,
                         next |-> NextRun(c, rows[i], when)]]
    BY <1>4 DEF Resolve
  <2>5. PICK when \in IF c = "update" THEN 0 .. MaxTime ELSE {0} :
          thread' = [thread EXCEPT
            ![t] = [step |-> "resolved", command |-> c, id |-> i,
                    next |-> NextRun(c, rows[i], when)]]
    BY <2>1
  <2>6. when \in Nat
    BY TimingAssumption
  <2>2. NextRun(c, rows[i], when) \in Nat
    BY <2>6, NextOccurrenceType, TimingAssumption DEF NextRun, Row
  <2>3. /\ thread' \in [Threads -> Work]
        /\ CommandsHaveRows'
    BY <1>4, <2>2, <2>5 DEF Resolve, Work, CommandsHaveRows
  <2>4. QED BY <1>4, <2>3 DEF Resolve, JobsHaveRows
<1>5. ASSUME NEW t \in Threads, Commit(t) PROVE Shape'
  <2>1. /\ thread[t] \in [step : {"resolved"}, command : Commands \ {"create"},
                          id : Ids, next : Nat]
        /\ thread[t].id \in DOMAIN rows
    BY <1>5 DEF Commit, Work, Idle, CommandsHaveRows
  <2>2. /\ DOMAIN rows' = DOMAIN rows
        /\ rows' \in [DOMAIN rows' -> Row]
    BY <1>5, <2>1, ObeyedType DEF Commit
  <2>3. /\ thread' \in [Threads -> Work]
        /\ CommandsHaveRows'
    BY <1>5, <2>2 DEF Commit, Work, Idle, CommandsHaveRows
  <2>4. overtaken' \subseteq Processes \X Ids
    BY <1>5, <2>1 DEF Commit, Holders
  <2>5. QED BY <1>5, <2>2, <2>3, <2>4 DEF Commit, JobsHaveRows
<1>6. ASSUME NEW p \in Processes, Claim(p) PROVE Shape'
  <2>1. PICK S \in SUBSET DOMAIN rows :
          /\ rows' = [i \in DOMAIN rows |->
                       IF i \in S THEN Claimed(rows[i], p) ELSE rows[i]]
          /\ batch' = [batch EXCEPT
               ![p] = {[id |-> i, next |-> rows[i].next, attempts |-> rows[i].attempts,
                        at |-> now, stage |-> "queued"] : i \in S}]
          /\ overtaken' = (overtaken \cup UNION {Holders(i) \X {i} : i \in S})
                            \ ({p} \X S)
    BY <1>6 DEF Claim
  <2>2. rows' \in [DOMAIN rows' -> Row] /\ DOMAIN rows' = DOMAIN rows
    BY <2>1, ClaimedType
  <2>3. \A i \in S : [id |-> i, next |-> rows[i].next, attempts |-> rows[i].attempts,
                      at |-> now, stage |-> "queued"] \in Job
    BY DEF Job, Row
  <2>4. batch' \in [Processes -> SUBSET Job] /\ JobsHaveRows'
    BY <2>1, <2>2, <2>3 DEF JobsHaveRows
  <2>5. overtaken' \subseteq Processes \X Ids
    BY <2>1 DEF Holders
  <2>6. QED BY <1>6, <2>2, <2>4, <2>5 DEF Claim, CommandsHaveRows
<1>7. ASSUME NEW p \in Processes, NEW job \in batch[p], NEW e \in Errors,
             RecordFailure(p, job, e)
      PROVE  Shape'
  <2>1. job \in Job /\ job.id \in DOMAIN rows
    BY DEF JobsHaveRows
  <2>2. job.attempts + 1 \in 1 .. MaxAttempts /\ job.at \in Nat
    BY <2>1, TimingAssumption DEF Job
  <2>3. Retried(rows[job.id], job.attempts + 1, job.at, e) \in Row
    BY <2>1, <2>2, RetriedType
  <2>4. failures' \in [Ids -> 0 .. MaxAttempts]
    <3>1. failures[job.id] \in 0 .. MaxAttempts
      BY <2>1 DEF Job
    <3>2. (IF failures[job.id] < MaxAttempts THEN failures[job.id] + 1
           ELSE failures[job.id]) \in 0 .. MaxAttempts
      BY <3>1, TimingAssumption
    <3>3. QED BY <1>7, <3>2 DEF RecordFailure
  <2>5. QED BY <1>7, <2>3, <2>4, RecordShape DEF RecordFailure, Record
<1>8. ASSUME NEW p \in Processes, ExpireOverdue(p) PROVE Shape'
  <2>1. PICK job \in batch[p] : /\ Record(p, job, Expired(rows[job.id]))
                                /\ UNCHANGED <<sent, failures>>
    BY <1>8 DEF ExpireOverdue
  <2>2. Expired(rows[job.id]) \in Row
    BY ExpiredType DEF JobsHaveRows
  <2>3. QED BY <2>1, <2>2, RecordShape DEF Record
<1>9. ASSUME NEW p \in Processes, Block(p) PROVE Shape'
  BY <1>7, <1>9 DEF Block, Errors
<1>10. ASSUME NEW p \in Processes, Send(p) PROVE Shape'
  <2>1. PICK job \in batch[p] : batch' = [batch EXCEPT
          ![p] = (@ \ {job}) \cup {[job EXCEPT !.stage = "sending"]}]
    BY <1>10 DEF Send
  <2>2. [job EXCEPT !.stage = "sending"] \in Job
    BY DEF Job
  <2>3. batch' \in [Processes -> SUBSET Job]
    BY <2>1, <2>2
  <2>4. [job EXCEPT !.stage = "sending"].id = job.id
    BY DEF Job
  <2>5. JobsHaveRows'
    BY <1>10, <2>1, <2>4 DEF Send, JobsHaveRows
  <2>6. QED BY <1>10, <2>3, <2>5 DEF Send, CommandsHaveRows
<1>11. ASSUME NEW p \in Processes, Arrive(p) PROVE Shape'
  <2>1. PICK job \in batch[p] :
          /\ batch' = [batch EXCEPT
               ![p] = (@ \ {job}) \cup {[job EXCEPT !.stage = "delivered"]}]
          /\ sent' = sent \cup {job.id}
    BY <1>11 DEF Arrive
  <2>2. [job EXCEPT !.stage = "delivered"] \in Job /\ job.id \in Ids
    BY DEF Job
  <2>3. batch' \in [Processes -> SUBSET Job] /\ sent' \subseteq Ids
    BY <2>1, <2>2
  <2>4. [job EXCEPT !.stage = "delivered"].id = job.id
    BY DEF Job
  <2>5. JobsHaveRows'
    BY <1>11, <2>1, <2>4 DEF Arrive, JobsHaveRows
  <2>6. QED BY <1>11, <2>3, <2>5 DEF Arrive, CommandsHaveRows
<1>12. ASSUME NEW p \in Processes, Fail(p) PROVE Shape'
  BY <1>7, <1>12 DEF Fail, Errors
<1>13. ASSUME NEW p \in Processes, Confirm(p) PROVE Shape'
  <2>1. PICK job \in batch[p] : /\ Record(p, job, Delivered(rows[job.id], job.at))
                                /\ UNCHANGED <<sent, failures>>
    BY <1>13 DEF Confirm
  <2>2. job.at \in Nat /\ rows[job.id] \in Row
    BY DEF JobsHaveRows, Job
  <2>3. Delivered(rows[job.id], job.at) \in Row
    BY <2>2, DeliveredType
  <2>4. QED BY <2>1, <2>3, RecordShape DEF Record
<1>14. ASSUME NEW p \in Processes, Abort(p) PROVE Shape'
  BY <1>14 DEF Abort, JobsHaveRows, CommandsHaveRows
<1>15. ASSUME NEW p \in Processes, Crash(p) PROVE Shape'
  BY <1>15 DEF Crash, JobsHaveRows, CommandsHaveRows, Work, Idle
<1>16. ASSUME NEW u \in Family, SetAccess(u) PROVE Shape'
  BY <1>16, ProcessAssumption DEF SetAccess, JobsHaveRows, CommandsHaveRows
<1>17. CASE Tick
  BY <1>17 DEF Tick, JobsHaveRows, CommandsHaveRows
<1>18. CASE UNCHANGED vars
  BY <1>18 DEF vars, JobsHaveRows, CommandsHaveRows
<1>19. QED
  BY <1>1, <1>2, <1>3, <1>4, <1>5, <1>6, <1>8, <1>9, <1>10, <1>11, <1>12, <1>13,
     <1>14, <1>15, <1>16, <1>17, <1>18
  DEF Next, UserStep, SchedulerStep

LEMMA ShapeAlways == Spec => []Shape
  BY ShapeInit, ShapeNext, PTL DEF Spec

(* The state always has the types TypeOK gives it. *)
THEOREM TypeCorrect == Spec => []TypeOK
<1>1. Shape => TypeOK
  BY DEF Shape
<1>2. QED BY <1>1, ShapeAlways, PTL

-------------------------------------------------------------------------------
(* Claims: no process has two jobs for one row, and a claim nobody has        *)
(* overtaken is what the row says.                                           *)
Claims == OneJobPerRow /\ ClaimIntact

LEMMA ClaimedSays ==
  ASSUME NEW r \in Row, NEW p
  PROVE  /\ Claimed(r, p).active = r.active /\ Claimed(r, p).status = "running"
         /\ Claimed(r, p).owner = p /\ Claimed(r, p).until = now + Lease
         /\ Claimed(r, p).next = r.next /\ Claimed(r, p).attempts = r.attempts
  BY DEF Claimed, Row

LEMMA ClaimsInit == Init => Claims
  BY DEF Init, Claims, OneJobPerRow, ClaimIntact

(* A write-back leaves its own process's other claims alone and overtakes    *)
(* the claims that other processes have on the row.                          *)
LEMMA RecordClaims ==
  ASSUME Shape, Claims, NEW p \in Processes, NEW job \in batch[p], NEW row,
         Record(p, job, row)
  PROVE  Claims'
<1> USE DEF Shape, TypeOK, Record
<1>1. /\ batch' = [batch EXCEPT ![p] = batch[p] \ {job}]
      /\ rows' = [rows EXCEPT ![job.id] = row]
      /\ job.id \in DOMAIN rows
  BY DEF JobsHaveRows
<1>2. OneJobPerRow'
  BY <1>1 DEF Claims, OneJobPerRow
<1>3. ASSUME NEW q \in Processes, NEW k \in batch'[q], <<q, k.id>> \notin overtaken'
      PROVE  IntactClaim(q, k)'
  <2>1. k \in batch[q] /\ k.id \in DOMAIN rows
    BY <1>1 DEF JobsHaveRows
  <2>2. k.id # job.id
    <3>1. CASE q = p
      BY <1>1, <2>1, <3>1 DEF Claims, OneJobPerRow
    <3>2. CASE q # p
      BY <1>3, <2>1, <3>2 DEF Holders
    <3>3. QED BY <3>1, <3>2
  <2>3. <<q, k.id>> \notin overtaken
    BY <1>3, <2>2
  <2>4. IntactClaim(q, k) /\ rows'[k.id] = rows[k.id]
    BY <1>1, <2>1, <2>2, <2>3 DEF Claims, ClaimIntact
  <2>5. QED BY <2>4 DEF IntactClaim
<1>4. QED BY <1>2, <1>3 DEF Claims, ClaimIntact

LEMMA ClaimsNext == Shape /\ Claims /\ [Next]_vars => Claims'
<1> SUFFICES ASSUME Shape, Claims, [Next]_vars PROVE Claims'
  OBVIOUS
<1> USE DEF Shape, TypeOK
<1>1. ASSUME UNCHANGED <<batch, overtaken>>,
             \A i \in DOMAIN rows : rows'[i] = rows[i]
      PROVE  Claims'
  BY <1>1 DEF Claims, OneJobPerRow, ClaimIntact, IntactClaim, JobsHaveRows
<1>2. ASSUME NEW t \in Threads, CreateCount(t) \/ CreateDedup(t) \/ Resolve(t)
      PROVE  Claims'
  BY <1>1, <1>2 DEF CreateCount, CreateDedup, Resolve
<1>3. ASSUME NEW t \in Threads, CreateInsert(t) PROVE Claims'
  BY <1>1, <1>3 DEF CreateInsert
<1>4. ASSUME NEW t \in Threads, Commit(t) PROVE Claims'
  <2>1. OneJobPerRow'
    BY <1>4 DEF Commit, Claims, OneJobPerRow
  <2>2. ASSUME NEW q \in Processes, NEW k \in batch'[q], <<q, k.id>> \notin overtaken'
        PROVE  IntactClaim(q, k)'
    <3>1. k \in batch[q] /\ k.id \in DOMAIN rows
      BY <1>4 DEF Commit, JobsHaveRows
    <3>2. k.id # thread[t].id /\ <<q, k.id>> \notin overtaken
      BY <1>4, <2>2, <3>1 DEF Commit, Holders
    <3>3. IntactClaim(q, k) /\ rows'[k.id] = rows[k.id]
      BY <1>4, <3>1, <3>2 DEF Commit, Claims, ClaimIntact
    <3>4. QED BY <3>3 DEF IntactClaim
  <2>3. QED BY <2>1, <2>2 DEF Claims, ClaimIntact
<1>5. ASSUME NEW p \in Processes, Claim(p) PROVE Claims'
  <2>1. PICK S \in SUBSET DOMAIN rows :
          /\ IsClaim(S)
          /\ rows' = [i \in DOMAIN rows |->
                       IF i \in S THEN Claimed(rows[i], p) ELSE rows[i]]
          /\ batch' = [batch EXCEPT
               ![p] = {[id |-> i, next |-> rows[i].next, attempts |-> rows[i].attempts,
                        at |-> now, stage |-> "queued"] : i \in S}]
          /\ overtaken' = (overtaken \cup UNION {Holders(i) \X {i} : i \in S})
                            \ ({p} \X S)
    BY <1>5 DEF Claim
  <2>2. OneJobPerRow'
    BY <2>1 DEF Claims, OneJobPerRow
  <2>3. ASSUME NEW k \in batch'[p] PROVE IntactClaim(p, k)'
    <3>1. PICK i \in S :
            k = [id |-> i, next |-> rows[i].next, attempts |-> rows[i].attempts,
                 at |-> now, stage |-> "queued"]
      BY <2>1, <2>3
    <3>2. rows[i] \in Row /\ rows[i].active
      BY <2>1 DEF IsClaim, Due, Claimable
    <3>3. rows'[i] = Claimed(rows[i], p)
      BY <2>1
    <3>4. /\ rows'[i].active = rows[i].active
          /\ rows'[i].status = "running"
          /\ rows'[i].owner = p
          /\ rows'[i].until = now + Lease
          /\ rows'[i].next = rows[i].next
          /\ rows'[i].attempts = rows[i].attempts
      <4> HIDE DEF Shape, TypeOK
      <4>1. Claimed(rows[i], p).active = rows[i].active /\ Claimed(rows[i], p).status = "running"
            /\ Claimed(rows[i], p).owner = p /\ Claimed(rows[i], p).until = now + Lease
            /\ Claimed(rows[i], p).next = rows[i].next
            /\ Claimed(rows[i], p).attempts = rows[i].attempts
        BY <3>2, ClaimedSays
      <4>2. QED BY <3>3, <4>1, Zenon
    <3>5. /\ k.id = i
          /\ k.at = now
          /\ k.next = rows[i].next
          /\ k.attempts = rows[i].attempts
      BY <3>1
    <3>6. QED BY <3>2, <3>4, <3>5 DEF IntactClaim
  <2>4. ASSUME NEW q \in Processes \ {p}, NEW k \in batch'[q],
               <<q, k.id>> \notin overtaken'
        PROVE  IntactClaim(q, k)'
    <3>1. k \in batch[q] /\ k.id \in DOMAIN rows
      BY <2>1 DEF JobsHaveRows
    <3>2. k.id \notin S
      <4>1. SUFFICES ASSUME k.id \in S PROVE FALSE
        OBVIOUS
      <4>2. <<q, k.id>> \in Holders(k.id) \X {k.id}
        BY <3>1 DEF Holders
      <4>3. QED BY <2>1, <2>4, <4>1, <4>2
    <3>3. <<q, k.id>> \notin overtaken
      BY <2>1, <2>4
    <3>4. IntactClaim(q, k) /\ rows'[k.id] = rows[k.id]
      BY <2>1, <3>1, <3>2, <3>3 DEF Claims, ClaimIntact
    <3>5. QED BY <3>4 DEF IntactClaim
  <2>5. QED BY <2>2, <2>3, <2>4 DEF Claims, ClaimIntact
<1>6. ASSUME NEW p \in Processes,
             ExpireOverdue(p) \/ Block(p) \/ Fail(p) \/ Confirm(p)
      PROVE  Claims'
  BY <1>6, RecordClaims DEF ExpireOverdue, Block, Fail, Confirm, RecordFailure
<1>7. ASSUME NEW p \in Processes, NEW job \in batch[p], NEW stage,
             batch' = [batch EXCEPT
               ![p] = (@ \ {job}) \cup {[job EXCEPT !.stage = stage]}],
             UNCHANGED <<rows, overtaken>>
      PROVE  Claims'
  <2> DEFINE new == [job EXCEPT !.stage = stage]
  <2>1. /\ new.id = job.id
        /\ IntactClaim(p, new) <=> IntactClaim(p, job)
    BY DEF Job, IntactClaim
  <2>0. batch' = [batch EXCEPT ![p] = (batch[p] \ {job}) \cup {new}]
    BY <1>7
  <2> HIDE DEF new
  <2>2. OneJobPerRow'
    <3>1. \A j \in batch[p] : j.id = job.id => j = job
      BY DEF Claims, OneJobPerRow
    <3>2. \A j, k \in batch'[p] : j.id = k.id => j = k
      BY <2>0, <2>1, <3>1 DEF Claims, OneJobPerRow
    <3>3. QED BY <2>0, <3>2 DEF Claims, OneJobPerRow
  <2>3. ASSUME NEW q \in Processes, NEW k \in batch'[q], <<q, k.id>> \notin overtaken'
        PROVE  IntactClaim(q, k)
    BY <1>7, <2>0, <2>1, <2>3 DEF Claims, ClaimIntact
  <2>4. QED BY <1>7, <2>2, <2>3 DEF Claims, ClaimIntact, IntactClaim
<1>8. ASSUME NEW p \in Processes, Send(p) \/ Arrive(p) PROVE Claims'
  BY <1>7, <1>8 DEF Send, Arrive
<1>9. ASSUME NEW p \in Processes, Abort(p) PROVE Claims'
  <2>1. PICK job \in batch[p] :
          /\ batch' = [batch EXCEPT ![p] = batch[p] \ {job}]
          /\ overtaken' = overtaken \ {<<p, job.id>>}
          /\ rows' = rows
    BY <1>9 DEF Abort
  <2>2. OneJobPerRow'
    BY <2>1 DEF Claims, OneJobPerRow
  <2>3. ASSUME NEW q \in Processes, NEW k \in batch'[q], <<q, k.id>> \notin overtaken'
        PROVE  IntactClaim(q, k)
    <3>1. k \in batch[q] /\ <<q, k.id>> # <<p, job.id>>
      BY <2>1 DEF Claims, OneJobPerRow
    <3>2. QED BY <2>1, <2>3, <3>1 DEF Claims, ClaimIntact
  <2>4. QED BY <2>1, <2>2, <2>3 DEF Claims, ClaimIntact, IntactClaim
<1>10. ASSUME NEW p \in Processes, Crash(p) PROVE Claims'
  <2>1. /\ batch' = [batch EXCEPT ![p] = {}]
        /\ overtaken' = overtaken \ ({p} \X Ids)
        /\ rows' = rows
    BY <1>10 DEF Crash
  <2>2. OneJobPerRow'
    BY <2>1 DEF Claims, OneJobPerRow
  <2>3. ASSUME NEW q \in Processes, NEW k \in batch'[q], <<q, k.id>> \notin overtaken'
        PROVE  IntactClaim(q, k)
    BY <2>1, <2>3 DEF Claims, ClaimIntact
  <2>4. QED BY <2>1, <2>2, <2>3 DEF Claims, ClaimIntact, IntactClaim
<1>11. ASSUME (\E u \in Family : SetAccess(u)) \/ Tick \/ UNCHANGED vars
       PROVE  Claims'
  BY <1>1, <1>11 DEF SetAccess, Tick, vars
<1>12. QED
  BY <1>2, <1>3, <1>4, <1>5, <1>6, <1>8, <1>9, <1>10, <1>11
  DEF Next, UserStep, SchedulerStep

LEMMA ClaimsAlways == Spec => []Claims
  BY ClaimsInit, ClaimsNext, ShapeAlways, PTL DEF Spec

(* A claim that nobody has overtaken is intact. *)
THEOREM ClaimsStayIntact == Spec => []ClaimIntact
<1>1. Claims => ClaimIntact
  BY DEF Claims
<1>2. QED BY <1>1, ClaimsAlways, PTL

-------------------------------------------------------------------------------
(* Takeover: every write but a claim leaves the lease with its holder or      *)
(* frees it, and a claim of a held row needs an expired lease.               *)
LEMMA WritesFreeLease ==
  ASSUME NEW r \in Row
  PROVE  /\ Expired(r).owner = NoOwner
         /\ \A at : Delivered(r, at).owner = NoOwner
         /\ \A k, at, e : Retried(r, k, at, e).owner = NoOwner
<1>1. LeaseFree(r) \in Row /\ LeaseFree(r).owner = NoOwner
  BY LeaseFreeType DEF LeaseFree, Row
<1>2. Expired(r).owner = NoOwner
  BY <1>1 DEF Expired, Row
<1>3. \A at : Delivered(r, at).owner = NoOwner
  BY <1>1 DEF Delivered, Row
<1>4. \A k, at, e : Retried(r, k, at, e).owner = NoOwner
  BY <1>1 DEF Retried, Row
<1>5. QED BY <1>2, <1>3, <1>4

LEMMA CommandsKeepLease ==
  ASSUME NEW r \in Row,
         NEW w \in [step : {"resolved"}, command : Commands \ {"create"},
                    id : Ids, next : Nat]
  PROVE  Obeyed(r, w).owner \in {r.owner, NoOwner}
<1>1. w.command \in {"cancel", "pause", "resume", "update"}
  BY CommandAssumption
<1>2. LeaseFree(r) \in Row /\ LeaseFree(r).owner = NoOwner
  BY LeaseFreeType DEF LeaseFree, Row
<1>3. Cancelled(r).owner = NoOwner /\ Paused(r).owner = NoOwner
  BY <1>2 DEF Cancelled, Paused, Row
<1>4. Resumed(r, w.next).owner = r.owner /\ Moved(r, w.next).owner = r.owner
  BY DEF Resumed, Moved, Row
<1>5. QED BY <1>1, <1>3, <1>4 DEF Obeyed

LEMMA TakeoverStep == Shape /\ Claims /\ [Next]_vars => [TakesExpiredOnly]_vars
<1> SUFFICES ASSUME Shape, Claims, Next,
                    NEW p \in Processes, NEW job \in batch[p],
                    <<p, job.id>> \notin overtaken,
                    rows'[job.id].owner \notin {p, NoOwner}
             PROVE  job.at + Lease < now
  BY DEF TakesExpiredOnly
<1> USE DEF Shape, TypeOK
<1>1. /\ IntactClaim(p, job)
      /\ job.id \in DOMAIN rows
      /\ rows[job.id] \in Row
      /\ rows[job.id].owner = p
  BY DEF Claims, ClaimIntact, JobsHaveRows, IntactClaim
<1>2. rows'[job.id] # rows[job.id]
  BY <1>1
<1>3. ASSUME NEW t \in Threads, UserStep(t) PROVE FALSE
  <2>1. ~ (CreateCount(t) \/ CreateDedup(t) \/ Resolve(t))
    BY <1>2 DEF CreateCount, CreateDedup, Resolve
  <2>2. ~ CreateInsert(t)
    BY <1>1, <1>2 DEF CreateInsert
  <2>3. CASE Commit(t)
    <3>1. thread[t] \in [step : {"resolved"}, command : Commands \ {"create"},
                         id : Ids, next : Nat]
      BY <2>3 DEF Commit, Work, Idle
    <3>2. rows'[job.id] = Obeyed(rows[job.id], thread[t])
      BY <1>1, <1>2, <2>3 DEF Commit
    <3>3. QED BY <1>1, <3>1, <3>2, CommandsKeepLease
  <2>4. QED BY <1>3, <2>1, <2>2, <2>3 DEF UserStep
<1>4. ASSUME NEW q \in Processes, NEW k \in batch[q], NEW row,
             Record(q, k, row), row.owner = NoOwner
      PROVE  FALSE
  BY <1>1, <1>2, <1>4 DEF Record
<1>5. ASSUME NEW q \in Processes,
             ExpireOverdue(q) \/ Block(q) \/ Fail(q) \/ Confirm(q)
      PROVE  FALSE
  <2>1. \A k \in batch[q] : rows[k.id] \in Row
    BY DEF JobsHaveRows
  <2>2. QED BY <1>4, <1>5, <2>1, WritesFreeLease
            DEF ExpireOverdue, Block, Fail, Confirm, RecordFailure
<1>6. ASSUME NEW q \in Processes, Claim(q) PROVE job.at + Lease < now
  <2>1. PICK S \in SUBSET DOMAIN rows :
          /\ IsClaim(S)
          /\ rows' = [i \in DOMAIN rows |->
                       IF i \in S THEN Claimed(rows[i], q) ELSE rows[i]]
    BY <1>6 DEF Claim
  <2>2. LeaseAllows(rows[job.id])
    BY <1>1, <1>2, <2>1 DEF IsClaim, Due, Claimable
  <2>3. QED BY <1>1, <2>2, ProcessAssumption DEF LeaseAllows, IntactClaim
<1>7. ASSUME NEW q \in Processes, Send(q) \/ Arrive(q) \/ Abort(q) \/ Crash(q)
      PROVE  FALSE
  BY <1>2, <1>7 DEF Send, Arrive, Abort, Crash
<1>8. ASSUME (\E u \in Family : SetAccess(u)) \/ Tick PROVE FALSE
  BY <1>2, <1>8 DEF SetAccess, Tick
<1>9. QED BY <1>3, <1>5, <1>6, <1>7, <1>8 DEF Next, SchedulerStep

(* An intact claim is taken over only after its lease has run out. *)
THEOREM LeaseRespected == Spec => NoPrematureTakeover
  BY TakeoverStep, ShapeAlways, ClaimsAlways, PTL DEF Spec, NoPrematureTakeover

-------------------------------------------------------------------------------
(* Nothing is stranded: each UPDATE on its own leaves a row that can be      *)
(* claimed again in time, and time only brings the end of a lease nearer.    *)
RunsOut(r, t) ==
  /\ r.owner # NoOwner => r.until <= t + Lease
  /\ r.status = "running" => r.active /\ r.owner # NoOwner /\ r.next <= t

LEMMA WritesRunOut ==
  ASSUME NEW r \in Row, NEW t
  PROVE  /\ RunsOut(Expired(r), t)
         /\ \A at : RunsOut(Delivered(r, at), t)
         /\ \A k, at, e : RunsOut(Retried(r, k, at, e), t)
<1>1. LeaseFree(r) \in Row
  BY LeaseFreeType
<1>2. Expired(r).status # "running"
  BY <1>1 DEF Expired, Row
<1>3. \A at : Delivered(r, at).status # "running"
  BY <1>1 DEF Delivered, Row
<1>4. \A k, at, e : Retried(r, k, at, e).status # "running"
  BY <1>1 DEF Retried, Row
<1>5. QED BY <1>2, <1>3, <1>4, WritesFreeLease DEF RunsOut

LEMMA CommandsRunOut ==
  ASSUME NEW r \in Row,
         NEW w \in [step : {"resolved"}, command : Commands \ {"create"},
                    id : Ids, next : Nat],
         NEW t, RunsOut(r, t)
  PROVE  RunsOut(Obeyed(r, w), t)
<1>1. w.command \in {"cancel", "pause", "resume", "update"}
  BY CommandAssumption
<1>2. LeaseFree(r) \in Row /\ LeaseFree(r).owner = NoOwner
  BY LeaseFreeType DEF LeaseFree, Row
<1>3. RunsOut(Cancelled(r), t) /\ RunsOut(Paused(r), t)
  BY <1>2 DEF Cancelled, Paused, Row, RunsOut
<1>4. RunsOut(Resumed(r, w.next), t) /\ RunsOut(Moved(r, w.next), t)
  BY DEF Resumed, Moved, Row, RunsOut
<1>5. QED BY <1>1, <1>3, <1>4 DEF Obeyed

LEMMA RunsOutInit == Init => ClaimsRunOut
  BY DEF Init, ClaimsRunOut

LEMMA RunsOutNext == Shape /\ ClaimsRunOut /\ [Next]_vars => ClaimsRunOut'
<1> SUFFICES ASSUME Shape, ClaimsRunOut, [Next]_vars PROVE ClaimsRunOut'
  OBVIOUS
<1> USE DEF Shape, TypeOK
<1>1. \A i \in DOMAIN rows : rows[i] \in Row /\ RunsOut(rows[i], now)
  BY DEF ClaimsRunOut, RunsOut
<1>2. SUFFICES ASSUME NEW i \in DOMAIN rows' PROVE RunsOut(rows'[i], now')
  BY DEF ClaimsRunOut, RunsOut
<1>3. ASSUME rows' = rows, now' \in {now, now + 1} PROVE RunsOut(rows'[i], now')
  <2>1. rows[i] \in Row /\ RunsOut(rows[i], now)
    BY <1>1, <1>3
  <2>2. rows[i].until \in Nat /\ rows[i].next \in Nat
    BY <2>1 DEF Row
  <2>3. QED BY <1>3, <2>1, <2>2, TimingAssumption DEF RunsOut
<1>4. ASSUME NEW t \in Threads, UserStep(t) PROVE RunsOut(rows'[i], now')
  <2>1. CASE CreateCount(t) \/ CreateDedup(t) \/ Resolve(t)
    BY <1>3, <2>1 DEF CreateCount, CreateDedup, Resolve
  <2>2. CASE CreateInsert(t)
    <3>1. RunsOut(NewRow(thread[t]), now)
      BY DEF NewRow, RunsOut
    <3>2. rows'[i] = NewRow(thread[t]) \/ (i \in DOMAIN rows /\ rows'[i] = rows[i])
      BY <2>2 DEF CreateInsert
    <3>3. QED BY <1>1, <2>2, <3>1, <3>2 DEF CreateInsert
  <2>3. CASE Commit(t)
    <3>1. thread[t] \in [step : {"resolved"}, command : Commands \ {"create"},
                         id : Ids, next : Nat]
      BY <2>3 DEF Commit, Work, Idle
    <3>2. i \in DOMAIN rows /\ rows'[i] \in {rows[i], Obeyed(rows[i], thread[t])}
      BY <2>3 DEF Commit
    <3>3. QED BY <1>1, <2>3, <3>1, <3>2, CommandsRunOut DEF Commit
  <2>4. QED BY <1>4, <2>1, <2>2, <2>3 DEF UserStep
<1>5. ASSUME NEW p \in Processes, NEW job \in batch[p], NEW row,
             Record(p, job, row), RunsOut(row, now)
      PROVE  RunsOut(rows'[i], now')
  BY <1>1, <1>5 DEF Record
<1>6. ASSUME NEW p \in Processes,
             ExpireOverdue(p) \/ Block(p) \/ Fail(p) \/ Confirm(p)
      PROVE  RunsOut(rows'[i], now')
  <2>1. \A job \in batch[p] : rows[job.id] \in Row
    BY DEF JobsHaveRows
  <2>2. QED BY <1>5, <1>6, <2>1, WritesRunOut
            DEF ExpireOverdue, Block, Fail, Confirm, RecordFailure
<1>7. ASSUME NEW p \in Processes, Claim(p) PROVE RunsOut(rows'[i], now')
  <2>1. PICK S \in SUBSET DOMAIN rows :
          /\ IsClaim(S)
          /\ rows' = [j \in DOMAIN rows |->
                       IF j \in S THEN Claimed(rows[j], p) ELSE rows[j]]
    BY <1>7 DEF Claim
  <2>2. now' = now /\ i \in DOMAIN rows
    BY <1>7, <2>1 DEF Claim
  <2>3. CASE i \in S
    <3>1. rows[i] \in Row /\ rows[i].active /\ rows[i].next <= now
      BY <1>1, <2>1, <2>3 DEF IsClaim, Due, Claimable
    <3>2. rows'[i] = Claimed(rows[i], p)
      BY <2>1, <2>2, <2>3
    <3>3. RunsOut(Claimed(rows[i], p), now)
      BY <3>1, ClaimedSays, ProcessAssumption, TimingAssumption DEF RunsOut
    <3>4. QED BY <2>2, <3>2, <3>3
  <2>4. CASE i \notin S
    BY <1>1, <2>1, <2>2, <2>4
  <2>5. QED BY <2>3, <2>4
<1>8. ASSUME NEW p \in Processes, Send(p) \/ Arrive(p) \/ Abort(p) \/ Crash(p)
      PROVE  RunsOut(rows'[i], now')
  BY <1>3, <1>8 DEF Send, Arrive, Abort, Crash
<1>9. ASSUME (\E u \in Family : SetAccess(u)) \/ Tick \/ UNCHANGED vars
      PROVE  RunsOut(rows'[i], now')
  BY <1>3, <1>9 DEF SetAccess, Tick, vars
<1>10. QED
  BY <1>4, <1>6, <1>7, <1>8, <1>9 DEF Next, SchedulerStep

LEMMA RunsOutAlways == Spec => []ClaimsRunOut
  BY RunsOutInit, RunsOutNext, ShapeAlways, PTL DEF Spec

(* Whatever becomes of the process that holds a row, the row can be claimed  *)
(* again within a lease from now.                                            *)
THEOREM NothingIsStranded == Spec => []ClaimsRunOut
  BY RunsOutAlways

-------------------------------------------------------------------------------
(* Outcomes: what the status of a row says about what happened to it.        *)
Outcomes == DeliveredWasSent /\ CompletedWasSent /\ AttemptsCounted /\ FailedWasRetried

LEMMA OutcomesInit == Init => Outcomes
  BY DEF Init, Outcomes, DeliveredWasSent, CompletedWasSent, AttemptsCounted,
         FailedWasRetried

LEMMA WriteOutcomes ==
  ASSUME NEW r \in Row
  PROVE  /\ Expired(r).status = "failed" /\ Expired(r).error = "OVERDUE_EXPIRED"
         /\ Expired(r).attempts = r.attempts
         /\ \A at : /\ Delivered(r, at).status \in {"completed", "scheduled"}
                    /\ Delivered(r, at).attempts \in {0, r.attempts}
         /\ \A k \in Nat : \A at, e :
              /\ Retried(r, k, at, e).status \in {"failed", "scheduled"}
              /\ Retried(r, k, at, e).status = "failed"
                   => k >= MaxAttempts /\ Retried(r, k, at, e).attempts = r.attempts
              /\ Retried(r, k, at, e).attempts \in {0, k, r.attempts}
<1>1. /\ LeaseFree(r) \in Row
      /\ LeaseFree(r).attempts = r.attempts
      /\ LeaseFree(r).req = r.req
  BY LeaseFreeType DEF LeaseFree, Row
<1>2. /\ Expired(r).status = "failed" /\ Expired(r).error = "OVERDUE_EXPIRED"
      /\ Expired(r).attempts = r.attempts
  BY <1>1 DEF Expired, Row
<1>3. \A at : /\ Delivered(r, at).status \in {"completed", "scheduled"}
              /\ Delivered(r, at).attempts \in {0, r.attempts}
  BY <1>1 DEF Delivered, Row
<1>4. ASSUME NEW k \in Nat, NEW at, NEW e
      PROVE  /\ Retried(r, k, at, e).status \in {"failed", "scheduled"}
             /\ Retried(r, k, at, e).status = "failed"
                  => k >= MaxAttempts /\ Retried(r, k, at, e).attempts = r.attempts
             /\ Retried(r, k, at, e).attempts \in {0, k, r.attempts}
  <2> DEFINE free == [LeaseFree(r) EXCEPT !.error = e]
  <2>1. /\ free = [f \in DOMAIN free |-> free[f]]
        /\ DOMAIN free = DOMAIN r
        /\ {"status", "active", "attempts", "next"} \subseteq DOMAIN free
        /\ free.attempts = r.attempts
    BY <1>1 DEF Row, LeaseFree
  <2> HIDE DEF free
  <2>2. /\ [free EXCEPT !.status = "failed", !.active = FALSE].status = "failed"
        /\ [free EXCEPT !.status = "failed", !.active = FALSE].attempts = r.attempts
        /\ \A n : /\ [free EXCEPT !.status = "scheduled", !.attempts = 0,
                                  !.next = n].status = "scheduled"
                  /\ [free EXCEPT !.status = "scheduled", !.attempts = 0,
                                  !.next = n].attempts = 0
                  /\ [free EXCEPT !.status = "scheduled", !.attempts = k,
                                  !.next = n].status = "scheduled"
                  /\ [free EXCEPT !.status = "scheduled", !.attempts = k,
                                  !.next = n].attempts = k
    BY <2>1
  <2>3. QED BY <2>2 DEF Retried, GivesUp, free
<1>5. QED BY <1>2, <1>3, <1>4

LEMMA CommandOutcomes ==
  ASSUME NEW r \in Row,
         NEW w \in [step : {"resolved"}, command : Commands \ {"create"},
                    id : Ids, next : Nat]
  PROVE  /\ Obeyed(r, w).status \notin {"completed", "failed"}
         /\ Obeyed(r, w).attempts = r.attempts
<1>1. w.command \in {"cancel", "pause", "resume", "update"}
  BY CommandAssumption
<1>2. LeaseFree(r) \in Row /\ LeaseFree(r).attempts = r.attempts
  BY LeaseFreeType DEF LeaseFree, Row
<1>3. /\ Cancelled(r).status = "cancelled" /\ Cancelled(r).attempts = r.attempts
      /\ Paused(r).status = "paused" /\ Paused(r).attempts = r.attempts
  BY <1>2 DEF Cancelled, Paused, Row
<1>4. /\ Resumed(r, w.next).status = "scheduled"
      /\ Resumed(r, w.next).attempts = r.attempts
      /\ Moved(r, w.next).status = "scheduled"
      /\ Moved(r, w.next).attempts = r.attempts
  BY DEF Resumed, Moved, Row
<1>5. QED BY <1>1, <1>3, <1>4 DEF Obeyed

(* A write-back keeps the outcomes if the row it writes tells the truth.      *)
LEMMA RecordOutcomes ==
  ASSUME Shape, Outcomes, NEW p \in Processes, NEW job \in batch[p], NEW row \in Row,
         Record(p, job, row),
         sent' = sent,
         failures' \in [Ids -> 0 .. MaxAttempts],
         \A i \in Ids : failures[i] <= failures'[i],
         row.status = "completed" => job.id \in sent,
         row.attempts <= failures'[job.id],
         row.status = "failed" /\ row.error # "OVERDUE_EXPIRED"
           => failures'[job.id] = MaxAttempts
  PROVE  Outcomes'
<1> USE DEF Shape, TypeOK, Record, Outcomes
<1>1. /\ job.id \in DOMAIN rows
      /\ rows' = [rows EXCEPT ![job.id] = row]
      /\ DOMAIN rows' = DOMAIN rows
      /\ \A q \in Processes : batch'[q] \subseteq batch[q]
  BY DEF JobsHaveRows
<1>2. DeliveredWasSent' /\ CompletedWasSent'
  BY <1>1 DEF DeliveredWasSent, CompletedWasSent
<1>3. ASSUME NEW i \in DOMAIN rows PROVE rows'[i].attempts <= failures'[i]
  <2>1. /\ rows[i].attempts \in Nat /\ failures[i] \in Nat /\ failures'[i] \in Nat
        /\ rows[i].attempts <= failures[i] /\ failures[i] <= failures'[i]
    BY TimingAssumption DEF Row, AttemptsCounted
  <2>2. QED BY <1>1, <2>1
<1>4. ASSUME NEW q \in Processes, NEW k \in batch'[q]
      PROVE  k.attempts <= failures'[k.id]
  <2>1. k \in batch[q] /\ k.id \in Ids /\ k.attempts \in Nat
    BY <1>1, TimingAssumption DEF Job
  <2>2. k.attempts <= failures[k.id] /\ failures[k.id] <= failures'[k.id]
    BY <2>1 DEF AttemptsCounted
  <2>3. failures[k.id] \in Nat /\ failures'[k.id] \in Nat
    BY <2>1
  <2>4. QED BY <2>1, <2>2, <2>3
<1>5. FailedWasRetried'
  <2>1. SUFFICES ASSUME NEW i \in DOMAIN rows, rows'[i].status = "failed",
                        rows'[i].error # "OVERDUE_EXPIRED"
                 PROVE  failures'[i] = MaxAttempts
    BY <1>1 DEF FailedWasRetried
  <2>2. CASE i = job.id
    BY <1>1, <2>1, <2>2
  <2>3. CASE i # job.id
    <3>1. failures[i] = MaxAttempts
      BY <1>1, <2>1, <2>3 DEF FailedWasRetried
    <3>2. failures'[i] \in 0 .. MaxAttempts /\ failures[i] <= failures'[i]
      OBVIOUS
    <3>3. QED BY <3>1, <3>2, TimingAssumption
  <2>4. QED BY <2>2, <2>3
<1>6. QED BY <1>1, <1>2, <1>3, <1>4, <1>5 DEF AttemptsCounted

(* Counting a failure, up to MaxAttempts, keeps a count that is no greater.   *)
LEMMA CountedFailure ==
  ASSUME NEW a \in 0 .. MaxAttempts - 1, NEW b \in 0 .. MaxAttempts - 1,
         NEW n \in 0 .. MaxAttempts, a <= n, b <= n,
         NEW m, m = IF n < MaxAttempts THEN n + 1 ELSE n
  PROVE  /\ a + 1 \in 1 .. MaxAttempts
         /\ m \in 0 .. MaxAttempts
         /\ n <= m /\ a + 1 <= m /\ b <= m /\ 0 <= m
         /\ a + 1 >= MaxAttempts => m = MaxAttempts
  BY TimingAssumption

LEMMA OutcomesNext == Shape /\ Outcomes /\ [Next]_vars => Outcomes'
<1> SUFFICES ASSUME Shape, Outcomes, [Next]_vars PROVE Outcomes'
  OBVIOUS
<1> USE DEF Shape, TypeOK
<1>1. ASSUME UNCHANGED <<rows, failures>>, sent \subseteq sent',
             \A p \in Processes : \A job \in batch'[p] :
               \/ job \in batch[p]
               \/ /\ \E old \in batch[p] : job.id = old.id /\ job.attempts = old.attempts
                  /\ job.stage = "delivered" => job.id \in sent'
      PROVE  Outcomes'
  BY <1>1 DEF Outcomes, DeliveredWasSent, CompletedWasSent, AttemptsCounted,
              FailedWasRetried
<1>2. ASSUME NEW t \in Threads, CreateCount(t) \/ CreateDedup(t) \/ Resolve(t)
      PROVE  Outcomes'
  BY <1>1, <1>2 DEF CreateCount, CreateDedup, Resolve
<1>3. ASSUME NEW t \in Threads, CreateInsert(t) PROVE Outcomes'
  <2>1. CASE UNCHANGED rows
    BY <1>1, <1>3, <2>1 DEF CreateInsert
  <2>2. ASSUME NEW i \in Ids \ DOMAIN rows,
               rows' = [j \in DOMAIN rows \cup {i} |->
                          IF j = i THEN NewRow(thread[t]) ELSE rows[j]]
        PROVE  Outcomes'
    <3>1. /\ UNCHANGED <<batch, sent, failures>>
          /\ failures[i] \in 0 .. MaxAttempts
      BY <1>3 DEF CreateInsert
    <3>2. /\ NewRow(thread[t]).status = "scheduled"
          /\ NewRow(thread[t]).attempts = 0
      BY DEF NewRow
    <3>3. QED
      BY <2>2, <3>1, <3>2
      DEF Outcomes, DeliveredWasSent, CompletedWasSent, AttemptsCounted, FailedWasRetried
  <2>3. QED BY <1>3, <2>1, <2>2 DEF CreateInsert
<1>4. ASSUME NEW t \in Threads, Commit(t) PROVE Outcomes'
  <2>1. /\ thread[t] \in [step : {"resolved"}, command : Commands \ {"create"},
                          id : Ids, next : Nat]
        /\ thread[t].id \in DOMAIN rows
    BY <1>4 DEF Commit, Work, Idle, CommandsHaveRows
  <2>2. /\ UNCHANGED <<batch, sent, failures>>
        /\ rows' = [rows EXCEPT ![thread[t].id] = Obeyed(rows[thread[t].id], thread[t])]
    BY <1>4 DEF Commit
  <2>3. /\ Obeyed(rows[thread[t].id], thread[t]).status \notin {"completed", "failed"}
        /\ Obeyed(rows[thread[t].id], thread[t]).attempts = rows[thread[t].id].attempts
    BY <2>1, CommandOutcomes
  <2>4. QED
    BY <2>1, <2>2, <2>3
    DEF Outcomes, DeliveredWasSent, CompletedWasSent, AttemptsCounted, FailedWasRetried
<1>5. ASSUME NEW p \in Processes, Claim(p) PROVE Outcomes'
  <2>1. PICK S \in SUBSET DOMAIN rows :
          /\ rows' = [i \in DOMAIN rows |->
                       IF i \in S THEN Claimed(rows[i], p) ELSE rows[i]]
          /\ batch' = [batch EXCEPT
               ![p] = {[id |-> i, next |-> rows[i].next, attempts |-> rows[i].attempts,
                        at |-> now, stage |-> "queued"] : i \in S}]
          /\ UNCHANGED <<sent, failures>>
    BY <1>5 DEF Claim
  <2>2. \A i \in DOMAIN rows : /\ Claimed(rows[i], p).status = "running"
                               /\ Claimed(rows[i], p).attempts = rows[i].attempts
    BY DEF Claimed, Row
  <2>3. CompletedWasSent' /\ FailedWasRetried' /\ DeliveredWasSent'
    BY <2>1, <2>2
    DEF Outcomes, DeliveredWasSent, CompletedWasSent, FailedWasRetried
  <2>4. AttemptsCounted'
    BY <2>1, <2>2 DEF Outcomes, AttemptsCounted
  <2>5. QED BY <2>3, <2>4 DEF Outcomes
<1>6. ASSUME NEW p \in Processes, NEW job \in batch[p], NEW e \in Errors,
             RecordFailure(p, job, e)
      PROVE  Outcomes'
  <2> DEFINE row == Retried(rows[job.id], job.attempts + 1, job.at, e)
             n   == failures[job.id]
             m   == IF n < MaxAttempts THEN n + 1 ELSE n
  <2>1. /\ job \in Job /\ job.id \in DOMAIN rows /\ job.id \in Ids
        /\ job.attempts \in 0 .. MaxAttempts - 1 /\ job.at \in Nat
        /\ n \in 0 .. MaxAttempts
        /\ rows[job.id].attempts \in 0 .. MaxAttempts - 1
    BY DEF JobsHaveRows, Job, Row
  <2>2. job.attempts <= n /\ rows[job.id].attempts <= n
    BY <2>1 DEF Outcomes, AttemptsCounted
  <2>0. /\ job.attempts + 1 \in 1 .. MaxAttempts
        /\ m \in 0 .. MaxAttempts
        /\ n <= m /\ job.attempts + 1 <= m /\ rows[job.id].attempts <= m /\ 0 <= m
        /\ job.attempts + 1 >= MaxAttempts => m = MaxAttempts
    <3> HIDE DEF n
    <3>1. QED BY <2>1, <2>2, CountedFailure
  <2>3. row \in Row
    BY <2>1, <2>0, RetriedType
  <2>4. failures' = [failures EXCEPT ![job.id] = m] /\ sent' = sent
    BY <1>6 DEF RecordFailure
  <2>5. /\ failures' \in [Ids -> 0 .. MaxAttempts] /\ failures'[job.id] = m
        /\ \A i \in Ids : failures[i] <= failures'[i]
    <3>1. \A i \in Ids : failures[i] \in Nat
      BY TimingAssumption
    <3>2. QED BY <2>1, <2>0, <2>4, <3>1
  <2>7. /\ row.status \in {"failed", "scheduled"}
        /\ row.attempts \in {0, job.attempts + 1, rows[job.id].attempts}
        /\ row.status = "failed" => job.attempts + 1 >= MaxAttempts
    <3>1. job.attempts + 1 \in Nat
      BY <2>1, TimingAssumption
    <3>2. QED BY <2>1, <3>1, WriteOutcomes
  <2>8. Record(p, job, row)
    BY <1>6 DEF RecordFailure
  <2> HIDE DEF row, m, n
  <2>9. row.attempts <= m
    BY <2>7, <2>0
  <2>10. row.status = "failed" => m = MaxAttempts
    BY <2>7, <2>0
  <2>11. QED BY <2>3, <2>4, <2>5, <2>7, <2>8, <2>9, <2>10, RecordOutcomes
<1>7. ASSUME NEW p \in Processes, ExpireOverdue(p) PROVE Outcomes'
  <2>1. PICK job \in batch[p] : /\ Record(p, job, Expired(rows[job.id]))
                                /\ UNCHANGED <<sent, failures>>
    BY <1>7 DEF ExpireOverdue
  <2>2. rows[job.id] \in Row /\ job.id \in DOMAIN rows
    BY DEF JobsHaveRows
  <2>3. /\ Expired(rows[job.id]) \in Row
        /\ Expired(rows[job.id]).status = "failed"
        /\ Expired(rows[job.id]).error = "OVERDUE_EXPIRED"
        /\ Expired(rows[job.id]).attempts = rows[job.id].attempts
    BY <2>2, ExpiredType, WriteOutcomes
  <2>4. rows[job.id].attempts <= failures[job.id]
    BY <2>2 DEF Outcomes, AttemptsCounted
  <2>5. \A i \in Ids : failures[i] <= failures[i]
    BY TimingAssumption
  <2>6. QED BY <2>1, <2>3, <2>4, <2>5, RecordOutcomes
<1>8. ASSUME NEW p \in Processes, Block(p) \/ Fail(p) PROVE Outcomes'
  BY <1>6, <1>8 DEF Block, Fail, Errors
<1>9. ASSUME NEW p \in Processes, Send(p) PROVE Outcomes'
  <2>1. \A job \in batch[p] : /\ [job EXCEPT !.stage = "sending"].id = job.id
                              /\ [job EXCEPT !.stage = "sending"].attempts = job.attempts
                              /\ [job EXCEPT !.stage = "sending"].stage = "sending"
    BY DEF Job
  <2>2. PICK job \in batch[p] :
          batch' = [batch EXCEPT
            ![p] = (@ \ {job}) \cup {[job EXCEPT !.stage = "sending"]}]
    BY <1>9 DEF Send
  <2>3. UNCHANGED <<rows, failures, sent>>
    BY <1>9 DEF Send
  <2>4. ASSUME NEW q \in Processes, NEW k \in batch'[q], k \notin batch[q]
        PROVE  q = p /\ k = [job EXCEPT !.stage = "sending"]
    BY <2>2, <2>4
  <2>5. QED BY <1>1, <2>1, <2>3, <2>4
<1>10. ASSUME NEW p \in Processes, Arrive(p) PROVE Outcomes'
  <2>1. \A job \in batch[p] :
          /\ [job EXCEPT !.stage = "delivered"].id = job.id
          /\ [job EXCEPT !.stage = "delivered"].attempts = job.attempts
    BY DEF Job
  <2>2. PICK job \in batch[p] :
          /\ batch' = [batch EXCEPT
               ![p] = (@ \ {job}) \cup {[job EXCEPT !.stage = "delivered"]}]
          /\ sent' = sent \cup {job.id}
    BY <1>10 DEF Arrive
  <2>3. UNCHANGED <<rows, failures>>
    BY <1>10 DEF Arrive
  <2>4. ASSUME NEW q \in Processes, NEW k \in batch'[q], k \notin batch[q]
        PROVE  q = p /\ k = [job EXCEPT !.stage = "delivered"]
    BY <2>2, <2>4
  <2>5. sent \subseteq sent' /\ job.id \in sent'
    BY <2>2
  <2>6. \A q \in Processes : \A k \in batch'[q] :
          \/ k \in batch[q]
          \/ /\ \E old \in batch[q] : k.id = old.id /\ k.attempts = old.attempts
             /\ k.stage = "delivered" => k.id \in sent'
    BY <2>1, <2>4, <2>5
  <2>7. QED BY <1>1, <2>3, <2>5, <2>6
<1>11. ASSUME NEW p \in Processes, Confirm(p) PROVE Outcomes'
  <2>1. PICK job \in batch[p] : /\ job.stage = "delivered"
                                /\ Record(p, job, Delivered(rows[job.id], job.at))
                                /\ UNCHANGED <<sent, failures>>
    BY <1>11 DEF Confirm
  <2> DEFINE row == Delivered(rows[job.id], job.at)
  <2>2. rows[job.id] \in Row /\ job.id \in DOMAIN rows /\ job.id \in Ids /\ job.at \in Nat
    BY DEF JobsHaveRows, Job
  <2>3. /\ row \in Row
        /\ row.status \in {"completed", "scheduled"}
        /\ row.attempts \in {0, rows[job.id].attempts}
    BY <2>2, DeliveredType, WriteOutcomes
  <2>4. /\ rows[job.id].attempts <= failures[job.id]
        /\ failures[job.id] \in 0 .. MaxAttempts
    BY <2>2 DEF Outcomes, AttemptsCounted
  <2>5. row.attempts <= failures[job.id]
    BY <2>3, <2>4, TimingAssumption
  <2>6. job.id \in sent
    BY <2>1 DEF Outcomes, DeliveredWasSent
  <2>7. \A i \in Ids : failures[i] <= failures[i]
    BY TimingAssumption
  <2> HIDE DEF row
  <2>8. Record(p, job, row)
    BY <2>1 DEF row
  <2>9. QED BY <2>1, <2>3, <2>5, <2>6, <2>7, <2>8, RecordOutcomes
<1>12. ASSUME NEW p \in Processes, Abort(p) \/ Crash(p) PROVE Outcomes'
  <2>1. \A q \in Processes : batch'[q] \subseteq batch[q]
    BY <1>12 DEF Abort, Crash
  <2>2. QED BY <1>1, <1>12, <2>1 DEF Abort, Crash
<1>13. ASSUME (\E u \in Family : SetAccess(u)) \/ Tick \/ UNCHANGED vars
       PROVE  Outcomes'
  BY <1>1, <1>13 DEF SetAccess, Tick, vars
<1>14. QED
  BY <1>2, <1>3, <1>4, <1>5, <1>7, <1>8, <1>9, <1>10, <1>11, <1>12, <1>13
  DEF Next, UserStep, SchedulerStep

LEMMA OutcomesAlways == Spec => []Outcomes
  BY OutcomesInit, OutcomesNext, ShapeAlways, PTL DEF Spec

(* No reminder is completed whose message never reached the user. *)
THEOREM CompletedMeansSent == Spec => []CompletedWasSent
<1>1. Outcomes => CompletedWasSent
  BY DEF Outcomes
<1>2. QED BY <1>1, OutcomesAlways, PTL

(* No reminder fails for its delivery errors before MaxAttempts of them. *)
THEOREM FailedMeansRetried == Spec => []FailedWasRetried
<1>1. Outcomes => FailedWasRetried
  BY DEF Outcomes
<1>2. QED BY <1>1, OutcomesAlways, PTL

(* The whole invariant, of which the theorems above single out the parts.    *)
THEOREM InvariantHolds == Spec => []IInv
<1>1. Shape /\ Claims /\ Outcomes => IInv
  BY DEF Shape, Claims, Outcomes, IInv
<1>2. QED BY <1>1, ShapeAlways, ClaimsAlways, OutcomesAlways, PTL

-------------------------------------------------------------------------------
(* Reminders implements ReminderLifecycle, for every value of the          *)
(* constants: each of its steps is a step of the abstract specification,   *)
(* or leaves its state unchanged, under the mapping of Lifecycle.          *)

(* No UPDATE sets is_active: a row that is over stays over. *)
LEMMA WritesOnlyDeactivate ==
  ASSUME NEW r \in Row
  PROVE  /\ Expired(r).active = FALSE
         /\ \A at : Delivered(r, at).active \in {r.active, FALSE}
         /\ \A k, at, e : Retried(r, k, at, e).active \in {r.active, FALSE}
         /\ \A p \in Processes : Claimed(r, p).active = r.active
<1>1. LeaseFree(r) \in Row /\ LeaseFree(r).active = r.active
  BY LeaseFreeType DEF LeaseFree, Row
<1>2. Expired(r).active = FALSE
  BY <1>1 DEF Expired, Row
<1>3. \A at : Delivered(r, at).active \in {r.active, FALSE}
  BY <1>1 DEF Delivered, Row
<1>4. \A k, at, e : Retried(r, k, at, e).active \in {r.active, FALSE}
  BY <1>1 DEF Retried, Row
<1>5. \A p \in Processes : Claimed(r, p).active = r.active
  BY DEF Claimed, Row
<1>6. QED BY <1>2, <1>3, <1>4, <1>5

LEMMA CommandsOnlyDeactivate ==
  ASSUME NEW r \in Row,
         NEW w \in [step : {"resolved"}, command : Commands \ {"create"},
                    id : Ids, next : Nat]
  PROVE  Obeyed(r, w).active \in {r.active, FALSE}
<1>1. w.command \in {"cancel", "pause", "resume", "update"}
  BY CommandAssumption
<1>2. LeaseFree(r) \in Row /\ LeaseFree(r).active = r.active
  BY LeaseFreeType DEF LeaseFree, Row
<1>3. Cancelled(r).active = FALSE /\ Paused(r).active = r.active
  BY <1>2 DEF Cancelled, Paused, Row
<1>4. Resumed(r, w.next).active = r.active /\ Moved(r, w.next).active = r.active
  BY DEF Resumed, Moved, Row
<1>5. QED BY <1>1, <1>3, <1>4 DEF Obeyed

(* What a write of one row, to one that is not reactivated, does to the phases. *)
LEMMA PhaseOfWrite ==
  ASSUME Shape, NEW i \in DOMAIN rows, NEW row,
         rows' = [rows EXCEPT ![i] = row], row.active \in {rows[i].active, FALSE}
  PROVE  \/ Phase' = Phase
         \/ Phase[i] = "live" /\ Phase' = [Phase EXCEPT ![i] = "over"]
<1> USE DEF Shape, TypeOK
<1>1. DOMAIN rows' = DOMAIN rows /\ i \in Ids /\ rows'[i] = row
      /\ \A j \in DOMAIN rows : j # i => rows'[j] = rows[j]
  OBVIOUS
<1>2. CASE row.active = rows[i].active
  BY <1>1, <1>2 DEF Phase
<1>3. CASE row.active # rows[i].active
  <2>1. rows[i].active = TRUE /\ row.active = FALSE
    BY <1>3 DEF Row
  <2>2. QED BY <1>1, <2>1 DEF Phase
<1>4. QED BY <1>2, <1>3

(* A write-back settles the delivery its process had undertaken. *)
LEMMA RecordSettles ==
  ASSUME Shape, Claims, NEW p \in Processes, NEW job \in batch[p], NEW row,
         Record(p, job, row), row.active \in {rows[job.id].active, FALSE},
         UNCHANGED sent
  PROVE  Lifecycle!Next
<1> USE DEF Shape, TypeOK
<1>1. job.id \in DOMAIN rows /\ job.id \in Ids
  BY DEF JobsHaveRows
<1>2. \/ Phase' = Phase
      \/ Phase' = [Phase EXCEPT ![job.id] = "over"]
  BY <1>1, PhaseOfWrite DEF Record
<1>3. p \in Undertaken[job.id]
  BY <1>1 DEF Undertaken, Holders
<1>4. Undertaken' = [Undertaken EXCEPT ![job.id] = @ \ {p}]
  <2>1. batch' = [batch EXCEPT ![p] = @ \ {job}]
    BY DEF Record
  <2>2. \A i \in Ids : Holders(i)' = IF i = job.id THEN Holders(i) \ {p} ELSE Holders(i)
    BY <2>1 DEF Holders, Claims, OneJobPerRow
  <2>3. QED BY <2>2 DEF Undertaken
<1>5. Lifecycle!Settle(p, job.id)
  BY <1>2, <1>3, <1>4 DEF Lifecycle!Settle
<1>6. QED BY <1>1, <1>5 DEF Lifecycle!Next

LEMMA LifecycleInit == Init => Lifecycle!Init
  BY DEF Init, Lifecycle!Init, Phase, Undertaken, Holders

LEMMA LifecycleStep == Shape /\ Claims /\ [Next]_vars => [Lifecycle!Next]_(Lifecycle!vars)
<1> SUFFICES ASSUME Shape, Claims, [Next]_vars
             PROVE  Lifecycle!Next \/ UNCHANGED <<Phase, Undertaken, sent>>
  BY DEF Lifecycle!vars
<1> USE DEF Shape, TypeOK
<1>1. ASSUME UNCHANGED <<rows, batch, sent>>
      PROVE  UNCHANGED <<Phase, Undertaken, sent>>
  BY <1>1 DEF Phase, Undertaken, Holders
<1>2. ASSUME NEW t \in Threads, CreateCount(t) \/ CreateDedup(t) \/ Resolve(t)
      PROVE  UNCHANGED <<Phase, Undertaken, sent>>
  BY <1>1, <1>2 DEF CreateCount, CreateDedup, Resolve
<1>3. ASSUME NEW t \in Threads, CreateInsert(t)
      PROVE  Lifecycle!Next \/ UNCHANGED <<Phase, Undertaken, sent>>
  <2>1. CASE UNCHANGED rows
    BY <1>1, <1>3, <2>1 DEF CreateInsert
  <2>2. ASSUME NEW i \in Ids \ DOMAIN rows,
               rows' = [j \in DOMAIN rows \cup {i} |->
                          IF j = i THEN NewRow(thread[t]) ELSE rows[j]]
        PROVE  Lifecycle!Next
    <3>1. UNCHANGED Undertaken /\ UNCHANGED sent
      BY <1>3 DEF CreateInsert, Undertaken, Holders
    <3>2. Phase[i] = "none" /\ Phase' = [Phase EXCEPT ![i] = "live"]
      BY <2>2 DEF Phase, NewRow
    <3>3. Lifecycle!Create(i)
      BY <3>1, <3>2 DEF Lifecycle!Create
    <3>4. QED BY <3>3 DEF Lifecycle!Next
  <2>3. QED BY <1>3, <2>1, <2>2 DEF CreateInsert
<1>4. ASSUME NEW t \in Threads, Commit(t)
      PROVE  Lifecycle!Next \/ UNCHANGED <<Phase, Undertaken, sent>>
  <2>1. /\ thread[t] \in [step : {"resolved"}, command : Commands \ {"create"},
                          id : Ids, next : Nat]
        /\ thread[t].id \in DOMAIN rows
    BY <1>4 DEF Commit, Work, Idle, CommandsHaveRows
  <2>2. Obeyed(rows[thread[t].id], thread[t]).active \in {rows[thread[t].id].active, FALSE}
    BY <2>1, CommandsOnlyDeactivate
  <2>3. /\ rows' = [rows EXCEPT ![thread[t].id] = Obeyed(rows[thread[t].id], thread[t])]
        /\ UNCHANGED <<Undertaken, sent>>
    BY <1>4 DEF Commit, Undertaken, Holders
  <2>4. \/ Phase' = Phase
        \/ /\ Phase[thread[t].id] = "live"
           /\ Phase' = [Phase EXCEPT ![thread[t].id] = "over"]
    BY <2>1, <2>2, <2>3, PhaseOfWrite
  <2>5. UNCHANGED Phase \/ Lifecycle!Withdraw(thread[t].id)
    BY <2>3, <2>4 DEF Lifecycle!Withdraw
  <2>6. QED BY <2>1, <2>3, <2>5 DEF Lifecycle!Next
<1>5. ASSUME NEW p \in Processes, Claim(p) PROVE Lifecycle!Next
  <2>1. PICK S \in SUBSET DOMAIN rows :
          /\ IsClaim(S)
          /\ rows' = [i \in DOMAIN rows |->
                       IF i \in S THEN Claimed(rows[i], p) ELSE rows[i]]
          /\ batch' = [batch EXCEPT
               ![p] = {[id |-> i, next |-> rows[i].next, attempts |-> rows[i].attempts,
                        at |-> now, stage |-> "queued"] : i \in S}]
    BY <1>5 DEF Claim
  <2>2. batch[p] = {} /\ UNCHANGED sent
    BY <1>5 DEF Claim
  <2>3. S \subseteq Ids /\ \A i \in S : Phase[i] = "live"
    BY <2>1 DEF IsClaim, Due, Claimable, Phase
  <2>4. UNCHANGED Phase
    <3>1. \A i \in DOMAIN rows : Claimed(rows[i], p).active = rows[i].active
      BY WritesOnlyDeactivate
    <3>2. QED BY <2>1, <3>1 DEF Phase
  <2>5. \A i \in Ids : p \notin Undertaken[i]
    BY <2>2 DEF Undertaken, Holders
  <2>6. Undertaken' = [i \in Ids |-> IF i \in S THEN Undertaken[i] \cup {p}
                                                ELSE Undertaken[i]]
    <3>1. ASSUME NEW i \in Ids
          PROVE  Holders(i)' = IF i \in S THEN Holders(i) \cup {p} ELSE Holders(i)
      <4>1. \A q \in Processes \ {p} : batch'[q] = batch[q]
        BY <2>1
      <4>2. \A job \in batch'[p] : job.id \in S
        BY <2>1
      <4>3. i \in S => \E job \in batch'[p] : job.id = i
        <5> HAVE i \in S
        <5> DEFINE new == [id |-> i, next |-> rows[i].next, attempts |-> rows[i].attempts,
                           at |-> now, stage |-> "queued"]
        <5>1. new \in batch'[p]
          BY <2>1
        <5>2. QED BY <5>1
      <4>4. p \notin Holders(i)
        BY <2>2 DEF Holders
      <4>5. QED BY <4>1, <4>2, <4>3, <4>4 DEF Holders
    <3>2. QED BY <3>1 DEF Undertaken
  <2>7. Lifecycle!Undertake(p, S)
    BY <2>2, <2>3, <2>4, <2>5, <2>6 DEF Lifecycle!Undertake
  <2>8. QED BY <2>3, <2>7 DEF Lifecycle!Next
<1>6. ASSUME NEW p \in Processes, ExpireOverdue(p) \/ Confirm(p) PROVE Lifecycle!Next
  <2>1. PICK job \in batch[p] :
          /\ \/ Record(p, job, Expired(rows[job.id]))
             \/ Record(p, job, Delivered(rows[job.id], job.at))
          /\ UNCHANGED sent
    BY <1>6 DEF ExpireOverdue, Confirm
  <2>2. rows[job.id] \in Row
    BY DEF JobsHaveRows
  <2>3. /\ Expired(rows[job.id]).active \in {rows[job.id].active, FALSE}
        /\ Delivered(rows[job.id], job.at).active \in {rows[job.id].active, FALSE}
    BY <2>2, WritesOnlyDeactivate
  <2>4. QED BY <2>1, <2>3, RecordSettles
<1>7. ASSUME NEW p \in Processes, Block(p) \/ Fail(p) PROVE Lifecycle!Next
  <2>1. PICK job \in batch[p], error \in Errors : RecordFailure(p, job, error)
    BY <1>7 DEF Block, Fail, Errors
  <2> DEFINE row == Retried(rows[job.id], job.attempts + 1, job.at, error)
  <2>2. Record(p, job, row) /\ UNCHANGED sent
    BY <2>1 DEF RecordFailure
  <2>3. rows[job.id] \in Row
    BY DEF JobsHaveRows
  <2>4. row.active \in {rows[job.id].active, FALSE}
    BY <2>3, WritesOnlyDeactivate
  <2> HIDE DEF row
  <2>5. QED BY <2>2, <2>4, RecordSettles
<1>8. ASSUME NEW p \in Processes, NEW job \in batch[p], NEW stage,
             batch' = [batch EXCEPT ![p] = (@ \ {job}) \cup {[job EXCEPT !.stage = stage]}]
      PROVE  UNCHANGED Undertaken
  <2>1. [job EXCEPT !.stage = stage].id = job.id
    BY DEF Job
  <2>2. ASSUME NEW i \in Ids PROVE Holders(i)' = Holders(i)
    <3>1. \A q \in Processes \ {p} : batch'[q] = batch[q]
      BY <1>8
    <3>2. (\E k \in batch'[p] : k.id = i) <=> (\E k \in batch[p] : k.id = i)
      BY <1>8, <2>1
    <3>3. QED BY <3>1, <3>2 DEF Holders
  <2>3. QED BY <2>2 DEF Undertaken
<1>9. ASSUME NEW p \in Processes, Send(p) PROVE UNCHANGED <<Phase, Undertaken, sent>>
  BY <1>8, <1>9 DEF Send, Phase
<1>10. ASSUME NEW p \in Processes, Arrive(p) PROVE Lifecycle!Next
  <2>1. PICK job \in batch[p] :
          /\ batch' = [batch EXCEPT
               ![p] = (@ \ {job}) \cup {[job EXCEPT !.stage = "delivered"]}]
          /\ sent' = sent \cup {job.id}
          /\ UNCHANGED rows
    BY <1>10 DEF Arrive
  <2>2. job.id \in Ids /\ p \in Undertaken[job.id]
    BY DEF Job, Undertaken, Holders
  <2>3. UNCHANGED <<Phase, Undertaken>>
    BY <1>8, <2>1 DEF Phase
  <2>4. Lifecycle!Tell(p, job.id)
    BY <2>1, <2>2, <2>3 DEF Lifecycle!Tell
  <2>5. QED BY <2>2, <2>4 DEF Lifecycle!Next
<1>11. ASSUME NEW p \in Processes, Abort(p) PROVE Lifecycle!Next
  <2>1. PICK job \in batch[p] : batch' = [batch EXCEPT ![p] = @ \ {job}]
    BY <1>11 DEF Abort
  <2>2. UNCHANGED <<Phase, sent>>
    BY <1>11 DEF Abort, Phase
  <2>3. job.id \in Ids /\ p \in Undertaken[job.id]
    BY DEF Job, Undertaken, Holders
  <2>4. Undertaken' = [Undertaken EXCEPT ![job.id] = @ \ {p}]
    <3>1. \A i \in Ids : Holders(i)' = IF i = job.id THEN Holders(i) \ {p} ELSE Holders(i)
      BY <2>1 DEF Holders, Claims, OneJobPerRow
    <3>2. QED BY <3>1 DEF Undertaken
  <2>5. Lifecycle!Settle(p, job.id)
    BY <2>2, <2>3, <2>4 DEF Lifecycle!Settle
  <2>6. QED BY <2>3, <2>5 DEF Lifecycle!Next
<1>12. ASSUME NEW p \in Processes, Crash(p) PROVE Lifecycle!Next
  <2>1. /\ batch' = [batch EXCEPT ![p] = {}]
        /\ UNCHANGED <<rows, sent>>
    BY <1>12 DEF Crash
  <2>2. Undertaken' = [i \in Ids |-> Undertaken[i] \ {p}]
    BY <2>1 DEF Undertaken, Holders
  <2>3. Lifecycle!Lose(p)
    BY <2>1, <2>2 DEF Lifecycle!Lose, Phase
  <2>4. QED BY <2>3 DEF Lifecycle!Next
<1>13. ASSUME (\E u \in Family : SetAccess(u)) \/ Tick \/ UNCHANGED vars
       PROVE  UNCHANGED <<Phase, Undertaken, sent>>
  BY <1>1, <1>13 DEF SetAccess, Tick, vars
<1>14. QED
  BY <1>2, <1>3, <1>4, <1>5, <1>6, <1>7, <1>9, <1>10, <1>11, <1>12, <1>13
  DEF Next, UserStep, SchedulerStep

(* The reminder subsystem keeps the promise of ReminderLifecycle, whatever    *)
(* the processes, threads, users, rows and settings.                         *)
THEOREM LifecycleImplemented == Spec => LifecycleKept
  BY LifecycleInit, LifecycleStep, ShapeAlways, ClaimsAlways, PTL
  DEF Spec, LifecycleKept, Lifecycle!Spec

-------------------------------------------------------------------------------
(* The intake.  Of what happens to the table only three steps of a creation  *)
(* matter, the count, the look-up and the insert; all other steps amend rows. *)

IsCreating(w) == w.step \in {"counted", "fresh"}

Amends(r, s) ==
  /\ s.req = r.req
  /\ s.created = r.created
  /\ s.active \in {r.active, FALSE}
  /\ (r.active => Live(r)) => (s.active => Live(s))
  /\ "update" \notin Commands => s.sched = r.sched

RowsAmended ==
  /\ DOMAIN rows' = DOMAIN rows
  /\ \A i \in DOMAIN rows : Amends(rows[i], rows'[i])

NobodyCreates ==
  /\ RowsAmended
  /\ \A t \in Threads : thread'[t] = thread[t] \/ ~ IsCreating(thread'[t])
  /\ now' \in Nat /\ now <= now'

LEMMA SameAmends == \A r : r.active \in BOOLEAN => Amends(r, r)
  BY DEF Amends

LEMMA WritesAmend ==
  ASSUME NEW r \in Row
  PROVE  /\ Amends(r, Expired(r))
         /\ \A at : Amends(r, Delivered(r, at))
         /\ \A k, at, e : Amends(r, Retried(r, k, at, e))
         /\ \A p \in Processes : Amends(r, Claimed(r, p))
<1>1. LeaseFree(r) \in Row /\ LeaseFree(r).active = r.active /\ LeaseFree(r).req = r.req
      /\ LeaseFree(r).created = r.created /\ LeaseFree(r).sched = r.sched
  BY LeaseFreeType DEF LeaseFree, Row
<1>2. Amends(r, Expired(r))
  BY <1>1 DEF Expired, Row, Amends, Live
<1>3. \A at : Amends(r, Delivered(r, at))
  BY <1>1 DEF Delivered, Row, Amends, Live
<1>4. ASSUME NEW k, NEW at, NEW e PROVE Amends(r, Retried(r, k, at, e))
  <2> DEFINE s == Retried(r, k, at, e)
  <2>1. s.req = r.req /\ s.created = r.created
    BY <1>1 DEF Retried, Row
  <2>2. s.sched = r.sched
    BY <1>1 DEF Retried, Row
  <2>3. s.active \in {r.active, FALSE} /\ (s.active => s.status = "scheduled")
    BY <1>1 DEF Retried, Row
  <2>4. QED BY <2>1, <2>2, <2>3 DEF Amends, Live
<1>5. \A p \in Processes : Amends(r, Claimed(r, p))
  BY DEF Claimed, Row, Amends, Live
<1>6. QED BY <1>2, <1>3, <1>4, <1>5

LEMMA CommandsAmend ==
  ASSUME NEW r \in Row,
         NEW w \in [step : {"resolved"}, command : Commands \ {"create"},
                    id : Ids, next : Nat]
  PROVE  Amends(r, Obeyed(r, w))
<1>1. w.command \in {"cancel", "pause", "resume", "update"} /\ w.command \in Commands
  BY CommandAssumption
<1>2. LeaseFree(r) \in Row /\ LeaseFree(r).active = r.active /\ LeaseFree(r).req = r.req
      /\ LeaseFree(r).created = r.created /\ LeaseFree(r).sched = r.sched
  BY LeaseFreeType DEF LeaseFree, Row
<1>3. Amends(r, Cancelled(r)) /\ Amends(r, Paused(r))
  BY <1>2 DEF Cancelled, Paused, Row, Amends, Live
<1>4. Amends(r, Resumed(r, w.next))
  BY DEF Resumed, Row, Amends, Live
<1>5. w.command = "update" => Amends(r, Moved(r, w.next))
  BY <1>1 DEF Moved, Row, Amends, Live
<1>6. QED BY <1>1, <1>3, <1>4, <1>5 DEF Obeyed

LEMMA WriteOfOne ==
  ASSUME Shape, NEW i \in DOMAIN rows, NEW row, Amends(rows[i], row),
         rows' = [rows EXCEPT ![i] = row]
  PROVE  RowsAmended
<1>1. \A j \in DOMAIN rows : Amends(rows[j], rows[j])
  BY SameAmends DEF Shape, TypeOK, Row
<1>2. QED BY <1>1 DEF RowsAmended

LEMMA IntakeSteps ==
  ASSUME Shape, [Next]_vars
  PROVE  \/ \E t \in Threads : CreateCount(t) \/ CreateDedup(t) \/ CreateInsert(t)
         \/ NobodyCreates
<1>0. now \in Nat /\ UNCHANGED rows => RowsAmended
  BY SameAmends DEF Shape, TypeOK, Row, RowsAmended
<1>1. ASSUME NEW t \in Threads, Resolve(t) PROVE NobodyCreates
  BY <1>0, <1>1 DEF Resolve, NobodyCreates, IsCreating, Shape, TypeOK
<1>2. ASSUME NEW t \in Threads, Commit(t) PROVE NobodyCreates
  <2>1. /\ thread[t] \in [step : {"resolved"}, command : Commands \ {"create"},
                          id : Ids, next : Nat]
        /\ thread[t].id \in DOMAIN rows
    BY <1>2 DEF Commit, Shape, TypeOK, Work, Idle, CommandsHaveRows
  <2>2. rows' = [rows EXCEPT ![thread[t].id] = Obeyed(rows[thread[t].id], thread[t])]
    BY <1>2 DEF Commit
  <2>3. RowsAmended
    BY <2>1, <2>2, CommandsAmend, WriteOfOne DEF Shape, TypeOK
  <2>4. QED BY <1>0, <1>2, <2>3 DEF Commit, NobodyCreates, IsCreating, Idle, Shape, TypeOK
<1>3. ASSUME NEW p \in Processes, Claim(p) PROVE NobodyCreates
  <2>1. PICK S \in SUBSET DOMAIN rows :
          rows' = [i \in DOMAIN rows |-> IF i \in S THEN Claimed(rows[i], p) ELSE rows[i]]
    BY <1>3 DEF Claim
  <2>2. \A i \in DOMAIN rows : Amends(rows[i], Claimed(rows[i], p)) /\ Amends(rows[i], rows[i])
    BY WritesAmend, SameAmends DEF Shape, TypeOK, Row
  <2>3. RowsAmended
    BY <2>1, <2>2 DEF RowsAmended
  <2>4. QED BY <1>0, <1>3, <2>3 DEF Claim, NobodyCreates, Shape, TypeOK
<1>4. ASSUME NEW p \in Processes, NEW job \in batch[p], NEW row, Record(p, job, row),
             Amends(rows[job.id], row)
      PROVE  NobodyCreates
  <2>1. job.id \in DOMAIN rows
    BY DEF Shape, JobsHaveRows
  <2>2. RowsAmended
    BY <1>4, <2>1, WriteOfOne DEF Record
  <2>3. QED BY <1>0, <1>4, <2>2 DEF Record, NobodyCreates, Shape, TypeOK
<1>5. \A p \in Processes : \A job \in batch[p] : rows[job.id] \in Row
  BY DEF Shape, TypeOK, JobsHaveRows
<1>6. ASSUME NEW p \in Processes,
             ExpireOverdue(p) \/ Block(p) \/ Fail(p) \/ Confirm(p)
      PROVE  NobodyCreates
  <2>1. PICK job \in batch[p] :
          \E row : Record(p, job, row) /\ Amends(rows[job.id], row)
    BY <1>5, <1>6, WritesAmend DEF ExpireOverdue, Block, Fail, Confirm, RecordFailure
  <2>2. QED BY <1>4, <2>1
<1>7. ASSUME NEW p \in Processes, Send(p) \/ Arrive(p) \/ Abort(p) PROVE NobodyCreates
  BY <1>0, <1>7 DEF Send, Arrive, Abort, NobodyCreates, Shape, TypeOK
<1>8. ASSUME NEW p \in Processes, Crash(p) PROVE NobodyCreates
  BY <1>0, <1>8 DEF Crash, NobodyCreates, IsCreating, Idle, Shape, TypeOK
<1>9. CASE (\E u \in Family : SetAccess(u)) \/ Tick \/ UNCHANGED vars
  BY <1>0, <1>9 DEF SetAccess, Tick, vars, NobodyCreates, Shape, TypeOK
<1>10. QED BY <1>1, <1>2, <1>3, <1>6, <1>7, <1>8, <1>9 DEF Next, UserStep, SchedulerStep

(* What an insert does to the table. *)
Inserted(i, t) ==
  /\ i \in Ids \ DOMAIN rows
  /\ rows' = [j \in DOMAIN rows \cup {i} |-> IF j = i THEN NewRow(thread[t]) ELSE rows[j]]
  /\ SameSource(thread[t].req) = {}

LEMMA InsertSteps ==
  ASSUME Shape, NEW t \in Threads, CreateInsert(t)
  PROVE  /\ thread[t].step = "fresh" /\ thread' = [thread EXCEPT ![t] = Idle] /\ now' = now
         /\ UNCHANGED rows \/ \E i : Inserted(i, t)
         /\ thread[t] \in [step : {"counted", "fresh"}, req : Requests, when : Nat, at : Nat]
<1>1. thread[t].step = "fresh" /\ thread' = [thread EXCEPT ![t] = Idle] /\ now' = now
  BY DEF CreateInsert
<1>2. UNCHANGED rows \/ \E i : Inserted(i, t)
  BY DEF CreateInsert, Inserted
<1>3. thread[t] \in Work /\ Idle.step # "fresh"
  BY DEF Shape, TypeOK, Idle
<1>4. thread[t] \in [step : {"counted", "fresh"}, req : Requests, when : Nat, at : Nat]
  BY <1>1, <1>3 DEF Work
<1>5. QED BY <1>1, <1>2, <1>4

LEMMA OneRowNext == Shape /\ OneRowPerMessage /\ [Next]_vars => OneRowPerMessage'
<1> SUFFICES ASSUME Shape, OneRowPerMessage, [Next]_vars PROVE OneRowPerMessage'
  OBVIOUS
<1>1. CASE NobodyCreates
  BY <1>1 DEF NobodyCreates, RowsAmended, Amends, OneRowPerMessage
<1>2. ASSUME UNCHANGED rows PROVE OneRowPerMessage'
  BY <1>2 DEF OneRowPerMessage
<1>3. ASSUME NEW t \in Threads, NEW i, Inserted(i, t) PROVE OneRowPerMessage'
  <2>1. /\ DOMAIN rows' = DOMAIN rows \cup {i}
        /\ rows'[i].req = thread[t].req
        /\ \A j \in DOMAIN rows : rows'[j] = rows[j]
    BY <1>3 DEF Inserted, NewRow
  <2>2. \A j \in DOMAIN rows : ~ ( /\ thread[t].req.source # NoSource
                                   /\ rows[j].req.user = thread[t].req.user
                                   /\ rows[j].req.private = thread[t].req.private
                                   /\ rows[j].req.source = thread[t].req.source )
    BY <1>3 DEF Inserted, SameSource
  <2>3. QED BY <2>1, <2>2 DEF OneRowPerMessage
<1>4. QED BY <1>1, <1>2, <1>3, IntakeSteps, InsertSteps DEF CreateCount, CreateDedup

(* One Telegram message makes one reminder, whichever threads handle it and  *)
(* in whatever order (idx_reminders_source_unique).                          *)
THEOREM MessagesMakeOneRow == Spec => []OneRowPerMessage
<1>1. Init => OneRowPerMessage
  BY DEF Init, OneRowPerMessage
<1>2. QED BY <1>1, OneRowNext, ShapeAlways, PTL DEF Spec

(* Counting: a row more for a thread less. *)
LEMMA ThreadSets ==
  ASSUME NEW S \in SUBSET Threads
  PROVE  /\ IsFiniteSet(S) /\ Cardinality(S) \in Nat /\ Cardinality(Threads) \in Nat \ {0}
         /\ Cardinality(S) <= Cardinality(Threads)
BY ThreadAssumption, FS_Subset, FS_CardinalityType, FS_EmptySet

LEMMA Fewer ==
  ASSUME NEW A, NEW B, IsFiniteSet(A), IsFiniteSet(B),
         NEW C \in SUBSET A, NEW D \in SUBSET B, NEW m \in Nat,
         Cardinality(A) + Cardinality(B) <= m
  PROVE  Cardinality(C) + Cardinality(D) <= m
<1>1. /\ Cardinality(C) <= Cardinality(A) /\ Cardinality(D) <= Cardinality(B)
      /\ IsFiniteSet(C) /\ IsFiniteSet(D)
  BY FS_Subset
<1>2. Cardinality(A) \in Nat /\ Cardinality(B) \in Nat /\ Cardinality(C) \in Nat /\ Cardinality(D) \in Nat
  BY <1>1, FS_CardinalityType
<1>3. QED BY <1>1, <1>2

LEMMA Exchanged ==
  ASSUME NEW A, NEW B, IsFiniteSet(A), IsFiniteSet(B), NEW n, NEW t \in B, NEW m \in Nat,
         Cardinality(A) + Cardinality(B) <= m
  PROVE  /\ IsFiniteSet(A \union {n}) /\ IsFiniteSet(B \ {t})
         /\ Cardinality(A \union {n}) + Cardinality(B \ {t}) <= m
<1>1. /\ IsFiniteSet(A \union {n}) /\ IsFiniteSet(B \ {t})
      /\ Cardinality(A) \in Nat /\ Cardinality(B) \in Nat
  BY FS_AddElement, FS_RemoveElement, FS_CardinalityType
<1>2. Cardinality(A \union {n}) = IF n \in A THEN Cardinality(A) ELSE Cardinality(A) + 1
  BY FS_AddElement
<1>3. Cardinality(B \ {t}) = Cardinality(B) - 1
  BY FS_RemoveElement
<1>4. QED BY <1>1, <1>2, <1>3

(* The limit: who has passed it and not yet inserted counts as well.         *)
Creating(u) == {t \in Threads : IsCreating(thread[t]) /\ thread[t].req.user = u}

LimitInv ==
  /\ IsFiniteSet(DOMAIN rows)
  /\ \A i \in DOMAIN rows : rows[i].active => Live(rows[i])
  /\ \A u \in Users : Cardinality(ActiveIds(u)) + Cardinality(Creating(u))
                        <= MaxActive + Cardinality(Threads) - 1

LEMMA LimitInit == Init => LimitInv
<1> SUFFICES ASSUME Init PROVE LimitInv
  OBVIOUS
<1>1. DOMAIN rows = {} /\ IsFiniteSet({}) /\ Cardinality({}) = 0
  BY FS_EmptySet DEF Init
<1>2. \A u \in Users : ActiveIds(u) = {} /\ Creating(u) = {}
  BY <1>1 DEF Init, ActiveIds, Creating, IsCreating, Idle
<1>3. Cardinality(Threads) \in Nat \ {0} /\ MaxActive \in Nat
  BY ThreadSets, TimingAssumption
<1>4. \A u \in Users : Cardinality(ActiveIds(u)) + Cardinality(Creating(u)) = 0
  BY <1>1, <1>2
<1>5. 0 <= MaxActive + Cardinality(Threads) - 1
  BY <1>3
<1>6. QED BY <1>1, <1>4, <1>5 DEF LimitInv

LEMMA LimitNext == Shape /\ LimitInv /\ [Next]_vars => LimitInv'
<1> SUFFICES ASSUME Shape, LimitInv, [Next]_vars PROVE LimitInv'
  OBVIOUS
<1> DEFINE m == MaxActive + Cardinality(Threads) - 1
<1>0. m \in Nat /\ MaxActive \in Nat
  BY ThreadSets, TimingAssumption
<1>1. \A u : Creating(u) \in SUBSET Threads /\ Creating(u)' \in SUBSET Threads
             /\ IsFiniteSet(Creating(u)) /\ IsFiniteSet(ActiveIds(u))
             /\ Cardinality(ActiveIds(u)) \in Nat
  BY ThreadSets, FS_Subset, FS_CardinalityType DEF LimitInv, Creating, ActiveIds
<1>2. \A u \in Users : Cardinality(ActiveIds(u)) + Cardinality(Creating(u)) <= m
  BY DEF LimitInv
<1> HIDE DEF m
<1>3. ASSUME NEW u \in Users, ActiveIds(u)' \subseteq ActiveIds(u), Creating(u)' \subseteq Creating(u)
      PROVE  Cardinality(ActiveIds(u)') + Cardinality(Creating(u)') <= m
  BY <1>0, <1>1, <1>2, <1>3, Fewer
<1>4. CASE NobodyCreates
  <2>1. DOMAIN rows' = DOMAIN rows /\ \A i \in DOMAIN rows : Amends(rows[i], rows'[i])
    BY <1>4 DEF NobodyCreates, RowsAmended
  <2>2. \A i \in DOMAIN rows' : rows'[i].active => Live(rows'[i])
    BY <2>1 DEF LimitInv, Amends
  <2>3. \A u : ActiveIds(u)' \subseteq ActiveIds(u)
    BY <2>1 DEF LimitInv, Amends, ActiveIds, Live
  <2>4. \A u : Creating(u)' \subseteq Creating(u)
    BY <1>4 DEF NobodyCreates, Creating
  <2>5. QED BY <1>3, <2>1, <2>2, <2>3, <2>4 DEF LimitInv, m
<1>5. ASSUME UNCHANGED rows PROVE \A u : ActiveIds(u)' = ActiveIds(u)
  BY <1>5 DEF ActiveIds
<1>6. ASSUME NEW t \in Threads, CreateCount(t) PROVE LimitInv'
  <2>1. PICK q \in Requests, when \in (now + MinLead) .. MaxTime :
          /\ BelowLimit(q.user)
          /\ thread' = [thread EXCEPT
               ![t] = [step |-> "counted", req |-> q, when |-> when, at |-> now]]
    BY <1>6 DEF CreateCount
  <2>2. rows' = rows
    BY <1>6 DEF CreateCount
  <2>3. ASSUME NEW u \in Users, u # q.user PROVE Creating(u)' \subseteq Creating(u)
    BY <2>1, <2>3 DEF Creating, IsCreating, Shape, TypeOK
  <2>4. Cardinality(ActiveIds(q.user)') + Cardinality(Creating(q.user)') <= m
    <3>1. Cardinality(Creating(q.user)') <= Cardinality(Threads) /\ Cardinality(Creating(q.user)') \in Nat
          /\ Cardinality(Threads) \in Nat
      BY <1>1, ThreadSets
    <3>2. Cardinality(ActiveIds(q.user)') < MaxActive
      BY <1>5, <2>1, <2>2 DEF BelowLimit
    <3>3. Cardinality(ActiveIds(q.user)') \in Nat
      BY <1>1, <1>5, <2>2
    <3>4. QED BY <1>0, <3>1, <3>2, <3>3 DEF m
  <2>5. \A u \in Users : Cardinality(ActiveIds(u)') + Cardinality(Creating(u)') <= m
    BY <1>3, <1>5, <2>2, <2>3, <2>4
  <2>6. QED BY <2>2, <2>5 DEF LimitInv, m
<1>7. ASSUME NEW t \in Threads, thread' \in [Threads -> Work],
             \A s \in Threads \ {t} : thread'[s] = thread[s],
             UNCHANGED rows,
             IsCreating(thread'[t]) => IsCreating(thread[t]) /\ thread'[t].req = thread[t].req
      PROVE  LimitInv'
  <2>1. \A u : Creating(u)' \subseteq Creating(u)
    BY <1>7 DEF Creating
  <2>2. QED BY <1>3, <1>5, <1>7, <2>1 DEF LimitInv, m
<1>8. Shape'
  BY ShapeNext
<1>9. ASSUME NEW t \in Threads, CreateDedup(t) PROVE LimitInv'
  <2>1. /\ thread[t].step = "counted" /\ rows' = rows
        /\ thread' = [thread EXCEPT
             ![t] = IF Duplicates(thread[t]) # {} THEN Idle ELSE [thread[t] EXCEPT !.step = "fresh"]]
    BY <1>9 DEF CreateDedup
  <2>2. thread[t] \in [step : {"counted", "fresh"}, req : Requests, when : Nat, at : Nat]
    BY <2>1 DEF Shape, TypeOK, Work, Idle
  <2>3. [thread[t] EXCEPT !.step = "fresh"].req = thread[t].req
    BY <2>2
  <2>4. IsCreating(thread[t]) /\ ~ IsCreating(Idle)
    BY <2>1 DEF IsCreating, Idle
  <2>5. QED BY <1>7, <1>8, <2>1, <2>3, <2>4 DEF Shape, TypeOK
<1>10. ASSUME NEW t \in Threads, CreateInsert(t) PROVE LimitInv'
  <2>1. /\ thread[t].step = "fresh" /\ thread' = [thread EXCEPT ![t] = Idle]
        /\ thread[t].req \in Requests /\ thread \in [Threads -> Work]
    BY <1>10, InsertSteps DEF Shape, TypeOK
  <2>2. thread'[t] = Idle /\ (\A s \in Threads \ {t} : thread'[s] = thread[s]) /\ ~ IsCreating(Idle)
    BY <2>1 DEF IsCreating, Idle
  <2>3. CASE UNCHANGED rows
    BY <1>7, <1>8, <2>2, <2>3 DEF Shape, TypeOK
  <2>4. ASSUME NEW i, Inserted(i, t) PROVE LimitInv'
    <3>0. PICK v \in Users : v = thread[t].req.user
      BY <2>1, RequestAssumption
    <3>1. /\ DOMAIN rows' = DOMAIN rows \cup {i} /\ i \notin DOMAIN rows
          /\ rows'[i] = NewRow(thread[t])
          /\ \A j \in DOMAIN rows : rows'[j] = rows[j]
      BY <2>4 DEF Inserted
    <3>2. NewRow(thread[t]).req = thread[t].req /\ Live(NewRow(thread[t]))
      BY DEF NewRow, Live
    <3>3. IsFiniteSet(DOMAIN rows')
      BY <3>1, FS_AddElement DEF LimitInv
    <3>4. \A j \in DOMAIN rows' : rows'[j].active => Live(rows'[j])
      BY <3>1, <3>2 DEF LimitInv
    <3>6. t \in Creating(v) /\ Creating(v)' \subseteq Creating(v) \ {t}
      BY <2>1, <2>2, <3>0 DEF Creating, IsCreating
    <3>7. ActiveIds(v)' \subseteq ActiveIds(v) \cup {i}
      BY <3>1, <3>2 DEF ActiveIds
    <3>8. Cardinality(ActiveIds(v)') + Cardinality(Creating(v)') <= m
      <4>1. /\ IsFiniteSet(ActiveIds(v) \cup {i}) /\ IsFiniteSet(Creating(v) \ {t})
            /\ Cardinality(ActiveIds(v) \cup {i}) + Cardinality(Creating(v) \ {t}) <= m
        BY <1>0, <1>1, <1>2, <3>6, Exchanged
      <4>2. QED BY <1>0, <3>6, <3>7, <4>1, Fewer
    <3>9. ASSUME NEW u \in Users, u # v
          PROVE  ActiveIds(u)' \subseteq ActiveIds(u) /\ Creating(u)' \subseteq Creating(u)
      BY <2>2, <3>0, <3>1, <3>2, <3>9 DEF ActiveIds, Creating
    <3>10. \A u \in Users : Cardinality(ActiveIds(u)') + Cardinality(Creating(u)') <= m
      BY <1>3, <3>8, <3>9
    <3>11. QED BY <3>3, <3>4, <3>10 DEF LimitInv, m
  <2>5. QED BY <1>10, <2>3, <2>4, InsertSteps
<1>11. QED BY <1>4, <1>6, <1>9, <1>10, IntakeSteps

(* A user's active reminders pass the limit by no more than the other        *)
(* threads that may have been under way (service.create).                    *)
THEOREM OvershootIsBounded == Spec => []LimitOvershootBounded
<1>1. LimitInv => LimitOvershootBounded
  <2> SUFFICES ASSUME LimitInv, NEW u \in Users
               PROVE  Cardinality(ActiveIds(u)) <= MaxActive + Cardinality(Threads) - 1
    BY DEF LimitOvershootBounded
  <2>1. Cardinality(Creating(u)) \in Nat /\ Cardinality(Threads) \in Nat /\ MaxActive \in Nat
    BY ThreadSets, TimingAssumption DEF Creating
  <2>2. Cardinality(ActiveIds(u)) \in Nat
    BY FS_Subset, FS_CardinalityType DEF LimitInv, ActiveIds
  <2>3. QED BY <2>1, <2>2 DEF LimitInv
<1>2. QED BY <1>1, LimitInit, LimitNext, ShapeAlways, PTL DEF Spec

(* The duplicates: a thread that has looked in vain for reminder i's key     *)
(* looked before i was there, or so long after it that its own row will be   *)
(* outside i's window.                                                       *)
KeyOf(i) == DedupKey(rows[i].req, rows[i].sched)

Copies(i) ==
  {j \in DOMAIN rows :
     /\ rows[i].active /\ rows[j].active
     /\ DedupKey(rows[j].req, rows[j].sched) = DedupKey(rows[i].req, rows[i].sched)
     /\ rows[j].created \in rows[i].created .. rows[i].created + DedupWindow}

Copying(i) ==
  {t \in Threads : /\ thread[t].step = "fresh"
                   /\ DedupKey(thread[t].req, thread[t].when) = KeyOf(i)
                   /\ thread[t].at <= rows[i].created + DedupWindow}

DupInv ==
  /\ IsFiniteSet(DOMAIN rows)
  /\ \A i \in DOMAIN rows : rows[i].created <= now
  /\ \A t \in Threads : IsCreating(thread[t]) => thread[t].at <= now
  /\ \A i \in DOMAIN rows :
       rows[i].active => Cardinality(Copies(i)) + Cardinality(Copying(i)) <= Cardinality(Threads)

LEMMA DupTypes ==
  ASSUME Shape, DupInv, NEW i
  PROVE  /\ IsFiniteSet(Copies(i)) /\ IsFiniteSet(Copying(i))
         /\ Copying(i)' \in SUBSET Threads /\ Cardinality(Threads) \in Nat
BY ThreadSets, FS_Subset DEF DupInv, Copies, Copying

(* Row i keeps its bound as long as nobody joins its copies or their makers. *)
LEMMA CopiesShrink ==
  ASSUME Shape, DupInv, NEW i \in DOMAIN rows, rows[i].active,
         Copies(i)' \subseteq Copies(i), Copying(i)' \subseteq Copying(i)
  PROVE  Cardinality(Copies(i)') + Cardinality(Copying(i)') <= Cardinality(Threads)
<1>1. Cardinality(Copies(i)) + Cardinality(Copying(i)) <= Cardinality(Threads)
  BY DEF DupInv
<1>2. QED BY <1>1, DupTypes, Fewer

LEMMA CopiesExchange ==
  ASSUME Shape, DupInv, NEW i \in DOMAIN rows, rows[i].active, NEW n, NEW t \in Copying(i),
         NEW k, Copies(k)' \subseteq Copies(i) \cup {n}, Copying(k)' \subseteq Copying(i) \ {t}
  PROVE  Cardinality(Copies(k)') + Cardinality(Copying(k)') <= Cardinality(Threads)
<1>1. Cardinality(Copies(i)) + Cardinality(Copying(i)) <= Cardinality(Threads)
  BY DEF DupInv
<1>2. /\ IsFiniteSet(Copies(i) \cup {n}) /\ IsFiniteSet(Copying(i) \ {t})
      /\ Cardinality(Copies(i) \cup {n}) + Cardinality(Copying(i) \ {t}) <= Cardinality(Threads)
  BY <1>1, DupTypes, Exchanged
<1>3. QED BY <1>2, DupTypes, Fewer

(* Where the table stays, only a thread that turns fresh could disturb.      *)
LEMMA CopiesStay ==
  ASSUME Shape, DupInv, UNCHANGED rows, NEW t \in Threads,
         \A s \in Threads \ {t} : thread'[s] = thread[s],
         \A i \in DOMAIN rows : rows[i].active => t \notin Copying(i)',
         IsCreating(thread'[t]) => thread'[t].at <= now', now' = now
  PROVE  DupInv'
<1>1. ASSUME NEW i \in DOMAIN rows, rows[i].active
      PROVE  Cardinality(Copies(i)') + Cardinality(Copying(i)') <= Cardinality(Threads)
  <2>1. Copies(i)' \subseteq Copies(i)
    BY DEF Copies
  <2>2. Copying(i)' \subseteq Copying(i)
    BY <1>1 DEF Copying, KeyOf
  <2>3. QED BY <1>1, <2>1, <2>2, CopiesShrink
<1>2. QED BY <1>1 DEF DupInv

LEMMA DupInsert ==
  ASSUME Shape, DupInv, NEW t \in Threads, CreateInsert(t), NEW n, Inserted(n, t)
  PROVE  DupInv'
<1>1. /\ DOMAIN rows' = DOMAIN rows \cup {n} /\ n \notin DOMAIN rows
      /\ rows'[n] = NewRow(thread[t]) /\ \A j \in DOMAIN rows : rows'[j] = rows[j]
  BY DEF Inserted
<1>2. /\ thread[t].step = "fresh" /\ now' = now /\ now \in Nat /\ DedupWindow \in Nat
      /\ thread[t].at \in Nat /\ thread[t].at <= now
      /\ thread'[t] = Idle /\ \A s \in Threads \ {t} : thread'[s] = thread[s]
  BY InsertSteps, TimingAssumption DEF Shape, TypeOK, DupInv, IsCreating
<1>3. /\ rows'[n].req = thread[t].req /\ rows'[n].sched = thread[t].when
      /\ rows'[n].created = now /\ rows'[n].active = TRUE
  BY <1>1 DEF NewRow
<1>4. \A j \in DOMAIN rows : rows[j].created \in Nat /\ rows[j].created <= now
  BY DEF Shape, TypeOK, Row, DupInv
<1>5. Idle.step # "fresh"
  BY DEF Idle
<1>6. ASSUME NEW i \in DOMAIN rows, rows[i].active
      PROVE  Cardinality(Copies(i)') + Cardinality(Copying(i)') <= Cardinality(Threads)
  <2>1. Copies(i)' \subseteq Copies(i) \cup {n}
    BY <1>1 DEF Copies
  <2>2. Copying(i)' \subseteq Copying(i) \ {t}
    BY <1>1, <1>2, <1>5 DEF Copying, KeyOf
  <2>3. CASE n \in Copies(i)'
    <3>1. /\ DedupKey(thread[t].req, thread[t].when) = KeyOf(i)
          /\ now <= rows[i].created + DedupWindow
      BY <1>1, <1>2, <1>3, <1>4, <2>3 DEF Copies, KeyOf
    <3>2. thread[t].at <= rows[i].created + DedupWindow
      BY <1>2, <1>4, <3>1
    <3>3. t \in Copying(i)
      BY <1>2, <3>1, <3>2 DEF Copying
    <3>4. QED BY <1>6, <2>1, <2>2, <3>3, CopiesExchange
  <2>4. CASE n \notin Copies(i)'
    <3>1. Copies(i)' \subseteq Copies(i) /\ Copying(i)' \subseteq Copying(i)
      BY <2>1, <2>2, <2>4
    <3>2. QED BY <1>6, <3>1, CopiesShrink
  <2>5. QED BY <2>3, <2>4
<1>7. Cardinality(Copies(n)') + Cardinality(Copying(n)') <= Cardinality(Threads)
  <2>1. CASE Copies(n)' \subseteq {n}
    <3>1. IsFiniteSet({n}) /\ Cardinality({n}) = 1 /\ IsFiniteSet(Threads)
      BY FS_Singleton, ThreadAssumption
    <3>2. /\ IsFiniteSet(Threads \ {t}) /\ Cardinality(Threads \ {t}) = Cardinality(Threads) - 1
          /\ Cardinality(Threads) \in Nat
      BY <3>1, FS_RemoveElement, FS_CardinalityType
    <3>3. Copying(n)' \subseteq Threads \ {t}
      BY <1>2, <1>5 DEF Copying
    <3>4. Cardinality({n}) + Cardinality(Threads \ {t}) <= Cardinality(Threads)
      BY <3>1, <3>2
    <3>5. QED BY <2>1, <3>1, <3>2, <3>3, <3>4, Fewer
  <2>2. ASSUME NEW j \in Copies(n)', j # n
        PROVE  Cardinality(Copies(n)') + Cardinality(Copying(n)') <= Cardinality(Threads)
    <3>1. /\ j \in DOMAIN rows /\ rows[j].active /\ rows[j].created = now
          /\ KeyOf(j) = DedupKey(thread[t].req, thread[t].when)
      BY <1>1, <1>2, <1>3, <1>4, <2>2 DEF Copies, KeyOf
    <3>2. Copies(n)' \subseteq Copies(j) \cup {n}
      BY <1>1, <1>3, <3>1 DEF Copies, KeyOf
    <3>3. Copying(n)' \subseteq Copying(j) \ {t}
      BY <1>1, <1>2, <1>3, <1>5, <3>1 DEF Copying, KeyOf
    <3>4. t \in Copying(j)
      <4>1. thread[t].at <= rows[j].created + DedupWindow
        BY <1>2, <3>1
      <4>2. QED BY <1>2, <3>1, <4>1 DEF Copying
    <3>5. QED BY <3>1, <3>2, <3>3, <3>4, CopiesExchange
  <2>3. QED BY <2>1, <2>2
<1>8. IsFiniteSet(DOMAIN rows')
  BY <1>1, FS_AddElement DEF DupInv
<1>9. \A s \in Threads : IsCreating(thread'[s]) => thread'[s].at <= now'
  BY <1>2 DEF DupInv, IsCreating, Idle
<1>10. \A i \in DOMAIN rows' : rows'[i].created <= now'
  BY <1>1, <1>2, <1>3, <1>4
<1>11. QED BY <1>1, <1>6, <1>7, <1>8, <1>9, <1>10 DEF DupInv

LEMMA DupNext ==
  ASSUME "update" \notin Commands, Shape, DupInv, [Next]_vars
  PROVE  DupInv'
<1>1. CASE NobodyCreates
  <2>1. /\ DOMAIN rows' = DOMAIN rows
        /\ \A i \in DOMAIN rows : Amends(rows[i], rows'[i])
        /\ \A t \in Threads : thread'[t] = thread[t] \/ ~ IsCreating(thread'[t])
        /\ now' \in Nat /\ now <= now' /\ now \in Nat
    BY <1>1 DEF NobodyCreates, RowsAmended, Shape, TypeOK
  <2>2. \A i \in DOMAIN rows : /\ rows'[i].req = rows[i].req /\ rows'[i].sched = rows[i].sched
                               /\ rows'[i].created = rows[i].created
                               /\ rows'[i].active => rows[i].active
    BY <2>1 DEF Amends
  <2>3. ASSUME NEW i \in DOMAIN rows, rows'[i].active
        PROVE  Cardinality(Copies(i)') + Cardinality(Copying(i)') <= Cardinality(Threads)
    <3>1. Copies(i)' \subseteq Copies(i)
      BY <2>1, <2>2 DEF Copies
    <3>2. Copying(i)' \subseteq Copying(i)
      BY <2>1, <2>2 DEF Copying, KeyOf, IsCreating
    <3>3. QED BY <2>2, <2>3, <3>1, <3>2, CopiesShrink
  <2>4. \A i \in DOMAIN rows : rows[i].created \in Nat /\ rows[i].created <= now
    BY DEF Shape, TypeOK, Row, DupInv
  <2>5. \A i \in DOMAIN rows : rows'[i].created <= now'
    BY <2>1, <2>2, <2>4
  <2>6. ASSUME NEW t \in Threads, IsCreating(thread'[t]) PROVE thread'[t].at <= now'
    <3>1. thread'[t] = thread[t] /\ thread[t].at <= now
      BY <2>1, <2>6 DEF DupInv
    <3>2. thread[t].at \in Nat
      BY <2>6, <3>1 DEF Shape, TypeOK, Work, Idle, IsCreating
    <3>3. QED BY <2>1, <3>1, <3>2
  <2>7. QED BY <2>1, <2>3, <2>5, <2>6 DEF DupInv
<1>2. ASSUME NEW t \in Threads, CreateCount(t) PROVE DupInv'
  <2>1. PICK q \in Requests, when \in (now + MinLead) .. MaxTime :
          thread' = [thread EXCEPT
               ![t] = [step |-> "counted", req |-> q, when |-> when, at |-> now]]
    BY <1>2 DEF CreateCount
  <2>2. rows' = rows /\ now' = now /\ now \in Nat
    BY <1>2 DEF CreateCount, Shape, TypeOK
  <2>3. thread'[t].step = "counted" /\ thread'[t].at = now
    BY <2>1 DEF Shape, TypeOK
  <2>4. \A s \in Threads \ {t} : thread'[s] = thread[s]
    BY <2>1 DEF Shape, TypeOK
  <2>5. \A i : t \notin Copying(i)'
    BY <2>3 DEF Copying
  <2>6. QED BY <2>2, <2>3, <2>4, <2>5, CopiesStay
<1>3. ASSUME NEW t \in Threads, CreateDedup(t) PROVE DupInv'
  <2>1. /\ thread[t].step = "counted" /\ rows' = rows /\ now' = now
        /\ thread'[t] = IF Duplicates(thread[t]) # {} THEN Idle ELSE [thread[t] EXCEPT !.step = "fresh"]
        /\ \A s \in Threads \ {t} : thread'[s] = thread[s]
    BY <1>3 DEF CreateDedup, Shape, TypeOK
  <2>2. thread[t] \in [step : {"counted", "fresh"}, req : Requests, when : Nat, at : Nat]
    BY <2>1 DEF Shape, TypeOK, Work, Idle
  <2>3. /\ [thread[t] EXCEPT !.step = "fresh"].req = thread[t].req
        /\ [thread[t] EXCEPT !.step = "fresh"].when = thread[t].when
        /\ [thread[t] EXCEPT !.step = "fresh"].at = thread[t].at
    BY <2>2
  <2>4. thread[t].at <= now
    BY <2>1 DEF DupInv, IsCreating
  <2>5. IsCreating(thread'[t]) => thread'[t].at <= now'
    BY <2>1, <2>3, <2>4 DEF IsCreating, Idle
  <2>6. ASSUME NEW i \in DOMAIN rows, rows[i].active PROVE t \notin Copying(i)'
    <3>1. SUFFICES ASSUME t \in Copying(i)' PROVE FALSE
      OBVIOUS
    <3>2. /\ thread'[t].step = "fresh"
          /\ DedupKey(thread'[t].req, thread'[t].when) = KeyOf(i)
          /\ thread'[t].at <= rows[i].created + DedupWindow
      BY <2>1, <3>1 DEF Copying, KeyOf
    <3>3. Duplicates(thread[t]) = {} /\ thread'[t] = [thread[t] EXCEPT !.step = "fresh"]
      BY <2>1, <3>2 DEF Idle
    <3>4. /\ DedupKey(thread[t].req, thread[t].when) = KeyOf(i)
          /\ thread[t].at <= rows[i].created + DedupWindow
      BY <2>3, <3>2, <3>3
    <3>5. rows[i].created + DedupWindow >= thread[t].at
      BY <3>4
    <3>6. i \in Duplicates(thread[t])
      BY <2>6, <3>4, <3>5 DEF Duplicates, IsRecent, KeyOf
    <3>7. QED BY <3>3, <3>6
  <2>7. QED BY <2>1, <2>5, <2>6, CopiesStay
<1>4. ASSUME NEW t \in Threads, CreateInsert(t) PROVE DupInv'
  <2>1. /\ thread' = [thread EXCEPT ![t] = Idle] /\ now' = now
        /\ UNCHANGED rows \/ \E n : Inserted(n, t)
    BY <1>4, InsertSteps
  <2>2. CASE UNCHANGED rows
    <3>1. thread'[t] = Idle /\ \A s \in Threads \ {t} : thread'[s] = thread[s]
      BY <2>1 DEF Shape, TypeOK
    <3>2. ~ IsCreating(thread'[t]) /\ \A i : t \notin Copying(i)'
      BY <3>1 DEF IsCreating, Idle, Copying
    <3>3. QED BY <2>1, <2>2, <3>1, <3>2, CopiesStay
  <2>3. QED BY <1>4, <2>1, <2>2, DupInsert
<1>5. QED BY <1>1, <1>2, <1>3, <1>4, IntakeSteps

LEMMA DupInit == Init => DupInv
<1> SUFFICES ASSUME Init PROVE DupInv
  OBVIOUS
<1>1. DOMAIN rows = {} /\ \A t \in Threads : ~ IsCreating(thread[t])
  BY DEF Init, IsCreating, Idle
<1>2. QED BY <1>1, FS_EmptySet DEF DupInv

(* Where nothing is moved to another time, reminders that say the same and   *)
(* were made within the window come only from creations that raced: there    *)
(* are never more of them than threads (service._find_dedup).                *)
THEOREM DuplicatesAreBounded ==
  ASSUME "update" \notin Commands
  PROVE  Spec => []DuplicatesBounded
<1>1. Shape /\ DupInv => DuplicatesBounded
  <2> SUFFICES ASSUME Shape, DupInv, NEW i \in DOMAIN rows
               PROVE  Cardinality(Copies(i)) <= Cardinality(Threads)
    BY DEF DuplicatesBounded, Copies
  <2>1. Cardinality(Threads) \in Nat /\ Cardinality(Copying(i)) \in Nat
    BY ThreadSets DEF Copying
  <2>2. Cardinality(Copies(i)) \in Nat
    BY DupTypes, FS_CardinalityType
  <2>3. CASE rows[i].active
    BY <2>1, <2>2, <2>3 DEF DupInv
  <2>4. CASE ~ rows[i].active
    <3>1. Copies(i) = {}
      BY <2>4 DEF Copies
    <3>2. QED BY <2>1, <3>1, FS_EmptySet
  <2>5. QED BY <2>3, <2>4
<1>2. Shape /\ DupInv /\ [Next]_vars => DupInv'
  BY DupNext
<1>3. QED BY <1>1, <1>2, DupInit, ShapeAlways, PTL DEF Spec
=============================================================================
