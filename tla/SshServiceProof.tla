--------------------------- MODULE SshServiceProof ---------------------------
(***************************************************************************)
(* Proofs about SshService, for every set of threads, users, servers and   *)
(* requests, and all limits.                                               *)
(***************************************************************************)
EXTENDS SshService, FiniteSetTheorems, FunctionTheorems, TLAPS

-----------------------------------------------------------------------------
(* The inductive invariant *)

(* Only a loop about to enter or leave waits for the lock or is about to,   *)
(* and only where the lock may be met taken.                                *)
WaiterWaits ==
  /\ lock.waiter # NoLoop =>
       setting.contended /\ phase[lock.waiter] \in {"entering", "leaving"}
  /\ \A l \in lock.late :
       setting.contended /\ phase[l] \in {"entering", "leaving"} /\ lock.waiter # l

(* There is a process exactly between its start and the end of its output.  *)
ProcessInPhase ==
  \A l \in Loops :
    /\ phase[l] \in {"running", "stopping"} => proc[l] # "none"
    /\ phase[l] = "draining" => proc[l] \in {"ok", "bad"}

(* What passes for a success so far rests on an exit with status 0.         *)
SuccessGrounded ==
  \A l \in Loops :
    /\ job[l].good \/ job[l].result \in {"ok", "unparsed"} => clean[l]
    /\ phase[l] = "stopping" => job[l].spoiled \/ job[l].cancelled
    /\ phase[l] \in {"running", "draining"} /\ proc[l] = "ok" =>
         job[l].spoiled \/ job[l].cancelled \/ clean[l]

TakenWithin ==
  /\ taken.all <= setting.all
  /\ \A u \in Users : taken.users[u] <= setting.user
  /\ \A s \in Servers : taken.servers[s] <= setting.server

Typed == TypeOK /\ WaiterWaits /\ PermitsMatch

Reaped == ProcessInPhase /\ ProcessesReaped

IInv == Typed /\ Reaped /\ SuccessGrounded /\ SuccessMeansRan /\ TakenWithin

-----------------------------------------------------------------------------
(* Types *)

LEMMA FreshType == \A r \in Requests : Fresh(r) \in Job
  BY RequestAssumption DEF Fresh, Job, Request

LEMMA NoJobType == NoJob \in Job
<1>1. (CHOOSE r \in Requests : TRUE) \in Requests
  BY RequestAssumption
<1>2. QED BY <1>1, FreshType DEF NoJob

LEMMA FinishType ==
  ASSUME TypeOK, NEW l \in Loops, NEW error \in BOOLEAN,
         NEW how \in {"listed", "success", "failure", "cancelled"},
         Finish(l, how, error)
  PROVE  /\ phase' \in [Loops -> Phases]
         /\ job' \in [Loops -> Job]
         /\ metrics' \in [active : Nat, requests : Nat, failures : Nat]
         /\ outcome' \in [Loops -> {"none", "listed", "success", "failure", "cancelled"}]
<1> DEFINE f == IF error THEN metrics.failures + 1 ELSE metrics.failures
<1>b. PICK a \in Written(l, IF metrics.active = 0 THEN 0 ELSE metrics.active - 1) :
        metrics' = [metrics EXCEPT !.active = a, !.failures = f]
  BY Zenon DEF Finish
<1>a. a \in Nat /\ f \in Nat
  <2>1. metrics.active \in Nat /\ metrics.failures \in Nat
    BY DEF TypeOK
  <2>a. a \in Nat
    BY <2>1 DEF Written
  <2>2. CASE error = TRUE
    BY <2>1, <2>2, <2>a
  <2>3. CASE error = FALSE
    BY <2>1, <2>3, <2>a
  <2>4. QED BY <2>2, <2>3
<1> HIDE DEF f
<1>1. metrics' \in [active : Nat, requests : Nat, failures : Nat]
  BY <1>a, <1>b DEF TypeOK
<1>2. QED BY <1>1, NoJobType DEF TypeOK, Finish, Goto, Phases

LEMMA SettleType ==
  ASSUME TypeOK, NEW l \in Loops, NEW result \in {"none", "ok", "unparsed", "failed"},
         Settle(l, result)
  PROVE  /\ phase' \in [Loops -> Phases]
         /\ job' \in [Loops -> Job]
         /\ metrics' \in [active : Nat, requests : Nat, failures : Nat]
         /\ outcome' \in [Loops -> {"none", "listed", "success", "failure", "cancelled"}]
<1>1. CASE /\ job[l].left > 1
           /\ Goto(l, "entering")
           /\ job' = [job EXCEPT ![l].left = @ - 1, ![l].good = Succeeded(l, result),
                                 ![l].result = "none", ![l].spoiled = FALSE]
           /\ UNCHANGED <<metrics, outcome>>
  <2>1. Succeeded(l, result) \in BOOLEAN
    BY DEF Succeeded, TypeOK, Job
  <2>2. job[l] \in Job /\ job[l].left - 1 \in Nat
    BY <1>1 DEF TypeOK, Job
  <2>3. [job[l] EXCEPT !.left = job[l].left - 1, !.good = Succeeded(l, result),
                       !.result = "none", !.spoiled = FALSE] \in Job
    BY <2>1, <2>2 DEF Job
  <2>4. QED BY <1>1, <2>3 DEF TypeOK, Goto, Phases
<1>2. CASE job[l].left = 1 /\
           Finish(l, IF Succeeded(l, result) THEN "success" ELSE "failure",
                     IF job[l].req.kind = "single" THEN result # "ok"
                                                   ELSE ~ Succeeded(l, result))
  BY <1>2, FinishType
<1>3. QED BY <1>1, <1>2 DEF Settle

LEMMA UnlockedType ==
  ASSUME TypeOK, lock' \in Unlocked
  PROVE  lock' \in Lock /\ lock'.waiter = lock.waiter /\ lock'.late = lock.late
         /\ lock'.loop = lock.loop
<1>1. CASE lock' = [lock EXCEPT !.holder = NoLoop]
  BY <1>1 DEF TypeOK, Lock
<1>2. ASSUME NEW s \in {"sent", "lost"},
             lock' = [lock EXCEPT !.holder = NoLoop, !.signal = s]
      PROVE  lock' \in Lock /\ lock'.waiter = lock.waiter /\ lock'.late = lock.late
             /\ lock'.loop = lock.loop
  BY <1>2 DEF TypeOK, Lock
<1>3. \/ lock' = [lock EXCEPT !.holder = NoLoop]
      \/ \E s \in {"sent", "lost"} : lock' = [lock EXCEPT !.holder = NoLoop, !.signal = s]
  BY DEF Unlocked
<1>4. QED BY <1>1, <1>2, <1>3

(* Whoever is about to release is counted. *)
LEMMA HoldersFinite ==
  /\ IsFiniteSet(Holders)
  /\ \A u : IsFiniteSet(HoldersOf(u))
  /\ \A s : IsFiniteSet(HoldersOn(s))
<1>1. IsFiniteSet(Loops)
  BY LoopAssumption, FS_AddElement, FS_EmptySet, FS_Union DEF Loops
<1>2. QED BY <1>1, FS_Subset DEF Holders, HoldersOf, HoldersOn

LEMMA HolderCounted ==
  ASSUME TypeOK, PermitsMatch, NEW l \in Holders
  PROVE  /\ taken.all \in Nat \ {0}
         /\ taken.users[job[l].req.user] \in Nat \ {0}
         /\ taken.servers[job[l].req.server] \in Nat \ {0}
<1> DEFINE u == job[l].req.user  s == job[l].req.server
<1>1. u \in Users /\ s \in Servers
  BY RequestAssumption DEF TypeOK, Job, Request, Holders
<1>2. l \in HoldersOf(u) /\ l \in HoldersOn(s)
  BY DEF HoldersOf, HoldersOn
<1>3. /\ Cardinality(Holders) \in Nat \ {0}
      /\ Cardinality(HoldersOf(u)) \in Nat \ {0}
      /\ Cardinality(HoldersOn(s)) \in Nat \ {0}
  BY <1>2, HoldersFinite, FS_EmptySet, FS_CardinalityType
<1>4. taken.all \in Nat /\ taken.users[u] \in Nat /\ taken.servers[s] \in Nat
  BY <1>1 DEF TypeOK
<1>5. /\ taken.all >= Cardinality(Holders)
      /\ taken.users[u] >= Cardinality(HoldersOf(u))
      /\ taken.servers[s] >= Cardinality(HoldersOn(s))
  BY <1>1 DEF PermitsMatch
<1>6. QED BY <1>3, <1>4, <1>5

-----------------------------------------------------------------------------
(* Counting the holders of permits *)

(* The end of a check moves its loop on, and no other. *)
LEMMA SettleMoves ==
  ASSUME TypeOK, NEW l \in Loops, NEW result, Settle(l, result)
  PROVE  /\ \A k \in Loops \ {l} : phase'[k] = phase[k] /\ job'[k] = job[k]
         /\ phase'[l] \in {"entering", "idle"}
  BY DEF TypeOK, Settle, Finish, Goto

LEMMA FinishMoves ==
  ASSUME TypeOK, NEW l \in Loops, NEW how, NEW error, Finish(l, how, error)
  PROVE  /\ \A k \in Loops \ {l} : phase'[k] = phase[k] /\ job'[k] = job[k]
         /\ phase'[l] = "idle" /\ job'[l] = NoJob
  BY DEF TypeOK, Finish, Goto

LEMMA QuietCounts ==
  ASSUME PermitsMatch, taken' = taken, setting' = setting,
         \A k \in Loops : phase'[k] \in Holding <=> phase[k] \in Holding,
         \A k \in Loops : phase[k] \in Holding => job'[k].req = job[k].req
  PROVE  PermitsMatch'
<1>1. Holders' = Holders
  BY DEF Holders
<1>2. \A u : (HoldersOf(u))' = HoldersOf(u)
  BY <1>1 DEF HoldersOf, Holders
<1>3. \A s : (HoldersOn(s))' = HoldersOn(s)
  BY <1>1 DEF HoldersOn, Holders
<1>4. QED BY <1>1, <1>2, <1>3 DEF PermitsMatch

(* A loop that ends without giving its permit back: only where the lock may *)
(* be met taken.                                                            *)
LEMMA DropCounts ==
  ASSUME TypeOK, PermitsMatch, taken' = taken, setting' = setting, setting.contended,
         \A k \in Loops : phase'[k] \in Holding =>
                            phase[k] \in Holding /\ job'[k].req = job[k].req
  PROVE  PermitsMatch'
<1>1. Holders' \subseteq Holders
  BY DEF Holders
<1>2. \A u : (HoldersOf(u))' \subseteq HoldersOf(u)
  BY DEF HoldersOf, Holders
<1>3. \A s : (HoldersOn(s))' \subseteq HoldersOn(s)
  BY DEF HoldersOn, Holders
<1>4. /\ Cardinality(Holders) \in Nat /\ Cardinality(Holders') \in Nat
      /\ Cardinality(Holders') <= Cardinality(Holders)
  BY <1>1, HoldersFinite, FS_Subset, FS_CardinalityType
<1>5. \A u \in Users : /\ Cardinality(HoldersOf(u)) \in Nat
                       /\ Cardinality((HoldersOf(u))') \in Nat
                       /\ Cardinality((HoldersOf(u))') <= Cardinality(HoldersOf(u))
  BY <1>2, HoldersFinite, FS_Subset, FS_CardinalityType
<1>6. \A s \in Servers : /\ Cardinality(HoldersOn(s)) \in Nat
                         /\ Cardinality((HoldersOn(s))') \in Nat
                         /\ Cardinality((HoldersOn(s))') <= Cardinality(HoldersOn(s))
  BY <1>3, HoldersFinite, FS_Subset, FS_CardinalityType
<1>7. /\ taken.all \in Nat /\ \A u \in Users : taken.users[u] \in Nat
      /\ \A s \in Servers : taken.servers[s] \in Nat
  BY DEF TypeOK
<1>8. taken.all >= Cardinality(Holders')
  BY <1>4, <1>7 DEF PermitsMatch
<1>9. \A u \in Users : taken.users[u] >= Cardinality((HoldersOf(u))')
  BY <1>5, <1>7 DEF PermitsMatch
<1>10. \A s \in Servers : taken.servers[s] >= Cardinality((HoldersOn(s))')
  BY <1>6, <1>7 DEF PermitsMatch
<1>11. QED BY <1>8, <1>9, <1>10 DEF PermitsMatch

(* Sets and counters after an admission: each grows by l where it is concerned. *)
LEMMA AdmitCounts ==
  ASSUME TypeOK, PermitsMatch, NEW l \in Loops, Admit(l)
  PROVE  PermitsMatch'
<1> DEFINE u0 == job[l].req.user  s0 == job[l].req.server
<1>1. /\ phase' = [phase EXCEPT ![l] = "admitted"] /\ phase[l] = "admitting"
      /\ job' = job /\ setting' = setting
  BY DEF Admit, Goto
<1>2. Holders' = Holders \cup {l} /\ l \notin Holders
  BY <1>1 DEF Holders, Holding, TypeOK
<1>3. \A u : (HoldersOf(u))' = IF u = u0 THEN HoldersOf(u) \cup {l} ELSE HoldersOf(u)
  BY <1>1, <1>2 DEF HoldersOf
<1>4. \A s : (HoldersOn(s))' = IF s = s0 THEN HoldersOn(s) \cup {l} ELSE HoldersOn(s)
  BY <1>1, <1>2 DEF HoldersOn
<1>5. /\ Cardinality(Holders) \in Nat
      /\ Cardinality(Holders') = Cardinality(Holders) + 1
  BY <1>2, HoldersFinite, FS_AddElement, FS_CardinalityType
<1>6. \A u : /\ Cardinality(HoldersOf(u)) \in Nat
             /\ Cardinality((HoldersOf(u))') = IF u = u0 THEN Cardinality(HoldersOf(u)) + 1
                                                         ELSE Cardinality(HoldersOf(u))
  <2>1. \A u : l \notin HoldersOf(u)
    BY <1>2 DEF HoldersOf
  <2>2. QED BY <2>1, <1>3, HoldersFinite, FS_AddElement, FS_CardinalityType
<1>7. \A s : /\ Cardinality(HoldersOn(s)) \in Nat
             /\ Cardinality((HoldersOn(s))') = IF s = s0 THEN Cardinality(HoldersOn(s)) + 1
                                                         ELSE Cardinality(HoldersOn(s))
  <2>1. \A s : l \notin HoldersOn(s)
    BY <1>2 DEF HoldersOn
  <2>2. QED BY <2>1, <1>4, HoldersFinite, FS_AddElement, FS_CardinalityType
<1>8. /\ taken.all \in Nat /\ taken'.all = taken.all + 1
      /\ \A u \in Users : /\ taken.users[u] \in Nat
                          /\ taken'.users[u] = IF u = u0 THEN taken.users[u] + 1
                                                         ELSE taken.users[u]
      /\ \A s \in Servers : /\ taken.servers[s] \in Nat
                            /\ taken'.servers[s] = IF s = s0 THEN taken.servers[s] + 1
                                                             ELSE taken.servers[s]
  BY DEF Admit, TypeOK
<1> HIDE DEF u0, s0
<1>9. ~ setting.contended => taken'.all = Cardinality(Holders')
  BY <1>5, <1>8 DEF PermitsMatch
<1>10. taken'.all >= Cardinality(Holders')
  BY <1>5, <1>8 DEF PermitsMatch
<1>11. \A u \in Users : taken'.users[u] >= Cardinality((HoldersOf(u))')
  BY <1>6, <1>8 DEF PermitsMatch
<1>12. \A s \in Servers : taken'.servers[s] >= Cardinality((HoldersOn(s))')
  BY <1>7, <1>8 DEF PermitsMatch
<1>13. ~ setting.contended => \A u \in Users : taken'.users[u] = Cardinality((HoldersOf(u))')
  BY <1>6, <1>8 DEF PermitsMatch
<1>14. ~ setting.contended => \A s \in Servers : taken'.servers[s] = Cardinality((HoldersOn(s))')
  BY <1>7, <1>8 DEF PermitsMatch
<1>15. QED BY <1>1, <1>9, <1>10, <1>11, <1>12, <1>13, <1>14 DEF PermitsMatch

(* And after a release: each shrinks by l. *)
LEMMA ReleaseCounts ==
  ASSUME TypeOK, PermitsMatch, NEW l \in Loops, Release(l)
  PROVE  PermitsMatch'
<1> DEFINE u0 == job[l].req.user  s0 == job[l].req.server
<1>1. /\ phase[l] = "releasing" /\ setting' = setting
      /\ phase'[l] \in {"entering", "idle"}
      /\ \A k \in Loops \ {l} : phase'[k] = phase[k] /\ job'[k] = job[k]
  BY SettleMoves, FinishMoves DEF Release
<1>2. Holders' = Holders \ {l} /\ l \in Holders
  BY <1>1 DEF Holders, Holding
<1>3. \A u : (HoldersOf(u))' = HoldersOf(u) \ {l}
  BY <1>1, <1>2 DEF HoldersOf, Holders
<1>4. \A s : (HoldersOn(s))' = HoldersOn(s) \ {l}
  BY <1>1, <1>2 DEF HoldersOn, Holders
<1>5. /\ Cardinality(Holders) \in Nat
      /\ Cardinality(Holders') = Cardinality(Holders) - 1
  BY <1>2, HoldersFinite, FS_RemoveElement, FS_CardinalityType
<1>6. \A u : /\ Cardinality(HoldersOf(u)) \in Nat
             /\ Cardinality((HoldersOf(u))') = IF u = u0 THEN Cardinality(HoldersOf(u)) - 1
                                                         ELSE Cardinality(HoldersOf(u))
  <2>1. \A u : l \in HoldersOf(u) <=> u = u0
    BY <1>2 DEF HoldersOf
  <2>2. QED BY <2>1, <1>3, HoldersFinite, FS_RemoveElement, FS_CardinalityType
<1>7. \A s : /\ Cardinality(HoldersOn(s)) \in Nat
             /\ Cardinality((HoldersOn(s))') = IF s = s0 THEN Cardinality(HoldersOn(s)) - 1
                                                         ELSE Cardinality(HoldersOn(s))
  <2>1. \A s : l \in HoldersOn(s) <=> s = s0
    BY <1>2 DEF HoldersOn
  <2>2. QED BY <2>1, <1>4, HoldersFinite, FS_RemoveElement, FS_CardinalityType
<1>8. /\ taken.all \in Nat /\ taken'.all = taken.all - 1
      /\ \A u \in Users : /\ taken.users[u] \in Nat
                          /\ taken'.users[u] = IF u = u0 THEN taken.users[u] - 1
                                                         ELSE taken.users[u]
      /\ \A s \in Servers : /\ taken.servers[s] \in Nat
                            /\ taken'.servers[s] = IF s = s0 THEN taken.servers[s] - 1
                                                             ELSE taken.servers[s]
  BY DEF Release, TypeOK
<1> HIDE DEF u0, s0
<1>9. ~ setting.contended => taken'.all = Cardinality(Holders')
  BY <1>5, <1>8 DEF PermitsMatch
<1>10. taken'.all >= Cardinality(Holders')
  BY <1>5, <1>8 DEF PermitsMatch
<1>11. \A u \in Users : taken'.users[u] >= Cardinality((HoldersOf(u))')
  BY <1>6, <1>8 DEF PermitsMatch
<1>12. \A s \in Servers : taken'.servers[s] >= Cardinality((HoldersOn(s))')
  BY <1>7, <1>8 DEF PermitsMatch
<1>13. ~ setting.contended => \A u \in Users : taken'.users[u] = Cardinality((HoldersOf(u))')
  BY <1>6, <1>8 DEF PermitsMatch
<1>14. ~ setting.contended => \A s \in Servers : taken'.servers[s] = Cardinality((HoldersOn(s))')
  BY <1>7, <1>8 DEF PermitsMatch
<1>15. QED BY <1>1, <1>9, <1>10, <1>11, <1>12, <1>13, <1>14 DEF PermitsMatch

-----------------------------------------------------------------------------
(* Types, waiters and permits through every action *)

LEMMA TypedInit == Init => Typed
<1> SUFFICES ASSUME Init PROVE Typed
  OBVIOUS
<1>1. TypeOK
  BY NoJobType DEF Init, TypeOK, FreeLock, Lock, Phases
<1>2. WaiterWaits
  BY DEF Init, WaiterWaits, FreeLock
<1>3. /\ Holders = {} /\ \A u : HoldersOf(u) = {} /\ \A s : HoldersOn(s) = {}
  BY DEF Init, Holders, HoldersOf, HoldersOn, Holding
<1>4. PermitsMatch
  <2>1. /\ Cardinality(Holders) = 0
        /\ \A u : Cardinality(HoldersOf(u)) = 0
        /\ \A s : Cardinality(HoldersOn(s)) = 0
    BY <1>3, FS_EmptySet
  <2>2. /\ taken.all = 0 /\ \A u \in Users : taken.users[u] = 0
        /\ \A s \in Servers : taken.servers[s] = 0
    BY DEF Init
  <2>3. QED BY <2>1, <2>2 DEF PermitsMatch
<1>5. QED BY <1>1, <1>2, <1>4 DEF Typed

(* A step of another loop than the one that waits. *)
LEMMA WaiterStays ==
  ASSUME TypeOK, WaiterWaits, NEW l \in Loops, phase[l] \notin {"entering", "leaving"},
         setting' = setting, lock'.waiter = lock.waiter, lock'.late = lock.late,
         \A k \in Loops \ {l} : phase'[k] = phase[k]
  PROVE  WaiterWaits'
  BY DEF TypeOK, Lock, WaiterWaits

LEMMA BeginTyped ==
  ASSUME Typed, NEW l \in Loops, Begin(l)
  PROVE  Typed'
<1> USE DEF Typed
<1>1. TypeOK'
  <2>1. PICK r \in Requests : job' = [job EXCEPT ![l] = Fresh(r)]
    BY DEF Begin
  <2>2. job' \in [Loops -> Job]
    BY <2>1, FreshType DEF TypeOK
  <2> DEFINE n == metrics.requests + 1
  <2>3. PICK a \in Written(l, metrics.active + 1) :
          metrics' = [metrics EXCEPT !.active = a, !.requests = n]
    BY DEF Begin
  <2>6. a \in Nat /\ n \in Nat
    <3>1. metrics.active \in Nat /\ metrics.requests \in Nat
      BY DEF TypeOK
    <3>2. QED BY <3>1 DEF Written
  <2> HIDE DEF n
  <2>4. metrics' \in [active : Nat, requests : Nat, failures : Nat]
    BY <2>3, <2>6 DEF TypeOK
  <2>5. QED BY <2>2, <2>4 DEF Begin, Goto, TypeOK, Phases
<1>2. WaiterWaits'
  BY WaiterStays DEF Begin, Goto, TypeOK, Lock
<1>3. PermitsMatch'
  BY QuietCounts DEF Begin, Goto, TypeOK, Holding
<1>4. QED BY <1>1, <1>2, <1>3

LEMMA RefuseTyped ==
  ASSUME Typed, NEW l \in Loops, Refuse(l)
  PROVE  Typed'
<1> USE DEF Typed
<1>1. TypeOK'
  BY FinishType DEF Refuse, TypeOK
<1>2. WaiterWaits'
  BY WaiterStays, FinishMoves DEF Refuse, TypeOK, Lock
<1>3. PermitsMatch'
  BY QuietCounts, FinishMoves DEF Refuse, Holding
<1>4. QED BY <1>1, <1>2, <1>3

LEMMA ListTyped ==
  ASSUME Typed, NEW l \in Loops, List(l)
  PROVE  Typed'
<1> USE DEF Typed
<1>1. TypeOK'
  BY FinishType DEF List, TypeOK
<1>2. WaiterWaits'
  BY WaiterStays, FinishMoves DEF List, TypeOK, Lock
<1>3. PermitsMatch'
  BY QuietCounts, FinishMoves DEF List, Holding
<1>4. QED BY <1>1, <1>2, <1>3

LEMMA DispatchTyped ==
  ASSUME Typed, NEW l \in Loops, Dispatch(l)
  PROVE  Typed'
<1> USE DEF Typed
<1>1. TypeOK'
  BY DEF Dispatch, Goto, TypeOK, Phases
<1>2. WaiterWaits'
  BY WaiterStays DEF Dispatch, Goto, TypeOK, Lock
<1>3. PermitsMatch'
  BY QuietCounts DEF Dispatch, Goto, TypeOK, Holding
<1>4. QED BY <1>1, <1>2, <1>3

LEMMA AcquireTyped ==
  ASSUME Typed, NEW l \in Loops, Acquire(l)
  PROVE  Typed'
<1> USE DEF Typed
<1>1. TypeOK'
  <2>a. [lock EXCEPT !.holder = l] \in Lock
    BY DEF TypeOK, Lock
  <2>b. QED BY <2>a DEF Acquire, Goto, TypeOK, Phases, Section
<1>2. WaiterWaits'
  BY DEF Acquire, Goto, TypeOK, Lock, WaiterWaits, AtLock, LockFree
<1>3. PermitsMatch'
  BY QuietCounts DEF Acquire, Goto, TypeOK, Holding, AtLock, Section
<1>4. QED BY <1>1, <1>2, <1>3

LEMMA FindTakenTyped ==
  ASSUME Typed, NEW l \in Loops, FindTaken(l)
  PROVE  Typed'
<1> USE DEF Typed
<1>0. lock' = [lock EXCEPT !.late = lock.late \cup {l}] /\ lock \in Lock
  BY DEF FindTaken, TypeOK
<1>1. TypeOK'
  <2>1. lock' \in Lock
    BY <1>0 DEF Lock
  <2>2. QED BY <2>1 DEF FindTaken, TypeOK, state
<1>2. WaiterWaits'
  <2>1. lock'.waiter = lock.waiter /\ lock'.late = lock.late \cup {l}
    BY <1>0 DEF Lock
  <2>2. QED BY <2>1 DEF FindTaken, WaiterWaits, AtLock, state
<1>3. PermitsMatch'
  BY QuietCounts DEF FindTaken, state
<1>4. QED BY <1>1, <1>2, <1>3

LEMMA WaitTyped ==
  ASSUME Typed, NEW l \in Loops, Wait(l)
  PROVE  Typed'
<1> USE DEF Typed
<1>0. /\ lock' = [lock EXCEPT !.waiter = l, !.loop = l, !.late = lock.late \ {l}]
      /\ lock \in Lock
  BY DEF Wait, TypeOK
<1>1. TypeOK'
  <2>1. lock' \in Lock
    BY <1>0 DEF Lock
  <2>2. QED BY <2>1 DEF Wait, TypeOK, state
<1>2. WaiterWaits'
  <2>1. lock'.waiter = l /\ lock'.late = lock.late \ {l}
    BY <1>0 DEF Lock
  <2>2. QED BY <2>1 DEF Wait, WaiterWaits, state
<1>3. PermitsMatch'
  BY QuietCounts DEF Wait, state
<1>4. QED BY <1>1, <1>2, <1>3

LEMMA WrongLoopTyped ==
  ASSUME Typed, NEW l \in Loops, WrongLoop(l)
  PROVE  Typed'
<1> USE DEF Typed
<1>0. lock' = [lock EXCEPT !.late = lock.late \ {l}] /\ lock \in Lock
  BY DEF WrongLoop, TypeOK
<1>1. TypeOK'
  <2>1. lock' \in Lock
    BY <1>0 DEF Lock
  <2>2. QED BY <2>1, FinishType DEF WrongLoop, TypeOK
<1>2. WaiterWaits'
  <2>1. /\ lock'.waiter = lock.waiter /\ lock'.late = lock.late \ {l}
        /\ setting' = setting /\ lock.waiter # l
    BY <1>0 DEF WrongLoop, Lock, WaiterWaits
  <2>2. \A k \in Loops \ {l} : phase'[k] = phase[k]
    BY FinishMoves DEF WrongLoop
  <2>3. QED BY <1>0, <2>1, <2>2 DEF WaiterWaits, Lock
<1>3. PermitsMatch'
  <2>1. setting.contended
    BY DEF WrongLoop, WaiterWaits
  <2>2. QED BY <2>1, DropCounts, FinishMoves DEF WrongLoop, Holding
<1>4. QED BY <1>1, <1>2, <1>3

LEMMA ResumeTyped ==
  ASSUME Typed, NEW l \in Loops, Resume(l)
  PROVE  Typed'
<1> USE DEF Typed
<1>1. TypeOK'
  <2>1. [lock EXCEPT !.holder = l, !.waiter = NoLoop, !.signal = "none"] \in Lock
    BY DEF TypeOK, Lock
  <2>2. QED BY <2>1 DEF Resume, Goto, TypeOK, Phases, Section
<1>2. WaiterWaits'
  <2>1. lock'.waiter = NoLoop /\ lock'.late = lock.late /\ setting' = setting
    BY DEF Resume, TypeOK, Lock
  <2>2. l \notin lock.late /\ \A k \in Loops \ {l} : phase'[k] = phase[k]
    BY DEF Resume, Goto, TypeOK, WaiterWaits
  <2>3. lock.late \subseteq Loops
    BY DEF TypeOK, Lock
  <2>4. QED BY <2>1, <2>2, <2>3, LoopAssumption DEF WaiterWaits
<1>3. PermitsMatch'
  <2>1. phase[l] \in {"entering", "leaving"}
    BY LoopAssumption DEF Resume, WaiterWaits
  <2>2. QED BY <2>1, QuietCounts DEF Resume, Goto, TypeOK, Holding, Section
<1>4. QED BY <1>1, <1>2, <1>3

LEMMA BusyTyped ==
  ASSUME Typed, NEW l \in Loops, Busy(l)
  PROVE  Typed'
<1> USE DEF Typed
<1>1. TypeOK'
  BY SettleType, UnlockedType DEF Busy, TypeOK
<1>2. WaiterWaits'
  BY WaiterStays, SettleMoves, UnlockedType DEF Busy
<1>3. PermitsMatch'
  BY QuietCounts, SettleMoves DEF Busy, Holding
<1>4. QED BY <1>1, <1>2, <1>3

LEMMA AdmitTyped ==
  ASSUME Typed, NEW l \in Loops, Admit(l)
  PROVE  Typed'
<1> USE DEF Typed
<1>1. TypeOK'
  <2>1. job[l].req.user \in Users /\ job[l].req.server \in Servers
    BY RequestAssumption DEF TypeOK, Job, Request
  <2>2. /\ [taken.users EXCEPT ![job[l].req.user] = @ + 1] \in [Users -> Nat]
        /\ [taken.servers EXCEPT ![job[l].req.server] = @ + 1] \in [Servers -> Nat]
        /\ taken.all + 1 \in Nat
    BY <2>1 DEF TypeOK
  <2>. DEFINE us == [taken.users EXCEPT ![job[l].req.user] = @ + 1]
              ss == [taken.servers EXCEPT ![job[l].req.server] = @ + 1]
  <2>a. taken' = [taken EXCEPT !.all = taken.all + 1, !.users = us, !.servers = ss]
    BY Zenon DEF Admit
  <2>b. taken' \in [all : Nat, users : [Users -> Nat], servers : [Servers -> Nat]]
    <3> HIDE DEF us, ss
    <3>1. us \in [Users -> Nat] /\ ss \in [Servers -> Nat]
      BY <2>2 DEF us, ss
    <3>2. QED BY <2>a, <2>2, <3>1 DEF TypeOK
  <2>3. QED BY <2>b, UnlockedType DEF Admit, Goto, TypeOK, Phases
<1>2. WaiterWaits'
  BY WaiterStays, UnlockedType DEF Admit, Goto, TypeOK
<1>3. PermitsMatch'
  BY AdmitCounts
<1>4. QED BY <1>1, <1>2, <1>3

LEMMA NotStartedTyped ==
  ASSUME Typed, NEW l \in Loops, NotStarted(l)
  PROVE  Typed'
<1> USE DEF Typed
<1>1. TypeOK'
  <2>1. [job[l] EXCEPT !.result = "failed"] \in Job
    BY DEF TypeOK, Job
  <2>2. QED BY <2>1 DEF NotStarted, Leave, Goto, TypeOK, Phases
<1>2. WaiterWaits'
  BY WaiterStays DEF NotStarted, Leave, Goto, TypeOK, Lock
<1>3. PermitsMatch'
  BY QuietCounts DEF NotStarted, Goto, TypeOK, Holding, Leave, Job
<1>4. QED BY <1>1, <1>2, <1>3

LEMMA SpawnTyped ==
  ASSUME Typed, NEW l \in Loops, Spawn(l)
  PROVE  Typed'
<1> USE DEF Typed
<1>1. TypeOK'
  BY DEF Spawn, Goto, TypeOK, Phases
<1>2. WaiterWaits'
  BY WaiterStays DEF Spawn, Goto, TypeOK, Lock
<1>3. PermitsMatch'
  BY QuietCounts DEF Spawn, Goto, TypeOK, Holding
<1>4. QED BY <1>1, <1>2, <1>3

LEMMA ExitTyped ==
  ASSUME Typed, NEW l \in Loops, Exit(l)
  PROVE  Typed'
<1> USE DEF Typed
<1>1. TypeOK'
  BY DEF Exit, TypeOK
<1>2. WaiterWaits'
  BY DEF Exit, WaiterWaits
<1>3. PermitsMatch'
  BY QuietCounts DEF Exit
<1>4. QED BY <1>1, <1>2, <1>3

LEMMA GiveUpTyped ==
  ASSUME Typed, NEW l \in Loops, GiveUp(l)
  PROVE  Typed'
<1> USE DEF Typed
<1>1. TypeOK'
  <2>1. [job[l] EXCEPT !.spoiled = TRUE] \in Job
    <3>1. job[l] \in Job /\ TRUE \in BOOLEAN
      BY DEF TypeOK
    <3>2. QED BY <3>1, Zenon DEF Job
  <2>2. QED BY <2>1 DEF GiveUp, Goto, TypeOK, Phases
<1>2. WaiterWaits'
  BY WaiterStays DEF GiveUp, Goto, TypeOK, Lock
<1>3. PermitsMatch'
  BY QuietCounts DEF GiveUp, Goto, TypeOK, Holding, Job
<1>4. QED BY <1>1, <1>2, <1>3

LEMMA KillTyped ==
  ASSUME Typed, NEW l \in Loops, Kill(l)
  PROVE  Typed'
<1> USE DEF Typed
<1>1. TypeOK'
  BY DEF Kill, TypeOK
<1>2. WaiterWaits'
  BY DEF Kill, WaiterWaits
<1>3. PermitsMatch'
  BY QuietCounts DEF Kill
<1>4. QED BY <1>1, <1>2, <1>3

LEMMA ReapTyped ==
  ASSUME Typed, NEW l \in Loops, Reap(l)
  PROVE  Typed'
<1> USE DEF Typed
<1>1. TypeOK'
  BY DEF Reap, Goto, TypeOK, Phases
<1>2. WaiterWaits'
  BY WaiterStays DEF Reap, Goto, TypeOK, Lock
<1>3. PermitsMatch'
  BY QuietCounts DEF Reap, Goto, TypeOK, Holding
<1>4. QED BY <1>1, <1>2, <1>3

LEMMA DrainTyped ==
  ASSUME Typed, NEW l \in Loops, Drain(l)
  PROVE  Typed'
<1> USE DEF Typed
<1>1. TypeOK'
  <2>1. PICK result \in Verdicts(l) : Leave(l, result)
    BY DEF Drain
  <2>2. [job[l] EXCEPT !.result = result] \in Job
    BY DEF TypeOK, Job, Verdicts
  <2>3. QED BY <2>1, <2>2 DEF Drain, Leave, Goto, TypeOK, Phases
<1>2. WaiterWaits'
  BY WaiterStays DEF Drain, Leave, Goto, TypeOK, Lock
<1>3. PermitsMatch'
  BY QuietCounts DEF Drain, Goto, TypeOK, Holding, Leave, Job
<1>4. QED BY <1>1, <1>2, <1>3

LEMMA ReleaseTyped ==
  ASSUME Typed, NEW l \in Loops, Release(l)
  PROVE  Typed'
<1> USE DEF Typed
<1>1. TypeOK'
  <2>1. job[l].req.user \in Users /\ job[l].req.server \in Servers
    BY RequestAssumption DEF TypeOK, Job, Request
  <2>2. /\ taken.all - 1 \in Nat
        /\ taken.users[job[l].req.user] - 1 \in Nat
        /\ taken.servers[job[l].req.server] - 1 \in Nat
    BY HolderCounted DEF Release, Holders, Holding
  <2>3. taken' \in [all : Nat, users : [Users -> Nat], servers : [Servers -> Nat]]
    BY <2>1, <2>2 DEF Release, TypeOK
  <2>4. job[l].result \in {"none", "ok", "unparsed", "failed"}
    BY DEF TypeOK, Job
  <2>5. /\ phase' \in [Loops -> Phases]
        /\ job' \in [Loops -> Job]
        /\ metrics' \in [active : Nat, requests : Nat, failures : Nat]
        /\ outcome' \in [Loops -> {"none", "listed", "success", "failure", "cancelled"}]
    BY <2>4, FinishType, SettleType DEF Release
  <2>6. QED BY <2>3, <2>5, UnlockedType DEF Release, TypeOK
<1>2. WaiterWaits'
  BY WaiterStays, SettleMoves, FinishMoves, UnlockedType DEF Release
<1>3. PermitsMatch'
  BY ReleaseCounts
<1>4. QED BY <1>1, <1>2, <1>3

LEMMA CancelStartTyped ==
  ASSUME Typed, NEW l \in Loops, CancelStart(l)
  PROVE  Typed'
<1> USE DEF Typed
<1>1. TypeOK'
  <2>1. [job[l] EXCEPT !.cancelled = TRUE] \in Job
    <3>1. job[l] \in Job /\ TRUE \in BOOLEAN
      BY DEF TypeOK
    <3>2. QED BY <3>1, Zenon DEF Job
  <2>2. QED BY <2>1 DEF CancelStart, Cancelled, Goto, TypeOK, Phases
<1>2. WaiterWaits'
  BY WaiterStays DEF CancelStart, Goto, TypeOK, Lock
<1>3. PermitsMatch'
  BY QuietCounts DEF CancelStart, Goto, TypeOK, Holding, Cancelled, Job
<1>4. QED BY <1>1, <1>2, <1>3

LEMMA CancelCheckTyped ==
  ASSUME Typed, NEW l \in Loops, CancelCheck(l)
  PROVE  Typed'
<1> USE DEF Typed
<1>1. TypeOK'
  <2>1. [job[l] EXCEPT !.cancelled = TRUE] \in Job
    <3>1. job[l] \in Job /\ TRUE \in BOOLEAN
      BY DEF TypeOK
    <3>2. QED BY <3>1, Zenon DEF Job
  <2>2. QED BY <2>1 DEF CancelCheck, Cancelled, Goto, TypeOK, Phases
<1>2. WaiterWaits'
  BY WaiterStays DEF CancelCheck, Goto, TypeOK, Lock
<1>3. PermitsMatch'
  BY QuietCounts DEF CancelCheck, Goto, TypeOK, Holding, Cancelled, Job
<1>4. QED BY <1>1, <1>2, <1>3

LEMMA CancelWaitTyped ==
  ASSUME Typed, NEW l \in Loops, CancelWait(l)
  PROVE  Typed'
<1> USE DEF Typed
<1>1. TypeOK'
  <2>1. [lock EXCEPT !.waiter = NoLoop, !.signal = "none"] \in Lock
    BY DEF TypeOK, Lock
  <2>2. QED BY <2>1, FinishType DEF CancelWait, TypeOK
<1>2. WaiterWaits'
  <2>1. lock'.waiter = NoLoop /\ lock'.late = lock.late /\ setting' = setting
    BY DEF CancelWait, TypeOK, Lock
  <2>2. l \notin lock.late /\ \A k \in Loops \ {l} : phase'[k] = phase[k]
    BY FinishMoves DEF CancelWait, WaiterWaits
  <2>3. lock.late \subseteq Loops
    BY DEF TypeOK, Lock
  <2>4. QED BY <2>1, <2>2, <2>3, LoopAssumption DEF WaiterWaits
<1>3. PermitsMatch'
  <2>1. setting.contended
    BY LoopAssumption DEF CancelWait, WaiterWaits
  <2>2. QED BY <2>1, DropCounts, FinishMoves DEF CancelWait, Holding
<1>4. QED BY <1>1, <1>2, <1>3

LEMMA TypedNext == Typed /\ [Next]_vars => Typed'
<1> SUFFICES ASSUME Typed, [Next]_vars PROVE Typed'
  OBVIOUS
<1>1. ASSUME NEW l \in Loops, Begin(l) \/ Progress(l) \/ Exit(l) PROVE Typed'
  BY <1>1, BeginTyped, RefuseTyped, ListTyped, DispatchTyped, AcquireTyped, FindTakenTyped, WaitTyped, WrongLoopTyped, ResumeTyped, BusyTyped,
     AdmitTyped, NotStartedTyped, SpawnTyped, GiveUpTyped, KillTyped, ReapTyped, DrainTyped, ReleaseTyped, ExitTyped
     DEF Progress
<1>2. CASE Cancel
  BY <1>2, CancelStartTyped, CancelCheckTyped, CancelWaitTyped DEF Cancel, Loops
<1>3. CASE UNCHANGED vars
  <2>1. TypeOK' /\ WaiterWaits'
    BY <1>3 DEF Typed, TypeOK, WaiterWaits, vars, state
  <2>2. PermitsMatch'
    BY <1>3, QuietCounts DEF Typed, vars, state
  <2>3. QED BY <2>1, <2>2 DEF Typed
<1>4. QED BY <1>1, <1>2, <1>3 DEF Next

-----------------------------------------------------------------------------
(* Processes *)

LEMMA ReapedLocal ==
  ASSUME Reaped, NEW l \in Loops,
         \A k \in Loops \ {l} : phase'[k] = phase[k] /\ proc'[k] = proc[k],
         phase'[l] \in {"running", "stopping"} => proc'[l] # "none",
         phase'[l] = "draining" => proc'[l] \in {"ok", "bad"},
         proc'[l] = "live" => phase'[l] \in {"running", "stopping"}
  PROVE  Reaped'
  BY DEF Reaped, ProcessInPhase, ProcessesReaped

LEMMA ReapedStep ==
  ASSUME Typed, Reaped, NEW l \in Loops,
         Begin(l) \/ Progress(l) \/ Exit(l)
           \/ CancelStart(l) \/ CancelCheck(l) \/ CancelWait(l)
  PROVE  Reaped'
<1> USE DEF Typed
<1>0. /\ phase[l] \in {"running", "stopping"} => proc[l] # "none"
      /\ phase[l] = "draining" => proc[l] \in {"ok", "bad"}
      /\ proc[l] = "live" => phase[l] \in {"running", "stopping"}
  BY DEF Reaped, ProcessInPhase, ProcessesReaped
<1>w. lock.waiter = l \/ l \in lock.late => phase[l] \in {"entering", "leaving"}
  BY LoopAssumption DEF WaiterWaits
<1>1. CASE Begin(l)
  BY <1>1, ReapedLocal, <1>0, <1>w DEF Begin, Goto, TypeOK
<1>2. CASE Refuse(l)
  BY <1>2, ReapedLocal, <1>0, <1>w, FinishMoves DEF Refuse, TypeOK
<1>3. CASE List(l)
  BY <1>3, ReapedLocal, <1>0, <1>w, FinishMoves DEF List, TypeOK
<1>4. CASE Dispatch(l)
  BY <1>4, ReapedLocal, <1>0, <1>w DEF Dispatch, Goto, TypeOK
<1>5. CASE Acquire(l)
  BY <1>5, ReapedLocal, <1>0, <1>w DEF Acquire, Goto, TypeOK, AtLock, Section
<1>6. CASE FindTaken(l) \/ Wait(l)
  BY <1>6, ReapedLocal, <1>0, <1>w DEF FindTaken, Wait, state
<1>7. CASE WrongLoop(l)
  BY <1>7, ReapedLocal, <1>0, <1>w, FinishMoves DEF WrongLoop, TypeOK
<1>8. CASE Resume(l)
  BY <1>8, ReapedLocal, <1>0, <1>w DEF Resume, Goto, TypeOK, Section
<1>9. CASE Busy(l)
  BY <1>9, ReapedLocal, <1>0, <1>w, SettleMoves DEF Busy, TypeOK
<1>10. CASE Admit(l)
  BY <1>10, ReapedLocal, <1>0, <1>w DEF Admit, Goto, TypeOK
<1>11. CASE NotStarted(l)
  BY <1>11, ReapedLocal, <1>0, <1>w DEF NotStarted, Goto, TypeOK, Leave
<1>12. CASE Spawn(l)
  BY <1>12, ReapedLocal, <1>0, <1>w DEF Spawn, Goto, TypeOK
<1>13. CASE GiveUp(l)
  BY <1>13, ReapedLocal, <1>0, <1>w DEF GiveUp, Goto, TypeOK
<1>14. CASE Kill(l)
  BY <1>14, ReapedLocal, <1>0, <1>w DEF Kill, Goto, TypeOK
<1>15. CASE Reap(l)
  BY <1>15, ReapedLocal, <1>0, <1>w DEF Reap, Goto, TypeOK
<1>16. CASE Drain(l)
  BY <1>16, ReapedLocal, <1>0, <1>w DEF Drain, Goto, TypeOK, Leave
<1>17. CASE Release(l)
  BY <1>17, ReapedLocal, <1>0, <1>w, SettleMoves, FinishMoves DEF Release, TypeOK
<1>18. CASE Exit(l)
  BY <1>18, ReapedLocal, <1>0, <1>w DEF Exit, Goto, TypeOK
<1>19. CASE CancelStart(l)
  BY <1>19, ReapedLocal, <1>0, <1>w DEF CancelStart, Goto, TypeOK
<1>20. CASE CancelCheck(l)
  BY <1>20, ReapedLocal, <1>0, <1>w DEF CancelCheck, Goto, TypeOK
<1>21. CASE CancelWait(l)
  BY <1>21, ReapedLocal, <1>0, <1>w, FinishMoves DEF CancelWait, TypeOK
<1>22. QED BY <1>1, <1>2, <1>3, <1>4, <1>5, <1>6, <1>7, <1>8,
     <1>9, <1>10, <1>11, <1>12, <1>13, <1>14, <1>15, <1>16,
     <1>17, <1>18, <1>19, <1>20, <1>21 DEF Progress

-----------------------------------------------------------------------------
(* Success *)

Grounded == SuccessGrounded /\ SuccessMeansRan

LEMMA GroundedLocal ==
  ASSUME Grounded, NEW l \in Loops,
         \A k \in Loops \ {l} : /\ phase'[k] = phase[k] /\ proc'[k] = proc[k]
                                /\ job'[k] = job[k] /\ clean'[k] = clean[k]
                                /\ outcome'[k] = outcome[k],
         job'[l].good \/ job'[l].result \in {"ok", "unparsed"} => clean'[l],
         phase'[l] = "stopping" => job'[l].spoiled \/ job'[l].cancelled,
         phase'[l] \in {"running", "draining"} /\ proc'[l] = "ok" =>
           job'[l].spoiled \/ job'[l].cancelled \/ clean'[l],
         outcome'[l] = "success" => clean'[l]
  PROVE  Grounded'
  BY DEF Grounded, SuccessGrounded, SuccessMeansRan

LEMMA NoJobUngrounded == ~ NoJob.good /\ NoJob.result = "none"
  BY DEF NoJob, Fresh

(* A check that ends well has been grounded, so the request may go on. *)
LEMMA SettleGrounded ==
  ASSUME TypeOK, Grounded, NEW l \in Loops,
         NEW result \in {"none", "ok", "unparsed", "failed"}, Settle(l, result),
         result \in {"ok", "unparsed"} => clean[l], UNCHANGED <<proc, clean>>
  PROVE  Grounded'
<1>1. Succeeded(l, result) => clean[l]
  BY DEF Succeeded, Grounded, SuccessGrounded
<1>2. \A k \in Loops \ {l} : /\ phase'[k] = phase[k] /\ job'[k] = job[k]
                             /\ outcome'[k] = outcome[k]
  BY DEF Settle, Finish, Goto, TypeOK
<1>3. phase'[l] \in {"entering", "idle"}
  BY SettleMoves
<1>4. CASE /\ job' = [job EXCEPT ![l].left = @ - 1, ![l].good = Succeeded(l, result),
                                 ![l].result = "none", ![l].spoiled = FALSE]
           /\ outcome' = outcome
  <2>1. job'[l].good = Succeeded(l, result) /\ job'[l].result = "none"
    BY <1>4 DEF TypeOK, Job
  <2>2. outcome'[l] = "success" => clean[l]
    BY <1>4 DEF Grounded, SuccessMeansRan
  <2>3. QED BY <1>1, <1>2, <1>3, <2>1, <2>2, GroundedLocal
<1>5. CASE Finish(l, IF Succeeded(l, result) THEN "success" ELSE "failure",
                     IF job[l].req.kind = "single" THEN result # "ok"
                                                   ELSE ~ Succeeded(l, result))
  <2>1. job'[l] = NoJob /\ (outcome'[l] = "success" => Succeeded(l, result))
    BY <1>5 DEF Finish, TypeOK
  <2>2. QED BY <1>1, <1>2, <1>3, <2>1, NoJobUngrounded, GroundedLocal
<1>6. QED BY <1>4, <1>5 DEF Settle

LEMMA GroundedStep ==
  ASSUME Typed, Reaped, Grounded, NEW l \in Loops,
         Begin(l) \/ Progress(l) \/ Exit(l)
           \/ CancelStart(l) \/ CancelCheck(l) \/ CancelWait(l)
  PROVE  Grounded'
<1> USE DEF Typed
<1>0. /\ job[l].good \/ job[l].result \in {"ok", "unparsed"} => clean[l]
      /\ phase[l] = "stopping" => job[l].spoiled \/ job[l].cancelled
      /\ phase[l] \in {"running", "draining"} /\ proc[l] = "ok" =>
           job[l].spoiled \/ job[l].cancelled \/ clean[l]
      /\ outcome[l] = "success" => clean[l]
  BY DEF Grounded, SuccessGrounded, SuccessMeansRan
<1>p. /\ phase[l] = "draining" => proc[l] \in {"ok", "bad"}
      /\ proc[l] = "live" => phase[l] \in {"running", "stopping"}
  BY DEF Reaped, ProcessInPhase, ProcessesReaped
<1>w. lock.waiter = l \/ l \in lock.late => phase[l] \in {"entering", "leaving"}
  BY LoopAssumption DEF WaiterWaits
<1>j. job[l] \in Job
  BY DEF TypeOK
<1>1. CASE Begin(l)
  <2>1. PICK r \in Requests : job' = [job EXCEPT ![l] = Fresh(r)]
    BY <1>1 DEF Begin
  <2>2. ~ job'[l].good /\ job'[l].result = "none"
    BY <2>1 DEF Fresh, TypeOK
  <2>3. phase'[l] = "begun" /\ outcome'[l] = "none"
    BY <1>1 DEF Begin, Goto, TypeOK
  <2>4. \A k \in Loops \ {l} : /\ phase'[k] = phase[k] /\ proc'[k] = proc[k]
                               /\ job'[k] = job[k] /\ clean'[k] = clean[k]
                               /\ outcome'[k] = outcome[k]
    BY <1>1, <2>1 DEF Begin, Goto, TypeOK
  <2>5. QED BY <2>2, <2>3, <2>4, GroundedLocal
<1>2. CASE Refuse(l)
  BY <1>2, GroundedLocal, <1>0, <1>p, <1>w, <1>j, NoJobUngrounded DEF Refuse, Finish, Goto, TypeOK
<1>3. CASE List(l)
  BY <1>3, GroundedLocal, <1>0, <1>p, <1>w, <1>j, NoJobUngrounded DEF List, Finish, Goto, TypeOK
<1>4. CASE Dispatch(l)
  BY <1>4, GroundedLocal, <1>0, <1>p, <1>w, <1>j DEF Dispatch, Goto, TypeOK, Job
<1>5. CASE Acquire(l)
  BY <1>5, GroundedLocal, <1>0, <1>p, <1>w, <1>j DEF Acquire, Goto, TypeOK, Job, AtLock, Section
<1>6. CASE FindTaken(l) \/ Wait(l)
  BY <1>6, GroundedLocal, <1>0, <1>p, <1>w, <1>j DEF FindTaken, Wait, Job, state
<1>7. CASE WrongLoop(l)
  BY <1>7, GroundedLocal, <1>0, <1>p, <1>w, <1>j, NoJobUngrounded DEF WrongLoop, Finish, Goto, TypeOK
<1>8. CASE Resume(l)
  BY <1>8, GroundedLocal, <1>0, <1>p, <1>w, <1>j DEF Resume, Goto, TypeOK, Job, Section
<1>9. CASE Busy(l)
  BY <1>9, SettleGrounded DEF Busy
<1>10. CASE Admit(l)
  BY <1>10, GroundedLocal, <1>0, <1>p, <1>w, <1>j DEF Admit, Goto, TypeOK, Job
<1>11. CASE NotStarted(l)
  BY <1>11, GroundedLocal, <1>0, <1>p, <1>w, <1>j DEF NotStarted, Goto, TypeOK, Job, Leave
<1>12. CASE Spawn(l)
  BY <1>12, GroundedLocal, <1>0, <1>p, <1>w, <1>j DEF Spawn, Goto, TypeOK, Job
<1>13. CASE GiveUp(l)
  BY <1>13, GroundedLocal, <1>0, <1>p, <1>w, <1>j DEF GiveUp, Goto, TypeOK, Job
<1>14. CASE Kill(l)
  BY <1>14, GroundedLocal, <1>0, <1>p, <1>w, <1>j DEF Kill, Goto, TypeOK, Job
<1>15. CASE Reap(l)
  BY <1>15, GroundedLocal, <1>0, <1>p, <1>w, <1>j DEF Reap, Goto, TypeOK, Job
<1>16. CASE Drain(l)
  BY <1>16, GroundedLocal, <1>0, <1>p, <1>w, <1>j DEF Drain, Goto, TypeOK, Job, Leave, Verdicts
<1>17. CASE Release(l)
  <2>1. CASE job[l].cancelled
    <3>1. Finish(l, "cancelled", TRUE) /\ UNCHANGED <<proc, clean>>
      BY <1>17, <2>1 DEF Release
    <3>2. outcome'[l] = "cancelled" /\ \A k \in Loops \ {l} : outcome'[k] = outcome[k]
      BY <3>1 DEF Finish, TypeOK
    <3>3. QED BY <3>1, <3>2, FinishMoves, GroundedLocal, <1>0, NoJobUngrounded
  <2>2. CASE ~ job[l].cancelled
    <3>1. Settle(l, job[l].result) /\ UNCHANGED <<proc, clean>>
      BY <1>17, <2>2 DEF Release
    <3>2. job[l].result \in {"none", "ok", "unparsed", "failed"}
      BY <1>j DEF Job
    <3>3. QED BY <3>1, <3>2, <1>0, SettleGrounded
  <2>3. QED BY <2>1, <2>2
<1>18. CASE Exit(l)
  <2>1. PICK how \in {"ok", "bad"} :
          /\ proc[l] = "live" /\ proc' = [proc EXCEPT ![l] = how]
          /\ clean' = [clean EXCEPT ![l] = @ \/ (how = "ok" /\ phase[l] = "running")]
    BY <1>18, Zenon DEF Exit
  <2>2. /\ proc'[l] = how /\ (clean[l] => clean'[l])
        /\ how = "ok" /\ phase[l] = "running" => clean'[l]
    BY <2>1, Zenon DEF TypeOK
  <2>3. \A k \in Loops \ {l} : proc'[k] = proc[k] /\ clean'[k] = clean[k]
    BY <2>1 DEF TypeOK
  <2>4. phase' = phase /\ job' = job /\ outcome' = outcome
    BY <1>18 DEF Exit
  <2>5. phase[l] # "draining"
    BY <2>1, <1>p
  <2>6. QED BY <2>2, <2>3, <2>4, <2>5, <1>0, GroundedLocal
<1>19. CASE CancelStart(l)
  BY <1>19, GroundedLocal, <1>0, <1>p, <1>w, <1>j DEF CancelStart, Goto, TypeOK, Job, Cancelled
<1>20. CASE CancelCheck(l)
  BY <1>20, GroundedLocal, <1>0, <1>p, <1>w, <1>j DEF CancelCheck, Goto, TypeOK, Job, Cancelled
<1>21. CASE CancelWait(l)
  BY <1>21, GroundedLocal, <1>0, <1>p, <1>w, <1>j, NoJobUngrounded DEF CancelWait, Finish, Goto, TypeOK
<1>22. QED BY <1>1, <1>2, <1>3, <1>4, <1>5, <1>6, <1>7, <1>8,
     <1>9, <1>10, <1>11, <1>12, <1>13, <1>14, <1>15, <1>16,
     <1>17, <1>18, <1>19, <1>20, <1>21 DEF Progress

-----------------------------------------------------------------------------
(* Limits *)

LEMMA AdmitWithin ==
  ASSUME TypeOK, TakenWithin, NEW l \in Loops, Admit(l)
  PROVE  TakenWithin'
<1> DEFINE u0 == job[l].req.user  s0 == job[l].req.server
<1>1. u0 \in Users /\ s0 \in Servers
  BY RequestAssumption DEF TypeOK, Job, Request
<1>2. setting.all \in Nat /\ setting.user \in Nat /\ setting.server \in Nat
  BY SettingAssumption DEF TypeOK
<1>3. /\ taken.all \in Nat /\ taken'.all = taken.all + 1
      /\ \A u \in Users : /\ taken.users[u] \in Nat
                          /\ taken'.users[u] = IF u = u0 THEN taken.users[u] + 1
                                                         ELSE taken.users[u]
      /\ \A s \in Servers : /\ taken.servers[s] \in Nat
                            /\ taken'.servers[s] = IF s = s0 THEN taken.servers[s] + 1
                                                             ELSE taken.servers[s]
  BY DEF Admit, TypeOK
<1>4. ~ (taken.all >= setting.all) /\ ~ (taken.users[u0] >= setting.user)
      /\ ~ (taken.servers[s0] >= setting.server) /\ setting' = setting
  BY DEF Admit, Full
<1> HIDE DEF u0, s0
<1>5. taken'.all <= setting.all
  BY <1>2, <1>3, <1>4
<1>6. \A u \in Users : taken'.users[u] <= setting.user
  BY <1>1, <1>2, <1>3, <1>4 DEF TakenWithin
<1>7. \A s \in Servers : taken'.servers[s] <= setting.server
  BY <1>1, <1>2, <1>3, <1>4 DEF TakenWithin
<1>8. QED BY <1>4, <1>5, <1>6, <1>7 DEF TakenWithin

LEMMA ReleaseWithin ==
  ASSUME TypeOK, TakenWithin, NEW l \in Loops, Release(l)
  PROVE  TakenWithin'
<1> DEFINE u0 == job[l].req.user  s0 == job[l].req.server
<1>2. setting.all \in Nat /\ setting.user \in Nat /\ setting.server \in Nat
  BY SettingAssumption DEF TypeOK
<1>3. /\ taken.all \in Nat /\ taken'.all = taken.all - 1 /\ setting' = setting
      /\ \A u \in Users : /\ taken.users[u] \in Nat
                          /\ taken'.users[u] = IF u = u0 THEN taken.users[u] - 1
                                                         ELSE taken.users[u]
      /\ \A s \in Servers : /\ taken.servers[s] \in Nat
                            /\ taken'.servers[s] = IF s = s0 THEN taken.servers[s] - 1
                                                             ELSE taken.servers[s]
  BY DEF Release, TypeOK
<1> HIDE DEF u0, s0
<1>5. taken'.all <= setting.all
  BY <1>2, <1>3 DEF TakenWithin
<1>6. \A u \in Users : taken'.users[u] <= setting.user
  BY <1>2, <1>3 DEF TakenWithin
<1>7. \A s \in Servers : taken'.servers[s] <= setting.server
  BY <1>2, <1>3 DEF TakenWithin
<1>8. QED BY <1>3, <1>5, <1>6, <1>7 DEF TakenWithin

LEMMA WithinStep ==
  ASSUME Typed, TakenWithin, NEW l \in Loops,
         Begin(l) \/ Progress(l) \/ Exit(l)
           \/ CancelStart(l) \/ CancelCheck(l) \/ CancelWait(l)
  PROVE  TakenWithin'
<1>1. CASE Admit(l)
  BY <1>1, AdmitWithin DEF Typed
<1>2. CASE Release(l)
  BY <1>2, ReleaseWithin DEF Typed
<1>3. CASE UNCHANGED <<setting, taken>>
  BY <1>3 DEF TakenWithin
<1>4. \/ Admit(l) \/ Release(l) \/ UNCHANGED <<setting, taken>>
  BY DEF Progress, Begin, Refuse, List, Dispatch, Acquire, FindTaken, Wait, WrongLoop, Resume,
         Busy, NotStarted, Spawn, Exit, GiveUp, Kill, Reap, Drain,
         CancelStart, CancelCheck, CancelWait
<1>5. QED BY <1>1, <1>2, <1>3, <1>4

-----------------------------------------------------------------------------
(* The invariant, and what it gives *)

LEMMA IInvInit == Init => IInv
<1> SUFFICES ASSUME Init PROVE IInv
  OBVIOUS
<1>1. Reaped /\ SuccessGrounded /\ SuccessMeansRan
  BY NoJobUngrounded DEF Init, Reaped, ProcessInPhase, ProcessesReaped,
                         SuccessGrounded, SuccessMeansRan
<1>2. TakenWithin
  BY SettingAssumption DEF Init, TakenWithin
<1>3. QED BY <1>1, <1>2, TypedInit DEF IInv

LEMMA IInvStep ==
  ASSUME IInv, NEW l \in Loops,
         Begin(l) \/ Progress(l) \/ Exit(l)
           \/ CancelStart(l) \/ CancelCheck(l) \/ CancelWait(l)
  PROVE  Reaped' /\ Grounded' /\ TakenWithin'
  BY ReapedStep, GroundedStep, WithinStep DEF IInv, Grounded

LEMMA IInvNext == IInv /\ [Next]_vars => IInv'
<1> SUFFICES ASSUME IInv, [Next]_vars PROVE IInv'
  OBVIOUS
<1>1. Typed'
  BY TypedNext DEF IInv
<1>2. Reaped' /\ Grounded' /\ TakenWithin'
  <2>1. ASSUME NEW l \in Loops, Begin(l) \/ Progress(l) \/ Exit(l)
        PROVE  Reaped' /\ Grounded' /\ TakenWithin'
    BY <2>1, IInvStep
  <2>2. CASE Cancel
    BY <2>2, IInvStep DEF Cancel, Loops
  <2>3. CASE UNCHANGED vars
    BY <2>3 DEF vars, state, IInv, Reaped, ProcessInPhase, ProcessesReaped,
                Grounded, SuccessGrounded, SuccessMeansRan, TakenWithin
  <2>4. QED BY <2>1, <2>2, <2>3 DEF Next
<1>3. QED BY <1>1, <1>2 DEF IInv, Grounded

(* The inductive invariant holds in every reachable state. *)
THEOREM SshInvariantHolds == Spec => []IInv
<1>1. QED BY IInvInit, IInvNext, PTL DEF Spec

(* All variables keep their types; in particular no counter of the limiter  *)
(* is ever taken below zero by a release (limits.py, permit).               *)
THEOREM SshTypeCorrect == Spec => []TypeOK
<1>1. IInv => TypeOK
  BY DEF IInv, Typed
<1>2. QED BY <1>1, SshInvariantHolds, PTL

(* The limiter's counters never run below the checks that hold a permit,    *)
(* and are exact as long as no loop meets the lock taken, whatever fails or *)
(* is cancelled on the way (limits.py, permit).                             *)
THEOREM PermitsAlwaysMatch == Spec => []PermitsMatch
<1>1. IInv => PermitsMatch
  BY DEF IInv, Typed
<1>2. QED BY <1>1, SshInvariantHolds, PTL

(* No ssh process is alive once its check is past process.wait()            *)
(* (transport.py, execute and _stop_process).                               *)
THEOREM ProcessesAlwaysReaped == Spec => []ProcessesReaped
<1>1. IInv => ProcessesReaped
  BY DEF IInv, Reaped
<1>2. QED BY <1>1, SshInvariantHolds, PTL

(* Only a request one of whose processes ended with exit status 0 in its    *)
(* time reports success (transport.py, _result; service.py, _dispatch).     *)
THEOREM SuccessAlwaysRan == Spec => []SuccessMeansRan
<1>1. IInv => SuccessMeansRan
  BY DEF IInv
<1>2. QED BY <1>1, SshInvariantHolds, PTL

-----------------------------------------------------------------------------
(* The metrics: one loop more is under way with Begin, one less with Finish,*)
(* and nothing else moves a loop into or out of "idle".                     *)

LEMMA OngoingFinite == IsFiniteSet(Ongoing) /\ Cardinality(Ongoing) \in Nat
<1>1. IsFiniteSet(Loops)
  BY LoopAssumption, FS_AddElement, FS_EmptySet, FS_Union DEF Loops
<1>2. QED BY <1>1, FS_Subset, FS_CardinalityType DEF Ongoing

LEMMA MetricsKept ==
  ASSUME MetricsTrue, metrics' = metrics, setting' = setting,
         \A l \in Loops : phase'[l] = "idle" <=> phase[l] = "idle"
  PROVE  MetricsTrue'
<1>1. Ongoing' = Ongoing
  BY DEF Ongoing
<1>2. QED BY <1>1 DEF MetricsTrue, Ongoing

LEMMA MetricsMoved ==
  ASSUME TypeOK, MetricsTrue, metrics' = metrics, setting' = setting,
         NEW l \in Loops, NEW p, p # "idle", phase[l] # "idle", Goto(l, p)
  PROVE  MetricsTrue'
<1>1. \A k \in Loops : phase'[k] = "idle" <=> phase[k] = "idle"
  BY DEF Goto, TypeOK
<1>2. QED BY <1>1, MetricsKept

LEMMA MetricsBegin == ASSUME TypeOK, MetricsTrue, NEW l \in Loops, Begin(l) PROVE MetricsTrue'
<1>1. phase[l] = "idle" /\ phase' = [phase EXCEPT ![l] = "begun"] /\ setting' = setting
  BY DEF Begin, Goto
<1>a. PICK a \in Written(l, metrics.active + 1) :
        metrics' = [metrics EXCEPT !.active = a, !.requests = metrics.requests + 1]
  BY DEF Begin
<1>2. Ongoing' = Ongoing \union {l} /\ l \notin Ongoing
  BY <1>1 DEF Ongoing, TypeOK
<1>3. Cardinality(Ongoing') = Cardinality(Ongoing) + 1
  BY <1>2, OngoingFinite, FS_AddElement
<1>4. /\ metrics'.active = a /\ metrics'.requests = metrics.requests + 1
      /\ metrics'.failures = metrics.failures
      /\ metrics.active \in Nat /\ metrics.requests \in Nat /\ metrics.failures \in Nat
  BY <1>a DEF TypeOK
<1>5. metrics'.failures + Cardinality(Ongoing') <= metrics'.requests
  BY <1>3, <1>4, OngoingFinite DEF MetricsTrue
<1>6. ~ setting.torn => metrics'.active = Cardinality(Ongoing')
  BY <1>3, <1>4 DEF MetricsTrue, Written
<1>7. QED BY <1>1, <1>5, <1>6 DEF MetricsTrue

LEMMA MetricsFinish ==
  ASSUME TypeOK, MetricsTrue, NEW l \in Loops, NEW how, NEW error \in BOOLEAN, phase[l] # "idle",
         Finish(l, how, error), setting' = setting
  PROVE  MetricsTrue'
<1> DEFINE f == IF error THEN metrics.failures + 1 ELSE metrics.failures
<1>1. Ongoing' = Ongoing \ {l} /\ l \in Ongoing
  BY DEF Ongoing, TypeOK, Finish, Goto
<1>2. Cardinality(Ongoing') = Cardinality(Ongoing) - 1 /\ Cardinality(Ongoing) \in Nat \ {0}
  BY <1>1, OngoingFinite, FS_RemoveElement, FS_EmptySet
<1>4. metrics.active \in Nat /\ metrics.requests \in Nat /\ metrics.failures \in Nat
  BY DEF TypeOK
<1>5. f \in Nat /\ f <= metrics.failures + 1
  <2>1. CASE error = TRUE
    BY <1>4, <2>1
  <2>2. CASE error = FALSE
    BY <1>4, <2>2
  <2>3. QED BY <2>1, <2>2
<1>6. PICK a \in Written(l, IF metrics.active = 0 THEN 0 ELSE metrics.active - 1) :
        metrics' = [metrics EXCEPT !.active = a, !.failures = f]
  BY Zenon DEF Finish
<1> HIDE DEF f
<1>7. metrics'.active = a /\ metrics'.failures = f /\ metrics'.requests = metrics.requests
  BY <1>6 DEF TypeOK
<1>8. ~ setting.torn => metrics'.active = Cardinality(Ongoing')
  BY <1>2, <1>4, <1>7 DEF MetricsTrue, Written
<1>9. metrics'.failures + Cardinality(Ongoing') <= metrics'.requests
  BY <1>2, <1>4, <1>5, <1>7 DEF MetricsTrue
<1>10. QED BY <1>8, <1>9 DEF MetricsTrue

LEMMA MetricsSettle ==
  ASSUME TypeOK, MetricsTrue, NEW l \in Loops, NEW result \in {"none", "ok", "unparsed", "failed"},
         phase[l] # "idle", Settle(l, result), setting' = setting
  PROVE  MetricsTrue'
<1>1. CASE Goto(l, "entering") /\ UNCHANGED <<metrics, outcome>>
  BY <1>1, MetricsMoved
<1>2. CASE \E how, error \in BOOLEAN : Finish(l, how, error)
  BY <1>2, MetricsFinish
<1>3. Succeeded(l, result) \in BOOLEAN
  BY DEF Succeeded, TypeOK, Job
<1>4. ASSUME NEW how, NEW error, error = (IF job[l].req.kind = "single" THEN result # "ok" ELSE ~ Succeeded(l, result)),
             Finish(l, how, error)
      PROVE  MetricsTrue'
  <2>1. error \in BOOLEAN
    BY <1>3, <1>4
  <2>2. QED BY <1>4, <2>1, MetricsFinish
<1>5. QED BY <1>1, <1>4 DEF Settle

LEMMA MetricsNext == TypeOK /\ WaiterWaits /\ MetricsTrue /\ [Next]_vars => MetricsTrue'
<1> SUFFICES ASSUME TypeOK, WaiterWaits, MetricsTrue, [Next]_vars PROVE MetricsTrue'
  OBVIOUS
<1>1. ASSUME NEW l \in Loops, Begin(l) PROVE MetricsTrue'
  BY <1>1, MetricsBegin
<1>2. ASSUME NEW l \in Loops, Refuse(l) \/ List(l) \/ WrongLoop(l) PROVE MetricsTrue'
  <2>1. phase[l] # "idle"
    BY <1>2 DEF Refuse, List, WrongLoop, WaiterWaits
  <2>2. QED BY <1>2, <2>1, MetricsFinish DEF Refuse, List, WrongLoop
<1>3. ASSUME NEW l \in Loops, Dispatch(l) PROVE MetricsTrue'
  BY <1>3, MetricsMoved DEF Dispatch
<1>4. ASSUME NEW l \in Loops, Acquire(l) \/ Resume(l) PROVE MetricsTrue'
  <2>1. Goto(l, Section(l)) /\ metrics' = metrics /\ setting' = setting /\ Section(l) # "idle"
    BY <1>4 DEF Acquire, Resume, Section
  <2>2. phase[l] # "idle"
    BY <1>4, LoopAssumption DEF Acquire, AtLock, Resume, WaiterWaits
  <2>3. QED BY <2>1, <2>2, MetricsMoved
<1>5. ASSUME NEW l \in Loops, FindTaken(l) \/ Wait(l) \/ Exit(l) \/ Kill(l)
      PROVE  MetricsTrue'
  BY <1>5, MetricsKept DEF FindTaken, Wait, Exit, Kill, state
<1>6. ASSUME NEW l \in Loops, Busy(l) PROVE MetricsTrue'
  BY <1>6, MetricsSettle DEF Busy
<1>7. ASSUME NEW l \in Loops, Release(l) PROVE MetricsTrue'
  <2>1. /\ phase[l] = "releasing" /\ job[l].result \in {"none", "ok", "unparsed", "failed"}
        /\ setting' = setting
    BY <1>7 DEF Release, TypeOK, Job
  <2>2. CASE Finish(l, "cancelled", TRUE)
    BY <2>1, <2>2, MetricsFinish
  <2>3. CASE Settle(l, job[l].result)
    BY <2>1, <2>3, MetricsSettle
  <2>4. QED BY <1>7, <2>2, <2>3 DEF Release
<1>8. ASSUME NEW l \in Loops, Admit(l) \/ NotStarted(l) \/ Spawn(l) \/ GiveUp(l) \/ Reap(l) \/ Drain(l)
      PROVE  MetricsTrue'
  <2>1. phase[l] # "idle" /\ metrics' = metrics /\ setting' = setting
    BY <1>8 DEF Admit, NotStarted, Spawn, GiveUp, Reap, Drain
  <2>2. \E p \in {"admitted", "leaving", "running", "stopping", "draining"} : Goto(l, p)
    BY <1>8 DEF Admit, NotStarted, Spawn, GiveUp, Reap, Drain, Leave
  <2>3. QED BY <2>1, <2>2, MetricsMoved
<1>9. CASE Cancel
  <2>1. Bot \in Loops
    BY DEF Loops
  <2>2. CASE CancelStart(Bot) \/ CancelCheck(Bot)
    BY <2>1, <2>2, MetricsMoved DEF CancelStart, CancelCheck
  <2>3. CASE CancelWait(Bot)
    <3>1. phase[Bot] # "idle"
      BY <2>1, <2>3, LoopAssumption DEF CancelWait, WaiterWaits
    <3>2. QED BY <2>1, <2>3, <3>1, MetricsFinish DEF CancelWait
  <2>4. QED BY <1>9, <2>2, <2>3 DEF Cancel
<1>10. CASE UNCHANGED vars
  BY <1>10, MetricsKept DEF vars, state
<1>11. QED BY <1>1, <1>2, <1>3, <1>4, <1>5, <1>6, <1>7, <1>8, <1>9, <1>10 DEF Next, Progress

(* A request is counted as failed at most once, and not before it ends, on  *)
(* every way out: refusals, errors of the lock, checks that are cancelled.  *)
(* Unless a thread is switched inside finish(), the active requests are     *)
(* exactly those under way (metrics.py; service.py, _request).              *)
THEOREM MetricsAreTrue == Spec => []MetricsTrue
<1>1. Init => MetricsTrue
  <2> SUFFICES ASSUME Init PROVE MetricsTrue
    OBVIOUS
  <2>1. Ongoing = {}
    BY DEF Init, Ongoing
  <2>2. Cardinality(Ongoing) = 0
    BY <2>1, FS_EmptySet
  <2>3. metrics.active = 0 /\ metrics.failures = 0 /\ metrics.requests = 0
    BY DEF Init
  <2>4. QED BY <2>2, <2>3 DEF MetricsTrue
<1>2. IInv => TypeOK /\ WaiterWaits
  BY DEF IInv, Typed
<1>3. QED BY <1>1, <1>2, MetricsNext, SshInvariantHolds, PTL DEF Spec

-----------------------------------------------------------------------------
(* SshService implements SshSlots: however many loops share the limiter,   *)
(* and whatever it does with its lock, the limits hold of the processes.   *)

(* Distinct checks belong to distinct loops, so there are no more of them. *)
LEMMA ChecksOfLoops ==
  ASSUME NEW S, NEW T, IsFiniteSet(T),
         \A c \in S : c.loop \in T,
         \A c, d \in S : c.loop = d.loop => c = d
  PROVE  Cardinality(S) <= Cardinality(T)
<1> DEFINE f == [c \in S |-> c.loop]
<1>1. f \in [S -> T] /\ \A c, d \in S : f[c] = f[d] => c = d
  OBVIOUS
<1> HIDE DEF f
<1>2. f \in Injection(S, T)
  BY <1>1, Fun_IsInj
<1>3. QED BY <1>2, FS_Injection

(* The instance counts as we do. *)
LEMMA SlotsCounts == \A S : Slots!Cardinality(S) = Cardinality(S)
  BY Zenon DEF Slots!Cardinality, Cardinality

LEMMA CheckFields ==
  \A l \in Loops : /\ Check(l).loop = l
                   /\ Check(l).user = job[l].req.user
                   /\ Check(l).server = job[l].req.server
  BY DEF Check

LEMMA CheckType == TypeOK => \A l \in Loops : Check(l) \in Slots!Check
  BY RequestAssumption DEF TypeOK, Job, Request, Check, Slots!Check

(* The processes are within the limits because their loops hold permits,   *)
(* the counters cover the permits, and the limits the counters.            *)
LEMMA RunningWithin == IInv => Slots!Within(Running)
<1> SUFFICES ASSUME IInv PROVE Slots!Within(Running)
  OBVIOUS
<1>1. \A c \in Running : c.loop \in Loops /\ proc[c.loop] = "live" /\ c = Check(c.loop)
  BY CheckFields DEF Running
<1>2. \A c \in Running : c.loop \in Holders
  BY <1>1 DEF IInv, Reaped, ProcessesReaped, Holders, Holding
<1>3. \A c, d \in Running : c.loop = d.loop => c = d
  BY <1>1
<1>4. Cardinality(Running) <= Cardinality(Holders)
  BY <1>2, <1>3, HoldersFinite, ChecksOfLoops
<1>5. \A u : Cardinality({c \in Running : c.user = u}) <= Cardinality(HoldersOf(u))
  <2> TAKE u
  <2>1. \A c \in {d \in Running : d.user = u} : c.loop \in HoldersOf(u)
    BY <1>1, <1>2, CheckFields DEF HoldersOf
  <2>2. QED BY <2>1, <1>3, HoldersFinite, ChecksOfLoops
<1>6. \A s : Cardinality({c \in Running : c.server = s}) <= Cardinality(HoldersOn(s))
  <2> TAKE s
  <2>1. \A c \in {d \in Running : d.server = s} : c.loop \in HoldersOn(s)
    BY <1>1, <1>2, CheckFields DEF HoldersOn
  <2>2. QED BY <2>1, <1>3, HoldersFinite, ChecksOfLoops
<1>7. Running \subseteq {Check(l) : l \in Loops} /\ IsFiniteSet(Running)
  <2>1. Running \subseteq {Check(l) : l \in Loops}
    BY DEF Running
  <2> DEFINE g == [c \in Running |-> c.loop]
  <2>2. g \in [Running -> Holders] /\ \A c, d \in Running : g[c] = g[d] => c = d
    BY <1>2, <1>3
  <2> HIDE DEF g
  <2>3. g \in Injection(Running, Holders)
    BY <2>2, Fun_IsInj
  <2>4. QED BY <2>1, <2>3, HoldersFinite, FS_Injection
<1>8. /\ Cardinality(Running) \in Nat /\ Cardinality(Holders) \in Nat
      /\ \A u : /\ Cardinality({c \in Running : c.user = u}) \in Nat
                /\ Cardinality(HoldersOf(u)) \in Nat
      /\ \A s : /\ Cardinality({c \in Running : c.server = s}) \in Nat
                /\ Cardinality(HoldersOn(s)) \in Nat
  <2>1. /\ \A u : IsFiniteSet({c \in Running : c.user = u})
        /\ \A s : IsFiniteSet({c \in Running : c.server = s})
    BY <1>7, FS_Subset
  <2>2. QED BY <2>1, <1>7, HoldersFinite, FS_CardinalityType
<1>9. /\ setting.all \in Nat /\ setting.user \in Nat /\ setting.server \in Nat
      /\ taken.all \in Nat /\ \A u \in Users : taken.users[u] \in Nat
      /\ \A s \in Servers : taken.servers[s] \in Nat
  BY SettingAssumption DEF IInv, Typed, TypeOK
<1>10. /\ taken.all >= Cardinality(Holders) /\ taken.all <= setting.all
       /\ \A u \in Users : taken.users[u] >= Cardinality(HoldersOf(u))
                           /\ taken.users[u] <= setting.user
       /\ \A s \in Servers : taken.servers[s] >= Cardinality(HoldersOn(s))
                             /\ taken.servers[s] <= setting.server
  BY DEF IInv, Typed, PermitsMatch, TakenWithin
<1>11. Cardinality(Running) <= setting.all
  BY <1>4, <1>8, <1>9, <1>10
<1>12. \A u \in Users : Cardinality({c \in Running : c.user = u}) <= setting.user
  BY <1>5, <1>8, <1>9, <1>10
<1>13. \A s \in Servers : Cardinality({c \in Running : c.server = s}) <= setting.server
  BY <1>6, <1>8, <1>9, <1>10
<1>14. /\ Limits.all = setting.all /\ Limits.user = setting.user
       /\ Limits.server = setting.server
  BY DEF Limits
<1>15. /\ Cardinality(Running) <= Limits.all
       /\ \A u \in Users : Cardinality({c \in Running : c.user = u}) <= Limits.user
       /\ \A s \in Servers : Cardinality({c \in Running : c.server = s}) <= Limits.server
  BY <1>11, <1>12, <1>13, <1>14
<1>16. QED BY <1>15, SlotsCounts DEF Slots!Within

LEMMA SlotsInit == Init => Slots!Init
<1> SUFFICES ASSUME Init PROVE Slots!Init
  OBVIOUS
<1>1. Running = {}
  BY DEF Init, Running
<1>2. Limits \in [all : Nat \ {0}, user : Nat \ {0}, server : Nat \ {0}]
  <2>1. setting \in [all : Nat \ {0}, user : Nat \ {0}, server : Nat \ {0},
                    contended : BOOLEAN, torn : BOOLEAN]
    BY SettingAssumption DEF Init
  <2>2. QED BY <2>1, Zenon DEF Limits
<1>3. QED BY <1>1, <1>2 DEF Slots!Init

LEMMA RunningSame ==
  ASSUME setting' = setting,
         \A k \in Loops : /\ proc'[k] = "live" <=> proc[k] = "live"
                          /\ proc[k] = "live" => job'[k].req = job[k].req
  PROVE  UNCHANGED <<Limits, Running>>
  BY DEF Limits, Running, Check

LEMMA SpawnStarts ==
  ASSUME IInv, IInv', NEW l \in Loops, Spawn(l)
  PROVE  Slots!Next
<1>1. /\ phase[l] = "admitted" /\ job' = job /\ setting' = setting
      /\ proc' = [proc EXCEPT ![l] = "live"] /\ proc \in [Loops -> {"none", "live", "ok", "bad"}]
  BY DEF Spawn, IInv, Typed, TypeOK
<1>2. Running' = Running \cup {Check(l)}
  BY <1>1 DEF Running, Check
<1>3. proc[l] # "live"
  BY <1>1 DEF IInv, Reaped, ProcessesReaped
<1>4. \A d \in Running : d.loop # Check(l).loop
  BY <1>3, CheckFields DEF Running
<1>5. UNCHANGED Limits
  BY <1>1 DEF Limits
<1>6. Slots!Within(Running')
  <2>1. (Slots!Within(Running))'
    BY RunningWithin, PTL
  <2>2. QED BY <2>1, <1>5 DEF Slots!Within
<1>7. Slots!Start(Check(l))
  BY <1>2, <1>4, <1>5, <1>6 DEF Slots!Start
<1>8. QED BY <1>7, CheckType DEF Slots!Next, IInv, Typed

(* A process ends by itself or is killed: its check stops. *)
LEMMA EndStops ==
  ASSUME IInv, NEW l \in Loops, Exit(l) \/ Kill(l)
  PROVE  Slots!Next
<1>1. PICK how \in {"ok", "bad"} : proc' = [proc EXCEPT ![l] = how]
  BY DEF Exit, Kill
<1>2. /\ job' = job /\ setting' = setting
      /\ proc \in [Loops -> {"none", "live", "ok", "bad"}]
  BY DEF Exit, Kill, IInv, Typed, TypeOK
<1>3. Running' = Running \ {Check(l)}
  BY <1>1, <1>2, CheckFields DEF Running, Check
<1>4. Slots!Stop(Check(l))
  BY <1>2, <1>3 DEF Slots!Stop, Limits
<1>5. QED BY <1>4, CheckType DEF Slots!Next, IInv, Typed

LEMMA SlotsStep == IInv /\ IInv' /\ [Next]_vars => [Slots!Next]_<<Limits, Running>>
<1> SUFFICES ASSUME IInv, IInv', [Next]_vars
             PROVE  [Slots!Next]_<<Limits, Running>>
  OBVIOUS
<1>1. ASSUME NEW l \in Loops,
             \/ Begin(l) \/ Refuse(l) \/ List(l) \/ Dispatch(l)
             \/ Acquire(l) \/ FindTaken(l) \/ Wait(l) \/ WrongLoop(l) \/ Resume(l)
             \/ Busy(l) \/ Admit(l) \/ NotStarted(l) \/ GiveUp(l) \/ Reap(l)
             \/ Drain(l) \/ Release(l)
             \/ CancelStart(l) \/ CancelCheck(l) \/ CancelWait(l)
      PROVE  UNCHANGED <<Limits, Running>>
  <2>l. /\ proc[l] = "live" => phase[l] \in {"running", "stopping"}
        /\ lock.waiter = l \/ l \in lock.late => phase[l] \in {"entering", "leaving"}
        /\ TypeOK
    BY LoopAssumption DEF IInv, Typed, Reaped, ProcessesReaped, WaiterWaits
  <2>1. CASE \/ Begin(l) \/ Refuse(l) \/ List(l) \/ WrongLoop(l)
             \/ Busy(l) \/ Release(l) \/ CancelWait(l)
    <3>1. proc[l] # "live" /\ proc' = proc /\ setting' = setting
      BY <2>1, <2>l DEF Begin, Refuse, List, WrongLoop, Busy, Release, CancelWait
    <3>2. \A k \in Loops \ {l} : job'[k] = job[k]
      <4>1. CASE Begin(l)
        BY <4>1, <2>l DEF Begin, TypeOK
      <4>2. CASE ~ Begin(l)
        BY <2>1, <4>2, <2>l, FinishMoves, SettleMoves
        DEF Refuse, List, WrongLoop, Busy, Release, CancelWait
      <4>3. QED BY <4>1, <4>2
    <3>3. QED BY <3>1, <3>2, RunningSame
  <2>2. CASE \/ Dispatch(l) \/ Acquire(l) \/ FindTaken(l) \/ Wait(l) \/ Resume(l)
             \/ Admit(l) \/ Reap(l)
    BY <2>2, RunningSame DEF Dispatch, Acquire, FindTaken, Wait, Resume, Admit, Reap, state
  <2>3. CASE NotStarted(l) \/ GiveUp(l) \/ CancelStart(l) \/ CancelCheck(l)
    BY <2>3, <2>l, RunningSame
    DEF NotStarted, Leave, GiveUp, CancelStart, CancelCheck, Cancelled, TypeOK, Job
  <2>4. CASE Drain(l)
    <3>1. proc[l] # "live" /\ proc' = [proc EXCEPT ![l] = "none"] /\ setting' = setting
      BY <2>4, <2>l DEF Drain
    <3>2. \A k \in Loops \ {l} : job'[k] = job[k]
      BY <2>4, <2>l DEF Drain, Leave, TypeOK
    <3>3. QED BY <3>1, <3>2, <2>l, RunningSame DEF TypeOK
  <2>5. QED BY <1>1, <2>1, <2>2, <2>3, <2>4
<1>2. ASSUME NEW l \in Loops, Begin(l) \/ Progress(l) \/ Exit(l)
      PROVE  [Slots!Next]_<<Limits, Running>>
  BY <1>1, <1>2, SpawnStarts, EndStops DEF Progress
<1>3. CASE Cancel
  BY <1>1, <1>3 DEF Cancel, Loops
<1>4. CASE UNCHANGED vars
  BY <1>4, RunningSame DEF vars, state
<1>5. QED BY <1>2, <1>3, <1>4 DEF Next

(* The ssh processes that are alive never exceed the limits for all, for a *)
(* user and for a server, on any loop and through any cancellation         *)
(* (limits.py, ConcurrencyLimiter).                                        *)
THEOREM SlotsImplemented == Spec => SlotsKept
  BY SlotsInit, SlotsStep, SshInvariantHolds, PTL DEF Spec, SlotsKept, Slots!Spec

-----------------------------------------------------------------------------
(* Who waits for the lock is the loop it is bound to: no other loop pushes  *)
(* the waiter aside.                                                        *)

WaiterBound == lock.waiter # NoLoop => lock.loop = lock.waiter

LEMMA BoundStep ==
  ASSUME Typed, WaiterBound, NEW l \in Loops,
         Begin(l) \/ Progress(l) \/ Exit(l)
           \/ CancelStart(l) \/ CancelCheck(l) \/ CancelWait(l)
  PROVE  WaiterBound'
<1>0. lock \in Lock
  BY DEF Typed, TypeOK
<1>1. CASE Acquire(l) \/ FindTaken(l) \/ WrongLoop(l)
  BY <1>0, <1>1 DEF Acquire, FindTaken, WrongLoop, Lock, WaiterBound
<1>2. CASE Wait(l)
  BY <1>0, <1>2 DEF Wait, Lock, WaiterBound
<1>3. CASE Resume(l) \/ CancelWait(l)
  BY <1>0, <1>3 DEF Resume, CancelWait, Lock, WaiterBound
<1>4. CASE Busy(l) \/ Admit(l) \/ Release(l)
  BY <1>4, UnlockedType DEF Busy, Admit, Release, WaiterBound, Typed
<1>5. CASE lock' = lock
  BY <1>5 DEF WaiterBound
<1>6. \/ Acquire(l) \/ FindTaken(l) \/ WrongLoop(l) \/ Wait(l) \/ Resume(l) \/ CancelWait(l)
      \/ Busy(l) \/ Admit(l) \/ Release(l) \/ lock' = lock
  BY DEF Progress, Begin, Refuse, List, Dispatch, NotStarted, Spawn, Exit, GiveUp, Kill,
         Reap, Drain, CancelStart, CancelCheck
<1>7. QED BY <1>1, <1>2, <1>3, <1>4, <1>5, <1>6

LEMMA BoundNext == Typed /\ WaiterBound /\ [Next]_vars => WaiterBound'
<1> SUFFICES ASSUME Typed, WaiterBound, [Next]_vars PROVE WaiterBound'
  OBVIOUS
<1>1. ASSUME NEW l \in Loops, Begin(l) \/ Progress(l) \/ Exit(l) PROVE WaiterBound'
  BY <1>1, BoundStep
<1>2. CASE Cancel
  BY <1>2, BoundStep DEF Cancel, Loops
<1>3. CASE UNCHANGED vars
  BY <1>3 DEF vars, state, WaiterBound
<1>4. QED BY <1>1, <1>2, <1>3 DEF Next

LEMMA WaiterBoundHolds == Spec => []WaiterBound
<1>1. Init => WaiterBound
  BY DEF Init, FreeLock, WaiterBound
<1>2. IInv => Typed
  BY DEF IInv
<1>3. QED BY <1>1, <1>2, BoundNext, SshInvariantHolds, PTL DEF Spec

-----------------------------------------------------------------------------
(* Where permits are lost *)

LEMMA ExcessKept ==
  ASSUME taken' = taken, \A k \in Loops : phase'[k] \in Holding <=> phase[k] \in Holding
  PROVE  Excess' = Excess
<1>1. Holders' = Holders
  BY DEF Holders
<1>2. QED BY <1>1 DEF Excess

LEMMA ExcessAdmit ==
  ASSUME TypeOK, NEW l \in Loops, Admit(l)
  PROVE  Excess' = Excess
<1>1. Holders' = Holders \union {l} /\ l \notin Holders
  BY DEF Admit, Goto, Holders, Holding, TypeOK
<1>2. /\ Cardinality(Holders) \in Nat
      /\ Cardinality(Holders') = Cardinality(Holders) + 1
  BY <1>1, HoldersFinite, FS_AddElement, FS_CardinalityType
<1>3. taken.all \in Nat /\ taken'.all = taken.all + 1
  BY DEF Admit, TypeOK
<1>4. QED BY <1>2, <1>3 DEF Excess

LEMMA ExcessRelease ==
  ASSUME TypeOK, NEW l \in Loops, Release(l)
  PROVE  Excess' = Excess
<1>1. Holders' = Holders \ {l} /\ l \in Holders
  BY SettleMoves, FinishMoves DEF Release, Holders, Holding
<1>2. /\ Cardinality(Holders) \in Nat
      /\ Cardinality(Holders') = Cardinality(Holders) - 1
  BY <1>1, HoldersFinite, FS_RemoveElement, FS_CardinalityType
<1>3. taken.all \in Nat /\ taken'.all = taken.all - 1
  BY DEF Release, TypeOK
<1>4. QED BY <1>2, <1>3 DEF Excess

Loss ==
  /\ Excess' = Excess + 1
  /\ setting.contended
  /\ \E l \in Loops : phase[l] = "leaving" /\ phase'[l] = "idle"

(* Out of the limiter without a release: from before the check nothing is   *)
(* lost, from after it one permit is.                                       *)
LEMMA ExcessDropped ==
  ASSUME TypeOK, NEW l \in Loops, phase[l] \in {"entering", "leaving"}, setting.contended,
         taken' = taken, phase'[l] = "idle", \A k \in Loops \ {l} : phase'[k] = phase[k]
  PROVE  Excess' = Excess \/ Loss
<1>1. CASE phase[l] = "entering"
  BY <1>1, ExcessKept DEF Holding
<1>2. CASE phase[l] = "leaving"
  <2>1. Holders' = Holders \ {l} /\ l \in Holders
    BY <1>2 DEF Holders, Holding
  <2>2. /\ Cardinality(Holders) \in Nat
        /\ Cardinality(Holders') = Cardinality(Holders) - 1
    BY <2>1, HoldersFinite, FS_RemoveElement, FS_CardinalityType
  <2>3. taken.all \in Nat
    BY DEF TypeOK
  <2>4. Excess' = Excess + 1
    BY <2>2, <2>3 DEF Excess
  <2>5. QED BY <1>2, <2>4 DEF Loss
<1>3. QED BY <1>1, <1>2

LEMMA ExcessStep ==
  ASSUME Typed, NEW l \in Loops,
         Begin(l) \/ Progress(l) \/ Exit(l)
           \/ CancelStart(l) \/ CancelCheck(l) \/ CancelWait(l)
  PROVE  Excess' = Excess \/ Loss
<1> USE DEF Typed
<1>w. lock.waiter = l \/ l \in lock.late =>
        phase[l] \in {"entering", "leaving"} /\ setting.contended
  BY LoopAssumption DEF WaiterWaits
<1>1. CASE \/ Begin(l) \/ Dispatch(l) \/ NotStarted(l) \/ Spawn(l) \/ GiveUp(l)
           \/ Reap(l) \/ Drain(l) \/ CancelStart(l) \/ CancelCheck(l)
  BY <1>1, ExcessKept
  DEF Begin, Dispatch, NotStarted, Leave, Spawn, GiveUp, Reap, Drain, CancelStart,
      CancelCheck, Goto, TypeOK, Holding
<1>2. CASE Kill(l) \/ Exit(l) \/ FindTaken(l) \/ Wait(l)
  BY <1>2, ExcessKept DEF Kill, Exit, FindTaken, Wait, state
<1>3. CASE Refuse(l) \/ List(l)
  BY <1>3, FinishMoves, ExcessKept DEF Refuse, List, Holding
<1>4. CASE Acquire(l) \/ Resume(l)
  <2>1. phase[l] \in {"entering", "leaving"} /\ Goto(l, Section(l)) /\ taken' = taken
    BY <1>4, <1>w DEF Acquire, Resume, AtLock
  <2>2. QED BY <2>1, ExcessKept DEF Goto, Section, TypeOK, Holding
<1>5. CASE Busy(l)
  BY <1>5, SettleMoves, ExcessKept DEF Busy, Holding
<1>6. CASE Admit(l)
  BY <1>6, ExcessAdmit
<1>7. CASE Release(l)
  BY <1>7, ExcessRelease
<1>8. CASE WrongLoop(l) \/ CancelWait(l)
  <2>1. phase[l] \in {"entering", "leaving"} /\ setting.contended /\ taken' = taken
    BY <1>8, <1>w DEF WrongLoop, CancelWait
  <2>2. phase'[l] = "idle" /\ \A k \in Loops \ {l} : phase'[k] = phase[k]
    BY <1>8, FinishMoves DEF WrongLoop, CancelWait
  <2>3. QED BY <2>1, <2>2, ExcessDropped
<1>9. QED BY <1>1, <1>2, <1>3, <1>4, <1>5, <1>6, <1>7, <1>8 DEF Progress

LEMMA ExcessNext == Typed /\ [Next]_vars => [Excess' = Excess \/ Loss]_vars
<1> SUFFICES ASSUME Typed, Next PROVE Excess' = Excess \/ Loss
  OBVIOUS
<1>1. ASSUME NEW l \in Loops, Begin(l) \/ Progress(l) \/ Exit(l)
      PROVE  Excess' = Excess \/ Loss
  BY <1>1, ExcessStep
<1>2. CASE Cancel
  BY <1>2, ExcessStep DEF Cancel, Loops
<1>3. QED BY <1>1, <1>2 DEF Next

(* The one way to lose a permit, for any number of loops: a loop meets the  *)
(* lock taken when it is to give its permit back, and leaves.  Refusals,    *)
(* failures, time-outs and cancellations anywhere else lose none            *)
(* (limits.py, permit).                                                     *)
THEOREM PermitsLostOnlyAtLock == Spec => LostOnlyAtLock
<1>1. IInv => Typed
  BY DEF IInv
<1>2. Typed /\ [Next]_vars => [\/ Excess' = Excess
                               \/ /\ Excess' = Excess + 1
                                  /\ setting.contended
                                  /\ \E l \in Loops : phase[l] = "leaving" /\ phase'[l] = "idle"]_vars
  BY ExcessNext DEF Loss
<1>3. QED BY <1>1, <1>2, SshInvariantHolds, PTL DEF Spec, LostOnlyAtLock

(* And so, if no loop ever meets the lock taken, all permits are back when  *)
(* all requests have ended: what limits.py promises holds on one loop.      *)
THEOREM PermitsReturnedUncontended == Spec => [](~ setting.contended => PermitsReturned)
<1>1. IInv => (~ setting.contended => PermitsReturned)
  <2> SUFFICES ASSUME IInv, ~ setting.contended, \A l \in Loops : phase[l] = "idle"
               PROVE  taken.all = 0
    BY DEF PermitsReturned
  <2>1. Holders = {}
    BY DEF Holders, Holding
  <2>2. taken.all = Cardinality(Holders)
    BY DEF IInv, Typed, PermitsMatch
  <2>3. QED BY <2>1, <2>2, FS_EmptySet
<1>2. QED BY <1>1, SshInvariantHolds, PTL

-----------------------------------------------------------------------------
(* What a request has left *)

LEMMA LeftTyped ==
  ASSUME Typed, NEW l \in Loops
  PROVE  /\ job[l].left \in Nat /\ Interruptions(l) \in 0 .. 2 /\ Stage(l) \in 0 .. 12
         /\ Left(l) \in Nat \X (0 .. 2) \X (0 .. 12)
<1>1. job[l].left \in Nat /\ Interruptions(l) \in 0 .. 2
  BY DEF Typed, TypeOK, Job, Interruptions
<1>2. phase[l] \in Phases
  BY DEF Typed, TypeOK
<1>3. Stage(l) \in 0 .. 12
  BY <1>2 DEF Phases, Stage, AtDoor
<1>4. QED BY <1>1, <1>3 DEF Left

(* The order of the three numbers. *)
LEMMA LeftOrder ==
  ASSUME NEW l \in Loops,
         \/ job'[l].left < job[l].left
         \/ job'[l].left = job[l].left /\ Interruptions(l)' < Interruptions(l)
         \/ /\ job'[l].left = job[l].left /\ Interruptions(l)' = Interruptions(l)
            /\ Stage(l)' < Stage(l)
  PROVE  Less(Left(l)', Left(l))
<1> DEFINE m == Left(l)'
           n == Left(l)
<1>1. /\ m = <<job'[l].left, Interruptions(l)', Stage(l)'>>
      /\ n = <<job[l].left, Interruptions(l), Stage(l)>>
  BY DEF Left
<1>2. CASE job'[l].left < job[l].left
  <2>1. m[1] < n[1] /\ \A j \in 1 .. 1 - 1 : m[j] = n[j]
    BY <1>1, <1>2
  <2>2. QED BY <2>1 DEF Less
<1>3. CASE job'[l].left = job[l].left /\ Interruptions(l)' < Interruptions(l)
  <2>1. m[2] < n[2] /\ \A j \in 1 .. 2 - 1 : m[j] = n[j]
    BY <1>1, <1>3
  <2>2. QED BY <2>1 DEF Less
<1>4. CASE /\ job'[l].left = job[l].left /\ Interruptions(l)' = Interruptions(l)
           /\ Stage(l)' < Stage(l)
  <2>1. m[3] < n[3] /\ \A j \in 1 .. 3 - 1 : m[j] = n[j]
    BY <1>1, <1>4
  <2>2. QED BY <2>1 DEF Less
<1>5. QED BY <1>2, <1>3, <1>4

(* A step moves on within a check. *)
LEMMA StageFalls ==
  ASSUME NEW l \in Loops, job'[l].left = job[l].left,
         job'[l].spoiled = job[l].spoiled, job'[l].cancelled = job[l].cancelled,
         Stage(l)' < Stage(l)
  PROVE  Less(Left(l)', Left(l))
<1>1. Interruptions(l)' = Interruptions(l)
  BY DEF Interruptions
<1>2. QED BY <1>1, LeftOrder

(* The end of a check that is not the last. *)
LEMMA SettleUsesUp ==
  ASSUME TypeOK, NEW l \in Loops, NEW result, Settle(l, result), phase'[l] # "idle"
  PROVE  Less(Left(l)', Left(l))
<1>1. job[l] \in Job /\ phase' # [phase EXCEPT ![l] = "idle"]
  BY DEF TypeOK
<1>2. job' = [job EXCEPT ![l].left = @ - 1, ![l].good = Succeeded(l, result),
                         ![l].result = "none", ![l].spoiled = FALSE]
  BY <1>1 DEF Settle, Finish, Goto
<1>3. job'[l].left = job[l].left - 1 /\ job[l].left \in Nat
  BY <1>1, <1>2 DEF TypeOK, Job
<1>4. job'[l].left < job[l].left
  BY <1>3
<1>5. QED BY <1>4, LeftOrder

(* A step of one loop leaves the requests of the others alone; in the lock, *)
(* because a loop that waits is not pushed aside.                           *)
LEMMA OthersKept ==
  ASSUME Typed, WaiterBound, NEW l \in Loops,
         Begin(l) \/ Progress(l) \/ Exit(l)
           \/ CancelStart(l) \/ CancelCheck(l) \/ CancelWait(l),
         NEW k \in Loops \ {l}
  PROVE  Own(k)' = Own(k)
<1> USE DEF Typed
<1>1. phase'[k] = phase[k] /\ job'[k] = job[k] /\ proc'[k] = proc[k]
  <2>1. CASE Begin(l)
    BY <2>1 DEF Begin, Goto, TypeOK
  <2>2. CASE Refuse(l) \/ List(l) \/ WrongLoop(l) \/ CancelWait(l)
    BY <2>2, FinishMoves DEF Refuse, List, WrongLoop, CancelWait
  <2>3. CASE Busy(l) \/ Release(l)
    BY <2>3, FinishMoves, SettleMoves DEF Busy, Release
  <2>4. CASE \/ Dispatch(l) \/ Acquire(l) \/ Resume(l) \/ Admit(l) \/ NotStarted(l)
             \/ Spawn(l) \/ GiveUp(l) \/ Reap(l) \/ Drain(l) \/ CancelStart(l)
             \/ CancelCheck(l)
    BY <2>4 DEF Dispatch, Acquire, Resume, Admit, NotStarted, Spawn, GiveUp, Reap, Drain,
                CancelStart, CancelCheck, Cancelled, Leave, Goto, TypeOK
  <2>5. CASE FindTaken(l) \/ Wait(l) \/ Kill(l) \/ Exit(l)
    BY <2>5 DEF FindTaken, Wait, Kill, Exit, state, TypeOK
  <2>6. QED BY <2>1, <2>2, <2>3, <2>4, <2>5 DEF Progress
<1>2. (lock'.waiter = k <=> lock.waiter = k) /\ (k \in lock'.late <=> k \in lock.late)
  <2>0. lock \in Lock /\ k # NoLoop /\ k # l
    BY LoopAssumption DEF TypeOK
  <2>1. CASE Wait(l)
    <3>1. lock.waiter \in {NoLoop, l}
      BY <2>1 DEF Wait, WaiterBound
    <3>2. lock'.waiter = l /\ lock'.late = lock.late \ {l}
      BY <2>0, <2>1 DEF Wait, Lock
    <3>3. QED BY <2>0, <3>1, <3>2
  <2>2. CASE Resume(l) \/ CancelWait(l)
    BY <2>0, <2>2 DEF Resume, CancelWait, Lock
  <2>3. CASE Busy(l) \/ Admit(l) \/ Release(l)
    BY <2>3, UnlockedType DEF Busy, Admit, Release
  <2>4. CASE Acquire(l) \/ FindTaken(l) \/ WrongLoop(l)
    BY <2>0, <2>4 DEF Acquire, FindTaken, WrongLoop, Lock
  <2>5. CASE lock' = lock
    BY <2>5
  <2>6. \/ Wait(l) \/ Resume(l) \/ CancelWait(l) \/ Busy(l) \/ Admit(l) \/ Release(l)
        \/ Acquire(l) \/ FindTaken(l) \/ WrongLoop(l) \/ lock' = lock
    BY DEF Progress, Begin, Refuse, List, Dispatch, NotStarted, Spawn, Exit,
           GiveUp, Kill, Reap, Drain, CancelStart, CancelCheck
  <2>7. QED BY <2>1, <2>2, <2>3, <2>4, <2>5, <2>6
<1>3. QED BY <1>1, <1>2 DEF Own

LEMMA StepUsesUp ==
  ASSUME Typed, ProcessesReaped, NEW l \in Loops, phase[l] # "idle", phase'[l] # "idle",
         \/ Begin(l) \/ Progress(l) \/ Exit(l)
         \/ ~ job[l].cancelled /\ (CancelStart(l) \/ CancelCheck(l) \/ CancelWait(l))
  PROVE  Less(Left(l)', Left(l))
<1> USE DEF Typed
<1>w. lock.waiter = l \/ l \in lock.late => phase[l] \in {"entering", "leaving"}
  BY LoopAssumption DEF WaiterWaits
<1>j. job[l] \in Job
  BY DEF TypeOK
<1>1. ~ (Begin(l) \/ Refuse(l) \/ List(l) \/ WrongLoop(l) \/ CancelWait(l))
  BY FinishMoves DEF Begin, Refuse, List, WrongLoop, CancelWait
<1>2. CASE Dispatch(l)
  <2>1. phase[l] = "begun" /\ phase'[l] = "entering" /\ job' = job
    BY <1>2 DEF Dispatch, Goto, TypeOK
  <2>2. Stage(l)' < Stage(l)
    BY <2>1 DEF Stage, AtDoor
  <2>3. QED BY <2>1, <2>2, StageFalls
<1>3. CASE Acquire(l) \/ Resume(l)
  <2>1. \/ phase[l] = "entering" /\ phase'[l] = "admitting"
        \/ phase[l] = "leaving" /\ phase'[l] = "releasing"
    BY <1>3, <1>w DEF Acquire, Resume, AtLock, Section, Goto, TypeOK
  <2>2. Stage(l)' < Stage(l) /\ job' = job
    BY <1>3, <2>1 DEF Stage, AtDoor, Acquire, Resume
  <2>3. QED BY <2>2, StageFalls
<1>4. CASE FindTaken(l) \/ Wait(l)
  <2>1. phase[l] \in {"entering", "leaving"} /\ phase' = phase /\ job' = job
    BY <1>4, <1>w DEF FindTaken, Wait, AtLock, state
  <2>2. CASE FindTaken(l)
    <3>1. /\ lock.waiter # l /\ l \notin lock.late
          /\ lock'.waiter = lock.waiter /\ l \in lock'.late
      BY <2>2 DEF FindTaken, AtLock, TypeOK, Lock
    <3>2. Stage(l)' < Stage(l)
      BY <2>1, <3>1 DEF Stage, AtDoor
    <3>3. QED BY <2>1, <3>2, StageFalls
  <2>3. CASE Wait(l)
    <3>1. lock.waiter # l /\ l \in lock.late /\ lock'.waiter = l
      BY <2>3 DEF Wait, WaiterWaits, TypeOK, Lock
    <3>2. Stage(l)' < Stage(l)
      BY <2>1, <3>1 DEF Stage, AtDoor
    <3>3. QED BY <2>1, <3>2, StageFalls
  <2>4. QED BY <1>4, <2>2, <2>3
<1>5. CASE Busy(l)
  BY <1>5, SettleUsesUp DEF Busy
<1>6. CASE Release(l)
  BY <1>6, SettleUsesUp, FinishMoves DEF Release
<1>7. CASE Admit(l)
  <2>1. phase[l] = "admitting" /\ phase'[l] = "admitted" /\ job' = job
    BY <1>7 DEF Admit, Goto, TypeOK
  <2>2. Stage(l)' < Stage(l)
    BY <2>1 DEF Stage
  <2>3. QED BY <2>1, <2>2, StageFalls
<1>8. CASE NotStarted(l) \/ Drain(l)
  <2>1. phase[l] \in {"admitted", "draining"} /\ phase'[l] = "leaving"
    BY <1>8 DEF NotStarted, Drain, Leave, Goto, TypeOK
  <2>2. Stage(l)' < Stage(l)
    BY <2>1 DEF Stage, AtDoor
  <2>3. /\ job'[l].left = job[l].left /\ job'[l].spoiled = job[l].spoiled
        /\ job'[l].cancelled = job[l].cancelled
    BY <1>8, <1>j DEF NotStarted, Drain, Leave, TypeOK, Job
  <2>4. QED BY <2>2, <2>3, StageFalls
<1>9. CASE Spawn(l)
  <2>1. phase[l] = "admitted" /\ phase'[l] = "running" /\ job' = job
    BY <1>9 DEF Spawn, Goto, TypeOK
  <2>2. Stage(l)' < Stage(l)
    BY <2>1 DEF Stage
  <2>3. QED BY <2>1, <2>2, StageFalls
<1>10. CASE Reap(l)
  <2>1. /\ phase[l] \in {"running", "stopping"} /\ phase'[l] = "draining" /\ job' = job
    BY <1>10 DEF Reap, Goto, TypeOK
  <2>2. Stage(l)' < Stage(l)
    BY <2>1 DEF Stage
  <2>3. QED BY <2>1, <2>2, StageFalls
<1>11. CASE Kill(l) \/ Exit(l)
  <2>1. /\ proc[l] = "live" /\ proc'[l] # "live" /\ job' = job /\ phase' = phase
    BY <1>11 DEF Kill, Exit, TypeOK
  <2>2. phase[l] \in {"running", "stopping"}
    BY <2>1 DEF ProcessesReaped
  <2>3. Stage(l)' < Stage(l)
    BY <2>1, <2>2 DEF Stage
  <2>4. QED BY <2>1, <2>3, StageFalls
<1>12. CASE GiveUp(l)
  <2>1. /\ job'[l].left = job[l].left /\ job'[l].cancelled = job[l].cancelled
        /\ ~ job[l].spoiled /\ job'[l].spoiled
    BY <1>12, <1>j DEF GiveUp, TypeOK, Job
  <2>2. Interruptions(l)' < Interruptions(l)
    BY <2>1 DEF Interruptions
  <2>3. QED BY <2>1, <2>2, LeftOrder
<1>13. CASE ~ job[l].cancelled /\ (CancelStart(l) \/ CancelCheck(l))
  <2>1. /\ job'[l].left = job[l].left /\ job'[l].spoiled = job[l].spoiled
        /\ ~ job[l].cancelled /\ job'[l].cancelled
    BY <1>13, <1>j DEF CancelStart, CancelCheck, Cancelled, TypeOK, Job
  <2>2. Interruptions(l)' < Interruptions(l)
    BY <2>1 DEF Interruptions
  <2>3. QED BY <2>1, <2>2, LeftOrder
<1>14. QED BY <1>1, <1>2, <1>3, <1>4, <1>5, <1>6, <1>7, <1>8, <1>9, <1>10, <1>11, <1>12, <1>13
     DEF Progress

UsesUp ==
  \A l \in Loops : phase[l] # "idle" /\ phase'[l] # "idle" =>
                   Own(l)' = Own(l) \/ Less(Left(l)', Left(l))

LEMMA UsesUpNext == IInv /\ WaiterBound /\ [Next]_vars => [UsesUp]_vars
<1> SUFFICES ASSUME IInv, WaiterBound, Next PROVE UsesUp
  OBVIOUS
<1>1. PICK l \in Loops :
        \/ Begin(l) \/ Progress(l) \/ Exit(l)
        \/ ~ job[l].cancelled /\ (CancelStart(l) \/ CancelCheck(l) \/ CancelWait(l))
  BY DEF Next, Cancel, Loops
<1>2. phase[l] # "idle" /\ phase'[l] # "idle" => Less(Left(l)', Left(l))
  BY <1>1, StepUsesUp DEF IInv, Reaped
<1>3. \A k \in Loops \ {l} : Own(k)' = Own(k)
  BY <1>1, OthersKept DEF IInv
<1>4. QED BY <1>2, <1>3 DEF UsesUp

(* No request of any loop can go round for ever: whatever ends, hangs, is   *)
(* refused or is cancelled, each step of it makes a triple of naturals      *)
(* smaller in the lexicographic order, so that all `Answered` needs beyond  *)
(* this is that its next step is taken.                                     *)
THEOREM RequestsAreUsedUp ==
  Spec => /\ RequestsUsedUp
          /\ [](\A l \in Loops : Left(l) \in Nat \X (0 .. 2) \X (0 .. 12))
<1>1. IInv => \A l \in Loops : Left(l) \in Nat \X (0 .. 2) \X (0 .. 12)
  BY LeftTyped DEF IInv
<1>2. IInv /\ WaiterBound /\ [Next]_vars =>
        [\A l \in Loops : phase[l] # "idle" /\ phase'[l] # "idle" =>
                          Own(l)' = Own(l) \/ Less(Left(l)', Left(l))]_vars
  BY UsesUpNext DEF UsesUp
<1>3. QED BY <1>1, <1>2, SshInvariantHolds, WaiterBoundHolds, PTL DEF Spec, RequestsUsedUp

=============================================================================
