----------------------------- MODULE AccessProof -----------------------------
(***************************************************************************)
(* Proofs about Access, for every set of users, allow-lists and places, and*)
(* any number of invites, offers, starts and ticks.                        *)
(***************************************************************************)
EXTENDS Access, SequenceTheorems, TLAPS

-----------------------------------------------------------------------------
(* The inductive invariant.                                                *)

(* Where every row of the table users comes from.                          *)
RowsFounded ==
    \A u \in Users :
        /\ users[u].role = "none" => users[u].status = "none"
        /\ users[u].role = "owner" => u \in configured
        /\ users[u].role = "family" => \E i \in InviteIds : u \in letin[i]

(* An invite that has let somebody in is used, and let in nobody else.     *)
InvitesUsed ==
    \A i \in InviteIds :
        /\ letin[i] # {} => i \in DOMAIN invites /\ invites[i].state = "used"
        /\ \A u, v \in letin[i] : u = v

(* Who is barred keeps his row, so that neither an invite nor a start of   *)
(* the process makes him a new one.                                        *)
BarredKept == \A u \in barred : users[u].role = "family" /\ users[u].status # "active"

(* The offer the process holds for a user is the last he was shown.        *)
OffersNewest ==
    \A u \in Users : offers[u] # 0 =>
        /\ given[offers[u]].user = u
        /\ Newest(u, offers[u])
        /\ offers[u] \notin decided

IInv == TypeOK /\ RowsFounded /\ InvitesUsed /\ BarredKept /\ OffersNewest

-----------------------------------------------------------------------------

Invite == [by : Users, expires : Nat, state : {"open", "used", "revoked"}]

LEMMA InvitesType ==
  ASSUME TypeOK
  PROVE  /\ invites \in Seq(Invite) /\ DOMAIN invites = 1..Len(invites)
         /\ \A i \in DOMAIN invites : invites[i] \in Invite
<1>1. invites \in Seq(Invite)
  BY DEF TypeOK, Invite
<1>2. QED BY <1>1

Offer == [user : Users, place : Places]

LEMMA GivenType ==
  ASSUME TypeOK
  PROVE  /\ given \in Seq(Offer) /\ DOMAIN given = 1..Len(given)
         /\ \A n \in DOMAIN given : n # 0 /\ given[n] \in Offer
<1>1. given \in Seq(Offer)
  BY DEF TypeOK, Offer
<1>2. QED BY <1>1

LEMMA InitIInv == Init => IInv
<1> SUFFICES ASSUME Init PROVE IInv
  OBVIOUS
<1> USE DEF Init, Nobody
<1>1. TypeOK
  <2>1. /\ <<>> \in Seq([by : Users, expires : Nat, state : {"open", "used", "revoked"}])
        /\ <<>> \in Seq([user : Users, place : Places])
        /\ Len(<<>>) = 0
    OBVIOUS
  <2>2. 0 <= MaxInvites /\ 0 <= MaxOffers
    BY AccessAssumption
  <2>3. [u \in Users |-> 0] \in [Users -> DOMAIN given \union {0}]
    OBVIOUS
  <2>4. QED BY <2>1, <2>2, <2>3 DEF TypeOK
<1>2. RowsFounded /\ BarredKept
  BY DEF RowsFounded, BarredKept
<1>3. InvitesUsed
  BY DEF InvitesUsed
<1>4. OffersNewest
  BY DEF OffersNewest
<1>5. QED BY <1>1, <1>2, <1>3, <1>4 DEF IInv

(* The types and each conjunct, by the action that can disturb it.         *)
LEMMA BootStep == ASSUME IInv, NEW allow \in Allowlists, Boot(allow) PROVE IInv'
<1> USE AccessAssumption DEF IInv, Boot
<1>a. ASSUME NEW u \in Users
      PROVE  \/ users'[u] = users[u]
             \/ u \in allow /\ users[u] = Nobody /\ users'[u] = [role |-> "owner", status |-> "active"]
  <2>1. CASE u \in allow /\ users[u] = Nobody
    BY <2>1 DEF Bootstrapped
  <2>2. CASE u \notin allow \/ users[u] # Nobody
    BY <2>2 DEF Bootstrapped
  <2>3. QED BY <2>1, <2>2
<1>1. TypeOK'
  <2>1. users' \in [Users -> [role : {"none", "owner", "family"},
                              status : {"none", "active", "disabled", "removed"}]]
    BY DEF TypeOK, Bootstrapped
  <2>2. \A u \in Users : users'[u].role = "owner" => users'[u].status = "active"
    BY <1>a DEF TypeOK
  <2>3. QED BY <2>1, <2>2 DEF TypeOK
<1>2. RowsFounded'
  <2> SUFFICES ASSUME NEW u \in Users
               PROVE  /\ users'[u].role = "none" => users'[u].status = "none"
                      /\ users'[u].role = "owner" => u \in configured'
                      /\ users'[u].role = "family" => \E i \in InviteIds : u \in letin'[i]
    BY DEF RowsFounded
  <2>1. CASE users'[u] = users[u]
    BY <2>1 DEF RowsFounded
  <2>2. CASE u \in allow /\ users'[u] = [role |-> "owner", status |-> "active"]
    BY <2>2
  <2>3. QED BY <1>a, <2>1, <2>2
<1>4. BarredKept'
  <2>1. ASSUME NEW u \in barred PROVE u \in Users /\ users[u] # Nobody /\ users'[u] = users[u]
    BY <1>a DEF BarredKept, Nobody, TypeOK
  <2>2. QED BY <2>1 DEF BarredKept
<1>3. InvitesUsed' /\ OffersNewest'
  BY DEF InvitesUsed, OffersNewest, Newest
<1>5. QED BY <1>1, <1>2, <1>3, <1>4

LEMMA CrashStep == ASSUME IInv, Crash PROVE IInv'
<1> USE DEF IInv, Crash, tables
<1>1. TypeOK'
  BY DEF TypeOK
<1>2. RowsFounded' /\ BarredKept' /\ InvitesUsed'
  BY DEF RowsFounded, BarredKept, InvitesUsed
<1>3. OffersNewest'
  BY DEF OffersNewest
<1>4. QED BY <1>1, <1>2, <1>3

LEMMA InviteStep == ASSUME IInv, NEW u \in Users, InviteFamily(u) PROVE IInv'
<1> USE AccessAssumption DEF IInv, InviteFamily, history
<1> DEFINE new == [by |-> u, expires |-> now + InviteTtl, state |-> "open"]
<1>1. new \in Invite
  BY DEF TypeOK, Invite
<1>2. invites' = Append(invites, new)
  BY DEF new
<1> HIDE DEF new
<1>3. /\ invites' \in Seq(Invite) /\ Len(invites') = Len(invites) + 1
      /\ \A i \in DOMAIN invites : i \in DOMAIN invites' /\ invites'[i] = invites[i]
  BY <1>1, <1>2, InvitesType
<1>4. TypeOK'
  BY <1>3 DEF TypeOK, Invite
<1>5. RowsFounded' /\ BarredKept' /\ OffersNewest'
  BY DEF RowsFounded, BarredKept, OffersNewest, Newest
<1>6. InvitesUsed'
  BY <1>3 DEF InvitesUsed
<1>7. QED BY <1>4, <1>5, <1>6

LEMMA RedeemStep ==
  ASSUME IInv, NEW u \in Users, NEW i \in DOMAIN invites, Redeem(u, i) PROVE IInv'
<1> USE DEF IInv, Redeem, Unknown, Nobody
<1>a. i \in InviteIds /\ invites[i].state = "open" /\ letin[i] = {}
  <2>1. i \in 1..Len(invites) /\ Len(invites) \in Nat /\ Len(invites) <= MaxInvites
    BY InvitesType DEF TypeOK
  <2>2. i \in InviteIds
    BY <2>1, AccessAssumption DEF InviteIds
  <2>3. invites[i].state = "open"
    BY DEF Valid
  <2>4. QED BY <2>2, <2>3 DEF InvitesUsed
<1>b. /\ letin' \in [InviteIds -> SUBSET Users]
      /\ letin'[i] = {u} /\ \A j \in InviteIds : j # i => letin'[j] = letin[j]
  BY <1>a DEF TypeOK
<1>c. /\ DOMAIN invites' = DOMAIN invites /\ Len(invites') = Len(invites)
      /\ invites'[i].state = "used"
      /\ \A j \in DOMAIN invites : j # i => invites'[j] = invites[j]
      /\ invites' \in Seq(Invite)
  <2> DEFINE used == [invites[i] EXCEPT !.state = "used"]
  <2>1. invites \in Seq(Invite) /\ i \in 1..Len(invites) /\ invites[i] \in Invite
    BY InvitesType
  <2>2. used \in Invite /\ used.state = "used"
    BY <2>1 DEF Invite
  <2>3. invites' = [invites EXCEPT ![i] = used]
    BY DEF UseUp
  <2> HIDE DEF used
  <2>4. QED BY <2>1, <2>2, <2>3, ExceptSeq
<1>d. /\ users'[u] = [role |-> "family", status |-> "active"]
      /\ \A v \in Users : v # u => users'[v] = users[v]
  BY DEF TypeOK
<1>1. TypeOK'
  BY <1>b, <1>c DEF TypeOK, Invite
<1>2. RowsFounded'
  BY <1>a, <1>b, <1>d DEF RowsFounded
<1>3. InvitesUsed'
  BY <1>a, <1>b, <1>c DEF InvitesUsed
<1>4. BarredKept'
  BY <1>d DEF BarredKept, TypeOK
<1>5. OffersNewest'
  BY DEF OffersNewest, Newest
<1>6. QED BY <1>1, <1>2, <1>3, <1>4, <1>5

LEMMA SetStatusStep ==
  ASSUME IInv, NEW u \in Users, NEW other \in Users,
         NEW status \in {"active", "disabled", "removed"}, SetStatus(u, other, status)
  PROVE  IInv'
<1> USE DEF IInv, SetStatus, Settable
<1>a. /\ users'[other].role = "family" /\ users'[other].status = status
      /\ \A v \in Users : v # other => users'[v] = users[v]
  BY DEF TypeOK
<1>1. TypeOK'
  BY <1>a DEF TypeOK
<1>2. RowsFounded' /\ InvitesUsed' /\ OffersNewest'
  BY <1>a DEF RowsFounded, InvitesUsed, OffersNewest, Newest
<1>3. BarredKept'
  BY <1>a DEF BarredKept, TypeOK
<1>4. QED BY <1>1, <1>2, <1>3

LEMMA RevokeStep == ASSUME IInv, NEW u \in Users, RevokeInvites(u) PROVE IInv'
<1> USE DEF IInv, RevokeInvites, history
<1>a. \A i \in DOMAIN invites :
         /\ Revoked(i, u) \in Invite
         /\ invites[i].state = "used" => Revoked(i, u).state = "used"
  BY InvitesType DEF Revoked, Invite
<1>b. DOMAIN invites' = DOMAIN invites /\ \A i \in DOMAIN invites : invites'[i] = Revoked(i, u)
  OBVIOUS
<1>c. invites' \in Seq(Invite) /\ Len(invites') = Len(invites)
  <2>1. invites' \in [1..Len(invites) -> Invite] /\ Len(invites) \in Nat
    BY <1>a, <1>b, InvitesType
  <2>2. QED BY <2>1, SeqDef
<1>1. TypeOK'
  BY <1>b, <1>c DEF TypeOK, Invite
<1>2. RowsFounded' /\ BarredKept' /\ OffersNewest'
  BY DEF RowsFounded, BarredKept, OffersNewest, Newest
<1>3. InvitesUsed'
  BY <1>a, <1>b DEF InvitesUsed
<1>4. QED BY <1>1, <1>2, <1>3

LEMMA SendStep ==
  ASSUME IInv, NEW u \in Users, NEW p \in Places, SendLocation(u, p) PROVE IInv'
<1> USE DEF IInv, SendLocation, history, tables
<1> DEFINE n == Len(given) + 1
<1>a. /\ Len(given') = n /\ given'[n].user = u
      /\ \A m \in DOMAIN given : given'[m] = given[m]
      /\ DOMAIN given' = DOMAIN given \union {n}
      /\ n \notin DOMAIN given
      /\ given' \in Seq(Offer)
  <2> DEFINE new == [user |-> u, place |-> p]
  <2>1. new \in Offer /\ new.user = u /\ given' = Append(given, new)
    BY DEF Offer
  <2>2. given \in Seq(Offer)
    BY GivenType
  <2> HIDE DEF new
  <2>3. QED BY <2>1, <2>2
<1>b. offers'[u] = n /\ \A v \in Users : v # u => offers'[v] = offers[v]
  BY DEF TypeOK
<1>1. TypeOK'
  <2>1. Len(given') <= MaxOffers /\ given' \in Seq([user : Users, place : Places])
    <3>1. Len(given) \in Nat /\ MaxOffers \in Nat /\ Len(given) < MaxOffers
      BY GivenType, AccessAssumption
    <3>2. QED BY <1>a, <3>1 DEF Offer
  <2>2. offers' \in [Users -> DOMAIN given' \union {0}]
    BY <1>a DEF TypeOK
  <2>3. decided' \subseteq DOMAIN given'
    BY <1>a DEF TypeOK
  <2>4. QED BY <2>1, <2>2, <2>3 DEF TypeOK
<1>2. RowsFounded' /\ BarredKept' /\ InvitesUsed'
  BY DEF RowsFounded, BarredKept, InvitesUsed
<1>3. OffersNewest'
  <2> SUFFICES ASSUME NEW v \in Users, offers'[v] # 0
               PROVE  /\ given'[offers'[v]].user = v
                      /\ Newest(v, offers[v])'
                      /\ offers'[v] \notin decided'
    BY DEF OffersNewest
  <2>1. CASE v = u
    BY <1>a, <1>b, <2>1 DEF Newest, TypeOK
  <2>2. CASE v # u
    <3>1. offers[v] \in DOMAIN given
      BY <1>b, <2>2 DEF TypeOK
    <3>2. QED BY <1>a, <1>b, <2>2, <3>1 DEF OffersNewest, Newest
  <2>3. QED BY <2>1, <2>2
<1>4. QED BY <1>1, <1>2, <1>3

LEMMA PressStep ==
  ASSUME IInv, NEW u \in Users, NEW n \in DOMAIN given, NEW saved \in BOOLEAN,
         Press(u, n, saved)
  PROVE  IInv'
<1> USE DEF IInv, Press, Matches
<1>a. n # 0 /\ given[n] \in Offer
  BY GivenType
<1>1. TypeOK'
  <2>1. places' \in [Users -> Places \union {NoPlace}]
    BY <1>a DEF TypeOK, Offer
  <2>2. QED BY <2>1 DEF TypeOK
<1>2. RowsFounded' /\ BarredKept' /\ InvitesUsed'
  BY DEF RowsFounded, BarredKept, InvitesUsed
<1>3. OffersNewest'
  <2> SUFFICES ASSUME NEW v \in Users, offers'[v] # 0
               PROVE  /\ given'[offers'[v]].user = v
                      /\ Newest(v, offers[v])'
                      /\ offers'[v] \notin decided'
    BY DEF OffersNewest
  <2>1. v # u /\ offers'[v] = offers[v]
    BY DEF TypeOK
  <2>2. QED BY <1>a, <2>1 DEF OffersNewest, Newest
<1>4. QED BY <1>1, <1>2, <1>3

LEMMA ClearStep == ASSUME IInv, NEW u \in Users, ClearLocation(u) PROVE IInv'
<1> USE DEF IInv, ClearLocation
<1>1. TypeOK'
  BY DEF TypeOK
<1>2. RowsFounded' /\ BarredKept' /\ InvitesUsed'
  BY DEF RowsFounded, BarredKept, InvitesUsed
<1>3. OffersNewest'
  <2> SUFFICES ASSUME NEW v \in Users, offers'[v] # 0
               PROVE  /\ given'[offers'[v]].user = v
                      /\ Newest(v, offers[v])'
                      /\ offers'[v] \notin decided'
    BY DEF OffersNewest
  <2>1. v # u /\ offers'[v] = offers[v]
    BY DEF TypeOK
  <2>2. QED BY <2>1 DEF OffersNewest, Newest
<1>4. QED BY <1>1, <1>2, <1>3

LEMMA NextIInv == IInv /\ [Next]_vars => IInv'
<1> SUFFICES ASSUME IInv, [Next]_vars PROVE IInv'
  OBVIOUS
<1>1. ASSUME NEW allow \in Allowlists, Boot(allow) PROVE IInv'
  BY <1>1, BootStep
<1>2. CASE Crash
  BY <1>2, CrashStep
<1>3. CASE Tick
  BY <1>3 DEF IInv, TypeOK, RowsFounded, InvitesUsed, BarredKept, OffersNewest, Newest,
              Tick, tables, history
<1>4. CASE AccessStep
  BY <1>4, InviteStep, RevokeStep, RedeemStep, SetStatusStep DEF AccessStep
<1>5. CASE LocationStep
  BY <1>5, SendStep, PressStep, ClearStep DEF LocationStep
<1>6. CASE UNCHANGED vars
  BY <1>6 DEF IInv, TypeOK, RowsFounded, InvitesUsed, BarredKept, OffersNewest, Newest,
              vars, tables, history
<1>7. QED BY <1>1, <1>2, <1>3, <1>4, <1>5, <1>6 DEF Next

(* The invariant holds throughout every run of access.py and the handlers. *)
THEOREM AccessInvariant == Spec => []IInv
  BY InitIInv, NextIInv, PTL DEF Spec

-----------------------------------------------------------------------------
(* What the runs check.                                                    *)

(* The tables and the pending locations keep their types, and a row of an  *)
(* owner is active.                                                        *)
THEOREM AccessTypes == Spec => []TypeOK
<1>1. IInv => TypeOK
  BY DEF IInv
<1>2. QED BY <1>1, AccessInvariant, PTL

(* Nobody is active whom no configuration and no invite has let in, an     *)
(* invite lets in one user, and whom an owner has put out stays out.       *)
THEOREM AccessIsEarned == Spec => []AccessEarned
<1>1. IInv => AccessEarned
  <2> SUFFICES ASSUME IInv PROVE AccessEarned
    OBVIOUS
  <2>1. ASSUME NEW u \in Users, users[u].status = "active"
        PROVE  u \in configured \/ \E i \in InviteIds : u \in letin[i]
    <3>1. users[u].role \in {"owner", "family"}
      BY <2>1 DEF IInv, TypeOK, RowsFounded
    <3>2. QED BY <3>1 DEF IInv, RowsFounded
  <2>2. \A i \in InviteIds : \A u, v \in letin[i] : u = v
    BY DEF IInv, InvitesUsed
  <2>3. \A u \in barred : users[u].status # "active"
    BY DEF IInv, BarredKept
  <2>4. QED BY <2>1, <2>2, <2>3 DEF AccessEarned
<1>2. QED BY <1>1, AccessInvariant, PTL

(* A place is saved only by the button of the last offer made to the user, *)
(* pressed by that user for the first time (location_callback).            *)
THEOREM LocationIsConfirmed == Spec => LocationConfirmed
<1> DEFINE Confirmed ==
      \A u \in Users : places'[u] \notin {places[u], NoPlace} =>
          \E n \in DOMAIN given :
              /\ given[n] = [user |-> u, place |-> places'[u]]
              /\ Newest(u, n)
              /\ n \notin decided /\ n \in decided'
<1>1. IInv /\ [Next]_vars => [Confirmed]_vars
  <2> SUFFICES ASSUME IInv, Next, NEW u \in Users, places'[u] \notin {places[u], NoPlace}
               PROVE  \E n \in DOMAIN given :
                        /\ given[n] = [user |-> u, place |-> places'[u]]
                        /\ Newest(u, n)
                        /\ n \notin decided /\ n \in decided'
    OBVIOUS
  <2>1. \/ \E v \in Users, n \in DOMAIN given, saved \in BOOLEAN : Press(v, n, saved)
        \/ \E v \in Users : ClearLocation(v)
        \/ UNCHANGED places
    BY DEF Next, Boot, Crash, Tick, AccessStep, LocationStep, InviteFamily, RevokeInvites,
           Redeem, SetStatus, SendLocation, tables
  <2>2. CASE \E v \in Users : ClearLocation(v)
    BY <2>2 DEF ClearLocation, IInv, TypeOK
  <2>3. ASSUME NEW v \in Users, NEW n \in DOMAIN given, NEW saved \in BOOLEAN, Press(v, n, saved)
        PROVE  \E m \in DOMAIN given :
                 /\ given[m] = [user |-> u, place |-> places'[u]]
                 /\ Newest(u, m)
                 /\ m \notin decided /\ m \in decided'
    <3>1. v = u /\ places'[u] = given[n].place
      BY <2>3 DEF Press, IInv, TypeOK
    <3>2. n # 0 /\ given[n] \in Offer /\ offers[u] = n
      BY <2>3, <3>1, GivenType DEF Press, Matches, IInv
    <3>3. given[n].user = u /\ Newest(u, n) /\ n \notin decided
      BY <3>2 DEF IInv, OffersNewest
    <3>4. n \in decided'
      BY <2>3 DEF Press
    <3>5. given[n] = [user |-> u, place |-> places'[u]]
      BY <3>1, <3>2, <3>3 DEF Offer
    <3>6. QED BY <3>3, <3>4, <3>5
  <2>4. QED BY <2>1, <2>2, <2>3
<1>2. QED BY <1>1, AccessInvariant, PTL DEF Spec, LocationConfirmed

=============================================================================
