------------------------------- MODULE Access -------------------------------
(***************************************************************************)
(* Who may use the bot, and where a user is: src/app/access.py and         *)
(* src/app/location with the handlers in src/app/handlers.py that change   *)
(* their tables, and the starts of the process in src/app/bot.py.          *)
(*                                                                         *)
(* Every handler is registered as a blocking one, so the bot deals with one*)
(* update at a time; what the process forgets when it ends is the offered  *)
(* locations.  An update delivered again is the same command given twice.  *)
(***************************************************************************)
EXTENDS Naturals, Sequences, FiniteSets

CONSTANTS
    Users,
    Allowlists,   \* values of TELEGRAM_ALLOWED_USER_IDS
    Places,       \* what a location resolves to
    NoPlace,
    InviteTtl,    \* FAMILY_INVITE_TTL_SECONDS
    MaxInvites,   \* bound: invites created
    MaxOffers,    \* bound: locations sent
    MaxBoots,     \* bound: starts of the process
    MaxTime       \* bound: clock

ASSUME AccessAssumption ==
    /\ Allowlists \subseteq SUBSET Users
    /\ NoPlace \notin Places
    /\ {InviteTtl, MaxInvites, MaxOffers, MaxBoots, MaxTime} \subseteq Nat

VARIABLES
    users,      \* the table users
    invites,    \* the table family_invites, by id
    places,     \* the table user_locations
    up,         \* the process runs
    offers,     \* pending_locations: user -> nonce (0: none)
    given,      \* the nonces shown so far: [user, place]
    now,
    boots,      \* starts so far
    configured, \* history: users ever configured as owners
    letin,      \* history: invite -> users it has let in
    barred,     \* history: users an owner has put out and not let in again
    decided     \* history: nonces pressed, cleared or lost with the process

tables == <<users, invites, places>>
history == <<configured, letin, barred, decided>>
vars == <<tables, up, offers, given, now, boots, history>>

Nobody == [role |-> "none", status |-> "none"]
InviteIds == 1..MaxInvites
Nonces == 1..MaxOffers

Init ==
    /\ users = [u \in Users |-> Nobody]
    /\ invites = <<>>
    /\ places = [u \in Users |-> NoPlace]
    /\ up = FALSE
    /\ offers = [u \in Users |-> 0]
    /\ given = <<>>
    /\ now = 0
    /\ boots = 0
    /\ configured = {}
    /\ letin = [i \in InviteIds |-> {}]
    /\ barred = {}
    /\ decided = {}

-----------------------------------------------------------------------------
(* The process.                                                            *)

(* AccessStorage.initialize: INSERT .. ON CONFLICT DO NOTHING.             *)
Bootstrapped(u) ==
    IF users[u] = Nobody THEN [role |-> "owner", status |-> "active"] ELSE users[u]
Boot(allow) ==
    /\ ~up /\ boots < MaxBoots
    /\ up' = TRUE
    /\ boots' = boots + 1
    /\ users' = [u \in Users |-> IF u \in allow THEN Bootstrapped(u) ELSE users[u]]
    /\ configured' = configured \union allow
    /\ UNCHANGED <<invites, places, offers, given, now, letin, barred, decided>>

Crash ==
    /\ up
    /\ up' = FALSE
    /\ offers' = [u \in Users |-> 0]
    /\ decided' = DOMAIN given
    /\ UNCHANGED <<tables, given, now, boots, configured, letin, barred>>

Tick == now < MaxTime /\ now' = now + 1 /\ UNCHANGED <<tables, up, offers, given, boots, history>>

(* What authorize and the policy ask of the user behind an update.         *)
Active(u) == up /\ users[u].status = "active"
Owner(u) == Active(u) /\ users[u].role = "owner"

-----------------------------------------------------------------------------
(* Access.                                                                 *)

InviteFamily(u) ==
    /\ Owner(u)
    /\ Len(invites) < MaxInvites
    /\ invites' = Append(invites, [by |-> u, expires |-> now + InviteTtl, state |-> "open"])
    /\ UNCHANGED <<users, places, up, offers, given, now, boots, history>>

(* /start <token>, which authorize lets through: redeem is one BEGIN       *)
(* IMMEDIATE transaction.  A row of any status answers "existing".         *)
Valid(i) == invites[i].state = "open" /\ invites[i].expires > now
Unknown(u) == users[u] = Nobody
UseUp_Nothing(i) == invites
UseUp(i) == [invites EXCEPT ![i].state = "used"]
Redeem(u, i) ==
    /\ up /\ Valid(i) /\ Unknown(u)
    /\ users' = [users EXCEPT ![u] = [role |-> "family", status |-> "active"]]
    /\ invites' = UseUp(i)
    /\ letin' = [letin EXCEPT ![i] = @ \union {u}]
    /\ UNCHANGED <<places, up, offers, given, now, boots, configured, barred, decided>>

Settable(u) == users[u].role = "family"
SetStatus(u, other, status) ==
    /\ Owner(u) /\ Settable(other)
    /\ users' = [users EXCEPT ![other].status = status]
    /\ barred' = IF status = "active" THEN barred \ {other} ELSE barred \union {other}
    /\ UNCHANGED <<invites, places, up, offers, given, now, boots, configured, letin, decided>>

Revoked(i, u) == IF invites[i].by = u /\ invites[i].state = "open"
                 THEN [invites[i] EXCEPT !.state = "revoked"] ELSE invites[i]
RevokeInvites(u) ==
    /\ Owner(u)
    /\ invites' = [i \in DOMAIN invites |-> Revoked(i, u)]
    /\ UNCHANGED <<users, places, up, offers, given, now, boots, history>>

-----------------------------------------------------------------------------
(* Location: a candidate is offered under a nonce and saved by its button. *)

SendLocation(u, p) ==
    /\ Active(u)
    /\ Len(given) < MaxOffers
    /\ given' = Append(given, [user |-> u, place |-> p])
    /\ offers' = [offers EXCEPT ![u] = Len(given) + 1]
    /\ UNCHANGED <<tables, up, now, boots, history>>

(* location_callback: u may be anybody who sees the buttons, authorize does*)
(* not hear of them.                                                       *)
Matches_Any(u, n) == offers[u] # 0
Matches(u, n) == offers[u] = n
(* The offer is gone before the save, which may fail.                      *)
Press(u, n, saved) ==
    /\ up /\ Matches(u, n)
    /\ offers' = [offers EXCEPT ![u] = 0]
    /\ places' = IF saved THEN [places EXCEPT ![u] = given[n].place] ELSE places
    /\ decided' = decided \union {n}
    /\ UNCHANGED <<users, invites, up, given, now, boots, configured, letin, barred>>

ClearLocation(u) ==
    /\ Active(u)
    /\ offers' = [offers EXCEPT ![u] = 0]
    /\ places' = [places EXCEPT ![u] = NoPlace]
    /\ decided' = decided \union {n \in DOMAIN given : given[n].user = u}
    /\ UNCHANGED <<users, invites, up, given, now, boots, configured, letin, barred>>

AccessStep ==
    \/ \E u \in Users : InviteFamily(u) \/ RevokeInvites(u)
    \/ \E u \in Users, i \in DOMAIN invites : Redeem(u, i)
    \/ \E u, other \in Users, status \in {"active", "disabled", "removed"} : SetStatus(u, other, status)
LocationStep ==
    \/ \E u \in Users, p \in Places : SendLocation(u, p)
    \/ \E u \in Users, n \in DOMAIN given, saved \in BOOLEAN : Press(u, n, saved)
    \/ \E u \in Users : ClearLocation(u)
Next ==
    \/ \E allow \in Allowlists : Boot(allow)
    \/ Crash
    \/ Tick
    \/ AccessStep
    \/ LocationStep

Spec == Init /\ [][Next]_vars

-----------------------------------------------------------------------------
TypeOK ==
    /\ users \in [Users -> [role : {"none", "owner", "family"},
                            status : {"none", "active", "disabled", "removed"}]]
    /\ \A u \in Users : users[u].role = "owner" => users[u].status = "active"
    /\ invites \in Seq([by : Users, expires : Nat, state : {"open", "used", "revoked"}])
    /\ Len(invites) <= MaxInvites
    /\ places \in [Users -> Places \union {NoPlace}]
    /\ up \in BOOLEAN
    /\ given \in Seq([user : Users, place : Places])
    /\ Len(given) <= MaxOffers
    /\ offers \in [Users -> DOMAIN given \union {0}]
    /\ now \in Nat /\ boots \in Nat
    /\ configured \subseteq Users
    /\ letin \in [InviteIds -> SUBSET Users]
    /\ barred \subseteq Users
    /\ decided \subseteq DOMAIN given

(* Nobody is active but the owners of some configuration and those whom an *)
(* invite has let in, one user per invite; and whom an owner has put out is*)
(* out until an owner lets him in again: no invite and no start of the     *)
(* process does (redeem against set_family_status and initialize).         *)
AccessEarned ==
    /\ \A u \in Users : users[u].status = "active" =>
          u \in configured \/ \E i \in InviteIds : u \in letin[i]
    /\ \A i \in InviteIds : \A u, v \in letin[i] : u = v
    /\ \A u \in barred : users[u].status # "active"

(* A place is saved for the user to whom it was shown, by the button of the*)
(* last place he has sent, once, and not after he has declined or cleared  *)
(* it or the process has forgotten it (location_callback's nonce).         *)
Newest(u, n) == \A m \in DOMAIN given : given[m].user = u => m <= n
LocationConfirmed ==
    [][\A u \in Users : places'[u] \notin {places[u], NoPlace} =>
          \E n \in DOMAIN given :
              /\ given[n] = [user |-> u, place |-> places'[u]]
              /\ Newest(u, n)
              /\ n \notin decided /\ n \in decided']_vars

=============================================================================
