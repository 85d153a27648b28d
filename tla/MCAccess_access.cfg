SPECIFICATION Spec
CONSTANTS
  Users = {"ann", "bob", "eve"}
  Allowlists <- MCAllowlists
  Places = {"here", "there"}
  NoPlace = "nowhere"
  InviteTtl = 1
  MaxInvites = 2
  MaxOffers = 2
  MaxBoots = 2
  MaxTime = 1
INVARIANTS AccessEarned
PROPERTIES LocationConfirmed
CHECK_DEADLOCK FALSE
