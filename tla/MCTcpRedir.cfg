\* Two users, who may connect at once or one after the other.
CONSTANTS
  Users = {u1, u2}
  NoUser = NoUser
  MaxBytes = 2
SPECIFICATION FairSpec
INVARIANTS PartnerLives UpstreamInOrder SoleUserExact
PROPERTIES SoleUserServed
CHECK_DEADLOCK FALSE
