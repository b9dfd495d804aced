SPECIFICATION Spec
CONSTANTS
  worker = "worker"
  none = "none"
  Senders <- MCSenders
  Offers <- MCOffers
  peerHash = "h1"
  MaxOffers = 2
CHECK_DEADLOCK FALSE
INVARIANTS
  TypeOK
  StartingHeld
  NoSilentEnd
  HashVerdict
  SecureMeansKeyed
PROPERTIES
  Settles
