SPECIFICATION FairSpec
CONSTANTS
  s1 = s1
  p1 = p1
  p2 = p2
  approved = approved
  rejected = rejected
  Sessions = {s1}
  Payments = {p1, p2}
  Events = {p1, p2}
  Cancels = {c1}
  Results = {approved}
  SessionOf <- OneSession
  StateOf <- Decided
  Relays = {i1}
  Deliveries = {i1, i2}
  Batch = 2
  MaxCopies = 2
  MaxDeliver = 2
CHECK_DEADLOCK FALSE
INVARIANTS
  TypeOK
  PaidIsAnnounced
  ToldOnce
PROPERTIES
  EnqueuedIsPublished
  SessionsEnd
