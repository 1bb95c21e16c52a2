\* Two attempts, one of two messages, share a registration while its window is
\* replaced by the next.  The attempts get used up, so the instance stops.
SPECIFICATION FairSpec
CHECK_DEADLOCK FALSE
CONSTANTS
  Attempts = {a1, a2}
  Slots = {s1}
  Windows = {"day"}
  Count <- CountMixed
  PartsOf <- AllParts
  Limit <- LimitTwo
  MaxEpoch = 2
INVARIANTS
  TypeOK
  ChargedExactly
  PostedStaysCharged
  PostedWithinLimit
  UsageShowsConfirmed
PROPERTIES
  HoldsComeBack
