SPECIFICATION FairSpec
CONSTANTS
  Pubs = {p1, p2}
  Fetches = {f1}
  Cids = {c1, bad}
  Valid = {c1}
  NoCid = NoCid
  NoPub = NoPub
  Settings <- MCSettings
  Attempts = 2
  FetchAttempts = 2
INVARIANTS
  SuccessWasTarget
  OnlyOwnKey
  PublishedIsLive
  FetchedWasTarget
PROPERTY CallsEnd
CHECK_DEADLOCK FALSE
