SPECIFICATION FairSpec
CONSTANTS
  d1 = d1
  d2 = d2
  d3 = d3
  c1 = c1
  c2 = c2
  Device = {d1, d2, d3}
  Click = {c1, c2}
  None = None
  MaxToggles = 1
  MaxMishaps = 1
INVARIANTS
  PairingAgrees
  HeardIsObeyed
  AcceptingIsEnabled
PROPERTIES
  ClaimsAreTrue
  PairedIsServed
