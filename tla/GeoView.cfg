\* Two posts through a cache of two places, and two views.
SPECIFICATION Spec
CONSTANTS
  h1 = h1  h2 = h2
  Handlers = {h1, h2}
  Viewers = {v1}
  Posts <- MCPosts
  PlaceOf <- MCPlaceOf
  Nowhere = "nowhere"
  CacheSize = 2
  Capacity = 3
  TopSizes = {1, 2}
  Windows = {1}
  MaxClock = 1
SYMMETRY Symmetry
CHECK_DEADLOCK FALSE
INVARIANTS TypeOK EnrichmentIsTransparent PartsAgree CommittedIsShown
