\* Two commits of one group at the same time.
SPECIFICATION Spec
CONSTANTS
  Keys = {g1}
  Handlers = {h1, h2}
  Offsets = {0, 2}
  MaxHead = 2
  MaxCommits = 2
  MaxCrashes = 0
INVARIANT CacheMatchesStore
