SPECIFICATION Spec
CONSTANTS
  Locations = {}
  de = de nl = nl ru = ru
  Regions = {ru}
  Events = {"refresh", "region", "age", "restart", "expire", "edit"}
  Accounts = {"code"}
  Forms = {"listed"}
  MaxInFlight = 1
  MaxGeneration = 2
  MaxRevision = 2
  BadRevisions = {2}
INVARIANTS RulesFollowRegion OneRefreshPerKey
