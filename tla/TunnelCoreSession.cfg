SPECIFICATION Spec
CONSTANTS
  Locations = {de, nl}
  de = de nl = nl ru = ru
  Regions = {}
  Events = {"revoke", "overlap", "select", "config", "restart"}
  Accounts = {"code"}
  Forms = {"listed"}
  MaxInFlight = 2
  MaxGeneration = 2
  MaxRevision = 1
  BadRevisions = {}
SYMMETRY Places
INVARIANTS TypeOK SessionIsolation SavedIsCurrent BusyIsServed ProfileMatches SlotReleased
