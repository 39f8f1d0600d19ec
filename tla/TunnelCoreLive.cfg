SPECIFICATION FairSpec
CONSTANTS
  Locations = {de}
  de = de nl = nl ru = ru
  Regions = {}
  Events = {"link", "delete", "revokeAll", "config", "select", "expire", "legacy", "remove"}
  Accounts = {"email"}
  Forms = {"listed", "text", "url"}
  MaxInFlight = 1
  MaxGeneration = 1
  MaxRevision = 1
  BadRevisions = {}
PROPERTIES BusyEnds
