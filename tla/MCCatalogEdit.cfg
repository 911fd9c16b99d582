\* Two administrators; one edits a draft schema that the other publishes.
SPECIFICATION CatalogSpec
CONSTANTS
  CatalogAdmins = {a1, a2}
  Lots = {l1}
  MaxVersions = 2
  MaxEdits = 1
  MaxAdminCalls = 2
INVARIANT LotsKeepTheirSchema
CHECK_DEADLOCK FALSE
