SPECIFICATION Spec
CONSTANTS
  d1 = d1
  d2 = d2
  k1 = k1
  k2 = k2
  None = None
  Absent = Absent
  NoKey = NoKey
  Clients = {c1}
  Texts <- TextsDef
  Keys <- KeysDef
  Size <- SizeDef
  Blocks <- BlocksDef
  Requests <- RequestsDef
  EntryBytes = 1
  MaxEntries = 2
  MaxBytes = 6
  MaxIds = 3
  MaxCalls = 2
INVARIANTS
  Accounted
  Verbatim
  KnownIsReplayed
  TrailersAreTheirs
