CONSTANTS
  c1 = c1
  old = old
  new = new
  Calls <- OneCall
  Services <- MCServices
  Secrets <- MCSecrets
  Roles <- MCRoles
  NoSecret = NoSecret
  NoBlob = NoBlob
  MaxChanges = 2
  Pieces <- MCPieces
  Other = Other
  MaxLen = 2
SPECIFICATION Spec
SYMMETRY Symmetry
INVARIANTS
  TypeOK
  RestsOnOneEntry
CHECK_DEADLOCK FALSE
