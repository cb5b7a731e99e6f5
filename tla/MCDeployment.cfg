CONSTANTS
  p1 = p1
  p2 = p2
  Process = {p1, p2}
  Path <- MCPaths
  Link <- MCLinks
  Worlds <- MCWorlds
  Server <- MCServers
  None = None
SPECIFICATION Spec
SYMMETRY MCSymmetry
INVARIANTS
  OneOwner
  KeepsItsOwn
PROPERTY
  PublishedIsKept
