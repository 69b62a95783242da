SPECIFICATION Spec
CONSTANTS
  Slugs = {a, b}
  Pages = {"issues", "inbox"}
  Ids = {t1, t2}
  None = None
  LateMoves = {"push"}
  MaxDepth = 2
SYMMETRY Symmetric
INVARIANTS
  TypeOK
  GroupsSound
  NeverStranded
  BackIsHonest
PROPERTIES
  PushLands
