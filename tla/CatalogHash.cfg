SPECIFICATION Spec
CONSTANTS
  None = None
  e1 = e1  b1 = b1  g1 = g1  s1 = s1  n1 = n1  n2 = n2  i1 = i1  a1 = a1  a2 = a2  a3 = a3
  Entities = {e1, e2}
  Bases = {b1, b2}
  Genes = {g1, g2}
  Names = {n1, n2}
  Instances = {i1, i2}
  Slugs = {s1, s2}
  Handlers = {h1, h2}
  Memories <- SomeMemories
  MaxCommands = 2
  MaxRequests = 2
  NoTarget = NoTarget
  Agents = {a1, a2, a3}
  SlugOf <- SomeSlugs
  Texts <- SomeTexts
  MaxShifts = 1
SYMMETRY Symmetry
INVARIANT HashIsCurrent
CHECK_DEADLOCK FALSE
