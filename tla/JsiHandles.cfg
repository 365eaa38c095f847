SPECIFICATION Spec
CONSTANTS
  n1 = n1
  n2 = n2
  m1 = m1
  o1 = o1
  h1 = h1
  f1 = f1
  p1 = p1
  p2 = p2
  Native = {n1, n2}
  Member = {m1}
  Plain = {o1}
  HostObjects = {h1}
  HostFunctions = {f1}
  Global = Global
  Holders = {Global}
  Str = Str
  Name = Name
  PVs = {p1, p2}
  Null = Null
  OwnerOf <- MCOwnerOf
SYMMETRY Symmetry
INVARIANTS
  HandlesAreSound
  ReachableIsThere
  ReleasedOnce
  NothingOutlivesTheRuntime
