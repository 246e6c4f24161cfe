CONSTANTS
  c1 = c1
  s1 = s1
  s2 = s2
  Writers = {w1, w2}
  Clients = {c1}
  Scope = {s1, s2}
  NoStream = NoStream
  Wanted <- MCWanted
  Capacity = 1
  Limit = 1
  MaxSequence = 4
  MaxTime = 1
CHECK_DEADLOCK FALSE
SPECIFICATION Spec
INVARIANTS AuditChain StreamedIsStored CursorsDistinct BufferAbsorbs
PROPERTIES StoredIsDelivered
