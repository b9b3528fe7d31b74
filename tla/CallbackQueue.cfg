SPECIFICATION MCFairSpec
CONSTANTS
  s1 = s1
  s2 = s2
  ext = ext
  c1 = c1
  c2 = c2
  c3 = c3
  idA = idA
  idB = idB
  Threads = {s1, s2, ext}
  Adders = {s1, ext}
  Removers = {s1, ext}
  OneCallers = {s1, s2}
  AllCallers = {s1, s2}
  Callbacks = {c1, c2, c3}
  Ids = {idA, idB}
  Owner <- TwoOwners
  Lazy = {c1}
  Retrying = {c1, c2}
  Controlled = TRUE
  MaxDepth = 3
  Recursive = TRUE
  RegimeNames = {"spin", "retry", "recursive", "remove", "remove_idle", "remove_race", "remove_twice", "remove_many"}
INVARIANTS InOnePlace
PROPERTIES NoCallAfterRemoval EventuallyServed RemovalReturns
CHECK_DEADLOCK FALSE
