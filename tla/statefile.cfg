SPECIFICATION Spec
CONSTANTS
  p = p
  q = q
  r = r
  None = None
  Proc = {p, q, r}
  Inode = {1, 2, 3, 4, 5, 6, 7, 8, 9}
  NoExec = {r}
  Families <- SomeFamilies
  Visits = 1
  GiveUp = 1
INVARIANTS Exclusive ReadsWhole
PROPERTIES StateComesBack OwnLockOnly Terminates
