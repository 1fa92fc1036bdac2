\* Three threads compete for two connections while the database goes down twice.
CONSTANTS
  User = {u1, u2, u3}
  PoolSize = 2
  MaxOutages = 2
SPECIFICATION Spec
INVARIANTS
  TypeOK
  OneHolder
  NoneDisappears

  
