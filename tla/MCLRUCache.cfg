CONSTANTS
  Key = {k1, k2, k3}
  Value = {v1, v2}
  Addr = {a1, a2, a3}
  Thread = {t1}
  capacity_ = 2
  ttl_seconds_ = 1
  MaxTime = 2
  None = None
  Free = Free
SPECIFICATION Spec
INVARIANTS
  ListMapAgree
  HeapOwnership
  PointerGuarantee
PROPERTIES
  ImplementsLRU
