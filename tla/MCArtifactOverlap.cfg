CONSTANTS
  a1 = a1
  a2 = a2
  o1 = o1
  o2 = o2
  Contents = {a1, a2}
  Owners = {o1, o2}
  Evidence <- WhatOwnersStore
  Pinned = {o2}
  Grace = 1
  Lifetime = 1
  MaxTime = 3
SPECIFICATION Spec
CHECK_DEADLOCK FALSE
INVARIANT EvidenceReadable
