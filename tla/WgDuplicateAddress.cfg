SPECIFICATION Spec
CONSTANTS
  Tunnels = {t1}
  Created = {t1}
  Requests = {r1, r2}
  Hosts = {1, 2, 3}
  ServerAddr = 1
  Serial = FALSE
  MaxFaults = 0
SYMMETRY Symmetry
CHECK_DEADLOCK FALSE
INVARIANTS LivePeerHasItsAddress
