SPECIFICATION Spec
CONSTANTS
  Tunnels = {t1, t2}
  Created = {t1}
  Requests = {r1, r2, r3}
  Hosts = {1, 2, 3}
  ServerAddr = 1
  Serial = FALSE
  MaxFaults = 1
SYMMETRY Symmetry
CHECK_DEADLOCK FALSE
INVARIANTS TypeOK ListedWasConfigured CompletedPeerConfigured LiveFollowsConf RevokedStaysOut
PROPERTY ConfIsRegistry
