SPECIFICATION Spec
CONSTANTS
  Tunnels = {t1, t2}
  Created = {t1}
  Requests = {r1, r2, r3, r4, r5}
  Hosts = {1, 2, 3}
  ServerAddr = 1
  Serial = TRUE
  MaxFaults = 1
SYMMETRY Symmetry
CHECK_DEADLOCK FALSE
INVARIANTS QuietAgreement OrphansComeFromFailedCreates RevokedStaysOut
