SPECIFICATION FairSpec
CONSTANTS
  client = client
  server = server
  cron = cron
  home = home
  site = site
  lab = lab
  None = None
  Tunnels = {client, server}
  Clients = {client}
  Timers = {cron}
  Ranges = {home, site, lab}
  Conf <- MCConf
  Lans <- MCLans
  MaxMoves = 1
  MaxChanges = 3
INVARIANTS TypeOK OthersAreSpared NoStaleRoute StartIsGuarded
PROPERTIES StolenRouteGoes
