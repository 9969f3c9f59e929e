# Keekars-Pi-VPN: verification project

TLA+ models of the device software in this repository, the TLC configurations
that check them on small instances, and TLAPS proofs for instances of every size
about each of them: every safety property the runs find to hold, and both
refinements, are also theorems. Paths like `app/wireguard.py` are relative
to `src/`.

The software turns a Raspberry Pi (or Walnut Pi) into a WireGuard box that a
person administers from a browser and that keeps itself running unattended.

## 1. Inventory

| Part | State it keeps | Operations | Interacts with |
|---|---|---|---|
| WireGuard administration, `app/wireguard.py`, `app/wg_helper_client.py` (one asyncio process) | `peers.json`: tunnels and peers the web interface lists | create/delete tunnel, create/delete peer, activate/deactivate/disconnect, lists | helper daemon over a Unix socket, awaited |
| WireGuard helper, `deploy/pi-wg-helperd/helper.py` (one asyncio process, root) | `/etc/wireguard/*.conf`, interfaces, enabled units | the same, privileged | `wg`, `systemctl`, awaited |
| Shared monitor state, `app/metrics.py`, `deploy/maintenance.sh` | `state.json`, `state.json.tmp` | read; write through a temporary file and rename | heartbeat and root script write it, no lock |
| Downtime tracking, `app/monitor.py` | boot comparison in memory; `last_seen`, `last_boot_time`, `last_downtime_seconds` | a heartbeat every minute | state file, clock synchronisation |
| Update and rollback, `deploy/maintenance.sh` os-update, boot-check, health, reboot | package snapshots; `pending_update_backup`, `rollback_attempted`; the maintenance lock | weekly update, check at boot, rollback, restart, reboot | state file, systemd, apt |
| Power buttons, `app/system.py` | none | reboot, shutdown | logind |
| MQTT telemetry, `app/telemetry.py` (two threads) | connection, messages to send again | connect, announce, report, stop | broker with retained messages and a Last Will |
| wg-guard, `deploy/maintenance.sh` | live allowed-ips and routes of client tunnels | trim what overlaps the LAN | kernel; cron, and systemd after every `wg-quick` start |
| Wi-Fi recovery console, `deploy/maintenance.sh` | who owns tty1 | gate, hand tty1 over, give it back | systemd, NetworkManager |
| Dynamic DNS, `deploy/maintenance.sh` | DNS records | look up, create or update | Cloudflare |
| Sign-on, `app/auth.py`, `app/main.py` | the session cookie, in the browser | login, callback, logout, guard every page; answer exceptions | identity provider, a browser's tabs |
| Network configuration, `app/network.py` | NetworkManager's profile and active connection | configure, connect to Wi-Fi, scan, lists | nmcli, awaited |
| Routing table, `app/routing.py` | the kernel's routes | add, delete, list | netlink; wg-guard deletes routes too |
| Migration to NetworkManager, `deploy/deploy.sh` and the script it leaves on the device | netplan override, NetworkManager's hold, whether networkd is enabled; result file | switch, wait for a connection, keep or roll back | netplan, systemd, ssh from a person's computer |
| Deployment, the rest of `deploy/deploy.sh` | what is installed | install | ssh |
| Browser pages, `app/static`, `app/templates` | none but the cookie | poll, render | the API, sign-on |

What is hard in it:

* handlers of the web application interleave at every `await`, and so do the
  helper's commands; metadata loaded before an await is saved after it;
* three places say which peers exist (metadata, `.conf`, interface) and are
  written one after the other, with commands that may fail and processes that
  may die between;
* `state.json` is rewritten as a whole by two processes through one temporary
  name, one of them root;
* rollback spans two reboots, its memory is in that file, and power can go at
  any point;
* the telemetry agent publishes from two threads, and what the broker retains
  depends on which came last;
* the migration cuts the connection it is started through, and must leave the
  device reachable whatever stops it;
* several wg-guards read a tunnel and the LAN and write what they computed, while
  tunnels, places and routes change under them;
* all tabs share one session cookie, every answer writes back the session its
  request carried, and pages poll in the background;
* an interface's settings are changed by several nmcli calls, each awaited, and
  any of them can be the last.

What makes each part correct is in sections 3 to 9, with the definitions that
state it; `PROJECT.json` lists every hazard at its line with the properties
that cover it, or the reason none does.

## 2. Modules

| Module | What it is |
|---|---|
| `WgControl` | web application, helper, kernel, systemd, metadata file |
| `PeerRegistry` | abstract: what the `.conf` files promise |
| `TunnelDict` | dictionaries of tunnels, used by both |
| `WgControlProofs` | theorems about `WgControl`, with their proofs |
| `WgAgreementProofs` | more of them: where metadata, files and interfaces agree |
| `StateFile` | `state.json` and its two writers, step by step |
| `MonitorState` | abstract: what `state.json` promises writers that do not overlap |
| `Maintenance` | `StateFile` composed with heartbeat, root tasks, lock, packages, boots |
| `MaintenanceProofs` | theorems about `Maintenance`, with their proofs |
| `Telemetry` | the MQTT agent, its connection and the broker |
| `TelemetryProofs` | theorems about `Telemetry`, with their proofs |
| `NmMigrate` | the migration to NetworkManager, the device's two network managers, the deploying person |
| `NmMigrateProofs` | theorems about `NmMigrate`, with their proofs |
| `WgGuard` | the guards, client and server tunnels, the device's places, routes edited by hand |
| `WgGuardProofs` | theorems about `WgGuard`, with their proofs |
| `SignOn` | the session cookie, a browser's tabs, sign-in, sign-out, polls, exceptions |
| `SignOnProofs` | theorems about `SignOn`, with their proofs |
| `NetConfig` | requests that change an interface's IPv4 settings, NetworkManager's profile |
| `NetConfigProofs` | theorems about `NetConfig`, with their proofs |
| `MCWgControl`, `MCMaintenance`, `MCTelemetry`, `MCNmMigrate`, `MCWgGuard`, `MCSignOn` | instances for TLC (`NetConfig` is its own) |

In these modules a name ending in a suffix such as `LowestFree_IgnoresPeers` is
a variation of the definition before the underscore: what a plausible mistake
in the code would make of it. Each property has one that it catches
(`mutants` in `PROJECT.json`). They are not part of the specifications.

## 3. WireGuard administration (`WgControl`)

**State.** `conf`, `live`, `enabled`, `meta` are the files, interfaces, units
and metadata; `starting` is a `wg-quick up` that has read its `.conf`; `app`,
`job`, `snap` are the handler of each request, what it was asked and the
metadata it has loaded; `hlp` is the helper command it waits for. A peer is its
key and its host number; a `create_peer` request's name is the key it generates.
Payloads, key material, formatting and authentication are abstracted.

**Steps.** An action is the code between two awaits. `Begin...` is a handler
from its start to the helper call, `Allocate` the middle of `create_peer`,
`Finish...` from the reply to the response; `H...` are the steps of a helper
command. Requests that answer 404 or 409 with nothing changed are not steps.
The kernel moves an allowed address to the peer that got it last, which `Assign`
and `Winners` say.

**Faults**, up to `MaxFaults`: a failing `wg set`; a `systemctl` that fails and
has done nothing, which `delete_tunnel` ignores (`DisableFails`) and
`set_tunnel_state` reports (`StopFails`); a death of the application, of the
helper, and a restart of the machine.

**Runs.**

* `wg_concurrent`: three requests of any kind on two tunnels, all interleavings,
  one fault. Three is enough for two writers and a reader of the same metadata
  and for a deletion between two creations. It shows
  * `ListedWasConfigured`: what the web interface lists was configured, with
    that address;
  * `CompletedPeerConfigured`: a peer that was created stays configured until
    somebody asks to delete it or its tunnel;
  * `ConfIsRegistry`: the `.conf` files implement `PeerRegistry`, a registry
    with atomic operations in which no key comes twice;
  * `LiveFollowsConf`, `RevokedStaysOut`: without faults and without a
    concurrent activation, interface and file differ only by commands under
    way, and a deleted peer stays deleted.
* `wg_serial`: five requests one after the other, one fault: `QuietAgreement`
  (metadata, files, interfaces agree and addresses are distinct),
  `OrphansComeFromFailedCreates` (what a fault can leave that the web interface
  cannot delete).
* `wg_duplicate_address`: two overlapping `create_peer` requests get one
  address, and the second takes it from the first in the kernel.

The same overlap breaks a second promise, for which there is no run: the later
save of metadata (`app/wireguard.py:324`) drops the earlier peer from the list
while it stays configured, and `delete_peer` answers 404 for it. `QuietAgreement`
is therefore about requests one after the other.

Requests are interchangeable, and `Symmetry` permutes them: no property names
one, and the only temporal property is a refinement without fairness.
Deadlock is not checked here nor in sections 4 to 6: all requests answered, all
boots used, or the agent stopped is a proper end. It is checked in sections 7 to
9, where cron, a person and the network always have a next step.

## 4. Downtime tracking, update and rollback (`StateFile`, `Maintenance`)

**State file.** A write is four steps: read, open (which creates or truncates
`state.json.tmp`), write, rename. The descriptor follows the file when another
writer renames it, a rename finds nothing when the other was first, and two
texts in one file may be no JSON (`Broken`, which reads as empty). A temporary
file that root created cannot be opened by the application (`Denied`).

**The rest.** `app` is the application process with `_boot_comparison_done` and
`_last_downtime_seconds`; `task` is the maintenance task that holds the lock and
where it stands; `version`, `snap` are the installed packages and the snapshots;
`boot`, `synced`, `check` the machine. A timestamp is the boot it was taken in,
since the code only compares boots and measures from one to another.
`Unhealthy` may also happen to a good version: a slow device is enough for it.
Each task is one action per stretch between steps that others can see.

What lies in a snapshot's directory is not state. Its `packages.txt` may be
missing whenever boot-check looks (`MayRollBack`), so `UpdateIsGuarded` is about
what `state.json` records of a way back, not about the files it leads to. A
rollback whose `apt-get` reverts only some packages makes the old version or
leaves the new one (`Revert`): what is healthy is asked of the machine, not of
the packages.

**Faults**, up to `MaxFaults`: `PowerLoss`, `AppCrash`, `DiskFull` and
`CheckKilled` (the unit's ten minutes). Reboots by cron, by boot-check and by
the dashboard are ordinary steps.

**Fairness** (`FairSpec`): the heartbeat loop ticks for ever, and a process that
is inside a write goes on with it; so weak fairness of `Tick`, `Save`,
`EditBegin` and `Edit`. Nothing is assumed of reboots, of the clock, of
systemd's starting the application or of the tasks' beginning.

**Runs.**

* `maint_downtime` (two boots, one update that is bad, one fault): the heartbeat
  and root's script write in every interleaving.
  * `DowntimeIsLastOutage`: the dashboard's downtime is from the last saved
    heartbeat of an earlier boot to this boot, whichever crashes and power
    losses come between. Two boots are enough: a record is only ever compared
    with this boot's, and is of this boot or of an earlier one.
  * `HeartbeatIsSaved`: an application that runs with the clock set gets its boot
    into the file, however its saves and root's collide and also when one fails
    on a full disk. The exception `Abandoned` is real: a write of root's that was
    ended before its rename leaves a file the heartbeat cannot open.
  * `StateIsShared`: what a reader finds implements `MonitorState`, one document
    that each writer changes in its own keys; last_seen does not go back, a boot's
    outage is recorded once, and no older snapshot becomes pending again.
* `maint_rollback` (four boots, two bad updates, two faults, clock never set, so
  that root is the only writer): `RollbackRebootsOnce`, a rollback reboots at
  most once per update; `UpdateIsGuarded`, an installed update nobody has found
  healthy can be rolled back. Two updates are needed for a flag of the first to
  be left for the second; four boots for update, rollback and a later failure.
* `maint_loop`: one ignored failure makes an update be rolled back twice.

The safety properties suppose `orderly`, a history variable of `StateFile`: it
says that no two writers have been inside a write at once and that no write has
failed. `maint_loop` shows what a single failed write does. Another one: a first save
that fails after `_boot_comparison_done` is set (`app/monitor.py:87`) makes a
later restart of the service count as downtime. What overlapping writes can do is
a hazard in `PROJECT.json`.

The dashboard's reboot does not ask for the lock: `WebReboot` may come during
dpkg, which then stops anywhere (`DpkgStops`). An `apt` that succeeds is followed
by `SyncVenv`, under the same lock.

## 5. Telemetry (`Telemetry`)

**State.** `main` and `net` are the two threads; `link` and `wire` the
connection and what is on it; `queue` the QoS 1 messages paho will send again;
`session` and `kept` the broker's. A reading is named by the connection in
whose time it was taken. paho and the broker are modelled from how the code
uses them (`external` in `PROJECT.json`): `on_connect` runs before messages are
sent again, a CONNECT with the same client id takes over and fires the old Last
Will, a DISCONNECT cancels it.

**Faults**: `LinkCut`, `Refuse`, `Kill`, `BrokerReset`. **Fairness**: threads
run, the broker reads and its keepalive ends; nobody need start or stop the
agent.

**Runs.** `telemetry` (two runs of the agent, two faults; the second of each
makes a session be taken over and messages be sent again): `OnlineIsDescribed`,
`SettledIsShown`, `RunningIsShown`, `DownIsShown`. `MaxWire` bounds how many
readings can be in flight. When `offline` is published on a clean stop while
`on_connect` has not yet published `online`, it is overtaken, and the device stays
online at the broker: the steps `Overtaken` and `Online` show it, and
`DownIsShown` excepts such stops (`late`).

## 6. Migration to NetworkManager (`NmMigrate`)

A board with netplan is managed by systemd-networkd until a person deploys.
`deploy.sh` installs NetworkManager held off every device, then leaves a script
on the device that switches over and, unless NetworkManager has a default route
within ninety seconds, switches back.

**State.** On disk: `override` (the netplan file naming NetworkManager), `hold`
(the file that keeps NetworkManager off), `enabled` (networkd starts at boot).
In the machine: `networkd`, `nm`, `tagged` (wlan0 is marked unmanaged) and `link`,
what connects the device. `script` is where the detached script stands, `result`
its report; `deployer` and `told` the person's side.

**Steps.** Each command of the script that changes this state is an action
(`WriteOverride` to `ReportOk`, `PollTimeout` to `ReportBack`), but that
`netplan generate` goes with the command after it, which is the first to use what
it has generated, and enabling NetworkManager with its start. The deployment's
commands on the device are actions too: the test (`Check`), the removal of an
earlier result (`ClearResult`) and the start of the script (`Launch`), and the
running script may take any number of steps between them. The two questions of
the test are one step, taken when the deciding one is asked: they could be told
apart only if the script stopped networkd after the first and removed the override
before the second, and it waits ninety seconds in between. Nothing else is assumed
of how long a step takes.

**Faults**: `PowerLoss`, at every step. A person may give up at any point, and
start again while the script still runs (`Install`, `Check`). Deployments come one
at a time: the remote command of one that was interrupted has ended before the
next begins.

**Fairness** (`FairSpec`): the script runs to its end (`WF(Script)`: it is a
systemd unit of its own, nobody need stay connected) and networkd, whose
configuration has worked before, connects (`WF(NetworkdConnects)`). Nothing is
assumed of NetworkManager's connecting: whether it does is what the script is
there to find out.

**Runs.**

* `nm_migrate` (three deployments, two power losses: a first migration, one while
  it runs, one after it; a power loss in the first and in a later one).
  * `OneManager`: once no script runs, what the last one reported manages the
    network and the other does not; excepted is a NetworkManager whose hold a
    deployment removed while the script was rolling back (`crossed`).
  * `TellsTheTruth`: what a deployment says of the result it has read is so when it
    says it, and its script has ended. It reads no other script's result, unless
    `overtaken`.
  * `MigrationLasts`: a reported migration survives reboots and deployments, with
    networkd stopped from the report on; unless a success has `overtaken`.
  * `StartsManaged`: wherever power is lost, the disk starts a manager. Excepted
    is one step (`unhold`): override written and hold not yet removed, when both
    managers are off, and a disk left so (`cut`); and a success that has `overtaken`.
  * `ComesBack`: a device without a connection gets one again, or has migrated.
    A power loss that ended the script (`cut`) is excepted, because nothing then
    rolls back.

The check for a finished migration takes the override file for one (`Done`,
`deploy/deploy.sh:428`): a deployment started while the script runs is told
"NetworkManager already manages networking", and the script may then roll back.

The other way round, the test passes also while an earlier script is before its
first command or has started networkd again, and that script may go on between
the test, the removal of the result (437) and the start (477). `overtaken` is the
history of what it reports there. With "rolled-back", the new script runs under
a result that is not its own, and the deployment may read it and say that the
migration has failed while networkd is stopped. With "ok", a second script
migrates what is migrated: if it then has to roll back, it starts a networkd that
stays disabled and leaves the hold in place, so that the next boot has no
manager. TLC finds each of these when the exception is taken out of
`TellsTheTruth`, `MigrationLasts` or `StartsManaged`. They take a deployment that
was given up and repeated within the two minutes the first script runs. Nothing in
the repository promises otherwise, so no run claims a violation.

Boards without netplan or without networkd change nothing here and are left out;
so is a deployment that fails before NetworkManager is installed.

## 7. wg-guard (`WgGuard`)

A client tunnel whose AllowedIPs overlap the network the device is in takes that
network's route: nobody reaches the device any more. `cmd_wg_guard` takes such
ranges from the live tunnel. It runs every ten minutes from cron and in
`ExecStartPost` of every `wg-quick@` start, without a lock.

**State.** `lan` is the directly connected subnets, `routes` the tunnel each
range is routed through, `allowed` the live allowed-ips; `unit`, `up`, `asked`
what systemd, the kernel and a person know of a tunnel. A guard is its point `at`
and its shell variables: `todo` (`$ifs`), `view` (`$local_nets`), `tun`, `keep`,
`drop`. Each command it runs is an action: `ReadInterfaces`, `ReadLan`, `Show`
(`wg show` and the Python), `WgSet`, `IpRouteDel` once per range, `Finish`. The
pipeline's `set -e` is `Aborts`: a tunnel that has gone ends the whole guard.
`Start` is `wg-quick up` with its guard, `Ask` is `set_tunnel_state` with the
overlap check and its override, `AddRoute` and `DeleteRoute` are `app/routing.py`
for routes through a tunnel.

A range is the unit of overlap, and a client tunnel has one peer. Left out is a
range so wide that wg-quick gives it a routing table of its own (section 11).

**History** says which promises a run may still claim: `near`, what was ever
local since a client started; `moved`, what became local since the guard of its
start read the LAN; `cut`, a guard ended inside its work; `crossed`, a tunnel
restarted between a guard's reading and its writing; `hand`, routes a person
edited.

**Fairness** (`FairSpec`): cron starts its guard again and again, and a guard goes
on. Nothing is assumed of starts, of moves or of people.

**Run** `wg_guard`: one client that claims the ranges of two LANs, one server
whose range is in the second LAN, one guard from cron and one per start, one
move, three starts, stops or edits. Two guards suffice for every pair of steps of
two of them, three changes for a start, a stop and another start between the steps
of one, two LANs for a range that becomes local or stops being so.

* `OthersAreSpared`: what never was local stays allowed and routed, and a server
  keeps everything. Excepted is `crossed`: the guard writes what it had computed
  from the tunnel before its restart.
* `NoStaleRoute`: a route through a client leads where the peer is allowed, or a
  guard is about to remove it; excepted where a guard was cut short, which nothing
  repairs, because the next guard looks at allowed-ips only.
* `StartIsGuarded`: when a start is over, forced or not, the tunnel routes
  nothing of the LAN its guard could have read. That covers the time between the
  check of `set_tunnel_state` and the start.
* `StolenRouteGoes`: a LAN route a client steals comes back, at the latest with
  cron's guard.

## 8. Sign-on (`SignOn`)

A session is a signed cookie and nothing else. `SessionMiddleware` writes the
session of each request into its answer, also when nothing changed, so an answer
that comes late overwrites a newer cookie.

**State.** `jar` is the browser's cookie: signed in or not, and the OAuth state.
Each tab is where it is going (`path`), the cookie its request carries (`cookie`),
the state it will come back with (`want`) and the page it shows (`doc`). A tab has
one request at a time. `Serve...` are the handlers: `ServePage` and `ServeApi`
with `current_user`, `ServeLogin` with both its ends, `ServeCallback`,
`ServeLogout` with its three, and `Fails`, the handler of unhandled exceptions,
which answers above the middleware and so without a cookie. `Redirected` is what
the pages make of a poll that is redirected: the dashboard stops, the WireGuard
page follows. `Click` is a request of a page's button or form (the dashboard's
dismiss and power, those of the WireGuard page), which on every page follows a
redirect as far as /auth/login; unlike a poll it counts as a person's doing.

**Faults**: an identity provider that cannot be reached (`Unreachable`), one that
refuses (`Refused`), handlers that raise (`Fails`), answers in any order, a cookie
that lapses (`Lapse`).

**Fairness** (`FairSpec`): the browser sends and the server answers; its requests
to the provider have a timeout. Nothing is assumed of people, polls or the
provider's dialogue.

**Runs.** Two tabs, which is one to spoil what the other does. `MaxStates` is 4:
the cookie, another tab's request and another's sign-in hold three states, so a
fresh one always exists and `Reached` is never blocked by the bound.

* `sign_on`:
  * `SignInHolds`: a sign-in fails for its state only when another tab signed in
    or out, a person clicked in one that is signed out, a WireGuard page polled
    or an outdated answer came. The dashboard, however long it polls, spoils none.
  * `SignedOutStays`: who has signed out stays so in every tab until a sign-in,
    but for an answer to a request that carried another session.
  * `NavigationEnds`: a tab that asked for a page gets one; the redirects of the
    pages, of `current_user` and of the handler of exceptions never go round,
    unless another tab keeps changing the session.
* `sign_on_clobber`: the WireGuard page does what `dashboard.js:64-68` says its
  own poll must not do.

## 9. Network configuration (`NetConfig`)

`configure_interface` changes the profile `pi-config-ui-<interface>` by up to
three nmcli calls and activates it by another, each awaited.

**State.** `stored` is the profile on disk, `active` what is in use when the
profile is (`inUse`), `pc` and `arg` each request's next call and payload. A
setting's value is the request that gave it. `base`, `alone`, `last` are history:
the profile a request found, whether it overlapped no other, and the last answer
of ok that nothing has followed.

**Steps.** `Configure` (any payload that `NetworkConfigRequest` lets through, also a
static method without an address: `models.py:36-41` does not see an absent field),
`SetMethod`, `SetGateway`, `SetDns`, `Up` for the four calls, `WifiConnect` with
both its ways.

**Faults**: `Fail` at any call, `Restart` of the application with or without the
effect of the call under way, `Reboot`.

**Fairness** (`FairSpec`): an nmcli call ends.

**Run** `net_config`: two requests of any content; two overlapping requests are
the smallest mixture, and the theorems are for any number.

* `OkIsApplied`: after an answer of ok to a request that overlapped no other, all
  that it asked for is in use, and the profile on disk is the same. What a DHCP
  request leaves in the profile of an earlier static one is part of what it asks
  (`Asked`).
* `Unmixed`: an address with another request's gateway comes only of a request
  that gave none, did not come to its end or overlapped another.
* `ManualHasAddress`: whatever overlaps, fails or is cut off, a manual method has
  an address, so that the next boot can activate the profile: method and address
  are one call.
* `Answered`: every request ends.

## 10. What is proved

`WgControlProofs` proves, for any sets of tunnels, requests and host numbers,
any `MaxFaults` and both values of `Serial`, from the assumptions named in
`WgControl` only (finite sets are not needed):

* `TypeCorrect`. `TypeOK` is not inductive: where a handler finishes, its job
  and the metadata it loaded must be of the kind that place needs.
  `Bookkeeping` says which; `IInv == TypeOK /\ Bookkeeping` is inductive.
* `ListedConfigured`. The strengthening `Recorded` says that also the metadata
  handlers hold, and the peers of successful replies, were written to a `.conf`:
  a stale save brings back only what had been configured.
* `ConfImplementsRegistry`: the steps of the helper that write a `.conf` are
  operations of `PeerRegistry`, every other step leaves `conf` and `written`
  alone. That no key is added twice is in `Bookkeeping`: a request past its
  write does not write again.
* `CompletedConfigured`. `Configured` extends the property to requests whose
  `add_peer` has written and not yet been answered, and a deletion once asked
  stays asked.
* `LowestFreeIsFree`: the allocator's result is free in the metadata it sees and
  is not the server's address. `Agrees`, below, and `wg_duplicate_address` show
  what that does and does not give.

`WgAgreementProofs` proves the other invariants of `wg_concurrent` and `wg_serial`,
from the same assumptions. The inductive invariant is `IInv /\ Origins /\ Turns /\
Quiet /\ Agreement`, which TLC has found to hold for up to five requests; each part
has the hypotheses it needs, and its preservation uses only those before it.

* `Origins` supposes nothing. Peers that are listed, held or being deleted come
  from a `create_peer` that answered 200; peers in a `.conf` or on an interface from
  one whose command has run. A key and its address therefore have one source, which
  is over when somebody can ask to delete it, and a `delete_peer` past its write
  leaves the key in no `.conf` for good (`Dropped`, which is `RemovalLasts`).
* `Turns` supposes one client, and no more: any fault may come. What an open request
  has loaded is still the metadata (`Fresh`), and what is configured and was answered
  200 is listed (`Listed`), even while the commands of dead handlers go on. This is
  `OrphansExplained`.
* `Quiet` supposes that no fault has come. Without activations, interface and file
  differ only at keys of commands between their two writes (`Follows`):
  `InterfacesFollow`, for any interleaving. With one client or without activations a
  key that was removed comes back neither from a `wg set`, which is over, nor from
  a `wg-quick up`, which reads a `.conf` that lacks it (`Revoked`):
  `RevocationHolds`.
* `Agreement` supposes one client and no fault. The files are the metadata or, past
  a command's write, what the open request will make of it (`Result`); the
  interfaces are the files or, before `wg set`, still the metadata; an address that
  is allocated and not yet set is nobody's. `Agrees` is what remains of it between
  requests. `SerialKeepsAddresses` is another consequence: what
  `wg_duplicate_address` finds violated holds with one client at a time, so it takes
  the overlap.

`TelemetryProofs` proves, for any number of runs, connections and faults and any
`MaxWire`, the three invariants of `telemetry`. `Counted` pays for each connection with
a start or a fault; `Carried` says which readings a connection can carry, and that
the goodbye is the last message; `Described` extends `OnlineIsDescribed` to what is on
its way: while the broker has no discovery message, one goes before the first
"online"; `Said`, a running agent has sent and will resend no "offline", and what it
has said has arrived or will. Of the sequences the proof uses only which messages
are in them (`Held`) and what precedes what (`Preceded`), with one lemma per operation.
What paho sends again, `Unacknowledged`, is a recursive function: its type is shown
by a shortest counterexample, since the library's induction theorem cannot be used.

`NmMigrateProofs` proves, for any number of deployments and of power losses:

* `TypeCorrect`, `OneManagerAtEnd`, `MigrationIsLasting`, `PowerLossIsSafe`, that
  is, all four invariants of `nm_migrate`. None is inductive. `IInv` adds six
  parts to `TypeOK`: `Stages`, what each point of the script says of the network;
  `Durable`, what a power loss finds on disk (networkd is disabled only where the
  override is written and the hold gone); `Tested`, what a deployment past its test
  may rely on; `Finished`, what a reported migration leaves for good; `Held`, why a
  rollback has its hold, unless `crossed`; `Own`, where a result can come from while
  a script runs. `Durable`, `Tested` and the lasting part of `Finished` hold until
  a second script starts after a first has succeeded (`Again`). The steps that
  move the override, the hold or `enabled` have lemmas of their own; the others
  follow from the parts at once.
* `ToldTruly`, its action property `TellsTheTruth`: a deployment says something once
  (`Own`), so the step that says it is `ReadResult`, and `Finished` or `Held` says
  what the result it reads stands for.

`WgGuardProofs` proves, for any tunnels, ranges, LANs and number of guards, from
the assumptions named in `WgGuard`, all four invariants of `wg_guard`
(`TypeCorrect`, `OthersSpared`, `RoutesFollow`, `StartsGuarded`). They need each
other and four more parts: `Process`, which variables a guard has where (and that
only the guard of a start is in a tunnel that is starting); `Seen`, a guard takes
only what it has seen, and what it has seen is `near`; `Pending`, a guard that is
about to set allowed-ips covers what is routed; `Guarding`, the guard of a start
has read the LAN up to what has moved since, and its own tunnel is still on its
list or is what it works on.

`SignOnProofs` proves, for any number of tabs and any set of states, the three
invariants of `sign_on`. `SignInHolds` needs `Holding`: a sign-in has its state in
the session its request carries, or in the browser's while it is not sent, or
another tab is to blame; and `Stopped`: of polls, only a WireGuard page's goes on
after a redirect.

`NetConfigProofs` proves, for any number of requests, the four invariants of
`net_config`. `Progress` says that where a request that runs alone stands, the
profile is what it found with what it has set so far; `Current`, that a request
past its first call finds its own address in the profile or that of one that
overlapped; `Fresh`, that no request finds its own address; `Quiet`, that nothing
runs while an answer is the last word.

`MaintenanceProofs` proves, for any number of boots, updates and faults, with and
without a time server, every safety property of `maint_downtime` and
`maint_rollback`, the refinement of `MonitorState` included (only `TypeOK` without
supposing `orderly`). None is inductive, and they need each other.
`Named`, `Tasks`, `Snapshots` and `Rolls` hold whatever the writers do to each
other: no document names a snapshot that does not exist, snapshot n is of a version
below n, no update is rolled back more often than the machine has booted. `Orderly`
holds while writes are in order: `FileOK`, one writer at most is in a write, and
its text is what its rename will move; `Written`, that text is the file that was
read with the writer's own keys changed; `Memory`, what the file says of the
rollback at each point of a task, with the step that makes `RollbackRebootsOnce`
work: an update whose rollback has rebooted and that is still pending has its try
recorded; `Clocked`, `last_seen` and `last_boot_time` are those of the last save,
and once they are of this boot so is `last_downtime_seconds`. A lemma per step of a
writer (`BeginFile` to `KilledFile`) says what it does to the file, one per action
that `IInv` is preserved.

Model-checked only: the liveness properties `HeartbeatIsSaved`, `RunningIsShown`,
`DownIsShown`, `ComesBack`, `StolenRouteGoes`, `NavigationEnds` and `Answered` (the
prover has neither fairness nor ENABLED).

## 11. Observations

Reading for the models also showed, without a run of their own:

* `logger.error(..., extra={"args": ...})` (`app/network.py:48-51`,
  `app/system.py:38-41`) raises a KeyError, because a log record has a field of
  that name: a failing nmcli or systemctl is answered by the handler of unhandled
  exceptions ("Internal error", or a redirect to / for a GET) and not by the 502
  of the next line.
* `address_required_for_static` (`app/models.py:36-41`) is not called when the
  field is absent, so a static request without an address reaches nmcli, which
  fails. `NetConfig` has it so.
* Nothing in the repository creates the profile `pi-config-ui-<interface>`; a
  person must have, or the first call fails.
* `dashboard.js:70-73` says "Session expired" for any redirect, but `main.py:95`
  redirects after any exception: one failing `/api/monitor/stats` ends the polling
  of a session that has not expired.
* A client tunnel for all traffic (0.0.0.0/0) overlaps every LAN. wg-quick routes
  it in another table behind a rule, where it takes no LAN; `wg-guard` sets the
  range aside all the same, and its `ip route del` (`deploy/maintenance.sh:220`)
  looks in the main table.
* A tunnel that is stopped while the guard of its start runs keeps its interface:
  systemd does not call `wg-quick down` for a start that has not finished, and the
  next start fails (`StopStarting`, `Collides`).

* "networkd stays running after a successful migration until the next reboot"
  (`deploy/deploy.sh:427`) is not what the code does: the script stops networkd
  before it starts NetworkManager (`deploy/deploy.sh:453`) and starts it again only
  when it rolls back. `MigrationLasts` states the code, networkd stopped from the
  report on, and so contradicts the comment. The test below the comment, stopped or
  override present, is right under either.

## 12. Not modelled

Rendering, formatting and parsing (of `.conf`, `wg show`, JSON, nmcli output);
OpenID Connect itself (authlib's and the provider's); read-only lists; routes
that lead through no tunnel or are in other tables; a routing table per tunnel;
what a metric says and from which thread its rate is taken; certificate renewal
and cleanup, which are one external command each; Dynamic DNS, one process and a
remote service that keeps the state; the Wi-Fi console, whose menus are dialogue
with a person at tty1; deployment other than the migration, which a person runs
and watches, and repeats when it fails. `PROJECT.json` gives the reason per
component.

## 13. Plan

Done: `WgControl` with `PeerRegistry`, `StateFile` with `Maintenance`,
`Telemetry`, `NmMigrate`, `WgGuard`, `SignOn`, `NetConfig`, and proofs of every
safety property of their runs. What would come next, in this order:

1. `WifiRecovery`: tty1 has exactly one owner and goes back to getty.
2. Algorithms as pure definitions: splitting and rebuilding a `.conf`, subnet
   overlap against a reference definition, `NetRates` from two threads.
3. What an overlap of two writers of `state.json` can lose at most.
4. Theorems: with which requests open together `QuietAgreement` fails (only those
   of one tunnel's peers, or also a tunnel's deletion), and how many tries of a
   rollback two overlapping writes can cost.
