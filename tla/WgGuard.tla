------------------------------ MODULE WgGuard ------------------------------
(***************************************************************************)
(* Client tunnels and the local network: wg-guard of deploy/maintenance.sh *)
(* takes from a client tunnel the ranges that overlap a directly connected *)
(* subnet, because their routes would take the device's own LAN away.      *)
(* Guards run from cron and after every wg-quick start, without a lock,    *)
(* while tunnels start and stop, the device moves to another LAN, and      *)
(* people add and delete routes.                                           *)
(*                                                                         *)
(* Ranges are the unit of overlap: a range is a LAN's or it is not.  A     *)
(* client tunnel has one peer, and no range so wide that wg-quick routes   *)
(* it in another table (0.0.0.0/0).  LAN routes have a metric              *)
(* (NetworkManager): a tunnel's route, which has none, wins over them and  *)
(* does not collide with them.                                             *)
(***************************************************************************)
EXTENDS Naturals

CONSTANTS
  Tunnels, Clients, \* tunnels with a .conf; those whose .conf has an Endpoint
  Timers,           \* guards that cron or a deployment starts
  Ranges, Conf,     \* ranges of addresses; the AllowedIPs in each .conf
  Lans,             \* the subnets a device can be connected to, by place
  None,
  MaxMoves, MaxChanges \* bounds on moves; on starts, stops and route edits

ASSUME TunnelsAssumption ==
  Clients \subseteq Tunnels /\ Tunnels \cap Timers = {} /\ None \notin Tunnels
ASSUME RangesAssumption == Conf \in [Tunnels -> SUBSET Ranges] /\ Lans \subseteq SUBSET Ranges
ASSUME BoundsAssumption == MaxMoves \in Nat /\ MaxChanges \in Nat

VARIABLES
  lan,     \* the subnets the device is connected to, tunnels excepted
  asked,   \* tunnels somebody, or the boot, wants started
  unit,    \* wg-quick@: "inactive", "starting" while its guard runs, "active"
  up,      \* tunnels whose interface exists
  allowed, \* the live allowed-ips of each tunnel's peer
  routes,  \* the tunnel each range is routed through
  at, todo, view, tun, keep, drop, \* each guard: its point and its variables
  moves, changes,
  near,  \* history: what was local, or looked local to a guard, since a client started
  moved, \* history: what became local since the guard of a client's start read it
  cut,   \* history: clients at which a guard's work was cut short
  crossed, \* history: clients restarted between a guard's reading and its writing
  hand   \* history: routes of a tunnel edited by hand since it started

live == <<up, allowed, routes>>
guard == <<at, todo, view, tun, keep, drop>>
bounds == <<moves, changes>>
history == <<near, moved, cut, crossed, hand>>
vars == <<lan, asked, unit, live, guard, bounds, history>>

Guards == Tunnels \cup Timers

Types ==
  /\ lan \in Lans /\ asked \subseteq Tunnels /\ up \subseteq Tunnels
  /\ unit \in [Tunnels -> {"inactive", "starting", "active"}]
  /\ allowed \in [Tunnels -> SUBSET Ranges]
  /\ routes \in [Ranges -> Tunnels \cup {None}]
GuardTypes ==
  /\ at \in [Guards -> {"idle", "ifs", "lan", "next", "set", "del"}]
  /\ todo \in [Guards -> SUBSET Tunnels] /\ tun \in [Guards -> Tunnels \cup {None}]
  /\ view \in [Guards -> SUBSET Ranges]
  /\ keep \in [Guards -> SUBSET Ranges] /\ drop \in [Guards -> SUBSET Ranges]
HistoryTypes ==
  /\ near \in [Clients -> SUBSET Ranges] /\ moved \in [Clients -> SUBSET Ranges]
  /\ cut \subseteq Clients /\ crossed \subseteq Clients /\ hand \subseteq Ranges \X Tunnels
Consistent ==
  /\ \A t \in Tunnels \ up : allowed[t] = {} /\ unit[t] = "inactive"
  /\ \A r \in Ranges : routes[r] \in up \cup {None}
  /\ \A g \in Guards : at[g] \in {"set", "del"} => tun[g] # None /\ drop[g] # {}
TypeOK == Types /\ GuardTypes /\ HistoryTypes /\ Consistent

----------------------------------------------------------------------------
(* A guard's process                                                       *)

Goto(g, point) == at' = [at EXCEPT ![g] = point]

\* A guard's variables go with its process.
Gone(g) ==
  /\ Goto(g, "idle")
  /\ todo' = [todo EXCEPT ![g] = {}] /\ tun' = [tun EXCEPT ![g] = None]
  /\ view' = [view EXCEPT ![g] = {}]
  /\ keep' = [keep EXCEPT ![g] = {}] /\ drop' = [drop EXCEPT ![g] = {}]

----------------------------------------------------------------------------
(* Tunnels, the network and routes                                         *)

\* The device gets another address, or is carried to another place.
Move ==
  /\ moves < MaxMoves /\ moves' = moves + 1
  /\ lan' \in Lans
  /\ near' = [t \in Clients |-> near[t] \cup lan']
  /\ moved' = [t \in Clients |-> moved[t] \cup (lan' \ lan)]
  /\ UNCHANGED <<asked, unit, live, guard, changes, cut, crossed, hand>>

\* set_tunnel_state: a client's ranges are compared with the LAN, unless the
\* person insists; the helper is awaited after that.  A server claims only its
\* own subnet.  Starting a tunnel that has started does nothing.
Claims(t) == IF t \in Clients THEN Conf[t] ELSE {}
Overlaps(t) == Claims(t) \cap lan # {}
Ask(t) ==
  /\ t \notin asked /\ unit[t] = "inactive"
  /\ \E force \in BOOLEAN : force \/ ~Overlaps(t)
  /\ asked' = asked \cup {t}
  /\ UNCHANGED <<lan, unit, live, guard, bounds, history>>

\* The guard that the drop-in of wg-quick@ adds to a start.
ExecStartPost_Missing(t) ==
  unit' = [unit EXCEPT ![t] = "active"] /\ UNCHANGED at
ExecStartPost(t) ==
  unit' = [unit EXCEPT ![t] = "starting"] /\ Goto(t, "ifs")

\* wg-quick up, and the guard in ExecStartPost.  It fails when the interface
\* is still there, or when a range has another tunnel's route.
Collides(t) == t \in up \/ \E r \in Conf[t] : routes[r] \notin {None, t}
Start(t) ==
  /\ t \in asked /\ asked' = asked \ {t}
  /\ IF Collides(t)
     THEN UNCHANGED <<unit, live, guard, changes, history>>
     ELSE /\ changes < MaxChanges /\ changes' = changes + 1
          /\ up' = up \cup {t}
          /\ allowed' = [allowed EXCEPT ![t] = Conf[t]]
          /\ routes' = [r \in Ranges |-> IF r \in Conf[t] THEN t ELSE routes[r]]
          /\ ExecStartPost(t)
          /\ near' = [c \in Clients |->
                       IF c = t THEN lan \cup UNION {view[g] : g \in Guards} ELSE near[c]]
          /\ moved' = [c \in Clients |-> IF c = t THEN {} ELSE moved[c]]
          /\ cut' = cut \ {t}
          /\ crossed' = IF \E g \in Guards : at[g] \in {"set", "del"} /\ tun[g] = t
                        THEN crossed \cup {t} ELSE crossed \ {t}
          /\ hand' = {e \in hand : e[2] # t}
          /\ UNCHANGED <<todo, view, tun, keep, drop>>
  /\ UNCHANGED <<lan, moves>>

Stop_RoutesStay(t) ==
  /\ unit[t] = "active"
  /\ changes < MaxChanges /\ changes' = changes + 1
  /\ unit' = [unit EXCEPT ![t] = "inactive"]
  /\ up' = up \ {t}
  /\ allowed' = [allowed EXCEPT ![t] = {}]
  /\ UNCHANGED <<lan, asked, routes, guard, moves, history>>
\* Disconnect or Deactivate: wg-quick down.
Stop(t) ==
  /\ unit[t] = "active"
  /\ changes < MaxChanges /\ changes' = changes + 1
  /\ unit' = [unit EXCEPT ![t] = "inactive"]
  /\ up' = up \ {t}
  /\ allowed' = [allowed EXCEPT ![t] = {}]
  /\ routes' = [r \in Ranges |-> IF routes[r] = t THEN None ELSE routes[r]]
  /\ UNCHANGED <<lan, asked, guard, moves, history>>

\* Stopped while its guard still runs: systemd ends the guard, and does not
\* call wg-quick down for a unit that has not finished its start.
StopStarting(t) ==
  /\ unit[t] = "starting"
  /\ changes < MaxChanges /\ changes' = changes + 1
  /\ unit' = [unit EXCEPT ![t] = "inactive"]
  /\ Gone(t)
  /\ cut' = IF at[t] = "del" THEN cut \cup {tun[t]} ELSE cut
  /\ UNCHANGED <<lan, asked, live, moves, near, moved, crossed, hand>>

\* POST and DELETE /api/routing, for an interface that exists: the kernel
\* refuses a second route of a range, and the removal of one that is not there.
RouteAdd(r, t) == routes[r] = None /\ routes' = [routes EXCEPT ![r] = t]
RouteDel(r, t) == routes[r] = t /\ routes' = [routes EXCEPT ![r] = None]
EditRoute(r, t) ==
  /\ t \in up
  /\ changes < MaxChanges /\ changes' = changes + 1
  /\ hand' = hand \cup {<<r, t>>}
  /\ UNCHANGED <<lan, asked, unit, up, allowed, guard, moves, near, moved, cut, crossed>>
AddRoute(r, t) == EditRoute(r, t) /\ RouteAdd(r, t)
DeleteRoute(r, t) == EditRoute(r, t) /\ RouteDel(r, t)

----------------------------------------------------------------------------
(* wg-guard                                                                *)

\* systemd has the tunnel active when the guard of its start has ended,
\* however it ended.
Ends(g) ==
  /\ Gone(g)
  /\ unit' = IF g \in Tunnels THEN [unit EXCEPT ![g] = "active"] ELSE unit

\* set -e and pipefail: a wg command that fails ends the whole guard.
Aborts(g) ==
  /\ Ends(g)
  /\ cut' = cut \cup ({g} \cap Clients)
  /\ UNCHANGED allowed

CronStarts(g) ==
  /\ g \in Timers /\ at[g] = "idle"
  /\ Goto(g, "ifs")
  /\ UNCHANGED <<lan, asked, unit, live, todo, view, tun, keep, drop, bounds, history>>

ReadInterfaces(g) ==
  /\ at[g] = "ifs"
  /\ IF up = {} THEN Ends(g)
     ELSE /\ Goto(g, "lan")
          /\ todo' = [todo EXCEPT ![g] = up]
          /\ UNCHANGED <<unit, view, tun, keep, drop>>
  /\ UNCHANGED <<lan, asked, live, bounds, history>>

ReadLan_Servers(g) ==
  /\ at[g] = "lan" /\ Goto(g, "next")
  /\ view' = [view EXCEPT ![g] = lan \cup {r \in Ranges : routes[r] \in up \ todo[g]}]
  /\ near' = [t \in Clients |-> near[t] \cup view'[g]]
  /\ moved' = [t \in Clients |-> IF t = g THEN {} ELSE moved[t]]
  /\ UNCHANGED <<lan, asked, unit, live, todo, tun, keep, drop, bounds, cut, crossed, hand>>
\* The routes of scope link that do not go through a tunnel read before; the
\* grep for an Endpoint is the same whenever it is made.
ReadLan(g) ==
  /\ at[g] = "lan" /\ Goto(g, "next")
  /\ view' = [view EXCEPT ![g] = lan \cup {r \in Ranges : routes[r] \in up \ todo[g]}]
  /\ todo' = [todo EXCEPT ![g] = @ \cap Clients]
  /\ near' = [t \in Clients |-> near[t] \cup view'[g]]
  /\ moved' = [t \in Clients |-> IF t = g THEN {} ELSE moved[t]]
  /\ UNCHANGED <<lan, asked, unit, live, tun, keep, drop, bounds, cut, crossed, hand>>

\* wg show allowed-ips, and what of it to keep.
Show(g) ==
  /\ at[g] = "next"
  /\ \E t \in todo[g] :
       IF t \notin up THEN Aborts(g)
       ELSE LET clash == allowed[t] \cap view[g]
            IN /\ todo' = [todo EXCEPT ![g] = @ \ {t}]
               /\ tun' = [tun EXCEPT ![g] = t]
               /\ keep' = [keep EXCEPT ![g] = allowed[t] \ clash]
               /\ drop' = [drop EXCEPT ![g] = clash]
               /\ IF clash = {} THEN Goto(g, "next") ELSE Goto(g, "set")
               /\ UNCHANGED <<unit, allowed, view, cut>>
  /\ UNCHANGED <<lan, asked, up, routes, bounds, near, moved, crossed, hand>>

WgSet(g) ==
  /\ at[g] = "set"
  /\ IF tun[g] \notin up THEN Aborts(g)
     ELSE /\ allowed' = [allowed EXCEPT ![tun[g]] = keep[g]]
          /\ Goto(g, "del")
          /\ UNCHANGED <<unit, todo, view, tun, keep, drop, cut>>
  /\ UNCHANGED <<lan, asked, up, routes, bounds, near, moved, crossed, hand>>

\* ip route del of one range, whose failure is ignored.
IpRouteDel_One(g) ==
  /\ at[g] = "del" /\ Goto(g, "next")
  /\ \E r \in drop[g] :
       routes' = IF routes[r] = tun[g] THEN [routes EXCEPT ![r] = None] ELSE routes
  /\ UNCHANGED <<lan, asked, unit, up, allowed, todo, view, tun, keep, drop, bounds, history>>
IpRouteDel(g) ==
  /\ at[g] = "del"
  /\ \E r \in drop[g] :
       /\ routes' = IF routes[r] = tun[g] THEN [routes EXCEPT ![r] = None] ELSE routes
       /\ drop' = [drop EXCEPT ![g] = @ \ {r}]
  /\ IF drop'[g] = {} THEN Goto(g, "next") ELSE UNCHANGED at
  /\ UNCHANGED <<lan, asked, unit, up, allowed, todo, view, tun, keep, bounds, history>>

Finish_Early(g) ==
  /\ at[g] = "next"
  /\ Ends(g)
  /\ UNCHANGED <<lan, asked, live, bounds, history>>
Finish(g) ==
  /\ at[g] = "next" /\ todo[g] = {}
  /\ Ends(g)
  /\ UNCHANGED <<lan, asked, live, bounds, history>>

GuardStep(g) ==
  \/ ReadInterfaces(g) \/ ReadLan(g) \/ Show(g) \/ WgSet(g) \/ IpRouteDel(g) \/ Finish(g)

----------------------------------------------------------------------------

\* The machine has booted, and any of its tunnels may be enabled.
Init ==
  /\ lan \in Lans /\ asked \in SUBSET Tunnels
  /\ unit = [t \in Tunnels |-> "inactive"]
  /\ up = {}
  /\ allowed = [t \in Tunnels |-> {}]
  /\ routes = [r \in Ranges |-> None]
  /\ at = [g \in Guards |-> "idle"]
  /\ todo = [g \in Guards |-> {}] /\ tun = [g \in Guards |-> None]
  /\ view = [g \in Guards |-> {}]
  /\ keep = [g \in Guards |-> {}] /\ drop = [g \in Guards |-> {}]
  /\ moves = 0 /\ changes = 0
  /\ near = [t \in Clients |-> {}] /\ moved = [t \in Clients |-> {}]
  /\ cut = {} /\ crossed = {} /\ hand = {}

Next ==
  \/ Move
  \/ \E t \in Tunnels : Ask(t) \/ Start(t) \/ Stop(t) \/ StopStarting(t)
  \/ \E t \in Tunnels, r \in Ranges : AddRoute(r, t) \/ DeleteRoute(r, t)
  \/ \E g \in Guards : CronStarts(g) \/ GuardStep(g)

Spec == Init /\ [][Next]_vars

\* cron starts a guard every ten minutes, and a guard that runs goes on.
FairSpec ==
  /\ Spec
  /\ \A g \in Timers : WF_vars(CronStarts(g))
  /\ \A g \in Guards : WF_vars(GuardStep(g))

----------------------------------------------------------------------------
(* Properties                                                              *)

Removing(r, t) == \E g \in Guards : at[g] = "del" /\ tun[g] = t /\ r \in drop[g]

\* A tunnel that is up keeps every range that never was local since it
\* started, allowed and routed, unless a guard wrote what it had read of the
\* tunnel before a restart; a server keeps them all ("server tunnels are never
\* touched").
OthersAreSpared ==
  \A t \in up : \A r \in Conf[t] :
    (t \in Clients => t \notin crossed /\ r \notin near[t]) =>
      r \in allowed[t] /\ (routes[r] = t \/ <<r, t>> \in hand)

\* Since it started, no person has edited this route of a tunnel, no guard was
\* cut short there, and none had read it before.
Whole(r, t) == <<r, t>> \notin hand /\ t \notin cut \cup crossed

\* A route through a client tunnel leads to a range its peer is allowed: or a
\* guard is removing it, was stopped before it could, or had read the tunnel
\* before it was restarted.
NoStaleRoute ==
  \A t \in up \cap Clients, r \in Ranges :
    routes[r] = t /\ Whole(r, t) => r \in allowed[t] \/ Removing(r, t)

\* When a client tunnel's start is over, forced or not, and whether the LAN
\* changed between set_tunnel_state's check and the start or not, it routes no
\* subnet of the LAN that its guard could have read.
StartIsGuarded ==
  \A t \in Clients, r \in Ranges :
    unit[t] = "active" /\ routes[r] = t /\ Whole(r, t) /\ r \in lan
      => r \in moved[t] \/ Removing(r, t)

\* A LAN route that a client tunnel steals comes back at the latest with cron's
\* guard, while the tunnel stays up: unless a guard was cut short there.
Stolen(r, t) == t \in up /\ routes[r] = t /\ r \in lan
StolenRouteGoes ==
  \A t \in Clients, r \in Ranges :
    Stolen(r, t) ~> (~Stolen(r, t) \/ ~Whole(r, t))

=============================================================================
