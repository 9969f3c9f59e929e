--------------------------- MODULE WgGuardProofs ---------------------------
(***************************************************************************)
(* Theorems about WgGuard, for any tunnels, ranges, LANs and guards.       *)
(***************************************************************************)
EXTENDS WgGuard, TLAPS

----------------------------------------------------------------------------
(* The inductive invariant                                                 *)

\* A guard's points and variables: those of a start's guard belong to a tunnel
\* that is starting, and only clients are looked at.
Process ==
  /\ \A t \in Tunnels : at[t] # "idle" <=> unit[t] = "starting"
  /\ \A t \in Tunnels : at[t] = "lan" => t \in todo[t]
  /\ \A g \in Guards : at[g] \in {"next", "set", "del"} => todo[g] \subseteq Clients
  /\ \A g \in Guards : at[g] \in {"set", "del"} => tun[g] \in Clients /\ drop[g] \subseteq view[g]
  /\ \A g \in Guards : at[g] \in {"idle", "ifs", "lan"} => view[g] = {}

\* What a guard is about to set, and to keep, covers what is routed.
Pending ==
  \A g \in Guards, r \in Ranges :
    at[g] = "set" /\ routes[r] = tun[g] /\ Whole(r, tun[g])
      => r \in keep[g] \cup drop[g] \/ Removing(r, tun[g])

\* A guard takes only what it has seen, and it has seen what is near.
Seen ==
  /\ \A g \in Guards : \A t \in up \cap Clients : view[g] \subseteq near[t]
  /\ \A g \in Guards : \A r \in Ranges :
       at[g] = "set" /\ tun[g] \in up \ crossed /\ r \in Conf[tun[g]] \ near[tun[g]] => r \in keep[g]

\* The guard of a start has read the LAN, up to what has moved since, and takes
\* care of its own tunnel.
Guarding ==
  \A t \in Clients : at[t] \in {"next", "set", "del"} =>
    /\ lan \subseteq view[t] \cup moved[t]
    /\ \A r \in view[t] : routes[r] = t /\ Whole(r, t) =>
         \/ t \in todo[t] \/ Removing(r, t)
         \/ at[t] = "set" /\ tun[t] = t /\ r \in drop[t]

IInv == TypeOK /\ Process /\ NoStaleRoute /\ Pending /\ OthersAreSpared /\ Seen
        /\ StartIsGuarded /\ Guarding

USE TunnelsAssumption, RangesAssumption, BoundsAssumption

\* The device has booted.
LEMMA InitInv == Init => IInv
<1> SUFFICES ASSUME Init PROVE IInv  OBVIOUS
<1> USE DEF Init, Guards
<1>1. TypeOK  BY DEF TypeOK, Types, GuardTypes, HistoryTypes, Consistent
<1>2. Process  BY DEF Process
<1>3. NoStaleRoute /\ OthersAreSpared /\ StartIsGuarded  BY DEF NoStaleRoute, OthersAreSpared, StartIsGuarded
<1>4. Pending /\ Seen /\ Guarding  BY DEF Pending, Seen, Guarding
<1> QED  BY <1>1, <1>2, <1>3, <1>4 DEF IInv

\* The device moves: what is new in the LAN has moved, for every guard.
LEMMA MoveInv ==
  ASSUME IInv, Move
  PROVE  IInv'
<1> USE DEF IInv, Move, live, guard, bounds, history
<1>1. TypeOK'
  BY DEF TypeOK, Types, GuardTypes, HistoryTypes, Consistent, Guards, Process
<1> USE DEF TypeOK, Types, GuardTypes, HistoryTypes, Guards
<1>2. Process'  BY DEF Process, Consistent
<1>3. NoStaleRoute'  BY DEF NoStaleRoute, Whole, Removing, Consistent, Process
<1>4. Pending'  BY DEF Pending, NoStaleRoute, Whole, Removing, Consistent, Process
<1>5. OthersAreSpared'  BY DEF OthersAreSpared, Seen, Process, Consistent
<1>6. Seen'  BY DEF Seen, OthersAreSpared, Process, Consistent
<1>7. StartIsGuarded'
  BY DEF StartIsGuarded, Guarding, Whole, Removing, Process, Consistent
<1>8. Guarding'  BY DEF Guarding, NoStaleRoute, Whole, Removing, Process, Consistent
<1> QED  BY <1>1, <1>2, <1>3, <1>4, <1>5, <1>6, <1>7, <1>8

\* Somebody asks for a start.
LEMMA AskInv ==
  ASSUME NEW t \in Tunnels, IInv, Ask(t)
  PROVE  IInv'
<1> USE DEF IInv, Ask, Claims, live, guard, bounds, history
<1>1. TypeOK'
  BY DEF TypeOK, Types, GuardTypes, HistoryTypes, Consistent, Guards, Process
<1> USE DEF TypeOK, Types, GuardTypes, HistoryTypes, Guards
<1>2. Process'  BY DEF Process, Consistent
<1>3. NoStaleRoute'  BY DEF NoStaleRoute, Whole, Removing, Consistent, Process
<1>4. Pending'  BY DEF Pending, NoStaleRoute, Whole, Removing, Consistent, Process
<1>5. OthersAreSpared'  BY DEF OthersAreSpared, Seen, Process, Consistent
<1>6. Seen'  BY DEF Seen, OthersAreSpared, Process, Consistent
<1>7. StartIsGuarded'
  BY DEF StartIsGuarded, Guarding, Whole, Removing, Process, Consistent
<1>8. Guarding'  BY DEF Guarding, NoStaleRoute, Whole, Removing, Process, Consistent
<1> QED  BY <1>1, <1>2, <1>3, <1>4, <1>5, <1>6, <1>7, <1>8

\* A tunnel starts, with its .conf and all of its routes; or it cannot.
LEMMA StartInv ==
  ASSUME NEW t \in Tunnels, IInv, Start(t)
  PROVE  IInv'
<1> USE DEF IInv, live, guard, bounds, history
<1>1. CASE Collides(t)
  <2> UNCHANGED <<lan, unit, live, guard, bounds, history>> /\ asked' \subseteq asked
    BY <1>1 DEF Start
  <2>1. TypeOK'
    BY DEF TypeOK, Types, GuardTypes, HistoryTypes, Consistent, Guards, Process
  <2> USE DEF TypeOK, Types, GuardTypes, HistoryTypes, Guards
  <2>2. Process'  BY DEF Process, Consistent
  <2>3. NoStaleRoute'  BY DEF NoStaleRoute, Whole, Removing, Consistent, Process
  <2>4. Pending'  BY DEF Pending, NoStaleRoute, Whole, Removing, Consistent, Process
  <2>5. OthersAreSpared'  BY DEF OthersAreSpared, Seen, Process, Consistent
  <2>6. Seen'  BY DEF Seen, OthersAreSpared, Process, Consistent
  <2>7. StartIsGuarded'
    BY DEF StartIsGuarded, Guarding, Whole, Removing, Process, Consistent
  <2>8. Guarding'  BY DEF Guarding, NoStaleRoute, Whole, Removing, Process, Consistent
  <2> QED  BY <2>1, <2>2, <2>3, <2>4, <2>5, <2>6, <2>7, <2>8
<1>2. CASE ~Collides(t)
  <2> /\ up' = up \cup {t}
      /\ allowed' = [allowed EXCEPT ![t] = Conf[t]]
      /\ routes' = [r \in Ranges |-> IF r \in Conf[t] THEN t ELSE routes[r]]
      /\ unit' = [unit EXCEPT ![t] = "starting"]
      /\ at' = [at EXCEPT ![t] = "ifs"]
      /\ near' = [c \in Clients |->
                   IF c = t THEN lan \cup UNION {view[g] : g \in Guards} ELSE near[c]]
      /\ moved' = [c \in Clients |-> IF c = t THEN {} ELSE moved[c]]
      /\ cut' = cut \ {t}
      /\ hand' = {e \in hand : e[2] # t}
      /\ UNCHANGED <<lan, todo, view, tun, keep, drop>>
      /\ asked' \subseteq asked
    BY <1>2 DEF Start, ExecStartPost, Goto
  <2> crossed' = IF \E g \in Guards : at[g] \in {"set", "del"} /\ tun[g] = t
                 THEN crossed \cup {t} ELSE crossed \ {t}
    BY <1>2 DEF Start
  <2> t \notin up /\ \A r \in Conf[t] : routes[r] \in {None, t}
    BY <1>2 DEF Collides
  <2> USE DEF TypeOK, Types, GuardTypes, HistoryTypes, Guards
  <2>1. unit[t] = "inactive" /\ at[t] = "idle" /\ \A r \in Ranges : routes[r] # t
    BY DEF Consistent, Process
  <2>2. t \in crossed' => t \in Clients
    BY DEF Process
  <2>3. \A g \in Guards : view[g] \subseteq Ranges
    OBVIOUS
  <2>4. Types'  BY <2>1
  <2>5. GuardTypes'  BY <2>1
  <2>6. HistoryTypes'  BY <2>2, <2>3
  <2>7. Consistent'  BY <2>1 DEF Consistent
  <2>8. Process'  BY <2>1 DEF Process
  <2>9. \A g \in Guards : at'[g] \in {"set", "del"} => g # t /\ at[g] = at'[g]
    BY <2>1
  <2>10. \A r \in Ranges, c \in Tunnels : Removing(r, c)' <=> Removing(r, c)
    BY <2>1, <2>9 DEF Removing
  <2>11. \A r \in Ranges, c \in Tunnels \ {t} :
           Whole(r, c)' => Whole(r, c) /\ (routes'[r] = c => routes[r] = c)
    BY DEF Whole
  <2>12. NoStaleRoute'
    BY <2>1, <2>10, <2>11 DEF NoStaleRoute
  <2>13. \A g \in Guards : at[g] \in {"set", "del"} => tun[g] # t \/ t \in crossed'
    OBVIOUS
  <2>14. Pending'
    <3> SUFFICES ASSUME NEW g \in Guards, NEW r \in Ranges,
                        at'[g] = "set", routes'[r] = tun[g], Whole(r, tun[g])'
                 PROVE  r \in keep[g] \cup drop[g] \/ Removing(r, tun[g])'
      BY DEF Pending
    <3>1. at[g] = "set" /\ tun[g] \in Tunnels \ {t}
      BY <2>9, <2>13 DEF Whole, Process
    <3> QED  BY <3>1, <2>10, <2>11 DEF Pending
  <2>15. OthersAreSpared'
    BY <2>1 DEF OthersAreSpared
  <2>16. Seen'
    <3>1. \A g \in Guards : \A c \in up' \cap Clients : view[g] \subseteq near'[c]
      BY DEF Seen
    <3>2. \A g \in Guards : at'[g] = "set" /\ tun[g] \in up' \ crossed' => tun[g] # t /\ tun[g] \in up \ crossed
      BY <2>9, <2>13
    <3> QED  BY <2>9, <3>1, <3>2 DEF Seen, Process
  <2>17. StartIsGuarded'
    BY <2>1, <2>10, <2>11 DEF StartIsGuarded
  <2>18. Guarding'
    BY <2>1, <2>9, <2>10, <2>11 DEF Guarding
  <2> QED  BY <2>4, <2>5, <2>6, <2>7, <2>8, <2>12, <2>14, <2>15, <2>16, <2>17, <2>18
<1> QED  BY <1>1, <1>2

\* A tunnel stops: its routes go with it.
LEMMA StopInv ==
  ASSUME NEW t \in Tunnels, IInv, Stop(t)
  PROVE  IInv'
<1> USE DEF IInv, Stop, live, guard, bounds, history
<1>1. TypeOK'
  BY DEF TypeOK, Types, GuardTypes, HistoryTypes, Consistent, Guards, Process
<1> USE DEF TypeOK, Types, GuardTypes, HistoryTypes, Guards
<1>2. Process'  BY DEF Process, Consistent
<1>3. NoStaleRoute'  BY DEF NoStaleRoute, Whole, Removing, Consistent, Process
<1>4. Pending'  BY DEF Pending, NoStaleRoute, Whole, Removing, Consistent, Process
<1>5. OthersAreSpared'  BY DEF OthersAreSpared, Seen, Process, Consistent
<1>6. Seen'  BY DEF Seen, OthersAreSpared, Process, Consistent
<1>7. StartIsGuarded'
  BY DEF StartIsGuarded, Guarding, Whole, Removing, Process, Consistent
<1>8. Guarding'  BY DEF Guarding, NoStaleRoute, Whole, Removing, Process, Consistent
<1> QED  BY <1>1, <1>2, <1>3, <1>4, <1>5, <1>6, <1>7, <1>8

\* A start is stopped: its guard may leave a route behind.
LEMMA StopStartingInv ==
  ASSUME NEW t \in Tunnels, IInv, StopStarting(t)
  PROVE  IInv'
<1> USE DEF IInv, StopStarting, Gone, Goto, live, guard, bounds, history
<1>1. TypeOK'
  BY DEF TypeOK, Types, GuardTypes, HistoryTypes, Consistent, Guards, Process
<1> USE DEF TypeOK, Types, GuardTypes, HistoryTypes, Guards
<1>2. Process'  BY DEF Process, Consistent
<1>3. NoStaleRoute'  BY DEF NoStaleRoute, Whole, Removing, Consistent, Process
<1>4. Pending'
  <2> SUFFICES ASSUME NEW g \in Guards, NEW r \in Ranges,
                      at'[g] = "set", routes[r] = tun'[g], Whole(r, tun[g])'
               PROVE  r \in keep'[g] \cup drop'[g] \/ Removing(r, tun[g])'
    BY DEF Pending
  <2>1. /\ g # t /\ at[g] = "set" /\ tun'[g] = tun[g]
        /\ keep'[g] = keep[g] /\ drop'[g] = drop[g]
    OBVIOUS
  <2>2. Whole(r, tun[g])
    BY <2>1 DEF Whole
  <2>3. r \in keep[g] \cup drop[g] \/ Removing(r, tun[g])
    BY <2>1, <2>2 DEF Pending
  <2>4. Removing(r, tun[g]) => Removing(r, tun[g])'
    <3> SUFFICES ASSUME NEW h \in Guards, at[h] = "del", tun[h] = tun[g], r \in drop[h]
                 PROVE  Removing(r, tun[g])'
      BY DEF Removing
    <3>1. h # t
      BY <2>1 DEF Whole
    <3> QED  BY <2>1, <3>1 DEF Removing
  <2> QED  BY <2>1, <2>3, <2>4
<1>5. OthersAreSpared'  BY DEF OthersAreSpared, Seen, Process, Consistent
<1>6. Seen'  BY DEF Seen, OthersAreSpared, Process, Consistent
<1>7. StartIsGuarded'
  BY DEF StartIsGuarded, Guarding, Whole, Removing, Process, Consistent
<1>8. Guarding'  BY DEF Guarding, NoStaleRoute, Whole, Removing, Process, Consistent
<1> QED  BY <1>1, <1>2, <1>3, <1>4, <1>5, <1>6, <1>7, <1>8

\* A route is added by hand.
LEMMA AddRouteInv ==
  ASSUME NEW r \in Ranges, NEW t \in Tunnels, IInv, AddRoute(r, t)
  PROVE  IInv'
<1> USE DEF IInv, AddRoute, EditRoute, RouteAdd, live, guard, bounds, history
<1>1. TypeOK'
  BY DEF TypeOK, Types, GuardTypes, HistoryTypes, Consistent, Guards, Process
<1> USE DEF TypeOK, Types, GuardTypes, HistoryTypes, Guards
<1>2. Process'  BY DEF Process, Consistent
<1>3. NoStaleRoute'  BY DEF NoStaleRoute, Whole, Removing, Consistent, Process
<1>4. Pending'  BY DEF Pending, NoStaleRoute, Whole, Removing, Consistent, Process
<1>5. OthersAreSpared'  BY DEF OthersAreSpared, Seen, Process, Consistent
<1>6. Seen'  BY DEF Seen, OthersAreSpared, Process, Consistent
<1>7. StartIsGuarded'
  BY DEF StartIsGuarded, Guarding, Whole, Removing, Process, Consistent
<1>8. Guarding'  BY DEF Guarding, NoStaleRoute, Whole, Removing, Process, Consistent
<1> QED  BY <1>1, <1>2, <1>3, <1>4, <1>5, <1>6, <1>7, <1>8

\* A route is deleted by hand.
LEMMA DeleteRouteInv ==
  ASSUME NEW r \in Ranges, NEW t \in Tunnels, IInv, DeleteRoute(r, t)
  PROVE  IInv'
<1> USE DEF IInv, DeleteRoute, EditRoute, RouteDel, live, guard, bounds, history
<1>1. TypeOK'
  BY DEF TypeOK, Types, GuardTypes, HistoryTypes, Consistent, Guards, Process
<1> USE DEF TypeOK, Types, GuardTypes, HistoryTypes, Guards
<1>2. Process'  BY DEF Process, Consistent
<1>3. NoStaleRoute'  BY DEF NoStaleRoute, Whole, Removing, Consistent, Process
<1>4. Pending'  BY DEF Pending, NoStaleRoute, Whole, Removing, Consistent, Process
<1>5. OthersAreSpared'  BY DEF OthersAreSpared, Seen, Process, Consistent
<1>6. Seen'  BY DEF Seen, OthersAreSpared, Process, Consistent
<1>7. StartIsGuarded'
  BY DEF StartIsGuarded, Guarding, Whole, Removing, Process, Consistent
<1>8. Guarding'  BY DEF Guarding, NoStaleRoute, Whole, Removing, Process, Consistent
<1> QED  BY <1>1, <1>2, <1>3, <1>4, <1>5, <1>6, <1>7, <1>8

\* A guard starts.
LEMMA CronStartsInv ==
  ASSUME NEW g \in Guards, IInv, CronStarts(g)
  PROVE  IInv'
<1> USE DEF IInv, CronStarts, Goto, live, guard, bounds, history
<1>1. TypeOK'
  BY DEF TypeOK, Types, GuardTypes, HistoryTypes, Consistent, Guards, Process
<1> USE DEF TypeOK, Types, GuardTypes, HistoryTypes, Guards
<1>2. Process'  BY DEF Process, Consistent
<1>3. NoStaleRoute'  BY DEF NoStaleRoute, Whole, Removing, Consistent, Process
<1>4. Pending'  BY DEF Pending, NoStaleRoute, Whole, Removing, Consistent, Process
<1>5. OthersAreSpared'  BY DEF OthersAreSpared, Seen, Process, Consistent
<1>6. Seen'  BY DEF Seen, OthersAreSpared, Process, Consistent
<1>7. StartIsGuarded'
  BY DEF StartIsGuarded, Guarding, Whole, Removing, Process, Consistent
<1>8. Guarding'  BY DEF Guarding, NoStaleRoute, Whole, Removing, Process, Consistent
<1> QED  BY <1>1, <1>2, <1>3, <1>4, <1>5, <1>6, <1>7, <1>8

\* A guard reads which tunnels there are.
LEMMA ReadInterfacesInv ==
  ASSUME NEW g \in Guards, IInv, ReadInterfaces(g)
  PROVE  IInv'
<1> USE DEF IInv, live, guard, bounds, history
<1>1. CASE up = {}
  <2> Ends(g) /\ UNCHANGED <<lan, asked, live, bounds, history>> /\ at[g] = "ifs"
    BY <1>1 DEF ReadInterfaces
  <2>0. g \notin Tunnels  BY <1>1 DEF Process, Consistent, TypeOK, Types
  <2> USE <2>0 DEF Ends, Gone, Goto
  <2>1. TypeOK'
    BY DEF TypeOK, Types, GuardTypes, HistoryTypes, Consistent, Guards, Process
  <2> USE DEF TypeOK, Types, GuardTypes, HistoryTypes, Guards
  <2>2. Process'  BY DEF Process, Consistent
  <2>3. NoStaleRoute'  BY DEF NoStaleRoute, Whole, Removing, Consistent, Process
  <2>a. \A r \in Ranges, c \in Tunnels : Removing(r, c)' <=> Removing(r, c)
    BY DEF Removing
  <2>4. Pending'
    BY <2>a DEF Pending, Whole, Process
  <2>5. OthersAreSpared'  BY DEF OthersAreSpared, Seen, Process, Consistent
  <2>6. Seen'  BY DEF Seen, OthersAreSpared, Process, Consistent
  <2>7. StartIsGuarded'
    BY DEF StartIsGuarded, Guarding, Whole, Removing, Process, Consistent
  <2>8. Guarding'  BY DEF Guarding, NoStaleRoute, Whole, Removing, Process, Consistent
  <2> QED  BY <2>1, <2>2, <2>3, <2>4, <2>5, <2>6, <2>7, <2>8
<1>2. CASE up # {}
  <2> /\ Goto(g, "lan")
      /\ todo' = [todo EXCEPT ![g] = up]
      /\ UNCHANGED <<unit, view, tun, keep, drop>>
      /\ UNCHANGED <<lan, asked, live, bounds, history>> /\ at[g] = "ifs"
    BY <1>2 DEF ReadInterfaces
  <2> USE DEF Goto
  <2>1. TypeOK'
    BY DEF TypeOK, Types, GuardTypes, HistoryTypes, Consistent, Guards, Process
  <2> USE DEF TypeOK, Types, GuardTypes, HistoryTypes, Guards
  <2>2. Process'  BY DEF Process, Consistent
  <2>3. NoStaleRoute'  BY DEF NoStaleRoute, Whole, Removing, Consistent, Process
  <2>4. Pending'  BY DEF Pending, NoStaleRoute, Whole, Removing, Consistent, Process
  <2>5. OthersAreSpared'  BY DEF OthersAreSpared, Seen, Process, Consistent
  <2>6. Seen'  BY DEF Seen, OthersAreSpared, Process, Consistent
  <2>7. StartIsGuarded'
    BY DEF StartIsGuarded, Guarding, Whole, Removing, Process, Consistent
  <2>8. Guarding'  BY DEF Guarding, NoStaleRoute, Whole, Removing, Process, Consistent
  <2> QED  BY <2>1, <2>2, <2>3, <2>4, <2>5, <2>6, <2>7, <2>8
<1> QED  BY <1>1, <1>2

\* A guard reads the LAN.
LEMMA ReadLanInv ==
  ASSUME NEW g \in Guards, IInv, ReadLan(g)
  PROVE  IInv'
<1> USE DEF IInv, ReadLan, Goto, live, guard, bounds, history
<1>1. TypeOK'
  BY DEF TypeOK, Types, GuardTypes, HistoryTypes, Consistent, Guards, Process
<1> USE DEF TypeOK, Types, GuardTypes, HistoryTypes, Guards
<1>2. Process'  BY DEF Process, Consistent
<1>3. NoStaleRoute'  BY DEF NoStaleRoute, Whole, Removing, Consistent, Process
<1>4. Pending'  BY DEF Pending, NoStaleRoute, Whole, Removing, Consistent, Process
<1>5. OthersAreSpared'  BY DEF OthersAreSpared, Seen, Process, Consistent
<1>6. Seen'  BY DEF Seen, OthersAreSpared, Process, Consistent
<1>7. StartIsGuarded'
  BY DEF StartIsGuarded, Guarding, Whole, Removing, Process, Consistent
<1>8. Guarding'  BY DEF Guarding, NoStaleRoute, Whole, Removing, Process, Consistent
<1> QED  BY <1>1, <1>2, <1>3, <1>4, <1>5, <1>6, <1>7, <1>8

\* A guard is cut short by a tunnel that has gone.
LEMMA AbortsInv ==
  ASSUME NEW g \in Guards, IInv, at[g] \in {"next", "set"}, Aborts(g),
         UNCHANGED <<lan, asked, up, routes, bounds, near, moved, crossed, hand>>
  PROVE  IInv'
<1> USE DEF IInv, Aborts, Ends, Gone, Goto, live, guard, bounds, history
<1>1. TypeOK'
  BY DEF TypeOK, Types, GuardTypes, HistoryTypes, Consistent, Guards, Process
<1> USE DEF TypeOK, Types, GuardTypes, HistoryTypes, Guards
<1>2. Process'  BY DEF Process, Consistent
<1>3. NoStaleRoute'  BY DEF NoStaleRoute, Whole, Removing, Consistent, Process
<1>4. Pending'  BY DEF Pending, NoStaleRoute, Whole, Removing, Consistent, Process
<1>5. OthersAreSpared'  BY DEF OthersAreSpared, Seen, Process, Consistent
<1>6. Seen'  BY DEF Seen, OthersAreSpared, Process, Consistent
<1>7. StartIsGuarded'
  BY DEF StartIsGuarded, Guarding, Whole, Removing, Process, Consistent
<1>8. Guarding'  BY DEF Guarding, NoStaleRoute, Whole, Removing, Process, Consistent
<1> QED  BY <1>1, <1>2, <1>3, <1>4, <1>5, <1>6, <1>7, <1>8

\* A guard reads what a tunnel's peer is allowed.
LEMMA ShowInv ==
  ASSUME NEW g \in Guards, IInv, Show(g)
  PROVE  IInv'
<1>1. CASE Aborts(g)
  BY <1>1, AbortsInv DEF Show
<1>2. CASE ~Aborts(g)
  <2> PICK t \in todo[g] :
        /\ t \in up
        /\ todo' = [todo EXCEPT ![g] = @ \ {t}]
        /\ tun' = [tun EXCEPT ![g] = t]
        /\ keep' = [keep EXCEPT ![g] = allowed[t] \ (allowed[t] \cap view[g])]
        /\ drop' = [drop EXCEPT ![g] = allowed[t] \cap view[g]]
        /\ IF allowed[t] \cap view[g] = {} THEN Goto(g, "next") ELSE Goto(g, "set")
        /\ UNCHANGED <<unit, allowed, view, cut>>
    BY <1>2 DEF Show
  <2> at[g] = "next" /\ UNCHANGED <<lan, asked, up, routes, bounds, near, moved, crossed, hand>>
    BY DEF Show
  <2> USE DEF IInv, Goto, live, guard, bounds, history
  <2>1. TypeOK'
    BY DEF TypeOK, Types, GuardTypes, HistoryTypes, Consistent, Guards, Process
  <2> USE DEF TypeOK, Types, GuardTypes, HistoryTypes, Guards
  <2>2. Process'  BY DEF Process, Consistent
  <2>3. \A r \in Ranges, c \in Tunnels : Removing(r, c)' <=> Removing(r, c)
    BY DEF Removing
  <2>4. NoStaleRoute'  BY <2>3 DEF NoStaleRoute, Whole
  <2>5. t \in Clients /\ keep'[g] \cup drop'[g] = allowed[t]
    BY DEF Process
  <2>6. \A h \in Guards : at'[h] = "set" =>
          \/ h = g /\ tun'[h] = t
          \/ h # g /\ at[h] = "set" /\ tun'[h] = tun[h] /\ keep'[h] = keep[h] /\ drop'[h] = drop[h]
    OBVIOUS
  <2>7. Pending'
    <3> SUFFICES ASSUME NEW h \in Guards, NEW r \in Ranges,
                        at'[h] = "set", routes'[r] = tun'[h], Whole(r, tun[h])'
                 PROVE  r \in keep'[h] \cup drop'[h] \/ Removing(r, tun[h])'
      BY DEF Pending
    <3>1. CASE h = g
      BY <3>1, <2>3, <2>5 DEF NoStaleRoute, Whole
    <3>2. CASE h # g
      BY <3>2, <2>3, <2>6 DEF Pending, Whole, Process
    <3> QED  BY <3>1, <3>2
  <2>8. OthersAreSpared'  BY DEF OthersAreSpared
  <2>9. Seen'
    <3>1. \A r \in Ranges : at'[g] = "set" /\ t \in up \ crossed /\ r \in Conf[t] \ near[t] => r \in keep'[g]
      BY <2>5 DEF OthersAreSpared, Seen
    <3> QED  BY <2>6, <3>1 DEF Seen
  <2>10. StartIsGuarded'
    BY <2>3 DEF StartIsGuarded, Whole
  <2>11. Guarding'
    <3>1. \A r \in view[g] : routes[r] = t /\ Whole(r, t) => r \in drop'[g] \/ Removing(r, t)
      BY <2>5 DEF NoStaleRoute
    <3>2. \A c \in Clients : at'[c] \in {"next", "set", "del"} => at[c] \in {"next", "set", "del"}
      OBVIOUS
    <3> QED  BY <2>3, <2>6, <3>1, <3>2 DEF Guarding, Whole
  <2> QED  BY <2>1, <2>2, <2>4, <2>7, <2>8, <2>9, <2>10, <2>11
<1> QED  BY <1>1, <1>2

\* A guard sets what is to be kept.
LEMMA WgSetInv ==
  ASSUME NEW g \in Guards, IInv, WgSet(g)
  PROVE  IInv'
<1>1. CASE tun[g] \notin up
  BY <1>1, AbortsInv DEF WgSet
<1>2. CASE tun[g] \in up
  <2> DEFINE t == tun[g]
  <2> /\ at[g] = "set"
      /\ allowed' = [allowed EXCEPT ![t] = keep[g]]
      /\ at' = [at EXCEPT ![g] = "del"]
      /\ UNCHANGED <<unit, todo, view, tun, keep, drop, cut>>
      /\ UNCHANGED <<lan, asked, up, routes, bounds, near, moved, crossed, hand>>
    BY <1>2 DEF WgSet, Goto
  <2> USE DEF IInv, live, guard, bounds, history
  <2> USE DEF TypeOK, Types, GuardTypes, HistoryTypes, Guards
  <2>1. t \in up \cap Clients /\ t \in Tunnels
    BY <1>2 DEF Process
  <2> HIDE DEF t
  <2>2. Types'  BY <2>1
  <2>3. GuardTypes' /\ HistoryTypes'  OBVIOUS
  <2>4. Consistent'  BY <2>1 DEF Consistent
  <2>5. Process'  BY DEF Process
  <2>6. \A r \in Ranges, c \in Tunnels : Removing(r, c) => Removing(r, c)'
    BY DEF Removing
  <2>7. \A r \in drop[g] : Removing(r, t)'
    BY DEF Removing, t
  <2>8. NoStaleRoute'
    <3> SUFFICES ASSUME NEW c \in up \cap Clients, NEW r \in Ranges,
                        routes[r] = c, Whole(r, c), r \notin allowed'[c]
                 PROVE  Removing(r, c)'
      BY DEF NoStaleRoute, Whole
    <3>1. CASE c = t
      BY <3>1, <2>1, <2>6, <2>7 DEF Pending, t
    <3>2. CASE c # t
      <4>1. r \notin allowed[c]
        BY <3>2, <2>1
      <4> QED  BY <4>1, <2>6 DEF NoStaleRoute
    <3> QED  BY <3>1, <3>2
  <2>9. Pending'  BY <2>6 DEF Pending, Whole, Process
  <2>10. OthersAreSpared'
    <3>1. \A r \in Conf[t] : t \notin crossed /\ r \notin near[t] => r \in keep[g]
      BY <2>1 DEF Seen, t
    <3> QED  BY <2>1, <3>1 DEF OthersAreSpared
  <2>11. Seen'  BY DEF Seen
  <2>12. StartIsGuarded'  BY <2>6 DEF StartIsGuarded, Whole
  <2>13. Guarding'  BY <2>6, <2>7 DEF Guarding, Whole, t
  <2> QED  BY <2>2, <2>3, <2>4, <2>5, <2>8, <2>9, <2>10, <2>11, <2>12, <2>13
<1> QED  BY <1>1, <1>2

\* A guard deletes a route.
LEMMA IpRouteDelInv ==
  ASSUME NEW g \in Guards, IInv, IpRouteDel(g)
  PROVE  IInv'
<1> USE DEF IInv, IpRouteDel, Goto, live, guard, bounds, history
<1>1. TypeOK'
  BY DEF TypeOK, Types, GuardTypes, HistoryTypes, Consistent, Guards, Process
<1> USE DEF TypeOK, Types, GuardTypes, HistoryTypes, Guards
<1>2. Process'  BY DEF Process, Consistent
<1>3. NoStaleRoute'  BY DEF NoStaleRoute, Whole, Removing, Consistent, Process
<1>4. Pending'
  <2> SUFFICES ASSUME NEW h \in Guards, NEW r \in Ranges,
                      at'[h] = "set", routes'[r] = tun[h], Whole(r, tun[h])
               PROVE  r \in keep[h] \cup drop'[h] \/ Removing(r, tun[h])'
    BY DEF Pending, Whole
  <2>1. h # g /\ at[h] = "set" /\ tun[h] \in Clients /\ drop'[h] = drop[h]
    BY DEF Process
  <2>2. routes[r] = tun[h]
    BY <2>1
  <2>3. r \in keep[h] \cup drop[h] \/ Removing(r, tun[h])
    BY <2>1, <2>2 DEF Pending
  <2>4. ASSUME NEW k \in Guards, at[k] = "del", tun[k] = tun[h], r \in drop[k]
        PROVE  at'[k] = "del" /\ r \in drop'[k]
    BY <2>1, <2>4
  <2> QED  BY <2>1, <2>3, <2>4 DEF Removing
<1>5. OthersAreSpared'  BY DEF OthersAreSpared, Seen, Process, Consistent
<1>6. Seen'  BY DEF Seen, OthersAreSpared, Process, Consistent
<1>7. StartIsGuarded'
  BY DEF StartIsGuarded, Guarding, Whole, Removing, Process, Consistent
<1>8. Guarding'  BY DEF Guarding, NoStaleRoute, Whole, Removing, Process, Consistent
<1> QED  BY <1>1, <1>2, <1>3, <1>4, <1>5, <1>6, <1>7, <1>8

\* A guard has ended.
LEMMA FinishInv ==
  ASSUME NEW g \in Guards, IInv, Finish(g)
  PROVE  IInv'
<1> USE DEF IInv, Finish, Ends, Gone, Goto, live, guard, bounds, history
<1>1. TypeOK'
  BY DEF TypeOK, Types, GuardTypes, HistoryTypes, Consistent, Guards, Process
<1> USE DEF TypeOK, Types, GuardTypes, HistoryTypes, Guards
<1>2. Process'  BY DEF Process, Consistent
<1>3. NoStaleRoute'  BY DEF NoStaleRoute, Whole, Removing, Consistent, Process
<1>a. \A r \in Ranges, c \in Tunnels : Removing(r, c)' <=> Removing(r, c)
  BY DEF Removing
<1>4. Pending'
  <2> SUFFICES ASSUME NEW h \in Guards, NEW r \in Ranges,
                      at'[h] = "set", routes[r] = tun'[h], Whole(r, tun[h])'
               PROVE  r \in keep'[h] \cup drop'[h] \/ Removing(r, tun[h])'
    BY DEF Pending
  <2>1. /\ h # g /\ at[h] = "set" /\ tun'[h] = tun[h] /\ tun[h] \in Tunnels
        /\ keep'[h] = keep[h] /\ drop'[h] = drop[h]
    BY DEF Process
  <2>2. Whole(r, tun[h])
    BY <2>1 DEF Whole
  <2>3. r \in keep[h] \cup drop[h] \/ Removing(r, tun[h])
    BY <2>1, <2>2 DEF Pending
  <2> QED  BY <1>a, <2>1, <2>3
<1>5. OthersAreSpared'  BY DEF OthersAreSpared, Seen, Process, Consistent
<1>6. Seen'  BY DEF Seen, OthersAreSpared, Process, Consistent
<1>7. StartIsGuarded'
  BY DEF StartIsGuarded, Guarding, Whole, Removing, Process, Consistent
<1>8. Guarding'  BY DEF Guarding, NoStaleRoute, Whole, Removing, Process, Consistent
<1> QED  BY <1>1, <1>2, <1>3, <1>4, <1>5, <1>6, <1>7, <1>8

----------------------------------------------------------------------------
(* The theorems                                                            *)

\* Every step preserves the invariant.
LEMMA StepInv == IInv /\ [Next]_vars => IInv'
<1> SUFFICES ASSUME IInv, [Next]_vars PROVE IInv'  OBVIOUS
<1>1. ASSUME NEW t \in Tunnels, Ask(t) \/ Start(t) \/ Stop(t) \/ StopStarting(t)
      PROVE  IInv'
  BY <1>1, AskInv, StartInv, StopInv, StopStartingInv
<1>2. ASSUME NEW t \in Tunnels, NEW r \in Ranges, AddRoute(r, t) \/ DeleteRoute(r, t)
      PROVE  IInv'
  BY <1>2, AddRouteInv, DeleteRouteInv
<1>3. ASSUME NEW g \in Guards, CronStarts(g) \/ ReadInterfaces(g) \/ ReadLan(g)
      PROVE  IInv'
  BY <1>3, CronStartsInv, ReadInterfacesInv, ReadLanInv
<1>4. ASSUME NEW g \in Guards, Show(g) \/ WgSet(g) \/ IpRouteDel(g) \/ Finish(g)
      PROVE  IInv'
  BY <1>4, ShowInv, WgSetInv, IpRouteDelInv, FinishInv
<1>5. CASE UNCHANGED vars
  BY <1>5 DEF vars, live, guard, bounds, history, IInv, TypeOK, Types, GuardTypes,
     HistoryTypes, Consistent, Process, NoStaleRoute, Pending, OthersAreSpared, Seen,
     StartIsGuarded, Guarding, Whole, Removing
<1> QED  BY MoveInv, <1>1, <1>2, <1>3, <1>4, <1>5 DEF Next, GuardStep

LEMMA InductiveInvariant == Spec => []IInv
<1> QED  BY InitInv, StepInv, PTL DEF Spec

\* The variables keep their types; a tunnel that is down has no unit that runs,
\* allows nothing and routes nothing; a guard that is about to set or to delete
\* has a tunnel and something to take from it.
THEOREM TypeCorrect == Spec => []TypeOK
<1>1. IInv => TypeOK  BY DEF IInv
<1> QED  BY <1>1, InductiveInvariant, PTL

\* However guards, starts, stops, moves and edits of routes interleave, a server
\* loses nothing, and a client only ranges that were or looked local.
THEOREM OthersSpared == Spec => []OthersAreSpared
<1>1. IInv => OthersAreSpared  BY DEF IInv
<1> QED  BY <1>1, InductiveInvariant, PTL

\* A trimmed range leaves no route behind, but for a guard that was cut short or
\* had read the tunnel before it was restarted.
THEOREM RoutesFollow == Spec => []NoStaleRoute
<1>1. IInv => NoStaleRoute  BY DEF IInv
<1> QED  BY <1>1, InductiveInvariant, PTL

\* No start that is over leaves a LAN stolen that its guard could have read.
THEOREM StartsGuarded == Spec => []StartIsGuarded
<1>1. IInv => StartIsGuarded  BY DEF IInv
<1> QED  BY <1>1, InductiveInvariant, PTL

=============================================================================
