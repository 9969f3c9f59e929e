--------------------------- MODULE NmMigrateProofs ---------------------------
(***************************************************************************)
(* Theorems about NmMigrate, for any number of deployments and of power    *)
(* losses.                                                                 *)
(***************************************************************************)
EXTENDS NmMigrate, TLAPS

USE DeploysAssumption, FaultsAssumption

----------------------------------------------------------------------------
(* The inductive invariant                                                 *)

\* Points of the script: it has written its override and not removed it; it
\* has stopped networkd; it has started NetworkManager; it is rolling back.
Claimed == {"unhold", "switch", "retag", "start", "poll", "disable", "ok", "remove"}
Stopped == {"retag", "start", "poll", "disable", "ok", "remove", "rehold", "restart", "restore"}
Retagged == Stopped \ {"retag"}
NmStarted == {"poll", "disable", "ok", "remove", "rehold", "restart"}
RollingBack == {"rehold", "restart", "restore", "apply", "rolled-back"}

\* A second script has started, or will, after a first has finished.
Again == "ok" \in overtaken

\* What a point of the script says of the network.
Stages ==
  /\ (script # "none" \/ deployer # "idle" \/ override \/ result # "none") => nm # "absent"
  /\ script \in Claimed => override
  /\ script \in RollingBack => ~override
  /\ script \in Claimed \ {"unhold"} => ~hold
  /\ script \in Stopped => networkd = "stopped"
  /\ script \in Retagged => ~tagged
  /\ script \in NmStarted => nm = "runs"
  /\ script = "ok" => ~enabled

\* What a power loss finds on disk.
Durable ==
  Again \/
    /\ override /\ hold => script = "unhold" \/ cut = "unhold"
    /\ ~enabled => override /\ ~hold /\ script \in {"none", "ok"}
    /\ script = "override" => ~override

\* What a deployment that has passed its test may rely on.
Tested ==
  Again \/ (deployer \in {"clear", "launch"} => ~migrated /\ (script = "none" => ~override))

\* What a finished migration leaves for ever.
Finished ==
  /\ migrated => Again \/ /\ script = "none"
                          /\ override /\ ~hold /\ ~enabled
                          /\ networkd = "stopped" /\ nm = "runs" /\ ~tagged
  /\ script = "none" /\ result = "ok" => networkd = "stopped" /\ nm = "runs" /\ ~tagged

\* Why the hold of a rollback is there, unless a deployment has crossed it.
Held ==
  /\ deployer = "unhold" => crossed \/ script = "none"
  /\ script = "restart" => hold \/ crossed
  /\ script \in {"restore", "apply", "rolled-back"} => nm = "held" \/ crossed
  /\ script \in {"apply", "rolled-back"} => networkd = "manages"
  /\ script = "none" /\ result = "rolled-back" => networkd = "manages" /\ (nm = "held" \/ crossed)

\* A result that is there while a script runs, or when it is started, has come
\* between a deployment's test and its start.  A deployment says one thing.
Own ==
  /\ deployer = "launch" => result = "none" \/ overtaken # {}
  /\ script # "none" => result = "none" \/ overtaken # {}
  /\ deployer # "idle" => told = "none"

IInv == TypeOK /\ Stages /\ Durable /\ Tested /\ Finished /\ Held /\ Own

\* The device before its first deployment.
LEMMA InitInv == Init => IInv
<1> SUFFICES ASSUME Init PROVE IInv  OBVIOUS
<1> USE DEF Init
<1>1. deploys \in 0..MaxDeploys /\ faults \in 0..MaxFaults  OBVIOUS
<1>2. TypeOK  BY <1>1, Zenon DEF TypeOK, Flags, Ranges, Points, Results, Remote, NmManages, NetworkdManages
<1>3. Stages  BY DEF Stages, Stopped, Retagged, NmStarted, RollingBack, Claimed
<1>4. Durable /\ Tested /\ Finished /\ Held /\ Own
  BY DEF Durable, Tested, Finished, Held, Own, Again
<1> QED  BY <1>2, <1>3, <1>4 DEF IInv

\* The script removes the hold, after it has written its override.
LEMMA RemoveHoldInv == IInv /\ RemoveHold => IInv'
<1> SUFFICES ASSUME IInv, RemoveHold PROVE IInv'  OBVIOUS
<1> USE DEF IInv, TypeOK, RemoveHold, At, Then, disk, network, person, history
<1>1. Flags'  BY DEF Flags
<1>2. Ranges'
  BY DEF Flags, Ranges, Points, Results, Remote, NmManages, NetworkdManages
<1> USE DEF Flags, Ranges, Points, Stages, Claimed, Stopped, Retagged, NmStarted, RollingBack, Durable, Again
<1>3. Stages' /\ Durable'  OBVIOUS
<1>4. Finished'  BY DEF Finished
<1>5. Held' /\ Own' /\ Tested'  BY DEF Held, Own, Tested
<1> QED  BY <1>1, <1>2, <1>3, <1>4, <1>5

\* The script gives up, and removes its override first.
LEMMA RemoveOverrideInv == IInv /\ RemoveOverride => IInv'
<1> SUFFICES ASSUME IInv, RemoveOverride PROVE IInv'  OBVIOUS
<1> USE DEF IInv, TypeOK, RemoveOverride, At, Then, disk, network, person, history
<1>1. Flags'  BY DEF Flags
<1>2. Ranges'
  BY DEF Flags, Ranges, Points, Results, Remote, NmManages, NetworkdManages
<1> USE DEF Flags, Ranges, Points, Stages, Claimed, Stopped, Retagged, NmStarted, RollingBack, Durable, Again
<1>3. Stages' /\ Durable'  OBVIOUS
<1>4. Finished'  BY DEF Finished
<1>5. Held' /\ Own' /\ Tested'  BY DEF Held, Own, Tested
<1> QED  BY <1>1, <1>2, <1>3, <1>4, <1>5

\* The script takes networkd out of the boot.
LEMMA DisableNetworkdInv == IInv /\ DisableNetworkd => IInv'
<1> SUFFICES ASSUME IInv, DisableNetworkd PROVE IInv'  OBVIOUS
<1> USE DEF IInv, TypeOK, DisableNetworkd, At, Then, disk, network, person, history
<1>1. Flags'  BY DEF Flags
<1>2. Ranges'
  BY DEF Flags, Ranges, Points, Results, Remote, NmManages, NetworkdManages
<1> USE DEF Flags, Ranges, Points
<1>3. Stages'  BY DEF Stages, Claimed, Stopped, Retagged, NmStarted, RollingBack
<1>4. Durable'  BY DEF Durable, Stages, Claimed, Again
<1>5. Finished'  BY DEF Finished, Again
<1>6. Held' /\ Own' /\ Tested'  BY DEF Held, Own, Tested, Again
<1> QED  BY <1>1, <1>2, <1>3, <1>4, <1>5, <1>6

\* A deployment that found nothing to migrate removes the hold.
LEMMA UnholdInv == IInv /\ Unhold => IInv'
<1> SUFFICES ASSUME IInv, Unhold PROVE IInv'  OBVIOUS
<1> USE DEF IInv, TypeOK, Unhold, Says, Reachable, At, Then, disk, network, person, history
<1>1. Flags'  BY DEF Flags
<1>2. Ranges'
  BY DEF Flags, Ranges, Points, Results, Remote, NmManages, NetworkdManages
<1> USE DEF Flags, Ranges, Points, Stages, Claimed, Stopped, Retagged, NmStarted, RollingBack, Durable, Again
<1>3. Stages' /\ Durable'  OBVIOUS
<1>4. Finished'  BY DEF Finished
<1>5. Held' /\ Own' /\ Tested'  BY DEF Held, Own, Tested
<1> QED  BY <1>1, <1>2, <1>3, <1>4, <1>5

\* The script stops networkd.
LEMMA StopNetworkdInv == IInv /\ StopNetworkd => IInv'
<1> SUFFICES ASSUME IInv, StopNetworkd PROVE IInv'  OBVIOUS
<1> USE DEF IInv, TypeOK, StopNetworkd, Without, At, Then, disk, network, person, history
<1>1. Flags'  BY DEF Flags
<1>2. Ranges'
  BY DEF Flags, Ranges, Points, Results, Remote, NmManages, NetworkdManages
<1> USE DEF Flags, Ranges, Points, Stages, Claimed, Stopped, Retagged, NmStarted, RollingBack
<1>3. Stages'  OBVIOUS
<1>4. Durable' /\ Tested'  BY DEF Durable, Tested, Again, Finished
<1>5. Finished'  BY DEF Finished, Again
<1>6. Held' /\ Own'  BY DEF Held, Own
<1> QED  BY <1>1, <1>2, <1>3, <1>4, <1>5, <1>6

\* The script's rollback hands wlan0 back.
LEMMA ApplyInv == IInv /\ Apply => IInv'
<1> SUFFICES ASSUME IInv, Apply PROVE IInv'  OBVIOUS
<1> USE DEF IInv, TypeOK, Apply, Without, At, Then, disk, network, person, history
<1>1. Flags'  BY DEF Flags
<1>2. Ranges'
  BY DEF Flags, Ranges, Points, Results, Remote, NmManages, NetworkdManages
<1> USE DEF Flags, Ranges, Points, Stages, Claimed, Stopped, Retagged, NmStarted, RollingBack
<1>3. Stages'  OBVIOUS
<1>4. Durable' /\ Tested'  BY DEF Durable, Tested, Again, Finished
<1>5. Finished'  BY DEF Finished, Again
<1>6. Held' /\ Own'  BY DEF Held, Own
<1> QED  BY <1>1, <1>2, <1>3, <1>4, <1>5, <1>6

\* NetworkManager is installed.
LEMMA InstallInv == IInv /\ Install => IInv'
<1> SUFFICES ASSUME IInv, Install PROVE IInv'  OBVIOUS
<1> USE DEF IInv, TypeOK, Install, NmStarts, Reachable, At, Then, disk, network, person, history
<1>1. Flags'  BY DEF Flags
<1>2. Ranges'
  BY DEF Flags, Ranges, Points, Results, Remote, NmManages, NetworkdManages
<1> USE DEF Flags, Ranges, Points, Stages, Claimed, Stopped, Retagged, NmStarted, RollingBack
<1>3. Stages'  OBVIOUS
<1>4. Durable' /\ Tested'  BY DEF Durable, Tested, Again, Finished
<1>5. Finished'  BY DEF Finished, Again
<1>6. Held' /\ Own'  BY DEF Held, Own
<1> QED  BY <1>1, <1>2, <1>3, <1>4, <1>5, <1>6

\* A deployment tests whether there is something to migrate.
LEMMA CheckInv == IInv /\ Check => IInv'
<1> SUFFICES ASSUME IInv, Check PROVE IInv'  OBVIOUS
<1> USE DEF IInv, TypeOK, Check, Done, Reachable, At, Then, disk, network, person, history
<1>1. Flags'  BY DEF Flags
<1>2. Ranges'
  BY DEF Flags, Ranges, Points, Results, Remote, NmManages, NetworkdManages
<1> USE DEF Flags, Ranges, Points, Stages, Claimed, Stopped, Retagged, NmStarted, RollingBack
<1>3. Stages'  OBVIOUS
<1>4. Durable' /\ Tested'  BY DEF Durable, Tested, Again, Finished
<1>5. Finished'  BY DEF Finished, Again
<1>6. Held' /\ Own'  BY DEF Held, Own
<1> QED  BY <1>1, <1>2, <1>3, <1>4, <1>5, <1>6

\* Each step keeps it: of the network, of the script, of a deployment, and a
\* power loss.
LEMMA StepInv == IInv /\ [Next]_vars => IInv'
<1> SUFFICES ASSUME IInv, [Next]_vars PROVE IInv'  OBVIOUS
<1>1. CASE RemoveHold  BY <1>1, RemoveHoldInv
<1>2. CASE RemoveOverride  BY <1>2, RemoveOverrideInv
<1>3. CASE Unhold  BY <1>3, UnholdInv
<1>11. CASE DisableNetworkd  BY <1>11, DisableNetworkdInv
<1>17. CASE Install  BY <1>17, InstallInv
<1>18. CASE Check  BY <1>18, CheckInv
<1>25. CASE StopNetworkd  BY <1>25, StopNetworkdInv
<1>26. CASE Apply  BY <1>26, ApplyInv
<1> USE DEF IInv, TypeOK, Flags, Ranges, Points, Results, Remote, NmManages, NetworkdManages,
            Stages, Claimed, Stopped, Retagged, NmStarted, RollingBack, Durable, Tested,
            Finished, Held, Own, Again,
            At, Then, disk, network, person, history
<1>4. CASE NetworkdConnects  BY <1>4 DEF NetworkdConnects
<1>5. CASE NmConnects  BY <1>5 DEF NmConnects
<1>6. CASE WriteOverride  BY <1>6 DEF WriteOverride
<1>7. CASE Retag  BY <1>7 DEF Retag
<1>8. CASE StartNm  BY <1>8 DEF StartNm, NmStarts, Without
<1>9. CASE PollOnline  BY <1>9 DEF PollOnline, Online
<1>10. CASE PollTimeout  BY <1>10 DEF PollTimeout, Online
<1>12. CASE ReportOk  BY <1>12 DEF ReportOk, Report
<1>13. CASE WriteHold  BY <1>13 DEF WriteHold
<1>14. CASE RestartNm  BY <1>14 DEF RestartNm, NmStarts, Without
<1>15. CASE StartNetworkd  BY <1>15 DEF StartNetworkd
<1>16. CASE ReportBack  BY <1>16 DEF ReportBack, Report
<1>23. CASE ClearResult  BY <1>23 DEF ClearResult
<1>24. CASE Launch  BY <1>24 DEF Launch, Says
<1>19. CASE ReadResult  BY <1>19 DEF ReadResult, Says, Reachable
<1>20. CASE GiveUp  BY <1>20 DEF GiveUp, Says
<1>21. CASE PowerLoss  BY <1>21 DEF PowerLoss, NmStarts, Says
<1>22. CASE UNCHANGED vars  BY <1>22 DEF vars
<1> QED
  BY <1>1, <1>2, <1>3, <1>4, <1>5, <1>6, <1>7, <1>8, <1>9, <1>10, <1>11, <1>12,
     <1>13, <1>14, <1>15, <1>16, <1>17, <1>18, <1>19, <1>20, <1>21, <1>22,
     <1>23, <1>24, <1>25, <1>26
  DEF Next, Script, Person

\* IInv is an invariant.
THEOREM InductiveInvariant == Spec => []IInv
<1>1. Init => IInv  BY InitInv
<1>2. IInv /\ [Next]_vars => IInv'  BY StepInv
<1> QED  BY <1>1, <1>2, PTL DEF Spec

----------------------------------------------------------------------------
(* Theorems                                                                *)

\* Every variable keeps its kind; what connects the device is a manager that
\* manages it.
THEOREM TypeCorrect == Spec => []TypeOK
<1>1. IInv => TypeOK  BY DEF IInv
<1> QED  BY <1>1, InductiveInvariant, PTL

\* Once no script runs, what the last has reported is so: one manager and not
\* the other.
THEOREM OneManagerAtEnd == Spec => []OneManager
<1>1. IInv => OneManager
  BY DEF IInv, Finished, Held, OneManager, NmManages, NetworkdManages, At
<1> QED  BY <1>1, InductiveInvariant, PTL

\* A deployment that reads a result says what is so, of its own script's end.
THEOREM ToldTruly == Spec => TellsTheTruth
<1> DEFINE Truly ==
      deployer = "wait" /\ told' \in {"managed", "failed"} =>
        \/ overtaken # {}
        \/ /\ At("none")
           /\ IF told' = "managed" THEN NmManages /\ ~NetworkdManages ELSE NetworkdManages
<1>1. IInv /\ [Next]_vars => [Truly]_vars
  <2> SUFFICES ASSUME IInv, [Next]_vars, deployer = "wait", told' \in {"managed", "failed"},
                      overtaken = {}, vars' # vars
               PROVE  /\ At("none")
                      /\ IF told' = "managed" THEN NmManages /\ ~NetworkdManages
                                              ELSE NetworkdManages
    OBVIOUS
  <2>1. CASE ReadResult
    BY <2>1 DEF IInv, TypeOK, Ranges, Results, Own, Finished, Held, ReadResult, Says, At,
                NmManages, NetworkdManages
  <2>2. told = "none"  BY DEF IInv, Own
  <2> USE DEF Says, disk, network, person, history
  <2>3. CASE Script
    <3>1. UNCHANGED told
      BY <2>3 DEF Script, WriteOverride, RemoveHold, StopNetworkd, Retag, StartNm, PollOnline,
                  DisableNetworkd, ReportOk, PollTimeout, RemoveOverride, WriteHold, RestartNm,
                  StartNetworkd, Apply, ReportBack, Report
    <3> QED  BY <2>2, <3>1
  <2>4. CASE Install \/ Check \/ Unhold \/ ClearResult \/ Launch
    BY <2>4 DEF Install, Check, Unhold, ClearResult, Launch
  <2>5. CASE GiveUp  BY <2>5 DEF GiveUp
  <2>6. CASE NetworkdConnects \/ NmConnects \/ PowerLoss
    BY <2>2, <2>6 DEF NetworkdConnects, NmConnects, PowerLoss, Remote
  <2> QED  BY <2>1, <2>3, <2>4, <2>5, <2>6 DEF Next, Person
<1> QED  BY <1>1, InductiveInvariant, PTL DEF Spec, TellsTheTruth

\* A reported migration is for good, whatever reboots and deployments follow.
THEOREM MigrationIsLasting == Spec => []MigrationLasts
<1>1. IInv => MigrationLasts  BY DEF IInv, Finished, Again, MigrationLasts, NmManages
<1> QED  BY <1>1, InductiveInvariant, PTL

\* At every step but one the disk is such that the machine can start and be
\* connected.
THEOREM PowerLossIsSafe == Spec => []StartsManaged
<1>1. IInv => StartsManaged  BY DEF IInv, TypeOK, Flags, Durable, Again, StartsManaged, At
<1> QED  BY <1>1, InductiveInvariant, PTL

=============================================================================
