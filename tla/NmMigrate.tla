------------------------------ MODULE NmMigrate ------------------------------
(***************************************************************************)
(* The hand-over of a board's network from systemd-networkd to             *)
(* NetworkManager: migrate_to_networkmanager of deploy/deploy.sh, which a  *)
(* person runs over ssh, and the script it leaves running on the device,   *)
(* which returns to networkd unless NetworkManager brings it online.       *)
(*                                                                         *)
(* The device is a board with netplan, where networkd manages the network. *)
(* The machine may lose power at any step; what is on disk survives.       *)
(***************************************************************************)
EXTENDS Naturals

CONSTANTS
  MaxDeploys, \* bound on deployments
  MaxFaults   \* bound on power losses

ASSUME DeploysAssumption == MaxDeploys \in Nat
ASSUME FaultsAssumption == MaxFaults \in Nat

VARIABLES
  override, \* on disk: the netplan file that makes NetworkManager the renderer
  hold,     \* on disk: NetworkManager's file that leaves every device unmanaged
  enabled,  \* on disk: systemd-networkd starts at boot
  networkd, \* systemd-networkd: "stopped", "idle" with nothing to configure, "manages"
  nm,       \* NetworkManager: "absent" (not installed), or as it started: "held", "runs"
  tagged,   \* wlan0 carries netplan's NM_UNMANAGED tag
  link,     \* what connects the device: "lan" is NetworkManager with no default route
  script,   \* where the detached script stands
  result,   \* /run/pi-config-ui-nm-migrate.result
  deployer, \* where migrate_to_networkmanager stands on the person's computer
  told,     \* what it has said
  deploys, faults,
  migrated, \* history: the script has reported ok
  cut,      \* history: where the script stood when power was lost before it had ended
  crossed,  \* history: a deployment found "done" while the script ran
  overtaken \* history: what scripts reported between a deployment's test and its start

disk == <<override, hold, enabled>>
network == <<networkd, nm, tagged, link>>
person == <<deployer, told, deploys>>
history == <<migrated, cut, crossed, overtaken>>
vars == <<disk, network, script, result, person, faults, history>>

NmManages == nm = "runs" /\ ~tagged
NetworkdManages == networkd = "manages"

Points == {"none", "override", "unhold", "switch", "retag", "start", "poll", "disable", "ok",
           "remove", "rehold", "restart", "restore", "apply", "rolled-back"}
Results == {"none", "ok", "rolled-back"}
\* The deployment is in a command on the device: the test, what follows it.
Remote == {"check", "unhold", "clear", "launch"}

Flags ==
  /\ override \in BOOLEAN /\ hold \in BOOLEAN /\ enabled \in BOOLEAN
  /\ tagged \in BOOLEAN /\ migrated \in BOOLEAN /\ crossed \in BOOLEAN
Ranges ==
  /\ networkd \in {"stopped", "idle", "manages"}
  /\ nm \in {"absent", "held", "runs"}
  /\ link \in {"none", "networkd", "lan", "nm"}
  /\ link = "networkd" => NetworkdManages
  /\ link \in {"lan", "nm"} => NmManages
  /\ script \in Points /\ cut \in Points /\ result \in Results
  /\ deployer \in Remote \cup {"idle", "wait"} /\ overtaken \in SUBSET {"ok", "rolled-back"}
  /\ told \in {"none", "managed", "failed", "unreached"}
  /\ deploys \in 0..MaxDeploys /\ faults \in 0..MaxFaults
TypeOK == Flags /\ Ranges

----------------------------------------------------------------------------
(* The network                                                             *)

NmStarts == IF hold THEN "held" ELSE "runs"
Without_Kept(who) == link
Without(who) == IF link \in who THEN "none" ELSE link

\* networkd's configuration has worked before; whether NetworkManager's works
\* is not known.
NetworkdConnects ==
  /\ NetworkdManages /\ link = "none"
  /\ link' = "networkd"
  /\ UNCHANGED <<disk, networkd, nm, tagged, script, result, person, faults, history>>

NmConnects ==
  /\ NmManages
  /\ \/ link = "none" /\ link' \in {"lan", "nm"}
     \/ link = "lan" /\ link' = "nm"
  /\ UNCHANGED <<disk, networkd, nm, tagged, script, result, person, faults, history>>

----------------------------------------------------------------------------
(* The script on the device                                                *)

At(p) == script = p
Then(p) == script' = p

WriteOverride ==
  /\ At("override") /\ Then("unhold")
  /\ override' = TRUE
  /\ UNCHANGED <<hold, enabled, network, result, person, faults, history>>

RemoveHold ==
  /\ At("unhold") /\ Then("switch")
  /\ hold' = FALSE
  /\ UNCHANGED <<override, enabled, network, result, person, faults, history>>

\* netplan generate, and networkd is stopped.
StopNetworkd ==
  /\ At("switch") /\ Then("retag")
  /\ networkd' = "stopped"
  /\ link' = Without({"networkd"})
  /\ UNCHANGED <<disk, nm, tagged, result, person, faults, history>>

\* udev tags wlan0 again, by the rules netplan has generated.
Retag ==
  /\ At("retag") /\ Then("start")
  /\ tagged' = ~override
  /\ UNCHANGED <<disk, networkd, nm, link, result, person, faults, history>>

StartNm ==
  /\ At("start") /\ Then("poll")
  /\ nm' = NmStarts
  /\ link' = Without({"lan", "nm"})
  /\ UNCHANGED <<disk, networkd, tagged, result, person, faults, history>>

\* online() is asked for 90 seconds.
Online == link = "nm"
PollOnline ==
  /\ At("poll") /\ Online /\ Then("disable")
  /\ UNCHANGED <<disk, network, result, person, faults, history>>

PollTimeout_Forever ==
  /\ At("poll") /\ ~Online /\ Then("poll")
  /\ UNCHANGED <<disk, network, result, person, faults, history>>
PollTimeout ==
  /\ At("poll") /\ ~Online /\ Then("remove")
  /\ UNCHANGED <<disk, network, result, person, faults, history>>

DisableNetworkd_Forgotten ==
  /\ At("disable") /\ Then("ok")
  /\ UNCHANGED <<disk, network, result, person, faults, history>>
DisableNetworkd ==
  /\ At("disable") /\ Then("ok")
  /\ enabled' = FALSE
  /\ UNCHANGED <<override, hold, network, result, person, faults, history>>

\* The script reports and ends; a deployment may be about to start another.
Report(what) ==
  /\ Then("none")
  /\ result' = what
  /\ overtaken' = overtaken \cup (IF deployer \in {"clear", "launch"} THEN {what} ELSE {})
  /\ UNCHANGED <<disk, network, person, faults, cut, crossed>>

ReportOk ==
  /\ At("ok") /\ Report("ok")
  /\ migrated' = TRUE

RemoveOverride_HoldFirst ==
  /\ At("remove") /\ Then("rehold")
  /\ hold' = TRUE
  /\ UNCHANGED <<override, enabled, network, result, person, faults, history>>
RemoveOverride ==
  /\ At("remove") /\ Then("rehold")
  /\ override' = FALSE
  /\ UNCHANGED <<hold, enabled, network, result, person, faults, history>>

WriteHold_Forgotten ==
  /\ At("rehold") /\ Then("restart")
  /\ UNCHANGED <<disk, network, result, person, faults, history>>
WriteHold ==
  /\ At("rehold") /\ Then("restart")
  /\ hold' = TRUE
  /\ UNCHANGED <<override, enabled, network, result, person, faults, history>>

RestartNm ==
  /\ At("restart") /\ Then("restore")
  /\ nm' = NmStarts
  /\ link' = Without({"lan", "nm"})
  /\ UNCHANGED <<disk, networkd, tagged, result, person, faults, history>>

\* netplan generate, and networkd is started.
StartNetworkd ==
  /\ At("restore") /\ Then("apply")
  /\ networkd' = IF override THEN "idle" ELSE "manages"
  /\ UNCHANGED <<disk, nm, tagged, link, result, person, faults, history>>

\* netplan apply.  Whether it has wlan0 tagged again is netplan's.
Apply ==
  /\ At("apply") /\ Then("rolled-back")
  /\ tagged' \in {tagged, ~override}
  /\ link' = IF tagged' THEN Without({"lan", "nm"}) ELSE link
  /\ UNCHANGED <<disk, networkd, nm, result, person, faults, history>>

ReportBack == At("rolled-back") /\ Report("rolled-back") /\ UNCHANGED migrated

----------------------------------------------------------------------------
(* The person who deploys                                                  *)

Reachable == link # "none"
Says(what) == deployer' = "idle" /\ told' = what

\* install_dependencies: NetworkManager is installed, and held off the devices.
\* A later deployment, with --skip-deps or not, finds it installed.
Install ==
  /\ deployer = "idle" /\ Reachable
  /\ deploys < MaxDeploys /\ deploys' = deploys + 1
  /\ deployer' = "check" /\ told' = "none"
  /\ IF nm = "absent"
     THEN hold' = (networkd # "stopped" \/ hold) /\ nm' = IF hold' THEN "held" ELSE "runs"
     ELSE UNCHANGED <<hold, nm>>
  /\ UNCHANGED <<override, enabled, networkd, tagged, link, script, result, faults, history>>

\* migrate_to_networkmanager on the device, a command after the other: the test,
\* which also passes while a script is before its first command or has started
\* networkd again, ...  The comment above it, "networkd stays running after a
\* successful migration until the next reboot" (deploy/deploy.sh:427), is not
\* what the script does: it stops networkd.
Done == networkd = "stopped" \/ override
Check ==
  /\ deployer = "check" /\ Reachable
  /\ deployer' = IF Done THEN "unhold" ELSE "clear"
  /\ crossed' = (crossed \/ (Done /\ ~At("none")))
  /\ UNCHANGED <<disk, network, script, result, told, deploys, faults, migrated, cut, overtaken>>

\* ... an earlier result removed and the script written, with the same text
\* under one that may still run, ...
ClearResult_Kept ==
  /\ deployer = "clear" /\ deployer' = "launch"
  /\ UNCHANGED <<disk, network, script, result, told, deploys, faults, history>>
ClearResult ==
  /\ deployer = "clear" /\ deployer' = "launch"
  /\ result' = "none"
  /\ UNCHANGED <<disk, network, script, told, deploys, faults, history>>

\* ... and systemd-run, which refuses a unit that still runs.
Launch ==
  /\ deployer = "launch"
  /\ IF At("none") THEN Then("override") /\ deployer' = "wait" /\ UNCHANGED told
                   ELSE Says("failed") /\ UNCHANGED script
  /\ UNCHANGED <<disk, network, result, deploys, faults, history>>

\* "NetworkManager already manages networking."
Unhold ==
  /\ deployer = "unhold"
  /\ hold' = FALSE
  /\ Says(IF Reachable THEN "managed" ELSE "failed")
  /\ UNCHANGED <<override, enabled, network, script, result, deploys, faults, history>>

ReadResult ==
  /\ deployer = "wait" /\ Reachable /\ result # "none"
  /\ Says(IF result = "ok" THEN "managed" ELSE "failed")
  /\ UNCHANGED <<disk, network, script, result, deploys, faults, history>>

\* After 180 seconds, or when the person interrupts it, and with it the command
\* on the device.
GiveUp ==
  /\ deployer # "idle"
  /\ Says("unreached")
  /\ UNCHANGED <<disk, network, script, result, deploys, faults, history>>

----------------------------------------------------------------------------

\* The machine starts with what is on disk.  A script that had begun is gone,
\* and so is a remote command.
PowerLoss ==
  /\ faults < MaxFaults /\ faults' = faults + 1
  /\ networkd' = IF ~enabled THEN "stopped" ELSE IF override THEN "idle" ELSE "manages"
  /\ nm' = IF nm = "absent" THEN nm ELSE NmStarts
  /\ tagged' = ~override
  /\ link' = "none"
  /\ Then("none")
  /\ result' = "none"
  /\ IF deployer \in Remote THEN Says("unreached") ELSE UNCHANGED <<deployer, told>>
  /\ cut' = IF At("none") THEN cut ELSE script
  /\ UNCHANGED <<disk, deploys, migrated, crossed, overtaken>>

Init ==
  /\ override = FALSE /\ hold = FALSE /\ enabled = TRUE
  /\ networkd = "manages" /\ nm = "absent" /\ tagged = TRUE /\ link = "networkd"
  /\ script = "none" /\ result = "none"
  /\ deployer = "idle" /\ told = "none" /\ deploys = 0 /\ faults = 0
  /\ migrated = FALSE /\ cut = "none" /\ crossed = FALSE /\ overtaken = {}

Script ==
  \/ WriteOverride \/ RemoveHold \/ StopNetworkd \/ Retag \/ StartNm
  \/ PollOnline \/ DisableNetworkd \/ ReportOk
  \/ PollTimeout \/ RemoveOverride \/ WriteHold \/ RestartNm
  \/ StartNetworkd \/ Apply \/ ReportBack
Person == Install \/ Check \/ Unhold \/ ClearResult \/ Launch \/ ReadResult \/ GiveUp
Next == NetworkdConnects \/ NmConnects \/ Script \/ Person \/ PowerLoss

Spec == Init /\ [][Next]_vars

\* The device runs the script to its end, and networkd connects.
FairSpec == Spec /\ WF_vars(Script) /\ WF_vars(NetworkdConnects)

----------------------------------------------------------------------------
(* Properties                                                              *)

\* Once a script has reported and no other runs, one of the two manages the
\* network and the other does not: except that a deployment which found it done
\* while it ran may have removed the hold of a rollback.
OneManager ==
  At("none") =>
    /\ result = "ok" => NmManages /\ ~NetworkdManages
    /\ result = "rolled-back" => NetworkdManages /\ (NmManages => crossed)

\* What a deployment says of the result it has read is so when it says it, and
\* the script it started has ended: it reads no earlier script's result, except
\* of one that reported between its test and its start.
TellsTheTruth ==
  [][deployer = "wait" /\ told' \in {"managed", "failed"} =>
       \/ overtaken # {}
       \/ /\ At("none")
          /\ IF told' = "managed" THEN NmManages /\ ~NetworkdManages ELSE NetworkdManages]_vars

\* A migration that was reported lasts: no reboot and no later deployment
\* starts networkd again or takes the network from NetworkManager.  Except by
\* a deployment whose test came before that report and whose start after it.
\* That networkd is stopped at once, not at the next reboot, is the code's and
\* not its comment's (deploy/deploy.sh:427, see Done).
MigrationLasts ==
  migrated => "ok" \in overtaken \/ (NmManages /\ networkd = "stopped")

\* Whenever power is lost, the machine starts with a manager that is enabled
\* and not held: except between the writing of the override and the removing
\* of the hold, and where a second script rolls back what a first had finished.
StartsManaged ==
  \/ At("unhold") \/ cut = "unhold" \/ "ok" \in overtaken
  \/ IF override THEN ~hold ELSE enabled

\* "reverts itself unless NetworkManager brings a connection with a default
\* route up within ~90s" (deploy/deploy.sh:419): the device is connected again,
\* except after a power loss that came before the script had ended.
ComesBack == (link = "none") ~> (link # "none" \/ migrated \/ cut # "none")

=============================================================================
