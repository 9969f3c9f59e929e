----------------------------- MODULE Maintenance -----------------------------
(***************************************************************************)
(* What keeps one device running: the web application's downtime tracking  *)
(* (app/monitor.py's heartbeat) and the maintenance tasks that root runs   *)
(* from cron and at boot (deploy/maintenance.sh os-update, boot-check,     *)
(* health and reboot), which share state.json, a lock, the installed       *)
(* packages and the machine's reboots.                                     *)
(*                                                                         *)
(* Packages have a version: 0 at first, n once update n is installed.      *)
(* The web application does not serve from a version in Bad.  Time is only *)
(* the order of boots: a timestamp is the boot it was taken in.            *)
(***************************************************************************)
EXTENDS StateFile, Sequences

CONSTANTS
  Clock,     \* TRUE: a time server can be reached
  Bad,       \* updates after which the web application does not serve
  MaxFaults  \* bound on crashes, power losses and killed boot-checks

ASSUME ClockAssumption == Clock \in BOOLEAN
ASSUME BadAssumption == Bad \subseteq Updates
ASSUME FaultsAssumption == MaxFaults \in Nat

VARIABLES
  boot,      \* boots so far
  synced,    \* /run/systemd/timesync/synchronized exists
  app,       \* pi-config-ui: how it runs, _boot_comparison_done, _last_downtime_seconds
  task,      \* the maintenance task that holds the lock
  check,     \* this boot's boot-check: "due", "ran" or "skipped"
  version,   \* the installed packages
  snap,      \* snapshot n: the version before update n
  faults,    \* faults so far
  kept,      \* history: the boot of the last completed heartbeat save
  before,    \* history: kept when this boot began
  confirmed, \* history: updates a boot-check found healthy
  attempted, \* history: updates a boot-check has rolled back, or tried to
  rolls      \* history: update |-> reboots that applied its rollback

machine == <<boot, synced, app, check, version, snap>>
history == <<kept, before, confirmed, attempted, rolls>>
vars == <<file, task, machine, faults, history>>

NoTask == [op |-> "none", at |-> "none", id |-> 0, reverted |-> FALSE]
Task(op, at) == [op |-> op, at |-> at, id |-> 0, reverted |-> FALSE]
Stopped == [status |-> "down", done |-> FALSE, mem |-> NoOutage]

Points == {"none", "restart", "set_pending", "set_tried", "upgrade", "pip", "poll", "repoll",
           "unset_pending", "unset_tried", "decide", "revert", "mark", "alert", "reboot"}

TypeOK ==
  /\ FileTypeOK
  /\ boot \in Boots
  /\ synced \in BOOLEAN
  /\ app \in [status: {"down", "up", "sick"}, done: BOOLEAN, mem: Outages]
  /\ task \in [op: {"none", "health", "os-update", "boot-check"}, at: Points,
               id: 0..MaxUpdates, reverted: BOOLEAN]
  /\ check \in {"due", "ran", "skipped"}
  /\ version \in 0..MaxUpdates
  /\ snap \in Seq(0..MaxUpdates) /\ Len(snap) <= MaxUpdates
  /\ faults \in 0..MaxFaults
  /\ kept \in 0..MaxBoots /\ before \in 0..MaxBoots
  /\ confirmed \in SUBSET Updates /\ attempted \in SUBSET Updates
  /\ rolls \in [Updates -> 0..MaxBoots]

----------------------------------------------------------------------------
(* The heartbeat                                                           *)

\* psutil.boot_time(): it moves until the clock is set, and not after.
BootTime == IF synced THEN boot ELSE Unsettled

MayTick_Unsynced == app.status # "down"
MayTick_Once == app.status # "down" /\ synced /\ ~app.done
MayTick == app.status # "down" /\ synced

\* What the first tick of a process makes of the last run's record.
Outage_AnyStart(d) == IF d.seen = 0 THEN NoOutage ELSE [from |-> d.seen, to |-> boot]
Outage(d) ==
  IF d.boot = 0 THEN NoOutage
  ELSE IF d.boot # BootTime /\ d.seen # 0 THEN [from |-> d.seen, to |-> boot]
  ELSE d.down

\* What it saves is the file it has loaded, with its own keys changed.
Beat_NothingElse(d) == [NoDoc EXCEPT !.seen = boot, !.boot = d.boot, !.down = d.down]
Beat(d) == [d EXCEPT !.seen = boot]

\* A tick up to its save: the comparison is done once per process, and counts
\* as done before it is saved.
Tick ==
  LET d == Read
      mem == IF app.done THEN app.mem ELSE Outage(d)
      seen == Beat(d)
  IN  /\ MayTick
      /\ Begin("app", IF app.done THEN seen ELSE [seen EXCEPT !.boot = BootTime, !.down = mem])
      /\ app' = [app EXCEPT !.done = TRUE, !.mem = mem]
      /\ UNCHANGED <<task, boot, synced, check, version, snap, faults, history>>

Save ==
  /\ OpenTmp("app") \/ WriteTmp("app") \/ ReplaceTmp("app")
  /\ kept' = IF save["app"].at = "replace" /\ ~Lost THEN boot ELSE kept
  /\ UNCHANGED <<task, machine, faults, before, confirmed, attempted, rolls>>

\* systemd starts the application, at boot and when it has failed.  A bad one
\* does not start, or runs without serving.
AppStart ==
  /\ app.status = "down"
  /\ app' = [app EXCEPT !.status = IF version \in Bad THEN "sick" ELSE "up"]
  /\ UNCHANGED <<file, task, boot, synced, check, version, snap, faults, history>>

\* The clock is set.
Sync ==
  /\ Clock /\ ~synced
  /\ synced' = TRUE
  /\ UNCHANGED <<file, task, boot, app, check, version, snap, faults, history>>

----------------------------------------------------------------------------
(* The tasks under the lock                                                *)

Free == task.op = "none"
On(at) == task.at = at
Go(at) == task' = [task EXCEPT !.at = at]
End == task' = NoTask

\* systemctl restart pi-config-ui
Restart == app' = Stopped /\ Killed({"app"})

\* cmd_health: an application that does not answer is restarted.
HealthBegin ==
  /\ Free
  /\ task' = Task("health", "restart")
  /\ UNCHANGED <<file, machine, faults, history>>

HealthEnd ==
  /\ On("restart")
  /\ IF app.status = "up" THEN UNCHANGED <<app, file>> ELSE Restart
  /\ End
  /\ UNCHANGED <<boot, synced, check, version, snap, faults, history>>

\* cmd_os_update with packages to upgrade: snapshot, then state.json.
OsUpdate ==
  /\ Free
  /\ Len(snap) < MaxUpdates
  /\ snap' = Append(snap, version)
  /\ task' = Task("os-update", "set_pending")
  /\ UNCHANGED <<file, boot, synced, app, check, version, faults, history>>

\* apt-get full-upgrade: installed, failed half-way, or failed at once.
Upgrade ==
  /\ On("upgrade")
  /\ \/ version' = Len(snap) /\ Go("pip")
     \/ version' \in {version, Len(snap)} /\ End
  /\ UNCHANGED <<file, boot, synced, app, check, snap, faults, history>>

\* The virtual environment is brought back to its pins, still under the lock.
SyncVenv ==
  /\ On("pip")
  /\ End
  /\ UNCHANGED <<file, machine, faults, history>>

\* pi-config-ui-boot-check.service: once per boot, skipped if the lock is held.
BootCheck ==
  /\ check = "due"
  /\ IF Free THEN task' = Task("boot-check", "poll") /\ check' = "ran"
             ELSE UNCHANGED task /\ check' = "skipped"
  /\ UNCHANGED <<file, boot, synced, app, version, snap, faults, history>>

\* The application answers: the pending update is good.
Healthy ==
  LET p == IF On("poll") THEN Read.pending ELSE task.id
  IN  /\ On("poll") \/ On("repoll")
      /\ app.status = "up"
      /\ IF p = 0 THEN End /\ UNCHANGED confirmed
                  ELSE Go("unset_pending") /\ confirmed' = confirmed \cup {p}
      /\ UNCHANGED <<file, machine, faults, kept, before, attempted, rolls>>

\* It has not answered for three minutes: restart it and poll again.
Unhealthy ==
  /\ On("poll")
  /\ app.status # "up"
  /\ task' = [task EXCEPT !.at = "repoll", !.id = Read.pending]
  /\ Restart
  /\ UNCHANGED <<boot, synced, check, version, snap, faults, history>>

StillUnhealthy ==
  /\ On("repoll")
  /\ app.status # "up"
  /\ Go("decide")
  /\ UNCHANGED <<file, machine, faults, history>>

\* A pending update is blamed once, if its snapshot's packages.txt is there: with
\* a wrong clock, pruning by age may have removed the newest snapshot.
MayRollBack(listed) == task.id # 0 /\ Read.tried # "1" /\ listed
Decide ==
  /\ On("decide")
  /\ \E listed \in BOOLEAN : Go(IF MayRollBack(listed) THEN "revert" ELSE "alert")
  /\ UNCHANGED <<file, machine, faults, history>>

\* Each package whose .deb was kept is installed back, or fails to be: those
\* that are may make the old version, or leave what was installed.
Revert ==
  /\ On("revert")
  /\ \E found \in BOOLEAN :
       /\ task' = [task EXCEPT !.at = "mark", !.reverted = found]
       /\ version' \in {version, snap[task.id]}
  /\ attempted' = attempted \cup {task.id}
  /\ UNCHANGED <<file, boot, synced, app, check, snap, faults, kept, before, confirmed, rolls>>

\* write_rollback_alert, then systemctl reboot if a package was reverted.
Alert ==
  /\ On("alert")
  /\ IF task.reverted
     THEN /\ Go("reboot")
          /\ rolls' = [rolls EXCEPT ![task.id] = @ + 1]
     ELSE End /\ UNCHANGED rolls
  /\ UNCHANGED <<file, machine, faults, kept, before, confirmed, attempted>>

\* state_set and state_unset: the keys they change, and what comes after.
\* The script exits when a state_set fails, and not when a state_unset does.
SetPoints == {"set_pending", "set_tried", "mark"}
EditPoints == SetPoints \cup {"unset_pending", "unset_tried"}

Edited_TriedFirst(at, d) ==
  CASE at = "set_tried"     -> [d EXCEPT !.pending = Len(snap)]
    [] at = "set_pending"   -> [d EXCEPT !.tried = "0"]
    [] at = "mark"          -> [d EXCEPT !.tried = "1"]
    [] at = "unset_pending" -> [d EXCEPT !.pending = 0]
    [] at = "unset_tried"   -> [d EXCEPT !.tried = "unset"]
Edited_TriedKept(at, d) ==
  CASE at = "set_pending"   -> [d EXCEPT !.pending = Len(snap)]
    [] at = "set_tried"     -> d
    [] at = "mark"          -> [d EXCEPT !.tried = "1"]
    [] at = "unset_pending" -> [d EXCEPT !.pending = 0]
    [] at = "unset_tried"   -> d
Edited(at, d) ==
  CASE at = "set_pending"   -> [d EXCEPT !.pending = Len(snap)]
    [] at = "set_tried"     -> [d EXCEPT !.tried = "0"]
    [] at = "mark"          -> [d EXCEPT !.tried = "1"]
    [] at = "unset_pending" -> [d EXCEPT !.pending = 0]
    [] at = "unset_tried"   -> [d EXCEPT !.tried = "unset"]

Following(at) ==
  CASE at = "set_pending"   -> "set_tried"
    [] at = "set_tried"     -> "upgrade"
    [] at = "mark"          -> "alert"
    [] at = "unset_pending" -> "unset_tried"

EditBegin ==
  /\ task.at \in EditPoints
  /\ Begin("root", Edited(task.at, Read))
  /\ UNCHANGED <<task, machine, faults, history>>

AfterEdit(ok) ==
  IF task.at = "unset_tried" \/ (~ok /\ task.at \in SetPoints) THEN End ELSE Go(Following(task.at))
Edit ==
  /\ \/ (OpenTmp("root") \/ WriteTmp("root")) /\ UNCHANGED task
     \/ ReplaceTmp("root") /\ AfterEdit(~Lost)
  /\ UNCHANGED <<machine, faults, history>>

----------------------------------------------------------------------------
(* Reboots and faults                                                      *)

\* What the machine is when it has started again.
NewBoot ==
  /\ boot < MaxBoots
  /\ boot' = boot + 1
  /\ synced' = FALSE
  /\ app' = Stopped
  /\ check' = "due"
  /\ task' = NoTask
  /\ Killed(Writers)
  /\ before' = kept
  /\ UNCHANGED <<snap, kept, confirmed, attempted, rolls>>

\* dpkg is at work, and stops anywhere if the machine does.
DpkgStops ==
  version' \in {version} \cup (IF On("upgrade") THEN {Len(snap)} ELSE {})
                         \cup (IF On("revert") THEN {snap[task.id]} ELSE {})

\* systemctl reboot: cron's weekly one and boot-check's, which hold the lock,
\* and the dashboard's button, which does not ask for it.
LockedReboot ==
  /\ Free \/ On("reboot")
  /\ NewBoot
  /\ UNCHANGED <<version, faults>>

WebReboot ==
  /\ app.status = "up"
  /\ NewBoot
  /\ DpkgStops
  /\ UNCHANGED faults

Fault == faults < MaxFaults /\ faults' = faults + 1

PowerLoss ==
  /\ Fault
  /\ NewBoot
  /\ DpkgStops

\* The application dies, and systemd restarts it.
AppCrash ==
  /\ Fault
  /\ app.status # "down"
  /\ Restart
  /\ UNCHANGED <<task, boot, synced, check, version, snap, history>>

\* The disk is full when a writer writes, or boot-check its alert.  The
\* heartbeat goes on with its next tick, the script exits unless the key was
\* to be removed.
AlertFails == On("alert") /\ End
DiskFull ==
  /\ Fault
  /\ \/ WriteFails("app") /\ UNCHANGED task
     \/ WriteFails("root") /\ AfterEdit(FALSE)
     \/ AlertFails /\ UNCHANGED file
  /\ UNCHANGED <<machine, history>>

\* systemd ends a boot-check that takes longer than TimeoutStartSec.
CheckKilled ==
  /\ Fault
  /\ task.op = "boot-check" /\ ~On("reboot")
  /\ DpkgStops
  /\ End
  /\ Killed({"root"})
  /\ UNCHANGED <<boot, synced, app, check, snap, history>>

----------------------------------------------------------------------------

Init ==
  /\ FileInit
  /\ boot = 1
  /\ synced = FALSE
  /\ app = Stopped
  /\ task = NoTask
  /\ check = "due"
  /\ version = 0
  /\ snap = << >>
  /\ faults = 0
  /\ kept = 0 /\ before = 0
  /\ confirmed = {} /\ attempted = {}
  /\ rolls = [u \in Updates |-> 0]

Application == Tick \/ Save \/ AppStart
Maintainer ==
  \/ HealthBegin \/ HealthEnd
  \/ OsUpdate \/ Upgrade \/ SyncVenv
  \/ BootCheck \/ Healthy \/ Unhealthy \/ StillUnhealthy \/ Decide \/ Revert \/ Alert
  \/ EditBegin \/ Edit
Next ==
  \/ Application \/ Sync \/ Maintainer
  \/ LockedReboot \/ WebReboot
  \/ PowerLoss \/ AppCrash \/ DiskFull \/ CheckKilled

Spec == Init /\ [][Next]_vars

\* The heartbeat loop never ends, and a write that has begun goes on.
Fairness == WF_vars(Tick) /\ WF_vars(Save) /\ WF_vars(EditBegin) /\ WF_vars(Edit)
FairSpec == Spec /\ Fairness

----------------------------------------------------------------------------
(* Properties                                                              *)

\* The downtime on the dashboard is that between the last saved heartbeat of
\* an earlier boot and this boot; a restart of the service neither counts as
\* downtime nor forgets it.  Wherever the service or the machine dies, so
\* long as two processes do not rewrite state.json at once.
DowntimeIsLastOutage ==
  orderly /\ app.done =>
    app.mem = IF before = 0 THEN NoOutage ELSE [from |-> before, to |-> boot]

\* A rollback reboots the machine at most once per update, wherever power is
\* lost or boot-check is killed, so long as two processes do not rewrite
\* state.json at once: boot-check writes that it has tried before it reboots,
\* and os-update names the new snapshot before it allows a new try.
RollbackRebootsOnce == orderly => \A u \in Updates : rolls[u] <= 1

\* An installed update that no boot-check has found healthy can be rolled
\* back: state.json names its snapshot, and allows a try unless there was one.
UpdateIsGuarded ==
  orderly /\ version # 0 /\ version = Len(snap) /\ version \notin confirmed =>
    /\ Read.pending = version
    /\ Read.tried = "1" => version \in attempted

\* Without overlap or failure the file is one document, of which the heartbeat
\* and maintenance change their own keys: neither brings back what the other
\* has changed, last_seen does not go back, and a boot's outage is not
\* recorded twice.
Shared == INSTANCE MonitorState WITH doc <- Read
StateIsShared == Shared!Spec

\* An application that runs with the clock set gets this boot into state.json,
\* whatever maintenance writes meanwhile and however many of its saves fail,
\* unless it stops, or a write of root's was ended before its rename: the
\* heartbeat may not open the file that is left.
Abandoned == tmp.owner = "root" /\ save["root"].at = "idle"
HeartbeatIsSaved ==
  \A b \in Boots :
    (boot = b /\ synced /\ app.status # "down")
      ~> (Read.seen = b \/ boot # b \/ app.status = "down" \/ Abandoned)

\* "reboots once to apply.  If a rollback was already attempted [...] it does
\* not reboot again - this is the loop-prevention guard" (docs/RUNBOOK.md).
LoopPrevention == \A u \in Updates : rolls[u] <= 1

=============================================================================
