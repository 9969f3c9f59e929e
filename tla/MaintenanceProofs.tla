------------------------- MODULE MaintenanceProofs -------------------------
(***************************************************************************)
(* Theorems about Maintenance, for any number of boots, updates and        *)
(* faults, with and without a time server.                                 *)
(***************************************************************************)
EXTENDS Maintenance, TLAPS

----------------------------------------------------------------------------
(* The inductive invariant                                                 *)

Writes(w) == save[w].at # "idle"

\* Whoever writes: which documents there can be, what a task is at, and what
\* the snapshots say.
Names(d) == d.pending <= Len(snap)
FileNamed ==
  /\ \A w \in Writers : Names(save[w].doc)
  /\ \A c \in {state, tmp.data} : c \in Doc => Names(c)
Named == FileNamed /\ task.id <= Len(snap)
Tasks ==
  /\ task.op = "none" <=> task.at = "none"
  /\ task.op = "health" <=> task.at = "restart"
  /\ task.op = "os-update" <=> task.at \in {"set_pending", "set_tried", "upgrade", "pip"}
  /\ task.op = "boot-check" => check = "ran"
  /\ task.at \in {"revert", "mark"} => task.id # 0
  /\ task.reverted => task.id # 0 /\ task.at \in {"mark", "alert", "reboot"}
  /\ Writes("root") => task.at \in EditPoints
Snapshots ==
  /\ version <= Len(snap)
  /\ \A n \in 1..Len(snap) : snap[n] < n
  /\ task.at \in {"set_pending", "set_tried", "upgrade"} =>
       version < Len(snap) /\ rolls[Len(snap)] = 0
Rolls ==
  /\ \A u \in Updates : rolls[u] <= boot /\ (u > Len(snap) => rolls[u] = 0)
  /\ check = "due" \/ (task.op = "boot-check" /\ task.at # "reboot") =>
       \A u \in Updates : rolls[u] < boot

\* One writer at a time: its text is what will be read.
FileOK ==
  /\ state \in Doc
  /\ ~(Writes("app") /\ Writes("root"))
  /\ \A w \in Writers :
       /\ save[w].at = "write" => save[w].fd = "tmp" /\ tmp.owner # "none" /\ tmp.data = Broken
       /\ save[w].at = "replace" => tmp.owner # "none" /\ tmp.data = save[w].doc
       /\ save[w].at = "open" => save[w].fd = "none"
Written ==
  /\ Writes("root") => save["root"].doc = Edited(task.at, Read)
  /\ Writes("app") => save["app"].doc.pending = Read.pending /\ save["app"].doc.tried = Read.tried

\* What state.json says of the rollback where a task stands.
Memory ==
  /\ \A u \in Updates : rolls[u] # 0 => rolls[u] = 1 /\ (Read.pending = u => Read.tried = "1")
  /\ task.at \in {"repoll", "decide", "revert", "mark", "alert", "reboot"} => task.id = Read.pending
  /\ task.at \in {"revert", "mark"} => rolls[task.id] = 0
  /\ task.at = "mark" => task.id \in attempted
  /\ task.at = "alert" /\ task.reverted => rolls[task.id] = 0 /\ Read.tried = "1"
  /\ task.at = "set_tried" => Read.pending = Len(snap)
  /\ task.at = "upgrade" => Read.pending = Len(snap) /\ Read.tried = "0"
  /\ task.at = "unset_pending" => Read.pending \in confirmed
  /\ task.at = "unset_tried" => Read.pending = 0

\* What it says of the heartbeat.
Target == IF before = 0 THEN NoOutage ELSE [from |-> before, to |-> boot]
Clocked ==
  /\ Read.seen = kept /\ Read.boot = kept
  /\ kept = boot => Read.down = Target
  /\ kept # boot => kept = before
  /\ before < boot
  /\ app.done => app.mem = Target /\ (kept = boot \/ Writes("app"))
  /\ Writes("app") => /\ app.done
                      /\ save["app"].doc.seen = boot /\ save["app"].doc.boot = boot
                      /\ save["app"].doc.down = Target

Orderly == FileOK /\ Written /\ Memory /\ Clocked
IInv == TypeOK /\ Named /\ Tasks /\ Snapshots /\ Rolls
        /\ (orderly => Orderly) /\ UpdateIsGuarded

----------------------------------------------------------------------------
(* What the documents are                                                  *)

\* What is not JSON is no document, so a reader always has one.
LEMMA BrokenIsNoDoc == Broken \notin Doc
<1> SUFFICES ASSUME Broken \in Doc PROVE FALSE
  OBVIOUS
<1>1. DOMAIN Broken = {"broken"}
  BY DEF Broken
<1>2. \A d \in Doc : "seen" \in DOMAIN d
  BY DEF Doc
<1> QED BY <1>1, <1>2

LEMMA EmptyIsDoc == NoDoc \in Doc
  BY BootsAssumption, UpdatesAssumption DEF NoDoc, Doc, NoOutage, Outages

LEMMA ReadIsDoc == FileTypeOK => Read \in Doc
  BY EmptyIsDoc DEF FileTypeOK, Contents, Read

\* state_set and state_unset change the key they name and keep the others.
LEMMA EditedDoc ==
  ASSUME NEW at \in EditPoints, NEW d \in Doc, Len(snap) \in 0..MaxUpdates
  PROVE  /\ Edited(at, d) \in Doc
         /\ Edited(at, d).seen = d.seen
         /\ Edited(at, d).boot = d.boot
         /\ Edited(at, d).down = d.down
         /\ Edited(at, d).pending = IF at = "set_pending" THEN Len(snap)
                                    ELSE IF at = "unset_pending" THEN 0 ELSE d.pending
         /\ Edited(at, d).tried = IF at = "set_tried" THEN "0" ELSE IF at = "mark" THEN "1"
                                  ELSE IF at = "unset_tried" THEN "unset" ELSE d.tried
<1>1. CASE at = "set_pending"
  BY <1>1 DEF Edited, Doc
<1>2. CASE at = "set_tried"
  BY <1>2 DEF Edited, Doc
<1>3. CASE at = "mark"
  BY <1>3 DEF Edited, Doc
<1>4. CASE at = "unset_pending"
  BY <1>4, UpdatesAssumption DEF Edited, Doc
<1>5. CASE at = "unset_tried"
  BY <1>5 DEF Edited, Doc
<1> QED BY <1>1, <1>2, <1>3, <1>4, <1>5 DEF EditPoints, SetPoints

----------------------------------------------------------------------------
(* What one step of a writer does to the files                             *)

FileInv == FileTypeOK /\ FileNamed /\ (orderly => FileOK)

LEMMA BeginFile ==
  ASSUME FileInv, Len(snap) \in Nat, UNCHANGED snap,
         NEW w \in Writers, NEW d \in Doc, Names(d), Begin(w, d)
  PROVE  /\ FileInv' /\ Read' = Read
         /\ orderly' => orderly /\ \A v \in Writers : ~Writes(v)
         /\ save'[w].doc = d /\ Writes(w)'
         /\ \A v \in Writers \ {w} : save'[v] = save[v]
<1> USE DEF Begin, Writers
<1>1. FileTypeOK'
  BY DEF FileInv, FileTypeOK
<1>2. FileNamed'
  BY DEF FileInv, FileTypeOK, FileNamed, Names
<1>3. orderly' => FileOK'
  BY DEF FileInv, FileTypeOK, FileOK, Writes
<1>4. Read' = Read
  BY DEF Read
<1>5. /\ orderly' => orderly /\ \A v \in Writers : ~Writes(v)
      /\ save'[w].doc = d /\ Writes(w)'
      /\ \A v \in Writers \ {w} : save'[v] = save[v]
  BY DEF FileInv, FileTypeOK, Writes
<1> QED BY <1>1, <1>2, <1>3, <1>4, <1>5 DEF FileInv

\* A writer whose write fails leaves no order to rely on.
LEMMA GiveUpFile ==
  ASSUME FileInv, Len(snap) \in Nat, UNCHANGED snap, NEW w \in Writers, GiveUp(w)
  PROVE  /\ FileInv' /\ ~orderly'
         /\ ~Writes(w)'
         /\ \A v \in Writers \ {w} : save'[v] = save[v]
<1> USE DEF GiveUp, Writers
<1>1. FileTypeOK'
  BY EmptyIsDoc DEF FileInv, FileTypeOK, Idle
<1>2. FileNamed'
  BY DEF FileInv, FileTypeOK, FileNamed, Names, Idle, NoDoc
<1>3. ~orderly' /\ ~Writes(w)' /\ \A v \in Writers \ {w} : save'[v] = save[v]
  BY DEF FileInv, FileTypeOK, Writes, Idle
<1> QED BY <1>1, <1>2, <1>3 DEF FileInv

LEMMA OpenFile ==
  ASSUME FileInv, Len(snap) \in Nat, UNCHANGED snap, NEW w \in Writers, OpenTmp(w)
  PROVE  /\ FileInv'
         /\ orderly' => /\ orderly /\ Read' = Read
                        /\ \A v \in Writers : save'[v].doc = save[v].doc
                        /\ \A v \in Writers : Writes(v)' <=> Writes(v)
         /\ \A v \in Writers \ {w} : Writes(v)' <=> Writes(v)
         /\ Writes(w)
<1>0. Writes(w)
  BY DEF OpenTmp, Writes
<1>1. CASE Denied(w)
  BY <1>0, <1>1, GiveUpFile DEF OpenTmp, Writes
<1>2. CASE ~Denied(w)
  <2>a. /\ save' = [save EXCEPT ![w].at = "write", ![w].fd = "tmp"]
        /\ tmp' = [owner |-> IF tmp.owner = "none" THEN w ELSE tmp.owner, data |-> Broken]
        /\ UNCHANGED <<state, orderly>> /\ save[w].at = "open"
    BY <1>2 DEF OpenTmp
  <2>1. FileTypeOK'
    BY <2>a DEF FileInv, FileTypeOK, Writers, Contents
  <2>2. FileNamed'
    BY <2>a, BrokenIsNoDoc DEF FileInv, FileTypeOK, FileNamed, Names, Writers
  <2>3. orderly' => FileOK'
    BY <2>a DEF FileInv, FileTypeOK, FileOK, Writes, Writers
  <2>4. Read' = Read
    BY <2>a DEF Read
  <2>5. /\ \A v \in Writers : save'[v].doc = save[v].doc
        /\ \A v \in Writers : Writes(v)' <=> Writes(v)
    BY <2>a DEF FileInv, FileTypeOK, Writes, Writers
  <2> QED BY <1>0, <2>a, <2>1, <2>2, <2>3, <2>4, <2>5 DEF FileInv
<1> QED BY <1>1, <1>2

LEMMA WriteFile ==
  ASSUME FileInv, Len(snap) \in Nat, UNCHANGED snap, NEW w \in Writers, WriteTmp(w)
  PROVE  /\ FileInv'
         /\ orderly' => orderly /\ Read' = Read
         /\ \A v \in Writers : save'[v].doc = save[v].doc
         /\ \A v \in Writers : Writes(v)' <=> Writes(v)
         /\ Writes(w)
<1>a. /\ save[w].at = "write"
      /\ save' = [save EXCEPT ![w].at = "replace", ![w].fd = "none"]
      /\ orderly' = orderly
  BY DEF WriteTmp
<1>b. /\ state' = state \/ state' \in {save[w].doc, Broken}
      /\ \/ tmp' = tmp
         \/ tmp' = [tmp EXCEPT !.data = save[w].doc]
         \/ tmp' = [tmp EXCEPT !.data = Broken]
  BY DEF WriteTmp, Over
<1>1. FileTypeOK'
  <2>1. save[w].doc \in Contents /\ Broken \in Contents
    BY DEF FileInv, FileTypeOK, Contents
  <2>2. state' \in Contents
    BY <1>b, <2>1 DEF FileInv, FileTypeOK
  <2>3. tmp' \in [owner: Writers \cup {"none"}, data: Contents]
    BY <1>b, <2>1 DEF FileInv, FileTypeOK
  <2> QED BY <1>a, <2>2, <2>3 DEF FileInv, FileTypeOK
<1>2. FileNamed'
  BY <1>a, <1>b, BrokenIsNoDoc DEF FileInv, FileTypeOK, FileNamed, Names
<1>3. orderly' => FileOK' /\ Read' = Read
  <2> SUFFICES ASSUME orderly PROVE FileOK' /\ state' = state
    BY <1>a DEF Read
  <2>1. FileOK /\ save[w].fd = "tmp" /\ tmp.data = Broken
    BY <1>a DEF FileInv, FileOK
  <2>2. tmp' = [tmp EXCEPT !.data = save[w].doc] /\ state' = state
    BY <2>1 DEF WriteTmp, Over
  <2> QED
    BY <1>a, <2>1, <2>2 DEF FileInv, FileTypeOK, FileOK, Writes, Writers
<1>4. /\ \A v \in Writers : save'[v].doc = save[v].doc
      /\ \A v \in Writers : Writes(v)' <=> Writes(v)
      /\ Writes(w)
  BY <1>a DEF FileInv, FileTypeOK, Writes
<1> QED BY <1>a, <1>1, <1>2, <1>3, <1>4 DEF FileInv

\* A rename that succeeds makes what the writer wrote the file, if the writes
\* are in order.
LEMMA ReplaceFile ==
  ASSUME FileInv, Len(snap) \in Nat, UNCHANGED snap, NEW w \in Writers, ReplaceTmp(w)
  PROVE  /\ FileInv'
         /\ ~Writes(w)' /\ Writes(w)
         /\ \A v \in Writers \ {w} : save'[v].doc = save[v].doc /\ (Writes(v)' <=> Writes(v))
         /\ orderly' => /\ orderly /\ ~Lost /\ Read' = save[w].doc
                        /\ \A v \in Writers : ~Writes(v)'
<1>0. Writes(w)
  BY DEF ReplaceTmp, Writes
<1>1. CASE Lost
  BY <1>0, <1>1, GiveUpFile DEF ReplaceTmp, Writes
<1>2. CASE ~Lost
  <2>a. /\ state' = tmp.data /\ tmp' = NoTmp
        /\ save' = [v \in Writers |-> IF v = w THEN Idle
                                      ELSE [save[v] EXCEPT !.fd = Moved(@)]]
        /\ orderly' = orderly /\ save[w].at = "replace"
    BY <1>2 DEF ReplaceTmp
  <2>1. FileTypeOK'
    <3>1. state' \in Contents /\ tmp' \in [owner: Writers \cup {"none"}, data: Contents]
      BY <2>a DEF FileInv, FileTypeOK, NoTmp, Contents
    <3>2. save' \in [Writers -> [at: {"idle", "open", "write", "replace"}, doc: Doc,
                                 fd: {"none", "tmp", "state", "gone"}]]
      BY <2>a, EmptyIsDoc DEF FileInv, FileTypeOK, Idle, Moved
    <3> QED BY <2>a, <3>1, <3>2 DEF FileInv, FileTypeOK
  <2>2. FileNamed'
    BY <2>a, BrokenIsNoDoc DEF FileInv, FileTypeOK, FileNamed, Names, NoTmp, Idle, NoDoc
  <2>3. /\ ~Writes(w)'
        /\ \A v \in Writers \ {w} : save'[v].doc = save[v].doc /\ (Writes(v)' <=> Writes(v))
    BY <2>a DEF FileInv, FileTypeOK, Writes, Idle
  <2>4. orderly => state' = save[w].doc /\ \A v \in Writers : ~Writes(v)'
    BY <1>0, <2>a, <2>3 DEF FileInv, FileOK, Writers
  <2>5. orderly' => Read' = save[w].doc
    BY <2>a, <2>4, BrokenIsNoDoc DEF FileInv, FileTypeOK, Read
  <2>6. orderly' => FileOK'
    <3> SUFFICES ASSUME orderly PROVE FileOK'
      BY <2>a
    <3>1. state' \in Doc
      BY <2>4 DEF FileInv, FileTypeOK
    <3>2. \A v \in Writers : save'[v].at = "idle"
      BY <2>4 DEF Writes
    <3> QED BY <3>1, <3>2 DEF FileOK, Writes, Writers
  <2> QED BY <1>0, <1>2, <2>a, <2>1, <2>2, <2>3, <2>4, <2>5, <2>6 DEF FileInv
<1> QED BY <1>1, <1>2

LEMMA KilledFile ==
  ASSUME FileInv, Len(snap) \in Nat, UNCHANGED snap, NEW W \in SUBSET Writers, Killed(W)
  PROVE  /\ FileInv' /\ Read' = Read /\ orderly' = orderly
         /\ \A v \in Writers : IF v \in W THEN ~Writes(v)' ELSE save'[v] = save[v]
<1> USE DEF Killed
<1>1. FileTypeOK'
  BY EmptyIsDoc DEF FileInv, FileTypeOK, Idle
<1>2. FileNamed'
  BY DEF FileInv, FileTypeOK, FileNamed, Names, Idle, NoDoc
<1>3. orderly' => FileOK'
  BY DEF FileInv, FileTypeOK, FileOK, Writes, Idle, Writers
<1>4. \A v \in Writers : IF v \in W THEN ~Writes(v)' ELSE save'[v] = save[v]
  BY DEF FileInv, FileTypeOK, Writes, Idle
<1> QED BY <1>1, <1>2, <1>3, <1>4 DEF FileInv, Read

\* The files stay when no writer moves; a new snapshot breaks no name.
LEMMA FileStays ==
  ASSUME FileInv, UNCHANGED file, Len(snap) \in 0..MaxUpdates, Len(snap') \in 0..MaxUpdates,
         Len(snap) <= Len(snap')
  PROVE  /\ FileInv' /\ Read' = Read /\ orderly' = orderly
         /\ \A v \in Writers : save'[v] = save[v] /\ (Writes(v)' <=> Writes(v))
<1> USE DEF file
<1>1. FileTypeOK'
  BY DEF FileInv, FileTypeOK
<1>2. FileNamed'
  BY UpdatesAssumption DEF FileInv, FileTypeOK, FileNamed, Names, Doc
<1>3. orderly' => FileOK'
  BY DEF FileInv, FileOK, Writes
<1>4. Read' = Read /\ \A v \in Writers : save'[v] = save[v] /\ (Writes(v)' <=> Writes(v))
  BY DEF Read, Writes
<1> QED BY <1>1, <1>2, <1>3, <1>4 DEF FileInv

TaskType == [op: {"none", "health", "os-update", "boot-check"}, at: Points,
             id: 0..MaxUpdates, reverted: BOOLEAN]

LEMMA TaskIsTyped ==
  ASSUME NEW op \in {"none", "health", "os-update", "boot-check"}, NEW at \in Points
  PROVE  [op |-> op, at |-> at, id |-> 0, reverted |-> FALSE] \in TaskType
  BY UpdatesAssumption DEF TaskType

LEMMA TaskGoes ==
  ASSUME task \in TaskType, NEW at \in Points
  PROVE  [task EXCEPT !.at = at] \in TaskType
  BY DEF TaskType

LEMMA StoppedIsTyped == Stopped \in [status: {"down", "up", "sick"}, done: BOOLEAN, mem: Outages]
  BY BootsAssumption DEF Stopped, NoOutage, Outages

LEMMA SnapshotIsVersion ==
  ASSUME IInv, NEW n \in 1..Len(snap)
  PROVE  snap[n] \in 0..MaxUpdates
<1>1. \A S : \A s \in Seq(S) : \A i \in 1..Len(s) : s[i] \in S
  OBVIOUS
<1> QED BY <1>1 DEF IInv, TypeOK

LEMMA Basics ==
  ASSUME IInv
  PROVE  /\ FileInv /\ task \in TaskType
         /\ snap \in Seq(0..MaxUpdates) /\ Len(snap) \in 0..MaxUpdates
         /\ Read \in Doc
         /\ orderly => Written /\ Memory /\ Clocked
  BY ReadIsDoc DEF IInv, TypeOK, TaskType, FileInv, Named, Orderly

----------------------------------------------------------------------------
(* The steps of the machine and of the tasks that leave the files alone    *)

LEMMA AppStartStep == IInv /\ AppStart => IInv'
<1> SUFFICES ASSUME IInv, AppStart PROVE IInv'
  OBVIOUS
<1> USE Basics DEF AppStart, history
<1>0. /\ FileInv' /\ Read' = Read /\ orderly' = orderly
      /\ \A v \in Writers : save'[v] = save[v] /\ (Writes(v)' <=> Writes(v))
  BY FileStays
<1>1. TypeOK'
  BY <1>0 DEF IInv, TypeOK, FileInv
<1>2. Named' /\ Tasks' /\ Snapshots' /\ Rolls'
  BY <1>0 DEF IInv, Named, FileInv, Tasks, Snapshots, Rolls, Writers
<1>3. orderly' => Written' /\ Memory' /\ Clocked'
  BY <1>0 DEF IInv, TypeOK, Written, Memory, Clocked, Target, Edited, Writers
<1>4. UpdateIsGuarded'
  BY <1>0 DEF IInv, UpdateIsGuarded
<1> QED BY <1>0, <1>1, <1>2, <1>3, <1>4 DEF IInv, Orderly, FileInv

LEMMA SyncStep == IInv /\ Sync => IInv'
<1> SUFFICES ASSUME IInv, Sync PROVE IInv'
  OBVIOUS
<1> USE Basics DEF Sync, history
<1>0. /\ FileInv' /\ Read' = Read /\ orderly' = orderly
      /\ \A v \in Writers : save'[v] = save[v] /\ (Writes(v)' <=> Writes(v))
  BY FileStays
<1>1. TypeOK'
  BY <1>0 DEF IInv, TypeOK, FileInv
<1>2. Named' /\ Tasks' /\ Snapshots' /\ Rolls'
  BY <1>0 DEF IInv, Named, FileInv, Tasks, Snapshots, Rolls, Writers
<1>3. orderly' => Written' /\ Memory' /\ Clocked'
  BY <1>0 DEF IInv, TypeOK, Written, Memory, Clocked, Target, Edited, Writers
<1>4. UpdateIsGuarded'
  BY <1>0 DEF IInv, UpdateIsGuarded
<1> QED BY <1>0, <1>1, <1>2, <1>3, <1>4 DEF IInv, Orderly, FileInv

LEMMA HealthBeginStep == IInv /\ HealthBegin => IInv'
<1> SUFFICES ASSUME IInv, HealthBegin PROVE IInv'
  OBVIOUS
<1> USE Basics DEF HealthBegin, Free, machine, history
<1>0. /\ FileInv' /\ Read' = Read /\ orderly' = orderly
      /\ \A v \in Writers : save'[v] = save[v] /\ (Writes(v)' <=> Writes(v))
  BY FileStays
<1>t. task' = [op |-> "health", at |-> "restart", id |-> 0, reverted |-> FALSE]
  BY DEF Task
<1>a. task' \in TaskType
  BY <1>t, TaskIsTyped, TaskGoes DEF Points
<1>1. TypeOK'
  BY <1>0, <1>a, <1>t, UpdatesAssumption DEF IInv, TypeOK, FileInv, TaskType
<1>2. Named' /\ Tasks' /\ Snapshots' /\ Rolls'
  BY <1>0, <1>t DEF IInv, Named, FileInv, Tasks, Snapshots, Rolls, Writers, EditPoints, SetPoints
<1>3. orderly' => Written' /\ Memory' /\ Clocked'
  BY <1>0, <1>t DEF IInv, TypeOK, Tasks, EditPoints, SetPoints, Written, Memory, Clocked, Target, Writers
<1>4. UpdateIsGuarded'
  BY <1>0 DEF IInv, UpdateIsGuarded
<1> QED BY <1>0, <1>1, <1>2, <1>3, <1>4 DEF IInv, Orderly, FileInv

LEMMA HealthEndStep == IInv /\ HealthEnd => IInv'
<1> SUFFICES ASSUME IInv, HealthEnd PROVE IInv'
  OBVIOUS
<1> USE Basics DEF HealthEnd, On, End, Restart, history, NoTask
<1>r. task.op = "health" /\ ~Writes("root")
  BY DEF IInv, Tasks, EditPoints, SetPoints
<1>0. /\ FileInv' /\ Read' = Read /\ orderly' = orderly
      /\ save'["root"] = save["root"]
      /\ (app' = app /\ save'["app"] = save["app"]) \/ (app' = Stopped /\ ~Writes("app")')
  BY FileStays, KilledFile DEF Writers
<1>a. task' \in TaskType
  BY UpdatesAssumption DEF IInv, TypeOK, TaskType, Points
<1>b. app' \in [status: {"down", "up", "sick"}, done: BOOLEAN, mem: Outages]
  BY <1>0, StoppedIsTyped DEF IInv, TypeOK
<1>1. TypeOK'
  BY <1>0, <1>a, <1>b DEF IInv, TypeOK, FileInv, TaskType
<1>2. Named' /\ Tasks' /\ Snapshots' /\ Rolls'
  BY <1>0, <1>r, UpdatesAssumption
  DEF IInv, Named, FileInv, Tasks, Snapshots, Rolls, Writers, EditPoints, SetPoints, Writes
<1>3. orderly' => Written' /\ Memory' /\ Clocked'
  BY <1>0, <1>r
  DEF IInv, TypeOK, Tasks, EditPoints, SetPoints, Written, Memory, Clocked, Target, Writers, Writes, Stopped
<1>4. UpdateIsGuarded'
  BY <1>0 DEF IInv, UpdateIsGuarded
<1> QED BY <1>0, <1>1, <1>2, <1>3, <1>4 DEF IInv, Orderly, FileInv

LEMMA OsUpdateStep == IInv /\ OsUpdate => IInv'
<1> SUFFICES ASSUME IInv, OsUpdate PROVE IInv'
  OBVIOUS
<1> USE Basics DEF OsUpdate, Free, history
<1>s. /\ Len(snap') = Len(snap) + 1 /\ snap' \in Seq(0..MaxUpdates)
      /\ \A n \in 1..Len(snap') : snap'[n] = IF n <= Len(snap) THEN snap[n] ELSE version
  BY DEF IInv, TypeOK
<1>0. /\ FileInv' /\ Read' = Read /\ orderly' = orderly
      /\ \A v \in Writers : save'[v] = save[v] /\ (Writes(v)' <=> Writes(v))
  BY <1>s, FileStays, UpdatesAssumption DEF IInv, TypeOK
<1>t. task' = [op |-> "os-update", at |-> "set_pending", id |-> 0, reverted |-> FALSE]
  BY DEF Task
<1>r. ~Writes("root") /\ Len(snap') \in Updates
  BY <1>s, UpdatesAssumption DEF IInv, Tasks, EditPoints, SetPoints, Updates
<1>a. task' \in TaskType
  BY <1>t, TaskIsTyped, TaskGoes DEF Points
<1>1. TypeOK'
  BY <1>0, <1>a, <1>t, <1>s, UpdatesAssumption DEF IInv, TypeOK, FileInv, TaskType
<1>2. Named' /\ Tasks'
  BY <1>0, <1>r, <1>s, <1>t, UpdatesAssumption
  DEF IInv, Named, FileInv, Tasks, Writers, EditPoints, SetPoints
<1>3. Snapshots' /\ Rolls'
  <2>1. Snapshots'
    BY <1>r, <1>s, <1>t DEF IInv, TypeOK, Snapshots, Rolls
  <2>2. Rolls'
    BY <1>s, <1>t, UpdatesAssumption DEF IInv, TypeOK, Rolls, Updates
  <2> QED BY <2>1, <2>2
<1>4. orderly' => Written' /\ Memory' /\ Clocked'
  BY <1>0, <1>t, <1>r
  DEF IInv, TypeOK, Tasks, EditPoints, SetPoints, Written, Memory, Clocked, Target, Writers
<1>5. UpdateIsGuarded'
  BY <1>0, <1>s DEF IInv, TypeOK, Snapshots, UpdateIsGuarded
<1> QED BY <1>0, <1>1, <1>2, <1>3, <1>4, <1>5 DEF IInv, Orderly, FileInv

LEMMA UpgradeStep == IInv /\ Upgrade => IInv'
<1> SUFFICES ASSUME IInv, Upgrade PROVE IInv'
  OBVIOUS
<1> USE Basics DEF Upgrade, On, Go, End, NoTask, history
<1>0. /\ FileInv' /\ Read' = Read /\ orderly' = orderly
      /\ \A v \in Writers : save'[v] = save[v] /\ (Writes(v)' <=> Writes(v))
  BY FileStays
<1>t. /\ \/ task' = [task EXCEPT !.at = "pip"]
         \/ task' = [op |-> "none", at |-> "none", id |-> 0, reverted |-> FALSE]
      /\ version' \in {version, Len(snap)}
  OBVIOUS
<1>r. ~Writes("root") /\ task.op = "os-update" /\ ~task.reverted /\ version < Len(snap)
  BY DEF IInv, Tasks, EditPoints, SetPoints, Snapshots
<1>a. task' \in TaskType
  BY <1>t, TaskIsTyped, TaskGoes DEF Points
<1>1. TypeOK'
  BY <1>0, <1>a, <1>t, UpdatesAssumption DEF IInv, TypeOK, FileInv, TaskType
<1>2. Named' /\ Tasks' /\ Snapshots' /\ Rolls'
  <2>1. Named' /\ Tasks'
    BY <1>0, <1>r, <1>t, UpdatesAssumption
    DEF IInv, TaskType, Named, FileInv, Tasks, Writers, EditPoints, SetPoints
  <2>2. Snapshots' /\ Rolls'
    BY <1>r, <1>t DEF IInv, TypeOK, TaskType, Snapshots, Rolls
  <2> QED BY <2>1, <2>2
<1>3. orderly' => Written' /\ Memory' /\ Clocked'
  BY <1>0, <1>t, <1>r DEF IInv, TypeOK, Tasks, Written, Memory, Clocked, Target, Writers
<1>4. UpdateIsGuarded'
  BY <1>0, <1>t DEF IInv, Memory, UpdateIsGuarded
<1> QED BY <1>0, <1>1, <1>2, <1>3, <1>4 DEF IInv, Orderly, FileInv

LEMMA SyncVenvStep == IInv /\ SyncVenv => IInv'
<1> SUFFICES ASSUME IInv, SyncVenv PROVE IInv'
  OBVIOUS
<1> USE Basics DEF SyncVenv, On, End, NoTask, machine, history
<1>0. /\ FileInv' /\ Read' = Read /\ orderly' = orderly
      /\ \A v \in Writers : save'[v] = save[v] /\ (Writes(v)' <=> Writes(v))
  BY FileStays
<1>r. ~Writes("root") /\ task.op = "os-update"
  BY DEF IInv, Tasks, EditPoints, SetPoints
<1>a. task' \in TaskType
  BY UpdatesAssumption DEF IInv, TypeOK, TaskType, Points
<1>1. TypeOK'
  BY <1>0, <1>a, UpdatesAssumption DEF IInv, TypeOK, FileInv, TaskType
<1>2. Named' /\ Tasks' /\ Snapshots' /\ Rolls'
  BY <1>0, <1>r, UpdatesAssumption DEF IInv, Named, FileInv, Tasks, Snapshots, Rolls, Writers
<1>3. orderly' => Written' /\ Memory' /\ Clocked'
  BY <1>0, <1>r DEF IInv, TypeOK, Written, Memory, Clocked, Target, Writers
<1>4. UpdateIsGuarded'
  BY <1>0 DEF IInv, UpdateIsGuarded
<1> QED BY <1>0, <1>1, <1>2, <1>3, <1>4 DEF IInv, Orderly, FileInv

LEMMA BootCheckStep == IInv /\ BootCheck => IInv'
<1> SUFFICES ASSUME IInv, BootCheck PROVE IInv'
  OBVIOUS
<1> USE Basics DEF BootCheck, Free, history
<1>0. /\ FileInv' /\ Read' = Read /\ orderly' = orderly
      /\ \A v \in Writers : save'[v] = save[v] /\ (Writes(v)' <=> Writes(v))
  BY FileStays
<1>t. \/ /\ task.op = "none" /\ check' = "ran"
         /\ task' = [op |-> "boot-check", at |-> "poll", id |-> 0, reverted |-> FALSE]
      \/ task.op # "none" /\ task' = task /\ check' = "skipped"
  BY DEF Task
<1>r. task.op = "none" => ~Writes("root")
  BY DEF IInv, Tasks, EditPoints, SetPoints
<1>a. task' \in TaskType
  BY <1>t, TaskIsTyped, TaskGoes DEF Points
<1>1. TypeOK'
  BY <1>0, <1>a, <1>t, UpdatesAssumption DEF IInv, TypeOK, FileInv, TaskType
<1>2. Named' /\ Tasks' /\ Snapshots' /\ Rolls'
  BY <1>0, <1>r, <1>t, UpdatesAssumption
  DEF IInv, Named, FileInv, Tasks, Snapshots, Rolls, Writers, EditPoints, SetPoints
<1>3. orderly' => Written' /\ Memory' /\ Clocked'
  <2> SUFFICES ASSUME orderly PROVE Written' /\ Memory' /\ Clocked'
    BY <1>0
  <2>1. Written'
    BY <1>0, <1>t, <1>r DEF Written, Edited, Writers
  <2>2. Memory'
    BY <1>0, <1>t DEF Memory
  <2>3. Clocked'
    BY <1>0 DEF Clocked, Target, Writers
  <2> QED BY <2>1, <2>2, <2>3
<1>4. UpdateIsGuarded'
  BY <1>0 DEF IInv, UpdateIsGuarded
<1> QED BY <1>0, <1>1, <1>2, <1>3, <1>4 DEF IInv, Orderly, FileInv

LEMMA HealthyStep == IInv /\ Healthy => IInv'
<1> SUFFICES ASSUME IInv, Healthy PROVE IInv'
  OBVIOUS
<1> USE Basics DEF Healthy, On, Go, End, NoTask, machine
<1> DEFINE p == IF task.at = "poll" THEN Read.pending ELSE task.id
<1>0. /\ FileInv' /\ Read' = Read /\ orderly' = orderly
      /\ \A v \in Writers : save'[v] = save[v] /\ (Writes(v)' <=> Writes(v))
  BY FileStays
<1>p. p \in 0..MaxUpdates
  BY DEF Doc, TaskType
<1>t. \/ /\ p = 0 /\ confirmed' = confirmed
         /\ task' = [op |-> "none", at |-> "none", id |-> 0, reverted |-> FALSE]
      \/ /\ p # 0 /\ task' = [task EXCEPT !.at = "unset_pending"]
         /\ confirmed' = confirmed \cup {p}
  OBVIOUS
<1>r. ~Writes("root") /\ task.op = "boot-check" /\ ~task.reverted
  BY DEF IInv, Tasks, TaskType, EditPoints, SetPoints
<1>a. task' \in TaskType
  BY <1>t, TaskIsTyped, TaskGoes DEF Points
<1>1. TypeOK'
  BY <1>0, <1>a, <1>p, <1>t DEF IInv, TypeOK, FileInv, TaskType, Updates
<1>2. Named' /\ Tasks' /\ Snapshots' /\ Rolls'
  BY <1>0, <1>r, <1>t, UpdatesAssumption
  DEF IInv, TaskType, Named, FileInv, Tasks, Snapshots, Rolls, Writers, EditPoints, SetPoints
<1>3. orderly' => Written' /\ Memory' /\ Clocked'
  <2> SUFFICES ASSUME orderly PROVE Written' /\ Memory' /\ Clocked'
    BY <1>0
  <2>1. Written'
    BY <1>0, <1>r DEF Written, Writers
  <2>2. Memory'
    BY <1>0, <1>t DEF Memory, TaskType
  <2>3. Clocked'
    BY <1>0 DEF Clocked, Target, Writers
  <2> QED BY <2>1, <2>2, <2>3
<1>4. UpdateIsGuarded'
  BY <1>0, <1>t DEF IInv, UpdateIsGuarded
<1> QED BY <1>0, <1>1, <1>2, <1>3, <1>4 DEF IInv, Orderly, FileInv

LEMMA UnhealthyStep == IInv /\ Unhealthy => IInv'
<1> SUFFICES ASSUME IInv, Unhealthy PROVE IInv'
  OBVIOUS
<1> USE Basics DEF Unhealthy, On, Restart
<1>0. /\ FileInv' /\ Read' = Read /\ orderly' = orderly
      /\ save'["root"] = save["root"] /\ ~Writes("app")' /\ app' = Stopped
  BY KilledFile DEF Writers
<1>r. ~Writes("root") /\ ~Writes("root")' /\ task.op = "boot-check" /\ ~task.reverted
  BY <1>0 DEF IInv, Tasks, TaskType, EditPoints, SetPoints, Writes
<1>a. task' \in TaskType
  BY DEF TaskType, Points, Doc
<1>1. TypeOK'
  BY <1>0, <1>a, StoppedIsTyped DEF IInv, TypeOK, FileInv, TaskType, history
<1>2. Named' /\ Tasks' /\ Snapshots' /\ Rolls'
  <2>1. task'.id <= Len(snap)
    BY BrokenIsNoDoc DEF FileInv, FileTypeOK, FileNamed, Names, Read, NoDoc, Contents, TaskType, Doc
  <2> QED
    BY <1>0, <1>r, <2>1
    DEF IInv, TaskType, Named, FileInv, Tasks, Snapshots, Rolls, Writers, EditPoints, SetPoints, history
<1>3. orderly' => Written' /\ Memory' /\ Clocked'
  <2> SUFFICES ASSUME orderly PROVE Written' /\ Memory' /\ Clocked'
    BY <1>0
  <2>1. Written'
    BY <1>0, <1>r DEF Written
  <2>2. Memory'
    BY <1>0 DEF Memory, TaskType, history
  <2>3. Clocked'
    BY <1>0 DEF Clocked, Target, Stopped, history
  <2> QED BY <2>1, <2>2, <2>3
<1>4. UpdateIsGuarded'
  BY <1>0 DEF IInv, UpdateIsGuarded, history
<1> QED BY <1>0, <1>1, <1>2, <1>3, <1>4 DEF IInv, Orderly, FileInv

LEMMA StillUnhealthyStep == IInv /\ StillUnhealthy => IInv'
<1> SUFFICES ASSUME IInv, StillUnhealthy PROVE IInv'
  OBVIOUS
<1> USE Basics DEF StillUnhealthy, On, Go, machine, history
<1>0. /\ FileInv' /\ Read' = Read /\ orderly' = orderly
      /\ \A v \in Writers : save'[v] = save[v] /\ (Writes(v)' <=> Writes(v))
  BY FileStays
<1>r. ~Writes("root") /\ task.op = "boot-check" /\ ~task.reverted
  BY DEF IInv, Tasks, TaskType, EditPoints, SetPoints
<1>a. task' \in TaskType
  BY TaskGoes DEF Points
<1>1. TypeOK'
  BY <1>0, <1>a DEF IInv, TypeOK, FileInv, TaskType
<1>2. Named' /\ Tasks' /\ Snapshots' /\ Rolls'
  BY <1>0, <1>r
  DEF IInv, TaskType, Named, FileInv, Tasks, Snapshots, Rolls, Writers, EditPoints, SetPoints
<1>3. orderly' => Written' /\ Memory' /\ Clocked'
  <2> SUFFICES ASSUME orderly PROVE Written' /\ Memory' /\ Clocked'
    BY <1>0
  <2>1. Written'
    BY <1>0, <1>r DEF Written, Writers
  <2>2. Memory'
    BY <1>0, <1>r DEF Memory, TaskType, Updates
  <2>3. Clocked'
    BY <1>0 DEF Clocked, Target, Writers
  <2> QED BY <2>1, <2>2, <2>3
<1>4. UpdateIsGuarded'
  BY <1>0 DEF IInv, UpdateIsGuarded
<1> QED BY <1>0, <1>1, <1>2, <1>3, <1>4 DEF IInv, Orderly, FileInv

LEMMA DecideStep == IInv /\ Decide => IInv'
<1> SUFFICES ASSUME IInv, Decide PROVE IInv'
  OBVIOUS
<1> USE Basics DEF Decide, On, Go, MayRollBack, machine, history
<1>0. /\ FileInv' /\ Read' = Read /\ orderly' = orderly
      /\ \A v \in Writers : save'[v] = save[v] /\ (Writes(v)' <=> Writes(v))
  BY FileStays
<1>r. ~Writes("root") /\ task.op = "boot-check" /\ ~task.reverted
  BY DEF IInv, Tasks, TaskType, EditPoints, SetPoints
<1>a. task' \in TaskType
  BY TaskGoes DEF Points
<1>1. TypeOK'
  BY <1>0, <1>a DEF IInv, TypeOK, FileInv, TaskType
<1>2. Named' /\ Tasks' /\ Snapshots' /\ Rolls'
  BY <1>0, <1>r
  DEF IInv, TaskType, Named, FileInv, Tasks, Snapshots, Rolls, Writers, EditPoints, SetPoints
<1>3. orderly' => Written' /\ Memory' /\ Clocked'
  <2> SUFFICES ASSUME orderly PROVE Written' /\ Memory' /\ Clocked'
    BY <1>0
  <2>1. Written'
    BY <1>0, <1>r DEF Written, Writers
  <2>2. Memory'
    BY <1>0, <1>r DEF Memory, TaskType, Updates
  <2>3. Clocked'
    BY <1>0 DEF Clocked, Target, Writers
  <2> QED BY <2>1, <2>2, <2>3
<1>4. UpdateIsGuarded'
  BY <1>0 DEF IInv, UpdateIsGuarded
<1> QED BY <1>0, <1>1, <1>2, <1>3, <1>4 DEF IInv, Orderly, FileInv

LEMMA RevertStep == IInv /\ Revert => IInv'
<1> SUFFICES ASSUME IInv, Revert PROVE IInv'
  OBVIOUS
<1> USE Basics DEF Revert, On
<1>0. /\ FileInv' /\ Read' = Read /\ orderly' = orderly
      /\ \A v \in Writers : save'[v] = save[v] /\ (Writes(v)' <=> Writes(v))
  BY FileStays
<1>r. /\ ~Writes("root") /\ task.op = "boot-check" /\ ~task.reverted
      /\ task.id \in 1..Len(snap) /\ task.id \in Updates
  BY DEF IInv, Tasks, Named, TaskType, EditPoints, SetPoints, Updates
<1>f. PICK found \in BOOLEAN :
        /\ task' = [task EXCEPT !.at = "mark", !.reverted = found]
        /\ version' \in {version, snap[task.id]}
  BY Zenon
<1>v. version' = version \/ version' < task.id
  BY <1>f, <1>r DEF IInv, Snapshots
<1>a. task' \in TaskType
  BY <1>f DEF TaskType, Points
<1>b. version' \in 0..MaxUpdates
  <2>1. snap[task.id] \in 0..MaxUpdates
    BY <1>r, SnapshotIsVersion
  <2> QED BY <1>f, <2>1 DEF IInv, TypeOK
<1>1. TypeOK'
  BY <1>0, <1>a, <1>b, <1>r DEF IInv, TypeOK, FileInv, TaskType
<1>2. Named' /\ Tasks' /\ Snapshots' /\ Rolls'
  <2>1. Named' /\ Tasks'
    BY <1>0, <1>r, <1>f
    DEF IInv, TaskType, Named, FileInv, Tasks, Writers, EditPoints, SetPoints
  <2>2. Snapshots' /\ Rolls'
    BY <1>r, <1>f, <1>v, <1>b DEF IInv, TypeOK, TaskType, Snapshots, Rolls
  <2> QED BY <2>1, <2>2
<1>3. orderly' => Written' /\ Memory' /\ Clocked'
  <2> SUFFICES ASSUME orderly PROVE Written' /\ Memory' /\ Clocked'
    BY <1>0
  <2>1. Written'
    BY <1>0, <1>r DEF Written, Writers
  <2>2. Memory'
    BY <1>0, <1>f DEF Memory, TaskType
  <2>3. Clocked'
    BY <1>0 DEF Clocked, Target, Writers
  <2> QED BY <2>1, <2>2, <2>3
<1>4. UpdateIsGuarded'
  BY <1>0, <1>v, <1>r, <1>b DEF IInv, TypeOK, UpdateIsGuarded
<1> QED BY <1>0, <1>1, <1>2, <1>3, <1>4 DEF IInv, Orderly, FileInv

LEMMA AlertStep == IInv /\ Alert => IInv'
<1> SUFFICES ASSUME IInv, Alert PROVE IInv'
  OBVIOUS
<1> USE Basics DEF Alert, On, Go, End, NoTask, machine
<1>0. /\ FileInv' /\ Read' = Read /\ orderly' = orderly
      /\ \A v \in Writers : save'[v] = save[v] /\ (Writes(v)' <=> Writes(v))
  BY FileStays
<1>r. ~Writes("root") /\ task.op = "boot-check" /\ (task.reverted => task.id \in Updates)
  BY DEF IInv, Tasks, TaskType, EditPoints, SetPoints, Updates
<1>t. \/ /\ ~task.reverted /\ rolls' = rolls
         /\ task' = [op |-> "none", at |-> "none", id |-> 0, reverted |-> FALSE]
      \/ /\ task.reverted /\ task' = [task EXCEPT !.at = "reboot"]
         /\ rolls' = [rolls EXCEPT ![task.id] = @ + 1]
  OBVIOUS
<1>a. task' \in TaskType
  BY <1>t, TaskIsTyped, TaskGoes DEF Points
<1>b. \A u \in Updates : /\ rolls[u] \in Nat /\ rolls[u] < boot /\ boot <= MaxBoots
                         /\ rolls'[u] = IF task.reverted /\ u = task.id THEN rolls[u] + 1 ELSE rolls[u]
  BY <1>r, <1>t, BootsAssumption DEF IInv, TypeOK, Rolls, Boots
<1>c. rolls' \in [Updates -> 0..MaxBoots]
  <2>1. DOMAIN rolls' = Updates /\ rolls' = [u \in Updates |-> rolls'[u]]
    BY <1>t DEF IInv, TypeOK
  <2>2. \A u \in Updates : rolls'[u] \in 0..MaxBoots
    BY <1>b, BootsAssumption DEF IInv, TypeOK, Boots
  <2> QED BY <2>1, <2>2
<1>1. TypeOK'
  BY <1>0, <1>a, <1>c DEF IInv, TypeOK, FileInv, TaskType
<1>2. Named' /\ Tasks' /\ Snapshots' /\ Rolls'
  <2>1. Named' /\ Tasks'
    BY <1>0, <1>r, <1>t, UpdatesAssumption
    DEF IInv, TaskType, Named, FileInv, Tasks, Writers, EditPoints, SetPoints
  <2>2. Snapshots'
    BY <1>t DEF IInv, TaskType, Snapshots
  <2>3. Rolls'
    BY <1>b, <1>t, <1>r DEF IInv, TypeOK, TaskType, Rolls, Tasks, Named, Boots, Updates
  <2> QED BY <2>1, <2>2, <2>3
<1>3. orderly' => Written' /\ Memory' /\ Clocked'
  <2> SUFFICES ASSUME orderly PROVE Written' /\ Memory' /\ Clocked'
    BY <1>0
  <2>1. Written'
    BY <1>0, <1>r DEF Written, Writers
  <2>2. Memory'
    BY <1>0, <1>t, <1>b, <1>r DEF Memory, TaskType
  <2>3. Clocked'
    BY <1>0 DEF Clocked, Target, Writers
  <2> QED BY <2>1, <2>2, <2>3
<1>4. UpdateIsGuarded'
  BY <1>0 DEF IInv, UpdateIsGuarded
<1> QED BY <1>0, <1>1, <1>2, <1>3, <1>4 DEF IInv, Orderly, FileInv

----------------------------------------------------------------------------
(* The steps of the heartbeat                                              *)

\* The comparison of a process's first tick finds the outage that ended with
\* this boot, in what is left of the last save.
LEMMA TickStep == IInv /\ Tick => IInv'
<1> SUFFICES ASSUME IInv, Tick PROVE IInv'
  OBVIOUS
<1> USE Basics
<1> DEFINE mem == IF app.done THEN app.mem ELSE Outage(Read)
           seen == [Read EXCEPT !.seen = boot]
           D == IF app.done THEN seen ELSE [seen EXCEPT !.boot = BootTime, !.down = mem]
<1>0. /\ synced /\ Begin("app", D) /\ app' = [app EXCEPT !.done = TRUE, !.mem = mem]
      /\ UNCHANGED <<task, boot, synced, check, version, snap, faults, history>>
  BY DEF Tick, MayTick, Beat
<1>b. BootTime = boot /\ boot \in 0..MaxBoots
  BY <1>0 DEF BootTime, IInv, TypeOK, Boots
<1>m. mem \in Outages
  BY <1>b, BootsAssumption DEF IInv, TypeOK, Outage, Doc, Outages, NoOutage
<1>d. /\ D \in Doc /\ D.pending = Read.pending /\ D.tried = Read.tried /\ D.seen = boot
      /\ IF app.done THEN D.boot = Read.boot /\ D.down = Read.down ELSE D.boot = boot /\ D.down = mem
  BY <1>b, <1>m DEF Doc
<1>n. Names(D)
  BY <1>d, BrokenIsNoDoc DEF FileInv, FileTypeOK, FileNamed, Names, Read, NoDoc, Contents
<1>f. /\ FileInv' /\ Read' = Read
      /\ orderly' => orderly /\ ~Writes("app") /\ ~Writes("root")
      /\ save'["app"].doc = D /\ Writes("app")' /\ save'["root"] = save["root"]
  <2> HIDE DEF D
  <2> QED BY <1>0, <1>d, <1>n, BeginFile DEF Writers
<1> HIDE DEF D, mem
<1>1. TypeOK'
  BY <1>0, <1>f, <1>m DEF IInv, TypeOK, FileInv, history
<1>2. Named' /\ Tasks' /\ Snapshots' /\ Rolls'
  BY <1>0, <1>f DEF IInv, Named, FileInv, Tasks, Snapshots, Rolls, Writers, Writes, history
<1>3. orderly' => Written' /\ Memory' /\ Clocked'
  <2> SUFFICES ASSUME orderly, ~Writes("app"), ~Writes("root") PROVE Written' /\ Memory' /\ Clocked'
    BY <1>f
  <2>1. Written'
    BY <1>f, <1>d DEF Written, Writes
  <2>2. Memory'
    BY <1>0, <1>f DEF Memory, history
  <2>3. mem = Target
    <3>1. CASE app.done
      BY <3>1 DEF Clocked, mem
    <3>2. CASE ~app.done
      BY <3>2, <1>b DEF Clocked, mem, Outage, Target, IInv, TypeOK
    <3> QED BY <3>1, <3>2
  <2>4. D.boot = boot /\ D.down = Target
    BY <1>d, <2>3 DEF Clocked
  <2>5. Target' = Target /\ app'.done = TRUE /\ app'.mem = mem
    BY <1>0 DEF Target, history, IInv, TypeOK
  <2>6. Clocked'
    BY <1>0, <1>f, <1>d, <2>3, <2>4, <2>5 DEF Clocked, history
  <2> QED BY <2>1, <2>2, <2>6
<1>4. UpdateIsGuarded'
  BY <1>0, <1>f DEF IInv, UpdateIsGuarded, history
<1> QED BY <1>f, <1>1, <1>2, <1>3, <1>4 DEF IInv, Orderly, FileInv

LEMMA SaveStep == IInv /\ Save => IInv'
<1> SUFFICES ASSUME IInv, Save PROVE IInv'
  OBVIOUS
<1> USE Basics
<1>0. UNCHANGED <<task, machine, faults, before, confirmed, attempted, rolls>>
  BY DEF Save
<1>k. kept' = IF save["app"].at = "replace" /\ ~Lost THEN boot ELSE kept
  BY DEF Save
<1>s. boot' = boot /\ snap' = snap /\ app' = app /\ version' = version
  BY <1>0 DEF machine
<1>f. /\ FileInv' /\ (Writes("root")' <=> Writes("root"))
      /\ Writes("app")
      /\ orderly' =>
           /\ orderly
           /\ \/ /\ save["app"].at # "replace" /\ Read' = Read
                 /\ \A v \in Writers : save'[v].doc = save[v].doc /\ (Writes(v)' <=> Writes(v))
              \/ /\ save["app"].at = "replace" /\ ~Lost /\ Read' = save["app"].doc
                 /\ \A v \in Writers : ~Writes(v)'
  <2>1. CASE OpenTmp("app")
    BY <2>1, <1>s, OpenFile DEF Writers, OpenTmp
  <2>2. CASE WriteTmp("app")
    BY <2>2, <1>s, WriteFile DEF Writers, WriteTmp
  <2>3. CASE ReplaceTmp("app")
    BY <2>3, <1>s, ReplaceFile DEF Writers, ReplaceTmp
  <2> QED BY <2>1, <2>2, <2>3 DEF Save
<1>1. TypeOK'
  BY <1>0, <1>f, <1>k, BootsAssumption DEF IInv, TypeOK, FileInv, machine, Boots
<1>2. Named' /\ Tasks' /\ Snapshots' /\ Rolls'
  BY <1>0, <1>f DEF IInv, Named, FileInv, Tasks, Snapshots, Rolls, machine
<1>3. orderly' => Written' /\ Memory' /\ Clocked' /\ UpdateIsGuarded'
  <2> SUFFICES ASSUME orderly, orderly' PROVE Written' /\ Memory' /\ Clocked' /\ UpdateIsGuarded'
    BY <1>f
  <2>a. ~Writes("root")
    BY <1>f DEF FileInv, FileOK
  <2>b. Target' = Target
    BY <1>0 DEF Target, machine
  <2>1. CASE save["app"].at # "replace"
    <3>1. /\ Read' = Read /\ kept' = kept /\ Writes("app")'
          /\ save'["app"].doc = save["app"].doc
      BY <1>f, <1>k, <2>1 DEF Writers
    <3>2. Written'
      BY <1>f, <2>a, <3>1 DEF Written
    <3>3. Memory'
      BY <1>0, <3>1 DEF Memory, machine
    <3>4. Clocked'
      BY <1>0, <1>s, <1>f, <2>b, <3>1 DEF Clocked
    <3>5. UpdateIsGuarded'
      BY <1>0, <1>s, <3>1 DEF IInv, UpdateIsGuarded
    <3> QED BY <3>2, <3>3, <3>4, <3>5
  <2>2. CASE save["app"].at = "replace"
    <3>1. /\ Read' = save["app"].doc /\ kept' = boot /\ ~Writes("app")'
      BY <1>f, <1>k, <2>2 DEF Writers
    <3>2. Read'.pending = Read.pending /\ Read'.tried = Read.tried
      BY <1>f, <3>1 DEF Written
    <3>3. Written'
      BY <1>f, <2>a, <3>1 DEF Written
    <3>4. Memory'
      BY <1>0, <3>2 DEF Memory, machine
    <3>5. Clocked'
      BY <1>0, <1>s, <1>f, <2>b, <3>1 DEF Clocked
    <3>6. UpdateIsGuarded'
      BY <1>0, <1>s, <3>2 DEF IInv, UpdateIsGuarded
    <3> QED BY <3>3, <3>4, <3>5, <3>6
  <2> QED BY <2>1, <2>2
<1>4. UpdateIsGuarded'
  BY <1>3 DEF UpdateIsGuarded
<1> QED BY <1>f, <1>1, <1>2, <1>3, <1>4 DEF IInv, Orderly, FileInv

----------------------------------------------------------------------------
(* The steps of state_set and state_unset                                  *)

LEMMA EditBeginStep == IInv /\ EditBegin => IInv'
<1> SUFFICES ASSUME IInv, EditBegin PROVE IInv'
  OBVIOUS
<1> USE Basics DEF machine, history
<1> DEFINE D == Edited(task.at, Read)
<1>0. /\ task.at \in EditPoints /\ Begin("root", D)
      /\ UNCHANGED <<task, machine, faults, history>>
  BY DEF EditBegin
<1>d. D \in Doc /\ Names(D)
  <2>1. Names(Read)
    BY BrokenIsNoDoc DEF FileInv, FileTypeOK, FileNamed, Names, Read, NoDoc, Contents
  <2> QED BY <1>0, <2>1, EditedDoc DEF Names
<1>f. /\ FileInv' /\ Read' = Read
      /\ orderly' => orderly /\ ~Writes("app") /\ ~Writes("root")
      /\ save'["root"].doc = D /\ save'["app"] = save["app"] /\ (Writes("app")' <=> Writes("app"))
  <2> HIDE DEF D
  <2> QED BY <1>0, <1>d, BeginFile DEF Writers, Writes
<1>1. TypeOK'
  BY <1>0, <1>f DEF IInv, TypeOK, FileInv
<1>2. Named' /\ Tasks' /\ Snapshots' /\ Rolls'
  BY <1>0, <1>f DEF IInv, Named, FileInv, Tasks, Snapshots, Rolls
<1>3. orderly' => Written' /\ Memory' /\ Clocked'
  <2> SUFFICES ASSUME orderly, ~Writes("app") PROVE Written' /\ Memory' /\ Clocked'
    BY <1>f
  <2>1. Written'
    <3>1. Edited(task.at, Read)' = D
      BY <1>0, <1>f DEF Edited
    <3> QED BY <1>f, <3>1 DEF Written
  <2>2. Memory'
    BY <1>0, <1>f DEF Memory
  <2>3. Clocked'
    BY <1>0, <1>f DEF Clocked, Target
  <2> QED BY <2>1, <2>2, <2>3
<1>4. UpdateIsGuarded'
  BY <1>0, <1>f DEF IInv, UpdateIsGuarded
<1> QED BY <1>f, <1>1, <1>2, <1>3, <1>4 DEF IInv, Orderly, FileInv

Steps == {<<"set_pending", "set_tried">>, <<"set_tried", "upgrade">>, <<"mark", "alert">>,
          <<"unset_pending", "unset_tried">>}

\* Where a task is after a key was written, or was not.
LEMMA EditEnds ==
  ASSUME IInv, task.at \in EditPoints, NEW ok \in BOOLEAN, AfterEdit(ok), ~Writes("root")',
         UNCHANGED <<machine, history>>
  PROVE  /\ task' \in TaskType /\ task'.id <= Len(snap)
         /\ Tasks' /\ Snapshots' /\ Rolls'
         /\ \/ task' = NoTask
            \/ \E to \in Points : /\ task' = [task EXCEPT !.at = to]
                                  /\ <<task.at, to>> \in Steps
         /\ ok /\ task.at # "unset_tried" => task' = [task EXCEPT !.at = Following(task.at)]
<1> USE Basics DEF machine, history
<1>1. ok /\ task.at # "unset_tried" => task' = [task EXCEPT !.at = Following(task.at)]
  BY DEF AfterEdit, Go
<1>2. task' = NoTask \/ (task.at # "unset_tried" /\ task' = [task EXCEPT !.at = Following(task.at)])
  BY DEF AfterEdit, Go, End
<1>3. task.at # "unset_tried" =>
        Following(task.at) \in Points /\ <<task.at, Following(task.at)>> \in Steps
  BY DEF Following, Points, Steps, EditPoints, SetPoints
<1>4. task' = NoTask \/ \E to \in Points : task' = [task EXCEPT !.at = to] /\ <<task.at, to>> \in Steps
  BY <1>2, <1>3
<1>5. task' \in TaskType /\ task'.id <= Len(snap)
  <2>1. CASE task' = NoTask
    BY <2>1, UpdatesAssumption DEF TaskType, NoTask, Points
  <2>2. CASE \E to \in Points : task' = [task EXCEPT !.at = to]
    BY <2>2, TaskGoes DEF IInv, Named, TaskType
  <2> QED BY <1>4, <2>1, <2>2
<1>6. Tasks'
  BY <1>4 DEF IInv, Tasks, TaskType, NoTask, Steps, EditPoints, SetPoints
<1>7. Snapshots'
  BY <1>4 DEF IInv, Snapshots, TaskType, NoTask, Steps
<1>8. Rolls'
  BY <1>4 DEF IInv, Rolls, TaskType, NoTask, Steps
<1> QED BY <1>1, <1>4, <1>5, <1>6, <1>7, <1>8

LEMMA EditStep == IInv /\ Edit => IInv'
<1> SUFFICES ASSUME IInv, Edit PROVE IInv'
  OBVIOUS
<1> USE Basics DEF machine, history
<1>0. UNCHANGED <<machine, faults, history>>
  BY DEF Edit
<1>1. CASE (OpenTmp("root") \/ WriteTmp("root")) /\ UNCHANGED task
  <2>f. /\ FileInv' /\ Writes("root")
        /\ orderly' => /\ orderly /\ Read' = Read
                       /\ \A v \in Writers : save'[v].doc = save[v].doc /\ (Writes(v)' <=> Writes(v))
    BY <1>0, <1>1, OpenFile, WriteFile DEF Writers
  <2>r. task.at \in EditPoints
    BY <2>f DEF IInv, Tasks
  <2>1. TypeOK'
    BY <1>0, <1>1, <2>f DEF IInv, TypeOK, FileInv
  <2>2. Named' /\ Tasks' /\ Snapshots' /\ Rolls'
    BY <1>0, <1>1, <2>f, <2>r DEF IInv, Named, FileInv, Tasks, Snapshots, Rolls
  <2>3. orderly' => Written' /\ Memory' /\ Clocked'
    <3> SUFFICES ASSUME orderly, orderly' PROVE Written' /\ Memory' /\ Clocked'
      BY <2>f
    <3>1. Edited(task.at, Read)' = Edited(task.at, Read)
      BY <1>0, <1>1, <2>f DEF Edited
    <3>2. Written'
      BY <2>f, <3>1 DEF Written, Writers
    <3>3. Memory'
      BY <1>0, <1>1, <2>f DEF Memory
    <3>4. Clocked'
      BY <1>0, <2>f DEF Clocked, Target, Writers
    <3> QED BY <3>2, <3>3, <3>4
  <2>4. UpdateIsGuarded'
    BY <1>0, <2>f DEF IInv, UpdateIsGuarded
  <2> QED BY <2>f, <2>1, <2>2, <2>3, <2>4 DEF IInv, Orderly, FileInv
<1>2. CASE ReplaceTmp("root") /\ AfterEdit(~Lost)
  <2>f. /\ FileInv' /\ Writes("root") /\ ~Writes("root")'
        /\ orderly' => /\ orderly /\ ~Lost /\ Read' = save["root"].doc
                       /\ ~Writes("app")'
    BY <1>0, <1>2, ReplaceFile DEF Writers
  <2>r. task.at \in EditPoints
    BY <2>f DEF IInv, Tasks
  <2>t. /\ task' \in TaskType /\ task'.id <= Len(snap)
        /\ Tasks' /\ Snapshots' /\ Rolls'
        /\ task' = NoTask \/ \E to \in Points : task' = [task EXCEPT !.at = to]
        /\ ~Lost /\ task.at # "unset_tried" => task' = [task EXCEPT !.at = Following(task.at)]
    BY <1>0, <1>2, <2>f, <2>r, EditEnds DEF Lost
  <2>1. TypeOK'
    BY <1>0, <2>f, <2>t DEF IInv, TypeOK, FileInv, TaskType
  <2>2. Named'
    BY <1>0, <2>f, <2>t DEF Named, FileInv
  <2>3. orderly' => Written' /\ Memory' /\ Clocked' /\ UpdateIsGuarded'
    <3> SUFFICES ASSUME orderly, orderly'
                 PROVE  Written' /\ Memory' /\ Clocked' /\ UpdateIsGuarded'
      BY <2>f
    <3>d. Read' = Edited(task.at, Read) /\ ~Writes("app") /\ ~Writes("app")'
      BY <2>f DEF Written, FileInv, FileOK
    <3>e. /\ Read'.seen = Read.seen /\ Read'.boot = Read.boot /\ Read'.down = Read.down
          /\ Read'.pending = IF task.at = "set_pending" THEN Len(snap)
                             ELSE IF task.at = "unset_pending" THEN 0 ELSE Read.pending
          /\ Read'.tried = IF task.at = "set_tried" THEN "0" ELSE IF task.at = "mark" THEN "1"
                           ELSE IF task.at = "unset_tried" THEN "unset" ELSE Read.tried
      BY <2>r, <3>d, EditedDoc
    <3>t. IF task.at = "unset_tried" THEN task' = NoTask
          ELSE task' = [task EXCEPT !.at = Following(task.at)]
      BY <1>2, <2>f, <2>t DEF AfterEdit, End
    <3>1. Written'
      BY <2>f, <3>d DEF Written
    <3>2. Clocked'
      BY <1>0, <3>d, <3>e DEF Clocked, Target
    <3>3. Memory' /\ UpdateIsGuarded'
      <4>1. CASE task.at = "set_pending"
        BY <1>0, <3>e, <3>t, <4>1 DEF IInv, Following, Memory, Snapshots, UpdateIsGuarded, TaskType
      <4>2. CASE task.at = "set_tried"
        BY <1>0, <3>e, <3>t, <4>2 DEF IInv, Following, Memory, Snapshots, UpdateIsGuarded, TaskType
      <4>3. CASE task.at = "mark"
        BY <1>0, <3>e, <3>t, <4>3 DEF IInv, Following, Memory, UpdateIsGuarded, TaskType
      <4>4. CASE task.at = "unset_pending"
        BY <1>0, <3>e, <3>t, <4>4 DEF IInv, Following, Memory, UpdateIsGuarded, TaskType, Updates
      <4>5. CASE task.at = "unset_tried"
        BY <1>0, <3>e, <3>t, <4>5 DEF IInv, NoTask, Memory, UpdateIsGuarded, Updates
      <4> QED BY <2>r, <4>1, <4>2, <4>3, <4>4, <4>5 DEF EditPoints, SetPoints
    <3> QED BY <3>1, <3>2, <3>3
  <2>4. UpdateIsGuarded'
    BY <2>3 DEF UpdateIsGuarded
  <2> QED BY <2>f, <2>t, <2>1, <2>2, <2>3, <2>4 DEF IInv, Orderly, FileInv
<1> QED BY <1>1, <1>2 DEF Edit

----------------------------------------------------------------------------
(* The steps that reboot the machine, and the faults                       *)

\* dpkg leaves what was installed, or what it was installing.
LEMMA DpkgVersions ==
  ASSUME IInv, DpkgStops
  PROVE  /\ version' \in 0..MaxUpdates
         /\ \/ version' = version
            \/ task.at = "upgrade" /\ version' = Len(snap)
            \/ task.at = "revert" /\ version' < task.id /\ task.id <= Len(snap) /\ task.id \in Updates
<1> USE Basics
<1>1. CASE version' = version
  BY <1>1 DEF IInv, TypeOK
<1>2. CASE task.at = "upgrade" /\ version' = Len(snap)
  BY <1>2
<1>3. CASE task.at = "revert" /\ version' = snap[task.id]
  <2>1. task.id \in 1..Len(snap) /\ task.id \in Updates
    BY <1>3 DEF IInv, Tasks, Named, TaskType, Updates
  <2> QED BY <1>3, <2>1, SnapshotIsVersion DEF IInv, Snapshots
<1> QED BY <1>1, <1>2, <1>3 DEF DpkgStops, On

LEMMA NewBootStep ==
  ASSUME IInv, NewBoot, faults' \in 0..MaxFaults,
         \/ UNCHANGED version /\ (task.at = "none" \/ task.at = "reboot")
         \/ DpkgStops
  PROVE  IInv'
<1> USE Basics
<1>v. /\ version' \in 0..MaxUpdates
      /\ \/ version' = version
         \/ task.at = "upgrade" /\ version' = Len(snap)
         \/ task.at = "revert" /\ version' < task.id /\ task.id <= Len(snap) /\ task.id \in Updates
  BY DpkgVersions DEF IInv, TypeOK
<1>0. /\ boot < MaxBoots /\ boot' = boot + 1 /\ synced' = FALSE /\ app' = Stopped
      /\ check' = "due" /\ task' = NoTask /\ before' = kept
      /\ UNCHANGED <<snap, kept, confirmed, attempted, rolls>>
  BY DEF NewBoot
<1>f. /\ FileInv' /\ Read' = Read /\ orderly' = orderly
      /\ ~Writes("app")' /\ ~Writes("root")'
  BY KilledFile DEF NewBoot, Writers
<1>1. TypeOK'
  <2>1. task' \in TaskType
    BY <1>0, TaskIsTyped DEF NoTask, Points
  <2>2. boot' \in Boots
    BY <1>0, BootsAssumption DEF IInv, TypeOK, Boots
  <2> QED BY <1>v, <1>0, <1>f, <2>1, <2>2, StoppedIsTyped DEF IInv, TypeOK, FileInv, TaskType
<1>2. Named' /\ Tasks'
  BY <1>0, <1>f DEF Named, FileInv, Tasks, NoTask
<1>3. Snapshots'
  BY <1>v, <1>0 DEF IInv, TypeOK, TaskType, Snapshots, NoTask
<1>4. Rolls'
  BY <1>0 DEF IInv, TypeOK, Rolls, Boots
<1>5. orderly' => Written' /\ Memory' /\ Clocked'
  <2> SUFFICES ASSUME orderly PROVE Written' /\ Memory' /\ Clocked'
    BY <1>f
  <2>1. Written'
    BY <1>f DEF Written
  <2>2. Memory'
    BY <1>0, <1>f DEF Memory, NoTask
  <2>3. Clocked'
    BY <1>0, <1>f DEF Clocked, Stopped, Target, IInv, TypeOK, Boots
  <2> QED BY <2>1, <2>2, <2>3
<1>6. UpdateIsGuarded'
  BY <1>v, <1>0, <1>f DEF IInv, TypeOK, UpdateIsGuarded, Memory, Snapshots
<1> QED BY <1>f, <1>1, <1>2, <1>3, <1>4, <1>5, <1>6 DEF IInv, Orderly, FileInv

LEMMA RebootStep == IInv /\ (LockedReboot \/ WebReboot \/ PowerLoss) => IInv'
<1> SUFFICES ASSUME IInv, LockedReboot \/ WebReboot \/ PowerLoss PROVE IInv'
  OBVIOUS
<1>1. faults' \in 0..MaxFaults
  BY FaultsAssumption DEF LockedReboot, WebReboot, PowerLoss, Fault, IInv, TypeOK
<1>2. NewBoot
  BY DEF LockedReboot, WebReboot, PowerLoss
<1>3. \/ UNCHANGED version /\ (task.at = "none" \/ task.at = "reboot")
      \/ DpkgStops
  BY DEF LockedReboot, WebReboot, PowerLoss, Free, On, IInv, Tasks
<1> QED BY <1>1, <1>2, <1>3, NewBootStep

LEMMA AppCrashStep == IInv /\ AppCrash => IInv'
<1> SUFFICES ASSUME IInv, AppCrash PROVE IInv'
  OBVIOUS
<1> USE Basics DEF AppCrash, Restart, Fault, history
<1>0. /\ FileInv' /\ Read' = Read /\ orderly' = orderly
      /\ save'["root"] = save["root"] /\ ~Writes("app")' /\ app' = Stopped
  BY KilledFile DEF Writers
<1>1. TypeOK'
  BY <1>0, StoppedIsTyped, FaultsAssumption DEF IInv, TypeOK, FileInv
<1>2. Named' /\ Tasks' /\ Snapshots' /\ Rolls'
  BY <1>0 DEF IInv, Named, FileInv, Tasks, Snapshots, Rolls, Writes
<1>3. orderly' => Written' /\ Memory' /\ Clocked'
  <2> SUFFICES ASSUME orderly PROVE Written' /\ Memory' /\ Clocked'
    BY <1>0
  <2>1. Edited(task.at, Read)' = Edited(task.at, Read)
    BY <1>0 DEF Edited
  <2>2. Written'
    BY <1>0, <2>1 DEF Written, Writes
  <2>3. Memory'
    BY <1>0 DEF Memory
  <2>4. Clocked'
    BY <1>0 DEF Clocked, Target, Stopped
  <2> QED BY <2>2, <2>3, <2>4
<1>4. UpdateIsGuarded'
  BY <1>0 DEF IInv, UpdateIsGuarded
<1> QED BY <1>0, <1>1, <1>2, <1>3, <1>4 DEF IInv, Orderly, FileInv

LEMMA DiskFullStep == IInv /\ DiskFull => IInv'
<1> SUFFICES ASSUME IInv, DiskFull PROVE IInv'
  OBVIOUS
<1> USE Basics
<1>0. faults' \in 0..MaxFaults /\ UNCHANGED <<machine, history>>
  BY FaultsAssumption DEF DiskFull, Fault, IInv, TypeOK
<1>s. snap' = snap
  BY <1>0 DEF machine
<1>1. CASE WriteFails("app") /\ UNCHANGED task
  <2>f. FileInv' /\ ~orderly' /\ (Writes("root")' <=> Writes("root"))
    BY <1>1, <1>s, GiveUpFile DEF Writers, WriteFails, Writes
  <2>1. TypeOK'
    BY <1>0, <1>1, <2>f DEF IInv, TypeOK, FileInv, machine, history
  <2>2. Named' /\ Tasks' /\ Snapshots' /\ Rolls'
    BY <1>0, <1>1, <2>f DEF IInv, Named, FileInv, Tasks, Snapshots, Rolls, machine, history
  <2> QED BY <2>f, <2>1, <2>2 DEF IInv, FileInv, UpdateIsGuarded
<1>2. CASE WriteFails("root") /\ AfterEdit(FALSE)
  <2>f. FileInv' /\ ~orderly' /\ ~Writes("root")' /\ Writes("root")
    BY <1>2, <1>s, GiveUpFile DEF Writers, WriteFails, Writes
  <2>t. task' \in TaskType /\ task'.id <= Len(snap) /\ Tasks' /\ Snapshots' /\ Rolls'
    <3>1. task.at \in EditPoints
      BY <2>f DEF IInv, Tasks
    <3> QED BY <1>0, <1>2, <2>f, <3>1, EditEnds
  <2>1. TypeOK'
    BY <1>0, <2>f, <2>t DEF IInv, TypeOK, FileInv, TaskType, machine, history
  <2>2. Named'
    BY <1>s, <2>f, <2>t DEF Named, FileInv
  <2> QED BY <2>f, <2>t, <2>1, <2>2 DEF IInv, FileInv, UpdateIsGuarded
<1>3. CASE AlertFails /\ UNCHANGED file
  <2>f. /\ FileInv' /\ Read' = Read /\ orderly' = orderly
        /\ \A v \in Writers : save'[v] = save[v] /\ (Writes(v)' <=> Writes(v))
    BY <1>3, <1>s, FileStays
  <2>t. task' = [op |-> "none", at |-> "none", id |-> 0, reverted |-> FALSE] /\ task.at = "alert"
    BY <1>3 DEF AlertFails, On, End, NoTask
  <2>r. ~Writes("root")
    BY <2>t DEF IInv, Tasks, EditPoints, SetPoints
  <2>a. task' \in TaskType
    BY <2>t, TaskIsTyped DEF Points
  <2>1. TypeOK'
    BY <1>0, <2>f, <2>a DEF IInv, TypeOK, FileInv, TaskType, machine, history
  <2>2. Named' /\ Tasks' /\ Snapshots' /\ Rolls'
    BY <1>0, <2>f, <2>t, <2>r, UpdatesAssumption
    DEF IInv, Named, FileInv, Tasks, Snapshots, Rolls, Writers, machine, history
  <2>3. orderly' => Written' /\ Memory' /\ Clocked'
    BY <1>0, <2>f, <2>t, <2>r DEF Written, Memory, Clocked, Target, Writers, machine, history
  <2>4. UpdateIsGuarded'
    BY <1>0, <2>f DEF IInv, UpdateIsGuarded, machine, history
  <2> QED BY <2>f, <2>1, <2>2, <2>3, <2>4 DEF IInv, Orderly, FileInv
<1> QED BY <1>1, <1>2, <1>3 DEF DiskFull

LEMMA CheckKilledStep == IInv /\ CheckKilled => IInv'
<1> SUFFICES ASSUME IInv, CheckKilled PROVE IInv'
  OBVIOUS
<1> USE Basics
<1>v. /\ version' \in 0..MaxUpdates
      /\ \/ version' = version
         \/ task.at = "upgrade" /\ version' = Len(snap)
         \/ task.at = "revert" /\ version' < task.id /\ task.id <= Len(snap) /\ task.id \in Updates
  BY DpkgVersions DEF CheckKilled
<1>0. /\ faults' \in 0..MaxFaults /\ task.op = "boot-check"
      /\ task.at # "upgrade"
      /\ UNCHANGED <<boot, synced, app, check, snap, history>>
      /\ task' = [op |-> "none", at |-> "none", id |-> 0, reverted |-> FALSE]
  BY FaultsAssumption DEF CheckKilled, Fault, IInv, TypeOK, End, NoTask, Tasks
<1>f. /\ FileInv' /\ Read' = Read /\ orderly' = orderly
      /\ ~Writes("root")' /\ save'["app"] = save["app"] /\ (Writes("app")' <=> Writes("app"))
  BY KilledFile DEF CheckKilled, Writers, Writes
<1>a. task' \in TaskType
  BY <1>0, TaskIsTyped DEF Points
<1>1. TypeOK'
  BY <1>v, <1>0, <1>f, <1>a DEF IInv, TypeOK, FileInv, TaskType, history
<1>2. Named' /\ Tasks'
  BY <1>0, <1>f, UpdatesAssumption DEF IInv, Named, FileInv, Tasks, Snapshots, Rolls, history
<1>3. Snapshots' /\ Rolls'
  BY <1>v, <1>0 DEF IInv, TypeOK, TaskType, Snapshots, Rolls, history
<1>4. orderly' => Written' /\ Memory' /\ Clocked'
  <2> SUFFICES ASSUME orderly PROVE Written' /\ Memory' /\ Clocked'
    BY <1>f
  <2>1. Written'
    BY <1>f DEF Written
  <2>2. Memory'
    BY <1>0, <1>f DEF Memory, history
  <2>3. Clocked'
    BY <1>0, <1>f DEF Clocked, Target, history
  <2> QED BY <2>1, <2>2, <2>3
<1>5. UpdateIsGuarded'
  BY <1>v, <1>0, <1>f DEF IInv, TypeOK, UpdateIsGuarded, history
<1> QED BY <1>f, <1>1, <1>2, <1>3, <1>4, <1>5 DEF IInv, Orderly, FileInv

LEMMA Stutter == IInv /\ UNCHANGED vars => IInv'
<1> SUFFICES ASSUME IInv, UNCHANGED vars PROVE IInv'
  OBVIOUS
<1> USE Basics DEF vars, machine, history
<1>0. /\ FileInv' /\ Read' = Read /\ orderly' = orderly
      /\ \A v \in Writers : save'[v] = save[v] /\ (Writes(v)' <=> Writes(v))
  BY FileStays
<1>1. TypeOK'
  BY <1>0 DEF IInv, TypeOK, FileInv
<1>2. Named' /\ Tasks' /\ Snapshots' /\ Rolls'
  BY <1>0 DEF IInv, Named, FileInv, Tasks, Snapshots, Rolls, Writers
<1>3. orderly' => Written' /\ Memory' /\ Clocked'
  BY <1>0 DEF Written, Memory, Clocked, Target, Edited, Writers
<1>4. UpdateIsGuarded'
  BY <1>0 DEF IInv, UpdateIsGuarded
<1> QED BY <1>0, <1>1, <1>2, <1>3, <1>4 DEF IInv, Orderly, FileInv

----------------------------------------------------------------------------
(* The invariant, and what follows from it                                 *)

LEMMA InitInv == Init => IInv
<1> SUFFICES ASSUME Init PROVE IInv
  OBVIOUS
<1> USE DEF Init, FileInit
<1>0. Read = NoDoc /\ ~Writes("app") /\ ~Writes("root")
  BY EmptyIsDoc, BrokenIsNoDoc DEF Read, Writes, Writers, Idle
<1>1. FileTypeOK
  BY EmptyIsDoc DEF FileTypeOK, Contents, NoTmp, Idle
<1>2. TypeOK
  <2>1. task \in TaskType
    BY TaskIsTyped DEF NoTask, Points
  <2>2. rolls \in [Updates -> 0..MaxBoots]
    BY BootsAssumption
  <2>3. snap \in Seq(0..MaxUpdates) /\ Len(snap) <= MaxUpdates
    BY UpdatesAssumption
  <2>4. boot \in Boots /\ version \in 0..MaxUpdates /\ faults \in 0..MaxFaults
    BY BootsAssumption, UpdatesAssumption, FaultsAssumption DEF Boots
  <2>5. kept \in 0..MaxBoots /\ before \in 0..MaxBoots
    BY BootsAssumption
  <2>6. app \in [status: {"down", "up", "sick"}, done: BOOLEAN, mem: Outages]
    BY StoppedIsTyped
  <2>7. synced \in BOOLEAN /\ check \in {"due", "ran", "skipped"}
    OBVIOUS
  <2>8. confirmed \in SUBSET Updates /\ attempted \in SUBSET Updates
    OBVIOUS
  <2> HIDE DEF Init
  <2> QED
    BY <1>1, <2>1, <2>2, <2>3, <2>4, <2>5, <2>6, <2>7, <2>8 DEF TypeOK, TaskType
<1>3. Named
  BY BrokenIsNoDoc DEF Named, FileNamed, Names, NoTmp, Idle, NoDoc, NoTask
<1>4. Tasks /\ Snapshots /\ Rolls
  BY <1>0 DEF Tasks, Snapshots, Rolls, NoTask
<1>5. FileOK
  BY <1>0, EmptyIsDoc DEF FileOK, Idle
<1>6. Written /\ Memory /\ Clocked
  BY <1>0 DEF Written, Memory, Clocked, Stopped, NoTask, NoDoc
<1>7. UpdateIsGuarded
  BY DEF UpdateIsGuarded
<1> QED BY <1>2, <1>3, <1>4, <1>5, <1>6, <1>7 DEF IInv, Orderly

LEMMA StepInv == IInv /\ [Next]_vars => IInv'
<1> SUFFICES ASSUME IInv, [Next]_vars PROVE IInv'
  OBVIOUS
<1>1. CASE Application
  BY <1>1, TickStep, SaveStep, AppStartStep DEF Application
<1>2. CASE Sync
  BY <1>2, SyncStep
<1>3. CASE Maintainer
  BY <1>3, HealthBeginStep, HealthEndStep, OsUpdateStep, UpgradeStep, SyncVenvStep,
     BootCheckStep, HealthyStep, UnhealthyStep, StillUnhealthyStep, DecideStep, RevertStep,
     AlertStep, EditBeginStep, EditStep
  DEF Maintainer
<1>4. CASE LockedReboot \/ WebReboot \/ PowerLoss
  BY <1>4, RebootStep
<1>5. CASE AppCrash \/ DiskFull \/ CheckKilled
  BY <1>5, AppCrashStep, DiskFullStep, CheckKilledStep
<1>6. CASE UNCHANGED vars
  BY <1>6, Stutter
<1> QED BY <1>1, <1>2, <1>3, <1>4, <1>5, <1>6 DEF Next

LEMMA Invariance == Spec => []IInv
  BY InitInv, StepInv, PTL DEF Spec

\* Whatever interleaving of the two writers, and whatever they lose, the
\* variables keep their types: state.json is a document or no JSON at all, and
\* every number stays below its bound.
THEOREM TypeCorrect == Spec => []TypeOK
<1>1. IInv => TypeOK
  BY DEF IInv
<1> QED BY <1>1, Invariance, PTL

\* As long as no two writers of state.json overlap and none fails, the downtime
\* in the heartbeat's memory is that between the last save of an earlier boot
\* and this boot, for any number of boots, crashes and power losses: what one
\* process's first save writes, the next process of the boot reads back.
THEOREM DowntimeCorrect == Spec => []DowntimeIsLastOutage
<1>1. IInv => DowntimeIsLastOutage
  BY DEF IInv, Orderly, Clocked, Target, DowntimeIsLastOutage
<1> QED BY <1>1, Invariance, PTL

\* As long as no two writers of state.json overlap and none fails, no update's
\* rollback reboots the machine twice, for any number of updates and of
\* boot-checks killed or cut off by a power loss: cmd_boot_check records the
\* try before it reboots, and a later update's os-update names another snapshot.
THEOREM RebootsOnce == Spec => []RollbackRebootsOnce
<1>1. IInv => RollbackRebootsOnce
  BY DEF IInv, TypeOK, Orderly, Memory, RollbackRebootsOnce
<1> QED BY <1>1, Invariance, PTL

\* As long as no two writers of state.json overlap and none fails, an installed
\* update that no boot-check has found healthy is the one state.json names, and
\* a try is open unless one was made: cmd_os_update writes both keys before
\* apt-get upgrades, and the heartbeat, which writes the whole file, keeps them.
THEOREM UpdatesGuarded == Spec => []UpdateIsGuarded
<1>1. IInv => UpdateIsGuarded
  BY DEF IInv
<1> QED BY <1>1, Invariance, PTL

----------------------------------------------------------------------------
(* The file is a shared document                                           *)

\* Only a rename changes what is read while the writes are in order.
LEMMA ReadStays ==
  ASSUME IInv, [Next]_vars, ~(Save /\ ReplaceTmp("app")), ~(Edit /\ ReplaceTmp("root"))
  PROVE  (orderly' => orderly) /\ (orderly => Read' = Read)
<1> USE Basics DEF Writers
<1>1. CASE UNCHANGED file
  BY <1>1 DEF file, Read
<1>2. CASE \E W \in SUBSET Writers : Killed(W)
  BY <1>2 DEF Killed, Read
<1>3. CASE \E w \in Writers : \E d : Begin(w, d)
  BY <1>3 DEF Begin, Read
<1>4. CASE \E w \in Writers : OpenTmp(w)
  BY <1>4 DEF OpenTmp, GiveUp, Read
<1>5. CASE \E w \in Writers : WriteTmp(w)
  BY <1>5 DEF WriteTmp, FileInv, FileOK, Read
<1>6. CASE \E w \in Writers : GiveUp(w)
  BY <1>6 DEF GiveUp, Read
<1>7. CASE Application \/ Sync
  BY <1>1, <1>3, <1>4, <1>5, <1>7 DEF Application, Tick, Save, AppStart, Sync
<1>8. CASE Maintainer
  <2>1. CASE HealthBegin \/ OsUpdate \/ Upgrade \/ SyncVenv \/ BootCheck \/ Healthy
             \/ StillUnhealthy \/ Decide \/ Revert \/ Alert
    <3>1. Decide \/ Revert => UNCHANGED file  BY Zenon DEF Decide, Revert
    <3> QED
      BY <1>1, <2>1, <3>1
      DEF HealthBegin, OsUpdate, Upgrade, SyncVenv, BootCheck, Healthy, StillUnhealthy, Alert
  <2>2. CASE HealthEnd \/ Unhealthy
    BY <1>1, <1>2, <2>2 DEF HealthEnd, Unhealthy, Restart
  <2>3. CASE EditBegin
    BY <1>3, <2>3 DEF EditBegin
  <2>4. CASE Edit
    BY <1>4, <1>5, <2>4 DEF Edit
  <2> QED BY <1>8, <2>1, <2>2, <2>3, <2>4 DEF Maintainer
<1>9. CASE LockedReboot \/ WebReboot \/ PowerLoss \/ AppCrash \/ CheckKilled
  BY <1>2, <1>9 DEF LockedReboot, WebReboot, PowerLoss, AppCrash, CheckKilled, NewBoot, Restart
<1>10. CASE DiskFull
  BY <1>1, <1>6, <1>10 DEF DiskFull, WriteFails
<1> QED BY <1>1, <1>7, <1>8, <1>9, <1>10 DEF Next, vars

LEMMA RenameFails ==
  ASSUME IInv, NEW w \in Writers, ReplaceTmp(w)
  PROVE  (orderly' => orderly) /\ (~orderly' /\ orderly => Read' = Read)
  BY DEF ReplaceTmp, GiveUp, Read

LEMMA SaveIsBeat ==
  ASSUME IInv, Save, ReplaceTmp("app"), orderly'
  PROVE  orderly /\ Shared!Beat
<1> USE Basics DEF Writers
<1>1. /\ orderly /\ Read' = save["app"].doc /\ Writes("app")
  BY ReplaceFile DEF Save, machine
<1>2. /\ Read'.pending = Read.pending /\ Read'.tried = Read.tried
      /\ Read'.seen = boot /\ Read'.boot = boot /\ Read'.down = Target
  BY <1>1 DEF Written, Clocked
<1>3. /\ Read.seen = kept /\ Read.boot = kept /\ kept <= boot
      /\ kept = boot => Read.down = Target
  BY <1>1 DEF Clocked, IInv, TypeOK, Boots
<1> QED BY <1>1, <1>2, <1>3 DEF Shared!Beat, IInv, TypeOK, Boots

LEMMA EditIsMaintain ==
  ASSUME IInv, Edit, ReplaceTmp("root"), orderly'
  PROVE  orderly /\ Shared!Maintain
<1> USE Basics DEF Writers
<1>1. /\ orderly /\ Read' = save["root"].doc /\ Writes("root")
  BY ReplaceFile DEF Edit, machine
<1>2. task.at \in EditPoints /\ Read' = Edited(task.at, Read)
  BY <1>1 DEF IInv, Tasks, Written
<1>3. Read.pending <= Len(snap)
  BY BrokenIsNoDoc DEF FileInv, FileTypeOK, FileNamed, Names, Read, NoDoc, Contents
<1> QED BY <1>1, <1>2, <1>3, EditedDoc DEF Shared!Maintain, Doc, EditPoints, SetPoints

\* As long as no two writers overlap and none fails, the heartbeat's load_state
\* and save_state and root's state_set and state_unset, four steps each through
\* one temporary file, are changes of one document, each of its own keys.
THEOREM FileImplementsShared == Spec => StateIsShared
<1>1. Init => Shared!Init
  BY EmptyIsDoc, BrokenIsNoDoc DEF Init, FileInit, Shared!Init, Read
<1>2. IInv /\ IInv' /\ [Next]_vars => [Shared!Next]_<<Read, orderly>>
  <2> SUFFICES ASSUME IInv, IInv', [Next]_vars
               PROVE  Shared!Next \/ UNCHANGED <<Read, orderly>>
    OBVIOUS
  <2>0. Read' \in Doc /\ orderly \in BOOLEAN /\ orderly' \in BOOLEAN
    BY EmptyIsDoc DEF IInv, TypeOK, FileTypeOK, Contents, Read
  <2>1. CASE ~(Save /\ ReplaceTmp("app")) /\ ~(Edit /\ ReplaceTmp("root"))
    BY <2>0, <2>1, ReadStays DEF Shared!Next, Shared!Clash, Shared!Afterwards
  <2>2. CASE (Save /\ ReplaceTmp("app")) \/ (Edit /\ ReplaceTmp("root"))
    <3>1. CASE orderly'
      BY <2>0, <2>2, <3>1, SaveIsBeat, EditIsMaintain DEF Shared!Next, Shared!Orderly
    <3>2. CASE ~orderly'
      BY <2>0, <2>2, <3>2, RenameFails DEF Writers, Shared!Next, Shared!Clash, Shared!Afterwards
    <3> QED BY <3>1, <3>2
  <2> QED BY <2>1, <2>2
<1> QED
  BY <1>1, <1>2, Invariance, PTL DEF Spec, StateIsShared, Shared!Spec

=============================================================================
