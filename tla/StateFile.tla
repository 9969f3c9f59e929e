------------------------------ MODULE StateFile ------------------------------
(***************************************************************************)
(* /etc/pi-config-ui/monitor/state.json, which two processes rewrite with  *)
(* no lock between them: the web application's heartbeat (load_state and   *)
(* save_state of app/metrics.py) and the root maintenance task (state_get, *)
(* state_set and state_unset of deploy/maintenance.sh).  Each reads the    *)
(* file, writes the whole of it to state.json.tmp, the same name for both, *)
(* and renames that over state.json.                                       *)
(***************************************************************************)
EXTENDS Naturals

CONSTANTS
  MaxBoots,   \* bound on the boots of the machine
  MaxUpdates  \* bound on the package updates

ASSUME BootsAssumption == MaxBoots \in Nat \ {0}
ASSUME UpdatesAssumption == MaxUpdates \in Nat

VARIABLES
  state,  \* what state.json holds; a missing file reads like an empty one
  tmp,    \* state.json.tmp: who created it, what it holds
  save,   \* writer |-> where it stands, what it writes, the file its descriptor is on
  orderly \* history: no two writers have been between their read and their
          \* rename at once, and no write has failed

file == <<state, tmp, save, orderly>>

Writers == {"app", "root"}
Updates == 1..MaxUpdates
Boots == 1..MaxBoots
Unsettled == MaxBoots + 1        \* a boot_time read before the clock is set

NoOutage == [from |-> 0, to |-> 0]
Outages == [from: 0..MaxBoots, to: 0..MaxBoots]

\* last_seen and last_boot_time are told apart only by the boot they were
\* taken in, and last_downtime_seconds by the two boots it lies between.
\* pending is the snapshot pending_update_backup names; 0 is a missing key.
Doc == [seen: 0..MaxBoots, boot: 0..MaxBoots, down: Outages,
        pending: 0..MaxUpdates, tried: {"unset", "0", "1"}]
NoDoc == [seen |-> 0, boot |-> 0, down |-> NoOutage, pending |-> 0, tried |-> "unset"]
Broken == [broken |-> TRUE]      \* empty, or not JSON
Contents == Doc \cup {Broken}

NoTmp == [owner |-> "none", data |-> Broken]
Idle == [at |-> "idle", doc |-> NoDoc, fd |-> "none"]

FileTypeOK ==
  /\ state \in Contents
  /\ tmp \in [owner: Writers \cup {"none"}, data: Contents]
  /\ save \in [Writers -> [at: {"idle", "open", "write", "replace"}, doc: Doc,
                           fd: {"none", "tmp", "state", "gone"}]]
  /\ orderly \in BOOLEAN

FileInit ==
  /\ state = NoDoc
  /\ tmp = NoTmp
  /\ save = [w \in Writers |-> Idle]
  /\ orderly = TRUE

\* load_state and json.load in state_get, state_set and state_unset: what
\* cannot be read is empty.
Read == IF state = Broken THEN NoDoc ELSE state

\* A writer has read the file and knows what it will write.
Begin(w, d) ==
  /\ save[w].at = "idle"
  /\ save' = [save EXCEPT ![w] = [at |-> "open", doc |-> d, fd |-> "none"]]
  /\ orderly' = (orderly /\ \A v \in Writers : save[v].at = "idle")
  /\ UNCHANGED <<state, tmp>>

\* The write fails: load and save again, next time.
GiveUp(w) ==
  /\ save' = [save EXCEPT ![w] = Idle]
  /\ orderly' = FALSE
  /\ UNCHANGED <<state, tmp>>

\* Opening state.json.tmp creates it or truncates it.  The web application
\* may not open a file of root's.
Denied(w) == w = "app" /\ tmp.owner = "root"
OpenTmp(w) ==
  /\ save[w].at = "open"
  /\ IF Denied(w)
     THEN GiveUp(w)
     ELSE /\ save' = [save EXCEPT ![w].at = "write", ![w].fd = "tmp"]
          /\ tmp' = [owner |-> IF tmp.owner = "none" THEN w ELSE tmp.owner, data |-> Broken]
          /\ UNCHANGED <<state, orderly>>

\* The text goes to the file that was opened, whatever its name is by now;
\* over a longer text of the other writer it leaves no JSON.
Over(old, d) == IF old = Broken THEN {d} ELSE {d, Broken}
WriteTmp(w) ==
  LET s == save[w]
  IN  /\ s.at = "write"
      /\ \/ s.fd = "tmp" /\ UNCHANGED state
              /\ \E c \in Over(tmp.data, s.doc) : tmp' = [tmp EXCEPT !.data = c]
         \/ s.fd = "state" /\ UNCHANGED tmp
              /\ \E c \in Over(state, s.doc) : state' = c
         \/ s.fd = "gone" /\ UNCHANGED <<state, tmp>>
      /\ save' = [save EXCEPT ![w].at = "replace", ![w].fd = "none"]
      /\ UNCHANGED orderly

\* No space is left.
WriteFails(w) == save[w].at = "write" /\ GiveUp(w)

\* The rename moves whatever state.json.tmp is now, and fails when the other
\* writer has moved it already.
Moved(fd) == IF fd = "tmp" THEN "state" ELSE IF fd = "state" THEN "gone" ELSE fd
Lost == tmp.owner = "none"
ReplaceTmp(w) ==
  /\ save[w].at = "replace"
  /\ IF Lost
     THEN GiveUp(w)
     ELSE /\ state' = tmp.data
          /\ tmp' = NoTmp
          /\ save' = [v \in Writers |-> IF v = w THEN Idle
                                        ELSE [save[v] EXCEPT !.fd = Moved(@)]]
          /\ UNCHANGED orderly

\* Writers that die leave the files as they are.
Killed(W) ==
  /\ save' = [w \in Writers |-> IF w \in W THEN Idle ELSE save[w]]
  /\ UNCHANGED <<state, tmp, orderly>>

=============================================================================
