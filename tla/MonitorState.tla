---------------------------- MODULE MonitorState -----------------------------
(***************************************************************************)
(* What state.json promises its two writers, as long as their writes do    *)
(* not overlap and none fails: one document, in which each changes its own *)
(* keys only.                                                              *)
(***************************************************************************)
EXTENDS Naturals

CONSTANTS Doc, NoDoc

VARIABLES
  doc,    \* what a reader finds
  orderly \* writes have neither overlapped nor failed

\* The heartbeat: time goes on, and a boot's outage is recorded once.
Beat ==
  /\ doc'.pending = doc.pending /\ doc'.tried = doc.tried
  /\ doc'.seen >= doc.seen /\ doc'.boot >= doc.boot
  /\ doc'.boot = doc.boot => doc'.down = doc.down

\* Maintenance: one key at a time, and no snapshot older than the pending one.
Maintain ==
  /\ doc'.seen = doc.seen /\ doc'.boot = doc.boot /\ doc'.down = doc.down
  /\ \/ doc'.tried = doc.tried /\ (doc'.pending = 0 \/ doc'.pending >= doc.pending)
     \/ doc'.pending = doc.pending

Init == doc = NoDoc /\ orderly = TRUE

Orderly == orderly /\ UNCHANGED orderly /\ doc' \in Doc /\ (Beat \/ Maintain)
Clash == orderly' = FALSE /\ UNCHANGED doc
Afterwards == ~orderly /\ UNCHANGED orderly /\ doc' \in Doc

Next == Orderly \/ Clash \/ Afterwards

Spec == Init /\ [][Next]_<<doc, orderly>>

=============================================================================
