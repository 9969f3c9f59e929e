---------------------------- MODULE PeerRegistry -----------------------------
(***************************************************************************)
(* What the .conf files promise, whoever interleaves and whatever crashes: *)
(* a registry of peers under tunnels, changed by one atomic operation at a *)
(* time, where a key that has once been in never comes in again.           *)
(***************************************************************************)
EXTENDS TunnelDict

CONSTANTS Tunnels, Keys, Hosts

VARIABLES
  reg,   \* tunnel |-> its peers
  ever   \* every peer there ever was

Peer == [key: Keys, addr: Hosts]

Init ==
  /\ \E C \in SUBSET Tunnels : reg = [t \in C |-> {}]
  /\ ever = {}

CreateTunnel(t) ==
  /\ t \notin DOMAIN reg
  /\ reg' = With(reg, t, {})
  /\ UNCHANGED ever

DeleteTunnel(t) ==
  /\ reg' = Without(reg, t)
  /\ UNCHANGED ever

AddPeer(t, p) ==
  /\ t \in DOMAIN reg
  /\ \A q \in ever : q.key # p.key
  /\ reg' = With(reg, t, reg[t] \cup {p})
  /\ ever' = ever \cup {p}

RemovePeer(t, k) ==
  /\ t \in DOMAIN reg
  /\ reg' = With(reg, t, Drop(reg[t], k))
  /\ UNCHANGED ever

Next ==
  \E t \in Tunnels :
    \/ CreateTunnel(t) \/ DeleteTunnel(t)
    \/ \E p \in Peer : AddPeer(t, p)
    \/ \E k \in Keys : RemovePeer(t, k)

Spec == Init /\ [][Next]_<<reg, ever>>

=============================================================================
