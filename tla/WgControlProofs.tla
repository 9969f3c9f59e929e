--------------------------- MODULE WgControlProofs ---------------------------
(***************************************************************************)
(* Proofs about WgControl, for every set of tunnels, requests and hosts.   *)
(***************************************************************************)
EXTENDS WgControl, WellFoundedInduction, TLAPS

USE TunnelsAssumption, HostsAssumption, SerialAssumption, FaultsAssumption

----------------------------------------------------------------------------
(* Dictionaries and addresses                                              *)

\* Setting an entry of a dictionary keeps it one (every update of a .conf,
\* of the metadata and of an interface).
LEMMA WithType ==
  ASSUME NEW S, NEW f, IsDict(f, S), NEW t \in Tunnels, NEW v \in SUBSET S
  PROVE  IsDict(With(f, t, v), S)
<1>1. PICK D \in SUBSET Tunnels : f \in [D -> SUBSET S]  BY DEF IsDict
<1>2. With(f, t, v) \in [D \cup {t} -> SUBSET S]  BY <1>1 DEF With
<1> QED  BY <1>2 DEF IsDict

\* So does removing one.
LEMMA WithoutType ==
  ASSUME NEW S, NEW f, IsDict(f, S), NEW t
  PROVE  IsDict(Without(f, t), S)
<1>1. PICK D \in SUBSET Tunnels : f \in [D -> SUBSET S]  BY DEF IsDict
<1>2. Without(f, t) \in [D \ {t} -> SUBSET S]  BY <1>1 DEF Without
<1> QED  BY <1>2 DEF IsDict

\* The empty dictionary is one: no tunnel, or metadata nobody holds.
LEMMA EmptyType == ASSUME NEW S PROVE IsDict(NoTunnels, S)
<1>1. NoTunnels \in [{} -> SUBSET S]  BY DEF NoTunnels
<1> QED  BY <1>1 DEF IsDict

\* What a dictionary holds at one of its tunnels.
LEMMA DictAt ==
  ASSUME NEW S, NEW f, IsDict(f, S), NEW t \in DOMAIN f
  PROVE  t \in Tunnels /\ f[t] \in SUBSET S
BY DEF IsDict

\* The allocator returns a host number that is free in the metadata it looks
\* at and is not the tunnel's own.
LEMMA LowestFreeIsFree ==
  ASSUME NEW P, Free(P) # {}
  PROVE  LowestFree(P) \in Free(P)
<1>1. Free(P) \subseteq Nat  BY DEF Free
<1>2. \E a \in Free(P) : \A b \in Free(P) : ~ (<<b, a>> \in OpToRel(<, Nat))
  BY <1>1, NatLessThanWellFounded, WFMin, Zenon
<1>3. PICK a \in Free(P) : \A b \in Free(P) : ~ (<<b, a>> \in OpToRel(<, Nat))
  BY <1>2
<1>4. \A b \in Free(P) : a <= b
  <2> TAKE b \in Free(P)
  <2>1. a \in Nat /\ b \in Nat  BY <1>1
  <2>2. <<b, a>> \in OpToRel(<, Nat) <=> b < a  BY <2>1 DEF OpToRel
  <2>3. ~ (b < a)  BY <1>3, <2>2
  <2> QED  BY <2>1, <2>3
<1> QED  BY <1>4 DEF LowestFree

----------------------------------------------------------------------------
(* The inductive invariant                                                 *)

\* What a handler's place says about its job and the metadata it holds: a
\* request has a job once it has begun, only a create_peer waits for a
\* status, and a handler of peers holds the metadata of its tunnel.
Bookkeeping ==
  \A r \in Requests :
    /\ app[r] = "new" => job[r] = NoJob /\ hlp[r] = "idle"
    /\ app[r] # "new" => job[r] \in Job
    /\ app[r] = "status" => job[r].op = "create_peer" /\ hlp[r] = "idle"
    /\ job[r].op = "create_peer" => job[r].peer.key = r
    /\ app[r] \in {"status", "await"} /\ job[r].op \in {"create_peer", "delete_peer"}
         => job[r].tunnel \in DOMAIN snap[r]

IInv == TypeOK /\ Bookkeeping

\* An action whose guard names a job of the request has one of the jobs.
LEMMA JobKnown ==
  ASSUME TypeOK, NEW r \in Requests, NEW ops \in SUBSET Ops, job[r].op \in ops
  PROVE  job[r] \in Job /\ job[r].tunnel \in Tunnels /\ job[r].peer \in Peer
         /\ job[r].peer.key \in Requests /\ job[r].peer.addr \in Hosts
<1>1. job[r] # NoJob  BY DEF NoJob, Ops, StateOps
<1>2. job[r] \in Job  BY <1>1 DEF TypeOK
<1> QED  BY <1>2 DEF Job, Peer

\* Every handler step keeps the types and the bookkeeping.
LEMMA HandlerType ==
  ASSUME IInv, NEW r \in Requests, Handler(r)
  PROVE  IInv'
<1> USE DEF IInv, disk, kernel, web
<1>1. CASE \E t \in Tunnels : BeginTunnelOp(r, t)
  <2> PICK t \in Tunnels : BeginTunnelOp(r, t)  BY <1>1
  <2> PICK o \in {"create_tunnel", "delete_tunnel"} : Send(r, JobOf(r, o, t))
    BY DEF BeginTunnelOp
  <2>1. JobOf(r, o, t) \in Job  BY DEF JobOf, Job, Ops, Peer
  <2>2. TypeOK'  BY <2>1 DEF TypeOK, BeginTunnelOp, Send, AppState, HelperState
  <2>3. Bookkeeping'
    BY <2>1 DEF TypeOK, Bookkeeping, BeginTunnelOp, Send, JobOf
  <2> QED  BY <2>2, <2>3
<1>2. CASE \E t \in Tunnels : BeginSetState(r, t)
  <2> PICK t \in Tunnels : BeginSetState(r, t)  BY <1>2
  <2> PICK o \in StateOps : Send(r, JobOf(r, o, t))
    BY DEF BeginSetState
  <2>1. JobOf(r, o, t) \in Job  BY DEF JobOf, Job, Ops, Peer
  <2>2. TypeOK'  BY <2>1 DEF TypeOK, BeginSetState, Send, AppState, HelperState
  <2>3. Bookkeeping'
    BY <2>1 DEF TypeOK, Bookkeeping, BeginSetState, Send, JobOf, StateOps
  <2> QED  BY <2>2, <2>3
<1>3. CASE \E t \in Tunnels : BeginCreatePeer(r, t)
  <2> PICK t \in Tunnels : BeginCreatePeer(r, t)  BY <1>3
  <2>1. JobOf(r, "create_peer", t) \in Job  BY DEF JobOf, Job, Ops, Peer
  <2>2. TypeOK'  BY <2>1 DEF TypeOK, BeginCreatePeer, AppState
  <2>3. Bookkeeping'
    BY <2>1 DEF TypeOK, Bookkeeping, BeginCreatePeer, JobOf, CanBegin
  <2> QED  BY <2>2, <2>3
<1>4. CASE \E t \in Tunnels : BeginDeletePeer(r, t)
  <2> PICK t \in Tunnels : BeginDeletePeer(r, t)  BY <1>4
  <2>1. t \in DOMAIN meta /\ meta[t] \subseteq Peer
    BY DictAt DEF BeginDeletePeer, TypeOK
  <2> PICK p \in meta[t] : Send(r, [op |-> "delete_peer", tunnel |-> t, peer |-> p])
    BY DEF BeginDeletePeer
  <2>2. [op |-> "delete_peer", tunnel |-> t, peer |-> p] \in Job
    BY <2>1 DEF Job, Ops
  <2>3. TypeOK'  BY <2>2 DEF TypeOK, BeginDeletePeer, Send, AppState, HelperState
  <2>4. Bookkeeping'
    BY <2>1, <2>2 DEF TypeOK, Bookkeeping, BeginDeletePeer, Send
  <2> QED  BY <2>3, <2>4
<1>5. CASE Allocate(r)
  <2> DEFINE t == job[r].tunnel
             P == snap[r][t]
             j == [job[r] EXCEPT !.peer.addr = LowestFree(P)]
  <2>0. job[r] \in Job /\ job[r].op = "create_peer"  BY <1>5 DEF Allocate, Bookkeeping
  <2>1. CASE ShownWithKey(t) /\ Free(P) # {}
    <3>1. LowestFree(P) \in Hosts  BY <2>1, LowestFreeIsFree DEF Free
    <3>2. j \in Job /\ j.op = "create_peer" /\ j.tunnel = t /\ j.peer.key = job[r].peer.key
      BY <2>0, <3>1 DEF Job, Peer
    <3>3. Send(r, j) /\ UNCHANGED snap  BY <1>5, <2>1 DEF Allocate
    <3> HIDE DEF j
    <3>4. TypeOK'  BY <1>5, <3>2, <3>3 DEF TypeOK, Allocate, Send, AppState, HelperState
    <3>5. Bookkeeping'  BY <1>5, <3>2, <3>3 DEF TypeOK, Bookkeeping, Allocate, Send
    <3> QED  BY <3>4, <3>5
  <2>2. CASE ~(ShownWithKey(t) /\ Free(P) # {})
    <3>1. TypeOK'  BY <1>5, <2>2, EmptyType DEF TypeOK, Allocate, AppState
    <3>2. Bookkeeping'  BY <1>5, <2>2 DEF TypeOK, Bookkeeping, Allocate
    <3> QED  BY <3>1, <3>2
  <2> QED  BY <2>1, <2>2
<1>6. CASE FinishCreateTunnel(r)
  <2>1. job[r].tunnel \in Tunnels
    BY <1>6, JobKnown DEF FinishCreateTunnel, Succeeded, Replied, Ops
  <2>2. IsDict(With(meta, job[r].tunnel, {}), Peer)  BY <2>1, WithType DEF TypeOK
  <2>3. TypeOK'
    BY <1>6, <2>2, EmptyType DEF TypeOK, FinishCreateTunnel, Respond, AppState, HelperState
  <2>4. Bookkeeping'
    BY <1>6 DEF TypeOK, Bookkeeping, FinishCreateTunnel, Succeeded, Replied, Respond
  <2> QED  BY <2>3, <2>4
<1>7. CASE FinishDeleteTunnel(r)
  <2>1. IsDict(Without(meta, job[r].tunnel), Peer)  BY WithoutType DEF TypeOK
  <2>2. TypeOK'
    BY <1>7, <2>1, EmptyType DEF TypeOK, FinishDeleteTunnel, Respond, AppState, HelperState
  <2>3. Bookkeeping'
    BY <1>7 DEF TypeOK, Bookkeeping, FinishDeleteTunnel, Succeeded, Replied, Respond
  <2> QED  BY <2>2, <2>3
<1>8. CASE FinishCreatePeer(r)
  <2> DEFINE t == job[r].tunnel
             p == job[r].peer
  <2>1. t \in Tunnels /\ p \in Peer
    BY <1>8, JobKnown DEF FinishCreatePeer, Succeeded, Replied, Ops
  <2>2. t \in DOMAIN snap[r] /\ IsDict(snap[r], Peer)
    BY <1>8 DEF FinishCreatePeer, Succeeded, Replied, Bookkeeping, TypeOK
  <2>3. snap[r][t] \cup {p} \in SUBSET Peer  BY <2>1, <2>2, DictAt
  <2>4. IsDict(With(snap[r], t, snap[r][t] \cup {p}), Peer)  BY <2>1, <2>2, <2>3, WithType
  <2>5. TypeOK'
    BY <1>8, <2>4, EmptyType DEF TypeOK, FinishCreatePeer, Respond, AppState, HelperState
  <2>6. Bookkeeping'
    BY <1>8 DEF TypeOK, Bookkeeping, FinishCreatePeer, Succeeded, Replied, Respond
  <2> QED  BY <2>5, <2>6
<1>9. CASE FinishDeletePeer(r)
  <2> DEFINE t == job[r].tunnel
             k == job[r].peer.key
  <2>1. t \in Tunnels
    BY <1>9, JobKnown DEF FinishDeletePeer, Succeeded, Replied, Ops
  <2>2. t \in DOMAIN snap[r] /\ IsDict(snap[r], Peer)
    BY <1>9 DEF FinishDeletePeer, Succeeded, Replied, Bookkeeping, TypeOK
  <2>3. Drop(snap[r][t], k) \in SUBSET Peer  BY <2>2, DictAt DEF Drop
  <2>4. IsDict(With(snap[r], t, Drop(snap[r][t], k)), Peer)  BY <2>1, <2>2, <2>3, WithType
  <2>5. TypeOK'
    BY <1>9, <2>4, EmptyType DEF TypeOK, FinishDeletePeer, Respond, AppState, HelperState
  <2>6. Bookkeeping'
    BY <1>9 DEF TypeOK, Bookkeeping, FinishDeletePeer, Succeeded, Replied, Respond
  <2> QED  BY <2>5, <2>6
<1>10. CASE FinishSetState(r)
  <2>1. TypeOK'
    BY <1>10, EmptyType DEF TypeOK, FinishSetState, Respond, AppState, HelperState
  <2>2. Bookkeeping'
    BY <1>10 DEF TypeOK, Bookkeeping, FinishSetState, Replied, Respond
  <2> QED  BY <2>1, <2>2
<1>11. CASE Fail(r)
  <2>1. TypeOK'  BY <1>11, EmptyType DEF TypeOK, Fail, Respond, AppState, HelperState
  <2>2. Bookkeeping'  BY <1>11 DEF TypeOK, Bookkeeping, Fail, Replied, Respond
  <2> QED  BY <2>1, <2>2
<1> QED
  BY <1>1, <1>2, <1>3, <1>4, <1>5, <1>6, <1>7, <1>8, <1>9, <1>10, <1>11 DEF Handler

\* A helper command is only ever one of a known job, and its reply changes
\* no handler.
LEMMA HelperType ==
  ASSUME IInv, NEW r \in Requests, NEW s \in HelperState, Helper(r, s),
         UNCHANGED web, hlp[r] # "idle"
  PROVE  hlp' \in [Requests -> HelperState] /\ Bookkeeping'
<1>1. hlp' \in [Requests -> HelperState]
  BY DEF IInv, TypeOK, Helper, HelperState
<1>2. \A q \in Requests : hlp[q] = "idle" => hlp'[q] = "idle"
  BY DEF IInv, TypeOK, Helper
<1>3. Bookkeeping'  BY <1>2 DEF IInv, Bookkeeping, web
<1> QED  BY <1>1, <1>3

\* Every helper command keeps the types and the bookkeeping.
LEMMA CommandType ==
  ASSUME IInv, NEW r \in Requests, Command(r)
  PROVE  IInv'
<1> USE DEF IInv, disk, kernel, web
<1> DEFINE t == job[r].tunnel
           p == job[r].peer
<1>1. CASE HCreateTunnel(r)
  <2>1. t \in Tunnels  BY <1>1, JobKnown DEF HCreateTunnel, At, Ops
  <2>2. hlp' \in [Requests -> HelperState] /\ Bookkeeping'
    BY <1>1, HelperType DEF HCreateTunnel, At, HelperState
  <2>3. IsDict(With(conf, t, {}), Peer)  BY <2>1, WithType DEF TypeOK
  <2> QED  BY <1>1, <2>2, <2>3 DEF TypeOK, HCreateTunnel
<1>2. CASE HDisable(r)
  <2>1. hlp' \in [Requests -> HelperState] /\ Bookkeeping'
    BY <1>2, HelperType DEF HDisable, At, HelperState
  <2>2. IsDict(Without(live, t), LivePeer) /\ IsDict(Without(starting, t), Peer)
    BY WithoutType DEF TypeOK
  <2> QED  BY <1>2, <2>1, <2>2 DEF TypeOK, HDisable, StopUnit
<1>3. CASE HUnlink(r)
  <2>1. hlp' \in [Requests -> HelperState] /\ Bookkeeping'
    BY <1>3, HelperType DEF HUnlink, At, HelperState
  <2>2. IsDict(Without(conf, t), Peer)  BY WithoutType DEF TypeOK
  <2> QED  BY <1>3, <2>1, <2>2 DEF TypeOK, HUnlink
<1>4. CASE HAddConf(r)
  <2>1. t \in Tunnels /\ p \in Peer  BY <1>4, JobKnown DEF HAddConf, At, Ops
  <2>2. hlp' \in [Requests -> HelperState] /\ Bookkeeping'
    BY <1>4, HelperType DEF HAddConf, At, HelperState, AfterWrite
  <2>3. BlocksWith(r, t, p) \in SUBSET Peer  BY <2>1, DictAt DEF TypeOK, BlocksWith
  <2>4. IsDict(With(conf, t, BlocksWith(r, t, p)), Peer)  BY <2>1, <2>3, WithType DEF TypeOK
  <2> QED  BY <1>4, <2>1, <2>2, <2>4 DEF TypeOK, HAddConf
<1>5. CASE HRemoveConf(r)
  <2>1. t \in Tunnels  BY <1>5, JobKnown DEF HRemoveConf, At, Ops
  <2>2. hlp' \in [Requests -> HelperState] /\ Bookkeeping'
    BY <1>5, HelperType DEF HRemoveConf, At, HelperState, AfterWrite
  <2>3. t \in DOMAIN conf => IsDict(With(conf, t, Drop(conf[t], p.key)), Peer)
    BY <2>1, WithType, DictAt DEF TypeOK, Drop
  <2> QED  BY <1>5, <2>2, <2>3 DEF TypeOK, HRemoveConf
<1>6. CASE HWgSet(r)
  <2>1. t \in Tunnels /\ p \in Peer  BY <1>6, JobKnown DEF HWgSet, At, Ops
  <2>2. hlp' \in [Requests -> HelperState] /\ Bookkeeping'
    BY <1>6, HelperType DEF HWgSet, At, HelperState
  <2>3. p \in LivePeer  BY <2>1 DEF Peer, LivePeer
  <2>4. CASE t \in DOMAIN live
    <3>1. live[t] \in SUBSET LivePeer  BY <2>4, DictAt DEF TypeOK
    <3>2. Drop(live[t], p.key) \in SUBSET LivePeer  BY <3>1 DEF Drop
    <3>3. Assign(live[t], p) \in SUBSET LivePeer
      <4>1. \A q \in Drop(live[t], p.key) :
              [q EXCEPT !.addr = IF q.addr = p.addr THEN NoAddr ELSE q.addr] \in LivePeer
        BY <3>2 DEF LivePeer
      <4> QED  BY <4>1, <2>3 DEF Assign
    <3>4. IsDict(live', LivePeer)
      BY <1>6, <2>1, <2>4, <3>2, <3>3, WithType DEF TypeOK, HWgSet
    <3> QED  BY <1>6, <2>2, <3>4 DEF TypeOK, HWgSet
  <2>5. CASE t \notin DOMAIN live
    BY <1>6, <2>2, <2>5 DEF TypeOK, HWgSet
  <2> QED  BY <2>4, <2>5
<1>7. CASE HActivate(r)
  <2>1. t \in Tunnels  BY <1>7, JobKnown DEF HActivate, At, Ops, StateOps
  <2>2. hlp' \in [Requests -> HelperState] /\ Bookkeeping'
    BY <1>7, HelperType DEF HActivate, At, HelperState
  <2>3. t \in DOMAIN conf => IsDict(With(starting, t, conf[t]), Peer)
    BY <2>1, WithType, DictAt DEF TypeOK
  <2> QED  BY <1>7, <2>1, <2>2, <2>3 DEF TypeOK, HActivate
<1>8. CASE HStop(r)
  <2>1. hlp' \in [Requests -> HelperState] /\ Bookkeeping'
    BY <1>8, HelperType DEF HStop, At, HelperState
  <2>2. IsDict(Without(live, t), LivePeer) /\ IsDict(Without(starting, t), Peer)
    BY WithoutType DEF TypeOK
  <2> QED  BY <1>8, <2>1, <2>2 DEF TypeOK, HStop, StopUnit
<1>9. CASE HStarted(r)
  <2>1. hlp' \in [Requests -> HelperState] /\ Bookkeeping'
    BY <1>9, HelperType DEF HStarted, At, HelperState
  <2> QED  BY <1>9, <2>1 DEF TypeOK, HStarted
<1> QED
  BY <1>1, <1>2, <1>3, <1>4, <1>5, <1>6, <1>7, <1>8, <1>9 DEF Command

\* So does wg-quick, whichever block keeps a contested address.
LEMMA WgQuickType ==
  ASSUME IInv, NEW t \in Tunnels, WgQuickUp(t)
  PROVE  IInv'
<1> USE DEF IInv, disk, kernel, web
<1>1. t \in DOMAIN starting /\ starting[t] \in SUBSET Peer
  BY DictAt DEF TypeOK, WgQuickUp
<1>2. \A w : Loaded(starting[t], w) \in SUBSET LivePeer
  <2> TAKE w
  <2>1. \A q \in starting[t] :
          [q EXCEPT !.addr = IF w[q.addr] = q THEN q.addr ELSE NoAddr] \in LivePeer
    BY <1>1 DEF Peer, LivePeer
  <2> QED  BY <2>1 DEF Loaded
<1>3. IsDict(live', LivePeer)  BY <1>2, WithType DEF TypeOK, WgQuickUp
<1>4. IsDict(starting', Peer)  BY WithoutType DEF TypeOK, WgQuickUp
<1>5. TypeOK'  BY <1>3, <1>4 DEF TypeOK, WgQuickUp
<1>6. Bookkeeping'  BY DEF Bookkeeping, WgQuickUp
<1> QED  BY <1>5, <1>6

\* And so does every fault.
LEMMA BreakdownType ==
  ASSUME IInv, Breakdown
  PROVE  IInv'
<1> USE DEF IInv, disk, kernel, web
<1>0. Fault => faults' \in 0..MaxFaults  BY DEF Fault, TypeOK
<1>1. ASSUME NEW r \in Requests, WgSetFails(r) \/ DisableFails(r) \/ StopFails(r)
      PROVE  IInv'
  <2>1. hlp' \in [Requests -> HelperState] /\ Bookkeeping'
    BY <1>1, HelperType DEF WgSetFails, DisableFails, StopFails, At, HelperState
  <2> QED  BY <1>0, <1>1, <2>1 DEF TypeOK, WgSetFails, DisableFails, StopFails
<1>2. CASE AppCrash
  <2>1. TypeOK'
    BY <1>0, <1>2, EmptyType DEF TypeOK, AppCrash, AppState, HelperState
  <2>2. Bookkeeping'  BY <1>2 DEF TypeOK, Bookkeeping, AppCrash, Open
  <2> QED  BY <2>1, <2>2
<1>3. CASE HelperCrash
  <2>1. TypeOK'  BY <1>0, <1>3 DEF TypeOK, HelperCrash, HelperState
  <2>2. Bookkeeping'  BY <1>3 DEF TypeOK, Bookkeeping, HelperCrash
  <2> QED  BY <2>1, <2>2
<1>4. CASE Reboot
  <2>1. IsDict(starting', Peer)
    <3>1. PICK D \in SUBSET Tunnels : conf \in [D -> SUBSET Peer]  BY DEF TypeOK, IsDict
    <3>2. starting' \in [D \cap enabled -> SUBSET Peer]  BY <1>4, <3>1 DEF Reboot
    <3> QED  BY <3>1, <3>2 DEF IsDict
  <2>2. TypeOK'
    BY <1>0, <1>4, <2>1, EmptyType DEF TypeOK, Reboot, AppState, HelperState
  <2>3. Bookkeeping'  BY <1>4 DEF TypeOK, Bookkeeping, Reboot, Open
  <2> QED  BY <2>2, <2>3
<1> QED  BY <1>1, <1>2, <1>3, <1>4 DEF Breakdown

\* The first state has the types and the bookkeeping.
LEMMA IInvInit == Init => IInv
<1> SUFFICES ASSUME Init PROVE IInv  OBVIOUS
<1>1. IsDict([t \in Created |-> {}], Peer) /\ IsDict([t \in Created |-> {}], LivePeer)
  <2>1. ASSUME NEW S PROVE IsDict([t \in Created |-> {}], S)
    <3>1. [t \in Created |-> {}] \in [Created -> SUBSET S]  OBVIOUS
    <3> QED  BY <3>1 DEF IsDict
  <2> QED  BY <2>1
<1>2. TypeOK  BY <1>1, EmptyType DEF Init, TypeOK, AppState, HelperState
<1>3. Bookkeeping  BY DEF Init, Bookkeeping, NoJob
<1> QED  BY <1>2, <1>3 DEF IInv

\* Every step keeps them: handlers, commands, wg-quick and faults.
LEMMA IInvNext == IInv /\ [Next]_vars => IInv'
<1> SUFFICES ASSUME IInv, [Next]_vars PROVE IInv'  OBVIOUS
<1>1. ASSUME NEW r \in Requests, Handler(r) PROVE IInv'  BY <1>1, HandlerType
<1>2. ASSUME NEW r \in Requests, Command(r) PROVE IInv'  BY <1>2, CommandType
<1>3. ASSUME NEW t \in Tunnels, WgQuickUp(t) PROVE IInv'  BY <1>3, WgQuickType
<1>4. CASE Breakdown  BY <1>4, BreakdownType
<1>5. CASE UNCHANGED vars
  BY <1>5 DEF IInv, TypeOK, Bookkeeping, vars, disk, kernel, web
<1> QED  BY <1>1, <1>2, <1>3, <1>4, <1>5 DEF Next

\* The invariant holds in every behaviour.
LEMMA Inductive == Spec => []IInv
BY IInvInit, IInvNext, PTL DEF Spec

\* Files, interfaces, metadata, handlers and commands keep their types in
\* every behaviour of the web application and the helper.
THEOREM TypeCorrect == Spec => []TypeOK
<1>1. IInv => TypeOK  BY DEF IInv
<1> QED  BY <1>1, Inductive, PTL

----------------------------------------------------------------------------
(* What the web interface lists has been written to a .conf                *)

\* Metadata, saved or held by a handler, names written peers only; a
\* create_peer past its write is in the history, and one before it is not.
Recorded ==
  /\ \A t \in DOMAIN meta : meta[t] \subseteq written
  /\ \A r \in Requests : \A t \in DOMAIN snap[r] : snap[r][t] \subseteq written
  /\ \A r \in Requests :
       app[r] = "await" /\ hlp[r] \in {"wgset", "ok"} /\ job[r].op = "create_peer" => job[r].peer \in written
  /\ \A p \in written : app[p.key] \notin {"new", "status"} /\ ~At(p.key, "sent", {"create_peer"})

\* A handler's step keeps the history honest: it saves metadata it loaded,
\* with at most the peer its own command has written.
LEMMA RecordedHandler ==
  ASSUME IInv, Recorded, NEW r \in Requests, Handler(r)
  PROVE  Recorded'
<1> USE DEF IInv, TypeOK, Bookkeeping, Recorded, disk, kernel, web
<1>1. CASE \E t \in Tunnels : BeginTunnelOp(r, t)
  BY <1>1 DEF BeginTunnelOp, CanBegin, Send, JobOf, At
<1>2. CASE \E t \in Tunnels : BeginSetState(r, t)
  BY <1>2 DEF BeginSetState, CanBegin, Send, JobOf, StateOps, At
<1>3. CASE \E t \in Tunnels : BeginCreatePeer(r, t)
  BY <1>3 DEF BeginCreatePeer, CanBegin, JobOf, At
<1>4. CASE \E t \in Tunnels : BeginDeletePeer(r, t)
  BY <1>4 DEF BeginDeletePeer, CanBegin, Send, At
<1>5. CASE Allocate(r)
  <2>2. written \subseteq Peer /\ r \notin {q.key : q \in written}  BY <1>5 DEF Allocate
  <2>3. \A p \in written : p.key \in Requests /\ p.key # r  BY <2>2 DEF Peer
  <2>4. /\ \A q \in Requests \ {r} : app'[q] = app[q] /\ hlp'[q] = hlp[q] /\ job'[q] = job[q]
        /\ hlp'[r] \in {"idle", "sent"}
        /\ \A q \in Requests : snap'[q] = snap[q] \/ snap'[q] = NoTunnels
        /\ UNCHANGED <<meta, written>>
    BY <1>5 DEF Allocate, Send
  <2> QED  BY <2>3, <2>4 DEF NoTunnels, At
<1>6. CASE FinishCreateTunnel(r)
  BY <1>6 DEF FinishCreateTunnel, Succeeded, Replied, Respond, With, NoTunnels, At
<1>7. CASE FinishDeleteTunnel(r)
  BY <1>7 DEF FinishDeleteTunnel, Succeeded, Replied, Respond, Without, NoTunnels, At
<1>8. CASE FinishCreatePeer(r)
  BY <1>8 DEF FinishCreatePeer, Succeeded, Replied, Respond, With, NoTunnels, At
<1>9. CASE FinishDeletePeer(r)
  BY <1>9 DEF FinishDeletePeer, Succeeded, Replied, Respond, With, Drop, NoTunnels, At
<1>10. CASE FinishSetState(r)
  BY <1>10 DEF FinishSetState, Replied, Respond, NoTunnels, At
<1>11. CASE Fail(r)
  BY <1>11 DEF Fail, Replied, Respond, NoTunnels, At
<1> QED
  BY <1>1, <1>2, <1>3, <1>4, <1>5, <1>6, <1>7, <1>8, <1>9, <1>10, <1>11 DEF Handler

\* A helper step that adds nothing to the history: a create_peer gets past
\* its write in no other way than by writing.
LEMMA RecordedHelper ==
  ASSUME IInv, Recorded, UNCHANGED <<web, written>>,
         NEW r \in Requests, NEW s \in HelperState \ {"sent"}, Helper(r, s),
         s \in {"wgset", "ok"} /\ job[r].op = "create_peer" => hlp[r] = "wgset"
  PROVE  Recorded'
<1>1. \A p \in written : p.key \in Requests  BY DEF IInv, TypeOK, Peer
<1>2. \A q \in Requests : hlp'[q] = hlp[q] \/ (q = r /\ hlp'[q] \in {s, "idle"})
  <2>1. DOMAIN hlp = Requests  BY DEF IInv, TypeOK
  <2>2. \A q \in Requests : q # r => hlp'[q] = hlp[q]  BY <2>1 DEF Helper
  <2>3. hlp'[r] = s \/ hlp'[r] = "idle"  BY <2>1, Zenon DEF Helper
  <2> QED  BY <2>2, <2>3
<1> QED  BY <1>1, <1>2 DEF Recorded, At, web

\* So does every helper command; add_peer writes the file and the history at
\* once.
LEMMA RecordedCommand ==
  ASSUME IInv, Recorded, NEW r \in Requests, Command(r)
  PROVE  Recorded'
<1> USE DEF At, HelperState, disk, kernel, web
<1>1. CASE HCreateTunnel(r)  BY <1>1, RecordedHelper DEF HCreateTunnel
<1>2. CASE HDisable(r)  BY <1>2, RecordedHelper DEF HDisable
<1>3. CASE HUnlink(r)  BY <1>3, RecordedHelper DEF HUnlink
<1>4. CASE HAddConf(r)
  <2> DEFINE t == job[r].tunnel
             p == job[r].peer
  <2>1. CASE CanAdd(t, p)
    <3>1. p.key = r  BY <1>4 DEF HAddConf, IInv, Bookkeeping
    <3>2. written' = written \cup {p}  BY <1>4, <2>1 DEF HAddConf
    <3>3. hlp' = [hlp EXCEPT ![r] = hlp'[r]] /\ hlp'[r] \in {"wgset", "ok", "idle"}
      BY <1>4, <2>1 DEF HAddConf, Helper, AfterWrite, IInv, TypeOK
    <3>4. app[r] \notin {"new", "status"}  BY <1>4 DEF HAddConf, IInv, Bookkeeping
    <3>5. \A q \in written : q.key \in Requests  BY DEF IInv, TypeOK, Peer
    <3> QED
      BY <1>4, <3>1, <3>2, <3>3, <3>4, <3>5 DEF HAddConf, Recorded, IInv, TypeOK
  <2>2. CASE ~CanAdd(t, p)  BY <1>4, <2>2, RecordedHelper DEF HAddConf
  <2> QED  BY <2>1, <2>2
<1>5. CASE HRemoveConf(r)
  <2>1. job[r].op = "delete_peer"  BY <1>5 DEF HRemoveConf
  <2> QED  BY <1>5, <2>1, RecordedHelper DEF HRemoveConf, AfterWrite
<1>6. CASE HWgSet(r)  BY <1>6, RecordedHelper DEF HWgSet
<1>7. CASE HActivate(r)  BY <1>7, RecordedHelper DEF HActivate
<1>8. CASE HStop(r)
  <2>1. job[r].op # "create_peer"  BY <1>8 DEF HStop
  <2> QED  BY <1>8, <2>1, RecordedHelper DEF HStop
<1>9. CASE HStarted(r)
  <2>1. job[r].op # "create_peer"  BY <1>9 DEF HStarted
  <2> QED  BY <1>9, <2>1, RecordedHelper DEF HStarted
<1> QED
  BY <1>1, <1>2, <1>3, <1>4, <1>5, <1>6, <1>7, <1>8, <1>9 DEF Command

\* And so does every fault: what a lost handler held is forgotten.
LEMMA RecordedBreakdown ==
  ASSUME IInv, Recorded, Breakdown
  PROVE  Recorded'
<1> USE DEF At, HelperState, disk, kernel, web
<1>0. \A p \in written : p.key \in Requests  BY DEF IInv, TypeOK, Peer
<1>1. ASSUME NEW r \in Requests, WgSetFails(r) \/ DisableFails(r) \/ StopFails(r)
      PROVE  Recorded'
  BY <1>1, RecordedHelper DEF WgSetFails, DisableFails, StopFails
<1>2. CASE AppCrash
  BY <1>0, <1>2 DEF AppCrash, Open, NoTunnels, Recorded
<1>3. CASE HelperCrash
  BY <1>0, <1>3 DEF HelperCrash, Recorded
<1>4. CASE Reboot
  BY <1>0, <1>4 DEF Reboot, Open, NoTunnels, Recorded
<1> QED  BY <1>1, <1>2, <1>3, <1>4 DEF Breakdown

\* The inductive step of the history invariant.
LEMMA RecordedNext == IInv /\ Recorded /\ [Next]_vars => Recorded'
<1> SUFFICES ASSUME IInv, Recorded, [Next]_vars PROVE Recorded'  OBVIOUS
<1>1. ASSUME NEW t \in Tunnels, WgQuickUp(t) PROVE Recorded'
  BY <1>1 DEF Recorded, At, WgQuickUp, disk, web
<1>2. CASE UNCHANGED vars  BY <1>2 DEF Recorded, At, vars, disk, kernel, web
<1> QED
  BY <1>1, <1>2, RecordedHandler, RecordedCommand, RecordedBreakdown DEF Next

\* Nothing is listed or written at first.
LEMMA RecordedInit == Init => Recorded
BY DEF Init, Recorded, NoTunnels, At, NoJob

\* The web interface never lists a peer that no add_peer has written to a
\* .conf, or with another address, whatever interleaves, crashes or fails.
THEOREM ListedConfigured == Spec => []ListedWasConfigured
<1>1. Recorded => ListedWasConfigured  BY DEF Recorded, ListedWasConfigured
<1> QED  BY <1>1, RecordedInit, RecordedNext, Inductive, PTL DEF Spec

----------------------------------------------------------------------------
(* The .conf files are a registry                                          *)

\* A step of a handler, of wg-quick or of a fault leaves the files alone.
LEMMA FilesAlone ==
  ASSUME \/ \E r \in Requests : Handler(r)
         \/ \E t \in Tunnels : WgQuickUp(t)
         \/ Breakdown
  PROVE  UNCHANGED disk
BY DEF Handler, BeginTunnelOp, BeginSetState, BeginCreatePeer, BeginDeletePeer, Allocate,
       FinishCreateTunnel, FinishDeleteTunnel, FinishCreatePeer, FinishDeletePeer,
       FinishSetState, Fail, WgQuickUp,
       Breakdown, WgSetFails, DisableFails, StopFails, AppCrash, HelperCrash, Reboot

\* Each helper command is an operation of the registry, or none.
LEMMA CommandIsOperation ==
  ASSUME IInv, Recorded, NEW r \in Requests, Command(r)
  PROVE  Registry!Next \/ UNCHANGED disk
<1> DEFINE t == job[r].tunnel
           p == job[r].peer
<1> USE DEF disk
<1>1. CASE HCreateTunnel(r)
  <2>1. t \in Tunnels  BY <1>1, JobKnown DEF HCreateTunnel, At, Ops, IInv
  <2>2. Registry!CreateTunnel(t) \/ UNCHANGED disk
    BY <1>1 DEF HCreateTunnel, Registry!CreateTunnel, With, Registry!With
  <2> QED  BY <2>1, <2>2 DEF Registry!Next
<1>2. CASE HUnlink(r)
  <2>1. t \in Tunnels  BY <1>2, JobKnown DEF HUnlink, At, Ops, IInv
  <2>2. Registry!DeleteTunnel(t)
    BY <1>2 DEF HUnlink, Registry!DeleteTunnel, Without, Registry!Without
  <2> QED  BY <2>1, <2>2 DEF Registry!Next
<1>3. CASE HAddConf(r)
  <2>1. t \in Tunnels /\ p \in Peer /\ p.key = r
    BY <1>3, JobKnown DEF HAddConf, At, Ops, IInv, Bookkeeping
  <2>2. \A q \in written : q.key # p.key
    BY <1>3, <2>1 DEF HAddConf, Recorded
  <2>3. CanAdd(t, p) => Registry!AddPeer(t, p)
    BY <1>3, <2>2
    DEF HAddConf, CanAdd, BlocksWith, Registry!AddPeer, With, Registry!With
  <2>4. ~CanAdd(t, p) => UNCHANGED disk  BY <1>3 DEF HAddConf
  <2> QED  BY <2>1, <2>3, <2>4 DEF Registry!Next, Registry!Peer, Peer
<1>4. CASE HRemoveConf(r)
  <2>1. t \in Tunnels /\ p.key \in Requests
    BY <1>4, JobKnown DEF HRemoveConf, At, Ops, IInv
  <2>2. Registry!RemovePeer(t, p.key) \/ UNCHANGED disk
    BY <1>4 DEF HRemoveConf, Registry!RemovePeer, With, Registry!With, Drop, Registry!Drop
  <2> QED  BY <2>1, <2>2 DEF Registry!Next
<1>5. CASE HDisable(r) \/ HWgSet(r) \/ HActivate(r) \/ HStop(r) \/ HStarted(r)
  BY <1>5 DEF HDisable, HWgSet, HActivate, HStop, HStarted
<1> QED  BY <1>1, <1>2, <1>3, <1>4, <1>5 DEF Command

\* Whatever requests interleave and whatever fails, the .conf files take the
\* steps of a registry with atomic operations in which no key comes twice.
THEOREM ConfImplementsRegistry == Spec => ConfIsRegistry
<1>1. Init => Registry!Init
  BY TunnelsAssumption DEF Init, Registry!Init
<1>2. IInv /\ Recorded /\ [Next]_vars => [Registry!Next]_<<conf, written>>
  <2> SUFFICES ASSUME IInv, Recorded, [Next]_vars
               PROVE  Registry!Next \/ UNCHANGED disk
    BY DEF disk
  <2>1. ASSUME NEW r \in Requests, Command(r)
        PROVE  Registry!Next \/ UNCHANGED disk
    BY <2>1, CommandIsOperation
  <2>2. CASE UNCHANGED vars  BY <2>2 DEF vars, disk
  <2> QED  BY <2>1, <2>2, FilesAlone DEF Next
<1> QED
  BY <1>1, <1>2, Inductive, RecordedInit, RecordedNext, PTL DEF Spec, ConfIsRegistry, Registry!Spec

----------------------------------------------------------------------------
(* A completed peer is configured                                          *)

\* A create_peer that has got past its write.
PastWrite(r) ==
  Asked(r, "create_peer") /\ (app[r] = "ok" \/ (app[r] = "await" /\ hlp[r] \in {"wgset", "ok"}))

\* The peer of a create_peer past its write is in the .conf, until its
\* deletion or that of its tunnel is asked for.
Configured ==
  \A r \in Requests :
    LET t == job[r].tunnel
    IN  PastWrite(r) /\ ~DeletionAsked(t, r) => t \in DOMAIN conf /\ job[r].peer \in conf[t]

\* A request keeps its job; only a create_peer that waits for a status gets
\* another address.
LEMMA JobsStay ==
  ASSUME IInv, [Next]_vars, NEW q \in Requests, job[q] # NoJob
  PROVE  /\ job'[q] = job[q] \/ (app[q] = "status" /\ Asked(q, "create_peer"))
         /\ job'[q].op = job[q].op /\ job'[q].tunnel = job[q].tunnel
         /\ job'[q].peer.key = job[q].peer.key
<1> USE DEF IInv, TypeOK, Bookkeeping, web, Asked
<1>1. CASE UNCHANGED job  BY <1>1
<1>2. ASSUME NEW r \in Requests, Handler(r), ~UNCHANGED job
      PROVE  \/ CanBegin(r) /\ \E j : job' = [job EXCEPT ![r] = j]
             \/ /\ app[r] = "status"
                /\ job' = [job EXCEPT ![r] =
                             [job[r] EXCEPT !.peer.addr = LowestFree(snap[r][job[r].tunnel])]]
  BY <1>2
  DEF Handler, BeginTunnelOp, BeginSetState, BeginCreatePeer, BeginDeletePeer, Allocate, Send,
      FinishCreateTunnel, FinishDeleteTunnel, FinishCreatePeer, FinishDeletePeer,
      FinishSetState, Fail, Respond
<1>3. ASSUME NEW r \in Requests, Handler(r), ~UNCHANGED job
      PROVE  /\ job'[q] = job[q] \/ (app[q] = "status" /\ Asked(q, "create_peer"))
             /\ job'[q].op = job[q].op /\ job'[q].tunnel = job[q].tunnel
             /\ job'[q].peer.key = job[q].peer.key
  <2>1. CASE CanBegin(r) /\ \E j : job' = [job EXCEPT ![r] = j]
    BY <2>1 DEF CanBegin
  <2>2. CASE /\ app[r] = "status"
             /\ job' = [job EXCEPT ![r] =
                          [job[r] EXCEPT !.peer.addr = LowestFree(snap[r][job[r].tunnel])]]
    <3>1. job[r] \in Job  BY <2>2
    <3>2. CASE q = r
      <4> DEFINE a == LowestFree(snap[r][job[r].tunnel])
      <4>1. job'[q] = [job[r] EXCEPT !.peer.addr = a]  BY <2>2, <3>2
      <4> HIDE DEF a
      <4>2. job'[q].op = job[q].op /\ job'[q].tunnel = job[q].tunnel
            /\ job'[q].peer.key = job[q].peer.key
        BY <3>1, <3>2, <4>1 DEF Job, Peer
      <4> QED  BY <2>2, <3>2, <4>2
    <3>3. CASE q # r  BY <2>2, <3>3
    <3> QED  BY <3>2, <3>3
  <2> QED  BY <1>2, <1>3, <2>1, <2>2
<1>4. ASSUME NEW r \in Requests, Command(r) PROVE UNCHANGED job
  BY <1>4 DEF Command, HCreateTunnel, HDisable, HUnlink, HAddConf, HRemoveConf, HWgSet,
              HActivate, HStop, HStarted
<1>5. ASSUME NEW t \in Tunnels, WgQuickUp(t) PROVE UNCHANGED job  BY <1>5 DEF WgQuickUp
<1>6. Breakdown => UNCHANGED job
  BY DEF Breakdown, WgSetFails, DisableFails, StopFails, AppCrash, HelperCrash, Reboot
<1>7. UNCHANGED vars => UNCHANGED job  BY DEF vars
<1> QED  BY <1>1, <1>3, <1>4, <1>5, <1>6, <1>7 DEF Next

\* A deletion once asked for stays asked for.
LEMMA DeletionStaysAsked ==
  ASSUME IInv, [Next]_vars, NEW t, NEW k, DeletionAsked(t, k)
  PROVE  DeletionAsked(t, k)'
<1>1. PICK q \in Requests : \/ Asked(q, "delete_peer") /\ job[q].peer.key = k
                            \/ Asked(q, "delete_tunnel") /\ job[q].tunnel = t
  BY DEF DeletionAsked
<1>2. job[q] # NoJob  BY <1>1 DEF Asked, NoJob
<1> QED  BY <1>1, <1>2, JobsStay DEF DeletionAsked, Asked

\* What a request whose deletion nobody asks for has in a .conf stays there.
LEMMA ConfKeeps ==
  ASSUME IInv, [Next]_vars, NEW t \in DOMAIN conf, NEW p \in conf[t],
         ~DeletionAsked(t, p.key)
  PROVE  t \in DOMAIN conf' /\ p \in conf'[t]
<1> USE DEF disk
<1>1. ASSUME NEW q \in Requests, Command(q)
      PROVE  t \in DOMAIN conf' /\ p \in conf'[t]
  <2>1. CASE HCreateTunnel(q)  BY <2>1 DEF HCreateTunnel, With
  <2>2. CASE HUnlink(q)
    <3>1. job[q].tunnel # t  BY <2>2 DEF HUnlink, At, DeletionAsked, Asked
    <3> QED  BY <2>2, <3>1 DEF HUnlink, Without
  <2>3. CASE HAddConf(q)  BY <2>3 DEF HAddConf, With, BlocksWith
  <2>4. CASE HRemoveConf(q)
    <3>1. job[q].peer.key # p.key  BY <2>4 DEF HRemoveConf, At, DeletionAsked, Asked
    <3> QED  BY <2>4, <3>1 DEF HRemoveConf, With, Drop
  <2>5. CASE HDisable(q) \/ HWgSet(q) \/ HActivate(q) \/ HStop(q) \/ HStarted(q)
    BY <2>5 DEF HDisable, HWgSet, HActivate, HStop, HStarted
  <2> QED  BY <1>1, <2>1, <2>2, <2>3, <2>4, <2>5 DEF Command
<1>2. CASE UNCHANGED vars  BY <1>2 DEF vars
<1> QED  BY <1>1, <1>2, FilesAlone DEF Next

\* A handler's step takes no request past its write: a reply comes first.
LEMMA PastWriteHandler ==
  ASSUME IInv, NEW q \in Requests, Handler(q), NEW r \in Requests, PastWrite(r)'
  PROVE  PastWrite(r) /\ job'[r] = job[r]
<1> USE DEF IInv, TypeOK, Bookkeeping, PastWrite, Asked, kernel, disk, web
<1>1. CASE \E t \in Tunnels : BeginTunnelOp(q, t)
  BY <1>1 DEF BeginTunnelOp, CanBegin, Send
<1>2. CASE \E t \in Tunnels : BeginSetState(q, t)
  BY <1>2 DEF BeginSetState, CanBegin, Send
<1>3. CASE \E t \in Tunnels : BeginCreatePeer(q, t)
  BY <1>3 DEF BeginCreatePeer, CanBegin
<1>4. CASE \E t \in Tunnels : BeginDeletePeer(q, t)
  BY <1>4 DEF BeginDeletePeer, CanBegin, Send
<1>5. CASE Allocate(q)
  <2>1. /\ \A u \in Requests \ {q} : app'[u] = app[u] /\ hlp'[u] = hlp[u] /\ job'[u] = job[u]
        /\ app'[q] = "failed" \/ (app'[q] = "await" /\ hlp'[q] = "sent")
    BY <1>5 DEF Allocate, Send
  <2> QED  BY <2>1
<1>6. CASE FinishCreateTunnel(q)
  BY <1>6 DEF FinishCreateTunnel, Succeeded, Replied, Respond
<1>7. CASE FinishDeleteTunnel(q)
  BY <1>7 DEF FinishDeleteTunnel, Succeeded, Replied, Respond
<1>8. CASE FinishCreatePeer(q)
  BY <1>8 DEF FinishCreatePeer, Succeeded, Replied, Respond
<1>9. CASE FinishDeletePeer(q)
  BY <1>9 DEF FinishDeletePeer, Succeeded, Replied, Respond
<1>10. CASE FinishSetState(q)
  BY <1>10 DEF FinishSetState, Replied, Respond, StateOps
<1>11. CASE Fail(q)
  BY <1>11 DEF Fail, Replied, Respond
<1> QED
  BY <1>1, <1>2, <1>3, <1>4, <1>5, <1>6, <1>7, <1>8, <1>9, <1>10, <1>11 DEF Handler

\* A step of the helper does by writing only.
LEMMA PastWriteCommand ==
  ASSUME IInv, NEW q \in Requests, Command(q), NEW r \in Requests, PastWrite(r)'
  PROVE  /\ job'[r] = job[r]
         /\ PastWrite(r) \/ (q = r /\ HAddConf(r) /\ CanAdd(job[r].tunnel, job[r].peer))
<1> USE DEF IInv, TypeOK, PastWrite, Asked, kernel, disk, web, At
<1>0. ASSUME NEW s, Helper(q, s), UNCHANGED web
      PROVE  hlp'[r] = hlp[r] \/ (q = r /\ hlp'[r] \in {s, "idle"})
  <2>1. r # q => hlp'[r] = hlp[r]  BY <1>0 DEF Helper
  <2>2. hlp'[q] = s \/ hlp'[q] = "idle"  BY <1>0, Zenon DEF Helper
  <2> QED  BY <2>1, <2>2
<1>1. CASE HCreateTunnel(q)  BY <1>0, <1>1 DEF HCreateTunnel
<1>2. CASE HDisable(q)  BY <1>0, <1>2 DEF HDisable
<1>3. CASE HUnlink(q)  BY <1>0, <1>3 DEF HUnlink
<1>4. CASE HAddConf(q)  BY <1>0, <1>4 DEF HAddConf
<1>5. CASE HRemoveConf(q)  BY <1>0, <1>5 DEF HRemoveConf
<1>6. CASE HWgSet(q)  BY <1>0, <1>6 DEF HWgSet
<1>7. CASE HActivate(q)  BY <1>0, <1>7 DEF HActivate
<1>8. CASE HStop(q)  BY <1>0, <1>8 DEF HStop
<1>9. CASE HStarted(q)  BY <1>0, <1>9 DEF HStarted
<1> QED
  BY <1>1, <1>2, <1>3, <1>4, <1>5, <1>6, <1>7, <1>8, <1>9 DEF Command

\* No fault does.
LEMMA PastWriteBreakdown ==
  ASSUME IInv, Breakdown, NEW r \in Requests, PastWrite(r)'
  PROVE  PastWrite(r) /\ job'[r] = job[r]
<1> USE DEF IInv, TypeOK, PastWrite, Asked, kernel, disk, web, At
<1>1. ASSUME NEW q \in Requests, WgSetFails(q) \/ DisableFails(q) \/ StopFails(q)
      PROVE  PastWrite(r) /\ job'[r] = job[r]
  <2>1. r # q => hlp'[r] = hlp[r]  BY <1>1 DEF WgSetFails, DisableFails, StopFails, Helper
  <2>2. hlp'[q] \in {"err", "unlink", "idle"}
    BY <1>1, Zenon DEF WgSetFails, DisableFails, StopFails, Helper
  <2> QED  BY <1>1, <2>1, <2>2 DEF WgSetFails, DisableFails, StopFails
<1>2. CASE AppCrash  BY <1>2 DEF AppCrash, Open
<1>3. CASE HelperCrash  BY <1>3 DEF HelperCrash
<1>4. CASE Reboot  BY <1>4 DEF Reboot, Open
<1> QED  BY <1>1, <1>2, <1>3, <1>4 DEF Breakdown

\* So a request is past its write because it was, or has just written.
LEMMA PastWriteNext ==
  ASSUME IInv, [Next]_vars, NEW r \in Requests, PastWrite(r)'
  PROVE  /\ job'[r] = job[r]
         /\ PastWrite(r) \/ (HAddConf(r) /\ CanAdd(job[r].tunnel, job[r].peer))
<1>1. CASE \E q \in Requests : Handler(q)  BY <1>1, PastWriteHandler
<1>2. CASE \E q \in Requests : Command(q)  BY <1>2, PastWriteCommand
<1>3. CASE Breakdown  BY <1>3, PastWriteBreakdown
<1>4. ASSUME NEW t \in Tunnels, WgQuickUp(t)
      PROVE  PastWrite(r) /\ job'[r] = job[r]
  BY <1>4 DEF WgQuickUp, web, PastWrite, Asked
<1>5. CASE UNCHANGED vars  BY <1>5 DEF vars, web, PastWrite, Asked
<1> QED  BY <1>1, <1>2, <1>3, <1>4, <1>5 DEF Next

\* The inductive step: a request that stays past its write keeps its peer,
\* and one that gets past it has just written it.
LEMMA ConfiguredNext == IInv /\ Configured /\ [Next]_vars => Configured'
<1> SUFFICES ASSUME IInv, Configured, [Next]_vars, NEW r \in Requests, PastWrite(r)',
                    ~DeletionAsked(job[r].tunnel, r)'
             PROVE  job[r].tunnel \in DOMAIN conf' /\ job[r].peer \in conf'[job[r].tunnel]
  BY PastWriteNext DEF Configured
<1> DEFINE t == job[r].tunnel
           p == job[r].peer
<1>1. p.key = r  BY PastWriteNext DEF PastWrite, Asked, IInv, Bookkeeping
<1>2. ~DeletionAsked(t, r)
  <2> PICK u : u = t /\ u = job'[r].tunnel  BY PastWriteNext
  <2>1. ~DeletionAsked(u, r)'  BY DEF DeletionAsked, Asked
  <2> QED  BY <2>1, DeletionStaysAsked
<1>3. CASE PastWrite(r)
  <2>1. t \in DOMAIN conf /\ p \in conf[t]  BY <1>2, <1>3 DEF Configured
  <2> QED  BY <1>1, <1>2, <2>1, ConfKeeps
<1>4. CASE HAddConf(r) /\ CanAdd(t, p)
  BY <1>4 DEF HAddConf, With, BlocksWith
<1> QED  BY <1>3, <1>4, PastWriteNext

\* A create_peer that answered 200 stays in the .conf with its address until
\* someone asks to delete it or its tunnel, whatever interleaves, crashes or
\* fails.
THEOREM CompletedConfigured == Spec => []CompletedPeerConfigured
<1>1. Init => Configured  BY DEF Init, Configured, PastWrite, Asked, NoJob
<1>2. Configured => CompletedPeerConfigured  BY DEF Configured, PastWrite, CompletedPeerConfigured
<1> QED  BY <1>1, <1>2, ConfiguredNext, Inductive, PTL DEF Spec

=============================================================================
