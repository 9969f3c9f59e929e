------------------------------ MODULE WgControl ------------------------------
(***************************************************************************)
(* WireGuard administration: the web application (app/wireguard.py, one    *)
(* asyncio process), the privileged helper daemon it calls over a Unix     *)
(* socket (deploy/pi-wg-helperd/helper.py, another asyncio process), and   *)
(* what both change: the .conf files, the kernel's interfaces, systemd's   *)
(* enabled units and the peer metadata file peers.json.                    *)
(*                                                                         *)
(* A handler runs without interruption between two awaits, so an action    *)
(* here is the code between two awaits.  Requests interleave at awaits,    *)
(* and so do the helper's commands, one per request that waits for it.     *)
(* Calls that touch no shared state (wg genkey) and the requests that      *)
(* return early with nothing changed (404, 409) are not steps.             *)
(***************************************************************************)
EXTENDS Naturals, TunnelDict

CONSTANTS
  Tunnels,     \* tunnel names
  Created,     \* those created, activated and without peers at the start
  Requests,    \* HTTP requests; a create_peer request's name is also the key it generates
  Hosts,       \* host numbers of a tunnel's subnet, the same in every tunnel
  ServerAddr,  \* the host number of the tunnel's own address
  Serial,      \* TRUE: a client sends a request only when no other one is open
  MaxFaults    \* bound on crashes, reboots and failed commands

ASSUME TunnelsAssumption == Created \subseteq Tunnels
ASSUME HostsAssumption == Hosts \subseteq Nat \ {0} /\ ServerAddr \in Hosts
ASSUME SerialAssumption == Serial \in BOOLEAN
ASSUME FaultsAssumption == MaxFaults \in Nat

VARIABLES
  conf,      \* /etc/wireguard: tunnel |-> the [Peer] blocks of its .conf
  live,      \* kernel: interface |-> its peers; its domain is the interfaces that exist
  starting,  \* wg-quick up under way: tunnel |-> the peers it has read from the .conf
  enabled,   \* units systemd starts at boot
  meta,      \* peers.json: tunnel |-> the peers the web interface lists
  app,       \* request |-> where its handler stands
  job,       \* request |-> what it was asked to do
  snap,      \* request |-> the metadata its handler loaded before its awaits
  hlp,       \* request |-> where the helper command it waits for stands
  faults,    \* faults so far
  written    \* history: every peer an add_peer has written to a .conf

disk == <<conf, written>>
kernel == <<live, starting, enabled>>
web == <<meta, app, job, snap>>
vars == <<disk, kernel, web, hlp, faults>>

NoAddr == 0        \* the allowed-ips "(none)" of a live peer
NoJob == [op |-> "none"]
NoTunnels == [t \in {} |-> {}]

StateOps == {"activate", "deactivate", "disconnect"}
Ops == {"create_tunnel", "delete_tunnel", "create_peer", "delete_peer"} \cup StateOps
Peer == [key: Requests, addr: Hosts]
LivePeer == [key: Requests, addr: Hosts \cup {NoAddr}]
Job == [op: Ops, tunnel: Tunnels, peer: Peer]
AppState == {"new", "status", "await", "ok", "failed", "lost"}
HelperState == {"idle", "sent", "wgset", "unlink", "start", "ok", "err"}

\* Dictionaries from tunnel names to sets of peers.
IsDict(f, S) == \E D \in SUBSET Tunnels : f \in [D -> SUBSET S]

TypeOK ==
  /\ IsDict(conf, Peer)
  /\ IsDict(live, LivePeer)
  /\ IsDict(starting, Peer)
  /\ enabled \in SUBSET Tunnels
  /\ IsDict(meta, Peer)
  /\ app \in [Requests -> AppState]
  /\ job \in [Requests -> Job \cup {NoJob}]
  /\ DOMAIN snap = Requests /\ \A r \in Requests : IsDict(snap[r], Peer)
  /\ hlp \in [Requests -> HelperState]
  /\ faults \in 0..MaxFaults
  /\ written \in SUBSET Peer

----------------------------------------------------------------------------
(* Addresses                                                               *)

\* _allocate_peer_address: the lowest host number neither the tunnel's own
\* nor that of a peer in the loaded metadata.
Free(P) == Hosts \ ({ServerAddr} \cup {p.addr : p \in P})
LowestFree_IgnoresPeers(P) == CHOOSE a \in Free({}) : \A b \in Free({}) : a <= b
LowestFree_Network(P) == NoAddr
LowestFree(P) == CHOOSE a \in Free(P) : \A b \in Free(P) : a <= b

\* The kernel's allowed-ips are a routing table: an address set on one peer
\* leaves the peer that had it.
Assign(L, p) ==
  {[q EXCEPT !.addr = IF q.addr = p.addr THEN NoAddr ELSE q.addr] : q \in Drop(L, p.key)}
    \cup {p}

\* wg-quick loads the blocks of a file in order, and of blocks with the same
\* address the last one keeps it; the model lets any of them be the last.
Winners(P) == {w \in [{p.addr : p \in P} -> P] : \A a \in DOMAIN w : w[a].addr = a}
Loaded(P, w) == {[p EXCEPT !.addr = IF w[p.addr] = p THEN p.addr ELSE NoAddr] : p \in P}

Open == {r \in Requests : app[r] \in {"status", "await"}}
CanBegin(r) == app[r] = "new" /\ (Serial => Open = {})

----------------------------------------------------------------------------
(* The web application's handlers, from the request to the helper call     *)

Send(r, j) ==
  /\ job' = [job EXCEPT ![r] = j]
  /\ app' = [app EXCEPT ![r] = "await"]
  /\ hlp' = [hlp EXCEPT ![r] = "sent"]

JobOf(r, o, t) == [op |-> o, tunnel |-> t, peer |-> [key |-> r, addr |-> ServerAddr]]

\* create_tunnel past the overlap check, delete_tunnel.
BeginTunnelOp(r, t) ==
  /\ CanBegin(r)
  /\ \E o \in {"create_tunnel", "delete_tunnel"} : Send(r, JobOf(r, o, t))
  /\ UNCHANGED <<disk, kernel, meta, snap, faults>>

\* set_tunnel_state: the helper's tunnel_status knows the tunnel, and the
\* overlap check passes or is overridden.
BeginSetState(r, t) ==
  /\ CanBegin(r)
  /\ t \in DOMAIN conf
  /\ \E o \in StateOps : Send(r, JobOf(r, o, t))
  /\ UNCHANGED <<disk, kernel, meta, snap, faults>>

\* create_peer: load the metadata, then ask the helper for the tunnel's status.
BeginCreatePeer(r, t) ==
  /\ CanBegin(r)
  /\ t \in DOMAIN meta
  /\ job' = [job EXCEPT ![r] = JobOf(r, "create_peer", t)]
  /\ snap' = [snap EXCEPT ![r] = meta]
  /\ app' = [app EXCEPT ![r] = "status"]
  /\ UNCHANGED <<disk, kernel, meta, hlp, faults>>

\* cmd_tunnel_status: it lists the tunnels that have a .conf, with the public
\* key of those that have an interface.
ShownWithKey(t) == t \in DOMAIN conf /\ t \in DOMAIN live

\* The status arrives, and the handler needs a public key.  The address comes
\* from the metadata loaded before.
Allocate(r) ==
  LET t == job[r].tunnel
      P == snap[r][t]
  IN  /\ app[r] = "status"
      /\ IF ShownWithKey(t) /\ Free(P) # {}
         THEN /\ Send(r, [job[r] EXCEPT !.peer.addr = LowestFree(P)])
              /\ UNCHANGED snap
         ELSE /\ app' = [app EXCEPT ![r] = "failed"]
              /\ snap' = [snap EXCEPT ![r] = NoTunnels]
              /\ UNCHANGED <<job, hlp>>
      /\ UNCHANGED <<disk, kernel, meta, faults>>

\* delete_peer: load the metadata, find the peer, ask the helper to remove it.
BeginDeletePeer(r, t) ==
  /\ CanBegin(r)
  /\ t \in DOMAIN meta
  /\ \E p \in meta[t] : Send(r, [op |-> "delete_peer", tunnel |-> t, peer |-> p])
  /\ snap' = [snap EXCEPT ![r] = meta]
  /\ UNCHANGED <<disk, kernel, meta, faults>>

----------------------------------------------------------------------------
(* The helper's commands                                                   *)

At(r, state, ops) == hlp[r] = state /\ job[r].op \in ops

\* Nobody reads the reply to a request whose handler is gone.
Helper(r, state) ==
  hlp' = [hlp EXCEPT ![r] = IF app[r] = "lost" /\ state \in {"ok", "err"} THEN "idle" ELSE state]

\* systemd stops a unit: a start under way is cancelled, and wg-quick down
\* removes the interface if it still finds the .conf.
StopUnit(t) ==
  /\ starting' = Without(starting, t)
  /\ live' = IF t \in DOMAIN conf THEN Without(live, t) ELSE live

\* cmd_create_tunnel
HCreateTunnel(r) ==
  LET t == job[r].tunnel
  IN  /\ At(r, "sent", {"create_tunnel"})
      /\ IF t \in DOMAIN conf
         THEN Helper(r, "err") /\ UNCHANGED conf
         ELSE Helper(r, "ok") /\ conf' = With(conf, t, {})
      /\ UNCHANGED <<written, kernel, web, faults>>

\* cmd_delete_tunnel: systemctl disable --now, then unlink.
HDisable(r) ==
  LET t == job[r].tunnel
  IN  /\ At(r, "sent", {"delete_tunnel"})
      /\ StopUnit(t)
      /\ enabled' = enabled \ {t}
      /\ Helper(r, "unlink")
      /\ UNCHANGED <<disk, web, faults>>

HUnlink(r) ==
  /\ At(r, "unlink", {"delete_tunnel"})
  /\ conf' = Without(conf, job[r].tunnel)
  /\ Helper(r, "ok")
  /\ UNCHANGED <<written, kernel, web, faults>>

\* cmd_add_peer: read the .conf, write it with one more block, and look
\* whether the interface exists, all without an await.
CanAdd_Unchecked(t, p) == TRUE
CanAdd(t, p) == t \in DOMAIN conf /\ \A q \in conf[t] : q.key # p.key

BlocksWith_FromMetadata(r, t, p) == (IF t \in DOMAIN snap[r] THEN snap[r][t] ELSE {}) \cup {p}
BlocksWith(r, t, p) == (IF t \in DOMAIN conf THEN conf[t] ELSE {}) \cup {p}

AfterWrite_FileOnly(t) == "ok"
AfterWrite(t) == IF t \in DOMAIN live THEN "wgset" ELSE "ok"

HAddConf(r) ==
  LET t == job[r].tunnel
      p == job[r].peer
  IN  /\ At(r, "sent", {"create_peer"})
      /\ IF CanAdd(t, p)
         THEN /\ conf' = With(conf, t, BlocksWith(r, t, p))
              /\ written' = written \cup {p}
              /\ Helper(r, AfterWrite(t))
         ELSE Helper(r, "err") /\ UNCHANGED disk
      /\ UNCHANGED <<kernel, web, faults>>

\* cmd_remove_peer, up to its await.
HRemoveConf(r) ==
  LET t == job[r].tunnel
  IN  /\ At(r, "sent", {"delete_peer"})
      /\ IF t \in DOMAIN conf
         THEN /\ conf' = With(conf, t, Drop(conf[t], job[r].peer.key))
              /\ Helper(r, AfterWrite(t))
         ELSE Helper(r, "err") /\ UNCHANGED conf
      /\ UNCHANGED <<written, kernel, web, faults>>

\* wg set <tunnel> peer <key> allowed-ips ... | remove; it fails when the
\* interface has gone.
HWgSet(r) ==
  LET t == job[r].tunnel
      p == job[r].peer
  IN  /\ At(r, "wgset", {"create_peer", "delete_peer"})
      /\ IF t \notin DOMAIN live
         THEN Helper(r, "err") /\ UNCHANGED live
         ELSE /\ Helper(r, "ok")
              /\ live' = With(live, t, IF job[r].op = "create_peer" THEN Assign(live[t], p)
                                                                   ELSE Drop(live[t], p.key))
      /\ UNCHANGED <<disk, starting, enabled, web, faults>>

\* cmd_set_tunnel_state.  disconnect leaves the unit enabled.
HActivate(r) ==
  LET t == job[r].tunnel
  IN  /\ At(r, "sent", {"activate"})
      /\ IF t \notin DOMAIN conf
         THEN Helper(r, "err") /\ UNCHANGED kernel
         ELSE /\ enabled' = enabled \cup {t}
              /\ starting' = IF t \in DOMAIN live \cup DOMAIN starting
                             THEN starting ELSE With(starting, t, conf[t])
              /\ Helper(r, "start")
              /\ UNCHANGED live
      /\ UNCHANGED <<disk, web, faults>>

HStop(r) ==
  LET t == job[r].tunnel
  IN  /\ At(r, "sent", {"deactivate", "disconnect"})
      /\ IF t \notin DOMAIN conf
         THEN Helper(r, "err") /\ UNCHANGED kernel
         ELSE /\ StopUnit(t)
              /\ enabled' = IF job[r].op = "deactivate" THEN enabled \ {t} ELSE enabled
              /\ Helper(r, "ok")
      /\ UNCHANGED <<disk, web, faults>>

\* systemctl enable --now returns when the start job has ended.
HStarted(r) ==
  LET t == job[r].tunnel
  IN  /\ At(r, "start", {"activate"})
      /\ t \notin DOMAIN starting
      /\ Helper(r, IF t \in DOMAIN live THEN "ok" ELSE "err")
      /\ UNCHANGED <<disk, kernel, web, faults>>

\* wg-quick up ends: the interface exists with the peers it read.
WgQuickUp(t) ==
  /\ t \in DOMAIN starting
  /\ \E w \in Winners(starting[t]) : live' = With(live, t, Loaded(starting[t], w))
  /\ starting' = Without(starting, t)
  /\ UNCHANGED <<disk, enabled, web, hlp, faults>>

----------------------------------------------------------------------------
(* The handlers again, from the helper's reply to the response             *)

Replied(r, reply, ops) == app[r] = "await" /\ hlp[r] = reply /\ job[r].op \in ops
Succeeded_AnyReply(r, o) == Replied(r, "ok", {o}) \/ Replied(r, "err", {o})
Succeeded(r, o) == Replied(r, "ok", {o})

Respond(r, state) ==
  /\ app' = [app EXCEPT ![r] = state]
  /\ hlp' = [hlp EXCEPT ![r] = "idle"]
  /\ snap' = [snap EXCEPT ![r] = NoTunnels]
  /\ UNCHANGED job

\* create_tunnel and delete_tunnel load the metadata after the await.
FinishCreateTunnel(r) ==
  /\ Succeeded(r, "create_tunnel")
  /\ meta' = With(meta, job[r].tunnel, {})
  /\ Respond(r, "ok")
  /\ UNCHANGED <<disk, kernel, faults>>

FinishDeleteTunnel(r) ==
  /\ Succeeded(r, "delete_tunnel")
  /\ meta' = Without(meta, job[r].tunnel)
  /\ Respond(r, "ok")
  /\ UNCHANGED <<disk, kernel, faults>>

\* create_peer and delete_peer save the metadata they loaded before it.
FinishCreatePeer(r) ==
  LET t == job[r].tunnel
  IN  /\ Succeeded(r, "create_peer")
      /\ meta' = With(snap[r], t, snap[r][t] \cup {job[r].peer})
      /\ Respond(r, "ok")
      /\ UNCHANGED <<disk, kernel, faults>>

FinishDeletePeer(r) ==
  LET t == job[r].tunnel
  IN  /\ Succeeded(r, "delete_peer")
      /\ meta' = With(snap[r], t, Drop(snap[r][t], job[r].peer.key))
      /\ Respond(r, "ok")
      /\ UNCHANGED <<disk, kernel, faults>>

FinishSetState(r) ==
  /\ Replied(r, "ok", StateOps)
  /\ Respond(r, "ok")
  /\ UNCHANGED <<disk, kernel, meta, faults>>

\* An error or an empty reply is a 502 and nothing is saved.
Fail(r) ==
  /\ Replied(r, "err", Ops)
  /\ Respond(r, "failed")
  /\ UNCHANGED <<disk, kernel, meta, faults>>

----------------------------------------------------------------------------
(* Faults                                                                  *)

Fault == faults < MaxFaults /\ faults' = faults + 1

\* wg set exits with an error: the .conf keeps the change.
WgSetFails(r) ==
  /\ Fault
  /\ At(r, "wgset", Ops)
  /\ Helper(r, "err")
  /\ UNCHANGED <<disk, kernel, web>>

\* delete_tunnel ignores the exit status of systemctl.
DisableFails(r) ==
  /\ Fault
  /\ At(r, "sent", {"delete_tunnel"})
  /\ Helper(r, "unlink")
  /\ UNCHANGED <<disk, kernel, web>>

\* set_tunnel_state does not: systemctl has stopped nothing.
StopFails(r) ==
  /\ Fault
  /\ At(r, "sent", {"deactivate", "disconnect"})
  /\ Helper(r, "err")
  /\ UNCHANGED <<disk, kernel, web>>

\* The web application dies and systemd restarts it: its handlers are gone,
\* the helper goes on with the commands it has.
AppCrash ==
  /\ Fault
  /\ Open # {}
  /\ app' = [r \in Requests |-> IF r \in Open THEN "lost" ELSE app[r]]
  /\ hlp' = [r \in Requests |-> IF hlp[r] \in {"ok", "err"} THEN "idle" ELSE hlp[r]]
  /\ snap' = [r \in Requests |-> NoTunnels]
  /\ UNCHANGED <<disk, kernel, meta, job>>

\* The helper dies: its commands end where they are, and whoever waits for
\* one reads an empty reply, unless the reply was in the socket already.
\* Jobs systemd has taken go on.
HelperCrash ==
  /\ Fault
  /\ \E D \in SUBSET {r \in Requests : hlp[r] # "idle"} :
       /\ \A r \in Requests \ D : hlp[r] \in {"idle", "ok", "err"}
       /\ D # {}
       /\ hlp' = [r \in Requests |->
                    IF r \notin D THEN hlp[r] ELSE IF app[r] = "await" THEN "err" ELSE "idle"]
  /\ UNCHANGED <<disk, kernel, web>>

\* The machine restarts, and systemd starts the enabled units it finds a
\* .conf for.
Reboot ==
  /\ Fault
  /\ live' = NoTunnels
  /\ starting' = [t \in DOMAIN conf \cap enabled |-> conf[t]]
  /\ app' = [r \in Requests |-> IF r \in Open THEN "lost" ELSE app[r]]
  /\ hlp' = [r \in Requests |-> "idle"]
  /\ snap' = [r \in Requests |-> NoTunnels]
  /\ UNCHANGED <<disk, enabled, meta, job>>

----------------------------------------------------------------------------

Init ==
  /\ conf = [t \in Created |-> {}]
  /\ live = [t \in Created |-> {}]
  /\ starting = NoTunnels
  /\ enabled = Created
  /\ meta = [t \in Created |-> {}]
  /\ app = [r \in Requests |-> "new"]
  /\ job = [r \in Requests |-> NoJob]
  /\ snap = [r \in Requests |-> NoTunnels]
  /\ hlp = [r \in Requests |-> "idle"]
  /\ faults = 0
  /\ written = {}

Handler(r) ==
  \/ \E t \in Tunnels :
       \/ BeginTunnelOp(r, t) \/ BeginSetState(r, t)
       \/ BeginCreatePeer(r, t) \/ BeginDeletePeer(r, t)
  \/ Allocate(r)
  \/ FinishCreateTunnel(r) \/ FinishDeleteTunnel(r)
  \/ FinishCreatePeer(r) \/ FinishDeletePeer(r)
  \/ FinishSetState(r) \/ Fail(r)

Command(r) ==
  \/ HCreateTunnel(r) \/ HDisable(r) \/ HUnlink(r)
  \/ HAddConf(r) \/ HRemoveConf(r) \/ HWgSet(r)
  \/ HActivate(r) \/ HStop(r) \/ HStarted(r)

Breakdown ==
  \/ \E r \in Requests : WgSetFails(r) \/ DisableFails(r) \/ StopFails(r)
  \/ AppCrash \/ HelperCrash \/ Reboot

Next ==
  \/ \E r \in Requests : Handler(r) \/ Command(r)
  \/ \E t \in Tunnels : WgQuickUp(t)
  \/ Breakdown

Spec == Init /\ [][Next]_vars

----------------------------------------------------------------------------
(* Properties                                                              *)

Asked(r, o) == job[r].op = o
DeletionAsked(t, k) ==
  \E q \in Requests : \/ Asked(q, "delete_peer") /\ job[q].peer.key = k
                      \/ Asked(q, "delete_tunnel") /\ job[q].tunnel = t

\* The web interface lists only peers that an add_peer has written to a
\* .conf, each with the address written there: a handler saves the metadata
\* last, and only after the helper's success.
ListedWasConfigured == \A t \in DOMAIN meta : meta[t] \subseteq written

\* A create_peer that answered 200 is in the .conf with the address of the
\* downloaded file until somebody asks to delete the peer or its tunnel: the
\* helper's read and write of a .conf admit no lost update, whatever
\* interleaves with them and whatever fails.
CompletedPeerConfigured ==
  \A r \in Requests :
    LET t == job[r].tunnel
    IN  app[r] = "ok" /\ Asked(r, "create_peer") /\ ~DeletionAsked(t, r)
          => t \in DOMAIN conf /\ job[r].peer \in conf[t]

\* The .conf files behave as a registry with atomic operations in which no
\* removed key returns: nothing the handlers do between their awaits, and no
\* crash, shows there.
Registry == INSTANCE PeerRegistry WITH Keys <- Requests, reg <- conf, ever <- written
ConfIsRegistry == Registry!Spec

\* The interface and the .conf of an active tunnel hold the same peers but
\* for those a command is between its two writes on, when no interface is
\* started meanwhile and nothing fails.
LiveFollowsConf ==
  (faults = 0 /\ \A q \in Requests : ~Asked(q, "activate")) =>
    \A t \in DOMAIN live \cap DOMAIN conf :
      LET Keys(P) == {p.key : p \in P}
          Between == {job[q].peer.key : q \in {q \in Requests : hlp[q] = "wgset"}}
      IN  (Keys(live[t]) \cup Keys(conf[t])) \ (Keys(live[t]) \cap Keys(conf[t])) \subseteq Between

\* A delete_peer that answered 200 has revoked the peer: the key is in no
\* .conf and on no interface from then on, when no interface was started
\* meanwhile and nothing fails.
RevokedStaysOut ==
  \A r \in Requests :
    (/\ app[r] = "ok" /\ Asked(r, "delete_peer")
     /\ faults = 0
     /\ Serial \/ \A q \in Requests : ~Asked(q, "activate"))
      => /\ \A t \in DOMAIN conf : \A p \in conf[t] : p.key # job[r].peer.key
         /\ \A t \in DOMAIN live : \A p \in live[t] : p.key # job[r].peer.key

\* One client at a time and no fault: between requests the metadata, the
\* .conf files and the interfaces agree, peer by peer and address by address.
QuietAgreement ==
  Serial /\ faults = 0 /\ Open = {} =>
    /\ meta = conf
    /\ DOMAIN live \subseteq DOMAIN conf
    /\ \A t \in DOMAIN live : live[t] = conf[t]
    /\ \A t \in DOMAIN conf : \A p, q \in conf[t] : p.addr = q.addr => p = q

\* One client at a time: a peer that a .conf holds and the web interface
\* cannot delete (the metadata has no entry for it) comes from a create_peer
\* that did not answer 200.  A delete_peer that fails half-way leaves the
\* entry, so that it can be asked again.
OrphansComeFromFailedCreates ==
  Serial /\ Open = {} =>
    \A t \in DOMAIN conf : \A p \in conf[t] :
      p \notin (IF t \in DOMAIN meta THEN meta[t] ELSE {}) => app[p.key] # "ok"

\* "the SERVER's [Peer] entry for a given peer must list that peer's own
\* tunnel address" (app/wireguard.py:14): a live peer keeps its address.
LivePeerHasItsAddress ==
  faults = 0 => \A t \in DOMAIN live : \A p \in live[t] : p.addr # NoAddr

=============================================================================
