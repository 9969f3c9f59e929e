-------------------------- MODULE WgAgreementProofs --------------------------
(***************************************************************************)
(* More proofs about WgControl, for every set of tunnels, requests and     *)
(* hosts: how far the metadata, the .conf files and the interfaces agree,  *)
(* with requests that interleave, with one client at a time, and with      *)
(* faults.                                                                 *)
(***************************************************************************)
EXTENDS WgControlProofs

----------------------------------------------------------------------------
(* Where peers come from                                                   *)

\* A peer of a tunnel is what a create_peer on that tunnel was given.
Made(p, t) == Asked(p.key, "create_peer") /\ job[p.key].tunnel = t /\ job[p.key].peer = p

\* A request whose first helper step has been taken, or that is over.
Sent(r) == app[r] \notin {"new", "status"} /\ hlp[r] # "sent"

\* A request that is over, or not yet sent, has no command.
Idle == \A r \in Requests : app[r] \in {"new", "status", "ok", "failed"} => hlp[r] = "idle"

\* Metadata, saved or held, and deletions name peers whose create_peer
\* answered 200; a .conf and an interface, peers whose command has run.
ListedOrigins ==
  /\ \A t \in DOMAIN meta : \A p \in meta[t] : Made(p, t) /\ app[p.key] = "ok"
  /\ \A r \in Requests : \A t \in DOMAIN snap[r] : \A p \in snap[r][t] : Made(p, t) /\ app[p.key] = "ok"
  /\ \A r \in Requests : Asked(r, "delete_peer") =>
       Made(job[r].peer, job[r].tunnel) /\ app[job[r].peer.key] = "ok"
LoadedOrigins ==
  /\ \A t \in DOMAIN conf : \A p \in conf[t] : Made(p, t) /\ Sent(p.key)
  /\ \A t \in DOMAIN starting : \A p \in starting[t] : Made(p, t) /\ Sent(p.key)
  /\ \A t \in DOMAIN live : \A p \in live[t] : Asked(p.key, "create_peer") /\ job[p.key].tunnel = t

\* A delete_peer whose helper has written the .conf: no .conf has its key.
PastDrop(r) ==
  Asked(r, "delete_peer") /\ (app[r] = "ok" \/ (app[r] = "await" /\ hlp[r] \in {"wgset", "ok"}))
Dropped ==
  \A r \in Requests : PastDrop(r) =>
    \A t \in DOMAIN conf : \A p \in conf[t] : p.key # job[r].peer.key

Origins == Idle /\ ListedOrigins /\ LoadedOrigins /\ Dropped

----------------------------------------------------------------------------
(* One client at a time                                                    *)

OneOpen == \A q, r \in Open : q = r
PeerOps == {"create_peer", "delete_peer"}
TunnelOps == {"create_tunnel", "delete_tunnel"}

\* The metadata an open request has loaded is still what the file holds.
Fresh == \A r \in Open : job[r].op \in PeerOps => snap[r] = meta

\* A tunnel just made, or removed, has no peer that was ever answered for.
Cleared ==
  \A r \in Open : hlp[r] = "ok" /\ job[r].op \in TunnelOps /\ job[r].tunnel \in DOMAIN conf =>
    \A p \in conf[job[r].tunnel] : app[p.key] # "ok"
Listed ==
  \A t \in DOMAIN conf : \A p \in conf[t] :
    app[p.key] = "ok" => t \in DOMAIN meta /\ p \in meta[t]

Turns == Serial => OneOpen /\ Fresh /\ Cleared /\ Listed

----------------------------------------------------------------------------
(* When nothing fails                                                      *)

Calm == faults = 0
NoActivate == \A q \in Requests : ~Asked(q, "activate")
Waited == \A r \in Requests : app[r] # "lost" /\ (hlp[r] # "idle" => app[r] = "await")

KeysOf(P) == {p.key : p \in P}

\* r is between its write of the .conf of t and wg set, at key k.
Setting(r, t, k) == hlp[r] = "wgset" /\ job[r].tunnel = t /\ job[r].peer.key = k

\* Without activations an interface differs from its .conf only at the keys
\* of commands between the two writes; what such a command adds is in the
\* .conf, and a tunnel about to lose its .conf has lost its interface.
Follows ==
  /\ DOMAIN starting = {}
  /\ DOMAIN live \subseteq DOMAIN conf
  /\ \A r \in Requests : hlp[r] = "unlink" => job[r].tunnel \notin DOMAIN live
  /\ \A t \in DOMAIN live : \A k \in Requests :
       (k \in KeysOf(live[t])) # (k \in KeysOf(conf[t])) => \E r \in Requests : Setting(r, t, k)
  /\ \A r \in Requests : hlp[r] = "wgset" /\ Asked(r, "create_peer") /\ job[r].tunnel \in DOMAIN live
       => r \in KeysOf(conf[job[r].tunnel])

\* With one client, a start under way is the open request's.
Starts ==
  \A t \in DOMAIN starting : \E r \in Open : hlp[r] = "start" /\ job[r].tunnel = t

\* A delete_peer whose helper has ended with success.
Gone(r) == Asked(r, "delete_peer") /\ (app[r] = "ok" \/ (app[r] = "await" /\ hlp[r] = "ok"))
Revoked ==
  \A r \in Requests : Gone(r) =>
    /\ \A t \in DOMAIN live : job[r].peer.key \notin KeysOf(live[t])
    /\ \A t \in DOMAIN starting : job[r].peer.key \notin KeysOf(starting[t])

Quiet ==
  Calm => /\ Waited
          /\ NoActivate => Follows
          /\ Serial => Starts
          /\ Serial \/ NoActivate => Revoked

----------------------------------------------------------------------------
(* One client at a time, and nothing fails                                 *)

Same(f, g) == DOMAIN f \subseteq DOMAIN g /\ \A t \in DOMAIN f : f[t] = g[t]

\* What a request makes of the metadata when it answers.
Result(r) ==
  LET t == job[r].tunnel
      p == job[r].peer
  IN  CASE Asked(r, "create_tunnel") -> With(meta, t, {})
        [] Asked(r, "delete_tunnel") -> Without(meta, t)
        [] Asked(r, "create_peer") -> With(meta, t, meta[t] \cup {p})
        [] Asked(r, "delete_peer") -> With(meta, t, Drop(meta[t], p.key))
        [] OTHER -> meta

\* The .conf files are ahead of the metadata, by what r does.
Half(r) == r \in Open /\ hlp[r] \in {"wgset", "ok"}

\* The files are the metadata, or a request ahead of it; the interfaces are
\* the files, or one wg set behind; addresses are distinct, and one that has
\* been allocated and not yet set is nobody's.
Agreed ==
  /\ \A r \in Requests : Half(r) => conf = Result(r)
  /\ (\A r \in Requests : ~Half(r)) => conf = meta
  /\ \A r \in Requests : hlp[r] = "wgset" => job[r].tunnel \in DOMAIN live /\ Same(live, meta)
  /\ (\A r \in Requests : hlp[r] # "wgset") => Same(live, conf)
  /\ \A r \in Requests : hlp[r] = "unlink" => job[r].tunnel \notin DOMAIN live
  /\ \A r \in Requests : hlp[r] = "start" => job[r].tunnel \in DOMAIN live \cup DOMAIN starting
  /\ \A t \in DOMAIN starting : t \in DOMAIN conf /\ t \notin DOMAIN live /\ starting[t] = conf[t]
  /\ \A t \in DOMAIN conf : \A p, q \in conf[t] : p.addr = q.addr => p = q
  /\ \A r \in Requests : Asked(r, "create_peer") /\ hlp[r] \in {"sent", "wgset"} =>
       \A q \in meta[job[r].tunnel] : q.addr # job[r].peer.addr
Agreement == Serial /\ Calm => Agreed

----------------------------------------------------------------------------
(* What a step can change                                                  *)

\* A helper's step moves the command of its request only.
LEMMA HelperMoves ==
  ASSUME IInv, NEW r \in Requests, NEW s, Helper(r, s)
  PROVE  /\ \A q \in Requests \ {r} : hlp'[q] = hlp[q]
         /\ hlp'[r] \in {s, "idle"}
         /\ app[r] # "lost" => hlp'[r] = s
         /\ s \notin {"ok", "err"} => hlp'[r] = s
<1>1. DOMAIN hlp = Requests  BY DEF IInv, TypeOK
<1>2. hlp'[r] = IF app[r] = "lost" /\ s \in {"ok", "err"} THEN "idle" ELSE s
  BY <1>1 DEF Helper
<1>3. \A q \in Requests \ {r} : hlp'[q] = hlp[q]  BY <1>1 DEF Helper
<1> QED  BY <1>2, <1>3

\* A handler moves its own request only: it begins, waits for the helper, or
\* ends.
LEMMA HandlerMoves ==
  ASSUME IInv, NEW r \in Requests, Handler(r)
  PROVE  /\ \A q \in Requests \ {r} :
              app'[q] = app[q] /\ hlp'[q] = hlp[q] /\ job'[q] = job[q] /\ snap'[q] = snap[q]
         /\ \/ app[r] = "new" /\ app'[r] = "status" /\ hlp'[r] = hlp[r]
            \/ app[r] \in {"new", "status"} /\ app'[r] = "await" /\ hlp'[r] = "sent"
            \/ app[r] = "status" /\ app'[r] = "failed" /\ hlp'[r] = hlp[r]
            \/ app[r] = "await" /\ hlp[r] = "ok" /\ app'[r] = "ok" /\ hlp'[r] = "idle" /\ job'[r] = job[r]
            \/ app[r] = "await" /\ hlp[r] = "err" /\ app'[r] = "failed" /\ hlp'[r] = "idle" /\ job'[r] = job[r]
<1> USE DEF IInv, TypeOK
<1>1. CASE \E t \in Tunnels : BeginTunnelOp(r, t)
  BY <1>1 DEF BeginTunnelOp, CanBegin, Send
<1>2. CASE \E t \in Tunnels : BeginSetState(r, t)
  BY <1>2 DEF BeginSetState, CanBegin, Send
<1>3. CASE \E t \in Tunnels : BeginCreatePeer(r, t)
  BY <1>3 DEF BeginCreatePeer, CanBegin
<1>4. CASE \E t \in Tunnels : BeginDeletePeer(r, t)
  BY <1>4 DEF BeginDeletePeer, CanBegin, Send
<1>5. CASE Allocate(r)
  BY <1>5 DEF Allocate, Send
<1>6. CASE FinishCreateTunnel(r)
  BY <1>6 DEF FinishCreateTunnel, Succeeded, Replied, Respond
<1>7. CASE FinishDeleteTunnel(r)
  BY <1>7 DEF FinishDeleteTunnel, Succeeded, Replied, Respond
<1>8. CASE FinishCreatePeer(r)
  BY <1>8 DEF FinishCreatePeer, Succeeded, Replied, Respond
<1>9. CASE FinishDeletePeer(r)
  BY <1>9 DEF FinishDeletePeer, Succeeded, Replied, Respond
<1>10. CASE FinishSetState(r)
  BY <1>10 DEF FinishSetState, Replied, Respond
<1>11. CASE Fail(r)
  BY <1>11 DEF Fail, Replied, Respond
<1> QED
  BY <1>1, <1>2, <1>3, <1>4, <1>5, <1>6, <1>7, <1>8, <1>9, <1>10, <1>11 DEF Handler

\* A command moves its own only, and the web application not at all; where it
\* goes depends on the job.
LEMMA CommandMoves ==
  ASSUME IInv, NEW r \in Requests, Command(r)
  PROVE  /\ UNCHANGED web /\ UNCHANGED faults
         /\ hlp[r] \in {"sent", "wgset", "unlink", "start"}
         /\ hlp'[r] # "sent"
         /\ \A q \in Requests \ {r} : hlp'[q] = hlp[q]
         /\ app[r] # "lost" => hlp'[r] # "idle"
         /\ hlp'[r] = "wgset" => HAddConf(r) \/ HRemoveConf(r)
         /\ hlp'[r] = "unlink" => HDisable(r)
         /\ hlp'[r] = "start" => HActivate(r)
<1>1. CASE HCreateTunnel(r)  BY <1>1, HelperMoves DEF HCreateTunnel, At
<1>2. CASE HDisable(r)  BY <1>2, HelperMoves DEF HDisable, At
<1>3. CASE HUnlink(r)  BY <1>3, HelperMoves DEF HUnlink, At
<1>4. CASE HAddConf(r)  BY <1>4, HelperMoves DEF HAddConf, At, AfterWrite
<1>5. CASE HRemoveConf(r)  BY <1>5, HelperMoves DEF HRemoveConf, At, AfterWrite
<1>6. CASE HWgSet(r)  BY <1>6, HelperMoves DEF HWgSet, At
<1>7. CASE HActivate(r)  BY <1>7, HelperMoves DEF HActivate, At
<1>8. CASE HStop(r)  BY <1>8, HelperMoves DEF HStop, At
<1>9. CASE HStarted(r)  BY <1>9, HelperMoves DEF HStarted, At
<1> QED  BY <1>1, <1>2, <1>3, <1>4, <1>5, <1>6, <1>7, <1>8, <1>9 DEF Command

\* A fault ends handlers and commands and begins none.
LEMMA BreakdownMoves ==
  ASSUME IInv, Breakdown
  PROVE  /\ UNCHANGED <<disk, meta, job, enabled>>
         /\ faults' # 0
         /\ \A q \in Requests :
              /\ app'[q] = app[q] \/ (q \in Open /\ app'[q] = "lost")
              /\ hlp'[q] = hlp[q] \/ (hlp[q] # "idle" /\ hlp'[q] \in {"idle", "err", "unlink"})
              /\ hlp'[q] = "idle" \/ hlp[q] # "idle"
              /\ snap'[q] = snap[q] \/ (snap'[q] = NoTunnels /\ q \notin Open')
              /\ q \in Open' => q \in Open
<1> USE DEF IInv, TypeOK, web, disk, kernel
<1>0. Fault => faults' # 0  BY DEF Fault
<1>1. ASSUME NEW r \in Requests, WgSetFails(r) \/ DisableFails(r) \/ StopFails(r)
      PROVE  /\ \A q \in Requests \ {r} : hlp'[q] = hlp[q]
             /\ hlp'[r] \in {"idle", "err", "unlink"} /\ hlp[r] # "idle"
  BY <1>1, HelperMoves DEF WgSetFails, DisableFails, StopFails, At
<1>2. CASE \E r \in Requests : WgSetFails(r) \/ DisableFails(r) \/ StopFails(r)
  BY <1>0, <1>1, <1>2 DEF WgSetFails, DisableFails, StopFails, Open
<1>3. CASE AppCrash  BY <1>0, <1>3 DEF AppCrash, Open
<1>4. CASE HelperCrash  BY <1>0, <1>4 DEF HelperCrash, Open
<1>5. CASE Reboot  BY <1>0, <1>5 DEF Reboot, Open
<1> QED  BY <1>2, <1>3, <1>4, <1>5 DEF Breakdown

\* What has answered 200 or run its command stays so.
LEMMA PastStays ==
  ASSUME IInv, [Next]_vars, NEW q \in Requests
  PROVE  /\ app[q] = "ok" => app'[q] = "ok"
         /\ Sent(q) => Sent(q)'
         /\ app'[q] = "ok" => app[q] = "ok" \/ Sent(q)
<1> SUFFICES /\ app[q] = "ok" => app'[q] = "ok"
             /\ app[q] \notin {"new", "status"} /\ hlp[q] # "sent" =>
                  app'[q] \notin {"new", "status"} /\ hlp'[q] # "sent"
             /\ app'[q] = "ok" => app[q] = "ok" \/ (app[q] \notin {"new", "status"} /\ hlp[q] # "sent")
  BY DEF Sent
<1>1. ASSUME NEW r \in Requests, Handler(r)
      PROVE  /\ app[q] = "ok" => app'[q] = "ok"
             /\ app[q] \notin {"new", "status"} /\ hlp[q] # "sent" =>
                  app'[q] \notin {"new", "status"} /\ hlp'[q] # "sent"
             /\ app'[q] = "ok" => app[q] = "ok" \/ (app[q] \notin {"new", "status"} /\ hlp[q] # "sent")
  BY <1>1, HandlerMoves
<1>2. ASSUME NEW r \in Requests, Command(r)
      PROVE  /\ app'[q] = app[q]
             /\ hlp[q] # "sent" => hlp'[q] # "sent"
  BY <1>2, CommandMoves DEF web
<1>3. ASSUME Breakdown
      PROVE  /\ app'[q] = app[q] \/ (app[q] \in {"status", "await"} /\ app'[q] = "lost")
             /\ hlp[q] # "sent" => hlp'[q] # "sent"
  BY <1>3, BreakdownMoves DEF Open
<1>4. CASE UNCHANGED vars \/ \E t \in Tunnels : WgQuickUp(t)
  BY <1>4 DEF vars, web, WgQuickUp
<1> QED  BY <1>1, <1>2, <1>3, <1>4 DEF Next

\* So a peer of a tunnel stays one.
LEMMA MadeStays ==
  ASSUME IInv, [Next]_vars, NEW t, NEW p, p.key \in Requests,
         Made(p, t), app[p.key] \notin {"new", "status"}
  PROVE  Made(p, t)'
<1>1. job[p.key] # NoJob  BY DEF Made, Asked, NoJob
<1> QED  BY <1>1, JobsStay DEF Made, Asked

\* A .conf gets a peer from its own create_peer only.
LEMMA ConfGrows ==
  ASSUME IInv, [Next]_vars, NEW t \in DOMAIN conf', NEW p \in conf'[t]
  PROVE  \/ t \in DOMAIN conf /\ p \in conf[t]
         \/ \E r \in Requests : /\ HAddConf(r) /\ CanAdd(t, p)
                                /\ job[r].tunnel = t /\ job[r].peer = p
<1> USE DEF disk
<1>1. ASSUME NEW r \in Requests, Command(r)
      PROVE  \/ t \in DOMAIN conf /\ p \in conf[t]
             \/ HAddConf(r) /\ CanAdd(t, p) /\ job[r].tunnel = t /\ job[r].peer = p
  <2>1. CASE HCreateTunnel(r)  BY <2>1 DEF HCreateTunnel, With
  <2>2. CASE HUnlink(r)  BY <2>2 DEF HUnlink, Without
  <2>3. CASE HAddConf(r)
    BY <2>3 DEF HAddConf, With, BlocksWith, CanAdd
  <2>4. CASE HRemoveConf(r)  BY <2>4 DEF HRemoveConf, With, Drop
  <2>5. CASE HDisable(r) \/ HWgSet(r) \/ HActivate(r) \/ HStop(r) \/ HStarted(r)
    BY <2>5 DEF HDisable, HWgSet, HActivate, HStop, HStarted
  <2> QED  BY <1>1, <2>1, <2>2, <2>3, <2>4, <2>5 DEF Command
<1>2. CASE UNCHANGED vars  BY <1>2 DEF vars
<1> QED  BY <1>1, <1>2, FilesAlone DEF Next

\* The metadata gets one from what a handler holds, and from the create_peer
\* that answers; a handler holds what was in the metadata.
LEMMA MetaGrows ==
  ASSUME IInv, [Next]_vars, NEW t \in DOMAIN meta', NEW p \in meta'[t]
  PROVE  \/ t \in DOMAIN meta /\ p \in meta[t]
         \/ \E r \in Requests : t \in DOMAIN snap[r] /\ p \in snap[r][t]
         \/ \E r \in Requests : /\ FinishCreatePeer(r)
                                /\ job[r].tunnel = t /\ job[r].peer = p
<1> DEFINE Goal == \/ t \in DOMAIN meta /\ p \in meta[t]
                   \/ \E r \in Requests : t \in DOMAIN snap[r] /\ p \in snap[r][t]
                   \/ \E r \in Requests : /\ FinishCreatePeer(r)
                                          /\ job[r].tunnel = t /\ job[r].peer = p
<1>1. CASE UNCHANGED meta  BY <1>1
<1>2. ASSUME NEW r \in Requests, Handler(r), ~UNCHANGED meta PROVE Goal
  <2>0. FinishCreatePeer(r) \/ FinishDeletePeer(r) => job[r].tunnel \in DOMAIN snap[r]
    BY DEF FinishCreatePeer, FinishDeletePeer, Succeeded, Replied, IInv, Bookkeeping
  <2>1. CASE FinishCreateTunnel(r)  BY <2>1 DEF FinishCreateTunnel, With
  <2>2. CASE FinishDeleteTunnel(r)  BY <2>2 DEF FinishDeleteTunnel, Without
  <2>3. CASE FinishCreatePeer(r)
    <3>1. \/ t \in DOMAIN snap[r] /\ p \in snap[r][t]
          \/ job[r].tunnel = t /\ job[r].peer = p
      BY <2>0, <2>3 DEF FinishCreatePeer, With
    <3> QED  BY <2>3, <3>1
  <2>4. CASE FinishDeletePeer(r)
    <3>1. t \in DOMAIN snap[r] /\ p \in snap[r][t]
      BY <2>0, <2>4 DEF FinishDeletePeer, With, Drop
    <3> QED  BY <3>1
  <2> QED
    BY <1>2, <2>1, <2>2, <2>3, <2>4
    DEF Handler, BeginTunnelOp, BeginSetState, BeginCreatePeer, BeginDeletePeer, Allocate,
        FinishSetState, Fail
<1>3. ASSUME NEW r \in Requests, Command(r) PROVE UNCHANGED meta
  BY <1>3, CommandMoves DEF web
<1>4. Breakdown => UNCHANGED meta  BY BreakdownMoves
<1>5. CASE UNCHANGED vars \/ \E u \in Tunnels : WgQuickUp(u)
  BY <1>1, <1>5 DEF vars, web, WgQuickUp
<1> QED  BY <1>1, <1>2, <1>3, <1>4, <1>5 DEF Next

LEMMA SnapGrows ==
  ASSUME IInv, [Next]_vars, NEW r \in Requests
  PROVE  snap'[r] \in {snap[r], meta, NoTunnels}
<1>1. ASSUME NEW q \in Requests, Handler(q) PROVE snap'[r] \in {snap[r], meta, NoTunnels}
  BY <1>1 DEF IInv, TypeOK, Handler, BeginTunnelOp, BeginSetState, BeginCreatePeer, BeginDeletePeer,
       Allocate, FinishCreateTunnel, FinishDeleteTunnel, FinishCreatePeer, FinishDeletePeer,
       FinishSetState, Fail, Respond
<1>2. ASSUME NEW q \in Requests, Command(q) PROVE UNCHANGED snap
  BY <1>2, CommandMoves DEF web
<1>3. Breakdown => snap'[r] \in {snap[r], NoTunnels}  BY BreakdownMoves
<1>4. CASE UNCHANGED vars \/ \E u \in Tunnels : WgQuickUp(u)
  BY <1>4 DEF vars, web, WgQuickUp
<1> QED  BY <1>1, <1>2, <1>3, <1>4 DEF Next

\* An interface that is started has what the .conf had.
LEMMA StartingGrows ==
  ASSUME IInv, [Next]_vars, NEW t \in DOMAIN starting'
  PROVE  \/ t \in DOMAIN starting /\ starting'[t] = starting[t]
         \/ /\ t \in DOMAIN conf /\ starting'[t] = conf[t]
            /\ (\E r \in Requests : HActivate(r) /\ job[r].tunnel = t) \/ Breakdown
<1> USE DEF disk, kernel
<1>1. ASSUME NEW r \in Requests, Command(r)
      PROVE  \/ t \in DOMAIN starting /\ starting'[t] = starting[t]
             \/ t \in DOMAIN conf /\ starting'[t] = conf[t] /\ HActivate(r) /\ job[r].tunnel = t
  <2>1. CASE HDisable(r)  BY <2>1 DEF HDisable, StopUnit, Without
  <2>2. CASE HStop(r)  BY <2>2 DEF HStop, StopUnit, Without
  <2>3. CASE HActivate(r)  BY <2>3 DEF HActivate, With
  <2>4. CASE HCreateTunnel(r) \/ HUnlink(r) \/ HAddConf(r) \/ HRemoveConf(r) \/ HWgSet(r) \/ HStarted(r)
    BY <2>4 DEF HCreateTunnel, HUnlink, HAddConf, HRemoveConf, HWgSet, HStarted
  <2> QED  BY <1>1, <2>1, <2>2, <2>3, <2>4 DEF Command
<1>2. ASSUME NEW r \in Requests, Handler(r) PROVE UNCHANGED starting
  BY <1>2 DEF Handler, BeginTunnelOp, BeginSetState, BeginCreatePeer, BeginDeletePeer, Allocate,
       FinishCreateTunnel, FinishDeleteTunnel, FinishCreatePeer, FinishDeletePeer, FinishSetState, Fail
<1>3. ASSUME NEW u \in Tunnels, WgQuickUp(u)
      PROVE  t \in DOMAIN starting /\ starting'[t] = starting[t]
  BY <1>3 DEF WgQuickUp, Without
<1>4. ASSUME Breakdown
      PROVE  \/ t \in DOMAIN starting /\ starting'[t] = starting[t]
             \/ t \in DOMAIN conf /\ starting'[t] = conf[t]
  BY <1>4 DEF Breakdown, WgSetFails, DisableFails, StopFails, AppCrash, HelperCrash, Reboot
<1>5. CASE UNCHANGED vars  BY <1>5 DEF vars
<1> QED  BY <1>1, <1>2, <1>3, <1>4, <1>5 DEF Next

\* An interface has the keys it had, of the peers it is started with, or of a
\* create_peer that sets its own.
LEMMA LiveGrows ==
  ASSUME IInv, [Next]_vars, NEW t \in DOMAIN live', NEW p \in live'[t]
  PROVE  \/ t \in DOMAIN live /\ p.key \in KeysOf(live[t])
         \/ t \in DOMAIN starting /\ p.key \in KeysOf(starting[t]) /\ WgQuickUp(t)
         \/ \E r \in Requests : /\ HWgSet(r) /\ Asked(r, "create_peer")
                                /\ job[r].tunnel = t /\ p = job[r].peer
<1> DEFINE Old == t \in DOMAIN live /\ p.key \in KeysOf(live[t])
<1>0. t \in DOMAIN live /\ p \in live[t] => Old  BY DEF KeysOf
<1> HIDE DEF Old
<1> USE DEF disk, kernel
<1>1. ASSUME NEW r \in Requests, Command(r)
      PROVE  \/ Old
             \/ HWgSet(r) /\ Asked(r, "create_peer") /\ job[r].tunnel = t /\ p = job[r].peer
  <2>1. CASE HDisable(r)  BY <1>0, <2>1 DEF HDisable, StopUnit, Without
  <2>2. CASE HStop(r)  BY <1>0, <2>2 DEF HStop, StopUnit, Without
  <2>3. CASE HWgSet(r)
    <3>1. CASE t = job[r].tunnel /\ t \in DOMAIN live /\ Asked(r, "create_peer")
      <4>1. p \in Assign(live[t], job[r].peer)  BY <2>3, <3>1 DEF HWgSet, With, Asked
      <4>2. CASE p = job[r].peer  BY <2>3, <3>1, <4>2
      <4>3. CASE p # job[r].peer
        <5>1. PICK q \in Drop(live[t], job[r].peer.key) :
                p = [q EXCEPT !.addr = IF q.addr = job[r].peer.addr THEN NoAddr ELSE q.addr]
          BY <4>1, <4>3 DEF Assign
        <5>2. q \in live[t] /\ q \in LivePeer  BY <3>1, <5>1, DictAt DEF Drop, IInv, TypeOK
        <5>3. p.key = q.key  BY <5>1, <5>2 DEF LivePeer
        <5> QED  BY <3>1, <5>2, <5>3 DEF Old, KeysOf
      <4> QED  BY <4>2, <4>3
    <3>2. CASE t = job[r].tunnel /\ t \in DOMAIN live /\ ~Asked(r, "create_peer")
      BY <1>0, <2>3, <3>2 DEF HWgSet, With, Asked, Drop
    <3>3. CASE ~(t = job[r].tunnel /\ t \in DOMAIN live)
      BY <1>0, <2>3, <3>3 DEF HWgSet, With
    <3> QED  BY <3>1, <3>2, <3>3
  <2>4. CASE HCreateTunnel(r) \/ HUnlink(r) \/ HAddConf(r) \/ HRemoveConf(r) \/ HActivate(r) \/ HStarted(r)
    BY <1>0, <2>4 DEF HCreateTunnel, HUnlink, HAddConf, HRemoveConf, HActivate, HStarted
  <2> QED  BY <1>1, <2>1, <2>2, <2>3, <2>4 DEF Command
<1>2. ASSUME NEW r \in Requests, Handler(r) PROVE UNCHANGED live
  BY <1>2 DEF Handler, BeginTunnelOp, BeginSetState, BeginCreatePeer, BeginDeletePeer, Allocate,
       FinishCreateTunnel, FinishDeleteTunnel, FinishCreatePeer, FinishDeletePeer, FinishSetState, Fail
<1>3. ASSUME NEW u \in Tunnels, WgQuickUp(u)
      PROVE  Old \/ (t \in DOMAIN starting /\ p.key \in KeysOf(starting[t]) /\ WgQuickUp(t))
  <2>1. CASE t = u
    <3>1. t \in DOMAIN starting /\ starting[t] \in SUBSET Peer
      BY <1>3, <2>1, DictAt DEF WgQuickUp, IInv, TypeOK
    <3>2. PICK w : p \in Loaded(starting[t], w)  BY <1>3, <2>1 DEF WgQuickUp, With
    <3>3. PICK q \in starting[t] : p = [q EXCEPT !.addr = IF w[q.addr] = q THEN q.addr ELSE NoAddr]
      BY <3>2 DEF Loaded
    <3>4. p.key = q.key  BY <3>1, <3>3 DEF Peer
    <3> QED  BY <1>3, <2>1, <3>1, <3>3, <3>4 DEF KeysOf
  <2>2. CASE t # u  BY <1>0, <1>3, <2>2 DEF WgQuickUp, With
  <2> QED  BY <2>1, <2>2
<1>4. ASSUME Breakdown PROVE t \in DOMAIN live /\ live'[t] = live[t]
  BY <1>4 DEF Breakdown, WgSetFails, DisableFails, StopFails, AppCrash, HelperCrash, Reboot, NoTunnels
<1>5. UNCHANGED vars => UNCHANGED live  BY DEF vars
<1>6. UNCHANGED live => Old  BY <1>0
<1> QED  BY <1>0, <1>1, <1>2, <1>3, <1>4, <1>5, <1>6 DEF Next, Old

----------------------------------------------------------------------------
(* Where peers come from, whatever interleaves and whatever fails          *)

\* A deletion names a peer the metadata had when it was asked for.
LEMMA DeletionsGrow ==
  ASSUME IInv, [Next]_vars, NEW q \in Requests, Asked(q, "delete_peer")'
  PROVE  \/ job'[q] = job[q] /\ Asked(q, "delete_peer")
         \/ job'[q].tunnel \in DOMAIN meta /\ job'[q].peer \in meta[job'[q].tunnel]
<1> USE DEF Asked
<1>1. CASE job[q] # NoJob
  BY <1>1, JobsStay
<1>2. CASE job[q] = NoJob
  <2>0. app[q] = "new" /\ job'[q] # job[q]
    BY <1>2 DEF IInv, Bookkeeping, NoJob, TypeOK, Job
  <2>1. ASSUME NEW r \in Requests, Handler(r)
        PROVE  job'[q].tunnel \in DOMAIN meta /\ job'[q].peer \in meta[job'[q].tunnel]
    <3>1. q = r  BY <2>0, <2>1, HandlerMoves
    <3>2. CASE \E t \in Tunnels : BeginDeletePeer(r, t)
      BY <3>1, <3>2 DEF BeginDeletePeer, Send, IInv, TypeOK
    <3>3. CASE \E t \in Tunnels : BeginTunnelOp(r, t) \/ BeginSetState(r, t) \/ BeginCreatePeer(r, t)
      BY <3>1, <3>3 DEF BeginTunnelOp, BeginSetState, BeginCreatePeer, Send, JobOf, StateOps, IInv, TypeOK
    <3> QED
      BY <2>0, <2>1, <3>1, <3>2, <3>3
      DEF Handler, Allocate, FinishCreateTunnel, FinishDeleteTunnel, FinishCreatePeer,
          FinishDeletePeer, FinishSetState, Fail, Succeeded, Replied
  <2>2. ASSUME NEW r \in Requests, Command(r) PROVE FALSE
    BY <2>0, <2>2, CommandMoves DEF web
  <2>3. CASE Breakdown  BY <2>0, <2>3, BreakdownMoves
  <2>4. CASE UNCHANGED vars \/ \E u \in Tunnels : WgQuickUp(u)
    BY <2>0, <2>4 DEF vars, web, WgQuickUp
  <2> QED  BY <2>1, <2>2, <2>3, <2>4 DEF Next
<1> QED  BY <1>1, <1>2

LEMMA IdleNext == IInv /\ Idle /\ [Next]_vars => Idle'
<1> SUFFICES ASSUME IInv, Idle, [Next]_vars, NEW q \in Requests,
                    app'[q] \in {"new", "status", "ok", "failed"}
             PROVE  hlp'[q] = "idle"
  BY DEF Idle
<1>1. ASSUME NEW r \in Requests, Handler(r) PROVE hlp'[q] = "idle"
  BY <1>1, HandlerMoves DEF Idle, IInv, TypeOK
<1>2. ASSUME NEW r \in Requests, Command(r) PROVE hlp'[q] = "idle"
  <2>1. hlp[q] = "idle" /\ q # r  BY <1>2, CommandMoves DEF Idle, web
  <2> QED  BY <1>2, <2>1, CommandMoves
<1>3. CASE Breakdown
  <2>1. app'[q] = app[q]  BY <1>3, BreakdownMoves
  <2> QED  BY <1>3, <2>1, BreakdownMoves DEF Idle
<1>4. CASE UNCHANGED vars \/ \E u \in Tunnels : WgQuickUp(u)
  BY <1>4 DEF vars, web, WgQuickUp, Idle
<1> QED  BY <1>1, <1>2, <1>3, <1>4 DEF Next

\* A peer that is listed, with its create_peer done, stays so.
LEMMA DoneStays ==
  ASSUME IInv, [Next]_vars, NEW t, NEW p \in Peer, Made(p, t), app[p.key] = "ok"
  PROVE  Made(p, t)' /\ app'[p.key] = "ok"
<1>1. p.key \in Requests  BY DEF Peer
<1> QED  BY <1>1, PastStays, MadeStays

LEMMA ListedOriginsNext == IInv /\ ListedOrigins /\ [Next]_vars => ListedOrigins'
<1> SUFFICES ASSUME IInv, ListedOrigins, [Next]_vars PROVE ListedOrigins'
  OBVIOUS
<1>0. /\ \A t \in DOMAIN meta : \A p \in meta[t] : p \in Peer /\ Made(p, t) /\ app[p.key] = "ok"
      /\ \A r \in Requests : \A t \in DOMAIN snap[r] : \A p \in snap[r][t] :
           p \in Peer /\ Made(p, t) /\ app[p.key] = "ok"
  BY DictAt DEF ListedOrigins, IInv, TypeOK
<1>1. ASSUME NEW t \in DOMAIN meta', NEW p \in meta'[t]
      PROVE  Made(p, t)' /\ app'[p.key] = "ok"
  <2>1. CASE t \in DOMAIN meta /\ p \in meta[t]
    BY <1>0, <2>1, DoneStays
  <2>2. CASE \E r \in Requests : t \in DOMAIN snap[r] /\ p \in snap[r][t]
    BY <1>0, <2>2, DoneStays
  <2>3. ASSUME NEW r \in Requests, FinishCreatePeer(r), job[r].tunnel = t, job[r].peer = p
        PROVE  Made(p, t)' /\ app'[p.key] = "ok"
    <3>1. Asked(r, "create_peer") /\ p.key = r /\ app[r] = "await"
      BY <2>3 DEF FinishCreatePeer, Succeeded, Replied, Asked, IInv, Bookkeeping
    <3>2. app'[r] = "ok"
      BY <2>3 DEF FinishCreatePeer, Respond, IInv, TypeOK
    <3>3. Made(p, t)  BY <2>3, <3>1 DEF Made
    <3> QED  BY <3>1, <3>2, <3>3, MadeStays
  <2> QED  BY <2>1, <2>2, <2>3, MetaGrows
<1>2. ASSUME NEW r \in Requests, NEW t \in DOMAIN snap'[r], NEW p \in snap'[r][t]
      PROVE  Made(p, t)' /\ app'[p.key] = "ok"
  BY <1>0, SnapGrows, DoneStays DEF NoTunnels
<1>3. ASSUME NEW r \in Requests, Asked(r, "delete_peer")'
      PROVE  Made(job[r].peer, job[r].tunnel)' /\ (app[job[r].peer.key] = "ok")'
  <2>1. CASE job'[r] = job[r] /\ Asked(r, "delete_peer")
    <3>1. job[r].peer \in Peer  BY <2>1, JobKnown DEF Asked, Ops, IInv
    <3>2. PICK p \in Peer : p = job[r].peer  BY <3>1
    <3>3. PICK t : t = job[r].tunnel  OBVIOUS
    <3>4. Made(p, t) /\ app[p.key] = "ok"  BY <2>1, <3>2, <3>3 DEF ListedOrigins
    <3>5. Made(p, t)' /\ app'[p.key] = "ok"  BY <3>4, DoneStays
    <3> QED  BY <2>1, <3>2, <3>3, <3>5 DEF Made, Asked
  <2>2. CASE job'[r].tunnel \in DOMAIN meta /\ job'[r].peer \in meta[job'[r].tunnel]
    <3>1. PICK t \in DOMAIN meta : t = job'[r].tunnel  BY <2>2
    <3>2. PICK p \in meta[t] : p = job'[r].peer  BY <2>2, <3>1
    <3>3. Made(p, t)' /\ app'[p.key] = "ok"  BY <1>0, DoneStays
    <3> QED  BY <3>1, <3>2, <3>3 DEF Made, Asked
  <2> QED  BY <1>3, <2>1, <2>2, DeletionsGrow
<1>4. (\A t \in DOMAIN meta : \A p \in meta[t] : Made(p, t) /\ app[p.key] = "ok")'
  BY <1>1 DEF Made, Asked
<1>5. (\A r \in Requests : \A t \in DOMAIN snap[r] : \A p \in snap[r][t] : Made(p, t) /\ app[p.key] = "ok")'
  BY <1>2 DEF Made, Asked
<1>6. (\A r \in Requests : Asked(r, "delete_peer") =>
         Made(job[r].peer, job[r].tunnel) /\ app[job[r].peer.key] = "ok")'
  BY <1>3
<1> QED  BY <1>4, <1>5, <1>6 DEF ListedOrigins

\* A .conf has a peer from its command on; an interface has it from there.
LEMMA LoadedOriginsNext == IInv /\ LoadedOrigins /\ [Next]_vars => LoadedOrigins'
<1> SUFFICES ASSUME IInv, LoadedOrigins, [Next]_vars PROVE LoadedOrigins'
  OBVIOUS
<1>0. /\ \A t \in DOMAIN conf : \A p \in conf[t] : p \in Peer /\ Made(p, t) /\ Sent(p.key)
      /\ \A t \in DOMAIN starting : \A p \in starting[t] : p \in Peer /\ Made(p, t) /\ Sent(p.key)
      /\ \A t \in DOMAIN live : \A p \in live[t] :
           p.key \in Requests /\ Asked(p.key, "create_peer") /\ job[p.key].tunnel = t
  <2>1. \A t \in DOMAIN conf : \A p \in conf[t] : p \in Peer
    BY DictAt DEF IInv, TypeOK
  <2>2. \A t \in DOMAIN starting : \A p \in starting[t] : p \in Peer
    BY DictAt DEF IInv, TypeOK
  <2>3. \A t \in DOMAIN live : \A p \in live[t] : p \in LivePeer
    BY DictAt DEF IInv, TypeOK
  <2> QED  BY <2>1, <2>2, <2>3 DEF LoadedOrigins, LivePeer
<1>1. ASSUME NEW t, NEW p \in Peer, Made(p, t), Sent(p.key) PROVE Made(p, t)' /\ Sent(p.key)'
  <2>1. p.key \in Requests  BY DEF Peer
  <2>2. app[p.key] \notin {"new", "status"}  BY <1>1 DEF Sent
  <2> QED  BY <1>1, <2>1, <2>2, PastStays, MadeStays
<1>2. ASSUME NEW t \in DOMAIN conf', NEW p \in conf'[t] PROVE Made(p, t)' /\ Sent(p.key)'
  <2>1. CASE t \in DOMAIN conf /\ p \in conf[t]
    BY <1>0, <1>1, <2>1
  <2>2. ASSUME NEW r \in Requests, HAddConf(r), job[r].tunnel = t, job[r].peer = p
        PROVE  Made(p, t)' /\ Sent(p.key)'
    <3>1. Asked(r, "create_peer") /\ p.key = r /\ app[r] \notin {"new", "status"}
      BY <2>2 DEF HAddConf, At, Asked, IInv, Bookkeeping
    <3>2. Made(p, t)  BY <2>2, <3>1 DEF Made
    <3>3. hlp'[r] # "sent" /\ app' = app
      BY <2>2, CommandMoves DEF Command, web
    <3> QED  BY <3>1, <3>2, <3>3, MadeStays DEF Sent
  <2> QED  BY <2>1, <2>2, ConfGrows
<1>3. ASSUME NEW t \in DOMAIN starting', NEW p \in starting'[t] PROVE Made(p, t)' /\ Sent(p.key)'
  BY <1>0, <1>1, <1>3, StartingGrows
<1>4. ASSUME NEW t \in DOMAIN live', NEW p \in live'[t]
      PROVE  Asked(p.key, "create_peer")' /\ job'[p.key].tunnel = t
  <2>1. p.key \in Requests /\ Asked(p.key, "create_peer") /\ job[p.key].tunnel = t
    <3>1. CASE t \in DOMAIN live /\ p.key \in KeysOf(live[t])
      BY <1>0, <3>1 DEF KeysOf
    <3>2. CASE t \in DOMAIN starting /\ p.key \in KeysOf(starting[t])
      BY <1>0, <3>2 DEF KeysOf, Made, Peer
    <3>3. CASE \E r \in Requests : /\ HWgSet(r) /\ Asked(r, "create_peer")
                                   /\ job[r].tunnel = t /\ p = job[r].peer
      BY <3>3 DEF Asked, IInv, Bookkeeping
    <3> QED  BY <3>1, <3>2, <3>3, LiveGrows
  <2>2. job[p.key] # NoJob  BY <2>1 DEF Asked, NoJob
  <2> QED  BY <2>1, <2>2, JobsStay DEF Asked
<1> QED  BY <1>2, <1>3, <1>4 DEF LoadedOrigins, Asked

\* A request is past its removal because it was, or has just removed.
LEMMA PastDropNext ==
  ASSUME IInv, [Next]_vars, NEW r \in Requests, PastDrop(r)'
  PROVE  PastDrop(r) \/ (HRemoveConf(r) /\ job[r].tunnel \in DOMAIN conf)
<1> DEFINE Reached == app[r] = "ok" \/ (app[r] = "await" /\ hlp[r] \in {"wgset", "ok"})
<1>0. app'[r] = "ok" \/ (app'[r] = "await" /\ hlp'[r] \in {"wgset", "ok"})
  BY DEF PastDrop
<1>1. ASSUME NEW q \in Requests, Handler(q) PROVE Reached
  BY <1>0, <1>1, HandlerMoves
<1>2. ASSUME NEW q \in Requests, Command(q)
      PROVE  Reached \/ (q = r /\ app[r] = "await" /\ hlp'[r] \in {"wgset", "ok"})
  BY <1>0, <1>2, CommandMoves DEF web, IInv, Bookkeeping
<1>3. ASSUME Breakdown PROVE Reached
  BY <1>0, <1>3, BreakdownMoves
<1>4. ASSUME UNCHANGED vars \/ \E u \in Tunnels : WgQuickUp(u) PROVE Reached
  BY <1>0, <1>4 DEF vars, web, WgQuickUp
<1>5. ASSUME Command(r), app[r] = "await", hlp'[r] \in {"wgset", "ok"}, Asked(r, "delete_peer")
      PROVE  Reached \/ (HRemoveConf(r) /\ job[r].tunnel \in DOMAIN conf)
  <2>1. HRemoveConf(r) \/ HWgSet(r)
    BY <1>5
    DEF Command, HCreateTunnel, HDisable, HUnlink, HAddConf, HActivate, HStop, HStarted, At, Asked
  <2>2. HWgSet(r) => hlp[r] = "wgset"  BY DEF HWgSet, At
  <2>3. HRemoveConf(r) /\ job[r].tunnel \notin DOMAIN conf => hlp'[r] = "err"
    BY <1>5, HelperMoves DEF HRemoveConf
  <2> QED  BY <1>5, <2>1, <2>2, <2>3
<1>6. Reached \/ (Command(r) /\ app[r] = "await" /\ hlp'[r] \in {"wgset", "ok"})
  BY <1>1, <1>2, <1>3, <1>4 DEF Next
<1>7. Asked(r, "delete_peer")
  <2>1. app[r] # "new"  BY <1>6
  <2>2. job[r] # NoJob  BY <2>1 DEF IInv, Bookkeeping, Job, NoJob
  <2> QED  BY <2>2, JobsStay DEF PastDrop, Asked
<1> QED  BY <1>5, <1>6, <1>7 DEF PastDrop

\* A key deleted returns to no .conf: its create_peer is over.
LEMMA DroppedNext ==
  IInv /\ Idle /\ ListedOrigins /\ LoadedOrigins /\ Dropped /\ [Next]_vars => Dropped'
<1> SUFFICES ASSUME IInv, Idle, ListedOrigins, LoadedOrigins, Dropped, [Next]_vars,
                    NEW r \in Requests, PastDrop(r)',
                    NEW t \in DOMAIN conf', NEW p \in conf'[t]
             PROVE  p.key # job'[r].peer.key
  BY DEF Dropped
<1>1. Asked(r, "delete_peer") /\ (PastDrop(r) \/ (HRemoveConf(r) /\ job[r].tunnel \in DOMAIN conf))
  BY PastDropNext DEF PastDrop, HRemoveConf, At, Asked
<1>2. job[r] # NoJob /\ job'[r].peer.key = job[r].peer.key
  BY <1>1, JobsStay DEF Asked, NoJob
<1>3. Made(job[r].peer, job[r].tunnel) /\ app[job[r].peer.key] = "ok" /\ job[r].peer.key \in Requests
  BY <1>1, JobKnown DEF ListedOrigins, Asked, Ops, IInv
<1>4. ASSUME NEW q \in Requests, HAddConf(q), job[q].peer = p PROVE p.key # job[r].peer.key
  BY <1>3, <1>4 DEF HAddConf, At, Idle, IInv, Bookkeeping
<1>5. ASSUME t \in DOMAIN conf, p \in conf[t] PROVE p.key # job[r].peer.key
  <2>1. CASE PastDrop(r)  BY <1>5, <2>1 DEF Dropped
  <2>2. CASE HRemoveConf(r) /\ job[r].tunnel \in DOMAIN conf
    <3>1. CASE t = job[r].tunnel  BY <2>2, <3>1 DEF HRemoveConf, With, Drop
    <3>2. CASE t # job[r].tunnel  BY <1>3, <1>5, <3>2 DEF LoadedOrigins, Made
    <3> QED  BY <3>1, <3>2
  <2> QED  BY <1>1, <2>1, <2>2
<1> QED  BY <1>2, <1>4, <1>5, ConfGrows

LEMMA OriginsNext == IInv /\ Origins /\ [Next]_vars => Origins'
BY IdleNext, ListedOriginsNext, LoadedOriginsNext, DroppedNext DEF Origins

LEMMA OriginsInit == Init => Origins
<1> SUFFICES ASSUME Init PROVE Origins  OBVIOUS
<1> USE DEF Init, NoTunnels, NoJob, Asked
<1>1. Idle  BY DEF Idle
<1>2. ListedOrigins  BY DEF ListedOrigins
<1>3. LoadedOrigins  BY DEF LoadedOrigins
<1>4. Dropped  BY DEF Dropped
<1> QED  BY <1>1, <1>2, <1>3, <1>4 DEF Origins

----------------------------------------------------------------------------
(* One client at a time, whatever fails                                    *)

\* A request opens when it begins, and with one client no other is open then.
LEMMA OpenGrows ==
  ASSUME IInv, [Next]_vars, NEW q \in Requests, q \in Open', q \notin Open
  PROVE  /\ Handler(q) /\ CanBegin(q)
         /\ hlp'[q] \in {"idle", "sent"}
         /\ \A r \in Requests \ {q} : app'[r] = app[r] /\ hlp'[r] = hlp[r]
<1>0. app'[q] \in {"status", "await"} /\ app[q] \notin {"status", "await"}  BY DEF Open
<1>1. ASSUME NEW r \in Requests, Handler(r) PROVE r = q /\ app[q] = "new"
  BY <1>0, <1>1, HandlerMoves
<1>2. ASSUME NEW r \in Requests, Command(r) PROVE FALSE
  BY <1>0, <1>2, CommandMoves DEF web
<1>3. ASSUME Breakdown PROVE FALSE
  BY <1>3, BreakdownMoves
<1>4. ASSUME UNCHANGED vars \/ \E u \in Tunnels : WgQuickUp(u) PROVE FALSE
  BY <1>0, <1>4 DEF vars, web, WgQuickUp
<1>5. Handler(q) /\ app[q] = "new"
  BY <1>1, <1>2, <1>3, <1>4 DEF Next
<1>6. CanBegin(q)
  BY <1>5 DEF Handler, BeginTunnelOp, BeginSetState, BeginCreatePeer, BeginDeletePeer, Allocate,
       FinishCreateTunnel, FinishDeleteTunnel, FinishCreatePeer, FinishDeletePeer, FinishSetState,
       Fail, Succeeded, Replied
<1>7. hlp[q] = "idle"  BY <1>5 DEF IInv, Bookkeeping
<1> QED  BY <1>5, <1>6, <1>7, HandlerMoves

LEMMA OneOpenNext == IInv /\ OneOpen /\ Serial /\ [Next]_vars => OneOpen'
<1> SUFFICES ASSUME IInv, OneOpen, Serial, [Next]_vars, NEW q \in Open', NEW r \in Open'
             PROVE  q = r
  BY DEF OneOpen
<1>1. q \in Requests /\ r \in Requests  BY DEF Open
<1>2. ASSUME NEW u \in Requests, u \in Open', u \notin Open
      PROVE  \A v \in Requests \ {u} : v \notin Open'
  <2>1. Open = {} /\ \A v \in Requests \ {u} : app'[v] = app[v]
    BY <1>2, OpenGrows DEF CanBegin
  <2> QED  BY <2>1 DEF Open
<1> QED  BY <1>1, <1>2 DEF OneOpen

\* A handler that has not answered has not saved anything.
LEMMA StaysOpen ==
  ASSUME IInv, NEW r \in Requests, Handler(r), r \in Open, r \in Open'
  PROVE  Allocate(r) /\ app'[r] = "await" /\ UNCHANGED <<snap, meta>>
<1>0. app[r] \in {"status", "await"} /\ app'[r] \in {"status", "await"}  BY DEF Open
<1>1. app[r] = "status" /\ app'[r] = "await"  BY <1>0, HandlerMoves
<1>2. Allocate(r)
  BY <1>1 DEF Handler, BeginTunnelOp, BeginSetState, BeginCreatePeer, BeginDeletePeer, CanBegin,
       FinishCreateTunnel, FinishDeleteTunnel, FinishCreatePeer, FinishDeletePeer, FinishSetState,
       Fail, Succeeded, Replied
<1> QED  BY <1>1, <1>2 DEF Allocate, IInv, TypeOK

\* Only the answer of an open request changes the metadata or makes one "ok".
LEMMA OnlyAnswers ==
  ASSUME IInv, [Next]_vars, ~UNCHANGED meta \/ \E q \in Requests : app'[q] = "ok" /\ app[q] # "ok"
  PROVE  \E r \in Open : /\ Handler(r) /\ r \notin Open' /\ app'[r] = "ok" /\ hlp[r] = "ok"
                         /\ \A q \in Requests \ {r} : app'[q] = app[q]
<1>1. ASSUME NEW r \in Requests, Handler(r)
      PROVE  /\ app[r] = "await" /\ hlp[r] = "ok" /\ app'[r] = "ok"
             /\ \A q \in Requests \ {r} : app'[q] = app[q]
  <2>1. CASE UNCHANGED meta  BY <1>1, <2>1, HandlerMoves
  <2>2. CASE ~UNCHANGED meta
    <3>1. FinishCreateTunnel(r) \/ FinishDeleteTunnel(r) \/ FinishCreatePeer(r) \/ FinishDeletePeer(r)
      BY <1>1, <2>2
      DEF Handler, BeginTunnelOp, BeginSetState, BeginCreatePeer, BeginDeletePeer, Allocate,
          FinishSetState, Fail
    <3>2. app[r] = "await" /\ hlp[r] = "ok"
      BY <3>1
      DEF FinishCreateTunnel, FinishDeleteTunnel, FinishCreatePeer, FinishDeletePeer, Succeeded, Replied
    <3> QED  BY <1>1, <3>2, HandlerMoves
  <2> QED  BY <2>1, <2>2
<1>2. ASSUME NEW r \in Requests, Command(r) PROVE FALSE
  BY <1>2, CommandMoves DEF web
<1>3. ASSUME Breakdown PROVE FALSE
  BY <1>3, BreakdownMoves DEF Open
<1>4. ASSUME UNCHANGED vars \/ \E u \in Tunnels : WgQuickUp(u) PROVE FALSE
  BY <1>4 DEF vars, web, WgQuickUp
<1>5. PICK r \in Requests : Handler(r)
  BY <1>2, <1>3, <1>4 DEF Next
<1> QED  BY <1>1, <1>5 DEF Open

\* So what a handler of peers holds is the metadata itself.
LEMMA FreshNext == IInv /\ OneOpen /\ Fresh /\ Serial /\ [Next]_vars => Fresh'
<1> SUFFICES ASSUME IInv, OneOpen, Fresh, Serial, [Next]_vars,
                    NEW r \in Open', job'[r].op \in PeerOps
             PROVE  snap'[r] = meta'
  BY DEF Fresh, PeerOps
<1>0. r \in Requests  BY DEF Open
<1>1. CASE r \in Open
  <2>1. UNCHANGED meta  BY <1>1, OnlyAnswers DEF OneOpen
  <2>2. job[r] # NoJob  BY <1>0, <1>1 DEF Open, IInv, Bookkeeping, Job, NoJob
  <2>3. snap[r] = meta  BY <1>0, <1>1, <2>2, JobsStay DEF Fresh
  <2>4. ASSUME NEW q \in Requests, Handler(q) PROVE snap'[r] = snap[r]
    BY <1>0, <1>1, <2>4, HandlerMoves, StaysOpen
  <2>5. ASSUME NEW q \in Requests, Command(q) PROVE snap'[r] = snap[r]
    BY <2>5, CommandMoves DEF web
  <2>6. ASSUME Breakdown PROVE snap'[r] = snap[r]
    BY <1>0, <2>6, BreakdownMoves
  <2>7. ASSUME UNCHANGED vars \/ \E u \in Tunnels : WgQuickUp(u) PROVE snap'[r] = snap[r]
    BY <2>7 DEF vars, web, WgQuickUp
  <2> QED  BY <2>1, <2>3, <2>4, <2>5, <2>6, <2>7 DEF Next
<1>2. CASE r \notin Open
  <2>1. Handler(r) /\ app[r] = "new"  BY <1>0, <1>2, OpenGrows DEF CanBegin
  <2>2. CASE \E t \in Tunnels : BeginCreatePeer(r, t) \/ BeginDeletePeer(r, t)
    BY <1>0, <2>2 DEF BeginCreatePeer, BeginDeletePeer, IInv, TypeOK
  <2>3. CASE \E t \in Tunnels : BeginTunnelOp(r, t) \/ BeginSetState(r, t)
    BY <1>0, <2>3 DEF BeginTunnelOp, BeginSetState, Send, JobOf, StateOps, PeerOps, IInv, TypeOK
  <2> QED
    BY <2>1, <2>2, <2>3
    DEF Handler, Allocate, FinishCreateTunnel, FinishDeleteTunnel, FinishCreatePeer,
        FinishDeletePeer, FinishSetState, Fail, Succeeded, Replied
<1> QED  BY <1>1, <1>2

\* A tunnel is answered for when its file has been made or removed.
LEMMA TunnelOpRuns ==
  ASSUME IInv, [Next]_vars, NEW r \in Requests, r \in Open', hlp'[r] = "ok", job'[r].op \in TunnelOps
  PROVE  /\ r \in Open /\ job[r] = job'[r]
         /\ \/ hlp[r] = "ok"
            \/ HCreateTunnel(r) /\ job[r].tunnel \notin DOMAIN conf
            \/ HUnlink(r)
<1>1. r \in Open  BY OpenGrows
<1>2. job[r] # NoJob  BY <1>1 DEF Open, IInv, Bookkeeping, Job, NoJob
<1>3. job[r] = job'[r]  BY <1>2, JobsStay DEF Asked, TunnelOps
<1>4. ASSUME NEW q \in Requests, Handler(q) PROVE hlp[r] = "ok"
  BY <1>4, HandlerMoves
<1>5. ASSUME NEW q \in Requests, Command(q)
      PROVE  \/ hlp[r] = "ok"
             \/ HCreateTunnel(r) /\ job[r].tunnel \notin DOMAIN conf
             \/ HUnlink(r)
  <2>1. CASE q # r  BY <1>5, <2>1, CommandMoves
  <2>2. CASE q = r
    <3>1. HCreateTunnel(r) \/ HUnlink(r) \/ HDisable(r)
      BY <1>3, <1>5, <2>2
      DEF Command, HAddConf, HRemoveConf, HWgSet, HActivate, HStop, HStarted, At, TunnelOps
    <3>2. HDisable(r) => hlp'[r] = "unlink"  BY HelperMoves DEF HDisable
    <3>3. HCreateTunnel(r) /\ job[r].tunnel \in DOMAIN conf => hlp'[r] # "ok"
      BY HelperMoves DEF HCreateTunnel
    <3> QED  BY <3>1, <3>2, <3>3
  <2> QED  BY <2>1, <2>2
<1>6. ASSUME Breakdown PROVE hlp[r] = "ok"
  BY <1>6, BreakdownMoves
<1>7. ASSUME UNCHANGED vars \/ \E u \in Tunnels : WgQuickUp(u) PROVE hlp[r] = "ok"
  BY <1>7 DEF vars, web, WgQuickUp
<1> QED  BY <1>1, <1>3, <1>4, <1>5, <1>6, <1>7 DEF Next

LEMMA ClearedNext == IInv /\ Idle /\ OneOpen /\ Cleared /\ Serial /\ [Next]_vars => Cleared'
<1> SUFFICES ASSUME IInv, Idle, OneOpen, Cleared, Serial, [Next]_vars,
                    NEW r \in Open', hlp'[r] = "ok", job'[r].op \in TunnelOps,
                    job'[r].tunnel \in DOMAIN conf', NEW p \in conf'[job'[r].tunnel]
             PROVE  app'[p.key] # "ok"
  BY DEF Cleared, TunnelOps
<1>0. r \in Requests  BY DEF Open
<1>1. r \in Open /\ job[r] = job'[r]  BY <1>0, TunnelOpRuns
<1> DEFINE t == job[r].tunnel
<1>2. CASE hlp[r] = "ok"
  <2>1. ~ \E q \in Requests : app'[q] = "ok" /\ app[q] # "ok"
    BY <1>1, OnlyAnswers DEF OneOpen
  <2>2. CASE t \in DOMAIN conf /\ p \in conf[t]
    <3>1. app[p.key] # "ok"  BY <1>1, <1>2, <2>2 DEF Cleared
    <3>2. p \in Peer  BY <2>2, DictAt DEF IInv, TypeOK
    <3> QED  BY <2>1, <3>1, <3>2 DEF Peer
  <2>3. ASSUME NEW q \in Requests, HAddConf(q), job[q].peer = p PROVE app'[p.key] # "ok"
    <3>1. p.key = q /\ app[q] # "ok"
      BY <2>3 DEF HAddConf, At, Idle, IInv, Bookkeeping
    <3> QED  BY <2>1, <3>1
  <2> QED  BY <1>1, <2>2, <2>3, ConfGrows
<1>3. CASE HCreateTunnel(r) /\ t \notin DOMAIN conf
  BY <1>1, <1>3 DEF HCreateTunnel, With
<1>4. CASE HUnlink(r)
  BY <1>1, <1>4 DEF HUnlink, Without
<1> QED  BY <1>0, <1>2, <1>3, <1>4, TunnelOpRuns

\* A peer whose create_peer answered 200 is listed as long as a .conf has it.
LEMMA ListedNext == IInv /\ Origins /\ OneOpen /\ Fresh /\ Cleared /\ Listed /\ [Next]_vars => Listed'
<1> SUFFICES ASSUME IInv, Origins, OneOpen, Fresh, Cleared, Listed, [Next]_vars,
                    NEW t \in DOMAIN conf', NEW p \in conf'[t], app'[p.key] = "ok"
             PROVE  t \in DOMAIN meta' /\ p \in meta'[t]
  BY DEF Listed
<1>1. t \in DOMAIN conf /\ p \in conf[t]
  <2>1. ASSUME NEW q \in Requests, HAddConf(q), job[q].peer = p PROVE FALSE
    <3>1. p.key = q /\ app[q] # "ok"
      BY <2>1 DEF HAddConf, At, Origins, Idle, IInv, Bookkeeping
    <3>2. Command(q)  BY <2>1 DEF Command
    <3> QED  BY <3>1, <3>2, CommandMoves DEF web
  <2> QED  BY <2>1, ConfGrows
<1>2. Made(p, t) /\ p.key \in Requests
  <2>1. p \in Peer  BY <1>1, DictAt DEF IInv, TypeOK
  <2> QED  BY <1>1, <2>1 DEF Origins, LoadedOrigins, Peer
<1>3. CASE UNCHANGED meta /\ app[p.key] = "ok"
  BY <1>1, <1>3 DEF Listed
<1>4. CASE ~UNCHANGED meta \/ app[p.key] # "ok"
  <2>1. PICK r \in Open : /\ Handler(r) /\ app'[r] = "ok" /\ hlp[r] = "ok"
                          /\ \A q \in Requests \ {r} : app'[q] = app[q]
    BY <1>2, <1>4, OnlyAnswers
  <2>2. r \in Requests /\ app[r] = "await"
    BY <2>1, HandlerMoves DEF Open
  <2>3. app[p.key] = "ok" => t \in DOMAIN meta /\ p \in meta[t]
    BY <1>1 DEF Listed
  <2>4. app[p.key] # "ok" => p.key = r
    BY <1>2, <2>1
  <2>5. CASE FinishCreateTunnel(r)
    <3>1. Asked(r, "create_tunnel")  BY <2>5 DEF FinishCreateTunnel, Succeeded, Replied, Asked
    <3>2. app[p.key] = "ok"  BY <1>2, <2>4, <3>1 DEF Made, Asked
    <3>3. job[r].tunnel # t  BY <1>1, <2>1, <3>1, <3>2 DEF Cleared, TunnelOps, Asked
    <3> QED  BY <2>3, <2>5, <3>2, <3>3 DEF FinishCreateTunnel, With
  <2>6. CASE FinishDeleteTunnel(r)
    <3>1. Asked(r, "delete_tunnel")  BY <2>6 DEF FinishDeleteTunnel, Succeeded, Replied, Asked
    <3>2. app[p.key] = "ok"  BY <1>2, <2>4, <3>1 DEF Made, Asked
    <3>3. job[r].tunnel # t  BY <1>1, <2>1, <3>1, <3>2 DEF Cleared, TunnelOps, Asked
    <3> QED  BY <2>3, <2>6, <3>2, <3>3 DEF FinishDeleteTunnel, Without
  <2>7. CASE FinishCreatePeer(r)
    <3>1. Asked(r, "create_peer")  BY <2>7 DEF FinishCreatePeer, Succeeded, Replied, Asked
    <3>2. snap[r] = meta  BY <2>1, <3>1 DEF Fresh, PeerOps, Asked
    <3>3. p.key = r => p = job[r].peer /\ t = job[r].tunnel  BY <1>2 DEF Made
    <3> QED  BY <2>3, <2>4, <2>7, <3>2, <3>3 DEF FinishCreatePeer, With
  <2>8. CASE FinishDeletePeer(r)
    <3>1. Asked(r, "delete_peer")  BY <2>8 DEF FinishDeletePeer, Succeeded, Replied, Asked
    <3>2. snap[r] = meta  BY <2>1, <3>1 DEF Fresh, PeerOps, Asked
    <3>3. app[p.key] = "ok"  BY <1>2, <2>4, <3>1 DEF Made, Asked
    <3>4. p.key # job[r].peer.key
      BY <1>1, <2>1, <2>2, <3>1 DEF Origins, Dropped, PastDrop
    <3> QED  BY <2>3, <2>8, <3>2, <3>3, <3>4 DEF FinishDeletePeer, With, Drop
  <2>9. CASE FinishSetState(r)
    <3>1. job[r].op \in StateOps  BY <2>9 DEF FinishSetState, Replied
    <3>2. app[p.key] = "ok"  BY <1>2, <2>4, <3>1 DEF Made, Asked, StateOps
    <3> QED  BY <2>3, <2>9, <3>2 DEF FinishSetState
  <2> QED
    BY <2>1, <2>2, <2>5, <2>6, <2>7, <2>8, <2>9
    DEF Handler, BeginTunnelOp, BeginSetState, BeginCreatePeer, BeginDeletePeer, CanBegin, Allocate,
        Fail, Replied
<1> QED  BY <1>3, <1>4

LEMMA TurnsNext == IInv /\ Origins /\ Turns /\ [Next]_vars => Turns'
<1> SUFFICES ASSUME IInv, Origins, Turns, [Next]_vars, Serial PROVE Turns'
  BY DEF Turns
<1> QED
  BY OneOpenNext, FreshNext, ClearedNext, ListedNext DEF Turns, Origins

LEMMA TurnsInit == Init => Turns
<1> SUFFICES ASSUME Init PROVE Turns  OBVIOUS
<1>1. Open = {}  BY DEF Init, Open
<1>2. Listed  BY DEF Init, Listed
<1> QED  BY <1>1, <1>2 DEF Turns, OneOpen, Fresh, Cleared

LEMMA OriginsHolds == Spec => [](IInv /\ Origins /\ Turns)
<1>1. IInv /\ Origins /\ Turns /\ [Next]_vars => (IInv /\ Origins /\ Turns)'
  BY IInvNext, OriginsNext, TurnsNext
<1> QED  BY <1>1, IInvInit, OriginsInit, TurnsInit, PTL DEF Spec

\* With one client at a time, a peer that a .conf holds and the web interface
\* cannot delete comes from a create_peer that did not answer 200, whatever
\* crashes or fails, commands of a dead handler that still run included.
THEOREM OrphansExplained == Spec => []OrphansComeFromFailedCreates
<1>1. Turns => OrphansComeFromFailedCreates
  BY DEF Turns, Listed, OrphansComeFromFailedCreates
<1> QED  BY <1>1, OriginsHolds, PTL

\* A peer whose removal has been written to the .conf is in no .conf again,
\* whatever interleaves and whatever crashes or fails: metadata saved late,
\* handlers that died and commands that go on bring no key back there.
THEOREM RemovalLasts == Spec => []Dropped
BY OriginsHolds, PTL DEF Origins

----------------------------------------------------------------------------
(* Nothing fails                                                           *)

\* A step that is no fault.
LEMMA CalmStep ==
  ASSUME IInv, [Next]_vars, faults' = 0
  PROVE  /\ faults = 0
         /\ \/ \E r \in Requests : Handler(r)
            \/ \E r \in Requests : Command(r)
            \/ \E t \in Tunnels : WgQuickUp(t)
            \/ UNCHANGED vars
<1>1. ~Breakdown  BY BreakdownMoves
<1>2. ASSUME NEW r \in Requests, Handler(r) PROVE UNCHANGED faults
  BY <1>2 DEF Handler, BeginTunnelOp, BeginSetState, BeginCreatePeer, BeginDeletePeer, Allocate,
       FinishCreateTunnel, FinishDeleteTunnel, FinishCreatePeer, FinishDeletePeer, FinishSetState, Fail
<1>3. ASSUME NEW r \in Requests, Command(r) PROVE UNCHANGED faults
  BY <1>3, CommandMoves
<1>4. ASSUME UNCHANGED vars \/ \E t \in Tunnels : WgQuickUp(t) PROVE UNCHANGED faults
  BY <1>4 DEF vars, WgQuickUp
<1> QED  BY <1>1, <1>2, <1>3, <1>4 DEF Next

\* A handler touches no file and no interface, and no command that runs.
LEMMA HandlerQuiet ==
  ASSUME IInv, NEW r \in Requests, Handler(r)
  PROVE  /\ UNCHANGED <<conf, live, starting>>
         /\ \A q \in Requests : \A s \in {"wgset", "unlink", "start"} : hlp[q] = s <=> hlp'[q] = s
         /\ \A q \in Requests : hlp[q] \in {"wgset", "unlink", "start"} =>
              q # r /\ job'[q] = job[q] /\ app'[q] = app[q]
<1>1. UNCHANGED <<conf, live, starting>>
  BY DEF Handler, BeginTunnelOp, BeginSetState, BeginCreatePeer, BeginDeletePeer, Allocate,
       FinishCreateTunnel, FinishDeleteTunnel, FinishCreatePeer, FinishDeletePeer, FinishSetState,
       Fail, disk, kernel
<1>2. app[r] \in {"new", "status"} => hlp[r] = "idle"  BY DEF IInv, Bookkeeping
<1> QED  BY <1>1, <1>2, HandlerMoves

\* The web application waits for every command until it has ended.
LEMMA WaitedNext == IInv /\ Waited /\ [Next]_vars /\ faults' = 0 => Waited'
<1> SUFFICES ASSUME IInv, Waited, [Next]_vars, faults' = 0, NEW q \in Requests
             PROVE  app'[q] # "lost" /\ (hlp'[q] # "idle" => app'[q] = "await")
  BY DEF Waited
<1>0. app[q] # "lost" /\ (hlp[q] # "idle" => app[q] = "await")  BY DEF Waited
<1>1. ASSUME NEW r \in Requests, Handler(r)
      PROVE  app'[q] # "lost" /\ (hlp'[q] # "idle" => app'[q] = "await")
  <2>1. app[r] \in {"new", "status"} => hlp[r] = "idle"  BY DEF IInv, Bookkeeping
  <2> QED  BY <1>0, <1>1, <2>1, HandlerMoves
<1>2. ASSUME NEW r \in Requests, Command(r)
      PROVE  app'[q] # "lost" /\ (hlp'[q] # "idle" => app'[q] = "await")
  BY <1>0, <1>2, CommandMoves DEF web
<1>3. ASSUME UNCHANGED vars \/ \E t \in Tunnels : WgQuickUp(t)
      PROVE  app'[q] # "lost" /\ (hlp'[q] # "idle" => app'[q] = "await")
  BY <1>0, <1>3 DEF vars, web, WgQuickUp
<1> QED  BY <1>1, <1>2, <1>3, CalmStep

\* While it waits, a command ends the way its step says.
LEMMA HelperReplies ==
  ASSUME IInv, Waited, NEW r \in Requests, NEW s, Helper(r, s)
  PROVE  hlp'[r] = s /\ \A q \in Requests \ {r} : hlp'[q] = hlp[q]
BY HelperMoves DEF Waited

----------------------------------------------------------------------------
(* When no tunnel is activated                                             *)

LEMMA NoActivateWas == IInv /\ [Next]_vars /\ NoActivate' => NoActivate
<1> SUFFICES ASSUME IInv, [Next]_vars, NEW q \in Requests, Asked(q, "activate")
             PROVE  Asked(q, "activate")'
  BY DEF NoActivate
<1> QED  BY JobsStay DEF Asked, NoJob

\* wg set changes the keys of an interface by its own.
LEMMA AssignKeys ==
  ASSUME NEW L \in SUBSET LivePeer, NEW p, NEW x, x # p.key
  PROVE  x \in KeysOf(Assign(L, p)) <=> x \in KeysOf(L)
<1> DEFINE Moved(q) == [q EXCEPT !.addr = IF q.addr = p.addr THEN NoAddr ELSE q.addr]
<1>1. \A q \in L : Moved(q).key = q.key  BY DEF LivePeer
<1>2. Assign(L, p) = {Moved(q) : q \in Drop(L, p.key)} \cup {p}  BY DEF Assign
<1> HIDE DEF Moved
<1>3. ASSUME NEW q \in L, q.key = x PROVE x \in KeysOf(Assign(L, p))
  <2>1. Moved(q) \in Assign(L, p)  BY <1>2, <1>3 DEF Drop
  <2> QED  BY <1>1, <1>3, <2>1 DEF KeysOf
<1>4. ASSUME NEW q \in Assign(L, p), q.key = x PROVE x \in KeysOf(L)
  <2>1. PICK o \in Drop(L, p.key) : q = Moved(o)  BY <1>2, <1>4
  <2> QED  BY <1>1, <1>4, <2>1 DEF Drop, KeysOf
<1> QED  BY <1>3, <1>4 DEF KeysOf

\* A command changes an interface and its .conf at one key, and is between
\* the two writes while they differ.
LEMMA FollowsCommand ==
  ASSUME IInv, Origins, Waited, NoActivate, Follows, NEW c \in Requests, Command(c)
  PROVE  Follows'
<1> DEFINE u == job[c].tunnel
           k == job[c].peer.key
<1>0. UNCHANGED <<app, job>> /\ c \in Requests  BY CommandMoves DEF web
<1>1. ASSUME DOMAIN starting' = {}, DOMAIN live' \subseteq DOMAIN live,
             DOMAIN live' \subseteq DOMAIN conf',
             \A r \in Requests : hlp'[r] = "unlink" => hlp[r] = "unlink" \/ job[r].tunnel \notin DOMAIN live',
             \A t \in DOMAIN live' : \A x \in Requests :
               (x \in KeysOf(live'[t])) # (x \in KeysOf(conf'[t])) =>
                 \E r \in Requests : hlp'[r] = "wgset" /\ job[r].tunnel = t /\ job[r].peer.key = x,
             \A r \in Requests : hlp'[r] = "wgset" /\ Asked(r, "create_peer") /\ job[r].tunnel \in DOMAIN live'
               => r \in KeysOf(conf'[job[r].tunnel])
      PROVE  Follows'
  <2>1. \A r \in Requests : hlp'[r] = "unlink" => job[r].tunnel \notin DOMAIN live'
    BY <1>1 DEF Follows
  <2> QED  BY <1>0, <1>1, <2>1 DEF Follows, Setting, Asked, KeysOf
<1>2. ASSUME UNCHANGED starting, \A r \in Requests \ {c} : hlp'[r] = hlp[r],
             hlp[c] # "wgset", hlp'[c] \notin {"wgset", "unlink"},
             DOMAIN live' \subseteq DOMAIN live, DOMAIN live' \subseteq DOMAIN conf',
             \A t \in DOMAIN live' : live'[t] = live[t] /\ conf'[t] = conf[t]
      PROVE  Follows'
  <2>1. \A r \in Requests : hlp'[r] = "wgset" <=> hlp[r] = "wgset"  BY <1>2
  <2>2. \A r \in Requests : hlp'[r] = "unlink" => hlp[r] = "unlink"  BY <1>2
  <2>3. \A t \in DOMAIN live' : t \in DOMAIN live  BY <1>2
  <2> QED  BY <1>0, <1>2, <2>1, <2>2, <2>3 DEF Follows, Setting, Asked, KeysOf
<1>3. CASE HCreateTunnel(c)
  <2>1. hlp[c] = "sent" /\ UNCHANGED <<live, starting>>  BY <1>3 DEF HCreateTunnel, At, kernel
  <2>2. hlp'[c] \in {"ok", "err"} /\ \A r \in Requests \ {c} : hlp'[r] = hlp[r]
    BY <1>3, HelperReplies DEF HCreateTunnel
  <2>3. \A t \in DOMAIN live : t \in DOMAIN conf' /\ conf'[t] = conf[t]
    BY <1>3 DEF HCreateTunnel, With, Follows
  <2> QED  BY <1>2, <2>1, <2>2, <2>3
<1>4. CASE HDisable(c)
  <2>1. hlp[c] = "sent" /\ UNCHANGED conf  BY <1>4 DEF HDisable, At, disk
  <2>2. hlp'[c] = "unlink" /\ \A r \in Requests \ {c} : hlp'[r] = hlp[r]
    BY <1>4, HelperReplies DEF HDisable
  <2>3. DOMAIN starting' = {}  BY <1>4 DEF HDisable, StopUnit, Without, Follows
  <2>4. DOMAIN live' \subseteq DOMAIN live /\ u \notin DOMAIN live'
    BY <1>4 DEF HDisable, StopUnit, Without, Follows
  <2>5. \A t \in DOMAIN live' : live'[t] = live[t]
    BY <1>4 DEF HDisable, StopUnit, Without
  <2> QED  BY <1>1, <2>1, <2>2, <2>3, <2>4, <2>5 DEF Follows, Setting
<1>5. CASE HUnlink(c)
  <2>1. hlp[c] = "unlink" /\ UNCHANGED <<live, starting>>  BY <1>5 DEF HUnlink, At, kernel
  <2>2. hlp'[c] = "ok" /\ \A r \in Requests \ {c} : hlp'[r] = hlp[r]
    BY <1>5, HelperReplies DEF HUnlink
  <2>3. \A t \in DOMAIN live : t \in DOMAIN conf' /\ conf'[t] = conf[t]
    BY <1>5, <2>1 DEF HUnlink, Without, Follows
  <2> QED  BY <1>2, <2>1, <2>2, <2>3
<1>6. CASE HAddConf(c)
  <2>1. hlp[c] = "sent" /\ Asked(c, "create_peer") /\ k = c /\ UNCHANGED <<live, starting>>
    BY <1>6 DEF HAddConf, At, Asked, kernel, IInv, Bookkeeping
  <2>2. \A r \in Requests \ {c} : hlp'[r] = hlp[r]
    BY <1>6, HelperReplies DEF HAddConf
  <2>3. CASE CanAdd(u, job[c].peer)
    <3>1. conf' = With(conf, u, conf[u] \cup {job[c].peer})
      BY <1>6, <2>3 DEF HAddConf, BlocksWith, CanAdd
    <3>2. hlp'[c] = IF u \in DOMAIN live THEN "wgset" ELSE "ok"
      BY <1>6, <2>3, HelperReplies DEF HAddConf, AfterWrite
    <3>3. \A t \in DOMAIN conf : t \in DOMAIN conf' /\ \A x : x # c =>
            (x \in KeysOf(conf'[t]) <=> x \in KeysOf(conf[t]))
      BY <2>1, <3>1 DEF With, KeysOf
    <3>4. u \in DOMAIN conf' /\ c \in KeysOf(conf'[u])
      BY <2>1, <3>1 DEF With, KeysOf
    <3>5. \A t \in DOMAIN conf : t # u => conf'[t] = conf[t]
      BY <3>1 DEF With
    <3>6. \A r \in Requests : hlp'[r] = "unlink" => hlp[r] = "unlink"
      BY <2>2, <3>2
    <3>7. ASSUME NEW t \in DOMAIN live', NEW x \in Requests,
                 (x \in KeysOf(live'[t])) # (x \in KeysOf(conf'[t]))
          PROVE  \E r \in Requests : hlp'[r] = "wgset" /\ job[r].tunnel = t /\ job[r].peer.key = x
      <4>1. t \in DOMAIN live /\ t \in DOMAIN conf  BY <2>1 DEF Follows
      <4>2. CASE x = c /\ t = u  BY <2>1, <3>2, <4>1, <4>2
      <4>3. CASE ~(x = c /\ t = u)
        <5>1. (x \in KeysOf(live[t])) # (x \in KeysOf(conf[t]))
          BY <1>0, <2>1, <3>3, <3>5, <3>7, <4>1, <4>3
        <5>2. PICK r \in Requests : Setting(r, t, x)  BY <4>1, <5>1 DEF Follows
        <5> QED  BY <2>1, <2>2, <5>2 DEF Setting
      <4> QED  BY <4>2, <4>3
    <3>8. ASSUME NEW r \in Requests, hlp'[r] = "wgset", Asked(r, "create_peer"), job[r].tunnel \in DOMAIN live'
          PROVE  r \in KeysOf(conf'[job[r].tunnel])
      <4>1. CASE r = c  BY <3>4, <4>1
      <4>2. CASE r # c
        <5>1. job[r].tunnel \in DOMAIN conf /\ r \in KeysOf(conf[job[r].tunnel])
          BY <2>1, <2>2, <3>8, <4>2 DEF Follows
        <5> QED  BY <3>3, <4>2, <5>1
      <4> QED  BY <4>1, <4>2
    <3>9. DOMAIN starting' = {} /\ DOMAIN live' \subseteq DOMAIN live /\ DOMAIN live' \subseteq DOMAIN conf'
      BY <2>1, <3>3 DEF Follows
    <3> HIDE DEF u, k
    <3> QED  BY <1>1, <3>6, <3>7, <3>8, <3>9
  <2>4. CASE ~CanAdd(u, job[c].peer)
    <3>1. UNCHANGED conf /\ hlp'[c] = "err"
      BY <1>6, <2>4, HelperReplies DEF HAddConf, disk
    <3> QED  BY <1>2, <2>1, <2>2, <3>1 DEF Follows
  <2> QED  BY <2>3, <2>4
<1>7. CASE HRemoveConf(c)
  <2>1. hlp[c] = "sent" /\ Asked(c, "delete_peer") /\ UNCHANGED <<live, starting>>
    BY <1>7 DEF HRemoveConf, At, Asked, kernel
  <2>2. \A r \in Requests \ {c} : hlp'[r] = hlp[r]
    BY <1>7, HelperReplies DEF HRemoveConf
  <2>3. CASE u \in DOMAIN conf
    <3>1. conf' = With(conf, u, Drop(conf[u], k))
      BY <1>7, <2>3 DEF HRemoveConf
    <3>2. hlp'[c] = IF u \in DOMAIN live THEN "wgset" ELSE "ok"
      BY <1>7, <2>3, HelperReplies DEF HRemoveConf, AfterWrite
    <3>3. \A t \in DOMAIN conf : t \in DOMAIN conf' /\ \A x : x # k =>
            (x \in KeysOf(conf'[t]) <=> x \in KeysOf(conf[t]))
      BY <3>1 DEF With, KeysOf, Drop
    <3>4. \A t \in DOMAIN conf : t # u => conf'[t] = conf[t]
      BY <3>1 DEF With
    <3>5. \A r \in Requests : hlp'[r] = "unlink" => hlp[r] = "unlink"
      BY <2>2, <3>2
    <3>6. app[k] = "ok"  BY <2>1 DEF Origins, ListedOrigins
    <3>7. ASSUME NEW t \in DOMAIN live', NEW x \in Requests,
                 (x \in KeysOf(live'[t])) # (x \in KeysOf(conf'[t]))
          PROVE  \E r \in Requests : hlp'[r] = "wgset" /\ job[r].tunnel = t /\ job[r].peer.key = x
      <4>1. t \in DOMAIN live /\ t \in DOMAIN conf  BY <2>1 DEF Follows
      <4>2. CASE x = k /\ t = u  BY <2>1, <3>2, <4>1, <4>2
      <4>3. CASE ~(x = k /\ t = u)
        <5>1. (x \in KeysOf(live[t])) # (x \in KeysOf(conf[t]))
          BY <1>0, <2>1, <3>3, <3>4, <3>7, <4>1, <4>3
        <5>2. PICK r \in Requests : Setting(r, t, x)  BY <4>1, <5>1 DEF Follows
        <5> QED  BY <2>1, <2>2, <5>2 DEF Setting
      <4> QED  BY <4>2, <4>3
    <3>8. ASSUME NEW r \in Requests, hlp'[r] = "wgset", Asked(r, "create_peer"), job[r].tunnel \in DOMAIN live'
          PROVE  r \in KeysOf(conf'[job[r].tunnel])
      <4>1. r # c  BY <2>1, <3>8 DEF Asked
      <4>2. hlp[r] = "wgset"  BY <2>2, <3>8, <4>1
      <4>3. job[r].tunnel \in DOMAIN conf /\ r \in KeysOf(conf[job[r].tunnel])
        BY <2>1, <3>8, <4>2 DEF Follows
      <4>4. r # k  BY <3>6, <4>2 DEF Waited
      <4> QED  BY <3>3, <4>3, <4>4
    <3>9. DOMAIN starting' = {} /\ DOMAIN live' \subseteq DOMAIN live /\ DOMAIN live' \subseteq DOMAIN conf'
      BY <2>1, <3>3 DEF Follows
    <3> HIDE DEF u, k
    <3> QED  BY <1>1, <3>5, <3>7, <3>8, <3>9
  <2>4. CASE u \notin DOMAIN conf
    <3>1. UNCHANGED conf /\ hlp'[c] = "err"
      BY <1>7, <2>4, HelperReplies DEF HRemoveConf
    <3> QED  BY <1>2, <2>1, <2>2, <3>1 DEF Follows
  <2> QED  BY <2>3, <2>4
<1>8. CASE HWgSet(c)
  <2>1. hlp[c] = "wgset" /\ UNCHANGED <<conf, starting>>
    BY <1>8 DEF HWgSet, At, disk
  <2>2. hlp'[c] \in {"ok", "err"} /\ \A r \in Requests \ {c} : hlp'[r] = hlp[r]
    BY <1>8, HelperReplies DEF HWgSet
  <2>3. DOMAIN live' = DOMAIN live  BY <1>8 DEF HWgSet, With
  <2>4. \A t \in DOMAIN live : t # u => live'[t] = live[t]  BY <1>8 DEF HWgSet, With
  <2>5. ASSUME u \in DOMAIN live, NEW x \in Requests
        PROVE  /\ x # k => (x \in KeysOf(live'[u]) <=> x \in KeysOf(live[u]))
               /\ k \in KeysOf(live'[u]) <=> k \in KeysOf(conf[u])
    <3>0. live[u] \in SUBSET LivePeer  BY <2>5, DictAt DEF IInv, TypeOK
    <3>1. CASE Asked(c, "create_peer")
      <4>1. live'[u] = Assign(live[u], job[c].peer)  BY <1>8, <2>5, <3>1 DEF HWgSet, With, Asked
      <4>2. k = c /\ k \in KeysOf(conf[u])
        BY <2>1, <2>5, <3>1 DEF Follows, Asked, IInv, Bookkeeping
      <4>3. k \in KeysOf(live'[u])  BY <4>1 DEF Assign, KeysOf
      <4>4. x # k => (x \in KeysOf(live'[u]) <=> x \in KeysOf(live[u]))
        BY <3>0, <4>1, AssignKeys
      <4> QED  BY <4>2, <4>3, <4>4
    <3>2. CASE ~Asked(c, "create_peer")
      <4>1. Asked(c, "delete_peer") /\ live'[u] = Drop(live[u], k)
        BY <1>8, <2>5, <3>2 DEF HWgSet, With, Asked, At
      <4>2. PastDrop(c)  BY <2>1, <4>1 DEF PastDrop, Waited
      <4>3. k \notin KeysOf(conf[u])
        BY <2>5, <4>2 DEF Origins, Dropped, KeysOf, Follows
      <4> QED  BY <4>1, <4>3 DEF Drop, KeysOf
    <3> QED  BY <3>1, <3>2
  <2>6. ASSUME NEW t \in DOMAIN live', NEW x \in Requests,
               (x \in KeysOf(live'[t])) # (x \in KeysOf(conf'[t]))
        PROVE  \E r \in Requests : hlp'[r] = "wgset" /\ job[r].tunnel = t /\ job[r].peer.key = x
    <3>1. t \in DOMAIN live  BY <2>3
    <3>2. ~(t = u /\ x = k)  BY <2>1, <2>5, <2>6, <3>1
    <3>3. (x \in KeysOf(live[t])) # (x \in KeysOf(conf[t]))
      BY <2>1, <2>4, <2>5, <2>6, <3>1, <3>2
    <3>4. PICK r \in Requests : Setting(r, t, x)  BY <3>1, <3>3 DEF Follows
    <3>5. r # c  BY <3>2, <3>4 DEF Setting
    <3> QED  BY <2>2, <3>4, <3>5 DEF Setting
  <2>7. ASSUME NEW r \in Requests, hlp'[r] = "wgset", Asked(r, "create_peer"), job[r].tunnel \in DOMAIN live'
        PROVE  r \in KeysOf(conf'[job[r].tunnel])
    BY <2>1, <2>2, <2>3, <2>7 DEF Follows
  <2>8. /\ DOMAIN starting' = {} /\ DOMAIN live' \subseteq DOMAIN live /\ DOMAIN live' \subseteq DOMAIN conf'
        /\ \A r \in Requests : hlp'[r] = "unlink" => hlp[r] = "unlink"
    BY <2>1, <2>2, <2>3 DEF Follows
  <2> HIDE DEF u, k
  <2> QED  BY <1>1, <2>6, <2>7, <2>8
<1>9. CASE HStop(c)
  <2>1. hlp[c] = "sent" /\ UNCHANGED conf  BY <1>9 DEF HStop, At, disk
  <2>2. hlp'[c] \in {"ok", "err"} /\ \A r \in Requests \ {c} : hlp'[r] = hlp[r]
    BY <1>9, HelperReplies DEF HStop
  <2>3. DOMAIN starting' = {}  BY <1>9 DEF HStop, StopUnit, Without, Follows, kernel
  <2>4. DOMAIN live' \subseteq DOMAIN live /\ \A t \in DOMAIN live' : live'[t] = live[t]
    BY <1>9 DEF HStop, StopUnit, Without, kernel
  <2> QED  BY <1>1, <2>1, <2>2, <2>3, <2>4 DEF Follows, Setting
<1>10. ~HActivate(c) /\ ~HStarted(c)
  BY DEF HActivate, HStarted, At, NoActivate, Asked
<1> QED  BY <1>3, <1>4, <1>5, <1>6, <1>7, <1>8, <1>9, <1>10 DEF Command

LEMMA FollowsNext ==
  IInv /\ Origins /\ Waited /\ NoActivate /\ Follows /\ [Next]_vars /\ faults' = 0 => Follows'
<1> SUFFICES ASSUME IInv, Origins, Waited, NoActivate, Follows, [Next]_vars, faults' = 0
             PROVE  Follows'
  OBVIOUS
<1>1. ASSUME NEW r \in Requests, Handler(r) PROVE Follows'
  <2>1. UNCHANGED <<conf, live, starting>>  BY <1>1, HandlerQuiet
  <2>2. ASSUME NEW q \in Requests, hlp'[q] \in {"wgset", "unlink"}
        PROVE  hlp'[q] = hlp[q] /\ job'[q] = job[q]
    BY <1>1, <2>2, HandlerQuiet
  <2>3. ASSUME NEW q \in Requests, hlp[q] = "wgset" PROVE hlp'[q] = "wgset" /\ job'[q] = job[q]
    BY <1>1, <2>3, HandlerQuiet
  <2>4. \A t, k : (\E q \in Requests : Setting(q, t, k)) =>
          \E q \in Requests : hlp'[q] = "wgset" /\ job'[q].tunnel = t /\ job'[q].peer.key = k
    BY <2>3 DEF Setting
  <2>5. \A t \in DOMAIN live' : \A k \in Requests :
          (k \in KeysOf(live'[t])) # (k \in KeysOf(conf'[t])) =>
            \E q \in Requests : hlp'[q] = "wgset" /\ job'[q].tunnel = t /\ job'[q].peer.key = k
    BY <2>1, <2>4 DEF Follows
  <2>6. \A q \in Requests : hlp'[q] = "unlink" => job'[q].tunnel \notin DOMAIN live'
    BY <2>1, <2>2 DEF Follows
  <2>7. \A q \in Requests :
          hlp'[q] = "wgset" /\ job'[q].op = "create_peer" /\ job'[q].tunnel \in DOMAIN live'
            => q \in KeysOf(conf'[job'[q].tunnel])
    BY <2>1, <2>2 DEF Follows, Asked
  <2>8. DOMAIN starting' = {} /\ DOMAIN live' \subseteq DOMAIN conf'
    BY <2>1 DEF Follows
  <2> QED  BY <2>5, <2>6, <2>7, <2>8 DEF Follows, Setting, KeysOf, Asked
<1>2. ASSUME UNCHANGED vars PROVE Follows'
  BY <1>2 DEF vars, disk, kernel, web, Follows, Setting, KeysOf, Asked
<1>3. ASSUME NEW t \in Tunnels, WgQuickUp(t) PROVE FALSE
  BY <1>3 DEF WgQuickUp, Follows
<1> QED  BY <1>1, <1>2, <1>3, CalmStep, FollowsCommand

----------------------------------------------------------------------------
(* When tunnels are activated by one client at a time                      *)

\* A start under way is the open request's.
LEMMA StartsNext ==
  IInv /\ Waited /\ Starts /\ [Next]_vars /\ faults' = 0 => Starts'
<1> SUFFICES ASSUME IInv, Waited, Starts, [Next]_vars, faults' = 0, NEW t \in DOMAIN starting'
             PROVE  \E r \in Open' : hlp'[r] = "start" /\ job'[r].tunnel = t
  BY DEF Starts
<1>1. ASSUME NEW r \in Requests, HActivate(r), job[r].tunnel = t, t \in DOMAIN conf
      PROVE  r \in Open' /\ hlp'[r] = "start" /\ job'[r].tunnel = t
  <2>1. hlp[r] = "sent" /\ hlp'[r] = "start"
    BY <1>1, HelperReplies DEF HActivate, At
  <2>2. app[r] = "await" /\ UNCHANGED <<app, job>>  BY <1>1, <2>1 DEF Waited, HActivate, web
  <2> QED  BY <1>1, <2>1, <2>2 DEF Open
<1>2. ASSUME t \in DOMAIN starting
      PROVE  \E r \in Open' : hlp'[r] = "start" /\ job'[r].tunnel = t
  <2>1. PICK q \in Open : hlp[q] = "start" /\ job[q].tunnel = t  BY <1>2 DEF Starts
  <2>2. q \in Requests /\ app[q] = "await"  BY <2>1 DEF Open, Waited
  <2>3. ASSUME NEW r \in Requests, Handler(r)
        PROVE  hlp'[q] = "start" /\ job'[q] = job[q] /\ app'[q] = app[q]
    BY <2>1, <2>2, <2>3, HandlerQuiet
  <2>4. ASSUME NEW r \in Requests, Command(r)
        PROVE  hlp'[q] = "start" /\ job'[q] = job[q] /\ app'[q] = app[q]
    <3>1. r # q
      <4>1. Command(q) => HStarted(q)
        BY <2>1 DEF Command, HCreateTunnel, HDisable, HUnlink, HAddConf, HRemoveConf, HWgSet,
             HActivate, HStop, At
      <4>2. ~HStarted(q)  BY <1>2, <2>1 DEF HStarted
      <4> QED  BY <2>4, <4>1, <4>2
    <3> QED  BY <2>1, <2>2, <2>4, <3>1, CommandMoves DEF web
  <2>5. ASSUME UNCHANGED vars \/ \E u \in Tunnels : WgQuickUp(u)
        PROVE  hlp'[q] = "start" /\ job'[q] = job[q] /\ app'[q] = app[q]
    BY <2>1, <2>5 DEF vars, web, WgQuickUp
  <2>6. hlp'[q] = "start" /\ job'[q] = job[q] /\ app'[q] = app[q]
    BY <2>3, <2>4, <2>5, CalmStep
  <2> QED  BY <2>1, <2>2, <2>6 DEF Open
<1>3. ~Breakdown  BY BreakdownMoves
<1> QED  BY <1>1, <1>2, <1>3, StartingGrows

\* A delete_peer is done because it was, or has just removed the key from an
\* interface, or has found none.
LEMMA GoneNext ==
  ASSUME IInv, Waited, [Next]_vars, faults' = 0, NEW r \in Requests, Gone(r)'
  PROVE  \/ Gone(r)
         \/ /\ HRemoveConf(r)
            /\ job[r].tunnel \in DOMAIN conf /\ job[r].tunnel \notin DOMAIN live
         \/ HWgSet(r) /\ Asked(r, "delete_peer") /\ job[r].tunnel \in DOMAIN live
<1>0. Asked(r, "delete_peer")' /\ (app'[r] = "ok" \/ (app'[r] = "await" /\ hlp'[r] = "ok"))
  BY DEF Gone
<1> DEFINE Done == app[r] = "ok" \/ (app[r] = "await" /\ hlp[r] = "ok")
<1>1. ASSUME NEW q \in Requests, Handler(q) PROVE Done
  BY <1>0, <1>1, HandlerMoves
<1>2. ASSUME NEW q \in Requests, Command(q)
      PROVE  Done \/ (q = r /\ app[r] = "await" /\ hlp'[r] = "ok")
  BY <1>0, <1>2, CommandMoves DEF web, Waited
<1>3. ASSUME UNCHANGED vars \/ \E u \in Tunnels : WgQuickUp(u) PROVE Done
  BY <1>0, <1>3 DEF vars, web, WgQuickUp
<1>4. Done \/ (Command(r) /\ app[r] = "await" /\ hlp'[r] = "ok")
  BY <1>1, <1>2, <1>3, CalmStep
<1>5. Asked(r, "delete_peer")
  <2>1. app[r] # "new"  BY <1>4
  <2>2. job[r] # NoJob  BY <2>1 DEF IInv, Bookkeeping, Job, NoJob
  <2> QED  BY <1>0, <2>2, JobsStay DEF Asked
<1>6. ASSUME Command(r), hlp'[r] = "ok"
      PROVE  \/ /\ HRemoveConf(r)
                /\ job[r].tunnel \in DOMAIN conf /\ job[r].tunnel \notin DOMAIN live
             \/ HWgSet(r) /\ job[r].tunnel \in DOMAIN live
  <2>1. HRemoveConf(r) \/ HWgSet(r)
    BY <1>5, <1>6
    DEF Command, HCreateTunnel, HDisable, HUnlink, HAddConf, HActivate, HStop, HStarted, At, Asked
  <2>2. HRemoveConf(r) => job[r].tunnel \in DOMAIN conf /\ job[r].tunnel \notin DOMAIN live
    BY <1>6, HelperReplies DEF HRemoveConf, AfterWrite
  <2>3. HWgSet(r) => job[r].tunnel \in DOMAIN live
    BY <1>6, HelperReplies DEF HWgSet
  <2> QED  BY <2>1, <2>2, <2>3
<1> QED  BY <1>4, <1>5, <1>6 DEF Gone

\* A key that delete_peer has removed comes back on no interface: neither by
\* its own wg set, which is over, nor from a .conf, which lacks it.
LEMMA RevokedNext ==
  ASSUME IInv, Origins, Turns, Waited, [Next]_vars, faults' = 0,
         (Serial /\ Starts) \/ (NoActivate /\ Follows), Revoked
  PROVE  Revoked'
<1> SUFFICES ASSUME NEW r \in Requests, Gone(r)'
             PROVE  /\ \A t \in DOMAIN live' : job'[r].peer.key \notin KeysOf(live'[t])
                    /\ \A t \in DOMAIN starting' : job'[r].peer.key \notin KeysOf(starting'[t])
  BY DEF Revoked, KeysOf
<1> DEFINE T == job[r].tunnel
           k == job[r].peer.key
<1>0. Asked(r, "delete_peer")
  BY GoneNext DEF Gone, HRemoveConf, At, Asked
<1>1. job'[r] = job[r]  BY <1>0, JobsStay DEF Asked, NoJob
<1>2. k \in Requests /\ app[k] = "ok" /\ Asked(k, "create_peer") /\ job[k].tunnel = T
  <2>1. k \in Requests  BY <1>0, JobKnown DEF IInv, Ops, Asked
  <2>2. Made(job[r].peer, T) /\ app[k] = "ok"  BY <1>0 DEF Origins, ListedOrigins
  <2> QED  BY <2>1, <2>2 DEF Made
<1>3. /\ \A t \in DOMAIN live : k \in KeysOf(live[t]) => t = T
      /\ \A t \in DOMAIN starting : k \in KeysOf(starting[t]) => t = T
  BY <1>2 DEF Origins, LoadedOrigins, Made, KeysOf
<1>4. ASSUME NEW c \in Requests, HWgSet(c), Asked(c, "create_peer") PROVE job[c].peer.key # k
  BY <1>2, <1>4 DEF HWgSet, At, Asked, Waited, IInv, Bookkeeping
<1> HIDE DEF T, k
<1>5. CASE Gone(r)
  <2>1. /\ \A t \in DOMAIN live : k \notin KeysOf(live[t])
        /\ \A t \in DOMAIN starting : k \notin KeysOf(starting[t])
    BY <1>5 DEF Revoked, k
  <2>2. \A t \in DOMAIN live' : \A p \in live'[t] : p.key # k
    BY <1>4, <2>1, LiveGrows
  <2>3. PastDrop(r)  BY <1>5 DEF Gone, PastDrop
  <2>4. \A t \in DOMAIN conf : k \notin KeysOf(conf[t])
    BY <2>3 DEF Origins, Dropped, KeysOf, k
  <2>5. \A t \in DOMAIN starting' : k \notin KeysOf(starting'[t])
    BY <2>1, <2>4, StartingGrows
  <2> QED  BY <1>1, <2>2, <2>5 DEF KeysOf, k
<1>6. CASE HRemoveConf(r) /\ T \in DOMAIN conf /\ T \notin DOMAIN live
  <2>1. UNCHANGED <<live, starting>> /\ hlp[r] = "sent"
    BY <1>6 DEF HRemoveConf, At, kernel
  <2>2. DOMAIN starting = {}
    <3>1. CASE Serial /\ Starts
      <4>1. r \in Open  BY <2>1 DEF Waited, Open
      <4> QED  BY <2>1, <3>1, <4>1 DEF Starts, Turns, OneOpen
    <3>2. CASE NoActivate /\ Follows  BY <3>2 DEF Follows
    <3> QED  BY <3>1, <3>2
  <2> QED  BY <1>1, <1>3, <1>6, <2>1, <2>2 DEF k
<1>7. CASE HWgSet(r) /\ T \in DOMAIN live
  <2>1. UNCHANGED starting /\ hlp[r] = "wgset"
    BY <1>7 DEF HWgSet, At
  <2>2. DOMAIN starting = {}
    <3>1. CASE Serial /\ Starts
      <4>1. r \in Open  BY <2>1 DEF Waited, Open
      <4> QED  BY <2>1, <3>1, <4>1 DEF Starts, Turns, OneOpen
    <3>2. CASE NoActivate /\ Follows  BY <3>2 DEF Follows
    <3> QED  BY <3>1, <3>2
  <2>3. live' = With(live, T, Drop(live[T], k))
    BY <1>0, <1>7 DEF HWgSet, Asked, T, k
  <2>4. \A t \in DOMAIN live' : k \notin KeysOf(live'[t])
    BY <1>3, <2>3 DEF With, Drop, KeysOf
  <2> QED  BY <1>1, <2>1, <2>2, <2>4 DEF k
<1> QED  BY <1>5, <1>6, <1>7, GoneNext DEF T

LEMMA QuietNext == IInv /\ Origins /\ Turns /\ Quiet /\ [Next]_vars => Quiet'
<1> SUFFICES ASSUME IInv, Origins, Turns, Quiet, [Next]_vars, faults' = 0 PROVE Quiet'
  BY DEF Quiet, Calm
<1>1. faults = 0  BY CalmStep
<1>2. Waited /\ Waited'  BY <1>1, WaitedNext DEF Quiet, Calm
<1>3. NoActivate' => NoActivate /\ Follows /\ Follows'
  BY <1>1, <1>2, NoActivateWas, FollowsNext DEF Quiet, Calm
<1>4. Serial => Starts /\ Starts'
  BY <1>1, <1>2, StartsNext DEF Quiet, Calm
<1>5. Serial \/ NoActivate' => Revoked'
  BY <1>1, <1>2, <1>3, <1>4, RevokedNext DEF Quiet, Calm
<1> QED  BY <1>2, <1>3, <1>4, <1>5 DEF Quiet

LEMMA QuietInit == Init => Quiet
<1> SUFFICES ASSUME Init PROVE Quiet  OBVIOUS
<1> USE DEF Init, NoTunnels, NoJob, Asked
<1>1. Waited  BY DEF Waited
<1>2. Follows  BY DEF Follows, KeysOf
<1>3. Starts /\ Revoked  BY DEF Starts, Revoked, Gone
<1> QED  BY <1>1, <1>2, <1>3 DEF Quiet

LEMMA QuietHolds == Spec => [](IInv /\ Origins /\ Turns /\ Quiet)
<1>1. IInv /\ Origins /\ Turns /\ Quiet /\ [Next]_vars => (IInv /\ Origins /\ Turns /\ Quiet)'
  BY IInvNext, OriginsNext, TurnsNext, QuietNext
<1> QED  BY <1>1, IInvInit, OriginsInit, TurnsInit, QuietInit, PTL DEF Spec

\* When nothing fails and no tunnel is activated, an interface and the .conf
\* of its tunnel hold the same peers but for those of commands between the
\* write of the file and wg set, however many commands there are.
THEOREM InterfacesFollow == Spec => []LiveFollowsConf
<1>1. IInv /\ Quiet => LiveFollowsConf
  <2> SUFFICES ASSUME IInv, Quiet, faults = 0, \A q \in Requests : ~Asked(q, "activate"),
                      NEW t \in DOMAIN live \cap DOMAIN conf,
                      NEW k \in (KeysOf(live[t]) \cup KeysOf(conf[t])) \ (KeysOf(live[t]) \cap KeysOf(conf[t]))
               PROVE  k \in {job[q].peer.key : q \in {q \in Requests : hlp[q] = "wgset"}}
    BY DEF LiveFollowsConf, KeysOf
  <2>1. live[t] \in SUBSET LivePeer /\ conf[t] \in SUBSET Peer
    BY DictAt DEF IInv, TypeOK
  <2>2. k \in Requests  BY <2>1 DEF KeysOf, LivePeer, Peer
  <2>3. Follows  BY DEF Quiet, Calm, NoActivate
  <2>4. PICK r \in Requests : Setting(r, t, k)  BY <2>2, <2>3 DEF Follows
  <2> QED  BY <2>4 DEF Setting
<1> QED  BY <1>1, QuietHolds, PTL

\* When nothing fails, and tunnels are activated by one client at a time if at
\* all, the key of a peer whose delete_peer answered 200 is in no .conf and on
\* no interface from then on.
THEOREM RevocationHolds == Spec => []RevokedStaysOut
<1>1. Origins /\ Quiet => RevokedStaysOut
  <2> SUFFICES ASSUME Origins, Quiet, NEW r \in Requests,
                      app[r] = "ok", Asked(r, "delete_peer"), faults = 0,
                      Serial \/ NoActivate
               PROVE  /\ \A t \in DOMAIN conf : \A p \in conf[t] : p.key # job[r].peer.key
                      /\ \A t \in DOMAIN live : \A p \in live[t] : p.key # job[r].peer.key
    BY DEF RevokedStaysOut, NoActivate
  <2>1. PastDrop(r) /\ Gone(r)  BY DEF PastDrop, Gone
  <2>2. Revoked  BY DEF Quiet, Calm
  <2> QED  BY <2>1, <2>2 DEF Origins, Dropped, Revoked, KeysOf
<1> QED  BY <1>1, QuietHolds, PTL

----------------------------------------------------------------------------
(* One client at a time, and nothing fails: everything agrees              *)

\* What each job makes of the metadata.
LEMMA ResultIs ==
  ASSUME NEW r
  PROVE  /\ Asked(r, "create_tunnel") => Result(r) = With(meta, job[r].tunnel, {})
         /\ Asked(r, "delete_tunnel") => Result(r) = Without(meta, job[r].tunnel)
         /\ Asked(r, "create_peer") =>
              Result(r) = With(meta, job[r].tunnel, meta[job[r].tunnel] \cup {job[r].peer})
         /\ Asked(r, "delete_peer") =>
              Result(r) = With(meta, job[r].tunnel, Drop(meta[job[r].tunnel], job[r].peer.key))
         /\ job[r].op \in StateOps => Result(r) = meta
BY DEF Result, Asked, StateOps

\* A command that runs is the only one, of the only open request.
LEMMA Alone ==
  ASSUME OneOpen, Waited, NEW r \in Requests, hlp[r] # "idle" \/ r \in Open
  PROVE  /\ r \in Open
         /\ \A q \in Requests \ {r} : hlp[q] = "idle" /\ q \notin Open
<1>1. \A q \in Requests : hlp[q] # "idle" => q \in Open  BY DEF Waited, Open
<1> QED  BY <1>1 DEF OneOpen

\* wg set with a new key and a new address adds the peer and takes nothing
\* from the others.
LEMMA AssignNew ==
  ASSUME NEW L \in SUBSET Peer, NEW p, \A q \in L : q.key # p.key /\ q.addr # p.addr
  PROVE  Assign(L, p) = L \cup {p}
<1>1. Drop(L, p.key) = L  BY DEF Drop
<1>2. \A q \in L : [q EXCEPT !.addr = IF q.addr = p.addr THEN NoAddr ELSE q.addr] = q
  BY DEF Peer
<1> QED  BY <1>1, <1>2 DEF Assign

\* wg-quick up loads a .conf of distinct addresses as it is.
LEMMA LoadedDistinct ==
  ASSUME NEW P \in SUBSET Peer, \A p, q \in P : p.addr = q.addr => p = q, NEW w \in Winners(P)
  PROVE  Loaded(P, w) = P
<1>1. \A p \in P : w[p.addr] = p  BY DEF Winners
<1>2. \A p \in P : [p EXCEPT !.addr = IF w[p.addr] = p THEN p.addr ELSE NoAddr] = p
  BY <1>1 DEF Peer
<1> QED  BY <1>2 DEF Loaded

\* A handler begins, allocates or ends with the files and the interfaces in
\* agreement: it saves what its command has made of the .conf.
LEMMA AgreedHandler ==
  ASSUME IInv, Serial, OneOpen, Fresh, Waited, Agreed, NEW r \in Requests, Handler(r)
  PROVE  Agreed'
<1>0. /\ hlp[r] \in {"idle", "ok", "err"} /\ hlp'[r] \in {"idle", "sent"}
      /\ \A q \in Requests \ {r} : hlp[q] = "idle" /\ hlp'[q] = "idle" /\ q \notin Open
  <2>1. app[r] \in {"new", "status"} => hlp[r] = "idle"  BY DEF IInv, Bookkeeping
  <2>2. hlp[r] \in {"idle", "ok", "err"} /\ hlp'[r] \in {"idle", "sent"}
    BY <2>1, HandlerMoves
  <2>3. CASE app[r] = "new"
    <3>1. Open = {}
      BY <2>3 DEF Handler, BeginTunnelOp, BeginSetState, BeginCreatePeer, BeginDeletePeer, CanBegin,
           Allocate, FinishCreateTunnel, FinishDeleteTunnel, FinishCreatePeer, FinishDeletePeer,
           FinishSetState, Fail, Succeeded, Replied
    <3>2. \A q \in Requests : hlp[q] = "idle"  BY <3>1 DEF Waited, Open
    <3> QED  BY <2>2, <3>1, <3>2, HandlerMoves
  <2>4. CASE app[r] # "new"
    <3>1. r \in Open  BY <2>4, HandlerMoves DEF Open
    <3> QED  BY <2>2, <3>1, Alone, HandlerMoves
  <2> QED  BY <2>3, <2>4
<1>1. UNCHANGED <<conf, live, starting>>  BY HandlerQuiet
<1>2. Same(live, conf)  BY <1>0 DEF Agreed
<1>3. conf = meta'
  <2>1. CASE FinishCreateTunnel(r)
    <3>1. Half(r) /\ Asked(r, "create_tunnel")
      BY <2>1 DEF FinishCreateTunnel, Succeeded, Replied, Half, Open, Asked
    <3> QED  BY <2>1, <3>1, ResultIs DEF FinishCreateTunnel, Agreed
  <2>2. CASE FinishDeleteTunnel(r)
    <3>1. Half(r) /\ Asked(r, "delete_tunnel")
      BY <2>2 DEF FinishDeleteTunnel, Succeeded, Replied, Half, Open, Asked
    <3> QED  BY <2>2, <3>1, ResultIs DEF FinishDeleteTunnel, Agreed
  <2>3. CASE FinishCreatePeer(r)
    <3>1. Half(r) /\ Asked(r, "create_peer")
      BY <2>3 DEF FinishCreatePeer, Succeeded, Replied, Half, Open, Asked
    <3>2. snap[r] = meta  BY <3>1 DEF Half, Fresh, PeerOps, Asked
    <3> QED  BY <2>3, <3>1, <3>2, ResultIs DEF FinishCreatePeer, Agreed
  <2>4. CASE FinishDeletePeer(r)
    <3>1. Half(r) /\ Asked(r, "delete_peer")
      BY <2>4 DEF FinishDeletePeer, Succeeded, Replied, Half, Open, Asked
    <3>2. snap[r] = meta  BY <3>1 DEF Half, Fresh, PeerOps, Asked
    <3> QED  BY <2>4, <3>1, <3>2, ResultIs DEF FinishDeletePeer, Agreed
  <2>5. CASE FinishSetState(r)
    <3>1. Half(r) /\ job[r].op \in StateOps
      BY <2>5 DEF FinishSetState, Replied, Half, Open
    <3> QED  BY <2>5, <3>1, ResultIs DEF FinishSetState, Agreed
  <2>6. ASSUME UNCHANGED meta, hlp[r] \in {"idle", "err"} PROVE conf = meta'
    BY <1>0, <2>6 DEF Agreed, Half
  <2>7. CASE Fail(r)  BY <2>6, <2>7 DEF Fail, Replied
  <2>8. CASE Allocate(r) \/ app[r] = "new"
    <3>1. hlp[r] = "idle"  BY <2>8 DEF Allocate, IInv, Bookkeeping
    <3>2. UNCHANGED meta
      BY <2>8 DEF Handler, BeginTunnelOp, BeginSetState, BeginCreatePeer, BeginDeletePeer, Allocate,
           FinishCreateTunnel, FinishDeleteTunnel, FinishCreatePeer, FinishDeletePeer,
           FinishSetState, Fail, Succeeded, Replied
    <3> QED  BY <2>6, <3>1, <3>2
  <2> QED
    BY <2>1, <2>2, <2>3, <2>4, <2>5, <2>7, <2>8
    DEF Handler, BeginTunnelOp, BeginSetState, BeginCreatePeer, BeginDeletePeer, CanBegin
<1>4. ASSUME Asked(r, "create_peer")', hlp'[r] = "sent"
      PROVE  \A q \in meta'[job'[r].tunnel] : q.addr # job'[r].peer.addr
  <2>1. Allocate(r)
    <3>1. app'[r] = "await"  BY <1>4, <1>0, HandlerMoves DEF IInv, Bookkeeping
    <3>2. CASE \E t \in Tunnels : BeginTunnelOp(r, t) \/ BeginSetState(r, t) \/ BeginDeletePeer(r, t)
      BY <1>4, <3>2 DEF BeginTunnelOp, BeginSetState, BeginDeletePeer, Send, JobOf, StateOps, Asked,
           IInv, TypeOK
    <3>3. CASE \E t \in Tunnels : BeginCreatePeer(r, t)
      BY <3>1, <3>3 DEF BeginCreatePeer, IInv, TypeOK
    <3>4. CASE FinishCreateTunnel(r) \/ FinishDeleteTunnel(r) \/ FinishCreatePeer(r)
               \/ FinishDeletePeer(r) \/ FinishSetState(r) \/ Fail(r)
      BY <3>1, <3>4 DEF FinishCreateTunnel, FinishDeleteTunnel, FinishCreatePeer, FinishDeletePeer,
           FinishSetState, Fail, Respond, IInv, TypeOK
    <3> QED  BY <3>2, <3>3, <3>4 DEF Handler
  <2> DEFINE P == snap[r][job[r].tunnel]
             j == [job[r] EXCEPT !.peer.addr = LowestFree(P)]
  <2>2. Free(P) # {} /\ Send(r, j) /\ UNCHANGED meta
    BY <1>4, <1>0, <2>1 DEF Allocate, IInv, Bookkeeping
  <2>3. app[r] = "status" /\ job[r] \in Job /\ Asked(r, "create_peer")
    BY <2>1 DEF Allocate, IInv, Bookkeeping, Asked
  <2>4. snap[r] = meta  BY <2>3 DEF Fresh, Open, PeerOps, Asked
  <2>5. j.peer.addr = LowestFree(P) /\ j.tunnel = job[r].tunnel  BY <2>3 DEF Job, Peer
  <2> HIDE DEF P, j
  <2>6. job'[r] = j  BY <2>2 DEF Send, IInv, TypeOK
  <2>7. LowestFree(P) \in Free(P)  BY <2>2, LowestFreeIsFree
  <2>8. \A q \in P : q.addr # LowestFree(P)  BY <2>7 DEF Free
  <2> QED  BY <2>2, <2>4, <2>5, <2>6, <2>8 DEF P
<1>5. \A q \in Requests : hlp'[q] \in {"idle", "sent"}  BY <1>0
<1>6. \A q \in Requests : hlp'[q] = "sent" => q = r  BY <1>0
<1> QED  BY <1>1, <1>2, <1>3, <1>4, <1>5, <1>6 DEF Agreed, Half, Same, Asked

\* A command changes the .conf, then the interface, as its job makes the
\* metadata of the handler that waits for it.
LEMMA AgreedCommand ==
  ASSUME IInv, Origins, OneOpen, Waited, Starts, Agreed, NEW c \in Requests, Command(c)
  PROVE  Agreed'
<1> DEFINE t == job[c].tunnel
           p == job[c].peer
<1>0. /\ UNCHANGED <<app, job, meta>>
      /\ c \in Open /\ app[c] = "await" /\ hlp[c] \in {"sent", "wgset", "unlink", "start"}
      /\ \A q \in Requests \ {c} : hlp[q] = "idle" /\ hlp'[q] = "idle" /\ q \notin Open
  <2>1. hlp[c] \in {"sent", "wgset", "unlink", "start"} /\ UNCHANGED web  BY CommandMoves
  <2>2. app[c] = "await"  BY <2>1 DEF Waited
  <2> QED  BY <2>1, <2>2, Alone, CommandMoves DEF web
<1>1. t \in Tunnels /\ p \in Peer /\ p.key \in Requests
  <2>1. job[c] \in Job  BY <1>0 DEF IInv, Bookkeeping
  <2> QED  BY <2>1 DEF Job, Peer
<1>2. hlp[c] # "wgset" => conf = meta /\ Same(live, conf)
  BY <1>0 DEF Agreed, Half
<1>3. hlp[c] # "start" => DOMAIN starting = {}
  <2>1. \A q \in Open : q = c  BY <1>0 DEF Open
  <2> QED  BY <2>1 DEF Starts
<1>4. \A x \in DOMAIN conf : \A a, b \in conf[x] : a.addr = b.addr => a = b
  BY DEF Agreed
<1>5. \A x \in DOMAIN starting : x \in DOMAIN conf /\ x \notin DOMAIN live /\ starting[x] = conf[x]
  BY DEF Agreed
<1> HIDE DEF t, p
<1>6. ASSUME hlp'[c] # "sent",
             hlp'[c] \in {"wgset", "ok"} => conf' = Result(c),
             hlp'[c] \notin {"wgset", "ok"} => conf' = meta,
             hlp'[c] = "wgset" => t \in DOMAIN live' /\ Same(live', meta)
                                  /\ (Asked(c, "create_peer") => \A q \in meta[t] : q.addr # p.addr),
             hlp'[c] # "wgset" => Same(live', conf'),
             hlp'[c] = "unlink" => t \notin DOMAIN live',
             hlp'[c] = "start" => t \in DOMAIN live' \cup DOMAIN starting',
             \A x \in DOMAIN starting' : x \in DOMAIN conf' /\ x \notin DOMAIN live' /\ starting'[x] = conf'[x],
             \A x \in DOMAIN conf' : \A a, b \in conf'[x] : a.addr = b.addr => a = b
      PROVE  Agreed'
  <2>1. c \in Open' /\ Result(c)' = Result(c)  BY <1>0 DEF Open, Result, Asked
  <2>2. \A q \in Requests : hlp'[q] # "idle" => q = c  BY <1>0
  <2> QED  BY <1>0, <1>6, <2>1, <2>2 DEF Agreed, Half, Same, Asked, t, p
<1>7. CASE HCreateTunnel(c)
  <2>1. hlp[c] = "sent" /\ Asked(c, "create_tunnel") /\ UNCHANGED <<live, starting>>
    BY <1>7 DEF HCreateTunnel, At, Asked, kernel
  <2>2. CASE t \in DOMAIN conf
    <3>1. hlp'[c] = "err" /\ UNCHANGED conf
      BY <1>7, <2>2, HelperReplies DEF HCreateTunnel, t
    <3> QED  BY <1>2, <1>3, <1>4, <1>6, <2>1, <3>1 DEF Same
  <2>3. CASE t \notin DOMAIN conf
    <3>1. hlp'[c] = "ok" /\ conf' = With(conf, t, {})
      BY <1>7, <2>3, HelperReplies DEF HCreateTunnel, t
    <3>2. conf' = Result(c)  BY <1>2, <2>1, <3>1, ResultIs DEF t
    <3>3. Same(live', conf')  BY <1>2, <2>1, <2>3, <3>1 DEF Same, With
    <3>4. \A x \in DOMAIN conf' : \A a, b \in conf'[x] : a.addr = b.addr => a = b
      BY <1>4, <3>1 DEF With
    <3> QED  BY <1>3, <1>6, <2>1, <3>1, <3>2, <3>3, <3>4
  <2> QED  BY <2>2, <2>3
<1>8. ASSUME StopUnit(t), UNCHANGED conf, hlp[c] = "sent"
      PROVE  /\ DOMAIN starting' = {} /\ t \notin DOMAIN live' /\ Same(live', conf')
  BY <1>2, <1>3, <1>8 DEF StopUnit, Without, Same
<1>9. CASE HDisable(c)
  <2>1. hlp[c] = "sent" /\ StopUnit(t) /\ UNCHANGED conf /\ hlp'[c] = "unlink"
    BY <1>9, HelperReplies DEF HDisable, At, disk, t
  <2> QED  BY <1>2, <1>4, <1>6, <1>8, <2>1
<1>10. CASE HUnlink(c)
  <2>1. /\ hlp[c] = "unlink" /\ Asked(c, "delete_tunnel") /\ UNCHANGED <<live, starting>>
        /\ conf' = Without(conf, t) /\ hlp'[c] = "ok"
    BY <1>10, HelperReplies DEF HUnlink, At, Asked, kernel, t
  <2>2. conf' = Result(c)  BY <1>2, <2>1, ResultIs DEF t
  <2>3. t \notin DOMAIN live  BY <2>1 DEF Agreed, t
  <2>4. Same(live', conf')  BY <1>2, <2>1, <2>3 DEF Same, Without
  <2>5. \A x \in DOMAIN conf' : \A a, b \in conf'[x] : a.addr = b.addr => a = b
    BY <1>4, <2>1 DEF Without
  <2> QED  BY <1>3, <1>6, <2>1, <2>2, <2>4, <2>5
<1>11. CASE HAddConf(c)
  <2>1. hlp[c] = "sent" /\ Asked(c, "create_peer") /\ UNCHANGED <<live, starting>>
    BY <1>11 DEF HAddConf, At, Asked, kernel
  <2>2. CASE CanAdd(t, p)
    <3>1. /\ t \in DOMAIN conf /\ conf' = With(conf, t, conf[t] \cup {p})
          /\ hlp'[c] = IF t \in DOMAIN live THEN "wgset" ELSE "ok"
      BY <1>11, <2>2, HelperReplies DEF HAddConf, BlocksWith, CanAdd, AfterWrite, t, p
    <3>2. conf' = Result(c)  BY <1>2, <2>1, <3>1, ResultIs DEF t, p
    <3>3. \A q \in meta[t] : q.addr # p.addr  BY <2>1 DEF Agreed, t, p
    <3>4. \A x \in DOMAIN conf' : \A a, b \in conf'[x] : a.addr = b.addr => a = b
      BY <1>2, <1>4, <2>1, <3>1, <3>3 DEF With
    <3>5. t \notin DOMAIN live => Same(live', conf')
      BY <1>2, <2>1, <3>1 DEF Same, With
    <3> QED  BY <1>2, <1>3, <1>6, <2>1, <3>1, <3>2, <3>3, <3>4, <3>5
  <2>3. CASE ~CanAdd(t, p)
    <3>1. hlp'[c] = "err" /\ UNCHANGED conf
      BY <1>11, <2>3, HelperReplies DEF HAddConf, disk, t, p
    <3> QED  BY <1>2, <1>3, <1>4, <1>6, <2>1, <3>1 DEF Same
  <2> QED  BY <2>2, <2>3
<1>12. CASE HRemoveConf(c)
  <2>1. hlp[c] = "sent" /\ Asked(c, "delete_peer") /\ UNCHANGED <<live, starting>>
    BY <1>12 DEF HRemoveConf, At, Asked, kernel
  <2>2. CASE t \in DOMAIN conf
    <3>1. /\ conf' = With(conf, t, Drop(conf[t], p.key))
          /\ hlp'[c] = IF t \in DOMAIN live THEN "wgset" ELSE "ok"
      BY <1>12, <2>2, HelperReplies DEF HRemoveConf, AfterWrite, t, p
    <3>2. conf' = Result(c)  BY <1>2, <2>1, <3>1, ResultIs DEF t, p
    <3>3. \A x \in DOMAIN conf' : \A a, b \in conf'[x] : a.addr = b.addr => a = b
      BY <1>4, <2>2, <3>1 DEF With, Drop
    <3>4. t \notin DOMAIN live => Same(live', conf')
      BY <1>2, <2>1, <3>1 DEF Same, With
    <3>5. ~Asked(c, "create_peer")  BY <2>1 DEF Asked
    <3> QED  BY <1>2, <1>3, <1>6, <2>1, <3>1, <3>2, <3>3, <3>4, <3>5
  <2>3. CASE t \notin DOMAIN conf
    <3>1. hlp'[c] = "err" /\ UNCHANGED conf
      BY <1>12, <2>3, HelperReplies DEF HRemoveConf, t
    <3> QED  BY <1>2, <1>3, <1>4, <1>6, <2>1, <3>1 DEF Same
  <2> QED  BY <2>2, <2>3
<1>13. CASE HWgSet(c)
  <2>1. hlp[c] = "wgset" /\ UNCHANGED <<conf, starting>>  BY <1>13 DEF HWgSet, At, disk
  <2>2. conf = Result(c) /\ t \in DOMAIN live /\ Same(live, meta)
    BY <1>0, <2>1 DEF Agreed, Half, t
  <2>3. hlp'[c] = "ok"  BY <1>13, <2>2, HelperReplies DEF HWgSet, t
  <2>4. Same(live', conf')
    <3>1. CASE Asked(c, "create_peer")
      <4>1. live' = With(live, t, Assign(live[t], p))
        BY <1>13, <2>2, <3>1 DEF HWgSet, Asked, t, p
      <4>2. t \in DOMAIN meta /\ live[t] = meta[t]  BY <2>2 DEF Same
      <4>3. meta[t] \in SUBSET Peer  BY <4>2, DictAt DEF IInv, TypeOK
      <4>4. \A q \in meta[t] : q.key # p.key
        BY <1>0, <3>1, <4>2 DEF Origins, ListedOrigins, Asked, IInv, Bookkeeping, p
      <4>5. \A q \in meta[t] : q.addr # p.addr  BY <2>1, <3>1 DEF Agreed, t, p
      <4>6. Assign(live[t], p) = meta[t] \cup {p}  BY <4>2, <4>3, <4>4, <4>5, AssignNew
      <4>7. conf' = With(meta, t, meta[t] \cup {p})  BY <2>1, <2>2, <3>1, ResultIs DEF t, p
      <4> QED  BY <2>2, <4>1, <4>6, <4>7 DEF Same, With
    <3>2. CASE ~Asked(c, "create_peer")
      <4>1. Asked(c, "delete_peer") /\ live' = With(live, t, Drop(live[t], p.key))
        BY <1>13, <2>2, <3>2 DEF HWgSet, At, Asked, t, p
      <4>2. conf' = With(meta, t, Drop(meta[t], p.key))  BY <2>1, <2>2, <4>1, ResultIs DEF t, p
      <4> QED  BY <2>2, <4>1, <4>2 DEF Same, With
    <3> QED  BY <3>1, <3>2
  <2> QED  BY <1>3, <1>4, <1>6, <2>1, <2>2, <2>3, <2>4
<1>14. CASE HActivate(c)
  <2>1. hlp[c] = "sent" /\ UNCHANGED <<conf, live>>
    BY <1>14 DEF HActivate, At, disk, kernel
  <2>2. CASE t \notin DOMAIN conf
    <3>1. hlp'[c] = "err" /\ UNCHANGED starting
      BY <1>14, <2>2, HelperReplies DEF HActivate, kernel, t
    <3> QED  BY <1>2, <1>3, <1>4, <1>6, <2>1, <3>1 DEF Same
  <2>3. CASE t \in DOMAIN conf
    <3>1. /\ hlp'[c] = "start"
          /\ starting' = IF t \in DOMAIN live \cup DOMAIN starting
                         THEN starting ELSE With(starting, t, conf[t])
      BY <1>14, <2>3, HelperReplies DEF HActivate, t
    <3>2. t \in DOMAIN live' \cup DOMAIN starting'  BY <2>1, <3>1 DEF With
    <3>3. \A x \in DOMAIN starting' : x \in DOMAIN conf' /\ x \notin DOMAIN live' /\ starting'[x] = conf'[x]
      BY <1>5, <2>1, <2>3, <3>1 DEF With
    <3> QED  BY <1>2, <1>4, <1>6, <2>1, <3>1, <3>2, <3>3 DEF Same
  <2> QED  BY <2>2, <2>3
<1>15. CASE HStop(c)
  <2>1. hlp[c] = "sent" /\ job[c].op \in StateOps /\ UNCHANGED conf
    BY <1>15 DEF HStop, At, disk, StateOps
  <2>2. CASE t \notin DOMAIN conf
    <3>1. hlp'[c] = "err" /\ UNCHANGED <<live, starting>>
      BY <1>15, <2>2, HelperReplies DEF HStop, kernel, t
    <3> QED  BY <1>2, <1>3, <1>4, <1>6, <2>1, <3>1 DEF Same
  <2>3. CASE t \in DOMAIN conf
    <3>1. hlp'[c] = "ok" /\ StopUnit(t)
      BY <1>15, <2>3, HelperReplies DEF HStop, t
    <3>2. conf' = Result(c)  BY <1>2, <2>1, ResultIs
    <3> QED  BY <1>4, <1>6, <1>8, <2>1, <3>1, <3>2
  <2> QED  BY <2>2, <2>3
<1>16. CASE HStarted(c)
  <2>1. /\ hlp[c] = "start" /\ Asked(c, "activate") /\ UNCHANGED <<conf, live, starting>>
        /\ t \notin DOMAIN starting
    BY <1>16 DEF HStarted, At, Asked, disk, kernel, t
  <2>2. t \in DOMAIN live  BY <2>1 DEF Agreed, t
  <2>3. hlp'[c] = "ok"  BY <1>16, <2>2, HelperReplies DEF HStarted, t
  <2>4. conf' = Result(c)  BY <1>2, <2>1, ResultIs DEF StateOps, Asked
  <2> QED  BY <1>2, <1>4, <1>5, <1>6, <2>1, <2>3, <2>4 DEF Same
<1> QED
  BY <1>7, <1>9, <1>10, <1>11, <1>12, <1>13, <1>14, <1>15, <1>16 DEF Command

\* An interface comes up with what the .conf holds.
LEMMA AgreedWgQuickUp ==
  ASSUME IInv, OneOpen, Waited, Starts, Agreed, NEW t \in Tunnels, WgQuickUp(t)
  PROVE  Agreed'
<1>0. t \in DOMAIN starting /\ UNCHANGED <<conf, meta, app, job, hlp>>
  BY DEF WgQuickUp, disk, web
<1>1. PICK c \in Open : hlp[c] = "start" /\ job[c].tunnel = t  BY <1>0 DEF Starts
<1>2. c \in Requests /\ \A q \in Requests \ {c} : hlp[q] = "idle"
  BY <1>1, Alone DEF Open
<1>3. conf = meta /\ Same(live, conf)  BY <1>1, <1>2 DEF Agreed, Half
<1>4. t \in DOMAIN conf /\ starting[t] = conf[t] /\ conf[t] \in SUBSET Peer
  BY <1>0, DictAt DEF Agreed, IInv, TypeOK
<1>5. live' = With(live, t, conf[t])
  <2>1. PICK w \in Winners(conf[t]) : live' = With(live, t, Loaded(conf[t], w))
    BY <1>4 DEF WgQuickUp
  <2>2. \A p, q \in conf[t] : p.addr = q.addr => p = q  BY <1>4 DEF Agreed
  <2> QED  BY <1>4, <2>1, <2>2, LoadedDistinct
<1>6. Same(live', conf)  BY <1>3, <1>4, <1>5 DEF Same, With
<1>7. \A x \in DOMAIN starting' : x \in DOMAIN conf /\ x \notin DOMAIN live' /\ starting'[x] = conf[x]
  BY <1>5 DEF WgQuickUp, Without, With, Agreed
<1>8. \A q \in Requests : hlp[q] # "idle" => hlp[q] = "start" /\ job[q].tunnel = t
  BY <1>1, <1>2
<1>9. t \in DOMAIN live'  BY <1>5 DEF With
<1>10. \A x \in DOMAIN conf : \A p, q \in conf[x] : p.addr = q.addr => p = q
  BY DEF Agreed
<1> QED  BY <1>0, <1>3, <1>6, <1>7, <1>8, <1>9, <1>10 DEF Agreed, Half, Same, Asked

LEMMA AgreementNext ==
  IInv /\ Origins /\ Turns /\ Quiet /\ Agreement /\ [Next]_vars => Agreement'
<1> SUFFICES ASSUME IInv, Origins, Turns, Quiet, Agreement, [Next]_vars, Serial, faults' = 0
             PROVE  Agreed'
  BY DEF Agreement, Calm
<1>1. faults = 0  BY CalmStep
<1>2. Agreed /\ OneOpen /\ Fresh /\ Waited /\ Starts
  BY <1>1 DEF Agreement, Calm, Turns, Quiet
<1>3. ASSUME UNCHANGED vars PROVE Agreed'
  BY <1>2, <1>3 DEF vars, disk, kernel, web, Agreed, Half, Open, Result, Same, Asked
<1> QED  BY <1>2, <1>3, CalmStep, AgreedHandler, AgreedCommand, AgreedWgQuickUp

LEMMA AgreementInit == Init => Agreement
BY DEF Init, NoTunnels, NoJob, Agreement, Agreed, Half, Open, Same, Asked

LEMMA AgreementHolds == Spec => [](IInv /\ Turns /\ Quiet /\ Agreement)
<1>1. IInv /\ Origins /\ Turns /\ Quiet /\ Agreement /\ [Next]_vars =>
        (IInv /\ Origins /\ Turns /\ Quiet /\ Agreement)'
  BY IInvNext, OriginsNext, TurnsNext, QuietNext, AgreementNext
<1> QED  BY <1>1, IInvInit, OriginsInit, TurnsInit, QuietInit, AgreementInit, PTL DEF Spec

\* One client at a time and no fault: between requests the metadata and the
\* .conf files are the same, each interface has the peers of its .conf, and no
\* two peers of a tunnel share an address: what _allocate_peer_address finds
\* free in the metadata is free in the .conf and on the interface.
THEOREM Agrees == Spec => []QuietAgreement
<1>1. Quiet /\ Agreement => QuietAgreement
  <2> SUFFICES ASSUME Quiet, Agreement, Serial, faults = 0, Open = {}
               PROVE  /\ meta = conf
                      /\ DOMAIN live \subseteq DOMAIN conf
                      /\ \A t \in DOMAIN live : live[t] = conf[t]
                      /\ \A t \in DOMAIN conf : \A p, q \in conf[t] : p.addr = q.addr => p = q
    BY DEF QuietAgreement
  <2>1. Agreed /\ Waited  BY DEF Agreement, Quiet, Calm
  <2>2. \A r \in Requests : hlp[r] = "idle"  BY <2>1 DEF Waited, Open
  <2>3. conf = meta /\ Same(live, conf)  BY <2>1, <2>2 DEF Agreed, Half
  <2> QED  BY <2>1, <2>3 DEF Agreed, Same
<1> QED  BY <1>1, AgreementHolds, PTL

\* One client at a time and no fault, every live peer has the address its
\* .conf block gives it, at every step and not only between requests: that
\* a peer loses it takes two create_peer requests that overlap, or a fault.
THEOREM SerialKeepsAddresses == Spec => [](Serial => LivePeerHasItsAddress)
<1>1. IInv /\ Turns /\ Quiet /\ Agreement => (Serial => LivePeerHasItsAddress)
  <2> SUFFICES ASSUME IInv, Turns, Quiet, Agreement, Serial, faults = 0,
                      NEW t \in DOMAIN live, NEW p \in live[t]
               PROVE  p.addr # NoAddr
    BY DEF LivePeerHasItsAddress
  <2>1. Agreed  BY DEF Agreement, Calm
  <2>2. Same(live, conf) \/ Same(live, meta)  BY <2>1 DEF Agreed
  <2>3. (t \in DOMAIN conf /\ p \in conf[t]) \/ (t \in DOMAIN meta /\ p \in meta[t])
    BY <2>2 DEF Same
  <2>4. p \in Peer  BY <2>3, DictAt DEF IInv, TypeOK
  <2> QED  BY <2>4, HostsAssumption DEF Peer, NoAddr
<1> QED  BY <1>1, AgreementHolds, PTL

=============================================================================
