------------------------------ MODULE Telemetry ------------------------------
(***************************************************************************)
(* The MQTT telemetry agent (app/telemetry.py) and the broker it reports   *)
(* to.  The agent has two threads: main, which publishes a reading every   *)
(* interval and stops the agent, and paho's network thread, which connects *)
(* and calls on_connect.  Both publish on one connection.  The broker      *)
(* keeps the last retained message of each of the three topics, and        *)
(* publishes the agent's Last Will when a connection ends without a        *)
(* DISCONNECT.                                                             *)
(*                                                                         *)
(* A reading is named by the connection in whose time it was taken.        *)
(***************************************************************************)
EXTENDS Naturals, Sequences, SequencesExt

CONSTANTS
  MaxStarts,  \* bound on the runs of the agent
  MaxFaults,  \* bound on lost links, refusals, kills and broker reinstallations
  MaxWire     \* bound on the messages in flight when main publishes a reading

ASSUME StartsAssumption == MaxStarts \in Nat \ {0}
ASSUME FaultsAssumption == MaxFaults \in Nat
ASSUME WireAssumption == MaxWire \in Nat \ {0}

VARIABLES
  main,    \* the main thread: "off", "loop", or "sleep" after it has stopped
  net,     \* the network thread: where it stands
  link,    \* the agent's TCP connection: "none", "open", or "cut" and not noticed
  wire,    \* messages on the connection, not yet received
  queue,   \* QoS 1 messages paho sends again when it is connected
  session, \* the broker's side: "none", "live", or "stale", of a connection gone
  kept,    \* the retained messages
  conns,   \* connections so far
  starts,
  faults,
  late     \* history: a stop may have been overtaken by its own on_connect, and
           \* no connection has been made since

agent == <<main, net, queue>>
tcp == <<link, wire>>
bounds == <<conns, starts, faults>>
vars == <<agent, tcp, session, kept, bounds, late>>

Connects == 0..(MaxStarts + MaxFaults)
Reading(n) == [says |-> "state", of |-> n]
Message(s) == [says |-> s, of |-> 0]
Assured == {Message(s) : s \in {"config", "online", "offline"}}      \* QoS 1
Messages == Assured \cup {Message("connect"), Message("disconnect")}
                    \cup {Reading(n) : n \in Connects}
Nothing == [config |-> FALSE, avail |-> "none", state |-> 0]

OnConnect == {"config", "online", "state", "resend"}       \* steps of the callback

TypeOK ==
  /\ main \in {"off", "loop", "sleep"}
  /\ net \in {"off", "dial", "wait", "up"} \cup OnConnect
  /\ link \in {"none", "open", "cut"}
  /\ wire \in Seq(Messages)
  /\ queue \in Seq(Assured)
  /\ session \in {"none", "live", "stale"}
  /\ kept \in [config: BOOLEAN, avail: {"none", "online", "offline"}, state: Connects]
  /\ conns \in Connects /\ conns <= starts + faults
  /\ starts \in 0..MaxStarts
  /\ faults \in 0..MaxFaults
  /\ late \in BOOLEAN

----------------------------------------------------------------------------
(* The agent                                                               *)

\* client.publish: without a connection a QoS 1 message waits for one, and a
\* reading is dropped.
Publish(m) ==
  IF link # "none" THEN wire' = Append(wire, m) /\ UNCHANGED queue
  ELSE /\ queue' = IF m \in Assured THEN Append(queue, m) ELSE queue
       /\ UNCHANGED wire

Gone == IF session = "live" THEN "stale" ELSE session

\* main() up to loop_start.
Start ==
  /\ main = "off"
  /\ starts < MaxStarts
  /\ main' = "loop" /\ net' = "dial" /\ queue' = << >>
  /\ link' = "none" /\ wire' = << >> /\ session' = Gone
  /\ starts' = starts + 1
  /\ UNCHANGED <<kept, conns, faults, late>>

\* paho connects, at first and after reconnect_delay.
Dial ==
  /\ net = "dial"
  /\ net' = "wait"
  /\ link' = "open" /\ wire' = <<Message("connect")>> /\ session' = Gone
  /\ conns' = conns + 1
  /\ UNCHANGED <<main, queue, kept, starts, faults, late>>

\* on_connect publishes discovery, availability and a reading; then paho sends
\* again what was not acknowledged on an earlier connection.
Discovery == net = "config" /\ net' = "online" /\ Publish(Message("config"))
Online == net = "online" /\ net' = "state" /\ Publish(Message("online"))
FirstState == net = "state" /\ net' = "resend" /\ Publish(Reading(conns))
Resend == net = "resend" /\ net' = "up" /\ wire' = wire \o queue /\ queue' = << >>

OnConnectStep_OnlineFirst ==
  \/ net = "config" /\ net' = "online" /\ Publish(Message("online"))
  \/ net = "online" /\ net' = "state" /\ Publish(Message("config"))
  \/ FirstState \/ Resend
OnConnectStep_NoState ==
  Discovery \/ Online \/ (net = "state" /\ net' = "resend" /\ UNCHANGED <<wire, queue>>) \/ Resend
OnConnectStep_FirstOnly ==
  \/ conns = 1 /\ (Discovery \/ Online)
  \/ conns > 1 /\ net = "config" /\ net' = "state" /\ UNCHANGED <<wire, queue>>
  \/ FirstState \/ Resend
OnConnectStep == Discovery \/ Online \/ FirstState \/ Resend
Callback ==
  /\ OnConnectStep
  /\ UNCHANGED <<main, link, session, kept, bounds, late>>

\* What paho sends again of what was under way.
Unacknowledged_All(w) == w
Unacknowledged(w) ==
  LET upto[i \in 0..Len(w)] ==
        IF i = 0 THEN << >>
        ELSE IF w[i] \in Assured THEN Append(upto[i-1], w[i]) ELSE upto[i-1]
  IN  upto[Len(w)]

\* paho has lost the connection and will make another one, but in the half
\* second of an agent that stops: reconnect_delay is at least five seconds.
Lose ==
  /\ net' = IF main = "sleep" THEN "off" ELSE "dial"
  /\ link' = "none" /\ wire' = << >>
  /\ queue' = queue \o Unacknowledged(wire)

\* It finds out between callbacks.
Notice ==
  /\ link = "cut"
  /\ net \in {"wait", "up"}
  /\ Lose
  /\ UNCHANGED <<main, session, kept, bounds, late>>

\* The main loop, each interval: publish a reading when connected.
Connected == net \in OnConnect \cup {"up"}
Tick ==
  /\ main = "loop"
  /\ Connected
  /\ Len(wire) < MaxWire
  /\ Publish(Reading(conns))
  /\ UNCHANGED <<main, net, link, session, kept, bounds, late>>

\* SIGTERM: the main thread publishes "offline".  Does an "online" of this
\* connection come after it?
Overtaken == \/ net \in {"wait", "config", "online"}
             \/ net \in {"state", "resend"} /\ Contains(queue, Message("online"))
Stop ==
  /\ main = "loop"
  /\ main' = "sleep"
  /\ Publish(Message("offline"))
  /\ late' = (late \/ Overtaken)
  /\ UNCHANGED <<net, link, session, kept, bounds>>

\* Half a second later: loop_stop waits for the network thread, which ends
\* between callbacks; then disconnect().
Exit ==
  /\ main = "sleep"
  /\ net \notin OnConnect
  /\ main' = "off" /\ net' = "off" /\ queue' = << >>
  /\ wire' = IF link = "open" THEN Append(wire, Message("disconnect")) ELSE << >>
  /\ link' = IF link = "open" THEN "open" ELSE "none"
  /\ UNCHANGED <<session, kept, bounds, late>>

----------------------------------------------------------------------------
(* The broker                                                              *)

\* What a connection's end without DISCONNECT makes of the retained
\* availability: will_set(..., "offline", retain=True).
LastWill_NotRetained(avail) == avail
LastWill(avail) == "offline"
WillIf(gone) == [kept EXCEPT !.avail = IF gone THEN LastWill(@) ELSE @]

\* The first message on the connection is received.  A CONNECT takes over the
\* session of an older connection.
Receive ==
  /\ link = "open" /\ wire # << >>
  /\ LET m == Head(wire)
         Is(t) == m.says = t
     IN  /\ session' = IF Is("connect") THEN "live" ELSE IF Is("disconnect") THEN "none" ELSE session
         /\ net' = IF Is("connect") /\ net = "wait" THEN "config" ELSE net
         /\ link' = IF Is("disconnect") THEN "none" ELSE link
         /\ kept' = CASE Is("connect") -> WillIf(session = "stale")
                      [] Is("config") -> [kept EXCEPT !.config = TRUE]
                      [] Is("state") -> [kept EXCEPT !.state = m.of]
                      [] Is("disconnect") -> kept
                      [] OTHER -> [kept EXCEPT !.avail = m.says]
         /\ late' = (late /\ ~(Is("connect") /\ main = "loop"))
  /\ wire' = Tail(wire)
  /\ UNCHANGED <<main, queue, bounds>>

\* Keepalive ends for a connection that is gone.
Expire ==
  /\ session = "stale"
  /\ session' = "none"
  /\ kept' = WillIf(TRUE)
  /\ UNCHANGED <<agent, tcp, bounds, late>>

----------------------------------------------------------------------------
(* Faults                                                                  *)

Fault == faults < MaxFaults /\ faults' = faults + 1

LinkCut ==
  /\ Fault
  /\ link = "open"
  /\ link' = "cut" /\ session' = Gone
  /\ UNCHANGED <<agent, wire, kept, conns, starts, late>>

\* on_connect with a reason_code other than 0 returns at once.
Refuse ==
  /\ Fault
  /\ link = "open" /\ net = "wait" /\ wire # << >> /\ Head(wire).says = "connect"
  /\ Lose
  /\ UNCHANGED <<main, session, kept, conns, starts, late>>

Kill ==
  /\ Fault
  /\ main # "off"
  /\ main' = "off" /\ net' = "off" /\ queue' = << >>
  /\ link' = "none" /\ wire' = << >> /\ session' = Gone
  /\ UNCHANGED <<kept, conns, starts, late>>

\* "the broker may have been reinstalled and lost its retained messages"
BrokerReset ==
  /\ Fault
  /\ session' = "none"
  /\ kept' = Nothing
  /\ link' = IF link = "open" THEN "cut" ELSE link
  /\ UNCHANGED <<agent, wire, conns, starts, late>>

----------------------------------------------------------------------------

Init ==
  /\ main = "off" /\ net = "off" /\ queue = << >>
  /\ link = "none" /\ wire = << >>
  /\ session = "none" /\ kept = Nothing
  /\ conns = 0 /\ starts = 0 /\ faults = 0
  /\ late = FALSE

Network == Dial \/ Callback \/ Notice
Broker == Receive \/ Expire
Next ==
  \/ Start \/ Tick \/ Stop \/ Exit
  \/ Network \/ Broker
  \/ LinkCut \/ Refuse \/ Kill \/ BrokerReset

Spec == Init /\ [][Next]_vars

\* Threads run, the broker reads what arrives and its keepalive ends; nobody
\* need start or stop the agent.
Fairness ==
  /\ WF_vars(Dial) /\ WF_vars(Callback) /\ WF_vars(Notice)
  /\ WF_vars(Receive) /\ WF_vars(Expire) /\ WF_vars(Exit)
FairSpec == Spec /\ Fairness

----------------------------------------------------------------------------
(* Properties                                                              *)

\* A subscriber that sees the agent online has its discovery message: the
\* broker that lost its retained messages gets them in this order again.
OnlineIsDescribed == kept.avail = "online" => kept.config

\* When nothing is in flight on a working connection, the broker shows the
\* agent online, with a reading of this connection and not of an earlier one:
\* no Last Will of an older connection, no message sent again and no lost
\* reading leaves it otherwise until the next interval.
SettledIsShown ==
  main = "loop" /\ net = "up" /\ link = "open" /\ wire = << >> =>
    kept = [config |-> TRUE, avail |-> "online", state |-> conns]

\* An agent that goes on running is shown online for good, whatever links were
\* lost and whatever the broker forgot before.
RunningIsShown == <>[](main = "loop") => <>[](kept.avail = "online" /\ kept.config)

\* An agent that has stopped or was killed is shown so, unless its stop
\* overlapped its own on_connect.
DownIsShown ==
  (main = "off" /\ ~late) ~> (main # "off" \/ kept.avail # "online")

=============================================================================
