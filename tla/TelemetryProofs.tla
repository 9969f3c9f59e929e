-------------------------- MODULE TelemetryProofs --------------------------
(***************************************************************************)
(* Theorems about Telemetry, for any number of runs of the agent, of       *)
(* connections and of faults.                                              *)
(***************************************************************************)
EXTENDS Telemetry, SequenceTheorems, WellFoundedInduction, TLAPS

----------------------------------------------------------------------------
(* The inductive invariant                                                 *)

Config == Message("config")
OnlineMsg == Message("online")
OfflineMsg == Message("offline")
Final == Message("disconnect")

\* The types: of the two sequences of messages, and of the rest.
Queues == wire \in Seq(Messages) /\ queue \in Seq(Assured)
Values ==
  /\ main \in {"off", "loop", "sleep"}
  /\ net \in {"off", "dial", "wait", "up"} \cup OnConnect
  /\ link \in {"none", "open", "cut"}
  /\ session \in {"none", "live", "stale"}
  /\ kept \in [config: BOOLEAN, avail: {"none", "online", "offline"}, state: Connects]
  /\ conns \in Nat /\ conns <= starts + faults
  /\ starts \in 0..MaxStarts
  /\ faults \in 0..MaxFaults
  /\ late \in BOOLEAN

\* The messages of a queue, whatever their order, and what is wanted of the
\* order: the discovery message goes before the first "online".
Held(w) == {w[i] : i \in 1..Len(w)}
Preceded(w) == \A i \in 1..Len(w) : w[i] = OnlineMsg => \E j \in 1..(i - 1) : w[j] = Config

\* Each connection was paid for by a start or a fault, and so is the next one.
Counted == net = "dial" \/ link = "cut" => conns < starts + faults

\* A connection that carries messages: which readings, and that the goodbye is
\* the last thing the agent does.
Carried ==
  link = "open" =>
    /\ \A n \in Connects : Reading(n) \in Held(wire) => n = conns
    /\ Final \in Held(wire) => net = "off"
    /\ Connected => session = "live"

\* Who is shown online is described, also by what is still to arrive.
Described ==
  /\ OnlineIsDescribed
  /\ link = "open" /\ ~kept.config =>
       Preceded(wire) /\ (net \in {"online", "state", "resend", "up"} => Config \in Held(wire))

\* An agent that runs has said nothing else, and what it has said has arrived
\* or will.
Said ==
  main = "loop" =>
    /\ OfflineMsg \notin Held(wire) \cup Held(queue)
    /\ link = "open" =>
         /\ net \in {"state", "resend", "up"} /\ kept.avail # "online" => OnlineMsg \in Held(wire)
         /\ net \in {"resend", "up"} /\ kept.state # conns => Reading(conns) \in Held(wire)

IInv == Values /\ Queues /\ Counted /\ Carried /\ Described /\ Said

----------------------------------------------------------------------------
(* Sequences of messages                                                   *)

\* An index of a sequence names an element of its set.
LEMMA HeldIn ==
  ASSUME NEW S, NEW w \in Seq(S)
  PROVE  Held(w) \subseteq S
BY ElementOfSeq DEF Held

LEMMA HeldNone == Held(<< >>) = {} /\ Preceded(<< >>)
BY DEF Held, Preceded

\* What is sent is added to what is under way.
LEMMA HeldAppend ==
  ASSUME NEW S, NEW w \in Seq(S), NEW m \in S
  PROVE  /\ Append(w, m) \in Seq(S)
         /\ Held(Append(w, m)) = Held(w) \cup {m}
         /\ Preceded(w) /\ (m = OnlineMsg => Config \in Held(w)) => Preceded(Append(w, m))
<1> DEFINE a == Append(w, m)
<1>1. /\ a \in Seq(S) /\ Len(a) = Len(w) + 1 /\ Len(w) \in Nat
      /\ \A i \in 1..Len(w) : a[i] = w[i]
      /\ a[Len(w) + 1] = m
  BY AppendProperties, LenProperties
<1> HIDE DEF a
<1>2. Held(a) = Held(w) \cup {m}
  BY <1>1 DEF Held
<1>3. ASSUME Preceded(w), m = OnlineMsg => Config \in Held(w)
      PROVE  Preceded(a)
  <2> SUFFICES ASSUME NEW i \in 1..Len(a), a[i] = OnlineMsg
               PROVE  \E j \in 1..(i - 1) : a[j] = Config
    BY DEF Preceded
  <2>1. CASE i \in 1..Len(w)
    <3>1. PICK j \in 1..(i - 1) : w[j] = Config
      BY <1>1, <1>3, <2>1 DEF Preceded
    <3> QED BY <1>1, <2>1, <3>1
  <2>2. CASE i = Len(w) + 1
    <3>1. PICK j \in 1..Len(w) : w[j] = Config
      BY <1>1, <1>3, <2>2 DEF Held
    <3> QED BY <1>1, <2>2, <3>1
  <2> QED BY <1>1, <2>1, <2>2
<1> QED BY <1>1, <1>2, <1>3 DEF a

\* What is sent again comes after it.
LEMMA HeldConcat ==
  ASSUME NEW S, NEW w \in Seq(S), NEW q \in Seq(S)
  PROVE  /\ w \o q \in Seq(S)
         /\ Held(w \o q) = Held(w) \cup Held(q)
         /\ Preceded(w) /\ Config \in Held(w) => Preceded(w \o q)
<1> DEFINE a == w \o q
<1>1. /\ a \in Seq(S) /\ Len(a) = Len(w) + Len(q) /\ Len(w) \in Nat /\ Len(q) \in Nat
      /\ \A i \in 1..Len(w) + Len(q) : a[i] = IF i <= Len(w) THEN w[i] ELSE q[i - Len(w)]
  BY ConcatProperties, LenProperties
<1> HIDE DEF a
<1>2. Held(w) \subseteq Held(a)
  BY <1>1 DEF Held
<1>3. ASSUME NEW j \in 1..Len(q) PROVE q[j] \in Held(a)
  <2>1. a[Len(w) + j] = q[j] /\ Len(w) + j \in 1..Len(a)
    BY <1>1
  <2> QED BY <2>1 DEF Held
<1>4. ASSUME NEW i \in 1..Len(a) PROVE a[i] \in Held(w) \cup Held(q)
  BY <1>1 DEF Held
<1>5. Held(a) = Held(w) \cup Held(q)
  BY <1>2, <1>3, <1>4 DEF Held
<1>6. ASSUME Preceded(w), Config \in Held(w)
      PROVE  Preceded(a)
  <2> SUFFICES ASSUME NEW i \in 1..Len(a), a[i] = OnlineMsg
               PROVE  \E j \in 1..(i - 1) : a[j] = Config
    BY DEF Preceded
  <2>1. CASE i \in 1..Len(w)
    <3>1. PICK j \in 1..(i - 1) : w[j] = Config
      BY <1>1, <1>6, <2>1 DEF Preceded
    <3> QED BY <1>1, <2>1, <3>1
  <2>2. CASE i > Len(w)
    <3>1. PICK j \in 1..Len(w) : w[j] = Config
      BY <1>1, <1>6, <2>2 DEF Held
    <3> QED BY <1>1, <2>2, <3>1
  <2> QED BY <1>1, <2>1, <2>2
<1> QED BY <1>1, <1>5, <1>6 DEF a

\* What the broker takes is the first of it: no "online" without discovery.
LEMMA HeldTail ==
  ASSUME NEW S, NEW w \in Seq(S), w # << >>
  PROVE  /\ Tail(w) \in Seq(S) /\ Head(w) \in S
         /\ Held(w) = Held(Tail(w)) \cup {Head(w)}
         /\ Preceded(w) => Head(w) # OnlineMsg
         /\ Preceded(w) /\ Head(w) # Config => Preceded(Tail(w))
<1> DEFINE a == Tail(w)
<1>1. /\ a \in Seq(S) /\ Len(a) = Len(w) - 1 /\ Len(w) \in Nat \ {0} /\ Head(w) \in S
      /\ \A i \in 1..Len(a) : a[i] = w[i + 1]
      /\ Head(w) = w[1]
  BY HeadTailProperties, EmptySeq, LenProperties
<1> HIDE DEF a
<1>2. ASSUME NEW i \in 1..Len(w) PROVE w[i] \in Held(a) \cup {Head(w)}
  <2>1. CASE i = 1
    BY <1>1, <2>1
  <2>2. CASE i # 1
    <3>1. i - 1 \in 1..Len(a) /\ a[i - 1] = w[i]
      BY <1>1, <2>2
    <3> QED BY <3>1 DEF Held
  <2> QED BY <2>1, <2>2
<1>3. ASSUME NEW i \in 1..Len(a) PROVE a[i] \in Held(w)
  BY <1>1 DEF Held
<1>4. Held(w) = Held(a) \cup {Head(w)}
  BY <1>1, <1>2, <1>3 DEF Held
<1>5. Preceded(w) => Head(w) # OnlineMsg
  BY <1>1 DEF Preceded
<1>6. ASSUME Preceded(w), Head(w) # Config
      PROVE  Preceded(a)
  <2> SUFFICES ASSUME NEW i \in 1..Len(a), a[i] = OnlineMsg
               PROVE  \E j \in 1..(i - 1) : a[j] = Config
    BY DEF Preceded
  <2>1. i + 1 \in 1..Len(w) /\ w[i + 1] = OnlineMsg
    BY <1>1
  <2>2. PICK k \in 1..((i + 1) - 1) : w[k] = Config
    BY <1>6, <2>1 DEF Preceded
  <2>3. k # 1 /\ k - 1 \in 1..(i - 1) /\ a[k - 1] = w[k]
    BY <1>1, <1>6, <2>2
  <2> QED BY <2>2, <2>3
<1> QED BY <1>1, <1>4, <1>5, <1>6 DEF a

\* What is kept to be sent again was under way and is assured: for the
\* recursion over the sequence has a value at each of its lengths.
LEMMA UnacknowledgedType ==
  ASSUME NEW S, NEW w \in Seq(S)
  PROVE  /\ Unacknowledged(w) \in Seq(Assured)
         /\ Held(Unacknowledged(w)) \subseteq Held(w)
<1> DEFINE T == Assured \cap Held(w)
           Longer(s, i) == IF w[i] \in Assured THEN Append(s, w[i]) ELSE s
           Good(n, f) == /\ f \in [0..n -> Seq(T)]
                         /\ f[0] = << >>
                         /\ \A i \in 1..n : f[i] = Longer(f[i - 1], i)
           Bad == {n \in 0..Len(w) : ~ \E f : Good(n, f)}
<1>1. Len(w) \in Nat
  BY LenProperties
<1>2. ASSUME NEW s \in Seq(T), NEW i \in 1..Len(w)
      PROVE  Longer(s, i) \in Seq(T)
  <2>1. w[i] \in Held(w)
    BY DEF Held
  <2>2. CASE w[i] \in Assured
    <3>1. w[i] \in T
      BY <2>1, <2>2
    <3> HIDE DEF T
    <3> QED BY <2>2, <3>1, AppendProperties
  <2> QED BY <2>2
<1> HIDE DEF T
<1>3. Bad = {}
  <2> SUFFICES ASSUME Bad # {} PROVE FALSE
    OBVIOUS
  <2>1. Bad \subseteq Nat
    BY <1>1
  <2>2. PICK n \in Bad : \A b \in Bad : ~ (<<b, n>> \in OpToRel(<, Nat))
    BY <2>1, NatLessThanWellFounded, WFMin, Zenon
  <2>3. n \in 0..Len(w) /\ ~ \E f : Good(n, f)
    OBVIOUS
  <2>4. CASE n = 0
    <3>1. Good(0, [i \in 0..0 |-> << >>])
      BY EmptySeq
    <3> QED BY <2>3, <2>4, <3>1
  <2>5. CASE n # 0
    <3>1. n - 1 \in 0..Len(w) /\ n - 1 \in Nat /\ n \in Nat /\ n - 1 < n /\ n \in 1..Len(w)
      BY <1>1, <2>3, <2>5
    <3>2. <<n - 1, n>> \in OpToRel(<, Nat)
      BY <3>1 DEF OpToRel
    <3>3. n - 1 \notin Bad
      BY <2>2, <3>2
    <3>4. PICK f : Good(n - 1, f)
      BY <3>1, <3>3
    <3> DEFINE g == [i \in 0..n |-> IF i = n THEN Longer(f[n - 1], n) ELSE f[i]]
    <3>5. f[n - 1] \in Seq(T)
      BY <3>1, <3>4
    <3>6. g \in [0..n -> Seq(T)]
      <4>1. Longer(f[n - 1], n) \in Seq(T)
        BY <1>2, <3>1, <3>5
      <4>2. \A i \in 0..n : i # n => f[i] \in Seq(T)
        BY <3>1, <3>4
      <4> HIDE DEF Longer
      <4> QED BY <4>1, <4>2
    <3>7. g[0] = << >>
      BY <3>1, <3>4
    <3>8. ASSUME NEW i \in 1..n PROVE g[i] = Longer(g[i - 1], i)
      <4> HIDE DEF Longer
      <4>1. g[i - 1] = f[i - 1]
        BY <3>1
      <4>2. CASE i = n
        BY <4>1, <4>2
      <4>3. CASE i # n
        BY <3>1, <3>4, <4>1, <4>3
      <4> QED BY <4>2, <4>3
    <3> HIDE DEF g, Longer
    <3>9. Good(n, g)
      BY <3>6, <3>7, <3>8
    <3> QED BY <2>3, <3>9
  <2> QED BY <2>4, <2>5
<1>4. PICK f : Good(Len(w), f)
  BY <1>1, <1>3
<1> DEFINE Rec(g) == [i \in 0..Len(w) |-> IF i = 0 THEN << >>
                          ELSE IF w[i] \in Assured THEN Append(g[i - 1], w[i]) ELSE g[i - 1]]
           u == CHOOSE g : g = Rec(g)
<1>5. f = Rec(f)
  <2>1. \A i \in 0..Len(w) : i # 0 => i \in 1..Len(w)
    BY <1>1
  <2>2. \A i \in 0..Len(w) : f[i] = Rec(f)[i]
    BY <1>4, <2>1
  <2> QED BY <1>4, <2>2
<1>6. u = Rec(u)
  <2> HIDE DEF Rec
  <2> QED BY <1>5
<1>7. Unacknowledged(w) = u[Len(w)]
  BY DEF Unacknowledged
<1> HIDE DEF u
<1> DEFINE Stray == {n \in 0..Len(w) : u[n] \notin Seq(T)}
<1>8. Stray = {}
  <2> SUFFICES ASSUME Stray # {} PROVE FALSE
    OBVIOUS
  <2>1. Stray \subseteq Nat
    BY <1>1
  <2>2. PICK n \in Stray : \A b \in Stray : ~ (<<b, n>> \in OpToRel(<, Nat))
    BY <2>1, NatLessThanWellFounded, WFMin, Zenon
  <2>3. n \in 0..Len(w) /\ u[n] \notin Seq(T)
    OBVIOUS
  <2>4. n # 0
    BY <1>6, <2>3, EmptySeq
  <2>5. n - 1 \in 0..Len(w) /\ n - 1 \in Nat /\ n \in Nat /\ n - 1 < n /\ n \in 1..Len(w)
    BY <1>1, <2>3, <2>4
  <2>6. <<n - 1, n>> \in OpToRel(<, Nat)
    BY <2>5 DEF OpToRel
  <2>7. u[n - 1] \in Seq(T)
    BY <2>2, <2>5, <2>6
  <2>8. u[n] = Longer(u[n - 1], n)
    BY <1>6, <2>3, <2>4
  <2> HIDE DEF Longer
  <2> QED BY <1>2, <2>3, <2>5, <2>7, <2>8
<1>9. Unacknowledged(w) \in Seq(T)
  BY <1>1, <1>7, <1>8
<1>10. Unacknowledged(w) \in Seq(Assured)
  BY <1>9, SeqMonotonic DEF T
<1>11. Held(Unacknowledged(w)) \subseteq T
  BY <1>9, HeldIn
<1> QED BY <1>10, <1>11 DEF T

----------------------------------------------------------------------------
(* What the operations do to the messages under way                        *)

LEMMA Kinds ==
  /\ Assured = {Config, OnlineMsg, OfflineMsg}
  /\ Assured \subseteq Messages
  /\ Final \in Messages /\ Message("connect") \in Messages
  /\ \A n \in Connects : Reading(n) \in Messages /\ Reading(n).says = "state" /\ Reading(n).of = n
  /\ \A s : Message(s).says = s /\ \A n : Message(s) = Reading(n) => s = "state"
  /\ \A m \in Messages : m.says # "state" => m = Message(m.says)
  /\ \A m \in Messages : m.says = "state" => m.of \in Connects /\ m = Reading(m.of)
  /\ \A m \in Messages : m.says \in {"connect", "disconnect", "config", "online", "offline", "state"}
<1>1. /\ \A s : Message(s).says = s /\ \A n : Message(s) = Reading(n) => s = "state"
      /\ \A n : Reading(n).says = "state" /\ Reading(n).of = n
  BY DEF Message, Reading
<1>2. Assured = {Config, OnlineMsg, OfflineMsg}
  BY DEF Assured, Config, OnlineMsg, OfflineMsg
<1>3. Messages = {Config, OnlineMsg, OfflineMsg, Final, Message("connect")} \cup {Reading(n) : n \in Connects}
  BY <1>2 DEF Messages, Final
<1>4. ASSUME NEW m \in Messages
      PROVE  IF \E n \in Connects : m = Reading(n) THEN m.says = "state" /\ m.of \in Connects /\ m = Reading(m.of)
             ELSE m.says # "state" /\ m = Message(m.says)
                  /\ m.says \in {"connect", "disconnect", "config", "online", "offline"}
  <2>1. CASE \E n \in Connects : m = Reading(n)
    BY <1>1, <2>1
  <2>2. CASE ~ \E n \in Connects : m = Reading(n)
    BY <1>1, <1>3, <2>2 DEF Config, OnlineMsg, OfflineMsg, Final
  <2> QED BY <2>1, <2>2
<1> HIDE DEF Config, OnlineMsg, OfflineMsg, Final
<1> QED BY <1>1, <1>2, <1>3, <1>4

\* publish: the message is under way or waits for a connection, and nothing
\* else changes.
LEMMA Sent ==
  ASSUME wire \in Seq(Messages), queue \in Seq(Assured), NEW m \in Messages, Publish(m)
  PROVE  /\ wire' \in Seq(Messages) /\ queue' \in Seq(Assured)
         /\ Held(wire)' = IF link = "none" THEN Held(wire) ELSE Held(wire) \cup {m}
         /\ Held(queue)' \subseteq Held(queue) \cup {m}
         /\ Preceded(wire) /\ (m = OnlineMsg => Config \in Held(wire)) => Preceded(wire)'
<1> SUFFICES /\ wire' \in Seq(Messages) /\ queue' \in Seq(Assured)
             /\ Held(wire') = IF link = "none" THEN Held(wire) ELSE Held(wire) \cup {m}
             /\ Held(queue') \subseteq Held(queue) \cup {m}
             /\ Preceded(wire) /\ (m = OnlineMsg => Config \in Held(wire)) => Preceded(wire')
  BY DEF Held, Preceded
<1>1. CASE link # "none"
  <2>1. wire' = Append(wire, m) /\ queue' = queue
    BY <1>1 DEF Publish
  <2> QED BY <1>1, <2>1, HeldAppend
<1>2. CASE link = "none"
  <2>1. wire' = wire /\ queue' = IF m \in Assured THEN Append(queue, m) ELSE queue
    BY <1>2 DEF Publish
  <2>2. CASE m \in Assured
    BY <1>2, <2>1, <2>2, HeldAppend
  <2>3. CASE m \notin Assured
    BY <1>2, <2>1, <2>3
  <2> QED BY <2>2, <2>3
<1> QED BY <1>1, <1>2

\* A lost connection: nothing is under way, and what waits is what waited or was.
LEMMA Lost ==
  ASSUME wire \in Seq(Messages), queue \in Seq(Assured), Lose
  PROVE  /\ wire' \in Seq(Messages) /\ queue' \in Seq(Assured)
         /\ Held(wire)' = {}
         /\ Held(queue)' \subseteq Held(queue) \cup Held(wire)
<1> SUFFICES /\ wire' \in Seq(Messages) /\ queue' \in Seq(Assured)
             /\ Held(wire') = {}
             /\ Held(queue') \subseteq Held(queue) \cup Held(wire)
  BY DEF Held
<1>1. wire' = << >> /\ queue' = queue \o Unacknowledged(wire)
  BY DEF Lose
<1>2. Unacknowledged(wire) \in Seq(Assured) /\ Held(Unacknowledged(wire)) \subseteq Held(wire)
  BY UnacknowledgedType
<1> QED BY <1>1, <1>2, HeldConcat, HeldNone, EmptySeq

\* Whatever empties both.
LEMMA Emptied ==
  ASSUME wire' = << >>
  PROVE  wire' \in Seq(Messages) /\ Held(wire)' = {} /\ Preceded(wire)'
BY EmptySeq DEF Held, Preceded

LEMMA EmptiedQueue ==
  ASSUME queue' = << >>
  PROVE  queue' \in Seq(Assured) /\ Held(queue)' = {}
BY EmptySeq DEF Held

LEMMA KeptQueue ==
  ASSUME UNCHANGED queue
  PROVE  (queue' \in Seq(Assured)) = (queue \in Seq(Assured)) /\ Held(queue)' = Held(queue)
BY DEF Held

LEMMA KeptWire ==
  ASSUME UNCHANGED wire
  PROVE  /\ (wire' \in Seq(Messages)) = (wire \in Seq(Messages))
         /\ Held(wire)' = Held(wire) /\ Preceded(wire)' = Preceded(wire)
BY DEF Held, Preceded

LEMMA Added ==
  ASSUME wire \in Seq(Messages), NEW m \in Messages, wire' = Append(wire, m)
  PROVE  /\ wire' \in Seq(Messages)
         /\ Held(wire)' = Held(wire) \cup {m}
         /\ Preceded(wire) /\ m # OnlineMsg => Preceded(wire)'
<1> SUFFICES /\ wire' \in Seq(Messages)
             /\ Held(wire') = Held(wire) \cup {m}
             /\ Preceded(wire) /\ m # OnlineMsg => Preceded(wire')
  BY DEF Held, Preceded
<1> QED BY HeldAppend

LEMMA Taken ==
  ASSUME wire \in Seq(Messages), wire # << >>, wire' = Tail(wire)
  PROVE  /\ wire' \in Seq(Messages) /\ Head(wire) \in Messages
         /\ Held(wire) = Held(wire)' \cup {Head(wire)}
         /\ Preceded(wire) => Head(wire) # OnlineMsg
         /\ Preceded(wire) /\ Head(wire) # Config => Preceded(wire)'
<1> SUFFICES /\ wire' \in Seq(Messages) /\ Head(wire) \in Messages
             /\ Held(wire) = Held(wire') \cup {Head(wire)}
             /\ Preceded(wire) => Head(wire) # OnlineMsg
             /\ Preceded(wire) /\ Head(wire) # Config => Preceded(wire')
  BY DEF Held, Preceded
<1> QED BY HeldTail

LEMMA TypeParts == TypeOK <=> Values /\ Queues
BY StartsAssumption, FaultsAssumption DEF TypeOK, Values, Queues, Connects

\* No message is two.
LEMMA Distinct ==
  /\ Config # OnlineMsg /\ Config # OfflineMsg /\ OnlineMsg # OfflineMsg
  /\ Final \notin {Config, OnlineMsg, OfflineMsg}
  /\ Message("connect") \notin {Config, OnlineMsg, OfflineMsg, Final}
  /\ \A n : Reading(n) \notin {Config, OnlineMsg, OfflineMsg, Final, Message("connect")}
  /\ \A n, m : Reading(n) = Reading(m) => n = m
BY DEF Config, OnlineMsg, OfflineMsg, Final, Message, Reading

LEMMA ConnsIn == Values => conns \in Connects
BY StartsAssumption, FaultsAssumption DEF Values, Connects

----------------------------------------------------------------------------
(* Each action keeps the invariant                                         *)

LEMMA InitInv == Init => IInv
<1> SUFFICES ASSUME Init PROVE IInv
  OBVIOUS
<1>1. Values
  <2>1. 0 \in Connects
    BY StartsAssumption, FaultsAssumption DEF Connects
  <2>2. kept \in [config: BOOLEAN, avail: {"none", "online", "offline"}, state: Connects]
    BY <2>1 DEF Init, Nothing
  <2>3. conns \in Nat /\ conns <= starts + faults /\ starts \in 0..MaxStarts /\ faults \in 0..MaxFaults
    BY StartsAssumption, FaultsAssumption DEF Init
  <2> QED BY <2>2, <2>3 DEF Init, Values
<1>2. Queues
  BY EmptySeq DEF Init, Queues
<1>3. Held(wire) = {} /\ Held(queue) = {}
  BY HeldNone DEF Init
<1>4. Counted /\ Carried /\ Described /\ Said
  BY <1>3 DEF Init, Counted, Carried, Described, Said, OnlineIsDescribed, Nothing
<1> QED BY <1>1, <1>2, <1>4 DEF IInv

\* The agent starts, connects, loses its connection or dies: nothing is left of
\* what was under way but what paho sends again.
LEMMA StartInv == IInv /\ Start => IInv'
<1> SUFFICES ASSUME IInv, Start PROVE IInv'
  OBVIOUS
<1> USE DEF Start
<1>1. Values'
  BY StartsAssumption DEF IInv, Values, Gone
<1>2. Queues' /\ Held(wire)' = {} /\ Held(queue)' = {}
  BY Emptied, EmptiedQueue DEF Queues
<1>3. Counted' /\ Carried'
  BY DEF IInv, Values, Counted, Carried
<1>4. Described' /\ Said'
  BY <1>2 DEF IInv, Described, Said, OnlineIsDescribed
<1> QED BY <1>1, <1>2, <1>3, <1>4 DEF IInv

LEMMA DialInv == IInv /\ Dial => IInv'
<1> SUFFICES ASSUME IInv, Dial PROVE IInv'
  OBVIOUS
<1> USE DEF Dial
<1>1. Values'
  BY DEF IInv, Values, Gone, Counted
<1>2. /\ Queues' /\ Held(wire)' = {Message("connect")} /\ Held(queue)' = Held(queue)
      /\ Preceded(wire)'
  <2>1. PICK e : e = << >>
    OBVIOUS
  <2>2. e \in Seq(Messages) /\ Held(e) = {} /\ Preceded(e)
    BY <2>1, EmptySeq, HeldNone
  <2>3. PICK m \in Messages : m = Message("connect") /\ m # OnlineMsg
    BY Kinds, Distinct
  <2>4. wire' = Append(e, m)
    BY <2>1, <2>3
  <2>5. /\ wire' \in Seq(Messages) /\ Held(wire') = {Message("connect")} /\ Preceded(wire')
    <3>1. /\ Append(e, m) \in Seq(Messages) /\ Held(Append(e, m)) = Held(e) \cup {m}
          /\ Preceded(e) /\ (m = OnlineMsg => Config \in Held(e)) => Preceded(Append(e, m))
      BY <2>2, HeldAppend
    <3>2. Preceded(wire') /\ wire' \in Seq(Messages)
      BY <2>2, <2>3, <2>4, <3>1
    <3>3. Held(wire') = {Message("connect")}
      BY <2>2, <2>3, <2>4, <3>1
    <3> QED BY <3>2, <3>3
  <2>6. Held(wire)' = Held(wire') /\ Preceded(wire)' = Preceded(wire')
    BY DEF Held, Preceded
  <2>7. queue' \in Seq(Assured) /\ Held(queue)' = Held(queue)
    BY KeptQueue DEF IInv, Queues
  <2> QED BY <2>5, <2>6, <2>7 DEF Queues
<1>3. Counted' /\ Carried'
  BY <1>2, Distinct DEF IInv, Counted, Carried, Connected, OnConnect
<1>4. Described' /\ Said'
  BY <1>2, Distinct DEF IInv, Described, Said, OnlineIsDescribed
<1> QED BY <1>1, <1>2, <1>3, <1>4 DEF IInv

\* Between callbacks, or refused: what paho sends again was said on this run.
LEMMA LoseInv ==
  ASSUME IInv, Lose, UNCHANGED <<main, session, kept, conns, starts, late>>,
         \/ link = "cut" /\ UNCHANGED faults
         \/ Fault
  PROVE  IInv'
<1> USE DEF Lose, Fault
<1>1. Values'
  BY FaultsAssumption DEF IInv, Values
<1>2. Queues' /\ Held(wire)' = {} /\ Held(queue)' \subseteq Held(queue) \cup Held(wire)
  BY Lost DEF IInv, Queues
<1>3. Counted' /\ Carried'
  BY DEF IInv, Values, Counted, Carried
<1>4. Described' /\ Said'
  BY <1>2 DEF IInv, Described, Said, OnlineIsDescribed
<1> QED BY <1>1, <1>2, <1>3, <1>4 DEF IInv

LEMMA KillInv == IInv /\ Kill => IInv'
<1> SUFFICES ASSUME IInv, Kill PROVE IInv'
  OBVIOUS
<1> USE DEF Kill, Fault
<1>1. Values'
  BY FaultsAssumption DEF IInv, Values, Gone
<1>2. Queues' /\ Held(wire)' = {} /\ Held(queue)' = {}
  BY Emptied, EmptiedQueue DEF Queues
<1>3. Counted' /\ Carried'
  BY DEF IInv, Values, Counted, Carried
<1>4. Described' /\ Said'
  BY <1>2 DEF IInv, Described, Said, OnlineIsDescribed
<1> QED BY <1>1, <1>2, <1>3, <1>4 DEF IInv

\* The link goes, or the broker forgets: nothing that is under way counts.
LEMMA LinkCutInv == IInv /\ LinkCut => IInv'
<1> SUFFICES ASSUME IInv, LinkCut PROVE IInv'
  OBVIOUS
<1> USE DEF LinkCut, Fault, agent
<1>1. Values'
  BY FaultsAssumption DEF IInv, Values, Gone
<1>2. Queues' /\ Held(wire)' = Held(wire) /\ Held(queue)' = Held(queue)
  BY KeptWire, KeptQueue DEF IInv, Queues
<1>3. Counted' /\ Carried'
  BY DEF IInv, Values, Counted, Carried
<1>4. Described' /\ Said'
  BY <1>2 DEF IInv, Described, Said, OnlineIsDescribed
<1> QED BY <1>1, <1>2, <1>3, <1>4 DEF IInv

LEMMA BrokerResetInv == IInv /\ BrokerReset => IInv'
<1> SUFFICES ASSUME IInv, BrokerReset PROVE IInv'
  OBVIOUS
<1> USE DEF BrokerReset, Fault, agent
<1>1. Values'
  BY FaultsAssumption, StartsAssumption DEF IInv, Values, Nothing, Connects
<1>2. Queues' /\ Held(wire)' = Held(wire) /\ Held(queue)' = Held(queue)
  BY KeptWire, KeptQueue DEF IInv, Queues
<1>3. Counted' /\ Carried'
  BY DEF IInv, Values, Counted, Carried
<1>4. Described' /\ Said'
  BY <1>2 DEF IInv, Described, Said, OnlineIsDescribed, Nothing
<1> QED BY <1>1, <1>2, <1>3, <1>4 DEF IInv

\* on_connect: discovery, then availability, then a reading, then what waited.
LEMMA CallbackInv == IInv /\ Callback => IInv'
<1> SUFFICES ASSUME IInv, Callback PROVE IInv'
  OBVIOUS
<1> USE DEF Callback, bounds
<1>1. Config \in Messages /\ OnlineMsg \in Messages /\ Reading(conns) \in Messages
  BY Kinds, ConnsIn DEF IInv
<1>2. CASE Discovery
  <2> USE <1>2 DEF Discovery
  <2>1. Publish(Config)
    BY DEF Config
  <2>2. /\ Queues'
        /\ Held(wire)' = IF link = "none" THEN Held(wire) ELSE Held(wire) \cup {Config}
        /\ Held(queue)' \subseteq Held(queue) \cup {Config}
        /\ Preceded(wire) => Preceded(wire)'
    BY <1>1, <2>1, Sent, Distinct DEF IInv, Queues
  <2>3. Values' /\ Counted'
    BY DEF IInv, Values, OnConnect, Counted
  <2>4. Carried'
    BY <2>2, Distinct DEF IInv, Carried, Connected, OnConnect
  <2>5. Described'
    BY <2>2, Distinct DEF IInv, Described, OnlineIsDescribed
  <2>6. Said'
    BY <2>2, Distinct DEF IInv, Said
  <2> QED BY <2>2, <2>3, <2>4, <2>5, <2>6 DEF IInv
<1>3. CASE Online
  <2> USE <1>3 DEF Online
  <2>1. Publish(OnlineMsg)
    BY DEF OnlineMsg
  <2>2. /\ Queues'
        /\ Held(wire)' = IF link = "none" THEN Held(wire) ELSE Held(wire) \cup {OnlineMsg}
        /\ Held(queue)' \subseteq Held(queue) \cup {OnlineMsg}
        /\ Preceded(wire) /\ Config \in Held(wire) => Preceded(wire)'
    BY <1>1, <2>1, Sent, Distinct DEF IInv, Queues
  <2>3. Values' /\ Counted'
    BY DEF IInv, Values, OnConnect, Counted
  <2>4. Carried'
    BY <2>2, Distinct DEF IInv, Carried, Connected, OnConnect
  <2>5. Described'
    BY <2>2, Distinct DEF IInv, Described, OnlineIsDescribed
  <2>6. Said'
    BY <2>2, Distinct DEF IInv, Said
  <2> QED BY <2>2, <2>3, <2>4, <2>5, <2>6 DEF IInv
<1>4. CASE FirstState
  <2> USE <1>4 DEF FirstState
  <2>2. /\ Queues'
        /\ Held(wire)' = IF link = "none" THEN Held(wire) ELSE Held(wire) \cup {Reading(conns)}
        /\ Held(queue)' \subseteq Held(queue) \cup {Reading(conns)}
        /\ Preceded(wire) => Preceded(wire)'
    BY <1>1, Sent, Distinct DEF IInv, Queues
  <2>3. Values' /\ Counted'
    BY DEF IInv, Values, OnConnect, Counted
  <2>4. Carried'
    BY <2>2, Distinct DEF IInv, Carried, Connected, OnConnect
  <2>5. Described'
    BY <2>2, Distinct DEF IInv, Described, OnlineIsDescribed
  <2>6. Said'
    BY <2>2, Distinct DEF IInv, Said
  <2> QED BY <2>2, <2>3, <2>4, <2>5, <2>6 DEF IInv
<1>5. CASE Resend
  <2> USE <1>5 DEF Resend
  <2>1. /\ Queues' /\ Held(queue)' = {} /\ Held(wire)' = Held(wire) \cup Held(queue)
        /\ Preceded(wire) /\ Config \in Held(wire) => Preceded(wire)'
    <3>1. queue \in Seq(Messages)
      BY Kinds, SeqMonotonic DEF IInv, Queues
    <3>2. /\ wire' \in Seq(Messages) /\ Held(wire') = Held(wire) \cup Held(queue)
          /\ Preceded(wire) /\ Config \in Held(wire) => Preceded(wire')
      BY <3>1, HeldConcat DEF IInv, Queues
    <3>3. Held(wire)' = Held(wire') /\ Preceded(wire)' = Preceded(wire')
      BY DEF Held, Preceded
    <3> QED BY <3>2, <3>3, EmptiedQueue DEF Queues
  <2>2. Held(queue) \subseteq {Config, OnlineMsg, OfflineMsg}
    BY HeldIn, Kinds DEF IInv, Queues
  <2>3. Values' /\ Counted'
    BY DEF IInv, Values, OnConnect, Counted
  <2>4. Carried'
    BY <2>1, <2>2, Distinct DEF IInv, Carried, Connected, OnConnect
  <2>5. Described'
    BY <2>1 DEF IInv, Described, OnlineIsDescribed
  <2>6. Said'
    BY <2>1 DEF IInv, Said
  <2> QED BY <2>1, <2>3, <2>4, <2>5, <2>6 DEF IInv
<1> QED BY <1>2, <1>3, <1>4, <1>5 DEF OnConnectStep

\* The main loop's reading, and its goodbye.
LEMMA TickInv == IInv /\ Tick => IInv'
<1> SUFFICES ASSUME IInv, Tick PROVE IInv'
  OBVIOUS
<1> USE DEF Tick, bounds
<1>1. /\ Queues'
      /\ Held(wire)' = IF link = "none" THEN Held(wire) ELSE Held(wire) \cup {Reading(conns)}
      /\ Held(queue)' \subseteq Held(queue) \cup {Reading(conns)}
      /\ Preceded(wire) => Preceded(wire)'
  <2>1. Reading(conns) \in Messages /\ Reading(conns) # OnlineMsg
    BY Kinds, ConnsIn, Distinct DEF IInv
  <2> QED BY <2>1, Sent DEF IInv, Queues
<1>2. Values' /\ Counted'
  BY DEF IInv, Values, Counted
<1>3. Carried'
  BY <1>1, Distinct DEF IInv, Carried, Connected, OnConnect
<1>4. Described'
  BY <1>1 DEF IInv, Described, OnlineIsDescribed
<1>5. Said'
  BY <1>1, Distinct DEF IInv, Said
<1> QED BY <1>1, <1>2, <1>3, <1>4, <1>5 DEF IInv

LEMMA StopInv == IInv /\ Stop => IInv'
<1> SUFFICES ASSUME IInv, Stop PROVE IInv'
  OBVIOUS
<1> USE DEF Stop, bounds
<1>1. /\ Queues'
      /\ Held(wire)' = IF link = "none" THEN Held(wire) ELSE Held(wire) \cup {OfflineMsg}
      /\ Preceded(wire) => Preceded(wire)'
  <2>1. OfflineMsg \in Messages /\ OfflineMsg # OnlineMsg /\ Publish(OfflineMsg)
    BY Kinds, Distinct DEF OfflineMsg
  <2> QED BY <2>1, Sent DEF IInv, Queues
<1>2. Values'
  <2>1. late' \in BOOLEAN
    OBVIOUS
  <2> QED BY <2>1 DEF IInv, Values
<1>3. Counted' /\ Said'
  BY DEF IInv, Counted, Said
<1>4. Carried'
  BY <1>1, Distinct DEF IInv, Carried, Connected, OnConnect
<1>5. Described'
  BY <1>1 DEF IInv, Described, OnlineIsDescribed
<1> QED BY <1>1, <1>2, <1>3, <1>4, <1>5 DEF IInv

LEMMA ExitInv == IInv /\ Exit => IInv'
<1> SUFFICES ASSUME IInv, Exit PROVE IInv'
  OBVIOUS
<1> USE DEF Exit, bounds
<1>1. /\ Queues'
      /\ link = "open" => /\ Held(wire)' = Held(wire) \cup {Final}
                          /\ Preceded(wire) => Preceded(wire)'
  <2>1. queue' \in Seq(Assured)
    BY EmptiedQueue
  <2>2. CASE link = "open"
    <3>1. wire' = Append(wire, Final) /\ Final \in Messages /\ Final # OnlineMsg
      BY <2>2, Kinds, Distinct DEF Final
    <3> QED BY <2>1, <3>1, Added DEF IInv, Queues
  <2>3. CASE link # "open"
    BY <2>1, <2>3, Emptied DEF Queues
  <2> QED BY <2>2, <2>3
<1>2. Values' /\ Counted'
  BY DEF IInv, Values, Counted
<1>3. Carried'
  BY <1>1, Distinct DEF IInv, Values, Carried, Connected, OnConnect
<1>4. Described' /\ Said'
  BY <1>1 DEF IInv, Values, Described, Said, OnlineIsDescribed
<1> QED BY <1>1, <1>2, <1>3, <1>4 DEF IInv

\* The broker forgets a connection that ended: the agent is shown offline.
LEMMA ExpireInv == IInv /\ Expire => IInv'
<1> SUFFICES ASSUME IInv, Expire PROVE IInv'
  OBVIOUS
<1> USE DEF Expire, agent, tcp, bounds, WillIf, LastWill
<1>1. Queues' /\ Held(wire)' = Held(wire) /\ Held(queue)' = Held(queue) /\ Preceded(wire)' = Preceded(wire)
  BY KeptWire, KeptQueue DEF IInv, Queues
<1>2. Values' /\ Counted'
  BY DEF IInv, Values, Counted
<1>3. Carried'
  BY <1>1 DEF IInv, Carried, Connected, OnConnect
<1>4. Described'
  BY <1>1 DEF IInv, Values, Described, OnlineIsDescribed
<1>5. Said'
  BY <1>1 DEF IInv, Values, Said, Carried, Connected, OnConnect
<1> QED BY <1>1, <1>2, <1>3, <1>4, <1>5 DEF IInv

\* What the broker does with the message it takes.
LEMMA ReceiveInv == IInv /\ Receive => IInv'
<1> SUFFICES ASSUME IInv, Receive PROVE IInv'
  OBVIOUS
<1> DEFINE m == Head(wire)
<1>1. /\ Queues' /\ m \in Messages
      /\ Held(wire) = Held(wire)' \cup {m}
      /\ Held(queue)' = Held(queue)
      /\ Preceded(wire) => m # OnlineMsg
      /\ Preceded(wire) /\ m # Config => Preceded(wire)'
  BY Taken, KeptQueue DEF Receive, IInv, Queues
<1>2. /\ link = "open" /\ UNCHANGED <<main, queue, conns, starts, faults>>
      /\ late' = (late /\ ~(m.says = "connect" /\ main = "loop"))
  BY DEF Receive, bounds
<1>3. /\ session' = IF m.says = "connect" THEN "live" ELSE IF m.says = "disconnect" THEN "none" ELSE session
      /\ net' = IF m.says = "connect" /\ net = "wait" THEN "config" ELSE net
      /\ link' = IF m.says = "disconnect" THEN "none" ELSE link
  BY DEF Receive
<1>4. kept' = CASE m.says = "connect" -> WillIf(session = "stale")
                [] m.says = "config" -> [kept EXCEPT !.config = TRUE]
                [] m.says = "state" -> [kept EXCEPT !.state = m.of]
                [] m.says = "disconnect" -> kept
                [] OTHER -> [kept EXCEPT !.avail = m.says]
  BY DEF Receive
<1> HIDE DEF m
<1>5. late' \in BOOLEAN
  BY <1>2
<1>6. CASE m.says = "connect"
  <2>1. kept' = IF session = "stale" THEN [kept EXCEPT !.avail = "offline"] ELSE kept
    BY <1>4, <1>6 DEF WillIf, LastWill, IInv, Values
  <2>2. m = Message("connect")
    BY <1>1, <1>6, Kinds
  <2>3. Values' /\ Counted'
    BY <1>2, <1>3, <1>5, <1>6, <2>1 DEF IInv, Values, Counted, OnConnect
  <2>4. Carried'
    BY <1>1, <1>2, <1>3, <1>6, <2>2, Distinct DEF IInv, Values, Carried, Connected, OnConnect
  <2>5. Described'
    BY <1>1, <1>2, <1>3, <1>6, <2>1, <2>2, Distinct DEF IInv, Values, Described, OnlineIsDescribed
  <2>6. Said'
    BY <1>1, <1>2, <1>3, <1>6, <2>1, <2>2, Distinct DEF IInv, Values, Said, Carried, Connected, OnConnect
  <2> QED BY <1>1, <2>3, <2>4, <2>5, <2>6 DEF IInv
<1>7. CASE m.says = "config"
  <2>1. kept' = [kept EXCEPT !.config = TRUE]
    BY <1>4, <1>7
  <2>2. m = Config
    BY <1>1, <1>7, Kinds DEF Config
  <2>3. Values' /\ Counted'
    BY <1>2, <1>3, <1>5, <1>7, <2>1 DEF IInv, Values, Counted
  <2>4. Carried'
    BY <1>1, <1>2, <1>3, <1>7, <2>2, Distinct DEF IInv, Values, Carried, Connected
  <2>5. Described'
    BY <2>1 DEF IInv, Values, Described, OnlineIsDescribed
  <2>6. Said'
    BY <1>1, <1>2, <1>3, <1>7, <2>1, <2>2, Distinct DEF IInv, Values, Said
  <2> QED BY <1>1, <2>3, <2>4, <2>5, <2>6 DEF IInv
<1>8. CASE m.says = "state"
  <2>1. kept' = [kept EXCEPT !.state = m.of]
    BY <1>4, <1>8
  <2>2. m.of \in Connects /\ m = Reading(m.of)
    BY <1>1, <1>8, Kinds
  <2>3. m.of = conns
    BY <1>1, <1>2, <2>2 DEF IInv, Carried
  <2>4. Values' /\ Counted'
    BY <1>2, <1>3, <1>5, <1>8, <2>1, <2>2 DEF IInv, Values, Counted
  <2>5. Carried'
    BY <1>1, <1>2, <1>3, <1>8 DEF IInv, Values, Carried, Connected
  <2>6. Described'
    BY <1>1, <1>2, <1>3, <1>8, <2>1, <2>2, Distinct DEF IInv, Values, Described, OnlineIsDescribed
  <2>7. Said'
    BY <1>1, <1>2, <1>3, <1>8, <2>1, <2>2, <2>3, Distinct DEF IInv, Values, Said
  <2> QED BY <1>1, <2>4, <2>5, <2>6, <2>7 DEF IInv
<1>9. CASE m.says = "disconnect"
  <2>1. kept' = kept
    BY <1>4, <1>9
  <2>2. Values'
    BY <1>2, <1>3, <1>5, <1>9, <2>1 DEF IInv, Values
  <2>3. m = Final
    BY <1>1, <1>9, Kinds DEF Final
  <2>4. net = "off"
    BY <1>1, <1>2, <2>3 DEF IInv, Carried
  <2>5. Counted' /\ Carried'
    BY <1>3, <1>9, <2>4 DEF Counted, Carried
  <2>6. Described' /\ Said'
    BY <1>1, <1>2, <1>3, <1>9, <2>1 DEF IInv, Described, Said, OnlineIsDescribed
  <2> QED BY <1>1, <2>2, <2>5, <2>6 DEF IInv
<1>10. CASE m.says = "online"
  <2>1. kept' = [kept EXCEPT !.avail = "online"]
    BY <1>4, <1>10
  <2>2. m = OnlineMsg
    BY <1>1, <1>10, Kinds DEF OnlineMsg
  <2>3. Values' /\ Counted'
    BY <1>2, <1>3, <1>5, <1>10, <2>1 DEF IInv, Values, Counted
  <2>4. Carried'
    BY <1>1, <1>2, <1>3, <1>10 DEF IInv, Values, Carried, Connected
  <2>5. kept.config
    BY <1>1, <1>2, <2>2 DEF IInv, Described
  <2>6. Described'
    BY <2>1, <2>5 DEF IInv, Values, Described, OnlineIsDescribed
  <2>7. Said'
    BY <1>1, <1>2, <1>3, <1>10, <2>1, <2>2, Distinct DEF IInv, Values, Said
  <2> QED BY <1>1, <2>3, <2>4, <2>6, <2>7 DEF IInv
<1>11. CASE m.says = "offline"
  <2>1. kept' = [kept EXCEPT !.avail = "offline"]
    BY <1>4, <1>11
  <2>2. m = OfflineMsg
    BY <1>1, <1>11, Kinds DEF OfflineMsg
  <2>3. Values' /\ Counted'
    BY <1>2, <1>3, <1>5, <1>11, <2>1 DEF IInv, Values, Counted
  <2>4. Carried'
    BY <1>1, <1>2, <1>3, <1>11 DEF IInv, Values, Carried, Connected
  <2>5. main # "loop"
    BY <1>1, <2>2 DEF IInv, Said
  <2>6. Described'
    BY <1>1, <1>2, <1>3, <1>11, <2>1, <2>2, Distinct DEF IInv, Values, Described, OnlineIsDescribed
  <2>7. Said'
    BY <1>2, <2>5 DEF Said
  <2> QED BY <1>1, <2>3, <2>4, <2>6, <2>7 DEF IInv
<1>12. m.says \in {"connect", "disconnect", "config", "online", "offline", "state"}
  BY <1>1, Kinds
<1> QED BY <1>6, <1>7, <1>8, <1>9, <1>10, <1>11, <1>12

LEMMA StutterInv == IInv /\ UNCHANGED vars => IInv'
<1> SUFFICES ASSUME IInv, UNCHANGED vars PROVE IInv'
  OBVIOUS
<1> USE DEF vars, agent, tcp, bounds
<1>1. Queues' /\ Held(wire)' = Held(wire) /\ Held(queue)' = Held(queue) /\ Preceded(wire)' = Preceded(wire)
  BY KeptWire, KeptQueue DEF IInv, Queues
<1>2. Values' /\ Counted' /\ Carried'
  BY <1>1 DEF IInv, Values, Counted, Carried, Connected
<1>3. Described' /\ Said'
  BY <1>1 DEF IInv, Described, Said, OnlineIsDescribed
<1> QED BY <1>1, <1>2, <1>3 DEF IInv

LEMMA NextInv == IInv /\ [Next]_vars => IInv'
<1> SUFFICES ASSUME IInv, [Next]_vars PROVE IInv'
  OBVIOUS
<1>1. Notice => IInv'
  BY LoseInv DEF Notice, bounds
<1>2. Refuse => IInv'
  BY LoseInv DEF Refuse
<1> QED BY <1>1, <1>2, StartInv, DialInv, KillInv, LinkCutInv, BrokerResetInv, CallbackInv, TickInv,
           StopInv, ExitInv, ExpireInv, ReceiveInv, StutterInv DEF Next, Network, Broker

----------------------------------------------------------------------------
(* The theorems                                                            *)

LEMMA InvHolds == Spec => []IInv
BY InitInv, NextInv, PTL DEF Spec

\* paho sends again only what it promised to, and every connection is paid for:
\* the agent's two threads, its queue and the broker keep their types.
THEOREM TypeCorrect == Spec => []TypeOK
<1>1. IInv => TypeOK
  BY TypeParts DEF IInv
<1> QED BY <1>1, InvHolds, PTL

\* on_connect publishes the discovery before "online": whatever the broker lost
\* or paho sends again, no subscriber sees an agent online without it.
THEOREM DescribedAlways == Spec => []OnlineIsDescribed
<1>1. IInv => OnlineIsDescribed
  BY DEF IInv, Described
<1> QED BY <1>1, InvHolds, PTL

\* A connected agent with nothing in flight is shown as on_connect left it: no
\* Last Will, no message sent again and no lost reading says otherwise.
THEOREM ShownWhenSettled == Spec => []SettledIsShown
<1>1. IInv => SettledIsShown
  <2> SUFFICES ASSUME IInv, main = "loop", net = "up", link = "open", wire = << >>
               PROVE  kept = [config |-> TRUE, avail |-> "online", state |-> conns]
    BY DEF SettledIsShown
  <2>1. Held(wire) = {}
    BY HeldNone
  <2>2. kept.config /\ kept.avail = "online" /\ kept.state = conns
    BY <2>1 DEF IInv, Described, Said
  <2> QED BY <2>2 DEF IInv, Values
<1> QED BY <1>1, InvHolds, PTL
=============================================================================
