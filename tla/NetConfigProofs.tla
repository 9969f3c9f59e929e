-------------------------- MODULE NetConfigProofs --------------------------
(***************************************************************************)
(* Theorems about NetConfig, for any number of requests.                   *)
(***************************************************************************)
EXTENDS NetConfig, TLAPS

----------------------------------------------------------------------------
(* The inductive invariant                                                 *)

\* Where a request that runs alone is, the profile is what it found with what
\* it has set so far.
Aim(r) == Asked(base[r], r)
SoFar(r) ==
  /\ pc[r] = "method" => stored = base[r]
  /\ pc[r] \in {"gateway", "dns"} =>
       /\ stored.manual /\ stored.addr = r /\ stored.dns = base[r].dns
       /\ stored.gateway =
            IF pc[r] = "dns" /\ arg[r].gateway THEN r ELSE base[r].gateway
  /\ pc[r] = "up" => stored = Aim(r)
Progress ==
  /\ \A r \in alone : pc[r] # "new" /\ SoFar(r)
  /\ \A r \in Requests : pc[r] = "gateway" => arg[r].gateway
  /\ \A r \in Requests : pc[r] = "dns" => arg[r].dns

\* A request that is past its first call has its address in the profile, or the
\* address is of another that overlapped.
Current ==
  \A r \in Requests : pc[r] \in {"gateway", "dns"} =>
    stored.addr = r \/ stored.addr \in Requests \ alone

\* No request found its own address.
Fresh == \A r \in Requests : base[r].addr # r /\ (pc[r] = "new" => stored.addr # r)

Quiet == last # None => \A r \in Requests : pc[r] \notin Running

IInv ==
  TypeOK /\ Progress /\ Current /\ Fresh /\ Quiet /\ OkIsApplied /\ Unmixed /\ ManualHasAddress

USE ValuesAssumption
USE DEF Running

LEMMA SameSettings ==
  ASSUME NEW s \in Settings, NEW t \in Settings, s.manual = t.manual, s.addr = t.addr,
         s.gateway = t.gateway, s.dns = t.dns
  PROVE  s = t
<1> QED  BY DEF Settings

\* What is asked for, field by field.
LEMMA AskedFields ==
  ASSUME NEW r \in Requests, NEW s \in Settings, arg[r] \in Payloads
  PROVE  /\ Asked(s, r) \in Settings
         /\ Asked(s, r).manual = arg[r].static
         /\ Asked(s, r).addr = IF arg[r].static THEN r ELSE s.addr
         /\ Asked(s, r).gateway = IF arg[r].static /\ arg[r].gateway THEN r ELSE s.gateway
         /\ Asked(s, r).dns = IF arg[r].static /\ arg[r].dns THEN r ELSE s.dns
<1>1. arg[r].static \in BOOLEAN /\ arg[r].gateway \in BOOLEAN /\ arg[r].dns \in BOOLEAN
  BY DEF Payloads
<1>2. CASE arg[r].static
  BY <1>1, <1>2 DEF Asked, Settings, Values
<1>3. CASE ~arg[r].static
  BY <1>1, <1>3 DEF Asked, Settings, Values
<1> QED  BY <1>1, <1>2, <1>3

\* A profile that a person made.
LEMMA InitInv == Init => IInv
<1> SUFFICES ASSUME Init PROVE IInv  OBVIOUS
<1>1. stored \in Settings /\ active = stored /\ stored.addr \notin Requests
      /\ (stored.manual => stored.addr # None)
  <2>1. CASE stored = Blank
    BY <2>1 DEF Init, Blank, Settings, Values
  <2>2. CASE stored = [Blank EXCEPT !.manual = TRUE, !.addr = Old, !.gateway = Old]
    BY <2>2 DEF Init, Blank, Settings, Values
  <2> QED  BY <2>1, <2>2 DEF Init
<1>2. base \in [Requests -> Settings]
  BY DEF Init, Blank, Settings, Values
<1>3. arg \in [Requests -> Payloads]
  <2> DEFINE z == [static |-> FALSE, address |-> FALSE, gateway |-> FALSE, dns |-> FALSE]
  <2>1. z \in Payloads
    BY DEF Payloads
  <2>2. arg \in [Requests -> {z}]
    BY DEF Init
  <2> HIDE DEF z
  <2> QED  BY <2>1, <2>2
<1>4. TypeOK  BY <1>1, <1>2, <1>3 DEF Init, TypeOK
<1>5. Progress /\ Current /\ Fresh /\ Quiet
  BY <1>1 DEF Init, Progress, Current, Fresh, Quiet, Blank
<1>6. OkIsApplied /\ Unmixed /\ ManualHasAddress
  BY <1>1 DEF Init, OkIsApplied, Unmixed, Explained, ManualHasAddress
<1> QED  BY <1>4, <1>5, <1>6 DEF IInv

\* A request begins.
LEMMA ConfigureInv ==
  ASSUME NEW r \in Requests, IInv, Configure(r)
  PROVE  IInv'
<1> USE DEF IInv, Configure, profile
<1> DEFINE others == {s \in Requests \ {r} : pc[s] \in Running}
<1>p. PICK p \in Payloads : arg' = [arg EXCEPT ![r] = p]
  OBVIOUS
<1>1. /\ pc[r] = "new" /\ pc' = [pc EXCEPT ![r] = "method"]
      /\ base' = [base EXCEPT ![r] = stored] /\ last' = None
      /\ alone' = IF others = {} THEN alone \cup {r} ELSE alone \ others
  OBVIOUS
<1>2. r \notin alone
  BY DEF Progress
<1>3. \A s \in alone' \ {r} : s \in alone /\ pc[s] \notin Running
  BY <1>1 DEF TypeOK
<1>4. TypeOK'
  <2>1. \A q \in alone' : pc'[q] \in Running => \A s \in Requests \ {q} : pc'[s] \notin Running
    BY <1>1, <1>2, <1>3 DEF TypeOK
  <2>2. \A q \in Requests : pc'[q] \in {"gateway", "dns"} => arg'[q].static
    BY <1>p, <1>1 DEF TypeOK
  <2> QED  BY <1>p, <1>1, <2>1, <2>2 DEF TypeOK
<1> HIDE DEF others
<1>5. Progress'
  <2>1. \A q \in Requests \ {r} : pc'[q] = pc[q] /\ arg'[q] = arg[q] /\ base'[q] = base[q]
    BY <1>p, <1>1 DEF TypeOK
  <2>2. pc'[r] = "method" /\ base'[r] = stored'
    BY <1>1 DEF TypeOK
  <2>3. \A q \in alone' : pc'[q] # "new" /\ SoFar(q)'
    <3> TAKE q \in alone'
    <3>1. CASE q = r
      BY <3>1, <2>2 DEF SoFar
    <3>2. CASE q # r
      BY <3>2, <1>3, <2>1 DEF SoFar, Progress, TypeOK
    <3> QED  BY <3>1, <3>2
  <2> QED  BY <2>1, <2>2, <2>3 DEF Progress
<1>6. Current'
  BY <1>1, <1>2, <1>3, <1>p DEF Current, TypeOK
<1>7. Quiet' /\ OkIsApplied' /\ ManualHasAddress'
  BY <1>1 DEF Quiet, OkIsApplied, ManualHasAddress
<1>8. Unmixed'
  BY <1>1, <1>3, <1>p DEF Unmixed, Explained, TypeOK
<1>9. Fresh'
  BY <1>1 DEF Fresh, TypeOK
<1> QED  BY <1>4, <1>5, <1>6, <1>7, <1>8, <1>9

\* A request that is unknown has changed nothing.
LEMMA UnknownInv ==
  ASSUME NEW r \in Requests, IInv, Unknown(r)
  PROVE  IInv'
<1> USE DEF IInv, Unknown, Goto, profile
<1>1. TypeOK'  BY DEF TypeOK
<1>2. Progress'
  <2>1. \A q \in Requests : Aim(q)' = Aim(q)
    BY DEF Aim, Asked
  <2>2. \A q \in alone : q \in Requests /\ pc'[q] = pc[q]
    BY DEF Progress, TypeOK
  <2>3. \A q \in alone : SoFar(q)'
    BY <2>1, <2>2 DEF Progress, SoFar
  <2> QED  BY <2>2, <2>3 DEF Progress, TypeOK
<1>3. Current' /\ Fresh' /\ Quiet'  BY DEF TypeOK, Current, Fresh, Quiet
<1>4. OkIsApplied' /\ ManualHasAddress'
  BY DEF OkIsApplied, Asked, ManualHasAddress
<1>5. Unmixed'  BY DEF TypeOK, Unmixed, Explained
<1> QED  BY <1>1, <1>2, <1>3, <1>4, <1>5

\* While a request runs, no answer is the last word, and no other runs alone.
LEMMA Runs ==
  ASSUME NEW r \in Requests, IInv, pc[r] \in Running
  PROVE  last = None /\ \A q \in alone \ {r} : pc[q] \notin Running
<1> QED  BY DEF IInv, Quiet, TypeOK

\* What a call that changes the profile has to show: what it makes of it, for
\* its own request and for those that follow from the address.
LEMMA CallInv ==
  ASSUME NEW r \in Requests, IInv, pc[r] \in {"method", "gateway", "dns"},
         NEW p \in {"gateway", "dns", "up"}, Goto(r, p), UNCHANGED <<active, inUse, last>>,
         stored' \in Settings, stored'.manual => stored'.addr # None,
         r \in alone => SoFar(r)', p = "gateway" => arg[r].gateway, p = "dns" => arg[r].dns,
         p \in {"gateway", "dns"} => arg[r].static,
         p \in {"gateway", "dns"} => stored'.addr = r \/ stored'.addr \in Requests \ alone,
         stored'.addr \in {r, stored.addr},
         stored'.gateway = stored.gateway \/ stored.addr \in {r} \cup (Requests \ alone)
  PROVE  IInv'
<1> USE DEF IInv, Goto
<1>1. last = None /\ \A q \in alone \ {r} : pc[q] \notin Running
  BY Runs
<1>2. \A q \in Requests \ {r} : pc'[q] = pc[q]
  BY DEF TypeOK
<1>3. pc'[r] = p
  BY DEF TypeOK
<1>4. TypeOK'
  <2>1. \A q \in alone : pc'[q] \in Running => \A s \in Requests \ {q} : pc'[s] \notin Running
    BY <1>1, <1>2, <1>3 DEF TypeOK
  <2>2. \A q \in Requests : pc'[q] \in {"gateway", "dns"} => arg[q].static
    BY <1>2, <1>3 DEF TypeOK
  <2> QED  BY <2>1, <2>2 DEF TypeOK
<1>5. Progress'
  <2>1. \A q \in alone \ {r} : pc'[q] # "new" /\ SoFar(q)'
    BY <1>1, <1>2 DEF Progress, SoFar, TypeOK
  <2> QED  BY <1>2, <1>3, <2>1 DEF Progress
<1>6. Current'
  <2>1. ASSUME NEW q \in Requests \ {r}, pc[q] \in {"gateway", "dns"}
        PROVE  stored'.addr = q \/ stored'.addr \in Requests \ alone
    <3>1. r \notin alone
      BY <2>1 DEF TypeOK
    <3> QED  BY <2>1, <3>1 DEF Current
  <2> QED  BY <1>2, <1>3, <2>1 DEF Current
<1>7. Quiet' /\ OkIsApplied' /\ ManualHasAddress'
  BY <1>1 DEF Quiet, OkIsApplied, ManualHasAddress
<1>8. Unmixed'
  <2>1. Explained(active)'
    BY <1>2, <1>3 DEF Unmixed, Explained
  <2>2. Explained(stored)'
    BY <1>2, <1>3 DEF Unmixed, Explained
  <2> QED  BY <2>1, <2>2 DEF Unmixed
<1>9. Fresh'
  BY <1>2, <1>3 DEF Fresh
<1> QED  BY <1>4, <1>5, <1>6, <1>7, <1>8, <1>9

LEMMA SetMethodInv ==
  ASSUME NEW r \in Requests, IInv, SetMethod(r)
  PROVE  IInv'
<1> DEFINE p == AfterMethod(r)
<1>1. /\ pc[r] = "method" /\ Goto(r, p) /\ UNCHANGED <<active, inUse, last>>
      /\ stored' = [stored EXCEPT !.manual = arg[r].static,
                                  !.addr = IF arg[r].static THEN r ELSE @]
  BY DEF SetMethod
<1>2. /\ p \in {"gateway", "dns", "up"}
      /\ p = "gateway" => arg[r].gateway /\ arg[r].static
      /\ p = "dns" => arg[r].dns /\ arg[r].static /\ ~arg[r].gateway
      /\ p = "up" => ~arg[r].static \/ (~arg[r].gateway /\ ~arg[r].dns)
  BY DEF AfterMethod, AfterGateway
<1> HIDE DEF p
<1>3. /\ stored \in Settings /\ arg[r] \in Payloads /\ base[r] \in Settings
      /\ arg[r].static \in BOOLEAN
  BY DEF IInv, TypeOK, Payloads
<1>4. /\ stored' \in Settings
      /\ stored'.manual = arg[r].static
      /\ stored'.addr = IF arg[r].static THEN r ELSE stored.addr
      /\ stored'.gateway = stored.gateway /\ stored'.dns = stored.dns
  BY <1>1, <1>3 DEF Settings, Values
<1>5. r \in alone => SoFar(r)'
  <2> SUFFICES ASSUME r \in alone PROVE SoFar(r)'  OBVIOUS
  <2>1. stored = base[r]
    BY <1>1 DEF IInv, Progress, SoFar
  <2>2. pc'[r] = p /\ base' = base /\ arg' = arg
    BY <1>1 DEF Goto, IInv, TypeOK
  <2>3. Aim(r)' = Asked(base[r], r)
    BY <2>2 DEF Aim, Asked
  <2>4. p = "up" => stored' = Asked(base[r], r)
    BY <1>2, <1>3, <1>4, <2>1, AskedFields, SameSettings
  <2> QED  BY <1>2, <1>4, <2>1, <2>2, <2>3, <2>4 DEF SoFar
<1> QED  BY <1>1, <1>2, <1>4, <1>5, CallInv

LEMMA SetGatewayInv ==
  ASSUME NEW r \in Requests, IInv, SetGateway(r)
  PROVE  IInv'
<1> DEFINE p == AfterGateway(r)
<1>1. /\ pc[r] = "gateway" /\ Goto(r, p) /\ UNCHANGED <<active, inUse, last>>
      /\ stored' = [stored EXCEPT !.gateway = r]
  BY DEF SetGateway
<1>2. p \in {"dns", "up"} /\ (p = "dns" <=> arg[r].dns)
  BY DEF AfterGateway
<1> HIDE DEF p
<1>3. /\ stored \in Settings /\ base[r] \in Settings /\ arg[r] \in Payloads
      /\ arg[r].static /\ arg[r].gateway
      /\ (stored.manual => stored.addr # None)
      /\ stored.addr = r \/ stored.addr \in Requests \ alone
  BY <1>1 DEF IInv, TypeOK, Progress, Current, ManualHasAddress
<1>4. /\ stored' \in Settings /\ stored'.manual = stored.manual
      /\ stored'.addr = stored.addr /\ stored'.gateway = r /\ stored'.dns = stored.dns
  BY <1>1, <1>3 DEF Settings, Values
<1>5. r \in alone => SoFar(r)'
  <2> SUFFICES ASSUME r \in alone PROVE SoFar(r)'  OBVIOUS
  <2>1. stored.manual /\ stored.addr = r /\ stored.dns = base[r].dns
    BY <1>1 DEF IInv, Progress, SoFar
  <2>2. pc'[r] = p /\ base' = base /\ arg' = arg
    BY <1>1 DEF Goto, IInv, TypeOK
  <2>3. Aim(r)' = Asked(base[r], r)
    BY <2>2 DEF Aim, Asked
  <2>4. stored.manual = TRUE /\ arg[r].static = TRUE
    BY <1>3, <2>1 DEF Settings, Payloads
  <2>5. p = "up" => stored' = Asked(base[r], r)
    <3> DEFINE a == Asked(base[r], r)
    <3>1. a \in Settings /\ a.manual = TRUE /\ a.addr = r /\ a.gateway = r
      BY <1>3, <2>4, AskedFields
    <3>2. p = "up" => a.dns = base[r].dns
      BY <1>2, <1>3, AskedFields
    <3> HIDE DEF a
    <3>3. p = "up" => stored' = a
      BY <1>3, <1>4, <2>1, <2>4, <3>1, <3>2, SameSettings
    <3> QED  BY <3>3 DEF a
  <2> QED  BY <1>2, <1>3, <1>4, <2>1, <2>2, <2>3, <2>5 DEF SoFar
<1> QED  BY <1>1, <1>2, <1>3, <1>4, <1>5, CallInv

LEMMA SetDnsInv ==
  ASSUME NEW r \in Requests, IInv, SetDns(r)
  PROVE  IInv'
<1>1. /\ pc[r] = "dns" /\ Goto(r, "up") /\ UNCHANGED <<active, inUse, last>>
      /\ stored' = [stored EXCEPT !.dns = r]
  BY DEF SetDns, AfterDns
<1>2. /\ stored \in Settings /\ base[r] \in Settings /\ arg[r] \in Payloads
      /\ arg[r].static /\ arg[r].dns
      /\ (stored.manual => stored.addr # None)
  BY <1>1 DEF IInv, TypeOK, Progress, ManualHasAddress
<1>3. /\ stored' \in Settings /\ stored'.manual = stored.manual /\ stored'.dns = r
      /\ stored'.addr = stored.addr /\ stored'.gateway = stored.gateway
  BY <1>1, <1>2 DEF Settings, Values
<1>4. r \in alone => SoFar(r)'
  <2> SUFFICES ASSUME r \in alone PROVE SoFar(r)'  OBVIOUS
  <2>1. /\ stored.manual /\ stored.addr = r
        /\ stored.gateway = IF arg[r].gateway THEN r ELSE base[r].gateway
    BY <1>1 DEF IInv, Progress, SoFar
  <2>2. pc'[r] = "up" /\ base' = base /\ arg' = arg
    BY <1>1 DEF Goto, IInv, TypeOK
  <2>3. stored.manual = TRUE /\ arg[r].static = TRUE
    BY <1>2, <2>1 DEF Settings, Payloads
  <2>4. stored' = Asked(base[r], r)
    <3> DEFINE a == Asked(base[r], r)
    <3>1. a \in Settings /\ a.manual = TRUE /\ a.addr = r /\ a.dns = r
      BY <1>2, <2>3, AskedFields
    <3>2. a.gateway = IF arg[r].gateway THEN r ELSE base[r].gateway
      BY <1>2, <2>3, AskedFields
    <3> HIDE DEF a
    <3>3. stored'.gateway = a.gateway
      BY <1>3, <2>1, <3>2
    <3>4. stored' = a
      BY <1>3, <2>1, <2>3, <3>1, <3>3, SameSettings
    <3> QED  BY <3>4 DEF a
  <2>5. Aim(r)' = Asked(base[r], r)
    BY <2>2 DEF Aim, Asked
  <2> QED  BY <2>2, <2>4, <2>5 DEF SoFar
<1> QED  BY <1>1, <1>2, <1>3, <1>4, CallInv

\* An activation: what a request that ran alone asked for is in use.
LEMMA UpInv ==
  ASSUME NEW r \in Requests, IInv, Up(r)
  PROVE  IInv'
<1> USE DEF IInv, Goto
<1>1. /\ pc[r] = "up" /\ pc' = [pc EXCEPT ![r] = "ok"] /\ UNCHANGED <<arg, base, alone, stored>>
      /\ inUse' = "profile" /\ active' = stored
      /\ last' = IF r \in alone THEN r ELSE None
  BY DEF Up, Activate
<1>2. pc'[r] = "ok" /\ \A q \in Requests \ {r} : pc'[q] = pc[q]
  BY <1>1 DEF TypeOK
<1>3. last = None /\ \A q \in alone \ {r} : pc[q] \notin Running
  BY <1>1, Runs
<1>4. TypeOK'
  BY <1>1, <1>2 DEF TypeOK
<1>5. Progress'
  BY <1>1, <1>2, <1>3 DEF Progress, SoFar, TypeOK
<1>6. Current' /\ Fresh'
  BY <1>1, <1>2 DEF Current, Fresh
<1>7. Quiet'
  BY <1>1, <1>2 DEF Quiet, TypeOK
<1>8. r \in alone => stored = Asked(base[r], r)
  BY <1>1 DEF Progress, SoFar, Aim
<1>9. OkIsApplied'
  BY <1>1, <1>8 DEF OkIsApplied, Asked
<1>10. ManualHasAddress'
  BY <1>1 DEF ManualHasAddress
<1>11. Unmixed'
  <2>1. r \in alone /\ stored.addr = r => stored.gateway = r \/ ~arg[r].gateway
    <3>1. r \in alone /\ arg[r].static /\ arg[r].gateway => stored.gateway = r
      BY <1>8, AskedFields DEF TypeOK
    <3>2. r \in alone /\ ~arg[r].static => stored.addr # r
      BY <1>8, AskedFields DEF TypeOK, Fresh
    <3> QED  BY <3>1, <3>2
  <2>2. Explained(stored)'
    BY <1>1, <1>2, <2>1 DEF Unmixed, Explained
  <2> QED  BY <1>1, <2>2 DEF Unmixed, Explained
<1> QED  BY <1>4, <1>5, <1>6, <1>7, <1>9, <1>10, <1>11

\* A step that leaves the profile alone and ends requests.
LEMMA EndInv ==
  ASSUME IInv, UNCHANGED <<stored, arg, base, alone>>,
         active' \in {stored, active}, inUse' \in {"profile", "other", "none"}, last' = None,
         pc' \in [Requests -> Running \cup {"new", "ok", "error", "cut"}],
         \A q \in Requests : pc'[q] = pc[q] \/ pc'[q] \in {"error", "cut"}
  PROVE  IInv'
<1> USE DEF IInv
<1>1. TypeOK'  BY DEF TypeOK
<1>2. Progress'  BY DEF Progress, SoFar, Aim, Asked, TypeOK
<1>3. Current' /\ Fresh' /\ Quiet' /\ OkIsApplied'
  BY DEF Current, Fresh, Quiet, OkIsApplied
<1>4. ManualHasAddress'  BY DEF ManualHasAddress
<1>5. Unmixed'
  <2>1. Explained(stored)'  BY DEF Unmixed, Explained, TypeOK
  <2>2. Explained(active)'  BY DEF Unmixed, Explained, TypeOK
  <2> QED  BY <2>1, <2>2 DEF Unmixed
<1> QED  BY <1>1, <1>2, <1>3, <1>4, <1>5

LEMMA FailInv ==
  ASSUME NEW r \in Requests, IInv, Fail(r)
  PROVE  IInv'
<1>1. last = None
  BY Runs DEF Fail
<1> QED  BY <1>1, EndInv DEF Fail, Goto, IInv, TypeOK

LEMMA WifiConnectInv == IInv /\ WifiConnect => IInv'
<1> SUFFICES ASSUME IInv, WifiConnect PROVE IInv'  OBVIOUS
<1> QED  BY EndInv DEF WifiConnect, Activate, request, IInv, TypeOK

LEMMA CutInv ==
  ASSUME IInv, Cut, UNCHANGED <<stored, arg, base, alone>>,
         active' \in {stored, active}, inUse' \in {"profile", "other", "none"}, last' = None
  PROVE  IInv'
<1>1. pc' \in [Requests -> Running \cup {"new", "ok", "error", "cut"}]
  BY DEF Cut, IInv, TypeOK
<1>2. \A q \in Requests : pc'[q] = pc[q] \/ pc'[q] = "cut"
  BY DEF Cut
<1> QED  BY <1>1, <1>2, EndInv

LEMMA RestartInv == IInv /\ Restart => IInv'
<1> SUFFICES ASSUME IInv, Restart PROVE IInv'  OBVIOUS
<1> QED  BY CutInv DEF Restart, Activate, IInv, TypeOK

LEMMA RebootInv == IInv /\ Reboot => IInv'
<1> SUFFICES ASSUME IInv, Reboot PROVE IInv'  OBVIOUS
<1> QED  BY CutInv DEF Reboot, Activate, IInv, TypeOK

LEMMA StepInv == IInv /\ [Next]_vars => IInv'
<1> SUFFICES ASSUME IInv, [Next]_vars PROVE IInv'  OBVIOUS
<1>1. ASSUME NEW r \in Requests, Configure(r) PROVE IInv'  BY <1>1, ConfigureInv
<1>2. ASSUME NEW r \in Requests, Unknown(r) PROVE IInv'  BY <1>2, UnknownInv
<1>3. ASSUME NEW r \in Requests, SetMethod(r) PROVE IInv'  BY <1>3, SetMethodInv
<1>4. ASSUME NEW r \in Requests, SetGateway(r) PROVE IInv'  BY <1>4, SetGatewayInv
<1>5. ASSUME NEW r \in Requests, SetDns(r) PROVE IInv'  BY <1>5, SetDnsInv
<1>6. ASSUME NEW r \in Requests, Up(r) PROVE IInv'  BY <1>6, UpInv
<1>7. ASSUME NEW r \in Requests, Fail(r) PROVE IInv'  BY <1>7, FailInv
<1>8. CASE WifiConnect  BY <1>8, WifiConnectInv
<1>9. CASE Restart  BY <1>9, RestartInv
<1>10. CASE Reboot  BY <1>10, RebootInv
<1>11. CASE UNCHANGED vars
  <2> USE DEF vars, profile, request, history
  <2>1. TypeOK'  BY <1>11 DEF IInv, TypeOK
  <2>2. Progress'  BY <1>11 DEF IInv, Progress, SoFar, Aim, Asked
  <2>3. Current' /\ Fresh' /\ Quiet'  BY <1>11 DEF IInv, Current, Fresh, Quiet
  <2>4. OkIsApplied'  BY <1>11 DEF IInv, OkIsApplied, Asked
  <2>5. Unmixed'  BY <1>11 DEF IInv, Unmixed, Explained
  <2>6. ManualHasAddress'  BY <1>11 DEF IInv, ManualHasAddress
  <2> QED  BY <2>1, <2>2, <2>3, <2>4, <2>5, <2>6 DEF IInv
<1> QED
  BY <1>1, <1>2, <1>3, <1>4, <1>5, <1>6, <1>7, <1>8, <1>9, <1>10, <1>11 DEF Next, Step

LEMMA InductiveInvariant == Spec => []IInv
<1> QED  BY InitInv, StepInv, PTL DEF Spec

----------------------------------------------------------------------------
(* Theorems                                                                *)

\* The state keeps its types, and a request noted as alone (network.py:128-149
\* runs as one coroutine per request) overlaps no other while it runs.
THEOREM TypeCorrect == Spec => []TypeOK
<1>1. IInv => TypeOK  BY DEF IInv
<1> QED  BY <1>1, InductiveInvariant, PTL

\* However many requests there are, an answer of ok to one that overlapped no
\* other means that its settings are those in use (network.py:70-91).
THEOREM OkIsWhole == Spec => []OkIsApplied
<1>1. IInv => OkIsApplied  BY DEF IInv
<1> QED  BY <1>1, InductiveInvariant, PTL

\* An address with another request's gateway comes of a request that gave none,
\* failed, was cut off or overlapped another (network.py:74-86).
THEOREM GatewayExplained == Spec => []Unmixed
<1>1. IInv => Unmixed  BY DEF IInv
<1> QED  BY <1>1, InductiveInvariant, PTL

\* No interleaving, failure or crash leaves a manual method without an address,
\* which NetworkManager could not activate (network.py:75-80).
THEOREM AlwaysActivatable == Spec => []ManualHasAddress
<1>1. IInv => ManualHasAddress  BY DEF IInv
<1> QED  BY <1>1, InductiveInvariant, PTL

=============================================================================
