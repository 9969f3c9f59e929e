----------------------------- MODULE NetConfig -----------------------------
(***************************************************************************)
(* IPv4 settings of an interface: app/network.py changes the connection    *)
(* profile pi-config-ui-<interface> with one nmcli call after another and  *)
(* then activates it.  NetworkManager keeps the profile on disk and what   *)
(* it has activated apart.  Requests do not wait for each other; a call    *)
(* can fail, the application can be restarted, the machine can reboot.     *)
(*                                                                         *)
(* A setting's value is the request that gave it.                          *)
(***************************************************************************)
CONSTANTS Requests, \* POST /api/network/configure for one interface
          Old,      \* what a person set with nmcli when the profile was made
          None

ASSUME ValuesAssumption == Old \notin Requests /\ None \notin Requests /\ Old # None

VARIABLES
  stored, \* the profile on disk
  active, \* the settings in use when the profile is active
  inUse,  \* the interface's active connection: the profile, another or none
  pc,     \* each request: the nmcli call it is at, or its answer
  arg,    \* each request's payload
  base,   \* history: the profile when each request began
  alone,  \* history: requests that overlapped no other
  last    \* history: the request whose activation nothing has followed

profile == <<stored, active, inUse>>
request == <<pc, arg>>
history == <<base, alone, last>>
vars == <<profile, request, history>>

Values == Requests \cup {Old, None}
Settings == [manual : BOOLEAN, addr : Values, gateway : Values, dns : Values]
Payloads == [static : BOOLEAN, address : BOOLEAN, gateway : BOOLEAN, dns : BOOLEAN]
Running == {"method", "gateway", "dns", "up"}
Blank == [manual |-> FALSE, addr |-> None, gateway |-> None, dns |-> None]

TypeOK ==
  /\ stored \in Settings /\ active \in Settings
  /\ inUse \in {"profile", "other", "none"}
  /\ pc \in [Requests -> Running \cup {"new", "ok", "error", "cut"}]
  /\ arg \in [Requests -> Payloads] /\ base \in [Requests -> Settings]
  /\ alone \subseteq Requests /\ last \in Requests \cup {None}
  /\ \A r \in Requests : pc[r] \in {"gateway", "dns"} => arg[r].static
  /\ \A r \in alone : pc[r] \in Running => \A s \in Requests \ {r} : pc[s] \notin Running

----------------------------------------------------------------------------
(* Requests                                                                *)

\* What a request asks to be made of the settings s: DHCP leaves the address,
\* the gateway and the DNS servers of earlier requests where they are, and so
\* does a static address that comes without them.
Asked(s, r) ==
  IF arg[r].static
  THEN [manual |-> TRUE, addr |-> r,
        gateway |-> IF arg[r].gateway THEN r ELSE s.gateway,
        dns |-> IF arg[r].dns THEN r ELSE s.dns]
  ELSE [s EXCEPT !.manual = FALSE]

Goto(r, p) == pc' = [pc EXCEPT ![r] = p] /\ UNCHANGED <<arg, base, alone>>

\* A payload that has been validated: the validator of a static address does
\* not see an address that is absent.
Configure(r) ==
  /\ pc[r] = "new"
  /\ \E p \in Payloads : arg' = [arg EXCEPT ![r] = p]
  /\ pc' = [pc EXCEPT ![r] = "method"]
  /\ base' = [base EXCEPT ![r] = stored]
  /\ LET others == {s \in Requests \ {r} : pc[s] \in Running}
     IN alone' = IF others = {} THEN alone \cup {r} ELSE alone \ others
  /\ last' = None
  /\ UNCHANGED profile

\* The interface does not exist: 404.
Unknown(r) ==
  /\ pc[r] = "new"
  /\ Goto(r, "error") /\ UNCHANGED <<profile, last>>

\* The calls that follow one another.
AfterDns(r) == "up"
AfterGateway(r) == IF arg[r].dns THEN "dns" ELSE "up"
AfterMethod_Dhcp(r) == IF arg[r].gateway THEN "gateway" ELSE "up"
AfterMethod(r) ==
  IF ~arg[r].static THEN "up" ELSE IF arg[r].gateway THEN "gateway" ELSE AfterGateway(r)

\* The method and the address are one call, which fails without an address.
SetMethod_Split(r) ==
  /\ pc[r] = "method"
  /\ stored' = [stored EXCEPT !.manual = arg[r].static,
                              !.addr = IF arg[r].static /\ arg[r].address THEN r ELSE @]
  /\ Goto(r, AfterMethod(r))
  /\ UNCHANGED <<active, inUse, last>>
SetMethod(r) ==
  /\ pc[r] = "method" /\ (arg[r].static => arg[r].address)
  /\ stored' = [stored EXCEPT !.manual = arg[r].static,
                              !.addr = IF arg[r].static THEN r ELSE @]
  /\ Goto(r, AfterMethod(r))
  /\ UNCHANGED <<active, inUse, last>>

SetGateway_Skipped(r) ==
  /\ pc[r] = "gateway"
  /\ Goto(r, AfterGateway(r))
  /\ UNCHANGED <<profile, last>>
SetGateway(r) ==
  /\ pc[r] = "gateway"
  /\ stored' = [stored EXCEPT !.gateway = r]
  /\ Goto(r, AfterGateway(r))
  /\ UNCHANGED <<active, inUse, last>>

SetDns(r) ==
  /\ pc[r] = "dns"
  /\ stored' = [stored EXCEPT !.dns = r]
  /\ Goto(r, AfterDns(r))
  /\ UNCHANGED <<active, inUse, last>>

\* nmcli con up: the profile as it is on disk.
Activate == inUse' = "profile" /\ active' = stored
Up_Early(r) ==
  /\ pc[r] \in {"dns", "up"}
  /\ Activate /\ UNCHANGED stored
  /\ Goto(r, "ok")
  /\ last' = IF r \in alone THEN r ELSE None
Up(r) ==
  /\ pc[r] = "up"
  /\ Activate /\ UNCHANGED stored
  /\ Goto(r, "ok")
  /\ last' = IF r \in alone THEN r ELSE None

\* nmcli fails, and the request with it: by the exception that logging a field
\* "args" raises, before the 502 meant for it.  A failed activation may leave
\* the interface without one.
Fail_Retried(r) ==
  /\ pc[r] \in Running
  /\ UNCHANGED vars
Fail(r) ==
  /\ pc[r] \in Running
  /\ Goto(r, "error")
  /\ inUse' \in {inUse} \cup (IF pc[r] = "up" THEN {"none"} ELSE {})
  /\ UNCHANGED <<stored, active, last>>

\* POST /api/network/wifi/connect: a network by its saved profile, of which
\* this may be one, or by its name and password.
WifiConnect ==
  /\ \/ Activate
     \/ inUse' \in {"other", "none"} /\ UNCHANGED active
  /\ last' = None
  /\ UNCHANGED <<stored, request, base, alone>>

----------------------------------------------------------------------------
(* Crashes                                                                 *)

Cut == pc' = [r \in Requests |-> IF pc[r] \in Running THEN "cut" ELSE pc[r]]

\* The application is restarted, perhaps after the last nmcli had its effect.
Restart ==
  /\ \E r \in Requests : pc[r] \in Running
  /\ Cut
  /\ \/ UNCHANGED <<active, inUse>>
     \/ (\E r \in Requests : pc[r] = "up") /\ Activate
  /\ last' = None
  /\ UNCHANGED <<stored, arg, base, alone>>

\* NetworkManager activates one of its profiles when the machine has booted.
Reboot ==
  /\ Cut
  /\ Activate \/ (inUse' \in {"other", "none"} /\ UNCHANGED active)
  /\ last' = None
  /\ UNCHANGED <<stored, arg, base, alone>>

----------------------------------------------------------------------------

\* A profile with an address of its own or with DHCP, in use or not.
Init ==
  /\ stored \in {Blank, [Blank EXCEPT !.manual = TRUE, !.addr = Old, !.gateway = Old]}
  /\ active = stored /\ inUse \in {"profile", "other", "none"}
  /\ pc = [r \in Requests |-> "new"]
  /\ arg \in [Requests -> {[static |-> FALSE, address |-> FALSE, gateway |-> FALSE, dns |-> FALSE]}]
  /\ base = [r \in Requests |-> Blank]
  /\ alone = {} /\ last = None

Step(r) == SetMethod(r) \/ SetGateway(r) \/ SetDns(r) \/ Up(r) \/ Fail(r)

Next ==
  \/ \E r \in Requests : Configure(r) \/ Unknown(r) \/ Step(r)
  \/ WifiConnect \/ Restart \/ Reboot

Spec == Init /\ [][Next]_vars

\* nmcli ends: it waits for an activation for ninety seconds at most.
FairSpec == Spec /\ \A r \in Requests : WF_vars(Step(r))

----------------------------------------------------------------------------
(* Properties                                                              *)

\* The settings in use after an answer of ok are what the request asked to be
\* made of those it found, when no other overlapped it.
OkIsApplied ==
  last # None => inUse = "profile" /\ active = stored /\ active = Asked(base[last], last)

\* A gateway of another request than the address's: that request gave none, has
\* not come to the end, or overlapped another.
Explained(s) ==
  s.addr \in Requests /\ s.gateway # s.addr =>
    ~arg[s.addr].gateway \/ pc[s.addr] # "ok" \/ s.addr \notin alone
Unmixed == Explained(stored) /\ Explained(active)

\* Whatever overlaps, fails or is cut off, a profile with a manual method has an
\* address: NetworkManager can activate it at the next boot.
ManualHasAddress == \A s \in {stored, active} : s.manual => s.addr # None

\* Every request is answered or cut off.
Answered == \A r \in Requests : pc[r] \in Running ~> pc[r] \notin Running

=============================================================================
