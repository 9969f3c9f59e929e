----------------------------- MODULE MCWgGuard -----------------------------
(***************************************************************************)
(* Instances of WgGuard for TLC: a client tunnel that claims the ranges of *)
(* both LANs, and a server whose peers are in the range of one of them.    *)
(***************************************************************************)
EXTENDS WgGuard

CONSTANTS client, server, cron, home, site, lab

MCConf == [t \in Tunnels |-> IF t = client THEN {home, site} ELSE {lab}]
MCLans == {{home}, {home, site, lab}}

=============================================================================
