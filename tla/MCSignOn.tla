------------------------------ MODULE MCSignOn ------------------------------
(***************************************************************************)
(* SignOn for TLC.  The cookie, and the request and the sign-in of another *)
(* of two tabs, hold at most three states: a fourth is always new.         *)
(***************************************************************************)
EXTENDS SignOn, Naturals

CONSTANT MaxStates
MCStates == 1 .. MaxStates

=============================================================================
