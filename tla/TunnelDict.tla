----------------------------- MODULE TunnelDict ------------------------------
(* Dictionaries from tunnel names to sets of peers, as the .conf files, the *)
(* metadata file and the kernel's interfaces are.                           *)

With(f, t, v) == [u \in DOMAIN f \cup {t} |-> IF u = t THEN v ELSE f[u]]
Without(f, t) == [u \in DOMAIN f \ {t} |-> f[u]]

\* The peers of P but for the one with key k.
Drop(P, k) == {p \in P : p.key # k}

=============================================================================
