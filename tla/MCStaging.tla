----------------------------- MODULE MCStaging -----------------------------
(* Downloads of one episode: d1 asked for at a quality the BBC turns out   *)
(* not to have, so that it is renamed to what d2 asks for.                 *)
EXTENDS Staging

CONSTANTS d1, d2, n1, n2

One == {d1}
Both == {d1, d2}
Names == {n1, n2}
MCRequested == [d \in Download |-> IF d = d1 THEN n1 ELSE n2]
MCActual == [d \in Download |-> n2]
============================================================================
