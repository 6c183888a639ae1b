------------------------------- MODULE MCAttempt -------------------------------
(* Two suppliers, of which one also lists a DASH stream, and smaller budgets  *)
(* than the shipped ones.                                                     *)
EXTENDS Attempt

Stream(height, supplier, hls) == [height |-> height, supplier |-> supplier, hls |-> hls]
OffersOf == {<<Stream(1080, "a", FALSE), Stream(1080, "b", TRUE), Stream(540, "a", TRUE)>>,
             <<Stream(720, "a", TRUE), Stream(720, Empty, TRUE)>>}
PlaylistsOf == {{720, 540}, {0}}
===============================================================================
