--------------------------- MODULE MCDownloadManager ---------------------------
(* Instances of DownloadManager for TLC.                                      *)
EXTENDS DownloadManager, TLC

(* The first grab of a pair sorts behind the second: an out-of-order season   *)
(* grab, so that arrival order and claim order differ.                        *)
Reversed == [i \in Ids |-> MaxIds - i]

Symmetry == Permutations(Workers) \cup Permutations(Callers)
===============================================================================
