--------------------------- MODULE MCSmpcChannels ---------------------------
(* No node is special: the safety runs explore one of each set of          *)
(* behaviours that differ by a renaming of the nodes.                      *)
EXTENDS SmpcChannels, TLC

Symmetry == Permutations(Node)
=============================================================================
