--------------------------- MODULE MCSshIsolation ---------------------------
(***************************************************************************)
(* SshIsolation with a few sessions, for TLC.  Sessions and connections    *)
(* are interchangeable.                                                    *)
(***************************************************************************)
EXTENDS SshIsolation, TLC

Symmetry == Permutations(Session) \cup Permutations(Connection)
=============================================================================
