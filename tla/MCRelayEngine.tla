--------------------------- MODULE MCRelayEngine ---------------------------
(***************************************************************************)
(* One rule, which the service adds or takes away once.  Two workers with  *)
(* two handles: while one closes its sockets the other gets their handles. *)
(***************************************************************************)
EXTENDS RelayEngine

CONSTANTS r1, wifi

MCTables == {[r \in Rules |-> a] : a \in {wifi, NoRule}}
=============================================================================
