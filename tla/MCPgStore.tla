------------------------------ MODULE MCPgStore ------------------------------
(* Small instances of PgStore for TLC.  Workers, clients and campaigns are    *)
(* interchangeable, so the safety runs explore one state per orbit.          *)
EXTENDS PgStore, TLC

Symmetric == Permutations(Workers) \cup Permutations(Clients)
               \cup Permutations(Campaigns)
=============================================================================
