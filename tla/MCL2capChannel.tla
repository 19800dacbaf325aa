--------------------------- MODULE MCL2capChannel ---------------------------
(***************************************************************************)
(* Small instances of L2capChannel.  Client sockets, and the child sockets *)
(* host B may spawn, are interchangeable: no action tells one from another *)
(* and a channel id names at most one endpoint of a host.                  *)
(***************************************************************************)
EXTENDS L2capChannel, TLC

Symmetry == Permutations(Client) \cup Permutations(Child)
=============================================================================
