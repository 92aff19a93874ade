--------------------------- MODULE MCConnections ---------------------------
(* A small instance of Connections.  Requests, consent screens and Instagram  *)
(* accounts are interchangeable; no property of the run is a liveness one.    *)
EXTENDS Connections, TLC
ConnectionsSymmetry == Permutations(Requests) \cup Permutations(Auths)
                       \cup Permutations(Instagrams)
=============================================================================
