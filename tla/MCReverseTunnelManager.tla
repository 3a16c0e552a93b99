----------------------- MODULE MCReverseTunnelManager -----------------------
(* Instances of ReverseTunnelManager for TLC.                              *)
EXTENDS ReverseTunnelManager, TLC

(* Clients, accepted connections and listener objects are interchangeable. *)
Symmetry == Permutations(Waiters) \cup Permutations(Incoming)
                \cup Permutations(Listeners)

=============================================================================
