------------------------------ MODULE MCTunnel ------------------------------
(***************************************************************************)
(* Tunnel for TLC: the client's application sends a piece of data that     *)
(* needs the 16-bit length and one more, the server's sends one.           *)
(***************************************************************************)
EXTENDS Tunnel

MCSize == <<126, 300>>
MCLimit == [e \in Ends |-> IF e = "client" THEN 2 ELSE 1]

=============================================================================
