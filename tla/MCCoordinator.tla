--------------------------- MODULE MCCoordinator ----------------------------
(***************************************************************************)
(* A small instance of Coordinator for TLC: one agent with two             *)
(* incarnations, and sessions that agents and clients open.                *)
(***************************************************************************)
EXTENDS Coordinator

CONSTANTS a1, b1, b2, w1

AllFit == Work \X Agent
Boots == [a \in Agent |-> Boot]
Exclusive == [NoRequest EXCEPT !.require = {"healthy", "reachable"}]
ExclusiveOnly == {Exclusive}
Order == [boot \in Boot |-> IF boot = b1 THEN 1 ELSE 2]
Ageless == [k \in {"capability", "health", "availability"} |-> 10]

=============================================================================
