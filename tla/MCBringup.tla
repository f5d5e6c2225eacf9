------------------------------ MODULE MCBringup ------------------------------
(* Three managed nodes: the two whose places differ in the orders, and one that has a *)
(* process of its own in every case.                                                   *)
EXTENDS Bringup

MCManaged == {"planner", "domain_expert", "epistemic_state"}
=============================================================================
