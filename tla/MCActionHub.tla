---------------------------- MODULE MCActionHub ----------------------------
(* Small instances of ActionHub: up to two executors and two performers.   *)
EXTENDS ActionHub, TLC

CONSTANTS e1, e2, p1, p2, x1, x2

\* Two actions, each with an executor of its own, in no order.
TwoActions == e1 :> x1 @@ e2 :> x2
Unordered  == [e \in Executors |-> {}]

\* One action that two plans hold.
SameAction == e1 :> x1 @@ e2 :> x1

OneAction == e1 :> x1
OnePlan   == [e \in Executors |-> 0]
TwoPlans  == e1 :> 0 @@ e2 :> 1

\* Both performers can do every action.
AllCanDo == [p \in Performers |-> Exprs]

\* Performers are interchangeable, and so are actions with their executors.
Swap(a, b) == a :> b @@ b :> a
PerformerSymmetry == Permutations({p1, p2})
FullSymmetry ==
  PerformerSymmetry \union {Swap(e1, e2) @@ Swap(x1, x2),
                            Swap(e1, e2) @@ Swap(x1, x2) @@ Swap(p1, p2)}
============================================================================
