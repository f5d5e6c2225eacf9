------------------------------ MODULE Assignment ------------------------------
(***************************************************************************)
(* What the negotiation over actions_hub promises, without its messages:   *)
(* an executor has at most one performer working for it, a performer works *)
(* for at most one executor, and an executor reports success only once the *)
(* action has been done for it, by a performer that has left, and for good.*)
(***************************************************************************)
CONSTANTS Executors, Performers, None

VARIABLES
  worker,    \* the performer that works for each executor, or None
  done,      \* the executors the action has been done for
  reported   \* the executors that report success

vars == <<worker, done, reported>>

Init == /\ worker = [e \in Executors |-> None]
        /\ done = {}
        /\ reported = {}

Hire(e, p) == /\ worker[e] = None
              /\ \A f \in Executors : worker[f] # p
              /\ worker' = [worker EXCEPT ![e] = p]
              /\ UNCHANGED <<done, reported>>

\* With the action done, or given up.
Leave(e) == /\ worker[e] # None
            /\ worker' = [worker EXCEPT ![e] = None]
            /\ done' \in {done, done \union {e}}
            /\ UNCHANGED reported

Report(e) == /\ e \in done /\ worker[e] = None
             /\ reported' = reported \union {e}
             /\ UNCHANGED <<worker, done>>

Next == \E e \in Executors :
          \/ \E p \in Performers : Hire(e, p)
          \/ Leave(e)
          \/ Report(e)

Spec == Init /\ [][Next]_vars
=============================================================================
