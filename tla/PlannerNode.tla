----------------------------- MODULE PlannerNode -----------------------------
(***************************************************************************)
(* The planner: its services put requests into a queue, one thread of its    *)
(* own takes them out and has all solvers search at once, each in a thread   *)
(* that starts a process and another that watches over it.                   *)
(*                                                                          *)
(* Time is abstracted to what may happen when it has passed: a client stops  *)
(* waiting, the planning thread stops collecting, a solver's own time is     *)
(* over.  What a search finds is left out; that it has ended is not.         *)
(***************************************************************************)
EXTENDS Naturals, Sequences, FiniteSets

CONSTANTS
  Solvers,   \* the plug-ins
  Wrapped,   \* those whose command starts another process (ros2 run), which inherits the pipe
  Requests,  \* calls of planner/get_plan
  None       \* no request

ASSUME RequestAssumption == None \notin Requests
ASSUME SolverAssumption == Wrapped \subseteq Solvers

VARIABLES
  progress,  \* of a request: "new", "queued", "planning", "answered"
  queue,     \* planning_queue_
  planning,  \* the request that the planning thread is at
  phase,     \* of get_plan_array: "collect", "drain"
  call,      \* getPlan of a solver for a request: "none", "starting", "searching",
             \* "killed", "ended"
  cancelled, \* of a solver: cancel_requested_
  stopped,   \* planning_stopped_
  destroyed  \* have the solvers been destroyed?

plannerVars == <<progress, queue, planning, phase, call, cancelled,
                 stopped, destroyed>>

PlannerInit ==
  /\ progress = [r \in Requests |-> "new"]
  /\ queue = <<>> /\ planning = None /\ phase = "collect"
  /\ call = [s \in Solvers |-> [r \in Requests |-> "none"]]
  /\ cancelled = [s \in Solvers |-> FALSE]
  /\ stopped = FALSE /\ destroyed = FALSE

-----------------------------------------------------------------------------
(* The services.                                                           *)

\* The callback, plan_in_background, when the request of a client has arrived.  The
\* clients do not wait for one another's answers; nor is the planner told when one stops
\* waiting for its own.
Enqueue(r) ==
  /\ progress[r] = "new" /\ ~stopped
  /\ progress' = [progress EXCEPT ![r] = "queued"]
  /\ queue' = Append(queue, r)
  /\ UNCHANGED <<planning, phase, call, cancelled, stopped, destroyed>>

-----------------------------------------------------------------------------
(* The planning thread: get_plan_array.                                    *)

Take ==
  /\ planning = None /\ queue # <<>> /\ ~stopped
  /\ planning' = Head(queue) /\ queue' = Tail(queue)
  /\ progress' = [progress EXCEPT ![Head(queue)] = "planning"]
  /\ call' = [s \in Solvers |-> [call[s] EXCEPT ![Head(queue)] = "starting"]]
  /\ phase' = "collect"
  /\ UNCHANGED <<cancelled, stopped, destroyed>>

\* All results have been or solver_timeout_ has passed: the others are cancelled.
CancelTheRest ==
  /\ planning # None /\ phase = "collect"
  /\ phase' = "drain"
  /\ cancelled' = [s \in Solvers |-> call[s][planning] # "ended"]
  /\ UNCHANGED <<progress, queue, planning, call, stopped, destroyed>>

\* Mutant of Answer: the searches that were cancelled are not waited for.
AnswerAtOnce ==
  /\ planning # None /\ phase = "drain"
  /\ progress' = [progress EXCEPT ![planning] = "answered"]
  /\ planning' = None
  /\ UNCHANGED <<queue, phase, call, cancelled, stopped, destroyed>>

\* Every future is waited for, though only what came in time is in the answer.  (The
\* cancellations are forgotten here; in the code, when the next searches start, before
\* which nobody reads them.)
Answer ==
  /\ planning # None /\ phase = "drain"
  /\ \A s \in Solvers : call[s][planning] = "ended"
  /\ progress' = [progress EXCEPT ![planning] = "answered"]
  /\ call' = [s \in Solvers |-> [call[s] EXCEPT ![planning] = "none"]]
  /\ planning' = None /\ phase' = "collect"
  /\ cancelled' = [s \in Solvers |-> FALSE]
  /\ UNCHANGED <<queue, stopped, destroyed>>

-----------------------------------------------------------------------------
(* The solvers: getPlan and execute_planner.                               *)

\* The files are written and the process is started, or that fails.  A cancellation
\* that came earlier is forgotten.
StartSearch(s, r) ==
  /\ call[s][r] = "starting"
  /\ \/ /\ call' = [call EXCEPT ![s][r] = "searching"]
        /\ cancelled' = [cancelled EXCEPT ![s] = FALSE]
     \/ /\ call' = [call EXCEPT ![s][r] = "ended"]
        /\ UNCHANGED cancelled
  /\ UNCHANGED <<progress, queue, planning, phase, stopped, destroyed>>

\* All that could write into the pipe have ended by themselves, which they need never do;
\* the monitor may have killed the first of them.
EndSearch(s, r) ==
  /\ call[s][r] \in {"searching", "killed"}
  /\ call' = [call EXCEPT ![s][r] = "ended"]
  /\ UNCHANGED <<progress, queue, planning, phase, cancelled, stopped,
                 destroyed>>

\* The monitor kills the process that was started, and nothing that this has started.
KillSearch(s, r) ==
  /\ call[s][r] = "searching"
  /\ call' = [call EXCEPT ![s][r] = "killed"]
  /\ UNCHANGED <<progress, queue, planning, phase, cancelled, stopped,
                 destroyed>>

\* Mutant of KillLate: only a cancellation ends a search.
KillIfCancelled(s, r) == cancelled[s] /\ KillSearch(s, r)

KillCancelled(s, r) == cancelled[s] /\ KillSearch(s, r)

\* The time that the solver was given, counted from when it started, is over.
KillLate(s, r) == KillSearch(s, r)

\* The pipe is read to its end, which comes when nobody is left to write into it.
ReadToTheEnd(s, r) ==
  /\ call[s][r] = "killed" /\ s \notin Wrapped
  /\ call' = [call EXCEPT ![s][r] = "ended"]
  /\ UNCHANGED <<progress, queue, planning, phase, cancelled, stopped,
                 destroyed>>

-----------------------------------------------------------------------------
(* The end: the destructor takes no more requests and joins the thread.    *)

Stop ==
  /\ ~stopped
  /\ stopped' = TRUE /\ queue' = <<>>
  /\ UNCHANGED <<progress, planning, phase, call, cancelled, destroyed>>

\* Mutant of Destroy: the planning thread is not joined.
DestroyAtOnce ==
  /\ stopped /\ ~destroyed
  /\ destroyed' = TRUE
  /\ UNCHANGED <<progress, queue, planning, phase, call, cancelled, stopped>>

Destroy ==
  /\ stopped /\ planning = None /\ ~destroyed
  /\ destroyed' = TRUE
  /\ UNCHANGED <<progress, queue, planning, phase, call, cancelled, stopped>>

PlanningThread == Take \/ CancelTheRest \/ Answer
Watch ==
  \E s \in Solvers, r \in Requests :
    StartSearch(s, r) \/ KillCancelled(s, r) \/ KillLate(s, r) \/ ReadToTheEnd(s, r)
PlannerNext == PlanningThread \/ Watch \/ \E s \in Solvers, r \in Requests : EndSearch(s, r)

-----------------------------------------------------------------------------

PlannerTypeOK ==
  /\ progress \in [Requests -> {"new", "queued", "planning", "answered"}]
  /\ queue \in Seq(Requests)
  /\ planning \in Requests \union {None} /\ phase \in {"collect", "drain"}
  /\ call \in [Solvers -> [Requests -> {"none", "starting", "searching", "killed", "ended"}]]
  /\ cancelled \in [Solvers -> BOOLEAN]
  /\ stopped \in BOOLEAN /\ destroyed \in BOOLEAN

\* A plug-in keeps state of its task, so no two calls of getPlan are in one solver at
\* the same time ("One thread, so that two requests cannot be in a solver at once"),
\* though searches are given up and clients ask anew; and none is in a solver that has
\* been destroyed.
SolversAreNotShared ==
  \A s \in Solvers :
    LET inside == {r \in Requests : call[s][r] \in {"starting", "searching", "killed"}}
    IN Cardinality(inside) <= 1 /\ (destroyed => inside = {})
=============================================================================
