------------------------------- MODULE Bringup -------------------------------
(***************************************************************************)
(* The system while it is brought up: the manager, the nodes it configures   *)
(* and activates, clients that ask for plans as soon as the planner offers   *)
(* the service, and the end of the planner.                                  *)
(*                                                                          *)
(* The domain expert, while it is configured, has the domain checked, by a   *)
(* solver of its own or by the planner node.                                 *)
(***************************************************************************)
EXTENDS PlannerNode, LifecycleManager

VARIABLES
  viaPlanner,  \* validate_using_planner_node
  validation   \* the request to the planner: "none", "sent", "served"

bringupVars == <<plannerVars, lifeVars, viaPlanner, validation>>

Init == PlannerInit /\ LifeInit /\ viaPlanner \in BOOLEAN /\ validation = "none"

OfPlanner == UNCHANGED <<lifeVars, viaPlanner, validation>>
OfLife    == UNCHANGED <<plannerVars, viaPlanner, monolithic>>

-----------------------------------------------------------------------------
(* The planner in its process.                                             *)

\* The services are created when the node is configured.
Offers == life["planner"] \in {"inactive", "active"}
\* Its threads outlive the services while the destructor joins them, but not a crash.
Lives  == life["planner"] # "dead" \/ stopped

\* Mutant of Serve: the search is done in the callback.
ServeInCallback(r) ==
  /\ Offers /\ Spins("planner")
  /\ Enqueue(r)
  /\ busy' = [busy EXCEPT ![Thread("planner")] = <<"planner", "plan">>]
  /\ UNCHANGED <<monolithic, ok, managerVars, inbox, life, refused, crashes, viaPlanner, validation>>

Serve(r) ==
  /\ Offers /\ Spins("planner")
  /\ Enqueue(r)
  /\ OfPlanner

Plan    == Lives /\ PlanningThread /\ OfPlanner
Solve   == Lives /\ Watch /\ OfPlanner
Finish  == Lives /\ (\E s \in Solvers, r \in Requests : EndSearch(s, r)) /\ OfPlanner

\* Spinning is over and the node is destroyed.  The program plansys2_node first waits for
\* startup_function to return.
Leave ==
  /\ life["planner"] # "dead"
  /\ IF monolithic THEN ~Running /\ (~ok \/ startup = "failed") ELSE ~ok
  /\ busy[Thread("planner")] = Idle
  /\ Stop
  /\ life' = [life EXCEPT !["planner"] = "dead"]
  /\ inbox' = [inbox EXCEPT !["planner"] = {}]
  /\ UNCHANGED <<monolithic, ok, managerVars, busy, refused, crashes, viaPlanner, validation>>

Unload == Destroy /\ OfPlanner

-----------------------------------------------------------------------------
(* The manager and the nodes.                                              *)

Manage == Manager /\ OfLife /\ UNCHANGED <<ok, crashes, validation>>

CtrlC == Interrupt /\ OfLife /\ UNCHANGED <<crashes, validation>>

Kill(n) == Crash(n) /\ OfLife /\ UNCHANGED <<ok, validation>>

\* on_configure of the domain expert waits for the service as long as it takes, asks, and
\* waits for three seconds in the only thread that could take the answer; so it fails.
MayEnd(n, k, success) ==
  (n = "domain_expert" /\ k = "configure" /\ viaPlanner) => validation # "none" /\ ~success

Node(n) ==
  /\ OfLife /\ UNCHANGED <<ok, crashes, validation>>
  /\ \/ GetState(n)
     \/ \E k \in {"configure", "activate"} :
          \/ BeginTransition(n, k)
          \/ \E success \in BOOLEAN : MayEnd(n, k, success) /\ EndTransition(n, k, success)

AskToValidate ==
  /\ viaPlanner /\ validation = "none"
  /\ life["domain_expert"] # "dead" /\ busy[Thread("domain_expert")] = <<"domain_expert", "configure">>
  /\ Offers
  /\ validation' = "sent"
  /\ UNCHANGED <<plannerVars, lifeVars, viaPlanner>>

\* Unlike a search, this is done in the callback.
BeginValidation ==
  /\ validation = "sent" /\ Offers /\ Spins("planner")
  /\ validation' = "served"
  /\ busy' = [busy EXCEPT ![Thread("planner")] = <<"planner", "validate">>]
  /\ OfLife /\ UNCHANGED <<ok, managerVars, inbox, life, refused, crashes>>

EndValidation ==
  /\ busy[Thread("planner")] = <<"planner", "validate">>
  /\ busy' = [busy EXCEPT ![Thread("planner")] = Idle]
  /\ OfLife /\ UNCHANGED <<ok, managerVars, inbox, life, refused, crashes, validation>>

Validate == AskToValidate \/ BeginValidation \/ EndValidation

Next ==
  \/ \E r \in Requests : Serve(r)
  \/ Plan \/ Solve \/ Finish \/ Leave \/ Unload
  \/ Manage \/ CtrlC \/ Validate
  \/ \E n \in Managed : Node(n) \/ Kill(n)

Startup  == Manage \/ Validate \/ \E n \in Managed : Node(n)
Planning == Plan \/ Solve

\* The manager's thread and those of the nodes run: callbacks return, but for a wait for a
\* service that is not there.  The planning thread runs, a solver's time passes and its
\* monitor sees it, and the pipe of a process that is gone ends; that a search ends by itself
\* is not assumed.  It is enough that each of the two groups goes on while one of its
\* threads can.
Fairness == WF_bringupVars(Startup) /\ WF_bringupVars(Planning)

Spec == Init /\ [][Next]_bringupVars /\ Fairness

-----------------------------------------------------------------------------

TypeOK ==
  /\ PlannerTypeOK /\ LifeTypeOK
  /\ viaPlanner \in BOOLEAN /\ validation \in {"none", "sent", "served"}

\* Whatever is slow, refused, killed or interrupted, startup_function returns: no node's
\* answer is waited for longer than the time given, except where get_state does (Hangs).
StartupEnds == []<>(~Running \/ Hangs)

\* The planner comes to have no request left that it has not answered, though solvers
\* search without end, clients give up and cancellations get lost; unless its process ends,
\* or the process that a solver started has been killed and another still has its pipe.
AllAnswered == \A r \in Requests : progress[r] \notin {"queued", "planning"}
Orphaned    == \E s \in Wrapped, r \in Requests : call[s][r] = "killed"

EveryRequestIsAnswered == []<>(life["planner"] = "dead" \/ AllAnswered \/ Orphaned)
=============================================================================
