--------------------------- MODULE LifecycleManager ---------------------------
(***************************************************************************)
(* startup_function configures and activates the managed nodes in order, by  *)
(* requests that each node serves in its thread.  The nodes of the program   *)
(* plansys2_node share one thread, and the manager runs beside it; or the    *)
(* launch file starts each in a process of its own.  The epistemic nodes     *)
(* always have one.                                                          *)
(*                                                                          *)
(* A callback that takes its time is two steps; the thread is busy between   *)
(* them.  A wait times out only if the node is dead or its thread busy.      *)
(***************************************************************************)
EXTENDS Naturals, Sequences, FiniteSets, SequencesExt

CONSTANTS
  Managed,      \* the names of the managed nodes
  MaxCrashes    \* bound on nodes whose process ends

Epistemic == {"epistemic_state", "epistemic_perception"}
configure_order == <<"planner", "domain_expert", "problem_expert", "executor",
                     "epistemic_state", "epistemic_perception">>
activate_order  == <<"domain_expert", "problem_expert", "planner", "executor",
                     "epistemic_state", "epistemic_perception">>

ASSUME ManagedAssumption == IsFiniteSet(Managed) /\ Managed # {}

\* Does the list have node m before n, or m only?
Precedes(order, m, n) ==
  \E i \in DOMAIN order : order[i] = m /\ \A j \in 1 .. i : order[j] # n

\* The managed nodes, those of the list in its order, and then those it does not know.
ordered_nodes(order) ==
  CHOOSE nodes \in [1 .. Cardinality(Managed) -> Managed] :
    /\ IsInjective(nodes)
    /\ \A i, j \in DOMAIN nodes : Precedes(order, nodes[i], nodes[j]) => i < j

ToConfigure == ordered_nodes(configure_order)
ToActivate  == ordered_nodes(activate_order)

Idle == <<>>

VARIABLES
  monolithic, \* do all nodes share one thread?
  ok,         \* rclcpp::ok() in the manager's process
  startup,    \* startup_function: "configure", "poll", "activate", "check", "started", "failed"
  at,         \* the node it is at, by position
  asking,     \* the request it waits for: "none", "configure", "activate", "get_state"
  late,       \* has the wait for a get_state timed out?
  reply,      \* the answer to it: "none", "yes", "no" or a state
  inbox,      \* of a node, the requests it has not read, several times the same being one
  life,       \* of a node: "unconfigured", "inactive", "active", "dead"
  busy,       \* of a thread, the callback it is in: a node and what it does
  refused,    \* has a transition failed, or ended too late for the manager?
  crashes     \* counter for the bound

managerVars == <<startup, at, asking, late, reply>>
nodeVars    == <<inbox, life, busy>>
lifeVars    == <<monolithic, ok, managerVars, nodeVars, refused, crashes>>

Alone(n)   == ~monolithic \/ n \in Epistemic
Thread(n)  == IF Alone(n) THEN n ELSE "plansys2_node"
Threads    == Managed \union {"plansys2_node"}
\* The thread of a node can begin a callback.  plansys2_node spins until rclcpp::ok() is
\* false or startup has failed.
Spins(n)   == /\ life[n] # "dead" /\ busy[Thread(n)] = Idle
              /\ Alone(n) \/ (ok /\ startup # "failed")
Order      == IF startup \in {"configure", "poll"} THEN ToConfigure ELSE ToActivate
Target     == Order[at]
Running    == startup \in {"configure", "poll", "activate", "check"}

LifeInit ==
  /\ monolithic \in BOOLEAN /\ ok = TRUE
  /\ startup = "configure" /\ at = 1 /\ asking = "none" /\ late = FALSE /\ reply = "none"
  /\ inbox = [n \in Managed |-> {}] /\ life = [n \in Managed |-> "unconfigured"]
  /\ busy = [t \in Threads |-> Idle]
  /\ refused = FALSE /\ crashes = 0

-----------------------------------------------------------------------------
(* The manager.                                                            *)

End(result) == startup' = result /\ at' = 1 /\ asking' = "none" /\ late' = FALSE /\ reply' = "none"

\* Mutant of GoOn: one node too many.
GoOnPast(then) ==
  /\ IF at <= Len(Order)
     THEN /\ at' = at + 1
          /\ startup' = IF startup = "poll" THEN "configure" ELSE startup
     ELSE at' = 1 /\ startup' = then
  /\ asking' = "none" /\ late' = FALSE /\ reply' = "none"

\* On to the next node, or to what comes after the last one.
GoOn(then) ==
  /\ IF at < Len(Order)
     THEN /\ at' = at + 1
          /\ startup' = IF startup = "poll" THEN "configure" ELSE startup
     ELSE at' = 1 /\ startup' = then
  /\ asking' = "none" /\ late' = FALSE /\ reply' = "none"

\* change_state or get_state sends its request, if the service is there.
Send(request) ==
  /\ Running /\ ok /\ asking = "none"
  /\ request = IF startup \in {"configure", "activate"} THEN startup ELSE "get_state"
  /\ life[Target] # "dead"
  /\ asking' = request
  /\ inbox' = [inbox EXCEPT ![Target] = @ \union {request}]
  /\ UNCHANGED <<startup, at, late, reply, life, busy, refused>>

\* wait_for_service finds nobody: false, or an unknown state, which the check at the end
\* does not accept; the loop that waits for a configured node just asks again.
NotThere ==
  /\ Running /\ ok /\ asking = "none" /\ life[Target] = "dead" /\ startup # "poll"
  /\ End("failed")
  /\ UNCHANGED <<nodeVars, refused>>

\* Mutant of Answered: the loop does not wait for a node to become inactive.
AnsweredAtOnce ==
  /\ Running /\ reply # "none"
  /\ GoOn(CASE startup \in {"configure", "poll"} -> "activate"
            [] startup = "activate" -> "check"
            [] startup = "check" -> "started")
  /\ UNCHANGED <<nodeVars, refused>>

\* The answer makes startup_function return false.
Fails == reply = "no" \/ (startup = "poll" /\ ~ok) \/ (startup = "check" /\ late)

Answered ==
  /\ Running /\ reply # "none"
  /\ \/ Fails /\ End("failed")
     \/ /\ ~Fails /\ startup = "configure"
        /\ startup' = "poll" /\ asking' = "none" /\ reply' = "none" /\ UNCHANGED <<at, late>>
     \/ /\ ~Fails /\ startup = "poll"
        /\ IF reply = "inactive" /\ ~late THEN GoOn("activate")
           ELSE asking' = "none" /\ late' = FALSE /\ reply' = "none" /\ UNCHANGED <<startup, at>>
     \/ ~Fails /\ startup = "activate" /\ GoOn("check")
     \/ ~Fails /\ startup = "check" /\ GoOn("started")
  /\ UNCHANGED <<nodeVars, refused>>

Unresponsive(n) == life[n] = "dead" \/ busy[Thread(n)] # Idle
Excused(n)      == life[n] = "dead" \/ busy[Thread(n)] \notin {Idle, <<"planner", "plan">>}

\* Mutant of TimeOut: change_state, too, gets the future first.
TimeOutAndGet ==
  /\ Running /\ ok /\ reply = "none" /\ ~late
  /\ asking # "none" /\ Unresponsive(Target)
  /\ late' = TRUE /\ UNCHANGED <<startup, at, asking, reply>>
  /\ refused' = (refused \/ Excused(Target))
  /\ UNCHANGED nodeVars

\* The wait times out: change_state gives up.  get_state has still to get the future,
\* and goes on waiting for the answer; it will be an unknown state.
TimeOut ==
  /\ Running /\ ok /\ reply = "none" /\ ~late
  /\ asking # "none" /\ Unresponsive(Target)
  /\ IF asking = "get_state" THEN late' = TRUE /\ UNCHANGED <<startup, at, asking, reply>>
     ELSE End("failed")
  /\ refused' = (refused \/ Excused(Target))
  /\ UNCHANGED nodeVars

\* rclcpp::ok() has become false: loops and waits end, but for the one that gets the
\* future of get_state, which nobody will set any more.
Interrupt == Running /\ ok /\ ok' = FALSE /\ UNCHANGED <<managerVars, nodeVars, refused>>
GiveUp ==
  /\ Running /\ ~ok /\ reply = "none" /\ asking # "get_state"
  /\ End("failed")
  /\ UNCHANGED <<nodeVars, refused>>

\* get_state waits for an answer that cannot come, or is called again and again for a
\* node that is dead.
Hangs ==
  /\ Running /\ reply = "none"
  /\ \/ asking = "get_state" /\ (~ok \/ life[Target] = "dead")
     \/ asking = "none" /\ startup = "poll" /\ life[Target] = "dead"

Manager == (\E q \in {"configure", "activate", "get_state"} : Send(q)) \/ NotThere \/ Answered \/ TimeOut \/ GiveUp

-----------------------------------------------------------------------------
(* The nodes.                                                              *)

\* The answer reaches the manager if it still waits for one.
Tell(n, request, what) ==
  reply' = IF Running /\ ok /\ asking = request /\ Target = n THEN what ELSE reply

\* get_state is answered between other callbacks.
GetState(n) ==
  /\ Spins(n) /\ "get_state" \in inbox[n]
  /\ inbox' = [inbox EXCEPT ![n] = @ \ {"get_state"}]
  /\ Tell(n, "get_state", life[n])
  /\ UNCHANGED <<startup, at, asking, late, life, busy, refused>>

\* on_configure and on_activate; a transition that the state does not allow is refused.
From(k) == IF k = "configure" THEN "unconfigured" ELSE "inactive"
To(k)   == IF k = "configure" THEN "inactive" ELSE "active"
BeginTransition(n, k) ==
  /\ Spins(n) /\ k \in inbox[n]
  /\ inbox' = [inbox EXCEPT ![n] = @ \ {k}]
  /\ IF life[n] = From(k) THEN busy' = [busy EXCEPT ![Thread(n)] = <<n, k>>] /\ UNCHANGED <<reply, refused>>
     ELSE Tell(n, k, "no") /\ refused' = TRUE /\ UNCHANGED busy
  /\ UNCHANGED <<startup, at, asking, late, life>>

EndTransition(n, k, success) ==
  /\ life[n] # "dead" /\ busy[Thread(n)] = <<n, k>>
  /\ busy' = [busy EXCEPT ![Thread(n)] = Idle]
  /\ life' = IF success THEN [life EXCEPT ![n] = To(k)] ELSE life
  /\ Tell(n, k, IF success THEN "yes" ELSE "no")
  /\ refused' = (refused \/ ~success)
  /\ UNCHANGED <<startup, at, asking, late, inbox>>

\* A node in a process of its own dies.
Crash(n) ==
  /\ Alone(n) /\ crashes < MaxCrashes /\ life[n] # "dead"
  /\ crashes' = crashes + 1
  /\ life' = [life EXCEPT ![n] = "dead"]
  /\ inbox' = [inbox EXCEPT ![n] = {}]
  /\ busy' = [busy EXCEPT ![n] = Idle]
  /\ UNCHANGED <<managerVars, refused>>

-----------------------------------------------------------------------------

LifeTypeOK ==
  /\ startup \in {"configure", "poll", "activate", "check", "started", "failed"}
  /\ at \in 1 .. Cardinality(Managed) /\ late \in BOOLEAN
  /\ asking \in {"none", "configure", "activate", "get_state"}
  /\ reply \in {"none", "yes", "no", "unconfigured", "inactive", "active"}
  /\ \A n \in Managed : inbox[n] \subseteq {"configure", "activate", "get_state"}
  /\ life \in [Managed -> {"unconfigured", "inactive", "active", "dead"}]
  /\ DOMAIN busy = Threads /\ refused \in BOOLEAN

\* A node is activated when all nodes have been configured and those before it in the
\* order are active: perception finds a belief to report to, and the executor experts
\* to ask, whatever has crashed, been late or been interrupted.
Before(n) == {ToActivate[i] : i \in {i \in DOMAIN ToActivate :
                                  \E j \in i + 1 .. Len(ToActivate) : ToActivate[j] = n}}
ActivatedInOrder ==
  \A n \in Managed : life[n] = "active" =>
    /\ \A m \in Managed : life[m] # "unconfigured"
    /\ \A m \in Before(n) : life[m] \in {"active", "dead"}

\* Startup fails only for a reason: a transition has been refused or has kept a thread
\* for too long, a node has died, or the user has interrupted it.  That somebody asks for
\* a plan meanwhile is none.
FailsForAReason == startup = "failed" => refused \/ crashes > 0 \/ ~ok
=============================================================================
