# ePlanSys in TLA+

This directory specifies parts of ePlanSys, the fork of PlanSys2 that adds
epistemic planning, in TLA+. TLC checks the specifications on small instances,
and TLAPS proves some of what they promise for every instance. Every definition
is translated from the C++ sources of the repository; `PROJECT.json` names, for
each, the lines it stands for.

## The system

A *domain expert* and a *problem expert* hold the planning domain and the state
of the world. A *planner* node hands them to solver plug-ins and returns a plan.
An *executor* node turns a plan into a behavior tree and ticks it at 50 Hz; an
action of the plan is done by a *performer*, a lifecycle node found by
negotiation over a topic. The epistemic packages add a planner whose plans are
policies (trees that branch on what is observed), an *epistemic state* node that
keeps a Kripke model of what the agents believe and advances it as actions are
done, a *perception* node that reports observations by itself, and behavior-tree
nodes that tie a policy to them. A *lifecycle manager* starts everything.

| component | state it keeps | operations | interacts through | what is hard |
|---|---|---|---|---|
| `ActionExecutor` | state, performer, completion, timer, publisher open or not | tick, cancel, hub callbacks, 1 s timer | `actions_hub` topic; called by the tree and by the mission | two threads without a lock; late messages; retries |
| `ActionExecutorClient` (performer) | lifecycle state, `committed_`, arguments | hub callbacks, feedback, finish | `actions_hub` topic | broadcast requests, several askers; failed activation; crash |
| `ExecutorNode` | current, new and cancelled goal handle, flags, action map, replan guard | accept, cancel, the switch of `execution_cycle` | the `execute_plan` action; owns the executors | flags set by one thread and reset by the other; preemption; exceptions |
| trees of plans | the graph of a plan; per action, its leaf, effects applied or not | build, check, wait, execute, apply | services of the problem expert; executors | check-then-act; blocks that wait for one another; replans |
| `EpistemicStateNode` | model, outcomes applied, goal, version, last message published | load, apply, announce, set goal, query | services and a latched topic | repairs that fail half-way; reports out of order; stale outcomes |
| epistemic tree nodes | applied or not, baseline version, open branch | update, switch, check | service calls with timeouts | an answer that comes too late; baselines taken late |
| `EpistemicPerceptionNode` | what has been reported, retries | report, tell | map topics; services of the state node | repeats; a model not ready for the observation |
| `ProblemExpert` | instances, predicates, functions, goal | add, remove, update | services; update notifications, by which clients keep a check | removals that must cascade; constants shadowed by instances; a kept check that is stale |
| `PlannerNode` | queue, planning thread, solver plug-ins and their processes | plan, cancel, time out, end | service; solver processes | a cancellation lost; a solver entered twice; the end during a search |
| `LifecycleManager` | where it is among the managed nodes | configure and activate in order | lifecycle services | a node failing, slow or dead among several; one thread for all |
| `DomainExpert`, parsers, grounder, mappings | read once | queries, translations | files, services | none that is a protocol |

What makes the core correct: a piece of work is done by one performer at a time
and reported to the executor it was done for; nobody waits for nobody; every
goal of a client ends with the result of its own mission; effects are those of work
done, and the blocks of a tree neither spoil nor block one another; the store speaks
of nothing that has been removed, and a check that a client keeps is true; no two
searches meet in a solver, every request is answered and startup ends; a belief stays
satisfiable, keeps the truth possible and is what subscribers see.

## The modules

### ActionHub: the negotiation over `actions_hub`

State: one field per field of `ActionExecutor` and `ActionExecutorClient`, a FIFO
queue for each publisher and subscriber, and the part of the mission that
creates, keeps, cancels and drops executors. An executor is identified with its
grounded action and the plan it is made for, so that a mission after another, or
a replan, brings *other* executors of the same action into play while messages
for the old ones are under way.

One action per branch of the two `action_hub_callback`s, per case of
`ActionExecutor::tick`, per timer and per operation of a performer. The executor
process has two threads that share an executor without a lock, so a tick or a
cancellation that decides on a state it has read is two steps (`DecideRetry` and
`Retry`, `DecideGiveUp` and `GiveUp`, `CancelIfRunning` and `Cancel`) and a
callback may run in between (`TickRaces`). Where the code resets a publisher
(`on_deactivate` after a FINISH) the model does (`hubOpen`), and what is
published then is lost, as in the code.

A performer may fail to activate, crash (losing what it had not read and perhaps
what it had not delivered) and be configured again. Whether a performer that
works can stay silent for the five seconds after which the code looks for another
one is the constant `SlowPerformers`; the runs assume it does not, because the
code's retry does not recall the first performer and two would work.

Failed activations and crashes are counted up to a bound, and with `Endless` they may go
on beyond it (`MayRecur`, `Counted`), uncounted but only when little else is under way.
This is what makes a negotiation go round for ever: each return to DEALING restarts
`state_time_`, so the 30 s after which a tick gives up never pass.

`Assignment` is what the negotiation promises without messages: an executor hires
a performer if it has none, the performer leaves, and success is reported only of
what was done. `ActionHub` is shown to implement it (`ImplementsAssignment`).
`MCActionHub` gives the instances.

### ExecutorNode: the missions

State: the fields of `ExecutorNode` that decide about missions, and the status of
every goal as `rclcpp_action` keeps it. The switch of `execution_cycle` is one
action per case. The spin thread's `handle_accepted` and `handle_cancel` interleave
with them; taking a new goal in the idle state is two steps, because the flag is
lowered before the handle is read. A cancellation is three: `HandleCancel` looks at the
state of the node, `RequestCancel` writes the handle and the flag, and `AcceptCancel` is
`rclcpp_action`, which moves the goal to CANCELING once the callback has returned. The
execution thread may come between any two of them, and if it acts on the flag before the
goal has been moved, `canceled()` throws (`CanceledEarly`). A transition that the goal's status does not
allow throws, and nothing catches it, so the process ends (`terminated`). A tick
that throws leaves its status uninitialized, which is read all the same: the
outcome is any of the three.

### SimpleBTBuilder and PlanTree: from a plan to its execution

`SimpleBTBuilder` has no variables. `get_tree` is the pure algorithm that makes a tree
of a plan: `get_roots`, then for each further action an arc from what establishes its
requirements (`Satisfied`) and from what it would disturb (`Separated`), the pruning,
and the rendering: an action is nested in the block from which it is reached first,
and its other arcs become `WaitAction`. A tree is kept as the order in which a tick
comes by the actions, the block each is nested in, and the actions each waits for.

`PlanTree` ticks these trees. State: the plan and its tree, the facts of the problem
expert, and for each action the leaf its block has come to, the state of its executor
and the two flags of its effects. A leaf is one step, because each is a service call of
its own: `WaitAction`, `WaitAtStartReq`, `ApplyAtStartEffect`, `CheckOverAllReq`,
`ExecuteAction`, `CheckAtEndReq`, `ApplyAtEndEffect`, in the order of the shipped
template, of which the `ReactiveSequence` comes back to `CheckOverAllReq` in every tick.
Between any two of them performers confirm, finish and fail, and other clients change
facts. The performers are what `Assignment` and `ActionHub` promise of them. A replan
(`Replan`) keeps what runs and is at time 0 of the new plan, with its flags, as
`replan_for_execution` does.

The planner is any that returns valid plans, `Valid`: one action at a time, the
requirements at start hold before the effects at start, those over all and at end after
them. The builder may refuse such a plan, since it looks at all requirements before the
start (`is_action_executable`).

### ProblemExpert: the store and its clients

State: the store, whether the node is configured and active, the notifications that a
client has not read, and that client's cached check, as `CheckOverAllReq` keeps it.
The node serves one call at a time, so a call is one action (`AddInstance`, ...,
`AddProblem`), by the client itself or by somebody else; what each changes in the store
is a function of the store (`addInstance`, `removeInstance`, `addProblem`), which is also
what the proofs are about. A predicate, a function or a goal is known by the objects it
names and the parameters these stand for, since nothing else decides whether it is valid.
The history variable `quiet` notes a change that sends no notification (while the node is
not active, at its configuration, and when the removal of an instance fails but has
removed what names it), and `KeptCheckHolds` leaves these cases out. It also supposes
that the branch is still there to be trusted: BehaviorTree.CPP resets the siblings of a
`ReactiveSequence`'s running child, so whether a cached result survives a tick depends
on the library.

### PlannerNode, LifecycleManager and Bringup

`PlannerNode` is the queue of the planner, its planning thread (`Take`,
`CancelTheRest`, `Answer`) and, for each solver, the thread that starts a process and the
monitor that kills it. A kill (`KillCancelled`, `KillLate`) does not end the search: the
pipe is read to its end (`ReadToTheEnd`), which comes when nobody is left to write into it.
The commands of some solvers start another process, as `ros2 run popf popf` does; of these
(`Wrapped`) the kill reaches the first process only, and the search ends when the other
does (`EndSearch`), if ever. Time is what may happen when it has passed. `LifecycleManager`
is `startup_function` with `change_state` and `get_state`, and the nodes it starts, each a
thread that is in a callback or not; in `plansys2_node` they share one thread, under
the launch file each has a process, which may die. `Bringup` composes the two: services
exist once the planner is configured, a search does not keep the thread that must answer
the manager, the domain expert asks the planner to validate the domain from its own
configuration (`validation`), and the planner may be destroyed while it searches.

### EpistemicState: the belief and the world it is about

State: the node's model, the outcomes it has recorded, the goal, the version and
the last message of the latched topic; and a world that acts, with the reports of
two clients (the executor, whose `ApplyEpistemicUpdate` waits until it times out,
and perception) that wait to be served. `apply_action` is split by how it ends:
`RefuseAction`, `AnswerAgain`, `UpdateModel`, `FailAfterRepair`. An update starts from the
model, or from a repair of it if the action is not applicable or what was observed is held
impossible (`Surprising`, `Repairs`, `Starts`). A repair changes the model in place, so when
the update then has no outcome, not the one observed, or several and none was observed, the
repaired model stays and nothing is published; the history variable `unsent` says so until
something is.

The library that computes product updates is not in the repository. Its models
are abstracted to sets of worlds, each a state of affairs with what every agent
has observed; these definitions are marked external. Accessibility is what an agent has
observed, so the repair of seriality that the node asks of the library
(`Seriality::Repair`) appears only as what it may do to an update: with
`RepairsSeriality` any of its outcomes may be left with no world (`Results`), and be refused.
`MCEpistemicState` gives the corridor of `corridor.epddl`.

### Proofs

`ActionHub_proofs`, `ExecutorNode_proofs`, `PlanTree_proofs`, `ProblemExpert_proofs`,
`EpistemicState_proofs` and `Bringup_proofs` hold the theorems about the modules of those
names. `ActionHubWork_proofs` continues the first with what is about commitments and work,
and with the refinement of `Assignment`. `SimpleBTBuilder_proofs` holds the lemmas about
the builder's recursive functions, graphs and trees that `PlanTree_proofs` rests on. See
below.

## The runs

Each passing run explores its state space to the end. The configurations disable
the deadlock check because all these systems may really stop: a mission or startup
ends, and the bounds end the rest.

| run | instance | what it shows |
|---|---|---|
| `hub_core` | 2 executors of different actions in one plan, 2 performers able to do both, ticks overtaken by callbacks | a CONFIRM finds its performer ready; a RUNNING executor has somebody at work for it; work is exclusive; a commitment is answered unless the one to answer has closed its publisher; success is final |
| `hub_plans` | the same action in two plans, by a new mission or a replan, 2 performers | the negotiation implements `Assignment` across plans, with the first plan's messages still under way |
| `hub_crash` | 1 executor, 2 performers, crashes and failed activations, once or for ever, fairness | work stays exclusive, done means done, and every negotiation is settled, unless performers crash or fail to start for ever, or the performer crashed after it had completed something |
| `hub_unanswered` | as above, without crashes | *violated*: a performer stays committed for ever |
| `mission_core` | 4 goals, limit of 1 replan without progress, ticks that throw, fairness | no exception of `rclcpp_action` unless requests crossed or a cancellation was acted on early; what is ticked or ended has an active goal; success is that of the goal's own tree; a loop of replans is given up one replan after the limit; every goal ends |
| `mission_cancel` | 2 goals | *violated*: a cancellation ends another mission than the one it was for |
| `plan_tree` | the valid plans of 1 to 3 of 5 actions over 4 facts, from any state that arises, 2 missions or replans, 1 change by others, 1 failure, fairness | effects at end follow work that succeeded; of an undisturbed tree, what an action needs at its end still holds when its effects are applied, and no requirement fails where the blocks of actions that spoil one another are nested; an action is rendered once; blocks do not wait for one another for ever |
| `tree_overtakes` | the same | *violated*: where an arc is only a `WaitAction`, a mission fails that nobody disturbs |
| `problem` | 2 objects of which one is a constant, a type with a subtype, 3 predicates of which one is derived, a function, several goals and problems | nothing stored dangles or becomes invalid (but for what names a shadowed constant); the goal names nothing removed; a kept check is true |
| `bringup` | planner, domain expert and epistemic state node, in one thread or in processes of which 1 may die, 2 solvers, 2 requests, an interruption, validation by either way, fairness | no two searches in a solver; activation in order; startup fails only for a reason, and ends; every request is answered, unless a killed wrapper has left its solver with the pipe |
| `belief_core` | corridor with 4 states of affairs; 3 actions or changes of the world, of which 1 is a change that no action made; 1 announcement, 1 timeout, 4 tasks of which one is wrong and one is none, updates that may be left without a world | the model never holds nothing possible, never loses the truth without a lie, a guess or a change, finds it again by a repair if it has a world for it, is what is published but for a repair whose update failed, and a sensing reported twice is applied once |
| `belief_observation` | the corridor | *violated*: an observation is answered with another outcome |

### Bounds, and why they are enough

* Two executors and two performers are the smallest hub in which executors
  compete for a performer and performers for an executor; the tokens that the
  properties are about concern pairs, and `ConfirmFindsPerformerReady` and the
  types are proved for any number.
* `Backlog = 1`: a *timed* message (a repeated REQUEST, feedback, a retry) waits
  until the queues it goes to are empty. Untimed messages are not bounded. A
  longer backlog only repeats REQUESTs, which a performer ignores or takes as the
  first.
* `MaxPlans = 1` gives the second plan that old messages need. `MaxUnstarted = 1`
  and `MaxCrashes = 1` let each fault meet every state of a negotiation, and in
  `hub_crash` `Endless` lets it come back without end, when the queues are short.
* `MaxReplans = 1` with four goals is the shortest mission with two fruitless
  replans and one more, so that the limit, the free first replan and the end are
  all reached. `MaxActions = 1` lets an action end between any two replans.
* Plans of three actions are the shortest with an arc that is not nested; the five
  actions have effects at start and at end, requirements at each of the three times,
  and pairs that spoil one another in one direction and in both. The second mission is
  a new goal or a replan at any point of the first.
* `MaxNotices = 1`: a client reads a notification before the next call is made. The
  client's history only depends on whether there are any; `KeptCheckHolds` is proved
  for every bound.
* Two requests and two solvers are what it takes for a search that is given up to meet
  the next; three nodes have different places in the two orders, and one has its own
  process in every case.
* With `RepairsSeriality` every way in which an update may fail after a repair occurs in
  the corridor, but for one: two outcomes and nothing observed, which needs events that
  overlap. The two properties concerned are proved for these too.
* Three things that happen in the world allow a sensing, a departure and a return, a
  sensing told three ways, or a change between two actions; one announcement and one
  timeout interleave with each.
* `hub_core` and `hub_plans` use symmetry of performers (and of actions together
  with their executors); the properties name none of them. Runs with fairness use
  none.

### Fairness

`ActionHub`: topics are reliable (QoS reliable, depth 100) and nodes spin, so a
message at the head of a queue is handled; the tree is ticked at 50 Hz, so what a tick has
decided is written; a performer finishes the work it has taken. The 30 s and the 5 s are
counted from when the state was last entered, so they pass only for an executor that stays
in it: fairness of `DecideGiveUp` and `DecideRetry` is weak. Nothing is assumed of crashes,
of failing activations, or of missions ending. `EveryDealIsSettled` therefore leaves out
the executions in which one of these two faults occurs for ever.

`ExecutorNode`: both threads go on, and a tree does not return RUNNING for ever.
The last is an assumption about the trees, which is what their timeouts are for,
and not something the node enforces.

`PlanTree`: the execution cycle goes on ticking, and performers answer and finish. A
requirement at start that nobody establishes is waited for for ever (`Waiting`), in the
code too: `WaitAtStartReq` has no limit.

`Bringup`: callbacks return, the planning thread and the solvers' threads run, a
solver's time passes. Of each of the two groups `Startup` and `Planning` it is only
assumed that it goes on while one of its members can. That a search ends by itself is not
assumed, nor that the process that a killed wrapper leaves behind ends, nor that anybody
asks.

## What is proved

For every value of the constants (of which only the named assumptions of the modules
are used):

| module | theorem | property |
|---|---|---|
| `ActionHub_proofs` | `TypeCorrect`, `TokensInvariant`, `ConfirmFindsItsPerformer` | `TypeOK`, the token invariant, `ConfirmFindsPerformerReady` |
| `ActionHubWork_proofs` | `CommitmentHasAReason`, `SuccessIsNotUndone`, `SuccessEndsTheWork`, `WorkIsExclusive`, `NobodyWaitsForNobody`, `NegotiationIsAssignment` | `CommitmentIsAnswered`, `SuccessIsFinal`, `DoneMeansDone`, `ExclusiveWork`, `RunningIsServed`, `ImplementsAssignment` |
| `ExecutorNode_proofs` | `TypeCorrect`, `MissionsHaveGoals`, `NoExceptionUnlessCrossed`, `SuccessIsOwn`, `LoopsAreGivenUp` | all five invariants of `mission_core` |
| `PlanTree_proofs` | `TypeCorrect`, `EffectsAreOfWorkDone`, `NothingComesBetween`, `NoActionTwice`, `NestingSuffices`, `NoCircularWait`, `NestedFollowsEffects`, `TreeSupplies`, `EffectsComeInTime` | `TypeOK`, `EffectsFollowWork`, `EndEffectsAreChecked`, `RenderedOnce`, `NestingIsEnough`; the last four theorems state what no run checks |
| `ProblemExpert_proofs` | `TypeCorrect`, `NothingDangles`, `ValidStaysValid`, `GoalStaysGrounded`, `TrustIsJustified` | all five invariants of `problem` |
| `EpistemicState_proofs` | `TypeCorrect`, `BeliefIsNeverEmpty`, `SubscribersSeeTheModel`, `SensorsKnow`, `TruthIsKept`, `RepairsFindTheTruth` | all six properties of `belief_core` |
| `Bringup_proofs` | `TypeCorrect`, `OneCallAtATime`, `StartupFailsForAReason`, `NodesAreActivatedInOrder` | all four invariants of `bringup` |

*ActionHub.* `ConfirmFindsItsPerformer` assumes that the executors of each plan are
made for different actions (`DistinctActions`). `ConfirmFindsPerformerReady` is not
inductive: nothing in it says why there is no
second CONFIRM behind the first. The inductive invariant `IInv` counts *tokens*.
A RESPONSE, a CONFIRM or a REJECT between a performer and any of the executors is a
token of the performer. `TokenInv` says that a performer has one at most over all
its queues in both directions, that it is inactive and committed as long as it
has one, and that an active performer is not committed. A performer makes a token
only when it has none (`RequestKeeps`), an executor turns a RESPONSE into one
answer at most (`ResponseKeeps`), and a performer that takes the answer has none
left and ends its commitment (`ConfirmKeeps`, `RejectKeeps`). All other steps are
*quiet*: they add no token and keep the promise. `DistinctAlive` is needed because
a RESPONSE names an action and not an executor, so two executors of the same
action would both answer it. A plan that holds the same grounded action twice at
the same time breaks the property, in the model as in the code; `DistinctActions`
excludes it. A crash also breaks it (the RESPONSE of the former life may still be
answered), hence `crashes = 0` in the property.

*ActionHub, work.* The invariants build on one another: `PromiseInv`, `FinalInv`, `HireInv`,
`ServeInv`, each with what the one before needs. `BasicInv` says what a state of an
executor or of a performer implies by itself (`Standing`, `Employed`): who runs has a
performer, who has succeeded has closed its publisher, an active performer works for an
executor of its action and is not committed. `PromiseInv`: for a committed performer there
is the RESPONSE or an answer to it under way, or an executor that it could have been
answered by is *lost*, its publisher closed or itself no more, which stays so. `FinalInv`:
as long as nobody has crashed, a RESPONSE is the last that a performer has sent
(`ResponsesLast`), and the performer of an executor has one CONFIRM or one end of the work
under way at most, and works for nobody else of that action (`AllWork`); an offer thus comes
from a performer that has nothing left of earlier work (`OfferIsClean`).
`HireInv` is about whose work
it is: who works for an executor, or is to, is the performer that the executor keeps
(`OwnPerformer`), and a retry is decided only once that one has nothing to do with it
(`RetryIsFree`), until both a performer has crashed and there is a second plan. After a
crash a FINISH of the former life may still be under way; within one plan its executor is
the one that awaits it (`EndsAwaited`), but in a second plan it reaches an executor that
has meanwhile hired somebody. `WorkIsExclusive` excludes that combination, in which
`ExclusiveWork` fails. `ServeInv`: while
the first mission goes on and nobody has crashed, no CANCEL is under way or pending, and an
executor that is RUNNING has its performer at work, or to be, or the end of the work on its
way. `DistinctActions` is needed as above, and
`~SlowPerformers` because the retry after silence does not recall the silent performer.

*Assignment.* `NegotiationIsAssignment` takes `HireInv` and two more facts: an action is
done before anything says so (`DoneBefore`), and, without `TickRaces`, no decision is about
an executor that has succeeded (`DecidedInTime`). Each step of the negotiation is then a
step of `Assignment` or leaves its variables alone; a step of a CONFIRM hires, a FINISH lets
go, a FINISH that is taken reports. With `TickRaces` a retry decided before a FINISH takes
success back (`SuccessIsFinal` allows that), and a crash loses who was hired.

*ExecutorNode.* The invariants are about what a transition of a goal's status needs, and
the status alone does not say it. `HandlesOK` relates the state of the node to its
handles (a state in which a mission runs has a current goal, no handle names a goal that
has not come), `GuardInv` says that
the count of fruitless plans is at most one ahead of the replans, which are bounded while
the mission is EXECUTING, `SuccessInv`
says that the node is about to report success only of a tree that has succeeded, and
`StatusInv` which status the current, the new and the cancelled goal have as long as
nothing has crossed, also while a cancellation is under way between the two threads. Each is kept by each action, given the types and the handles.

*ProblemExpert.* The store in order (`StoreOK`) is `Typed`, `Valid` (what is stored fits
the objects it names, or these are constants behind an instance) and `Grounded` (the goal
names what is there). Each operation on the store is proved to keep it on its own
(`AddInstanceOK`, `RemoveInstanceOK`, `AddProblemOK`), and the actions follow. `Valid` is
what makes removal complete: `StoredIsGrounded` alone would not tell that a removed
instance was not the only thing a parameter fitted. `KeptInv` strengthens
`KeptCheckHolds` with the answer under way.

*PlanTree.* `LateInv`: a block has come to its last two leaves, or has its flag set, only
if its executor has succeeded; a cancellation turns no success into something else, and a
replan keeps only executors that are running, which therefore have no flag set. `EndInv`:
the block that has come to its last two leaves is the one that has its turn, so only one
is there, and what has been checked in `CheckAtEndReq` cannot be undone by another leaf;
only `Change` can, which `EndEffectsAreChecked` leaves out.

*PlanTree, nesting.* `NestingIsEnough` is about every overlap of the blocks that run in
parallel, so its proof has to say what the facts are when any of them may have come to any
of its leaves. It takes four invariants of the first mission as long as nobody disturbs it.
`FirstInv`: the tree is that of `get_tree` for a plan that was valid in the state it was
made in. `SteadyInv`: an action goes through its leaves once, each of its effects is
applied once, and no work fails. `SoonInv` is about what a `WaitAction` is worth: the
action it waited for has finished its work, and if its effects are still to come, its block
is ticked before the one that has begun is ticked again. `EffectsComeInTime`, which needs
neither a valid plan nor nesting, follows. `CalmInv` is the frame: what an
action needs over all holds while it is executed (`HasNeeds`), what its start has added
holds until its end (`HasGiven`), what it leaves behind when it is done holds until a later
action of the plan that takes it has begun (`HasLeft`), and so with what held at first. A
leaf of one action can only disturb these for another if it spoils it, and then one of the
two is nested in the other (`Apart`, `NobodyElse`). What a check looks for follows from
where it comes from: the start, or an action that comes before, with nothing in between
that takes it away. That this source is before it in the *graph* is the builder's promise,
`TreeSupplies`, which is proved for every repertory, plan and state.

*SimpleBTBuilder.* The trees are those of `get_tree`, whatever the plan, if no action occurs
in it twice (`PlanAssumption`: the builder knows an action by its name and its time). So the
theorems about them need what its recursive functions return for every input. The library's
induction theorems cannot be used, since they take an operator, and `Climb` takes their
place: a set with 0 and with the successor of each of its numbers up to *n* has all numbers
up to *n*, because otherwise a function from `0 .. m` to `0 .. m - 1` would be injective,
against the pigeonhole principle of `FiniteSetTheorems`. `Recursion` turns that into the
existence of what a recursive function is defined to be, and each operator on sequences
(`OnlyTyped`, `FirstOfTyped`, `JoinedTyped`) is proved from the two. `BelowTyped`, the walk
over the graph, goes from the last node to the first, because arcs lead to later positions
(`In`, `Out`). `ConnectTyped` shows that `prune_backwards` and each new arc keep them so,
`ExtendBuilt` that the next action does, and `BuildBuilt` that the graph of *k* actions has
*k* nodes or has failed before. What such a graph is, `Built`, says more than its types: the
state kept with a node is that after the nodes above it, in the order of the plan, and each
requirement of the node holds in that state or is met by the last source above it. Both
survive the arcs that are added later, since these lead to later nodes. `TreeTrusted` and
`WaitsAreUp` carry it over to the tree, whose arcs are those of the graph, nested or not,
and `TreeSupplies` states it in terms of the plan. Then `Fits`, the invariant of the missions, holds of the
tree (`TreeFits`): an action is rendered once, waits for earlier actions of the plan only
and is nested in blocks that the tick comes by earlier. `BegunInv` says what an action that
has begun can rely on, and shows what the arc of a `WaitAction` is worth: the work has
ended, but the effects need not be there, which is what `tree_overtakes` makes use of.

*EpistemicState.* An update is a product with an event that could happen in a designated
world, so the result designates some world (`ProductProper`); a repair designates
worlds of the model, and some (`RedesignatedProper`). `PublishedIsCurrent` is inductive, `unsent` being part of it. An update starts from the
model or from a repair of it, either of which is in order (`StartsWithin`,
`RepairedStarts`), so a failure after a repair leaves it so.
These, the types and `RepairsFindTheTruth` hold of every task: a repair designates every
world in which the event could happen, so also that of the truth, whose event it is
(`RepairRevealsFact`), as a report is of something that was done (`Honest`).

The other two hold of the tasks of the kind that the repository has, and say of which.
`SensorsKnow` asks that no ontic action changes what is sensed (`SensedStays`; in the
corridor robots drive, and nothing is blocked or cleared) and that a sensing comes out in
one way (`OneEventEach`). Then what an agent has observed is so in every world that
remembers it (`Remembered`, `KnowInv`). `TruthIsKept` asks for `SensedStays`, that who has
moved knows where it is, in that one ontic action is known to be possible or known not to
be after another (`MovesAreKnown`), that every agent senses by one action
(`OneSensingEach`), that no update is left with no world (`~RepairsSeriality`: what is
refused, the model does not follow; `belief_core` finds the property kept in the corridor
all the same), and that one task is loaded at most. Its invariant `TrackInv` says that
the executor's reports that wait lead from what was told last to what is the case
(`ChainInv`), that what is under way agrees about everything that is sensed (`AgreeInv`),
that all worlds have just been moved or none (`MovedInv`) and that only the sensor of an
action that was applied has seen anything (`UnseenInv`). A move is then applied wherever
the truth was possible (`MoveIsApplied`), a sensing keeps it (`SensingKeepsTruth`), and
perception, which asks for no repair, only removes worlds that are not the truth's
(`PerceptionAddsNothing`). The hypotheses are not for convenience: without them an ontic
action that is done again where it is not known to be possible is answered with its recorded
outcome and not applied, a report from before a load is applied to the new task, a late
report of perception is about what has changed since, and a sensor that knows already by
another action makes the sensing inapplicable. The corridor of `belief_core` meets them all but
`~RepairsSeriality`.

*Bringup.* `CallsInv`: a call of a solver that is not over belongs to the request that the
planning thread is at, and when the solvers are destroyed it is at none. `ReasonInv`: what
makes the manager give up has been noted, and reasons do not go away. `OrderInv`: what the
manager has been told is still so of the nodes before the one it is at (`ToldInv`), a node
that is asked to activate, is activating or is active could be (`ReadyInv`), and a
transition that takes its time is one its node's state allows (`TransitionInv`).
`NodesCanBeOrdered` shows that `ordered_nodes` has a value for every finite set of nodes,
which counts each of them once, so that nothing is left out of the lists.

Only model-checked: liveness (`EveryDealIsSettled`, `EveryGoalEnds`, `MissionsEnd`,
`StartupEnds`, `EveryRequestIsAnswered`), which is beyond this prover. Each invariant and
each action property of a passing run, and the refinement of `Assignment`, is a theorem.
The properties of the *violation* runs are not, of course.

## What the checks found

Five statements of the repository are not what the code does; each has an entry under
"findings" in `PROJECT.json`, and the first four a run that TLC ends with a counterexample.

1. *A REJECT that is never sent* (`hub_unanswered`). Two performers volunteer; one
   is confirmed, works and finishes before the other's RESPONSE is handled. The
   FINISH deactivated the executor's publisher, so the REJECT is dropped, and the
   second performer, still committed, never volunteers again.
2. *The wrong mission is cancelled* (`mission_cancel`): the request for a
   cancellation outlives the mission it was for.
3. *The observation does not win* (`belief_observation`): after a repair without
   an observation, the observation is answered with the outcome that was guessed.
4. *An action overtakes the one it waits for* (`tree_overtakes`): `WaitAction` succeeds
   when the executor of the other action has finished, before the other's block has made
   its last checks, so effects at start may take away what these look for.
5. *One fruitless replan more than the limit* (`mission_core`): the entry (INIT) of the action
   map counts as an action that has completed, so the first replan of a mission counts as
   progress. `FruitlessReplansEnd` has the bound that the code keeps, and its mutant, with one
   replan more, shows that this bound is reached.

Other behaviour the properties had to make room for, and say so:

* A FINISH is taken in any state, so a cancelled executor comes to life again.
* A performer that fails to activate every time keeps the executor asking for ever, and the
  mission running, since each return to DEALING restarts the 30 s (`ActionExecutor.cpp:119`,
  250). `EveryDealIsSettled` leaves that out.
* A cancellation is acted on, by `canceled()`, before `rclcpp_action` has moved the goal to
  CANCELING (`ExecutorNode.cpp:857`, 931, 981); the exception ends the process
  (`CanceledEarly`).
* Progress between replans is measured by comparing the numbers of successes in two
  action maps, the old plan's and the new one's; if each plan completes one action before it
  is replaced, that is taken for no progress and the mission is given up.
* The monitor of a solver kills the process that it has started. For POPF that is `ros2 run`;
  the solver lives on and holds the pipe, which is read to its end, so neither the time-out
  nor a cancellation ends the request (`PlanSolverBase.cpp:96`, 112; `Orphaned`).
* A repair whose update fails leaves a changed model that is not published
  (`EpistemicStateNode.cpp:766`, 779, 834, 844), until something else is (`unsent`).
* An executor that is still looking for a performer is not told of the end of its mission
  (`cancel_all_running_actions` looks only at RUNNING ones); a CANCEL names a performer
  and not an action, so it stops whatever the performer does.
* A performer that crashes after it has reported progress leaves its executor RUNNING
  until something else ends the mission, because the retry after silence requires that
  nothing was completed.
* Goals that cross (`crossed`) can lead to an exception or to a replanning that waits for
  ever.
* `get_roots` stops at the first action it cannot add; an action behind it whose
  requirements hold and that nothing contradicts gets no arc, and so is in no block
  (`simple_bt_builder.cpp:244`; `Orders` asks for all actions). A plan that is valid in
  sequence may be refused ("requirement not met"), and an empty plan dereferences the
  first of no roots (`simple_bt_builder.cpp:492`).
* Of two actions of which one deletes what the other adds, the builder orders neither if no
  requirement is concerned, so what holds afterwards is what the one that ends last has
  left, and need not be what the plan meant. `Orders` therefore asks for nesting of those
  also of which one takes away what the other gives (`Spoils`).
* A replan drops what is dealing, with the effects at start it may have applied, and the
  same action of the new plan applies them again (`ExecutorNode.cpp:646`).
* The removal of an instance that is not there fails, but removes what names it (a
  constant), without a notification; what names a shadowed constant cannot be removed.
* `get_state` of the lifecycle client gets its future before it looks at the status of
  the wait (`lifecycle_manager.cpp:72`), so neither its timeout nor an interruption ends
  it; a node that dies before it is polled makes the manager poll for ever (`Hangs`).
* With `validate_using_planner_node` and one thread the domain expert can never take the
  answer it waits for, so its configuration fails.
* A cancellation that comes before a solver has started its process is lost, and the
  request takes as long as the solver's own limit; what comes while the thread drains is
  discarded. Client and node have the same limit by default, so a plan found in time may
  not be delivered.
* `validate_domain` runs on the node's thread and may enter a solver during a search.

## Not modelled

* *STN builder* (`stn_bt_builder.cpp`): the code that selects a builder has it "disabled
  until fixed". *Sequential builder*: its trees are those of plans with nothing parallel.
  The template that undoes effects, `CheckTimeout` and `CheckAction` are in no default
  configuration.
* *Policies*: `EpistemicSwitch`, `CheckBeliefUnchanged`, `CheckEpistemicGoal`, the
  conversion of policies to trees, their schedules and their parallelization. They would
  need the plan language of the external epistemic planner as data.
* *Perception's retries*, regions and emissions: `EpistemicState` has one report per
  sensing, at any time, which covers their order but not their repetition.
* *Clients* (`ExecutorClient`, `ProblemExpertClient`, `DomainExpertClient`, ...): each
  call is a request and its answer; what waits for the answer is part of the component
  that calls.
* *Queries* that change nothing, conditionals and quantified effects, numeric
  expressions, the isGoalSatisfied evaluation: data that no property here tells apart.
* *The PDDL and EPDDL parsers, the grounder, the mappings, solvers*: text to trees and
  back, external processes and a library that is not in the repository, whose correctness is a
  matter of input and output. What `EpistemicPlanSolver` keeps between calls, the goal and the
  model last published by the epistemic state node, is what `published` stands for; what it
  does with them is left out with the solvers.
* *An exception of `getPlan`* (a line of the solver's output that cannot be read), which the
  future rethrows on the planning thread (`PlannerNode.cpp:296`) and which ends the process:
  only that the planner's process may end is modelled. *Pipes inherited* by the children of
  other solvers, which were forked between `pipe()` and `close()`, are not.
* *Terminal, tools, Python support, loggers and demos*: user interfaces.

More than half of the implementation is text processing, clients and interfaces of this
kind, so the share of lines the modules stand for is small by design; they cover the
parts in which steps of several actors interleave.

## Running

    tlc -workers 2 -config hub_core.cfg MCActionHub.tla
    tlapm ActionHub_proofs.tla

The module and configuration of every run are in `PROJECT.json`. The longest runs are
`bringup`, `plan_tree` and `belief_core`, at one to three minutes.
