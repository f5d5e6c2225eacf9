------------------------------ MODULE PlanTree ------------------------------
(***************************************************************************)
(* A mission as the executor node runs it: the tree that the builder makes   *)
(* of a plan, ticked leaf by leaf against the problem expert, while the      *)
(* performers of the actions and other clients of the problem expert go on.  *)
(*                                                                          *)
(* The negotiation with the performers is that of ActionHub, of which only   *)
(* the states of the executors are left; the problem expert is the set of    *)
(* facts that hold.  A leaf is one step.                                     *)
(***************************************************************************)
EXTENDS SimpleBTBuilder

CONSTANTS
  InitialFacts,   \* what holds when the first plan is made
  Plans,          \* plans that are valid somewhere
  MaxMissions,    \* bound on goals: missions and replans
  MaxChanges,     \* bound on the changes that others make to the facts
  MaxFailures     \* bound on actions that fail and performers that fall silent

ASSUME PlanAssumption ==
  /\ InitialFacts \subseteq Facts
  /\ \A p \in Plans : p \in Seq(Actions) /\ p # <<>> /\ IsInjective(p)
  /\ {MaxMissions, MaxChanges, MaxFailures} \subseteq Nat

VARIABLES
  mission,     \* "idle", "executing", "succeeded", "failed"
  plan,        \* complete_plan
  tree,        \* current_tree
  facts,       \* what holds, according to the problem expert
  stage,       \* of an action: the leaf its block has come to
  executor,    \* of an action: the state of its executor
  startDone,   \* at_start_effects_applied
  endDone,     \* at_end_effects_applied
  turn,        \* position of the action that is ticked; 0 between ticks
  missions, changes, failures   \* counters for the bounds

counters == <<missions, changes, failures>>
goal     == <<mission, plan, tree, missions>>
vars     == <<mission, plan, tree, facts, stage, executor, startDone, endDone, turn, counters>>

-----------------------------------------------------------------------------
(* The order of the leaves.                                                *)

\* Mutant of Open: an action need not wait for the one it is under.
OpenAtOnce(a, stg) == stg[a] # "done"

\* The block of an action is ticked once the block it is under has succeeded.
Open(a, stg) == stg[a] # "done" /\ \A b \in tree.under[a] : stg[b] = "done"

\* Mutant of NextTurn: no end of the tick.
TurnAfter(i, stg) == i + 1

\* The next action that this tick comes to after position i; 0 if there is none.
NextTurn(i, stg) ==
  LET later == {k \in i + 1 .. Len(tree.order) : Open(tree.order[k], stg)}
  IN IF later = {} THEN 0 ELSE CHOOSE k \in later : \A l \in later : k <= l

\* a is the action whose block is being ticked, and has come to the leaf.
At(a, leaf) ==
  /\ mission = "executing" /\ turn > 0
  /\ a = tree.order[turn] /\ stage[a] = leaf

\* The leaf has succeeded, and the next one is ticked.
Proceed(a, leaf) ==
  /\ stage' = [stage EXCEPT ![a] = leaf]
  /\ UNCHANGED <<turn, goal>>

\* The block is running, and is ticked again, from the given leaf on, next time.
Pause(a, leaf) ==
  /\ stage' = [stage EXCEPT ![a] = leaf]
  /\ turn' = NextTurn(turn, stage')
  /\ UNCHANGED goal

\* The block has succeeded, and with the last one the tree.
Complete(a) ==
  /\ stage' = [stage EXCEPT ![a] = "done"]
  /\ turn' = NextTurn(turn, stage')
  /\ mission' = IF \A b \in Elements(tree.order) : stage'[b] = "done" THEN "succeeded" ELSE mission
  /\ UNCHANGED <<plan, tree, missions>>

Cancelled(ex) == [a \in Actions |-> IF ex[a] = "running" THEN "cancelled" ELSE ex[a]]

\* Mutant of Fail: the tree is ticked on, as if the block were running.
FailLater(a, ex) ==
  /\ turn' = 0
  /\ executor' = Cancelled(ex)
  /\ UNCHANGED <<mission, plan, tree, missions, stage>>

\* One failed block makes the whole tree fail, and what is running is cancelled.
Fail(a, ex) ==
  /\ mission' = "failed" /\ turn' = 0
  /\ executor' = Cancelled(ex)
  /\ UNCHANGED <<plan, tree, missions, stage>>

-----------------------------------------------------------------------------
(* The leaves of a block.                                                  *)

WaitAction(a) ==
  /\ At(a, "wait")
  /\ IF \A b \in tree.waits[a] : executor[b] \in {"success", "failure"}
     THEN Proceed(a, "start") ELSE Pause(a, "wait")
  /\ UNCHANGED <<facts, executor, startDone, endDone, changes, failures>>

\* Unmet requirements are waited for, for ever.
WaitAtStartReq(a) ==
  /\ At(a, "start")
  /\ IF \/ executor[a] = "running"
        \/ check(Act[a].atStartReq, facts) /\ check(Act[a].overAllReq, facts)
     THEN Proceed(a, "effect") ELSE Pause(a, "start")
  /\ UNCHANGED <<facts, executor, startDone, endDone, changes, failures>>

ApplyAtStartEffect(a) ==
  /\ At(a, "effect")
  /\ IF Act[a].durative /\ ~startDone[a]
     THEN facts' = Started(a, facts) /\ startDone' = [startDone EXCEPT ![a] = TRUE]
     ELSE UNCHANGED <<facts, startDone>>
  /\ Proceed(a, "overall")
  /\ UNCHANGED <<executor, endDone, changes, failures>>

\* Mutant of Broken: an action that has failed counts as done.
BrokenIsDone(a, ex) == Proceed(a, "endcheck") /\ executor' = ex /\ UNCHANGED <<facts, startDone>>

\* The work has failed, or what it needs; the effects at start remain.
Broken(a, ex) == Fail(a, ex) /\ UNCHANGED <<facts, startDone>>

CheckOverAllReq(a) ==
  /\ At(a, "overall")
  /\ IF check(Act[a].overAllReq, facts)
     THEN Proceed(a, "work") /\ UNCHANGED <<facts, executor, startDone>>
     ELSE Broken(a, executor)
  /\ UNCHANGED <<endDone, changes, failures>>

\* The executor is ticked: it asks for performers, or tells how far they are.
ExecuteAction(a) ==
  /\ At(a, "work")
  /\ \/ /\ executor[a] = "idle"
        /\ executor' = [executor EXCEPT ![a] = "dealing"]
        /\ Pause(a, "overall")
        /\ UNCHANGED <<facts, startDone, failures>>
     \/ /\ executor[a] \in {"dealing", "running"}
        /\ Pause(a, "overall")
        /\ UNCHANGED <<facts, executor, startDone, failures>>
     \/ /\ executor[a] = "success"
        /\ Proceed(a, "endcheck")
        /\ UNCHANGED <<facts, executor, startDone, failures>>
     \/ /\ executor[a] = "failure"
        /\ Broken(a, executor)
        /\ UNCHANGED failures
     \* nobody has answered for thirty seconds
     \/ /\ executor[a] = "dealing" /\ failures < MaxFailures
        /\ failures' = failures + 1
        /\ Broken(a, [executor EXCEPT ![a] = "failure"])
     \* the performer has been silent for five seconds
     \/ /\ executor[a] = "running" /\ failures < MaxFailures
        /\ failures' = failures + 1
        /\ executor' = [executor EXCEPT ![a] = "dealing"]
        /\ Pause(a, "overall")
        /\ UNCHANGED <<facts, startDone>>
  /\ UNCHANGED <<endDone, changes>>

\* Mutant of CheckAtEndReq: the effects are left for the next tick.
CheckAndPause(a) ==
  /\ At(a, "endcheck")
  /\ IF ~Act[a].durative \/ check(Act[a].atEndReq, facts)
     THEN Pause(a, "endeffect") /\ UNCHANGED executor
     ELSE Fail(a, executor)
  /\ UNCHANGED <<facts, startDone, endDone, changes, failures>>

CheckAtEndReq(a) ==
  /\ At(a, "endcheck")
  /\ IF ~Act[a].durative \/ check(Act[a].atEndReq, facts)
     THEN Proceed(a, "endeffect") /\ UNCHANGED executor
     ELSE Fail(a, executor)
  /\ UNCHANGED <<facts, startDone, endDone, changes, failures>>

ApplyAtEndEffect(a) ==
  /\ At(a, "endeffect")
  /\ facts' = IF endDone[a] THEN facts ELSE apply(Act[a].atEnd, facts)
  /\ endDone' = [endDone EXCEPT ![a] = TRUE]
  /\ Complete(a)
  /\ UNCHANGED <<executor, startDone, changes, failures>>

-----------------------------------------------------------------------------
(* The executor node, the performers and everybody else.                   *)

\* A plan that could be carried out one action at a time.
Valid(p, st) ==
  LET after[k \in 0 .. Len(p)] == IF k = 0 THEN st ELSE Done(p[k], after[k - 1])
  IN \A k \in DOMAIN p :
       /\ check(Act[p[k]].atStartReq, after[k - 1])
       /\ check(Act[p[k]].overAllReq \o Act[p[k]].atEndReq, Started(p[k], after[k - 1]))

\* What planner and builder come to, by what holds when they are asked.
Offers(st) == {[plan |-> p, tree |-> get_tree(p, st)] : p \in {q \in Plans : Valid(q, st)}}
AllOffers  == {<<st, Offers(st)>> : st \in SUBSET Facts}

StartTick ==
  /\ mission = "executing" /\ turn = 0
  /\ turn' = NextTurn(0, stage)
  /\ UNCHANGED <<goal, facts, stage, executor, startDone, endDone, changes, failures>>

\* init_plan_for_execution: nothing is kept but what the problem expert knows.
NewMission(p, t) ==
  /\ mission # "executing" /\ missions < MaxMissions
  /\ missions' = missions + 1
  /\ plan' = p /\ tree' = t /\ turn' = 0
  /\ mission' = IF t.failed THEN "failed" ELSE "executing"
  /\ stage'     = [a \in Actions |-> "wait"]
  /\ executor'  = [a \in Actions |-> "idle"]
  /\ startDone' = [a \in Actions |-> FALSE]
  /\ endDone'   = [a \in Actions |-> FALSE]
  /\ UNCHANGED <<facts, changes, failures>>

\* replan_for_execution: of the actions before, those are kept that are running and
\* that are at time 0 of the new plan, of which the first z are.
Kept(p, z) == {a \in Elements(SubSeq(p, 1, z)) : executor[a] = "running"}
Replan(p, t, z) ==
  /\ mission = "executing" /\ turn = 0 /\ missions < MaxMissions
  /\ missions' = missions + 1
  /\ plan' = p /\ tree' = t
  /\ mission' = IF t.failed THEN "failed" ELSE "executing"
  /\ stage'     = [a \in Actions |-> "wait"]
  /\ LET kept == [a \in Actions |-> IF a \in Kept(p, z) THEN executor[a] ELSE "idle"]
     IN executor' = IF t.failed THEN Cancelled(kept) ELSE kept
  /\ startDone' = [a \in Actions |-> a \in Kept(p, z) /\ startDone[a]]
  /\ endDone'   = [a \in Actions |-> a \in Kept(p, z) /\ endDone[a]]
  /\ UNCHANGED <<turn, facts, changes, failures>>

Confirm(a) ==
  /\ executor[a] = "dealing" /\ mission = "executing"
  /\ executor' = [executor EXCEPT ![a] = "running"]
  /\ UNCHANGED <<goal, facts, stage, startDone, endDone, turn, changes, failures>>

Finish(a) ==
  /\ executor[a] = "running"
  /\ \/ executor' = [executor EXCEPT ![a] = "success"] /\ UNCHANGED failures
     \/ /\ failures < MaxFailures
        /\ failures' = failures + 1
        /\ executor' = [executor EXCEPT ![a] = "failure"]
  /\ UNCHANGED <<goal, facts, stage, startDone, endDone, turn, changes>>

\* Another client of the problem expert adds or removes a fact.
Change(f) ==
  /\ mission = "executing" /\ changes < MaxChanges
  /\ changes' = changes + 1
  /\ facts' = IF f \in facts THEN facts \ {f} ELSE facts \union {f}
  /\ UNCHANGED <<goal, stage, executor, startDone, endDone, turn, failures>>

-----------------------------------------------------------------------------

Init ==
  /\ mission = "idle" /\ plan = <<>> /\ facts = InitialFacts /\ turn = 0
  /\ tree = [failed |-> TRUE, order |-> <<>>, under |-> <<>>, waits |-> <<>>]
  /\ stage = [a \in Actions |-> "wait"] /\ executor = [a \in Actions |-> "idle"]
  /\ startDone = [a \in Actions |-> FALSE] /\ endDone = [a \in Actions |-> FALSE]
  /\ missions = 0 /\ changes = 0 /\ failures = 0

Leaf(a) ==
  \/ WaitAction(a) \/ WaitAtStartReq(a) \/ ApplyAtStartEffect(a)
  \/ CheckOverAllReq(a) \/ ExecuteAction(a) \/ CheckAtEndReq(a) \/ ApplyAtEndEffect(a)

Next ==
  \/ StartTick
  \/ \E a \in Actions : Leaf(a) \/ Confirm(a) \/ Finish(a)
  \/ \E f \in Facts : Change(f)
  \/ /\ missions < MaxMissions
     /\ \E r \in AllOffers : r[1] = facts /\ \E x \in r[2] :
          NewMission(x.plan, x.tree) \/ \E z \in 1 .. Len(x.plan) : Replan(x.plan, x.tree, z)

\* The execution cycle goes on ticking, and performers answer and finish.
Fairness ==
  /\ WF_vars(StartTick \/ \E a \in Actions : Leaf(a))
  /\ WF_vars(\E a \in Actions : Confirm(a) \/ Finish(a))

Spec == Init /\ [][Next]_vars /\ Fairness

-----------------------------------------------------------------------------

TypeOK ==
  /\ mission \in {"idle", "executing", "succeeded", "failed"}
  /\ facts \subseteq Facts
  /\ Elements(tree.order) \subseteq Elements(plan)
  /\ stage \in [Actions -> {"wait", "start", "effect", "overall", "work", "endcheck",
                            "endeffect", "done"}]
  /\ executor \in [Actions -> {"idle", "dealing", "running", "success", "failure", "cancelled"}]
  /\ startDone \in [Actions -> BOOLEAN] /\ endDone \in [Actions -> BOOLEAN]
  /\ turn \in 0 .. Len(tree.order)

\* The effects at the end of an action are those of work that was done: whatever
\* fails, is cancelled or is planned anew, they are applied only for an action whose
\* performer has reported success.
EffectsFollowWork ==
  \A a \in Actions : endDone[a] => executor[a] = "success"

\* CheckAtEndReq and ApplyAtEndEffect are two calls to the problem expert.  What lies
\* between them is not enough for another action of the same tree, even one that runs
\* at the same time: unless others interfere, what an action needs at its end holds
\* when its effects are applied.
EndEffectsAreChecked ==
  [][\A a \in Actions : ~endDone[a] /\ endDone'[a] /\ changes = 0
       => check(Act[a].atEndReq, facts)]_vars

Takes(a) == Act[a].atStart.del \union Act[a].atEnd.del
Gives(a) == Act[a].atStart.add \union Act[a].atEnd.add
Spoils(a, b) == Takes(a) \intersect (Elements(Requirements(b)) \union Gives(b)) # {}
\* The tree has all actions of the plan, and of any two of which one takes away what
\* the other needs or gives, one comes before the other.
Orders(before) ==
  /\ Elements(tree.order) = Elements(plan)
  /\ \A i, j \in DOMAIN plan : i < j =>
       i \in before[j] \/ ~(Spoils(plan[i], plan[j]) \/ Spoils(plan[j], plan[i]))

\* The positions that come before each position when arcs lead as given.
Before(arcs) ==
  LET up[i \in DOMAIN plan] ==
        LET in == {j \in 1 .. i - 1 : plan[i] \in DOMAIN arcs /\ plan[j] \in arcs[plan[i]]}
        IN in \union UNION {up[j] : j \in in}
  IN up
Undisturbed == missions = 1 /\ changes = 0 /\ failures = 0

\* A mission that nobody disturbs does not fail, if no action fails and the blocks
\* of actions that spoil one another are nested: each requirement then holds when its
\* leaf is ticked, however the actions that run in parallel overlap.
NestingIsEnough == Undisturbed /\ Orders(Before(tree.under)) => mission # "failed"

\* The same of the arcs of the graph, whether the tree nests the one block in the other
\* or renders the arc as WaitAction: "A1 and A2 cannot run in parallel if the effects
\* of A1 contradict the requirements of A2".
ArcsAreEnough == Undisturbed /\ Orders(Before(tree.waits)) => mission # "failed"

\* An action that several others must precede is rendered in one place only: else two
\* blocks would tick its executor and apply its effects.
RenderedOnce == IsInjective(tree.order)

\* An action has been reached whose requirements at its start do not hold.
Waiting ==
  \E a \in Elements(tree.order) :
    stage[a] = "start" /\ ~(check(Act[a].atStartReq, facts) /\ check(Act[a].overAllReq, facts))

\* The actions of a tree never wait for one another for ever: a mission ends, unless
\* it waits for requirements that nobody establishes.
MissionsEnd == []<>(mission # "executing" \/ Waiting)
=============================================================================
