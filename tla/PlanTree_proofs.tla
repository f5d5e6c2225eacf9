---------------------------- MODULE PlanTree_proofs ----------------------------
(* What holds of the missions of every repertory of actions and every plan, and of *)
(* the trees that the builder makes of the plans: their types and order, what their *)
(* actions can rely on, and why an undisturbed mission does not fail.               *)
EXTENDS PlanTree, SimpleBTBuilder_proofs

Stages == {"wait", "start", "effect", "overall", "work", "endcheck", "endeffect", "done"}
States == {"idle", "dealing", "running", "success", "failure", "cancelled"}

Typed ==
  /\ stage \in [Actions -> Stages] /\ executor \in [Actions -> States]
  /\ endDone \in [Actions -> BOOLEAN]

\* A block comes to its last two leaves, and past them, only by success.
LateInv ==
  \A a \in Actions :
    stage[a] \in {"endcheck", "endeffect", "done"} \/ endDone[a] => executor[a] = "success"

IInv == Typed /\ LateInv

LEMMA InitHolds == Init => IInv
BY DEF Init, IInv, Typed, LateInv, Stages, States

\* What is cancelled was running, so no success is lost.
LEMMA CancelledKeeps ==
  ASSUME NEW ex \in [Actions -> States]
  PROVE  /\ Cancelled(ex) \in [Actions -> States]
         /\ \A a \in Actions : Cancelled(ex)[a] = "success" <=> ex[a] = "success"
BY DEF Cancelled, States

\* The tree fails as it is.
LEMMA FailKeeps ==
  ASSUME IInv, NEW a \in Actions, NEW ex \in [Actions -> States], Fail(a, ex),
         \A b \in Actions : executor[b] = "success" => ex[b] = "success",
         endDone' = endDone
  PROVE  IInv'
<1>1. stage' = stage /\ executor' = Cancelled(ex)
  BY DEF Fail
<1>2. /\ executor' \in [Actions -> States]
      /\ \A b \in Actions : executor'[b] = "success" <=> ex[b] = "success"
  BY <1>1, CancelledKeeps
<1> QED BY <1>1, <1>2 DEF IInv, Typed, LateInv

\* A leaf before the work is done changes neither success nor what is done.
LEMMA EarlyKeeps ==
  ASSUME IInv, NEW a \in Actions, NEW leaf \in {"wait", "start", "effect", "overall", "work"},
         stage' = [stage EXCEPT ![a] = leaf], endDone' = endDone,
         executor' \in [Actions -> States],
         \A b \in Actions : executor[b] = "success" => executor'[b] = "success"
  PROVE  IInv'
BY DEF IInv, Typed, LateInv, Stages

LEMMA LeafKeeps == ASSUME IInv, NEW a \in Actions, Leaf(a) PROVE IInv'
<1>0. executor \in [Actions -> States]
  BY DEF IInv, Typed
<1>1. CASE WaitAction(a) \/ WaitAtStartReq(a) \/ ApplyAtStartEffect(a)
  BY <1>0, <1>1, EarlyKeeps DEF WaitAction, WaitAtStartReq, ApplyAtStartEffect, Proceed, Pause
<1>2. CASE CheckOverAllReq(a)
  <2>1. CASE Proceed(a, "work") /\ UNCHANGED <<executor, endDone>>
    BY <1>0, <2>1, EarlyKeeps DEF Proceed
  <2>2. CASE Fail(a, executor) /\ endDone' = endDone
    BY <1>0, <2>2, FailKeeps
  <2> QED BY <1>2, <2>1, <2>2 DEF CheckOverAllReq, Broken
<1>3. CASE ExecuteAction(a)
  <2>1. CASE /\ executor[a] \in {"idle", "running", "dealing"} /\ Pause(a, "overall")
             /\ executor' = [executor EXCEPT ![a] = "dealing"] \/ executor' = executor
             /\ endDone' = endDone
    <3>1. /\ executor' \in [Actions -> States]
          /\ \A b \in Actions : executor[b] = "success" => executor'[b] = "success"
      BY <1>0, <2>1 DEF States
    <3> QED BY <2>1, <3>1, EarlyKeeps DEF Pause
  <2>2. CASE executor[a] = "success" /\ Proceed(a, "endcheck") /\ UNCHANGED <<executor, endDone>>
    BY <2>2 DEF Proceed, IInv, Typed, LateInv, Stages
  <2>3. CASE executor[a] = "failure" /\ Fail(a, executor) /\ endDone' = endDone
    BY <1>0, <2>3, FailKeeps
  <2>4. CASE /\ executor[a] = "dealing" /\ Fail(a, [executor EXCEPT ![a] = "failure"])
             /\ endDone' = endDone
    <3> DEFINE ex == [executor EXCEPT ![a] = "failure"]
    <3>1. /\ ex \in [Actions -> States]
          /\ \A b \in Actions : executor[b] = "success" => ex[b] = "success"
      BY <1>0, <2>4 DEF States
    <3> QED BY <2>4, <3>1, FailKeeps
  <2> QED BY <1>3, <2>1, <2>2, <2>3, <2>4 DEF ExecuteAction, Broken
<1>4. CASE CheckAtEndReq(a)
  <2>1. CASE Proceed(a, "endeffect") /\ UNCHANGED <<executor, endDone>> /\ stage[a] = "endcheck"
    BY <2>1 DEF Proceed, IInv, Typed, LateInv, Stages
  <2>2. CASE Fail(a, executor) /\ endDone' = endDone
    BY <1>0, <2>2, FailKeeps
  <2> QED BY <1>4, <2>1, <2>2 DEF CheckAtEndReq, At
<1>5. CASE ApplyAtEndEffect(a)
  <2>1. /\ stage[a] = "endeffect" /\ stage' = [stage EXCEPT ![a] = "done"]
        /\ endDone' = [endDone EXCEPT ![a] = TRUE] /\ executor' = executor
    BY <1>5 DEF ApplyAtEndEffect, Complete, At
  <2> QED BY <2>1 DEF IInv, Typed, LateInv, Stages
<1> QED BY <1>1, <1>2, <1>3, <1>4, <1>5 DEF Leaf

\* A new mission starts with nothing done; a replan keeps only what is running, of which
\* nothing has been done at its end.
LEMMA MissionKeeps ==
  ASSUME IInv, NEW p, NEW t, NEW z, NewMission(p, t) \/ Replan(p, t, z) PROVE IInv'
<1>1. CASE NewMission(p, t)
  BY <1>1 DEF NewMission, IInv, Typed, LateInv, Stages, States
<1>2. CASE Replan(p, t, z)
  <2> DEFINE kept == [a \in Actions |-> IF a \in Kept(p, z) THEN executor[a] ELSE "idle"]
  <2>1. /\ kept \in [Actions -> States]
        /\ \A a \in Actions : kept[a] # "success"
    BY DEF Kept, IInv, Typed, States
  <2>2. executor' \in [Actions -> States]
    BY <1>2, <2>1, CancelledKeeps DEF Replan
  <2>3. \A a \in Actions : a \in Kept(p, z) => ~endDone[a]
    BY DEF Kept, IInv, LateInv
  <2>4. /\ stage' = [a \in Actions |-> "wait"]
        /\ endDone' = [a \in Actions |-> a \in Kept(p, z) /\ endDone[a]]
    BY <1>2 DEF Replan
  <2>5. stage' \in [Actions -> Stages] /\ endDone' \in [Actions -> BOOLEAN]
    BY <2>4 DEF Stages
  <2>6. \A a \in Actions : stage'[a] = "wait" /\ ~endDone'[a]
    BY <2>3, <2>4
  <2> QED BY <2>2, <2>5, <2>6 DEF IInv, Typed, LateInv
<1> QED BY <1>1, <1>2

\* Performers turn no success into anything else, and the rest leaves all this alone.
LEMMA OthersKeep ==
  ASSUME IInv, \/ StartTick \/ \E f \in Facts : Change(f)
               \/ \E a \in Actions : Confirm(a) \/ Finish(a)
  PROVE  IInv'
<1>1. CASE StartTick \/ \E f \in Facts : Change(f)
  BY <1>1 DEF StartTick, Change, IInv, Typed, LateInv
<1>2. CASE \E a \in Actions : Confirm(a) \/ Finish(a)
  BY <1>2 DEF Confirm, Finish, IInv, Typed, LateInv, States
<1> QED BY <1>1, <1>2

LEMMA InvariantHolds == Spec => []IInv
<1>1. IInv /\ [Next]_vars => IInv'
  <2>1. ASSUME IInv, Next PROVE IInv'
    BY <2>1, LeafKeeps, MissionKeeps, OthersKeep DEF Next
  <2>2. ASSUME IInv, UNCHANGED vars PROVE IInv'
    BY <2>2 DEF IInv, Typed, LateInv, vars
  <2> QED BY <2>1, <2>2
<1> QED BY InitHolds, <1>1, PTL DEF Spec

\* For every repertory and any plans, failures, replans and changes by others: effects at
\* the end are applied only of actions whose performers have reported success.
THEOREM EffectsAreOfWorkDone == Spec => []EffectsFollowWork
<1>1. IInv => EffectsFollowWork
  BY DEF IInv, LateInv, EffectsFollowWork
<1> QED BY InvariantHolds, <1>1, PTL

-----------------------------------------------------------------------------
(* What holds when the effects at the end are applied.                     *)

\* The last two leaves of a block are ticked in one go: whoever has come to them has its
\* turn, and until others change the facts what it needs at its end holds.
AtItsEnd(a) == mission = "executing" /\ stage[a] \in {"endcheck", "endeffect"}
EndInv ==
  /\ changes \in Nat
  /\ stage \in [Actions -> Stages]
  /\ \A a \in Actions : AtItsEnd(a) =>
       /\ turn # 0 /\ a = tree.order[turn]
       /\ stage[a] = "endeffect" /\ changes = 0 => check(Act[a].atEndReq, facts)

\* An action that is not durative needs nothing at its end.
LEMMA NothingAtEnd ==
  ASSUME NEW a \in Actions, ~Act[a].durative PROVE check(Act[a].atEndReq, facts)
<1>1. Act[a].atEndReq = <<>>
  BY ActionAssumption
<1>2. DOMAIN <<>> = {}
  OBVIOUS
<1> QED BY <1>1, <1>2 DEF check, Elements

\* Leaves before the last two: nobody is at its end while another has its turn.
LEMMA EarlyEnd ==
  ASSUME EndInv, NEW a \in Actions, mission = "executing", a = tree.order[turn],
         stage[a] \notin {"endcheck", "endeffect"},
         NEW leaf \in {"wait", "start", "effect", "overall", "work", "done"},
         stage' = [stage EXCEPT ![a] = leaf], changes' = changes
  PROVE  EndInv'
<1>1. \A b \in Actions : stage[b] \notin {"endcheck", "endeffect"}
  BY DEF EndInv, AtItsEnd
<1>2. \A b \in Actions : stage'[b] \notin {"endcheck", "endeffect"}
  BY <1>1 DEF EndInv
<1>3. stage' \in [Actions -> Stages]
  BY DEF EndInv, Stages
<1> QED BY <1>2, <1>3 DEF EndInv, AtItsEnd

\* A tree that has failed is not ticked on.
LEMMA FailEnds ==
  ASSUME EndInv, NEW a, NEW ex, Fail(a, ex), changes' = changes PROVE EndInv'
BY DEF Fail, EndInv, AtItsEnd

LEMMA LeafEnd == ASSUME EndInv, NEW a \in Actions, Leaf(a) PROVE EndInv'
<1>0. stage \in [Actions -> Stages]
  BY DEF EndInv
<1>1. CASE WaitAction(a) \/ WaitAtStartReq(a) \/ ApplyAtStartEffect(a)
  <2>1. /\ mission = "executing" /\ a = tree.order[turn]
        /\ stage[a] \notin {"endcheck", "endeffect"} /\ changes' = changes
    BY <1>1 DEF WaitAction, WaitAtStartReq, ApplyAtStartEffect, At
  <2>2. \E leaf \in {"wait", "start", "effect", "overall"} : stage' = [stage EXCEPT ![a] = leaf]
    BY <1>1 DEF WaitAction, WaitAtStartReq, ApplyAtStartEffect, Proceed, Pause
  <2> QED BY <2>1, <2>2, EarlyEnd
<1>2. CASE CheckOverAllReq(a)
  <2>1. /\ mission = "executing" /\ a = tree.order[turn] /\ stage[a] = "overall" /\ changes' = changes
    BY <1>2 DEF CheckOverAllReq, At
  <2>2. stage' = [stage EXCEPT ![a] = "work"] \/ Fail(a, executor)
    BY <1>2 DEF CheckOverAllReq, Broken, Proceed
  <2> QED BY <2>1, <2>2, EarlyEnd, FailEnds
<1>3. CASE ExecuteAction(a)
  <2>1. /\ mission = "executing" /\ turn > 0 /\ a = tree.order[turn]
        /\ stage[a] = "work" /\ changes' = changes
    BY <1>3 DEF ExecuteAction, At
  <2>2. \/ stage' = [stage EXCEPT ![a] = "overall"]
        \/ Proceed(a, "endcheck")
        \/ \E ex : Fail(a, ex)
    BY <1>3 DEF ExecuteAction, Broken, Pause
  <2>3. CASE Proceed(a, "endcheck")
    <3>1. stage' = [stage EXCEPT ![a] = "endcheck"] /\ UNCHANGED <<turn, tree, mission>>
      BY <2>3 DEF Proceed, goal
    <3>2. \A b \in Actions : stage[b] \notin {"endcheck", "endeffect"}
      BY <2>1 DEF EndInv, AtItsEnd
    <3>3. /\ stage'[a] = "endcheck"
          /\ \A b \in Actions : b # a => stage'[b] \notin {"endcheck", "endeffect"}
      BY <1>0, <3>1, <3>2
    <3>4. stage' \in [Actions -> Stages]
      BY <1>0, <3>1 DEF Stages
    <3> QED BY <2>1, <3>1, <3>3, <3>4 DEF EndInv, AtItsEnd
  <2> QED BY <2>1, <2>2, <2>3, EarlyEnd, FailEnds
<1>4. CASE CheckAtEndReq(a)
  <2>1. /\ turn > 0 /\ a = tree.order[turn] /\ stage[a] = "endcheck"
        /\ changes' = changes /\ facts' = facts /\ mission = "executing"
    BY <1>4 DEF CheckAtEndReq, At
  <2>2. CASE Proceed(a, "endeffect") /\ (~Act[a].durative \/ check(Act[a].atEndReq, facts))
    <3>1. stage' = [stage EXCEPT ![a] = "endeffect"] /\ UNCHANGED <<turn, tree, mission>>
      BY <2>2 DEF Proceed, goal
    <3>2. check(Act[a].atEndReq, facts)
      BY <2>2, NothingAtEnd
    <3>3. \A b \in Actions : b # a => stage[b] \notin {"endcheck", "endeffect"}
      BY <2>1 DEF EndInv, AtItsEnd
    <3>4. \A b \in Actions : b # a => stage'[b] \notin {"endcheck", "endeffect"}
      BY <1>0, <3>1, <3>3
    <3>5. stage' \in [Actions -> Stages]
      BY <1>0, <3>1 DEF Stages
    <3> QED BY <2>1, <3>1, <3>2, <3>4, <3>5 DEF EndInv, AtItsEnd, check
  <2> QED BY <1>4, <2>1, <2>2, FailEnds DEF CheckAtEndReq
<1>5. CASE ApplyAtEndEffect(a)
  <2>1. /\ a = tree.order[turn] /\ mission = "executing" /\ changes' = changes
        /\ stage' = [stage EXCEPT ![a] = "done"]
    BY <1>5 DEF ApplyAtEndEffect, Complete, At
  <2>2. \A b \in Actions : b # a => stage[b] \notin {"endcheck", "endeffect"}
    BY <2>1 DEF EndInv, AtItsEnd
  <2>3. \A b \in Actions : stage'[b] \notin {"endcheck", "endeffect"}
    BY <1>0, <2>1, <2>2
  <2>4. stage' \in [Actions -> Stages]
    BY <1>0, <2>1 DEF Stages
  <2> QED BY <2>1, <2>3, <2>4 DEF EndInv, AtItsEnd
<1> QED BY <1>1, <1>2, <1>3, <1>4, <1>5 DEF Leaf

LEMMA EndKept == ASSUME EndInv, Next PROVE EndInv'
<1>1. ASSUME StartTick PROVE EndInv'
  BY <1>1 DEF StartTick, goal, EndInv, AtItsEnd
<1>2. ASSUME NEW a \in Actions, Confirm(a) \/ Finish(a) PROVE EndInv'
  BY <1>2 DEF Confirm, Finish, goal, EndInv, AtItsEnd
<1>3. ASSUME NEW f, Change(f) PROVE EndInv'
  BY <1>3 DEF Change, goal, EndInv, AtItsEnd
<1>4. ASSUME NEW p, NEW t, NEW z, NewMission(p, t) \/ Replan(p, t, z) PROVE EndInv'
  <2>1. stage' = [a \in Actions |-> "wait"] /\ changes' = changes
    BY <1>4 DEF NewMission, Replan
  <2> QED BY <2>1 DEF EndInv, AtItsEnd, Stages
<1> QED BY <1>1, <1>2, <1>3, <1>4, LeafEnd DEF Next

LEMMA EndHeld == Spec => []EndInv
<1>1. Init => EndInv
  BY DEF Init, EndInv, AtItsEnd, Stages
<1>2. EndInv /\ [Next]_vars => EndInv'
  <2>1. ASSUME EndInv, UNCHANGED vars PROVE EndInv'
    BY <2>1 DEF EndInv, AtItsEnd, vars, counters
  <2> QED BY <2>1, EndKept
<1> QED BY <1>1, <1>2, PTL DEF Spec

\* For every repertory and any plans, however blocks interleave and fail: between the check
\* of what an action needs at its end and its effects, no other action comes in.
THEOREM NothingComesBetween == Spec => EndEffectsAreChecked
<1>1. IInv /\ EndInv /\ [Next]_vars =>
        [\A a \in Actions : ~endDone[a] /\ endDone'[a] /\ changes = 0
           => check(Act[a].atEndReq, facts)]_vars
  <2> SUFFICES ASSUME IInv, EndInv, Next, NEW a \in Actions, ~endDone[a], endDone'[a], changes = 0
               PROVE  check(Act[a].atEndReq, facts)
    OBVIOUS
  <2>1. ASSUME ApplyAtEndEffect(a) PROVE check(Act[a].atEndReq, facts)
    BY <2>1 DEF ApplyAtEndEffect, At, EndInv, AtItsEnd
  <2>2. endDone \in [Actions -> BOOLEAN]
    BY DEF IInv, Typed
  <2>3. ASSUME NEW b \in Actions, b # a, ApplyAtEndEffect(b) PROVE endDone'[a] = endDone[a]
    BY <2>2, <2>3 DEF ApplyAtEndEffect
  <2>4. ASSUME \/ StartTick
               \/ \E b \in Actions : \/ WaitAction(b) \/ WaitAtStartReq(b) \/ ApplyAtStartEffect(b)
                                     \/ CheckOverAllReq(b) \/ ExecuteAction(b) \/ CheckAtEndReq(b)
                                     \/ Confirm(b) \/ Finish(b)
               \/ \E f \in Facts : Change(f)
        PROVE  endDone' = endDone
    BY <2>4 DEF StartTick, WaitAction, WaitAtStartReq, ApplyAtStartEffect, CheckOverAllReq,
                ExecuteAction, CheckAtEndReq, Confirm, Finish, Change
  <2>5. ASSUME NEW p, NEW t, NEW z, NewMission(p, t) \/ Replan(p, t, z) PROVE endDone'[a] => endDone[a]
    BY <2>5 DEF NewMission, Replan
  <2> QED BY <2>1, <2>3, <2>4, <2>5 DEF Next, Leaf
<1> QED BY InvariantHolds, EndHeld, <1>1, PTL DEF Spec, EndEffectsAreChecked

-----------------------------------------------------------------------------
(* The tree of a mission.                                                  *)

TreeInv ==
  /\ mission \in {"idle", "executing", "succeeded", "failed"} /\ facts \subseteq Facts
  /\ startDone \in [Actions -> BOOLEAN]
  /\ plan \in Seq(Actions) /\ Fits(tree, plan)
  /\ turn \in 0 .. Len(tree.order)

\* The next turn is that of an action of the tree, if it is any.
LEMMA NextTurnTyped ==
  ASSUME NEW T, tree.order \in Seq(T), NEW i \in Nat, NEW stg
  PROVE  NextTurn(i, stg) \in 0 .. Len(tree.order)
<1> DEFINE later == {k \in i + 1 .. Len(tree.order) : Open(tree.order[k], stg)}
<1>1. NextTurn(i, stg) = IF later = {} THEN 0 ELSE CHOOSE k \in later : \A l \in later : k <= l
  BY DEF NextTurn
<1>2. later \subseteq 0 .. Len(tree.order) /\ later \subseteq Nat /\ Len(tree.order) \in Nat
  OBVIOUS
<1> HIDE DEF later
<1>3. CASE later = {}
  BY <1>1, <1>2, <1>3
<1>4. CASE later # {}
  <2>1. \E k \in later : \A l \in later : k <= l
    BY <1>2, <1>4, Least
  <2>2. (CHOOSE k \in later : \A l \in later : k <= l) \in later
    BY <2>1
  <2> QED BY <1>1, <1>2, <1>4, <2>2
<1> QED BY <1>3, <1>4

\* Effects add no fact that there is not.
LEMMA EffectsTyped ==
  ASSUME NEW a \in Actions, NEW st, st \subseteq Facts
  PROVE  Started(a, st) \subseteq Facts /\ apply(Act[a].atEnd, st) \subseteq Facts
<1>1. Act[a].atStart.add \subseteq Facts /\ Act[a].atEnd.add \subseteq Facts
  BY ActionAssumption
<1> QED BY <1>1 DEF Started, apply

\* A step within a mission.
LEMMA WithinMission ==
  ASSUME TreeInv, NEW turnNow \in 0 .. Len(tree.order), turn' = turnNow,
         UNCHANGED <<plan, tree>>, mission' \in {mission, "succeeded", "failed"},
         facts' \subseteq Facts, startDone' \in [Actions -> BOOLEAN]
  PROVE  TreeInv'
BY DEF TreeInv

\* Leaves change facts and turns, never the tree.
LEMMA LeafTree == ASSUME TreeInv, NEW a \in Actions, Leaf(a) PROVE TreeInv'
<1>1. /\ tree.order \in Seq(Elements(plan)) /\ turn \in 0 .. Len(tree.order)
      /\ facts \subseteq Facts /\ startDone \in [Actions -> BOOLEAN]
  BY DEF TreeInv, Fits
<1>2. turn \in Nat /\ 0 \in 0 .. Len(tree.order)
  BY <1>1
<1>3. ASSUME NEW leaf, Proceed(a, leaf) \/ Pause(a, leaf)
      PROVE  /\ turn' \in 0 .. Len(tree.order)
             /\ UNCHANGED <<plan, tree>> /\ mission' = mission
  BY <1>1, <1>2, <1>3, NextTurnTyped DEF Proceed, Pause, goal
<1>4. ASSUME NEW ex, Fail(a, ex)
      PROVE  /\ turn' \in 0 .. Len(tree.order)
             /\ UNCHANGED <<plan, tree>> /\ mission' = "failed"
  BY <1>2, <1>4 DEF Fail
<1>5. Started(a, facts) \subseteq Facts /\ apply(Act[a].atEnd, facts) \subseteq Facts
  BY <1>1, EffectsTyped
<1>6. CASE WaitAction(a) \/ WaitAtStartReq(a)
  BY <1>1, <1>3, <1>6, WithinMission DEF WaitAction, WaitAtStartReq
<1>7. CASE ApplyAtStartEffect(a)
  <2>1. facts' \subseteq Facts /\ startDone' \in [Actions -> BOOLEAN]
    BY <1>1, <1>5, <1>7 DEF ApplyAtStartEffect
  <2> QED BY <1>3, <1>7, <2>1, WithinMission DEF ApplyAtStartEffect
<1>8. CASE CheckOverAllReq(a) \/ ExecuteAction(a) \/ CheckAtEndReq(a)
  <2>1. /\ UNCHANGED <<facts, startDone>>
        /\ (\E leaf : Proceed(a, leaf) \/ Pause(a, leaf)) \/ (\E ex : Fail(a, ex))
    <3>1. CASE CheckOverAllReq(a)
      BY <3>1 DEF CheckOverAllReq, Broken
    <3>2. CASE ExecuteAction(a)
      BY <3>2 DEF ExecuteAction, Broken
    <3>3. CASE CheckAtEndReq(a)
      BY <3>3 DEF CheckAtEndReq
    <3> QED BY <1>8, <3>1, <3>2, <3>3
  <2> QED BY <1>1, <1>3, <1>4, <2>1, WithinMission
<1>9. CASE ApplyAtEndEffect(a)
  <2>1. facts' \subseteq Facts /\ startDone' = startDone
    BY <1>1, <1>5, <1>9 DEF ApplyAtEndEffect
  <2>2. /\ turn' \in 0 .. Len(tree.order)
        /\ UNCHANGED <<plan, tree>> /\ mission' \in {mission, "succeeded"}
    BY <1>1, <1>2, <1>9, NextTurnTyped DEF ApplyAtEndEffect, Complete
  <2> QED BY <1>1, <2>1, <2>2, WithinMission
<1> QED BY <1>6, <1>7, <1>8, <1>9 DEF Leaf

\* What planner and builder come to.
LEMMA OffersFit ==
  ASSUME NEW r \in AllOffers, NEW x \in r[2]
  PROVE  x.plan \in Seq(Actions) /\ Fits(x.tree, x.plan)
<1>1. PICK st : x \in Offers(st)
  BY DEF AllOffers
<1>2. PICK p \in Plans : x.plan = p /\ x.tree = get_tree(p, st)
  BY <1>1 DEF Offers
<1>3. p \in Seq(Actions) /\ IsInjective(p)
  BY PlanAssumption
<1> QED BY <1>2, <1>3, TreeFits

\* A mission takes a tree that fits its plan.
LEMMA MissionTree ==
  ASSUME TreeInv, NEW p \in Seq(Actions), NEW t, Fits(t, p), NEW z,
         NewMission(p, t) \/ Replan(p, t, z)
  PROVE  TreeInv'
<1>1. /\ plan' = p /\ tree' = t /\ turn' = 0 /\ facts' = facts
      /\ mission' \in {"executing", "failed"}
  BY DEF NewMission, Replan
<1>2. startDone' \in [Actions -> BOOLEAN]
  BY DEF NewMission, Replan
<1>3. 0 \in 0 .. Len(t.order)
  BY DEF Fits
<1> QED BY <1>1, <1>2, <1>3 DEF TreeInv

LEMMA TreeHolds == Spec => []TreeInv
<1>1. Init => TreeInv
  <2> SUFFICES ASSUME Init PROVE TreeInv
    OBVIOUS
  <2>1. plan = <<>> /\ tree.order = <<>> /\ turn = 0 /\ mission = "idle"
    BY DEF Init
  <2>2. facts \subseteq Facts /\ startDone \in [Actions -> BOOLEAN]
    BY PlanAssumption DEF Init
  <2>3. Fits(tree, plan)
    <3>1. DOMAIN <<>> = {}
      OBVIOUS
    <3>2. Elements(tree.order) = {} /\ IsInjective(tree.order)
      BY <2>1, <3>1 DEF Elements, IsInjective
    <3> QED BY <2>1, <3>2 DEF Fits
  <2> QED BY <2>1, <2>2, <2>3 DEF TreeInv
<1>2. TreeInv /\ [Next]_vars => TreeInv'
  <2> SUFFICES ASSUME TreeInv, [Next]_vars PROVE TreeInv'
    OBVIOUS
  <2>1. CASE StartTick
    <3>1. tree.order \in Seq(Elements(plan)) /\ 0 \in Nat
      BY DEF TreeInv, Fits
    <3>2. turn' \in 0 .. Len(tree.order)
      BY <2>1, <3>1, NextTurnTyped DEF StartTick
    <3> QED BY <2>1, <3>2 DEF StartTick, goal, TreeInv
  <2>2. CASE \E a \in Actions : Confirm(a) \/ Finish(a)
    BY <2>2 DEF Confirm, Finish, goal, TreeInv
  <2>3. CASE \E f \in Facts : Change(f)
    BY <2>3 DEF Change, goal, TreeInv
  <2>4. ASSUME NEW r \in AllOffers, NEW x \in r[2], NEW z,
               NewMission(x.plan, x.tree) \/ Replan(x.plan, x.tree, z)
        PROVE  TreeInv'
    BY <2>4, OffersFit, MissionTree
  <2>5. CASE UNCHANGED vars
    BY <2>5 DEF vars, TreeInv
  <2> QED BY <2>1, <2>2, <2>3, <2>4, <2>5, LeafTree DEF Next
<1> QED BY <1>1, <1>2, PTL DEF Spec

\* For every repertory, any plans and any state they are made in: the tree comes by
\* actions of its plan only, and every variable stays in its range.
THEOREM TypeCorrect == Spec => []TypeOK
<1>1. IInv /\ TreeInv => TypeOK
  <2> SUFFICES ASSUME IInv, TreeInv PROVE TypeOK
    OBVIOUS
  <2>1. Elements(tree.order) \subseteq Elements(plan)
    <3>1. tree.order \in Seq(Elements(plan))
      BY DEF TreeInv, Fits
    <3> QED BY <3>1 DEF Elements
  <2> QED BY <2>1 DEF IInv, Typed, TreeInv, TypeOK, Stages, States
<1> QED BY InvariantHolds, TreeHolds, <1>1, PTL

\* For every repertory and any plans: however many actions one must precede, its block is in
\* one place of the tree.
THEOREM NoActionTwice == Spec => []RenderedOnce
<1>1. TreeInv => RenderedOnce
  BY DEF TreeInv, Fits, RenderedOnce
<1> QED BY TreeHolds, <1>1, PTL

\* Whom a block waits for, the tree has it nested in their blocks or leaves it to WaitAction,
\* comes before it in the plan; and a block is nested in ones that the tick comes by earlier.
WaitingGoesBack ==
  \A a \in Elements(tree.order) :
    /\ \A b \in tree.under[a] \union tree.waits[a] : Precedes(plan, b, a)
    /\ \A b \in tree.under[a] : Precedes(tree.order, b, a)

\* For every repertory and any plans: so no actions of a tree wait for one another in a
\* circle.
THEOREM NoCircularWait == Spec => []WaitingGoesBack
<1>1. TreeInv => WaitingGoesBack
  BY DEF TreeInv, Fits, WaitingGoesBack
<1> QED BY TreeHolds, <1>1, PTL

-----------------------------------------------------------------------------
(* What an action that has begun can rely on.                              *)

Ended == {"success", "failure"}

\* An action whose block has begun comes after those that WaitAction waits for, of which
\* only the work has ended; and after those it is nested in, with their effects at the end.
BegunInOrder ==
  mission = "executing" => \A a \in Elements(tree.order) : stage[a] # "wait" =>
    /\ \A b \in tree.waits[a] : executor[b] \in Ended
    /\ \A b \in tree.under[a] : endDone[b]

\* The block that is ticked is open, and so were those that have begun.
BegunInv ==
  /\ \A a \in Actions : stage[a] = "done" => endDone[a]
  /\ mission = "executing" =>
       /\ turn # 0 => \A b \in tree.under[tree.order[turn]] : stage[b] = "done"
       /\ \A a \in Elements(tree.order) : stage[a] # "wait" =>
            /\ \A b \in tree.waits[a] : executor[b] \in Ended
            /\ \A b \in tree.under[a] : stage[b] = "done"

\* The actions of a tree and those they come after.
LEMMA ArcsTyped ==
  ASSUME TreeInv
  PROVE  \A a \in Elements(tree.order) :
           /\ a \in Actions /\ tree.under[a] \subseteq tree.waits[a] /\ tree.waits[a] \subseteq Actions
<1>1. \A i \in DOMAIN plan : plan[i] \in Actions
  BY DEF TreeInv
<1>2. \A i \in DOMAIN tree.order : tree.order[i] \in Elements(plan)
  BY DEF TreeInv, Fits
<1>3. \A a \in Elements(tree.order) : a \in Actions
  BY <1>1, <1>2 DEF Elements
<1>4. \A b, a : Precedes(plan, b, a) => b \in Actions
  BY <1>1 DEF Precedes
<1> QED BY <1>3, <1>4 DEF TreeInv, Fits

\* It is that of an open block.
LEMMA TurnIsOpen ==
  ASSUME NEW i \in Nat, NEW stg, NextTurn(i, stg) # 0
  PROVE  Open(tree.order[NextTurn(i, stg)], stg)
<1> DEFINE later == {k \in i + 1 .. Len(tree.order) : Open(tree.order[k], stg)}
<1>1. NextTurn(i, stg) = IF later = {} THEN 0 ELSE CHOOSE k \in later : \A l \in later : k <= l
  BY DEF NextTurn
<1>2. later \subseteq Nat
  OBVIOUS
<1> HIDE DEF later
<1>3. later # {}
  BY <1>1
<1>4. \E k \in later : \A l \in later : k <= l
  BY <1>2, <1>3, Least
<1>5. NextTurn(i, stg) \in later
  BY <1>1, <1>3, <1>4
<1> QED BY <1>5 DEF later

\* A leaf of the block that is ticked, by which the tree does not fail.
LEMMA BegunStep ==
  ASSUME TreeInv, IInv, BegunInv, NEW a \in Actions, mission = "executing", turn # 0,
         a = tree.order[turn], stage[a] # "done", tree' = tree,
         NEW next, stage' = [stage EXCEPT ![a] = next],
         turn' = turn \/ turn' = NextTurn(turn, stage'),
         stage[a] = "wait" /\ next # "wait" => \A b \in tree.waits[a] : executor[b] \in Ended,
         \A b \in Actions : executor[b] \in Ended => executor'[b] \in Ended,
         \A b \in Actions : endDone[b] => endDone'[b],
         next = "done" => endDone'[a]
  PROVE  BegunInv'
<1>1. stage \in [Actions -> Stages] /\ turn \in Nat /\ turn \in DOMAIN tree.order
  BY DEF IInv, Typed, TreeInv, Fits
<1>2. a \in Elements(tree.order)
  BY <1>1 DEF Elements
<1>3. stage'[a] = next /\ \A b \in Actions : b # a => stage'[b] = stage[b]
  BY <1>1
<1>4. \A b \in Actions : stage[b] = "done" => stage'[b] = "done"
  BY <1>3
<1>5. \A b \in tree.under[a] : stage[b] = "done"
  BY DEF BegunInv
<1>6. \A b \in Actions : stage'[b] = "done" => endDone'[b]
  BY <1>3 DEF BegunInv
<1>7. ASSUME turn' # 0 PROVE \A b \in tree.under[tree.order[turn']] : stage'[b] = "done"
  <2>1. CASE turn' = turn
    <3>1. \A b \in tree.under[a] : b \in Actions
      BY <1>2, ArcsTyped
    <3> QED BY <1>4, <1>5, <2>1, <3>1
  <2>2. CASE turn' = NextTurn(turn, stage')
    <3>1. Open(tree.order[turn'], stage')
      BY <1>1, <1>7, <2>2, TurnIsOpen
    <3> QED BY <3>1 DEF Open
  <2> QED BY <2>1, <2>2
<1>8. ASSUME NEW c \in Elements(tree.order), stage'[c] # "wait"
      PROVE  /\ \A b \in tree.waits[c] : executor'[b] \in Ended
             /\ \A b \in tree.under[c] : stage'[b] = "done"
  <2>1. c \in Actions /\ tree.waits[c] \subseteq Actions /\ tree.under[c] \subseteq Actions
    BY ArcsTyped
  <2>2. /\ \A b \in tree.waits[c] : executor[b] \in Ended
        /\ \A b \in tree.under[c] : stage[b] = "done"
    <3>1. CASE stage[c] # "wait"
      BY <3>1 DEF BegunInv
    <3>2. CASE stage[c] = "wait"
      <4>1. c = a /\ next # "wait"
        BY <1>3, <1>8, <2>1, <3>2
      <4> QED BY <1>5, <3>2, <4>1
    <3> QED BY <3>1, <3>2
  <2> QED BY <1>4, <2>1, <2>2
<1>9. Elements(tree.order)' = Elements(tree.order)
  BY DEF Elements
<1> QED BY <1>6, <1>7, <1>8, <1>9 DEF BegunInv

\* A tree that has failed.
LEMMA BegunFail ==
  ASSUME BegunInv, NEW a, NEW ex, Fail(a, ex), endDone' = endDone PROVE BegunInv'
BY DEF Fail, BegunInv

\* The leaves, one by one.
LEMMA LeafBegun == ASSUME TreeInv, IInv, BegunInv, NEW a \in Actions, Leaf(a) PROVE BegunInv'
<1>1. executor \in [Actions -> States] /\ endDone \in [Actions -> BOOLEAN] /\ turn \in Nat
  BY DEF IInv, Typed, TreeInv, Fits
<1>2. ASSUME NEW leaf \in {"wait", "start", "effect", "overall", "work", "endcheck", "endeffect"},
             NEW next \in {"wait", "start", "effect", "overall", "work", "endcheck", "endeffect"},
             At(a, leaf), Proceed(a, next) \/ Pause(a, next),
             leaf = "wait" /\ next # "wait" => \A b \in tree.waits[a] : executor[b] \in Ended,
             \A b \in Actions : executor[b] \in Ended => executor'[b] \in Ended,
             endDone' = endDone
      PROVE  BegunInv'
  <2>1. /\ mission = "executing" /\ turn # 0 /\ a = tree.order[turn]
        /\ stage[a] = leaf /\ leaf # "done" /\ next # "done"
    BY <1>1, <1>2 DEF At
  <2>2. /\ tree' = tree /\ stage' = [stage EXCEPT ![a] = next]
        /\ turn' = turn \/ turn' = NextTurn(turn, stage')
    BY <1>2 DEF Proceed, Pause, goal
  <2> QED BY <1>2, <2>1, <2>2, BegunStep
<1>3. CASE WaitAction(a)
  <2>1. CASE Proceed(a, "start") /\ \A b \in tree.waits[a] : executor[b] \in Ended
    BY <1>2, <1>3, <2>1 DEF WaitAction
  <2>2. CASE Pause(a, "wait")
    BY <1>2, <1>3, <2>2 DEF WaitAction
  <2> QED BY <1>3, <2>1, <2>2 DEF WaitAction, Ended
<1>4. CASE WaitAtStartReq(a)
  BY <1>2, <1>4 DEF WaitAtStartReq
<1>5. CASE ApplyAtStartEffect(a)
  BY <1>2, <1>5 DEF ApplyAtStartEffect
<1>6. CASE CheckOverAllReq(a)
  <2>1. CASE Proceed(a, "work") /\ executor' = executor
    BY <1>2, <1>6, <2>1 DEF CheckOverAllReq
  <2>2. CASE Fail(a, executor) /\ endDone' = endDone
    BY <2>2, BegunFail
  <2> QED BY <1>6, <2>1, <2>2 DEF CheckOverAllReq, Broken
<1>7. CASE ExecuteAction(a)
  <2>1. At(a, "work") /\ endDone' = endDone
    BY <1>7 DEF ExecuteAction
  <2>2. CASE /\ Proceed(a, "endcheck") \/ Pause(a, "overall")
             /\ \/ executor' = executor
                \/ executor[a] \notin Ended /\ executor' = [executor EXCEPT ![a] = "dealing"]
    <3>1. \A b \in Actions : executor[b] \in Ended => executor'[b] \in Ended
      BY <1>1, <2>2
    <3> QED BY <1>2, <2>1, <2>2, <3>1
  <2>3. CASE \E ex : Fail(a, ex)
    BY <2>1, <2>3, BegunFail
  <2> QED BY <1>7, <2>2, <2>3 DEF ExecuteAction, Broken, Ended
<1>8. CASE CheckAtEndReq(a)
  <2>1. CASE Proceed(a, "endeffect") /\ executor' = executor
    BY <1>2, <1>8, <2>1 DEF CheckAtEndReq
  <2>2. CASE Fail(a, executor) /\ endDone' = endDone
    BY <2>2, BegunFail
  <2> QED BY <1>8, <2>1, <2>2 DEF CheckAtEndReq
<1>9. CASE ApplyAtEndEffect(a)
  <2>1. /\ mission = "executing" /\ turn # 0 /\ a = tree.order[turn] /\ stage[a] = "endeffect"
        /\ tree' = tree /\ stage' = [stage EXCEPT ![a] = "done"] /\ turn' = NextTurn(turn, stage')
        /\ executor' = executor /\ endDone' = [endDone EXCEPT ![a] = TRUE]
    BY <1>1, <1>9 DEF ApplyAtEndEffect, At, Complete
  <2>2. endDone'[a] /\ \A b \in Actions : endDone[b] => endDone'[b]
    BY <1>1, <2>1
  <2> QED BY <2>1, <2>2, BegunStep
<1> QED BY <1>3, <1>4, <1>5, <1>6, <1>7, <1>8, <1>9 DEF Leaf

\* What others do takes back no end of an action, and new trees begin anew.
LEMMA OthersBegun ==
  ASSUME TreeInv, IInv, BegunInv,
         \/ StartTick \/ \E f \in Facts : Change(f)
         \/ \E a \in Actions : Confirm(a) \/ Finish(a)
         \/ \E p, t, z : p \in Seq(Actions) /\ Fits(t, p) /\ (NewMission(p, t) \/ Replan(p, t, z))
  PROVE  BegunInv'
<1>1. CASE StartTick
  <2>1. turn' # 0 => Open(tree.order[turn'], stage)
    BY <1>1, TurnIsOpen DEF StartTick
  <2> QED BY <1>1, <2>1 DEF StartTick, goal, BegunInv, Open
<1>2. CASE \E f \in Facts : Change(f)
  BY <1>2 DEF Change, goal, BegunInv
<1>3. CASE \E a \in Actions : Confirm(a) \/ Finish(a)
  <2>1. UNCHANGED <<mission, tree, stage, endDone, turn>>
    BY <1>3 DEF Confirm, Finish, goal
  <2>2. \A b \in Actions : executor[b] \in Ended => executor'[b] \in Ended
    BY <1>3 DEF Confirm, Finish, Ended, IInv, Typed
  <2>3. \A c \in Elements(tree.order) : tree.waits[c] \subseteq Actions
    BY ArcsTyped
  <2> QED BY <2>1, <2>2, <2>3 DEF BegunInv
<1>4. CASE \E p, t, z : p \in Seq(Actions) /\ Fits(t, p) /\ (NewMission(p, t) \/ Replan(p, t, z))
  <2>1. PICK p, t, z : p \in Seq(Actions) /\ Fits(t, p) /\ (NewMission(p, t) \/ Replan(p, t, z))
    BY <1>4
  <2>2. plan' = p /\ tree' = t /\ turn' = 0 /\ stage' = [a \in Actions |-> "wait"]
    BY <2>1 DEF NewMission, Replan
  <2>3. \A a \in Elements(t.order) : a \in Actions
    BY <2>1 DEF Fits, Elements
  <2> QED BY <2>2, <2>3 DEF BegunInv
<1> QED BY <1>1, <1>2, <1>3, <1>4

LEMMA BegunHolds == Spec => []BegunInv
<1>1. Init => BegunInv
  BY DEF Init, BegunInv
<1>2. TreeInv /\ IInv /\ BegunInv /\ [Next]_vars => BegunInv'
  <2> SUFFICES ASSUME TreeInv, IInv, BegunInv, [Next]_vars PROVE BegunInv'
    OBVIOUS
  <2>1. ASSUME NEW r \in AllOffers, NEW x \in r[2], NEW z,
               NewMission(x.plan, x.tree) \/ Replan(x.plan, x.tree, z)
        PROVE  BegunInv'
    BY <2>1, OffersFit, OthersBegun
  <2>2. CASE UNCHANGED vars
    BY <2>2 DEF vars, BegunInv
  <2> QED BY <2>1, <2>2, LeafBegun, OthersBegun DEF Next
<1> QED BY InvariantHolds, TreeHolds, <1>1, <1>2, PTL DEF Spec

\* For every repertory and any plans: an action that is nested in others begins with their
\* effects applied; one that WaitAction holds back begins when their work has ended, which
\* is before their effects are there.
THEOREM NestedFollowsEffects == Spec => []BegunInOrder
<1>1. TreeInv /\ BegunInv => BegunInOrder
  <2> SUFFICES ASSUME TreeInv, BegunInv, mission = "executing", NEW a \in Elements(tree.order),
                      stage[a] # "wait"
               PROVE  /\ \A b \in tree.waits[a] : executor[b] \in Ended
                      /\ \A b \in tree.under[a] : endDone[b]
    BY DEF BegunInOrder
  <2>1. tree.under[a] \subseteq Actions
    BY ArcsTyped
  <2> QED BY <2>1 DEF BegunInv
<1> QED BY BegunHolds, TreeHolds, <1>1, PTL

-----------------------------------------------------------------------------
(* What actions that are carried out one after the other come to.          *)

\* The states between them.
Run(acts, st) ==
  LET after[k \in 0 .. Len(acts)] == IF k = 0 THEN st ELSE Done(acts[k], after[k - 1]) IN after

Runs(f, acts, st) == f[0] = st /\ \A k \in 1 .. Len(acts) : f[k] = Done(acts[k], f[k - 1])

LEMMA DoneTyped ==
  ASSUME NEW a \in Actions, NEW st \in SUBSET Facts
  PROVE  Started(a, st) \in SUBSET Facts /\ Done(a, st) \in SUBSET Facts
BY ActionAssumption DEF Started, Done, apply

LEMMA RunDef ==
  ASSUME NEW acts \in Seq(Actions), NEW st \in SUBSET Facts PROVE Runs(Run(acts, st), acts, st)
<1> DEFINE n == Len(acts)
           U == SUBSET Facts
           Step(x, k) == Done(acts[k], x)
           f[k \in 0 .. n] == IF k = 0 THEN st ELSE Step(f[k - 1], k)
           G == [k \in 1 .. n |-> [x \in U |-> Step(x, k)]]
<1>1. Run(acts, st) = f
  BY DEF Run
<1>2. f = CHOOSE h : h = [k \in 0 .. n |-> IF k = 0 THEN st ELSE Step(h[k - 1], k)]
  BY DEF f
<1>3. n \in Nat /\ st \in U
  OBVIOUS
<1>4. \A k \in 1 .. n, x \in U : Step(x, k) \in U
  <2>1. \A k \in 1 .. n : acts[k] \in Actions
    OBVIOUS
  <2> QED BY <2>1, DoneTyped
<1>5. G \in [1 .. n -> [U -> U]]
  BY <1>4
<1> HIDE DEF n, U, f, Step
<1>6. PICK h \in Solutions(n, U, st, G) : TRUE
  <2> HIDE DEF G
  <2> QED BY <1>3, <1>5, Recursion
<1>7. h = [k \in 0 .. n |-> IF k = 0 THEN st ELSE Step(h[k - 1], k)]
  <2>1. h \in [0 .. n -> U] /\ h[0] = st /\ \A k \in 1 .. n : h[k] = G[k][h[k - 1]]
    BY <1>6 DEF Solutions
  <2>2. \A k \in 1 .. n : h[k - 1] \in U
    BY <1>3, <2>1
  <2>3. \A k \in 1 .. n : h[k] = Step(h[k - 1], k)
    BY <2>1, <2>2
  <2>4. \A k \in 0 .. n : h[k] = IF k = 0 THEN st ELSE Step(h[k - 1], k)
    BY <1>3, <2>1, <2>3
  <2> QED BY <2>1, <2>4
<1>8. f = [k \in 0 .. n |-> IF k = 0 THEN st ELSE Step(f[k - 1], k)]
  BY <1>2, <1>7
<1>9. f[0] = st /\ \A k \in 1 .. n : f[k] = Step(f[k - 1], k)
  <2>1. \A k \in 0 .. n : f[k] = IF k = 0 THEN st ELSE Step(f[k - 1], k)
    BY <1>8, Zenon
  <2>2. 0 \in 0 .. n /\ \A k \in 1 .. n : k \in 0 .. n /\ k # 0
    BY <1>3
  <2> QED BY <2>1, <2>2
<1>10. Runs(f, acts, st)
  BY <1>9, Zenon DEF Runs, n, Step
<1> QED BY <1>1, <1>10

\* The fact holds once the action is done, whatever held before.
NetAdd(a, r) == r \in Act[a].atEnd.add \/ (r \in Act[a].atStart.add /\ r \notin Act[a].atEnd.del)

LEMMA DoneIs ==
  ASSUME NEW a, NEW r, NEW st PROVE r \in Done(a, st) <=> NetAdd(a, r) \/ (r \in st /\ r \notin Takes(a))
BY DEF Done, Started, apply, NetAdd, Takes

\* Where a fact that holds after the first k actions comes from.
FromStart(acts, st, r, k) == r \in st /\ \A l \in 1 .. k : r \notin Takes(acts[l])
FromAct(acts, r, k, j)    == NetAdd(acts[j], r) /\ \A l \in j + 1 .. k : r \notin Takes(acts[l])

LEMMA RunWhence ==
  ASSUME NEW acts \in Seq(Actions), NEW st \in SUBSET Facts, NEW r,
         NEW k \in 0 .. Len(acts), r \in Run(acts, st)[k]
  PROVE  FromStart(acts, st, r, k) \/ \E j \in 1 .. k : FromAct(acts, r, k, j)
<1> DEFINE n == Len(acts)
           f == Run(acts, st)
           Whence(i) == FromStart(acts, st, r, i) \/ \E j \in 1 .. i : FromAct(acts, r, i, j)
           P == {i \in 0 .. n : r \in f[i] => Whence(i)}
<1>1. n \in Nat
  OBVIOUS
<1>2. f[0] = st /\ \A i \in 1 .. n : f[i] = Done(acts[i], f[i - 1])
  BY RunDef DEF Runs
<1> HIDE DEF n, f
<1>3. 0 \in P
  BY <1>1, <1>2 DEF FromStart
<1>4. ASSUME NEW i \in 1 .. n, i - 1 \in P PROVE i \in P
  <2>1. ASSUME r \in f[i] PROVE Whence(i)
    <3>1. NetAdd(acts[i], r) \/ (r \in f[i - 1] /\ r \notin Takes(acts[i]))
      BY <1>2, <2>1, DoneIs
    <3>2. i \in 1 .. i /\ i + 1 .. i = {} /\ \A l \in 1 .. i : l = i \/ l \in 1 .. i - 1
      BY <1>1
    <3>3. CASE NetAdd(acts[i], r)
      <4>1. FromAct(acts, r, i, i)
        BY <3>2, <3>3 DEF FromAct
      <4> QED BY <3>2, <4>1
    <3>4. CASE r \in f[i - 1] /\ r \notin Takes(acts[i])
      <4>1. Whence(i - 1)
        BY <1>4, <3>4
      <4>2. FromStart(acts, st, r, i - 1) => FromStart(acts, st, r, i)
        BY <3>2, <3>4 DEF FromStart
      <4>3. ASSUME NEW j \in 1 .. i - 1, FromAct(acts, r, i - 1, j) PROVE j \in 1 .. i /\ FromAct(acts, r, i, j)
        <5>1. \A l \in j + 1 .. i : l = i \/ l \in j + 1 .. i - 1
          BY <1>1
        <5>2. FromAct(acts, r, i, j)
          BY <3>4, <4>3, <5>1 DEF FromAct
        <5> QED BY <1>1, <5>2
      <4> QED BY <4>1, <4>2, <4>3
    <3> QED BY <3>1, <3>3, <3>4
  <2> QED BY <1>1, <2>1
<1>5. k \in P
  <2> HIDE DEF P
  <2>1. 0 .. n \subseteq P
    BY <1>1, <1>3, <1>4, Climb
  <2> QED BY <2>1 DEF n
<1> QED BY <1>5 DEF f

\* A set of numbers up to n has a greatest one.
LEMMA Latest ==
  ASSUME NEW n \in Nat, NEW S, S \subseteq 0 .. n, S # {} PROVE \E k \in S : \A l \in S : l <= k
<1> DEFINE B == {m \in Nat : \A l \in S : l <= m}
<1>1. n \in B
  OBVIOUS
<1>2. PICK m \in B : \A l \in B : m <= l
  <2>1. B \subseteq Nat /\ B # {}
    BY <1>1
  <2> HIDE DEF B
  <2> QED BY <2>1, Least
<1>3. ASSUME m \notin S PROVE FALSE
  <2>1. PICK l \in S : TRUE
    OBVIOUS
  <2>2. l \in Nat /\ l < m
    BY <1>2, <1>3, <2>1
  <2>3. m - 1 \in Nat /\ \A i \in S : i <= m - 1
    BY <1>2, <1>3, <2>2
  <2>4. m - 1 \in B
    BY <2>3
  <2>5. m <= m - 1
    BY <1>2, <2>4
  <2> QED BY <1>2, <2>5
<1> QED BY <1>2, <1>3

\* Of two actions of which one takes away what the other needs or gives, one is above
\* the other.
Ordered(g, p) ==
  \A j \in 1 .. Len(p) : \A i \in 1 .. j - 1 :
    i \in Up(g, j) \/ ~(Spoils(p[i], p[j]) \/ Spoils(p[j], p[i]))

\* An action that takes a fact away is ordered with those that need it or give it.
LEMMA TakerOrdered ==
  ASSUME NEW g, NEW p, Ordered(g, p), NEW j \in 1 .. Len(p), NEW i \in 1 .. j - 1, NEW r,
         \/ r \in Takes(p[i]) /\ (NetAdd(p[j], r) \/ r \in Elements(Requirements(p[j])))
         \/ r \in Takes(p[j]) /\ NetAdd(p[i], r)
  PROVE  i \in Up(g, j)
<1>1. NetAdd(p[i], r) => r \in Gives(p[i])
  BY DEF NetAdd, Gives
<1>2. NetAdd(p[j], r) => r \in Gives(p[j])
  BY DEF NetAdd, Gives
<1>3. Spoils(p[i], p[j]) \/ Spoils(p[j], p[i])
  BY <1>1, <1>2 DEF Spoils
<1> QED BY <1>3 DEF Ordered

\* Where a fact in the state before a node comes from: from the start, and nothing above
\* takes it away; or from an action above, and those above that take it away come before.
KeptAbove(g, p, st, r, b) == r \in st /\ \A d \in Up(g, b) : r \notin Takes(p[d])
AddedAbove(g, p, r, b, c) == NetAdd(p[c], r) /\ \A d \in Up(g, b) : r \in Takes(p[d]) => d <= c

LEMMA StateWhence ==
  ASSUME NEW p \in Seq(Actions), NEW st \in SUBSET Facts, NEW g, Built(g, Len(p), p, st),
         Ordered(g, p), NEW b \in 1 .. Len(p), NEW r, r \in g.state[b]
  PROVE  KeptAbove(g, p, st, r, b) \/ \E c \in Up(g, b) : AddedAbove(g, p, r, b, c)
<1> DEFINE n == Len(p)
           s == Above(g)[b]
           acts == [k \in DOMAIN s |-> p[s[k]]]
<1>1. n \in Nat /\ g.in \in In(n) /\ Stands(g, p, st, b) /\ \A i \in 1 .. n : p[i] \in Actions
  BY DEF Built, Shape
<1>2. Reaches(g, n, b)
  BY <1>1, AboveIs
<1>3. /\ s \in Seq(1 .. b - 1) /\ IsInjective(s) /\ Sorted(s, Over(g, n))
      /\ Up(g, b) \subseteq 1 .. b - 1 /\ Up(g, b) = Elements(s)
  BY <1>2 DEF Reaches, Up
<1>4. DOMAIN s = 1 .. Len(s) /\ Len(s) \in Nat /\ \A k \in DOMAIN s : s[k] \in 1 .. b - 1
  BY <1>3, SeqParts
<1> HIDE DEF s
<1>5. \A k \in DOMAIN s : s[k] \in 1 .. n
  BY <1>1, <1>4
<1>6. acts \in Seq(Actions) /\ Len(acts) = Len(s) /\ \A k \in 1 .. Len(s) : acts[k] = p[s[k]]
  <2>1. acts \in [1 .. Len(s) -> Actions]
    BY <1>1, <1>4, <1>5
  <2>2. \A k \in 1 .. Len(s) : acts[k] = p[s[k]]
    BY <1>4
  <2> HIDE DEF acts
  <2> QED BY <1>4, <2>1, <2>2, SeqOf
<1>7. g.state[b] = Run(acts, st)[Len(acts)]
  BY <1>1 DEF Stands, get_state, After, Run, s
<1> HIDE DEF acts, n
<1>8. Len(acts) \in 0 .. Len(acts)
  BY <1>4, <1>6
<1>9. FromStart(acts, st, r, Len(acts)) \/ \E x \in 1 .. Len(acts) : FromAct(acts, r, Len(acts), x)
  BY <1>6, <1>7, <1>8, RunWhence
<1>10. CASE FromStart(acts, st, r, Len(acts))
  <2>1. \A k \in DOMAIN s : r \notin Takes(p[s[k]])
    BY <1>4, <1>6, <1>10 DEF FromStart
  <2>2. KeptAbove(g, p, st, r, b)
    BY <1>3, <1>10, <2>1 DEF KeptAbove, FromStart, Elements
  <2> QED BY <2>2
<1>11. CASE \E x \in 1 .. Len(acts) : FromAct(acts, r, Len(acts), x)
  <2>1. PICK x \in DOMAIN s : /\ NetAdd(p[s[x]], r)
                              /\ \A y \in DOMAIN s : y > x => r \notin Takes(p[s[y]])
    <3>1. PICK x \in 1 .. Len(acts) : FromAct(acts, r, Len(acts), x)
      BY <1>11
    <3>2. \A y \in DOMAIN s : y > x => y \in x + 1 .. Len(acts)
      BY <1>4, <1>6
    <3> QED BY <1>4, <1>6, <3>1, <3>2 DEF FromAct
  <2> DEFINE c == s[x]
  <2>2. c \in Up(g, b) /\ c \in 1 .. n /\ c \in Nat
    BY <1>3, <1>5 DEF Elements
  <2>3. ASSUME NEW d \in Up(g, b), r \in Takes(p[d]), ~(d <= c) PROVE FALSE
    <3>1. PICK y \in DOMAIN s : d = s[y]
      BY <1>3 DEF Elements
    <3>2. d \in 1 .. n /\ c \in 1 .. d - 1
      BY <1>5, <2>2, <2>3, <3>1
    <3>3. c \in Up(g, d)
      BY <2>1, <2>3, <3>2, TakerOrdered DEF n
    <3>4. <<c, s[y]>> \in Over(g, n)
      BY <2>2, <3>1, <3>2, <3>3 DEF Over
    <3>5. PICK z \in 1 .. y - 1 : s[z] = c
      BY <1>3, <3>4 DEF Sorted
    <3>6. z \in DOMAIN s
      BY <1>4, <3>5
    <3>7. z = x
      BY <1>3, <3>5, <3>6 DEF IsInjective
    <3>8. y > x
      BY <1>4, <3>5, <3>7
    <3> QED BY <2>1, <2>3, <3>1, <3>8
  <2>4. AddedAbove(g, p, r, b, c)
    BY <2>1, <2>3 DEF AddedAbove
  <2> QED BY <2>2, <2>4
<1> QED BY <1>9, <1>10, <1>11

\* What an action needs, and one after the other would have, comes from the start or from
\* an action above it, and is not taken away in between.
LEMMA Supply ==
  ASSUME NEW p \in Seq(Actions), NEW st \in SUBSET Facts, NEW g, Built(g, Len(p), p, st),
         Ordered(g, p), NEW k \in 1 .. Len(p), NEW r \in Elements(Requirements(p[k])),
         r \in Run(p, st)[k - 1]
  PROVE  FromStart(p, st, r, k - 1) \/ \E i \in Up(g, k) : FromAct(p, r, k - 1, i)
<1> DEFINE n == Len(p)
           taker(d) == r \in Takes(p[d])
<1>1. /\ n \in Nat /\ g.in \in In(n) /\ Earned(g, p, k) /\ k \in 1 .. n /\ k \in Nat
      /\ k - 1 \in 0 .. n
  BY DEF Built, Shape
<1>2. \A i \in 1 .. n : Up(g, i) \subseteq 1 .. i - 1
  BY <1>1, AboveIs DEF Reaches
<1> HIDE DEF n
<1>3. ASSUME NEW d \in 1 .. k - 1, taker(d) PROVE d \in Up(g, k)
  BY <1>1, <1>3, TakerOrdered DEF n
<1>4. ASSUME NEW b \in 1 .. k, r \in g.state[b],
             \A d \in 1 .. b - 1 : taker(d) => d \in Up(g, b)
      PROVE  FromStart(p, st, r, b - 1) \/ \E c \in Up(g, b) : FromAct(p, r, b - 1, c)
  <2>1. b \in 1 .. n
    BY <1>1
  <2>2. KeptAbove(g, p, st, r, b) \/ \E c \in Up(g, b) : AddedAbove(g, p, r, b, c)
    BY <1>4, <2>1, StateWhence DEF n
  <2>3. ASSUME KeptAbove(g, p, st, r, b) PROVE FromStart(p, st, r, b - 1)
    BY <1>4, <2>3 DEF KeptAbove, FromStart
  <2>4. ASSUME NEW c \in Up(g, b), AddedAbove(g, p, r, b, c) PROVE FromAct(p, r, b - 1, c)
    <3>1. c \in 1 .. b - 1
      BY <1>2, <2>1
    <3>2. \A d \in c + 1 .. b - 1 : d \in 1 .. b - 1 /\ ~(d <= c)
      BY <3>1
    <3> QED BY <1>4, <2>4, <3>2 DEF AddedAbove, FromAct
  <2> QED BY <2>2, <2>3, <2>4
<1>5. CASE r \in g.state[k]
  <2>1. k \in 1 .. k
    BY <1>1
  <2> QED BY <1>3, <1>4, <1>5, <2>1
<1>6. CASE Met(g, p, r, k)
  <2>1. PICK q \in Up(g, k) : q \in 1 .. k - 1 /\ LastSource(g, p, q, r, k - 1)
    BY <1>6 DEF Met
  <2>2. NetAdd(p[q], r)
    BY <2>1, DoneIs DEF LastSource, Source
  <2> DEFINE D == {d \in q + 1 .. k - 1 : taker(d)}
  <2>3. CASE D = {}
    <3>1. FromAct(p, r, k - 1, q)
      BY <2>2, <2>3 DEF FromAct
    <3> QED BY <2>1, <3>1
  <2>4. CASE D # {}
    <3>1. PICK t \in D : \A d \in D : d <= t
      <4>1. D \subseteq 0 .. k - 1 /\ k - 1 \in Nat
        BY <1>1, <2>1
      <4> HIDE DEF D
      <4> QED BY <2>4, <4>1, Latest
    <3>2. t \in q + 1 .. k - 1 /\ t \in 1 .. k - 1 /\ t \in 1 .. n /\ taker(t)
      BY <1>1, <2>1
    <3>3. t \in Up(g, k)
      BY <1>3, <3>2
    <3>4. \A d \in t + 1 .. k - 1 : ~taker(d)
      <4>1. \A d \in t + 1 .. k - 1 : d \in q + 1 .. k - 1 /\ ~(d <= t)
        BY <2>1, <3>2
      <4> QED BY <3>1, <4>1
    <3> HIDE DEF D
    <3>5. CASE NetAdd(p[t], r)
      <4>1. FromAct(p, r, k - 1, t)
        BY <3>4, <3>5 DEF FromAct
      <4> QED BY <3>3, <4>1
    <3>6. CASE ~NetAdd(p[t], r)
      <4> DEFINE B == {b \in t + 1 .. k - 1 : NetAdd(p[b], r)}
      <4>1. B # {}
        <5>1. FromStart(p, st, r, k - 1) \/ \E j \in 1 .. k - 1 : FromAct(p, r, k - 1, j)
          BY <1>1, RunWhence DEF n
        <5>2. ~FromStart(p, st, r, k - 1)
          BY <3>2 DEF FromStart
        <5>3. PICK j \in 1 .. k - 1 : FromAct(p, r, k - 1, j)
          BY <5>1, <5>2
        <5>4. t \notin j + 1 .. k - 1 /\ NetAdd(p[j], r)
          BY <3>2, <5>3 DEF FromAct
        <5>5. j # t
          BY <3>6, <5>4
        <5>6. j \in t + 1 .. k - 1
          BY <3>2, <5>4, <5>5
        <5> QED BY <5>4, <5>6
      <4>2. PICK b \in B : \A c \in B : b <= c
        <5>1. B \subseteq Nat
          BY <3>2
        <5> HIDE DEF B
        <5> QED BY <4>1, <5>1, Least
      <4>3. /\ b \in t + 1 .. k - 1 /\ NetAdd(p[b], r) /\ t \in 1 .. b - 1
            /\ b \in 1 .. n /\ b \in 1 .. k - 1 /\ b \in 1 .. k /\ q \in 1 .. t - 1
        BY <1>1, <2>1, <3>2
      <4>4. t \in Up(g, b)
        BY <3>2, <4>3, TakerOrdered DEF n
      <4>5. q \in Up(g, t)
        BY <2>2, <3>2, <4>3, TakerOrdered DEF n
      <4>6. q \in Up(g, b)
        BY <1>1, <4>3, <4>4, <4>5, UpTransitive
      <4>7. ASSUME r \in g.state[b] PROVE FALSE
        <5>1. \A d \in 1 .. b - 1 : taker(d) => d \in Up(g, b)
          BY <4>3, TakerOrdered DEF n
        <5>2. FromStart(p, st, r, b - 1) \/ \E c \in Up(g, b) : FromAct(p, r, b - 1, c)
          BY <1>4, <4>3, <4>7, <5>1
        <5>3. ~FromStart(p, st, r, b - 1)
          BY <3>2, <4>3 DEF FromStart
        <5>4. PICK c \in Up(g, b) : FromAct(p, r, b - 1, c)
          BY <5>2, <5>3
        <5>5. c \in 1 .. b - 1 /\ NetAdd(p[c], r)
          BY <1>2, <4>3, <5>4 DEF FromAct
        <5>6. t \notin c + 1 .. b - 1
          BY <3>2, <5>4 DEF FromAct
        <5>7. c # t
          BY <3>6, <5>5
        <5>8. c \in t + 1 .. k - 1 /\ c < b
          BY <3>2, <4>3, <5>5, <5>6, <5>7
        <5> QED BY <4>2, <4>3, <5>5, <5>8
      <4>8. Source(g, p, b, r)
        BY <4>3, <4>7, DoneIs DEF Source
      <4> QED BY <2>1, <4>3, <4>6, <4>8 DEF LastSource
    <3> QED BY <3>5, <3>6
  <2> QED BY <2>3, <2>4
<1> QED BY <1>1, <1>5, <1>6 DEF Earned

-----------------------------------------------------------------------------
(* What comes before an action of the plan.                                *)

\* The positions from which an arc leads to a position.
Direct(arcs, i) == {j \in 1 .. i - 1 : plan[i] \in DOMAIN arcs /\ plan[j] \in arcs[plan[i]]}
Reached(arcs, i) ==
  /\ Before(arcs)[i] \subseteq 1 .. i - 1
  /\ \A x : x \in Before(arcs)[i] <=> \E j \in Direct(arcs, i) : x \in Before(arcs)[j] \/ x = j

LEMMA BeforeDef ==
  ASSUME plan \in Seq(Actions), NEW arcs
  PROVE  \A i \in DOMAIN plan : Reached(arcs, i)
<1> DEFINE n == Len(plan)
           U == SUBSET (1 .. n)
           Step(w, i) == LET in == {j \in 1 .. i - 1 : plan[i] \in DOMAIN arcs /\ plan[j] \in arcs[plan[i]]}
                         IN in \union UNION {w[j] : j \in in}
           up[i \in DOMAIN plan] == Step(up, i)
           G == [i \in 1 .. n |-> [w \in [1 .. n -> U] |-> Step(w, i)]]
           B == Before(arcs)
<1>1. B = up
  BY DEF Before
<1>2. up = CHOOSE h : h = [i \in DOMAIN plan |-> Step(h, i)]
  BY DEF up
<1>3. n \in Nat /\ DOMAIN plan = 1 .. n
  BY SeqParts
<1>4. \A w, i : Step(w, i) = Direct(arcs, i) \union UNION {w[j] : j \in Direct(arcs, i)}
  BY DEF Direct
<1> HIDE DEF n, up, Step, B
<1>5. \A i \in 1 .. n : Direct(arcs, i) \subseteq 1 .. n /\ Direct(arcs, i) \subseteq 1 .. i - 1
  BY <1>3 DEF Direct
<1>6. \A w, i, x : x \in Step(w, i) <=> \E j \in Direct(arcs, i) : x \in w[j] \/ x = j
  BY <1>4
<1>7. ASSUME NEW i \in 1 .. n, NEW w, \A j \in 1 .. n : w[j] \in SUBSET (1 .. n)
      PROVE  Step(w, i) \in SUBSET (1 .. n)
  <2>1. \A j \in Direct(arcs, i) : j \in 1 .. n /\ w[j] \subseteq 1 .. n
    BY <1>5, <1>7
  <2>2. ASSUME NEW x \in Step(w, i) PROVE x \in 1 .. n
    <3>1. PICK j \in Direct(arcs, i) : x \in w[j] \/ x = j
      BY <1>6
    <3> QED BY <2>1, <3>1
  <2> QED BY <2>2
<1>8. ASSUME NEW i \in 1 .. n, NEW w, NEW v, \A j \in 1 .. i - 1 : w[j] = v[j]
      PROVE  Step(w, i) = Step(v, i)
  <2>1. \A j \in Direct(arcs, i) : w[j] = v[j]
    BY <1>5, <1>8
  <2>2. \A x : x \in Step(w, i) <=> \E j \in Direct(arcs, i) : x \in w[j] \/ x = j
    BY <1>6
  <2>3. \A x : x \in Step(v, i) <=> \E j \in Direct(arcs, i) : x \in v[j] \/ x = j
    BY <1>6
  <2>4. \A x : x \in Step(w, i) <=> x \in Step(v, i)
    BY <2>1, <2>2, <2>3
  <2> DEFINE A1 == Step(w, i)
             A2 == Step(v, i)
  <2>6. \A x : x \in A1 <=> x \in A2
    BY <2>4
  <2> HIDE DEF A1, A2
  <2>7. A1 = A2
    BY <2>6
  <2> QED BY <2>7 DEF A1, A2
<1>9. PICK w \in [1 .. n -> U] : \A i \in 1 .. n : w[i] = Step(w, i)
  <2>1. U # {}
    OBVIOUS
  <2> HIDE DEF U
  <2>2. G \in [1 .. n -> [[1 .. n -> U] -> U]] /\ \A i \in 1 .. n, w \in [1 .. n -> U] : G[i][w] = Step(w, i)
    <3>1. \A i \in 1 .. n, w \in [1 .. n -> U] : Step(w, i) \in U
      BY <1>7 DEF U
    <3> QED BY <3>1
  <2> HIDE DEF G
  <2>3. GoesBack(G, n, U)
    <3>1. ASSUME NEW i \in 1 .. n, NEW w \in [1 .. n -> U], NEW v \in [1 .. n -> U],
                 \A j \in 1 .. i - 1 : w[j] = v[j]
          PROVE  G[i][w] = G[i][v]
      <4>1. Step(w, i) = Step(v, i)
        BY <1>8, <3>1
      <4>2. G[i][w] = Step(w, i) /\ G[i][v] = Step(v, i)
        BY <2>2
      <4> QED BY <4>1, <4>2
    <3> QED BY <2>1, <2>2, <3>1 DEF GoesBack
  <2>4. \E w \in [1 .. n -> U] : \A i \in 1 .. n : w[i] = G[i][w]
    BY <1>3, <2>3, Recourse
  <2> QED BY <2>2, <2>4
<1>10. w = [i \in DOMAIN plan |-> Step(w, i)]
  BY <1>3, <1>9
<1>11. up = [i \in DOMAIN plan |-> Step(up, i)]
  BY <1>2, <1>10
<1>12. \A i \in 1 .. n : B[i] = Step(B, i)
  BY <1>1, <1>3, <1>11, Zenon
<1> DEFINE P == {i \in 1 .. n : B[i] \subseteq 1 .. i - 1}
<1>13. ASSUME NEW i \in 1 .. n, \A j \in 1 .. i - 1 : j \in P PROVE i \in P
  <2>1. ASSUME NEW x \in B[i] PROVE x \in 1 .. i - 1
    <3>1. PICK j \in Direct(arcs, i) : x \in B[j] \/ x = j
      BY <1>6, <1>12
    <3>2. j \in 1 .. i - 1 /\ B[j] \subseteq 1 .. j - 1
      BY <1>5, <1>13, <3>1
    <3> QED BY <3>1, <3>2
  <2> QED BY <2>1
<1>14. 1 .. n \subseteq P
  <2> HIDE DEF P
  <2> QED BY <1>3, <1>13, Ascend
<1>15. \A i \in 1 .. n : \A x : x \in B[i] <=> \E j \in Direct(arcs, i) : x \in B[j] \/ x = j
  BY <1>6, <1>12
<1> QED BY <1>3, <1>14, <1>15 DEF Reached, B

\* What comes before by some of the arcs comes before by all of them.
LEMMA BeforeWithin ==
  ASSUME plan \in Seq(Actions), NEW some, NEW all,
         \A i \in DOMAIN plan : Direct(some, i) \subseteq Direct(all, i)
  PROVE  \A i \in DOMAIN plan : Before(some)[i] \subseteq Before(all)[i]
<1> DEFINE n == Len(plan)
           P == {i \in 1 .. n : Before(some)[i] \subseteq Before(all)[i]}
<1>1. n \in Nat /\ DOMAIN plan = 1 .. n
  BY SeqParts
<1>2. \A i \in 1 .. n : Reached(some, i) /\ Reached(all, i)
  BY <1>1, BeforeDef
<1> HIDE DEF n
<1>3. ASSUME NEW i \in 1 .. n, \A j \in 1 .. i - 1 : j \in P PROVE i \in P
  <2>1. ASSUME NEW x \in Before(some)[i] PROVE x \in Before(all)[i]
    <3>1. PICK j \in Direct(some, i) : x \in Before(some)[j] \/ x = j
      BY <1>2 DEF Reached
    <3>2. j \in Direct(all, i) /\ j \in 1 .. i - 1
      BY <1>1, <3>1 DEF Direct
    <3>3. x \in Before(all)[j] \/ x = j
      BY <1>3, <3>1, <3>2
    <3> QED BY <1>2, <3>2, <3>3 DEF Reached
  <2> QED BY <2>1
<1>4. 1 .. n \subseteq P
  <2> HIDE DEF P
  <2> QED BY <1>1, <1>3, Ascend
<1> QED BY <1>1, <1>4

\* What is above something that comes before comes before.
LEMMA BeforeLast ==
  ASSUME plan \in Seq(Actions), NEW arcs, NEW i \in DOMAIN plan, NEW x \in Before(arcs)[i]
  PROVE  x \in DOMAIN plan /\ x < i
         /\ \E j \in Direct(arcs, i) : j \in DOMAIN plan /\ j < i /\ (x = j \/ x \in Before(arcs)[j])
<1>1. Reached(arcs, i) /\ DOMAIN plan = 1 .. Len(plan) /\ Len(plan) \in Nat
  BY BeforeDef, SeqParts
<1>2. PICK j \in Direct(arcs, i) : x \in Before(arcs)[j] \/ x = j
  BY <1>1 DEF Reached
<1>3. j \in 1 .. i - 1
  BY <1>2 DEF Direct
<1> QED BY <1>1, <1>2, <1>3 DEF Reached

\* The tree that the builder makes of a plan, if it has all actions of the plan, has the
\* arcs of a graph of which the builder has kept all promises.
Trusted(g, p, st) ==
  /\ Built(g, Len(p), p, st)
  /\ ~g.failed /\ ~tree.failed /\ Elements(tree.order) = Elements(p)
  /\ \A i \in DOMAIN p : p[i] \in DOMAIN tree.waits /\ p[i] \in DOMAIN tree.under
  /\ \A i \in DOMAIN p : tree.waits[p[i]] = {p[j] : j \in Elements(g.in[i])}

LEMMA TreeTrusted ==
  ASSUME NEW p \in Seq(Actions), IsInjective(p), NEW st, tree = get_tree(p, st),
         Elements(tree.order) = Elements(p)
  PROVE  Trusted(build_action_graph(p, st), p, st)
<1> DEFINE g == build_action_graph(p, st)
           n == Len(p)
           order == Visits(g)
           node(a) == CHOOSE i \in DOMAIN p : p[i] = a
           names == {p[i] : i \in Elements(order)}
<1>1. PICK m \in 0 .. n : Built(g, m, p, st) /\ (g.failed <=> m # n)
  BY BuildBuilt DEF Good
<1> HIDE DEF g
<1>2. /\ tree.failed = g.failed
      /\ tree.order = [k \in DOMAIN order |-> p[order[k]]]
      /\ tree.waits = [a \in names |-> {p[j] : j \in Elements(g.in[node(a)])}]
      /\ DOMAIN tree.under = names
  BY DEF get_tree, TreeOf, Rendered, g
<1>3. n \in Nat /\ DOMAIN p = 1 .. n /\ g.out \in Out(m) /\ g.roots \in 0 .. m /\ g.in \in In(m)
  BY <1>1, SeqParts DEF Built, Shape
<1>4. order \in Seq(1 .. m)
  BY <1>3, WalkTyped, FirstOfTyped DEF Visits
<1>5. \A i \in Elements(order) : i \in 1 .. m
  BY <1>4, SeqParts DEF Elements
<1> HIDE DEF order, n
<1>6. \A i, j \in 1 .. n : p[i] = p[j] => i = j
  BY <1>3 DEF IsInjective
<1>7. Elements(tree.order) = names
  <2>1. DOMAIN tree.order = DOMAIN order /\ \A k \in DOMAIN order : tree.order[k] = p[order[k]]
    BY <1>2
  <2> QED BY <2>1 DEF Elements
<1>8. ASSUME NEW i \in 1 .. n PROVE i \in Elements(order)
  <2>1. p[i] \in names
    BY <1>3, <1>7 DEF Elements
  <2>2. PICK j \in Elements(order) : p[i] = p[j]
    BY <2>1
  <2>3. j \in 1 .. n
    BY <1>1, <1>3, <1>5
  <2> QED BY <1>6, <2>2, <2>3
<1>9. m = n
  <2>1. n # 0 => n \in 1 .. m
    BY <1>3, <1>5, <1>8
  <2> QED BY <1>1, <1>3, <2>1
<1>10. \A i \in 1 .. n : p[i] \in names /\ node(p[i]) = i
  <2>1. \A i \in 1 .. n : node(p[i]) = i
    BY <1>3, <1>6
  <2> QED BY <1>8, <2>1
<1>11. \A i \in 1 .. n : tree.waits[p[i]] = {p[j] : j \in Elements(g.in[i])}
  <2>1. ASSUME NEW i \in 1 .. n PROVE tree.waits[p[i]] = {p[j] : j \in Elements(g.in[i])}
    <3> DEFINE a == p[i]
    <3>1. a \in names /\ node(a) = i
      BY <1>10
    <3> HIDE DEF a, names, node
    <3>2. tree.waits[a] = {p[j] : j \in Elements(g.in[node(a)])}
      BY <1>2, <3>1, Zenon
    <3> QED BY <3>1, <3>2 DEF a
  <2> QED BY <2>1
<1>12. Built(g, Len(p), p, st)
  BY <1>1, <1>9 DEF n
<1>13. ~g.failed /\ ~tree.failed
  BY <1>1, <1>2, <1>9
<1>14. DOMAIN tree.waits = names
  BY <1>2
<1>15. \A i \in DOMAIN p : p[i] \in DOMAIN tree.waits /\ p[i] \in DOMAIN tree.under
  BY <1>2, <1>3, <1>10, <1>14
<1> QED BY <1>3, <1>11, <1>12, <1>13, <1>15 DEF Trusted, g

\* Those that come before by the arcs of the tree are those above in the graph.
LEMMA WaitsAreUp ==
  ASSUME plan \in Seq(Actions), IsInjective(plan), NEW g, NEW st, Trusted(g, plan, st)
  PROVE  \A k \in DOMAIN plan : \A x : x \in Before(tree.waits)[k] <=> x \in Up(g, k)
<1> DEFINE n == Len(plan)
           P == {k \in 1 .. n : \A x : x \in Before(tree.waits)[k] <=> x \in Up(g, k)}
<1>1. n \in Nat /\ DOMAIN plan = 1 .. n /\ g.in \in In(n)
  BY SeqParts DEF Trusted, Built, Shape
<1>2. ASSUME NEW k \in 1 .. n, \A j \in 1 .. k - 1 : j \in P PROVE k \in P
  <2>1. Reached(tree.waits, k)
    BY <1>1, BeforeDef
  <2>2. Reaches(g, n, k)
    BY <1>1, AboveIs
  <2>3. \A i, j \in 1 .. n : plan[i] = plan[j] => i = j
    BY <1>1 DEF IsInjective
  <2>4. plan[k] \in DOMAIN tree.waits /\ tree.waits[plan[k]] = {plan[j] : j \in Elements(g.in[k])}
    BY <1>1 DEF Trusted
  <2>5. Elements(g.in[k]) \subseteq 1 .. k - 1
    BY <2>2 DEF Reaches
  <2>6. ASSUME NEW j PROVE j \in Direct(tree.waits, k) <=> j \in Elements(g.in[k])
    <3>1. ASSUME j \in Elements(g.in[k]) PROVE j \in Direct(tree.waits, k)
      BY <2>4, <2>5, <3>1 DEF Direct
    <3>2. ASSUME j \in Direct(tree.waits, k) PROVE j \in Elements(g.in[k])
      <4>1. j \in 1 .. k - 1 /\ plan[j] \in tree.waits[plan[k]]
        BY <3>2 DEF Direct
      <4>2. PICK i \in Elements(g.in[k]) : plan[j] = plan[i]
        BY <2>4, <4>1
      <4>3. j \in 1 .. n /\ i \in 1 .. n
        BY <1>1, <2>5, <4>1
      <4> QED BY <2>3, <4>2, <4>3
    <3> QED BY <3>1, <3>2
  <2>7. \A x : x \in Before(tree.waits)[k] <=> \E j \in Elements(g.in[k]) : x \in Before(tree.waits)[j] \/ x = j
    BY <2>1, <2>6 DEF Reached
  <2>8. \A x : x \in Up(g, k) <=> \E j \in Elements(g.in[k]) : x \in Up(g, j) \/ x = j
    BY <2>2 DEF Reaches
  <2>9. \A j \in Elements(g.in[k]) : \A x : x \in Before(tree.waits)[j] <=> x \in Up(g, j)
    BY <1>2, <2>5
  <2> QED BY <2>7, <2>8, <2>9
<1>3. 1 .. n \subseteq P
  <2> HIDE DEF P, n
  <2> QED BY <1>1, <1>2, Ascend
<1> QED BY <1>1, <1>3

\* Blocks are nested along arcs only.
LEMMA UnderWithin ==
  ASSUME plan \in Seq(Actions), NEW g, NEW st, Trusted(g, plan, st), Fits(tree, plan)
  PROVE  \A k \in DOMAIN plan : Before(tree.under)[k] \subseteq Before(tree.waits)[k]
<1>1. ASSUME NEW k \in DOMAIN plan PROVE Direct(tree.under, k) \subseteq Direct(tree.waits, k)
  <2>1. plan[k] \in Elements(tree.order)
    BY DEF Trusted, Elements
  <2>2. tree.under[plan[k]] \subseteq tree.waits[plan[k]] /\ plan[k] \in DOMAIN tree.waits
    BY <2>1 DEF Trusted, Fits
  <2> QED BY <2>2 DEF Direct
<1> QED BY <1>1, BeforeWithin

LEMMA ValidIs ==
  ASSUME NEW p, NEW st, Valid(p, st), NEW k \in DOMAIN p
  PROVE  /\ check(Act[p[k]].atStartReq, Run(p, st)[k - 1])
         /\ check(Act[p[k]].overAllReq \o Act[p[k]].atEndReq, Started(p[k], Run(p, st)[k - 1]))
BY DEF Valid, Run

\* What an action needs comes from the start, or from an action that it comes after, and
\* nothing in the plan takes it away in between.
Supplied(k, r) ==
  \/ FromStart(plan, InitialFacts, r, k - 1)
  \/ \E i \in Before(tree.waits)[k] : FromAct(plan, r, k - 1, i)

\* What the builder promises, for every repertory, plan and state: if the tree has all actions
\* of the plan and nests the blocks of those that spoil one another, then each requirement that
\* the plan fulfils one action at a time is fulfilled from what the action comes after.
THEOREM TreeSupplies ==
  ASSUME plan \in Plans, tree = get_tree(plan, InitialFacts), Orders(Before(tree.under))
  PROVE  /\ ~tree.failed
         /\ \A k \in DOMAIN plan : \A r \in Elements(Requirements(plan[k])) :
              r \in Run(plan, InitialFacts)[k - 1] => Supplied(k, r)
<1> DEFINE g == build_action_graph(plan, InitialFacts)
<1>1. plan \in Seq(Actions) /\ IsInjective(plan) /\ InitialFacts \in SUBSET Facts
  BY PlanAssumption
<1>2. Trusted(g, plan, InitialFacts)
  BY <1>1, TreeTrusted DEF Orders
<1>3. Fits(tree, plan)
  BY <1>1, TreeFits
<1> HIDE DEF g
<1>4. Built(g, Len(plan), plan, InitialFacts) /\ ~tree.failed /\ DOMAIN plan = 1 .. Len(plan) /\ Len(plan) \in Nat
  BY <1>1, <1>2, SeqParts DEF Trusted
<1>5. \A k \in DOMAIN plan : \A x : x \in Before(tree.waits)[k] <=> x \in Up(g, k)
  BY <1>1, <1>2, WaitsAreUp
<1>6. Ordered(g, plan)
  <2>1. ASSUME NEW j \in 1 .. Len(plan), NEW i \in 1 .. j - 1, Spoils(plan[i], plan[j]) \/ Spoils(plan[j], plan[i])
        PROVE  i \in Up(g, j)
    <3>1. i \in DOMAIN plan /\ j \in DOMAIN plan /\ i < j
      BY <1>4
    <3>2. i \in Before(tree.under)[j]
      BY <2>1, <3>1 DEF Orders
    <3>3. i \in Before(tree.waits)[j]
      BY <1>1, <1>2, <1>3, <3>1, <3>2, UnderWithin
    <3> QED BY <1>5, <3>1, <3>3
  <2> QED BY <2>1 DEF Ordered
<1>7. ASSUME NEW k \in DOMAIN plan, NEW r \in Elements(Requirements(plan[k])),
             r \in Run(plan, InitialFacts)[k - 1]
      PROVE  Supplied(k, r)
  <2>1. k \in 1 .. Len(plan)
    BY <1>4
  <2>2. FromStart(plan, InitialFacts, r, k - 1) \/ \E i \in Up(g, k) : FromAct(plan, r, k - 1, i)
    BY <1>1, <1>4, <1>6, <1>7, <2>1, Supply
  <2> QED BY <1>5, <2>2 DEF Supplied
<1> QED BY <1>4, <1>7

-----------------------------------------------------------------------------
(* A mission that nobody disturbs.                                         *)

\* The first mission carries out a plan that was valid when it began.
FirstInv ==
  /\ missions \in Nat /\ changes \in Nat /\ failures \in Nat
  /\ missions = 0 => mission = "idle" /\ facts = InitialFacts
  /\ missions = 1 => /\ plan \in Plans /\ Valid(plan, InitialFacts)
                     /\ tree = get_tree(plan, InitialFacts)

\* A leaf leaves the goal as it is.
LEMMA LeafGoal ==
  ASSUME NEW a \in Actions, Leaf(a)
  PROVE  /\ mission = "executing" /\ UNCHANGED <<plan, tree, missions, changes>>
         /\ failures' \in {failures, failures + 1}
<1>1. ASSUME NEW leaf, Proceed(a, leaf) \/ Pause(a, leaf) PROVE UNCHANGED <<plan, tree, missions>>
  BY <1>1 DEF Proceed, Pause, goal
<1>2. ASSUME NEW ex, Fail(a, ex) PROVE UNCHANGED <<plan, tree, missions>>
  BY <1>2 DEF Fail
<1>3. CASE WaitAction(a) \/ WaitAtStartReq(a) \/ ApplyAtStartEffect(a)
  BY <1>1, <1>3 DEF WaitAction, WaitAtStartReq, ApplyAtStartEffect, At
<1>4. CASE CheckOverAllReq(a) \/ CheckAtEndReq(a)
  BY <1>1, <1>2, <1>4 DEF CheckOverAllReq, Broken, CheckAtEndReq, At
<1>5. CASE ExecuteAction(a)
  BY <1>1, <1>2, <1>5 DEF ExecuteAction, Broken, At
<1>6. CASE ApplyAtEndEffect(a)
  BY <1>6 DEF ApplyAtEndEffect, Complete, At
<1> QED BY <1>3, <1>4, <1>5, <1>6 DEF Leaf

LEMMA FirstHolds == Spec => []FirstInv
<1>1. Init => FirstInv
  BY DEF Init, FirstInv
<1>2. FirstInv /\ [Next]_vars => FirstInv'
  <2> SUFFICES ASSUME FirstInv, [Next]_vars PROVE FirstInv'
    OBVIOUS
  <2>1. CASE StartTick \/ \E a \in Actions : Confirm(a) \/ Finish(a)
    BY <2>1 DEF StartTick, Confirm, Finish, goal, FirstInv
  <2>2. CASE \E a \in Actions : Leaf(a)
    BY <2>2, LeafGoal DEF FirstInv
  <2>3. CASE \E f \in Facts : Change(f)
    BY <2>3 DEF Change, goal, FirstInv
  <2>4. ASSUME NEW r \in AllOffers, r[1] = facts, NEW x \in r[2],
               NewMission(x.plan, x.tree) \/ \E z \in 1 .. Len(x.plan) : Replan(x.plan, x.tree, z)
        PROVE  FirstInv'
    <3>1. UNCHANGED <<changes, failures>> /\ missions' = missions + 1 /\ plan' = x.plan /\ tree' = x.tree
      BY <2>4 DEF NewMission, Replan
    <3>2. missions = 0 => x \in Offers(InitialFacts)
      BY <2>4 DEF AllOffers, FirstInv
    <3>3. missions = 0 => x.plan \in Plans /\ Valid(x.plan, InitialFacts)
                          /\ x.tree = get_tree(x.plan, InitialFacts)
      BY <3>2 DEF Offers
    <3>4. missions \in Nat /\ missions' # 0 /\ (missions' = 1 => missions = 0)
      BY <3>1 DEF FirstInv
    <3> QED BY <3>1, <3>3, <3>4 DEF FirstInv, Valid
  <2>5. CASE UNCHANGED vars
    BY <2>5 DEF vars, counters, FirstInv
  <2> QED BY <2>1, <2>2, <2>3, <2>4, <2>5 DEF Next
<1> QED BY <1>1, <1>2, PTL DEF Spec

\* Each action goes through its leaves once, and no work fails.
Steady(a) ==
  /\ executor[a] \notin {"failure", "cancelled"}
  /\ stage[a] \in {"wait", "start", "effect"} => executor[a] = "idle" /\ ~startDone[a]
  /\ endDone[a] => stage[a] = "done"
SteadyInv == Undisturbed /\ mission = "executing" => \A a \in Actions : Steady(a)

\* The leaves of such a mission: the block goes on to the next one in the same turn, or
\* leaves off there until it is ticked again; or what it needs does not hold.
Moves(a, from, to) ==
  /\ At(a, from) /\ stage' = [stage EXCEPT ![a] = to]
  /\ UNCHANGED <<plan, tree, missions, changes, failures>> /\ mission' \in {mission, "succeeded"}
GoesOn(a, from, to)    == Moves(a, from, to) /\ turn' = turn /\ executor' = executor
LeavesOff(a, from, to) == Moves(a, from, to) /\ turn' = NextTurn(turn, stage')
Same == UNCHANGED <<facts, startDone, endDone>>

Looks(a) ==
  /\ Same
  /\ \/ LeavesOff(a, "wait", "wait") /\ executor' = executor
     \/ LeavesOff(a, "start", "start") /\ executor' = executor
     \/ GoesOn(a, "wait", "start")
     \/ GoesOn(a, "start", "effect") /\ check(Act[a].overAllReq, facts)
     \/ GoesOn(a, "overall", "work")
     \/ GoesOn(a, "work", "endcheck")
     \/ GoesOn(a, "endcheck", "endeffect")
Works(a) ==
  /\ Same /\ LeavesOff(a, "work", "overall") /\ executor[a] # "success"
  /\ executor' = executor \/ executor' = [executor EXCEPT ![a] = "dealing"]
Starts(a) ==
  /\ GoesOn(a, "effect", "overall") /\ facts' = Started(a, facts) /\ endDone' = endDone
  /\ startDone' = startDone \/ startDone' = [startDone EXCEPT ![a] = TRUE]
Ends(a) ==
  /\ LeavesOff(a, "endeffect", "done") /\ facts' = apply(Act[a].atEnd, facts)
  /\ endDone' = [endDone EXCEPT ![a] = TRUE] /\ UNCHANGED <<executor, startDone>>
Lacks(a) ==
  /\ mission' = "failed"
  /\ \/ At(a, "overall") /\ ~check(Act[a].overAllReq, facts)
     \/ At(a, "endcheck") /\ ~check(Act[a].atEndReq, facts)

LEMMA LeafIs ==
  ASSUME FirstInv, Undisturbed', NEW a \in Actions, Steady(a), Leaf(a)
  PROVE  Looks(a) \/ Works(a) \/ Starts(a) \/ Ends(a) \/ Lacks(a)
<1>1. failures' = failures /\ UNCHANGED <<plan, tree, missions, changes>>
  BY LeafGoal DEF FirstInv, Undisturbed
<1>2. ASSUME NEW from, NEW to, At(a, from), Proceed(a, to)
      PROVE  Moves(a, from, to) /\ turn' = turn
  BY <1>1, <1>2 DEF Proceed, Moves, goal
<1>3. ASSUME NEW from, NEW to, At(a, from), Pause(a, to) PROVE LeavesOff(a, from, to)
  BY <1>1, <1>3 DEF Pause, Moves, LeavesOff, goal
<1>4. ASSUME NEW ex, Fail(a, ex) PROVE mission' = "failed"
  BY <1>4 DEF Fail
<1>5. CASE WaitAction(a)
  BY <1>2, <1>3, <1>5 DEF WaitAction, Looks, GoesOn, Same
<1>6. CASE WaitAtStartReq(a)
  <2>1. stage[a] = "start" /\ executor[a] # "running"
    BY <1>6 DEF WaitAtStartReq, At, Steady
  <2> QED BY <1>2, <1>3, <1>6, <2>1 DEF WaitAtStartReq, Looks, GoesOn, Same
<1>7. CASE ApplyAtStartEffect(a)
  <2>1. stage[a] = "effect" /\ ~startDone[a]
    BY <1>7 DEF ApplyAtStartEffect, At, Steady
  <2>2. ~Act[a].durative => Started(a, facts) = facts
    <3>1. ~Act[a].durative => Act[a].atStart = NoEffect
      BY ActionAssumption
    <3> QED BY <3>1 DEF Started, apply, NoEffect
  <2> QED BY <1>2, <1>7, <2>1, <2>2 DEF ApplyAtStartEffect, Starts, GoesOn
<1>8. CASE CheckOverAllReq(a)
  <2>1. CASE check(Act[a].overAllReq, facts)
    BY <1>2, <1>8, <2>1 DEF CheckOverAllReq, Looks, GoesOn, Same
  <2>2. CASE ~check(Act[a].overAllReq, facts)
    BY <1>4, <1>8, <2>2 DEF CheckOverAllReq, Broken, Lacks
  <2> QED BY <2>1, <2>2
<1>9. CASE ExecuteAction(a)
  <2>1. At(a, "work") /\ endDone' = endDone
    BY <1>9 DEF ExecuteAction
  <2>2. failures' # failures + 1 /\ executor[a] # "failure"
    BY <1>1 DEF FirstInv, Steady
  <2>3. \/ /\ executor[a] = "idle" /\ executor' = [executor EXCEPT ![a] = "dealing"]
           /\ Pause(a, "overall") /\ UNCHANGED <<facts, startDone>>
        \/ /\ executor[a] \in {"dealing", "running"} /\ Pause(a, "overall")
           /\ UNCHANGED <<facts, executor, startDone>>
        \/ Proceed(a, "endcheck") /\ UNCHANGED <<facts, executor, startDone>>
    BY <1>9, <2>2 DEF ExecuteAction
  <2> QED BY <1>2, <1>3, <2>1, <2>3 DEF Looks, Works, GoesOn, Same
<1>10. CASE CheckAtEndReq(a)
  <2>1. CASE check(Act[a].atEndReq, facts)
    BY <1>2, <1>10, <2>1 DEF CheckAtEndReq, Looks, GoesOn, Same
  <2>2. CASE ~check(Act[a].atEndReq, facts)
    <3>1. Act[a].durative
      BY <2>2, NothingAtEnd
    <3> QED BY <1>4, <1>10, <2>2, <3>1 DEF CheckAtEndReq, Lacks
  <2> QED BY <2>1, <2>2
<1>11. CASE ApplyAtEndEffect(a)
  <2>1. At(a, "endeffect") /\ ~endDone[a]
    BY <1>11 DEF ApplyAtEndEffect, At, Steady
  <2>2. LeavesOff(a, "endeffect", "done")
    BY <1>1, <1>11, <2>1 DEF ApplyAtEndEffect, Complete, LeavesOff, Moves
  <2> QED BY <1>11, <2>1, <2>2 DEF ApplyAtEndEffect, Ends
<1> QED BY <1>5, <1>6, <1>7, <1>8, <1>9, <1>10, <1>11 DEF Leaf

\* The first mission begins.
Begins ==
  /\ \E p \in Plans : \E t : Fits(t, p) /\ NewMission(p, t)
  /\ missions = 0

\* A performer begins or has done its work.
Answers(a) ==
  /\ executor[a] \in {"dealing", "running"}
  /\ \E s \in {"running", "success"} : executor' = [executor EXCEPT ![a] = s]
  /\ UNCHANGED <<goal, facts, stage, startDone, endDone, turn>>

\* The steps of a mission that nobody disturbs.
LEMMA QuietStep ==
  ASSUME FirstInv, TreeInv, [Next]_vars, Undisturbed'
  PROVE  \/ Begins
         \/ /\ Undisturbed /\ UNCHANGED <<plan, tree>>
            /\ UNCHANGED vars \/ StartTick \/ \E a \in Actions : Leaf(a) \/ Answers(a)
<1>1. /\ {missions, changes, failures} \subseteq Nat /\ missions' = 1 /\ changes' = 0 /\ failures' = 0
      /\ (missions = 0 => mission = "idle")
  BY DEF FirstInv, Undisturbed
<1>2. CASE UNCHANGED vars
  BY <1>1, <1>2 DEF vars, counters, Undisturbed
<1>3. CASE StartTick
  BY <1>1, <1>3 DEF StartTick, goal, Undisturbed
<1>4. ASSUME NEW a \in Actions, Leaf(a) PROVE Undisturbed /\ UNCHANGED <<plan, tree>>
  BY <1>1, <1>4, LeafGoal DEF Undisturbed
<1>5. ASSUME NEW a \in Actions, Confirm(a) \/ Finish(a)
      PROVE  Undisturbed /\ UNCHANGED <<plan, tree>> /\ Answers(a)
  <2>1. CASE Confirm(a)
    BY <1>1, <2>1 DEF Confirm, Answers, Undisturbed, goal
  <2>2. CASE Finish(a)
    <3>1. failures' = failures
      BY <1>1, <2>2 DEF Finish
    <3>2. failures' # failures + 1
      BY <1>1, <3>1
    <3> QED BY <1>1, <2>2, <3>1, <3>2 DEF Finish, Answers, Undisturbed, goal
  <2> QED BY <1>5, <2>1, <2>2
<1>6. ASSUME NEW f \in Facts, Change(f) PROVE FALSE
  BY <1>1, <1>6 DEF Change
<1>7. ASSUME NEW r \in AllOffers, r[1] = facts, NEW x \in r[2],
             NewMission(x.plan, x.tree) \/ \E z \in 1 .. Len(x.plan) : Replan(x.plan, x.tree, z)
      PROVE  Begins
  <2>1. missions = 0
    <3>1. missions' = missions + 1
      BY <1>7 DEF NewMission, Replan
    <3> QED BY <1>1, <3>1
  <2>2. NewMission(x.plan, x.tree)
    BY <1>1, <1>7, <2>1 DEF Replan
  <2>3. x \in Offers(facts)
    BY <1>7 DEF AllOffers
  <2>4. x.plan \in Plans
    BY <2>3 DEF Offers
  <2>5. Fits(x.tree, x.plan)
    BY <1>7, OffersFit
  <2> QED BY <2>1, <2>2, <2>4, <2>5 DEF Begins
<1> QED BY <1>2, <1>3, <1>4, <1>5, <1>6, <1>7 DEF Next

LEMMA BeginsFresh ==
  ASSUME Begins
  PROVE  /\ plan' \in Seq(Actions) /\ IsInjective(plan') /\ Fits(tree', plan') /\ turn' = 0
         /\ (tree.failed' => mission' = "failed") /\ (~tree.failed' => mission' = "executing")
         /\ facts' = facts
         /\ \A a \in Actions : stage'[a] = "wait" /\ executor'[a] = "idle" /\ ~startDone'[a] /\ ~endDone'[a]
<1>1. PICK p \in Plans : \E t : Fits(t, p) /\ NewMission(p, t)
  BY DEF Begins
<1>2. PICK t : Fits(t, p) /\ NewMission(p, t)
  BY <1>1
<1>3. /\ plan' = p /\ tree' = t /\ turn' = 0 /\ facts' = facts
      /\ mission' = IF t.failed THEN "failed" ELSE "executing"
  BY <1>2 DEF NewMission
<1>4. \A a \in Actions : stage'[a] = "wait" /\ executor'[a] = "idle" /\ ~startDone'[a] /\ ~endDone'[a]
  BY <1>2 DEF NewMission
<1>5. p \in Seq(Actions) /\ IsInjective(p)
  BY PlanAssumption
<1> QED BY <1>2, <1>3, <1>4, <1>5

LEMMA SteadyStep ==
  ASSUME FirstInv, TreeInv, IInv, SteadyInv, [Next]_vars PROVE SteadyInv'
<1> SUFFICES ASSUME Undisturbed', mission' = "executing", NEW b \in Actions PROVE Steady(b)'
  BY DEF SteadyInv
<1>1. executor \in [Actions -> States] /\ stage \in [Actions -> Stages]
      /\ startDone \in [Actions -> BOOLEAN] /\ endDone \in [Actions -> BOOLEAN]
  BY DEF IInv, Typed, TreeInv
<1>2. CASE Begins
  BY <1>2, BeginsFresh DEF Steady
<1>3. ASSUME Undisturbed, StartTick \/ UNCHANGED vars PROVE Steady(b)'
  BY <1>3 DEF StartTick, goal, vars, SteadyInv, Steady
<1>4. ASSUME Undisturbed, NEW a \in Actions, Answers(a) PROVE Steady(b)'
  <2>1. Steady(a) /\ Steady(b)
    BY <1>4 DEF SteadyInv, Answers, goal
  <2>2. PICK s \in {"running", "success"} : executor' = [executor EXCEPT ![a] = s]
    BY <1>4 DEF Answers
  <2>3. UNCHANGED <<stage, startDone, endDone>> /\ executor[a] # "idle"
    BY <1>4 DEF Answers
  <2> QED BY <1>1, <2>1, <2>2, <2>3 DEF Steady
<1>5. ASSUME Undisturbed, NEW a \in Actions, Leaf(a) PROVE Steady(b)'
  <2>1. mission = "executing"
    BY <1>5, LeafGoal
  <2>2. Steady(a) /\ Steady(b)
    BY <1>5, <2>1 DEF SteadyInv
  <2>3. Looks(a) \/ Works(a) \/ Starts(a) \/ Ends(a) \/ Lacks(a)
    BY <1>5, <2>2, LeafIs
  <2>4. CASE Looks(a)
    BY <1>1, <2>2, <2>4 DEF Looks, Same, GoesOn, LeavesOff, Moves, At, Steady
  <2>5. CASE Works(a)
    BY <1>1, <2>2, <2>5 DEF Works, Same, LeavesOff, Moves, At, Steady
  <2>6. CASE Starts(a)
    BY <1>1, <2>2, <2>6 DEF Starts, GoesOn, Moves, At, Steady
  <2>7. CASE Ends(a)
    BY <1>1, <2>2, <2>7 DEF Ends, LeavesOff, Moves, At, Steady
  <2>8. CASE Lacks(a)
    BY <2>8 DEF Lacks
  <2> QED BY <2>3, <2>4, <2>5, <2>6, <2>7, <2>8
<1> QED BY <1>2, <1>3, <1>4, <1>5, QuietStep

-----------------------------------------------------------------------------
(* The order in which blocks are ticked.                                   *)

\* An open action after the one that has its turn gets the next turn, or one between.
LEMMA TurnComes ==
  ASSUME NEW T, tree.order \in Seq(T), NEW i \in Nat, NEW stg
  PROVE  /\ NextTurn(i, stg) # 0 => NextTurn(i, stg) > i
         /\ \A x \in DOMAIN tree.order :
              x > i /\ Open(tree.order[x], stg) => NextTurn(i, stg) # 0 /\ NextTurn(i, stg) <= x
<1> DEFINE later == {k \in i + 1 .. Len(tree.order) : Open(tree.order[k], stg)}
<1>1. NextTurn(i, stg) = IF later = {} THEN 0 ELSE CHOOSE k \in later : \A l \in later : k <= l
  BY DEF NextTurn
<1>2. later \subseteq Nat /\ \A k \in later : k > i
  OBVIOUS
<1>3. \A x \in DOMAIN tree.order : x > i /\ Open(tree.order[x], stg) => x \in later
  OBVIOUS
<1> HIDE DEF later
<1>4. ASSUME later # {} PROVE NextTurn(i, stg) \in later /\ \A l \in later : NextTurn(i, stg) <= l
  <2>1. \E k \in later : \A l \in later : k <= l
    BY <1>2, <1>4, Least
  <2> QED BY <1>1, <1>4, <2>1
<1>5. later # {} => NextTurn(i, stg) # 0
  BY <1>2, <1>4
<1> QED BY <1>1, <1>2, <1>3, <1>4, <1>5

\* The block at position x is ticked before the one at position y is ticked again.
Soon(x, y) ==
  IF turn = 0 THEN x < y
  ELSE IF turn <= y THEN turn <= x /\ x < y
  ELSE turn <= x \/ x < y

\* Whom an action that is being executed had to wait for, is done when it is ticked again.
SoonInv ==
  Undisturbed /\ mission = "executing" =>
    \A x, y \in DOMAIN tree.order : tree.order[x] \in tree.waits[tree.order[y]] =>
      /\ executor[tree.order[y]] # "idle" => stage[tree.order[x]] = "done" \/ Soon(x, y)
      /\ stage[tree.order[y]] = "done" => stage[tree.order[x]] = "done"

\* The turn moves on from another position than x, where the block is open.
LEMMA SoonMove ==
  ASSUME NEW T, tree.order \in Seq(T), tree' = tree, turn \in Nat, NEW x \in DOMAIN tree.order,
         NEW y \in DOMAIN tree.order, NEW stg, turn' = NextTurn(turn, stg),
         Soon(x, y), turn # x, Open(tree.order[x], stg)
  PROVE  Soon(x, y)'
<1>1. x \in Nat \ {0} /\ y \in Nat \ {0} /\ turn' \in Nat
  BY NextTurnTyped
<1>2. /\ turn' # 0 => turn' > turn
      /\ x > turn => turn' # 0 /\ turn' <= x
  BY TurnComes
<1> QED BY <1>1, <1>2 DEF Soon

\* It moves on from y.
LEMMA SoonAfter ==
  ASSUME NEW T, tree.order \in Seq(T), tree' = tree, NEW x \in DOMAIN tree.order,
         NEW y \in DOMAIN tree.order, turn = y, NEW stg, turn' = NextTurn(turn, stg),
         x # y, Open(tree.order[x], stg)
  PROVE  Soon(x, y)'
<1>1. x \in Nat \ {0} /\ y \in Nat \ {0} /\ turn' \in Nat
  BY NextTurnTyped
<1>2. /\ turn' # 0 => turn' > turn
      /\ x > turn => turn' # 0 /\ turn' <= x
  BY <1>1, TurnComes
<1> QED BY <1>1, <1>2 DEF Soon

\* Whom an action that has begun had to wait for, has only its end left to do.
LEMMA WaitedFor ==
  ASSUME TreeInv, IInv, BegunInv, SteadyInv, Undisturbed, mission = "executing",
         NEW b \in Elements(tree.order), NEW a \in Elements(tree.order), b \in tree.waits[a],
         stage[a] # "wait"
  PROVE  /\ executor[b] = "success" /\ stage[b] \notin {"wait", "start", "effect"}
         /\ \A c \in tree.under[b] : stage[c] = "done"
<1>1. a \in Actions /\ b \in Actions
  BY ArcsTyped
<1>2. executor[b] \in {"success", "failure"}
  BY DEF BegunInv, Ended
<1>3. Steady(b)
  BY <1>1 DEF SteadyInv
<1>4. executor[b] = "success" /\ stage[b] \notin {"wait", "start", "effect"}
  BY <1>2, <1>3 DEF Steady
<1>5. \A c \in tree.under[b] : stage[c] = "done"
  BY <1>4 DEF BegunInv
<1> QED BY <1>4, <1>5

\* The actions of an arc, by their positions.
SoonArc(x, y) ==
  /\ executor[tree.order[y]] # "idle" => stage[tree.order[x]] = "done" \/ Soon(x, y)
  /\ stage[tree.order[y]] = "done" => stage[tree.order[x]] = "done"

LEMMA SoonStep ==
  ASSUME FirstInv, TreeInv, IInv, BegunInv, SteadyInv, SoonInv, [Next]_vars PROVE SoonInv'
<1> SUFFICES ASSUME Undisturbed', mission' = "executing",
                    NEW x \in DOMAIN tree'.order, NEW y \in DOMAIN tree'.order,
                    tree'.order[x] \in tree'.waits[tree'.order[y]]
             PROVE  SoonArc(x, y)'
  BY DEF SoonInv, SoonArc
<1>1. executor \in [Actions -> States] /\ stage \in [Actions -> Stages] /\ turn \in Nat
  BY DEF IInv, Typed, TreeInv, Fits
<1>2. CASE Begins
  <2>1. tree'.order[y] \in Actions
    <3>1. plan' \in Seq(Actions) /\ Fits(tree', plan')
      BY <1>2, BeginsFresh
    <3> QED BY <3>1 DEF Fits, Elements
  <2> QED BY <1>2, <2>1, BeginsFresh DEF SoonArc
<1> SUFFICES ASSUME Undisturbed, UNCHANGED <<plan, tree>>,
                    UNCHANGED vars \/ StartTick \/ \E a \in Actions : Leaf(a) \/ Answers(a)
             PROVE  SoonArc(x, y)'
  BY <1>2, QuietStep
<1> DEFINE b == tree.order[x]
           a == tree.order[y]
<1>3. mission = "executing"
  BY LeafGoal DEF vars, StartTick, Answers, goal
<1>4. x \in DOMAIN tree.order /\ y \in DOMAIN tree.order /\ b \in tree.waits[a] /\ SoonArc(x, y)
  BY <1>3 DEF SoonInv, SoonArc
<1>5. b \in Elements(tree.order) /\ a \in Elements(tree.order) /\ b \in Actions /\ a \in Actions
  BY <1>4, ArcsTyped DEF Elements
<1>6. tree.order \in Seq(Elements(plan)) /\ \A z \in DOMAIN tree.order : tree.order[z] = a => z = y
  BY <1>4 DEF TreeInv, Fits, IsInjective
<1>7. \A z \in DOMAIN tree.order : tree.order[z] = b => z = x
  BY <1>4 DEF TreeInv, Fits, IsInjective
<1>8. stage[a] # "wait" => /\ executor[b] = "success" /\ stage[b] \notin {"wait", "start", "effect"}
                           /\ \A c \in tree.under[b] : stage[c] = "done"
  BY <1>3, <1>4, <1>5, WaitedFor
<1>9. Steady(a) /\ Steady(b)
  BY <1>3, <1>5 DEF SteadyInv
<1>10. x # y /\ tree.under[b] \subseteq Actions /\ 0 \notin DOMAIN tree.order
  <2>1. Precedes(plan, b, a)
    BY <1>4, <1>5 DEF TreeInv, Fits
  <2>2. a # b
    <3>1. IsInjective(plan)
      BY PlanAssumption DEF FirstInv, Undisturbed
    <3> QED BY <2>1, <3>1 DEF Precedes, IsInjective, TreeInv
  <2>3. tree.under[b] \subseteq Actions
    BY <1>5, ArcsTyped
  <2> QED BY <1>6, <2>2, <2>3
<1>11. tree'.order = tree.order /\ SoonArc(x, y)' = /\ executor'[a] # "idle" => stage'[b] = "done" \/ Soon(x, y)'
                                                    /\ stage'[a] = "done" => stage'[b] = "done"
  BY DEF SoonArc
<1>12. executor[a] # "idle" => stage[a] # "wait"
  BY <1>9 DEF Steady
<1>13. CASE UNCHANGED vars
  BY <1>4, <1>11, <1>13 DEF vars, SoonArc, Soon
<1>14. CASE StartTick
  <2>1. turn = 0 /\ turn' = NextTurn(turn, stage) /\ UNCHANGED <<executor, stage>>
    BY <1>14 DEF StartTick
  <2>2. ASSUME executor[a] # "idle", stage[b] # "done" PROVE Soon(x, y)'
    <3>1. Soon(x, y) /\ Open(b, stage)
      BY <1>4, <1>8, <1>12, <2>2 DEF SoonArc, Open
    <3> QED BY <1>1, <1>4, <1>6, <1>10, <2>1, <3>1, SoonMove
  <2> QED BY <1>4, <1>11, <2>1, <2>2 DEF SoonArc
<1>15. ASSUME NEW c \in Actions, Answers(c) PROVE SoonArc(x, y)'
  <2>1. executor'[a] # "idle" => executor[a] # "idle"
    BY <1>1, <1>5, <1>15 DEF Answers
  <2>2. UNCHANGED <<turn, stage>>
    BY <1>15 DEF Answers
  <2>3. Soon(x, y)' <=> Soon(x, y)
    BY <2>2 DEF Soon
  <2> QED BY <1>4, <1>11, <2>1, <2>2, <2>3 DEF SoonArc
<1>16. ASSUME NEW c \in Actions, Leaf(c) PROVE SoonArc(x, y)'
  <2>1. Looks(c) \/ Works(c) \/ Starts(c) \/ Ends(c)
    <3>1. Steady(c)
      BY <1>3, <1>16 DEF SteadyInv
    <3>2. ~Lacks(c)
      BY DEF Lacks
    <3> QED BY <1>16, <3>1, <3>2, LeafIs
  <2>2. ASSUME NEW from, NEW to, Moves(c, from, to)
        PROVE  /\ turn \in DOMAIN tree.order /\ turn # 0 /\ c = tree.order[turn] /\ stage[c] = from
               /\ stage' = [stage EXCEPT ![c] = to]
    BY <1>1, <2>2 DEF Moves, At, TreeInv
  <2>3. ASSUME NEW from, NEW to, GoesOn(c, from, to), from # "done", to # "done"
        PROVE  SoonArc(x, y)'
    <3>1. stage' = [stage EXCEPT ![c] = to] /\ stage[c] = from /\ UNCHANGED <<turn, executor>>
      BY <2>2, <2>3 DEF GoesOn
    <3>2. \A d \in Actions : stage'[d] = "done" <=> stage[d] = "done"
      BY <1>1, <2>3, <3>1
    <3>3. Soon(x, y)' <=> Soon(x, y)
      BY <3>1 DEF Soon
    <3> QED BY <1>4, <1>5, <1>11, <3>1, <3>2, <3>3 DEF SoonArc
  <2>4. ASSUME NEW from, NEW to, LeavesOff(c, from, to), from # "done",
               executor[c] = "success" => to = "done",
               \A d \in Actions : d # c => executor'[d] = executor[d],
               executor'[c] = executor[c] \/ from = "work",
               to = "done" => executor'[c] = executor[c] /\ executor[c] = "success"
        PROVE  SoonArc(x, y)'
    <3>1. /\ turn \in DOMAIN tree.order /\ turn # 0 /\ c = tree.order[turn] /\ stage[c] = from
          /\ stage' = [stage EXCEPT ![c] = to] /\ turn' = NextTurn(turn, stage')
      BY <2>2, <2>4 DEF LeavesOff
    <3>2. \A d \in Actions : stage[d] = "done" => stage'[d] = "done"
      BY <1>1, <2>4, <3>1
    <3>3. ASSUME executor'[a] # "idle", stage'[b] # "done" PROVE Soon(x, y)'
      <4>1. stage[a] # "wait"
        BY <1>5, <1>12, <2>4, <3>1, <3>3
      <4>2. Open(b, stage') /\ executor[b] = "success" /\ stage[b] # "done"
        BY <1>5, <1>8, <1>10, <3>2, <3>3, <4>1 DEF Open
      <4>3. turn # x
        BY <1>1, <1>5, <2>4, <3>1, <3>3, <4>2
      <4>4. CASE executor[a] # "idle"
        <5>1. Soon(x, y)
          BY <1>4, <4>2, <4>4 DEF SoonArc
        <5> QED BY <1>1, <1>4, <1>6, <3>1, <4>2, <4>3, <5>1, SoonMove
      <4>5. CASE executor[a] = "idle"
        <5>1. turn = y
          BY <1>5, <1>6, <2>4, <3>1, <3>3, <4>5
        <5> QED BY <1>4, <1>6, <1>10, <3>1, <4>2, <5>1, SoonAfter
      <4> QED BY <4>4, <4>5
    <3>4. ASSUME stage'[a] = "done", stage[a] # "done" PROVE stage'[b] = "done"
      <4>1. c = a /\ turn = y /\ executor[a] = "success"
        BY <1>1, <1>5, <1>6, <2>4, <3>1, <3>4
      <4>2. ~Soon(x, y)
        <5>1. x \in Nat
          BY <1>4, <1>6
        <5> QED BY <1>1, <3>1, <4>1, <5>1 DEF Soon
      <4> QED BY <1>4, <1>5, <3>2, <4>1, <4>2 DEF SoonArc
    <3>5. stage[a] = "done" => stage'[b] = "done"
      BY <1>4, <1>5, <3>2 DEF SoonArc
    <3> QED BY <1>11, <3>3, <3>4, <3>5
  <2>5. CASE Looks(c)
    <3>1. ASSUME NEW from \in {"wait", "start"}, LeavesOff(c, from, from), executor' = executor
          PROVE  SoonArc(x, y)'
      <4>1. executor[c] = "idle"
        <5>1. stage[c] \in {"wait", "start"} /\ Steady(c)
          BY <1>3, <3>1 DEF LeavesOff, Moves, At, SteadyInv
        <5> QED BY <5>1 DEF Steady
      <4> QED BY <2>4, <3>1, <4>1
    <3> QED BY <2>3, <2>5, <3>1 DEF Looks
  <2>6. CASE Works(c)
    <3>1. \A d \in Actions : d # c => executor'[d] = executor[d]
      BY <1>1, <2>6 DEF Works
    <3> QED BY <2>4, <2>6, <3>1 DEF Works
  <2>7. CASE Starts(c)
    BY <2>3, <2>7 DEF Starts
  <2>8. CASE Ends(c)
    <3>1. executor[c] = "success"
      <4>1. stage[c] = "endeffect"
        BY <2>8 DEF Ends, LeavesOff, Moves, At
      <4> QED BY <4>1 DEF IInv, LateInv
    <3> QED BY <2>4, <2>8, <3>1 DEF Ends
  <2> QED BY <2>1, <2>5, <2>6, <2>7, <2>8
<1> QED BY <1>13, <1>14, <1>15, <1>16

-----------------------------------------------------------------------------
(* What actions rely on.                                                   *)

\* The tree of the mission has all actions of the plan, and those that spoil one another
\* are nested.
Quiet == Undisturbed /\ Orders(Before(tree.under))

Mid  == {"overall", "work", "endcheck", "endeffect"}
Past == Mid \union {"done"}

\* An effect that takes the fact away has been applied.
Took(d, r) ==
  \/ r \in Act[d].atStart.del /\ stage[d] \in Past
  \/ r \in Act[d].atEnd.del /\ stage[d] = "done"

\* What the action at a position relies on while it is executed, and leaves behind.
HasNeeds(i) == stage[plan[i]] \in Mid \union {"effect"} => check(Act[plan[i]].overAllReq, facts)
HasGiven(i) == stage[plan[i]] \in Mid => Act[plan[i]].atStart.add \subseteq facts
HasLeft(i)  == stage[plan[i]] = "done" =>
  \A r \in Facts : NetAdd(plan[i], r) /\ (\A d \in DOMAIN plan : d > i => ~Took(plan[d], r)) => r \in facts
Calm ==
  /\ \A i \in DOMAIN plan : HasNeeds(i) /\ HasGiven(i) /\ HasLeft(i)
  /\ \A r \in InitialFacts : (\A d \in DOMAIN plan : ~Took(plan[d], r)) => r \in facts

CalmInv == Quiet => mission # "failed" /\ (mission = "executing" => Calm)

\* What all these invariants say of such a mission while it is carried out.
Sound ==
  /\ FirstInv /\ TreeInv /\ IInv /\ BegunInv /\ SteadyInv /\ SoonInv
  /\ Quiet /\ mission = "executing"

LEMMA SoundPlan ==
  ASSUME Sound
  PROVE  /\ plan \in Plans /\ Valid(plan, InitialFacts) /\ tree = get_tree(plan, InitialFacts)
         /\ plan \in Seq(Actions) /\ IsInjective(plan)
         /\ DOMAIN plan = 1 .. Len(plan) /\ Len(plan) \in Nat
         /\ \A k \in DOMAIN plan : plan[k] \in Actions /\ plan[k] \in Elements(tree.order)
<1>1. plan \in Plans /\ Valid(plan, InitialFacts) /\ tree = get_tree(plan, InitialFacts)
  BY DEF Sound, Quiet, FirstInv, Undisturbed
<1>2. plan \in Seq(Actions) /\ IsInjective(plan)
  BY <1>1, PlanAssumption
<1>3. DOMAIN plan = 1 .. Len(plan) /\ Len(plan) \in Nat /\ \A k \in DOMAIN plan : plan[k] \in Actions
  BY <1>2, SeqParts
<1>4. \A k \in DOMAIN plan : plan[k] \in Elements(plan)
  BY DEF Elements
<1>5. Elements(tree.order) = Elements(plan)
  BY DEF Sound, Quiet, Orders
<1> QED BY <1>1, <1>2, <1>3, <1>4, <1>5

\* Blocks that a begun one is nested in, however deep, are done.
LEMMA UnderDone ==
  ASSUME Sound, NEW k \in DOMAIN plan, NEW i \in Before(tree.under)[k], stage[plan[k]] # "wait"
  PROVE  stage[plan[i]] = "done"
<1> DEFINE n == Len(plan)
           P == {m \in 1 .. n : stage[plan[m]] # "wait" =>
                                  \A x \in Before(tree.under)[m] : stage[plan[x]] = "done"}
<1>1. /\ plan \in Seq(Actions) /\ n \in Nat /\ DOMAIN plan = 1 .. n
      /\ \A m \in 1 .. n : plan[m] \in Elements(tree.order)
  BY SoundPlan
<1> HIDE DEF n
<1>2. ASSUME NEW m \in 1 .. n, \A j \in 1 .. m - 1 : j \in P PROVE m \in P
  <2>1. ASSUME stage[plan[m]] # "wait", NEW x \in Before(tree.under)[m] PROVE stage[plan[x]] = "done"
    <3>1. m \in DOMAIN plan
      BY <1>1
    <3>2. PICK j \in Direct(tree.under, m) : j \in DOMAIN plan /\ j < m /\ (x = j \/ x \in Before(tree.under)[j])
      BY <1>1, <2>1, <3>1, BeforeLast
    <3>3. plan[j] \in tree.under[plan[m]] /\ j \in 1 .. m - 1
      BY <1>1, <3>2 DEF Direct
    <3>4. stage[plan[j]] = "done"
      BY <1>1, <2>1, <3>3 DEF Sound, BegunInv
    <3>5. j \in P
      BY <1>2, <3>3
    <3> QED BY <3>2, <3>4, <3>5
  <2> QED BY <2>1
<1>3. 1 .. n \subseteq P
  <2> HIDE DEF P
  <2> QED BY <1>1, <1>2, Ascend
<1> QED BY <1>1, <1>3

\* So are those before an action that is done, and those before one that has been
\* executed and is ticked again.
LEMMA WaitsDone ==
  ASSUME Sound, NEW k \in DOMAIN plan, NEW i \in Before(tree.waits)[k],
         \/ stage[plan[k]] = "done"
         \/ turn # 0 /\ tree.order[turn] = plan[k] /\ executor[plan[k]] # "idle"
  PROVE  stage[plan[i]] = "done"
<1> DEFINE n == Len(plan)
           Far(m) == \/ stage[plan[m]] = "done"
                     \/ turn # 0 /\ tree.order[turn] = plan[m] /\ executor[plan[m]] # "idle"
           P == {m \in 1 .. n : Far(m) => \A x \in Before(tree.waits)[m] : stage[plan[x]] = "done"}
<1>1. /\ plan \in Seq(Actions) /\ n \in Nat /\ DOMAIN plan = 1 .. n
      /\ \A m \in 1 .. n : plan[m] \in Elements(tree.order)
  BY SoundPlan
<1>2. /\ turn \in Nat /\ \A z \in DOMAIN tree.order : z \in Nat
      /\ turn # 0 => turn \in DOMAIN tree.order
      /\ \A y, z \in DOMAIN tree.order : tree.order[y] = tree.order[z] => y = z
  BY DEF Sound, TreeInv, Fits, IsInjective
<1> HIDE DEF n
<1>3. ASSUME NEW m \in 1 .. n, NEW j \in 1 .. n, plan[j] \in tree.waits[plan[m]], Far(m)
      PROVE  stage[plan[j]] = "done"
  <2>1. PICK x \in DOMAIN tree.order : tree.order[x] = plan[j]
    BY <1>1 DEF Elements
  <2>2. PICK y \in DOMAIN tree.order : tree.order[y] = plan[m]
    BY <1>1 DEF Elements
  <2>3. /\ executor[plan[m]] # "idle" => stage[plan[j]] = "done" \/ Soon(x, y)
        /\ stage[plan[m]] = "done" => stage[plan[j]] = "done"
    BY <1>3, <2>1, <2>2 DEF Sound, Quiet, SoonInv
  <2>4. turn = y /\ turn # 0 => ~Soon(x, y)
    BY <1>2 DEF Soon
  <2>5. turn # 0 /\ tree.order[turn] = plan[m] => turn = y
    BY <1>2, <2>2
  <2> QED BY <1>3, <2>3, <2>4, <2>5
<1>4. ASSUME NEW m \in 1 .. n, \A j \in 1 .. m - 1 : j \in P PROVE m \in P
  <2>1. ASSUME Far(m), NEW x \in Before(tree.waits)[m] PROVE stage[plan[x]] = "done"
    <3>1. m \in DOMAIN plan
      BY <1>1
    <3>2. PICK j \in Direct(tree.waits, m) : j \in DOMAIN plan /\ j < m /\ (x = j \/ x \in Before(tree.waits)[j])
      BY <1>1, <2>1, <3>1, BeforeLast
    <3>3. plan[j] \in tree.waits[plan[m]] /\ j \in 1 .. m - 1 /\ j \in 1 .. n
      BY <1>1, <3>2 DEF Direct
    <3>4. stage[plan[j]] = "done"
      BY <1>3, <2>1, <3>3
    <3>5. j \in P
      BY <1>4, <3>3
    <3> QED BY <3>2, <3>4, <3>5
  <2> QED BY <2>1
<1>5. 1 .. n \subseteq P
  <2> HIDE DEF P
  <2> QED BY <1>1, <1>4, Ascend
<1> QED BY <1>1, <1>5

\* Of two actions that spoil one another, the later one begins when the earlier is done.
LEMMA Apart ==
  ASSUME Sound, NEW i \in DOMAIN plan, NEW j \in DOMAIN plan, i < j,
         Spoils(plan[i], plan[j]) \/ Spoils(plan[j], plan[i]), stage[plan[j]] # "wait"
  PROVE  stage[plan[i]] = "done"
<1>1. i \in Before(tree.under)[j]
  BY DEF Sound, Quiet, Orders
<1> QED BY <1>1, UnderDone

\* So while one is executed, nobody else takes away what it needs or gives.
LEMMA NobodyElse ==
  ASSUME Sound, NEW i \in DOMAIN plan, NEW k \in DOMAIN plan, i # k,
         stage[plan[i]] \notin {"wait", "done"}, stage[plan[k]] \notin {"wait", "done"},
         NEW r, r \in Takes(plan[k])
  PROVE  r \notin Elements(Requirements(plan[i])) \union Gives(plan[i])
<1> SUFFICES ASSUME r \in Elements(Requirements(plan[i])) \union Gives(plan[i]) PROVE FALSE
  OBVIOUS
<1>1. Spoils(plan[k], plan[i])
  BY DEF Spoils
<1>2. i < k \/ k < i
  BY SoundPlan
<1> QED BY <1>1, <1>2, Apart

\* What an action needs, by the leaf that checks it.
LEMMA NeedsAre ==
  ASSUME NEW a \in Actions
  PROVE  /\ \A r \in Elements(Act[a].atStartReq) \union Elements(Act[a].overAllReq) \union Elements(Act[a].atEndReq) :
              r \in Elements(Requirements(a)) /\ r \in Facts
         /\ \A r \in Elements(Act[a].overAllReq) \union Elements(Act[a].atEndReq) :
              r \in Elements(Act[a].overAllReq \o Act[a].atEndReq)
<1> DEFINE s == Act[a].atStartReq
           o == Act[a].overAllReq
           e == Act[a].atEndReq
<1>1. s \in Seq(Facts) /\ o \in Seq(Facts) /\ e \in Seq(Facts)
  BY ActionAssumption
<1>2. Requirements(a) = s \o o \o e
  BY DEF Requirements
<1> HIDE DEF s, o, e
<1>3. s \o o \in Seq(Facts)
  BY <1>1
<1>4. /\ Elements(s \o o) = Elements(s) \union Elements(o)
      /\ Elements((s \o o) \o e) = Elements(s \o o) \union Elements(e)
      /\ Elements(o \o e) = Elements(o) \union Elements(e)
  <2> DEFINE t == s \o o
  <2>1. Elements(s \o o) = Elements(s) \union Elements(o)
    BY <1>1, ElementsConcat
  <2>2. Elements(o \o e) = Elements(o) \union Elements(e)
    BY <1>1, ElementsConcat
  <2>3. t \in Seq(Facts)
    BY <1>3
  <2>4. Elements(t \o e) = Elements(t) \union Elements(e)
    <3> HIDE DEF t
    <3> QED BY <1>1, <2>3, ElementsConcat
  <2> QED BY <2>1, <2>2, <2>4
<1>5. Elements(s) \subseteq Facts /\ Elements(o) \subseteq Facts /\ Elements(e) \subseteq Facts
  BY <1>1, WithinElements
<1>6. \A r \in Elements(s) \union Elements(o) \union Elements(e) : r \in Elements(Requirements(a)) /\ r \in Facts
  <2>1. Elements(Requirements(a)) = Elements(s) \union Elements(o) \union Elements(e)
    BY <1>2, <1>4, Zenon
  <2> QED BY <1>5, <2>1
<1>7. \A r \in Elements(o) \union Elements(e) : r \in Elements(o \o e)
  BY <1>4
<1> QED BY <1>6, <1>7 DEF s, o, e

\* While an action is executed, what it needs and does not take away itself has been taken
\* away by none that comes after it.
LEMMA NotTaken ==
  ASSUME Sound, NEW k \in DOMAIN plan, stage[plan[k]] \notin {"wait", "done"},
         NEW r \in Elements(Requirements(plan[k])), r \notin Act[plan[k]].atStart.del,
         NEW d \in DOMAIN plan, ~(d < k)
  PROVE  ~Took(plan[d], r)
<1> SUFFICES ASSUME Took(plan[d], r) PROVE FALSE
  OBVIOUS
<1>1. d = k \/ k < d
  BY SoundPlan
<1>2. CASE d = k
  BY <1>2 DEF Took
<1>3. CASE k < d
  <2>1. r \in Takes(plan[d]) /\ stage[plan[d]] # "wait"
    BY DEF Took, Takes, Past, Mid
  <2>2. Spoils(plan[d], plan[k])
    BY <2>1 DEF Spoils
  <2>3. stage[plan[k]] = "done"
    BY <1>3, <2>1, <2>2, Apart
  <2> QED BY <2>3
<1> QED BY <1>1, <1>2, <1>3

\* An action whose work is done has what it needs at its end.
LEMMA EndHolds ==
  ASSUME Sound, Calm, NEW a \in Actions, At(a, "endcheck") PROVE check(Act[a].atEndReq, facts)
<1> SUFFICES ASSUME NEW r \in Elements(Act[a].atEndReq), r \notin facts PROVE FALSE
  BY DEF check
<1> DEFINE first == InitialFacts
<1>1. /\ plan \in Plans /\ Valid(plan, first) /\ tree = get_tree(plan, first)
      /\ DOMAIN plan = 1 .. Len(plan) /\ Len(plan) \in Nat
  BY SoundPlan
<1>2. turn # 0 /\ a = tree.order[turn] /\ stage[a] = "endcheck" /\ executor[a] = "success"
  BY DEF At, Sound, IInv, LateInv, TreeInv, Fits
<1>3. PICK k \in DOMAIN plan : plan[k] = a
  <2>1. turn \in DOMAIN tree.order
    BY <1>2 DEF Sound, TreeInv, Fits
  <2>2. a \in Elements(plan)
    BY <1>2, <2>1 DEF Sound, Quiet, Orders, Elements
  <2> QED BY <2>2 DEF Elements
<1>4. r \in Elements(Requirements(a)) /\ r \in Facts /\ r \in Elements(Act[a].overAllReq \o Act[a].atEndReq)
  BY NeedsAre
<1>5. r \in Started(a, Run(plan, first)[k - 1])
  BY <1>1, <1>3, <1>4, ValidIs DEF check
<1>6. r \notin Act[a].atStart.add
  BY <1>2, <1>3 DEF Calm, HasGiven, Mid
<1>7. r \notin Act[a].atStart.del /\ r \in Run(plan, first)[k - 1]
  BY <1>5, <1>6 DEF Started, apply
<1>8. \A d \in DOMAIN plan : ~(d < k) => ~Took(plan[d], r)
  BY <1>2, <1>3, <1>4, <1>7, NotTaken
<1>9. Supplied(k, r)
  <2>1. Orders(Before(tree.under))
    BY DEF Sound, Quiet
  <2> QED BY <1>1, <1>3, <1>4, <1>7, <2>1, TreeSupplies
<1>10. \A d \in DOMAIN plan : Took(plan[d], r) => r \in Takes(plan[d])
  BY DEF Took, Takes
<1>11. CASE FromStart(plan, first, r, k - 1)
  <2>1. r \in first /\ \A d \in 1 .. k - 1 : r \notin Takes(plan[d])
    BY <1>11 DEF FromStart
  <2>2. \A d \in DOMAIN plan : d < k => d \in 1 .. k - 1
    BY <1>1
  <2>3. \A d \in DOMAIN plan : ~Took(plan[d], r)
    BY <1>8, <1>10, <2>1, <2>2
  <2> QED BY <2>1, <2>3 DEF Calm
<1>12. ASSUME NEW i \in Before(tree.waits)[k], FromAct(plan, r, k - 1, i) PROVE FALSE
  <2>1. stage[plan[i]] = "done"
    BY <1>2, <1>3, <1>12, WaitsDone
  <2>2. i \in DOMAIN plan
    BY <1>3, <1>12, SoundPlan, BeforeLast
  <2>3. NetAdd(plan[i], r) /\ \A d \in i + 1 .. k - 1 : r \notin Takes(plan[d])
    BY <1>12 DEF FromAct
  <2>4. \A d \in DOMAIN plan : d > i /\ d < k => d \in i + 1 .. k - 1
    BY <1>1, <2>2
  <2>5. \A d \in DOMAIN plan : d > i => ~Took(plan[d], r)
    BY <1>8, <1>10, <2>3, <2>4
  <2> QED BY <1>4, <2>1, <2>2, <2>3, <2>5 DEF Calm, HasLeft
<1> QED BY <1>9, <1>11, <1>12 DEF Supplied

\* A block comes to its next leaf and applies the effect: what the others rely on remains.
LEMMA CalmMove ==
  ASSUME Sound, Calm, NEW k \in DOMAIN plan, stage[plan[k]] # "done",
         NEW e, facts' = apply(e, facts), e.del \subseteq Takes(plan[k]),
         stage[plan[k]] = "wait" => e.del = {},
         NEW to, stage' = [stage EXCEPT ![plan[k]] = to], stage[plan[k]] \in Past => to \in Past,
         \A r \in e.del : Took(plan[k], r)', plan' = plan,
         HasNeeds(k)', HasGiven(k)', HasLeft(k)'
  PROVE  Calm'
<1> DEFINE a == plan[k]
<1>1. /\ DOMAIN plan = 1 .. Len(plan) /\ Len(plan) \in Nat
      /\ \A i \in DOMAIN plan : plan[i] \in Actions
      /\ \A i \in DOMAIN plan : i # k => plan[i] # a
  BY SoundPlan DEF IsInjective
<1>2. stage \in [Actions -> Stages]
  BY DEF Sound, IInv, Typed
<1>3. stage'[a] = to /\ \A i \in DOMAIN plan : i # k => stage'[plan[i]] = stage[plan[i]]
  BY <1>1, <1>2
<1>4. \A d \in DOMAIN plan : \A r : Took(plan[d], r) => Took(plan[d], r)'
  <2>1. ASSUME NEW d \in DOMAIN plan, NEW r, Took(plan[d], r) PROVE Took(plan[d], r)'
    <3>1. CASE d # k
      BY <1>3, <2>1, <3>1 DEF Took
    <3>2. CASE d = k
      BY <1>3, <2>1, <3>2 DEF Took
    <3> QED BY <3>1, <3>2
  <2> QED BY <2>1
<1>5. \A r \in facts : r \in facts' \/ (r \in e.del /\ Took(a, r)')
  BY DEF apply
<1>6. ASSUME NEW i \in DOMAIN plan, i # k, stage[plan[i]] \notin {"wait", "done"}, NEW r \in facts,
             r \in Elements(Requirements(plan[i])) \union Gives(plan[i])
      PROVE  r \in facts'
  BY <1>5, <1>6, NobodyElse
<1>7. ASSUME NEW i \in DOMAIN plan PROVE HasNeeds(i)' /\ HasGiven(i)' /\ HasLeft(i)'
  <2>1. CASE i = k
    BY <2>1
  <2>2. ASSUME i # k, stage[plan[i]] \in Mid \union {"effect"}, NEW r \in Elements(Act[plan[i]].overAllReq)
        PROVE  r \in facts'
    <3>1. r \in facts
      BY <2>2 DEF Calm, HasNeeds, check
    <3>2. r \in Elements(Requirements(plan[i]))
      BY <1>1, <2>2, NeedsAre
    <3> QED BY <1>6, <2>2, <3>1, <3>2 DEF Mid
  <2>3. ASSUME i # k, stage[plan[i]] \in Mid, NEW r \in Act[plan[i]].atStart.add PROVE r \in facts'
    <3>1. r \in facts
      BY <2>3 DEF Calm, HasGiven
    <3>2. r \in Gives(plan[i])
      BY DEF Gives
    <3> QED BY <1>6, <2>3, <3>1, <3>2 DEF Mid
  <2>4. ASSUME i # k, stage[plan[i]] = "done", NEW r \in Facts, NetAdd(plan[i], r),
               \A d \in DOMAIN plan : d > i => ~Took(plan[d], r)'
        PROVE  r \in facts'
    <3>1. r \in facts
      BY <1>4, <2>4 DEF Calm, HasLeft
    <3>2. ASSUME r \in e.del, Took(a, r)' PROVE FALSE
      <4>1. k < i
        BY <1>1, <2>4, <3>2
      <4>2. r \in Gives(plan[i])
        BY <2>4 DEF NetAdd, Gives
      <4>3. Spoils(a, plan[i])
        BY <3>2, <4>2 DEF Spoils
      <4> QED BY <2>4, <4>1, <4>3, Apart
    <3> QED BY <1>5, <3>1, <3>2
  <2>5. CASE i # k
    <3>1. stage'[plan[i]] = stage[plan[i]]
      BY <1>3, <2>5
    <3>2. HasNeeds(i)'
      BY <2>2, <2>5, <3>1 DEF HasNeeds, check
    <3>3. HasGiven(i)'
      BY <2>3, <2>5, <3>1 DEF HasGiven
    <3>4. HasLeft(i)'
      BY <2>4, <2>5, <3>1 DEF HasLeft
    <3> QED BY <3>2, <3>3, <3>4
  <2> QED BY <2>1, <2>5
<1>8. ASSUME NEW r \in InitialFacts, \A d \in DOMAIN plan : ~Took(plan[d], r)' PROVE r \in facts'
  <2>1. r \in facts
    BY <1>4, <1>8 DEF Calm
  <2> QED BY <1>5, <1>8, <2>1
<1> QED BY <1>7, <1>8 DEF Calm

\* The first plan can be made into a tree, if the tree it is made into has all its actions
\* and nests those that spoil one another.
FirstTree == missions = 1 /\ Orders(Before(tree.under)) => ~tree.failed

LEMMA FirstIsTree == ASSUME FirstInv PROVE FirstTree
BY TreeSupplies DEF FirstInv, FirstTree

\* That depends on the plan and its tree alone.
BeforeIn(p, arcs) ==
  LET up[i \in DOMAIN p] ==
        LET in == {j \in 1 .. i - 1 : p[i] \in DOMAIN arcs /\ p[j] \in arcs[p[i]]}
        IN in \union UNION {up[j] : j \in in}
  IN up
OrdersIn(p, t) ==
  /\ Elements(t.order) = Elements(p)
  /\ \A i, j \in DOMAIN p : i < j =>
       i \in BeforeIn(p, t.under)[j] \/ ~(Spoils(p[i], p[j]) \/ Spoils(p[j], p[i]))

LEMMA OrdersSame ==
  ASSUME plan' = plan, tree' = tree, Quiet' PROVE Orders(Before(tree.under))
<1>1. OrdersIn(plan', tree')
  BY DEF Quiet, Orders, Before, OrdersIn, BeforeIn
<1>2. OrdersIn(plan, tree)
  BY <1>1
<1> QED BY <1>2 DEF Orders, Before, OrdersIn, BeforeIn

\* The leaf that an action has come to.
LEMMA PlaceOf ==
  ASSUME Sound, NEW a \in Actions, NEW from, At(a, from)
  PROVE  \E k \in DOMAIN plan : plan[k] = a /\ stage[plan[k]] = from
<1>1. turn \in DOMAIN tree.order /\ a = tree.order[turn]
  BY DEF At, Sound, TreeInv, Fits
<1>2. a \in Elements(plan)
  BY <1>1 DEF Sound, Quiet, Orders, Elements
<1> QED BY <1>2 DEF Elements, At

\* A leaf that changes no fact.
LEMMA CalmLeaf ==
  ASSUME Sound, Calm, NEW a \in Actions, NEW from, NEW to, Moves(a, from, to), facts' = facts,
         \/ from \in {"wait", "start"} /\ to \in {"wait", "start"}
         \/ from = "start" /\ to = "effect" /\ check(Act[a].overAllReq, facts)
         \/ from \in Mid /\ to \in Mid
  PROVE  Calm'
<1>1. PICK k \in DOMAIN plan : plan[k] = a /\ stage[plan[k]] = from
  BY PlaceOf DEF Moves
<1>2. /\ stage' = [stage EXCEPT ![plan[k]] = to] /\ plan' = plan
      /\ stage \in [Actions -> Stages] /\ plan[k] \in Actions
  BY <1>1, SoundPlan DEF Moves, Sound, IInv, Typed
<1>3. stage'[plan[k]] = to /\ to # "done" /\ from # "done" /\ (from \in Past => to \in Past)
  BY <1>2 DEF Mid, Past
<1>4. apply(NoEffect, facts) = facts /\ NoEffect.del = {}
  BY DEF apply, NoEffect
<1>5. HasNeeds(k) /\ HasGiven(k)
  BY DEF Calm
<1>6. HasNeeds(k)'
  BY <1>1, <1>2, <1>3, <1>5 DEF HasNeeds, check, Mid
<1>7. HasGiven(k)' /\ HasLeft(k)'
  BY <1>1, <1>2, <1>3, <1>5 DEF HasGiven, HasLeft, Mid
<1> DEFINE e == NoEffect
<1>8. facts' = apply(e, facts) /\ e.del = {} /\ e.del \subseteq Takes(plan[k])
  BY <1>4
<1> HIDE DEF e
<1> QED BY <1>1, <1>2, <1>3, <1>6, <1>7, <1>8, CalmMove

LEMMA CalmStart ==
  ASSUME Sound, Calm, NEW a \in Actions, Starts(a) PROVE Calm'
<1>0. Moves(a, "effect", "overall") /\ facts' = apply(Act[a].atStart, facts)
  BY DEF Starts, GoesOn, Started
<1>1. PICK k \in DOMAIN plan : plan[k] = a /\ stage[plan[k]] = "effect"
  BY <1>0, PlaceOf DEF Moves
<1>2. /\ stage' = [stage EXCEPT ![plan[k]] = "overall"] /\ plan' = plan
      /\ stage \in [Actions -> Stages] /\ plan[k] \in Actions
  BY <1>0, <1>1, SoundPlan DEF Moves, Sound, IInv, Typed
<1>3. stage'[plan[k]] = "overall"
  BY <1>2
<1>4. ASSUME NEW r \in Elements(Act[a].overAllReq) PROVE r \in facts'
  <2>1. r \in facts
    BY <1>1, <1>4 DEF Calm, HasNeeds, check
  <2>2. r \in Elements(Act[a].overAllReq \o Act[a].atEndReq)
    BY <1>4, NeedsAre
  <2>3. r \in Started(a, Run(plan, InitialFacts)[k - 1])
    BY <1>1, <2>2, SoundPlan, ValidIs DEF check
  <2> QED BY <1>0, <2>1, <2>3 DEF Started, apply
<1>5. HasNeeds(k)'
  BY <1>1, <1>2, <1>4 DEF HasNeeds, check
<1>6. HasGiven(k)' /\ HasLeft(k)'
  BY <1>0, <1>1, <1>2, <1>3 DEF HasGiven, HasLeft, apply
<1> DEFINE e == Act[plan[k]].atStart
<1>7. facts' = apply(e, facts) /\ e.del \subseteq Takes(plan[k]) /\ \A r \in e.del : Took(plan[k], r)'
  BY <1>0, <1>1, <1>2, <1>3 DEF Takes, Took, Past, Mid
<1>8. stage[plan[k]] # "done" /\ stage[plan[k]] # "wait" /\ stage[plan[k]] \notin Past
  BY <1>1 DEF Past, Mid
<1> HIDE DEF e
<1> QED BY <1>2, <1>5, <1>6, <1>7, <1>8, CalmMove

LEMMA CalmEnd ==
  ASSUME Sound, Calm, NEW a \in Actions, Ends(a) PROVE Calm'
<1>0. Moves(a, "endeffect", "done") /\ facts' = apply(Act[a].atEnd, facts)
  BY DEF Ends, LeavesOff
<1>1. PICK k \in DOMAIN plan : plan[k] = a /\ stage[plan[k]] = "endeffect"
  BY <1>0, PlaceOf DEF Moves
<1>2. /\ stage' = [stage EXCEPT ![plan[k]] = "done"] /\ plan' = plan
      /\ stage \in [Actions -> Stages] /\ plan[k] \in Actions
  BY <1>0, <1>1, SoundPlan DEF Moves, Sound, IInv, Typed
<1>3. stage'[plan[k]] = "done"
  BY <1>2
<1>4. ASSUME NEW r, NetAdd(a, r) PROVE r \in facts'
  <2>1. Act[a].atStart.add \subseteq facts
    BY <1>1 DEF Calm, HasGiven, Mid
  <2> QED BY <1>0, <1>4, <2>1 DEF NetAdd, apply
<1>5. HasNeeds(k)' /\ HasGiven(k)' /\ HasLeft(k)'
  BY <1>1, <1>2, <1>3, <1>4 DEF HasNeeds, HasGiven, HasLeft, Mid
<1> DEFINE e == Act[plan[k]].atEnd
<1>6. facts' = apply(e, facts) /\ e.del \subseteq Takes(plan[k]) /\ \A r \in e.del : Took(plan[k], r)'
  BY <1>0, <1>1, <1>2, <1>3 DEF Takes, Took
<1>7. stage[plan[k]] # "done" /\ stage[plan[k]] # "wait" /\ "done" \in Past
  BY <1>1 DEF Past
<1> HIDE DEF e
<1> QED BY <1>2, <1>5, <1>6, <1>7, CalmMove

\* No leaf of such a mission lacks what it needs.
LEMMA NoneLacks == ASSUME Sound, Calm, NEW a \in Actions PROVE ~Lacks(a)
<1>1. ASSUME At(a, "overall") PROVE check(Act[a].overAllReq, facts)
  <2>1. PICK k \in DOMAIN plan : plan[k] = a /\ stage[plan[k]] = "overall"
    BY <1>1, PlaceOf
  <2> QED BY <2>1 DEF Calm, HasNeeds, Mid
<1>2. ASSUME At(a, "endcheck") PROVE check(Act[a].atEndReq, facts)
  BY <1>2, EndHolds
<1> QED BY <1>1, <1>2 DEF Lacks

LEMMA CalmStep ==
  ASSUME FirstInv, TreeInv, IInv, BegunInv, SteadyInv, SoonInv, CalmInv, FirstTree', [Next]_vars
  PROVE  CalmInv'
<1> SUFFICES ASSUME Quiet' PROVE mission' # "failed" /\ (mission' = "executing" => Calm')
  BY DEF CalmInv
<1>1. CASE Begins
  <2>1. missions' = 1 /\ Orders(Before(tree.under))'
    BY DEF Quiet, Undisturbed
  <2>2. ~tree.failed'
    BY <2>1 DEF FirstTree
  <2>3. /\ plan' \in Seq(Actions) /\ facts' = InitialFacts /\ mission' = "executing"
        /\ \A a \in Actions : stage'[a] = "wait"
    BY <1>1, <2>2, BeginsFresh DEF Begins, FirstInv
  <2>4. \A i \in DOMAIN plan' : stage'[plan'[i]] = "wait"
    BY <2>3
  <2>5. Calm'
    BY <2>3, <2>4 DEF Calm, HasNeeds, HasGiven, HasLeft, Mid
  <2> QED BY <2>3, <2>5
<1>2. Undisturbed'
  BY DEF Quiet
<1> SUFFICES ASSUME Undisturbed, UNCHANGED <<plan, tree>>,
                    UNCHANGED vars \/ StartTick \/ \E a \in Actions : Leaf(a) \/ Answers(a)
             PROVE  mission' # "failed" /\ (mission' = "executing" => Calm')
  BY <1>1, <1>2, QuietStep
<1>3. Quiet
  BY OrdersSame DEF Quiet
<1>4. mission # "failed" /\ (mission = "executing" => Calm /\ Sound)
  BY <1>3 DEF CalmInv, Sound
<1>5. ASSUME UNCHANGED <<mission, facts, stage>> PROVE mission' # "failed" /\ (mission' = "executing" => Calm')
  BY <1>4, <1>5 DEF Calm, HasNeeds, HasGiven, HasLeft, Took, check
<1>6. CASE UNCHANGED vars \/ StartTick \/ \E a \in Actions : Answers(a)
  BY <1>5, <1>6 DEF vars, StartTick, Answers, goal
<1>7. ASSUME NEW a \in Actions, Leaf(a) PROVE mission' # "failed" /\ Calm'
  <2>1. mission = "executing" /\ Sound /\ Calm
    BY <1>4, <1>7, LeafGoal
  <2>2. Looks(a) \/ Works(a) \/ Starts(a) \/ Ends(a)
    <3>1. Steady(a)
      BY <2>1 DEF Sound, Quiet, SteadyInv
    <3> QED BY <1>2, <1>7, <2>1, <3>1, LeafIs, NoneLacks
  <2>3. ASSUME NEW from, NEW to, Moves(a, from, to) PROVE mission' # "failed"
    BY <2>1, <2>3 DEF Moves
  <2>4. CASE Looks(a)
    <3>1. facts' = facts
      BY <2>4 DEF Looks, Same
    <3>2. \/ \E from \in {"wait", "start"}, to \in {"wait", "start"} : Moves(a, from, to)
          \/ Moves(a, "start", "effect") /\ check(Act[a].overAllReq, facts)
          \/ \E from \in Mid, to \in Mid : Moves(a, from, to)
      BY <2>4 DEF Looks, LeavesOff, GoesOn, Mid
    <3> QED BY <2>1, <2>3, <3>1, <3>2, CalmLeaf
  <2>5. CASE Works(a)
    <3>1. Moves(a, "work", "overall") /\ facts' = facts /\ "work" \in Mid /\ "overall" \in Mid
      BY <2>5 DEF Works, Same, LeavesOff, Mid
    <3> QED BY <2>1, <2>3, <3>1, CalmLeaf
  <2>6. CASE Starts(a)
    BY <2>1, <2>3, <2>6, CalmStart DEF Starts, GoesOn
  <2>7. CASE Ends(a)
    BY <2>1, <2>3, <2>7, CalmEnd DEF Ends, LeavesOff
  <2> QED BY <2>2, <2>4, <2>5, <2>6, <2>7
<1> QED BY <1>6, <1>7

LEMMA QuietHolds == Spec => [](SteadyInv /\ SoonInv /\ CalmInv)
<1>1. Init => SteadyInv /\ SoonInv /\ CalmInv
  BY DEF Init, SteadyInv, SoonInv, CalmInv, Quiet, Undisturbed
<1>2. FirstInv /\ TreeInv /\ IInv /\ SteadyInv /\ [Next]_vars => SteadyInv'
  BY SteadyStep
<1>3. FirstInv /\ TreeInv /\ IInv /\ BegunInv /\ SteadyInv /\ SoonInv /\ [Next]_vars => SoonInv'
  BY SoonStep
<1>4. FirstInv => FirstTree
  BY FirstIsTree
<1>5. FirstInv /\ TreeInv /\ IInv /\ BegunInv /\ SteadyInv /\ SoonInv /\ CalmInv /\ FirstTree' /\ [Next]_vars
        => CalmInv'
  BY CalmStep
<1> QED BY FirstHolds, TreeHolds, InvariantHolds, BegunHolds, <1>1, <1>2, <1>3, <1>4, <1>5, PTL DEF Spec

\* For every repertory of actions, every first plan that was valid when it was made, and
\* however the blocks of actions that run in parallel overlap: a mission that nobody disturbs
\* and in which no action fails does not fail, if the tree nests the blocks of those actions of
\* which one takes away what the other needs or gives.  What the actions need comes from
\* those that the builder has put before them.
THEOREM NestingSuffices == Spec => []NestingIsEnough
<1>1. CalmInv => NestingIsEnough
  BY DEF CalmInv, Quiet, NestingIsEnough
<1> QED BY QuietHolds, <1>1, PTL

\* An action whose work is done comes after those that it had to wait for, with their effects.
EndsInOrder ==
  Undisturbed /\ mission = "executing" =>
    \A a \in Elements(tree.order) : stage[a] \in {"endcheck", "endeffect", "done"} =>
      \A b \in tree.waits[a] \intersect Elements(tree.order) : stage[b] = "done"

\* For every repertory and any plan: WaitAction lets an action begin when the work of others
\* has ended and their effects are still to come; unless somebody disturbs the mission, they
\* have been applied when the action comes to what it needs at its end.
THEOREM EffectsComeInTime == Spec => []EndsInOrder
<1>1. TreeInv /\ IInv /\ EndInv /\ SoonInv => EndsInOrder
  <2> SUFFICES ASSUME TreeInv, IInv, EndInv, SoonInv, Undisturbed, mission = "executing",
                      NEW a \in Elements(tree.order), stage[a] \in {"endcheck", "endeffect", "done"},
                      NEW b \in Elements(tree.order), b \in tree.waits[a]
               PROVE  stage[b] = "done"
    BY DEF EndsInOrder
  <2>1. PICK x \in DOMAIN tree.order : tree.order[x] = b
    BY DEF Elements
  <2>2. PICK y \in DOMAIN tree.order : tree.order[y] = a
    BY DEF Elements
  <2>3. /\ executor[a] # "idle" => stage[b] = "done" \/ Soon(x, y)
        /\ stage[a] = "done" => stage[b] = "done"
    BY <2>1, <2>2 DEF SoonInv
  <2>4. CASE stage[a] \in {"endcheck", "endeffect"}
    <3>1. a \in Actions
      BY ArcsTyped
    <3>2. executor[a] = "success" /\ turn # 0 /\ a = tree.order[turn]
      BY <2>4, <3>1 DEF IInv, LateInv, EndInv, AtItsEnd
    <3>3. turn = y /\ x \in Nat /\ y \in Nat
      BY <2>1, <2>2, <3>2 DEF TreeInv, Fits, IsInjective
    <3>4. ~Soon(x, y)
      BY <3>2, <3>3 DEF Soon
    <3> QED BY <2>3, <3>2, <3>4
  <2> QED BY <2>3, <2>4
<1> QED BY QuietHolds, TreeHolds, InvariantHolds, EndHeld, <1>1, PTL
=============================================================================
