------------------------- MODULE ExecutorNode_proofs -------------------------
(* What holds of the missions for any number of goals, replans and actions. *)
EXTENDS ExecutorNode, TLAPS

\* A node that is not idle has a goal, one that has been told of a new goal has a
\* newest one, the newest goal is not older than the current one, and a request that
\* waits for rclcpp_action is that of the cancelled goal.
HandlesOK ==
  /\ executorState # "IDLE" => current \in Goals
  /\ newPlanReceived \/ taking => newest \in Goals
  /\ taking => executorState = "IDLE"
  /\ current <= newest
  /\ asked => checking \in Goals /\ checking = cancelHandle

\* The count of replans without progress lags behind that of fruitless ones by the
\* first one at most.
GuardInv ==
  /\ executorState \in {"EXECUTING", "REPLANNING"} => completed >= 1
  /\ fruitless <= replans + 1
  /\ completedAtLast = 0 => fruitless = 0
  /\ executorState = "EXECUTING" => replans <= MaxReplans

\* Success is only reported, and about to be reported, of goals whose tree succeeded.
SuccessInv ==
  ~threw =>
    /\ executorState = "SUCCEDED" => current \in treeSucceeded
    /\ \A g \in Goals : result[g] = "SUCCESS" => g \in treeSucceeded

\* As long as no requests have crossed, the current goal is in a status that the state
\* of the node can end, and a new goal waits in a status that can be executed.
StatusInv ==
  ~crossed =>
    /\ terminated => CanceledEarly
    /\ executorState \notin {"IDLE", "REPLANNING"} => status[current] \in Active
    /\ executorState = "CANCELLED"
         => status[current] = "CANCELING" \/ (asked /\ checking = current)
    /\ executorState = "REPLANNING" => current # newest
    /\ newPlanReceived \/ taking \/ executorState = "REPLANNING" => status[newest] \in Active
    /\ ~StrayCancel /\ ~StrayPlan

IInv == TypeOK /\ HandlesOK /\ GuardInv /\ SuccessInv /\ StatusInv

LEMMA InitHolds == Init => IInv
<1> SUFFICES ASSUME Init PROVE IInv
  OBVIOUS
<1> USE MissionAssumption DEF Init
<1>1. TypeOK
  <2>1. status \in [Goals -> Statuses] /\ result \in [Goals -> Results]
    BY DEF Statuses, Results
  <2>2. treeSucceeded \in SUBSET Goals
    OBVIOUS
  <2>3. /\ executorState \in States
        /\ {current, newest, cancelHandle, checking} \subseteq 0 .. MaxGoals
        /\ {completed, replans, completedAtLast, fruitless} \subseteq Nat
    BY DEF States
  <2> QED BY <2>1, <2>2, <2>3, Zenon DEF TypeOK
<1>2. HandlesOK /\ GuardInv
  BY DEF HandlesOK, GuardInv
<1>3. SuccessInv
  BY DEF SuccessInv
<1>4. StatusInv
  BY DEF StatusInv, StrayCancel, StrayPlan
<1> QED BY <1>1, <1>2, <1>3, <1>4 DEF IInv

\* A step that is one of execution_cycle or of the spin thread keeps the types.
LEMMA TypeKept ==
  ASSUME TypeOK, HandlesOK, Next PROVE TypeOK'
<1> USE MissionAssumption DEF TypeOK, HandlesOK, Goals, States, Statuses, Results
<1>1. crossed' \in BOOLEAN
  BY DEF Next
<1> USE <1>1
<1>2. CASE HandleAccepted
  <2>1. newest' \in 0 .. MaxGoals
    BY <1>2 DEF HandleAccepted
  <2>2. status' \in [Goals -> Statuses]
    BY <1>2 DEF HandleAccepted, Active
  <2> QED BY <1>2, <2>1, <2>2 DEF HandleAccepted, request, guard, history
<1>3. ASSUME NEW g \in Goals, HandleCancel(g) PROVE TypeOK'
  BY <1>3 DEF HandleCancel, handles, flags, goals, guard, history, request
<1>4. CASE RequestCancel
  BY <1>4 DEF RequestCancel, guard, history
<1>12. CASE AcceptCancel
  <2>1. status' \in [Goals -> Statuses]
    BY <1>12 DEF AcceptCancel, Active
  <2>2. UNCHANGED <<executorState, handles, flags, result, guard, terminated, history>>
    BY <1>12 DEF AcceptCancel
  <2>3. checking' = 0 /\ asked' = FALSE
    BY <1>12 DEF AcceptCancel
  <2>4. asked' \in BOOLEAN
    BY <2>3, Zenon
  <2>5. checking' \in 0 .. MaxGoals
    BY <2>3
  <2> QED BY <2>1, <2>2, <2>4, <2>5 DEF handles, flags, guard, history
<1>5. CASE CompleteAction
  BY <1>5 DEF CompleteAction, handles, flags, goals, history, request
<1>6. CASE TakeFlag
  BY <1>6 DEF TakeFlag, handles, goals, guard, history, request
<1>7. CASE TakeGoal
  BY <1>7 DEF TakeGoal, goals, history, request
<1>8. CASE TickTree
  BY <1>8 DEF TickTree, Decide, In, handles, goals, guard, request
<1>9. CASE TickThrows
  BY <1>9 DEF TickThrows, Decide, handles, goals, guard, request
<1>10. CASE ReplanOrGiveUp
  BY <1>10 DEF ReplanOrGiveUp, flags, goals, history, request
<1>11. CASE Preempt \/ Abort \/ Canceled \/ Fail \/ Error \/ Succeed
  <2>1. ASSUME NEW from, NEW to \in Statuses, NEW r \in Results, NEW next \in States,
               EndGoal(from, to, r, next)
        PROVE  TypeOK'
    <3>1. UNCHANGED <<handles, flags, request, guard, history>>
      BY <2>1 DEF EndGoal
    <3>2. CASE current # 0 /\ status[current] \in from
      <4>1. /\ status' = [status EXCEPT ![current] = to]
            /\ result' = [result EXCEPT ![current] = r]
            /\ executorState' = next /\ UNCHANGED terminated
        BY <2>1, <3>2 DEF EndGoal
      <4> QED BY <3>1, <4>1 DEF handles, flags, request, guard, history
    <3>3. CASE ~(current # 0 /\ status[current] \in from)
      BY <2>1, <3>1, <3>3 DEF EndGoal, handles, flags, guard, history, request
    <3> QED BY <3>2, <3>3
  <2> QED BY ONLY <1>11, <2>1 DEF Preempt, Abort, Canceled, Fail, Error, Succeed, States, Statuses, Results
<1> QED BY <1>2, <1>3, <1>4, <1>5, <1>6, <1>7, <1>8, <1>9, <1>10, <1>11, <1>12
    DEF Next, SpinThread, execution_cycle

LEMMA HandlesKept ==
  ASSUME TypeOK, HandlesOK, Next PROVE HandlesOK'
<1> USE MissionAssumption DEF TypeOK, HandlesOK, Goals
<1>1. CASE HandleAccepted
  BY <1>1 DEF HandleAccepted, request
<1>2. ASSUME NEW g \in Goals, HandleCancel(g) PROVE HandlesOK'
  BY <1>2 DEF HandleCancel, handles, flags, request
<1>3. CASE RequestCancel \/ AcceptCancel \/ CompleteAction
  BY <1>3 DEF RequestCancel, AcceptCancel, CompleteAction, handles, flags, request
<1>4. CASE TakeFlag \/ TakeGoal
  BY <1>4 DEF TakeFlag, TakeGoal, In, handles, request
<1>5. CASE TickTree \/ TickThrows
  BY <1>5 DEF TickTree, TickThrows, Decide, In, handles, request
<1>6. CASE ReplanOrGiveUp
  BY <1>6 DEF ReplanOrGiveUp, In, flags, request
<1>7. CASE Preempt \/ Abort \/ Canceled \/ Fail \/ Error \/ Succeed
  BY <1>7 DEF Preempt, Abort, Canceled, Fail, Error, Succeed, EndGoal, In, handles, flags, request
<1> QED BY <1>1, <1>2, <1>3, <1>4, <1>5, <1>6, <1>7 DEF Next, SpinThread, execution_cycle

LEMMA GuardKept ==
  ASSUME TypeOK, GuardInv, Next PROVE GuardInv'
<1> USE MissionAssumption DEF TypeOK, GuardInv
<1>1. CASE HandleAccepted \/ RequestCancel \/ AcceptCancel \/ \E g \in Goals : HandleCancel(g)
  BY <1>1 DEF HandleAccepted, RequestCancel, AcceptCancel, HandleCancel, guard
<1>2. CASE CompleteAction
  BY <1>2 DEF CompleteAction
<1>3. CASE TakeFlag \/ TakeGoal
  BY <1>3 DEF TakeFlag, TakeGoal, guard
<1>4. CASE TickTree \/ TickThrows
  BY <1>4 DEF TickTree, TickThrows, Decide, In, guard
<1>5. CASE ReplanOrGiveUp
  BY <1>5 DEF ReplanOrGiveUp, In
<1>6. CASE Preempt \/ Abort \/ Canceled \/ Fail \/ Error \/ Succeed
  BY <1>6 DEF Preempt, Abort, Canceled, Fail, Error, Succeed, EndGoal, In, guard
<1> QED BY <1>1, <1>2, <1>3, <1>4, <1>5, <1>6 DEF Next, SpinThread, execution_cycle

LEMMA SuccessKept ==
  ASSUME TypeOK, HandlesOK, SuccessInv, Next PROVE SuccessInv'
<1> USE MissionAssumption DEF TypeOK, HandlesOK, SuccessInv
<1>1. CASE HandleAccepted \/ RequestCancel \/ AcceptCancel \/ CompleteAction
           \/ \E g \in Goals : HandleCancel(g)
  BY <1>1 DEF HandleAccepted, RequestCancel, AcceptCancel, CompleteAction, HandleCancel,
              handles, goals, history
<1>2. CASE TakeFlag \/ TakeGoal \/ ReplanOrGiveUp
  BY <1>2 DEF TakeFlag, TakeGoal, ReplanOrGiveUp, In, handles, goals, history
<1>3. CASE TickTree \/ TickThrows
  BY <1>3 DEF TickTree, TickThrows, Decide, handles, goals
<1>4. CASE Succeed
  BY <1>4 DEF Succeed, EndGoal, In, handles, history
<1>5. CASE Preempt \/ Abort \/ Canceled \/ Fail \/ Error
  BY <1>5 DEF Preempt, Abort, Canceled, Fail, Error, EndGoal, In, handles, history
<1> QED BY <1>1, <1>2, <1>3, <1>4, <1>5 DEF Next, SpinThread, execution_cycle

LEMMA StatusKept ==
  ASSUME TypeOK, HandlesOK, StatusInv, Next PROVE StatusInv'
<1> SUFFICES ASSUME ~crossed' PROVE StatusInv'
  BY DEF StatusInv
<1> USE MissionAssumption DEF TypeOK, HandlesOK, StatusInv, CanceledEarly, Goals, Active
<1>1. ~crossed /\ ~StrayCancel' /\ ~StrayPlan'
  BY DEF Next
<1>2. CASE HandleAccepted
  BY <1>1, <1>2 DEF HandleAccepted, Released, StrayPlan
<1>3. ASSUME NEW g \in Goals, HandleCancel(g) PROVE StatusInv'
  BY <1>1, <1>3 DEF HandleCancel, handles, flags, goals, request
<1>4. CASE RequestCancel
  BY <1>1, <1>4 DEF RequestCancel, StrayCancel
<1>11. CASE AcceptCancel
  <2>1. /\ UNCHANGED <<executorState, handles, flags, terminated>>
        /\ checking \in Goals /\ checking' = 0 /\ ~terminated
        /\ status' = [status EXCEPT ![checking] = IF @ \in Active THEN "CANCELING" ELSE @]
    BY <1>11 DEF AcceptCancel
  <2>2. \A g \in Goals : /\ status[g] \in Active => status'[g] \in Active
                         /\ g = checking /\ status[g] \in Active => status'[g] = "CANCELING"
                         /\ status[g] = "CANCELING" => status'[g] = "CANCELING"
    BY <2>1
  <2> QED BY <1>1, <2>1, <2>2 DEF handles, flags
<1>5. CASE CompleteAction
  BY <1>1, <1>5 DEF CompleteAction, handles, flags, goals, request
<1>6. CASE TakeFlag \/ TakeGoal
  BY <1>1, <1>6 DEF TakeFlag, TakeGoal, In, handles, goals, request
<1>7. CASE TickTree \/ TickThrows
  <2>1. /\ UNCHANGED <<handles, taking, goals, request, terminated>>
        /\ executorState = "EXECUTING" /\ ~terminated
        /\ executorState' \in {"EXECUTING", "SUCCEDED", "FAILED", "CANCELLED", "REPLANNING"}
        /\ executorState' = "CANCELLED" => cancelRequested
        /\ executorState' = "REPLANNING" => newPlanReceived
        /\ newPlanReceived' => newPlanReceived
    BY <1>7 DEF TickTree, TickThrows, Decide, In
  <2>2. executorState' = "CANCELLED" => status[current] = "CANCELING" \/ (asked /\ checking = current)
    BY <1>1, <2>1 DEF StrayCancel
  <2> QED BY <1>1, <2>1, <2>2 DEF StrayPlan, handles, goals, request
<1>8. CASE ReplanOrGiveUp
  BY <1>1, <1>8 DEF ReplanOrGiveUp, In, flags, goals, request
<1>9. CASE Preempt
  BY <1>1, <1>9 DEF Preempt, EndGoal, In, handles, flags, request
<1>10. CASE Abort \/ Canceled \/ Fail \/ Error \/ Succeed
  BY <1>1, <1>10 DEF Abort, Canceled, Fail, Error, Succeed, EndGoal, In, StrayPlan, handles, flags, request
<1> QED BY <1>2, <1>3, <1>4, <1>5, <1>6, <1>7, <1>8, <1>9, <1>10, <1>11 DEF Next, SpinThread, execution_cycle

\* A step that changes nothing keeps everything.
LEMMA StutterKeeps == IInv /\ UNCHANGED vars => IInv'
BY DEF IInv, TypeOK, HandlesOK, GuardInv, SuccessInv, StatusInv, StrayCancel, StrayPlan,
       CanceledEarly, vars, handles, flags, goals, request, guard, history

LEMMA InvariantHolds == Spec => []IInv
<1>1. IInv /\ [Next]_vars => IInv'
  BY TypeKept, HandlesKept, GuardKept, SuccessKept, StatusKept, StutterKeeps DEF IInv
<1> QED BY InitHolds, <1>1, PTL DEF Spec

\* The fields of the node, the statuses and the results keep their types.  A handle may be
\* null here: that a mission has one is MissionsHaveGoals.
THEOREM TypeCorrect == Spec => []TypeOK
<1>1. IInv => TypeOK
  BY DEF IInv
<1> QED BY InvariantHolds, <1>1, PTL

\* The node never ticks, ends or replans a mission without a goal handle and, as long as
\* no requests have crossed, neither ticks nor ends one whose goal is no longer active.
THEOREM MissionsHaveGoals == Spec => []MissionsAreOfActiveGoals
<1>1. IInv => MissionsAreOfActiveGoals
  BY DEF IInv, HandlesOK, StatusInv, MissionsAreOfActiveGoals
<1> QED BY InvariantHolds, <1>1, PTL

\* However goals, cancellations and ends of missions interleave, no exception of
\* rclcpp_action ends the process, unless a request has crossed a mission that it was not
\* made for, or a mission was cancelled before rclcpp_action had moved its goal.
THEOREM NoExceptionUnlessCrossed == Spec => []OnlyCrossedRequestsTerminate
<1>1. IInv => OnlyCrossedRequestsTerminate
  BY DEF IInv, StatusInv, OnlyCrossedRequestsTerminate
<1> QED BY InvariantHolds, <1>1, PTL

\* A goal that is reported done is one whose own tree succeeded, unless a tick threw.
THEOREM SuccessIsOwn == Spec => []SuccessIsOfTheTree
<1>1. IInv => SuccessIsOfTheTree
  BY DEF IInv, SuccessInv, SuccessIsOfTheTree
<1> QED BY InvariantHolds, <1>1, PTL

\* No mission goes on after more fruitless replans than the limit and the free first one,
\* for every limit.
THEOREM LoopsAreGivenUp == Spec => []FruitlessReplansEnd
<1>1. IInv => FruitlessReplansEnd
  BY MissionAssumption DEF IInv, TypeOK, GuardInv, FruitlessReplansEnd
<1> QED BY InvariantHolds, <1>1, PTL
=============================================================================
