----------------------------- MODULE ExecutorNode -----------------------------
(***************************************************************************)
(* The missions of the ExecutorNode: the goals of the execute_plan action   *)
(* server and the state machine of execution_cycle.                         *)
(*                                                                          *)
(* Two threads share the node's fields with no lock.  The spin thread takes *)
(* goals and cancel requests (handle_accepted, handle_cancel) one at a      *)
(* time; the execution thread goes through the switch of execution_cycle    *)
(* 50 times a second.  A case of the switch is one step, except that of an  *)
(* idle node, which lowers the flag and reads the new goal handle in two.   *)
(*                                                                          *)
(* Goals are numbered in the order they are accepted.  The status of a goal *)
(* is that of rclcpp_action, where a transition that the status does not    *)
(* allow throws; nothing in the thread catches it, so the process ends.     *)
(***************************************************************************)
EXTENDS Naturals, FiniteSets

CONSTANTS
  MaxReplans,  \* the parameter max_replans_without_progress, not 0
  MaxGoals,    \* bound on the goals that clients send
  MaxActions,  \* bound on the actions that succeed under one plan
  MayThrow     \* may the tick of a behavior tree throw?

ASSUME MissionAssumption ==
  /\ MaxReplans \in Nat \ {0}
  /\ MaxGoals \in Nat \ {0} /\ MaxActions \in Nat
  /\ MayThrow \in BOOLEAN

VARIABLES
  executorState,    \* executor_state_
  current,          \* current_goal_handle_; 0 is a null handle, here and below
  newest,           \* new_goal_handle_
  cancelHandle,     \* cancel_goal_handle_
  newPlanReceived,  \* new_plan_received_
  cancelRequested,  \* cancel_requested_
  taking,           \* has an idle node lowered the flag, and not read the handle?
  status,           \* the rclcpp_action status of every goal
  result,           \* the result of every goal
  checking,         \* the goal of the cancel request that is being served
  asked,            \* has handle_cancel returned, and the goal not been moved yet?
  completed,        \* the SUCCESS entries of the action map, (INIT) included
  replans,          \* replans_without_progress_
  completedAtLast,  \* completed_at_last_replan_
  terminated,       \* has an exception ended the process?
  crossed,          \* history: has a request been left to a mission not its own?
  treeSucceeded,    \* history: the goals whose behavior tree has succeeded
  threw,            \* history: has a tick thrown?
  fruitless         \* history: replans in a row with no action done before each

handles == <<current, newest, cancelHandle>>
flags   == <<newPlanReceived, cancelRequested, taking>>
goals   == <<status, result>>
guard   == <<completed, replans, completedAtLast, fruitless>>
history == <<treeSucceeded, threw>>
request == <<checking, asked>>
vars == <<executorState, handles, flags, goals, request, guard, terminated,
          crossed, history>>

Goals  == 1 .. MaxGoals
States == {"IDLE", "EXECUTING", "REPLANNING", "ABORTING", "CANCELLED", "FAILED",
           "ERROR", "SUCCEDED"}
Active   == {"EXECUTING", "CANCELING"}
Statuses == Active \union {"UNSENT", "SUCCEEDED", "ABORTED", "CANCELED"}
Results  == {"none", "SUCCESS", "FAILURE", "PREEMPT"}

-----------------------------------------------------------------------------
(* The spin thread.                                                        *)

\* The handle of g is destroyed with the last field that refers to it.  A goal
\* still active is then CANCELED, with an empty result.
Released(g) == g # 0 /\ g # current /\ g # cancelHandle /\ status[g] \in Active

\* handle_goal accepts every goal, and handle_accepted keeps the last one.
HandleAccepted ==
  /\ ~terminated /\ checking = 0 /\ newest < MaxGoals
  /\ newest' = newest + 1
  /\ newPlanReceived' = TRUE
  /\ status' = [g \in Goals |-> IF g = newest' THEN "EXECUTING"
                                ELSE IF g = newest /\ Released(g) THEN "CANCELED"
                                ELSE status[g]]
  /\ UNCHANGED <<executorState, current, cancelHandle, cancelRequested, taking,
                 result, request, guard, terminated, history>>

\* handle_cancel looks at the state of the node, not at which goal it is.
HandleCancel(g) ==
  /\ ~terminated /\ checking = 0
  /\ status[g] = "EXECUTING" /\ executorState = "EXECUTING"
  /\ checking' = g
  /\ UNCHANGED <<executorState, handles, flags, goals, asked, guard, terminated,
                 history>>

\* The rest of handle_cancel, which accepts, whatever has become of the node.
RequestCancel ==
  /\ ~terminated /\ checking # 0 /\ ~asked
  /\ asked' = TRUE
  /\ cancelHandle' = checking
  /\ cancelRequested' = TRUE
  /\ status' = [g \in Goals |->
                  IF g = cancelHandle /\ g \notin {checking, current, newest}
                     /\ status[g] \in Active THEN "CANCELED"
                  ELSE status[g]]
  /\ UNCHANGED <<executorState, current, newest, newPlanReceived, taking, result,
                 checking, guard, terminated, history>>

\* What rclcpp_action does once handle_cancel has returned: it moves the goal, and
\* gives it up if it has ended meanwhile.
AcceptCancel ==
  /\ ~terminated /\ asked
  /\ checking' = 0 /\ asked' = FALSE
  /\ status' = [status EXCEPT ![checking] = IF @ \in Active THEN "CANCELING" ELSE @]
  /\ UNCHANGED <<executorState, handles, flags, result, guard, terminated, history>>

\* An action of the plan succeeds (see ActionHub).
CompleteAction ==
  /\ ~terminated /\ executorState \in {"EXECUTING", "REPLANNING"}
  /\ completed <= MaxActions
  /\ completed' = completed + 1
  /\ UNCHANGED <<executorState, handles, flags, goals, request, replans,
                 completedAtLast, fruitless, terminated, history>>

-----------------------------------------------------------------------------
(* The execution thread.                                                   *)

In(s) == ~terminated /\ executorState = s

TakeFlag ==
  /\ In("IDLE") /\ newPlanReceived /\ ~taking
  /\ newPlanReceived' = FALSE
  /\ taking' = TRUE
  /\ UNCHANGED <<executorState, handles, cancelRequested, goals, request, guard,
                 terminated, history>>

\* init_plan_for_execution fails if no tree can be made of the plan.
TakeGoal ==
  /\ In("IDLE") /\ taking
  /\ taking' = FALSE
  /\ current' = newest
  /\ executorState' \in {"EXECUTING", "ABORTING"}
  /\ completed' = 1 /\ replans' = 0 /\ completedAtLast' = 0 /\ fruitless' = 0
  /\ UNCHANGED <<newest, cancelHandle, newPlanReceived, cancelRequested, goals,
                 request, terminated, history>>

\* What follows a tick that returned "ticked": the flags count only if the tree
\* goes on, and a cancellation before a new plan.
Decide(ticked, otherwise) ==
  /\ executorState' = CASE ticked = "SUCCESS" -> "SUCCEDED"
                        [] ticked = "FAILURE" -> "FAILED"
                        [] ticked = "RUNNING" /\ cancelRequested -> "CANCELLED"
                        [] ticked = "RUNNING" /\ ~cancelRequested /\ newPlanReceived
                             -> "REPLANNING"
                        [] OTHER -> otherwise
  /\ cancelRequested' = (cancelRequested /\ executorState' # "CANCELLED")
  /\ newPlanReceived' = (newPlanReceived /\ executorState' # "REPLANNING")
  /\ UNCHANGED <<handles, taking, goals, request, guard, terminated>>

TickTree ==
  /\ In("EXECUTING")
  /\ \E ticked \in {"RUNNING", "SUCCESS", "FAILURE"} :
       /\ Decide(ticked, "EXECUTING")
       /\ treeSucceeded' = IF ticked = "SUCCESS" THEN treeSucceeded \union {current}
                           ELSE treeSucceeded
  /\ UNCHANGED threw

\* The status is left uninitialized and read all the same.
TickThrows ==
  /\ In("EXECUTING") /\ MayThrow
  /\ \E ticked \in {"RUNNING", "SUCCESS", "FAILURE"} : Decide(ticked, "FAILED")
  /\ threw' = TRUE
  /\ UNCHANGED treeSucceeded

\* The current goal ends with result r, if its status is one of "from".
EndGoal(from, to, r, next) ==
  /\ IF current # 0 /\ status[current] \in from
     THEN /\ status' = [status EXCEPT ![current] = to]
          /\ result' = [result EXCEPT ![current] = r]
          /\ executorState' = next
          /\ UNCHANGED terminated
     ELSE /\ terminated' = TRUE
          /\ UNCHANGED <<status, result, executorState>>
  /\ UNCHANGED <<handles, flags, request, guard, history>>

\* Mutant of Preempt: a result that ExecutePlan.action does not define.
PreemptUndefined ==
  /\ In("REPLANNING") /\ status[current] = "EXECUTING"
  /\ EndGoal(Active, "ABORTED", "PREEMPTED", "REPLANNING")

\* A goal that is being canceled is neither aborted nor replaced.
Preempt ==
  /\ In("REPLANNING") /\ status[current] = "EXECUTING"
  /\ EndGoal(Active, "ABORTED", "PREEMPT", "REPLANNING")

\* The mutants of ReplanOrGiveUp: the next mission has the handle "next", the
\* limit is "limit", and it waits for the current goal to have ended, or not.
ReplanMutant(next, limit, waits) ==
  /\ In("REPLANNING") /\ (waits => status[current] \notin Active)
  /\ current' = next
  /\ replans' = IF completed > completedAtLast THEN 0 ELSE replans + 1
  /\ completedAtLast' = completed
  /\ fruitless' = IF completed > 1 THEN 0 ELSE fruitless + 1
  /\ IF replans' <= limit
     THEN executorState' \in {"EXECUTING", "ERROR"} /\ completed' = 1
     ELSE executorState' = "ABORTING" /\ UNCHANGED completed
  /\ UNCHANGED <<newest, cancelHandle, flags, goals, request, terminated, history>>

KeepOldHandle    == ReplanMutant(current, MaxReplans, TRUE)
OneReplanMore    == ReplanMutant(newest, MaxReplans + 1, TRUE)
ForgetTheOldGoal == ReplanMutant(newest, MaxReplans, FALSE)

\* replanning_is_making_progress counts, replan_for_execution makes a new action
\* map, in which only the executors of running actions are kept.
ReplanOrGiveUp ==
  /\ In("REPLANNING") /\ status[current] \notin Active
  /\ current' = newest
  /\ replans' = IF completed > completedAtLast THEN 0 ELSE replans + 1
  /\ completedAtLast' = completed
  /\ fruitless' = IF completed > 1 THEN 0 ELSE fruitless + 1
  /\ IF replans' <= MaxReplans
     THEN executorState' \in {"EXECUTING", "ERROR"} /\ completed' = 1
     ELSE executorState' = "ABORTING" /\ UNCHANGED completed
  /\ UNCHANGED <<newest, cancelHandle, flags, goals, request, terminated, history>>

\* Mutant of Fail: the result of a failed mission is that of a good one.
FailWithSuccess == In("FAILED") /\ EndGoal(Active, "SUCCEEDED", "SUCCESS", "IDLE")

Abort    == In("ABORTING")  /\ EndGoal(Active, "ABORTED", "FAILURE", "IDLE")
Canceled == In("CANCELLED") /\ EndGoal({"CANCELING"}, "CANCELED", "FAILURE", "IDLE")
Fail     == In("FAILED")    /\ EndGoal(Active, "SUCCEEDED", "FAILURE", "IDLE")
Error    == In("ERROR")     /\ EndGoal(Active, "ABORTED", "FAILURE", "IDLE")
Succeed  == In("SUCCEDED")  /\ EndGoal(Active, "SUCCEEDED", "SUCCESS", "IDLE")

-----------------------------------------------------------------------------

Init ==
  /\ executorState = "IDLE"
  /\ current = 0 /\ newest = 0 /\ cancelHandle = 0
  /\ newPlanReceived = FALSE /\ cancelRequested = FALSE /\ taking = FALSE
  /\ status = [g \in Goals |-> "UNSENT"]
  /\ result = [g \in Goals |-> "none"]
  /\ checking = 0 /\ asked = FALSE
  /\ completed = 0 /\ replans = 0 /\ completedAtLast = 0 /\ fruitless = 0
  /\ terminated = FALSE /\ crossed = FALSE
  /\ treeSucceeded = {} /\ threw = FALSE

SpinThread ==
  \/ HandleAccepted \/ \E g \in Goals : HandleCancel(g)
  \/ RequestCancel \/ AcceptCancel \/ CompleteAction

execution_cycle ==
  \/ TakeFlag \/ TakeGoal \/ TickTree \/ TickThrows \/ Preempt \/ ReplanOrGiveUp
  \/ Abort \/ Canceled \/ Fail \/ Error \/ Succeed

\* A cancellation is pending that is not (or no longer) that of the current goal.
StrayCancel ==
  /\ cancelRequested
  /\ \/ cancelHandle # current
     \/ status[current] \notin IF asked THEN Active ELSE {"CANCELING"}

\* The plan announced as new is the one that is being executed.
StrayPlan == newPlanReceived /\ current = newest

\* The current goal is cancelled when it was about to be replaced.
CancelledLate == executorState = "REPLANNING" /\ status[current] = "CANCELING"

Next ==
  /\ SpinThread \/ execution_cycle
  /\ crossed' = (crossed \/ StrayCancel' \/ StrayPlan' \/ CancelledLate')

Spec == Init /\ [][Next]_vars

\* The process was ended by the cancellation of its own mission: the flag was acted on
\* before rclcpp_action had moved the goal.
CanceledEarly ==
  terminated /\ executorState = "CANCELLED" /\ asked /\ checking = current

\* Both threads go on, and a behavior tree does not return RUNNING for ever.
FairSpec ==
  /\ Spec
  /\ WF_vars(execution_cycle /\ Next)
  /\ WF_vars((RequestCancel \/ AcceptCancel) /\ Next)

-----------------------------------------------------------------------------

TypeOK ==
  /\ executorState \in States
  /\ current \in 0 .. MaxGoals /\ newest \in 0 .. MaxGoals
  /\ cancelHandle \in 0 .. MaxGoals /\ checking \in 0 .. MaxGoals
  /\ newPlanReceived \in BOOLEAN /\ cancelRequested \in BOOLEAN /\ taking \in BOOLEAN
  /\ status \in [Goals -> Statuses] /\ result \in [Goals -> Results]
  /\ completed \in Nat /\ replans \in Nat /\ completedAtLast \in Nat
  /\ fruitless \in Nat
  /\ asked \in BOOLEAN
  /\ terminated \in BOOLEAN /\ crossed \in BOOLEAN /\ threw \in BOOLEAN
  /\ treeSucceeded \in SUBSET Goals

\* The process is ended by an exception of rclcpp_action only after a request has
\* crossed a mission it was not made for, or in the moment in which the goal of its
\* own mission is yet to be moved to CANCELING: every other interleaving of goals,
\* cancellations and ends of missions takes each goal through legal transitions.
OnlyCrossedRequestsTerminate == terminated => crossed \/ CanceledEarly

\* As long as no requests have crossed, the mission that is ticked, or is about to be
\* ended, is one whose goal is still active, so that its client is told of its end.
MissionsAreOfActiveGoals ==
  /\ executorState # "IDLE" => current \in Goals
  /\ ~crossed /\ executorState \notin {"IDLE", "REPLANNING"} => status[current] \in Active

\* A goal that is reported done is one whose own tree succeeded, through any
\* number of preemptions and cancellations, unless the tick threw.
SuccessIsOfTheTree ==
  ~threw => \A g \in Goals : result[g] = "SUCCESS" => g \in treeSucceeded

\* Every goal accepted ends, be it executed, preempted, cancelled or never
\* looked at, unless requests crossed or an early cancellation ended the process.
EveryGoalEnds ==
  \A g \in Goals :
    status[g] \in Active ~> status[g] \notin Active \/ crossed \/ CanceledEarly

\* A loop of replans with no action done in between is given up, one replan after the
\* limit at the latest.  The limit is documented as "How many replans in a row are tolerated
\* with nothing having completed in between" (ExecutorNode.cpp 82), but the entry (INIT) of
\* the action map counts as completed at the first replan, so one more is made.
FruitlessReplansEnd ==
  executorState = "EXECUTING" => fruitless <= MaxReplans + 1

\* cancel_plan_execution promises to cancel the execution of the current plan
\* (ExecutorClient.hpp 82): a mission is cancelled when its own goal was.
OnlyTheMissionMeantIsCancelled ==
  [][executorState # "CANCELLED" /\ executorState' = "CANCELLED"
       => status[current] = "CANCELING" \/ (asked /\ checking = current)]_vars
=============================================================================
