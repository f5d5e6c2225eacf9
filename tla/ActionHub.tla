------------------------------ MODULE ActionHub ------------------------------
(***************************************************************************)
(* The negotiation between the ActionExecutors of the plan being executed  *)
(* (the requesters) and the ActionExecutorClients (the performers), over   *)
(* the topic actions_hub.                                                  *)
(*                                                                         *)
(* Every ActionExecutor and every performer publishes with a publisher of  *)
(* its own, reliable, so messages of one publisher reach one subscriber in *)
(* order and those of different publishers interleave freely: a FIFO queue *)
(* per (publisher, subscriber).  The topic is a broadcast.  A message a    *)
(* subscriber drops without any effect, because it names another node or   *)
(* another action, is not put in that subscriber's queue.                  *)
(*                                                                         *)
(* The executor process has two threads that share an ActionExecutor with  *)
(* no lock: the spin thread runs the subscription and timer callbacks, the *)
(* execution thread calls tick() and cancel().  Where one of these two     *)
(* decides on a state it has read and then overwrites it, the decision and *)
(* the writing are separate steps, "pending" in between.                   *)
(***************************************************************************)
EXTENDS Naturals, Sequences, FiniteSets

CONSTANTS
  Executors,      \* the ActionExecutor objects, one per item of every plan
  Performers,     \* the ActionExecutorClient nodes
  Exprs,          \* the grounded actions, name and arguments
  ExprOf,         \* the grounded action each executor was made for
  PlanOf,         \* the plan each executor is made for: 0, 1, ...
  CanDo,          \* the grounded actions should_execute accepts, by performer
  After,          \* the executors a plan has finish before another one starts
  None,           \* the empty string or vector: no performer, no arguments
  SlowPerformers, \* may a confirmed performer stay silent for over 5 s?
  TickRaces,      \* may a callback run between a tick's decision and its write?
  Backlog,        \* a timed message waits for queues shorter than this
  MaxPlans,       \* bound on the plans executed, new missions and replans
  MaxUnstarted,   \* bound on FINISH(failure) messages with no completion
  MaxCrashes,     \* bound on the crashes of performers
  Endless         \* may these two, if not 0, be exceeded when little is under way?

ASSUME HubAssumption ==
  /\ ExprOf \in [Executors -> Exprs]
  /\ PlanOf \in [Executors -> Nat]
  /\ CanDo \in [Performers -> SUBSET Exprs]
  /\ After \in [Executors -> SUBSET Executors]
  /\ None \notin Performers \union Exprs
  /\ SlowPerformers \in BOOLEAN /\ TickRaces \in BOOLEAN /\ Endless \in BOOLEAN
  /\ Backlog \in Nat \ {0}
  /\ MaxPlans \in Nat /\ MaxUnstarted \in Nat /\ MaxCrashes \in Nat

VARIABLES
  alive,        \* the executors that exist: those in the action_map
  state,        \* ActionExecutor::state_
  performer,    \* ActionExecutor::current_performer_id_
  progressed,   \* ActionExecutor::completion_ > 0.0
  hubOpen,      \* is ActionExecutor::action_hub_pub_ activated?
  waiting,      \* is ActionExecutor::waiting_timer_ set?
  pending,      \* what the execution thread has decided and not yet written
  mission,      \* "on": the tree is ticked; "ending": cancelling; "off": over
  visited,      \* executors cancel_all_running_actions has looked at
  lifecycle,    \* the lifecycle state of a performer; "down" when it crashed
  committed,    \* ActionExecutorClient::committed_
  arguments,    \* ActionExecutorClient::current_arguments_, with the action
  toPerformers, \* toPerformers[e][p]: from the publisher of e to p
  toExecutors,  \* toExecutors[p][e]: from the publisher of p to e
  plans, unstarted, crashes, \* counters of what the bounds bound
  employer,     \* history: the executor whose CONFIRM the performer took last
  done          \* history: the executors somebody has done the action for

executorVars  == <<alive, state, performer, progressed, hubOpen, waiting>>
threadVars    == <<pending, mission, visited>>
performerVars == <<lifecycle, committed, arguments, employer, done>>
counters      == <<plans, unstarted, crashes>>
vars == <<executorVars, threadVars, performerVars, toPerformers, toExecutors,
          counters>>

States    == {"IDLE", "DEALING", "RUNNING", "SUCCESS", "FAILURE", "CANCELLED"}
Decisions == {"none", "giveUp", "retry", "cancel"}
Requester == {"REQUEST", "CONFIRM", "REJECT", "CANCEL"}

\* A FINISH is told apart by success, and by whether any work had been done.
Finishes   == {"FINISH_SUCCESS", "FINISH_FAILURE", "FINISH_UNSTARTED"}
Feedbacks  == {"FEEDBACK", "FEEDBACK_ZERO"}
Performing == {"RESPONSE"} \union Feedbacks \union Finishes

-----------------------------------------------------------------------------
(* Publishing.                                                             *)

IsUp(p) == lifecycle[p] # "down"
Same(x) == {e \in alive : ExprOf[e] = x}

\* The queues after e, whose publisher is open or not, publishes msg to those
\* of the performers in "to" that are up.
SentTo(e, open, to, msg) ==
  [toPerformers EXCEPT ![e] =
     [p \in Performers |->
        IF open /\ p \in to /\ IsUp(p) THEN Append(@[p], msg) ELSE @[p]]]

\* The queues "queues" of performer p after it publishes msg about action x.
SentBy(p, queues, x, msg) ==
  [queues EXCEPT ![p] =
     [e \in Executors |-> IF e \in Same(x) THEN Append(@[e], msg) ELSE @[e]]]

Drained(e) == \A p \in Performers : Len(toPerformers[e][p]) < Backlog

-----------------------------------------------------------------------------
(* The execution thread: tick() and cancel().                              *)

Free == \A e \in Executors : pending[e] = "none"
May(e) == TickRaces \/ pending[e] = "none"

Decide(e, what) ==
  /\ Free
  /\ pending' = [pending EXCEPT ![e] = what]

\* tick() of an IDLE executor, once the plan items before it are done.
StartDealing(e) ==
  /\ mission = "on" /\ Free
  /\ e \in alive /\ state[e] = "IDLE"
  /\ \A d \in After[e] : state[d] = "SUCCESS"
  /\ state' = [state EXCEPT ![e] = "DEALING"]
  /\ hubOpen' = [hubOpen EXCEPT ![e] = TRUE]
  /\ progressed' = [progressed EXCEPT ![e] = FALSE]
  /\ waiting' = [waiting EXCEPT ![e] = TRUE]
  /\ toPerformers' = SentTo(e, TRUE, Performers, "REQUEST")
  /\ UNCHANGED <<alive, performer, threadVars, performerVars, toExecutors,
                 counters>>

\* tick() of an executor that has been DEALING for more than 30 s.
DecideGiveUp(e) ==
  /\ mission = "on" /\ e \in alive /\ state[e] = "DEALING"
  /\ Decide(e, "giveUp")
  /\ UNCHANGED <<executorVars, mission, visited, performerVars, toPerformers,
                 toExecutors, counters>>

GiveUp(e) ==
  /\ pending[e] = "giveUp"
  /\ pending' = [pending EXCEPT ![e] = "none"]
  /\ state' = [state EXCEPT ![e] = "FAILURE"]
  /\ UNCHANGED <<alive, performer, progressed, hubOpen, waiting, mission, visited,
                 performerVars, toPerformers, toExecutors, counters>>

\* Is p still to work, or at work, or through with its work for executor e?
Engaged(e, p) ==
  \/ \E i \in DOMAIN toPerformers[e][p] : toPerformers[e][p][i] = "CONFIRM"
  \/ lifecycle[p] = "active" /\ employer[p] = e
  \/ \E i \in DOMAIN toExecutors[p][e] : toExecutors[p][e][i] \in Finishes

\* Mutant of DecideRetry: the completion is compared the wrong way round.
RetryTheProgressed(e) ==
  /\ mission = "on" /\ e \in alive
  /\ state[e] = "RUNNING" /\ progressed[e]
  /\ SlowPerformers \/ ~Engaged(e, performer[e])
  /\ Drained(e)
  /\ Decide(e, "retry")
  /\ UNCHANGED <<executorVars, mission, visited, performerVars, toPerformers,
                 toExecutors, counters>>

\* tick() of a RUNNING executor that has heard nothing for more than 5 s, with
\* nothing completed.
DecideRetry(e) ==
  /\ mission = "on" /\ e \in alive
  /\ state[e] = "RUNNING" /\ ~progressed[e]
  /\ SlowPerformers \/ ~Engaged(e, performer[e])
  /\ Drained(e)
  /\ Decide(e, "retry")
  /\ UNCHANGED <<executorVars, mission, visited, performerVars, toPerformers,
                 toExecutors, counters>>

Retry(e) ==
  /\ pending[e] = "retry"
  /\ pending' = [pending EXCEPT ![e] = "none"]
  /\ performer' = [performer EXCEPT ![e] = None]
  /\ state' = [state EXCEPT ![e] = "DEALING"]
  /\ progressed' = [progressed EXCEPT ![e] = FALSE]
  /\ waiting' = [waiting EXCEPT ![e] = TRUE]
  /\ toPerformers' = SentTo(e, hubOpen[e], Performers, "REQUEST")
  /\ UNCHANGED <<alive, hubOpen, mission, visited, performerVars, toExecutors,
                 counters>>

\* A mission ends when its tree fails or succeeds, or when it is cancelled, and
\* cancel_all_running_actions then looks at one executor after the other.
EndMission ==
  /\ mission = "on" /\ Free
  /\ mission' = "ending"
  /\ visited' = {}
  /\ UNCHANGED <<executorVars, pending, performerVars, toPerformers,
                 toExecutors, counters>>

CancelIfRunning(e) ==
  /\ mission = "ending" /\ e \in alive \ visited
  /\ Decide(e, IF state[e] = "RUNNING" THEN "cancel" ELSE "none")
  /\ visited' = visited \union {e}
  /\ UNCHANGED <<executorVars, mission, performerVars, toPerformers,
                 toExecutors, counters>>

Cancel(e) ==
  /\ pending[e] = "cancel"
  /\ pending' = [pending EXCEPT ![e] = "none"]
  /\ state' = [state EXCEPT ![e] = "CANCELLED"]
  /\ toPerformers' = SentTo(e, hubOpen[e], {performer[e]}, "CANCEL")
  /\ UNCHANGED <<alive, performer, progressed, hubOpen, waiting, mission, visited,
                 performerVars, toExecutors, counters>>

\* The executors and their callbacks stay behind when the thread goes idle.
MissionOver ==
  /\ mission = "ending" /\ alive \subseteq visited /\ Free
  /\ mission' = "off"
  /\ UNCHANGED <<executorVars, pending, visited, performerVars, toPerformers,
                 toExecutors, counters>>

\* Mutant of NextPlan: the executor made for the action of a kept one stays too.
BothExecutorsLive(kept) ==
  /\ plans < MaxPlans
  /\ plans' = plans + 1
  /\ alive' = kept \union {e \in Executors : PlanOf[e] = plans'}
  /\ toExecutors' =
       [p \in Performers |->
          [e \in Executors |-> IF e \in kept THEN toExecutors[p][e] ELSE <<>>]]

\* The next plan: its executors are made, and of those that exist only the
\* executors "kept" survive.  A kept executor takes the place of the one made
\* for the same action.
NextPlan(kept) ==
  /\ plans < MaxPlans
  /\ plans' = plans + 1
  /\ alive' = kept \union
       {e \in Executors : PlanOf[e] = plans' /\ \A k \in kept : ExprOf[e] # ExprOf[k]}
  /\ toExecutors' =
       [p \in Performers |->
          [e \in Executors |-> IF e \in kept THEN toExecutors[p][e] ELSE <<>>]]

NewMission ==
  /\ mission = "off"
  /\ NextPlan({})
  /\ mission' = "on"
  /\ UNCHANGED <<state, performer, progressed, hubOpen, waiting, pending, visited,
                 performerVars, toPerformers, unstarted, crashes>>

\* A new plan during a mission keeps the running executors whose action it
\* begins with, cancels the other running ones, and drops the rest.
Replan(kept) ==
  /\ mission = "on" /\ Free
  /\ \A e \in kept : /\ e \in alive /\ state[e] = "RUNNING"
                     /\ \E f \in Executors : PlanOf[f] = plans + 1 /\ ExprOf[f] = ExprOf[e]
  /\ NextPlan(kept)
  /\ LET cancelled == {e \in alive \ kept : state[e] = "RUNNING"}
     IN /\ state' = [e \in Executors |->
                       IF e \in cancelled THEN "CANCELLED" ELSE state[e]]
        /\ toPerformers' =
             [e \in Executors |->
                IF e \in cancelled
                THEN SentTo(e, hubOpen[e], {performer[e]}, "CANCEL")[e]
                ELSE toPerformers[e]]
  /\ UNCHANGED <<performer, progressed, hubOpen, waiting, threadVars,
                 performerVars, unstarted, crashes>>

-----------------------------------------------------------------------------
(* The spin thread: action_hub_callback and waiting_timer_.                *)

Receive(p, e, type) ==
  /\ e \in alive /\ May(e)
  /\ toExecutors[p][e] # <<>> /\ Head(toExecutors[p][e]) = type
  /\ toExecutors' = [toExecutors EXCEPT ![p][e] = Tail(@)]

\* The four mutants of HandleResponse: an executor takes a performer in the
\* states "open" and stores "as"; without a REJECT if "polite" is FALSE.
ResponseMutant(p, e, open, as, polite) ==
  /\ Receive(p, e, "RESPONSE")
  /\ IF state[e] \in open
     THEN /\ state' = [state EXCEPT ![e] = "RUNNING"]
          /\ performer' = [performer EXCEPT ![e] = as]
          /\ waiting' = [waiting EXCEPT ![e] = FALSE]
          /\ toPerformers' = SentTo(e, hubOpen[e], {p}, "CONFIRM")
     ELSE /\ toPerformers' = SentTo(e, hubOpen[e] /\ polite, {p}, "REJECT")
          /\ UNCHANGED <<state, performer, waiting>>
  /\ UNCHANGED <<alive, progressed, hubOpen, threadVars, performerVars, counters>>

StoreTheAction(p, e) == ResponseMutant(p, e, {"DEALING"}, ExprOf[e], TRUE)
LastResponseWins(p, e) == ResponseMutant(p, e, {"DEALING", "RUNNING"}, p, TRUE)
TakeAfterSuccess(p, e) == ResponseMutant(p, e, {"DEALING", "SUCCESS"}, p, TRUE)
NoReject(p, e) == ResponseMutant(p, e, {"DEALING"}, p, FALSE)

HandleResponse(p, e) ==
  /\ Receive(p, e, "RESPONSE")
  /\ IF state[e] = "DEALING"
     THEN /\ state' = [state EXCEPT ![e] = "RUNNING"]
          /\ performer' = [performer EXCEPT ![e] = p]
          /\ waiting' = [waiting EXCEPT ![e] = FALSE]
          /\ toPerformers' = SentTo(e, hubOpen[e], {p}, "CONFIRM")
     ELSE /\ toPerformers' = SentTo(e, hubOpen[e], {p}, "REJECT")
          /\ UNCHANGED <<state, performer, waiting>>
  /\ UNCHANGED <<alive, progressed, hubOpen, threadVars, performerVars, counters>>

HandleFeedback(p, e, type) ==
  /\ type \in Feedbacks
  /\ Receive(p, e, type)
  /\ progressed' = IF state[e] = "RUNNING" /\ performer[e] = p
                   THEN [progressed EXCEPT ![e] = (type = "FEEDBACK")]
                   ELSE progressed
  /\ UNCHANGED <<alive, state, performer, hubOpen, waiting, threadVars,
                 performerVars, toPerformers, counters>>

\* Mutant of FinishesIn: the FINISH of any performer counts.
FinishOfAnybody(p, e, type, next) ==
  /\ Receive(p, e, type)
  /\ state' = [state EXCEPT ![e] = next]
  /\ progressed' = [progressed EXCEPT ![e] = (type # "FINISH_UNSTARTED")]

\* The state of the executor is not looked at, only who the performer is.
FinishesIn(p, e, type, next) ==
  /\ Receive(p, e, type)
  /\ performer[e] = p
  /\ state' = [state EXCEPT ![e] = next]
  /\ progressed' = [progressed EXCEPT ![e] = (type # "FINISH_UNSTARTED")]

HandleFinish(p, e) ==
  /\ \/ FinishesIn(p, e, "FINISH_SUCCESS", "SUCCESS")
     \/ FinishesIn(p, e, "FINISH_FAILURE", "FAILURE")
  /\ hubOpen' = [hubOpen EXCEPT ![e] = FALSE]
  /\ UNCHANGED <<alive, performer, waiting, threadVars, performerVars,
                 toPerformers, counters>>

HandleUnstarted(p, e) ==
  /\ FinishesIn(p, e, "FINISH_UNSTARTED", "DEALING")
  /\ performer' = [performer EXCEPT ![e] = None]
  /\ waiting' = [waiting EXCEPT ![e] = TRUE]
  /\ toPerformers' = SentTo(e, hubOpen[e], Performers, "REQUEST")
  /\ UNCHANGED <<alive, hubOpen, threadVars, performerVars, counters>>

IgnoreFinish(p, e) ==
  /\ performer[e] # p
  /\ \E type \in Finishes : Receive(p, e, type)
  /\ UNCHANGED <<executorVars, threadVars, performerVars, toPerformers,
                 counters>>

\* Every second while the timer is set, whatever state the executor is in.
WaitTimeout(e) ==
  /\ e \in alive /\ May(e)
  /\ waiting[e] /\ hubOpen[e] /\ Drained(e)
  /\ toPerformers' = SentTo(e, hubOpen[e], Performers, "REQUEST")
  /\ UNCHANGED <<executorVars, threadVars, performerVars, toExecutors,
                 counters>>

-----------------------------------------------------------------------------
(* A performer: its action_hub_callback, its work, its crashes.            *)

\* May a fault that has happened "count" times do so beyond the bound?  It then waits for
\* the queues to be short, so that they stay bounded, and is not counted.
MayRecur(count) == Endless /\ count > 0
Counted(count, max) == IF count < max THEN count + 1 ELSE count

Take(e, p, type) ==
  /\ IsUp(p)
  /\ toPerformers[e][p] # <<>> /\ Head(toPerformers[e][p]) = type
  /\ toPerformers' = [toPerformers EXCEPT ![e][p] = Tail(@)]

\* Mutant of HandleRequest: a committed performer offers itself once more.
OfferThoughCommitted(e, p) ==
  /\ Take(e, p, "REQUEST")
  /\ IF lifecycle[p] = "inactive" /\ ExprOf[e] \in CanDo[p]
     THEN /\ committed' = [committed EXCEPT ![p] = TRUE]
          /\ toExecutors' = SentBy(p, toExecutors, ExprOf[e], "RESPONSE")
     ELSE UNCHANGED <<committed, toExecutors>>
  /\ UNCHANGED <<executorVars, threadVars, lifecycle, arguments, employer, done,
                 counters>>

\* Mutant of HandleRequest: a performer offers itself while it works.
OfferWhileActive(e, p) ==
  /\ Take(e, p, "REQUEST")
  /\ IF IsUp(p) /\ ~committed[p] /\ ExprOf[e] \in CanDo[p]
     THEN /\ committed' = [committed EXCEPT ![p] = TRUE]
          /\ toExecutors' = SentBy(p, toExecutors, ExprOf[e], "RESPONSE")
     ELSE UNCHANGED <<committed, toExecutors>>
  /\ UNCHANGED <<executorVars, threadVars, lifecycle, arguments, employer, done,
                 counters>>

HandleRequest(e, p) ==
  /\ Take(e, p, "REQUEST")
  /\ IF lifecycle[p] = "inactive" /\ ~committed[p] /\ ExprOf[e] \in CanDo[p]
     THEN /\ committed' = [committed EXCEPT ![p] = TRUE]
          /\ toExecutors' = SentBy(p, toExecutors, ExprOf[e], "RESPONSE")
     ELSE UNCHANGED <<committed, toExecutors>>
  /\ UNCHANGED <<executorVars, threadVars, lifecycle, arguments, employer, done,
                 counters>>

Ready(p) == lifecycle[p] = "inactive" /\ committed[p]

\* on_activate may fail, and the performer then says so at once.
HandleConfirm(e, p) ==
  /\ Take(e, p, "CONFIRM") /\ Ready(p)
  /\ arguments' = [arguments EXCEPT ![p] = ExprOf[e]]
  /\ employer' = [employer EXCEPT ![p] = e]
  /\ committed' = [committed EXCEPT ![p] = FALSE]
  /\ \/ /\ lifecycle' = [lifecycle EXCEPT ![p] = "active"]
        /\ UNCHANGED <<toExecutors, counters>>
     \/ /\ \/ unstarted < MaxUnstarted
           \/ MayRecur(unstarted) /\ \A q \in Performers : Len(toPerformers'[e][q]) < Backlog
        /\ unstarted' = Counted(unstarted, MaxUnstarted)
        /\ toExecutors' = SentBy(p, toExecutors, ExprOf[e], "FINISH_UNSTARTED")
        /\ UNCHANGED <<lifecycle, plans, crashes>>
  /\ UNCHANGED <<executorVars, threadVars, done>>

IgnoreConfirm(e, p) ==
  /\ Take(e, p, "CONFIRM") /\ ~Ready(p)
  /\ UNCHANGED <<executorVars, threadVars, performerVars, toExecutors,
                 counters>>

HandleReject(e, p) ==
  /\ Take(e, p, "REJECT")
  /\ committed' = [committed EXCEPT ![p] = FALSE]
  /\ UNCHANGED <<executorVars, threadVars, lifecycle, arguments, employer, done,
                 toExecutors, counters>>

\* Whatever action it is working on, and without a FINISH.
HandleCancel(e, p) ==
  /\ Take(e, p, "CANCEL")
  /\ lifecycle' = [lifecycle EXCEPT ![p] = "inactive"]
  /\ UNCHANGED <<executorVars, threadVars, committed, arguments, employer, done,
                 toExecutors, counters>>

\* do_work, by its timer, only while the performer is active.
SendFeedback(p, type) ==
  /\ lifecycle[p] = "active" /\ type \in Feedbacks
  /\ \A e \in Same(arguments[p]) : Len(toExecutors[p][e]) < Backlog
  /\ toExecutors' = SentBy(p, toExecutors, arguments[p], type)
  /\ UNCHANGED <<executorVars, threadVars, performerVars, toPerformers,
                 counters>>

Finish(p, type) ==
  /\ lifecycle[p] = "active" /\ type \in Finishes
  /\ IF type = "FINISH_UNSTARTED"
     THEN /\ \/ unstarted < MaxUnstarted
             \/ MayRecur(unstarted) /\ \A e \in Same(arguments[p]) : Drained(e)
          /\ unstarted' = Counted(unstarted, MaxUnstarted)
     ELSE UNCHANGED unstarted
  /\ lifecycle' = [lifecycle EXCEPT ![p] = "inactive"]
  /\ toExecutors' = SentBy(p, toExecutors, arguments[p], type)
  /\ done' = IF type = "FINISH_SUCCESS" THEN done \union {employer[p]} ELSE done
  /\ UNCHANGED <<executorVars, threadVars, committed, arguments, employer,
                 toPerformers, plans, crashes>>

\* What a dead performer had not read is lost; what it had published and its
\* middleware had not delivered may be lost too.
Crash(p) ==
  /\ IsUp(p)
  /\ \/ crashes < MaxCrashes
     \/ MayRecur(crashes) /\ \A e \in Executors : Len(toExecutors[p][e]) < Backlog
  /\ crashes' = Counted(crashes, MaxCrashes)
  /\ lifecycle' = [lifecycle EXCEPT ![p] = "down"]
  /\ committed' = [committed EXCEPT ![p] = FALSE]
  /\ arguments' = [arguments EXCEPT ![p] = None]
  /\ toPerformers' = [e \in Executors |-> [toPerformers[e] EXCEPT ![p] = <<>>]]
  /\ \/ UNCHANGED toExecutors
     \/ toExecutors' =
          [toExecutors EXCEPT ![p] = [e \in Executors |-> <<>>]]
  /\ UNCHANGED <<executorVars, threadVars, employer, done, plans, unstarted>>

\* on_configure of a new process: a new subscription, and not committed.
Configure(p) ==
  /\ ~IsUp(p)
  /\ lifecycle' = [lifecycle EXCEPT ![p] = "inactive"]
  /\ UNCHANGED <<executorVars, threadVars, committed, arguments, employer, done,
                 toPerformers, toExecutors, counters>>

-----------------------------------------------------------------------------

Init ==
  /\ alive = {e \in Executors : PlanOf[e] = 0}
  /\ state = [e \in Executors |-> "IDLE"]
  /\ performer = [e \in Executors |-> None]
  /\ progressed = [e \in Executors |-> FALSE]
  /\ hubOpen = [e \in Executors |-> FALSE]
  /\ waiting = [e \in Executors |-> FALSE]
  /\ pending = [e \in Executors |-> "none"]
  /\ mission = "on" /\ visited = {}
  /\ lifecycle = [p \in Performers |-> "inactive"]
  /\ committed = [p \in Performers |-> FALSE]
  /\ arguments = [p \in Performers |-> None]
  /\ toPerformers = [e \in Executors |-> [p \in Performers |-> <<>>]]
  /\ toExecutors = [p \in Performers |-> [e \in Executors |-> <<>>]]
  /\ plans = 0 /\ unstarted = 0 /\ crashes = 0
  /\ employer = [p \in Performers |-> None] /\ done = {}

Tick(e) ==
  StartDealing(e) \/ DecideGiveUp(e) \/ GiveUp(e) \/ DecideRetry(e) \/ Retry(e)

Ending(e) == CancelIfRunning(e) \/ Cancel(e)

Plans ==
  EndMission \/ MissionOver \/ NewMission \/ \E kept \in SUBSET Executors : Replan(kept)

ExecutorCallback(p, e) ==
  \/ HandleResponse(p, e)
  \/ \E type \in Feedbacks : HandleFeedback(p, e, type)
  \/ HandleFinish(p, e)
  \/ HandleUnstarted(p, e)
  \/ IgnoreFinish(p, e)

PerformerCallback(e, p) ==
  \/ HandleRequest(e, p)
  \/ HandleConfirm(e, p)
  \/ IgnoreConfirm(e, p)
  \/ HandleReject(e, p)
  \/ HandleCancel(e, p)

Work(p) ==
  \/ \E type \in Feedbacks : SendFeedback(p, type)
  \/ \E type \in Finishes : Finish(p, type)

Next ==
  \/ Plans
  \/ \E e \in Executors : Tick(e) \/ Ending(e) \/ WaitTimeout(e)
  \/ \E e \in Executors, p \in Performers :
       ExecutorCallback(p, e) \/ PerformerCallback(e, p)
  \/ \E p \in Performers : Work(p) \/ Crash(p) \/ Configure(p)

Spec == Init /\ [][Next]_vars

\* Reliable topics deliver, a spinning node handles what it is delivered, the
\* 1 s timer fires, the tree is ticked at 50 Hz, and a performer eventually finishes
\* the work it has taken.  The 30 s and the 5 s after which a tick decides count from
\* when the state was last entered (state_time_), so they pass only for an executor that
\* stays in it: fairness of these decisions is weak.
Fairness ==
  /\ \A e \in Executors :
       /\ WF_vars(DecideGiveUp(e)) /\ WF_vars(DecideRetry(e))
       /\ WF_vars(GiveUp(e)) /\ WF_vars(Retry(e))
       /\ WF_vars(Ending(e))
  /\ \A e \in Executors, p \in Performers :
       WF_vars(ExecutorCallback(p, e)) /\ WF_vars(PerformerCallback(e, p))
  /\ \A p \in Performers : WF_vars(\E type \in Finishes : Finish(p, type))

FairSpec == Spec /\ Fairness

-----------------------------------------------------------------------------

\* The type of every variable: the enumerations of the code, and queues that
\* hold only what their publisher may publish.
TypeOK ==
  /\ alive \in SUBSET Executors
  /\ state \in [Executors -> States]
  /\ performer \in [Executors -> Performers \union {None}]
  /\ progressed \in [Executors -> BOOLEAN]
  /\ hubOpen \in [Executors -> BOOLEAN]
  /\ waiting \in [Executors -> BOOLEAN]
  /\ pending \in [Executors -> Decisions]
  /\ mission \in {"on", "ending", "off"}
  /\ visited \in SUBSET Executors
  /\ lifecycle \in [Performers -> {"inactive", "active", "down"}]
  /\ committed \in [Performers -> BOOLEAN]
  /\ arguments \in [Performers -> Exprs \union {None}]
  /\ toPerformers \in [Executors -> [Performers -> Seq(Requester)]]
  /\ toExecutors \in [Performers -> [Executors -> Seq(Performing)]]
  /\ plans \in Nat /\ unstarted \in Nat /\ crashes \in Nat
  /\ employer \in [Performers -> Executors \union {None}]
  /\ done \in SUBSET (Executors \union {None})

Among(queue, types) == {i \in DOMAIN queue : queue[i] \in types}
Answers == {"CONFIRM", "REJECT"}

\* As long as no performer crashes, the CONFIRM of an executor finds its
\* performer inactive and committed, so that the performer takes the work it was
\* chosen for.  (ActionExecutorClient.cpp 146-149 ignores any other CONFIRM, and
\* the executor would then run an action that nobody does.)
ConfirmFindsPerformerReady ==
  crashes = 0 =>
    \A e \in Executors, p \in Performers :
      Among(toPerformers[e][p], {"CONFIRM"}) # {} => Ready(p)

\* As long as a mission keeps its plan and no performer crashes, a RUNNING
\* executor has a performer that is about to work for it, does so, or has
\* reported the end of the work: it does not wait for nobody.
RunningIsServed ==
  mission = "on" /\ plans = 0 /\ crashes = 0 =>
    \A e \in alive : state[e] = "RUNNING" => Engaged(e, performer[e])

\* Two performers do not work for one executor at the same time: a performer
\* is given up only when it does not work (ActionExecutor.cpp 240-253), if a
\* performer that works says so within the 5 s.
ExclusiveWork ==
  \A p, q \in Performers :
    /\ lifecycle[p] = "active" /\ lifecycle[q] = "active"
    /\ employer[p] = employer[q]
    => p = q

\* No performer still works for an executor that has reported success, unless
\* one has crashed and the plan has been replaced meanwhile.
DoneMeansDone ==
  crashes = 0 \/ plans = 0 =>
    \A p \in Performers :
      lifecycle[p] = "active" => state[employer[p]] # "SUCCESS"

\* An executor that has succeeded stays so, unless a performer crashes, save for
\* a tick or a cancellation that had been decided before the FINISH came in.
SuccessIsFinal ==
  [][\A e \in Executors :
       state[e] = "SUCCESS" /\ state'[e] # "SUCCESS" =>
         pending[e] # "none" \/ crashes > 0]_vars

\* A performer stays committed only while an answer is under way, or because
\* an executor it could have answered has closed its publisher (on_deactivate,
\* after a FINISH) or is no more, so that a REJECT was never sent.
CommitmentIsAnswered ==
  \A p \in Performers :
    committed[p] =>
      \/ \E e \in Executors : Among(toPerformers[e][p], Answers) # {}
      \/ \E e \in Executors : Among(toExecutors[p][e], {"RESPONSE"}) # {}
      \/ \E e \in Executors : /\ ExprOf[e] \in CanDo[p]
                              /\ ~hubOpen[e] \/ e \notin alive

\* An executor that looks for a performer or has one comes to an end, as long as
\* its mission is not ended first.  Except that a performer that had completed
\* something and then crashed is waited for: the 5 s count only while completion_ is
\* zero (ActionExecutor.cpp 240-253).
Settles(e) ==
  state[e] \in {"DEALING", "RUNNING"} ~>
    \/ state[e] \in {"SUCCESS", "FAILURE"}
    \/ mission # "on" \/ e \notin alive
    \/ crashes > 0 /\ progressed[e]

\* The retries after silence, crashes and failed activations do not add up to an
\* endless negotiation, if performers do not crash or fail to start for ever: nothing
\* else restarts the 30 s of the search.
EveryDealIsSettled ==
  \A e \in Executors :
    \/ Settles(e)
    \/ []<>(\E p \in Performers :
              \E i \in DOMAIN toExecutors[p][e] : toExecutors[p][e][i] = "FINISH_UNSTARTED")
    \/ []<><<\E p \in Performers : lifecycle[p] # "down" /\ lifecycle'[p] = "down">>_vars

-----------------------------------------------------------------------------
(* The negotiation implements the assignment of performers to executors.   *)

Working(e) == {p \in Performers : lifecycle[p] = "active" /\ employer[p] = e}

Assigned == INSTANCE Assignment WITH
  worker   <- [e \in Executors |->
                 IF Working(e) = {} THEN None ELSE CHOOSE p \in Working(e) : TRUE],
  reported <- {e \in Executors : state[e] = "SUCCESS"}

\* Every step of the negotiation hires a performer for an executor that has
\* none, lets one go, or reports what was done, or is none of the assignment's
\* business: over the plans of several missions and replans, as long as tick()
\* is not overtaken by a callback and no performer crashes.
ImplementsAssignment == Assigned!Spec

\* The comment of reject_performer says it sends a REJECT to the performer
\* (ActionExecutor.hpp 239-246), which is what ends a commitment that leads to
\* no CONFIRM: so no performer stays committed for ever.
CommitmentsEnd ==
  \A p \in Performers : committed[p] ~> ~committed[p]
=============================================================================
