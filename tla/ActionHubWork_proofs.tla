------------------------- MODULE ActionHubWork_proofs -------------------------
(* What holds of the work that performers do for executors: who works for whom,  *)
(* what a commitment waits for and what a success means, for every set of        *)
(* executors and performers and any number of retries, replans and crashes.      *)
EXTENDS ActionHub_proofs

-----------------------------------------------------------------------------
(* A queue as a message is appended to it or taken off.                    *)

LEMMA AppendKeepsSome ==
  ASSUME NEW T, NEW queue \in Seq(T), NEW msg \in T, NEW types, Among(queue, types) # {}
  PROVE  Among(Append(queue, msg), types) # {}
<1>1. PICK i \in Among(queue, types) : TRUE
  OBVIOUS
<1>2. i \in Among(Append(queue, msg), types)
  BY <1>1 DEF Among
<1> QED BY <1>2

LEMMA AppendIsThere ==
  ASSUME NEW T, NEW queue \in Seq(T), NEW msg \in T, NEW types, msg \in types
  PROVE  Among(Append(queue, msg), types) # {}
<1>1. Len(queue) + 1 \in Among(Append(queue, msg), types)
  BY DEF Among
<1> QED BY <1>1

LEMMA TailKeepsSome ==
  ASSUME NEW T, NEW queue \in Seq(T), queue # <<>>, NEW types, Head(queue) \notin types,
         Among(queue, types) # {}
  PROVE  Among(Tail(queue), types) # {}
<1>1. PICK i \in Among(queue, types) : TRUE
  OBVIOUS
<1>2. i \in 1 .. Len(queue) /\ queue[i] \in types /\ i # 1
  BY <1>1 DEF Among
<1>3. i - 1 \in Among(Tail(queue), types)
  BY <1>2 DEF Among
<1> QED BY <1>3

LEMMA EmptyHasNone == \A types : Among(<<>>, types) = {}
  BY DEF Among

-----------------------------------------------------------------------------
(* Which queues a step leaves alone.                                       *)

\* Only the queues of the publisher change, and only while it is activated.
LEMMA SentToOthers ==
  ASSUME TypeOK, NEW e \in Executors, NEW open, NEW to, NEW msg,
         NEW f \in Executors, NEW q \in Performers, f # e \/ ~open \/ q \notin to
  PROVE  SentTo(e, open, to, msg)[f][q] = toPerformers[f][q]
  BY DEF SentTo, TypeOK

\* What a performer says of an action reaches the executors that are made for it.
LEMMA SentByOthers ==
  ASSUME TypeOK, NEW p \in Performers, NEW x, NEW msg,
         NEW q \in Performers, NEW f \in Executors, q # p \/ f \notin Same(x)
  PROVE  SentBy(p, toExecutors, x, msg)[q][f] = toExecutors[q][f]
  BY DEF SentBy, TypeOK

LEMMA SentByHere ==
  ASSUME TypeOK, NEW p \in Performers, NEW x, NEW msg, NEW f \in Executors, f \in Same(x)
  PROVE  SentBy(p, toExecutors, x, msg)[p][f] = Append(toExecutors[p][f], msg)
  BY DEF SentBy, TypeOK

LEMMA ReceiveQueues ==
  ASSUME TypeOK, NEW p \in Performers, NEW e \in Executors, NEW type, Receive(p, e, type)
  PROVE  /\ toExecutors[p][e] \in Seq(Performing) /\ toExecutors[p][e] # <<>>
         /\ Head(toExecutors[p][e]) = type /\ toExecutors'[p][e] = Tail(toExecutors[p][e])
         /\ \A q \in Performers, f \in Executors :
              q # p \/ f # e => toExecutors'[q][f] = toExecutors[q][f]
  BY DEF Receive, TypeOK

LEMMA TakeQueues ==
  ASSUME TypeOK, NEW e \in Executors, NEW p \in Performers, NEW type, Take(e, p, type)
  PROVE  /\ toPerformers[e][p] \in Seq(Requester) /\ toPerformers[e][p] # <<>>
         /\ Head(toPerformers[e][p]) = type /\ toPerformers'[e][p] = Tail(toPerformers[e][p])
         /\ \A f \in Executors, q \in Performers :
              f # e \/ q # p => toPerformers'[f][q] = toPerformers[f][q]
  BY DEF Take, TypeOK

-----------------------------------------------------------------------------
(* Where an executor stands: what its state tells of the rest.             *)

Born(e) == PlanOf[e] <= plans

Standing(e) ==
  /\ e \in alive => Born(e)
  /\ ~Born(e) => state[e] = "IDLE"
  /\ state[e] = "IDLE" => /\ ~hubOpen[e] /\ pending[e] = "none"
                          /\ \A p \in Performers : toPerformers[e][p] = <<>>
  /\ state[e] \in {"IDLE", "DEALING"} => performer[e] = None
  /\ state[e] \in {"RUNNING", "SUCCESS"} => performer[e] # None
  /\ state[e] = "SUCCESS" => ~hubOpen[e]
  /\ pending[e] # "none" => e \in alive
  /\ e \notin alive => \A p \in Performers : toExecutors[p][e] = <<>>

\* A performer that works has been hired for that action, and has no promise left.
Employed(p) ==
  /\ lifecycle[p] = "active" => /\ employer[p] \in Executors /\ ~committed[p]
                                /\ arguments[p] = ExprOf[employer[p]]
  /\ lifecycle[p] = "down" => ~committed[p] /\ crashes > 0

BasicInv ==
  /\ TypeOK
  /\ mission = "off" => Free
  /\ \A e \in Executors : Standing(e)
  /\ \A p \in Performers : Employed(p)

LEMMA BasicAtFirst == Init => BasicInv
  BY HubAssumption, TypeAtFirst DEF Init, BasicInv, Standing, Employed, Born, Free

\* Nothing is different for f, but for messages that reach it and its latest ones.
LEMMA SameStanding ==
  ASSUME NEW f \in Executors, Standing(f), UNCHANGED <<alive, plans>>,
         state'[f] = state[f], performer'[f] = performer[f], hubOpen'[f] = hubOpen[f],
         pending'[f] = pending[f],
         state[f] # "IDLE" \/ \A q \in Performers : toPerformers'[f][q] = toPerformers[f][q],
         f \in alive \/ \A q \in Performers : toExecutors'[q][f] = toExecutors[q][f]
  PROVE  Standing(f)'
  BY DEF Standing, Born

\* f has been started; its state is as the rest says.
LEMMA StartedStanding ==
  ASSUME NEW f \in Executors, Standing(f), UNCHANGED <<alive, plans>>,
         state'[f] # "IDLE", state[f] # "IDLE" \/ f \in alive,
         state'[f] = "DEALING" => performer'[f] = None,
         state'[f] \in {"RUNNING", "SUCCESS"} => performer'[f] # None,
         state'[f] = "SUCCESS" => ~hubOpen'[f],
         pending'[f] # "none" => f \in alive,
         f \in alive \/ \A q \in Performers : toExecutors'[q][f] = toExecutors[q][f]
  PROVE  Standing(f)'
  BY DEF Standing, Born

LEMMA TickStanding ==
  ASSUME BasicInv, NEW e \in Executors, Tick(e) \/ Ending(e) \/ WaitTimeout(e),
         NEW f \in Executors
  PROVE  Standing(f)'
<1> USE HubAssumption
<1>0. TypeOK /\ Standing(f) /\ Standing(e)
  BY DEF BasicInv
<1>1. CASE StartDealing(e)
  <2>1. CASE f = e
    BY <1>0, <1>1, <2>1, StartedStanding DEF StartDealing, Standing, TypeOK, threadVars, counters
  <2>2. CASE f # e
    <3>1. \A q \in Performers : toPerformers'[f][q] = toPerformers[f][q]
      BY <1>0, <1>1, <2>2 DEF StartDealing, SentTo, TypeOK
    <3> QED BY <1>0, <1>1, <2>2, <3>1, SameStanding DEF StartDealing, TypeOK, threadVars, counters
  <2> QED BY <2>1, <2>2
<1>2. CASE DecideGiveUp(e) \/ DecideRetry(e)
  BY SMTT(30), <1>0, <1>2 DEF DecideGiveUp, DecideRetry, Decide, Standing, Born, TypeOK, executorVars, counters
<1>3. CASE GiveUp(e)
  BY <1>0, <1>3 DEF GiveUp, Standing, Born, TypeOK, counters
<1>4. CASE Retry(e)
  BY <1>0, <1>4, SentToOthers DEF Retry, Standing, Born, TypeOK, counters
<1>5. CASE CancelIfRunning(e)
  BY <1>0, <1>5 DEF CancelIfRunning, Decide, Standing, Born, TypeOK, executorVars, counters
<1>6. CASE Cancel(e)
  <2>1. CASE f = e
    BY <1>0, <1>6, <2>1, StartedStanding DEF Cancel, Standing, TypeOK, counters
  <2>2. CASE f # e
    BY <1>0, <1>6, <2>2, SentToOthers, SameStanding DEF Cancel, TypeOK, counters
  <2> QED BY <2>1, <2>2
<1>7. CASE WaitTimeout(e)
  <2>1. CASE f = e
    BY <1>0, <1>7, <2>1, SameStanding DEF WaitTimeout, Standing, executorVars, threadVars, counters
  <2>2. CASE f # e
    <3>1. \A q \in Performers : toPerformers'[f][q] = toPerformers[f][q]
      BY <1>0, <1>7, <2>2 DEF WaitTimeout, SentTo, TypeOK
    <3> QED BY <1>0, <1>7, <3>1, SameStanding DEF WaitTimeout, executorVars, threadVars, counters
  <2> QED BY <2>1, <2>2
<1> QED BY <1>1, <1>2, <1>3, <1>4, <1>5, <1>6, <1>7 DEF Tick, Ending

LEMMA ExecutorStanding ==
  ASSUME BasicInv, NEW e \in Executors, NEW p \in Performers, ExecutorCallback(p, e),
         NEW f \in Executors
  PROVE  Standing(f)'
<1> USE HubAssumption
<1>0. TypeOK /\ Standing(f) /\ Standing(e)
  BY DEF BasicInv
<1>1. PICK type : Receive(p, e, type)
  BY DEF ExecutorCallback, HandleResponse, HandleFeedback, HandleFinish, HandleUnstarted, IgnoreFinish, FinishesIn
<1>2. e \in alive /\ (f = e \/ \A q \in Performers : toExecutors'[q][f] = toExecutors[q][f])
  BY <1>0, <1>1, ReceiveQueues DEF Receive
<1>3. CASE HandleResponse(p, e)
  <2>1. UNCHANGED <<alive, plans, pending, hubOpen>>
    BY <1>3 DEF HandleResponse, threadVars, counters
  <2>2. \E msg : toPerformers' = SentTo(e, hubOpen[e], {p}, msg)
    BY <1>3 DEF HandleResponse
  <2>3. f # e \/ ~hubOpen[e] => \A q \in Performers : toPerformers'[f][q] = toPerformers[f][q]
    BY <1>0, <2>2, SentToOthers
  <2>4. CASE state[e] = "DEALING"
    <3>1. /\ state' = [state EXCEPT ![e] = "RUNNING"]
          /\ performer' = [performer EXCEPT ![e] = p]
      BY <1>3, <2>4 DEF HandleResponse
    <3>2. CASE f = e
      <4>1. state'[e] = "RUNNING" /\ performer'[e] = p
        BY <1>0, <3>1 DEF TypeOK
      <4> QED BY <1>0, <1>2, <2>1, <3>2, <4>1, StartedStanding
    <3>3. CASE f # e
      BY <1>0, <1>2, <2>1, <2>3, <3>1, <3>3, SameStanding DEF TypeOK
    <3> QED BY <3>2, <3>3
  <2>5. CASE state[e] # "DEALING"
    <3>1. UNCHANGED <<state, performer>>
      BY <1>3, <2>5 DEF HandleResponse
    <3> QED BY <1>0, <1>2, <2>1, <2>3, <3>1, SameStanding DEF Standing
  <2> QED BY <2>4, <2>5
<1>4. ASSUME NEW t \in Feedbacks, HandleFeedback(p, e, t) PROVE Standing(f)'
  BY <1>0, <1>2, <1>4, SameStanding DEF HandleFeedback, threadVars, counters
<1>5. CASE HandleFinish(p, e)
  <2>1. CASE f = e
    BY <1>0, <1>2, <1>5, <2>1, StartedStanding DEF HandleFinish, FinishesIn, TypeOK, Standing, threadVars, counters
  <2>2. CASE f # e
    BY <1>0, <1>2, <1>5, <2>2, SameStanding DEF HandleFinish, FinishesIn, TypeOK, threadVars, counters
  <2> QED BY <2>1, <2>2
<1>6. CASE HandleUnstarted(p, e)
  <2>1. CASE f = e
    BY <1>0, <1>2, <1>6, <2>1, StartedStanding DEF HandleUnstarted, FinishesIn, TypeOK, Standing, threadVars, counters
  <2>2. CASE f # e
    <3>1. \A q \in Performers : toPerformers'[f][q] = toPerformers[f][q]
      BY <1>0, <1>6, <2>2, SentToOthers DEF HandleUnstarted
    <3> QED BY <1>0, <1>2, <1>6, <2>2, <3>1, SameStanding DEF HandleUnstarted, FinishesIn, TypeOK, threadVars, counters
  <2> QED BY <2>1, <2>2
<1>7. CASE IgnoreFinish(p, e)
  BY <1>0, <1>2, <1>7, SameStanding DEF IgnoreFinish, executorVars, threadVars, counters
<1> QED BY <1>3, <1>4, <1>5, <1>6, <1>7 DEF ExecutorCallback

LEMMA PerformerStanding ==
  ASSUME BasicInv, NEW p \in Performers,
         \/ \E e \in Executors : PerformerCallback(e, p)
         \/ Work(p) \/ Crash(p) \/ Configure(p),
         NEW f \in Executors
  PROVE  Standing(f)'
<1>0. TypeOK /\ Standing(f)
  BY DEF BasicInv
<1>1. UNCHANGED <<executorVars, threadVars, plans>>
  BY DEF PerformerCallback, HandleRequest, HandleConfirm, IgnoreConfirm, HandleReject, HandleCancel,
         Work, SendFeedback, Finish, Crash, Configure, counters
<1>2. state[f] # "IDLE" \/ \A q \in Performers : toPerformers'[f][q] = toPerformers[f][q]
  <2>1. ASSUME NEW e \in Executors, NEW type, Take(e, p, type) PROVE state[e] # "IDLE"
    BY <2>1, <1>0 DEF Take, BasicInv, Standing
  <2>2. ASSUME NEW e \in Executors, PerformerCallback(e, p)
        PROVE  state[f] # "IDLE" \/ \A q \in Performers : toPerformers'[f][q] = toPerformers[f][q]
    <3>1. PICK type : Take(e, p, type)
      BY <2>2 DEF PerformerCallback, HandleRequest, HandleConfirm, IgnoreConfirm, HandleReject, HandleCancel
    <3> QED BY <1>0, <2>1, <3>1, TakeQueues
  <2>3. CASE Work(p) \/ Configure(p)
    BY <2>3 DEF Work, SendFeedback, Finish, Configure
  <2>4. CASE Crash(p)
    BY <2>4, <1>0 DEF Crash, TypeOK, Standing
  <2> QED BY <2>2, <2>3, <2>4
<1>3. f \in alive \/ \A q \in Performers : toExecutors'[q][f] = toExecutors[q][f]
  <2>1. \/ toExecutors' = toExecutors
        \/ \E x, msg : toExecutors' = SentBy(p, toExecutors, x, msg)
        \/ toExecutors' = [toExecutors EXCEPT ![p] = [e \in Executors |-> <<>>]]
    BY DEF PerformerCallback, HandleRequest, HandleConfirm, IgnoreConfirm, HandleReject, HandleCancel,
           Work, SendFeedback, Finish, Crash, Configure
  <2>2. CASE \E x, msg : toExecutors' = SentBy(p, toExecutors, x, msg)
    BY <1>0, <2>2, SentByOthers DEF Same
  <2>3. CASE toExecutors' = [toExecutors EXCEPT ![p] = [e \in Executors |-> <<>>]]
    BY <1>0, <2>3 DEF Standing, TypeOK
  <2> QED BY <2>1, <2>2, <2>3
<1> QED BY <1>0, <1>1, <1>2, <1>3, SameStanding DEF executorVars, threadVars

\* Executors are made once, and a new plan makes them of nothing.
LEMMA PlansStanding ==
  ASSUME BasicInv, Plans, NEW f \in Executors
  PROVE  Standing(f)'
<1> USE HubAssumption
<1>0. TypeOK /\ Standing(f)
  BY DEF BasicInv
<1>1. CASE EndMission \/ MissionOver
  BY <1>0, <1>1, SameStanding DEF EndMission, MissionOver, executorVars, counters
<1>2. ASSUME NEW kept \in SUBSET alive, NextPlan(kept)
      PROVE  /\ Born(f) => Born(f)'
             /\ f \in alive' => Born(f)' /\ (f \in kept \/ ~Born(f))
             /\ f \notin alive' => f \notin kept /\ \A q \in Performers : toExecutors'[q][f] = <<>>
  BY <1>0, <1>2 DEF NextPlan, Born, TypeOK, Standing
<1>3. CASE NewMission
  <2>1. pending'[f] = "none"
    BY <1>3 DEF BasicInv, NewMission, Free
  <2> QED BY <1>0, <1>2, <1>3, <2>1 DEF NewMission, Standing
<1>4. ASSUME NEW kept \in SUBSET Executors, Replan(kept) PROVE Standing(f)'
  <2>1. kept \in SUBSET alive /\ NextPlan(kept) /\ pending' = pending /\ pending[f] = "none"
        /\ UNCHANGED <<performer, hubOpen>>
    BY <1>4 DEF Replan, Free, threadVars
  <2>2. \/ UNCHANGED <<state[f], toPerformers[f]>>
        \/ state[f] = "RUNNING" /\ state'[f] = "CANCELLED"
    BY <1>0, <1>4 DEF Replan, TypeOK
  <2> QED BY <1>0, <1>2, <2>1, <2>2 DEF Standing
<1> QED BY <1>1, <1>3, <1>4 DEF Plans

\* A performer is hired by a CONFIRM and is through by a CANCEL, its own FINISH or
\* a crash.
LEMMA EmployedKept ==
  ASSUME BasicInv, [Next]_vars, NEW q \in Performers
  PROVE  Employed(q)'
<1> USE HubAssumption
<1>0. TypeOK /\ Employed(q)
  BY DEF BasicInv
<1>1. CASE UNCHANGED <<lifecycle, committed, arguments, employer, crashes>>
  BY <1>0, <1>1 DEF Employed
<1>2. ASSUME NEW e \in Executors, Tick(e) \/ Ending(e) \/ WaitTimeout(e)
      PROVE  Employed(q)'
  BY <1>2, <1>1 DEF Tick, Ending, StartDealing, DecideGiveUp, GiveUp, DecideRetry, Retry,
                    CancelIfRunning, Cancel, WaitTimeout, performerVars, counters
<1>3. ASSUME NEW e \in Executors, NEW p \in Performers, ExecutorCallback(p, e)
      PROVE  Employed(q)'
  BY <1>3, <1>1 DEF ExecutorCallback, HandleResponse, HandleFeedback, HandleFinish,
                    HandleUnstarted, IgnoreFinish, performerVars, counters
<1>4. ASSUME NEW e \in Executors, NEW p \in Performers, PerformerCallback(e, p)
      PROVE  Employed(q)'
  <2>1. CASE HandleRequest(e, p)
    BY <1>0, <2>1 DEF HandleRequest, Employed, TypeOK, counters
  <2>2. CASE HandleConfirm(e, p)
    BY <1>0, <2>2 DEF HandleConfirm, Ready, Employed, TypeOK, counters
  <2>3. CASE IgnoreConfirm(e, p)
    BY <1>1, <2>3 DEF IgnoreConfirm, performerVars, counters
  <2>4. CASE HandleReject(e, p)
    BY <1>0, <2>4 DEF HandleReject, Employed, TypeOK, counters
  <2>5. CASE HandleCancel(e, p)
    BY <1>0, <2>5 DEF HandleCancel, Employed, TypeOK, counters
  <2> QED BY <1>4, <2>1, <2>2, <2>3, <2>4, <2>5 DEF PerformerCallback
<1>5. ASSUME NEW p \in Performers, Work(p) \/ Crash(p) \/ Configure(p)
      PROVE  Employed(q)'
  <2>1. ASSUME NEW type \in Feedbacks, SendFeedback(p, type) PROVE Employed(q)'
    BY <1>1, <2>1 DEF SendFeedback, performerVars, counters
  <2>2. ASSUME NEW type \in Finishes, Finish(p, type) PROVE Employed(q)'
    BY <1>0, <2>2 DEF Finish, Employed, TypeOK
  <2>3. CASE Crash(p)
    <3>1. crashes' > 0
      BY <1>0, <2>3, CrashCounts
    <3>2. /\ lifecycle' = [lifecycle EXCEPT ![p] = "down"]
          /\ committed' = [committed EXCEPT ![p] = FALSE]
          /\ arguments' = [arguments EXCEPT ![p] = None] /\ employer' = employer
      BY <2>3 DEF Crash
    <3> QED BY <1>0, <3>1, <3>2 DEF Employed, TypeOK
  <2>4. CASE Configure(p)
    BY <1>0, <2>4 DEF Configure, Employed, TypeOK, counters
  <2> QED BY <1>5, <2>1, <2>2, <2>3, <2>4 DEF Work
<1>6. CASE Plans
  BY <1>6, <1>1 DEF Plans, EndMission, MissionOver, NewMission, Replan, performerVars, counters
<1>7. CASE UNCHANGED vars
  BY <1>7, <1>1 DEF vars, performerVars, counters
<1> QED BY <1>2, <1>3, <1>4, <1>5, <1>6, <1>7 DEF Next

\* Once a mission is over the execution thread decides nothing.
LEMMA IdleKept ==
  ASSUME BasicInv, [Next]_vars PROVE mission' = "off" => Free'
<1>0. TypeOK /\ (mission = "off" => Free)
  BY DEF BasicInv
<1>1. CASE UNCHANGED <<mission, pending>>
  BY <1>0, <1>1 DEF Free
<1>2. ASSUME NEW e \in Executors, Tick(e) \/ Ending(e) \/ WaitTimeout(e)
      PROVE  mission' = "off" => Free'
  BY <1>0, <1>2 DEF Tick, Ending, StartDealing, DecideGiveUp, GiveUp, DecideRetry, Retry,
                    CancelIfRunning, Cancel, WaitTimeout, threadVars, Free, TypeOK
<1>3. ASSUME NEW e \in Executors, NEW p \in Performers,
             ExecutorCallback(p, e) \/ PerformerCallback(e, p)
      PROVE  UNCHANGED <<mission, pending>>
  BY <1>3 DEF ExecutorCallback, HandleResponse, HandleFeedback, HandleFinish,
              HandleUnstarted, IgnoreFinish, PerformerCallback, HandleRequest, HandleConfirm,
              IgnoreConfirm, HandleReject, HandleCancel, threadVars
<1>4. ASSUME NEW p \in Performers, Work(p) \/ Crash(p) \/ Configure(p)
      PROVE  UNCHANGED <<mission, pending>>
  BY <1>4 DEF Work, SendFeedback, Finish, Crash, Configure, threadVars
<1>5. CASE Plans
  BY <1>0, <1>5 DEF Plans, EndMission, MissionOver, NewMission, Replan, threadVars, Free
<1>6. CASE UNCHANGED vars
  BY <1>1, <1>6 DEF vars, threadVars
<1> QED BY <1>1, <1>2, <1>3, <1>4, <1>5, <1>6 DEF Next

LEMMA BasicKept == BasicInv /\ [Next]_vars => BasicInv'
<1> SUFFICES ASSUME BasicInv, [Next]_vars PROVE BasicInv'
  OBVIOUS
<1>1. ASSUME NEW f \in Executors PROVE Standing(f)'
  <2>1. CASE UNCHANGED vars
    <3>1. Standing(f)
      BY DEF BasicInv
    <3> QED BY <2>1, <3>1, SameStanding
        DEF vars, executorVars, threadVars, counters
  <2> QED BY <2>1, TickStanding, ExecutorStanding, PerformerStanding, PlansStanding DEF Next
<1>2. ASSUME NEW p \in Performers PROVE Employed(p)'
  BY EmployedKept
<1>3. TypeOK' /\ (mission' = "off" => Free')
  BY TypeKept, IdleKept DEF BasicInv
<1> QED BY <1>1, <1>2, <1>3 DEF BasicInv

-----------------------------------------------------------------------------
(* The promise of a performer: what it waits for.                          *)

\* An executor that has started is never idle again, one that is no more does not
\* come back, and a publisher that is closed stays so.
LEMMA OnlyForwards ==
  ASSUME BasicInv, [Next]_vars, NEW f \in Executors
  PROVE  /\ state[f] # "IDLE" => state'[f] # "IDLE"
         /\ Born(f) => Born(f)' /\ (f \notin alive => f \notin alive')
         /\ state[f] # "IDLE" /\ ~hubOpen[f] => ~hubOpen'[f]
<1> USE HubAssumption
<1>0. TypeOK
  BY DEF BasicInv
<1>1. CASE UNCHANGED <<state, alive, plans, hubOpen>>
  BY <1>1 DEF Born
<1>2. ASSUME NEW e \in Executors, Tick(e) \/ Ending(e) \/ WaitTimeout(e)
      PROVE  /\ UNCHANGED <<alive, plans>>
             /\ state[f] # "IDLE" => state'[f] # "IDLE" /\ hubOpen'[f] = hubOpen[f]
  BY <1>0, <1>2 DEF Tick, Ending, StartDealing, DecideGiveUp, GiveUp, DecideRetry, Retry,
                    CancelIfRunning, Cancel, WaitTimeout, executorVars, counters, TypeOK
<1>3. ASSUME NEW e \in Executors, NEW p \in Performers, ExecutorCallback(p, e)
      PROVE  /\ UNCHANGED <<alive, plans>>
             /\ state[f] # "IDLE" => state'[f] # "IDLE" /\ (~hubOpen[f] => ~hubOpen'[f])
  <2>1. CASE HandleResponse(p, e)
    BY <1>0, <2>1 DEF HandleResponse, counters, TypeOK
  <2>2. ASSUME NEW type \in Feedbacks, HandleFeedback(p, e, type)
        PROVE  UNCHANGED <<state, alive, plans, hubOpen>>
    BY <2>2 DEF HandleFeedback, counters
  <2>3. CASE HandleFinish(p, e) \/ HandleUnstarted(p, e)
    <3>1. /\ UNCHANGED <<alive, plans>>
          /\ hubOpen' = hubOpen \/ hubOpen' = [hubOpen EXCEPT ![e] = FALSE]
          /\ \E s \in {"SUCCESS", "FAILURE", "DEALING"} : state' = [state EXCEPT ![e] = s]
      BY <2>3 DEF HandleFinish, HandleUnstarted, FinishesIn, counters
    <3> QED BY <1>0, <3>1 DEF TypeOK
  <2>4. CASE IgnoreFinish(p, e)
    BY <2>4 DEF IgnoreFinish, executorVars, counters
  <2> QED BY <1>3, <2>1, <2>2, <2>3, <2>4 DEF ExecutorCallback
<1>4. ASSUME NEW p \in Performers,
             \/ \E e \in Executors : PerformerCallback(e, p)
             \/ Work(p) \/ Crash(p) \/ Configure(p)
      PROVE  UNCHANGED <<state, alive, plans, hubOpen>>
  BY <1>4 DEF PerformerCallback, HandleRequest, HandleConfirm, IgnoreConfirm, HandleReject,
              HandleCancel, Work, SendFeedback, Finish, Crash, Configure, executorVars, counters
<1>5. ASSUME NEW kept \in SUBSET alive, NextPlan(kept)
      PROVE  Born(f) => Born(f)' /\ (f \notin alive => f \notin alive')
  BY <1>0, <1>5 DEF NextPlan, Born, TypeOK
<1>6. CASE NewMission
  BY <1>5, <1>6 DEF NewMission
<1>7. ASSUME NEW kept \in SUBSET Executors, Replan(kept)
      PROVE  /\ Born(f) => Born(f)' /\ (f \notin alive => f \notin alive')
             /\ state[f] # "IDLE" => state'[f] # "IDLE" /\ hubOpen' = hubOpen
  <2>1. kept \in SUBSET alive /\ NextPlan(kept) /\ hubOpen' = hubOpen
    BY <1>7 DEF Replan
  <2>2. state'[f] \in {state[f], "CANCELLED"}
    BY <1>7 DEF Replan
  <2> QED BY <1>5, <2>1, <2>2
<1>8. CASE EndMission \/ MissionOver \/ UNCHANGED vars
  BY <1>1, <1>8 DEF EndMission, MissionOver, vars, executorVars, counters
<1> QED BY <1>1, <1>2, <1>3, <1>4, <1>6, <1>7, <1>8 DEF Next, Plans, Born

\* An executor of action x was made, asked perhaps, and is no more.
Gone(x) == \E f \in Executors \ alive : Born(f) /\ ExprOf[f] = x

\* Whoever has a RESPONSE has asked for it, or one before it has, who is gone.
Asked(e, p) ==
  Responses(e, p) # {} =>
    ExprOf[e] \in CanDo[p] /\ (state[e] # "IDLE" \/ Gone(ExprOf[e]))

\* An answer that will never come: its publisher is closed, or is no more.
Lost(p) ==
  \E e \in Executors : /\ ExprOf[e] \in CanDo[p] /\ Born(e)
                       /\ e \notin alive \/ (~hubOpen[e] /\ state[e] # "IDLE")

Promised(p) ==
  committed[p] =>
    \/ \E e \in Executors : AnswersTo(e, p) # {} \/ Responses(e, p) # {}
    \/ Lost(p)

PromiseInv ==
  /\ BasicInv /\ IInv
  /\ \A p \in Performers : Promised(p) /\ \A e \in Executors : Asked(e, p)

LEMMA IInvKept == ASSUME DistinctActions, IInv, [Next]_vars PROVE IInv'
  BY TypeKept, AliveKept, TokensKept DEF IInv

LEMMA LostForEver ==
  ASSUME BasicInv, [Next]_vars
  PROVE  /\ \A p \in Performers : Lost(p) => Lost(p)'
         /\ \A x : Gone(x) => Gone(x)'
<1>1. ASSUME NEW p \in Performers, Lost(p) PROVE Lost(p)'
  <2>1. PICK e \in Executors : /\ ExprOf[e] \in CanDo[p] /\ Born(e)
                               /\ e \notin alive \/ (~hubOpen[e] /\ state[e] # "IDLE")
    BY <1>1 DEF Lost
  <2>2. Born(e)' /\ (e \notin alive' \/ (~hubOpen'[e] /\ state'[e] # "IDLE"))
    BY <2>1, OnlyForwards
  <2> QED BY <2>1, <2>2 DEF Lost
<1>2. ASSUME NEW x, Gone(x) PROVE Gone(x)'
  <2>1. PICK e \in Executors \ alive : Born(e) /\ ExprOf[e] = x
    BY <1>2 DEF Gone
  <2>2. Born(e)' /\ e \notin alive'
    BY <2>1, OnlyForwards
  <2> QED BY <2>1, <2>2 DEF Gone
<1> QED BY <1>1, <1>2

\* Publishing takes nothing off a queue.
LEMMA SentToKeepsSome ==
  ASSUME TypeOK, NEW e \in Executors, NEW open, NEW to, NEW msg \in Requester,
         NEW f \in Executors, NEW p \in Performers, NEW types,
         Among(toPerformers[f][p], types) # {}
  PROVE  Among(SentTo(e, open, to, msg)[f][p], types) # {}
<1>1. toPerformers[f][p] \in Seq(Requester)
  BY DEF TypeOK
<1>2. SentTo(e, open, to, msg)[f][p] \in {toPerformers[f][p], Append(toPerformers[f][p], msg)}
  BY DEF TypeOK, SentTo
<1> QED BY <1>1, <1>2, AppendKeepsSome

LEMMA SentByKeepsSome ==
  ASSUME TypeOK, NEW p \in Performers, NEW x, NEW msg \in Performing,
         NEW q \in Performers, NEW f \in Executors, NEW types,
         Among(toExecutors[q][f], types) # {}
  PROVE  Among(SentBy(p, toExecutors, x, msg)[q][f], types) # {}
<1>1. toExecutors[q][f] \in Seq(Performing)
  BY DEF TypeOK
<1>2. SentBy(p, toExecutors, x, msg)[q][f] \in {toExecutors[q][f], Append(toExecutors[q][f], msg)}
  BY DEF TypeOK, SentBy
<1> QED BY <1>1, <1>2, AppendKeepsSome

\* What reaches the executors: of the RESPONSEs nothing new but by a REQUEST.
LEMMA ResponsesBefore ==
  ASSUME BasicInv, [Next]_vars, NEW e \in Executors, NEW p \in Performers,
         Responses(e, p)' # {},
         ~(\E f \in Executors, q \in Performers : HandleRequest(f, q))
  PROVE  Responses(e, p) # {}
<1>0. TypeOK
  BY DEF BasicInv
<1>1. CASE NoNewResponse(p)
  BY <1>1 DEF NoNewResponse
<1>2. CASE toExecutors' = toExecutors
  BY <1>1, <1>2, SameResponses
<1>3. ASSUME NEW f \in Executors, Tick(f) \/ Ending(f) \/ WaitTimeout(f)
      PROVE  toExecutors' = toExecutors
  BY <1>3 DEF Tick, Ending, StartDealing, DecideGiveUp, GiveUp, DecideRetry, Retry,
              CancelIfRunning, Cancel, WaitTimeout
<1>4. ASSUME NEW f \in Executors, NEW q \in Performers, ExecutorCallback(q, f)
      PROVE  NoNewResponse(p)
  <2>1. \E type : Receive(q, f, type)
    BY <1>4 DEF ExecutorCallback, HandleResponse, HandleFeedback, HandleFinish, HandleUnstarted,
                IgnoreFinish, FinishesIn
  <2> QED BY <1>0, <2>1, ReceiveIsQuiet
<1>5. ASSUME NEW x, NEW q \in Performers, NEW msg \in Performing, msg # "RESPONSE",
             toExecutors' = SentBy(q, toExecutors, x, msg)
      PROVE  NoNewResponse(p)
  BY <1>0, <1>5, SentByIsQuiet
<1>6. ASSUME NEW f \in Executors, NEW q \in Performers, PerformerCallback(f, q)
      PROVE  NoNewResponse(p)
  <2>1. "FINISH_UNSTARTED" \in Performing
    BY DEF Performing, Finishes
  <2>2. CASE HandleConfirm(f, q)
    BY <1>5, <2>1, <2>2, SameResponses DEF HandleConfirm
  <2>3. CASE IgnoreConfirm(f, q) \/ HandleReject(f, q) \/ HandleCancel(f, q)
    BY <2>3, SameResponses DEF IgnoreConfirm, HandleReject, HandleCancel
  <2> QED BY <1>6, <2>2, <2>3 DEF PerformerCallback
<1>7. ASSUME NEW q \in Performers, Work(q) PROVE NoNewResponse(p)
  <2>1. PICK type \in Feedbacks \union Finishes :
          toExecutors' = SentBy(q, toExecutors, arguments[q], type)
    BY <1>7 DEF Work, SendFeedback, Finish
  <2>2. type \in Performing /\ type # "RESPONSE"
    BY DEF Performing, Feedbacks, Finishes
  <2> QED BY <1>5, <2>1, <2>2
<1>8. ASSUME NEW q \in Performers, Crash(q) PROVE Responses(e, p) # {}
  <2>1. toExecutors'[p][e] \in {toExecutors[p][e], <<>>}
    <3>1. \/ toExecutors' = toExecutors
          \/ toExecutors' = [toExecutors EXCEPT ![q] = [f \in Executors |-> <<>>]]
      BY <1>8 DEF Crash
    <3>2. CASE p = q
      BY <1>0, <3>1, <3>2 DEF TypeOK
    <3>3. CASE p # q
      BY <1>0, <3>1, <3>3 DEF TypeOK
    <3> QED BY <3>2, <3>3
  <2> QED BY <2>1, EmptyHasNone DEF Responses
<1>9. ASSUME NEW q \in Performers, Configure(q) PROVE toExecutors' = toExecutors
  BY <1>9 DEF Configure
<1>10. CASE Plans
  <2>1. toExecutors'[p][e] \in {toExecutors[p][e], <<>>}
    BY <1>0, <1>10 DEF Plans, EndMission, MissionOver, NewMission, Replan, NextPlan, TypeOK
  <2> QED BY <2>1, EmptyHasNone DEF Responses
<1>11. CASE UNCHANGED vars
  BY <1>2, <1>11 DEF vars
<1> QED BY <1>1, <1>2, <1>3, <1>4, <1>6, <1>7, <1>8, <1>9, <1>10, <1>11 DEF Next

LEMMA AskedKept ==
  ASSUME BasicInv, DistinctAlive, [Next]_vars, NEW e \in Executors, NEW p \in Performers,
         Asked(e, p)
  PROVE  Asked(e, p)'
<1>0. TypeOK
  BY DEF BasicInv
<1>1. CASE Responses(e, p) # {}
  BY <1>1, OnlyForwards, LostForEver DEF Asked
<1>2. ASSUME NEW f \in Executors, NEW q \in Performers, HandleRequest(f, q),
             Responses(e, p)' # {}, Responses(e, p) = {}
      PROVE  Asked(e, p)'
  <2>1. /\ p = q /\ e \in Same(ExprOf[f]) /\ ExprOf[f] \in CanDo[q]
    BY <1>0, <1>2, SentByOthers DEF HandleRequest, Responses
  <2>2. state[f] # "IDLE" /\ Born(f)
    BY <1>0, <1>2, TakeQueues DEF HandleRequest, BasicInv, Standing
  <2>3. state[e] # "IDLE" \/ Gone(ExprOf[e])
    BY <2>1, <2>2 DEF Same, DistinctAlive, Gone
  <2>4. UNCHANGED <<alive, plans, state>>
    BY <1>2 DEF HandleRequest, executorVars, counters
  <2>5. state'[e] # "IDLE" \/ Gone(ExprOf[e])'
    BY <2>3, <2>4 DEF Gone, Born
  <2> QED BY <2>1, <2>5 DEF Asked, Same
<1> QED BY <1>1, <1>2, ResponsesBefore DEF Asked

\* As long as no token of it goes away it has what it waits for.
LEMMA PromiseStays ==
  ASSUME BasicInv, [Next]_vars, NEW p \in Performers, Promised(p),
         committed'[p] => committed[p],
         committed[p] =>
           \A e \in Executors :
             /\ AnswersTo(e, p) # {} => AnswersTo(e, p)' # {} \/ Lost(p)'
             /\ Responses(e, p) # {} => \/ AnswersTo(e, p)' # {}
                                        \/ Responses(e, p)' # {} \/ Lost(p)'
  PROVE  Promised(p)'
<1> SUFFICES ASSUME committed'[p]
             PROVE  (\E e \in Executors : AnswersTo(e, p)' # {} \/ Responses(e, p)' # {}) \/ Lost(p)'
  BY DEF Promised
<1>1. CASE Lost(p)
  BY <1>1, LostForEver
<1>2. ASSUME NEW e \in Executors, AnswersTo(e, p) # {} \/ Responses(e, p) # {}
      PROVE  (\E f \in Executors : AnswersTo(f, p)' # {} \/ Responses(f, p)' # {}) \/ Lost(p)'
  BY <1>2
<1> QED BY <1>1, <1>2 DEF Promised

\* Which messages are still there after a step that reads one.
LEMMA ReceiveKeepsSome ==
  ASSUME TypeOK, NEW p \in Performers, NEW e \in Executors, NEW type, Receive(p, e, type),
         NEW q \in Performers, NEW f \in Executors, NEW types,
         q # p \/ f # e \/ type \notin types, Among(toExecutors[q][f], types) # {}
  PROVE  Among(toExecutors'[q][f], types) # {}
  BY ReceiveQueues, TailKeepsSome

LEMMA TakeKeepsSome ==
  ASSUME TypeOK, NEW e \in Executors, NEW p \in Performers, NEW type, Take(e, p, type),
         NEW f \in Executors, NEW q \in Performers, NEW types,
         f # e \/ q # p \/ type \notin types, Among(toPerformers[f][q], types) # {}
  PROVE  Among(toPerformers'[f][q], types) # {}
  BY TakeQueues, TailKeepsSome

LEMMA TickPromised ==
  ASSUME BasicInv, [Next]_vars, NEW e \in Executors, Tick(e) \/ Ending(e) \/ WaitTimeout(e),
         NEW p \in Performers, Promised(p)
  PROVE  Promised(p)'
<1>0. TypeOK
  BY DEF BasicInv
<1>1. committed' = committed /\ toExecutors' = toExecutors
  BY DEF Tick, Ending, StartDealing, DecideGiveUp, GiveUp, DecideRetry, Retry,
         CancelIfRunning, Cancel, WaitTimeout, performerVars
<1>2. \/ toPerformers' = toPerformers
      \/ \E open, to : toPerformers' = SentTo(e, open, to, "REQUEST")
      \/ \E open, to : toPerformers' = SentTo(e, open, to, "CANCEL")
  BY DEF Tick, Ending, StartDealing, DecideGiveUp, GiveUp, DecideRetry, Retry,
         CancelIfRunning, Cancel, WaitTimeout
<1>3. \A f \in Executors : Responses(f, p)' = Responses(f, p)
  BY <1>1 DEF Responses, Among
<1>4. \A f \in Executors : AnswersTo(f, p)' = AnswersTo(f, p)
  <2>1. /\ "REQUEST" \in Requester /\ "REQUEST" \notin Answers
        /\ "CANCEL" \in Requester /\ "CANCEL" \notin Answers
    BY DEF Requester, Answers
  <2> QED BY <1>0, <1>2, <2>1, SentToElsewhere DEF AnswersTo, Among, Answers
<1> QED BY <1>1, <1>3, <1>4, PromiseStays

LEMMA ReadingPromised ==
  ASSUME BasicInv, [Next]_vars, NEW e \in Executors, NEW q \in Performers,
         ExecutorCallback(q, e),
         NEW p \in Performers, Promised(p), Asked(e, p)
  PROVE  Promised(p)'
<1>0. TypeOK /\ Standing(e) /\ Employed(p)
  BY DEF BasicInv
<1>1. committed' = committed
  BY DEF ExecutorCallback, HandleResponse, HandleFeedback, HandleFinish, HandleUnstarted,
         IgnoreFinish, performerVars
<1>2. PICK msg \in Requester : \/ toPerformers' = toPerformers
                               \/ \E to : toPerformers' = SentTo(e, hubOpen[e], to, msg)
  BY DEF ExecutorCallback, HandleResponse, HandleFeedback, HandleFinish, HandleUnstarted,
         IgnoreFinish, Requester
<1>3. \A f \in Executors : AnswersTo(f, p) # {} => AnswersTo(f, p)' # {}
  BY <1>0, <1>2, SentToKeepsSome DEF AnswersTo, Answers
<1>4. PICK type : Receive(q, e, type) /\ (type = "RESPONSE" => HandleResponse(q, e))
  BY DEF ExecutorCallback, HandleResponse, HandleFeedback, HandleFinish, HandleUnstarted,
         IgnoreFinish, FinishesIn, Feedbacks, Finishes
<1>5. \A f \in Executors : Responses(f, p) # {} =>
         Responses(f, p)' # {} \/ (f = e /\ p = q /\ type = "RESPONSE")
  <2>1. type # "RESPONSE" => type \notin {"RESPONSE"}
    OBVIOUS
  <2>2. ASSUME NEW f \in Executors, Responses(f, p) # {},
               ~(f = e /\ p = q /\ type = "RESPONSE")
        PROVE  Responses(f, p)' # {}
    <3>1. p # q \/ f # e \/ type \notin {"RESPONSE"}
      BY <2>1, <2>2
    <3>2. Among(toExecutors[p][f], {"RESPONSE"}) # {}
      BY <2>2 DEF Responses
    <3>3. Among(toExecutors'[p][f], {"RESPONSE"}) # {}
      BY <1>0, <1>4, <3>1, <3>2, ReceiveKeepsSome
    <3> QED BY <3>3 DEF Responses, Among
  <2> QED BY <2>2
<1>6. ASSUME committed[p], p = q, type = "RESPONSE"
      PROVE  AnswersTo(e, p)' # {} \/ Lost(p)
  <2>1. HandleResponse(p, e) /\ Responses(e, p) # {}
    BY <1>0, <1>4, <1>6, ReceiveQueues, HeadIsThere DEF Responses
  <2>2. CASE hubOpen[e]
    <3>1. PICK answer \in Answers : toPerformers' = SentTo(e, hubOpen[e], {p}, answer)
      BY <2>1 DEF HandleResponse, Answers
    <3>2. toPerformers'[e][p] = Append(toPerformers[e][p], answer)
      BY <1>0, <1>6, <2>2, <3>1 DEF SentTo, IsUp, Employed, TypeOK
    <3>3. toPerformers[e][p] \in Seq(Requester) /\ answer \in Requester
      BY <1>0 DEF TypeOK, Answers, Requester
    <3> QED BY <3>2, <3>3, AppendIsThere DEF AnswersTo, Answers
  <2>3. CASE ~hubOpen[e]
    BY <1>0, <2>1, <2>3 DEF Asked, Lost, Gone, Standing
  <2> QED BY <2>2, <2>3
<1>7. Lost(p) => Lost(p)'
  BY LostForEver
<1> QED BY <1>1, <1>3, <1>5, <1>6, <1>7, PromiseStays

LEMMA PerformerPromised ==
  ASSUME BasicInv, [Next]_vars, NEW e \in Executors, NEW q \in Performers,
         PerformerCallback(e, q), NEW p \in Performers, Promised(p)
  PROVE  Promised(p)'
<1>0. TypeOK /\ Standing(e) /\ Employed(p)
  BY DEF BasicInv
<1>1. PICK type : Take(e, q, type) /\ UNCHANGED <<alive, plans>>
  BY DEF PerformerCallback, HandleRequest, HandleConfirm, IgnoreConfirm, HandleReject,
         HandleCancel, executorVars, counters
<1>2. ASSUME p # q \/ type \notin Answers, NEW f \in Executors, AnswersTo(f, p) # {}
      PROVE  AnswersTo(f, p)' # {}
  <2>1. f # e \/ p # q \/ type \notin Answers
    BY <1>2
  <2>2. Among(toPerformers[f][p], Answers) # {}
    BY <1>2 DEF AnswersTo
  <2>3. Among(toPerformers'[f][p], Answers) # {}
    BY <1>0, <1>1, <2>1, <2>2, TakeKeepsSome
  <2> QED BY <2>3 DEF AnswersTo, Among, Answers
<1>3. ASSUME NEW f \in Executors, Responses(f, p) # {} PROVE Responses(f, p)' # {}
  <2>1. /\ "RESPONSE" \in Performing /\ "FINISH_UNSTARTED" \in Performing
    BY DEF Performing, Finishes
  <2>2. \/ toExecutors' = toExecutors
        \/ toExecutors' = SentBy(q, toExecutors, ExprOf[e], "RESPONSE")
        \/ toExecutors' = SentBy(q, toExecutors, ExprOf[e], "FINISH_UNSTARTED")
    BY DEF PerformerCallback, HandleRequest, HandleConfirm, IgnoreConfirm, HandleReject,
           HandleCancel
  <2> QED BY <1>0, <1>3, <2>1, <2>2, SentByKeepsSome DEF Responses
<1>4. CASE p # q /\ committed'[p] = committed[p]
  BY <1>2, <1>3, <1>4, PromiseStays
<1>5. CASE HandleRequest(e, q)
  <2>1. type = "REQUEST" /\ "REQUEST" \notin Answers
    BY <1>1, <1>5 DEF HandleRequest, Take, Answers
  <2>2. CASE committed'[p] => committed[p]
    BY <1>2, <1>3, <2>1, <2>2, PromiseStays
  <2>3. CASE committed'[p] /\ ~committed[p]
    <3>1. /\ p = q /\ ExprOf[e] \in CanDo[p]
          /\ toExecutors' = SentBy(p, toExecutors, ExprOf[e], "RESPONSE")
      BY <1>0, <1>5, <2>3 DEF HandleRequest, TypeOK
    <3>2. CASE e \in alive
      <4>1. toExecutors'[p][e] = Append(toExecutors[p][e], "RESPONSE")
        <5>1. e \in Same(ExprOf[e])
          BY <3>2 DEF Same
        <5> QED BY <1>0, <3>1, <5>1, SentByHere
      <4>2. toExecutors[p][e] \in Seq(Performing) /\ "RESPONSE" \in Performing
        BY <1>0 DEF TypeOK, Performing
      <4>3. Responses(e, p)' # {}
        BY <4>1, <4>2, AppendIsThere DEF Responses
      <4> QED BY <4>3 DEF Promised
    <3>3. CASE e \notin alive
      <4>1. Lost(p)
        BY <1>0, <1>1, <2>1, <3>1, <3>3, TakeQueues DEF Lost, Standing
      <4> QED BY <4>1, LostForEver DEF Promised
    <3> QED BY <3>2, <3>3
  <2> QED BY <2>2, <2>3
<1>6. CASE HandleConfirm(e, q) \/ HandleReject(e, q)
  BY <1>0, <1>4, <1>6 DEF HandleConfirm, HandleReject, Promised, TypeOK
<1>7. CASE IgnoreConfirm(e, q)
  <2>1. committed'[p] = committed[p] /\ (p = q => ~committed[p])
    BY <1>0, <1>7 DEF IgnoreConfirm, Take, IsUp, Ready, Employed, TypeOK, performerVars
  <2> QED BY <1>4, <2>1 DEF Promised
<1>8. CASE HandleCancel(e, q)
  <2>1. type = "CANCEL" /\ "CANCEL" \notin Answers /\ committed' = committed
    BY <1>1, <1>8 DEF HandleCancel, Take, Answers
  <2> QED BY <1>2, <1>3, <2>1, PromiseStays
<1> QED BY <1>5, <1>6, <1>7, <1>8 DEF PerformerCallback

LEMMA WorkPromised ==
  ASSUME BasicInv, [Next]_vars, NEW q \in Performers, Work(q) \/ Crash(q) \/ Configure(q),
         NEW p \in Performers, Promised(p)
  PROVE  Promised(p)'
<1>0. TypeOK
  BY DEF BasicInv
<1>1. CASE Work(q)
  <2>1. PICK type \in Feedbacks \union Finishes :
          toExecutors' = SentBy(q, toExecutors, arguments[q], type)
    BY <1>1 DEF Work, SendFeedback, Finish
  <2>2. committed' = committed /\ toPerformers' = toPerformers
    BY <1>1 DEF Work, SendFeedback, Finish, performerVars
  <2>3. type \in Performing
    BY DEF Performing
  <2>4. \A f \in Executors : Responses(f, p) # {} => Responses(f, p)' # {}
    BY <1>0, <2>1, <2>3, SentByKeepsSome DEF Responses
  <2>5. \A f \in Executors : AnswersTo(f, p)' = AnswersTo(f, p)
    BY <2>2 DEF AnswersTo, Among, Answers
  <2> QED BY <2>2, <2>4, <2>5, PromiseStays
<1>2. CASE Crash(q)
  <2>1. CASE p = q
    BY <1>0, <1>2, <2>1 DEF Crash, Promised, TypeOK
  <2>2. CASE p # q
    <3>1. /\ committed'[p] = committed[p]
          /\ \A f \in Executors : toPerformers'[f][p] = toPerformers[f][p]
      BY <1>0, <1>2, <2>2 DEF Crash, TypeOK
    <3>2. \A f \in Executors : toExecutors'[p][f] = toExecutors[p][f]
      BY <1>0, <1>2, <2>2 DEF Crash, TypeOK
    <3>3. \A f \in Executors : /\ Responses(f, p)' = Responses(f, p)
                               /\ AnswersTo(f, p)' = AnswersTo(f, p)
      BY <3>1, <3>2 DEF Responses, AnswersTo, Among, Answers
    <3> QED BY <3>1, <3>3, PromiseStays
  <2> QED BY <2>1, <2>2
<1>3. CASE Configure(q)
  <2>1. UNCHANGED <<committed, toPerformers, toExecutors>>
    BY <1>3 DEF Configure
  <2>2. \A f \in Executors : /\ Responses(f, p)' = Responses(f, p)
                             /\ AnswersTo(f, p)' = AnswersTo(f, p)
    BY <2>1 DEF Responses, AnswersTo, Among, Answers
  <2> QED BY <2>1, <2>2, PromiseStays
<1> QED BY <1>1, <1>2, <1>3

\* A new plan forgets executors, and then what was to be answered is lost.
LEMMA PlansPromised ==
  ASSUME BasicInv, [Next]_vars, Plans, NEW p \in Performers, Promised(p),
         \A e \in Executors : Asked(e, p)
  PROVE  Promised(p)'
<1>0. TypeOK
  BY DEF BasicInv
<1>1. committed' = committed
  BY DEF Plans, EndMission, MissionOver, NewMission, Replan, performerVars
<1>2. ASSUME NEW e \in Executors, AnswersTo(e, p) # {} PROVE AnswersTo(e, p)' # {}
  <2>1. CASE toPerformers' = toPerformers
    BY <1>2, <2>1 DEF AnswersTo, Answers
  <2>2. ASSUME NEW kept \in SUBSET Executors, Replan(kept) PROVE AnswersTo(e, p)' # {}
    <3>1. \/ toPerformers'[e] = toPerformers[e]
          \/ toPerformers'[e] = SentTo(e, hubOpen[e], {performer[e]}, "CANCEL")[e]
      BY <2>2 DEF Replan
    <3>2. "CANCEL" \in Requester
      BY DEF Requester
    <3> QED BY <1>0, <1>2, <3>1, <3>2, SentToKeepsSome DEF AnswersTo, Answers
  <2> QED BY <2>1, <2>2 DEF Plans, EndMission, MissionOver, NewMission
<1>3. ASSUME NEW e \in Executors, Responses(e, p) # {}
      PROVE  Responses(e, p)' # {} \/ Lost(p)'
  <2>1. CASE toExecutors'[p][e] = toExecutors[p][e]
    BY <1>3, <2>1 DEF Responses
  <2>2. e \in alive /\ Born(e) /\ ExprOf[e] \in CanDo[p]
    BY <1>3, EmptyHasNone DEF BasicInv, Standing, Asked, Responses
  <2>3. ASSUME NEW kept \in SUBSET Executors, NextPlan(kept), toExecutors'[p][e] # toExecutors[p][e]
        PROVE  Lost(p)'
    <3>1. e \notin alive' /\ Born(e)'
      BY <1>0, <2>2, <2>3, HubAssumption DEF NextPlan, Born, TypeOK
    <3> QED BY <2>2, <3>1 DEF Lost
  <2> QED BY <2>1, <2>3 DEF Plans, EndMission, MissionOver, NewMission, Replan
<1> QED BY <1>1, <1>2, <1>3, PromiseStays

LEMMA PromiseKeeps ==
  ASSUME DistinctActions, PromiseInv, [Next]_vars PROVE PromiseInv'
<1>0. BasicInv /\ IInv /\ DistinctAlive
  BY DEF PromiseInv, IInv
<1>1. BasicInv'
  BY <1>0, BasicKept
<1>2. IInv'
  BY <1>0, IInvKept
<1>3. ASSUME NEW p \in Performers, NEW e \in Executors PROVE Asked(e, p)'
  BY <1>0, <1>3, AskedKept DEF PromiseInv
<1>4. ASSUME NEW p \in Performers PROVE Promised(p)'
  <2>0. Promised(p) /\ \A e \in Executors : Asked(e, p)
    BY DEF PromiseInv
  <2>1. CASE UNCHANGED vars
    <3>1. UNCHANGED <<committed, toPerformers, toExecutors>>
      BY <2>1 DEF vars, performerVars
    <3>2. \A f \in Executors : /\ Responses(f, p)' = Responses(f, p)
                               /\ AnswersTo(f, p)' = AnswersTo(f, p)
      BY <3>1 DEF Responses, AnswersTo, Among, Answers
    <3> QED BY <1>0, <2>0, <3>1, <3>2, PromiseStays
  <2> QED BY <1>0, <2>0, <2>1, TickPromised, ReadingPromised, PerformerPromised, WorkPromised,
             PlansPromised DEF Next
<1> QED BY <1>1, <1>2, <1>3, <1>4 DEF PromiseInv

\* Whatever the executors, performers and plans, and whoever crashes when: a
\* performer is committed only as long as its RESPONSE or the answer to it is
\* under way, or when an executor that it could have answered has closed its
\* publisher or is no more.
THEOREM CommitmentHasAReason ==
  ASSUME DistinctActions PROVE Spec => []CommitmentIsAnswered
<1>1. Init => PromiseInv
  <2> SUFFICES ASSUME Init PROVE PromiseInv
    OBVIOUS
  <2>1. BasicInv /\ IInv
    BY BasicAtFirst, IInvAtFirst
  <2>2. /\ \A p \in Performers : ~committed[p]
        /\ \A p \in Performers, e \in Executors : Responses(e, p) = {}
    BY EmptyHasNone DEF Init, Responses
  <2> QED BY <2>1, <2>2 DEF PromiseInv, Promised, Asked
<1>2. PromiseInv /\ [Next]_vars => PromiseInv'
  BY PromiseKeeps
<1>3. PromiseInv => CommitmentIsAnswered
  <2> SUFFICES ASSUME PromiseInv, NEW p \in Performers, committed[p], Promised(p)
               PROVE  \/ \E e \in Executors : Among(toPerformers[e][p], Answers) # {}
                      \/ \E e \in Executors : Among(toExecutors[p][e], {"RESPONSE"}) # {}
                      \/ \E e \in Executors : /\ ExprOf[e] \in CanDo[p]
                                              /\ ~hubOpen[e] \/ e \notin alive
    BY DEF PromiseInv, CommitmentIsAnswered
  <2> QED BY DEF Promised, AnswersTo, Responses, Lost
<1> QED BY <1>1, <1>2, <1>3, PTL DEF Spec

-----------------------------------------------------------------------------
(* The work of a performer: given by a CONFIRM, ended by one of Finishes.  *)

Confirms(e, p) == Among(toPerformers[e][p], {"CONFIRM"})
Ends(p, e)     == Among(toExecutors[p][e], Finishes)
Hired(e, p)    == lifecycle[p] = "active" /\ employer[p] = e

\* p works for e, or is about to.
Own(e, p) == Confirms(e, p) # {} \/ Hired(e, p)

\* Nothing of that kind is new in a queue.
NoNewConfirm(e, p) ==
  /\ Confirms(e, p) = {} => Confirms(e, p)' = {}
  /\ Lone(toPerformers[e][p], {"CONFIRM"}) => Lone(toPerformers'[e][p], {"CONFIRM"})

NoNewEnd(p, e) ==
  /\ Ends(p, e) = {} => Ends(p, e)' = {}
  /\ Lone(toExecutors[p][e], Finishes) => Lone(toExecutors'[p][e], Finishes)

LEMMA TakeConfirms ==
  ASSUME TypeOK, NEW e \in Executors, NEW p \in Performers, NEW type, Take(e, p, type),
         NEW f \in Executors, NEW q \in Performers
  PROVE  NoNewConfirm(f, q)
<1>1. \/ toPerformers'[f][q] = toPerformers[f][q]
      \/ /\ toPerformers[f][q] \in Seq(Requester) /\ toPerformers[f][q] # <<>>
         /\ toPerformers'[f][q] = Tail(toPerformers[f][q])
  BY TakeQueues
<1> QED BY <1>1, TailHasFewer DEF NoNewConfirm, Confirms

LEMMA ReceiveEnds ==
  ASSUME TypeOK, NEW p \in Performers, NEW e \in Executors, NEW type, Receive(p, e, type),
         NEW q \in Performers, NEW f \in Executors
  PROVE  NoNewEnd(q, f)
<1>1. \/ toExecutors'[q][f] = toExecutors[q][f]
      \/ /\ toExecutors[q][f] \in Seq(Performing) /\ toExecutors[q][f] # <<>>
         /\ toExecutors'[q][f] = Tail(toExecutors[q][f])
  BY ReceiveQueues
<1> QED BY <1>1, TailHasFewer DEF NoNewEnd, Ends, Finishes

LEMMA SentToConfirms ==
  ASSUME TypeOK, NEW e \in Executors, NEW open, NEW to, NEW msg \in Requester \ {"CONFIRM"},
         toPerformers' = SentTo(e, open, to, msg), NEW f \in Executors, NEW q \in Performers
  PROVE  NoNewConfirm(f, q)
<1>1. toPerformers[f][q] \in Seq(Requester)
  BY DEF TypeOK
<1>2. toPerformers'[f][q] \in {toPerformers[f][q], Append(toPerformers[f][q], msg)}
  BY DEF TypeOK, SentTo
<1>3. msg \notin {"CONFIRM"} /\ msg \in Requester
  OBVIOUS
<1>4. Among(Append(toPerformers[f][q], msg), {"CONFIRM"}) = Among(toPerformers[f][q], {"CONFIRM"})
  BY <1>1, <1>3, AppendElsewhere
<1> QED BY <1>2, <1>4 DEF NoNewConfirm, Confirms, Lone

LEMMA SentByEnds ==
  ASSUME TypeOK, NEW p \in Performers, NEW x, NEW msg \in Performing \ Finishes,
         toExecutors' = SentBy(p, toExecutors, x, msg), NEW q \in Performers, NEW f \in Executors
  PROVE  NoNewEnd(q, f)
<1>1. toExecutors[q][f] \in Seq(Performing)
  BY DEF TypeOK
<1>2. toExecutors'[q][f] \in {toExecutors[q][f], Append(toExecutors[q][f], msg)}
  BY DEF TypeOK, SentBy
<1>3. msg \notin Finishes /\ msg \in Performing
  OBVIOUS
<1>4. Among(Append(toExecutors[q][f], msg), Finishes) = Among(toExecutors[q][f], Finishes)
  BY <1>1, <1>3, AppendElsewhere
<1> QED BY <1>2, <1>4 DEF NoNewEnd, Ends, Lone, Finishes

LEMMA SameConfirms ==
  ASSUME NEW f \in Executors, NEW q \in Performers, toPerformers'[f][q] \in {toPerformers[f][q], <<>>}
  PROVE  NoNewConfirm(f, q)
  BY EmptyHasNone DEF NoNewConfirm, Confirms, Lone

LEMMA SameEnds ==
  ASSUME NEW f \in Executors, NEW q \in Performers, toExecutors'[q][f] \in {toExecutors[q][f], <<>>}
  PROVE  NoNewEnd(q, f)
  BY EmptyHasNone DEF NoNewEnd, Ends, Lone, Finishes

\* An executor that looks for a performer takes q.
Chosen(q, e) == HandleResponse(q, e) /\ state[e] = "DEALING"

\* Nobody is given work or through with it, and no executor changes its performer.
Quiet ==
  /\ \A f \in Executors, q \in Performers :
       /\ NoNewConfirm(f, q) /\ NoNewEnd(q, f)
       /\ Hired(f, q)' => Hired(f, q)
  /\ UNCHANGED <<alive, plans, performer>>
  /\ \A f \in Executors :
       /\ hubOpen[f] => hubOpen'[f]
       /\ state'[f] = "SUCCESS" => state[f] = "SUCCESS"
       /\ pending'[f] = "retry" =>
            pending[f] = "retry" /\ (state[f] = "RUNNING" => state'[f] = "RUNNING")

LEMMA TickQuiet ==
  ASSUME BasicInv, NEW e \in Executors, Tick(e) \/ Ending(e) \/ WaitTimeout(e),
         ~DecideRetry(e), ~Retry(e)
  PROVE  Quiet
<1>0. TypeOK
  BY DEF BasicInv
<1>1. \/ StartDealing(e) \/ DecideGiveUp(e) \/ GiveUp(e) \/ CancelIfRunning(e) \/ Cancel(e)
      \/ WaitTimeout(e)
  BY DEF Tick, Ending
<1>2. UNCHANGED <<lifecycle, employer, alive, plans, performer, toExecutors>>
  BY <1>1 DEF StartDealing, DecideGiveUp, GiveUp, CancelIfRunning, Cancel, WaitTimeout,
              executorVars, performerVars, counters
<1>3. \/ toPerformers' = toPerformers
      \/ \E open, to : toPerformers' = SentTo(e, open, to, "REQUEST")
      \/ \E open, to : toPerformers' = SentTo(e, open, to, "CANCEL")
  BY <1>1 DEF StartDealing, DecideGiveUp, GiveUp, CancelIfRunning, Cancel, WaitTimeout
<1>4. ASSUME NEW f \in Executors, NEW q \in Performers PROVE NoNewConfirm(f, q)
  <2>1. "REQUEST" \in Requester \ {"CONFIRM"} /\ "CANCEL" \in Requester \ {"CONFIRM"}
    BY DEF Requester
  <2> QED BY <1>0, <1>3, <2>1, SentToConfirms, SameConfirms
<1>5. ASSUME NEW f \in Executors, NEW q \in Performers PROVE NoNewEnd(q, f)
  BY <1>2, SameEnds
<1>6. ASSUME NEW f \in Executors
      PROVE  /\ hubOpen[f] => hubOpen'[f]
             /\ state'[f] = "SUCCESS" => state[f] = "SUCCESS"
             /\ pending'[f] = "retry" =>
                  pending[f] = "retry" /\ (state[f] = "RUNNING" => state'[f] = "RUNNING")
  <2>1. CASE StartDealing(e)
    BY <1>0, <2>1 DEF StartDealing, threadVars, TypeOK
  <2>2. CASE DecideGiveUp(e) \/ CancelIfRunning(e)
    BY <1>0, <2>2 DEF DecideGiveUp, CancelIfRunning, Decide, executorVars, TypeOK
  <2>3. CASE GiveUp(e) \/ Cancel(e)
    BY <1>0, <2>3 DEF GiveUp, Cancel, TypeOK
  <2>4. CASE WaitTimeout(e)
    BY <2>4 DEF WaitTimeout, executorVars, threadVars
  <2> QED BY <1>1, <2>1, <2>2, <2>3, <2>4
<1> QED BY <1>2, <1>4, <1>5, <1>6 DEF Quiet, Hired

LEMMA ReadingQuiet ==
  ASSUME BasicInv, NEW e \in Executors, NEW p \in Performers, ExecutorCallback(p, e),
         ~Chosen(p, e), ~HandleFinish(p, e), ~HandleUnstarted(p, e)
  PROVE  Quiet
<1>0. TypeOK
  BY DEF BasicInv
<1>1. \/ HandleResponse(p, e) /\ state[e] # "DEALING"
      \/ \E type \in Feedbacks : HandleFeedback(p, e, type)
      \/ IgnoreFinish(p, e)
  BY DEF ExecutorCallback, Chosen
<1>2. UNCHANGED <<lifecycle, employer, alive, plans, performer, hubOpen, state, pending>>
  BY <1>1 DEF HandleResponse, HandleFeedback, IgnoreFinish, executorVars, performerVars,
              threadVars, counters
<1>3. \/ toPerformers' = toPerformers
      \/ \E to : toPerformers' = SentTo(e, hubOpen[e], to, "REJECT")
  BY <1>1 DEF HandleResponse, HandleFeedback, IgnoreFinish
<1>4. ASSUME NEW f \in Executors, NEW q \in Performers PROVE NoNewConfirm(f, q)
  <2>1. "REJECT" \in Requester \ {"CONFIRM"}
    BY DEF Requester
  <2> QED BY <1>0, <1>3, <2>1, SentToConfirms, SameConfirms
<1>5. ASSUME NEW f \in Executors, NEW q \in Performers PROVE NoNewEnd(q, f)
  <2>1. \E type : Receive(p, e, type)
    BY <1>1 DEF HandleResponse, HandleFeedback, IgnoreFinish
  <2> QED BY <1>0, <2>1, ReceiveEnds
<1> QED BY <1>2, <1>4, <1>5 DEF Quiet, Hired

LEMMA PerformerQuiet ==
  ASSUME BasicInv, NEW p \in Performers,
         \/ \E e \in Executors : PerformerCallback(e, p) /\ ~HandleConfirm(e, p)
         \/ Work(p) /\ ~(\E type \in Finishes : Finish(p, type))
         \/ Crash(p) \/ Configure(p)
  PROVE  Quiet
<1>0. TypeOK
  BY DEF BasicInv
<1>1. UNCHANGED <<employer, alive, plans, performer, hubOpen, state, pending>>
  BY DEF PerformerCallback, HandleRequest, IgnoreConfirm, HandleReject, HandleCancel,
         Work, SendFeedback, Crash, Configure, executorVars, performerVars, threadVars, counters
<1>2. lifecycle' = lifecycle \/ \E to \in {"inactive", "down"} : lifecycle' = [lifecycle EXCEPT ![p] = to]
  BY DEF PerformerCallback, HandleRequest, IgnoreConfirm, HandleReject, HandleCancel,
         Work, SendFeedback, Crash, Configure, performerVars
<1>3. ASSUME NEW f \in Executors, NEW q \in Performers PROVE Hired(f, q)' => Hired(f, q)
  BY <1>0, <1>1, <1>2 DEF Hired, TypeOK
<1>4. ASSUME NEW e \in Executors, PerformerCallback(e, p), ~HandleConfirm(e, p),
             NEW f \in Executors, NEW q \in Performers
      PROVE  NoNewConfirm(f, q) /\ NoNewEnd(q, f)
  <2>1. \E type : Take(e, p, type)
    BY <1>4 DEF PerformerCallback, HandleRequest, IgnoreConfirm, HandleReject, HandleCancel
  <2>2. toExecutors' = toExecutors \/ toExecutors' = SentBy(p, toExecutors, ExprOf[e], "RESPONSE")
    BY <1>4 DEF PerformerCallback, HandleRequest, IgnoreConfirm, HandleReject, HandleCancel
  <2>3. "RESPONSE" \in Performing \ Finishes
    BY DEF Performing, Finishes
  <2> QED BY <1>0, <2>1, <2>2, <2>3, TakeConfirms, SentByEnds, SameEnds
<1>5. ASSUME NEW type \in Feedbacks, SendFeedback(p, type),
             NEW f \in Executors, NEW q \in Performers
      PROVE  NoNewConfirm(f, q) /\ NoNewEnd(q, f)
  <2>1. type \in Performing \ Finishes
    BY DEF Performing, Feedbacks, Finishes
  <2>2. toPerformers' = toPerformers /\ toExecutors' = SentBy(p, toExecutors, arguments[p], type)
    BY <1>5 DEF SendFeedback
  <2> QED BY <1>0, <2>1, <2>2, SentByEnds, SameConfirms
<1>6. ASSUME Crash(p) \/ Configure(p), NEW f \in Executors, NEW q \in Performers
      PROVE  NoNewConfirm(f, q) /\ NoNewEnd(q, f)
  <2>1. toPerformers'[f][q] \in {toPerformers[f][q], <<>>}
    <3>1. CASE p = q
      BY <1>0, <1>6, <3>1 DEF Crash, Configure, TypeOK
    <3>2. CASE p # q
      BY <1>0, <1>6, <3>2 DEF Crash, Configure, TypeOK
    <3> QED BY <3>1, <3>2
  <2>2. toExecutors'[q][f] \in {toExecutors[q][f], <<>>}
    <3>1. \/ toExecutors' = toExecutors
          \/ toExecutors' = [toExecutors EXCEPT ![p] = [g \in Executors |-> <<>>]]
      BY <1>6 DEF Crash, Configure
    <3>2. CASE p = q
      BY <1>0, <3>1, <3>2 DEF TypeOK
    <3>3. CASE p # q
      BY <1>0, <3>1, <3>3 DEF TypeOK
    <3> QED BY <3>2, <3>3
  <2> QED BY <2>1, <2>2, SameConfirms, SameEnds
<1>7. ASSUME NEW f \in Executors, NEW q \in Performers PROVE NoNewConfirm(f, q) /\ NoNewEnd(q, f)
  BY <1>4, <1>5, <1>6 DEF Work
<1> QED BY <1>1, <1>3, <1>7 DEF Quiet

\* The steps that are not quiet.
LEMMA QuietOrNot ==
  ASSUME BasicInv, [Next]_vars
  PROVE  \/ Quiet
         \/ \E e \in Executors : DecideRetry(e) \/ Retry(e)
         \/ \E e \in Executors, p \in Performers :
              \/ Chosen(p, e) \/ HandleFinish(p, e) \/ HandleUnstarted(p, e)
              \/ HandleConfirm(e, p)
         \/ \E p \in Performers, type \in Finishes : Finish(p, type)
         \/ NewMission \/ \E kept \in SUBSET Executors : Replan(kept)
<1>1. CASE EndMission \/ MissionOver \/ UNCHANGED vars
  <2>1. UNCHANGED <<executorVars, pending, performerVars, toPerformers, toExecutors, plans>>
    BY <1>1 DEF EndMission, MissionOver, vars, threadVars, counters
  <2>2. \A f \in Executors, q \in Performers : NoNewConfirm(f, q) /\ NoNewEnd(q, f)
    BY <2>1, SameConfirms, SameEnds
  <2> QED BY <2>1, <2>2 DEF Quiet, Hired, executorVars, performerVars
<1> QED BY <1>1, TickQuiet, ReadingQuiet, PerformerQuiet DEF Next, Plans, Work

\* What the other steps do to the work.
LEMMA ChosenStep ==
  ASSUME BasicInv, NEW e \in Executors, NEW p \in Performers, Chosen(p, e)
  PROVE  /\ e \in alive /\ state[e] = "DEALING" /\ performer[e] = None
         /\ Responses(e, p) # {} /\ Receive(p, e, "RESPONSE")
         /\ performer' = [performer EXCEPT ![e] = p]
         /\ state' = [state EXCEPT ![e] = "RUNNING"]
         /\ UNCHANGED <<alive, plans, hubOpen, pending, lifecycle, employer, crashes>>
         /\ \A f \in Executors, q \in Performers :
              /\ NoNewEnd(q, f)
              /\ f # e \/ q # p \/ ~hubOpen[e] => NoNewConfirm(f, q)
         /\ Confirms(e, p) = {} => Lone(toPerformers'[e][p], {"CONFIRM"})
<1>0. TypeOK /\ Standing(e)
  BY DEF BasicInv
<1>1. /\ Receive(p, e, "RESPONSE") /\ state[e] = "DEALING"
      /\ performer' = [performer EXCEPT ![e] = p]
      /\ state' = [state EXCEPT ![e] = "RUNNING"]
      /\ toPerformers' = SentTo(e, hubOpen[e], {p}, "CONFIRM")
      /\ UNCHANGED <<alive, plans, hubOpen, pending, lifecycle, employer, crashes>>
  BY DEF Chosen, HandleResponse, threadVars, performerVars, counters
<1>2. Responses(e, p) # {}
  BY <1>0, <1>1, ReceiveQueues, HeadIsThere DEF Responses
<1>3. ASSUME NEW f \in Executors, NEW q \in Performers
      PROVE  NoNewEnd(q, f) /\ (f # e \/ q # p \/ ~hubOpen[e] => NoNewConfirm(f, q))
  <2>1. f # e \/ q # p \/ ~hubOpen[e] => toPerformers'[f][q] = toPerformers[f][q]
    BY <1>0, <1>1, SentToOthers
  <2> QED BY <1>0, <1>1, <2>1, ReceiveEnds, SameConfirms
<1>4. ASSUME Confirms(e, p) = {} PROVE Lone(toPerformers'[e][p], {"CONFIRM"})
  <2>1. toPerformers'[e][p] \in {toPerformers[e][p], Append(toPerformers[e][p], "CONFIRM")}
    BY <1>0, <1>1 DEF SentTo, TypeOK
  <2>2. toPerformers[e][p] \in Seq(Requester) /\ "CONFIRM" \in Requester
    BY <1>0 DEF TypeOK, Requester
  <2>3. Lone(Append(toPerformers[e][p], "CONFIRM"), {"CONFIRM"})
    BY <1>4, <2>2, AppendHere DEF Confirms
  <2> QED BY <1>4, <2>1, <2>3 DEF Lone, Confirms
<1>5. e \in alive /\ performer[e] = None
  BY <1>0, <1>1 DEF Standing, Receive
<1> QED BY <1>1, <1>2, <1>3, <1>4, <1>5

\* The end of the work is read, for good or for another try.
LEMMA EndStep ==
  ASSUME BasicInv, NEW e \in Executors, NEW p \in Performers,
         HandleFinish(p, e) \/ HandleUnstarted(p, e)
  PROVE  /\ e \in alive /\ performer[e] = p /\ Ends(p, e) # {}
         /\ Lone(toExecutors[p][e], Finishes) => Ends(p, e)' = {}
         /\ \A f \in Executors, q \in Performers : NoNewEnd(q, f) /\ NoNewConfirm(f, q)
         /\ UNCHANGED <<alive, plans, pending, lifecycle, employer, crashes>>
         /\ \A f \in Executors : f # e => UNCHANGED <<performer[f], hubOpen[f], state[f]>>
         /\ HandleFinish(p, e) => performer' = performer
         /\ HandleUnstarted(p, e) =>
              performer'[e] = None /\ hubOpen' = hubOpen /\ state'[e] = "DEALING"
<1>0. TypeOK
  BY DEF BasicInv
<1>1. PICK type \in Finishes : Receive(p, e, type)
  BY DEF HandleFinish, HandleUnstarted, FinishesIn, Finishes
<1>2. /\ e \in alive /\ performer[e] = p
      /\ UNCHANGED <<alive, plans, pending, lifecycle, employer, crashes>>
  BY <1>1 DEF HandleFinish, HandleUnstarted, FinishesIn, Receive, threadVars, performerVars, counters
<1>3. Ends(p, e) # {} /\ (Lone(toExecutors[p][e], Finishes) => Ends(p, e)' = {})
  BY <1>0, <1>1, ReceiveQueues, HeadIsThere DEF Ends, Finishes
<1>4. ASSUME NEW f \in Executors, NEW q \in Performers
      PROVE  NoNewEnd(q, f) /\ NoNewConfirm(f, q)
  <2>1. "REQUEST" \in Requester \ {"CONFIRM"}
    BY DEF Requester
  <2>2. \/ toPerformers' = toPerformers
        \/ toPerformers' = SentTo(e, hubOpen[e], Performers, "REQUEST")
    BY DEF HandleFinish, HandleUnstarted
  <2> QED BY <1>0, <1>1, <2>1, <2>2, ReceiveEnds, SentToConfirms, SameConfirms
<1>5. /\ \A f \in Executors : f # e => UNCHANGED <<performer[f], hubOpen[f], state[f]>>
      /\ HandleFinish(p, e) => performer' = performer
      /\ HandleUnstarted(p, e) =>
           performer'[e] = None /\ hubOpen' = hubOpen /\ state'[e] = "DEALING"
  BY <1>0 DEF HandleFinish, HandleUnstarted, FinishesIn, TypeOK
<1> QED BY <1>2, <1>3, <1>4, <1>5

LEMMA RetryStep ==
  ASSUME BasicInv, NEW e \in Executors, DecideRetry(e) \/ Retry(e)
  PROVE  /\ \A f \in Executors, q \in Performers : NoNewEnd(q, f) /\ NoNewConfirm(f, q)
         /\ UNCHANGED <<alive, plans, hubOpen, lifecycle, employer, crashes>>
         /\ \A f \in Executors : f # e => UNCHANGED <<performer[f], state[f]>>
         /\ \A f \in Executors : f # e => (pending'[f] = "retry" => pending[f] = "retry")
         /\ DecideRetry(e) => /\ UNCHANGED <<performer, state>> /\ state[e] = "RUNNING"
                              /\ e \in alive /\ (SlowPerformers \/ ~Engaged(e, performer[e]))
         /\ Retry(e) => /\ performer'[e] = None /\ state'[e] = "DEALING"
                        /\ pending[e] = "retry" /\ pending'[e] = "none"
<1>0. TypeOK
  BY DEF BasicInv
<1>1. ASSUME NEW f \in Executors, NEW q \in Performers
      PROVE  NoNewEnd(q, f) /\ NoNewConfirm(f, q)
  <2>1. "REQUEST" \in Requester \ {"CONFIRM"}
    BY DEF Requester
  <2>2. /\ toExecutors' = toExecutors
        /\ \/ toPerformers' = toPerformers
           \/ toPerformers' = SentTo(e, hubOpen[e], Performers, "REQUEST")
    BY DEF DecideRetry, Retry
  <2> QED BY <1>0, <2>1, <2>2, SentToConfirms, SameConfirms, SameEnds
<1>2. CASE DecideRetry(e)
  BY <1>0, <1>1, <1>2 DEF DecideRetry, Decide, TypeOK, executorVars, performerVars, counters, Retry
<1>3. CASE Retry(e)
  BY <1>0, <1>1, <1>3 DEF DecideRetry, Decide, TypeOK, performerVars, counters, Retry
<1> QED BY <1>2, <1>3

\* A performer takes the work, or fails to and says so at once.
LEMMA ConfirmStep ==
  ASSUME BasicInv, NEW e \in Executors, NEW p \in Performers, HandleConfirm(e, p)
  PROVE  /\ Ready(p) /\ Confirms(e, p) # {}
         /\ Lone(toPerformers[e][p], {"CONFIRM"}) => Confirms(e, p)' = {}
         /\ UNCHANGED <<alive, plans, performer, hubOpen, state, pending, crashes>>
         /\ \A f \in Executors, q \in Performers :
              /\ NoNewConfirm(f, q)
              /\ q # p => NoNewEnd(q, f) /\ (Hired(f, q)' => Hired(f, q))
              /\ Hired(f, p)' => f = e
              /\ ExprOf[f] # ExprOf[e] \/ f \notin alive => NoNewEnd(p, f)
              /\ Ends(p, f) = {} => Lone(toExecutors'[p][f], Finishes)
         /\ \/ Hired(e, p)' /\ \A f \in Executors : NoNewEnd(p, f)
            \/ ~Hired(e, p)' /\ (e \in alive => Ends(p, e)' # {})
<1>0. TypeOK
  BY DEF BasicInv
<1>1. /\ Take(e, p, "CONFIRM") /\ Ready(p)
      /\ employer' = [employer EXCEPT ![p] = e]
      /\ UNCHANGED <<alive, plans, performer, hubOpen, state, pending, crashes>>
      /\ \/ lifecycle' = [lifecycle EXCEPT ![p] = "active"] /\ toExecutors' = toExecutors
         \/ /\ toExecutors' = SentBy(p, toExecutors, ExprOf[e], "FINISH_UNSTARTED")
            /\ lifecycle' = lifecycle
  BY DEF HandleConfirm, executorVars, threadVars, counters
<1>2. Confirms(e, p) # {} /\ (Lone(toPerformers[e][p], {"CONFIRM"}) => Confirms(e, p)' = {})
  BY <1>0, <1>1, TakeQueues, HeadIsThere DEF Confirms
<1>3. ASSUME NEW f \in Executors, NEW q \in Performers
      PROVE  /\ NoNewConfirm(f, q)
             /\ q # p => NoNewEnd(q, f) /\ (Hired(f, q)' => Hired(f, q))
             /\ Hired(f, p)' => f = e
             /\ ExprOf[f] # ExprOf[e] \/ f \notin alive => NoNewEnd(p, f)
             /\ Ends(p, f) = {} => Lone(toExecutors'[p][f], Finishes)
  <2>1. NoNewConfirm(f, q)
    BY <1>0, <1>1, TakeConfirms
  <2>2. (q # p => (Hired(f, q)' => Hired(f, q))) /\ (Hired(f, p)' => f = e)
    BY <1>0, <1>1 DEF Hired, TypeOK
  <2>3. q # p => toExecutors'[q][f] = toExecutors[q][f]
    BY <1>0, <1>1, SentByOthers
  <2>4. ExprOf[f] # ExprOf[e] \/ f \notin alive => toExecutors'[p][f] = toExecutors[p][f]
    <3>1. ExprOf[f] # ExprOf[e] \/ f \notin alive => f \notin Same(ExprOf[e])
      BY DEF Same
    <3> QED BY <1>0, <1>1, <3>1, SentByOthers
  <2>5. ASSUME Ends(p, f) = {} PROVE Lone(toExecutors'[p][f], Finishes)
    <3>1. toExecutors[p][f] \in Seq(Performing)
      BY <1>0 DEF TypeOK
    <3>2. toExecutors'[p][f] \in {toExecutors[p][f], Append(toExecutors[p][f], "FINISH_UNSTARTED")}
      BY <1>0, <1>1 DEF TypeOK, SentBy
    <3>3. "FINISH_UNSTARTED" \in Performing
      BY DEF Performing, Finishes
    <3>4. Lone(Append(toExecutors[p][f], "FINISH_UNSTARTED"), Finishes)
      BY <2>5, <3>1, <3>3, AppendHere DEF Ends
    <3>5. Lone(toExecutors[p][f], Finishes)
      BY <2>5 DEF Ends, Lone
    <3> QED BY <3>2, <3>4, <3>5
  <2> QED BY <2>1, <2>2, <2>3, <2>4, <2>5, SameEnds
<1>4. \/ Hired(e, p)' /\ \A f \in Executors : NoNewEnd(p, f)
      \/ ~Hired(e, p)' /\ (e \in alive => Ends(p, e)' # {})
  <2>1. CASE lifecycle' = [lifecycle EXCEPT ![p] = "active"] /\ toExecutors' = toExecutors
    BY <1>0, <1>1, <2>1, SameEnds DEF Hired, TypeOK
  <2>2. CASE /\ toExecutors' = SentBy(p, toExecutors, ExprOf[e], "FINISH_UNSTARTED")
             /\ lifecycle' = lifecycle
    <3>1. ~Hired(e, p)'
      BY <1>1, <2>2 DEF Ready, Hired
    <3>2. ASSUME e \in alive PROVE Ends(p, e)' # {}
      <4>1. e \in Same(ExprOf[e])
        BY <3>2 DEF Same
      <4>2. toExecutors'[p][e] = Append(toExecutors[p][e], "FINISH_UNSTARTED")
        BY <1>0, <2>2, <4>1, SentByHere
      <4>3. /\ toExecutors[p][e] \in Seq(Performing) /\ "FINISH_UNSTARTED" \in Performing
            /\ "FINISH_UNSTARTED" \in Finishes
        BY <1>0 DEF TypeOK, Performing, Finishes
      <4>4. Among(toExecutors'[p][e], Finishes) # {}
        BY <4>2, <4>3, AppendIsThere
      <4> QED BY <4>4 DEF Ends, Finishes
    <3> QED BY <3>1, <3>2
  <2> QED BY <1>1, <2>1, <2>2
<1> QED BY <1>1, <1>2, <1>3, <1>4

\* The work is over, and everyone that is made for the action hears of it.
LEMMA FinishStep ==
  ASSUME BasicInv, NEW p \in Performers, NEW type \in Finishes, Finish(p, type)
  PROVE  /\ employer[p] \in Executors /\ Hired(employer[p], p)
         /\ UNCHANGED <<alive, plans, performer, hubOpen, state, pending, crashes, toPerformers>>
         /\ \A f \in Executors : ~Hired(f, p)'
         /\ \A f \in Executors, q \in Performers :
              /\ NoNewConfirm(f, q)
              /\ q # p => NoNewEnd(q, f) /\ (Hired(f, q)' => Hired(f, q))
              /\ ExprOf[f] # ExprOf[employer[p]] \/ f \notin alive => NoNewEnd(p, f)
              /\ Ends(p, f) = {} => Lone(toExecutors'[p][f], Finishes)
         /\ employer[p] \in alive => Ends(p, employer[p])' # {}
<1>0. TypeOK /\ Employed(p)
  BY DEF BasicInv
<1>1. /\ lifecycle[p] = "active" /\ employer[p] \in Executors /\ arguments[p] = ExprOf[employer[p]]
      /\ lifecycle' = [lifecycle EXCEPT ![p] = "inactive"]
      /\ toExecutors' = SentBy(p, toExecutors, ExprOf[employer[p]], type)
      /\ UNCHANGED <<alive, plans, performer, hubOpen, state, pending, crashes, toPerformers, employer>>
  BY <1>0 DEF Finish, Employed, executorVars, threadVars
<1>2. type \in Performing /\ type \in Finishes
  BY DEF Performing
<1>3. ASSUME NEW f \in Executors, NEW q \in Performers
      PROVE  /\ NoNewConfirm(f, q)
             /\ q # p => NoNewEnd(q, f) /\ (Hired(f, q)' => Hired(f, q))
             /\ ExprOf[f] # ExprOf[employer[p]] \/ f \notin alive => NoNewEnd(p, f)
             /\ Ends(p, f) = {} => Lone(toExecutors'[p][f], Finishes)
  <2>1. NoNewConfirm(f, q)
    BY <1>1, SameConfirms
  <2>2. q # p => (Hired(f, q)' => Hired(f, q))
    BY <1>0, <1>1 DEF Hired, TypeOK
  <2>3. q # p => toExecutors'[q][f] = toExecutors[q][f]
    BY <1>0, <1>1, SentByOthers
  <2>4. ExprOf[f] # ExprOf[employer[p]] \/ f \notin alive => toExecutors'[p][f] = toExecutors[p][f]
    <3>1. ExprOf[f] # ExprOf[employer[p]] \/ f \notin alive => f \notin Same(ExprOf[employer[p]])
      BY DEF Same
    <3> QED BY <1>0, <1>1, <3>1, SentByOthers
  <2>5. ASSUME Ends(p, f) = {} PROVE Lone(toExecutors'[p][f], Finishes)
    <3>1. toExecutors[p][f] \in Seq(Performing)
      BY <1>0 DEF TypeOK
    <3>2. toExecutors'[p][f] \in {toExecutors[p][f], Append(toExecutors[p][f], type)}
      BY <1>0, <1>1 DEF TypeOK, SentBy
    <3>3. Lone(Append(toExecutors[p][f], type), Finishes)
      BY <2>5, <3>1, <1>2, AppendHere DEF Ends
    <3>4. Lone(toExecutors[p][f], Finishes)
      BY <2>5 DEF Ends, Lone
    <3> QED BY <3>2, <3>3, <3>4
  <2> QED BY <2>1, <2>2, <2>3, <2>4, <2>5, SameEnds
<1>4. ASSUME employer[p] \in alive PROVE Ends(p, employer[p])' # {}
  <2>1. employer[p] \in Same(ExprOf[employer[p]])
    BY <1>4 DEF Same
  <2>2. toExecutors'[p][employer[p]] = Append(toExecutors[p][employer[p]], type)
    <3>1. employer[p] \in Executors
      BY <1>1
    <3>2. SentBy(p, toExecutors, ExprOf[employer[p]], type)[p][employer[p]] =
            Append(toExecutors[p][employer[p]], type)
      BY <1>0, <2>1, <3>1 DEF SentBy, TypeOK
    <3> QED BY <1>1, <3>2
  <2>3. toExecutors[p][employer[p]] \in Seq(Performing)
    BY <1>0, <1>1 DEF TypeOK
  <2>4. Among(toExecutors'[p][employer[p]], Finishes) # {}
    BY <1>2, <2>2, <2>3, AppendIsThere
  <2> QED BY <1>1, <2>4 DEF Ends, Finishes
<1>5. \A f \in Executors : ~Hired(f, p)'
  BY <1>0, <1>1 DEF Hired, TypeOK
<1> QED BY <1>1, <1>3, <1>4, <1>5 DEF Hired

\* A new plan gives nobody work and ends nobody's, and finds nothing pending.
LEMMA PlanStep ==
  ASSUME BasicInv, NewMission \/ \E kept \in SUBSET Executors : Replan(kept)
  PROVE  /\ UNCHANGED <<performer, hubOpen, lifecycle, employer, pending, crashes>>
         /\ plans' = plans + 1 /\ plans' # plans
         /\ \A f \in Executors : /\ pending'[f] = "none"
                                 /\ state'[f] \in {state[f], "CANCELLED"}
         /\ \A f \in Executors, q \in Performers : NoNewConfirm(f, q) /\ NoNewEnd(q, f)
<1>0. TypeOK
  BY DEF BasicInv
<1>1. /\ UNCHANGED <<performer, hubOpen, lifecycle, employer, pending, crashes>>
      /\ Free /\ plans' = plans + 1
      /\ \A f \in Executors, q \in Performers : toExecutors'[q][f] \in {toExecutors[q][f], <<>>}
      /\ \A f \in Executors : state'[f] \in {state[f], "CANCELLED"}
  BY <1>0 DEF NewMission, Replan, NextPlan, BasicInv, threadVars, performerVars, TypeOK
<1>2. ASSUME NEW f \in Executors, NEW q \in Performers PROVE NoNewConfirm(f, q)
  <2>1. toPerformers'[f][q] \in {toPerformers[f][q], Append(toPerformers[f][q], "CANCEL")}
    <3>1. CASE toPerformers' = toPerformers
      BY <3>1
    <3>2. ASSUME NEW kept \in SUBSET Executors, Replan(kept)
          PROVE  toPerformers'[f] \in
                   {toPerformers[f], SentTo(f, hubOpen[f], {performer[f]}, "CANCEL")[f]}
      BY <3>2 DEF Replan
    <3> QED BY <1>0, <3>1, <3>2 DEF NewMission, SentTo, TypeOK
  <2>2. toPerformers[f][q] \in Seq(Requester) /\ "CANCEL" \in Requester /\ "CANCEL" \notin {"CONFIRM"}
    BY <1>0 DEF TypeOK, Requester
  <2>3. Among(Append(toPerformers[f][q], "CANCEL"), {"CONFIRM"}) = Among(toPerformers[f][q], {"CONFIRM"})
    BY <2>2, AppendElsewhere
  <2> QED BY <2>1, <2>3 DEF NoNewConfirm, Confirms, Lone
<1>3. plans' # plans
  BY <1>0, <1>1 DEF TypeOK
<1> QED BY <1>1, <1>2, <1>3, SameEnds DEF Free

-----------------------------------------------------------------------------
(* The work of an executor that exists: as long as its performer is about  *)
(* to work, or works, it has one CONFIRM at most and reports one end, and  *)
(* works for nobody else of that action.                                   *)

Twins(e) == {f \in Executors : ExprOf[f] = ExprOf[e]}

OneWork(e, p) ==
  /\ Lone(toExecutors[p][e], Finishes) /\ Lone(toPerformers[e][p], {"CONFIRM"})
  /\ Hired(e, p) => Confirms(e, p) = {}
  /\ \A f \in Twins(e) : Own(f, p) => f = e /\ Ends(p, e) = {} /\ hubOpen[e]
  /\ ~hubOpen[e] => Ends(p, e) = {}

AllWork == \A e \in alive, p \in Performers : performer[e] = p => OneWork(e, p)

\* Nothing is left of earlier work of p for the action of e.
Clean(e, p) == Ends(p, e) = {} /\ \A f \in Twins(e) : ~Own(f, p)

LEMMA SameWork ==
  ASSUME NEW e \in Executors, NEW p \in Performers, OneWork(e, p), NoNewEnd(p, e),
         \A f \in Twins(e) : NoNewConfirm(f, p) /\ (Hired(f, p)' => Hired(f, p)),
         hubOpen[e] => hubOpen'[e]
  PROVE  OneWork(e, p)'
<1>0. e \in Twins(e)
  BY DEF Twins
<1>1. \A f \in Twins(e) : Own(f, p)' => Own(f, p)
  BY DEF Own, NoNewConfirm
<1>2. \A f \in Twins(e) : Own(f, p)' => f = e /\ Ends(p, e)' = {} /\ hubOpen'[e]
  BY <1>1 DEF OneWork, NoNewEnd
<1>3. ~hubOpen'[e] => Ends(p, e)' = {}
  BY DEF OneWork, NoNewEnd
<1>4. /\ Lone(toExecutors'[p][e], Finishes) /\ Lone(toPerformers'[e][p], {"CONFIRM"})
      /\ Hired(e, p)' => Confirms(e, p)' = {}
  BY <1>0 DEF OneWork, NoNewEnd, NoNewConfirm
<1> QED BY <1>2, <1>3, <1>4 DEF OneWork, Finishes, Twins, Ends, Confirms

LEMMA WorkKept ==
  ASSUME BasicInv, BasicInv', DistinctAlive, [Next]_vars, AllWork,
         \A f \in Executors, q \in Performers : Chosen(q, f) => Clean(f, q)
  PROVE  AllWork'
<1> SUFFICES ASSUME NEW e \in Executors, e \in alive', NEW p \in Performers, performer'[e] = p
             PROVE  OneWork(e, p)'
  BY DEF AllWork, BasicInv, TypeOK
<1>0. TypeOK /\ Standing(e) /\ Standing(e)' /\ e \in Twins(e) /\ p # None
  BY HubAssumption DEF BasicInv, Twins
<1>1. CASE Quiet
  <2>1. OneWork(e, p)
    BY <1>1 DEF Quiet, AllWork
  <2> QED BY <1>1, <2>1, SameWork DEF Quiet, Twins
<1>2. ASSUME NEW g \in Executors, DecideRetry(g) \/ Retry(g) PROVE OneWork(e, p)'
  <2>1. performer'[e] = performer[e] /\ e \in alive
    BY <1>0, <1>2, RetryStep
  <2>2. OneWork(e, p)
    BY <2>1 DEF AllWork
  <2>3. \A f \in Executors : Hired(f, p)' => Hired(f, p)
    BY <1>2, RetryStep DEF Hired
  <2> QED BY <1>2, <2>2, <2>3, RetryStep, SameWork DEF Twins
<1>3. ASSUME NEW g \in Executors, NEW q \in Performers, Chosen(q, g) PROVE OneWork(e, p)'
  <2>0. UNCHANGED <<alive, hubOpen>> /\ g \in alive /\ performer' = [performer EXCEPT ![g] = q]
        /\ \A f \in Executors : Hired(f, p)' => Hired(f, p)
    BY <1>3, ChosenStep DEF Hired
  <2>1. CASE e # g
    <3>1. OneWork(e, p)
      BY <1>0, <2>0, <2>1 DEF AllWork, TypeOK
    <3>2. \A f \in Twins(e) : f # g
      BY <2>0, <2>1 DEF DistinctAlive, Twins
    <3>3. NoNewEnd(p, e) /\ \A f \in Twins(e) : NoNewConfirm(f, p)
      BY <1>3, <3>2, ChosenStep DEF Twins
    <3> QED BY <2>0, <3>1, <3>3, SameWork DEF Twins
  <2>2. CASE e = g
    <3>1. p = q /\ Ends(p, e) = {} /\ \A f \in Twins(e) : Confirms(f, p) = {} /\ ~Hired(f, p)
      BY <1>0, <1>3, <2>0, <2>2 DEF TypeOK, Clean, Own
    <3>2. Ends(p, e)' = {}
      BY <1>3, <2>2, <3>1, ChosenStep DEF NoNewEnd
    <3>3. Lone(toExecutors'[p][e], Finishes)
      BY <3>2 DEF Lone, Ends, Finishes
    <3>4. Lone(toPerformers'[e][p], {"CONFIRM"})
      BY <1>0, <1>3, <2>2, <3>1, ChosenStep
    <3>5. \A f \in Twins(e) : ~Hired(f, p)'
      BY <2>0, <3>1 DEF Twins
    <3>6. \A f \in Twins(e) : Own(f, p)' => f = e /\ hubOpen'[e]
      <4>1. \A f \in Twins(e) : f # e \/ ~hubOpen[e] => Confirms(f, p)' = {}
        BY <1>3, <2>2, <3>1, ChosenStep DEF NoNewConfirm, Twins
      <4> QED BY <2>0, <3>5, <4>1 DEF Own
    <3> QED BY <1>0, <3>2, <3>3, <3>4, <3>5, <3>6 DEF OneWork, Ends, Finishes, Twins
  <2> QED BY <2>1, <2>2
<1>4. ASSUME NEW g \in Executors, NEW q \in Performers, HandleFinish(q, g) \/ HandleUnstarted(q, g)
      PROVE  OneWork(e, p)'
  <2>0. alive' = alive /\ \A f \in Executors : Hired(f, p)' => Hired(f, p)
    BY <1>4, EndStep DEF Hired
  <2>1. CASE e # g
    <3>1. OneWork(e, p) /\ hubOpen'[e] = hubOpen[e]
      BY <1>4, <2>0, <2>1, EndStep DEF AllWork
    <3> QED BY <1>4, <2>0, <3>1, EndStep, SameWork DEF Twins
  <2>2. CASE e = g
    <3>1. HandleFinish(q, g) /\ p = q /\ performer[e] = p
      BY <1>0, <1>4, <2>2, EndStep
    <3>2. OneWork(e, p) /\ Ends(p, e) # {}
      BY <1>4, <2>0, <2>2, <3>1, EndStep DEF AllWork
    <3>3. \A f \in Twins(e) : ~Own(f, p)
      BY <3>2 DEF OneWork
    <3>4. \A f \in Twins(e) : ~Own(f, p)'
      BY <1>4, <2>0, <3>3, EndStep DEF Own, NoNewConfirm, Twins
    <3>5. Ends(p, e)' = {}
      BY <1>4, <2>2, <3>1, <3>2, EndStep DEF OneWork
    <3>6. Lone(toExecutors'[p][e], Finishes)
      BY <3>5 DEF Lone, Ends, Finishes
    <3>7. Lone(toPerformers'[e][p], {"CONFIRM"})
      BY <1>4, <3>2, EndStep DEF OneWork, NoNewConfirm
    <3> QED BY <1>0, <3>4, <3>5, <3>6, <3>7 DEF OneWork, Own, Ends, Finishes, Twins
  <2> QED BY <2>1, <2>2
<1>5. ASSUME NEW g \in Executors, NEW q \in Performers, HandleConfirm(g, q) PROVE OneWork(e, p)'
  <2>0. UNCHANGED <<alive, performer, hubOpen>> /\ OneWork(e, p)
    <3>1. UNCHANGED <<alive, performer, hubOpen>>
      BY <1>5, ConfirmStep
    <3> QED BY <3>1 DEF AllWork
  <2>1. CASE p # q
    BY <1>5, <2>0, <2>1, ConfirmStep, SameWork DEF Twins
  <2>2. CASE p = q /\ ExprOf[e] # ExprOf[g]
    <3>1. NoNewEnd(p, e)
      BY <1>5, <2>2, ConfirmStep
    <3>2. \A f \in Twins(e) : NoNewConfirm(f, p) /\ ~Hired(f, p)'
      BY <1>5, <2>2, ConfirmStep DEF Twins
    <3> QED BY <2>0, <3>1, <3>2, SameWork
  <2>3. CASE p = q /\ ExprOf[e] = ExprOf[g]
    <3>1. Own(g, p) /\ g \in Twins(e)
      BY <1>5, <2>3, ConfirmStep DEF Own, Twins
    <3>2. g = e /\ Ends(p, e) = {} /\ hubOpen[e]
      BY <2>0, <3>1 DEF OneWork
    <3>3. Confirms(e, p)' = {}
      BY <1>5, <2>0, <2>3, <3>2, ConfirmStep DEF OneWork
    <3>4. \A f \in Twins(e) : f # e => ~Own(f, p)'
      <4> SUFFICES ASSUME NEW f \in Twins(e), f # e PROVE ~Own(f, p)'
        OBVIOUS
      <4>1. ~Own(f, p) /\ f \in Executors
        BY <2>0 DEF OneWork, Twins
      <4>2. NoNewConfirm(f, p) /\ ~Hired(f, p)'
        BY <1>5, <2>3, <3>2, <4>1, ConfirmStep
      <4> QED BY <4>1, <4>2 DEF Own, NoNewConfirm
    <3>5. Lone(toExecutors'[p][e], Finishes)
      BY <1>5, <2>3, <3>2, ConfirmStep
    <3>6. Lone(toPerformers'[e][p], {"CONFIRM"})
      BY <3>3 DEF Confirms, Lone
    <3>7. Own(e, p)' => Ends(p, e)' = {}
      <4>1. CASE ~Hired(e, p)'
        BY <3>3, <4>1 DEF Own
      <4>2. CASE Hired(e, p)'
        <5>1. NoNewEnd(p, e)
          BY <1>5, <2>3, <3>2, <4>2, ConfirmStep
        <5> QED BY <3>2, <5>1 DEF NoNewEnd
      <4> QED BY <4>1, <4>2
    <3>8. hubOpen'[e]
      BY <2>0, <3>2
    <3> QED BY <3>3, <3>4, <3>5, <3>6, <3>7, <3>8 DEF OneWork, Ends, Finishes, Twins
  <2> QED BY <2>1, <2>2, <2>3
<1>6. ASSUME NEW q \in Performers, NEW type \in Finishes, Finish(q, type) PROVE OneWork(e, p)'
  <2>0. UNCHANGED <<alive, performer, hubOpen>> /\ OneWork(e, p)
    <3>1. UNCHANGED <<alive, performer, hubOpen>>
      BY <1>6, FinishStep
    <3> QED BY <3>1 DEF AllWork
  <2>1. CASE p # q
    BY <1>6, <2>0, <2>1, FinishStep, SameWork DEF Twins
  <2>2. CASE p = q /\ ExprOf[e] # ExprOf[employer[q]]
    <3>1. NoNewEnd(p, e)
      BY <1>6, <2>2, FinishStep
    <3>2. \A f \in Twins(e) : NoNewConfirm(f, p) /\ ~Hired(f, p)'
      BY <1>6, <2>2, FinishStep DEF Twins
    <3> QED BY <2>0, <3>1, <3>2, SameWork
  <2>3. CASE p = q /\ ExprOf[e] = ExprOf[employer[q]]
    <3>1. Hired(employer[q], p) /\ employer[q] \in Twins(e)
      BY <1>6, <2>3, FinishStep DEF Twins
    <3>2. employer[q] = e /\ Ends(p, e) = {} /\ hubOpen[e] /\ Confirms(e, p) = {}
      BY <2>0, <3>1 DEF OneWork, Own
    <3>3. \A f \in Twins(e) : ~Own(f, p)'
      <4> SUFFICES ASSUME NEW f \in Twins(e) PROVE ~Own(f, p)'
        OBVIOUS
      <4>1. Confirms(f, p) = {} /\ f \in Executors
        BY <2>0, <3>2 DEF OneWork, Own, Twins
      <4>2. NoNewConfirm(f, p) /\ ~Hired(f, p)'
        BY <1>6, <2>3, <4>1, FinishStep
      <4> QED BY <4>1, <4>2 DEF Own, NoNewConfirm
    <3>4. Lone(toExecutors'[p][e], Finishes)
      BY <1>6, <2>3, <3>2, FinishStep
    <3>5. Confirms(e, p)' = {}
      BY <1>0, <3>3 DEF Own
    <3>6. Lone(toPerformers'[e][p], {"CONFIRM"})
      BY <3>5 DEF Confirms, Lone
    <3>7. hubOpen'[e]
      BY <2>0, <3>2
    <3> QED BY <3>3, <3>4, <3>5, <3>6, <3>7 DEF OneWork, Ends, Finishes, Twins
  <2> QED BY <2>1, <2>2, <2>3
<1>7. ASSUME NEW kept \in SUBSET alive, NextPlan(kept), performer' = performer
      PROVE  e \in kept
  <2>1. CASE e \notin kept
    <3>1. ~Born(e)
      BY <1>7, <2>1, <1>0, HubAssumption DEF NextPlan, Born, TypeOK
    <3> QED BY <1>0, <1>7, <3>1 DEF Standing
  <2> QED BY <2>1
<1>8. CASE NewMission
  BY <1>7, <1>8 DEF NewMission
<1>9. ASSUME NEW kept \in SUBSET Executors, Replan(kept) PROVE OneWork(e, p)'
  <2>1. /\ kept \in SUBSET alive /\ NextPlan(kept)
        /\ UNCHANGED <<performer, hubOpen, lifecycle, employer>>
    BY <1>9 DEF Replan, performerVars
  <2>2. e \in alive /\ OneWork(e, p)
    BY <1>7, <2>1 DEF AllWork
  <2> QED BY <1>9, <2>1, <2>2, PlanStep, SameWork DEF Hired, Twins
<1> QED BY <1>1, <1>2, <1>3, <1>4, <1>5, <1>6, <1>8, <1>9, QuietOrNot

-----------------------------------------------------------------------------
(* As long as no performer crashes: a RESPONSE is the last its publisher   *)
(* says to an executor, until it is answered.                              *)

LEMMA CountersGrow ==
  ASSUME BasicInv, [Next]_vars
  PROVE  /\ crashes <= crashes' /\ plans <= plans'
         /\ crashes <= MaxCrashes => crashes' <= MaxCrashes
         /\ plans <= MaxPlans => plans' <= MaxPlans
         /\ mission' = "on" /\ plans' = plans => mission = "on"
         /\ alive' = alive \/ plans' = plans + 1
<1> USE HubAssumption
<1>0. TypeOK
  BY DEF BasicInv
<1>1. CASE UNCHANGED <<plans, crashes, mission, alive>>
  BY <1>0, <1>1 DEF TypeOK
<1>2. ASSUME NEW e \in Executors, Tick(e) \/ Ending(e) \/ WaitTimeout(e)
      PROVE  UNCHANGED <<plans, crashes, mission, alive>>
  BY <1>2 DEF Tick, Ending, StartDealing, DecideGiveUp, GiveUp, DecideRetry, Retry,
              CancelIfRunning, Cancel, WaitTimeout, executorVars, threadVars, counters
<1>3. ASSUME NEW e \in Executors, NEW p \in Performers,
             ExecutorCallback(p, e) \/ PerformerCallback(e, p)
      PROVE  UNCHANGED <<plans, crashes, mission, alive>>
  BY <1>3 DEF ExecutorCallback, HandleResponse, HandleFeedback, HandleFinish,
              HandleUnstarted, IgnoreFinish, PerformerCallback, HandleRequest, HandleConfirm,
              IgnoreConfirm, HandleReject, HandleCancel, executorVars, threadVars, counters
<1>4. ASSUME NEW p \in Performers, Work(p) \/ Configure(p)
      PROVE  UNCHANGED <<plans, crashes, mission, alive>>
  BY <1>4 DEF Work, SendFeedback, Finish, Configure, executorVars, threadVars, counters
<1>5. ASSUME NEW p \in Performers, Crash(p)
      PROVE  /\ UNCHANGED <<plans, mission, alive>>
             /\ crashes <= crashes' /\ (crashes <= MaxCrashes => crashes' <= MaxCrashes)
  BY <1>0, <1>5, CrashCounts DEF Crash, executorVars, threadVars
<1>6. CASE Plans
  <2>1. CASE EndMission \/ MissionOver
    BY <1>0, <2>1 DEF EndMission, MissionOver, executorVars, counters, TypeOK
  <2>2. ASSUME NEW kept \in SUBSET Executors, NextPlan(kept), UNCHANGED crashes
        PROVE  /\ crashes <= crashes' /\ plans <= plans'
               /\ crashes <= MaxCrashes => crashes' <= MaxCrashes
               /\ plans <= MaxPlans => plans' <= MaxPlans
               /\ plans' # plans /\ plans' = plans + 1
    BY <1>0, <2>2 DEF NextPlan, TypeOK
  <2>3. CASE NewMission
    BY <2>2, <2>3 DEF NewMission
  <2>4. CASE \E kept \in SUBSET Executors : Replan(kept)
    BY <2>2, <2>4 DEF Replan
  <2> QED BY <1>6, <2>1, <2>3, <2>4 DEF Plans
<1>7. CASE UNCHANGED vars
  BY <1>1, <1>7 DEF vars, executorVars, threadVars, counters
<1> QED BY <1>0, <1>1, <1>2, <1>3, <1>4, <1>5, <1>6, <1>7 DEF Next, TypeOK

LastOf(queue) == \A i \in Among(queue, {"RESPONSE"}) : i = Len(queue)

LEMMA TailStaysLast ==
  ASSUME NEW T, NEW queue \in Seq(T), queue # <<>>, LastOf(queue)
  PROVE  LastOf(Tail(queue))
<1>1. ASSUME NEW i \in Among(Tail(queue), {"RESPONSE"}) PROVE i = Len(Tail(queue))
  <2>1. i \in 1 .. Len(queue) - 1 /\ i + 1 \in Among(queue, {"RESPONSE"})
    BY <1>1 DEF Among
  <2> QED BY <2>1 DEF LastOf
<1> QED BY <1>1 DEF LastOf

LEMMA AppendIsLast ==
  ASSUME NEW T, NEW queue \in Seq(T), NEW msg \in T, Among(queue, {"RESPONSE"}) = {}
  PROVE  LastOf(Append(queue, msg))
<1>1. ASSUME NEW i \in Among(Append(queue, msg), {"RESPONSE"}), i # Len(queue) + 1 PROVE FALSE
  <2>1. i \in Among(queue, {"RESPONSE"})
    BY <1>1 DEF Among
  <2> QED BY <2>1
<1>2. Len(Append(queue, msg)) = Len(queue) + 1
  OBVIOUS
<1> QED BY <1>1, <1>2 DEF LastOf

ResponsesLast == \A e \in Executors, p \in Performers : LastOf(toExecutors[p][e])

\* A performer that says something else has no RESPONSE under way.
LEMMA ResponsesStayLast ==
  ASSUME IInv, crashes = 0, crashes' = 0, [Next]_vars, ResponsesLast
  PROVE  ResponsesLast'
<1> SUFFICES ASSUME NEW e \in Executors, NEW p \in Performers PROVE LastOf(toExecutors'[p][e])
  BY DEF ResponsesLast
<1>0. /\ TypeOK /\ TokenInv(p) /\ LastOf(toExecutors[p][e]) /\ LastOf(<<>>)
      /\ toExecutors[p][e] \in Seq(Performing)
  BY EmptyHasNone DEF IInv, TypeOK, ResponsesLast, LastOf
<1>1. CASE toExecutors'[p][e] \in {toExecutors[p][e], <<>>}
  BY <1>0, <1>1
<1>2. ASSUME NEW f \in Executors, NEW q \in Performers, NEW type, Receive(q, f, type)
      PROVE  LastOf(toExecutors'[p][e])
  BY <1>0, <1>2, ReceiveQueues, TailStaysLast
<1>3. ASSUME NEW q \in Performers, NEW x, NEW msg \in Performing,
             toExecutors' = SentBy(q, toExecutors, x, msg), p = q => Responses(e, p) = {}
      PROVE  LastOf(toExecutors'[p][e])
  <2>1. CASE p # q
    BY <1>0, <1>3, <2>1, SentByOthers
  <2>2. CASE p = q
    <3>1. toExecutors'[p][e] \in {toExecutors[p][e], Append(toExecutors[p][e], msg)}
      BY <1>0, <1>3, <2>2 DEF SentBy, TypeOK
    <3> QED BY <1>0, <1>3, <2>2, <3>1, AppendIsLast DEF Responses
  <2> QED BY <2>1, <2>2
<1>4. ASSUME NEW f \in Executors, Tick(f) \/ Ending(f) \/ WaitTimeout(f)
      PROVE  toExecutors' = toExecutors
  BY <1>4 DEF Tick, Ending, StartDealing, DecideGiveUp, GiveUp, DecideRetry, Retry,
              CancelIfRunning, Cancel, WaitTimeout
<1>5. ASSUME NEW f \in Executors, NEW q \in Performers, ExecutorCallback(q, f)
      PROVE  \E type : Receive(q, f, type)
  BY <1>5 DEF ExecutorCallback, HandleResponse, HandleFeedback, HandleFinish, HandleUnstarted,
              IgnoreFinish, FinishesIn
<1>6. ASSUME NEW f \in Executors, NEW q \in Performers, PerformerCallback(f, q)
      PROVE  LastOf(toExecutors'[p][e])
  <2>0. "RESPONSE" \in Performing /\ "FINISH_UNSTARTED" \in Performing
    BY DEF Performing, Finishes
  <2>1. CASE toExecutors' = toExecutors
    BY <1>1, <2>1
  <2>2. CASE HandleRequest(f, q) /\ toExecutors' # toExecutors
    <3>1. ~committed[q] /\ toExecutors' = SentBy(q, toExecutors, ExprOf[f], "RESPONSE")
      BY <2>2 DEF HandleRequest
    <3>2. p = q => Responses(e, p) = {}
      BY <1>0, <3>1 DEF TokenInv, NoToken, Ready
    <3> QED BY <1>3, <2>0, <3>1, <3>2
  <2>3. CASE HandleConfirm(f, q) /\ toExecutors' # toExecutors
    <3>1. Take(f, q, "CONFIRM") /\ toExecutors' = SentBy(q, toExecutors, ExprOf[f], "FINISH_UNSTARTED")
      BY <2>3 DEF HandleConfirm
    <3>2. AnswersTo(f, q) # {}
      BY <1>0, <3>1, TakeQueues, HeadIsThere DEF AnswersTo, Answers
    <3>3. p = q => Responses(e, p) = {}
      BY <1>0, <3>2 DEF TokenInv, OneToken
    <3> QED BY <1>3, <2>0, <3>1, <3>3
  <2> QED BY <1>6, <2>1, <2>2, <2>3 DEF PerformerCallback, IgnoreConfirm, HandleReject, HandleCancel
<1>7. ASSUME NEW q \in Performers, Work(q) PROVE LastOf(toExecutors'[p][e])
  <2>1. PICK type \in Feedbacks \union Finishes :
          toExecutors' = SentBy(q, toExecutors, arguments[q], type) /\ lifecycle[q] = "active"
    BY <1>7 DEF Work, SendFeedback, Finish
  <2>2. type \in Performing
    BY DEF Performing
  <2>3. p = q => Responses(e, p) = {}
    BY <1>0, <2>1 DEF TokenInv, NoToken, Ready
  <2> QED BY <1>3, <2>1, <2>2, <2>3
<1>8. ASSUME NEW q \in Performers, Crash(q) PROVE FALSE
  BY <1>0, <1>8, CrashCounts
<1>9. ASSUME NEW q \in Performers, Configure(q) PROVE toExecutors' = toExecutors
  BY <1>9 DEF Configure
<1>10. CASE Plans
  <2>1. toExecutors'[p][e] \in {toExecutors[p][e], <<>>}
    BY <1>0, <1>10 DEF Plans, EndMission, MissionOver, NewMission, Replan, NextPlan, TypeOK
  <2> QED BY <1>1, <2>1
<1>11. CASE UNCHANGED vars
  BY <1>1, <1>11 DEF vars
<1> QED BY <1>1, <1>2, <1>4, <1>5, <1>6, <1>7, <1>8, <1>9, <1>10, <1>11 DEF Next

\* A performer that has offered itself has no earlier work left.
LEMMA OfferIsClean ==
  ASSUME BasicInv, IInv, crashes = 0, ResponsesLast,
         NEW e \in Executors, NEW p \in Performers, Chosen(p, e)
  PROVE  Clean(e, p)
<1>0. TypeOK /\ TokenInv(p) /\ toExecutors[p][e] \in Seq(Performing) /\ LastOf(toExecutors[p][e])
  BY DEF IInv, TypeOK, ResponsesLast
<1>1. Responses(e, p) # {} /\ Receive(p, e, "RESPONSE")
  BY ChosenStep
<1>2. ASSUME NEW f \in Twins(e) PROVE ~Own(f, p)
  <2>1. AnswersTo(f, p) = {} /\ Ready(p)
    BY <1>0, <1>1 DEF TokenInv, OneToken, NoToken, Twins
  <2>2. Confirms(f, p) = {}
    BY <2>1 DEF AnswersTo, Confirms, Among, Answers
  <2> QED BY <2>1, <2>2 DEF Own, Hired, Ready
<1>3. Ends(p, e) = {}
  <2>1. Head(toExecutors[p][e]) = "RESPONSE" /\ toExecutors[p][e] # <<>>
    BY <1>1 DEF Receive
  <2>2. 1 \in Among(toExecutors[p][e], {"RESPONSE"})
    BY <1>0, <2>1 DEF Among
  <2>3. toExecutors[p][e][1] = "RESPONSE"
    BY <1>0, <2>1
  <2>4. Len(toExecutors[p][e]) = 1
    BY <1>0, <2>2 DEF LastOf
  <2>5. "RESPONSE" \notin Finishes
    BY DEF Finishes
  <2> QED BY <1>0, <2>3, <2>4, <2>5 DEF Ends, Among
<1> QED BY <1>2, <1>3 DEF Clean

FinalInv ==
  /\ BasicInv /\ IInv
  /\ crashes = 0 => ResponsesLast /\ AllWork

LEMMA FinalAtFirst == ASSUME DistinctActions, Init PROVE FinalInv
<1>1. BasicInv /\ IInv
  BY BasicAtFirst, IInvAtFirst
<1>2. \A e \in Executors, p \in Performers : toExecutors[p][e] = <<>> /\ performer[e] # p
  BY HubAssumption DEF Init
<1>3. ResponsesLast
  BY <1>2, EmptyHasNone DEF ResponsesLast, LastOf
<1>4. AllWork
  BY <1>1, <1>2 DEF AllWork, BasicInv, TypeOK
<1> QED BY <1>1, <1>3, <1>4 DEF FinalInv

LEMMA FinalKept == ASSUME DistinctActions, FinalInv, [Next]_vars PROVE FinalInv'
<1>1. BasicInv' /\ IInv'
  BY BasicKept, IInvKept DEF FinalInv
<1>2. ASSUME crashes' = 0 PROVE ResponsesLast' /\ AllWork'
  <2>1. crashes = 0
    BY <1>2, CountersGrow DEF FinalInv, BasicInv, TypeOK
  <2>2. BasicInv /\ IInv /\ DistinctAlive /\ ResponsesLast /\ AllWork
    BY <2>1 DEF FinalInv, IInv
  <2>3. ResponsesLast'
    BY <1>2, <2>1, <2>2, ResponsesStayLast
  <2>4. \A f \in Executors, q \in Performers : Chosen(q, f) => Clean(f, q)
    BY <2>1, <2>2, OfferIsClean
  <2> QED BY <1>1, <2>2, <2>3, <2>4, WorkKept
<1> QED BY <1>1, <1>2 DEF FinalInv

\* An executor that has succeeded hears of no other end: its performer, the one
\* whose FINISH it took, has none under way.
LEMMA SuccessStays ==
  ASSUME FinalInv, [Next]_vars, NEW e \in Executors,
         state[e] = "SUCCESS", pending[e] = "none", crashes = 0
  PROVE  state'[e] = "SUCCESS"
<1>0. TypeOK /\ Standing(e) /\ AllWork
  BY DEF FinalInv, BasicInv
<1>1. ASSUME NEW f \in Executors, Tick(f) \/ Ending(f) \/ WaitTimeout(f)
      PROVE  state'[e] = "SUCCESS"
  BY <1>0, <1>1 DEF Tick, Ending, StartDealing, DecideGiveUp, GiveUp, DecideRetry, Retry,
                    CancelIfRunning, Cancel, WaitTimeout, executorVars, TypeOK
<1>2. ASSUME NEW f \in Executors, NEW p \in Performers, ExecutorCallback(p, f)
      PROVE  state'[e] = "SUCCESS"
  <2>1. CASE f # e
    BY <1>0, <1>2, <2>1 DEF ExecutorCallback, HandleResponse, HandleFeedback, HandleFinish,
           HandleUnstarted, IgnoreFinish, FinishesIn, executorVars, TypeOK
  <2>2. CASE f = e /\ (HandleFinish(p, f) \/ HandleUnstarted(p, f))
    <3>1. e \in alive /\ performer[e] = p /\ Ends(p, e) # {}
      BY <2>2, EndStep DEF FinalInv
    <3>2. ~hubOpen[e]
      BY <1>0 DEF Standing
    <3> QED BY <1>0, <3>1, <3>2 DEF AllWork, OneWork
  <2>3. CASE f = e /\ ~HandleFinish(p, f) /\ ~HandleUnstarted(p, f)
    BY <1>2, <2>3 DEF ExecutorCallback, HandleResponse, HandleFeedback, IgnoreFinish, executorVars
  <2> QED BY <2>1, <2>2, <2>3
<1>3. ASSUME NEW p \in Performers,
             \/ \E f \in Executors : PerformerCallback(f, p)
             \/ Work(p) \/ Crash(p) \/ Configure(p)
      PROVE  UNCHANGED state
  BY <1>3 DEF PerformerCallback, HandleRequest, HandleConfirm, IgnoreConfirm, HandleReject,
              HandleCancel, Work, SendFeedback, Finish, Crash, Configure, executorVars
<1>4. CASE Plans
  BY <1>0, <1>4 DEF Plans, EndMission, MissionOver, NewMission, Replan, executorVars
<1>5. CASE UNCHANGED vars
  BY <1>5 DEF vars, executorVars
<1> QED BY <1>1, <1>2, <1>3, <1>4, <1>5 DEF Next

\* Whatever the executors, performers and plans, and however slow the performers:
\* until one crashes, nothing but a decision of the execution thread that was
\* already taken changes an executor that has succeeded.
THEOREM SuccessIsNotUndone ==
  ASSUME DistinctActions PROVE Spec => SuccessIsFinal
<1>1. Init => FinalInv
  BY FinalAtFirst
<1>2. FinalInv /\ [Next]_vars => FinalInv'
  BY FinalKept
<1>3. FinalInv /\ [Next]_vars =>
        [\A e \in Executors :
           state[e] = "SUCCESS" /\ state'[e] # "SUCCESS" =>
             pending[e] # "none" \/ crashes > 0]_vars
  <2> SUFFICES ASSUME FinalInv, [Next]_vars, NEW e \in Executors,
                      state[e] = "SUCCESS", state'[e] # "SUCCESS", pending[e] = "none"
               PROVE  crashes > 0
    OBVIOUS
  <2>1. crashes # 0
    BY SuccessStays
  <2> QED BY <2>1 DEF FinalInv, BasicInv, TypeOK
<1> QED BY <1>1, <1>2, <1>3, PTL DEF Spec, SuccessIsFinal

-----------------------------------------------------------------------------
(* If a performer that works says so within the 5 s: an executor gives up  *)
(* only performers that have nothing to do with it, so that whoever works  *)
(* for it is its performer.                                                *)

OwnPerformer ==
  \A e \in Executors, p \in Performers :
    Own(e, p) => performer[e] = p /\ state[e] # "SUCCESS"

RetryIsFree ==
  \A e \in Executors :
    pending[e] = "retry" =>
      /\ state[e] = "RUNNING"
      /\ \A p \in Performers : performer[e] = p => Clean(e, p)

\* Until there is a second plan every end that is under way is awaited.
EndsAwaited ==
  \A e \in Executors, p \in Performers :
    /\ Ends(p, e) # {} => performer[e] = p
    /\ Own(e, p) => e \in alive

HireInv ==
  /\ FinalInv
  /\ crashes = 0 \/ plans = 0 => AllWork /\ OwnPerformer /\ RetryIsFree
  /\ plans = 0 => EndsAwaited

LEMMA SelfTwin == \A e \in Executors : e \in Twins(e)
  BY DEF Twins

\* Work is only given by a CONFIRM that an executor sends to its performer.
LEMMA OwnBefore ==
  ASSUME BasicInv, [Next]_vars, NEW e \in Executors, NEW p \in Performers, Own(e, p)', ~Own(e, p)
  PROVE  Chosen(p, e)
<1>1. ASSUME NoNewConfirm(e, p), Hired(e, p)' => Own(e, p) PROVE FALSE
  BY <1>1 DEF Own, NoNewConfirm
<1>2. CASE Quiet
  BY <1>1, <1>2 DEF Quiet, Own
<1>3. ASSUME NEW g \in Executors, DecideRetry(g) \/ Retry(g) PROVE FALSE
  BY <1>1, <1>3, RetryStep DEF Hired, Own
<1>4. ASSUME NEW g \in Executors, NEW q \in Performers, Chosen(q, g), g # e \/ q # p PROVE FALSE
  BY <1>1, <1>4, ChosenStep DEF Hired, Own
<1>5. ASSUME NEW g \in Executors, NEW q \in Performers, HandleFinish(q, g) \/ HandleUnstarted(q, g)
      PROVE  FALSE
  BY <1>1, <1>5, EndStep DEF Hired, Own
<1>6. ASSUME NEW g \in Executors, NEW q \in Performers, HandleConfirm(g, q) PROVE FALSE
  BY <1>1, <1>6, ConfirmStep DEF Own
<1>7. ASSUME NEW q \in Performers, NEW type \in Finishes, Finish(q, type) PROVE FALSE
  BY <1>1, <1>7, FinishStep DEF Own
<1>8. ASSUME NewMission \/ \E kept \in SUBSET Executors : Replan(kept) PROVE FALSE
  BY <1>1, <1>8, PlanStep DEF Own, Hired
<1> QED BY <1>2, <1>3, <1>4, <1>5, <1>6, <1>7, <1>8, QuietOrNot

LEMMA OwnPerformerKept ==
  ASSUME BasicInv, [Next]_vars, AllWork, OwnPerformer, RetryIsFree
  PROVE  OwnPerformer'
<1> SUFFICES ASSUME NEW e \in Executors, NEW p \in Performers, Own(e, p)'
             PROVE  performer'[e] = p /\ state'[e] # "SUCCESS"
  BY DEF OwnPerformer
<1>0. TypeOK /\ p # None /\ e \in Twins(e)
  BY HubAssumption DEF BasicInv, Twins
<1>1. CASE ~Own(e, p)
  <2>1. Chosen(p, e)
    BY <1>1, OwnBefore
  <2> QED BY <1>0, <2>1, ChosenStep DEF TypeOK
<1>2. CASE Own(e, p)
  <2>0. performer[e] = p /\ state[e] # "SUCCESS"
    BY <1>2 DEF OwnPerformer
  <2>1. CASE Quiet
    BY <2>0, <2>1 DEF Quiet
  <2>2. ASSUME NEW g \in Executors, DecideRetry(g) \/ Retry(g)
        PROVE  performer'[e] = p /\ state'[e] # "SUCCESS"
    <3>1. Retry(g) => e # g
      BY <1>0, <1>2, <2>0, <2>2, RetryStep DEF RetryIsFree, Clean
    <3> QED BY <2>0, <2>2, <3>1, RetryStep
  <2>3. ASSUME NEW g \in Executors, NEW q \in Performers, Chosen(q, g)
        PROVE  performer'[e] = p /\ state'[e] # "SUCCESS"
    BY <1>0, <2>0, <2>3, ChosenStep DEF TypeOK
  <2>4. ASSUME NEW g \in Executors, NEW q \in Performers, HandleFinish(q, g) \/ HandleUnstarted(q, g)
        PROVE  performer'[e] = p /\ state'[e] # "SUCCESS"
    <3>1. e # g
      BY <1>0, <1>2, <2>0, <2>4, EndStep DEF AllWork, OneWork
    <3> QED BY <2>0, <2>4, <3>1, EndStep
  <2>5. ASSUME NEW g \in Executors, NEW q \in Performers, HandleConfirm(g, q)
        PROVE  performer'[e] = p /\ state'[e] # "SUCCESS"
    BY <2>0, <2>5, ConfirmStep
  <2>6. ASSUME NEW q \in Performers, NEW type \in Finishes, Finish(q, type)
        PROVE  performer'[e] = p /\ state'[e] # "SUCCESS"
    BY <2>0, <2>6, FinishStep
  <2>7. ASSUME NewMission \/ \E kept \in SUBSET Executors : Replan(kept)
        PROVE  performer'[e] = p /\ state'[e] # "SUCCESS"
    BY <2>0, <2>7, PlanStep
  <2> QED BY <2>1, <2>2, <2>3, <2>4, <2>5, <2>6, <2>7, QuietOrNot
<1> QED BY <1>1, <1>2

\* Nothing new comes of a performer that has nothing to do with the action.
LEMMA CleanStays ==
  ASSUME NEW e \in Executors, NEW p \in Performers, Clean(e, p), NoNewEnd(p, e),
         \A f \in Twins(e) : NoNewConfirm(f, p) /\ (Hired(f, p)' => Hired(f, p))
  PROVE  Clean(e, p)'
<1>1. Ends(p, e)' = {} /\ \A f \in Twins(e) : ~Own(f, p)'
  BY DEF Clean, Own, NoNewEnd, NoNewConfirm
<1> QED BY <1>1 DEF Clean, Ends, Own, Twins, Finishes

LEMMA RetryIsFreeKept ==
  ASSUME BasicInv, DistinctAlive, [Next]_vars, ~SlowPerformers, AllWork, OwnPerformer, RetryIsFree
  PROVE  RetryIsFree'
<1> SUFFICES ASSUME NEW e \in Executors, pending'[e] = "retry"
             PROVE  /\ state'[e] = "RUNNING"
                    /\ \A p \in Performers : performer'[e] = p => Clean(e, p)'
  BY DEF RetryIsFree
<1>0. TypeOK /\ Standing(e) /\ e \in Twins(e)
  BY DEF BasicInv, Twins
<1>1. CASE Quiet
  <2>1. /\ state'[e] = "RUNNING" /\ performer' = performer
        /\ \A p \in Performers : performer[e] = p => Clean(e, p)
    BY <1>1 DEF Quiet, RetryIsFree
  <2> QED BY <1>1, <2>1, CleanStays DEF Quiet, Twins
<1>2. ASSUME NEW g \in Executors, DecideRetry(g) \/ Retry(g)
      PROVE  state'[e] = "RUNNING" /\ \A p \in Performers : performer'[e] = p => Clean(e, p)'
  <2>0. \A f \in Executors, p \in Performers : Hired(f, p)' => Hired(f, p)
    BY <1>2, RetryStep DEF Hired
  <2>1. CASE e # g
    <3>1. /\ state[e] = "RUNNING" /\ performer'[e] = performer[e] /\ state'[e] = state[e]
          /\ \A p \in Performers : performer[e] = p => Clean(e, p)
      BY <1>2, <2>1, RetryStep DEF RetryIsFree
    <3> QED BY <1>2, <2>0, <3>1, CleanStays, RetryStep DEF Twins
  <2>2. CASE e = g
    <3>1. /\ DecideRetry(e) /\ UNCHANGED <<performer, state>> /\ state[e] = "RUNNING"
          /\ e \in alive /\ ~Engaged(e, performer[e])
      BY <1>2, <2>2, RetryStep
    <3>2. ASSUME NEW p \in Performers, performer[e] = p PROVE Clean(e, p)
      <4>1. Ends(p, e) = {} /\ ~Own(e, p)
        BY <3>1, <3>2 DEF Engaged, Own, Confirms, Hired, Ends, Among
      <4>2. OneWork(e, p)
        BY <3>1, <3>2 DEF AllWork
      <4> QED BY <4>1, <4>2 DEF Clean, OneWork
    <3> QED BY <1>2, <2>0, <3>1, <3>2, CleanStays, RetryStep DEF Twins
  <2> QED BY <2>1, <2>2
<1>3. ASSUME pending[e] = "retry"
      PROVE  /\ state[e] = "RUNNING" /\ e \in alive
             /\ \A p \in Performers : performer[e] = p => Clean(e, p)
  BY <1>0, <1>3 DEF RetryIsFree, Standing
<1>4. ASSUME NEW g \in Executors, NEW q \in Performers, Chosen(q, g)
      PROVE  state'[e] = "RUNNING" /\ \A p \in Performers : performer'[e] = p => Clean(e, p)'
  <2>1. e # g /\ e \in alive /\ g \in alive
    BY <1>3, <1>4, ChosenStep
  <2>2. \A f \in Twins(e) : f # g
    BY <2>1 DEF Twins, DistinctAlive
  <2>3. state'[e] = state[e] /\ performer'[e] = performer[e]
    BY <1>0, <1>4, <2>1, ChosenStep DEF TypeOK
  <2>4. \A p \in Performers, f \in Twins(e) :
          NoNewEnd(p, e) /\ NoNewConfirm(f, p) /\ (Hired(f, p)' => Hired(f, p))
    BY <1>4, <2>2, ChosenStep DEF Hired, Twins
  <2> QED BY <1>0, <1>3, <1>4, <2>3, <2>4, ChosenStep, CleanStays
<1>5. ASSUME NEW g \in Executors, NEW q \in Performers, HandleFinish(q, g) \/ HandleUnstarted(q, g)
      PROVE  state'[e] = "RUNNING" /\ \A p \in Performers : performer'[e] = p => Clean(e, p)'
  <2>1. pending[e] = "retry" /\ e # g
    BY <1>3, <1>5, EndStep DEF Clean
  <2>2. state'[e] = state[e] /\ performer'[e] = performer[e]
    BY <1>5, <2>1, EndStep
  <2>3. \A p \in Performers, f \in Twins(e) :
          NoNewEnd(p, e) /\ NoNewConfirm(f, p) /\ (Hired(f, p)' => Hired(f, p))
    BY <1>5, EndStep DEF Hired, Twins
  <2> QED BY <1>0, <1>3, <2>1, <2>2, <2>3, CleanStays
<1>6. ASSUME NEW g \in Executors, NEW q \in Performers, HandleConfirm(g, q)
      PROVE  state'[e] = "RUNNING" /\ \A p \in Performers : performer'[e] = p => Clean(e, p)'
  <2>1. UNCHANGED <<pending, state, performer>>
    BY <1>6, ConfirmStep
  <2>2. ASSUME NEW p \in Performers, performer[e] = p PROVE Clean(e, p)'
    <3>0. Clean(e, p)
      BY <1>3, <2>1, <2>2
    <3>1. CASE p # q
      BY <1>6, <3>0, <3>1, ConfirmStep, CleanStays DEF Twins
    <3>2. CASE p = q
      <4>1. Own(g, p)
        BY <1>6, <3>2, ConfirmStep DEF Own
      <4>2. g \notin Twins(e) /\ ExprOf[g] # ExprOf[e]
        BY <3>0, <4>1 DEF Clean, Twins
      <4>3. NoNewEnd(p, e)
        BY <1>6, <3>2, <4>2, ConfirmStep
      <4>4. \A f \in Twins(e) : NoNewConfirm(f, p) /\ ~Hired(f, p)'
        BY <1>6, <3>2, <4>2, ConfirmStep DEF Twins
      <4> QED BY <3>0, <4>3, <4>4, CleanStays
    <3> QED BY <3>1, <3>2
  <2> QED BY <1>3, <2>1, <2>2
<1>7. ASSUME NEW q \in Performers, NEW type \in Finishes, Finish(q, type)
      PROVE  state'[e] = "RUNNING" /\ \A p \in Performers : performer'[e] = p => Clean(e, p)'
  <2>1. UNCHANGED <<pending, state, performer>>
    BY <1>7, FinishStep
  <2>2. ASSUME NEW p \in Performers, performer[e] = p PROVE Clean(e, p)'
    <3>0. Clean(e, p)
      BY <1>3, <2>1, <2>2
    <3>1. CASE p # q
      BY <1>7, <3>0, <3>1, FinishStep, CleanStays DEF Twins
    <3>2. CASE p = q
      <4>1. Own(employer[q], p) /\ employer[q] \in Executors
        BY <1>7, <3>2, FinishStep DEF Own
      <4>2. ExprOf[employer[q]] # ExprOf[e]
        BY <3>0, <4>1 DEF Clean, Twins
      <4>3. NoNewEnd(p, e)
        BY <1>7, <3>2, <4>2, FinishStep
      <4>4. \A f \in Twins(e) : NoNewConfirm(f, p) /\ ~Hired(f, p)'
        BY <1>7, <3>2, FinishStep DEF Twins
      <4> QED BY <3>0, <4>3, <4>4, CleanStays
    <3> QED BY <3>1, <3>2
  <2> QED BY <1>3, <2>1, <2>2
<1>8. ASSUME NewMission \/ \E kept \in SUBSET Executors : Replan(kept) PROVE FALSE
  BY <1>8, PlanStep
<1> QED BY <1>1, <1>2, <1>4, <1>5, <1>6, <1>7, <1>8, QuietOrNot

LEMMA EndsAwaitedKept ==
  ASSUME BasicInv, DistinctAlive, [Next]_vars, alive' = alive, plans' = plans, AllWork,
         OwnPerformer, RetryIsFree, EndsAwaited
  PROVE  EndsAwaited'
<1> SUFFICES ASSUME NEW e \in Executors, NEW p \in Performers
             PROVE  /\ Ends(p, e)' # {} => performer'[e] = p
                    /\ Own(e, p)' => e \in alive'
  BY DEF EndsAwaited, Ends, Finishes
<1>0. TypeOK /\ p # None /\ e \in Twins(e) /\ (Ends(p, e) # {} => performer[e] = p)
  BY HubAssumption DEF BasicInv, Twins, EndsAwaited
<1>1. Own(e, p)' => e \in alive'
  BY OwnBefore, ChosenStep DEF EndsAwaited
<1>2. CASE NoNewEnd(p, e) /\ performer'[e] = performer[e]
  BY <1>0, <1>1, <1>2 DEF NoNewEnd
<1>3. CASE Quiet
  BY <1>2, <1>3 DEF Quiet
<1>4. ASSUME NEW g \in Executors, DecideRetry(g) \/ Retry(g), Ends(p, e)' # {}
      PROVE  performer'[e] = p
  <2>1. performer[e] = p /\ Ends(p, e) # {}
    BY <1>0, <1>4, RetryStep DEF NoNewEnd
  <2>2. Retry(g) => e # g
    BY <1>4, <2>1, RetryStep DEF RetryIsFree, Clean
  <2> QED BY <1>4, <2>1, <2>2, RetryStep
<1>5. ASSUME NEW g \in Executors, NEW q \in Performers, Chosen(q, g), Ends(p, e)' # {}
      PROVE  performer'[e] = p
  <2>1. performer[e] = p
    BY <1>0, <1>5, ChosenStep DEF NoNewEnd
  <2>2. e # g /\ performer' = [performer EXCEPT ![g] = q]
    BY <1>0, <1>5, <2>1, ChosenStep
  <2> QED BY <1>0, <2>1, <2>2 DEF TypeOK
<1>6. ASSUME NEW g \in Executors, NEW q \in Performers, HandleFinish(q, g) \/ HandleUnstarted(q, g),
             Ends(p, e)' # {}
      PROVE  performer'[e] = p
  <2>1. performer[e] = p
    BY <1>0, <1>6, EndStep DEF NoNewEnd
  <2>2. HandleUnstarted(q, g) => e # g
    BY <1>6, <2>1, EndStep DEF AllWork, OneWork
  <2> QED BY <1>6, <2>1, <2>2, EndStep
<1>7. ASSUME NEW g \in Executors, NEW q \in Performers, HandleConfirm(g, q), Ends(p, e)' # {}
      PROVE  performer'[e] = p
  <2>1. performer[g] = q /\ g \in alive /\ performer' = performer
    BY <1>7, ConfirmStep DEF Own, OwnPerformer, EndsAwaited
  <2>2. CASE p = q /\ e \in alive /\ ExprOf[e] = ExprOf[g]
    BY <2>1, <2>2 DEF DistinctAlive
  <2>3. CASE p # q \/ ExprOf[e] # ExprOf[g] \/ e \notin alive
    BY <1>0, <1>7, <2>1, <2>3, ConfirmStep DEF NoNewEnd
  <2> QED BY <2>2, <2>3
<1>8. ASSUME NEW q \in Performers, NEW type \in Finishes, Finish(q, type), Ends(p, e)' # {}
      PROVE  performer'[e] = p
  <2>1. /\ employer[q] \in Executors /\ performer[employer[q]] = q /\ employer[q] \in alive
        /\ performer' = performer
    BY <1>8, FinishStep DEF Own, OwnPerformer, EndsAwaited
  <2>2. CASE p = q /\ e \in alive /\ ExprOf[e] = ExprOf[employer[q]]
    BY <2>1, <2>2 DEF DistinctAlive
  <2>3. CASE p # q \/ ExprOf[e] # ExprOf[employer[q]] \/ e \notin alive
    BY <1>0, <1>8, <2>1, <2>3, FinishStep DEF NoNewEnd
  <2> QED BY <2>2, <2>3
<1>9. ASSUME NewMission \/ \E kept \in SUBSET Executors : Replan(kept) PROVE FALSE
  BY <1>9, PlanStep
<1> QED BY <1>1, <1>3, <1>4, <1>5, <1>6, <1>7, <1>8, <1>9, QuietOrNot

\* A performer that is chosen has nothing left to do for that action.
LEMMA ChosenIsClean ==
  ASSUME BasicInv, DistinctAlive, OwnPerformer, EndsAwaited,
         NEW e \in Executors, NEW p \in Performers, Chosen(p, e)
  PROVE  Clean(e, p)
<1>1. performer[e] # p /\ e \in alive
  BY ChosenStep, HubAssumption
<1>2. \A f \in Twins(e) : Own(f, p) => f = e
  BY <1>1 DEF EndsAwaited, DistinctAlive, Twins
<1> QED BY <1>1, <1>2 DEF Clean, OwnPerformer, EndsAwaited, Twins

LEMMA HireAtFirst == ASSUME DistinctActions, Init PROVE HireInv
<1>1. FinalInv /\ AllWork
  BY FinalAtFirst DEF FinalInv, Init
<1>2. \A e \in Executors, p \in Performers :
        ~Own(e, p) /\ Ends(p, e) = {} /\ pending[e] = "none"
  BY EmptyHasNone DEF Init, Own, Confirms, Hired, Ends
<1> QED BY <1>1, <1>2 DEF HireInv, OwnPerformer, RetryIsFree, EndsAwaited, Init

LEMMA HireKept ==
  ASSUME DistinctActions, ~SlowPerformers, HireInv, [Next]_vars PROVE HireInv'
<1>0. BasicInv /\ IInv /\ DistinctAlive /\ FinalInv /\ TypeOK
  BY DEF HireInv, FinalInv, IInv
<1>1. FinalInv' /\ BasicInv'
  BY <1>0, FinalKept DEF FinalInv
<1>2. /\ crashes' = 0 => crashes = 0
      /\ plans' = 0 => plans = 0 /\ plans' = plans /\ alive' = alive
  BY <1>0, CountersGrow DEF TypeOK
<1>3. ASSUME crashes' = 0 \/ plans' = 0 PROVE AllWork' /\ OwnPerformer' /\ RetryIsFree'
  <2>1. AllWork /\ OwnPerformer /\ RetryIsFree
    BY <1>2, <1>3 DEF HireInv
  <2>2. \A f \in Executors, q \in Performers : Chosen(q, f) => Clean(f, q)
    <3>1. CASE crashes = 0
      BY <1>0, <3>1, OfferIsClean DEF FinalInv
    <3>2. CASE plans = 0
      BY <1>0, <2>1, <3>2, ChosenIsClean DEF HireInv
    <3> QED BY <1>2, <1>3, <3>1, <3>2
  <2> QED BY <1>0, <1>1, <2>1, <2>2, WorkKept, OwnPerformerKept, RetryIsFreeKept
<1>4. ASSUME plans' = 0 PROVE EndsAwaited'
  <2>1. AllWork /\ OwnPerformer /\ RetryIsFree /\ EndsAwaited
    BY <1>2, <1>4 DEF HireInv
  <2> QED BY <1>0, <1>2, <1>4, <2>1, EndsAwaitedKept
<1> QED BY <1>1, <1>3, <1>4 DEF HireInv

LEMMA HireInvariant ==
  ASSUME DistinctActions, ~SlowPerformers PROVE Spec => []HireInv
<1>1. Init => HireInv
  BY HireAtFirst
<1>2. HireInv /\ [Next]_vars => HireInv'
  BY HireKept
<1> QED BY <1>1, <1>2, PTL DEF Spec

\* Whatever the executors and performers: an executor that has succeeded has
\* nobody at work for it any more, if performers that work say so in time, until
\* both a performer has crashed and there is another plan.
THEOREM SuccessEndsTheWork ==
  ASSUME DistinctActions, ~SlowPerformers PROVE Spec => []DoneMeansDone
<1>1. HireInv => DoneMeansDone
  <2> SUFFICES ASSUME HireInv, crashes = 0 \/ plans = 0, NEW p \in Performers,
                      lifecycle[p] = "active"
               PROVE  state[employer[p]] # "SUCCESS"
    BY DEF DoneMeansDone
  <2>1. employer[p] \in Executors /\ OwnPerformer
    BY DEF HireInv, FinalInv, BasicInv, Employed
  <2> QED BY <2>1 DEF OwnPerformer, Own, Hired
<1> QED BY <1>1, HireInvariant, PTL

\* Nor do two performers ever work for one executor, under the same conditions:
\* that no performer crashes, or that there is one plan only.
THEOREM WorkIsExclusive ==
  ASSUME DistinctActions, ~SlowPerformers, MaxCrashes = 0 \/ MaxPlans = 0
  PROVE  Spec => []ExclusiveWork
<1> DEFINE Bounded == BasicInv /\ crashes <= MaxCrashes /\ plans <= MaxPlans
<1>1. Init => Bounded
  BY BasicAtFirst, HubAssumption DEF Init
<1>2. Bounded /\ [Next]_vars => Bounded'
  BY BasicKept, CountersGrow
<1>3. HireInv /\ Bounded => ExclusiveWork
  <2> SUFFICES ASSUME HireInv, Bounded, NEW p \in Performers, NEW q \in Performers,
                      lifecycle[p] = "active", lifecycle[q] = "active", employer[p] = employer[q]
               PROVE  p = q
    BY DEF ExclusiveWork
  <2>1. crashes = 0 \/ plans = 0
    BY DEF BasicInv, TypeOK
  <2>2. employer[p] \in Executors /\ OwnPerformer
    BY <2>1 DEF HireInv, FinalInv, BasicInv, Employed
  <2> QED BY <2>2 DEF OwnPerformer, Own, Hired
<1> QED BY <1>1, <1>2, <1>3, HireInvariant, PTL DEF Spec

-----------------------------------------------------------------------------
(* While a mission keeps its plan and no performer crashes, who runs an    *)
(* executor is still to work for it, or does, or has reported the end.     *)

Cancels(e, p) == Among(toPerformers[e][p], {"CANCEL"})

Served ==
  /\ \A e \in alive : state[e] \in {"DEALING", "RUNNING"} => hubOpen[e]
  /\ \A e \in Executors, p \in Performers : Cancels(e, p) = {}
  /\ \A e \in Executors : pending[e] # "cancel"
  /\ \A e \in alive, p \in Performers :
       state[e] = "RUNNING" /\ performer[e] = p => Own(e, p) \/ Ends(p, e) # {}

ServeInv ==
  /\ HireInv
  /\ mission = "on" /\ plans = 0 /\ crashes = 0 => Served

\* What publishing adds to the CANCELs, or reading takes off them.
LEMMA NoNewCancel ==
  ASSUME TypeOK, NEW f \in Executors, NEW q \in Performers, Cancels(f, q) = {},
         \/ toPerformers' = toPerformers
         \/ \E e \in Executors, open \in BOOLEAN, to \in SUBSET Performers,
               msg \in Requester \ {"CANCEL"} :
              toPerformers' = SentTo(e, open, to, msg)
         \/ \E e \in Executors, p \in Performers : \E type : Take(e, p, type)
  PROVE  Cancels(f, q)' = {}
<1>0. toPerformers[f][q] \in Seq(Requester)
  BY DEF TypeOK
<1>1. CASE toPerformers' = toPerformers
  BY <1>1 DEF Cancels
<1>2. ASSUME NEW e \in Executors, NEW open \in BOOLEAN, NEW to \in SUBSET Performers,
             NEW msg \in Requester \ {"CANCEL"},
             toPerformers' = SentTo(e, open, to, msg)
      PROVE  Cancels(f, q)' = {}
  <2>1. toPerformers'[f][q] \in {toPerformers[f][q], Append(toPerformers[f][q], msg)}
    BY <1>2 DEF TypeOK, SentTo
  <2>2. msg \in Requester /\ msg \notin {"CANCEL"}
    OBVIOUS
  <2>3. Among(Append(toPerformers[f][q], msg), {"CANCEL"}) = Among(toPerformers[f][q], {"CANCEL"})
    BY <1>0, <2>2, AppendElsewhere
  <2> QED BY <2>1, <2>3 DEF Cancels
<1>3. ASSUME NEW e \in Executors, NEW p \in Performers, NEW type, Take(e, p, type)
      PROVE  Cancels(f, q)' = {}
  <2>1. \/ toPerformers'[f][q] = toPerformers[f][q]
        \/ toPerformers[f][q] # <<>> /\ toPerformers'[f][q] = Tail(toPerformers[f][q])
    BY <1>3, TakeQueues
  <2> QED BY <1>0, <2>1, TailHasFewer DEF Cancels
<1> QED BY <1>1, <1>2, <1>3

\* The work of p for e goes on if what tells of it stays.
LEMMA GoesOn ==
  ASSUME NEW e \in Executors, NEW p \in Performers, Own(e, p) \/ Ends(p, e) # {},
         Confirms(e, p) # {} => Confirms(e, p)' # {},
         Hired(e, p) => Hired(e, p)',
         Ends(p, e) # {} => Ends(p, e)' # {}
  PROVE  Own(e, p)' \/ Ends(p, e)' # {}
  BY DEF Own

LEMMA TickServed ==
  ASSUME HireInv, mission = "on", plans = 0, crashes = 0, Served,
         NEW g \in Executors, Tick(g) \/ Ending(g) \/ WaitTimeout(g)
  PROVE  Served'
<1>0. TypeOK /\ RetryIsFree /\ Standing(g)
  BY DEF HireInv, FinalInv, BasicInv
<1>1. \/ StartDealing(g) \/ DecideGiveUp(g) \/ GiveUp(g) \/ DecideRetry(g) \/ Retry(g)
      \/ WaitTimeout(g)
  BY DEF Served, Tick, Ending, CancelIfRunning, Cancel
<1>2. /\ UNCHANGED <<alive, toExecutors, lifecycle, employer>>
      /\ \/ toPerformers' = toPerformers
         \/ \E open \in BOOLEAN, to \in SUBSET Performers :
              toPerformers' = SentTo(g, open, to, "REQUEST")
  <2>1. Performers \in SUBSET Performers /\ TRUE \in BOOLEAN /\ hubOpen[g] \in BOOLEAN
    BY <1>0 DEF TypeOK
  <2>2. CASE StartDealing(g)
    BY <2>1, <2>2 DEF StartDealing, performerVars
  <2>3. CASE Retry(g)
    BY <2>1, <2>3 DEF Retry, performerVars
  <2>4. CASE WaitTimeout(g)
    BY <2>1, <2>4 DEF WaitTimeout, executorVars, performerVars
  <2>5. CASE DecideGiveUp(g) \/ GiveUp(g) \/ DecideRetry(g)
    BY <2>5 DEF DecideGiveUp, GiveUp, DecideRetry, executorVars, performerVars
  <2> QED BY <1>1, <2>2, <2>3, <2>4, <2>5
<1>3. "REQUEST" \in Requester \ {"CANCEL"}
  BY DEF Requester
<1>4. ASSUME NEW e \in alive
      PROVE  /\ state'[e] \in {"DEALING", "RUNNING"} => hubOpen'[e]
             /\ pending'[e] # "cancel"
             /\ state'[e] = "RUNNING" => state[e] = "RUNNING" /\ performer'[e] = performer[e]
  <2>1. e \in Executors
    BY <1>0 DEF TypeOK
  <2>2. Retry(g) => state[g] = "RUNNING" /\ g \in alive
    BY <1>0 DEF Retry, RetryIsFree, Standing
  <2>3. /\ state[e] \in {"DEALING", "RUNNING"} => hubOpen[e]
        /\ pending[e] # "cancel"
    BY <2>1 DEF Served
  <2>4. CASE StartDealing(g)
    BY <1>0, <2>1, <2>3, <2>4 DEF StartDealing, threadVars, TypeOK
  <2>5. CASE DecideGiveUp(g) \/ DecideRetry(g)
    BY <1>0, <2>1, <2>3, <2>5 DEF DecideGiveUp, DecideRetry, Decide, executorVars, TypeOK
  <2>6. CASE GiveUp(g) \/ Retry(g)
    BY <1>0, <2>1, <2>2, <2>3, <2>6 DEF GiveUp, Retry, TypeOK
  <2>7. CASE WaitTimeout(g)
    BY <2>3, <2>7 DEF WaitTimeout, executorVars, threadVars
  <2> QED BY <1>1, <2>4, <2>5, <2>6, <2>7
<1>5. \A e \in Executors : pending'[e] # "cancel"
  <2>1. CASE StartDealing(g) \/ WaitTimeout(g)
    BY <2>1 DEF StartDealing, WaitTimeout, threadVars, Served
  <2>2. CASE DecideGiveUp(g) \/ DecideRetry(g)
    BY <1>0, <2>2 DEF DecideGiveUp, DecideRetry, Decide, TypeOK, Served
  <2>3. CASE GiveUp(g) \/ Retry(g)
    BY <1>0, <2>3 DEF GiveUp, Retry, TypeOK, Served
  <2> QED BY <1>1, <2>1, <2>2, <2>3
<1>6. \A e \in Executors, p \in Performers : Cancels(e, p)' = {}
  BY <1>0, <1>2, <1>3, NoNewCancel DEF Served
<1>7. ASSUME NEW e \in alive, NEW p \in Performers, state[e] = "RUNNING", performer[e] = p
      PROVE  Own(e, p)' \/ Ends(p, e)' # {}
  <2>1. e \in Executors /\ (Own(e, p) \/ Ends(p, e) # {})
    BY <1>0, <1>7 DEF TypeOK, Served
  <2>2. Confirms(e, p) # {} => Confirms(e, p)' # {}
    BY <1>0, <1>2, <1>3, <2>1, SentToKeepsSome DEF Confirms
  <2>3. (Hired(e, p) => Hired(e, p)') /\ (Ends(p, e) # {} => Ends(p, e)' # {})
    BY <1>2 DEF Hired, Ends, Finishes
  <2> QED BY <2>1, <2>2, <2>3, GoesOn
<1> QED BY <1>2, <1>4, <1>5, <1>6, <1>7 DEF Served, Cancels

LEMMA ReadingServed ==
  ASSUME HireInv, plans = 0, crashes = 0, Served,
         NEW g \in Executors, NEW q \in Performers, ExecutorCallback(q, g)
  PROVE  Served'
<1>0. TypeOK /\ BasicInv /\ AllWork /\ Employed(q) /\ g \in alive
  BY DEF HireInv, FinalInv, BasicInv, ExecutorCallback, HandleResponse, HandleFeedback, HandleFinish,
         HandleUnstarted, IgnoreFinish, FinishesIn, Receive
<1>1. /\ UNCHANGED <<alive, pending, lifecycle, employer>>
      /\ \/ toPerformers' = toPerformers
         \/ \E open \in BOOLEAN, to \in SUBSET Performers, msg \in Requester \ {"CANCEL"} :
              toPerformers' = SentTo(g, open, to, msg)
  <2>1. /\ Performers \in SUBSET Performers /\ {q} \in SUBSET Performers
        /\ hubOpen[g] \in BOOLEAN
        /\ {"CONFIRM", "REJECT", "REQUEST"} \subseteq Requester \ {"CANCEL"}
    BY <1>0 DEF TypeOK, Requester
  <2>2. CASE HandleResponse(q, g)
    <3>1. \/ toPerformers' = SentTo(g, hubOpen[g], {q}, "CONFIRM")
          \/ toPerformers' = SentTo(g, hubOpen[g], {q}, "REJECT")
      BY <2>2 DEF HandleResponse
    <3> QED BY <2>1, <2>2, <3>1 DEF HandleResponse, threadVars, performerVars
  <2>3. CASE HandleUnstarted(q, g)
    BY <2>1, <2>3 DEF HandleUnstarted, threadVars, performerVars
  <2>4. CASE \/ HandleFinish(q, g) \/ IgnoreFinish(q, g)
             \/ \E type \in Feedbacks : HandleFeedback(q, g, type)
    BY <2>4 DEF HandleFeedback, HandleFinish, IgnoreFinish, executorVars, threadVars, performerVars
  <2> QED BY <2>2, <2>3, <2>4 DEF ExecutorCallback
<1>2. \A e \in Executors, p \in Performers : Cancels(e, p)' = {}
  BY <1>0, <1>1, NoNewCancel DEF Served
<1>3. ASSUME NEW e \in alive PROVE state'[e] \in {"DEALING", "RUNNING"} => hubOpen'[e]
  <2>1. HandleUnstarted(q, g) => hubOpen[g]
    BY <1>0, EndStep DEF AllWork, OneWork
  <2>2. e \in Executors /\ (state[e] \in {"DEALING", "RUNNING"} => hubOpen[e])
    BY <1>0 DEF TypeOK, Served
  <2>3. CASE HandleResponse(q, g)
    BY <1>0, <2>2, <2>3 DEF HandleResponse, TypeOK
  <2>4. CASE HandleFinish(q, g)
    BY <1>0, <2>2, <2>4 DEF HandleFinish, FinishesIn, TypeOK
  <2>5. CASE HandleUnstarted(q, g)
    BY <1>0, <2>1, <2>2, <2>5 DEF HandleUnstarted, FinishesIn, TypeOK
  <2>6. CASE IgnoreFinish(q, g) \/ \E type \in Feedbacks : HandleFeedback(q, g, type)
    BY <2>2, <2>6 DEF IgnoreFinish, HandleFeedback, executorVars
  <2> QED BY <2>3, <2>4, <2>5, <2>6 DEF ExecutorCallback
<1>4. ASSUME NEW e \in alive, NEW p \in Performers, state'[e] = "RUNNING", performer'[e] = p
      PROVE  Own(e, p)' \/ Ends(p, e)' # {}
  <2>0. e \in Executors
    BY <1>0 DEF TypeOK
  <2>1. CASE Chosen(q, g) /\ e = g
    <3>1. p = q /\ hubOpen[g] /\ IsUp(q)
      BY <1>0, <1>4, <2>1, ChosenStep DEF TypeOK, Served, Employed, IsUp
    <3>2. toPerformers'[g][q] = Append(toPerformers[g][q], "CONFIRM")
      BY <1>0, <2>1, <3>1 DEF Chosen, HandleResponse, SentTo, TypeOK
    <3>3. toPerformers[g][q] \in Seq(Requester) /\ "CONFIRM" \in Requester
      BY <1>0 DEF TypeOK, Requester
    <3>4. Confirms(g, q)' # {}
      BY <3>2, <3>3, AppendIsThere DEF Confirms
    <3> QED BY <2>1, <3>1, <3>4 DEF Own
  <2>2. CASE ~(Chosen(q, g) /\ e = g)
    <3>1. state[e] = "RUNNING" /\ performer[e] = p
      BY <1>0, <1>4, <2>0, <2>2 DEF ExecutorCallback, Chosen, HandleResponse, HandleFeedback,
         HandleFinish, HandleUnstarted, IgnoreFinish, FinishesIn, executorVars, TypeOK
    <3>2. Own(e, p) \/ Ends(p, e) # {}
      BY <3>1 DEF Served
    <3>3. Confirms(e, p) # {} => Confirms(e, p)' # {}
      BY <1>0, <1>1, <2>0, SentToKeepsSome DEF Confirms
    <3>4. Hired(e, p) => Hired(e, p)'
      BY <1>1 DEF Hired
    <3>5. PICK type : Receive(q, g, type) /\ (q # p \/ g # e \/ type \notin Finishes)
      <4>1. CASE HandleFinish(q, g) \/ HandleUnstarted(q, g)
        <5>1. e # g
          BY <1>0, <1>4, <2>0, <4>1 DEF HandleFinish, HandleUnstarted, FinishesIn, TypeOK
        <5> QED BY <4>1, <5>1 DEF HandleFinish, HandleUnstarted, FinishesIn
      <4>2. CASE IgnoreFinish(q, g)
        BY <3>1, <4>2 DEF IgnoreFinish
      <4>3. CASE HandleResponse(q, g) \/ \E type \in Feedbacks : HandleFeedback(q, g, type)
        BY <4>3 DEF HandleResponse, HandleFeedback, Feedbacks, Finishes
      <4> QED BY <4>1, <4>2, <4>3 DEF ExecutorCallback
    <3>6. Ends(p, e) # {} => Ends(p, e)' # {}
      BY <1>0, <2>0, <3>5, ReceiveKeepsSome DEF Ends
    <3> QED BY <2>0, <3>2, <3>3, <3>4, <3>6, GoesOn
  <2> QED BY <2>1, <2>2
<1> QED BY <1>1, <1>2, <1>3, <1>4 DEF Served, Cancels

LEMMA PerformerServed ==
  ASSUME HireInv, plans = 0, crashes = 0, Served,
         NEW g \in Executors, NEW q \in Performers, PerformerCallback(g, q)
  PROVE  Served'
<1>0. TypeOK /\ BasicInv /\ TokenInv(q)
  BY DEF HireInv, FinalInv, BasicInv, IInv
<1>1. PICK type : Take(g, q, type) /\ UNCHANGED <<alive, pending, state, hubOpen, performer>>
  BY DEF PerformerCallback, HandleRequest, HandleConfirm, IgnoreConfirm, HandleReject,
         HandleCancel, executorVars, threadVars
<1>2. \A e \in Executors, p \in Performers : Cancels(e, p)' = {}
  BY <1>0, <1>1, NoNewCancel DEF Served
<1>3. HandleRequest(g, q) \/ HandleConfirm(g, q) \/ HandleReject(g, q)
  <2>1. ASSUME IgnoreConfirm(g, q) PROVE FALSE
    <3>1. Take(g, q, "CONFIRM") /\ ~Ready(q)
      BY <2>1 DEF IgnoreConfirm
    <3>2. AnswersTo(g, q) # {}
      BY <1>0, <3>1, TakeQueues, HeadIsThere DEF AnswersTo, Answers
    <3> QED BY <1>0, <3>1, <3>2 DEF TokenInv, NoToken
  <2>2. ASSUME HandleCancel(g, q) PROVE FALSE
    <3>1. Take(g, q, "CANCEL")
      BY <2>2 DEF HandleCancel
    <3>2. Cancels(g, q) # {}
      BY <1>0, <3>1, TakeQueues, HeadIsThere DEF Cancels
    <3> QED BY <3>2 DEF Served
  <2> QED BY <2>1, <2>2 DEF PerformerCallback
<1>4. ASSUME NEW e \in alive, NEW p \in Performers, state[e] = "RUNNING", performer[e] = p
      PROVE  Own(e, p)' \/ Ends(p, e)' # {}
  <2>0. e \in Executors /\ (Own(e, p) \/ Ends(p, e) # {})
    BY <1>0, <1>4 DEF TypeOK, Served
  <2>1. Ends(p, e) # {} => Ends(p, e)' # {}
    <3>1. "RESPONSE" \in Performing /\ "FINISH_UNSTARTED" \in Performing
      BY DEF Performing, Finishes
    <3>2. \/ toExecutors' = toExecutors
          \/ toExecutors' = SentBy(q, toExecutors, ExprOf[g], "RESPONSE")
          \/ toExecutors' = SentBy(q, toExecutors, ExprOf[g], "FINISH_UNSTARTED")
      BY <1>3 DEF HandleRequest, HandleConfirm, HandleReject
    <3> QED BY <1>0, <2>0, <3>1, <3>2, SentByKeepsSome DEF Ends, Finishes
  <2>2. CASE HandleRequest(g, q) \/ HandleReject(g, q)
    <3>1. \E t : Take(g, q, t) /\ t \notin {"CONFIRM"}
      BY <2>2 DEF HandleRequest, HandleReject
    <3>2. Confirms(e, p) # {} => Confirms(e, p)' # {}
      BY <1>0, <2>0, <3>1, TakeKeepsSome DEF Confirms
    <3>3. Hired(e, p) => Hired(e, p)'
      BY <2>2 DEF HandleRequest, HandleReject, Hired
    <3> QED BY <2>0, <2>1, <3>2, <3>3, GoesOn
  <2>3. CASE HandleConfirm(g, q) /\ p # q
    <3>1. Confirms(e, p) # {} => Confirms(e, p)' # {}
      BY SMTT(30), <1>0, <1>1, <2>0, <2>3, TakeKeepsSome DEF Confirms
    <3>2. Hired(e, p) => Hired(e, p)'
      BY <1>0, <2>3 DEF HandleConfirm, Hired, TypeOK
    <3> QED BY <2>0, <2>1, <3>1, <3>2, GoesOn
  <2>4. CASE HandleConfirm(g, q) /\ p = q
    <3>1. ~Hired(e, p)
      BY <1>0, <2>4, ConfirmStep DEF Ready, Hired
    <3>2. CASE e = g
      BY <1>0, <2>0, <2>4, <3>2, ConfirmStep DEF Own
    <3>3. CASE e # g
      <4>1. Confirms(e, p) # {} => Confirms(e, p)' # {}
        BY <1>0, <1>1, <2>0, <3>3, TakeKeepsSome DEF Confirms
      <4> QED BY <2>0, <2>1, <3>1, <4>1, GoesOn
    <3> QED BY <3>2, <3>3
  <2> QED BY <1>3, <2>2, <2>3, <2>4
<1> QED BY <1>1, <1>2, <1>4 DEF Served, Cancels

LEMMA WorkServed ==
  ASSUME HireInv, plans = 0, crashes = 0, crashes' = 0, Served,
         NEW q \in Performers, Work(q) \/ Crash(q) \/ Configure(q)
  PROVE  Served'
<1>0. TypeOK /\ BasicInv /\ Employed(q)
  BY DEF HireInv, FinalInv, BasicInv
<1>1. Work(q)
  BY <1>0, CrashCounts DEF Configure, IsUp, Employed
<1>2. PICK type \in Feedbacks \union Finishes :
        /\ UNCHANGED <<alive, pending, state, hubOpen, performer, toPerformers>>
        /\ toExecutors' = SentBy(q, toExecutors, arguments[q], type)
        /\ SendFeedback(q, type) \/ (type \in Finishes /\ Finish(q, type))
  BY <1>1 DEF Work, SendFeedback, Finish, executorVars, threadVars
<1>3. type \in Performing
  BY DEF Performing
<1>4. ASSUME NEW e \in alive, NEW p \in Performers, state[e] = "RUNNING", performer[e] = p
      PROVE  Own(e, p)' \/ Ends(p, e)' # {}
  <2>0. e \in Executors /\ (Own(e, p) \/ Ends(p, e) # {})
    BY <1>0, <1>4 DEF TypeOK, Served
  <2>1. Ends(p, e) # {} => Ends(p, e)' # {}
    BY <1>0, <1>2, <1>3, <2>0, SentByKeepsSome DEF Ends, Finishes
  <2>2. Confirms(e, p) # {} => Confirms(e, p)' # {}
    BY <1>2 DEF Confirms
  <2>3. CASE SendFeedback(q, type)
    BY <2>0, <2>1, <2>2, <2>3, GoesOn DEF SendFeedback, Hired, performerVars
  <2>4. CASE Finish(q, type) /\ type \in Finishes
    <3>1. CASE p # q
      <4>1. Hired(e, p) => Hired(e, p)'
        BY <1>0, <2>4, <3>1 DEF Finish, Hired, TypeOK
      <4> QED BY <2>0, <2>1, <2>2, <4>1, GoesOn
    <3>2. CASE p = q
      <4>1. ASSUME Hired(e, p) PROVE Ends(p, e)' # {}
        <5>1. employer[q] = e /\ employer[q] \in alive
          BY <1>4, <3>2, <4>1 DEF Hired
        <5>2. (employer[q] \in alive => Ends(q, employer[q])' # {}) /\ employer' = employer
          BY <1>0, <2>4, FinishStep DEF Finish
        <5> QED BY <3>2, <5>1, <5>2 DEF Ends
      <4> QED BY <2>0, <2>1, <2>2, <4>1 DEF Own
    <3> QED BY <3>1, <3>2
  <2> QED BY <1>2, <2>3, <2>4
<1>5. \A e \in Executors, p \in Performers : Cancels(e, p)' = {}
  BY <1>2 DEF Served, Cancels
<1> QED BY <1>2, <1>4, <1>5 DEF Served, Cancels

LEMMA ServeKept ==
  ASSUME DistinctActions, ~SlowPerformers, ServeInv, [Next]_vars PROVE ServeInv'
<1>0. HireInv /\ BasicInv /\ TypeOK
  BY DEF ServeInv, HireInv, FinalInv, BasicInv
<1>1. ASSUME mission' = "on", plans' = 0, crashes' = 0 PROVE Served'
  <2>1. mission = "on" /\ plans = 0 /\ crashes = 0 /\ Served
    BY <1>0, <1>1, CountersGrow DEF ServeInv, TypeOK
  <2>2. ~Plans
    <3>1. ~EndMission /\ ~MissionOver
      BY <1>1 DEF EndMission, MissionOver
    <3>2. ~NewMission /\ ~(\E kept \in SUBSET Executors : Replan(kept))
      BY <1>0, <1>1, <2>1, PlanStep
    <3> QED BY <3>1, <3>2 DEF Plans
  <2>3. CASE UNCHANGED vars
    BY <2>1, <2>3 DEF vars, executorVars, threadVars, performerVars, Served, Cancels, Own, Confirms,
       Hired, Ends, Finishes
  <2> QED BY <1>0, <1>1, <2>1, <2>2, <2>3, TickServed, ReadingServed, PerformerServed, WorkServed
          DEF Next
<1> QED BY <1>0, <1>1, HireKept DEF ServeInv

\* Whatever the executors and performers: while a mission keeps its plan, no
\* performer crashes, and performers that work say so in time, no executor waits
\* for a performer that neither is to work for it, nor does, nor has reported.
THEOREM NobodyWaitsForNobody ==
  ASSUME DistinctActions, ~SlowPerformers PROVE Spec => []RunningIsServed
<1>1. Init => ServeInv
  <2> SUFFICES ASSUME Init PROVE ServeInv
    OBVIOUS
  <2>1. \A e \in Executors : pending[e] = "none" /\ state[e] = "IDLE"
    BY DEF Init
  <2>2. \A e \in Executors, p \in Performers : Cancels(e, p) = {}
    BY EmptyHasNone DEF Init, Cancels
  <2>3. alive \subseteq Executors
    BY DEF Init
  <2> QED BY <2>1, <2>2, <2>3, HireAtFirst DEF ServeInv, Served
<1>2. ServeInv /\ [Next]_vars => ServeInv'
  BY ServeKept
<1>3. ServeInv => RunningIsServed
  <2> SUFFICES ASSUME ServeInv, mission = "on", plans = 0, crashes = 0,
                      NEW e \in alive, state[e] = "RUNNING"
               PROVE  Engaged(e, performer[e])
    BY DEF RunningIsServed
  <2>1. e \in Executors /\ performer[e] \in Performers
    BY DEF ServeInv, HireInv, FinalInv, BasicInv, TypeOK, Standing
  <2>2. Own(e, performer[e]) \/ Ends(performer[e], e) # {}
    BY <2>1 DEF ServeInv, Served
  <2> QED BY <2>2 DEF Engaged, Own, Confirms, Hired, Ends, Among
<1> QED BY <1>1, <1>2, <1>3, PTL DEF Spec

-----------------------------------------------------------------------------
(* The negotiation implements the assignment of performers to executors      *)
(* (module Assignment): its initial states map to an initial state, and each *)
(* of its steps hires a performer, lets one go, reports success, or changes  *)
(* nothing of the assignment.                                                *)

\* The FINISHes of success that p has under way to e.
Successes(p, e) == Among(toExecutors[p][e], {"FINISH_SUCCESS"})

\* The success that an executor is about to read is that of work done for it.
DoneBefore ==
  \A e \in Executors, p \in Performers :
    performer[e] = p /\ Successes(p, e) # {} => e \in done

\* If no callback runs between a decision of the execution thread and its
\* writing, what is decided is not about an executor that has succeeded.
DecidedInTime ==
  \A e \in Executors : pending[e] # "none" => state[e] # "SUCCESS"

AssignedInv ==
  /\ HireInv
  /\ crashes = 0 /\ crashes <= MaxCrashes
  /\ DoneBefore
  /\ DecidedInTime


-----------------------------------------------------------------------------
(* What a step does to the queues, the decisions and the work done.        *)

\* A success is only ever published by the performer that has done the work.
LEMMA QueueStep ==
  ASSUME BasicInv, [Next]_vars, NEW e \in Executors, NEW p \in Performers
  PROVE  \/ toExecutors'[p][e] \in {toExecutors[p][e], <<>>}
         \/ toExecutors[p][e] # <<>> /\ toExecutors'[p][e] = Tail(toExecutors[p][e])
         \/ \E msg \in Performing :
              /\ toExecutors'[p][e] = Append(toExecutors[p][e], msg)
              /\ msg = "FINISH_SUCCESS" => Finish(p, msg) /\ e \in Same(arguments[p])
<1> DEFINE Allowed ==
      \/ toExecutors'[p][e] \in {toExecutors[p][e], <<>>}
      \/ toExecutors[p][e] # <<>> /\ toExecutors'[p][e] = Tail(toExecutors[p][e])
      \/ \E msg \in Performing :
           /\ toExecutors'[p][e] = Append(toExecutors[p][e], msg)
           /\ msg = "FINISH_SUCCESS" => Finish(p, msg) /\ e \in Same(arguments[p])
<1>0. TypeOK
  BY DEF BasicInv
<1>1. CASE toExecutors' = toExecutors
  BY <1>1
<1>2. ASSUME NEW f \in Executors, NEW q \in Performers, NEW type, Receive(q, f, type) PROVE Allowed
  BY <1>0, <1>2, ReceiveQueues
<1>3. ASSUME NEW q \in Performers, NEW x, NEW msg \in Performing,
             toExecutors' = SentBy(q, toExecutors, x, msg),
             msg = "FINISH_SUCCESS" => Finish(q, msg) /\ x = arguments[q]
      PROVE  Allowed
  <2>1. CASE q # p \/ e \notin Same(x)
    BY <1>0, <1>3, <2>1, SentByOthers
  <2>2. CASE q = p /\ e \in Same(x)
    BY <1>0, <1>3, <2>2, SentByHere
  <2> QED BY <2>1, <2>2
<1>4. ASSUME NEW f \in Executors, Tick(f) \/ Ending(f) \/ WaitTimeout(f)
      PROVE  toExecutors' = toExecutors
  BY <1>4 DEF Tick, Ending, StartDealing, DecideGiveUp, GiveUp, DecideRetry, Retry,
              CancelIfRunning, Cancel, WaitTimeout
<1>5. ASSUME NEW f \in Executors, NEW q \in Performers, ExecutorCallback(q, f) PROVE Allowed
  <2>1. \E type : Receive(q, f, type)
    BY <1>5 DEF ExecutorCallback, HandleResponse, HandleFeedback, HandleFinish, HandleUnstarted,
                IgnoreFinish, FinishesIn
  <2> HIDE DEF Allowed
  <2> QED BY <1>2, <2>1
<1>6. ASSUME NEW f \in Executors, NEW q \in Performers, PerformerCallback(f, q) PROVE Allowed
  <2>1. /\ "FINISH_UNSTARTED" \in Performing /\ "FINISH_UNSTARTED" # "FINISH_SUCCESS"
        /\ "RESPONSE" \in Performing /\ "RESPONSE" # "FINISH_SUCCESS"
    BY DEF Performing, Finishes
  <2>2. \/ toExecutors' = toExecutors
        \/ toExecutors' = SentBy(q, toExecutors, ExprOf[f], "FINISH_UNSTARTED")
        \/ toExecutors' = SentBy(q, toExecutors, ExprOf[f], "RESPONSE")
    BY <1>6 DEF PerformerCallback, HandleRequest, HandleConfirm, IgnoreConfirm, HandleReject,
                HandleCancel
  <2> HIDE DEF Allowed
  <2>3. toExecutors' = toExecutors => Allowed
    BY DEF Allowed
  <2> QED BY <1>3, <2>1, <2>2, <2>3
<1>7. ASSUME NEW q \in Performers, Work(q) PROVE Allowed
  <2>1. PICK type \in Feedbacks \union Finishes :
          /\ toExecutors' = SentBy(q, toExecutors, arguments[q], type)
          /\ type \in Finishes => Finish(q, type)
    <3>1. ASSUME NEW type \in Feedbacks, SendFeedback(q, type)
          PROVE  type \notin Finishes /\ toExecutors' = SentBy(q, toExecutors, arguments[q], type)
      BY <3>1 DEF SendFeedback, Feedbacks, Finishes
    <3>2. ASSUME NEW type \in Finishes, Finish(q, type)
          PROVE  toExecutors' = SentBy(q, toExecutors, arguments[q], type)
      BY <3>2 DEF Finish
    <3> QED BY <1>7, <3>1, <3>2 DEF Work
  <2>2. type \in Performing /\ "FINISH_SUCCESS" \in Finishes
    BY DEF Performing, Finishes
  <2> HIDE DEF Allowed
  <2> QED BY <1>3, <2>1, <2>2
<1>8. ASSUME NEW q \in Performers, Crash(q) PROVE Allowed
  <2>1. \/ toExecutors' = toExecutors
        \/ toExecutors' = [toExecutors EXCEPT ![q] = [f \in Executors |-> <<>>]]
    BY <1>8 DEF Crash
  <2>2. CASE p = q
    BY <1>0, <2>1, <2>2 DEF TypeOK
  <2>3. CASE p # q
    BY <1>0, <2>1, <2>3 DEF TypeOK
  <2> QED BY <2>2, <2>3
<1>9. ASSUME NEW q \in Performers, Configure(q) PROVE toExecutors' = toExecutors
  BY <1>9 DEF Configure
<1>10. CASE Plans
  BY <1>0, <1>10 DEF Plans, EndMission, MissionOver, NewMission, Replan, NextPlan, TypeOK
<1>11. CASE UNCHANGED vars
  BY <1>1, <1>11 DEF vars
<1> QED BY <1>1, <1>4, <1>5, <1>6, <1>7, <1>8, <1>9, <1>10, <1>11 DEF Next

LEMMA SuccessesBefore ==
  ASSUME BasicInv, [Next]_vars, NEW e \in Executors, NEW p \in Performers,
         Successes(p, e)' # {}
  PROVE  Successes(p, e) # {} \/ (Finish(p, "FINISH_SUCCESS") /\ e \in Same(arguments[p]))
<1>1. toExecutors[p][e] \in Seq(Performing)
  BY DEF BasicInv, TypeOK
<1>2. CASE toExecutors'[p][e] \in {toExecutors[p][e], <<>>}
  BY <1>2, EmptyHasNone DEF Successes
<1>3. CASE toExecutors[p][e] # <<>> /\ toExecutors'[p][e] = Tail(toExecutors[p][e])
  BY <1>1, <1>3, TailHasFewer DEF Successes
<1>4. ASSUME NEW msg \in Performing, toExecutors'[p][e] = Append(toExecutors[p][e], msg),
             msg # "FINISH_SUCCESS"
      PROVE  Successes(p, e) # {}
  <2>1. msg \notin {"FINISH_SUCCESS"}
    BY <1>4
  <2>2. Among(Append(toExecutors[p][e], msg), {"FINISH_SUCCESS"})
          = Among(toExecutors[p][e], {"FINISH_SUCCESS"})
    BY <1>1, <2>1, AppendElsewhere
  <2> QED BY <1>4, <2>2 DEF Successes
<1> QED BY <1>2, <1>3, <1>4, QueueStep

LEMMA SuccessesEnd ==
  ASSUME NEW e \in Executors, NEW p \in Performers, Successes(p, e) # {} PROVE Ends(p, e) # {}
  BY DEF Successes, Ends, Among, Finishes

\* What has been done stays done.
LEMMA DoneGrows == ASSUME [Next]_vars PROVE done \subseteq done'
<1>1. ASSUME NEW p \in Performers, Work(p) PROVE done \subseteq done'
  BY <1>1 DEF Work, SendFeedback, Finish, performerVars
<1>2. ASSUME ~(\E p \in Performers : Work(p)) PROVE done' = done
  <2>1. CASE Plans
    BY <2>1 DEF Plans, EndMission, MissionOver, NewMission, Replan, performerVars
  <2>2. ASSUME NEW e \in Executors, Tick(e) \/ Ending(e) \/ WaitTimeout(e) PROVE done' = done
    BY <2>2 DEF Tick, Ending, StartDealing, DecideGiveUp, GiveUp, DecideRetry, Retry,
                CancelIfRunning, Cancel, WaitTimeout, performerVars
  <2>3. ASSUME NEW e \in Executors, NEW p \in Performers,
               ExecutorCallback(p, e) \/ PerformerCallback(e, p)
        PROVE  done' = done
    BY <2>3 DEF ExecutorCallback, HandleResponse, HandleFeedback, HandleFinish,
                HandleUnstarted, IgnoreFinish, PerformerCallback, HandleRequest, HandleConfirm,
                IgnoreConfirm, HandleReject, HandleCancel, performerVars
  <2>4. ASSUME NEW p \in Performers, Crash(p) \/ Configure(p) PROVE done' = done
    BY <2>4 DEF Crash, Configure
  <2>5. CASE UNCHANGED vars
    BY <2>5 DEF vars, performerVars
  <2> QED BY <1>2, <2>1, <2>2, <2>3, <2>4, <2>5 DEF Next
<1> QED BY <1>1, <1>2

LEMMA DoneBeforeKept ==
  ASSUME BasicInv, [Next]_vars, AllWork, DoneBefore,
         \A f \in Executors, q \in Performers : Chosen(q, f) => Clean(f, q)
  PROVE  DoneBefore'
<1> SUFFICES ASSUME NEW e \in Executors, NEW p \in Performers, performer'[e] = p,
                    Successes(p, e)' # {}
             PROVE  e \in done'
  BY DEF DoneBefore, Successes
<1>0. TypeOK /\ Employed(p) /\ p # None /\ done \subseteq done'
  BY HubAssumption, DoneGrows DEF BasicInv
<1>1. CASE Finish(p, "FINISH_SUCCESS") /\ e \in Same(arguments[p])
  <2>1. /\ employer[p] \in Executors /\ Own(employer[p], p) /\ performer[e] = p /\ e \in alive
        /\ ExprOf[e] = ExprOf[employer[p]] /\ done' = done \union {employer[p]}
    BY <1>0, <1>1 DEF Finish, executorVars, Employed, Own, Hired, Same
  <2>2. employer[p] \in Twins(e) /\ OneWork(e, p)
    BY <2>1 DEF AllWork, Twins
  <2>3. employer[p] = e
    BY <2>1, <2>2 DEF OneWork
  <2> QED BY <2>1, <2>3
<1>2. CASE Successes(p, e) # {}
  <2>1. Ends(p, e) # {}
    BY <1>2, SuccessesEnd
  <2>2. CASE performer[e] = p
    BY <1>0, <1>2, <2>2 DEF DoneBefore
  <2>3. CASE performer[e] # p
    <3>1. Chosen(p, e)
      <4>1. CASE Quiet
        BY <2>3, <4>1 DEF Quiet
      <4>2. ASSUME NEW g \in Executors, DecideRetry(g) \/ Retry(g) PROVE FALSE
        BY <1>0, <2>3, <4>2, RetryStep
      <4>3. ASSUME NEW g \in Executors, NEW q \in Performers, Chosen(q, g)
            PROVE  g = e /\ q = p
        BY <1>0, <2>3, <4>3, ChosenStep DEF TypeOK
      <4>4. ASSUME NEW g \in Executors, NEW q \in Performers,
                   HandleFinish(q, g) \/ HandleUnstarted(q, g)
            PROVE  FALSE
        BY <1>0, <2>3, <4>4, EndStep
      <4>5. ASSUME NEW g \in Executors, NEW q \in Performers, HandleConfirm(g, q) PROVE FALSE
        BY <2>3, <4>5, ConfirmStep
      <4>6. ASSUME NEW q \in Performers, NEW type \in Finishes, Finish(q, type) PROVE FALSE
        BY <2>3, <4>6, FinishStep
      <4>7. ASSUME NewMission \/ \E kept \in SUBSET Executors : Replan(kept) PROVE FALSE
        BY <2>3, <4>7, PlanStep
      <4> QED BY <4>1, <4>2, <4>3, <4>4, <4>5, <4>6, <4>7, QuietOrNot
    <3> QED BY <2>1, <3>1 DEF Clean
  <2> QED BY <2>2, <2>3
<1> QED BY <1>1, <1>2, SuccessesBefore

LEMMA DecidedInTimeKept ==
  ASSUME BasicInv, ~TickRaces, DecidedInTime, [Next]_vars PROVE DecidedInTime'
<1> SUFFICES ASSUME NEW e \in Executors, pending'[e] # "none", state'[e] = "SUCCESS" PROVE FALSE
  BY DEF DecidedInTime
<1>0. TypeOK /\ (pending[e] # "none" => state[e] # "SUCCESS")
  BY DEF BasicInv, DecidedInTime
<1>1. ASSUME NEW f \in Executors, Tick(f) \/ Ending(f) \/ WaitTimeout(f) PROVE FALSE
  BY <1>0, <1>1 DEF Tick, Ending, StartDealing, DecideGiveUp, GiveUp, DecideRetry, Retry,
       CancelIfRunning, Cancel, WaitTimeout, Decide, Free, executorVars, threadVars, TypeOK
<1>2. ASSUME NEW f \in Executors, NEW p \in Performers, ExecutorCallback(p, f) PROVE FALSE
  <2>1. pending' = pending /\ pending[f] = "none"
    BY <1>2 DEF ExecutorCallback, HandleResponse, HandleFeedback, HandleFinish, HandleUnstarted,
                IgnoreFinish, FinishesIn, Receive, May, threadVars
  <2>2. f # e => state'[e] = state[e]
    BY <1>0, <1>2 DEF ExecutorCallback, HandleResponse, HandleFeedback, HandleFinish,
           HandleUnstarted, IgnoreFinish, FinishesIn, executorVars, TypeOK
  <2> QED BY <1>0, <2>1, <2>2
<1>3. ASSUME NEW p \in Performers,
             \/ \E f \in Executors : PerformerCallback(f, p)
             \/ Work(p) \/ Crash(p) \/ Configure(p)
      PROVE  UNCHANGED <<state, pending>>
  BY <1>3 DEF PerformerCallback, HandleRequest, HandleConfirm, IgnoreConfirm, HandleReject,
              HandleCancel, Work, SendFeedback, Finish, Crash, Configure, executorVars, threadVars
<1>4. CASE NewMission \/ \E kept \in SUBSET Executors : Replan(kept)
  BY <1>4, PlanStep
<1>5. CASE EndMission \/ MissionOver \/ UNCHANGED vars
  BY <1>0, <1>5 DEF EndMission, MissionOver, executorVars, vars, threadVars
<1> QED BY <1>0, <1>1, <1>2, <1>3, <1>4, <1>5 DEF Next, Plans

LEMMA AssignedAtFirst == ASSUME DistinctActions, MaxCrashes = 0, Init PROVE AssignedInv
<1>1. HireInv /\ crashes = 0 /\ \A e \in Executors : pending[e] = "none"
  BY HireAtFirst DEF Init
<1>2. \A e \in Executors, p \in Performers : Successes(p, e) = {}
  BY EmptyHasNone DEF Init, Successes
<1> QED BY <1>1, <1>2 DEF AssignedInv, DoneBefore, DecidedInTime

LEMMA AssignedKept ==
  ASSUME DistinctActions, ~SlowPerformers, ~TickRaces, MaxCrashes = 0, AssignedInv, [Next]_vars
  PROVE  AssignedInv'
<1>0. HireInv /\ FinalInv /\ BasicInv /\ AllWork /\ crashes = 0 /\ DoneBefore /\ DecidedInTime
  BY DEF AssignedInv, HireInv, FinalInv
<1>1. HireInv' /\ BasicInv'
  BY <1>0, HireKept DEF HireInv, FinalInv
<1>2. crashes' = 0 /\ crashes' <= MaxCrashes
  BY <1>0, <1>1, CountersGrow DEF AssignedInv, BasicInv, TypeOK
<1>3. \A f \in Executors, q \in Performers : Chosen(q, f) => Clean(f, q)
  BY <1>0, OfferIsClean DEF FinalInv
<1> QED BY <1>0, <1>1, <1>2, <1>3, DoneBeforeKept, DecidedInTimeKept DEF AssignedInv

-----------------------------------------------------------------------------
(* The assignment an executor has: the one performer that works for it.    *)

Worker(e) == IF Working(e) = {} THEN None ELSE CHOOSE p \in Working(e) : TRUE

LEMMA OneOf == ASSUME NEW S, NEW x \in S, \A y \in S : y = x PROVE (CHOOSE y \in S : TRUE) = x
  OBVIOUS

LEMMA WorkerIsPerformer ==
  ASSUME NEW e \in Executors, NEW p \in Performers, Worker(e) = p PROVE p \in Working(e)
<1>1. Working(e) # {}
  BY HubAssumption DEF Worker
<1>2. (CHOOSE q \in Working(e) : TRUE) \in Working(e)
  BY <1>1
<1> QED BY <1>1, <1>2 DEF Worker

\* An executor nobody new works for keeps its worker.
LEMMA SameWorker ==
  ASSUME NEW e \in Executors, Working(e)' = Working(e) PROVE Worker(e)' = Worker(e)
  BY DEF Worker

LEMMA ExclusiveInTime ==
  ASSUME AssignedInv PROVE ExclusiveWork /\ DoneMeansDone /\ BasicInv /\ FinalInv
<1>0. BasicInv /\ FinalInv /\ OwnPerformer
  BY DEF AssignedInv, HireInv, FinalInv
<1>1. ASSUME NEW p \in Performers, lifecycle[p] = "active"
      PROVE  performer[employer[p]] = p /\ state[employer[p]] # "SUCCESS"
  <2>1. employer[p] \in Executors
    BY <1>0, <1>1 DEF BasicInv, Employed
  <2> QED BY <1>0, <1>1, <2>1 DEF OwnPerformer, Own, Hired
<1>2. ExclusiveWork
  BY <1>1 DEF ExclusiveWork
<1>3. DoneMeansDone
  BY <1>1 DEF DoneMeansDone
<1> QED BY <1>0, <1>2, <1>3

\* Success is reported when the FINISH of the performer is read, and for good.
LEMMA ReportedStays ==
  ASSUME AssignedInv, [Next]_vars, NEW e \in Executors, state[e] = "SUCCESS"
  PROVE  state'[e] = "SUCCESS"
<1>1. pending[e] = "none"
  BY DEF AssignedInv, DecidedInTime
<1> QED BY <1>1, SuccessStays DEF AssignedInv, HireInv

LEMMA ReportedByFinish ==
  ASSUME AssignedInv, [Next]_vars, NEW e \in Executors, state'[e] = "SUCCESS", state[e] # "SUCCESS"
  PROVE  /\ e \in done /\ \E p \in Performers : HandleFinish(p, e)
         /\ UNCHANGED <<lifecycle, employer, done>>
<1>0. BasicInv /\ TypeOK
  BY ExclusiveInTime DEF BasicInv
<1>1. PICK p \in Performers : HandleFinish(p, e)
  <2>1. CASE Quiet
    BY <2>1 DEF Quiet
  <2>2. ASSUME NEW g \in Executors, DecideRetry(g) \/ Retry(g) PROVE FALSE
    BY <1>0, <2>2, RetryStep
  <2>3. ASSUME NEW g \in Executors, NEW q \in Performers, Chosen(q, g) PROVE FALSE
    BY <1>0, <2>3, ChosenStep DEF TypeOK
  <2>4. ASSUME NEW g \in Executors, NEW q \in Performers, HandleUnstarted(q, g) PROVE FALSE
    BY <1>0, <2>4, EndStep
  <2>5. ASSUME NEW g \in Executors, NEW q \in Performers, HandleFinish(q, g) PROVE g = e
    BY <1>0, <2>5, EndStep
  <2>6. ASSUME NEW g \in Executors, NEW q \in Performers, HandleConfirm(g, q) PROVE FALSE
    BY <1>0, <2>6, ConfirmStep
  <2>7. ASSUME NEW q \in Performers, NEW type \in Finishes, Finish(q, type) PROVE FALSE
    BY <1>0, <2>7, FinishStep
  <2>8. ASSUME NewMission \/ \E kept \in SUBSET Executors : Replan(kept) PROVE FALSE
    BY <1>0, <2>8, PlanStep
  <2> QED BY <1>0, <2>1, <2>2, <2>3, <2>4, <2>5, <2>6, <2>7, <2>8, QuietOrNot
<1>2. Receive(p, e, "FINISH_SUCCESS") /\ performer[e] = p /\ UNCHANGED <<lifecycle, employer, done>>
  BY <1>0, <1>1 DEF HandleFinish, FinishesIn, TypeOK, performerVars
<1>3. Successes(p, e) # {}
  BY <1>0, <1>2, ReceiveQueues, HeadIsThere DEF Successes
<1> QED BY <1>1, <1>2, <1>3 DEF AssignedInv, DoneBefore

Reporting == {e \in Executors : state[e] = "SUCCESS"}

\* The steps of the assignment, in these terms.
LEMMA MappedHire ==
  ASSUME NEW e \in Executors, NEW p \in Performers,
         Worker(e) = None, \A f \in Executors : Worker(f) # p,
         Worker(e)' = p, \A f \in Executors : f # e => Worker(f)' = Worker(f),
         done' = done, Reporting' = Reporting
  PROVE  Assigned!Next
<1> DEFINE worker == [f \in Executors |-> Worker(f)]
<1>1. worker' = [worker EXCEPT ![e] = p]
  OBVIOUS
<1>2. Assigned!Hire(e, p)
  BY <1>1 DEF Assigned!Hire, Worker, Reporting
<1> QED BY <1>2 DEF Assigned!Next

LEMMA MappedLeave ==
  ASSUME NEW e \in Executors, Worker(e) # None, Worker(e)' = None,
         \A f \in Executors : f # e => Worker(f)' = Worker(f),
         done' \in {done, done \union {e}}, Reporting' = Reporting
  PROVE  Assigned!Next
<1> DEFINE worker == [f \in Executors |-> Worker(f)]
<1>1. worker' = [worker EXCEPT ![e] = None]
  OBVIOUS
<1>2. Assigned!Leave(e)
  BY <1>1 DEF Assigned!Leave, Worker, Reporting
<1> QED BY <1>2 DEF Assigned!Next

LEMMA MappedReport ==
  ASSUME NEW e \in Executors, Worker(e) = None, \A f \in Executors : Worker(f)' = Worker(f),
         done' = done, e \in done, Reporting' = Reporting \union {e}
  PROVE  Assigned!Next
<1> DEFINE worker == [f \in Executors |-> Worker(f)]
<1>1. worker' = worker
  OBVIOUS
<1>2. Assigned!Report(e)
  BY <1>1 DEF Assigned!Report, Worker, Reporting
<1> QED BY <1>2 DEF Assigned!Next

LEMMA MappedStutter ==
  ASSUME \A f \in Executors : Worker(f)' = Worker(f), done' = done, Reporting' = Reporting
  PROVE  UNCHANGED Assigned!vars
<1> DEFINE worker == [f \in Executors |-> Worker(f)]
<1>1. worker' = worker
  OBVIOUS
<1> QED BY <1>1 DEF Assigned!vars, Worker, Reporting

\* Where nobody reports a success nobody had reported, the reports stay.
LEMMA SameReports ==
  ASSUME AssignedInv, [Next]_vars, ~(\E e \in Executors, p \in Performers : HandleFinish(p, e))
  PROVE  Reporting' = Reporting
  BY ReportedStays, ReportedByFinish DEF Reporting

\* A performer that takes the work is hired, by an executor that has none.
LEMMA ConfirmHires ==
  ASSUME AssignedInv, ExclusiveWork', [Next]_vars,
         NEW e \in Executors, NEW p \in Performers, HandleConfirm(e, p), Reporting' = Reporting
  PROVE  Assigned!Next \/ UNCHANGED Assigned!vars
<1>0. TypeOK /\ p # None /\ lifecycle[p] = "inactive" /\ done' = done
  BY ExclusiveInTime, HubAssumption DEF BasicInv, HandleConfirm, Ready
<1>1. \A f \in Executors : p \notin Working(f)
  BY <1>0 DEF Working
<1>2. CASE lifecycle' = lifecycle
  <2>1. employer' = [employer EXCEPT ![p] = e]
    BY DEF HandleConfirm
  <2>2. \A f \in Executors : Working(f)' = Working(f)
    BY <1>0, <1>2, <2>1 DEF Working, TypeOK
  <2> QED BY <1>0, <2>2, SameWorker, MappedStutter
<1>3. CASE lifecycle' = [lifecycle EXCEPT ![p] = "active"]
  <2>1. employer' = [employer EXCEPT ![p] = e]
    BY DEF HandleConfirm
  <2>2. /\ Working(e)' = Working(e) \union {p}
        /\ \A f \in Executors : f # e => Working(f)' = Working(f)
    BY <1>0, <1>3, <2>1 DEF Working, TypeOK
  <2>3. \A q \in Working(e)' : q = p
    BY <2>2 DEF ExclusiveWork, Working
  <2>4. Working(e) = {}
    BY <1>1, <2>2, <2>3
  <2>5. Worker(e) = None
    BY <2>4 DEF Worker
  <2>6. Worker(e)' = p
    BY <2>2, <2>3, OneOf DEF Worker
  <2>7. \A f \in Executors : Worker(f) # p
    BY <1>1, WorkerIsPerformer
  <2> QED BY <1>0, <2>2, <2>5, <2>6, <2>7, SameWorker, MappedHire
<1> QED BY <1>2, <1>3 DEF HandleConfirm

\* A performer that stops, with the action done or not, leaves.
LEMMA StoppingLeaves ==
  ASSUME AssignedInv, NEW p \in Performers, lifecycle' = [lifecycle EXCEPT ![p] = "inactive"],
         employer' = employer, Reporting' = Reporting,
         \/ done' = done
         \/ lifecycle[p] = "active" /\ done' = done \union {employer[p]}
  PROVE  Assigned!Next \/ UNCHANGED Assigned!vars
<1>0. TypeOK /\ Employed(p) /\ ExclusiveWork
  BY ExclusiveInTime DEF BasicInv
<1>1. CASE lifecycle[p] # "active"
  <2>1. \A f \in Executors : Working(f)' = Working(f)
    BY <1>0, <1>1 DEF Working, TypeOK
  <2> QED BY <1>1, <2>1, SameWorker, MappedStutter
<1>2. CASE lifecycle[p] = "active"
  <2> DEFINE e == employer[p]
  <2>1. e \in Executors /\ p \in Working(e) /\ \A q \in Working(e) : q = p
    BY <1>0, <1>2 DEF Employed, ExclusiveWork, Working
  <2>2. /\ Working(e)' = {}
        /\ \A f \in Executors : f # e => Working(f)' = Working(f)
    BY <1>0, <1>2, <2>1 DEF Working, TypeOK
  <2>3. Worker(e) = p /\ Worker(e)' = None
    BY <2>1, <2>2, OneOf DEF Worker
  <2>4. p # None
    BY HubAssumption
  <2>5. \A f \in Executors : f # e => Worker(f)' = Worker(f)
    BY <2>2, SameWorker
  <2> QED BY <2>1, <2>3, <2>4, <2>5, MappedLeave
<1> QED BY <1>1, <1>2

LEMMA StepMaps ==
  ASSUME AssignedInv, ExclusiveWork', MaxCrashes = 0, [Next]_vars
  PROVE  Assigned!Next \/ UNCHANGED Assigned!vars
<1>0. BasicInv /\ TypeOK /\ crashes = 0
  BY ExclusiveInTime DEF BasicInv, AssignedInv
<1>1. ASSUME NEW e \in Executors, NEW p \in Performers, HandleFinish(p, e)
      PROVE  Assigned!Next \/ UNCHANGED Assigned!vars
  <2>1. /\ UNCHANGED <<lifecycle, employer, done>> /\ Ends(p, e) # {} /\ performer[e] = p /\ e \in alive
        /\ \A f \in Executors : f # e => state'[f] = state[f]
    <3>1. UNCHANGED <<lifecycle, employer, done>>
      BY <1>1 DEF HandleFinish, performerVars
    <3> QED BY <1>0, <1>1, <3>1, EndStep
  <2>2. \A f \in Executors : Worker(f)' = Worker(f)
    BY <2>1, SameWorker DEF Working
  <2>3. CASE state'[e] # "SUCCESS" \/ state[e] = "SUCCESS"
    <3>1. Reporting' = Reporting
      BY <2>1, <2>3, ReportedStays DEF Reporting
    <3> QED BY <2>1, <2>2, <3>1, MappedStutter
  <2>4. CASE state'[e] = "SUCCESS" /\ state[e] # "SUCCESS"
    <3>1. e \in done
      BY <2>4, ReportedByFinish
    <3>2. AllWork /\ OwnPerformer
      BY <1>0 DEF AssignedInv, HireInv
    <3>3. ~Own(e, p)
      BY <2>1, <3>2, SelfTwin DEF AllWork, OneWork
    <3>4. Working(e) = {}
      BY <2>1, <3>2, <3>3 DEF Working, OwnPerformer, Own, Hired
    <3>5. Reporting' = Reporting \union {e}
      BY <2>1, <2>4 DEF Reporting
    <3> QED BY <2>1, <2>2, <3>1, <3>4, <3>5, MappedReport DEF Worker
  <2> QED BY <2>3, <2>4
<1>2. ASSUME ~(\E e \in Executors, p \in Performers : HandleFinish(p, e))
      PROVE  Assigned!Next \/ UNCHANGED Assigned!vars
  <2>0. Reporting' = Reporting
    BY <1>2, SameReports
  <2>1. CASE UNCHANGED <<lifecycle, employer, done>>
    <3>1. \A f \in Executors : Worker(f)' = Worker(f)
      BY <2>1, SameWorker DEF Working
    <3> QED BY <2>0, <2>1, <3>1, MappedStutter
  <2>2. CASE Plans \/ UNCHANGED vars
    BY <2>1, <2>2 DEF Plans, EndMission, MissionOver, NewMission, Replan, vars, performerVars
  <2>3. ASSUME NEW e \in Executors, Tick(e) \/ Ending(e) \/ WaitTimeout(e)
        PROVE  UNCHANGED <<lifecycle, employer, done>>
    BY <2>3 DEF Tick, Ending, StartDealing, DecideGiveUp, GiveUp, DecideRetry, Retry,
                CancelIfRunning, Cancel, WaitTimeout, performerVars
  <2>4. ASSUME NEW e \in Executors, NEW p \in Performers, ExecutorCallback(p, e)
        PROVE  UNCHANGED <<lifecycle, employer, done>>
    BY <2>4 DEF ExecutorCallback, HandleResponse, HandleFeedback, HandleFinish,
                HandleUnstarted, IgnoreFinish, performerVars
  <2>5. ASSUME NEW e \in Executors, NEW p \in Performers, PerformerCallback(e, p)
        PROVE  Assigned!Next \/ UNCHANGED Assigned!vars
    <3>1. CASE HandleRequest(e, p) \/ IgnoreConfirm(e, p) \/ HandleReject(e, p)
      BY <2>1, <3>1 DEF HandleRequest, IgnoreConfirm, HandleReject, performerVars
    <3>2. CASE HandleConfirm(e, p)
      BY <2>0, <3>2, ConfirmHires
    <3>3. CASE HandleCancel(e, p)
      BY <2>0, <3>3, StoppingLeaves DEF HandleCancel
    <3> QED BY <2>5, <3>1, <3>2, <3>3 DEF PerformerCallback
  <2>6. ASSUME NEW p \in Performers, Work(p)
        PROVE  Assigned!Next \/ UNCHANGED Assigned!vars
    <3>1. ASSUME NEW type \in Feedbacks, SendFeedback(p, type)
          PROVE  UNCHANGED <<lifecycle, employer, done>>
      BY <3>1 DEF SendFeedback, performerVars
    <3>2. ASSUME NEW type \in Finishes, Finish(p, type)
          PROVE  Assigned!Next \/ UNCHANGED Assigned!vars
      BY <2>0, <3>2, StoppingLeaves DEF Finish
    <3> QED BY <2>1, <2>6, <3>1, <3>2 DEF Work
  <2>7. ASSUME NEW p \in Performers, Crash(p) PROVE FALSE
    BY <1>0, <2>7, CrashCounts DEF BasicInv
  <2>8. ASSUME NEW p \in Performers, Configure(p) PROVE FALSE
    BY <1>0, <2>8 DEF Configure, IsUp, BasicInv, Employed
  <2> QED BY <2>1, <2>2, <2>3, <2>4, <2>5, <2>6, <2>7, <2>8 DEF Next
<1> QED BY <1>1, <1>2

\* Whatever the executors, performers and plans: if performers that work say so
\* in time, no callback overtakes a tick, and no performer crashes, the
\* negotiation over actions_hub is an assignment: nobody is hired for an executor
\* that has somebody, and success is reported once the action has been done for
\* the executor, by a performer that has left, and for good.
THEOREM NegotiationIsAssignment ==
  ASSUME DistinctActions, ~SlowPerformers, ~TickRaces, MaxCrashes = 0
  PROVE  Spec => ImplementsAssignment
<1>1. Init => AssignedInv
  BY AssignedAtFirst
<1>2. AssignedInv /\ [Next]_vars => AssignedInv'
  BY AssignedKept
<1>3. AssignedInv => ExclusiveWork
  BY ExclusiveInTime
<1>4. Init => Assigned!Init
  <2> SUFFICES ASSUME Init PROVE Assigned!Init
    OBVIOUS
  <2>1. \A e \in Executors : Working(e) = {} /\ state[e] # "SUCCESS"
    BY DEF Init, Working
  <2> QED BY <2>1 DEF Assigned!Init, Init
<1>5. AssignedInv /\ ExclusiveWork' /\ [Next]_vars => [Assigned!Next]_(Assigned!vars)
  BY StepMaps
<1> QED BY <1>1, <1>2, <1>3, <1>4, <1>5, PTL DEF Spec, ImplementsAssignment, Assigned!Spec
=============================================================================
