-------------------------- MODULE ActionHub_proofs --------------------------
(* What holds of the negotiation for every set of executors and performers. *)
EXTENDS ActionHub, TLAPS

Outbound == [Executors -> [Performers -> Seq(Requester)]]
Inbound  == [Performers -> [Executors -> Seq(Performing)]]

\* Publishing keeps the queues of the requesters in their type.
LEMMA SentToType ==
  ASSUME toPerformers \in Outbound, NEW e \in Executors, NEW open, NEW to,
         NEW msg \in Requester
  PROVE  SentTo(e, open, to, msg) \in Outbound
  BY DEF Outbound, SentTo

\* Publishing keeps the queues of the performers in their type.
LEMMA SentByType ==
  ASSUME toExecutors \in Inbound, NEW p \in Performers, NEW x,
         NEW msg \in Performing
  PROVE  SentBy(p, toExecutors, x, msg) \in Inbound
  BY DEF Inbound, SentBy

\* Taking a message off a queue keeps the queues in their type.
LEMMA TakeType ==
  ASSUME toPerformers \in Outbound, NEW e \in Executors, NEW p \in Performers,
         NEW type, Take(e, p, type)
  PROVE  toPerformers' \in Outbound
<1>1. toPerformers[e][p] \in Seq(Requester) /\ toPerformers[e][p] # <<>>
  BY DEF Outbound, Take
<1>2. Tail(toPerformers[e][p]) \in Seq(Requester)
  BY <1>1
<1> QED BY <1>2 DEF Outbound, Take

LEMMA ReceiveType ==
  ASSUME toExecutors \in Inbound, NEW p \in Performers, NEW e \in Executors,
         NEW type, Receive(p, e, type)
  PROVE  toExecutors' \in Inbound
<1>1. toExecutors[p][e] \in Seq(Performing) /\ toExecutors[p][e] # <<>>
  BY DEF Inbound, Receive
<1>2. Tail(toExecutors[p][e]) \in Seq(Performing)
  BY <1>1
<1> QED BY <1>2 DEF Inbound, Receive

\* A fault that has been counted has been there.
LEMMA FaultCounts ==
  ASSUME NEW count \in Nat, NEW max \in Nat, count < max \/ MayRecur(count)
  PROVE  /\ Counted(count, max) \in Nat /\ Counted(count, max) > 0
         /\ count <= Counted(count, max) /\ (count <= max => Counted(count, max) <= max)
  BY DEF MayRecur, Counted

LEMMA CrashCounts ==
  ASSUME TypeOK, NEW p \in Performers, Crash(p)
  PROVE  /\ crashes' \in Nat /\ crashes' > 0
         /\ crashes <= crashes' /\ (crashes <= MaxCrashes => crashes' <= MaxCrashes)
<1>1. crashes \in Nat /\ MaxCrashes \in Nat
  BY HubAssumption DEF TypeOK
<1> QED BY <1>1, FaultCounts DEF Crash

\* Every step keeps the type of every variable.
LEMMA TypeKept ==
  ASSUME TypeOK, [Next]_vars PROVE TypeOK'
<1> USE HubAssumption
<1>1. ASSUME NEW e \in Executors, StartDealing(e) PROVE TypeOK'
  <2>1. toPerformers' \in Outbound
    BY <1>1, SentToType DEF StartDealing, TypeOK, Outbound, Requester
  <2> QED BY <1>1, <2>1 DEF StartDealing, TypeOK, Outbound, Inbound, States, executorVars, threadVars, performerVars, counters
<1>2. ASSUME NEW e \in Executors, DecideGiveUp(e) PROVE TypeOK'
  <2> QED BY <1>2 DEF DecideGiveUp, Decide, Decisions, TypeOK, Outbound, Inbound, States, executorVars, threadVars, performerVars, counters
<1>3. ASSUME NEW e \in Executors, GiveUp(e) PROVE TypeOK'
  <2> QED BY <1>3 DEF GiveUp, Decisions, TypeOK, Outbound, Inbound, States, executorVars, threadVars, performerVars, counters
<1>4. ASSUME NEW e \in Executors, DecideRetry(e) PROVE TypeOK'
  <2> QED BY <1>4 DEF DecideRetry, Decide, Decisions, TypeOK, Outbound, Inbound, States, executorVars, threadVars, performerVars, counters
<1>5. ASSUME NEW e \in Executors, Retry(e) PROVE TypeOK'
  <2>1. toPerformers' \in Outbound
    BY <1>5, SentToType DEF Retry, TypeOK, Outbound, Requester, Decisions
  <2> QED BY <1>5, <2>1 DEF Retry, Decisions, TypeOK, Outbound, Inbound, States, executorVars, threadVars, performerVars, counters
<1>6. ASSUME NEW e \in Executors, CancelIfRunning(e) PROVE TypeOK'
  <2> QED BY <1>6 DEF CancelIfRunning, Decide, Decisions, TypeOK, Outbound, Inbound, States, executorVars, threadVars, performerVars, counters
<1>7. ASSUME NEW e \in Executors, Cancel(e) PROVE TypeOK'
  <2>1. toPerformers' \in Outbound
    BY <1>7, SentToType DEF Cancel, TypeOK, Outbound, Requester, Decisions
  <2> QED BY <1>7, <2>1 DEF Cancel, Decisions, TypeOK, Outbound, Inbound, States, executorVars, threadVars, performerVars, counters
<1>8. ASSUME NEW e \in Executors, WaitTimeout(e) PROVE TypeOK'
  <2>1. toPerformers' \in Outbound
    BY <1>8, SentToType DEF WaitTimeout, TypeOK, Outbound, Requester
  <2> QED BY <1>8, <2>1 DEF WaitTimeout, TypeOK, Outbound, Inbound, States, executorVars, threadVars, performerVars, counters
<1>9. ASSUME NEW p \in Performers, NEW e \in Executors, HandleResponse(p, e) PROVE TypeOK'
  <2>1. toPerformers' \in Outbound
    BY <1>9, SentToType DEF HandleResponse, TypeOK, Outbound, Requester
  <2>2. toExecutors' \in Inbound
    BY <1>9, ReceiveType DEF HandleResponse, TypeOK, Inbound
  <2>3. /\ state' \in [Executors -> States] /\ waiting' \in [Executors -> BOOLEAN]
        /\ performer' \in [Executors -> Performers \union {None}]
    <3>1. CASE state[e] = "DEALING"
      <4>1. /\ state' = [state EXCEPT ![e] = "RUNNING"]
            /\ performer' = [performer EXCEPT ![e] = p]
            /\ waiting' = [waiting EXCEPT ![e] = FALSE]
        BY <1>9, <3>1 DEF HandleResponse
      <4> QED BY <4>1 DEF TypeOK, States
    <3>2. CASE state[e] # "DEALING"
      BY <1>9, <3>2 DEF HandleResponse, TypeOK
    <3> QED BY <3>1, <3>2
  <2>4. UNCHANGED <<alive, progressed, hubOpen, threadVars, performerVars, counters>>
    BY <1>9 DEF HandleResponse
  <2> QED BY <2>1, <2>2, <2>3, <2>4 DEF TypeOK, Outbound, Inbound, States, executorVars, threadVars, performerVars,
             counters
<1>10. ASSUME NEW p \in Performers, NEW e \in Executors, HandleFinish(p, e) PROVE TypeOK'
  <2>1. toExecutors' \in Inbound
    BY <1>10, ReceiveType DEF HandleFinish, FinishesIn, TypeOK, Inbound
  <2> QED BY <1>10, <2>1 DEF HandleFinish, FinishesIn, TypeOK, Outbound, Inbound, States, executorVars, threadVars, performerVars, counters
<1>11. ASSUME NEW p \in Performers, NEW e \in Executors, HandleUnstarted(p, e) PROVE TypeOK'
  <2>1. toPerformers' \in Outbound
    BY <1>11, SentToType DEF HandleUnstarted, TypeOK, Outbound, Requester
  <2>2. toExecutors' \in Inbound
    BY <1>11, ReceiveType DEF HandleUnstarted, FinishesIn, TypeOK, Inbound
  <2> QED BY <1>11, <2>1, <2>2 DEF HandleUnstarted, FinishesIn, TypeOK, Outbound, Inbound, States, executorVars, threadVars, performerVars, counters
<1>12. ASSUME NEW p \in Performers, NEW e \in Executors, IgnoreFinish(p, e) PROVE TypeOK'
  <2>1. toExecutors' \in Inbound
    BY <1>12, ReceiveType DEF IgnoreFinish, TypeOK, Inbound
  <2> QED BY <1>12, <2>1 DEF IgnoreFinish, TypeOK, Outbound, Inbound, States, executorVars, threadVars, performerVars, counters
<1>13. ASSUME NEW e \in Executors, NEW p \in Performers, HandleRequest(e, p) PROVE TypeOK'
  <2>1. toPerformers' \in Outbound
    BY <1>13, TakeType DEF HandleRequest, TypeOK, Outbound
  <2>2. /\ toExecutors \in Inbound
        /\ "RESPONSE" \in Performing /\ "FINISH_UNSTARTED" \in Performing
    BY DEF TypeOK, Inbound, Performing, Finishes
  <2>3. toExecutors' \in Inbound
    BY <1>13, <2>2, SentByType DEF HandleRequest
  <2> QED BY <1>13, <2>1, <2>3 DEF HandleRequest, TypeOK, Outbound, Inbound, States, executorVars, threadVars, performerVars, counters
<1>14. ASSUME NEW e \in Executors, NEW p \in Performers, HandleConfirm(e, p) PROVE TypeOK'
  <2>1. toPerformers' \in Outbound
    BY <1>14, TakeType DEF HandleConfirm, TypeOK, Outbound
  <2>2. /\ toExecutors \in Inbound
        /\ "RESPONSE" \in Performing /\ "FINISH_UNSTARTED" \in Performing
    BY DEF TypeOK, Inbound, Performing, Finishes
  <2>3. toExecutors' \in Inbound
    BY <1>14, <2>2, SentByType DEF HandleConfirm
  <2>4. /\ lifecycle' \in [Performers -> {"inactive", "active", "down"}]
        /\ unstarted' \in Nat /\ plans' = plans /\ crashes' = crashes
    <3>1. CASE lifecycle' = [lifecycle EXCEPT ![p] = "active"] /\ UNCHANGED counters
      BY <3>1 DEF TypeOK, counters
    <3>2. CASE /\ unstarted < MaxUnstarted \/ MayRecur(unstarted)
               /\ unstarted' = Counted(unstarted, MaxUnstarted)
               /\ UNCHANGED <<lifecycle, plans, crashes>>
      BY <3>2, FaultCounts DEF TypeOK
    <3> QED BY <1>14, <3>1, <3>2 DEF HandleConfirm
  <2>5. /\ committed' \in [Performers -> BOOLEAN]
        /\ arguments' \in [Performers -> Exprs \union {None}]
        /\ employer' \in [Performers -> Executors \union {None}]
    BY <1>14 DEF HandleConfirm, TypeOK
  <2>6. UNCHANGED <<executorVars, threadVars, done>>
    BY <1>14 DEF HandleConfirm
  <2> QED BY <2>1, <2>3, <2>4, <2>5, <2>6 DEF TypeOK, Outbound, Inbound, States, executorVars, threadVars, performerVars,
             counters
<1>15. ASSUME NEW e \in Executors, NEW p \in Performers, IgnoreConfirm(e, p) PROVE TypeOK'
  <2>1. toPerformers' \in Outbound
    BY <1>15, TakeType DEF IgnoreConfirm, TypeOK, Outbound
  <2> QED BY <1>15, <2>1 DEF IgnoreConfirm, TypeOK, Outbound, Inbound, States, executorVars, threadVars, performerVars, counters
<1>16. ASSUME NEW e \in Executors, NEW p \in Performers, HandleReject(e, p) PROVE TypeOK'
  <2>1. toPerformers' \in Outbound
    BY <1>16, TakeType DEF HandleReject, TypeOK, Outbound
  <2> QED BY <1>16, <2>1 DEF HandleReject, TypeOK, Outbound, Inbound, States, executorVars, threadVars, performerVars, counters
<1>17. ASSUME NEW e \in Executors, NEW p \in Performers, HandleCancel(e, p) PROVE TypeOK'
  <2>1. toPerformers' \in Outbound
    BY <1>17, TakeType DEF HandleCancel, TypeOK, Outbound
  <2> QED BY <1>17, <2>1 DEF HandleCancel, TypeOK, Outbound, Inbound, States, executorVars, threadVars, performerVars, counters
<1>18. ASSUME NEW p \in Performers, Crash(p) PROVE TypeOK'
  <2>1. toPerformers' \in Outbound
    BY <1>18 DEF Crash, TypeOK, Outbound
  <2>2. toExecutors' \in Inbound
    <3>1. CASE UNCHANGED toExecutors
      BY <3>1 DEF TypeOK, Inbound
    <3>2. CASE toExecutors' = [toExecutors EXCEPT ![p] = [e \in Executors |-> <<>>]]
      BY <3>2 DEF TypeOK, Inbound
    <3> QED BY <1>18, <3>1, <3>2 DEF Crash
  <2>3. lifecycle' \in [Performers -> {"inactive", "active", "down"}]
    BY <1>18 DEF Crash, TypeOK
  <2>4. crashes' \in Nat
    BY <1>18, CrashCounts
  <2> QED BY <1>18, <2>1, <2>2, <2>3, <2>4 DEF Crash, TypeOK, Outbound, Inbound, States, executorVars, threadVars, performerVars, counters
<1>19. ASSUME NEW p \in Performers, Configure(p) PROVE TypeOK'
  <2> QED BY <1>19 DEF Configure, TypeOK, Outbound, Inbound, States, executorVars, threadVars, performerVars, counters
<1>20. ASSUME EndMission PROVE TypeOK'
  <2> QED BY <1>20 DEF EndMission, TypeOK, Outbound, Inbound, States, executorVars, threadVars, performerVars, counters
<1>21. ASSUME MissionOver PROVE TypeOK'
  <2> QED BY <1>21 DEF MissionOver, TypeOK, Outbound, Inbound, States, executorVars, threadVars, performerVars, counters
<1>22. ASSUME NewMission PROVE TypeOK'
  <2> QED BY <1>22 DEF NewMission, NextPlan, TypeOK, Outbound, Inbound, States, executorVars, threadVars, performerVars, counters
<1>23. ASSUME NEW kept \in SUBSET Executors, Replan(kept) PROVE TypeOK'
  <2>1. toPerformers' \in Outbound
    BY <1>23, SentToType DEF Replan, TypeOK, Outbound, Requester, SentTo
  <2>2. toExecutors' \in Inbound
    BY <1>23 DEF Replan, NextPlan, TypeOK, Inbound
  <2>3. /\ alive' \in SUBSET Executors /\ plans' \in Nat
        /\ state' \in [Executors -> States]
    BY <1>23 DEF Replan, NextPlan, TypeOK, States
  <2> QED BY <1>23, <2>1, <2>2, <2>3
      DEF Replan, TypeOK, Outbound, Inbound, States, executorVars, threadVars, performerVars, counters
<1>24. ASSUME NEW p \in Performers, NEW e \in Executors, NEW type \in Feedbacks,
              HandleFeedback(p, e, type) PROVE TypeOK'
  <2> QED BY <1>24 DEF HandleFeedback, Receive, TypeOK, Outbound, Inbound, States, executorVars, threadVars, performerVars, counters
<1>25. ASSUME NEW p \in Performers, NEW type \in Feedbacks, SendFeedback(p, type) PROVE TypeOK'
  <2>1. toExecutors' \in Inbound
    BY <1>25, SentByType DEF SendFeedback, TypeOK, Inbound, Performing
  <2> QED BY <1>25, <2>1 DEF SendFeedback, TypeOK, Outbound, Inbound, States, executorVars, threadVars, performerVars, counters
<1>26. ASSUME NEW p \in Performers, NEW type \in Finishes, Finish(p, type) PROVE TypeOK'
  <2>1. toExecutors' \in Inbound
    BY <1>26, SentByType DEF Finish, TypeOK, Inbound, Performing
  <2>2. unstarted' \in Nat
    <3>1. CASE UNCHANGED unstarted
      BY <3>1 DEF TypeOK
    <3>2. CASE /\ unstarted < MaxUnstarted \/ MayRecur(unstarted)
               /\ unstarted' = Counted(unstarted, MaxUnstarted)
      BY <3>2, FaultCounts DEF TypeOK
    <3> QED BY <1>26, <3>1, <3>2 DEF Finish
  <2> QED BY <1>26, <2>1, <2>2 DEF Finish, TypeOK, Outbound, Inbound, States, executorVars, threadVars, performerVars, counters
<1>27. CASE UNCHANGED vars
  BY <1>27 DEF vars, TypeOK, Outbound, Inbound, States, executorVars, threadVars, performerVars, counters
<1> QED
  BY <1>1, <1>2, <1>3, <1>4, <1>5, <1>6, <1>7, <1>8, <1>9, <1>10, <1>11, <1>12, <1>13, <1>14, <1>15, <1>16, <1>17, <1>18, <1>19, <1>20, <1>21, <1>22, <1>23, <1>24, <1>25, <1>26, <1>27
  DEF Next, Plans, Tick, Ending, ExecutorCallback, PerformerCallback, Work

LEMMA TypeAtFirst == Init => TypeOK
  BY HubAssumption DEF Init, TypeOK, States, Decisions, Requester, Performing

\* In every state the variables have their types: enumerations of the code, and
\* queues that hold only what their publisher may publish.
THEOREM TypeCorrect == Spec => []TypeOK
  BY TypeAtFirst, TypeKept, PTL DEF Spec

-----------------------------------------------------------------------------
(* Messages of some types in a queue, as one is appended or taken.         *)

Lone(queue, types) == \A i, j \in Among(queue, types) : i = j

LEMMA AppendElsewhere ==
  ASSUME NEW T, NEW queue \in Seq(T), NEW msg \in T, NEW types, msg \notin types
  PROVE  Among(Append(queue, msg), types) = Among(queue, types)
  BY DEF Among

LEMMA AppendHere ==
  ASSUME NEW T, NEW queue \in Seq(T), NEW msg \in T, NEW types,
         Among(queue, types) = {}
  PROVE  Lone(Append(queue, msg), types)
  BY DEF Among, Lone

LEMMA TailHasFewer ==
  ASSUME NEW T, NEW queue \in Seq(T), queue # <<>>, NEW types
  PROVE  /\ Among(queue, types) = {} => Among(Tail(queue), types) = {}
         /\ Lone(queue, types) => Lone(Tail(queue), types)
<1>1. \A i \in Among(Tail(queue), types) : i + 1 \in Among(queue, types)
  BY DEF Among
<1>2. \A i \in Among(Tail(queue), types) : i \in Nat
  BY DEF Among
<1> QED BY <1>1, <1>2 DEF Lone

LEMMA HeadIsThere ==
  ASSUME NEW T, NEW queue \in Seq(T), queue # <<>>, NEW types, Head(queue) \in types
  PROVE  /\ Among(queue, types) # {}
         /\ Lone(queue, types) => Among(Tail(queue), types) = {}
<1>1. 1 \in Among(queue, types)
  BY DEF Among
<1>2. \A i \in Among(Tail(queue), types) : i + 1 \in Among(queue, types) /\ i + 1 # 1
  BY DEF Among
<1> QED BY <1>1, <1>2 DEF Lone

-----------------------------------------------------------------------------
(* The tokens of a performer.  A performer is asked by broadcast, and every *)
(* executor may answer it: that a CONFIRM finds it ready rests on there     *)
(* being one RESPONSE, CONFIRM or REJECT at most between it and all the     *)
(* executors, and on its waiting, committed, as long as there is one.       *)

Responses(e, p) == Among(toExecutors[p][e], {"RESPONSE"})
AnswersTo(e, p) == Among(toPerformers[e][p], Answers)

NoToken(p) ==
  \A e \in Executors : Responses(e, p) = {} /\ AnswersTo(e, p) = {}

OneToken(p) ==
  /\ \A e \in Executors : /\ Lone(toExecutors[p][e], {"RESPONSE"})
                          /\ Lone(toPerformers[e][p], Answers)
  /\ \A e, f \in Executors :
       /\ e # f => Responses(e, p) = {} \/ Responses(f, p) = {}
       /\ e # f => AnswersTo(e, p) = {} \/ AnswersTo(f, p) = {}
       /\ Responses(e, p) = {} \/ AnswersTo(f, p) = {}

TokenInv(p) ==
  /\ OneToken(p)
  /\ NoToken(p) \/ Ready(p)
  /\ lifecycle[p] = "active" => ~committed[p]

\* The executors of one plan are made for different actions.
DistinctActions ==
  \A e, f \in Executors : PlanOf[e] = PlanOf[f] /\ ExprOf[e] = ExprOf[f] => e = f

DistinctAlive == \A e, f \in alive : ExprOf[e] = ExprOf[f] => e = f

IInv ==
  /\ TypeOK
  /\ DistinctAlive
  /\ crashes = 0 => \A p \in Performers : TokenInv(p)

\* No message of p's queues is new that counts as a token.
NoNewResponse(p) ==
  \A e \in Executors :
    /\ Responses(e, p) = {} => Responses(e, p)' = {}
    /\ Lone(toExecutors[p][e], {"RESPONSE"}) => Lone(toExecutors'[p][e], {"RESPONSE"})

NoNewAnswer(p) ==
  \A e \in Executors :
    /\ AnswersTo(e, p) = {} => AnswersTo(e, p)' = {}
    /\ Lone(toPerformers[e][p], Answers) => Lone(toPerformers'[e][p], Answers)

LEMMA NothingNewKeeps ==
  ASSUME NEW p \in Performers, NoNewResponse(p), NoNewAnswer(p)
  PROVE  (OneToken(p) => OneToken(p)') /\ (NoToken(p) => NoToken(p)')
<1>1. NoToken(p) => NoToken(p)'
  BY DEF NoNewResponse, NoNewAnswer, NoToken
<1>2. ASSUME OneToken(p) PROVE OneToken(p)'
  <2>1. \A e \in Executors : /\ Lone(toExecutors'[p][e], {"RESPONSE"})
                            /\ Lone(toPerformers'[e][p], Answers)
    BY <1>2 DEF NoNewResponse, NoNewAnswer, OneToken
  <2>2. \A e, f \in Executors :
           /\ e # f => Responses(e, p)' = {} \/ Responses(f, p)' = {}
           /\ e # f => AnswersTo(e, p)' = {} \/ AnswersTo(f, p)' = {}
           /\ Responses(e, p)' = {} \/ AnswersTo(f, p)' = {}
    BY <1>2 DEF NoNewResponse, NoNewAnswer, OneToken
  <2> QED BY <2>1, <2>2 DEF OneToken, Responses, AnswersTo, Answers
<1> QED BY <1>1, <1>2

\* A step that brings p no token and does not touch its promise keeps TokenInv.
LEMMA QuietStep ==
  ASSUME NEW p \in Performers, TokenInv(p), NoNewResponse(p), NoNewAnswer(p),
         lifecycle'[p] = lifecycle[p], committed'[p] = committed[p]
  PROVE  TokenInv(p)'
  BY NothingNewKeeps DEF TokenInv, Ready

\* What an executor publishes brings nobody a token, unless it is an answer.
LEMMA SentToElsewhere ==
  ASSUME TypeOK, NEW e \in Executors, NEW open, NEW to, NEW msg \in Requester,
         msg \notin Answers, NEW f \in Executors, NEW p \in Performers
  PROVE  Among(SentTo(e, open, to, msg)[f][p], Answers) = AnswersTo(f, p)
<1>1. toPerformers[f][p] \in Seq(Requester)
  BY DEF TypeOK
<1>2. SentTo(e, open, to, msg)[f][p] \in {toPerformers[f][p], Append(toPerformers[f][p], msg)}
  BY DEF TypeOK, SentTo
<1>3. Among(Append(toPerformers[f][p], msg), Answers) = Among(toPerformers[f][p], Answers)
  BY <1>1, AppendElsewhere
<1> QED BY <1>2, <1>3 DEF AnswersTo

LEMMA SentByElsewhere ==
  ASSUME TypeOK, NEW p \in Performers, NEW x, NEW msg \in Performing,
         msg # "RESPONSE", NEW q \in Performers, NEW e \in Executors
  PROVE  Among(SentBy(p, toExecutors, x, msg)[q][e], {"RESPONSE"}) = Responses(e, q)
<1>1. toExecutors[q][e] \in Seq(Performing)
  BY DEF TypeOK
<1>2. SentBy(p, toExecutors, x, msg)[q][e] \in
        {toExecutors[q][e], Append(toExecutors[q][e], msg)}
  BY DEF TypeOK, SentBy
<1>3. msg \notin {"RESPONSE"}
  OBVIOUS
<1>4. Among(Append(toExecutors[q][e], msg), {"RESPONSE"}) = Among(toExecutors[q][e], {"RESPONSE"})
  BY <1>1, <1>3, AppendElsewhere
<1> QED BY <1>2, <1>4 DEF Responses

\* Queues that are left alone, read from, or written to with something else
\* than a token.
LEMMA SameResponses ==
  ASSUME NEW q \in Performers, \A e \in Executors : toExecutors'[q][e] = toExecutors[q][e]
  PROVE  NoNewResponse(q)
  BY DEF NoNewResponse, Responses

LEMMA SameAnswers ==
  ASSUME NEW q \in Performers, \A e \in Executors : toPerformers'[e][q] = toPerformers[e][q]
  PROVE  NoNewAnswer(q)
  BY DEF NoNewAnswer, AnswersTo, Answers

LEMMA ReceiveIsQuiet ==
  ASSUME TypeOK, NEW p \in Performers, NEW e \in Executors, NEW type,
         Receive(p, e, type), NEW q \in Performers
  PROVE  NoNewResponse(q)
<1> SUFFICES ASSUME NEW f \in Executors
             PROVE  /\ Responses(f, q) = {} => Responses(f, q)' = {}
                    /\ Lone(toExecutors[q][f], {"RESPONSE"})
                         => Lone(toExecutors'[q][f], {"RESPONSE"})
  BY DEF NoNewResponse
<1>1. toExecutors[q][f] \in Seq(Performing)
  BY DEF TypeOK
<1>2. \/ toExecutors'[q][f] = toExecutors[q][f]
      \/ toExecutors[q][f] # <<>> /\ toExecutors'[q][f] = Tail(toExecutors[q][f])
  BY DEF TypeOK, Receive
<1> QED BY <1>1, <1>2, TailHasFewer DEF Responses

LEMMA TakeIsQuiet ==
  ASSUME TypeOK, NEW p \in Performers, NEW e \in Executors, NEW type,
         Take(e, p, type), NEW q \in Performers
  PROVE  NoNewAnswer(q)
<1> SUFFICES ASSUME NEW f \in Executors
             PROVE  /\ AnswersTo(f, q) = {} => AnswersTo(f, q)' = {}
                    /\ Lone(toPerformers[f][q], Answers) => Lone(toPerformers'[f][q], Answers)
  BY DEF NoNewAnswer
<1>1. toPerformers[f][q] \in Seq(Requester)
  BY DEF TypeOK
<1>2. \/ toPerformers'[f][q] = toPerformers[f][q]
      \/ toPerformers[f][q] # <<>> /\ toPerformers'[f][q] = Tail(toPerformers[f][q])
  BY DEF TypeOK, Take
<1> QED BY <1>1, <1>2, TailHasFewer DEF AnswersTo, Answers

LEMMA SentToIsQuiet ==
  ASSUME TypeOK, NEW e \in Executors, NEW open, NEW to, NEW msg \in Requester,
         msg \notin Answers, toPerformers' = SentTo(e, open, to, msg),
         NEW q \in Performers
  PROVE  NoNewAnswer(q)
  BY SentToElsewhere DEF NoNewAnswer, AnswersTo, Lone, Answers

LEMMA SentByIsQuiet ==
  ASSUME TypeOK, NEW p \in Performers, NEW x, NEW msg \in Performing,
         msg # "RESPONSE", toExecutors' = SentBy(p, toExecutors, x, msg),
         NEW q \in Performers
  PROVE  NoNewResponse(q)
  BY SentByElsewhere DEF NoNewResponse, Responses, Lone

-----------------------------------------------------------------------------
(* The steps that make, hand over or end a token.                          *)

\* A performer that is not committed, or is not inactive, has no token.
LEMMA UnreadyHasNone ==
  ASSUME NEW p \in Performers, TokenInv(p), ~Ready(p) PROVE NoToken(p)
  BY DEF TokenInv

LEMMA NoTokenIsOne ==
  ASSUME NEW p \in Performers, NoToken(p) PROVE OneToken(p)
  BY DEF NoToken, OneToken, Lone, Responses, AnswersTo

\* A performer offers itself only if it has no token, and then has one, because
\* one executor at most is made for the action.
LEMMA RequestKeeps ==
  ASSUME IInv, crashes = 0, NEW e \in Executors, NEW p \in Performers,
         HandleRequest(e, p), NEW q \in Performers
  PROVE  TokenInv(q)'
<1>0. TypeOK /\ TokenInv(q) /\ NoNewAnswer(q)
  BY TakeIsQuiet DEF IInv, HandleRequest
<1>1. CASE UNCHANGED <<committed, toExecutors>>
  <2>1. NoNewResponse(q)
    BY <1>1, SameResponses
  <2> QED BY <1>0, <1>1, <2>1, QuietStep DEF HandleRequest
<1>2. CASE q # p /\ committed' = [committed EXCEPT ![p] = TRUE]
           /\ toExecutors' = SentBy(p, toExecutors, ExprOf[e], "RESPONSE")
  <2>1. \A f \in Executors : toExecutors'[q][f] = toExecutors[q][f]
    BY <1>2, <1>0 DEF SentBy, TypeOK
  <2>2. NoNewResponse(q)
    BY <2>1, SameResponses
  <2>3. committed'[q] = committed[q]
    BY <1>2, <1>0 DEF TypeOK
  <2> QED BY <1>0, <2>2, <2>3, QuietStep DEF HandleRequest
<1>3. CASE /\ q = p /\ lifecycle[p] = "inactive" /\ ~committed[p]
           /\ committed' = [committed EXCEPT ![p] = TRUE]
           /\ toExecutors' = SentBy(p, toExecutors, ExprOf[e], "RESPONSE")
  <2>1. NoToken(p)
    BY <1>0, <1>3, UnreadyHasNone DEF Ready
  <2>2. \A f \in Executors : AnswersTo(f, p)' = {}
    BY <2>1, <1>0, <1>3 DEF NoNewAnswer, NoToken
  <2>3. \A f \in Executors \ Same(ExprOf[e]) : toExecutors'[p][f] = toExecutors[p][f]
    BY <1>0, <1>3 DEF SentBy, TypeOK
  <2>4. \A f \in Executors \ Same(ExprOf[e]) : Responses(f, p)' = {}
    BY <2>1, <2>3 DEF NoToken, Responses
  <2>5. \A f \in Executors : Lone(toExecutors'[p][f], {"RESPONSE"})
    <3> SUFFICES ASSUME NEW f \in Executors PROVE Lone(toExecutors'[p][f], {"RESPONSE"})
      OBVIOUS
    <3>1. CASE f \in Same(ExprOf[e])
      <4>1. toExecutors'[p][f] = Append(toExecutors[p][f], "RESPONSE")
        BY <3>1, <1>0, <1>3 DEF SentBy, TypeOK
      <4>2. toExecutors[p][f] \in Seq(Performing) /\ "RESPONSE" \in Performing
        BY <1>0 DEF TypeOK, Performing
      <4>3. Among(toExecutors[p][f], {"RESPONSE"}) = {}
        BY <2>1 DEF NoToken, Responses
      <4>4. "RESPONSE" \in {"RESPONSE"}
        OBVIOUS
      <4> QED BY <4>1, <4>2, <4>3, <4>4, AppendHere
    <3>2. CASE f \notin Same(ExprOf[e])
      BY <3>2, <2>4 DEF Responses, Lone
    <3> QED BY <3>1, <3>2
  <2>6. \A f, g \in Executors : f # g => Responses(f, p)' = {} \/ Responses(g, p)' = {}
    <3>1. \A f, g \in Same(ExprOf[e]) : f = g
      BY DEF IInv, DistinctAlive, Same
    <3> QED BY <3>1, <2>4
  <2>7. OneToken(p)'
    <3>1. \A f \in Executors : Lone(toPerformers'[f][p], Answers)
      BY <2>2 DEF AnswersTo, Lone, Answers
    <3> QED BY <2>2, <2>5, <2>6, <3>1 DEF OneToken, Responses, AnswersTo, Answers
  <2>8. Ready(p)' /\ lifecycle'[p] # "active"
    BY <1>0, <1>3 DEF HandleRequest, Ready, TypeOK
  <2> QED BY <1>3, <2>7, <2>8 DEF TokenInv
<1> QED BY <1>1, <1>2, <1>3 DEF HandleRequest

\* A RESPONSE becomes one CONFIRM or REJECT at most.
LEMMA ResponseKeeps ==
  ASSUME IInv, crashes = 0, NEW p \in Performers, NEW e \in Executors,
         HandleResponse(p, e), NEW q \in Performers
  PROVE  TokenInv(q)'
<1>0. TypeOK /\ TokenInv(q) /\ NoNewResponse(q)
  BY ReceiveIsQuiet DEF IInv, HandleResponse
<1>1. PICK msg \in Answers : toPerformers' = SentTo(e, hubOpen[e], {p}, msg)
  BY DEF HandleResponse, Answers
<1>2. lifecycle'[q] = lifecycle[q] /\ committed'[q] = committed[q]
  BY DEF HandleResponse, performerVars
<1>3. CASE q # p
  <2>1. \A f \in Executors : toPerformers'[f][q] = toPerformers[f][q]
    BY <1>0, <1>1, <1>3 DEF SentTo, TypeOK
  <2>2. NoNewAnswer(q)
    BY <2>1, SameAnswers
  <2> QED BY <1>0, <1>2, <2>2, QuietStep
<1>4. CASE q = p
  <2>1. /\ toExecutors[p][e] \in Seq(Performing) /\ toExecutors[p][e] # <<>>
        /\ Head(toExecutors[p][e]) \in {"RESPONSE"}
    BY <1>0 DEF HandleResponse, Receive, TypeOK
  <2>2. Responses(e, p) # {} /\ OneToken(p) /\ Ready(p)
    BY <1>0, <1>4, <2>1, HeadIsThere DEF TokenInv, NoToken, Responses
  <2>3. Lone(toExecutors[p][e], {"RESPONSE"})
    BY <2>2 DEF OneToken
  <2>4. Responses(e, p)' = {}
    <3>1. toExecutors'[p][e] = Tail(toExecutors[p][e])
      BY <1>0 DEF HandleResponse, Receive, TypeOK
    <3> QED BY <2>1, <2>3, <3>1, HeadIsThere DEF Responses
  <2>5. \A f \in Executors : Responses(f, p)' = {}
    BY <1>0, <1>4, <2>2, <2>4 DEF OneToken, NoNewResponse
  <2>6. \A f \in Executors : AnswersTo(f, p) = {}
    BY <2>2 DEF OneToken
  <2>7. \A f \in Executors : f # e => AnswersTo(f, p)' = {}
    <3>1. \A f \in Executors : f # e => toPerformers'[f][p] = toPerformers[f][p]
      BY <1>0, <1>1 DEF SentTo, TypeOK
    <3> QED BY <2>6, <3>1 DEF AnswersTo, Answers
  <2>8. Lone(toPerformers'[e][p], Answers)
    <3>1. toPerformers'[e][p] \in {toPerformers[e][p], Append(toPerformers[e][p], msg)}
      BY <1>0, <1>1 DEF SentTo, TypeOK
    <3>2. toPerformers[e][p] \in Seq(Requester) /\ msg \in Requester
      BY <1>0 DEF TypeOK, Answers, Requester
    <3>3. Among(toPerformers[e][p], Answers) = {}
      BY <2>6 DEF AnswersTo
    <3>4. Lone(Append(toPerformers[e][p], msg), Answers)
      BY <3>2, <3>3, AppendHere
    <3>5. Lone(toPerformers[e][p], Answers)
      BY <3>3 DEF Lone
    <3> QED BY <3>1, <3>4, <3>5
  <2>9. OneToken(p)'
    <3>1. \A f \in Executors : /\ Lone(toExecutors'[p][f], {"RESPONSE"})
                              /\ Lone(toPerformers'[f][p], Answers)
      BY <2>5, <2>7, <2>8 DEF Responses, AnswersTo, Lone, Answers
    <3> QED BY <2>5, <2>7, <3>1 DEF OneToken, Responses, AnswersTo, Answers
  <2> QED BY <1>0, <1>2, <1>4, <2>2, <2>9 DEF TokenInv, Ready
<1> QED BY <1>3, <1>4

\* Taking an answer ends the only token of a performer.
LEMMA AnswerEndsToken ==
  ASSUME TypeOK, NEW p \in Performers, NEW e \in Executors, NEW type \in Answers,
         OneToken(p), Take(e, p, type), NoNewResponse(p)
  PROVE  NoToken(p)'
<1>1. /\ toPerformers[e][p] \in Seq(Requester) /\ toPerformers[e][p] # <<>>
      /\ Head(toPerformers[e][p]) \in Answers
      /\ toPerformers'[e][p] = Tail(toPerformers[e][p])
  BY DEF TypeOK, Take
<1>2. AnswersTo(e, p) # {} /\ AnswersTo(e, p)' = {}
  BY <1>1, HeadIsThere DEF OneToken, AnswersTo, Answers
<1>3. \A f \in Executors : AnswersTo(f, p)' = {}
  BY <1>2, TakeIsQuiet DEF OneToken, NoNewAnswer
<1>4. \A f \in Executors : Responses(f, p)' = {}
  BY <1>2 DEF OneToken, NoNewResponse
<1> QED BY <1>3, <1>4 DEF NoToken

\* A step that brings p no token may change its promise as long as the promise
\* holds for the token p has, if any.
LEMMA PromiseKept ==
  ASSUME NEW p \in Performers, TokenInv(p), NoNewResponse(p), NoNewAnswer(p),
         NoToken(p) \/ Ready(p)', lifecycle'[p] = "active" => ~committed'[p]
  PROVE  TokenInv(p)'
  BY NothingNewKeeps DEF TokenInv

LEMMA ConfirmKeeps ==
  ASSUME IInv, crashes = 0, NEW e \in Executors, NEW p \in Performers,
         HandleConfirm(e, p), NEW q \in Performers
  PROVE  TokenInv(q)'
<1>0. TypeOK /\ TokenInv(q) /\ Take(e, p, "CONFIRM")
  BY DEF IInv, HandleConfirm
<1>1. NoNewResponse(q)
  <2>1. CASE UNCHANGED toExecutors
    BY <2>1, SameResponses
  <2>2. CASE toExecutors' = SentBy(p, toExecutors, ExprOf[e], "FINISH_UNSTARTED")
    <3>1. "FINISH_UNSTARTED" \in Performing
      BY DEF Performing, Finishes
    <3> QED BY <1>0, <2>2, <3>1, SentByIsQuiet
  <2> QED BY <2>1, <2>2 DEF HandleConfirm
<1>2. NoNewAnswer(q)
  BY <1>0, TakeIsQuiet
<1>3. committed' = [committed EXCEPT ![p] = FALSE]
  BY DEF HandleConfirm
<1>4. lifecycle' \in {lifecycle, [lifecycle EXCEPT ![p] = "active"]}
  BY DEF HandleConfirm
<1>5. CASE q # p
  <2>1. lifecycle'[q] = lifecycle[q] /\ committed'[q] = committed[q]
    BY <1>0, <1>3, <1>4, <1>5 DEF TypeOK
  <2> QED BY <1>0, <1>1, <1>2, <2>1, QuietStep
<1>6. CASE q = p
  <2>1. ~committed'[q]
    BY <1>0, <1>3, <1>6 DEF TypeOK
  <2>2. NoToken(p)'
    <3>1. OneToken(p) /\ "CONFIRM" \in Answers
      BY <1>0, <1>6 DEF TokenInv, Answers
    <3> QED BY <1>0, <1>1, <1>6, <3>1, AnswerEndsToken
  <2>3. OneToken(p)'
    BY <1>0, <1>1, <1>2, <1>6, NothingNewKeeps DEF TokenInv
  <2> QED BY <1>6, <2>1, <2>2, <2>3 DEF TokenInv
<1> QED BY <1>5, <1>6

LEMMA RejectKeeps ==
  ASSUME IInv, crashes = 0, NEW e \in Executors, NEW p \in Performers,
         HandleReject(e, p), NEW q \in Performers
  PROVE  TokenInv(q)'
<1>0. TypeOK /\ TokenInv(q) /\ Take(e, p, "REJECT")
  BY DEF IInv, HandleReject
<1>1. NoNewResponse(q)
  BY SameResponses DEF HandleReject
<1>2. NoNewAnswer(q)
  BY <1>0, TakeIsQuiet
<1>3. committed' = [committed EXCEPT ![p] = FALSE] /\ lifecycle' = lifecycle
  BY DEF HandleReject
<1>4. CASE q # p
  <2>1. committed'[q] = committed[q]
    BY <1>0, <1>3, <1>4 DEF TypeOK
  <2> QED BY <1>0, <1>1, <1>2, <1>3, <2>1, QuietStep
<1>5. CASE q = p
  <2>1. ~committed'[q]
    BY <1>0, <1>3, <1>5 DEF TypeOK
  <2>2. NoToken(p)'
    <3>1. OneToken(p) /\ "REJECT" \in Answers
      BY <1>0, <1>5 DEF TokenInv, Answers
    <3> QED BY <1>0, <1>1, <1>5, <3>1, AnswerEndsToken
  <2>3. OneToken(p)'
    BY <1>0, <1>1, <1>2, <1>5, NothingNewKeeps DEF TokenInv
  <2> QED BY <1>5, <2>1, <2>2, <2>3 DEF TokenInv
<1> QED BY <1>4, <1>5

-----------------------------------------------------------------------------
(* The other steps of a performer.                                         *)

LEMMA CancelKeeps ==
  ASSUME IInv, crashes = 0, NEW e \in Executors, NEW p \in Performers,
         HandleCancel(e, p), NEW q \in Performers
  PROVE  TokenInv(q)'
<1>0. TypeOK /\ TokenInv(q) /\ Take(e, p, "CANCEL")
  BY DEF IInv, HandleCancel
<1>1. NoNewResponse(q)
  BY SameResponses DEF HandleCancel
<1>2. NoNewAnswer(q)
  BY <1>0, TakeIsQuiet
<1>3. /\ committed' = committed
      /\ lifecycle'[q] = IF q = p THEN "inactive" ELSE lifecycle[q]
  BY <1>0 DEF HandleCancel, TypeOK
<1>4. NoToken(q) \/ Ready(q)'
  BY <1>0, <1>3 DEF TokenInv, Ready
<1>5. lifecycle'[q] = "active" => ~committed'[q]
  BY <1>0, <1>3 DEF TokenInv
<1> QED BY <1>0, <1>1, <1>2, <1>4, <1>5, PromiseKept

LEMMA FinishKeeps ==
  ASSUME IInv, crashes = 0, NEW p \in Performers, NEW type \in Finishes,
         Finish(p, type), NEW q \in Performers
  PROVE  TokenInv(q)'
<1>0. TypeOK /\ TokenInv(q)
  BY DEF IInv
<1>1. NoNewResponse(q)
  <2>1. type \in Performing /\ type # "RESPONSE"
    BY DEF Performing, Finishes
  <2> QED BY <1>0, <2>1, SentByIsQuiet DEF Finish
<1>2. NoNewAnswer(q)
  BY SameAnswers DEF Finish
<1>3. /\ committed' = committed /\ lifecycle[p] = "active"
      /\ lifecycle'[q] = IF q = p THEN "inactive" ELSE lifecycle[q]
  BY <1>0 DEF Finish, TypeOK
<1>4. NoToken(q) \/ Ready(q)'
  BY <1>0, <1>3 DEF TokenInv, Ready
<1>5. lifecycle'[q] = "active" => ~committed'[q]
  BY <1>0, <1>3 DEF TokenInv
<1> QED BY <1>0, <1>1, <1>2, <1>4, <1>5, PromiseKept

LEMMA ConfigureKeeps ==
  ASSUME IInv, crashes = 0, NEW p \in Performers, Configure(p), NEW q \in Performers
  PROVE  TokenInv(q)'
<1>0. TypeOK /\ TokenInv(q)
  BY DEF IInv
<1>1. NoNewResponse(q) /\ NoNewAnswer(q)
  BY SameResponses, SameAnswers DEF Configure
<1>2. /\ committed' = committed /\ lifecycle[p] = "down"
      /\ lifecycle'[q] = IF q = p THEN "inactive" ELSE lifecycle[q]
  BY <1>0 DEF Configure, TypeOK, IsUp
<1>3. NoToken(q) \/ Ready(q)'
  BY <1>0, <1>2 DEF TokenInv, Ready
<1>4. lifecycle'[q] = "active" => ~committed'[q]
  BY <1>0, <1>2 DEF TokenInv
<1> QED BY <1>0, <1>1, <1>3, <1>4, PromiseKept

LEMMA WorkIsQuiet ==
  ASSUME IInv, crashes = 0, NEW p \in Performers, NEW type \in Feedbacks,
         SendFeedback(p, type), NEW q \in Performers
  PROVE  TokenInv(q)'
<1>0. TypeOK /\ TokenInv(q)
  BY DEF IInv
<1>1. type \in Performing /\ type # "RESPONSE"
  BY DEF Performing, Feedbacks
<1>2. NoNewResponse(q)
  BY <1>0, <1>1, SentByIsQuiet DEF SendFeedback
<1>3. NoNewAnswer(q)
  BY SameAnswers DEF SendFeedback
<1> QED BY <1>0, <1>2, <1>3, QuietStep DEF SendFeedback, performerVars

LEMMA IgnoreConfirmIsQuiet ==
  ASSUME IInv, crashes = 0, NEW e \in Executors, NEW p \in Performers,
         IgnoreConfirm(e, p), NEW q \in Performers
  PROVE  TokenInv(q)'
<1>0. TypeOK /\ TokenInv(q) /\ Take(e, p, "CONFIRM")
  BY DEF IInv, IgnoreConfirm
<1>1. NoNewResponse(q)
  BY SameResponses DEF IgnoreConfirm
<1>2. NoNewAnswer(q)
  BY <1>0, TakeIsQuiet
<1> QED BY <1>0, <1>1, <1>2, QuietStep DEF IgnoreConfirm, performerVars

-----------------------------------------------------------------------------
(* The steps of the executors.                                             *)

LEMMA TickIsQuiet ==
  ASSUME IInv, crashes = 0, NEW e \in Executors, Tick(e) \/ Ending(e) \/ WaitTimeout(e),
         NEW q \in Performers
  PROVE  TokenInv(q)'
<1>0. TypeOK /\ TokenInv(q)
  BY DEF IInv
<1>1. lifecycle' = lifecycle /\ committed' = committed /\ toExecutors' = toExecutors
  BY DEF Tick, Ending, StartDealing, DecideGiveUp, GiveUp, DecideRetry, Retry,
         CancelIfRunning, Cancel, WaitTimeout, performerVars
<1>2. \/ toPerformers' = toPerformers
      \/ \E open, to : toPerformers' = SentTo(e, open, to, "REQUEST")
      \/ \E open, to : toPerformers' = SentTo(e, open, to, "CANCEL")
  BY DEF Tick, Ending, StartDealing, DecideGiveUp, GiveUp, DecideRetry, Retry,
         CancelIfRunning, Cancel, WaitTimeout
<1>3. NoNewResponse(q)
  BY <1>1, SameResponses
<1>4. NoNewAnswer(q)
  <2>1. /\ "REQUEST" \in Requester /\ "REQUEST" \notin Answers
        /\ "CANCEL" \in Requester /\ "CANCEL" \notin Answers
    BY DEF Requester, Answers
  <2>2. CASE toPerformers' = toPerformers
    BY <2>2, SameAnswers
  <2>3. ASSUME NEW open, NEW to, toPerformers' = SentTo(e, open, to, "REQUEST")
        PROVE  NoNewAnswer(q)
    BY <1>0, <2>1, <2>3, SentToIsQuiet
  <2>4. ASSUME NEW open, NEW to, toPerformers' = SentTo(e, open, to, "CANCEL")
        PROVE  NoNewAnswer(q)
    BY <1>0, <2>1, <2>4, SentToIsQuiet
  <2> QED BY <1>2, <2>2, <2>3, <2>4
<1> QED BY <1>0, <1>1, <1>3, <1>4, QuietStep

\* Feedback and the end of some work are read, and a REQUEST may go out again.
LEMMA ReadingIsQuiet ==
  ASSUME IInv, crashes = 0, NEW e \in Executors, NEW p \in Performers,
         \/ \E type \in Feedbacks : HandleFeedback(p, e, type)
         \/ HandleFinish(p, e) \/ HandleUnstarted(p, e) \/ IgnoreFinish(p, e),
         NEW q \in Performers
  PROVE  TokenInv(q)'
<1>0. TypeOK /\ TokenInv(q)
  BY DEF IInv
<1>1. lifecycle' = lifecycle /\ committed' = committed
  BY DEF HandleFeedback, HandleFinish, HandleUnstarted, IgnoreFinish, performerVars
<1>2. \E type : Receive(p, e, type)
  BY DEF HandleFeedback, HandleFinish, HandleUnstarted, IgnoreFinish, FinishesIn
<1>3. NoNewResponse(q)
  BY <1>0, <1>2, ReceiveIsQuiet
<1>4. \/ toPerformers' = toPerformers
      \/ toPerformers' = SentTo(e, hubOpen[e], Performers, "REQUEST")
  BY DEF HandleFeedback, HandleFinish, HandleUnstarted, IgnoreFinish
<1>5. NoNewAnswer(q)
  <2>1. "REQUEST" \in Requester /\ "REQUEST" \notin Answers
    BY DEF Requester, Answers
  <2>2. CASE toPerformers' = toPerformers
    BY <2>2, SameAnswers
  <2>3. CASE toPerformers' = SentTo(e, hubOpen[e], Performers, "REQUEST")
    BY <1>0, <2>1, <2>3, SentToIsQuiet
  <2> QED BY <1>4, <2>2, <2>3
<1> QED BY <1>0, <1>1, <1>3, <1>5, QuietStep

\* A new plan forgets messages, and of the answers sends none.
LEMMA PlansAreQuiet ==
  ASSUME IInv, crashes = 0, Plans, NEW q \in Performers
  PROVE  TokenInv(q)'
<1>0. TypeOK /\ TokenInv(q)
  BY DEF IInv
<1>1. lifecycle' = lifecycle /\ committed' = committed
  BY DEF Plans, EndMission, MissionOver, NewMission, Replan, performerVars
<1>2. \A e \in Executors : toExecutors'[q][e] \in {toExecutors[q][e], <<>>}
  BY <1>0 DEF Plans, EndMission, MissionOver, NewMission, Replan, NextPlan, TypeOK
<1>3. NoNewResponse(q)
  <2>1. \A e \in Executors : toExecutors'[q][e] = <<>> =>
          Among(toExecutors'[q][e], {"RESPONSE"}) = {}
    BY DEF Among
  <2> QED BY <1>2, <2>1 DEF NoNewResponse, Responses, Lone
<1>4. NoNewAnswer(q)
  <2>1. CASE toPerformers' = toPerformers
    BY <2>1, SameAnswers
  <2>2. ASSUME NEW kept \in SUBSET Executors, Replan(kept) PROVE NoNewAnswer(q)
    <3>1. "CANCEL" \in Requester /\ "CANCEL" \notin Answers
      BY DEF Requester, Answers
    <3>2. ASSUME NEW e \in Executors
          PROVE  toPerformers'[e][q] \in
                   {toPerformers[e][q],
                    SentTo(e, hubOpen[e], {performer[e]}, "CANCEL")[e][q]}
      BY <2>2 DEF Replan
    <3>3. ASSUME NEW e \in Executors
          PROVE  Among(toPerformers'[e][q], Answers) = AnswersTo(e, q)
      <4>1. Among(SentTo(e, hubOpen[e], {performer[e]}, "CANCEL")[e][q], Answers) = AnswersTo(e, q)
        BY <1>0, <3>1, SentToElsewhere
      <4> QED BY <3>2, <4>1 DEF AnswersTo
    <3> QED BY <3>3 DEF NoNewAnswer, AnswersTo, Lone, Answers
  <2> QED BY <2>1, <2>2 DEF Plans, EndMission, MissionOver, NewMission
<1> QED BY <1>0, <1>1, <1>3, <1>4, QuietStep

-----------------------------------------------------------------------------

\* The executors that exist are made for different actions, if those of each
\* plan are: a kept executor takes the place of the one made for its action.
LEMMA AliveKept ==
  ASSUME DistinctActions, IInv, [Next]_vars PROVE DistinctAlive'
<1>1. CASE alive' = alive
  BY <1>1 DEF IInv, DistinctAlive
<1>2. ASSUME NEW kept \in SUBSET alive, NextPlan(kept) PROVE DistinctAlive'
  <2>1. /\ kept \in SUBSET Executors
        /\ \A k, l \in kept : ExprOf[k] = ExprOf[l] => k = l
    BY DEF IInv, DistinctAlive, TypeOK
  <2> QED BY <1>2, <2>1 DEF NextPlan, DistinctAlive, DistinctActions
<1>3. CASE NewMission
  BY <1>2, <1>3 DEF NewMission
<1>4. ASSUME NEW kept \in SUBSET Executors, Replan(kept) PROVE DistinctAlive'
  <2>1. kept \in SUBSET alive /\ NextPlan(kept)
    BY <1>4 DEF Replan
  <2> QED BY <1>2, <2>1
<1>5. CASE UNCHANGED vars
  BY <1>1, <1>5 DEF vars, executorVars
<1>6. ASSUME NEW e \in Executors, Tick(e) \/ Ending(e) \/ WaitTimeout(e) PROVE alive' = alive
  BY <1>6 DEF Tick, Ending, StartDealing, DecideGiveUp, GiveUp, DecideRetry, Retry,
              CancelIfRunning, Cancel, WaitTimeout, executorVars
<1>7. ASSUME NEW e \in Executors, NEW p \in Performers,
             ExecutorCallback(p, e) \/ PerformerCallback(e, p)
      PROVE  alive' = alive
  BY <1>7 DEF ExecutorCallback, PerformerCallback, HandleResponse, HandleFeedback,
              HandleFinish, HandleUnstarted, IgnoreFinish, HandleRequest,
              HandleConfirm, IgnoreConfirm, HandleReject, HandleCancel, executorVars
<1>8. ASSUME NEW p \in Performers, Work(p) \/ Crash(p) \/ Configure(p) PROVE alive' = alive
  BY <1>8 DEF Work, SendFeedback, Finish, Crash, Configure, executorVars
<1>9. CASE EndMission \/ MissionOver
  BY <1>9, <1>1 DEF EndMission, MissionOver, executorVars
<1> QED BY <1>1, <1>3, <1>4, <1>5, <1>6, <1>7, <1>8, <1>9 DEF Next, Plans

\* Once a performer has crashed there is nothing to say; until then, every step
\* keeps the token of every performer.
LEMMA TokensKept ==
  ASSUME IInv, [Next]_vars, crashes' = 0, NEW q \in Performers PROVE TokenInv(q)'
<1>1. crashes = 0 /\ ~(\E p \in Performers : Crash(p))
  <2>1. ASSUME NEW p \in Performers, Crash(p) PROVE FALSE
    BY <2>1, CrashCounts DEF IInv
  <2>2. CASE UNCHANGED crashes
    BY <2>1, <2>2
  <2>3. ASSUME NEW e \in Executors, Tick(e) \/ Ending(e) \/ WaitTimeout(e)
        PROVE  UNCHANGED crashes
    BY <2>3 DEF Tick, Ending, StartDealing, DecideGiveUp, GiveUp, DecideRetry,
                Retry, CancelIfRunning, Cancel, WaitTimeout, counters
  <2>4. ASSUME NEW e \in Executors, NEW p \in Performers,
               ExecutorCallback(p, e) \/ PerformerCallback(e, p)
        PROVE  UNCHANGED crashes
    BY <2>4 DEF ExecutorCallback, PerformerCallback, HandleResponse,
                HandleFeedback, HandleFinish, HandleUnstarted, IgnoreFinish,
                HandleRequest, HandleConfirm, IgnoreConfirm, HandleReject,
                HandleCancel, counters
  <2>5. ASSUME NEW p \in Performers, Work(p) \/ Configure(p) PROVE UNCHANGED crashes
    BY <2>5 DEF Work, SendFeedback, Finish, Configure, counters
  <2>6. CASE Plans
    BY <2>6, <2>2, <2>1 DEF Plans, EndMission, MissionOver, NewMission, Replan, counters
  <2>7. CASE UNCHANGED vars
    BY <2>7, <2>2, <2>1 DEF vars, counters
  <2> QED BY <2>1, <2>2, <2>3, <2>4, <2>5, <2>6, <2>7 DEF Next
<1>2. ASSUME NEW e \in Executors, Tick(e) \/ Ending(e) \/ WaitTimeout(e)
      PROVE  TokenInv(q)'
  BY <1>1, <1>2, TickIsQuiet
<1>3. ASSUME NEW e \in Executors, NEW p \in Performers, ExecutorCallback(p, e)
      PROVE  TokenInv(q)'
  BY <1>1, <1>3, ReadingIsQuiet, ResponseKeeps DEF ExecutorCallback
<1>4. ASSUME NEW e \in Executors, NEW p \in Performers, PerformerCallback(e, p)
      PROVE  TokenInv(q)'
  BY <1>1, <1>4, RequestKeeps, ConfirmKeeps, IgnoreConfirmIsQuiet, RejectKeeps,
     CancelKeeps DEF PerformerCallback
<1>5. ASSUME NEW p \in Performers, Work(p) \/ Configure(p) PROVE TokenInv(q)'
  BY <1>1, <1>5, WorkIsQuiet, FinishKeeps, ConfigureKeeps DEF Work
<1>6. CASE Plans
  BY <1>1, <1>6, PlansAreQuiet
<1>7. CASE UNCHANGED vars
  <2>1. TokenInv(q)
    BY <1>1 DEF IInv
  <2> QED BY <1>7, <2>1, SameResponses, SameAnswers, QuietStep DEF vars, performerVars
<1> QED BY <1>1, <1>2, <1>3, <1>4, <1>5, <1>6, <1>7 DEF Next

LEMMA IInvAtFirst == ASSUME DistinctActions, Init PROVE IInv
<1>1. DistinctAlive
  BY DEF Init, DistinctAlive, DistinctActions
<1>2. ASSUME NEW p \in Performers PROVE TokenInv(p)
  <2>1. NoToken(p)
    BY DEF Init, NoToken, Responses, AnswersTo, Among
  <2> QED BY <2>1, NoTokenIsOne DEF Init, TokenInv
<1> QED BY <1>1, <1>2, TypeAtFirst DEF IInv

\* The inductive invariant: types, one executor per action, and for every
\* performer one token at most, which it waits for.
THEOREM TokensInvariant == ASSUME DistinctActions PROVE Spec => []IInv
<1>1. Init => IInv
  BY IInvAtFirst
<1>2. IInv /\ [Next]_vars => IInv'
  BY TypeKept, AliveKept, TokensKept DEF IInv
<1> QED BY <1>1, <1>2, PTL DEF Spec

\* Whatever the executors, performers and plans, and whatever they interleave: as
\* long as no performer crashes, a CONFIRM finds its performer inactive and
\* committed, so that the work is taken by the one it was given to.
THEOREM ConfirmFindsItsPerformer ==
  ASSUME DistinctActions PROVE Spec => []ConfirmFindsPerformerReady
<1>1. IInv => ConfirmFindsPerformerReady
  <2> SUFFICES ASSUME IInv, crashes = 0, NEW e \in Executors, NEW p \in Performers,
                      Among(toPerformers[e][p], {"CONFIRM"}) # {}
               PROVE  Ready(p)
    BY DEF ConfirmFindsPerformerReady
  <2>1. AnswersTo(e, p) # {}
    BY DEF AnswersTo, Among, Answers
  <2> QED BY <2>1 DEF IInv, TokenInv, NoToken
<1> QED BY <1>1, TokensInvariant, PTL

=============================================================================
