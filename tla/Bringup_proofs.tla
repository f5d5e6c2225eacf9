---------------------------- MODULE Bringup_proofs ----------------------------
(* What holds of the planner's solvers, whatever becomes of the nodes and of the *)
(* manager that starts them.                                                     *)
EXTENDS Bringup, FiniteSetTheorems, TLAPS

\* A solver is only in the call that the planning thread is at, and when the solvers are
\* destroyed there is none.
CallsInv ==
  /\ planning \in Requests \union {None}
  /\ call \in [Solvers -> [Requests -> {"none", "starting", "searching", "killed", "ended"}]]
  /\ \A s \in Solvers, r \in Requests : call[s][r] # "none" => r = planning
  /\ queue \in Seq(Requests)
  /\ stopped \in BOOLEAN
  /\ stopped => queue = <<>>
  /\ destroyed => stopped /\ planning = None

LEMMA InitHolds == Init => CallsInv
<1> SUFFICES ASSUME PlannerInit PROVE CallsInv
  BY DEF Init
<1>1. call \in [Solvers -> [Requests -> {"none", "starting", "searching", "killed", "ended"}]]
  BY DEF PlannerInit
<1>2. \A s \in Solvers, r \in Requests : call[s][r] = "none"
  BY DEF PlannerInit
<1>3. queue = <<>> /\ queue \in Seq(Requests)
  BY DEF PlannerInit
<1>4. planning = None /\ stopped = FALSE /\ destroyed = FALSE
  BY DEF PlannerInit
<1> QED BY <1>1, <1>2, <1>3, <1>4 DEF CallsInv

\* The search threads.
LEMMA SearchKeeps ==
  ASSUME CallsInv, NEW s \in Solvers, NEW r \in Requests,
         call[s][r] \in {"starting", "searching", "killed"},
         \E c \in {"searching", "killed", "ended"} : call' = [call EXCEPT ![s][r] = c],
         UNCHANGED <<queue, planning, stopped, destroyed>>
  PROVE  CallsInv'
BY DEF CallsInv

LEMMA WatchKeeps == CallsInv /\ Watch => CallsInv'
<1> SUFFICES ASSUME CallsInv, NEW s \in Solvers, NEW r \in Requests,
                    StartSearch(s, r) \/ KillSearch(s, r) \/ ReadToTheEnd(s, r)
             PROVE  CallsInv'
  BY DEF Watch, KillCancelled, KillLate
<1> QED BY SearchKeeps DEF StartSearch, KillSearch, ReadToTheEnd

LEMMA FinishKeeps == CallsInv /\ (\E s \in Solvers, r \in Requests : EndSearch(s, r)) => CallsInv'
BY SearchKeeps DEF EndSearch

\* The planning thread: while it is at a request it takes no other, and it leaves none
\* before every solver has.
LEMMA PlanningKeeps == CallsInv /\ PlanningThread => CallsInv'
<1> SUFFICES ASSUME CallsInv, PlanningThread PROVE CallsInv'
  OBVIOUS
<1> USE DEF CallsInv
<1>1. CASE Take
  <2>1. Head(queue) \in Requests /\ Tail(queue) \in Seq(Requests)
    BY <1>1 DEF Take
  <2>2. \A s \in Solvers, r \in Requests : call[s][r] = "none"
    BY <1>1, RequestAssumption DEF Take
  <2>3. call' = [s \in Solvers |-> [call[s] EXCEPT ![Head(queue)] = "starting"]]
    BY <1>1 DEF Take
  <2>4. \A s \in Solvers : call'[s] \in [Requests -> {"none", "starting", "searching", "killed", "ended"}]
    BY <2>1, <2>3
  <2>5. \A s \in Solvers, r \in Requests : call'[s][r] # "none" => r = Head(queue)
    BY <2>1, <2>2, <2>3
  <2> QED BY <1>1, <2>1, <2>3, <2>4, <2>5 DEF Take
<1>2. CASE CancelTheRest
  BY <1>2 DEF CancelTheRest
<1>3. CASE Answer
  BY <1>3 DEF Answer
<1> QED BY <1>1, <1>2, <1>3 DEF PlanningThread

\* The destructor joins the thread, and then the solvers are destroyed.
LEMMA EndKeeps == CallsInv /\ (Stop \/ Destroy) => CallsInv'
<1>1. ASSUME CallsInv, Stop PROVE CallsInv'
  <2>1. queue' = <<>> /\ queue' \in Seq(Requests)
    BY <1>1 DEF Stop
  <2>2. stopped' = TRUE /\ UNCHANGED <<planning, call, destroyed>>
    BY <1>1 DEF Stop
  <2> QED BY <1>1, <2>1, <2>2 DEF CallsInv
<1>2. ASSUME CallsInv, Destroy PROVE CallsInv'
  BY <1>2 DEF CallsInv, Destroy
<1> QED BY <1>1, <1>2

LEMMA ServiceKeeps == ASSUME CallsInv, NEW r \in Requests, Enqueue(r) PROVE CallsInv'
<1>1. queue' \in Seq(Requests)
  BY DEF CallsInv, Enqueue
<1>2. ~stopped /\ stopped' = stopped /\ UNCHANGED <<planning, call, destroyed>>
  BY DEF Enqueue
<1> QED BY <1>1, <1>2 DEF CallsInv

\* Whatever else a step of the system is, it leaves the planner alone.
LEMMA NextKeeps == CallsInv /\ [Next]_bringupVars => CallsInv'
<1> SUFFICES ASSUME CallsInv, [Next]_bringupVars PROVE CallsInv'
  OBVIOUS
<1>1. CASE UNCHANGED plannerVars
  BY <1>1 DEF CallsInv, plannerVars
<1>2. CASE \E r \in Requests : Serve(r)
  BY <1>2, ServiceKeeps DEF Serve
<1>3. CASE Plan \/ Solve \/ Finish
  BY <1>3, PlanningKeeps, WatchKeeps, FinishKeeps DEF Plan, Solve, Finish
<1>4. CASE Leave \/ Unload
  BY <1>4, EndKeeps DEF Leave, Unload
<1>5. CASE Manage \/ CtrlC \/ Validate \/ \E n \in Managed : Node(n) \/ Kill(n)
  BY <1>1, <1>5 DEF Manage, CtrlC, Validate, Node, Kill, AskToValidate, BeginValidation,
                    EndValidation, OfLife
<1> QED BY <1>1, <1>2, <1>3, <1>4, <1>5 DEF Next, bringupVars

\* For any number of solvers, requests and nodes: no two requests are in a solver at the
\* same time, and none is in one that has been destroyed.
THEOREM OneCallAtATime == Spec => []SolversAreNotShared
<1>1. CallsInv => SolversAreNotShared
  <2> SUFFICES ASSUME CallsInv, NEW s \in Solvers
               PROVE  LET inside == {r \in Requests : call[s][r] \in {"starting", "searching", "killed"}}
                      IN Cardinality(inside) <= 1 /\ (destroyed => inside = {})
    BY DEF SolversAreNotShared
  <2> DEFINE inside == {r \in Requests : call[s][r] \in {"starting", "searching", "killed"}}
  <2>1. inside \subseteq {planning}
    BY DEF CallsInv
  <2>2. Cardinality(inside) <= 1
    <3>1. IsFiniteSet({planning}) /\ Cardinality({planning}) = 1
      BY FS_Singleton
    <3>2. inside = {} \/ inside = {planning}
      BY <2>1
    <3> QED BY <3>1, <3>2, FS_EmptySet
  <2>3. destroyed => inside = {}
    BY <2>1, RequestAssumption DEF CallsInv
  <2> QED BY <2>2, <2>3
<1> QED BY InitHolds, NextKeeps, <1>1, PTL DEF Spec

-----------------------------------------------------------------------------
(* The order of the nodes.                                                 *)

\* Counting, for every node, those whose place in the list is no later than its own puts
\* the nodes in a sequence.
LEMMA NodesCanBeOrdered ==
  ASSUME NEW order, NEW len \in Nat, DOMAIN order = 1 .. len, IsInjective(order)
  PROVE  \E nodes \in [1 .. Cardinality(Managed) -> Managed] :
           /\ IsInjective(nodes)
           /\ \A i, j \in DOMAIN nodes : Precedes(order, nodes[i], nodes[j]) => i < j
<1> DEFINE size == Cardinality(Managed)
<1>1. size \in Nat /\ \E g : g \in Bijection(1 .. size, Managed)
  BY FS_CardinalityType, ManagedAssumption DEF ExistsBijection
<1>2. PICK g : g \in [1 .. size -> Managed] /\ IsInjective(g) /\ \A n \in Managed : \E i \in 1 .. size : g[i] = n
  BY <1>1 DEF Bijection, Injection, Surjection
<1> DEFINE position == [n \in Managed |-> CHOOSE i \in 1 .. size : g[i] = n]
           place == [n \in Managed |-> CHOOSE i \in 1 .. len : order[i] = n]
           key == [n \in Managed |-> IF \E i \in 1 .. len : order[i] = n THEN place[n]
                                     ELSE len + position[n]]
<1>3. \A n \in Managed : position[n] \in 1 .. size /\ g[position[n]] = n
  BY <1>2
<1>4. \A n \in Managed : (\E i \in 1 .. len : order[i] = n) => place[n] \in 1 .. len /\ order[place[n]] = n
  OBVIOUS
<1>5. /\ key \in [Managed -> Nat]
      /\ \A n \in Managed : IF \E i \in 1 .. len : order[i] = n
                            THEN key[n] \in 1 .. len /\ order[key[n]] = n
                            ELSE key[n] > len /\ key[n] = len + position[n]
  <2> HIDE DEF position, place
  <2>1. \A n \in Managed : place[n] \in 1 .. len \/ ~(\E i \in 1 .. len : order[i] = n)
    BY <1>4
  <2>2. \A n \in Managed : key[n] \in Nat
    BY <1>1, <1>3, <2>1
  <2>3. key \in [Managed -> Nat]
    BY <2>2
  <2>4. ASSUME NEW n \in Managed
        PROVE  IF \E i \in 1 .. len : order[i] = n THEN key[n] \in 1 .. len /\ order[key[n]] = n
               ELSE key[n] > len /\ key[n] = len + position[n]
    <3>1. CASE \E i \in 1 .. len : order[i] = n
      BY <1>4, <3>1
    <3>2. CASE ~(\E i \in 1 .. len : order[i] = n)
      BY <1>1, <1>3, <3>2
    <3> QED BY <3>1, <3>2
  <2> QED BY <2>3, <2>4
<1> HIDE DEF key, position, place
<1>6. \A m, n \in Managed : key[m] = key[n] => m = n
  BY <1>1, <1>3, <1>5
<1>7. \A m, n \in Managed : Precedes(order, m, n) => key[m] < key[n]
  <2> SUFFICES ASSUME NEW m \in Managed, NEW n \in Managed, NEW i \in 1 .. len, order[i] = m,
                      \A j \in 1 .. i : order[j] # n
               PROVE  key[m] < key[n]
    BY DEF Precedes
  <2>1. key[m] = i
    BY <1>5 DEF IsInjective
  <2> QED BY <1>5, <2>1
<1> DEFINE upTo(n) == {m \in Managed : key[m] <= key[n]}
           rank == [n \in Managed |-> Cardinality(upTo(n))]
<1>8. \A n \in Managed : IsFiniteSet(upTo(n)) /\ rank[n] \in 1 .. size
  <2> SUFFICES ASSUME NEW n \in Managed PROVE IsFiniteSet(upTo(n)) /\ Cardinality(upTo(n)) \in 1 .. size
    OBVIOUS
  <2>1. upTo(n) \in SUBSET Managed /\ n \in upTo(n)
    BY <1>5
  <2>2. IsFiniteSet(upTo(n)) /\ Cardinality(upTo(n)) <= size
    BY <2>1, FS_Subset, ManagedAssumption
  <2>3. Cardinality(upTo(n)) \in Nat /\ Cardinality(upTo(n)) # 0
    BY <2>1, <2>2, FS_CardinalityType, FS_EmptySet
  <2> QED BY <1>1, <2>2, <2>3
<1>9. \A m, n \in Managed : key[m] < key[n] => rank[m] < rank[n]
  <2> SUFFICES ASSUME NEW m \in Managed, NEW n \in Managed, key[m] < key[n]
               PROVE  Cardinality(upTo(m)) < Cardinality(upTo(n))
    OBVIOUS
  <2>1. upTo(m) \in SUBSET upTo(n)
    BY <1>5
  <2>2. n \in upTo(n) /\ n \notin upTo(m)
    BY <1>5
  <2>3. Cardinality(upTo(m)) <= Cardinality(upTo(n)) /\ Cardinality(upTo(n)) # Cardinality(upTo(m))
    BY <1>8, <2>1, <2>2, FS_Subset
  <2>4. Cardinality(upTo(m)) \in Nat /\ Cardinality(upTo(n)) \in Nat
    BY <1>8, FS_CardinalityType
  <2> QED BY <2>3, <2>4
<1> HIDE DEF rank
<1>10. rank \in Injection(Managed, 1 .. size)
  <2>1. rank \in [Managed -> 1 .. size]
    BY <1>8 DEF rank
  <2>2. ASSUME NEW m \in Managed, NEW n \in Managed, rank[m] = rank[n] PROVE m = n
    <3>1. rank[m] \in 1 .. size
      BY <2>1
    <3>2. ASSUME NEW k \in 1 .. size PROVE ~(k < k)
      OBVIOUS
    <3> HIDE DEF size
    <3>3. ~(key[m] < key[n]) /\ ~(key[n] < key[m])
      BY <1>9, <2>2, <3>1, <3>2
    <3>4. key[m] \in Nat /\ key[n] \in Nat
      BY <1>5
    <3> QED BY <1>6, <3>3, <3>4
  <2> QED BY <2>1, <2>2 DEF Injection, IsInjective
<1>11. \A i \in 1 .. size : \E n \in Managed : rank[n] = i
  <2>1. IsFiniteSet(1 .. size) /\ Cardinality(1 .. size) = size
    BY <1>1, FS_Interval
  <2>2. rank \in Surjection(Managed, 1 .. size)
    BY <1>10, <2>1, FS_Injection
  <2> QED BY <2>2 DEF Surjection
<1> DEFINE nodes == [i \in 1 .. size |-> CHOOSE n \in Managed : rank[n] = i]
<1>12. \A i \in 1 .. size : nodes[i] \in Managed /\ rank[nodes[i]] = i
  BY <1>11
<1> HIDE DEF nodes
<1>13. nodes \in [1 .. size -> Managed] /\ DOMAIN nodes = 1 .. size
  BY <1>12 DEF nodes
<1>14. IsInjective(nodes)
  BY <1>12, <1>13 DEF IsInjective
<1>15. \A i, j \in 1 .. size : Precedes(order, nodes[i], nodes[j]) => i < j
  BY <1>7, <1>9, <1>12
<1> QED BY <1>13, <1>14, <1>15

\* So every managed node has one place in each of the two orders.
Ordered(nodes) ==
  /\ nodes \in [1 .. Cardinality(Managed) -> Managed] /\ IsInjective(nodes)
  /\ \A n \in Managed : \E i \in 1 .. Cardinality(Managed) : nodes[i] = n

LEMMA NodesAreOrdered ==
  /\ Ordered(ToConfigure) /\ Ordered(ToActivate)
  /\ Cardinality(Managed) \in Nat \ {0}
<1>1. Cardinality(Managed) \in Nat \ {0}
  BY FS_CardinalityType, FS_EmptySet, ManagedAssumption
<1>2. ASSUME NEW order, NEW len \in Nat, DOMAIN order = 1 .. len, IsInjective(order)
      PROVE  Ordered(ordered_nodes(order))
  <2> DEFINE nodes == ordered_nodes(order)
  <2>1. nodes \in [1 .. Cardinality(Managed) -> Managed] /\ IsInjective(nodes)
    BY <1>2, NodesCanBeOrdered DEF ordered_nodes
  <2>2. nodes \in Surjection(1 .. Cardinality(Managed), Managed)
    <3>1. Cardinality(1 .. Cardinality(Managed)) = Cardinality(Managed)
      BY <1>1, FS_Interval
    <3>2. nodes \in Injection(1 .. Cardinality(Managed), Managed)
      BY <2>1 DEF Injection
    <3> QED BY <3>1, <3>2, FS_Injection, ManagedAssumption
  <2> QED BY <2>1, <2>2 DEF Ordered, Surjection
<1>3. DOMAIN configure_order = 1 .. 6 /\ IsInjective(configure_order)
  BY DEF configure_order, IsInjective
<1>4. DOMAIN activate_order = 1 .. 6 /\ IsInjective(activate_order)
  BY DEF activate_order, IsInjective
<1> QED BY <1>1, <1>2, <1>3, <1>4 DEF ToConfigure, ToActivate

-----------------------------------------------------------------------------
(* The types.                                                              *)

Transitions == {"configure", "activate"}
Lives4      == {"unconfigured", "inactive", "active", "dead"}
Callbacks   == {Idle, <<"planner", "validate">>} \union (Managed \X Transitions)

PlannerTyped ==
  /\ progress \in [Requests -> {"new", "queued", "planning", "answered"}]
  /\ phase \in {"collect", "drain"}
  /\ cancelled \in [Solvers -> BOOLEAN]
  /\ destroyed \in BOOLEAN

LifeTyped ==
  /\ startup \in {"configure", "poll", "activate", "check", "started", "failed"}
  /\ at \in 1 .. Cardinality(Managed) /\ late \in BOOLEAN
  /\ inbox \in [Managed -> SUBSET {"configure", "activate", "get_state"}]
  /\ life \in [Managed -> Lives4]
  /\ busy \in [Threads -> Callbacks]
  /\ refused \in BOOLEAN /\ crashes \in Nat
  /\ viaPlanner \in BOOLEAN /\ validation \in {"none", "sent", "served"}

\* The manager waits for what belongs to where it is, and an answer is one to that.
Waiting ==
  \/ asking = "none" /\ reply = "none" /\ ~late
  \/ /\ asking \in Transitions /\ asking = startup
     /\ reply \in {"none", "yes", "no"} /\ ~late
  \/ /\ asking = "get_state" /\ startup \in {"poll", "check"}
     /\ reply \in {"none", "unconfigured", "inactive", "active"}

LEMMA TargetIsManaged ==
  ASSUME LifeTyped
  PROVE  /\ Target \in Managed /\ Len(Order) = Cardinality(Managed)
         /\ startup \in {"configure", "poll"} => Target = ToConfigure[at]
         /\ startup \in {"activate", "check"} => Target = ToActivate[at]
<1>1. Order \in {ToConfigure, ToActivate}
  BY DEF Order
<1>2. /\ Order \in [1 .. Cardinality(Managed) -> Managed]
      /\ Cardinality(Managed) \in Nat
  BY <1>1, NodesAreOrdered DEF Ordered
<1>3. Target \in Managed
  BY <1>2 DEF Target, LifeTyped
<1>4. Len(Order) = Cardinality(Managed)
  BY <1>2
<1> QED BY <1>3, <1>4 DEF Target, Order

\* To the next node, as far as there is one.
LEMMA GoOnTyped ==
  ASSUME LifeTyped, NEW then \in {"activate", "check", "started"}, GoOn(then)
  PROVE  /\ at' \in 1 .. Cardinality(Managed)
         /\ startup' \in {"configure", "poll", "activate", "check", "started", "failed"}
         /\ asking' = "none" /\ late' = FALSE /\ reply' = "none"
<1>1. Cardinality(Managed) \in Nat \ {0} /\ Len(Order) = Cardinality(Managed)
  BY NodesAreOrdered, TargetIsManaged
<1> QED BY <1>1 DEF GoOn, LifeTyped

LEMMA ManagerTyped ==
  ASSUME LifeTyped, Waiting, Manager, UNCHANGED <<crashes, viaPlanner, validation, monolithic>>
  PROVE  LifeTyped' /\ Waiting'
<1>0. Cardinality(Managed) \in Nat \ {0} /\ Target \in Managed
  BY NodesAreOrdered, TargetIsManaged
<1>1. ASSUME NEW request \in {"configure", "activate", "get_state"}, Send(request)
      PROVE  LifeTyped' /\ Waiting'
  <2>1. inbox' \in [Managed -> SUBSET {"configure", "activate", "get_state"}]
    BY <1>0, <1>1 DEF LifeTyped, Send
  <2>2. Waiting'
    BY <1>1 DEF LifeTyped, Waiting, Send, Running, Transitions
  <2> QED BY <1>1, <2>1, <2>2 DEF LifeTyped, Send, Threads
<1>2. ASSUME NEW result \in {"started", "failed"}, End(result), UNCHANGED nodeVars, refused' \in BOOLEAN
      PROVE  LifeTyped' /\ Waiting'
  <2>1. Waiting'
    BY <1>2 DEF Waiting, End
  <2>2. at' \in 1 .. Cardinality(Managed) /\ late' = FALSE /\ startup' = result
    BY <1>0, <1>2 DEF End
  <2> QED BY <1>2, <2>1, <2>2 DEF LifeTyped, nodeVars
<1>3. ASSUME NotThere \/ GiveUp PROVE LifeTyped' /\ Waiting'
  BY <1>2, <1>3 DEF NotThere, GiveUp, LifeTyped
<1>4. ASSUME NEW then \in {"activate", "check", "started"}, GoOn(then), UNCHANGED <<nodeVars, refused>>
      PROVE  LifeTyped' /\ Waiting'
  <2>1. at' \in 1 .. Cardinality(Managed) /\ late' = FALSE /\ Waiting'
    BY <1>4, GoOnTyped DEF Waiting
  <2>2. startup' \in {"configure", "poll", "activate", "check", "started", "failed"}
    BY <1>4, GoOnTyped
  <2> QED BY <1>4, <2>1, <2>2 DEF LifeTyped, nodeVars
<1>5. ASSUME Answered PROVE LifeTyped' /\ Waiting'
  <2>1. CASE End("failed")
    BY <1>2, <1>5, <2>1 DEF Answered, LifeTyped
  <2>2. CASE /\ startup = "configure" /\ ~Fails /\ startup' = "poll"
             /\ asking' = "none" /\ reply' = "none" /\ UNCHANGED <<at, late>>
    BY <1>5, <2>2 DEF Answered, LifeTyped, Waiting, nodeVars
  <2>3. CASE /\ startup = "poll" /\ asking' = "none" /\ late' = FALSE /\ reply' = "none"
             /\ UNCHANGED <<startup, at>>
    BY <1>5, <2>3 DEF Answered, LifeTyped, Waiting, nodeVars
  <2>4. CASE GoOn("activate") \/ GoOn("check") \/ GoOn("started")
    BY <1>4, <1>5, <2>4 DEF Answered
  <2> QED BY <1>5, <2>1, <2>2, <2>3, <2>4 DEF Answered
<1>6. ASSUME TimeOut PROVE LifeTyped' /\ Waiting'
  <2>1. refused' \in BOOLEAN
    BY <1>6 DEF TimeOut, LifeTyped
  <2>2. CASE End("failed")
    BY <1>2, <1>6, <2>1, <2>2 DEF TimeOut
  <2>3. CASE asking = "get_state" /\ late' = TRUE /\ UNCHANGED <<startup, at, asking, reply>>
    BY <1>6, <2>1, <2>3 DEF TimeOut, LifeTyped, Waiting, Transitions, nodeVars
  <2> QED BY <1>6, <2>2, <2>3 DEF TimeOut
<1> QED BY <1>1, <1>3, <1>5, <1>6 DEF Manager

\* A node answers a transition with success or not, and get_state with its state.
LEMMA TellTyped ==
  ASSUME Waiting, UNCHANGED <<startup, asking, late>>,
         NEW n, NEW request, NEW what, Tell(n, request, what),
         \/ request \in Transitions /\ what \in {"yes", "no"}
         \/ request = "get_state" /\ what \in {"unconfigured", "inactive", "active"}
  PROVE  Waiting'
BY DEF Waiting, Tell, Transitions

LEMMA NodeTyped ==
  ASSUME LifeTyped, Waiting, NEW n \in Managed, Node(n)
  PROVE  LifeTyped' /\ Waiting'
<1>0. Thread(n) \in Threads /\ monolithic' = monolithic
  BY DEF Thread, Threads, Node, OfLife
<1>1. CASE GetState(n)
  <2>1. life[n] \in {"unconfigured", "inactive", "active"}
    BY <1>1 DEF GetState, Spins, LifeTyped, Lives4
  <2>2. Waiting'
    BY <1>1, <2>1, TellTyped DEF GetState
  <2>3. inbox' \in [Managed -> SUBSET {"configure", "activate", "get_state"}]
    BY <1>1 DEF GetState, LifeTyped
  <2> QED BY <1>1, <2>2, <2>3 DEF GetState, Node, OfLife, LifeTyped
<1>2. ASSUME NEW k \in Transitions, BeginTransition(n, k) PROVE LifeTyped' /\ Waiting'
  <2>1. inbox' \in [Managed -> SUBSET {"configure", "activate", "get_state"}]
    BY <1>2 DEF BeginTransition, LifeTyped
  <2>2. UNCHANGED <<startup, at, asking, late, life>>
    BY <1>2 DEF BeginTransition
  <2>3. CASE busy' = [busy EXCEPT ![Thread(n)] = <<n, k>>] /\ UNCHANGED <<reply, refused>>
    <3>1. <<n, k>> \in Callbacks
      BY DEF Callbacks
    <3>2. busy' \in [Threads -> Callbacks]
      BY <1>0, <2>3, <3>1 DEF LifeTyped
    <3> QED BY <2>1, <2>2, <2>3, <3>2 DEF Node, OfLife, LifeTyped, Waiting
  <2>4. CASE Tell(n, k, "no") /\ refused' = TRUE /\ UNCHANGED busy
    <3>1. Waiting'
      BY <2>2, <2>4, TellTyped
    <3> QED BY <2>1, <2>2, <2>4, <3>1 DEF Node, OfLife, LifeTyped
  <2> QED BY <1>2, <2>3, <2>4 DEF BeginTransition
<1>3. ASSUME NEW k \in Transitions, NEW success \in BOOLEAN, EndTransition(n, k, success)
      PROVE  LifeTyped' /\ Waiting'
  <2>1. UNCHANGED <<startup, at, asking, late, inbox>> /\ refused' \in BOOLEAN
    BY <1>3 DEF EndTransition, LifeTyped
  <2>2. Waiting'
    BY <1>3, <2>1, TellTyped DEF EndTransition
  <2>3. To(k) \in Lives4
    BY DEF To, Lives4
  <2>4. life' \in [Managed -> Lives4]
    BY <1>3, <2>3 DEF EndTransition, LifeTyped
  <2>5. busy' \in [Threads -> Callbacks]
    <3>1. Idle \in Callbacks
      BY DEF Callbacks
    <3> QED BY <1>3, <3>1 DEF EndTransition, LifeTyped
  <2> QED BY <2>1, <2>2, <2>4, <2>5 DEF Node, OfLife, LifeTyped
<1> QED BY <1>1, <1>2, <1>3 DEF Node, Transitions

\* The other steps: the planner's, the end of nodes, an interruption, a validation.
LEMMA OthersTyped ==
  ASSUME LifeTyped, Waiting,
         \/ (\E r \in Requests : Serve(r)) \/ Plan \/ Solve \/ Finish \/ Leave \/ Unload
         \/ CtrlC \/ Validate \/ \E n \in Managed : Kill(n)
  PROVE  LifeTyped' /\ Waiting'
<1>1. CASE (\E r \in Requests : Serve(r)) \/ Plan \/ Solve \/ Finish \/ Unload
  <2>1. UNCHANGED <<lifeVars, viaPlanner, validation>>
    BY <1>1 DEF Serve, Plan, Solve, Finish, Unload, OfPlanner
  <2> QED BY <2>1 DEF LifeTyped, Waiting, lifeVars, managerVars, nodeVars
<1>2. CASE Leave
  <2>1. /\ life' = [life EXCEPT !["planner"] = "dead"] /\ inbox' = [inbox EXCEPT !["planner"] = {}]
        /\ UNCHANGED <<managerVars, busy, refused, crashes, viaPlanner, validation>>
    BY <1>2 DEF Leave
  <2>2. /\ life' \in [Managed -> Lives4]
        /\ inbox' \in [Managed -> SUBSET {"configure", "activate", "get_state"}]
    BY <2>1 DEF LifeTyped, Lives4
  <2> QED BY <2>1, <2>2 DEF LifeTyped, Waiting, managerVars
<1>3. CASE CtrlC
  BY <1>3 DEF CtrlC, Interrupt, OfLife, LifeTyped, Waiting, managerVars, nodeVars
<1>4. CASE Validate
  <2>1. UNCHANGED <<managerVars, inbox, life, refused, crashes, viaPlanner>>
    BY <1>4 DEF Validate, AskToValidate, BeginValidation, EndValidation, OfLife, lifeVars, nodeVars
  <2>2. validation' \in {"none", "sent", "served"}
    BY <1>4 DEF Validate, AskToValidate, BeginValidation, EndValidation, LifeTyped
  <2>3. busy' \in [Threads -> Callbacks]
    <3>1. Idle \in Callbacks /\ <<"planner", "validate">> \in Callbacks
      BY DEF Callbacks
    <3> QED BY <1>4, <3>1 DEF Validate, AskToValidate, BeginValidation, EndValidation, LifeTyped,
                              lifeVars, nodeVars
  <2> QED BY <2>1, <2>2, <2>3 DEF LifeTyped, Waiting, managerVars
<1>5. ASSUME NEW n \in Managed, Kill(n) PROVE LifeTyped' /\ Waiting'
  <2>1. /\ life' = [life EXCEPT ![n] = "dead"] /\ inbox' = [inbox EXCEPT ![n] = {}]
        /\ busy' = [busy EXCEPT ![n] = Idle] /\ crashes' = crashes + 1
        /\ UNCHANGED <<managerVars, refused, viaPlanner, validation>>
    BY <1>5 DEF Kill, Crash, OfLife
  <2>2. /\ life' \in [Managed -> Lives4]
        /\ inbox' \in [Managed -> SUBSET {"configure", "activate", "get_state"}]
    BY <2>1 DEF LifeTyped, Lives4
  <2>3. busy' \in [Threads -> Callbacks]
    <3>1. Idle \in Callbacks
      BY DEF Callbacks
    <3> QED BY <2>1, <3>1 DEF LifeTyped
  <2>4. crashes' \in Nat
    BY <2>1 DEF LifeTyped
  <2> QED BY <2>1, <2>2, <2>3, <2>4 DEF LifeTyped, Waiting, managerVars
<1> QED BY <1>1, <1>2, <1>3, <1>4, <1>5

LEMMA LifeTypeKept == LifeTyped /\ Waiting /\ [Next]_bringupVars => LifeTyped' /\ Waiting'
<1> SUFFICES ASSUME LifeTyped, Waiting, [Next]_bringupVars PROVE LifeTyped' /\ Waiting'
  OBVIOUS
<1>1. CASE UNCHANGED bringupVars
  BY <1>1 DEF LifeTyped, Waiting, bringupVars, lifeVars, managerVars, nodeVars
<1>2. CASE Manage
  BY <1>2, ManagerTyped DEF Manage, OfLife
<1>3. CASE \E n \in Managed : Node(n)
  BY <1>3, NodeTyped
<1> QED BY <1>1, <1>2, <1>3, OthersTyped DEF Next

LEMMA LifeTypeInit == Init => LifeTyped /\ Waiting
<1> SUFFICES ASSUME Init PROVE LifeTyped /\ Waiting
  OBVIOUS
<1>1. Cardinality(Managed) \in Nat \ {0}
  BY NodesAreOrdered
<1>2. at \in 1 .. Cardinality(Managed)
  BY <1>1 DEF Init, LifeInit
<1>3. busy \in [Threads -> Callbacks]
  BY DEF Init, LifeInit, Callbacks
<1>4. life \in [Managed -> Lives4] /\ inbox \in [Managed -> SUBSET {"configure", "activate", "get_state"}]
  BY DEF Init, LifeInit, Lives4
<1> QED BY <1>2, <1>3, <1>4 DEF Init, LifeInit, LifeTyped, Waiting

LEMMA PlannerTypeKept ==
  CallsInv /\ PlannerTyped /\ [Next]_bringupVars => PlannerTyped'
<1> SUFFICES ASSUME CallsInv, PlannerTyped, [Next]_bringupVars PROVE PlannerTyped'
  OBVIOUS
<1>1. CASE UNCHANGED plannerVars
  BY <1>1 DEF PlannerTyped, plannerVars
<1>2. ASSUME NEW r \in Requests, Serve(r) PROVE PlannerTyped'
  BY <1>2 DEF Serve, Enqueue, PlannerTyped
<1>3. CASE Plan
  <2>1. CASE Take
    <3>1. Head(queue) \in Requests
      BY <2>1 DEF Take, CallsInv
    <3> QED BY <2>1, <3>1 DEF Take, PlannerTyped
  <2>2. CASE CancelTheRest
    BY <2>2 DEF CancelTheRest, PlannerTyped
  <2>3. CASE Answer
    BY <2>3 DEF Answer, PlannerTyped
  <2> QED BY <1>3, <2>1, <2>2, <2>3 DEF Plan, PlanningThread
<1>4. CASE Solve \/ Finish
  BY <1>4 DEF Solve, Finish, Watch, StartSearch, KillCancelled, KillLate, KillSearch, ReadToTheEnd,
              EndSearch, PlannerTyped
<1>5. CASE Leave \/ Unload
  BY <1>5 DEF Leave, Unload, Stop, Destroy, PlannerTyped
<1>6. CASE Manage \/ CtrlC \/ Validate \/ \E n \in Managed : Node(n) \/ Kill(n)
  BY <1>1, <1>6 DEF Manage, CtrlC, Validate, Node, Kill, AskToValidate, BeginValidation,
                    EndValidation, OfLife
<1> QED BY <1>1, <1>2, <1>3, <1>4, <1>5, <1>6 DEF Next, bringupVars

\* For any number of nodes, solvers and requests: the variables keep their types.
THEOREM TypeCorrect == Spec => []TypeOK
<1>1. Init => PlannerTyped
  BY DEF Init, PlannerInit, PlannerTyped
<1>2. CallsInv /\ PlannerTyped /\ LifeTyped /\ Waiting => TypeOK
  <2> SUFFICES ASSUME CallsInv, PlannerTyped, LifeTyped, Waiting PROVE TypeOK
    OBVIOUS
  <2>1. PlannerTypeOK
    BY DEF PlannerTypeOK, CallsInv, PlannerTyped
  <2>2. /\ asking \in {"none", "configure", "activate", "get_state"}
        /\ reply \in {"none", "yes", "no", "unconfigured", "inactive", "active"}
    BY DEF Waiting, Transitions
  <2>3. LifeTypeOK
    BY <2>2 DEF LifeTypeOK, LifeTyped, Lives4
  <2> QED BY <2>1, <2>3 DEF TypeOK, LifeTyped
<1> QED BY InitHolds, NextKeeps, LifeTypeInit, LifeTypeKept, PlannerTypeKept, <1>1, <1>2, PTL DEF Spec

-----------------------------------------------------------------------------
(* Why startup fails.                                                      *)

Reason == refused \/ crashes > 0 \/ ~ok

\* A node is dead for a reason, and what makes the manager give up has been noted.
ReasonInv ==
  /\ startup = "failed" => Reason
  /\ \A n \in Managed : life[n] = "dead" => Reason
  /\ reply = "no" => refused
  /\ late => refused

\* A reason does not go away.
LEMMA ReasonsStay == LifeTyped /\ [Next]_bringupVars /\ Reason => Reason'
<1> SUFFICES ASSUME LifeTyped, [Next]_bringupVars PROVE Reason => Reason'
  OBVIOUS
<1>1. CASE UNCHANGED <<ok, refused, crashes>>
  BY <1>1 DEF Reason
<1>2. CASE \/ (\E r \in Requests : Serve(r)) \/ Plan \/ Solve \/ Finish \/ Unload \/ Validate
           \/ Leave \/ UNCHANGED bringupVars
  BY <1>1, <1>2 DEF Serve, Plan, Solve, Finish, Unload, Validate, Leave, OfPlanner, OfLife,
                    AskToValidate, BeginValidation, EndValidation, bringupVars, lifeVars
<1>3. CASE CtrlC
  BY <1>3 DEF CtrlC, Interrupt, Reason
<1>4. ASSUME NEW n \in Managed, Kill(n) PROVE Reason => Reason'
  BY <1>4 DEF Kill, Crash, Reason, LifeTyped
<1>5. CASE Manage
  <2>1. refused => refused'
    BY <1>5 DEF Manage, Manager, Send, NotThere, Answered, TimeOut, GiveUp
  <2> QED BY <1>5, <2>1 DEF Manage, Reason
<1>6. ASSUME NEW n \in Managed, Node(n) PROVE Reason => Reason'
  <2>1. refused => refused'
    BY <1>6 DEF Node, GetState, BeginTransition, EndTransition
  <2> QED BY <1>6, <2>1 DEF Node, Reason
<1> QED BY <1>1, <1>2, <1>3, <1>4, <1>5, <1>6 DEF Next

\* A wait that is over before the answer has a thread that was kept for something else than
\* a search, which takes none of the planner's own.
LEMMA TimeOutIsExcused == LifeTyped /\ TimeOut => refused'
<1> SUFFICES ASSUME LifeTyped, TimeOut PROVE refused'
  OBVIOUS
<1>1. Target \in Managed /\ Thread(Target) \in Threads
  BY TargetIsManaged DEF Thread, Threads
<1>2. busy[Thread(Target)] \in Callbacks
  BY <1>1 DEF LifeTyped
<1>3. <<"planner", "plan">> \notin Callbacks
  BY DEF Callbacks, Transitions, Idle
<1>4. Unresponsive(Target) => Excused(Target)
  BY <1>2, <1>3 DEF Unresponsive, Excused
<1> QED BY <1>4 DEF TimeOut

LEMMA ManagerReason ==
  ASSUME LifeTyped, Waiting, ReasonInv, Manage, Reason => Reason'
  PROVE  ReasonInv'
<1>0. life' = life /\ Target \in Managed /\ ok' = ok /\ crashes' = crashes
  BY TargetIsManaged DEF Manage, Manager, Send, NotThere, Answered, TimeOut, GiveUp, nodeVars
<1>1. ASSUME NEW then \in {"activate", "check", "started"}, GoOn(then), refused' = refused PROVE ReasonInv'
  <2>1. startup' # "failed" \/ startup' = startup
    BY <1>1 DEF GoOn
  <2>2. reply' = "none" /\ late' = FALSE
    BY <1>1 DEF GoOn
  <2> QED BY <1>0, <2>1, <2>2 DEF ReasonInv
<1>2. ASSUME End("failed"), Reason' PROVE ReasonInv'
  BY <1>0, <1>2 DEF End, ReasonInv
<1>3. ASSUME NEW request \in {"configure", "activate", "get_state"}, Send(request) PROVE ReasonInv'
  BY <1>0, <1>3 DEF Send, ReasonInv
<1>4. CASE NotThere
  BY <1>0, <1>2, <1>4 DEF NotThere, ReasonInv
<1>5. CASE GiveUp
  BY <1>0, <1>2, <1>5 DEF GiveUp, Reason
<1>6. CASE TimeOut
  <2>1. refused'
    BY <1>6, TimeOutIsExcused
  <2> QED BY <1>0, <1>2, <1>6, <2>1 DEF TimeOut, ReasonInv, Reason
<1>7. CASE Answered
  <2>0. refused' = refused
    BY <1>7 DEF Answered
  <2>1. CASE Fails /\ End("failed")
    BY <1>2, <2>1 DEF Fails, ReasonInv, Reason
  <2>2. CASE GoOn("activate") \/ GoOn("check") \/ GoOn("started")
    BY <1>1, <2>0, <2>2
  <2>3. CASE /\ startup' = "poll" \/ startup' = startup
             /\ reply' = "none" /\ (late' = FALSE \/ late' = late)
    BY <1>0, <2>0, <2>3 DEF ReasonInv
  <2> QED BY <1>7, <2>1, <2>2, <2>3 DEF Answered
<1> QED BY <1>3, <1>4, <1>5, <1>6, <1>7 DEF Manage, Manager

\* A failed or refused transition is noted with the answer.
LEMMA NodeReason ==
  ASSUME LifeTyped, ReasonInv, NEW n \in Managed, Node(n), Reason => Reason'
  PROVE  ReasonInv'
<1>1. UNCHANGED <<startup, late, ok, crashes>>
  BY DEF Node, GetState, BeginTransition, EndTransition
<1>2. \A m \in Managed : life'[m] = "dead" => life[m] = "dead"
  BY DEF Node, GetState, BeginTransition, EndTransition, To, LifeTyped
<1>3. reply' = "no" => refused'
  <2>1. CASE GetState(n)
    <3>1. life[n] # "no" /\ refused' = refused
      BY <2>1 DEF GetState, LifeTyped, Lives4
    <3> QED BY <2>1, <3>1 DEF GetState, Tell, ReasonInv
  <2>2. ASSUME NEW k, BeginTransition(n, k) PROVE reply' = "no" => refused'
    BY <2>2 DEF BeginTransition, ReasonInv
  <2>3. ASSUME NEW k, NEW success \in BOOLEAN, EndTransition(n, k, success) PROVE reply' = "no" => refused'
    BY <2>3 DEF EndTransition, Tell, ReasonInv
  <2> QED BY <2>1, <2>2, <2>3 DEF Node
<1>4. refused => refused'
  BY DEF Node, GetState, BeginTransition, EndTransition
<1> QED BY <1>1, <1>2, <1>3, <1>4 DEF ReasonInv

LEMMA ReasonKept == LifeTyped /\ Waiting /\ ReasonInv /\ [Next]_bringupVars => ReasonInv'
<1> SUFFICES ASSUME LifeTyped, Waiting, ReasonInv, [Next]_bringupVars PROVE ReasonInv'
  OBVIOUS
<1>0. Reason => Reason'
  BY ReasonsStay
<1>1. CASE UNCHANGED <<startup, reply, late, life, refused>>
  BY <1>0, <1>1 DEF ReasonInv
<1>2. CASE \/ (\E r \in Requests : Serve(r)) \/ Plan \/ Solve \/ Finish \/ Unload \/ Validate
           \/ CtrlC \/ UNCHANGED bringupVars
  BY <1>1, <1>2 DEF Serve, Plan, Solve, Finish, Unload, Validate, CtrlC, Interrupt, OfPlanner, OfLife,
                    AskToValidate, BeginValidation, EndValidation, bringupVars, lifeVars, managerVars, nodeVars
<1>3. CASE Leave
  <2>1. /\ UNCHANGED <<managerVars, refused>> /\ life' = [life EXCEPT !["planner"] = "dead"]
        /\ ~ok \/ startup = "failed"
    BY <1>3 DEF Leave
  <2>2. Reason
    BY <2>1 DEF ReasonInv, Reason
  <2> QED BY <1>0, <2>1, <2>2 DEF ReasonInv, managerVars
<1>4. ASSUME NEW n \in Managed, Kill(n) PROVE ReasonInv'
  <2>1. Reason' /\ UNCHANGED <<managerVars, refused>>
    BY <1>4 DEF Kill, Crash, LifeTyped, Reason
  <2> QED BY <2>1 DEF ReasonInv, managerVars
<1>5. CASE Manage
  BY <1>0, <1>5, ManagerReason
<1>6. CASE \E n \in Managed : Node(n)
  BY <1>0, <1>6, NodeReason
<1> QED BY <1>2, <1>3, <1>4, <1>5, <1>6 DEF Next

\* For any number of nodes, requests and crashes: startup_function fails only when a
\* transition was refused or took too long, a node has died, or the user interrupted; that
\* the planner plans meanwhile makes nothing fail.
THEOREM StartupFailsForAReason == Spec => []FailsForAReason
<1>1. Init => ReasonInv
  BY DEF Init, LifeInit, ReasonInv
<1>2. ReasonInv => FailsForAReason
  BY DEF ReasonInv, FailsForAReason, Reason
<1> QED BY LifeTypeInit, LifeTypeKept, ReasonKept, <1>1, <1>2, PTL DEF Spec

-----------------------------------------------------------------------------
(* The order of activation.                                                *)

Configured(n) == life[n] # "unconfigured"
Settled(n)    == life[n] \in {"active", "dead"}
Ready(n)      == (\A m \in Managed : Configured(m)) /\ (\A m \in Before(n) : Settled(m))

\* What the manager has been told, up to where it is.
ToldInv ==
  /\ startup \in {"configure", "poll"} => \A i \in 1 .. at - 1 : Configured(ToConfigure[i])
  /\ startup = "poll" /\ reply = "inactive" => Configured(ToConfigure[at])
  /\ startup = "activate" =>
       /\ \A m \in Managed : Configured(m)
       /\ \A i \in 1 .. at - 1 : Settled(ToActivate[i])
       /\ reply = "yes" => Settled(ToActivate[at])

\* A node that is asked to activate, is being activated or active could be.
ReadyInv ==
  \A n \in Managed :
    "activate" \in inbox[n] \/ busy[Thread(n)] = <<n, "activate">> \/ life[n] = "active" => Ready(n)

\* A transition that takes its time is one that the state of the node still allows.
TransitionInv ==
  \A n \in Managed : \A k \in Transitions : busy[Thread(n)] = <<n, k>> => life[n] = From(k)

OrderInv == ToldInv /\ ReadyInv /\ TransitionInv

\* Nodes only go on.
Onward ==
  \A n \in Managed : \/ life'[n] \in {life[n], "dead"}
                     \/ life[n] = "unconfigured" /\ life'[n] = "inactive"
                     \/ life[n] = "inactive" /\ life'[n] = "active"

LEMMA BeforeIsManaged ==
  ASSUME NEW n
  PROVE  Before(n) \subseteq Managed
<1>1. DOMAIN ToActivate = 1 .. Cardinality(Managed) /\ \A i \in DOMAIN ToActivate : ToActivate[i] \in Managed
  BY NodesAreOrdered DEF Ordered
<1> QED BY <1>1 DEF Before

\* What comes before the node that the manager is at comes before it in the order.
LEMMA BeforeTarget ==
  ASSUME NEW i \in 1 .. Cardinality(Managed), NEW m \in Before(ToActivate[i])
  PROVE  \E j \in 1 .. i - 1 : ToActivate[j] = m
<1>1. /\ Cardinality(Managed) \in Nat /\ DOMAIN ToActivate = 1 .. Cardinality(Managed)
      /\ Len(ToActivate) = Cardinality(Managed) /\ IsInjective(ToActivate)
  BY NodesAreOrdered DEF Ordered
<1>2. PICK j \in 1 .. Cardinality(Managed), k \in 1 .. Cardinality(Managed) :
        j < k /\ ToActivate[j] = m /\ ToActivate[k] = ToActivate[i]
  BY <1>1 DEF Before
<1>3. k = i
  BY <1>1, <1>2 DEF IsInjective
<1> QED BY <1>1, <1>2, <1>3

LEMMA ReadyStays ==
  ASSUME Onward
  PROVE  /\ \A n \in Managed : Configured(n) => Configured(n)'
         /\ \A n \in Managed : Settled(n) => Settled(n)'
         /\ \A n : Ready(n) => Ready(n)'
<1>1. \A n \in Managed : Configured(n) => life'[n] # "unconfigured"
  BY DEF Onward, Configured
<1>2. \A n \in Managed : Settled(n) => life'[n] \in {"active", "dead"}
  BY DEF Onward, Settled
<1>3. ASSUME NEW n, Ready(n) PROVE Ready(n)'
  <2>1. \A m \in Managed : life'[m] # "unconfigured"
    BY <1>1, <1>3 DEF Ready
  <2>2. \A m \in Before(n) : life'[m] \in {"active", "dead"}
    BY <1>2, <1>3, BeforeIsManaged DEF Ready
  <2> QED BY <2>1, <2>2 DEF Ready, Configured, Settled, Before
<1> QED BY <1>1, <1>2, <1>3 DEF Configured, Settled

\* The manager asks a node to activate when the others are configured and those before it
\* have said that they are active.
LEMMA ManagerOrder ==
  ASSUME LifeTyped, Waiting, OrderInv, Manage PROVE OrderInv'
<1>0. /\ life' = life /\ busy' = busy /\ monolithic' = monolithic
      /\ at \in 1 .. Cardinality(Managed) /\ Cardinality(Managed) \in Nat
  BY NodesAreOrdered DEF Manage, OfLife, Manager, Send, NotThere, Answered, TimeOut, GiveUp, nodeVars, LifeTyped
<1>1. /\ \A n : (Configured(n)' <=> Configured(n)) /\ (Settled(n)' <=> Settled(n)) /\ (Ready(n)' <=> Ready(n))
      /\ TransitionInv'
  BY <1>0 DEF Configured, Settled, Ready, Before, TransitionInv, OrderInv, Thread, Alone
<1>2. ReadyInv'
  <2>1. CASE inbox' = inbox
    BY <1>0, <1>1, <2>1 DEF ReadyInv, OrderInv, Thread, Alone
  <2>2. ASSUME NEW request \in {"configure", "activate", "get_state"}, Send(request) PROVE ReadyInv'
    <3>1. Target \in Managed /\ inbox' = [inbox EXCEPT ![Target] = @ \union {request}]
      BY <2>2, TargetIsManaged DEF Send
    <3>2. request = "activate" => Ready(Target)
      <4> SUFFICES ASSUME request = "activate" PROVE Ready(Target)
        OBVIOUS
      <4>1. startup = "activate" /\ Target = ToActivate[at]
        BY <2>2, TargetIsManaged DEF Send
      <4>2. \A m \in Before(Target) : Settled(m)
        BY <1>0, <4>1, BeforeTarget DEF OrderInv, ToldInv
      <4> QED BY <4>1, <4>2 DEF OrderInv, ToldInv, Ready
    <3>3. \A n \in Managed : "activate" \in inbox'[n] => "activate" \in inbox[n] \/ Ready(n)
      BY <3>1, <3>2 DEF LifeTyped
    <3> QED BY <1>0, <1>1, <3>3 DEF ReadyInv, OrderInv, Thread, Alone
  <2> QED BY <2>1, <2>2 DEF Manage, Manager, NotThere, Answered, TimeOut, GiveUp, nodeVars
<1>3. ToldInv'
  <2>1. CASE UNCHANGED <<startup, at, reply>>
    BY <1>1, <2>1 DEF ToldInv, OrderInv
  <2>2. CASE startup' \in {"check", "started", "failed"}
    BY <2>2 DEF ToldInv
  <2>3. CASE startup \in {"configure", "poll"} /\ startup' \in {"configure", "poll"} /\ at' = at /\ reply' = "none"
    BY <1>1, <2>3 DEF ToldInv, OrderInv
  <2>4. CASE startup = "poll" /\ reply = "inactive" /\ GoOn("activate")
    <3>1. \A i \in 1 .. at : Configured(ToConfigure[i])
      BY <1>0, <2>4 DEF OrderInv, ToldInv
    <3>2. CASE at < Len(Order)
      <4>1. startup' = "configure" /\ at' = at + 1 /\ reply' = "none"
        BY <2>4, <3>2 DEF GoOn
      <4> QED BY <1>0, <1>1, <3>1, <4>1 DEF ToldInv
    <3>3. CASE ~(at < Len(Order))
      <4>1. startup' = "activate" /\ at' = 1 /\ reply' = "none"
        BY <2>4, <3>3 DEF GoOn
      <4>2. at = Cardinality(Managed)
        BY <1>0, <3>3, TargetIsManaged
      <4>3. \A m \in Managed : Configured(m)
        BY <3>1, <4>2, NodesAreOrdered DEF Ordered
      <4> QED BY <1>1, <4>1, <4>3 DEF ToldInv
    <3> QED BY <3>2, <3>3
  <2>5. CASE startup = "activate" /\ reply = "yes" /\ GoOn("check")
    <3>1. \A i \in 1 .. at : Settled(ToActivate[i])
      BY <1>0, <2>5 DEF OrderInv, ToldInv
    <3>2. CASE at < Len(Order)
      <4>1. startup' = "activate" /\ at' = at + 1 /\ reply' = "none"
        BY <2>5, <3>2 DEF GoOn
      <4> QED BY <1>0, <1>1, <2>5, <3>1, <4>1 DEF OrderInv, ToldInv
    <3>3. CASE ~(at < Len(Order))
      BY <2>2, <2>5, <3>3 DEF GoOn
    <3> QED BY <3>2, <3>3
  <2>6. CASE startup = "check" /\ GoOn("started")
    BY <2>2, <2>6 DEF GoOn
  <2>7. CASE End("failed")
    BY <2>2, <2>7 DEF End
  <2>8. CASE Answered
    <3>1. startup = "activate" /\ ~Fails => reply = "yes"
      BY <2>8 DEF Answered, Fails, Waiting, Transitions
    <3>2. CASE ~Fails /\ startup = "poll"
      BY <2>3, <2>4, <2>8, <3>2 DEF Answered
    <3> QED BY <2>3, <2>5, <2>6, <2>7, <2>8, <3>1, <3>2 DEF Answered
  <2>9. CASE NotThere \/ GiveUp \/ TimeOut
    BY <2>1, <2>7, <2>9 DEF NotThere, GiveUp, TimeOut
  <2>10. ASSUME NEW request \in {"configure", "activate", "get_state"}, Send(request) PROVE ToldInv'
    BY <2>1, <2>10 DEF Send
  <2> QED BY <2>8, <2>9, <2>10 DEF Manage, Manager
<1> QED BY <1>1, <1>2, <1>3 DEF OrderInv

\* What has been told stays true while nodes go on.
LEMMA ToldStays ==
  ASSUME LifeTyped, ToldInv, Onward, UNCHANGED <<startup, at, reply>> PROVE ToldInv'
<1>1. \A i \in 1 .. Cardinality(Managed) : ToConfigure[i] \in Managed /\ ToActivate[i] \in Managed
  BY NodesAreOrdered DEF Ordered
<1>2. /\ at \in 1 .. Cardinality(Managed) /\ Cardinality(Managed) \in Nat
      /\ \A i \in 1 .. at - 1 : i \in 1 .. Cardinality(Managed)
  BY NodesAreOrdered DEF LifeTyped
<1>3. \A n \in Managed : (Configured(n) => Configured(n)') /\ (Settled(n) => Settled(n)')
  BY ReadyStays
<1> QED BY <1>1, <1>2, <1>3 DEF ToldInv

LEMMA NodeOrder ==
  ASSUME LifeTyped, Waiting, OrderInv, NEW n \in Managed, Node(n) PROVE OrderInv'
<1>0. /\ monolithic' = monolithic /\ (\A m \in Managed : Thread(m) \in Threads) /\ UNCHANGED <<startup, at, asking>>
      /\ at \in 1 .. Cardinality(Managed)
  BY DEF Node, OfLife, Thread, Threads, GetState, BeginTransition, EndTransition, LifeTyped
<1>1. CASE GetState(n)
  <2>1. UNCHANGED <<life, busy>> /\ \A m \in Managed : inbox'[m] \subseteq inbox[m]
    BY <1>1 DEF GetState, LifeTyped
  <2>2. Onward /\ \A m : (Ready(m)' <=> Ready(m))
    BY <2>1 DEF Onward, Ready, Configured, Settled, Before
  <2>3. ReadyInv' /\ TransitionInv'
    BY <1>0, <2>1, <2>2 DEF OrderInv, ReadyInv, TransitionInv, Thread, Alone
  <2>4. ToldInv'
    <3>1. CASE reply' = reply
      BY <1>0, <2>2, <3>1, ToldStays DEF OrderInv
    <3>2. CASE reply' = life[n] /\ asking = "get_state" /\ Target = n
      <4>1. startup \in {"poll", "check"} /\ Target = n
        BY <3>2 DEF Waiting, Transitions
      <4>2. startup = "poll" /\ reply' = "inactive" => Configured(ToConfigure[at])
        BY <3>2, TargetIsManaged DEF Configured
      <4>3. \A m : Configured(m)' <=> Configured(m)
        BY <2>1 DEF Configured
      <4> QED BY <1>0, <4>1, <4>2, <4>3 DEF OrderInv, ToldInv
    <3> QED BY <1>1, <3>1, <3>2 DEF GetState, Tell
  <2> QED BY <2>3, <2>4 DEF OrderInv
<1>2. ASSUME NEW k \in Transitions, BeginTransition(n, k) PROVE OrderInv'
  <2>1. life' = life /\ k \in inbox[n] /\ \A m \in Managed : inbox'[m] \subseteq inbox[m]
    BY <1>2 DEF BeginTransition, LifeTyped
  <2>2. Onward /\ \A m : (Ready(m)' <=> Ready(m))
    BY <2>1 DEF Onward, Ready, Configured, Settled, Before
  <2>3. \/ busy' = busy
        \/ life[n] = From(k) /\ busy' = [busy EXCEPT ![Thread(n)] = <<n, k>>]
    BY <1>2 DEF BeginTransition
  <2>4. \A m \in Managed : \A j : busy'[Thread(m)] = <<m, j>> =>
           busy[Thread(m)] = <<m, j>> \/ (m = n /\ j = k /\ life[n] = From(k))
    BY <1>0, <2>3 DEF LifeTyped
  <2>5. ReadyInv'
    BY <1>0, <2>1, <2>2, <2>4 DEF OrderInv, ReadyInv, Thread, Alone
  <2>6. TransitionInv'
    BY <1>0, <2>1, <2>4 DEF OrderInv, TransitionInv, Thread, Alone
  <2>7. ToldInv'
    <3>1. CASE reply' = reply
      BY <1>0, <2>2, <3>1, ToldStays DEF OrderInv
    <3>2. CASE reply' = "no"
      <4>1. \A m : (Configured(m)' <=> Configured(m)) /\ (Settled(m)' <=> Settled(m))
        BY <2>1 DEF Configured, Settled
      <4> QED BY <1>0, <3>2, <4>1 DEF OrderInv, ToldInv
    <3> QED BY <1>2, <3>1, <3>2 DEF BeginTransition, Tell
  <2> QED BY <2>5, <2>6, <2>7 DEF OrderInv
<1>3. ASSUME NEW k \in Transitions, NEW success \in BOOLEAN, EndTransition(n, k, success) PROVE OrderInv'
  <2>1. /\ busy[Thread(n)] = <<n, k>> /\ busy' = [busy EXCEPT ![Thread(n)] = Idle]
        /\ life' = IF success THEN [life EXCEPT ![n] = To(k)] ELSE life
        /\ inbox' = inbox
        /\ Tell(n, k, IF success THEN "yes" ELSE "no")
    BY <1>3 DEF EndTransition
  <2>2. life[n] = From(k) /\ (k = "activate" => Ready(n))
    BY <2>1 DEF OrderInv, TransitionInv, ReadyInv
  <2>3. Onward
    BY <2>1, <2>2 DEF Onward, From, To, Transitions, LifeTyped
  <2>4. \A m \in Managed : \A j : busy'[Thread(m)] = <<m, j>> => m # n /\ busy[Thread(m)] = <<m, j>>
    BY <1>0, <2>1 DEF LifeTyped, Idle
  <2>5. \A m \in Managed : m # n => life'[m] = life[m]
    BY <2>1 DEF LifeTyped
  <2>6. life'[n] = "active" => k = "activate"
    <3>1. life'[n] \in {To(k), From(k)}
      BY <2>1, <2>2 DEF LifeTyped
    <3>2. CASE k = "configure"
      BY <3>1, <3>2 DEF From, To
    <3> QED BY <3>2 DEF Transitions
  <2>7. \A m : Ready(m) => Ready(m)'
    BY <2>3, ReadyStays
  <2>8. ReadyInv'
    BY <1>0, <2>1, <2>2, <2>4, <2>5, <2>6, <2>7 DEF OrderInv, ReadyInv, Thread, Alone
  <2>9. TransitionInv'
    BY <1>0, <2>4, <2>5 DEF OrderInv, TransitionInv, Thread, Alone
  <2>10. ToldInv'
    <3>1. CASE reply' = reply
      BY <1>0, <2>3, <3>1, ToldStays DEF OrderInv
    <3>2. CASE reply' # reply
      <4>1. /\ asking = k /\ startup = k /\ Target = n
            /\ reply' = IF success THEN "yes" ELSE "no"
        BY <2>1, <3>2 DEF Tell, Waiting, Transitions
      <4>2. \A m \in Managed : (Configured(m) => Configured(m)') /\ (Settled(m) => Settled(m)')
        BY <2>3, ReadyStays
      <4>3. \A i \in 1 .. Cardinality(Managed) : ToConfigure[i] \in Managed /\ ToActivate[i] \in Managed
        BY NodesAreOrdered DEF Ordered
      <4>4. Cardinality(Managed) \in Nat /\ \A i \in 1 .. at - 1 : i \in 1 .. Cardinality(Managed)
        BY <1>0, NodesAreOrdered
      <4>5. CASE k = "configure"
        BY <1>0, <4>1, <4>2, <4>3, <4>4, <4>5 DEF OrderInv, ToldInv
      <4>6. CASE k = "activate"
        <5>1. reply' = "yes" => Settled(ToActivate[at])'
          <6>1. Target = ToActivate[at]
            BY <4>1, <4>6, TargetIsManaged
          <6>2. success => life'[n] = "active"
            BY <2>1, <4>6 DEF To, LifeTyped
          <6> QED BY <1>0, <4>1, <6>1, <6>2 DEF Settled
        <5> QED BY <1>0, <4>1, <4>2, <4>3, <4>4, <4>6, <5>1 DEF OrderInv, ToldInv
      <4> QED BY <4>5, <4>6 DEF Transitions
    <3> QED BY <3>1, <3>2
  <2> QED BY <2>8, <2>9, <2>10 DEF OrderInv
<1> QED BY <1>1, <1>2, <1>3 DEF Node, Transitions

\* A node that dies forgets what it was asked and what it was at.
LEMMA DeathOrder ==
  ASSUME LifeTyped, OrderInv, NEW n, life' = [life EXCEPT ![n] = "dead"],
         UNCHANGED <<managerVars, monolithic>>, inbox' = [inbox EXCEPT ![n] = {}],
         \A m \in Managed, k \in Transitions :
           busy'[Thread(m)] = <<m, k>> => m # n /\ busy[Thread(m)] = <<m, k>>
  PROVE  OrderInv'
<1>1. Onward /\ \A m \in Managed : m # n => life'[m] = life[m]
  BY DEF Onward, LifeTyped
<1>2. ToldInv'
  BY <1>1, ToldStays DEF OrderInv, managerVars
<1>3. ReadyInv'
  <2>1. \A m : Ready(m) => Ready(m)'
    BY <1>1, ReadyStays
  <2>2. \A m \in Managed : /\ "activate" \in inbox'[m] => "activate" \in inbox[m]
                           /\ life'[m] = "active" => life[m] = "active"
    BY DEF LifeTyped
  <2> QED BY <2>1, <2>2 DEF OrderInv, ReadyInv, Thread, Alone, Transitions
<1>4. TransitionInv'
  BY <1>1 DEF OrderInv, TransitionInv, Thread, Alone
<1> QED BY <1>2, <1>3, <1>4 DEF OrderInv

LEMMA OrderKept == LifeTyped /\ Waiting /\ OrderInv /\ [Next]_bringupVars => OrderInv'
<1> SUFFICES ASSUME LifeTyped, Waiting, OrderInv, [Next]_bringupVars PROVE OrderInv'
  OBVIOUS
<1>1. ASSUME UNCHANGED <<managerVars, inbox, life, monolithic>>,
             \A m \in Managed, k \in Transitions : busy'[Thread(m)] = <<m, k>> => busy[Thread(m)] = <<m, k>>
      PROVE  OrderInv'
  BY <1>1 DEF OrderInv, ToldInv, ReadyInv, TransitionInv, Ready, Configured, Settled, Before, Thread, Alone,
              Transitions, managerVars
<1>2. CASE \/ (\E r \in Requests : Serve(r)) \/ Plan \/ Solve \/ Finish \/ Unload \/ CtrlC \/ UNCHANGED bringupVars
  BY <1>1, <1>2 DEF Serve, Plan, Solve, Finish, Unload, CtrlC, Interrupt, OfPlanner, OfLife,
                    bringupVars, lifeVars, nodeVars
<1>3. CASE Validate
  <2>1. UNCHANGED <<managerVars, inbox, life, monolithic>>
    BY <1>3 DEF Validate, AskToValidate, BeginValidation, EndValidation, OfLife, lifeVars, nodeVars
  <2>2. busy' = busy \/ \E b \in {Idle, <<"planner", "validate">>} : busy' = [busy EXCEPT ![Thread("planner")] = b]
    BY <1>3 DEF Validate, AskToValidate, BeginValidation, EndValidation, lifeVars, nodeVars
  <2>3. \A m, k : k \in Transitions => <<m, k>> # Idle /\ <<m, k>> # <<"planner", "validate">>
    BY DEF Idle, Transitions
  <2>4. \A m \in Managed : Thread(m) \in Threads
    BY DEF Thread, Threads
  <2> QED BY <1>1, <2>1, <2>2, <2>3, <2>4 DEF LifeTyped
<1>4. CASE Leave
  <2>1. /\ life' = [life EXCEPT !["planner"] = "dead"] /\ inbox' = [inbox EXCEPT !["planner"] = {}]
        /\ UNCHANGED <<managerVars, busy, monolithic>> /\ busy[Thread("planner")] = Idle
    BY <1>4 DEF Leave
  <2>2. \A m \in Managed, k \in Transitions :
          busy'[Thread(m)] = <<m, k>> => m # "planner" /\ busy[Thread(m)] = <<m, k>>
    BY <2>1 DEF Idle
  <2> QED BY <2>1, <2>2, DeathOrder
<1>5. ASSUME NEW n \in Managed, Kill(n) PROVE OrderInv'
  <2>1. /\ life' = [life EXCEPT ![n] = "dead"] /\ inbox' = [inbox EXCEPT ![n] = {}]
        /\ UNCHANGED <<managerVars, monolithic>>
        /\ busy' = [busy EXCEPT ![n] = Idle] /\ Thread(n) = n
    BY <1>5 DEF Kill, Crash, OfLife, Thread
  <2>2. n \in Threads /\ \A m \in Managed : Thread(m) \in Threads
    BY DEF Threads, Thread
  <2>3. \A m \in Managed, k \in Transitions : busy'[Thread(m)] = <<m, k>> => m # n /\ busy[Thread(m)] = <<m, k>>
    BY <2>1, <2>2 DEF LifeTyped, Idle
  <2> QED BY <2>1, <2>3, DeathOrder
<1>6. CASE Manage
  BY <1>6, ManagerOrder
<1>7. CASE \E n \in Managed : Node(n)
  BY <1>7, NodeOrder
<1> QED BY <1>2, <1>3, <1>4, <1>5, <1>6, <1>7 DEF Next

\* For any nodes, whichever of the lists know them, and any crashes, time-outs and
\* interruptions: a node is activated when all are configured and those before it in the
\* order are active.
THEOREM NodesAreActivatedInOrder == Spec => []ActivatedInOrder
<1>1. Init => OrderInv
  <2> SUFFICES ASSUME LifeInit PROVE OrderInv
    BY DEF Init
  <2>1. \A n \in Managed : /\ busy[Thread(n)] = <<>> /\ inbox[n] = {} /\ life[n] = "unconfigured"
    BY DEF LifeInit, Thread, Threads, Idle
  <2>2. ToldInv
    BY DEF LifeInit, ToldInv
  <2> QED BY <2>1, <2>2 DEF OrderInv, ReadyInv, TransitionInv
<1>2. OrderInv => ActivatedInOrder
  BY DEF OrderInv, ReadyInv, Ready, Configured, Settled, ActivatedInOrder
<1> QED BY LifeTypeInit, LifeTypeKept, OrderKept, <1>1, <1>2, PTL DEF Spec
=============================================================================
