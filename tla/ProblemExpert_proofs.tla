------------------------- MODULE ProblemExpert_proofs -------------------------
(* What holds of the problem expert for every domain and any number of clients. *)
EXTENDS ProblemExpert, TLAPS

KnownIn(st)       == DOMAIN st.instances \union DOMAIN Constant
ShadowedIn(st, o) ==
  o \in DOMAIN st.instances /\ o \in DOMAIN Constant /\ st.instances[o] # Constant[o]

\* A store has its four parts, each of its type.
Typed(st) ==
  /\ st = [instances |-> st.instances, predicates |-> st.predicates,
           functions |-> st.functions, goal |-> st.goal]
  /\ DOMAIN st.instances \subseteq Names
  /\ \A o \in DOMAIN st.instances : st.instances[o] \in Types
  /\ st.predicates \subseteq Predicates
  /\ DOMAIN st.functions \subseteq Fluents
  /\ \A f \in DOMAIN st.functions : st.functions[f] \in Values

\* What a predicate or a function names fits the parameter it stands for, or is a
\* constant behind an instance of the same name.
Valid(st) ==
  \A x \in st.predicates \union DOMAIN st.functions : \A o \in DOMAIN Param[x] :
    Fits(Param[x][o], o, st.instances) \/ ShadowedIn(st, o)

Grounded(st) ==
  st.goal # None =>
    /\ st.goal = [root |-> st.goal.root, parts |-> st.goal.parts]
    /\ st.goal.root = "AND" =>
         \A s \in st.goal.parts : NamedIn(Found(s)) \subseteq KnownIn(st)

StoreOK(st) == Typed(st) /\ Valid(st) /\ Grounded(st)

LEMMA NewStoreOK == StoreOK(NewStore)
BY DEF StoreOK, Typed, Valid, Grounded, NewStore, Empty

\* Adding an instance makes nothing invalid that it does not shadow.
LEMMA AddInstanceOK ==
  ASSUME NEW st, StoreOK(st), NEW o \in Names, NEW t \in Types PROVE StoreOK(addInstance(st, o, t))
<1> DEFINE new == addInstance(st, o, t)
<1>1. CASE o \in DOMAIN st.instances
  <2>1. new = st
    BY <1>1 DEF addInstance, StoreOK, Typed
  <2> QED BY <2>1
<1>2. CASE o \notin DOMAIN st.instances
  <2>1. /\ new = [instances |-> new.instances, predicates |-> st.predicates,
                  functions |-> st.functions, goal |-> st.goal]
        /\ new.instances = Assigned(st.instances, o, t)
    BY <1>2 DEF addInstance, StoreOK, Typed
  <2>2. /\ DOMAIN new.instances = DOMAIN st.instances \union {o} /\ new.instances[o] = t
        /\ \A n \in DOMAIN st.instances : new.instances[n] = st.instances[n]
    BY <2>1, <1>2 DEF Assigned
  <2> HIDE DEF new
  <2>3. Typed(new)
    BY <2>1, <2>2 DEF Typed, StoreOK
  <2>4. Valid(new)
    BY <2>1, <2>2, <1>2 DEF Valid, StoreOK, Fits, ShadowedIn
  <2>5. Grounded(new)
    BY <2>1, <2>2 DEF Grounded, StoreOK, KnownIn
  <2> QED BY <2>3, <2>4, <2>5 DEF StoreOK, new
<1> QED BY <1>1, <1>2

\* Removing an instance removes what names it, and nothing that is left needs it.
LEMMA RemoveInstanceOK ==
  ASSUME NEW st, StoreOK(st), NEW o \in Names PROVE StoreOK(removeInstance(st, o))
<1> DEFINE new == removeInstance(st, o)
<1>1. /\ new = [instances |-> new.instances, predicates |-> new.predicates,
                functions |-> new.functions, goal |-> new.goal]
      /\ new.instances = Only(st.instances, Names \ {o})
      /\ new.predicates = removeInvalidPredicates(st.predicates, o)
      /\ new.functions = removeInvalidFunctions(st.functions, o)
      /\ new.goal = removeInvalidGoals(st.goal, o)
  <2> DEFINE i == Only(st.instances, Names \ {o})
             p == removeInvalidPredicates(st.predicates, o)
             f == removeInvalidFunctions(st.functions, o)
             g == removeInvalidGoals(st.goal, o)
  <2>1. new = [st EXCEPT !.instances = i, !.predicates = p, !.functions = f, !.goal = g]
    BY DEF removeInstance
  <2>2. st = [instances |-> st.instances, predicates |-> st.predicates,
              functions |-> st.functions, goal |-> st.goal]
    BY DEF StoreOK, Typed
  <2> HIDE DEF new, i, p, f, g
  <2>3. new = [instances |-> i, predicates |-> p, functions |-> f, goal |-> g]
    BY <2>1, <2>2
  <2> QED BY <2>3 DEF i, p, f, g
<1>2. /\ DOMAIN new.instances = DOMAIN st.instances \ {o}
      /\ \A n \in DOMAIN new.instances : new.instances[n] = st.instances[n]
  BY <1>1 DEF Only, StoreOK, Typed
<1>3. /\ DOMAIN new.functions = {f \in DOMAIN st.functions : o \notin DOMAIN Param[f]}
      /\ \A f \in DOMAIN new.functions : new.functions[f] = st.functions[f]
  BY <1>1 DEF removeInvalidFunctions, Only, StoreOK, Typed
<1> HIDE DEF new
<1>4. Typed(new)
  BY <1>1, <1>2, <1>3 DEF Typed, StoreOK, removeInvalidPredicates
<1>5. Valid(new)
  BY <1>1, <1>2, <1>3 DEF Valid, StoreOK, Fits, ShadowedIn, removeInvalidPredicates
<1>6. Grounded(new)
  <2>1. CASE st.goal = None \/ st.goal.root # "AND"
    BY <1>1, <2>1 DEF Grounded, StoreOK, removeInvalidGoals
  <2>2. CASE st.goal # None /\ st.goal.root = "AND"
    <3> DEFINE rest == {s \in st.goal.parts : o \notin NamedIn(Found(s))}
    <3>1. new.goal = None \/ new.goal = [root |-> "AND", parts |-> rest]
      BY <1>1, <2>2 DEF removeInvalidGoals, Grounded, StoreOK
    <3>2. \A s \in rest : NamedIn(Found(s)) \subseteq KnownIn(new)
      BY <2>2, <1>2 DEF Grounded, StoreOK, KnownIn
    <3> QED BY <3>1, <3>2 DEF Grounded
  <2> QED BY <2>1, <2>2
<1> QED BY <1>4, <1>5, <1>6 DEF StoreOK, new

\* A problem adds objects, and of its facts, values and goal what is valid with them.
LEMMA AddProblemOK ==
  ASSUME NEW st, StoreOK(st), NEW p \in Problems PROVE StoreOK(addProblem(st, p))
<1> DEFINE new == addProblem(st, p)
           inst == new.instances
           given == {f \in DOMAIN p.values : isValidFunction(f, inst)}
<1>1. /\ new = [instances |-> inst, predicates |-> new.predicates,
                functions |-> new.functions, goal |-> new.goal]
      /\ DOMAIN inst = DOMAIN st.instances \union DOMAIN Constant \union DOMAIN p.objects
      /\ \A o \in DOMAIN inst :
           inst[o] = IF o \in DOMAIN st.instances THEN st.instances[o]
                     ELSE IF o \in DOMAIN Constant THEN Constant[o] ELSE p.objects[o]
      /\ new.predicates = st.predicates \union {f \in p.facts : isValidPredicate(f, inst)}
      /\ new.functions = [f \in DOMAIN st.functions \union given |->
                            IF f \in given THEN p.values[f] ELSE st.functions[f]]
      /\ new.goal = IF checkPredicateTreeTypes(p.goal, inst) THEN p.goal ELSE st.goal
  BY DEF addProblem
<1> HIDE DEF new
<1>2. Typed(new)
  BY <1>1, DomainAssumption, ProblemAssumption DEF Typed, StoreOK
<1>3. Valid(new)
  BY <1>1 DEF Valid, StoreOK, Typed, Fits, ShadowedIn, isValidPredicate, isValidFunction
<1>4. Grounded(new)
  <2>1. KnownIn(st) \subseteq KnownIn(new)
    BY <1>1 DEF KnownIn
  <2>2. CASE checkPredicateTreeTypes(p.goal, inst)
    <3>1. new.goal = p.goal /\ p.goal = [root |-> p.goal.root, parts |-> p.goal.parts]
      BY <1>1, <2>2, ProblemAssumption
    <3>2. ASSUME NEW s \in p.goal.parts, NEW o \in NamedIn(Found(s)) PROVE o \in KnownIn(new)
      <4>1. PICK x \in s.of : o \in DOMAIN Param[x]
        BY <3>2 DEF NamedIn, Found
      <4>2. Fits(Param[x][o], o, inst)
        BY <2>2, <4>1 DEF checkPredicateTreeTypes, isValidPredicate, isValidFunction
      <4> QED BY <1>1, <4>2 DEF Fits, KnownIn
    <3> QED BY <3>1, <3>2 DEF Grounded
  <2>3. CASE ~checkPredicateTreeTypes(p.goal, inst)
    BY <1>1, <2>1, <2>3 DEF Grounded, StoreOK
  <2> QED BY <2>2, <2>3
<1> QED BY <1>2, <1>3, <1>4 DEF StoreOK, new

-----------------------------------------------------------------------------

\* What a client still trusts, or is about to, is so.
KeptInv ==
  (asking = "yes" \/ (asking = "no" /\ holds)) /\ fresh /\ notices = 0 /\ configured /\ ~quiet =>
    existPredicate(Watched)

IInv == TypeOK /\ StoreOK(store) /\ KeptInv

\* A service call leaves a store that is in order ...
LEMMA ServiceStoreOK ==
  ASSUME StoreOK(store), NEW mine \in BOOLEAN, Service(mine) PROVE StoreOK(store')
<1>1. CASE \E o \in Names, t \in Types : AddInstance(mine, o, t)
  BY <1>1, AddInstanceOK DEF AddInstance
<1>2. CASE \E o \in Names : RemoveInstance(mine, o)
  BY <1>2, RemoveInstanceOK DEF RemoveInstance
<1>3. CASE \E f \in Predicates : AddPredicate(mine, f)
  <2>1. PICK f \in Predicates : AddPredicate(mine, f)
    BY <1>3
  <2>2. CASE store' = store
    BY <2>2
  <2>3. CASE store' = [store EXCEPT !.predicates = @ \union {f}] /\ isValidPredicate(f, store.instances)
    BY <2>3 DEF StoreOK, Typed, Valid, Grounded, isValidPredicate, ShadowedIn, KnownIn
  <2> QED BY <2>1, <2>2, <2>3 DEF AddPredicate
<1>4. CASE \E f \in Predicates : RemovePredicate(mine, f)
  BY <1>4 DEF StoreOK, Typed, Valid, Grounded, RemovePredicate, ShadowedIn, KnownIn
<1>5. CASE \E f \in Fluents : RemoveFunction(mine, f)
  BY <1>5 DEF StoreOK, Typed, Valid, Grounded, RemoveFunction, Only,
                  ShadowedIn, KnownIn
<1>6. CASE \E f \in Fluents, v \in Values : AddFunction(mine, f, v) \/ UpdateFunction(mine, f, v)
  <2>1. PICK f \in Fluents, v \in Values :
          /\ isValidFunction(f, store.instances)
          /\ store' = [store EXCEPT !.functions = Assigned(@, f, v)]
    BY <1>6 DEF AddFunction, UpdateFunction
  <2> DEFINE funs == Assigned(store.functions, f, v)
  <2>2. /\ DOMAIN funs = DOMAIN store.functions \union {f} /\ funs[f] = v
        /\ \A x \in DOMAIN store.functions : x # f => funs[x] = store.functions[x]
    BY DEF Assigned
  <2>3. /\ store'.functions = funs
        /\ store' = [instances |-> store.instances, predicates |-> store.predicates,
                     functions |-> funs, goal |-> store.goal]
    BY <2>1 DEF StoreOK, Typed
  <2> HIDE DEF funs
  <2> QED BY <2>1, <2>2, <2>3 DEF StoreOK, Typed, Valid, Grounded, isValidFunction,
                             ShadowedIn, KnownIn
<1>7. CASE \E g \in Goals : SetGoal(mine, g)
  <2>1. PICK g \in Goals : SetGoal(mine, g)
    BY <1>7
  <2>2. /\ store' = [instances |-> store.instances, predicates |-> store.predicates,
                     functions |-> store.functions, goal |-> g]
        /\ checkPredicateTreeTypes(g, store.instances)
    BY <2>1 DEF SetGoal, StoreOK, Typed
  <2>3. g = [root |-> g.root, parts |-> g.parts]
    BY ProblemAssumption
  <2>4. \A s \in g.parts : NamedIn(Found(s)) \subseteq KnownIn(store)
    BY <2>2 DEF checkPredicateTreeTypes, isValidPredicate, isValidFunction, Fits, KnownIn, NamedIn, Found
  <2> QED BY <2>2, <2>3, <2>4 DEF StoreOK, Typed, Valid, Grounded, ShadowedIn, KnownIn
<1>8. CASE ClearGoal(mine)
  BY <1>8 DEF StoreOK, Typed, Valid, Grounded, ClearGoal, ShadowedIn, KnownIn
<1>9. CASE ClearKnowledge(mine)
  BY <1>9, NewStoreOK DEF ClearKnowledge
<1>10. CASE \E p \in Problems : AddProblem(mine, p)
  BY <1>10, AddProblemOK DEF AddProblem
<1> QED BY <1>1, <1>2, <1>3, <1>4, <1>5, <1>6, <1>7, <1>8, <1>9, <1>10 DEF Service

\* ... and of the rest it changes only what a notice, or its absence, changes.
Noticed ==
  /\ configured /\ notices < MaxNotices
  /\ configured' = configured /\ active' = active /\ asking' = asking /\ holds' = holds
  /\ fresh' \in BOOLEAN
  /\ \/ notices' = notices + 1 /\ quiet' = quiet
     \/ notices' = notices /\ quiet' = TRUE

LEMMA ServiceIsNoticed == ASSUME NEW mine \in BOOLEAN, Service(mine) PROVE Noticed
<1> USE DEF Noticed, Call, Publish
<1>1. CASE \E o \in Names, t \in Types : AddInstance(mine, o, t)
  BY <1>1 DEF AddInstance
<1>2. CASE \E o \in Names : RemoveInstance(mine, o)
  BY <1>2 DEF RemoveInstance
<1>3. CASE \E f \in Predicates : AddPredicate(mine, f) \/ RemovePredicate(mine, f)
  BY <1>3 DEF AddPredicate, RemovePredicate
<1>4. CASE \E f \in Fluents : RemoveFunction(mine, f)
  BY <1>4 DEF RemoveFunction
<1>5. CASE \E f \in Fluents, v \in Values : AddFunction(mine, f, v) \/ UpdateFunction(mine, f, v)
  BY <1>5 DEF AddFunction, UpdateFunction
<1>6. CASE \/ \E g \in Goals : SetGoal(mine, g)
           \/ ClearGoal(mine) \/ ClearKnowledge(mine)
           \/ \E p \in Problems : AddProblem(mine, p)
  BY <1>6 DEF SetGoal, ClearGoal, ClearKnowledge, AddProblem
<1> QED BY <1>1, <1>2, <1>3, <1>4, <1>5, <1>6 DEF Service

\* The step that changes the store without a call.
LEMMA ConfigureStoreOK == Configure => StoreOK(store')
BY NewStoreOK, AddProblemOK DEF Configure

LEMMA StoreKept == ASSUME StoreOK(store), Next PROVE StoreOK(store')
<1>1. CASE \E mine \in BOOLEAN : Service(mine)
  BY <1>1, ServiceStoreOK
<1>2. CASE Activate \/ Deactivate \/ Check \/ Answer \/ Take \/ ReadNotice
  BY <1>2 DEF Activate, Deactivate, Check, Answer, Take, ReadNotice
<1> QED BY <1>1, <1>2, ConfigureStoreOK DEF Next

LEMMA NoticesOK ==
  ASSUME TypeOK PROVE notices \in Nat /\ MaxNotices \in Nat /\ notices =< MaxNotices
<1>1. notices \in 0 .. MaxNotices
  BY Zenon DEF TypeOK
<1>2. MaxNotices \in Nat
  BY DomainAssumption
<1> QED BY <1>1, <1>2

LEMMA TypeKept == ASSUME TypeOK, StoreOK(store'), Next PROVE TypeOK'
<1>0. /\ notices \in Nat /\ MaxNotices \in Nat /\ notices =< MaxNotices
  BY NoticesOK
<1>1. Typed(store')
  BY DEF StoreOK
<1>2. CASE \E mine \in BOOLEAN : Service(mine)
  <2>1. Noticed
    BY <1>2, ServiceIsNoticed
  <2>2. notices' \in 0 .. MaxNotices
    BY <1>0, <2>1 DEF Noticed
  <2> QED BY <1>1, <2>1, <2>2 DEF TypeOK, Typed, Noticed
<1>3. CASE Configure \/ Activate \/ Deactivate
  BY <1>1, <1>3 DEF TypeOK, Typed, Configure, Activate, Deactivate, client
<1>4. CASE Check
  BY <1>1, <1>4 DEF TypeOK, Typed, Check
<1>5. CASE Answer
  <2>1. asking' \in {"no", "asked", "yes", "answered no"}
    BY <1>5 DEF Answer
  <2>2. /\ configured' = configured /\ active' = active /\ quiet' = quiet
        /\ notices' = notices /\ holds' = holds /\ fresh' = fresh
    BY <1>5 DEF Answer
  <2> QED BY <1>1, <2>1, <2>2, Zenon DEF TypeOK, Typed
<1>6. CASE Take
  <2>1. holds' \in BOOLEAN /\ asking' = "no"
    BY <1>6 DEF Take
  <2>2. /\ configured' = configured /\ active' = active /\ quiet' = quiet
        /\ notices' = notices /\ fresh' = fresh
    BY <1>6 DEF Take
  <2>3. asking' \in {"no", "asked", "yes", "answered no"}
    BY <2>1
  <2> QED BY <1>1, <2>1, <2>2, <2>3, Zenon DEF TypeOK, Typed
<1>7. CASE ReadNotice
  <2>1. notices' \in 0 .. MaxNotices
    BY <1>0, <1>7 DEF ReadNotice
  <2> QED BY <1>0, <1>1, <1>7, <2>1 DEF TypeOK, Typed, ReadNotice
<1> QED BY <1>2, <1>3, <1>4, <1>5, <1>6, <1>7 DEF Next

LEMMA KeptKept == ASSUME TypeOK, KeptInv, Next PROVE KeptInv'
<1>1. CASE \E mine \in BOOLEAN : Service(mine)
  <2>1. notices \in Nat
    BY NoticesOK
  <2>2. Noticed
    BY <1>1, ServiceIsNoticed
  <2>3. notices' # 0 \/ quiet' = TRUE
    BY <2>1, <2>2 DEF Noticed
  <2> QED BY <2>3 DEF KeptInv
<1>2. CASE Configure \/ Activate \/ Deactivate
  BY <1>2 DEF KeptInv, Configure, Activate, Deactivate, client, existPredicate
<1>3. CASE Check \/ Answer \/ Take \/ ReadNotice
  BY <1>3 DEF KeptInv, TypeOK, Check, Answer, Take, ReadNotice, existPredicate
<1> QED BY <1>1, <1>2, <1>3 DEF Next

LEMMA InitHolds == Init => IInv
<1> SUFFICES ASSUME Init PROVE IInv
  OBVIOUS
<1>1. StoreOK(store)
  BY NewStoreOK DEF Init
<1>2. notices \in 0 .. MaxNotices /\ asking \in {"no", "asked", "yes", "answered no"}
  BY DomainAssumption DEF Init
<1>3. TypeOK
  BY <1>1, <1>2 DEF Init, TypeOK, StoreOK, Typed
<1>4. KeptInv
  BY DEF Init, KeptInv
<1> QED BY <1>1, <1>3, <1>4 DEF IInv

LEMMA StutterKeeps == IInv /\ UNCHANGED vars => IInv'
<1> SUFFICES ASSUME IInv, UNCHANGED vars PROVE IInv'
  OBVIOUS
<1>1. TypeOK'
  BY DEF IInv, TypeOK, vars, client
<1>2. StoreOK(store)'
  BY DEF IInv, vars
<1>3. KeptInv'
  BY DEF IInv, KeptInv, existPredicate, vars, client
<1> QED BY <1>1, <1>2, <1>3 DEF IInv

LEMMA InvariantHolds == Spec => []IInv
<1>1. IInv /\ [Next]_vars => IInv'
  <2>1. CASE UNCHANGED vars
    BY <2>1, StutterKeeps
  <2>2. ASSUME IInv, Next PROVE IInv'
    BY <2>2, StoreKept, TypeKept, KeptKept DEF IInv
  <2> QED BY <2>1, <2>2
<1> QED BY InitHolds, <1>1, PTL DEF Spec

\* What is stored is of the domain, a value of its function, an instance of one of its
\* types, and the node is active only when it is configured.
THEOREM TypeCorrect == Spec => []TypeOK
<1>1. IInv => TypeOK
  BY DEF IInv
<1> QED BY InvariantHolds, <1>1, PTL

\* For every domain and every order of additions and removals, nothing in the store
\* speaks of an object that is not there.
THEOREM NothingDangles == Spec => []StoredIsGrounded
<1>1. IInv => StoredIsGrounded
  BY DEF IInv, StoreOK, Valid, Fits, ShadowedIn, StoredIsGrounded, Stored, Known
<1> QED BY InvariantHolds, <1>1, PTL

\* What was valid when it was stored can be removed again, unless an instance has come to
\* shadow a constant that it names.
THEOREM ValidStaysValid == Spec => []StoredIsValid
<1>1. IInv => StoredIsValid
  BY DEF IInv, StoreOK, Valid, ShadowedIn, StoredIsValid, Stored, Shadowed
<1> QED BY InvariantHolds, <1>1, PTL

\* No conjunction that is the goal names an object that was removed.
THEOREM GoalStaysGrounded == Spec => []GoalIsGrounded
<1>1. IInv => GoalIsGrounded
  BY DEF IInv, StoreOK, Grounded, KnownIn, GoalIsGrounded, Known
<1> QED BY InvariantHolds, <1>1, PTL

\* A client that has read all notifications is right to trust its last check, for any
\* number of clients and any delay of the notifications.
THEOREM TrustIsJustified == Spec => []KeptCheckHolds
<1>1. IInv => KeptCheckHolds
  BY DEF IInv, KeptInv, KeptCheckHolds
<1> QED BY InvariantHolds, <1>1, PTL
==============================================================================
