---------------------------- MODULE ProblemExpert ----------------------------
(***************************************************************************)
(* The problem expert: the store of instances, predicates, functions and    *)
(* the goal, the node that serves it, and a client that keeps the result of *)
(* a check as long as it has heard of no update.                            *)
(*                                                                          *)
(* A predicate, a function or a goal is known by the objects it names, with *)
(* the parameter each of them stands for.  The node handles one service     *)
(* call at a time, so a call is one step; a call whose client has stopped   *)
(* waiting is served as any other.                                          *)
(***************************************************************************)
EXTENDS Naturals

CONSTANTS
  Names,       \* names that objects may have
  Types,       \* the types of the domain
  Constant,    \* the constants of the domain, with the type that declares them
  Predicates,  \* ground predicates
  Fluents,     \* ground functions
  Param,       \* of a predicate or function: the parameter each name stands for
  Derives,     \* of a predicate: the sets of predicates it is derived from
  Values,      \* values of functions
  Goals,       \* goals that clients set
  Problems,    \* problems that clients add, or that the node reads
  Watched,     \* the predicate that a client checks
  None,        \* no goal
  MaxNotices   \* bound on the notifications a client has not read

\* A type is declared for every parameter, object and constant; a goal is a conjunction,
\* or something else, of subgoals; problems speak of what the domain has.
ASSUME DomainAssumption ==
  /\ \A x \in Predicates \union Fluents :
       /\ DOMAIN Param[x] \subseteq Names
       /\ \A o \in DOMAIN Param[x] : Param[x][o].type \in Types
  /\ DOMAIN Constant \subseteq Names
  /\ \A o \in DOMAIN Constant : Constant[o] \in Types
  /\ None \notin Goals /\ MaxNotices \in Nat
ASSUME ProblemAssumption ==
  /\ \A g \in Goals \union {p.goal : p \in Problems} : g = [root |-> g.root, parts |-> g.parts]
  /\ \A p \in Problems :
       /\ DOMAIN p.objects \subseteq Names
       /\ \A o \in DOMAIN p.objects : p.objects[o] \in Types
       /\ p.facts \subseteq Predicates
       /\ DOMAIN p.values \subseteq Fluents
       /\ \A f \in DOMAIN p.values : p.values[f] \in Values
VARIABLES
  configured,  \* problem_expert_ is not null
  active,      \* the publishers are active
  store,       \* the problem expert: instances_ with the type of each,
               \* predicates_, functions_ with the value of each, and goal_
  quiet,       \* history: a change since the client's last call that sent no notice
  notices,     \* update_notify messages the client has not read
  asking,      \* the client's call of exist_problem_predicate
  holds,       \* the result of the client's last check
  fresh        \* last_check_problem_ts_ > update_time_

client == <<asking, holds, fresh>>
vars   == <<configured, active, store, quiet, notices, client>>

-----------------------------------------------------------------------------
(* The store.                                                              *)

Empty    == [x \in {} |-> None]
NewStore == [instances |-> Empty, predicates |-> {}, functions |-> Empty, goal |-> None]

Only(f, S)      == [x \in DOMAIN f \intersect S |-> f[x]]
Assigned(f, x, v) == [y \in DOMAIN f \union {x} |-> IF y = x THEN v ELSE f[y]]

\* An instance of the parameter's type or a subtype, or else a constant declared
\* with that very type.
Fits(p, o, inst) ==
  IF o \in DOMAIN inst THEN inst[o] = p.type \/ inst[o] \in p.subtypes
  ELSE o \in DOMAIN Constant /\ Constant[o] = p.type

isValidPredicate(x, inst) == \A o \in DOMAIN Param[x] : Fits(Param[x][o], o, inst)
isValidFunction(x, inst)  == \A o \in DOMAIN Param[x] : Fits(Param[x][o], o, inst)

checkPredicateTreeTypes(g, inst) ==
  \A s \in g.parts : \A x \in s.of :
    IF x \in Predicates THEN isValidPredicate(x, inst) ELSE isValidFunction(x, inst)

\* Stored, or derived from what is stored.
existPredicate(f) ==
  f \in store.predicates \/ \E s \in Derives[f] : s \subseteq store.predicates

\* The predicates and functions that are found in a subgoal: below AND, OR and
\* NOT it finds no function.
Found(s) == IF s.compound THEN s.of \intersect Predicates ELSE s.of
NamedIn(s) == UNION {DOMAIN Param[x] : x \in s}

removeInvalidPredicates(preds, o) == {f \in preds : o \notin DOMAIN Param[f]}
removeInvalidFunctions(funs, o)   == Only(funs, {f \in Fluents : o \notin DOMAIN Param[f]})
removeInvalidGoals(g, o) ==
  IF g = None \/ g.root # "AND" THEN g
  ELSE LET rest == {s \in g.parts : o \notin NamedIn(Found(s))}
       IN IF rest = {} THEN None ELSE [g EXCEPT !.parts = rest]

addInstance(st, o, t) ==
  [st EXCEPT !.instances = IF o \in DOMAIN @ THEN @ ELSE Assigned(@, o, t)]

\* Mutant of removeInstance: the functions of the instance stay.
KeepFunctions(st, o) ==
  [st EXCEPT !.instances = Only(@, Names \ {o}),
             !.predicates = removeInvalidPredicates(@, o),
             !.goal = removeInvalidGoals(@, o)]

\* Mutant of removeInstance: the goal stays.
KeepGoal(st, o) ==
  [st EXCEPT !.instances = Only(@, Names \ {o}),
             !.predicates = removeInvalidPredicates(@, o),
             !.functions = removeInvalidFunctions(@, o)]

\* Everything that names the instance goes with it, also if there is no such
\* instance.
removeInstance(st, o) ==
  [st EXCEPT !.instances = Only(@, Names \ {o}),
             !.predicates = removeInvalidPredicates(@, o),
             !.functions = removeInvalidFunctions(@, o),
             !.goal = removeInvalidGoals(@, o)]

\* addProblem adds to what is there, constants and objects first; what is not
\* valid is left out, and the problem is added all the same.
addProblem(st, p) ==
  LET objects == DOMAIN st.instances \union DOMAIN Constant \union DOMAIN p.objects
      inst == [o \in objects |->
                 IF o \in DOMAIN st.instances THEN st.instances[o]
                 ELSE IF o \in DOMAIN Constant THEN Constant[o] ELSE p.objects[o]]
      given == {f \in DOMAIN p.values : isValidFunction(f, inst)}
  IN [instances  |-> inst,
      predicates |-> st.predicates \union {f \in p.facts : isValidPredicate(f, inst)},
      functions  |-> [f \in DOMAIN st.functions \union given |->
                        IF f \in given THEN p.values[f] ELSE st.functions[f]],
      goal       |-> IF checkPredicateTreeTypes(p.goal, inst) THEN p.goal ELSE st.goal]

-----------------------------------------------------------------------------
(* The node, and the clients that call it.                                 *)

\* A change is notified, if the publishers are active.
Publish == IF active THEN notices' = notices + 1 /\ UNCHANGED quiet
           ELSE quiet' = TRUE /\ UNCHANGED notices

\* A call of a service, by the client that checks (whose update_time_ is then
\* now) or by somebody else.
Call(mine) ==
  /\ configured /\ notices < MaxNotices
  /\ mine => asking = "no"
  /\ fresh' = (fresh /\ ~mine)
  /\ UNCHANGED <<configured, active, asking, holds>>

\* Mutant of AddInstance: an instance may change its type.
RetypeInstance(mine, o, t) ==
  /\ Call(mine)
  /\ t \in Types
  /\ store' = [store EXCEPT !.instances = Assigned(@, o, t)]
  /\ Publish

AddInstance(mine, o, t) ==
  /\ Call(mine)
  /\ t \in Types
  /\ o \in DOMAIN store.instances => store.instances[o] = t
  /\ store' = addInstance(store, o, t)
  /\ Publish

\* The removal of what is no instance fails, and is not notified, though it may
\* remove what names a constant.
RemoveInstance(mine, o) ==
  /\ Call(mine /\ o \in DOMAIN store.instances)
  /\ store' = removeInstance(store, o)
  /\ IF o \in DOMAIN store.instances THEN Publish ELSE quiet' = TRUE /\ UNCHANGED notices

\* What is derived already is not stored, and the client is told it is there.
AddPredicate(mine, f) ==
  /\ Call(mine)
  /\ existPredicate(f) \/ isValidPredicate(f, store.instances)
  /\ store' = IF existPredicate(f) THEN store
              ELSE [store EXCEPT !.predicates = @ \union {f}]
  /\ Publish

\* What is not valid cannot be removed, even if it is stored.
RemovePredicate(mine, f) ==
  /\ Call(mine)
  /\ isValidPredicate(f, store.instances)
  /\ store' = [store EXCEPT !.predicates = @ \ {f}]
  /\ Publish

AddFunction(mine, f, v) ==
  /\ Call(mine)
  /\ isValidFunction(f, store.instances)
  /\ store' = [store EXCEPT !.functions = Assigned(@, f, v)]
  /\ Publish

UpdateFunction(mine, f, v) ==
  /\ Call(mine)
  /\ f \in DOMAIN store.functions /\ isValidFunction(f, store.instances)
  /\ store' = [store EXCEPT !.functions = Assigned(@, f, v)]
  /\ Publish

RemoveFunction(mine, f) ==
  /\ Call(mine)
  /\ isValidFunction(f, store.instances)
  /\ store' = [store EXCEPT !.functions = Only(@, Fluents \ {f})]
  /\ Publish

SetGoal(mine, g) ==
  /\ Call(mine)
  /\ checkPredicateTreeTypes(g, store.instances)
  /\ store' = [store EXCEPT !.goal = g]
  /\ Publish

ClearGoal(mine) ==
  /\ Call(mine)
  /\ store' = [store EXCEPT !.goal = None]
  /\ Publish

ClearKnowledge(mine) ==
  /\ Call(mine)
  /\ store' = NewStore
  /\ Publish

AddProblem(mine, p) ==
  /\ Call(mine)
  /\ store' = addProblem(store, p)
  /\ Publish

\* on_configure: a new store, perhaps with a problem of its own.
Configure ==
  /\ ~active
  /\ configured' = TRUE
  /\ store' \in {NewStore} \union {addProblem(NewStore, p) : p \in Problems}
  /\ quiet' = TRUE
  /\ UNCHANGED <<active, notices, client>>

\* Mutant of Activate: the node is activated as it is.
ActivateEarly ==
  /\ ~active
  /\ active' = TRUE
  /\ UNCHANGED <<configured, store, quiet, notices, client>>

Activate ==
  /\ configured /\ ~active
  /\ active' = TRUE
  /\ UNCHANGED <<configured, store, quiet, notices, client>>

Deactivate ==
  /\ active
  /\ active' = FALSE
  /\ UNCHANGED <<configured, store, quiet, notices, client>>

-----------------------------------------------------------------------------
(* The client that checks, as CheckOverAllReq does.                        *)

\* The time of the check is taken before the problem expert is asked.
Check ==
  /\ asking = "no" /\ ~(fresh /\ holds)
  /\ asking' = "asked" /\ fresh' = TRUE /\ quiet' = FALSE
  /\ UNCHANGED <<configured, active, store, notices, holds>>

Answer ==
  /\ asking = "asked"
  /\ asking' = IF configured /\ existPredicate(Watched) THEN "yes" ELSE "answered no"
  /\ UNCHANGED <<configured, active, store, quiet, notices, holds, fresh>>

\* The result comes, or the client stops waiting, which it takes for "no".
Take ==
  /\ asking # "no"
  /\ asking' = "no"
  /\ holds' = (asking = "yes")
  /\ UNCHANGED <<configured, active, store, quiet, notices, fresh>>

\* Mutant of ReadNotice: the time of the update is not kept.
ReadAndForget ==
  /\ notices > 0
  /\ notices' = notices - 1
  /\ UNCHANGED <<configured, active, store, quiet, asking, holds, fresh>>

\* update_notify is read while the client spins for the answer to this or another
\* of its calls.
ReadNotice ==
  /\ notices > 0
  /\ notices' = notices - 1
  /\ fresh' = FALSE
  /\ UNCHANGED <<configured, active, store, quiet, asking, holds>>

-----------------------------------------------------------------------------

Init ==
  /\ configured = FALSE /\ active = FALSE
  /\ store = NewStore
  /\ quiet = FALSE /\ notices = 0
  /\ asking = "no" /\ holds = FALSE /\ fresh = FALSE

Service(mine) ==
  \/ \E o \in Names, t \in Types : AddInstance(mine, o, t)
  \/ \E o \in Names : RemoveInstance(mine, o)
  \/ \E f \in Predicates : AddPredicate(mine, f) \/ RemovePredicate(mine, f)
  \/ \E f \in Fluents : RemoveFunction(mine, f)
  \/ \E f \in Fluents, v \in Values : AddFunction(mine, f, v) \/ UpdateFunction(mine, f, v)
  \/ \E g \in Goals : SetGoal(mine, g)
  \/ ClearGoal(mine) \/ ClearKnowledge(mine)
  \/ \E p \in Problems : AddProblem(mine, p)

Next ==
  \/ \E mine \in BOOLEAN : Service(mine)
  \/ Configure \/ Activate \/ Deactivate
  \/ Check \/ Answer \/ Take \/ ReadNotice

Spec == Init /\ [][Next]_vars

-----------------------------------------------------------------------------

TypeOK ==
  /\ configured \in BOOLEAN /\ active \in BOOLEAN /\ (active => configured)
  /\ quiet \in BOOLEAN
  /\ DOMAIN store.instances \subseteq Names
  /\ \A o \in DOMAIN store.instances : store.instances[o] \in Types
  /\ store.predicates \subseteq Predicates
  /\ DOMAIN store.functions \subseteq Fluents
  /\ \A f \in DOMAIN store.functions : store.functions[f] \in Values
  /\ notices \in 0 .. MaxNotices
  /\ asking \in {"no", "asked", "yes", "answered no"}
  /\ holds \in BOOLEAN /\ fresh \in BOOLEAN

\* Whatever is added, removed and added again, nothing in the store speaks of an
\* object that is not there: a removal takes along what names the object
\* (removeInstance), and what comes later names what is there.
Known == DOMAIN store.instances \union DOMAIN Constant
Stored == store.predicates \union DOMAIN store.functions
StoredIsGrounded == \A x \in Stored : DOMAIN Param[x] \subseteq Known

\* What was valid when it was stored stays so, and can be removed, over all changes
\* of the instances, but for what names a constant that an instance of another
\* type has come to shadow (addInstance does not look at the constants).
Shadowed(o) ==
  /\ o \in DOMAIN store.instances /\ o \in DOMAIN Constant
  /\ store.instances[o] # Constant[o]
StoredIsValid ==
  \A x \in Stored : \A o \in DOMAIN Param[x] :
    Fits(Param[x][o], o, store.instances) \/ Shadowed(o)

\* A goal that is a conjunction names no object that has been removed, as far as
\* removeInvalidGoals looks into its parts.
GoalIsGrounded ==
  store.goal # None /\ store.goal.root = "AND" =>
    \A s \in store.goal.parts : NamedIn(Found(s)) \subseteq Known

\* A client that still trusts its last check, and has read all notifications, is
\* right to: nothing it has checked has changed meanwhile, by a notification
\* overtaking an answer or a check overtaking a change.
KeptCheckHolds ==
  asking = "no" /\ holds /\ fresh /\ notices = 0 /\ configured /\ ~quiet =>
    existPredicate(Watched)
=============================================================================
