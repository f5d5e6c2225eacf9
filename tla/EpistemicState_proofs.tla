-------------------------- MODULE EpistemicState_proofs --------------------------
(* What holds of the belief for every task, any number of agents and clients' *)
(* reports, and any bounds.                                                    *)
EXTENDS EpistemicState, FiniteSetTheorems, TLAPS

Proper(m) ==
  /\ m = [worlds |-> m.worlds, designated |-> m.designated]
  /\ m.designated # {} /\ m.designated \subseteq m.worlds

IInv == (loaded => Proper(model)) /\ PublishedIsCurrent

\* A repair designates worlds of the model, if it designates any.
LEMMA RedesignatedProper ==
  ASSUME NEW m, Proper(m), NEW a, NEW e, Candidates(m, a, e) # {}
  PROVE  Proper(Redesignated(m, a, e))
BY DEF Proper, Redesignated, Candidates

\* If an event can come about in a world held possible, the product has the world that
\* comes of it, and holds it possible; and it holds none possible that it does not have.
LEMMA ProductProper ==
  ASSUME NEW m, m.designated \subseteq m.worlds, NEW a, NEW e \in Outcomes(m, a)
  PROVE  Proper(ProductUpdate(m, a, e))
<1> DEFINE worlds == UNION {{Step(a, f, w) : w \in {v \in m.worlds : Fires(m, a, f, v)}}
                              : f \in EventsFor(a)}
           designated == {Step(a, e, w) : w \in {v \in m.designated : Fires(m, a, e, v)}}
<1>1. ProductUpdate(m, a, e) = [worlds |-> worlds, designated |-> designated]
  BY DEF ProductUpdate
<1>2. e \in EventsFor(a) /\ \E w \in m.designated : Fires(m, a, e, w)
  BY DEF Outcomes
<1>3. designated # {}
  BY <1>2
<1>4. designated \subseteq worlds
  <2> SUFFICES ASSUME NEW w \in m.designated, Fires(m, a, e, w) PROVE Step(a, e, w) \in worlds
    OBVIOUS
  <2>1. Step(a, e, w) \in {Step(a, e, v) : v \in {u \in m.worlds : Fires(m, a, e, u)}}
    OBVIOUS
  <2> QED BY <1>2, <2>1
<1> HIDE DEF worlds, designated
<1> QED BY <1>1, <1>3, <1>4 DEF Proper

\* A repair is towards what was observed, or else towards what the action does or may find.
LEMMA RepairedTowards ==
  ASSUME NEW r, NEW m \in Repairs(r)
  PROVE  \E e : /\ m = Redesignated(model, r.action, e)
                /\ r.observed # None => e = r.observed \/ r.action \in Ontic
BY DEF Repairs, Target

\* The model that an update starts from has the worlds of the model in use, and designates
\* only such.
LEMMA StartsWithin ==
  ASSUME Proper(model), NEW r, NEW m \in Starts(r)
  PROVE  m.worlds = model.worlds /\ m.designated \subseteq m.worlds
<1>1. \A e : LET n == Redesignated(model, r.action, e)
            IN n.worlds = model.worlds /\ n.designated \subseteq n.worlds
  BY DEF Proper, Redesignated, Candidates
<1> QED BY <1>1, RepairedTowards DEF Starts, Proper

\* No update has an outcome that is not one of the action's.
LEMMA ResultsWithin ==
  ASSUME NEW m, NEW a, NEW outcomes \in Results(m, a) PROVE outcomes \subseteq Outcomes(m, a)
BY DEF Results

\* An update takes place from one of these models, with one of the action's outcomes.
LEMMA UpdateForm ==
  ASSUME NEW c, NEW r, UpdateModel(c, r)
  PROVE  \E m, e : /\ m \in Starts(r) /\ e \in Outcomes(m, r.action)
                   /\ e = r.observed \/ r.observed = None
                   /\ model' = ProductUpdate(m, r.action, e)
                   /\ applied' = [applied EXCEPT ![r.action] = e]
                   /\ Answer(r, TRUE, m # model, e)
                   /\ guessed' = (guessed \/ Guesses(r, m, e))
BY ResultsWithin DEF UpdateModel

-----------------------------------------------------------------------------

\* An update or a repair keeps something possible, and so do an announcement, which is
\* refused else, and a task, which is refused if it holds nothing possible.
LEMMA ModelKept == ASSUME loaded => Proper(model), Next PROVE loaded' => Proper(model')
<1>1. ASSUME NEW c \in Clients, NEW r, RefuseAction(c, r) \/ AnswerAgain(c, r)
      PROVE  loaded' => Proper(model')
  BY <1>1 DEF RefuseAction, AnswerAgain, nodeVars
<1>2. ASSUME NEW c \in Clients, NEW r, UpdateModel(c, r) PROVE loaded' => Proper(model')
  <2>1. PICK m, e : /\ m \in Starts(r) /\ e \in Outcomes(m, r.action)
                    /\ model' = ProductUpdate(m, r.action, e)
    BY <1>2, UpdateForm
  <2>3. m.designated \subseteq m.worlds
    BY <1>2, <2>1, StartsWithin DEF UpdateModel
  <2> QED BY <2>1, <2>3, ProductProper
<1>3. ASSUME NEW c \in Clients, NEW r, FailAfterRepair(c, r) PROVE loaded' => Proper(model')
  <2>1. PICK m \in Repairs(r) : model' = m /\ m.designated # {}
    BY <1>3 DEF FailAfterRepair
  <2>2. PICK e : m = Redesignated(model, r.action, e)
    BY RepairedTowards
  <2>3. Proper(model)
    BY <1>3 DEF FailAfterRepair
  <2>4. Candidates(model, r.action, e) # {}
    BY <2>1, <2>2, <2>3 DEF Proper, Redesignated
  <2> QED BY <2>1, <2>2, <2>3, <2>4, RedesignatedProper
<1>4. ASSUME NEW formula \in Formulas, Announce(formula) PROVE loaded' => Proper(model')
  <2>1. loaded /\ model' = Restricted(model, formula) /\ Restricted(model, formula).designated # {}
    BY <1>4 DEF Announce
  <2> QED BY <2>1 DEF Proper, Restricted, Satisfying
<1>5. ASSUME NEW prior \in Tasks, LoadTask(prior) PROVE loaded' => Proper(model')
  <2> DEFINE worlds == [fact : Facts, seen : {[x \in Agents |-> {}]}]
             designated == {w \in worlds : w.fact \in prior}
  <2>1. CASE loaded' = FALSE
    BY <2>1
  <2>2. CASE prior # {} /\ model' = [worlds |-> worlds, designated |-> designated]
    <3>1. PICK f \in prior : f \in Facts
      BY <2>2, TaskAssumption
    <3>2. [fact |-> f, seen |-> [x \in Agents |-> {}]] \in designated
      BY <3>1
    <3>3. designated # {} /\ designated \subseteq worlds
      BY <3>2
    <3> HIDE DEF worlds, designated
    <3> QED BY <2>2, <3>3 DEF Proper
  <2> QED BY <1>5, <2>1, <2>2 DEF LoadTask
<1>6. ASSUME \/ \E goal \in Goals \union {None} : SetGoal(goal)
             \/ Activate \/ Deactivate \/ StopWaiting
             \/ \E a \in Actions : Execute(a)
             \/ \E next \in Facts : Change(next)
      PROVE  loaded' => Proper(model')
  BY <1>6 DEF SetGoal, Activate, Deactivate, StopWaiting, Execute, Change, nodeVars
<1> QED BY <1>1, <1>2, <1>3, <1>4, <1>5, <1>6 DEF Next

\* Whatever changes what is published is published, but for the repair that fails.
LEMMA PublishedKept == ASSUME PublishedIsCurrent, Next PROVE PublishedIsCurrent'
<1>1. ASSUME Publish PROVE PublishedIsCurrent'
  BY <1>1 DEF Publish, PublishedIsCurrent, Current
<1>2. ASSUME NEW c \in Clients, NEW r, RefuseAction(c, r) \/ AnswerAgain(c, r)
      PROVE  PublishedIsCurrent'
  BY <1>2 DEF RefuseAction, AnswerAgain, nodeVars, PublishedIsCurrent, Current
<1>3. ASSUME NEW c \in Clients, NEW r, UpdateModel(c, r) PROVE PublishedIsCurrent'
  BY <1>1, <1>3 DEF UpdateModel
<1>4. ASSUME NEW c \in Clients, NEW r, FailAfterRepair(c, r) PROVE PublishedIsCurrent'
  BY <1>4 DEF FailAfterRepair, PublishedIsCurrent
<1>5. ASSUME \/ \E formula \in Formulas : Announce(formula)
             \/ \E goal \in Goals \union {None} : SetGoal(goal)
             \/ \E prior \in Tasks : LoadTask(prior)
             \/ Activate
      PROVE  PublishedIsCurrent'
  BY <1>1, <1>5 DEF Announce, SetGoal, LoadTask, Activate
<1>6. ASSUME Deactivate PROVE PublishedIsCurrent'
  BY <1>6 DEF Deactivate, PublishedIsCurrent
<1>7. ASSUME StopWaiting \/ (\E a \in Actions : Execute(a)) \/ (\E next \in Facts : Change(next))
      PROVE  PublishedIsCurrent'
  BY <1>7 DEF StopWaiting, Execute, Change, nodeVars, PublishedIsCurrent, Current
<1> QED BY <1>2, <1>3, <1>4, <1>5, <1>6, <1>7 DEF Next

LEMMA InvariantHolds == Spec => []IInv
<1>1. Init => IInv
  BY DEF Init, IInv, PublishedIsCurrent
<1>2. IInv /\ [Next]_vars => IInv'
  <2>1. ASSUME IInv, Next PROVE IInv'
    BY <2>1, ModelKept, PublishedKept DEF IInv
  <2>2. ASSUME IInv, UNCHANGED vars PROVE IInv'
    BY <2>2 DEF IInv, PublishedIsCurrent, Current, vars, nodeVars
  <2> QED BY <2>1, <2>2
<1> QED BY <1>1, <1>2, PTL DEF Spec

\* For every task and any reports, late, repeated or blind: a model in use holds some
\* world possible, and only worlds that it has.
THEOREM BeliefIsNeverEmpty == Spec => []SomethingIsPossible
<1>1. IInv => SomethingIsPossible
  BY DEF IInv, Proper, SomethingIsPossible
<1> QED BY InvariantHolds, <1>1, PTL

\* A subscriber of the latched topic sees the model in use, its goal and version, but for
\* the time between a repair whose update failed and what is published next.
THEOREM SubscribersSeeTheModel == Spec => []PublishedIsCurrent
<1>1. IInv => PublishedIsCurrent
  BY DEF IInv
<1> QED BY InvariantHolds, <1>1, PTL

-----------------------------------------------------------------------------
(* The types, and what is known of the reports that wait.                  *)

\* What a report says: an observation is an event of the sensing that was done, as the
\* world showed it; only the executor asks for a repair, and perception always observes.
Honest(c, r) ==
  /\ r.recover <=> c = "executor"
  /\ c = "perception" => r.observed # None
  /\ r.observed # None => /\ r.action \in Sensing
                          /\ r.observed \in EventSet(r.action)
                          /\ r.after \in Means[r.observed]

ReportsInv == \A c \in Clients : \A i \in DOMAIN reports[c] : Honest(c, reports[c][i])

Typed ==
  /\ loaded \in BOOLEAN /\ active \in BOOLEAN /\ busy \in BOOLEAN
  /\ model \in Model
  /\ applied \in [Actions -> Events \union {None, "never"}]
  /\ goalOverride \in Goals \union {None} /\ version \in 0 .. MaxVersion
  /\ published = None \/ published.goal \in Goals \union {None}
  /\ unsent \in BOOLEAN /\ fact \in Facts /\ told \in Facts
  /\ reports \in [Clients -> Seq(Reports)]
  /\ answer = None \/ answer.report \in Reports

LEMMA StepTyped ==
  ASSUME NEW a \in Actions, NEW e \in EventsFor(a), NEW w \in World
  PROVE  Step(a, e, w) \in World
<1>1. CASE a \in Ontic
  <2>1. w.fact \in Facts /\ Effect[a][w.fact] \in Facts
    BY <1>1, TaskAssumption DEF World
  <2> QED BY SMTT(30), <1>1, <2>1 DEF Step, World
<1>2. CASE a \notin Ontic
  <2>1. a \in Sensing /\ Sensor[a] \in Agents /\ e \in Events
    BY <1>2, TaskAssumption DEF Actions, EventsFor, EventSet
  <2> QED BY <1>2, <2>1 DEF Step, World
<1> QED BY <1>1, <1>2

LEMMA ProductTyped ==
  ASSUME NEW m \in Model, NEW a \in Actions, NEW e \in EventsFor(a)
  PROVE  ProductUpdate(m, a, e) \in Model
<1> DEFINE worlds == UNION {{Step(a, f, w) : w \in {v \in m.worlds : Fires(m, a, f, v)}}
                              : f \in EventsFor(a)}
           designated == {Step(a, e, w) : w \in {v \in m.designated : Fires(m, a, e, v)}}
<1>1. ProductUpdate(m, a, e) = [worlds |-> worlds, designated |-> designated]
  BY DEF ProductUpdate
<1>2. worlds \subseteq World
  BY StepTyped DEF Model
<1>3. designated \subseteq World
  BY StepTyped DEF Model
<1> HIDE DEF worlds, designated
<1> QED BY <1>1, <1>2, <1>3 DEF Model

LEMMA StartsTyped ==
  ASSUME model \in Model, NEW r, NEW m \in Repairs(r) \union Starts(r)
  PROVE  m \in Model /\ m.worlds = model.worlds
<1>1. \A e : /\ Redesignated(model, r.action, e) \in Model
             /\ Redesignated(model, r.action, e).worlds = model.worlds
  BY DEF Model, Redesignated, Candidates
<1> QED BY <1>1, RepairedTowards DEF Starts

LEMMA TailIsLater ==
  ASSUME NEW T, NEW queue \in Seq(T), queue # <<>>, NEW i \in DOMAIN Tail(queue)
  PROVE  i + 1 \in DOMAIN queue /\ Tail(queue)[i] = queue[i + 1]
  OBVIOUS

\* What is served is the first report that a client has waiting.
LEMMA ServeKeeps ==
  ASSUME Typed, ReportsInv, NEW c \in Clients, NEW r, Serve(c, r)
  PROVE  /\ r \in Reports /\ Honest(c, r) /\ r.action \in Actions
         /\ reports' \in [Clients -> Seq(Reports)] /\ ReportsInv'
         /\ busy' \in BOOLEAN /\ fact' = fact
<1>1. /\ reports[c] \in Seq(Reports) /\ reports[c] # <<>> /\ r = reports[c][1]
      /\ reports' = [reports EXCEPT ![c] = Tail(@)]
  BY DEF Typed, Serve
<1>2. r \in Reports /\ Honest(c, r) /\ r.action \in Actions
  <2>1. 1 \in DOMAIN reports[c] /\ reports[c][1] \in Reports
    BY <1>1
  <2>2. Honest(c, reports[c][1])
    BY <2>1 DEF ReportsInv
  <2> QED BY <1>1, <2>1, <2>2 DEF Reports
<1>3. reports' \in [Clients -> Seq(Reports)]
  BY <1>1 DEF Typed
<1>4. ReportsInv'
  <2> SUFFICES ASSUME NEW d \in Clients, NEW i \in DOMAIN reports'[d]
               PROVE  Honest(d, reports'[d][i])
    BY DEF ReportsInv, Honest
  <2>1. CASE d = c
    <3>1. reports'[c] = Tail(reports[c])
      BY <1>1 DEF Typed
    <3>2. i + 1 \in DOMAIN reports[c] /\ reports'[c][i] = reports[c][i + 1]
      <4>1. i \in DOMAIN Tail(reports[c])
        BY <2>1, <3>1
      <4> QED BY <1>1, <3>1, <4>1, TailIsLater
    <3>3. Honest(c, reports[c][i + 1])
      BY <3>2 DEF ReportsInv
    <3> QED BY <2>1, <3>2, <3>3
  <2>2. CASE d # c
    BY <1>1, <2>2 DEF ReportsInv, Typed
  <2> QED BY <2>1, <2>2
<1> QED BY <1>2, <1>3, <1>4 DEF Serve, Typed

LEMMA PublishKeeps ==
  ASSUME Typed, Publish, goalOverride' \in Goals \union {None}
  PROVE  /\ published' = None \/ published'.goal \in Goals \union {None}
         /\ unsent' \in BOOLEAN
  BY DEF Typed, Publish

\* What an update takes is one of the events of the action.
LEMMA OutcomeTyped ==
  ASSUME NEW m, NEW a \in Actions, NEW e \in Outcomes(m, a)
  PROVE  e \in EventsFor(a) /\ e \in Events \union {None}
<1>1. e \in EventsFor(a)
  BY DEF Outcomes
<1>2. a \in Sensing => EventSet(a) \subseteq Events
  BY TaskAssumption DEF EventSet
<1> QED BY <1>1, <1>2 DEF EventsFor, Actions

LEMMA ServiceTyped ==
  ASSUME Typed, ReportsInv, NEW c \in Clients, NEW r,
         RefuseAction(c, r) \/ AnswerAgain(c, r) \/ UpdateModel(c, r) \/ FailAfterRepair(c, r)
  PROVE  Typed' /\ ReportsInv'
<1>0. Serve(c, r)
  BY DEF RefuseAction, AnswerAgain, UpdateModel, FailAfterRepair
<1>1. /\ r \in Reports /\ r.action \in Actions /\ r.after \in Facts
      /\ reports' \in [Clients -> Seq(Reports)] /\ ReportsInv'
      /\ busy' \in BOOLEAN /\ fact' = fact
  <2>1. /\ r \in Reports /\ r.action \in Actions
        /\ reports' \in [Clients -> Seq(Reports)] /\ ReportsInv'
        /\ busy' \in BOOLEAN /\ fact' = fact
    BY <1>0, ServeKeeps
  <2>2. r.after \in Facts
    BY <2>1 DEF Reports
  <2> QED BY <2>1, <2>2
<1>2. answer' = None \/ answer'.report \in Reports
  BY <1>1 DEF RefuseAction, AnswerAgain, UpdateModel, FailAfterRepair, Answer
<1>3. told' \in Facts
  BY <1>1 DEF RefuseAction, AnswerAgain, UpdateModel, FailAfterRepair, Typed
<1>4. CASE RefuseAction(c, r) \/ AnswerAgain(c, r)
  BY <1>1, <1>2, <1>3, <1>4 DEF RefuseAction, AnswerAgain, nodeVars, Typed
<1>5. CASE UpdateModel(c, r)
  <2>1. PICK m, e : /\ m \in Starts(r) /\ e \in Outcomes(m, r.action)
                    /\ model' = ProductUpdate(m, r.action, e)
                    /\ applied' = [applied EXCEPT ![r.action] = e]
    BY <1>5, UpdateForm
  <2>2. e \in EventsFor(r.action) /\ e \in Events \union {None}
    BY <1>1, <2>1, OutcomeTyped
  <2>3. model' \in Model
    BY <1>1, <2>1, <2>2, ProductTyped, StartsTyped DEF Typed
  <2>4. applied' \in [Actions -> Events \union {None, "never"}]
    BY <1>1, <2>1, <2>2 DEF Typed
  <2>5. UNCHANGED <<loaded, goalOverride, version, active>> /\ Publish
    BY <1>5 DEF UpdateModel
  <2> QED BY <1>1, <1>2, <1>3, <2>3, <2>4, <2>5, PublishKeeps DEF Typed
<1>6. CASE FailAfterRepair(c, r)
  <2>1. model' \in Model
    BY <1>6, StartsTyped DEF FailAfterRepair, Typed
  <2> QED BY <1>1, <1>2, <1>3, <1>6, <2>1 DEF FailAfterRepair, Typed
<1> QED BY <1>4, <1>5, <1>6

LEMMA LoadTyped ==
  ASSUME Typed, NEW prior \in Tasks, LoadTask(prior) PROVE Typed'
<1> DEFINE worlds == [fact : Facts, seen : {[x \in Agents |-> {}]}]
           designated == {w \in worlds : w.fact \in prior}
<1>1. worlds \subseteq World /\ designated \subseteq worlds
  BY DEF World
<1>2. \/ loaded' = TRUE /\ model' = [worlds |-> worlds, designated |-> designated]
      \/ loaded' = FALSE /\ model' = NoModel
  BY DEF LoadTask
<1> HIDE DEF worlds, designated
<1>3. loaded' \in BOOLEAN /\ model' \in Model
  <2>1. [worlds |-> worlds, designated |-> designated] \in Model
    BY <1>1 DEF Model
  <2>2. NoModel \in Model
    BY DEF Model, NoModel
  <2> QED BY <1>2, <2>1, <2>2
<1>4. /\ goalOverride' = None /\ told' = fact /\ Publish
      /\ UNCHANGED <<applied, version, active, fact, busy, reports, answer>>
  BY DEF LoadTask, worldVars
<1> QED BY <1>3, <1>4, PublishKeeps DEF Typed

LEMMA AnnounceTyped ==
  ASSUME Typed, NEW formula, Announce(formula) PROVE Typed'
<1>1. model' = Restricted(model, formula) /\ version' = version + 1 /\ version < MaxVersion
  BY DEF Announce
<1>2. model' \in Model
  BY <1>1 DEF Typed, Model, Restricted, Satisfying
<1>3. version' \in 0 .. MaxVersion
  BY <1>1, TaskAssumption DEF Typed
<1>4. UNCHANGED <<loaded, applied, goalOverride, active, fact, busy, reports, answer, told>> /\ Publish
  BY DEF Announce, worldVars
<1> QED BY <1>2, <1>3, <1>4, PublishKeeps DEF Typed

\* The two clients report what has been done, and perception what it has seen.
LEMMA ExecuteTyped ==
  ASSUME Typed, ReportsInv, NEW a \in Actions, Execute(a) PROVE Typed' /\ ReportsInv'
<1>1. PICK e \in Shown(a), perceived \in BOOLEAN, observed \in Shown(a) \union {None} :
        /\ observed \in {e, None}
        /\ reports' =
          [executor |-> Append(reports.executor,
             [action |-> a, observed |-> observed, recover |-> TRUE, after |-> fact']),
           perception |->
             IF perceived /\ a \in Sensing
             THEN Append(reports.perception,
               [action |-> a, observed |-> e, recover |-> FALSE, after |-> fact'])
             ELSE reports.perception]
  BY DEF Execute
<1>2. fact' \in Facts /\ (a \in Sensing => fact' = fact)
  BY TaskAssumption DEF Execute, Typed, Actions
<1>3. /\ e \in Events \union {None} /\ observed \in Events \union {None}
      /\ \A o \in {e, observed} :
           o # None => a \in Sensing /\ o \in EventSet(a) /\ fact' \in Means[o]
  <2>1. observed = e \/ observed = None
    BY <1>1
  <2>2. CASE a \in Ontic
    <3>1. e = None
      BY <2>2 DEF Shown
    <3> QED BY <2>1, <3>1
  <2>3. CASE a \notin Ontic
    <3>1. a \in Sensing /\ EventSet(a) \subseteq Events
      BY <2>3, TaskAssumption DEF Actions, EventSet
    <3>2. e \in EventSet(a) /\ fact \in Means[e]
      BY <2>3 DEF Shown
    <3> QED BY <1>2, <2>1, <3>1, <3>2
  <2> QED BY <2>2, <2>3
<1> DEFINE r1 == [action |-> a, observed |-> observed, recover |-> TRUE, after |-> fact']
           r2 == [action |-> a, observed |-> e, recover |-> FALSE, after |-> fact']
<1>4. r1 \in Reports /\ r2 \in Reports
  BY <1>2, <1>3 DEF Reports
<1>5. Honest("executor", r1) /\ (a \in Sensing => Honest("perception", r2))
  <2>1. a \in Sensing => e # None
    BY <1>1, TaskAssumption DEF Shown, EventSet
  <2> QED BY <1>3, <2>1 DEF Honest
<1>6. /\ DOMAIN reports' = Clients
      /\ reports'["executor"] = Append(reports["executor"], r1)
      /\ \/ reports'["perception"] = reports["perception"]
         \/ a \in Sensing /\ reports'["perception"] = Append(reports["perception"], r2)
      /\ reports["executor"] \in Seq(Reports) /\ reports["perception"] \in Seq(Reports)
      /\ reports' = [c \in Clients |-> reports'[c]]
  BY <1>1 DEF Clients, Typed
<1> HIDE DEF r1, r2
<1>7. reports' \in [Clients -> Seq(Reports)]
  <2>1. ASSUME NEW queue \in Seq(Reports), NEW r \in Reports PROVE Append(queue, r) \in Seq(Reports)
    OBVIOUS
  <2>2. Append(reports["executor"], r1) \in Seq(Reports) /\ Append(reports["perception"], r2) \in Seq(Reports)
    BY <1>4, <1>6, <2>1
  <2>3. reports'["executor"] \in Seq(Reports) /\ reports'["perception"] \in Seq(Reports)
    BY <1>6, <2>2
  <2>4. \A c \in Clients : reports'[c] \in Seq(Reports)
    BY <2>3 DEF Clients
  <2> QED BY <1>6, <2>4
<1>8. ReportsInv'
  <2>1. \A i \in DOMAIN reports'["executor"] :
          reports'["executor"][i] = r1 \/ (i \in DOMAIN reports["executor"]
                                           /\ reports'["executor"][i] = reports["executor"][i])
    BY <1>4, <1>6
  <2>2. \A i \in DOMAIN reports'["perception"] :
          (a \in Sensing /\ reports'["perception"][i] = r2) \/ (i \in DOMAIN reports["perception"]
                                             /\ reports'["perception"][i] = reports["perception"][i])
    BY <1>4, <1>6
  <2> SUFFICES ASSUME NEW c \in Clients, NEW i \in DOMAIN reports'[c]
               PROVE  Honest(c, reports'[c][i])
    BY DEF ReportsInv, Honest
  <2> QED BY <1>5, <2>1, <2>2 DEF Clients, ReportsInv
<1> QED BY <1>2, <1>7, <1>8 DEF Execute, Typed, nodeVars, history

LEMMA TypeKept == ASSUME Typed, ReportsInv, Next PROVE Typed' /\ ReportsInv'
<1>1. ASSUME NEW c \in Clients, NEW r,
             RefuseAction(c, r) \/ AnswerAgain(c, r) \/ UpdateModel(c, r) \/ FailAfterRepair(c, r)
      PROVE  Typed' /\ ReportsInv'
  BY <1>1, ServiceTyped
<1>2. ASSUME NEW formula \in Formulas, Announce(formula) PROVE Typed' /\ ReportsInv'
  BY <1>2, AnnounceTyped DEF Announce, ReportsInv, Honest
<1>3. ASSUME NEW goal \in Goals \union {None}, SetGoal(goal) PROVE Typed' /\ ReportsInv'
  BY <1>3, PublishKeeps DEF SetGoal, Typed, ReportsInv, Honest, worldVars, history
<1>4. ASSUME NEW prior \in Tasks, LoadTask(prior) PROVE Typed' /\ ReportsInv'
  BY <1>4, LoadTyped DEF LoadTask, ReportsInv, Honest
<1>5. ASSUME Activate PROVE Typed' /\ ReportsInv'
  BY <1>5, PublishKeeps DEF Activate, Typed, ReportsInv, Honest, worldVars, history
<1>6. ASSUME NEW a \in Actions, Execute(a) PROVE Typed' /\ ReportsInv'
  BY <1>6, ExecuteTyped
<1>7. ASSUME Deactivate \/ StopWaiting \/ \E next \in Facts : Change(next)
      PROVE  Typed' /\ ReportsInv'
  <2>1. CASE Deactivate
    BY <2>1 DEF Deactivate, Typed, ReportsInv, Honest, worldVars, history
  <2>2. CASE StopWaiting
    BY <2>2 DEF StopWaiting, Typed, ReportsInv, Honest, nodeVars, history
  <2>3. ASSUME NEW next \in Facts, Change(next) PROVE Typed' /\ ReportsInv'
    BY <2>3 DEF Change, Typed, ReportsInv, Honest, nodeVars, history
  <2> QED BY <1>7, <2>1, <2>2, <2>3
<1> QED BY <1>1, <1>2, <1>3, <1>4, <1>5, <1>6, <1>7 DEF Next

LEMMA TypeInvariant == Spec => [](Typed /\ ReportsInv)
<1>1. Init => Typed /\ ReportsInv
  <2> SUFFICES ASSUME Init PROVE Typed /\ ReportsInv
    OBVIOUS
  <2>1. model \in Model /\ reports \in [Clients -> Seq(Reports)] /\ version \in 0 .. MaxVersion
    BY TaskAssumption DEF Init, Model, NoModel
  <2>2. ReportsInv
    BY DEF Init, ReportsInv
  <2> QED BY <2>1, <2>2 DEF Init, Typed
<1>2. Typed /\ ReportsInv /\ [Next]_vars => (Typed /\ ReportsInv)'
  <2>1. ASSUME Typed, ReportsInv, UNCHANGED vars PROVE Typed' /\ ReportsInv'
    BY <2>1 DEF Typed, ReportsInv, Honest, vars, nodeVars, worldVars, history
  <2> QED BY <2>1, TypeKept
<1> QED BY <1>1, <1>2, PTL DEF Spec

\* For every task and any bounds: the variables keep their types.
THEOREM TypeCorrect == Spec => []TypeOK
<1>1. Typed => TypeOK
  <2> SUFFICES ASSUME Typed PROVE TypeOK
    OBVIOUS
  <2>1. model.worlds \subseteq World /\ model.designated \subseteq World
    BY DEF Typed, Model
  <2>2. ASSUME NEW c \in Clients, NEW i \in DOMAIN reports[c] PROVE reports[c][i] \in Reports
    <3>1. reports[c] \in Seq(Reports)
      BY DEF Typed
    <3> QED BY <2>2, <3>1
  <2> QED BY <2>1, <2>2 DEF Typed, TypeOK
<1> QED BY TypeInvariant, <1>1, PTL

-----------------------------------------------------------------------------
(* Repairs.                                                                 *)

\* Where the world is as the report says, the repaired model holds it possible; the product
\* keeps the worlds in which the outcome came about, and with them the truth.
LEMMA RepairRevealsFact ==
  ASSUME Typed, ReportsInv, NEW c \in Clients, NEW r, UpdateModel(c, r), answer'.recovered
  PROVE  \/ told' \in Believed'
         \/ \A w \in model'.worlds : w.fact # told'
         \/ guessed'
<1> DEFINE a == r.action
<1>1. PICK m, e : /\ m \in Starts(r) /\ e \in Outcomes(m, a)
                  /\ e = r.observed \/ r.observed = None
                  /\ model' = ProductUpdate(m, a, e)
                  /\ Answer(r, TRUE, m # model, e)
                  /\ guessed' = (guessed \/ Guesses(r, m, e))
  BY UpdateForm DEF UpdateModel
<1>2. m # model /\ m \in Repairs(r)
  BY <1>1 DEF Answer, Starts
<1>3. /\ r \in Reports /\ a \in Actions /\ Honest(c, r)
      /\ c = "executor" /\ told' = r.after
  <2>1. r \in Reports /\ a \in Actions /\ Honest(c, r)
    BY ServeKeeps DEF UpdateModel
  <2>2. r.recover
    BY <1>2 DEF UpdateModel, Repairs
  <2>3. c = "executor"
    BY <2>1, <2>2 DEF Honest, Clients
  <2> QED BY <2>1, <2>3 DEF UpdateModel
<1>4. PICK t : m = Redesignated(model, a, t) /\ (r.observed # None => t = r.observed \/ a \in Ontic)
  BY <1>2, RepairedTowards
<1>5. m.worlds = model.worlds /\ m.designated = Candidates(model, a, t) /\ model.worlds \subseteq World
  BY <1>4 DEF Typed, Model, Redesignated
<1>6. e \in EventsFor(a)
  BY <1>1 DEF Outcomes
<1>7. CASE guessed'
  BY <1>7
<1>8. CASE ~guessed'
  <2>1. a \in Sensing => r.observed # None /\ e = r.observed /\ t = r.observed
    <3>1. a \in Sensing => a \notin Ontic
      BY TaskAssumption
    <3> QED BY <1>1, <1>2, <1>4, <1>8, <3>1 DEF Guesses
  <2> SUFFICES ASSUME NEW u \in model'.worlds, u.fact = told' PROVE told' \in Believed'
    OBVIOUS
  <2>2. PICK f \in EventsFor(a), w \in m.worlds : Fires(m, a, f, w) /\ u = Step(a, f, w)
    BY <1>1 DEF ProductUpdate
  <2>3. w \in World
    BY <1>5, <2>2
  <2>4. Fires(m, a, e, w) /\ Fires(m, a, t, w) /\ Step(a, e, w).fact = u.fact
    <3>1. CASE a \in Ontic
      <4>1. a \notin Sensing /\ e = f
        BY <1>6, <2>2, <3>1, TaskAssumption DEF EventsFor
      <4> QED BY <2>2, <4>1 DEF Fires
    <3>2. CASE a \notin Ontic
      <4>1. a \in Sensing /\ e = r.observed /\ t = e /\ r.observed # None
        BY <1>3, <2>1, <3>2 DEF Actions
      <4>2. Step(a, f, w).fact = w.fact /\ Step(a, e, w).fact = w.fact
        BY <2>3, <3>2 DEF Step, World
      <4>3. w.fact \in Means[e]
        BY <1>3, <2>2, <4>1, <4>2 DEF Honest
      <4> QED BY <2>2, <4>1, <4>2, <4>3 DEF Fires
    <3> QED BY <3>1, <3>2
  <2>5. Fires(model, a, t, w)
    BY <1>5, <2>4 DEF Fires, Knows
  <2>6. w \in m.designated
    BY <1>5, <2>2, <2>5 DEF Candidates
  <2>7. Step(a, e, w) \in model'.designated
    BY <1>1, <2>4, <2>6 DEF ProductUpdate
  <2> QED BY <2>4, <2>7 DEF Believed
<1> QED BY <1>7, <1>8

\* For every task: however the belief has come to be wrong, an update that repaired it
\* leaves what is the case among what is held possible, unless it had to guess.
THEOREM RepairsFindTheTruth == Spec => RepairFindsTruth
<1>1. Typed /\ ReportsInv /\ [Next]_vars =>
        [answer' # answer /\ answer'.success /\ answer'.recovered
           => \/ told' \in Believed'
              \/ \A w \in model'.worlds : w.fact # told'
              \/ guessed']_vars
  <2> SUFFICES ASSUME Typed, ReportsInv, Next, answer' # answer, answer'.success, answer'.recovered
               PROVE  \/ told' \in Believed'
                      \/ \A w \in model'.worlds : w.fact # told'
                      \/ guessed'
    OBVIOUS
  <2>1. ASSUME NEW c \in Clients, NEW r, RefuseAction(c, r) \/ AnswerAgain(c, r) \/ FailAfterRepair(c, r)
        PROVE  FALSE
    BY <2>1 DEF RefuseAction, AnswerAgain, FailAfterRepair, Answer
  <2>2. ASSUME ~ \E c \in Clients : \E r \in {reports[c][i] : i \in DOMAIN reports[c]} :
                   RefuseAction(c, r) \/ AnswerAgain(c, r) \/ UpdateModel(c, r) \/ FailAfterRepair(c, r)
        PROVE  answer' = answer
    BY <2>2 DEF Next, Announce, SetGoal, LoadTask, Activate, Deactivate, Execute, StopWaiting, Change, history
  <2>3. PICK c \in Clients : \E r : UpdateModel(c, r)
    BY <2>1, <2>2
  <2> QED BY <2>3, RepairRevealsFact
<1> QED BY TypeInvariant, <1>1, PTL DEF Spec, RepairFindsTruth

-----------------------------------------------------------------------------
(* What a sensor knows.                                                     *)

\* No ontic action changes what can be sensed, as in the corridor, where robots drive and
\* nothing is blocked or cleared; and a sensing comes out in one way only.
SensedStays ==
  \A o \in Ontic, e \in Events, f \in Facts : Effect[o][f] \in Means[e] <=> f \in Means[e]
OneEventEach ==
  \A a \in Sensing : \A e, d \in EventSet(a) : e # d => Means[e] \intersect Means[d] = {}

\* In every world, what an agent has observed is so; and the sensor of an action that has
\* been applied has observed one of its events.
Remembered(w) == /\ \A x \in Agents : \A e \in w.seen[x] : w.fact \in Means[e]
                 /\ \A a \in Sensing : applied[a] # "never" => EventSet(a) \intersect w.seen[Sensor[a]] # {}

KnowInv ==
  /\ loads \in Nat
  /\ loads = 0 => ~loaded /\ \A a \in Sensing : applied[a] = "never"
  /\ loads = 1 /\ loaded => \A w \in model.worlds : Remembered(w)

\* An ontic action moves the worlds, and its sensor adds to a world what is so in it.
LEMMA StepRemembers ==
  ASSUME SensedStays, NEW a \in Actions, NEW f \in EventsFor(a), NEW w \in World,
         Fires(model, a, f, w),
         \A x \in Agents : \A e \in w.seen[x] : w.fact \in Means[e]
  PROVE  LET u == Step(a, f, w)
         IN /\ \A x \in Agents : \A e \in u.seen[x] : u.fact \in Means[e]
            /\ \A x \in Agents : w.seen[x] \subseteq u.seen[x]
            /\ a \in Sensing => f \in EventSet(a) /\ f \in u.seen[Sensor[a]]
<1> DEFINE u == Step(a, f, w)
<1>0. w.fact \in Facts /\ w.seen \in [Agents -> SUBSET Events]
  BY DEF World
<1>1. CASE a \in Ontic
  <2>1. a \notin Sensing
    BY <1>1, TaskAssumption
  <2>2. u.fact = Effect[a][w.fact] /\ u.seen = w.seen
    BY <1>1 DEF Step, World
  <2>3. \A e \in Events : u.fact \in Means[e] <=> w.fact \in Means[e]
    BY <1>0, <1>1, <2>2 DEF SensedStays
  <2> HIDE DEF u
  <2> SUFFICES /\ \A x \in Agents : \A e \in u.seen[x] : u.fact \in Means[e]
               /\ \A x \in Agents : w.seen[x] \subseteq u.seen[x]
    BY <2>1 DEF u
  <2> QED BY <1>0, <2>2, <2>3
<1>2. CASE a \notin Ontic
  <2>1. a \in Sensing /\ f \in EventSet(a) /\ Sensor[a] \in Agents
    BY <1>2, TaskAssumption DEF Actions, EventsFor
  <2>2. /\ u.fact = w.fact
        /\ u.seen = [w.seen EXCEPT ![Sensor[a]] = @ \union {f}]
    BY <1>2 DEF Step, World
  <2>3. \A x \in Agents : u.seen[x] = IF x = Sensor[a] THEN w.seen[x] \union {f} ELSE w.seen[x]
    BY <1>0, <2>2
  <2>4. w.fact \in Means[f]
    BY <2>1 DEF Fires
  <2> HIDE DEF u
  <2>5. \A x \in Agents : \A e \in u.seen[x] : u.fact \in Means[e]
    BY <2>2, <2>3, <2>4
  <2>6. (\A x \in Agents : w.seen[x] \subseteq u.seen[x]) /\ f \in u.seen[Sensor[a]]
    BY <2>1, <2>3
  <2> QED BY <2>1, <2>5, <2>6 DEF u
<1> QED BY <1>1, <1>2

LEMMA UpdateRemembers ==
  ASSUME Typed, ReportsInv, KnowInv, SensedStays, NEW c \in Clients, NEW r, UpdateModel(c, r)
  PROVE  KnowInv'
<1> DEFINE a == r.action
<1>1. PICK m, e : /\ m \in Starts(r) /\ e \in Outcomes(m, a)
                  /\ model' = ProductUpdate(m, a, e)
                  /\ applied' = [applied EXCEPT ![a] = e]
  BY UpdateForm
<1>2. loads' = loads /\ loaded' = loaded /\ loaded
  BY DEF UpdateModel, Serve, bounds
<1>3. a \in Actions /\ m.worlds = model.worlds /\ model.worlds \subseteq World
  BY <1>1, ServeKeeps, StartsTyped DEF UpdateModel, Typed, Model
<1>4. ASSUME loads = 1, NEW u \in model'.worlds PROVE Remembered(u)'
  <2>1. PICK f \in EventsFor(a), w \in m.worlds : Fires(m, a, f, w) /\ u = Step(a, f, w)
    BY <1>1 DEF ProductUpdate
  <2>2. w \in World /\ Remembered(w)
    BY <1>2, <1>3, <1>4, <2>1 DEF KnowInv
  <2>3. Fires(model, a, f, w)
    BY <1>3, <2>1 DEF Fires, Knows
  <2>4. /\ \A x \in Agents : \A d \in u.seen[x] : u.fact \in Means[d]
        /\ \A x \in Agents : w.seen[x] \subseteq u.seen[x]
        /\ a \in Sensing => f \in EventSet(a) /\ f \in u.seen[Sensor[a]]
    BY <1>3, <2>1, <2>2, <2>3, StepRemembers DEF Remembered
  <2>5. ASSUME NEW b \in Sensing, applied'[b] # "never"
        PROVE  EventSet(b) \intersect u.seen[Sensor[b]] # {}
    <3>1. CASE b = a
      BY <2>4, <3>1
    <3>2. CASE b # a
      <4>1. applied[b] # "never" /\ Sensor[b] \in Agents
        BY <1>1, <2>5, <3>2, TaskAssumption DEF Typed, Actions
      <4> QED BY <2>2, <2>4, <4>1 DEF Remembered
    <3> QED BY <3>1, <3>2
  <2> QED BY <2>4, <2>5 DEF Remembered
<1> QED BY <1>2, <1>4 DEF KnowInv

LEMMA KnowKept == ASSUME Typed, ReportsInv, KnowInv, SensedStays, Next PROVE KnowInv'
<1>1. ASSUME NEW c \in Clients, NEW r, UpdateModel(c, r) PROVE KnowInv'
  BY <1>1, UpdateRemembers
<1>2. ASSUME \/ \E c \in Clients, r \in Reports : RefuseAction(c, r) \/ AnswerAgain(c, r)
             \/ (\E goal \in Goals \union {None} : SetGoal(goal))
             \/ Activate \/ Deactivate \/ StopWaiting
             \/ (\E a \in Actions : Execute(a)) \/ (\E next \in Facts : Change(next))
      PROVE  KnowInv'
  <2>1. UNCHANGED <<loads, loaded, model, applied>>
    BY <1>2 DEF RefuseAction, AnswerAgain, Serve, SetGoal, Activate, Deactivate, StopWaiting,
                Execute, Change, nodeVars, bounds
  <2> QED BY <2>1 DEF KnowInv, Remembered
<1>3. ASSUME NEW c \in Clients, NEW r, FailAfterRepair(c, r) PROVE KnowInv'
  <2>1. UNCHANGED <<loads, loaded, applied>> /\ model'.worlds = model.worlds
    BY <1>3, StartsTyped DEF FailAfterRepair, Serve, bounds, Typed
  <2> QED BY <2>1 DEF KnowInv, Remembered
<1>4. ASSUME NEW formula, Announce(formula) PROVE KnowInv'
  <2>1. UNCHANGED <<loads, loaded, applied>> /\ model'.worlds \subseteq model.worlds
    BY <1>4 DEF Announce, bounds, Restricted, Satisfying
  <2> QED BY <2>1 DEF KnowInv, Remembered
<1>5. ASSUME NEW prior \in Tasks, LoadTask(prior) PROVE KnowInv'
  <2>1. loads' = loads + 1 /\ applied' = applied
    BY <1>5 DEF LoadTask
  <2>2. ASSUME loaded' PROVE \A w \in model'.worlds : w.seen = [x \in Agents |-> {}]
    <3> DEFINE worlds == [fact : Facts, seen : {[x \in Agents |-> {}]}]
    <3>1. \A w \in worlds : w.seen = [x \in Agents |-> {}]
      OBVIOUS
    <3>2. model' = [worlds |-> worlds, designated |-> {w \in worlds : w.fact \in prior}]
      BY <1>5, <2>2 DEF LoadTask
    <3>3. model'.worlds = worlds
      BY <3>2
    <3> QED BY <3>1, <3>3
  <2>3. ASSUME loads' = 1, loaded', NEW w \in model'.worlds PROVE Remembered(w)'
    <3>1. \A a \in Sensing : applied'[a] = "never"
      BY <2>1, <2>3 DEF KnowInv
    <3> QED BY <2>2, <2>3, <3>1 DEF Remembered
  <2> QED BY <2>1, <2>3 DEF KnowInv
<1>6. \A c \in Clients : \A i \in DOMAIN reports[c] : reports[c][i] \in Reports
  BY DEF Typed
<1> QED BY <1>1, <1>2, <1>3, <1>4, <1>5, <1>6 DEF Next

\* If no ontic action changes what can be sensed, and each sensing comes out in one way
\* only: however often, and through whichever client, a sensing is reported, its sensor
\* knows its answer once it has been applied.
THEOREM SensorsKnow ==
  ASSUME SensedStays, OneEventEach
  PROVE  Spec => []SensorKnows
<1>1. Init => KnowInv
  BY DEF Init, KnowInv, Actions
<1>2. Typed /\ ReportsInv /\ KnowInv /\ [Next]_vars => KnowInv'
  <2>1. ASSUME KnowInv, UNCHANGED vars PROVE KnowInv'
    BY <2>1 DEF KnowInv, Remembered, vars, nodeVars, bounds
  <2> QED BY <2>1, KnowKept
<1>3. Typed /\ KnowInv => SensorKnows
  <2> SUFFICES ASSUME Typed, KnowInv, NEW a \in Sensing, loaded, loads = 1, applied[a] # "never",
                      NEW w \in model.worlds, NEW v \in model.worlds,
                      v.seen[Sensor[a]] = w.seen[Sensor[a]], NEW e \in EventSet(a)
               PROVE  v.fact \in Means[e] <=> w.fact \in Means[e]
    BY DEF SensorKnows, Knows
  <2>1. Remembered(w) /\ Remembered(v) /\ Sensor[a] \in Agents
    BY TaskAssumption DEF KnowInv
  <2>2. PICK d \in EventSet(a) : d \in w.seen[Sensor[a]]
    BY <2>1 DEF Remembered
  <2>3. w.fact \in Means[d] /\ v.fact \in Means[d]
    BY <2>1, <2>2 DEF Remembered
  <2> QED BY <2>2, <2>3 DEF OneEventEach
<1> QED BY TypeInvariant, <1>1, <1>2, <1>3, PTL DEF Spec

-----------------------------------------------------------------------------
(* The truth.                                                               *)

\* Once an ontic action has been done, it is known which of them can be done next, as in the
\* corridor, where who has driven knows where it is.
MovesAreKnown ==
  \A o, p \in Ontic : \/ \A f \in Where[o] : Effect[o][f] \in Where[p]
                      \/ \A f \in Where[o] : Effect[o][f] \notin Where[p]
\* Every agent senses by one action.
OneSensingEach == \A a, b \in Sensing : Sensor[a] = Sensor[b] => a = b
Agree(f, g) == \A e \in Events : f \in Means[e] <=> g \in Means[e]

\* The report is of an action done where f was the case.
Follows(f, r) ==
  /\ f \in Where[r.action]
  /\ r.after = IF r.action \in Ontic THEN Effect[r.action][f] ELSE f

\* The executor's reports tell what has happened from one fact to the next, to what is now
\* the case; and if what was told last is held possible, from there.
ChainInv ==
  LET queue == reports["executor"]
  IN /\ \A i \in 1 .. Len(queue) - 1 : Follows(queue[i].after, queue[i + 1])
     /\ queue # <<>> => queue[Len(queue)].after = fact
     /\ told \in Believed /\ ~guessed =>
          IF queue = <<>> THEN told = fact ELSE Follows(told, queue[1])

\* What has been sensed is so, whichever of the facts that are on their way is looked at.
AgreeInv == /\ Agree(told, fact)
            /\ \A c \in Clients : \A i \in DOMAIN reports[c] : Agree(reports[c][i].after, fact)

\* All worlds are ones in which some ontic action has just been done, or none has been done;
\* and no sensor has seen anything before its action was applied.
MovedInv ==
  (\E o \in Ontic : applied[o] # "never") =>
    \E o \in Ontic : \A w \in model.worlds : \E f \in Where[o] : w.fact = Effect[o][f]
UnseenInv ==
  \A a \in Sensing : applied[a] = "never" => \A w \in model.worlds : w.seen[Sensor[a]] = {}

TrackInv ==
  /\ loads \in {0, 1} /\ changes \in Nat
  /\ loads = 0 => /\ ~loaded
                  /\ \A a \in Actions : applied[a] = "never"
                  /\ \A c \in Clients : reports[c] = <<>>
  /\ loaded => MovedInv /\ UnseenInv /\ (changes = 0 => ChainInv /\ AgreeInv)

LEMMA StepFact ==
  ASSUME NEW a \in Actions, NEW e, NEW w \in World
  PROVE  Step(a, e, w).fact = IF a \in Ontic THEN Effect[a][w.fact] ELSE w.fact
BY DEF Step, World

\* Where the outcome can come about, the product holds possible what comes of it.
LEMMA StepIsBelieved ==
  ASSUME NEW m \in Model, NEW a \in Actions, NEW e, NEW w \in m.designated, Fires(m, a, e, w),
         model' = ProductUpdate(m, a, e)
  PROVE  (IF a \in Ontic THEN Effect[a][w.fact] ELSE w.fact) \in Believed'
<1>1. Step(a, e, w) \in model'.designated
  BY DEF ProductUpdate
<1>2. w \in World
  BY DEF Model
<1> QED BY <1>1, <1>2, StepFact DEF Believed

\* Once an ontic action has been done, it is known of each of them whether it applies.
LEMMA MovesApply ==
  ASSUME Typed, MovesAreKnown, MovedInv, NEW a \in Ontic, applied[a] # "never",
         model.designated \subseteq model.worlds,
         NEW w \in model.designated, w.fact \in Where[a]
  PROVE  Applicable(model, a)
<1>1. PICK o \in Ontic : \A v \in model.worlds : \E f \in Where[o] : v.fact = Effect[o][f]
  BY DEF MovedInv
<1>2. \A f \in Where[o] : Effect[o][f] \in Where[a]
  BY <1>1 DEF MovesAreKnown
<1>3. \A v \in model.designated : v.fact \in Where[a]
  BY <1>1, <1>2
<1>4. a \notin Sensing /\ None \in EventsFor(a)
  BY TaskAssumption DEF EventsFor
<1> QED BY <1>3, <1>4 DEF Applicable, Fires

\* The model that an update starts from, where no update is left with no world.
Repaired(r) ==
  IF ~Applicable(model, r.action) THEN Redesignated(model, r.action, Target(r))
  ELSE IF Surprising(r) /\ r.recover THEN Redesignated(model, r.action, r.observed)
  ELSE model

LEMMA RepairedStarts ==
  ASSUME ~RepairsSeriality, NEW c, NEW r, UpdateModel(c, r)
  PROVE  \E e \in Outcomes(Repaired(r), r.action) :
           /\ e = r.observed \/ (r.observed = None /\ Outcomes(Repaired(r), r.action) = {e})
           /\ model' = ProductUpdate(Repaired(r), r.action, e)
           /\ guessed' = (guessed \/ Guesses(r, Repaired(r), e))
<1>1. PICK m \in Starts(r) : \E outcomes \in Results(m, r.action) : \E e \in outcomes :
        /\ e = r.observed \/ (r.observed = None /\ outcomes = {e})
        /\ model' = ProductUpdate(m, r.action, e)
        /\ guessed' = (guessed \/ Guesses(r, m, e))
  BY DEF UpdateModel
<1>2. PICK e \in Outcomes(m, r.action) :
        /\ e = r.observed \/ (r.observed = None /\ Outcomes(m, r.action) = {e})
        /\ model' = ProductUpdate(m, r.action, e)
        /\ guessed' = (guessed \/ Guesses(r, m, e))
  BY <1>1 DEF Results
<1>3. m = Repaired(r)
  <2>1. CASE m \in Repairs(r)
    BY <2>1 DEF Repairs, Repaired
  <2>2. CASE m = model /\ Applicable(model, r.action)
    <3>1. ~Surprising(r)
      BY <1>2, <2>2 DEF Surprising, Results
    <3> QED BY <2>2, <3>1 DEF Repaired
  <2> QED BY <2>1, <2>2 DEF Starts
<1> QED BY <1>2, <1>3

\* An ontic action done where the belief holds the truth possible is never refused, nor
\* answered without being applied.
LEMMA MoveIsApplied ==
  ASSUME ~RepairsSeriality, Typed, ReportsInv, loaded => Proper(model), loaded, MovedInv,
         MovesAreKnown, NEW r, r.action \in Ontic, told \in Believed, told \in Where[r.action],
         RefuseAction("executor", r) \/ AnswerAgain("executor", r)
           \/ UpdateModel("executor", r) \/ FailAfterRepair("executor", r)
  PROVE  /\ told' = r.after
         /\ Effect[r.action][told] \in Believed'
<1> DEFINE a == r.action
<1>1. PICK w \in model.designated : w.fact = told
  BY DEF Believed
<1>2. /\ a \in Actions /\ a \notin Sensing /\ EventsFor(a) = {None}
      /\ model.designated \subseteq model.worlds /\ model \in Model
  BY TaskAssumption DEF Actions, EventsFor, Proper, Typed
<1>3. \A m, e, v : Fires(m, a, e, v) <=> v.fact \in Where[a]
  BY <1>2 DEF Fires
<1>4. Serve("executor", r)
  BY DEF RefuseAction, AnswerAgain, UpdateModel, FailAfterRepair
<1>5. r.recover /\ r.observed = None /\ Target(r) = None
  BY <1>2, <1>4, ServeKeeps DEF Honest, Clients, Target
<1>6. \A m : (\E v \in m.designated : v.fact \in Where[a]) => Outcomes(m, a) = {None}
  BY <1>2, <1>3 DEF Outcomes
<1>7. Cardinality({None}) = 1
  BY FS_Singleton
<1>8. Candidates(model, a, None) # {} /\ w \in Candidates(model, a, None)
  BY <1>1, <1>2, <1>3 DEF Candidates
<1>9. Redesignated(model, a, None) \in Model /\ w \in Redesignated(model, a, None).designated
  BY <1>2, <1>8 DEF Redesignated, Model, Candidates
<1>10. ~RefuseAction("executor", r)
  <2>1. Outcomes(model, a) = {None} /\ ~Surprising(r)
    BY <1>1, <1>5, <1>6 DEF Surprising
  <2>2. Results(model, a) = {{None}}
    BY <2>1 DEF Results
  <2>3. ~(\E outcomes \in Results(model, a) :
            outcomes = {} \/ (r.observed = None /\ Cardinality(outcomes) # 1))
    BY <1>7, <2>2
  <2> QED BY <1>5, <1>8, <2>1, <2>3 DEF RefuseAction
<1>11. ~AnswerAgain("executor", r)
  BY <1>1, <1>2, MovesApply DEF AnswerAgain
<1>12. ~FailAfterRepair("executor", r)
  <2> SUFFICES ASSUME NEW m \in Repairs(r), NEW outcomes \in Results(m, a)
               PROVE  Cardinality(outcomes) = 1
    BY <1>5 DEF FailAfterRepair
  <2>1. m = Redesignated(model, a, None)
    BY <1>5 DEF Repairs, Surprising
  <2>2. outcomes = {None}
    BY <1>1, <1>6, <1>9, <2>1 DEF Results
  <2> QED BY <1>7, <2>2
<1>13. UpdateModel("executor", r)
  BY <1>10, <1>11, <1>12
<1>14. Repaired(r) \in Model /\ w \in Repaired(r).designated
  BY <1>2, <1>5, <1>9, <1>1 DEF Repaired, Surprising
<1>15. PICK e : model' = ProductUpdate(Repaired(r), a, e)
  BY <1>13, RepairedStarts
<1>16. Effect[a][w.fact] \in Believed'
  BY <1>1, <1>2, <1>3, <1>14, <1>15, StepIsBelieved
<1> QED BY <1>1, <1>13, <1>16 DEF UpdateModel

\* A sensing whose observation is what the truth shows keeps the truth, from a repaired
\* belief too: as nobody has sensed this before, what one world leaves open all do.
LEMMA SensingKeepsTruth ==
  ASSUME ~RepairsSeriality, Typed, loaded => Proper(model), UnseenInv,
         NEW c \in Clients, NEW r, UpdateModel(c, r), r.action \in Sensing, Honest(c, r),
         told \in Believed, ~guessed',
         r.observed # None => told \in Means[r.observed],
         c = "executor" => told \in Where[r.action]
  PROVE  told \in Believed'
<1> DEFINE a == r.action
           m == Repaired(r)
<1>1. PICK w \in model.designated : w.fact = told
  BY DEF Believed
<1>2. PICK e \in Outcomes(m, a) :
        /\ e = r.observed \/ (r.observed = None /\ Outcomes(m, a) = {e})
        /\ model' = ProductUpdate(m, a, e)
        /\ guessed' = (guessed \/ Guesses(r, m, e))
  BY RepairedStarts
<1>3. /\ loaded /\ model \in Model /\ model.designated \subseteq model.worlds
      /\ m \in Model /\ m.worlds = model.worlds
      /\ a \in Actions /\ a \notin Ontic /\ EventsFor(a) = EventSet(a)
  <2>1. loaded /\ model \in Model /\ model.designated \subseteq model.worlds
    BY DEF UpdateModel, Typed, Proper
  <2>2. m \in Repairs(r) \/ m = model
    BY DEF Repaired, Repairs
  <2>3. m \in Model /\ m.worlds = model.worlds
    BY <2>1, <2>2, StartsTyped
  <2> QED BY <2>1, <2>3, TaskAssumption DEF Actions, EventsFor
<1>9. None \notin EventSet(a)
  BY TaskAssumption DEF EventSet
<1>4. r.observed # None => r.observed \in EventSet(a) /\ e = r.observed
  BY <1>2 DEF Honest
<1>5. w \in m.designated /\ Fires(m, a, e, w)
  <2>1. CASE Applicable(model, a)
    <3>1. PICK f \in EventSet(a) : Fires(model, a, f, w)
      BY <1>1, <1>3, <2>1 DEF Applicable
    <3>2. CASE r.observed = None
      <4>1. m = model
        BY <2>1, <3>2 DEF Repaired, Surprising
      <4>2. f \in Outcomes(m, a)
        BY <1>1, <1>3, <3>1, <4>1 DEF Outcomes
      <4>3. f = e
        BY <1>2, <1>3, <1>9, <3>2, <4>2 DEF Outcomes
      <4> QED BY <1>1, <3>1, <4>1, <4>3
    <3>3. CASE r.observed # None
      <4>1. Fires(model, a, r.observed, w)
        BY <1>1, <3>1, <3>3 DEF Fires
      <4>2. r.observed \in Outcomes(model, a)
        BY <1>1, <1>3, <1>4, <3>3, <4>1 DEF Outcomes
      <4>3. m = model
        BY <2>1, <4>2 DEF Repaired, Surprising, Results
      <4> QED BY <1>1, <1>4, <3>3, <4>1, <4>3
    <3> QED BY <3>2, <3>3
  <2>2. CASE ~Applicable(model, a)
    <3>1. /\ applied[a] = "never" /\ c = "executor" /\ m = Redesignated(model, a, Target(r))
      BY <2>2 DEF UpdateModel, Honest, Repaired
    <3>2. m.designated = Candidates(model, a, Target(r))
      BY <1>3, <3>1 DEF Redesignated, Model
    <3>3. r.observed # None
      <4> SUFFICES ASSUME r.observed = None PROVE FALSE
        OBVIOUS
      <4>1. m = model
        BY <1>2 DEF Guesses
      <4>2. Target(r) \in EventSet(a)
        <5>1. EventsOf[a] \in Seq(Events) /\ EventsOf[a] # <<>>
          BY <1>2, <1>3, TaskAssumption DEF Outcomes, EventSet
        <5>2. Target(r) = EventsOf[a][1] /\ 1 \in DOMAIN EventsOf[a]
          BY <1>3, <5>1 DEF Target
        <5> QED BY <5>2 DEF EventSet
      <4>3. \A v \in model.designated : Fires(model, a, Target(r), v)
        BY <3>2, <4>1 DEF Candidates
      <4> QED BY <1>3, <2>2, <4>2, <4>3 DEF Applicable
    <3>4. Target(r) = r.observed /\ e = r.observed
      BY <1>3, <1>4, <3>3 DEF Target
    <3>5. PICK v \in model.worlds : Fires(model, a, e, v)
      BY <1>2, <3>2, <3>4 DEF Outcomes, Candidates
    <3>6. ~Knows(model, a, w)
      <4>1. \A u \in model.worlds : u.seen[Sensor[a]] = {}
        BY <3>1 DEF UnseenInv
      <4>2. ~Knows(model, a, v)
        BY <3>5 DEF Fires
      <4> QED BY <1>1, <1>3, <4>1, <4>2 DEF Knows
    <3>7. Fires(model, a, e, w)
      BY <1>1, <3>1, <3>3, <3>4, <3>6 DEF Fires
    <3>8. w \in m.designated
      BY <1>1, <1>3, <3>2, <3>4, <3>7 DEF Candidates
    <3> QED BY <1>3, <3>7, <3>8 DEF Fires, Knows
  <2> QED BY <2>1, <2>2
<1>6. w.fact \in Believed'
  BY <1>2, <1>3, <1>5, StepIsBelieved
<1> QED BY <1>1, <1>6

\* So none of the services takes the truth away.
LEMMA ServiceKeepsTruth ==
  ASSUME ~RepairsSeriality, Typed, ReportsInv, loaded => Proper(model), TrackInv,
         MovesAreKnown, changes = 0, loaded,
         NEW c \in Clients, NEW r,
         RefuseAction(c, r) \/ AnswerAgain(c, r) \/ UpdateModel(c, r) \/ FailAfterRepair(c, r),
         told \in Believed, ~guessed'
  PROVE  told' \in Believed' /\ (c = "executor" => told' = r.after)
<1>0. /\ Serve(c, r) /\ ~guessed /\ ~FailAfterRepair(c, r)
      /\ MovedInv /\ UnseenInv /\ ChainInv /\ AgreeInv
  <2>1. ~FailAfterRepair(c, r)
    BY DEF FailAfterRepair
  <2>2. CASE RefuseAction(c, r) \/ AnswerAgain(c, r)
    <3>1. guessed' = guessed /\ Serve(c, r)
      BY <2>2 DEF RefuseAction, AnswerAgain
    <3>2. MovedInv /\ UnseenInv /\ ChainInv /\ AgreeInv
      BY DEF TrackInv
    <3> QED BY <2>1, <3>1, <3>2
  <2>3. CASE UpdateModel(c, r)
    <3>1. ~guessed
      BY <2>3 DEF UpdateModel
    <3> QED BY <2>1, <2>3, <3>1 DEF UpdateModel, TrackInv
  <2> QED BY <2>1, <2>2, <2>3
<1>1. Honest(c, r) /\ r.action \in Actions /\ r \in Reports
  BY <1>0, ServeKeeps
<1>2. reports[c] \in Seq(Reports) /\ reports[c] # <<>> /\ r = reports[c][1] /\ 1 \in DOMAIN reports[c]
  BY <1>0 DEF Serve, Typed
<1>3. c = "executor" => Follows(told, r)
  BY <1>0, <1>2 DEF ChainInv
<1>4. r.observed # None => told \in Means[r.observed]
  <2>1. Agree(told, fact) /\ Agree(r.after, fact)
    BY <1>0, <1>2 DEF AgreeInv
  <2>2. r.observed \in Events \union {None}
    BY <1>1 DEF Reports
  <2> QED BY <1>1, <2>1, <2>2 DEF Agree, Honest
<1>5. CASE r.action \in Ontic
  <2>1. c = "executor"
    BY <1>1, <1>5, TaskAssumption DEF Honest, Clients
  <2>2. told \in Where[r.action] /\ r.after = Effect[r.action][told]
    BY <1>3, <1>5, <2>1 DEF Follows
  <2> QED BY <1>0, <1>5, <2>1, <2>2, MoveIsApplied
<1>6. CASE r.action \notin Ontic
  <2>1. r.action \in Sensing /\ (c = "executor" => r.after = told /\ told \in Where[r.action])
    BY <1>1, <1>3, <1>6 DEF Actions, Follows
  <2>2. told' = told
    BY <1>0, <2>1 DEF RefuseAction, AnswerAgain, UpdateModel
  <2>3. CASE RefuseAction(c, r) \/ AnswerAgain(c, r)
    BY <2>1, <2>2, <2>3 DEF RefuseAction, AnswerAgain, nodeVars, Believed
  <2>4. CASE UpdateModel(c, r)
    <3>1. told \in Believed'
      BY <1>0, <1>1, <1>4, <2>1, <2>4, SensingKeepsTruth
    <3> QED BY <2>1, <2>2, <3>1
  <2> QED BY <1>0, <2>3, <2>4
<1> QED BY <1>5, <1>6


\* After an update all worlds are such that the ontic action has just been done, or have the
\* facts they had; and only the sensor of the action has seen something more.
LEMMA UpdateKeepsWorlds ==
  ASSUME Typed, ReportsInv, MovedInv, UnseenInv, OneSensingEach,
         NEW c \in Clients, NEW r, UpdateModel(c, r)
  PROVE  MovedInv' /\ UnseenInv'
<1> DEFINE a == r.action
<1>1. PICK m, e : /\ m \in Starts(r) /\ e \in Outcomes(m, a)
                  /\ model' = ProductUpdate(m, a, e)
                  /\ applied' = [applied EXCEPT ![a] = e]
  BY UpdateForm
<1>2. a \in Actions /\ m.worlds = model.worlds /\ model.worlds \subseteq World
  BY <1>1, ServeKeeps, StartsTyped DEF UpdateModel, Typed, Model
<1>3. ASSUME NEW u \in model'.worlds
      PROVE  \E f \in EventsFor(a), w \in model.worlds : w.fact \in Where[a] /\ u = Step(a, f, w)
  <2>1. PICK f \in EventsFor(a), w \in m.worlds : Fires(m, a, f, w) /\ u = Step(a, f, w)
    BY <1>1 DEF ProductUpdate
  <2> QED BY <1>2, <2>1 DEF Fires
<1>4. applied \in [Actions -> Events \union {None, "never"}]
  BY DEF Typed
<1>7. e \in Outcomes(m, a)
  BY <1>1
<1> HIDE DEF a
<1>5. CASE a \in Ontic
  <2>1. \A w \in model.worlds : \A f : Step(a, f, w).fact = Effect[a][w.fact] /\ Step(a, f, w).seen = w.seen
    BY <1>2, <1>5 DEF Step, World
  <2>2. \A u \in model'.worlds : \E f \in Where[a] : u.fact = Effect[a][f]
    BY <1>3, <2>1
  <2>3. ASSUME NEW b \in Sensing, applied'[b] = "never", NEW u \in model'.worlds
        PROVE  u.seen[Sensor[b]] = {}
    <3>1. applied[b] = "never"
      BY <1>1, <1>4, <1>5, <2>3, TaskAssumption DEF Actions
    <3>2. PICK w \in model.worlds : u.seen = w.seen
      BY <1>3, <2>1
    <3> QED BY <3>1, <3>2 DEF UnseenInv
  <2> QED BY <1>5, <2>2, <2>3 DEF MovedInv, UnseenInv
<1>6. CASE a \notin Ontic
  <2>1. a \in Sensing /\ EventsFor(a) = EventSet(a)
    BY <1>2, <1>6 DEF Actions, EventsFor
  <2>2. \A w \in model.worlds : \A f : /\ Step(a, f, w).fact = w.fact
                                       /\ Step(a, f, w).seen = [w.seen EXCEPT ![Sensor[a]] = @ \union {f}]
    BY <1>2, <1>6 DEF Step, World
  <2>3. applied'[a] # "never" /\ \A b \in Actions : b # a => applied'[b] = applied[b]
    <3>1. e \in EventSet(a)
      BY <1>7, <2>1 DEF Outcomes
    <3>2. e \in Events
      BY <2>1, <3>1, TaskAssumption DEF EventSet
    <3> QED BY <1>1, <1>2, <1>4, <3>2, TaskAssumption
  <2>4. MovedInv'
    <3>1. ASSUME NEW u \in model'.worlds PROVE \E w \in model.worlds : u.fact = w.fact
      <4>1. PICK w \in model.worlds, f \in EventsFor(a) : u = Step(a, f, w)
        BY <1>3
      <4>2. Step(a, f, w).fact = w.fact
        BY <2>2
      <4> QED BY <4>1, <4>2
    <3>2. \A o \in Ontic : applied'[o] = applied[o]
      BY <1>6, <2>3 DEF Actions
    <3>3. ASSUME NEW o \in Ontic, \A w \in model.worlds : \E f \in Where[o] : w.fact = Effect[o][f]
          PROVE  \A u \in model'.worlds : \E f \in Where[o] : u.fact = Effect[o][f]
      BY <3>1, <3>3
    <3> QED BY <3>2, <3>3 DEF MovedInv
  <2>5. ASSUME NEW b \in Sensing, applied'[b] = "never", NEW u \in model'.worlds
        PROVE  u.seen[Sensor[b]] = {}
    <3>1. applied[b] = "never" /\ b # a
      BY <2>3, <2>5 DEF Actions
    <3>2. Sensor[b] # Sensor[a] /\ Sensor[b] \in Agents
      BY <2>1, <3>1, TaskAssumption DEF OneSensingEach
    <3>3. PICK w \in model.worlds, f \in EventsFor(a) : u = Step(a, f, w)
      BY <1>3
    <3>6. u.seen = [w.seen EXCEPT ![Sensor[a]] = @ \union {f}]
      BY <2>2, <3>3
    <3>4. w.seen \in [Agents -> SUBSET Events]
      BY <1>2 DEF World
    <3>5. w.seen[Sensor[b]] = {}
      BY <3>1 DEF UnseenInv
    <3> QED BY <3>2, <3>4, <3>5, <3>6
  <2> QED BY <2>4, <2>5 DEF UnseenInv
<1> QED BY <1>5, <1>6

\* Perception asks for no repair, and reports sensings only: what it has applied leaves fewer
\* facts possible than before.
LEMMA PerceptionAddsNothing ==
  ASSUME Typed, ReportsInv, NEW r, UpdateModel("perception", r)
  PROVE  Believed' \subseteq Believed /\ (guessed => guessed')
<1> DEFINE a == r.action
<1>1. ~r.recover /\ r.observed # None /\ a \in Sensing /\ a \in Actions
  BY ServeKeeps DEF UpdateModel, Honest, Clients
<1>2. Starts(r) = {model}
  BY <1>1 DEF UpdateModel, Starts, Repairs
<1>3. PICK e : model' = ProductUpdate(model, a, e) /\ guessed' = (guessed \/ Guesses(r, model, e))
  BY <1>2 DEF UpdateModel
<1>4. ASSUME NEW u \in model'.designated PROVE \E w \in model.designated : u.fact = w.fact
  <2>1. PICK w \in model.designated : u = Step(a, e, w)
    BY <1>3 DEF ProductUpdate
  <2>2. w \in World /\ a \notin Ontic
    BY <1>1, TaskAssumption DEF Typed, Model
  <2> QED BY <1>1, <2>1, <2>2, StepFact
<1> QED BY <1>3, <1>4 DEF Believed


\* When the executor's report has been served, the truth was told to be what it reports, or
\* the belief has lost it.
LEMMA ExecutorTells ==
  ASSUME ~RepairsSeriality, Typed, ReportsInv, loaded => Proper(model), TrackInv,
         MovesAreKnown, changes = 0, loaded,
         NEW r,
         RefuseAction("executor", r) \/ AnswerAgain("executor", r)
           \/ UpdateModel("executor", r) \/ FailAfterRepair("executor", r),
         told' \in Believed', ~guessed'
  PROVE  told' = r.after
<1>1. CASE AnswerAgain("executor", r) \/ UpdateModel("executor", r)
  BY <1>1 DEF AnswerAgain, UpdateModel
<1>2. CASE FailAfterRepair("executor", r)
  BY <1>2 DEF FailAfterRepair
<1>3. CASE RefuseAction("executor", r)
  <2>1. told' = told /\ model' = model
    BY <1>3 DEF RefuseAction, nodeVars
  <2>2. told \in Believed
    BY <2>1 DEF Believed
  <2> QED BY <1>3, <2>2, ServiceKeepsTruth DEF Clients
<1> QED BY <1>1, <1>2, <1>3

LEMMA ServiceKeepsChain ==
  ASSUME ~RepairsSeriality, Typed, ReportsInv, loaded => Proper(model), TrackInv,
         MovesAreKnown, changes = 0, loaded,
         NEW c \in Clients, NEW r,
         RefuseAction(c, r) \/ AnswerAgain(c, r) \/ UpdateModel(c, r) \/ FailAfterRepair(c, r)
  PROVE  ChainInv' /\ AgreeInv'
<1>0. Serve(c, r)
  BY DEF RefuseAction, AnswerAgain, UpdateModel, FailAfterRepair
<1>1. /\ reports \in [Clients -> Seq(Reports)] /\ reports[c] # <<>> /\ r = reports[c][1]
      /\ reports' = [reports EXCEPT ![c] = Tail(@)] /\ fact' = fact
  BY <1>0 DEF Typed, Serve
<1>2. ChainInv /\ AgreeInv
  BY DEF TrackInv
<1>3. told' \in {told, r.after} /\ (c = "perception" => told' = told)
  BY DEF RefuseAction, AnswerAgain, UpdateModel, FailAfterRepair
<1>4. AgreeInv'
  <2>1. 1 \in DOMAIN reports[c]
    BY <1>1
  <2>2. Agree(told', fact')
    BY <1>1, <1>2, <1>3, <2>1 DEF AgreeInv
  <2>3. ASSUME NEW d \in Clients, NEW i \in DOMAIN reports'[d]
        PROVE  Agree(reports'[d][i].after, fact')
    <3>1. \E j \in DOMAIN reports[d] : reports'[d][i] = reports[d][j]
      <4>1. CASE d = c
        <5>1. reports'[d] = Tail(reports[d]) /\ reports[d] \in Seq(Reports) /\ reports[d] # <<>>
          BY <1>1, <4>1
        <5>2. i + 1 \in DOMAIN reports[d] /\ Tail(reports[d])[i] = reports[d][i + 1]
          BY <5>1, TailIsLater
        <5> QED BY <5>1, <5>2
      <4>2. CASE d # c
        BY <1>1, <4>2
      <4> QED BY <4>1, <4>2
    <3> QED BY <1>1, <1>2, <3>1 DEF AgreeInv
  <2> QED BY <2>2, <2>3 DEF AgreeInv, Agree
<1>5. CASE c = "executor"
  <2> DEFINE queue == reports["executor"]
             rest == reports'["executor"]
  <2>1. queue \in Seq(Reports) /\ queue # <<>> /\ r = queue[1] /\ rest = Tail(queue)
    BY <1>1, <1>5
  <2>2. /\ \A i \in 1 .. Len(queue) - 1 : Follows(queue[i].after, queue[i + 1])
        /\ queue[Len(queue)].after = fact
    BY <1>2, <2>1 DEF ChainInv
  <2>3. told' \in Believed' /\ ~guessed' => told' = r.after
    BY <1>5, ExecutorTells
  <2> HIDE DEF queue, rest
  <2>4. /\ rest \in Seq(Reports) /\ Len(rest) = Len(queue) - 1 /\ Len(queue) \in Nat
        /\ \A i \in 1 .. Len(rest) : rest[i] = queue[i + 1]
    BY <2>1
  <2>5. \A i \in 1 .. Len(rest) - 1 : Follows(rest[i].after, rest[i + 1])
    BY <2>2, <2>4
  <2>6. rest # <<>> => rest[Len(rest)].after = fact'
    BY <1>1, <2>2, <2>4
  <2>7. rest = <<>> => r.after = fact'
    <3>1. rest = <<>> => Len(queue) = 1
      BY <2>4
    <3> QED BY <1>1, <2>1, <2>2, <3>1
  <2>8. rest # <<>> => Follows(r.after, rest[1])
    BY <2>1, <2>2, <2>4
  <2>9. told' \in Believed' /\ ~guessed' =>
          IF rest = <<>> THEN told' = fact' ELSE Follows(told', rest[1])
    BY <2>3, <2>7, <2>8
  <2>10. ChainInv'
    BY <2>5, <2>6, <2>9 DEF ChainInv, rest
  <2> QED BY <1>4, <2>10
<1>6. CASE c # "executor"
  <2>1. c = "perception" /\ reports'["executor"] = reports["executor"]
    BY <1>1, <1>6 DEF Clients
  <2>2. told' \in Believed' /\ ~guessed' => told \in Believed /\ ~guessed
    <3>1. CASE RefuseAction(c, r) \/ AnswerAgain(c, r)
      <4>1. model' = model /\ guessed' = guessed
        BY <3>1 DEF RefuseAction, AnswerAgain, nodeVars
      <4> QED BY <1>3, <2>1, <4>1 DEF Believed
    <3>2. CASE UpdateModel(c, r)
      BY <1>3, <2>1, <3>2, PerceptionAddsNothing
    <3>3. CASE FailAfterRepair(c, r)
      BY <3>3 DEF FailAfterRepair
    <3> QED BY <3>1, <3>2, <3>3
  <2>3. told' = told
    BY <1>3, <2>1
  <2>4. ChainInv'
    BY <1>1, <1>2, <2>1, <2>2, <2>3 DEF ChainInv
  <2> QED BY <1>4, <2>4
<1> QED BY <1>4, <1>5, <1>6

LEMMA ServiceKeepsTrack ==
  ASSUME ~RepairsSeriality, Typed, ReportsInv, loaded => Proper(model), TrackInv,
         MovesAreKnown, OneSensingEach,
         NEW c \in Clients, NEW r,
         RefuseAction(c, r) \/ AnswerAgain(c, r) \/ UpdateModel(c, r) \/ FailAfterRepair(c, r)
  PROVE  TrackInv'
<1>1. Serve(c, r) /\ loaded' = loaded
  BY DEF RefuseAction, AnswerAgain, UpdateModel, FailAfterRepair, nodeVars
<1>2. loads' = loads /\ changes' = changes /\ reports[c] # <<>>
  BY <1>1 DEF Serve, bounds
<1>3. ASSUME loaded PROVE MovedInv' /\ UnseenInv'
  <2>1. MovedInv /\ UnseenInv
    BY <1>3 DEF TrackInv
  <2>2. CASE UpdateModel(c, r)
    BY <2>1, <2>2, UpdateKeepsWorlds
  <2>3. CASE ~UpdateModel(c, r)
    <3>1. applied' = applied /\ model'.worlds = model.worlds
      BY <2>3, StartsTyped DEF RefuseAction, AnswerAgain, FailAfterRepair, nodeVars, Typed
    <3> QED BY <2>1, <3>1 DEF MovedInv, UnseenInv
  <2> QED BY <2>2, <2>3
<1>4. ASSUME loaded, changes = 0 PROVE ChainInv' /\ AgreeInv'
  BY <1>4, ServiceKeepsChain
<1> QED BY <1>1, <1>2, <1>3, <1>4 DEF TrackInv


\* One more report tells what has happened since the last one, and what is sensed stays so.
LEMMA ExecuteKeepsTrack ==
  ASSUME Typed, TrackInv, SensedStays, NEW a \in Actions, Execute(a)
  PROVE  TrackInv'
<1>1. /\ UNCHANGED <<loaded, model, applied, told, guessed, loads, changes>>
      /\ loaded /\ loads # 0
  BY DEF Execute, nodeVars, history, TrackInv
<1>2. fact \in Where[a] /\ fact' = (IF a \in Ontic THEN Effect[a][fact] ELSE fact)
  BY DEF Execute
<1>3. PICK new \in Reports :
        /\ new.action = a /\ new.after = fact'
        /\ reports'["executor"] = Append(reports["executor"], new)
        /\ \/ reports'["perception"] = reports["perception"]
           \/ \E seen \in Reports : /\ seen.after = fact'
                                    /\ reports'["perception"] = Append(reports["perception"], seen)
  <2> DEFINE Done(observed) ==
               [action |-> a, observed |-> observed, recover |-> TRUE, after |-> fact']
             Seen(e) ==
               [action |-> a, observed |-> e, recover |-> FALSE, after |-> fact']
  <2>1. PICK e \in Shown(a), perceived \in BOOLEAN, observed \in Shown(a) \union {None} :
          /\ observed \in {e, None}
          /\ reports' = [executor   |-> Append(reports.executor, Done(observed)),
                         perception |-> IF perceived /\ a \in Sensing
                                        THEN Append(reports.perception, Seen(e))
                                        ELSE reports.perception]
    BY DEF Execute
  <2> DEFINE new == Done(observed)
             seen == Seen(e)
  <2>2. fact' \in Facts
    <3>1. CASE a \in Ontic
      BY <1>2, <3>1, TaskAssumption DEF Typed
    <3>2. CASE a \notin Ontic
      BY <1>2, <3>2 DEF Typed
    <3> QED BY <3>1, <3>2
  <2>3. e \in Events \union {None}
    BY TaskAssumption DEF Shown, EventSet, Actions
  <2>4. new \in Reports /\ seen \in Reports
    BY <2>1, <2>2, <2>3 DEF Reports
  <2>5. new.action = a /\ new.after = fact' /\ seen.after = fact'
    OBVIOUS
  <2>6. /\ reports'["executor"] = Append(reports["executor"], new)
        /\ \/ reports'["perception"] = reports["perception"]
           \/ reports'["perception"] = Append(reports["perception"], seen)
    BY <2>1
  <2> HIDE DEF new, seen
  <2> QED BY <2>4, <2>5, <2>6
<1>4. Agree(fact, fact')
  BY <1>2 DEF Agree, SensedStays, Typed
<1>5. ASSUME changes = 0 PROVE ChainInv'
  <2> DEFINE queue == reports["executor"]
             more == reports'["executor"]
  <2>1. queue \in Seq(Reports) /\ more = Append(queue, new)
    BY <1>3 DEF Typed, Clients
  <2>2. /\ \A i \in 1 .. Len(queue) - 1 : Follows(queue[i].after, queue[i + 1])
        /\ queue # <<>> => queue[Len(queue)].after = fact
        /\ told \in Believed /\ ~guessed =>
             IF queue = <<>> THEN told = fact ELSE Follows(told, queue[1])
    BY <1>1, <1>5 DEF TrackInv, ChainInv
  <2>3. Follows(fact, new)
    BY <1>2, <1>3 DEF Follows
  <2> HIDE DEF queue, more
  <2>4. /\ Len(more) = Len(queue) + 1 /\ Len(queue) \in Nat /\ more[Len(more)] = new
        /\ \A i \in 1 .. Len(queue) : more[i] = queue[i]
        /\ more # <<>> /\ (queue = <<>> <=> Len(queue) = 0)
    BY <2>1
  <2>5. \A i \in 1 .. Len(more) - 1 : Follows(more[i].after, more[i + 1])
    <3> SUFFICES ASSUME NEW i \in 1 .. Len(more) - 1 PROVE Follows(more[i].after, more[i + 1])
      OBVIOUS
    <3>1. CASE i = Len(queue)
      BY <2>2, <2>3, <2>4, <3>1
    <3>2. CASE i # Len(queue)
      BY <2>2, <2>4, <3>2
    <3> QED BY <3>1, <3>2
  <2>6. more[Len(more)].after = fact'
    BY <1>3, <2>4
  <2>7. told \in Believed /\ ~guessed => Follows(told, more[1])
    BY <2>2, <2>3, <2>4
  <2>8. Believed' = Believed
    BY <1>1 DEF Believed
  <2> QED BY <1>1, <2>4, <2>5, <2>6, <2>7, <2>8 DEF ChainInv, more
<1>6. ASSUME changes = 0 PROVE AgreeInv'
  <2>1. AgreeInv
    BY <1>1, <1>6 DEF TrackInv
  <2>2. Agree(told', fact')
    BY <1>1, <1>4, <2>1 DEF AgreeInv, Agree
  <2>3. ASSUME NEW d \in Clients, NEW i \in DOMAIN reports'[d] PROVE Agree(reports'[d][i].after, fact')
    <3>1. CASE i \in DOMAIN reports[d] /\ reports'[d][i] = reports[d][i]
      BY <1>4, <2>1, <3>1 DEF AgreeInv, Agree
    <3>2. CASE reports'[d][i].after = fact'
      BY <3>2 DEF Agree
    <3>3. reports[d] \in Seq(Reports)
      BY DEF Typed
    <3>4. reports'[d] = reports[d] \/ \E last \in Reports : /\ last.after = fact'
                                                           /\ reports'[d] = Append(reports[d], last)
      BY <1>3 DEF Clients
    <3> QED BY <3>1, <3>2, <3>3, <3>4
  <2> QED BY <2>2, <2>3 DEF AgreeInv, Agree
<1>7. MovedInv' /\ UnseenInv'
  BY <1>1 DEF TrackInv, MovedInv, UnseenInv
<1> QED BY <1>1, <1>5, <1>6, <1>7 DEF TrackInv

\* The first task that is loaded finds nothing reported and nothing applied.
LEMMA LoadKeepsTrack ==
  ASSUME Typed, TrackInv, MaxLoads \in {0, 1}, NEW prior \in Tasks, LoadTask(prior)
  PROVE  TrackInv'
<1> DEFINE worlds == [fact : Facts, seen : {[x \in Agents |-> {}]}]
<1>1. /\ loads' = loads + 1 /\ loads < MaxLoads
      /\ UNCHANGED <<applied, reports, fact, changes>> /\ told' = fact
  BY DEF LoadTask, worldVars
<1>2. /\ loads = 0 /\ loads' = 1 /\ changes' \in Nat
      /\ \A a \in Actions : applied'[a] = "never"
      /\ \A c \in Clients : reports'[c] = <<>>
  BY <1>1 DEF TrackInv
<1>3. ASSUME loaded' PROVE MovedInv' /\ UnseenInv'
  <2>1. model' = [worlds |-> worlds, designated |-> {w \in worlds : w.fact \in prior}]
    BY <1>3 DEF LoadTask
  <2>2. \A w \in model'.worlds : w.seen = [x \in Agents |-> {}]
    BY <2>1
  <2>3. \A a \in Sensing : \A w \in model'.worlds : w.seen[Sensor[a]] = {}
    BY <2>2, TaskAssumption
  <2> HIDE DEF worlds
  <2> QED BY <1>2, <2>3 DEF MovedInv, UnseenInv, Actions
<1>4. ChainInv' /\ AgreeInv'
  <2>1. told' = fact' /\ reports'["executor"] = <<>>
    BY <1>1, <1>2 DEF Clients
  <2>2. ChainInv'
    BY <2>1 DEF ChainInv
  <2>3. \A c \in Clients : DOMAIN reports'[c] = {}
    BY <1>2
  <2> QED BY <2>1, <2>2, <2>3 DEF AgreeInv, Agree
<1> QED BY <1>2, <1>3, <1>4 DEF TrackInv

\* An announcement leaves fewer facts possible.
LEMMA AnnounceKeepsTrack ==
  ASSUME Typed, TrackInv, NEW formula, Announce(formula)
  PROVE  TrackInv'
<1>1. /\ UNCHANGED <<loaded, applied, fact, reports, told, guessed, loads, changes>>
      /\ model'.worlds \subseteq model.worlds /\ model'.designated \subseteq model.designated
  BY DEF Announce, worldVars, bounds, Restricted, Satisfying
<1>2. Believed' \subseteq Believed
  BY <1>1 DEF Believed
<1>3. MovedInv /\ UnseenInv => MovedInv' /\ UnseenInv'
  BY <1>1 DEF MovedInv, UnseenInv
<1>4. ChainInv => ChainInv'
  BY <1>1, <1>2 DEF ChainInv
<1>5. AgreeInv => AgreeInv'
  BY <1>1 DEF AgreeInv, Agree
<1> QED BY <1>1, <1>3, <1>4, <1>5 DEF TrackInv


LEMMA TrackKept ==
  ASSUME ~RepairsSeriality, Typed, ReportsInv, loaded => Proper(model), TrackInv, Next,
         SensedStays, MovesAreKnown, OneSensingEach, MaxLoads \in {0, 1}
  PROVE  TrackInv'
<1>1. ASSUME NEW c \in Clients, NEW r,
             RefuseAction(c, r) \/ AnswerAgain(c, r) \/ UpdateModel(c, r) \/ FailAfterRepair(c, r)
      PROVE  TrackInv'
  BY <1>1, ServiceKeepsTrack
<1>2. ASSUME \/ \E goal \in Goals \union {None} : SetGoal(goal)
             \/ Activate \/ Deactivate \/ StopWaiting
      PROVE  TrackInv'
  <2>1. UNCHANGED <<loaded, model, applied, fact, reports, told, guessed, loads, changes>>
    BY <1>2 DEF SetGoal, Activate, Deactivate, StopWaiting, nodeVars, worldVars, history, bounds
  <2> QED BY <2>1 DEF TrackInv, MovedInv, UnseenInv, ChainInv, AgreeInv, Agree, Believed
<1>3. ASSUME NEW next, Change(next) PROVE TrackInv'
  <2>1. UNCHANGED <<loaded, model, applied, reports, loads>> /\ changes' = changes + 1
    BY <1>3 DEF Change, nodeVars
  <2>2. changes' \in Nat /\ changes' # 0
    BY <2>1 DEF TrackInv
  <2> QED BY <2>1, <2>2 DEF TrackInv, MovedInv, UnseenInv
<1> QED BY <1>1, <1>2, <1>3, AnnounceKeepsTrack, LoadKeepsTrack, ExecuteKeepsTrack DEF Next

\* If no update is left with no world, no ontic action changes what can be sensed, who has
\* moved knows where it is, and every agent senses by one action of its own: in any order of
\* the reports of both clients, and of the announcements, a belief that holds the truth
\* possible goes on doing so.
THEOREM TruthIsKept ==
  ASSUME ~RepairsSeriality, SensedStays, MovesAreKnown, OneSensingEach, MaxLoads \in {0, 1}
  PROVE  Spec => TruthStaysPossible
<1>1. Init => TrackInv
  BY DEF Init, TrackInv
<1>2. Typed /\ ReportsInv /\ IInv /\ TrackInv /\ [Next]_vars => TrackInv'
  <2>1. ASSUME TrackInv, UNCHANGED vars PROVE TrackInv'
    BY <2>1 DEF TrackInv, MovedInv, UnseenInv, ChainInv, AgreeInv, Agree, Believed,
                vars, nodeVars, worldVars, history, bounds
  <2> QED BY <2>1, TrackKept DEF IInv
<1>3. Typed /\ ReportsInv /\ IInv /\ TrackInv /\ [Next]_vars =>
        [loaded /\ loads' = loads /\ changes = 0 /\ told \in Believed
           => told' \in Believed' \/ misled' \/ guessed']_vars
  <2> SUFFICES ASSUME Typed, ReportsInv, IInv, TrackInv, Next,
                      loaded, loads' = loads, changes = 0, told \in Believed, ~misled', ~guessed'
               PROVE  told' \in Believed'
    OBVIOUS
  <2>1. ASSUME NEW c \in Clients, NEW r,
               RefuseAction(c, r) \/ AnswerAgain(c, r) \/ UpdateModel(c, r) \/ FailAfterRepair(c, r)
        PROVE  told' \in Believed'
    BY <2>1, ServiceKeepsTruth DEF IInv
  <2>2. ASSUME NEW formula, Announce(formula) PROVE told' \in Believed'
    <3>1. told' = told /\ told \in formula /\ model' = Restricted(model, formula)
      BY <2>2 DEF Announce
    <3>2. PICK w \in model.designated : w.fact = told
      BY DEF Believed
    <3>3. w \in model.worlds
      BY <3>2 DEF IInv, Proper
    <3>4. w \in model'.designated
      BY <3>1, <3>2, <3>3 DEF Restricted, Satisfying
    <3> QED BY <3>1, <3>2, <3>4 DEF Believed
  <2>3. ASSUME \/ \E goal \in Goals \union {None} : SetGoal(goal)
               \/ Activate \/ Deactivate \/ StopWaiting
               \/ (\E a \in Actions : Execute(a)) \/ (\E next \in Facts : Change(next))
        PROVE  told' \in Believed'
    <3>1. UNCHANGED <<model, told>>
      BY <2>3 DEF SetGoal, Activate, Deactivate, StopWaiting, Execute, Change, nodeVars, history
    <3> QED BY <3>1 DEF Believed
  <2>4. ~ \E prior \in Tasks : LoadTask(prior)
    BY DEF LoadTask, TrackInv
  <2> QED BY <2>1, <2>2, <2>3, <2>4 DEF Next
<1> QED BY TypeInvariant, InvariantHolds, <1>1, <1>2, <1>3, PTL DEF Spec, TruthStaysPossible
=============================================================================
