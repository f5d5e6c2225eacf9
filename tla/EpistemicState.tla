---------------------------- MODULE EpistemicState ----------------------------
(***************************************************************************)
(* The EpistemicStateNode: the belief model that advances with the actions  *)
(* of a mission, and what reaches it while the mission acts on a world of   *)
(* its own.                                                                 *)
(*                                                                          *)
(* The node serves one request at a time, so each of its services is one    *)
(* action.  Two clients report what was done, each in order and with no     *)
(* order between them: the executor, whose ApplyEpistemicUpdate waits for   *)
(* the answer until it times out, and perception, which reports what it     *)
(* sees by itself.                                                          *)
(*                                                                          *)
(* The library that computes product updates is not part of the repository. *)
(* Its models are abstracted to sets of worlds, a world being a state of    *)
(* affairs (a "fact") with what every agent has observed; an agent cannot   *)
(* tell worlds apart in which it has observed the same.  A sensing action   *)
(* is semi-private, as in corridor.epddl: only its sensor learns the event. *)
(***************************************************************************)
EXTENDS Naturals, Sequences, FiniteSets

CONSTANTS
  Agents,      \* the agents of the task
  Facts,       \* the states of affairs, valuations of the task's atoms
  Ontic,       \* actions that change the world
  Sensing,     \* actions that find something out
  Events,      \* the events of the sensing actions
  EventsOf,    \* the events of a sensing action, in the order of the task
  Where,       \* the facts under which an action can be done
  Means,       \* the facts under which an event happens
  Effect,      \* what an ontic action makes of a fact
  Sensor,      \* the agent that senses, and must not know the answer yet
  Formulas,    \* what may be announced, as sets of facts
  Tasks,       \* the facts that the tasks to be loaded hold possible
  RepairsSeriality, \* repair_seriality(): may an update be left with no world and be refused?
  Goals,       \* what set_goal may be given, as sets of facts
  None,        \* no observation, no outcome, no goal of its own
  MaxActs,     \* bound on what happens in the world
  MaxLoads,    \* bound on the tasks loaded
  MaxVersion,  \* bound on the announcements
  MaxTimeouts, \* bound on the answers that the executor does not wait for
  MaxChanges   \* bound on what happens in it without an action

Actions == Ontic \union Sensing
EventSet(a) == {EventsOf[a][i] : i \in DOMAIN EventsOf[a]}

ASSUME TaskAssumption ==
  /\ Ontic \intersect Sensing = {}
  /\ EventsOf \in [Sensing -> Seq(Events)]
  /\ Where \in [Actions -> SUBSET Facts] /\ Means \in [Events -> SUBSET Facts]
  /\ Effect \in [Ontic -> [Facts -> Facts]]
  /\ Sensor \in [Sensing -> Agents]
  /\ Formulas \subseteq SUBSET Facts /\ Goals \subseteq SUBSET Facts
  /\ Tasks \subseteq SUBSET Facts
  /\ None \notin Actions \union Events /\ None \notin Goals /\ "never" \notin Events
  /\ MaxVersion \in Nat /\ RepairsSeriality \in BOOLEAN

VARIABLES
  loaded,       \* are task_ and state_ set?
  model,        \* state_: the worlds, and those held possible ("designated")
  applied,      \* applied_outcomes_: the outcome of each action, or "never"
  goalOverride, \* goal_override_
  version,      \* belief_version_
  active,       \* is state_pub_ activated?
  published,    \* the last message on epistemic_state/state, which is latched
  unsent,       \* history: has a service that failed changed the model since?
  fact,         \* the state of affairs the mission acts on
  reports,      \* the requests of each client that wait to be served
  busy,         \* does the executor wait for an answer?
  answer,       \* history: the last answer of apply_action, with its request
  told,         \* history: the fact as of the last update that went through
  misled,       \* history: has something false been announced?
  guessed,      \* history: has an outcome been chosen that nobody observed, or a repair
                \* been made with no update?
  acts, loads, timeouts, changes \* counters of what the bounds bound

nodeVars  == <<loaded, model, applied, goalOverride, version, active, published, unsent>>
worldVars == <<fact, busy>>
history   == <<answer, told, misled, guessed>>
bounds    == <<acts, loads, timeouts, changes>>
vars == <<nodeVars, worldVars, reports, history, bounds>>

World   == [fact : Facts, seen : [Agents -> SUBSET Events]]
Model   == [worlds : SUBSET World, designated : SUBSET World]
NoModel == [worlds |-> {}, designated |-> {}]
Clients == {"executor", "perception"}

\* An action done, what was observed, and how the world was after it.
Reports == [action : Actions, observed : Events \union {None},
            recover : BOOLEAN, after : Facts]
Answers == [report : Reports, success : BOOLEAN, recovered : BOOLEAN,
            outcome : Events \union {None}]
Views == [model : Model, goal : Goals \union {None}, version : Nat]

-----------------------------------------------------------------------------
(* What the library computes.                                              *)

\* Does the sensor of a know, in world w of m, how the sensing would come out?
Knows(m, a, w) ==
  \A v \in m.worlds :
    v.seen[Sensor[a]] = w.seen[Sensor[a]] =>
      \A e \in EventSet(a) : v.fact \in Means[e] <=> w.fact \in Means[e]

\* Can action a (and its event e) take place in world w?
Fires(m, a, e, w) ==
  w.fact \in Where[a] /\ (a \in Sensing => w.fact \in Means[e] /\ ~Knows(m, a, w))

EventsFor(a) == IF a \in Ontic THEN {None} ELSE EventSet(a)

Applicable(m, a) ==
  \A w \in m.designated : \E e \in EventsFor(a) : Fires(m, a, e, w)

Outcomes(m, a) == {e \in EventsFor(a) : \E w \in m.designated : Fires(m, a, e, w)}

\* World w after event e of action a.
Step(a, e, w) ==
  IF a \in Ontic THEN [w EXCEPT !.fact = Effect[a][@]]
  ELSE [w EXCEPT !.seen[Sensor[a]] = @ \union {e}]

\* The outcomes that product_update_split returns, or whether product_update has any: where
\* beliefs may be false, repairing their seriality may leave an outcome no world.
Results(m, a) == IF RepairsSeriality THEN SUBSET Outcomes(m, a) ELSE {Outcomes(m, a)}

\* product_update, and the part of product_update_split in which e happened.
ProductUpdate(m, a, e) ==
  [worlds |-> UNION {{Step(a, f, w) : w \in {v \in m.worlds : Fires(m, a, f, v)}}
                       : f \in EventsFor(a)},
   designated |-> {Step(a, e, w) : w \in {v \in m.designated : Fires(m, a, e, v)}}]

Satisfying(m, formula) == {w \in m.worlds : w.fact \in formula}

\* restrict_state.
Restricted(m, formula) ==
  [worlds |-> Satisfying(m, formula),
   designated |-> m.designated \intersect Satisfying(m, formula)]

Believed == {w.fact : w \in model.designated}

-----------------------------------------------------------------------------
(* The services of the node.                                               *)

\* What publish_state sends, if the publisher is active.
Publish ==
  /\ published' = IF active' /\ loaded'
                  THEN [model |-> model', goal |-> goalOverride', version |-> version']
                  ELSE published
  /\ unsent' = (unsent /\ ~(active' /\ loaded'))

\* redesignate_for_event: every world of the model in which e could happen.
Candidates(m, a, e) == {w \in m.worlds : Fires(m, a, e, w)}
\* Mutant of Redesignated: one world is enough to explain the observation.
RedesignatedToOne(m, a, e) ==
  [m EXCEPT !.designated =
     {w \in Candidates(m, a, e) : w = CHOOSE v \in Candidates(m, a, e) : TRUE}]

Redesignated(m, a, e) == [m EXCEPT !.designated = Candidates(m, a, e)]

\* The event an inapplicable action is repaired towards: the observed one, or
\* else the first one of the action.
Target(r) ==
  IF r.action \in Ontic THEN None
  ELSE IF r.observed # None THEN r.observed
  ELSE Head(EventsOf[r.action])

\* Is what was observed none of the outcomes that the action has?
Surprising(r) ==
  /\ Applicable(model, r.action) /\ r.observed # None
  /\ \E outcomes \in Results(model, r.action) : outcomes # {} /\ r.observed \notin outcomes

\* The repair of an action that is not applicable, or of an outcome held impossible.
Repairs(r) ==
  IF ~Applicable(model, r.action) THEN {Redesignated(model, r.action, Target(r))}
  ELSE IF Surprising(r) /\ r.recover THEN {Redesignated(model, r.action, r.observed)}
  ELSE {}

\* The models an update may start from.
Starts(r) == Repairs(r) \union (IF Applicable(model, r.action) THEN {model} ELSE {})

\* Is the request the next one of its client?
Serve(c, r) ==
  /\ reports[c] # <<>> /\ r = Head(reports[c])
  /\ reports' = [reports EXCEPT ![c] = Tail(@)]
  /\ busy' = (busy /\ c # "executor")
  /\ UNCHANGED <<fact, misled, bounds>>

Answer(r, success, recovered, outcome) ==
  answer' = [report |-> r, success |-> success, recovered |-> recovered,
             outcome |-> outcome]

\* Mutant of RefuseAction: the outcome is recorded before it is checked.
RecordThenRefuse(c, r) ==
  /\ Serve(c, r)
  /\ loaded /\ ~Applicable(model, r.action) /\ applied[r.action] = "never"
  /\ ~r.recover
  /\ applied' = [applied EXCEPT ![r.action] = r.observed]
  /\ Answer(r, FALSE, FALSE, None)
  /\ UNCHANGED <<loaded, model, goalOverride, version, active, published, unsent, told,
                 guessed>>

\* The update does not take place: no task, or an action that is not applicable
\* and not to be repaired or beyond repair, or an outcome that is impossible, or none.
RefuseAction(c, r) ==
  /\ Serve(c, r)
  /\ \/ ~loaded
     \/ /\ ~Applicable(model, r.action) /\ applied[r.action] = "never"
        /\ ~r.recover \/ Candidates(model, r.action, Target(r)) = {}
     \/ Surprising(r) /\ (~r.recover \/ Candidates(model, r.action, r.observed) = {})
     \/ /\ Applicable(model, r.action)
        /\ \E outcomes \in Results(model, r.action) :
             outcomes = {} \/ (r.observed = None /\ Cardinality(outcomes) # 1)
  /\ Answer(r, FALSE, FALSE, None)
  /\ UNCHANGED <<nodeVars, told, guessed>>

\* An action applied before is answered with its outcome, whatever was observed.
AnswerAgain(c, r) ==
  /\ Serve(c, r)
  /\ loaded /\ ~Applicable(model, r.action) /\ applied[r.action] # "never"
  /\ Answer(r, TRUE, FALSE, applied[r.action])
  /\ told' = IF c = "executor" THEN r.after ELSE told
  /\ UNCHANGED <<nodeVars, guessed>>

\* Mutant of UpdateModel: what is recorded is the action, not its outcome.
RecordTheAction(c, r) ==
  /\ Serve(c, r)
  /\ loaded /\ Applicable(model, r.action)
  /\ \E e \in Outcomes(model, r.action) :
       /\ e = r.observed \/ r.observed = None
       /\ model' = ProductUpdate(model, r.action, e)
       /\ Answer(r, TRUE, FALSE, e)
  /\ applied' = [applied EXCEPT ![r.action] = r.action]
  /\ told' = IF c = "executor" THEN r.after ELSE told
  /\ UNCHANGED <<loaded, goalOverride, version, active, guessed>>
  /\ Publish

\* Is outcome e the only one because of a repair, or because others were left no world?
Guesses(r, m, e) ==
  r.observed = None /\ r.action \in Sensing /\ (m # model \/ Outcomes(m, r.action) # {e})

\* The update takes place, from a model that is repaired first if need be.
UpdateModel(c, r) ==
  /\ Serve(c, r)
  /\ loaded
  /\ Applicable(model, r.action) \/ (applied[r.action] = "never" /\ r.recover)
  /\ \E m \in Starts(r) : \E outcomes \in Results(m, r.action) : \E e \in outcomes :
       /\ e = r.observed \/ (r.observed = None /\ outcomes = {e})
       /\ model' = ProductUpdate(m, r.action, e)
       /\ applied' = [applied EXCEPT ![r.action] = e]
       /\ Answer(r, TRUE, m # model, e)
       /\ guessed' = (guessed \/ Guesses(r, m, e))
  /\ told' = IF c = "executor" THEN r.after ELSE told
  /\ UNCHANGED <<loaded, goalOverride, version, active>>
  /\ Publish

\* The repair does not lead to an update: to no state, to none with what was observed, or to
\* several when nothing was.  The repaired model stays, and nothing is published.
FailAfterRepair(c, r) ==
  /\ Serve(c, r)
  /\ loaded
  /\ Applicable(model, r.action) \/ (applied[r.action] = "never" /\ r.recover)
  /\ \E m \in Repairs(r) : \E outcomes \in Results(m, r.action) :
       /\ m.designated # {}
       /\ IF r.observed = None THEN Cardinality(outcomes) # 1 ELSE r.observed \notin outcomes
       /\ model' = m
  /\ Answer(r, FALSE, ~Applicable(model, r.action), None)
  /\ unsent' = TRUE /\ guessed' = TRUE
  /\ UNCHANGED <<loaded, applied, goalOverride, version, active, published, told>>

\* Mutant of Announce: an announcement held impossible is not refused.
AnnounceAnything(formula) ==
  /\ version < MaxVersion
  /\ loaded
  /\ model' = Restricted(model, formula)
  /\ version' = version + 1
  /\ misled' = (misled \/ told \notin formula)
  /\ UNCHANGED <<loaded, applied, goalOverride, active, worldVars, reports, answer,
                 told, guessed, bounds>>
  /\ Publish

\* Mutant of Announce: the state goes out before the version is counted.
PublishThenCount(formula) ==
  /\ version < MaxVersion
  /\ loaded /\ Restricted(model, formula).designated # {}
  /\ model' = Restricted(model, formula)
  /\ version' = version + 1
  /\ misled' = (misled \/ told \notin formula)
  /\ UNCHANGED <<loaded, applied, goalOverride, active, worldVars, reports, answer,
                 told, guessed, bounds>>
  /\ published' = IF active
                  THEN [model |-> model', goal |-> goalOverride, version |-> version]
                  ELSE published
  /\ UNCHANGED unsent

\* What an operator says is true, or not; it is refused if held impossible.
Announce(formula) ==
  /\ version < MaxVersion
  /\ loaded /\ Restricted(model, formula).designated # {}
  /\ model' = Restricted(model, formula)
  /\ version' = version + 1
  /\ misled' = (misled \/ told \notin formula)
  /\ UNCHANGED <<loaded, applied, goalOverride, active, worldVars, reports, answer,
                 told, guessed, bounds>>
  /\ Publish

SetGoal(goal) ==
  /\ loaded
  /\ goalOverride' = goal
  /\ UNCHANGED <<loaded, model, applied, version, active, worldVars, reports,
                 history, bounds>>
  /\ Publish

\* load_task of a task in which all facts are possible and those of "prior" are
\* held so, or of something that is no task.  applied_outcomes_ and
\* belief_version_ are kept.
LoadTask(prior) ==
  /\ loads < MaxLoads
  /\ loads' = loads + 1
  /\ LET worlds == [fact : Facts, seen : {[x \in Agents |-> {}]}]
     IN \/ /\ prior # {}
           /\ loaded' = TRUE
           /\ model' = [worlds |-> worlds,
                        designated |-> {w \in worlds : w.fact \in prior}]
        \/ loaded' = FALSE /\ model' = NoModel
  /\ goalOverride' = None
  /\ told' = fact
  /\ UNCHANGED <<applied, version, active, worldVars, reports, answer, misled,
                 guessed, acts, timeouts, changes>>
  /\ Publish

Activate ==
  /\ ~active /\ active' = TRUE
  /\ UNCHANGED <<loaded, model, applied, goalOverride, version, worldVars, reports,
                 history, bounds>>
  /\ Publish

Deactivate ==
  /\ active /\ active' = FALSE
  /\ UNCHANGED <<loaded, model, applied, goalOverride, version, published, unsent,
                 worldVars, reports, history, bounds>>

-----------------------------------------------------------------------------
(* The mission and the world.                                              *)

\* What a sensing of action a shows now.
Shown(a) == IF a \in Ontic THEN {None}
            ELSE {e \in EventSet(a) : fact \in Means[e]}

\* An action of the policy is done: its tree has the node apply it, with what it
\* has observed or with nothing, and perception reports what it has seen.
Execute(a) ==
  /\ loaded /\ ~busy /\ acts + changes < MaxActs
  /\ fact \in Where[a]
  /\ fact' = IF a \in Ontic THEN Effect[a][fact] ELSE fact
  /\ acts' = acts + 1
  /\ busy' = TRUE
  /\ \E e \in Shown(a), perceived \in BOOLEAN : \E observed \in {e, None} :
       reports' =
         [executor |-> Append(reports.executor,
            [action |-> a, observed |-> observed, recover |-> TRUE, after |-> fact']),
          perception |->
            IF perceived /\ a \in Sensing
            THEN Append(reports.perception,
              [action |-> a, observed |-> e, recover |-> FALSE, after |-> fact'])
            ELSE reports.perception]
  /\ UNCHANGED <<nodeVars, history, loads, timeouts, changes>>

\* ApplyEpistemicUpdate times out; its request is served all the same.
StopWaiting ==
  /\ busy /\ timeouts < MaxTimeouts
  /\ timeouts' = timeouts + 1
  /\ busy' = FALSE
  /\ UNCHANGED <<nodeVars, fact, reports, history, acts, loads, changes>>

\* The world changes, and no action did it.
Change(next) ==
  /\ changes < MaxChanges /\ acts + changes < MaxActs
  /\ changes' = changes + 1
  /\ fact' = next
  /\ UNCHANGED <<nodeVars, busy, reports, history, acts, loads, timeouts>>

-----------------------------------------------------------------------------

Init ==
  /\ loaded = FALSE /\ model = NoModel
  /\ applied = [a \in Actions |-> "never"]
  /\ goalOverride = None /\ version = 0 /\ active = FALSE /\ published = None /\ unsent = FALSE
  /\ fact \in Facts /\ busy = FALSE
  /\ reports = [c \in Clients |-> <<>>]
  /\ answer = None /\ told = fact /\ misled = FALSE /\ guessed = FALSE
  /\ acts = 0 /\ loads = 0 /\ timeouts = 0 /\ changes = 0

Next ==
  \/ \E c \in Clients : \E r \in {reports[c][i] : i \in DOMAIN reports[c]} :
       RefuseAction(c, r) \/ AnswerAgain(c, r) \/ UpdateModel(c, r) \/ FailAfterRepair(c, r)
  \/ \E formula \in Formulas : Announce(formula)
  \/ \E goal \in Goals \union {None} : SetGoal(goal)
  \/ \E prior \in Tasks : LoadTask(prior)
  \/ Activate \/ Deactivate
  \/ \E a \in Actions : Execute(a)
  \/ StopWaiting
  \/ \E next \in Facts : Change(next)

Spec == Init /\ [][Next]_vars

-----------------------------------------------------------------------------

TypeOK ==
  /\ loaded \in BOOLEAN /\ active \in BOOLEAN /\ busy \in BOOLEAN
  /\ model.worlds \subseteq World /\ model.designated \subseteq World
  /\ \A a \in Actions : applied[a] \in Events \union {None, "never"}
  /\ goalOverride \in Goals \union {None} /\ version \in 0 .. MaxVersion
  /\ published = None \/ published.goal \in Goals \union {None}
  /\ unsent \in BOOLEAN /\ fact \in Facts /\ told \in Facts
  /\ \A c \in Clients : \A i \in DOMAIN reports[c] : reports[c][i] \in Reports
  /\ answer = None \/ answer.report \in Reports

\* A model in use holds some world possible, and only worlds it has: a model
\* with none would let every formula hold (architecture.rst, "A model designating
\* no world is refused"), through updates, repairs, announcements and failures.
SomethingIsPossible ==
  loaded => model.designated # {} /\ model.designated \subseteq model.worlds

\* A belief that holds the truth possible goes on doing so: neither late or
\* repeated reports, nor timeouts, nor repairs, nor announcements that are true
\* make it lose what is the case, unless a task is loaded, a repair guesses or the
\* world has changed by itself.
TruthStaysPossible ==
  [][loaded /\ loads' = loads /\ changes = 0 /\ told \in Believed
       => told' \in Believed' \/ misled' \/ guessed']_vars

\* Whoever subscribes to the latched state sees the model that is in use, which
\* a replan starts from, with its goal and the count of announcements: whatever changes
\* them publishes them, also after a time in which the node was not active.  Only a
\* repair whose update fails does not, and that is over with the next thing published.
Current == [model |-> model, goal |-> goalOverride, version |-> version]

PublishedIsCurrent == active /\ loaded => published = Current \/ unsent

\* A sensing that went through twice, for perception and for the executor, is
\* applied once: where it has been, its sensor knows the answer in all worlds.
SensorKnows ==
  \A a \in Sensing :
    loaded /\ loads = 1 /\ applied[a] # "never" =>
      \A w \in model.worlds : Knows(model, a, w)

\* Whatever has changed behind the model's back, a repair finds what is the case
\* again: after an update that repaired the model, the truth is held possible,
\* if the model has a world for it at all, unless the repair had to guess.
RepairFindsTruth ==
  [][answer' # answer /\ answer'.success /\ answer'.recovered
       => \/ told' \in Believed'
          \/ \A w \in model'.worlds : w.fact # told'
          \/ guessed']_vars

\* "The observation wins: it came from the world, and the model is a belief
\* about it" (EpistemicStateNode.cpp 617-619): an answer that says an update went
\* through does not report another outcome than the one observed.
TheObservationWins ==
  answer # None /\ answer.success /\ answer.report.observed # None =>
    answer.outcome = answer.report.observed
=============================================================================
