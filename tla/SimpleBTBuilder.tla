--------------------------- MODULE SimpleBTBuilder ---------------------------
(***************************************************************************)
(* The builder that turns a plan into a behavior tree: a graph of which     *)
(* action waits for which, and the order in which the tree visits them.     *)
(*                                                                          *)
(* A plan is a sequence of ground actions; one that occurs twice is two      *)
(* members of Actions.  A requirement is a fact, the state a set of facts;   *)
(* an action that is not durative has its preconditions under overAll and   *)
(* its effects under atEnd.  The nodes of a graph are the positions of the   *)
(* plan, so arcs lead to greater numbers.                                    *)
(***************************************************************************)
EXTENDS Naturals, Sequences, Functions

CONSTANTS
  Facts,   \* ground predicates
  Actions, \* ground actions
  Act      \* of an action: durative, the sequences atStartReq, overAllReq and
           \* atEndReq of facts, and the effects atStart and atEnd, of which
           \* add and del are sets of facts

Elements(s) == {s[i] : i \in DOMAIN s}
NoEffect == [add |-> {}, del |-> {}]

ASSUME ActionAssumption ==
  \A a \in Actions :
    /\ \A e \in {Act[a].atStart, Act[a].atEnd} : e.add \subseteq Facts /\ e.del \subseteq Facts
    /\ {Act[a].atStartReq, Act[a].overAllReq, Act[a].atEndReq} \subseteq Seq(Facts)
    /\ ~Act[a].durative => /\ Act[a].atStartReq = <<>> /\ Act[a].atEndReq = <<>>
                           /\ Act[a].atStart = NoEffect

-----------------------------------------------------------------------------
(* Actions and states.                                                     *)

check(req, st)  == Elements(req) \subseteq st
apply(e, st)    == (st \ e.del) \union e.add
Started(a, st)  == apply(Act[a].atStart, st)
Done(a, st)     == apply(Act[a].atEnd, Started(a, st))
Requirements(a) == Act[a].atStartReq \o Act[a].overAllReq \o Act[a].atEndReq

is_action_executable(a, st) == check(Requirements(a), st)

\* Neither of the two, once started, takes a requirement of the other away.
is_parallelizable(a, b, st) ==
  /\ is_action_executable(b, Started(a, st))
  /\ is_action_executable(a, Started(b, st))

-----------------------------------------------------------------------------
(* Graphs: the arcs into and out of each node, in the order they were made, *)
(* the state before each node and the number of roots.                      *)

LastOr0(s) == IF s = <<>> THEN 0 ELSE s[Len(s)]

\* The elements of a sequence where they occur first.
FirstOf(s) ==
  LET f[k \in 0 .. Len(s)] ==
        IF k = 0 THEN <<>> ELSE IF s[k] \in Elements(f[k - 1]) THEN f[k - 1] ELSE Append(f[k - 1], s[k])
  IN f[Len(s)]

\* The elements of a sequence that are in S.
Only(s, S) ==
  LET f[k \in 0 .. Len(s)] ==
        IF k = 0 THEN <<>> ELSE IF s[k] \in S THEN Append(f[k - 1], s[k]) ELSE f[k - 1]
  IN f[Len(s)]

\* The sequences s[1], s[2], ... one after the other.
Joined(s) ==
  LET f[k \in 0 .. Len(s)] == IF k = 0 THEN <<>> ELSE f[k - 1] \o s[k] IN f[Len(s)]

\* Everything below a node, as often as a path leads there.
Below(g) ==
  LET n == Len(g.out)
      walk[i \in 1 .. n] == <<i>> \o Joined([k \in DOMAIN g.out[i] |-> walk[g.out[i][k]]])
  IN [i \in 1 .. n |-> walk[i]]

Walk(g) == Joined([r \in 1 .. g.roots |-> Below(g)[r]])

\* Everything above a node, in the order in which get_state applies it.
Above(g) ==
  LET n == Len(g.in)
      walk[i \in 1 .. n] == Joined([k \in DOMAIN g.in[i] |-> Append(walk[g.in[i][k]], g.in[i][k])])
  IN [i \in 1 .. n |-> FirstOf(walk[i])]

\* The state after the given actions, one after the other.
After(acts, st) ==
  LET f[k \in 0 .. Len(acts)] == IF k = 0 THEN st ELSE Done(acts[k], f[k - 1]) IN f[Len(acts)]

get_state(g, new, items, st) ==
  After([k \in DOMAIN Above(g)[new] |-> items[Above(g)[new][k]]], st)

\* The last node on the walk that makes a fact true which was not; 0 if none does.
get_node_satisfy(f, g, new, items) ==
  LastOr0(Only(Walk(g), {i \in DOMAIN g.state \ {new} :
                            f \notin g.state[i] /\ f \in Done(items[i], g.state[i])}))

\* The nodes that the new action, were it started in their place, would keep from
\* being executed.
get_node_contradict(g, new, items) ==
  Only(Walk(g), {i \in DOMAIN g.state \ {new} :
    /\ is_action_executable(items[new], g.state[i])
    /\ ~is_action_executable(items[i], Started(items[new], g.state[i]))})

\* prune_backwards, and the arc from the parent: what is above the parent needs no
\* arc of its own.
Connect(g, parent, new) ==
  LET above == Elements(Append(Above(g)[parent], parent))
      cut(s) == Only(s, DOMAIN g.in \ {new})
  IN [g EXCEPT !.in[new] = Append(Only(@, DOMAIN g.in \ above), parent),
               !.out = [i \in DOMAIN @ |->
                          IF i = parent THEN Append(cut(@[i]), new)
                          ELSE IF i \in above THEN cut(@[i]) ELSE @[i]]]

\* The roots are the first actions of the plan that can all be started at once.
get_roots(items, st) ==
  LET fit(k) == \A i \in 1 .. k : /\ is_action_executable(items[i], st)
                                  /\ \A j \in 1 .. i - 1 : is_parallelizable(items[i], items[j], st)
  IN CHOOSE k \in 0 .. Len(items) : fit(k) /\ (k < Len(items) => ~fit(k + 1))

\* The new action comes after whatever establishes one of its requirements; those that
\* no action establishes are left open.
Satisfied(g, reqs, new, items) ==
  LET Link(r, req, p) == IF p = 0 THEN [r EXCEPT !.open = @ \union {req}]
                         ELSE [r EXCEPT !.graph = Connect(@, p, new)]
      f[k \in 0 .. Len(reqs)] ==
        IF k = 0 THEN [graph |-> g, open |-> {}]
        ELSE Link(f[k - 1], reqs[k], get_node_satisfy(reqs[k], f[k - 1].graph, new, items))
  IN f[Len(reqs)]

\* It comes after those that it would disturb.
Separated(g, foes, new) ==
  LET f[k \in 0 .. Len(foes)] == IF k = 0 THEN g ELSE Connect(f[k - 1], foes[k], new)
  IN f[Len(foes)]

\* Add the next action of the plan; no graph if it has a requirement that no node
\* establishes and that does not hold where the action has come to stand.
Extend(g, items, st) ==
  LET new   == Len(g.state) + 1
      bare  == [g EXCEPT !.in = Append(@, <<>>), !.out = Append(@, <<>>)]
      linked == Satisfied(bare, Requirements(items[new]), new, items)
      graph == Separated(linked.graph, get_node_contradict(linked.graph, new, items), new)
      At(state) == IF linked.open \subseteq state THEN [graph EXCEPT !.state = Append(@, state)]
                   ELSE [g EXCEPT !.failed = TRUE]
  IN At(get_state(graph, new, items, st))

build_action_graph(items, st) ==
  LET roots == get_roots(items, st)
      none  == [i \in 1 .. roots |-> <<>>]
      f[k \in roots .. Len(items)] ==
        IF k = roots
        THEN [roots |-> roots, failed |-> FALSE, state |-> [i \in 1 .. roots |-> st],
              in |-> none, out |-> none]
        ELSE IF f[k - 1].failed THEN f[k - 1] ELSE Extend(f[k - 1], items, st)
  IN f[Len(items)]

-----------------------------------------------------------------------------
(* Trees: the order in which a tick comes by the actions, the action whose   *)
(* block must succeed first, and those that WaitAction waits for.            *)

\* Mutant of Visits: an action is rendered wherever an arc leads.
VisitsAgain(g) == Walk(g)

\* prune_forward leaves each node the arc by which it is reached first.
Visits(g) == FirstOf(Walk(g))

Greatest(S) == {k \in S : \A l \in S : l <= k}

\* A block is nested in the one by which it is reached first: of those with an arc to
\* it, the last that the walk visits before it.
Rendered(g, order, items) ==
  LET place(i)   == CHOOSE k \in DOMAIN order : order[k] = i
      earlier(i) == {k \in 1 .. place(i) - 1 : order[k] \in Elements(g.in[i])}
      node(a)    == CHOOSE i \in DOMAIN items : items[i] = a
      names      == {items[i] : i \in Elements(order)}
  IN [failed |-> g.failed,
      order  |-> [k \in DOMAIN order |-> items[order[k]]],
      under  |-> [a \in names |-> {items[order[k]] : k \in Greatest(earlier(node(a)))}],
      waits  |-> [a \in names |-> {items[j] : j \in Elements(g.in[node(a)])}]]

TreeOf(g, items) == Rendered(g, Visits(g), items)

get_tree(items, st) == TreeOf(build_action_graph(items, st), items)
===========================================================================
