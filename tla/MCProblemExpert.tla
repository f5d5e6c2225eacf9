-------------------------- MODULE MCProblemExpert --------------------------
(* A robot r, a place p and a place k that the domain declares; robots are a *)
(* subtype of things.                                                        *)
EXTENDS ProblemExpert, TLC

Sort(t, s)  == [type |-> t, subtypes |-> s]
AThing == Sort("thing", {"robot"})
APlace == Sort("place", {})

Stands == "known" :> ("k" :> APlace)
            @@ "at" :> ("r" :> AThing @@ "k" :> APlace)
            @@ "reachable" :> ("r" :> AThing)
            @@ "battery" :> ("r" :> Sort("robot", {}))
Derivations ==
  "known" :> {} @@ "at" :> {} @@ "reachable" :> {{"at", "known"}}
Declared == "k" :> "place"

Part(of)     == [compound |-> FALSE, of |-> of]
Compound(of) == [compound |-> TRUE, of |-> of]
Aims == {[root |-> "AND", parts |-> {Part({"at"}), Part({"battery"})}],
         [root |-> "AND", parts |-> {Part({"known"}), Compound({"at", "battery"})}],
         [root |-> "OR", parts |-> {Part({"at"})}]}
Start == [objects |-> "r" :> "robot", facts |-> {"at", "known"},
          values |-> "battery" :> 1,
          goal |-> [root |-> "AND", parts |-> {Part({"known"})}]]
Starts == {Start}
===========================================================================
