-------------------------- MODULE MCEpistemicState --------------------------
(* The corridor of corridor.epddl: a robot drives to the junction and back, *)
(* and two robots can look from there whether the corridor is blocked.      *)
EXTENDS EpistemicState, TLC

Fact(at, blocked) == [at |-> at, blocked |-> blocked]
AllFacts == {Fact(at, blocked) : at \in {"depot", "junction"}, blocked \in BOOLEAN}
AtDepot    == {f \in AllFacts : f.at = "depot"}
AtJunction == {f \in AllFacts : f.at = "junction"}
Blocked    == {f \in AllFacts : f.blocked}
Clear      == AllFacts \ Blocked

Drives == {"drive out", "drive back"}
Move == [a \in Drives |->
           [f \in AllFacts |->
              [f EXCEPT !.at = IF a = "drive out" THEN "junction" ELSE "depot"]]]

OneLooks   == "inspect" :> <<"e blocked", "e clear">>
OneRobot   == "inspect" :> "r1"
Places(looks) ==
  "drive out" :> AtDepot @@ "drive back" :> AtJunction
    @@ [a \in looks |-> AtJunction]
PlacesOfOne == Places({"inspect"})
Answering  == "e blocked" :> Blocked @@ "e clear" :> Clear
Sayable    == {Blocked, Clear}
Aimable    == {Blocked}
\* Tasks that know where the robot is, or nothing, or everything, or are wrong.
Corridors  == {{}, AtDepot, AllFacts, {Fact("depot", TRUE)}}
============================================================================
