---------------------------- MODULE MCPlanTree ----------------------------
(* A robot that charges and looks around while it is here, goes there and      *)
(* reports what it has seen; it may beep as long as it is charged.             *)
EXTENDS PlanTree

Effect(a, d) == [add |-> a, del |-> d]
Action(o, e) == [durative |-> FALSE, atStartReq |-> <<>>, overAllReq |-> o, atEndReq |-> <<>>,
                 atStart |-> NoEffect, atEnd |-> e]
Durative(s, o, n, b, e) == [durative |-> TRUE, atStartReq |-> s, overAllReq |-> o, atEndReq |-> n,
                            atStart |-> b, atEnd |-> e]
Repertory ==
  [go     |-> Durative(<<"here">>, <<"charged">>, <<>>, Effect({}, {"here"}), Effect({"there"}, {})),
   look   |-> Action(<<"here">>, Effect({"seen"}, {})),
   charge |-> Durative(<<"here">>, <<"here">>, <<"here">>, NoEffect, Effect({"charged"}, {})),
   report |-> Action(<<"there", "seen">>, Effect({}, {"charged"})),
   beep   |-> Durative(<<>>, <<>>, <<"charged">>, NoEffect, NoEffect)]
Sequences(n) == UNION {{p \in [1 .. k -> Actions] : IsInjective(p)} : k \in 1 .. n}
ShortPlans == Sequences(3)
===========================================================================
