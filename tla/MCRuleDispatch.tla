---------------------------- MODULE MCRuleDispatch ----------------------------
(***************************************************************************)
(* Two requests, two rules with up to two matchers each, and two kinds of  *)
(* matchers, each of which tells the requests apart: a rule with one       *)
(* matcher accepts one of them, a rule with both of them none, and a rule  *)
(* with none, like one with any(), both.                                   *)
(***************************************************************************)
EXTENDS RuleDispatch

CONSTANTS r1, r2, one, other

MCVerdict == [m \in {one, other} |-> IF m = one THEN {r1} ELSE {r2}]
=============================================================================
