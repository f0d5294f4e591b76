----------------------------- MODULE MCAlgorithms ---------------------------
(***************************************************************************)
(* Core's algorithms on everything a few inputs can be: one behaviour is   *)
(* about one topic, and the variables of the others do not move.           *)
(***************************************************************************)
EXTENDS MCConflictRules, MCWaitGraph, MCHeat, MCRecap, RateLimit

VARIABLE topic

vars == <<topic, rulesVars, edges, heatVars, touchVars, recapVars, rateVars>>

NoRules ==
  /\ RulesInit
  /\ mine = [kind |-> "ASK_USER", approval |-> FALSE, files |-> {}]
  /\ theirs = mine
  /\ contested = {}

Init ==
  /\ topic \in {"rules", "waits", "heat", "touches", "recap", "rates"}
  /\ IF topic = "rules" THEN RulesInit ELSE NoRules
  /\ IF topic = "heat" THEN HeatInit ELSE HeatIdle
  /\ WaitInit
  /\ TouchInit
  /\ RecapInit
  /\ RateInit

Next ==
  /\ UNCHANGED topic
  /\ \/ topic = "rules"   /\ Decide    /\ UNCHANGED <<edges, heatVars, touchVars, recapVars, rateVars>>
     \/ topic = "waits"   /\ WaitNext  /\ UNCHANGED <<rulesVars, heatVars, touchVars, recapVars, rateVars>>
     \/ topic = "heat"    /\ Answer    /\ UNCHANGED <<rulesVars, edges, touchVars, recapVars, rateVars>>
     \/ topic = "touches" /\ TouchNext /\ UNCHANGED <<rulesVars, edges, heatVars, recapVars, rateVars>>
     \/ topic = "recap"   /\ RecapNext /\ UNCHANGED <<rulesVars, edges, heatVars, touchVars, rateVars>>
     \/ topic = "rates"   /\ RateNext  /\ UNCHANGED <<rulesVars, edges, heatVars, touchVars, recapVars>>

Spec == Init /\ [][Next]_vars
=============================================================================
