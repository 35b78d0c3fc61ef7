---------------------------- MODULE TurnContract ----------------------------
(***************************************************************************)
(* The abstract specification of a graph run as graph.ainvoke's caller     *)
(* sees it (api/routes.py 151-155): it returns exactly one outcome of its  *)
(* start state, or it raises, once.                                        *)
(***************************************************************************)
EXTENDS TurnOutcomes

VARIABLES start, phase, result

contractVars == <<start, phase, result>>

Init ==
    /\ start \in StartStates
    /\ phase = "running"
    /\ result = None

Return ==
    /\ phase = "running"
    /\ phase' = "returned"
    /\ result' \in Outcomes(start)
    /\ UNCHANGED start

Raise ==
    /\ phase = "running"
    /\ phase' = "raised"
    /\ UNCHANGED <<start, result>>

Next == Return \/ Raise

Spec == Init /\ [][Next]_contractVars

=============================================================================
