---------------------------- MODULE TurnOutcomes ----------------------------
(***************************************************************************)
(* What one graph run promises the API layer: the fields of the final      *)
(* AgentState that api/routes.py saves (162-171), as a set of possible     *)
(* outcomes of a start state.  AgentGraph is shown to implement it through *)
(* TurnContract, and ChatApi uses it in place of the graph.                *)
(***************************************************************************)
EXTENDS AgentState

Outcome(status, intent, clarification, count, answer) ==
    [status |-> status, accumulated_intent |-> intent,
     last_clarification |-> clarification, ambiguity_count |-> count, answer |-> answer]

\* The agent asks the user back: one more round, if one is left.  The answer is
\* the clarification question.
AskedOutcomes(start) ==
    IF start.ambiguity_count < MaxClarificationRounds
    THEN {Outcome("asking_clarification", intent, question, start.ambiguity_count + 1, question) :
            intent \in ResolvedIntents(start), question \in Clarifications}
    ELSE {}

\* The question was clear: both clarification fields are reset, whether the
\* SQL pipeline then produced an answer or an error.
ResolvedOutcomes(start) ==
    {Outcome(status, intent, None, 0, "string") :
        status \in {"done", "error"}, intent \in ResolvedIntents(start)}

\* The analyzer gave up: too many rounds, out of scope, or not JSON.  The
\* clarification fields stay as they were at the start.
RefusedOutcomes(start) ==
    {Outcome("error", intent, start.last_clarification, start.ambiguity_count, answer) :
        intent \in ResolvedIntents(start), answer \in Reasons \cup {"string"}}

Outcomes(start) ==
    AskedOutcomes(start) \cup ResolvedOutcomes(start) \cup RefusedOutcomes(start)

=============================================================================
