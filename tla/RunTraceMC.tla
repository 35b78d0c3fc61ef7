----------------------------- MODULE RunTraceMC -----------------------------
(* Values for the constants of RunTrace: fewer than for AgentGraph, since    *)
(* what is logged depends on less.                                           *)
EXTENDS RunTrace

CONSTANTS q1, good, better, bad

MCQuestions == {q1}
MCSql == {good, better, bad}
MCSafeSql == {good, better}

\* A reply for each branch of the analyzer.
Reply(shape, classification, question, reason) ==
    [shape |-> shape, status |-> classification, clarification_question |-> question,
     reason |-> reason]

MCReplies == {Reply("object", "answerable", "absent", "absent"),
              Reply("object", "ambiguous", "string", "absent"),
              Reply("object", "out_of_scope", "absent", "string"),
              Reply("not_json", "out_of_scope", "absent", "absent"),
              Reply("not_object", "out_of_scope", "absent", "absent")}
=============================================================================
