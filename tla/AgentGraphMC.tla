---------------------------- MODULE AgentGraphMC ----------------------------
(* Values for the constants of AgentGraph: two user messages, two safe       *)
(* statements and an unsafe one, two retries (the default of the code).      *)
EXTENDS AgentGraph

CONSTANTS q1, q2, good, better, bad

MCQuestions == {q1, q2}
MCSql == {good, better, bad}
MCSafeSql == {good, better}
MCRowCounts == {0, 1, 3}
MCRecursionLimits == {6, 11, 14}

\* Among the limits settings.py accepts are zero and less.
MCRowLimits == {-2, 0, 2}

\* A reply of every shape and status, with every value of the one field the
\* analyzer reads under that status.
MCReplies ==
    {reply \in AnyReply :
        /\ reply.shape # "object" =>
             reply.status = "out_of_scope" /\ reply.reason = "absent"
        /\ reply.status # "ambiguous" => reply.clarification_question = "absent"
        /\ reply.status # "out_of_scope" => reply.reason = "absent"}
=============================================================================
