------------------------------ MODULE ChatApiMC -----------------------------
(* Values for the constants of ChatApi: requests a1.. belong to one session, *)
(* b1 to another.   A classifier may send null for the question it asks back,  *)
(* and a reason that is not a string.                                        *)
EXTENDS ChatApi, TLC

CONSTANTS a1, a2, a3, a4, b1, sA, sB

MCSessions == {sA, sB}

Reply(status, question, reason) ==
    [shape |-> "object", status |-> status, clarification_question |-> question,
     reason |-> reason]

MCReplies == {Reply("answerable", "string", "string"), Reply("ambiguous", "string", "null"),
              Reply("ambiguous", "null", "string"), Reply("out_of_scope", "absent", "other")}

\* Four requests of one session: two rounds of clarification, the limit, and a
\* fresh question after it.  One request of another session beside them.
MCQuestions == {a1, a2, a3, a4, b1}
MCSessionOf == [r \in MCQuestions |-> IF r = b1 THEN sB ELSE sA]

\* The smallest dialogue a documented promise can fail in.
ShortQuestions == {a1, a2}
ShortSessionOf == [r \in ShortQuestions |-> sA]

\* Requests of one session are interchangeable.
Interchangeable == Permutations({a1, a2, a3, a4})
=============================================================================
