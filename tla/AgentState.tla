----------------------------- MODULE AgentState -----------------------------
(***************************************************************************)
(* The data of one chat turn: what a language model may reply, what the    *)
(* analyzer reads out of a reply, and the states a graph run starts from   *)
(* (agent/state.py, agent/nodes/question_analyzer.py, api/routes.py).      *)
(*                                                                         *)
(* Texts are abstracted to what the code and the properties tell apart.    *)
(* An intent is the set of user messages its wording accounts for: {} is   *)
(* the empty string, None is Python's None.  A field of the classifier's   *)
(* reply is a "string", None, or "other", a JSON value of another type:    *)
(* the code checks neither.                                                *)
(***************************************************************************)
EXTENDS Integers, FiniteSets

CONSTANTS
    Questions,              \* the user messages (ChatRequest.question, never empty)
    None,                   \* Python's None, JSON's null
    MaxClarificationRounds, \* settings.max_clarification_rounds
    ClassifierReplies,      \* what the classifier call may return
    MergerFaithful          \* TRUE: the merger keeps everything it is given
                            \* FALSE: it may drop any part of it

Intents == SUBSET Questions

\* A key of the classifier's JSON object: missing, null, a string, or a value
\* of another type.
FieldValues == {"absent", "null", "string", "other"}

\* What the code reads out of such a key.
Values == {None, "string", "other"}

\* not_json: json.loads raises JSONDecodeError.  not_object: it parses, but
\* to a list, a string or a number, and parsed.get raises AttributeError.
\* The status out_of_scope stands for a missing or unexpected value too.
AnyReply == [shape : {"object", "not_json", "not_object"},
             status : {"answerable", "ambiguous", "out_of_scope"},
             clarification_question : FieldValues,
             reason : FieldValues]

ASSUME QuestionsAssumption == IsFiniteSet(Questions)
ASSUME NoneAssumption == None \notin {"string", "other"} /\ \A text \in Intents : text # None
ASSUME RoundsAssumption == MaxClarificationRounds \in Nat
ASSUME RepliesAssumption == ClassifierReplies \subseteq AnyReply
ASSUME MergerAssumption == MergerFaithful \in BOOLEAN

\* parsed.get(key, default): every default in the code is a string, and an
\* explicit null is not replaced by it.
Get(field) ==
    IF field = "null" THEN None ELSE IF field = "other" THEN "other" ELSE "string"

Classifying(classification) ==
    {reply \in ClassifierReplies : reply.shape = "object" /\ reply.status = classification}

\* The clarification questions the analyzer can end up asking, and the reasons
\* it can end up giving.
Clarifications == {Get(reply.clarification_question) : reply \in Classifying("ambiguous")}

Reasons == {Get(reply.reason) : reply \in Classifying("out_of_scope")}

\* Python truthiness of `str | None`, and `text or question`.
Truthy(text) == text # None /\ text # {}

OrQuestion(text, question) == IF Truthy(text) THEN text ELSE {question}

\* The merger prompt shows the old intent, or '(none yet)', and the answer.
Merged(text, question) ==
    LET shown == (IF Truthy(text) THEN text ELSE {}) \cup {question}
    IN  IF MergerFaithful THEN {shown} ELSE SUBSET shown

(* mutant: the merged text is discarded, the raw answer replaces it *)
MutResolvedIntents(start) ==
    IF start.last_clarification # None
    THEN {{start.question}}
    ELSE {OrQuestion(start.accumulated_intent, start.question)}

\* Step 1 of the analyzer: merge when a clarification was asked, else start
\* from the intent carried over, else from the question.
ResolvedIntents(start) ==
    IF start.last_clarification # None
    THEN Merged(start.accumulated_intent, start.question)
    ELSE {OrQuestion(start.accumulated_intent, start.question)}

\* The AgentState a graph run is given: a fresh question with every
\* clarification field reset, or the continuation of a clarification.
FreshStarts ==
    [question : Questions, accumulated_intent : {None},
     last_clarification : {None}, ambiguity_count : {0}]

ContinuationStarts ==
    [question : Questions, accumulated_intent : Intents,
     last_clarification : Clarifications, ambiguity_count : 1 .. MaxClarificationRounds]

StartStates == FreshStarts \cup ContinuationStarts

=============================================================================
