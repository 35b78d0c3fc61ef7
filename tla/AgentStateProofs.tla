-------------------------- MODULE AgentStateProofs --------------------------
(***************************************************************************)
(* Lemmas about the data of a chat turn, used by the proofs about the      *)
(* graph and about the API.                                                *)
(***************************************************************************)
EXTENDS AgentState, TLAPS

\* A field of the classifier's reply is read as one of the three values.
LEMMA GetValues == \A field : Get(field) \in Values
BY DEF Get, Values

\* So are the questions asked back and the reasons given.
LEMMA ClarificationValues == Clarifications \subseteq Values /\ Reasons \subseteq Values
BY GetValues DEF Clarifications, Reasons

\* The start states have the types of the AgentState fields they fill.
LEMMA StartTypes ==
    ASSUME NEW s \in StartStates
    PROVE  /\ s.question \in Questions
           /\ s.accumulated_intent \in Intents \cup {None}
           /\ s.last_clarification \in Values
           /\ s.ambiguity_count \in 0 .. MaxClarificationRounds
<1>1. CASE s \in FreshStarts
  BY <1>1, RoundsAssumption DEF FreshStarts, Values
<1>2. CASE s \in ContinuationStarts
  BY <1>2, ClarificationValues, RoundsAssumption DEF ContinuationStarts
<1> QED
  BY <1>1, <1>2 DEF StartStates

\* A clarification that is not a string comes from a reply that asked it.
LEMMA StartTexts ==
    ASSUME NEW s \in StartStates, s.last_clarification = "other"
    PROVE  "other" \in Clarifications
BY NoneAssumption DEF StartStates, FreshStarts, ContinuationStarts

\* Whatever the analyzer resolves a start state to is a text.
LEMMA ResolvedTypes ==
    ASSUME NEW s, s.question \in Questions, s.accumulated_intent \in Intents \cup {None}
    PROVE  ResolvedIntents(s) \subseteq Intents
<1> DEFINE text == s.accumulated_intent
           q == s.question
<1>1. text \in Intents \cup {None} /\ q \in Questions
  OBVIOUS
<1>2. OrQuestion(text, q) \in Intents
  BY <1>1 DEF OrQuestion, Truthy, Intents
<1>3. (IF Truthy(text) THEN text ELSE {}) \cup {q} \in Intents
  BY <1>1 DEF Truthy, Intents
<1>4. Merged(text, q) \subseteq Intents
  BY <1>3 DEF Merged, Intents
<1> QED
  BY <1>2, <1>4 DEF ResolvedIntents

=============================================================================
