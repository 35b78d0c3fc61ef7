---------------------------- MODULE Conversation ----------------------------
(***************************************************************************)
(* The abstract specification of POST /chat for clients that await each    *)
(* response (api/routes.py 90-100): a session is a sequence of turns, each *)
(* made at one moment, and each an outcome of a state that depends on the  *)
(* turn before it and on nothing else.  There is no store and no request   *)
(* in flight.                                                              *)
(***************************************************************************)
EXTENDS TurnOutcomes, Sequences

CONSTANTS Sessions, SessionOf   \* as in ChatApi

VARIABLE said   \* of each session that was never deserted: its turns

Init == said = [s \in Sessions |-> <<>>]

Continues(turns) == turns # <<>> /\ turns[Len(turns)].outcome.status = "asking_clarification"

\* What a run is told of the conversation before it.
Start(question, turns) ==
    LET last == turns[Len(turns)].outcome
    IN  [question           |-> question,
         accumulated_intent |-> IF Continues(turns) THEN last.accumulated_intent ELSE None,
         last_clarification |-> IF Continues(turns) THEN last.last_clarification ELSE None,
         ambiguity_count    |-> IF Continues(turns) THEN last.ambiguity_count ELSE 0]

\* A request has its effect at one moment, and at most once.
Turn(question) ==
    LET session == SessionOf[question] IN
    /\ session \in DOMAIN said
    /\ \A i \in DOMAIN said[session] : said[session][i].request # question
    /\ \E outcome \in Outcomes(Start(question, said[session])) :
        said' = [said EXCEPT ![session] =
                    Append(said[session], [request |-> question, outcome |-> outcome])]

\* A client that does not await its response is promised no more of this.
Desert(session) ==
    said' = [s \in DOMAIN said \ {session} |-> said[s]]

\* The process is restarted, and every conversation starts over.
Restart == said' = [s \in Sessions |-> <<>>]

Next ==
    \/ \E question \in Questions : Turn(question)
    \/ \E session \in Sessions : Desert(session)
    \/ Restart

Spec == Init /\ [][Next]_said

=============================================================================
