------------------------------ MODULE ChatApi -------------------------------
(***************************************************************************)
(* POST /chat (api/routes.py) over the session store                       *)
(* (api/session_store.py), with any number of requests in flight on one    *)
(* asyncio event loop.  A handler runs without interruption up to its      *)
(* `await graph.ainvoke`, and again from there to its response; between    *)
(* the two, every other handler may run.  The graph run itself is one of   *)
(* the outcomes it promises (TurnOutcomes).                                *)
(***************************************************************************)
EXTENDS TurnOutcomes, Sequences

CONSTANTS
    Sessions,
    SessionOf,   \* the session_id of each request; a request is its question
    Window       \* settings.conversation_history_window

ASSUME SessionAssumption == SessionOf \in [Questions -> Sessions]
ASSUME WindowAssumption == Window \in Nat

VARIABLES
    store,       \* SessionStore._store, with the blank default for absent keys
    phase,       \* of each request: "unsent", "running", "answered", "failed"
    history,     \* the handler's local `history`
    input,       \* the handler's local `state`
    responses,   \* history: per session, the turns saved, in that order
    overlapped   \* history: sessions that had two requests in flight
                 \* (both histories since the process was started)

vars == <<store, phase, history, input, responses, overlapped>>

-----------------------------------------------------------------------------
(* Turns and the window of them that a graph run sees.                     *)

Turn(role, request) == [role |-> role, of |-> request]

Exchange(request) == <<Turn("user", request), Turn("assistant", request)>>

BlankHistory ==
    [last_status |-> "done", last_clarification_question |-> None,
     accumulated_intent |-> None, ambiguity_count |-> 0, turns |-> <<>>]

(* mutant: the slice is not doubled, Window messages are passed on *)
MutRecentTurns(turns) ==
    SubSeq(turns, 1 + (IF 0 < Window /\ Window < Len(turns) THEN Len(turns) - Window ELSE 0),
           Len(turns))

\* history.turns[-window:] with window = 2 * Window messages.  Python reads
\* [-0:] as [0:], the whole list.
RecentTurns(turns) ==
    SubSeq(turns, 1 + (IF 0 < Window /\ 2 * Window < Len(turns) THEN Len(turns) - 2 * Window ELSE 0),
           Len(turns))

IsContinuation(h) == h.last_status = "asking_clarification"

CarriedIntent(h) == IF IsContinuation(h) THEN h.accumulated_intent ELSE None

CarriedClarification(h) == IF IsContinuation(h) THEN h.last_clarification_question ELSE None

(* mutant: the count starts over in every request *)
MutCarriedCount(h) == 0

CarriedCount(h) == IF IsContinuation(h) THEN h.ambiguity_count ELSE 0

\* The AgentState a graph run is given.
InitialState(request, h) ==
    [question             |-> request,
     conversation_history |-> RecentTurns(h.turns),
     accumulated_intent   |-> CarriedIntent(h),
     last_clarification   |-> CarriedClarification(h),
     ambiguity_count      |-> CarriedCount(h)]

(* mutant: the saved turns are the window the run was given, and the new ones *)
MutNewTurns(request) == input[request].conversation_history \o Exchange(request)

\* history.turns + [user, assistant], from the history read at the start.
NewTurns(request) == history[request].turns \o Exchange(request)

(* mutant: whether a dialogue goes on is derived from the clarification field *)
MutSavedHistory(request, outcome) ==
    [last_status                 |-> IF outcome.last_clarification = None
                                     THEN outcome.status ELSE "asking_clarification",
     last_clarification_question |-> outcome.last_clarification,
     accumulated_intent          |-> outcome.accumulated_intent,
     ambiguity_count             |-> outcome.ambiguity_count,
     turns                       |-> NewTurns(request)]

SavedHistory(request, outcome) ==
    [last_status                 |-> outcome.status,
     last_clarification_question |-> outcome.last_clarification,
     accumulated_intent          |-> outcome.accumulated_intent,
     ambiguity_count             |-> outcome.ambiguity_count,
     turns                       |-> NewTurns(request)]

-----------------------------------------------------------------------------
InFlight(session) == {r \in Questions : SessionOf[r] = session /\ phase[r] = "running"}

Init ==
    /\ store = [s \in Sessions |-> BlankHistory]
    /\ phase = [r \in Questions |-> "unsent"]
    /\ history = [r \in Questions |-> BlankHistory]
    /\ input = [r \in Questions |-> InitialState(r, BlankHistory)]
    /\ responses = [s \in Sessions |-> <<>>]
    /\ overlapped = {}

\* Lines 115-151: from the session's history to the call of the graph.
StartTurn(request) ==
    LET session == SessionOf[request] IN
    /\ phase[request] = "unsent"
    /\ phase' = [phase EXCEPT ![request] = "running"]
    /\ history' = [history EXCEPT ![request] = store[session]]
    /\ input' = [input EXCEPT ![request] = InitialState(request, store[session])]
    /\ overlapped' = IF InFlight(session) = {} THEN overlapped ELSE overlapped \cup {session}
    /\ UNCHANGED <<store, responses>>

\* ChatResponse.answer is `str | None`; pydantic rejects anything else.
Deliverable(outcome) == outcome.answer # "other"

\* Lines 157-186: the graph returned; save, then respond, with no await between.
\* A response that fails validation becomes an HTTP 500 after the save.
FinishTurn(request) ==
    LET session == SessionOf[request] IN
    /\ phase[request] = "running"
    /\ \E outcome \in Outcomes(input[request]) :
        /\ store' = [store EXCEPT ![session] = SavedHistory(request, outcome)]
        /\ responses' = [responses EXCEPT ![session] =
                            Append(@, [request |-> request, outcome |-> outcome])]
        /\ phase' = [phase EXCEPT ![request] =
                        IF Deliverable(outcome) THEN "answered" ELSE "failed"]
    /\ UNCHANGED <<history, input, overlapped>>

(* mutant: the user's turn is saved although the run failed *)
MutFailTurn(request) ==
    /\ phase[request] = "running"
    /\ phase' = [phase EXCEPT ![request] = "failed"]
    /\ store' = [store EXCEPT ![SessionOf[request]].turns = Append(@, Turn("user", request))]
    /\ UNCHANGED <<history, input, responses, overlapped>>

\* Lines 153-155: the graph raised; HTTP 500, and nothing is saved.
FailTurn(request) ==
    /\ phase[request] = "running"
    /\ phase' = [phase EXCEPT ![request] = "failed"]
    /\ UNCHANGED <<store, history, input, responses, overlapped>>

\* The process ends and is started again.  The store was in its memory (the
\* dictionary of __init__), and so were the handlers: their clients get no
\* response.  The history variables start over with it.
Restart ==
    /\ store' = [s \in Sessions |-> BlankHistory]
    /\ phase' = [r \in Questions |-> IF phase[r] = "running" THEN "failed" ELSE phase[r]]
    /\ history' = [r \in Questions |-> BlankHistory]
    /\ input' = [r \in Questions |-> InitialState(r, BlankHistory)]
    /\ responses' = [s \in Sessions |-> <<>>]
    /\ overlapped' = {}

Next ==
    \/ \E request \in Questions :
        StartTurn(request) \/ FinishTurn(request) \/ FailTurn(request)
    \/ Restart

Spec == Init /\ [][Next]_vars

-----------------------------------------------------------------------------
(* Properties.  The `responses` history is what the clients of a session    *)
(* were told; the store is what the session's next request is built from.   *)
(* The first group holds of sessions whose requests never overlapped in     *)
(* time, the discipline of a client that awaits each response.              *)

Messages == [role : {"user", "assistant"}, of : Questions]

Histories ==
    [last_status : {"done", "asking_clarification", "error"},
     last_clarification_question : Values,
     accumulated_intent : Intents \cup {None},
     ambiguity_count : 0 .. MaxClarificationRounds,
     turns : Seq(Messages)]

StartOf(state) ==
    [question |-> state.question, accumulated_intent |-> state.accumulated_intent,
     last_clarification |-> state.last_clarification, ambiguity_count |-> state.ambiguity_count]

TurnResults ==
    [status : {"done", "asking_clarification", "error"}, accumulated_intent : Intents,
     last_clarification : Values, ambiguity_count : 0 .. MaxClarificationRounds,
     answer : Values]

Responses == [request : Questions, outcome : TurnResults]

\* Every variable has its type; in particular a graph run is only ever given a
\* start state that AgentGraph is specified for.
TypeOK ==
    /\ store \in [Sessions -> Histories]
    /\ phase \in [Questions -> {"unsent", "running", "answered", "failed"}]
    /\ history \in [Questions -> Histories]
    /\ DOMAIN input = Questions
    /\ \A r \in Questions :
        /\ StartOf(input[r]) \in StartStates
        /\ input[r].conversation_history \in Seq(Messages)
    /\ responses \in [Sessions -> Seq(Responses)]
    /\ overlapped \subseteq Sessions

Disciplined == Sessions \ overlapped

\* The messages are those of the responses in `sent`, user then assistant, in
\* the order sent, each one once, and nothing else.
IsTranscript(turns, sent) ==
    /\ Len(turns) = 2 * Len(sent)
    /\ \A i \in DOMAIN sent :
        /\ turns[2 * i - 1] = Turn("user", sent[i].request)
        /\ turns[2 * i] = Turn("assistant", sent[i].request)

\* The stored turns are the whole conversation (session_store.py 49): every
\* turn whose run returned, in order, while a run that raised leaves no trace.
NoLostTurn == \A s \in Disciplined : IsTranscript(store[s].turns, responses[s])

Asks(response) == response.outcome.status = "asking_clarification"

\* The user is never asked back more than MAX_CLARIFICATION_ROUNDS times in a
\* row, across requests, failures and other sessions.
RoundsBounded ==
    \A s \in Disciplined :
        \A i \in 1 .. Len(responses[s]) - MaxClarificationRounds :
            \E j \in i .. i + MaxClarificationRounds : ~Asks(responses[s][j])

\* Response i belongs to the dialogue opened by response j: every response in
\* between asked for a clarification.
SameDialogue(sent, j, i) == \A k \in j .. i - 1 : Asks(sent[k])

Dialogue(sent, i) == {j \in 1 .. i : SameDialogue(sent, j, i)}

\* With a merger that drops nothing and clarification questions that are not
\* null, the intent of a response accounts for exactly the messages of its
\* dialogue: no answer is lost on the way, and nothing of an earlier question
\* leaks into a later one.
IntentIsDialogue ==
    \A s \in Disciplined :
        LET sent == responses[s] IN
        \A i \in DOMAIN sent :
            (/\ MergerFaithful
             /\ \A j \in Dialogue(sent, i) : j < i => sent[j].outcome.last_clarification # None)
            => sent[i].outcome.accumulated_intent = {sent[j].request : j \in Dialogue(sent, i)}

\* While a request runs, its conversation_history is the transcript of the last
\* Window responses of its session, or of all if there are fewer.
RecentContext ==
    \A r \in Questions :
        LET sent == responses[SessionOf[r]]
            recent == SubSeq(sent, 1 + (IF Window < Len(sent) THEN Len(sent) - Window ELSE 0), Len(sent))
        IN  (phase[r] = "running" /\ SessionOf[r] \in Disciplined /\ Window > 0)
            => IsTranscript(input[r].conversation_history, recent)

(* The second group holds whatever the clients do.                          *)

\* What overlapping requests leave in the store is still well formed: whole
\* exchanges, in the order of their responses, the last response among them.
\* Exchanges can be missing, but none is torn, repeated, invented or reordered.
SurvivingTurns ==
    \A s \in Sessions :
        LET sent == responses[s]
            turns == store[s].turns
            Position(r) == CHOOSE i \in DOMAIN sent : sent[i].request = r
            kept == 1 .. Len(turns) \div 2
        IN  /\ Len(turns) % 2 = 0
            /\ \A k \in kept :
                /\ turns[2 * k - 1].role = "user" /\ turns[2 * k].role = "assistant"
                /\ turns[2 * k - 1].of = turns[2 * k].of
                /\ \E i \in DOMAIN sent : sent[i].request = turns[2 * k].of
                /\ k > 1 => Position(turns[2 * k - 2].of) < Position(turns[2 * k].of)
            /\ sent # <<>> =>
                /\ kept # {}
                /\ turns[Len(turns)].of = sent[Len(sent)].request

\* A request continues a clarification exactly if the response sent last
\* before it started asked for one, and then with that response's fields:
\* never with fields of two different responses.
ContinuesOneResponse ==
    \A r \in Questions :
        phase[r] = "running" /\ history[r].turns # <<>> =>
            LET last == history[r].turns[Len(history[r].turns)].of
                sent == responses[SessionOf[r]]
                from == CHOOSE i \in DOMAIN sent : sent[i].request = last
                past == sent[from].outcome
            IN  IF past.status = "asking_clarification"
                THEN /\ input[r].accumulated_intent = past.accumulated_intent
                     /\ input[r].last_clarification = past.last_clarification
                     /\ input[r].ambiguity_count = past.ambiguity_count
                ELSE /\ input[r].accumulated_intent = None
                     /\ input[r].last_clarification = None
                     /\ input[r].ambiguity_count = 0

Conversations == INSTANCE Conversation WITH said <- [s \in Disciplined |-> responses[s]]

\* For clients that await each response, the handlers, their locals and the
\* store behave as if each request were one atomic step, whatever the other
\* sessions do, whichever runs fail and whenever the process is restarted: in
\* particular an answer that comes after a restart starts a conversation.
ImplementsConversation == Conversations!Spec

-----------------------------------------------------------------------------
(* The inductive invariant behind the properties (ChatApiProofs).            *)

\* A history that asks for a clarification has everything a run needs to
\* continue from it.
Resumable(h) ==
    IsContinuation(h) =>
        /\ h.accumulated_intent \in Intents
        /\ h.last_clarification_question \in Clarifications
        /\ h.ambiguity_count \in 1 .. MaxClarificationRounds

AllResumable == (\A s \in Sessions : Resumable(store[s])) /\ (\A r \in Questions : Resumable(history[r]))

\* The two locals of a handler agree for as long as its run lasts.
LocalsAgree == \A r \in Questions : input[r] = InitialState(r, history[r])

\* Without overlap, a run in flight is alone and has read what is stored still.
Undisturbed ==
    \A r \in Questions : phase[r] = "running" /\ SessionOf[r] \in Disciplined =>
        /\ history[r] = store[SessionOf[r]]
        /\ InFlight(SessionOf[r]) = {r}

\* The stored count is the length of the session's trailing run of
\* clarification questions.
CountsTrailing ==
    \A s \in Disciplined :
        LET sent == responses[s]
            count == CarriedCount(store[s])
        IN  count < Len(sent) => ~Asks(sent[Len(sent) - count])

\* A request has at most one response in a session, and has then come to its end.
RespondedOnce ==
    \A s \in Sessions : \A i \in DOMAIN responses[s] :
        /\ phase[responses[s][i].request] \in {"answered", "failed"}
        /\ \A j \in DOMAIN responses[s] : responses[s][j].request = responses[s][i].request => j = i

\* A history is that of one response of the session, or no history at all.
FromOneResponse(h, s) ==
    h.turns # <<>> =>
        \E i \in DOMAIN responses[s] :
            /\ h.turns[Len(h.turns)].of = responses[s][i].request
            /\ h.last_status = responses[s][i].outcome.status
            /\ h.accumulated_intent = responses[s][i].outcome.accumulated_intent
            /\ h.last_clarification_question = responses[s][i].outcome.last_clarification
            /\ h.ambiguity_count = responses[s][i].outcome.ambiguity_count

OneSource ==
    /\ \A s \in Sessions : FromOneResponse(store[s], s)
    /\ \A r \in Questions : FromOneResponse(history[r], SessionOf[r])

\* The messages are whole exchanges of requests responded to in `sent`, in that
\* order; some may be missing.
IsExtract(turns, sent) ==
    \E n \in 0 .. Len(turns) :
        /\ Len(turns) = 2 * n
        /\ \A k \in 1 .. n :
            /\ turns[2 * k - 1] = Turn("user", turns[2 * k].of)
            /\ turns[2 * k].role = "assistant"
            /\ \E i \in DOMAIN sent : sent[i].request = turns[2 * k].of
        /\ \A k \in 2 .. n : \E i, j \in DOMAIN sent :
            /\ i < j
            /\ sent[i].request = turns[2 * k - 2].of /\ sent[j].request = turns[2 * k].of

\* So are the stored turns and the locals of every handler: what a handler
\* appends its exchange to may be stale, but was responded to before.
Extracts ==
    /\ \A s \in Sessions : IsExtract(store[s].turns, responses[s])
    /\ \A r \in Questions : IsExtract(history[r].turns, responses[SessionOf[r]])

\* The store ends with the response sent last.
EndsWithLast ==
    \A s \in Sessions :
        LET sent == responses[s]
            turns == store[s].turns
        IN  sent # <<>> => turns # <<>> /\ turns[Len(turns)].of = sent[Len(sent)].request

ChatInv ==
    /\ TypeOK /\ AllResumable /\ LocalsAgree
    /\ Undisturbed /\ NoLostTurn /\ CountsTrailing /\ RoundsBounded
    /\ RespondedOnce /\ OneSource /\ Extracts /\ EndsWithLast

-----------------------------------------------------------------------------
(* What the documentation says without the conditions above; each of these  *)
(* is violated, and README.md says by which behaviour of the code.          *)

\* session_store.py 49, "All conversation turns": also when requests overlap.
AllTurnsKept == \A s \in Sessions : IsTranscript(store[s].turns, responses[s])

\* routes.py 173-176, a malformed LLM reply is a 422 like every other error: a
\* request whose turn was saved got its response.
SavedTurnsDelivered ==
    \A s \in Sessions : \A i \in DOMAIN responses[s] :
        phase[responses[s][i].request] = "answered"

\* README.md 68, "on continuation turns it first merges the user's new input":
\* also when the clarification question was null.
AnswersMerged ==
    \A s \in Disciplined : \A i \in DOMAIN responses[s] :
        responses[s][i].request \in responses[s][i].outcome.accumulated_intent

\* agent/state.py 113, "Capped to CONVERSATION_HISTORY_WINDOW turns".
HistoryCapped ==
    \A r \in Questions : Len(input[r].conversation_history) <= 2 * Window

=============================================================================
