---------------------------- MODULE ChatApiProofs ---------------------------
(***************************************************************************)
(* What TLC checks of the chat endpoint on five requests, proved for any   *)
(* number of requests and sessions, any window and any number of rounds.   *)
(***************************************************************************)
EXTENDS ChatApi, AgentStateProofs, SequenceTheorems

-----------------------------------------------------------------------------
(* Sequences of turns                                                      *)

\* One exchange more, and nothing before it changed.
LEMMA ExchangeAppended ==
    ASSUME NEW turns \in Seq(Messages), NEW r \in Questions
    PROVE  LET longer == turns \o Exchange(r) IN
           /\ longer \in Seq(Messages)
           /\ Len(longer) = Len(turns) + 2
           /\ \A i \in 1 .. Len(turns) : longer[i] = turns[i]
           /\ longer[Len(turns) + 1] = Turn("user", r)
           /\ longer[Len(turns) + 2] = Turn("assistant", r)
<1>1. /\ Exchange(r) \in Seq(Messages) /\ Len(Exchange(r)) = 2
      /\ Exchange(r)[1] = Turn("user", r) /\ Exchange(r)[2] = Turn("assistant", r)
  BY DEF Exchange, Turn, Messages
<1> DEFINE added == Exchange(r)
           longer == turns \o added
<1>2. Len(turns) \in Nat
  OBVIOUS
<1> HIDE DEF added
<1>3. /\ longer \in Seq(Messages) /\ Len(longer) = Len(turns) + Len(added)
      /\ \A i \in 1 .. Len(turns) + Len(added) :
            longer[i] = IF i <= Len(turns) THEN turns[i] ELSE added[i - Len(turns)]
  BY <1>1, ConcatProperties DEF added
<1> HIDE DEF longer
<1>4. Len(added) = 2 /\ added[1] = Turn("user", r) /\ added[2] = Turn("assistant", r)
  BY <1>1 DEF added
<1>5. longer[Len(turns) + 1] = added[1] /\ longer[Len(turns) + 2] = added[2]
  BY <1>2, <1>3, <1>4
<1>6. \A i \in 1 .. Len(turns) : longer[i] = turns[i]
  BY <1>2, <1>3, <1>4
<1> QED
  BY <1>3, <1>4, <1>5, <1>6 DEF longer, added

\* A transcript stays one when a response and its exchange are added.
LEMMA TranscriptGrows ==
    ASSUME NEW turns \in Seq(Messages), NEW sent \in Seq(Responses),
           NEW r \in Questions, NEW o \in TurnResults,
           IsTranscript(turns, sent)
    PROVE  IsTranscript(turns \o Exchange(r), Append(sent, [request |-> r, outcome |-> o]))
<1> DEFINE longer == turns \o Exchange(r)
           more == Append(sent, [request |-> r, outcome |-> o])
<1>1. /\ Len(longer) = Len(turns) + 2
      /\ \A i \in 1 .. Len(turns) : longer[i] = turns[i]
      /\ longer[Len(turns) + 1] = Turn("user", r)
      /\ longer[Len(turns) + 2] = Turn("assistant", r)
  BY ExchangeAppended
<1>2. /\ Len(more) = Len(sent) + 1 /\ DOMAIN more = 1 .. Len(sent) + 1
      /\ \A i \in 1 .. Len(sent) : more[i] = sent[i]
      /\ more[Len(sent) + 1].request = r
  OBVIOUS
<1>3. Len(turns) = 2 * Len(sent) /\ Len(sent) \in Nat
  BY DEF IsTranscript
<1>4. ASSUME NEW i \in DOMAIN more
      PROVE  /\ longer[2 * i - 1] = Turn("user", more[i].request)
             /\ longer[2 * i] = Turn("assistant", more[i].request)
  <2>1. CASE i = Len(sent) + 1
    BY <2>1, <1>1, <1>2, <1>3
  <2>2. CASE i \in 1 .. Len(sent)
    <3>1. 2 * i - 1 \in 1 .. Len(turns) /\ 2 * i \in 1 .. Len(turns)
      BY <2>2, <1>3
    <3>2. longer[2 * i - 1] = turns[2 * i - 1] /\ longer[2 * i] = turns[2 * i]
      BY <3>1, <1>1
    <3>3. more[i] = sent[i] /\ i \in DOMAIN sent
      BY <2>2, <1>2
    <3> HIDE DEF longer, more
    <3>4. turns[2 * i - 1] = Turn("user", sent[i].request) /\ turns[2 * i] = Turn("assistant", sent[i].request)
      BY <3>3 DEF IsTranscript
    <3> QED
      BY <3>2, <3>3, <3>4
  <2>3. i \in 1 .. Len(sent) + 1
    BY <1>2
  <2> HIDE DEF longer, more
  <2> QED
    BY <2>1, <2>2, <2>3, <1>3
<1>5. Len(longer) = 2 * Len(more)
  BY <1>1, <1>2, <1>3
<1> HIDE DEF longer, more
<1>6. IsTranscript(longer, more)
  BY <1>4, <1>5 DEF IsTranscript
<1> QED
  BY <1>6 DEF longer, more

\* Cutting the turns at 2 * n messages is cutting the responses at n.
LEMMA TranscriptCut ==
    ASSUME NEW turns \in Seq(Messages), NEW sent \in Seq(Responses),
           IsTranscript(turns, sent), NEW n \in Nat, n <= Len(sent)
    PROVE  IsTranscript(SubSeq(turns, 1 + 2 * n, Len(turns)), SubSeq(sent, 1 + n, Len(sent)))
<1> DEFINE late == SubSeq(turns, 1 + 2 * n, Len(turns))
           last == SubSeq(sent, 1 + n, Len(sent))
<1>1. Len(turns) = 2 * Len(sent) /\ Len(sent) \in Nat /\ Len(turns) \in Nat
  BY DEF IsTranscript
<1>2. /\ Len(late) = Len(turns) - 2 * n
      /\ \A i \in 1 .. Len(turns) - 2 * n : late[i] = turns[2 * n + i]
  <2> DEFINE first == 1 + 2 * n
             end == Len(turns)
  <2>1. \A i \in first .. end : turns[i] \in Messages
    BY <1>1
  <2>2. first \in Int /\ end \in Int /\ first <= end + 1
    BY <1>1
  <2> HIDE DEF first, end
  <2>3. /\ Len(SubSeq(turns, first, end)) = IF first <= end THEN end - first + 1 ELSE 0
        /\ \A i \in 1 .. end - first + 1 : SubSeq(turns, first, end)[i] = turns[first + i - 1]
    BY <2>1, <2>2, SubSeqProperties
  <2>4. Len(late) = Len(turns) - 2 * n
    <3>1. Len(SubSeq(turns, first, end)) = end - first + 1
      BY <2>2, <2>3
    <3>2. end - first + 1 = Len(turns) - 2 * n
      BY <1>1 DEF first, end
    <3> QED
      BY <3>1, <3>2 DEF first, end
  <2>5. ASSUME NEW i \in 1 .. Len(turns) - 2 * n PROVE late[i] = turns[2 * n + i]
    <3>1. i \in 1 .. end - first + 1 /\ first + i - 1 = 2 * n + i
      BY <1>1 DEF first, end
    <3> QED
      BY <3>1, <2>3 DEF first, end
  <2> QED
    BY <2>4, <2>5
<1>3. /\ last \in Seq(Responses) /\ Len(last) = Len(sent) - n
      /\ \A i \in 1 .. Len(sent) - n : last[i] = sent[n + i]
  <2>1. \A i \in 1 + n .. Len(sent) : sent[i] \in Responses
    BY <1>1
  <2> QED
    BY <2>1, <1>1, SubSeqProperties
<1>4. ASSUME NEW i \in 1 .. Len(sent) - n
      PROVE  /\ late[2 * i - 1] = Turn("user", last[i].request)
             /\ late[2 * i] = Turn("assistant", last[i].request)
  <2>1. n + i \in DOMAIN sent
    BY <1>1
  <2>2. late[2 * i - 1] = turns[2 * (n + i) - 1] /\ late[2 * i] = turns[2 * (n + i)]
    BY <1>1, <1>2
  <2> QED
    BY <2>1, <2>2, <1>3 DEF IsTranscript
<1>5. Len(late) = 2 * Len(last) /\ DOMAIN last = 1 .. Len(sent) - n
  BY <1>1, <1>2, <1>3, SMTT(30)
<1> HIDE DEF late, last
<1>6. IsTranscript(late, last)
  BY <1>4, <1>5 DEF IsTranscript
<1> QED
  BY <1>6 DEF late, last

-----------------------------------------------------------------------------
(* The start states and the outcomes of the runs                           *)

LEMMA RecentTurnsType ==
    ASSUME NEW turns \in Seq(Messages)
    PROVE  RecentTurns(turns) \in Seq(Messages)
<1> DEFINE first == 1 + (IF 0 < Window /\ 2 * Window < Len(turns) THEN Len(turns) - 2 * Window ELSE 0)
<1>1. first \in Int /\ first >= 1 /\ Len(turns) \in Int
  BY WindowAssumption
<1>2. \A i \in first .. Len(turns) : turns[i] \in Messages
  BY <1>1
<1> HIDE DEF first
<1>3. SubSeq(turns, first, Len(turns)) \in Seq(Messages)
  BY <1>1, <1>2, SubSeqProperties
<1> QED
  BY <1>3 DEF RecentTurns, first

\* The run of a new request starts in a state the graph is specified for.
LEMMA InputTypes ==
    ASSUME NEW r \in Questions, NEW h \in Histories, Resumable(h)
    PROVE  /\ StartOf(InitialState(r, h)) \in StartStates
           /\ InitialState(r, h).conversation_history \in Seq(Messages)
<1>1. InitialState(r, h).conversation_history \in Seq(Messages)
  BY RecentTurnsType DEF InitialState, Histories
<1>2. CASE IsContinuation(h)
  <2>1. StartOf(InitialState(r, h)) \in ContinuationStarts
    BY <1>2 DEF Resumable, StartOf, InitialState, CarriedIntent, CarriedClarification,
                CarriedCount, ContinuationStarts
  <2> QED
    BY <1>1, <2>1 DEF StartStates
<1>3. CASE ~IsContinuation(h)
  <2>1. StartOf(InitialState(r, h)) \in FreshStarts
    BY <1>3 DEF StartOf, InitialState, CarriedIntent, CarriedClarification,
                CarriedCount, FreshStarts
  <2> QED
    BY <1>1, <2>1 DEF StartStates
<1> QED
  BY <1>2, <1>3

\* An outcome has the types of the fields that are saved of it, and one that
\* asks back counts one round more.
LEMMA OutcomeTypes ==
    ASSUME NEW x, StartOf(x) \in StartStates, NEW o \in Outcomes(x)
    PROVE  /\ o \in TurnResults
           /\ o.status = "asking_clarification" =>
                /\ o.last_clarification \in Clarifications
                /\ o.ambiguity_count = x.ambiguity_count + 1
                /\ o.ambiguity_count \in 1 .. MaxClarificationRounds
<1>1. /\ x.question \in Questions
      /\ x.accumulated_intent \in Intents \cup {None}
      /\ x.last_clarification \in Values
      /\ x.ambiguity_count \in 0 .. MaxClarificationRounds
  BY StartTypes DEF StartOf
<1>2. ResolvedIntents(x) \subseteq Intents
  BY <1>1, ResolvedTypes
<1>3. CASE o \in AskedOutcomes(x)
  <2>1. PICK intent \in ResolvedIntents(x), question \in Clarifications :
            /\ x.ambiguity_count < MaxClarificationRounds
            /\ o = Outcome("asking_clarification", intent, question, x.ambiguity_count + 1, question)
    BY <1>3 DEF AskedOutcomes
  <2> QED
    BY <2>1, <1>1, <1>2, ClarificationValues, RoundsAssumption DEF Outcome, TurnResults
<1>4. CASE o \in ResolvedOutcomes(x)
  <2>1. PICK status \in {"done", "error"}, intent \in ResolvedIntents(x) :
            o = Outcome(status, intent, None, 0, "string")
    BY <1>4 DEF ResolvedOutcomes
  <2> QED
    BY <2>1, <1>2, RoundsAssumption DEF Outcome, TurnResults, Values
<1>5. CASE o \in RefusedOutcomes(x)
  <2>1. PICK intent \in ResolvedIntents(x), answer \in Reasons \cup {"string"} :
            o = Outcome("error", intent, x.last_clarification, x.ambiguity_count, answer)
    BY <1>5 DEF RefusedOutcomes
  <2>2. answer \in Values
    BY ClarificationValues DEF Values
  <2> QED
    BY <2>1, <2>2, <1>1, <1>2 DEF Outcome, TurnResults
<1> QED
  BY <1>3, <1>4, <1>5 DEF Outcomes

\* What a run that returned leaves in the store.
LEMMA SavedTypes ==
    ASSUME TypeOK, NEW r \in Questions, NEW o \in Outcomes(input[r])
    PROVE  SavedHistory(r, o) \in Histories /\ Resumable(SavedHistory(r, o))
<1>1. /\ o \in TurnResults
      /\ o.status = "asking_clarification" =>
            o.last_clarification \in Clarifications /\ o.ambiguity_count \in 1 .. MaxClarificationRounds
  BY OutcomeTypes DEF TypeOK
<1>2. history[r] \in Histories
  BY DEF TypeOK
<1>3. NewTurns(r) \in Seq(Messages)
  BY <1>2, ExchangeAppended DEF NewTurns, Histories
<1>4. SavedHistory(r, o) \in Histories
  BY <1>1, <1>3 DEF SavedHistory, Histories, TurnResults
<1>5. Resumable(SavedHistory(r, o))
  BY <1>1 DEF SavedHistory, Resumable, IsContinuation, TurnResults
<1> QED
  BY <1>4, <1>5

-----------------------------------------------------------------------------
(* Types: every run starts in a state the graph is specified for.           *)

TypeInv == TypeOK /\ AllResumable /\ LocalsAgree

LEMMA BlankTypes == BlankHistory \in Histories /\ Resumable(BlankHistory)
BY RoundsAssumption DEF BlankHistory, Histories, Values, Resumable, IsContinuation

LEMMA InitTypes == Init => TypeInv
<1> SUFFICES ASSUME Init PROVE TypeInv
  OBVIOUS
<1>1. ASSUME NEW r \in Questions
      PROVE  /\ StartOf(input[r]) \in StartStates
             /\ input[r].conversation_history \in Seq(Messages)
  BY BlankTypes, InputTypes DEF Init
<1>2. TypeOK
  BY <1>1, BlankTypes DEF Init, TypeOK
<1>3. AllResumable /\ LocalsAgree
  BY BlankTypes DEF Init, AllResumable, LocalsAgree
<1> QED
  BY <1>2, <1>3 DEF TypeInv

LEMMA StartTypesKept ==
    ASSUME TypeInv, NEW r \in Questions, StartTurn(r)
    PROVE  TypeInv'
<1> DEFINE session == SessionOf[r]
<1>1. session \in Sessions
  BY SessionAssumption
<1>2. store[session] \in Histories /\ Resumable(store[session])
  BY <1>1 DEF TypeInv, TypeOK, AllResumable
<1>3. /\ history' = [history EXCEPT ![r] = store[session]]
      /\ input' = [input EXCEPT ![r] = InitialState(r, store[session])]
      /\ UNCHANGED <<store, responses>>
  BY DEF StartTurn
<1>4. ASSUME NEW q \in Questions
      PROVE  /\ StartOf(input'[q]) \in StartStates
             /\ input'[q].conversation_history \in Seq(Messages)
             /\ Resumable(history'[q])
             /\ input'[q] = InitialState(q, history'[q])
  <2>1. CASE q = r
    <3>1. input'[r] = InitialState(r, store[session]) /\ history'[r] = store[session]
      BY <1>3 DEF TypeInv, TypeOK, LocalsAgree
    <3> QED
      BY <2>1, <3>1, <1>2, InputTypes
  <2>2. CASE q # r
    <3>1. input'[q] = input[q] /\ history'[q] = history[q]
      BY <2>2, <1>3 DEF TypeInv, TypeOK, LocalsAgree
    <3> QED
      BY <3>1 DEF TypeInv, TypeOK, AllResumable, LocalsAgree
  <2> QED
    BY <2>1, <2>2
<1>5. TypeOK'
  BY <1>1, <1>2, <1>3, <1>4 DEF TypeInv, TypeOK, StartTurn
<1>6. AllResumable' /\ LocalsAgree'
  BY <1>3, <1>4 DEF TypeInv, AllResumable, LocalsAgree
<1> QED
  BY <1>5, <1>6 DEF TypeInv

LEMMA FinishTypesKept ==
    ASSUME TypeInv, NEW r \in Questions, FinishTurn(r)
    PROVE  TypeInv'
<1> DEFINE session == SessionOf[r]
<1>1. session \in Sessions
  BY SessionAssumption
<1>2. PICK o \in Outcomes(input[r]) :
        /\ store' = [store EXCEPT ![session] = SavedHistory(r, o)]
        /\ responses' = [responses EXCEPT ![session] = Append(@, [request |-> r, outcome |-> o])]
        /\ phase' = [phase EXCEPT ![r] = IF Deliverable(o) THEN "answered" ELSE "failed"]
  BY DEF FinishTurn
<1>3. UNCHANGED <<history, input, overlapped>>
  BY DEF FinishTurn
<1>4. SavedHistory(r, o) \in Histories /\ Resumable(SavedHistory(r, o))
  BY SavedTypes DEF TypeInv
<1>5. [request |-> r, outcome |-> o] \in Responses
  BY OutcomeTypes DEF TypeInv, TypeOK, Responses
<1>6. responses' \in [Sessions -> Seq(Responses)]
  <2>1. responses[session] \in Seq(Responses)
    BY <1>1 DEF TypeInv, TypeOK
  <2>2. Append(responses[session], [request |-> r, outcome |-> o]) \in Seq(Responses)
    BY <2>1, <1>5
  <2> QED
    BY <1>2, <2>2 DEF TypeInv, TypeOK
<1>7. store' \in [Sessions -> Histories] /\ \A s \in Sessions : Resumable(store'[s])
  BY <1>1, <1>2, <1>4 DEF TypeInv, TypeOK, AllResumable
<1>8. phase' \in [Questions -> {"unsent", "running", "answered", "failed"}]
  BY <1>2 DEF TypeInv, TypeOK
<1>9. TypeOK'
  BY <1>3, <1>6, <1>7, <1>8 DEF TypeInv, TypeOK
<1> QED
  BY <1>3, <1>7, <1>9 DEF TypeInv, AllResumable, LocalsAgree

LEMMA FailTypesKept ==
    ASSUME TypeInv, NEW r \in Questions, FailTurn(r)
    PROVE  TypeInv'
BY DEF FailTurn, TypeInv, TypeOK, AllResumable, LocalsAgree

LEMMA RestartTypes == TypeInv /\ Restart => TypeInv'
<1> SUFFICES ASSUME TypeInv, Restart PROVE TypeInv'
  OBVIOUS
<1>1. ASSUME NEW r \in Questions
      PROVE  /\ StartOf(input'[r]) \in StartStates
             /\ input'[r].conversation_history \in Seq(Messages)
  BY BlankTypes, InputTypes DEF Restart
<1>2. TypeOK'
  BY <1>1, BlankTypes DEF Restart, TypeInv, TypeOK
<1>3. AllResumable' /\ LocalsAgree'
  BY BlankTypes DEF Restart, AllResumable, LocalsAgree
<1> QED
  BY <1>2, <1>3 DEF TypeInv

LEMMA TypesKept == TypeInv /\ [Next]_vars => TypeInv'
<1> SUFFICES ASSUME TypeInv, [Next]_vars PROVE TypeInv'
  OBVIOUS
<1>1. CASE UNCHANGED vars
  BY <1>1 DEF vars, TypeInv, TypeOK, AllResumable, LocalsAgree
<1>2. CASE Next
  BY <1>2, StartTypesKept, FinishTypesKept, FailTypesKept, RestartTypes DEF Next
<1> QED
  BY <1>1, <1>2

\* Every variable keeps its type, and every graph run is given a start state
\* that AgentGraph is specified for.
THEOREM ChatTypeCorrect == Spec => []TypeOK
<1>1. Init => TypeInv
  BY InitTypes
<1>2. TypeInv /\ [Next]_vars => TypeInv'
  BY TypesKept
<1>3. TypeInv => TypeOK
  BY DEF TypeInv
<1> QED
  BY <1>1, <1>2, <1>3, PTL DEF Spec

-----------------------------------------------------------------------------
(* Sessions without overlap: what is stored is what was said.               *)

SessionInv == Undisturbed /\ NoLostTurn /\ CountsTrailing /\ RoundsBounded

\* The phase of one request changes: who is in flight elsewhere does not.
LEMMA InFlightElsewhere ==
    ASSUME NEW r \in Questions, NEW value, phase' = [phase EXCEPT ![r] = value],
           phase \in [Questions -> {"unsent", "running", "answered", "failed"}],
           NEW s
    PROVE  /\ s # SessionOf[r] => InFlight(s)' = InFlight(s)
           /\ value # "running" => InFlight(s)' = InFlight(s) \ {r}
           /\ value = "running" /\ s = SessionOf[r] => InFlight(s)' = InFlight(s) \cup {r}
<1>1. \A q \in Questions : phase'[q] = IF q = r THEN value ELSE phase[q]
  OBVIOUS
<1> QED
  BY <1>1 DEF InFlight

LEMMA StartSession ==
    ASSUME TypeInv, SessionInv, NEW r \in Questions, StartTurn(r)
    PROVE  SessionInv'
<1> DEFINE session == SessionOf[r]
<1>1. /\ phase' = [phase EXCEPT ![r] = "running"]
      /\ history' = [history EXCEPT ![r] = store[session]]
      /\ overlapped' = IF InFlight(session) = {} THEN overlapped ELSE overlapped \cup {session}
      /\ UNCHANGED <<store, responses>>
  BY DEF StartTurn
<1>2. /\ phase \in [Questions -> {"unsent", "running", "answered", "failed"}]
      /\ history \in [Questions -> Histories]
  BY DEF TypeInv, TypeOK
<1>3. Disciplined' \subseteq Disciplined
  BY <1>1 DEF Disciplined
<1>4. ASSUME NEW q \in Questions, phase'[q] = "running", SessionOf[q] \in Disciplined'
      PROVE  history'[q] = store'[SessionOf[q]] /\ InFlight(SessionOf[q])' = {q}
  <2>1. CASE q = r
    <3>1. InFlight(session) = {}
      BY <2>1, <1>1, <1>4, SessionAssumption DEF Disciplined
    <3>2. InFlight(session)' = {r}
      BY <3>1, <1>1, <1>2, InFlightElsewhere
    <3> QED
      BY <2>1, <3>2, <1>1, <1>2
  <2>2. CASE q # r
    <3>1. phase[q] = "running" /\ history'[q] = history[q]
      BY <2>2, <1>1, <1>2, <1>4
    <3>2. history[q] = store[SessionOf[q]] /\ InFlight(SessionOf[q]) = {q}
      BY <3>1, <1>3, <1>4 DEF SessionInv, Undisturbed
    <3>3. SessionOf[q] # session
      BY <3>2, <1>1, <1>4, SessionAssumption DEF Disciplined
    <3>4. InFlight(SessionOf[q])' = {q}
      BY <3>2, <3>3, <1>1, <1>2, InFlightElsewhere
    <3> QED
      BY <3>1, <3>2, <3>4, <1>1
  <2> QED
    BY <2>1, <2>2
<1>5. Undisturbed'
  BY <1>4 DEF Undisturbed
<1>6. NoLostTurn' /\ CountsTrailing' /\ RoundsBounded'
  BY <1>1, <1>3 DEF SessionInv, NoLostTurn, CountsTrailing, RoundsBounded
<1> QED
  BY <1>5, <1>6 DEF SessionInv

\* One more response, which asks back only if the count of the trailing
\* clarifications leaves room for one: no run of them gets too long.
LEMMA RoundsGrow ==
    ASSUME NEW sent \in Seq(Responses), NEW e \in Responses, NEW count \in Nat,
           count < Len(sent) => ~Asks(sent[Len(sent) - count]),
           Asks(e) => count < MaxClarificationRounds,
           \A i \in 1 .. Len(sent) - MaxClarificationRounds :
                \E j \in i .. i + MaxClarificationRounds : ~Asks(sent[j])
    PROVE  LET more == Append(sent, e) IN
           \A i \in 1 .. Len(more) - MaxClarificationRounds :
                \E j \in i .. i + MaxClarificationRounds : ~Asks(more[j])
<1> DEFINE more == Append(sent, e)
           Max == MaxClarificationRounds
<1>1. /\ Max \in Nat /\ Len(sent) \in Nat /\ Len(more) = Len(sent) + 1
      /\ \A j \in 1 .. Len(sent) : more[j] = sent[j]
      /\ more[Len(sent) + 1] = e
  BY RoundsAssumption
<1> HIDE DEF more
<1>2. ASSUME NEW i \in 1 .. Len(more) - Max
      PROVE  \E j \in i .. i + Max : ~Asks(more[j])
  <2>1. CASE i \in 1 .. Len(sent) - Max
    <3>1. PICK j \in i .. i + Max : ~Asks(sent[j])
      BY <2>1
    <3>2. j \in 1 .. Len(sent)
      BY <2>1, <1>1
    <3> QED
      BY <3>1, <3>2, <1>1
  <2>2. CASE i = Len(sent) + 1 - Max
    <3>1. CASE ~Asks(e)
      <4>1. Len(sent) + 1 \in i .. i + Max /\ more[Len(sent) + 1] = e
        BY <2>2, <1>1
      <4> QED
        BY <3>1, <4>1
    <3>2. CASE Asks(e)
      <4>1. Len(sent) - count \in i .. i + Max /\ Len(sent) - count \in 1 .. Len(sent)
        BY <3>2, <2>2, <1>1
      <4>2. ~Asks(sent[Len(sent) - count]) /\ more[Len(sent) - count] = sent[Len(sent) - count]
        BY <4>1, <1>1
      <4> QED
        BY <4>1, <4>2
    <3> QED
      BY <3>1, <3>2
  <2> QED
    BY <2>1, <2>2, <1>1
<1> QED
  BY <1>2 DEF more

LEMMA FinishSession ==
    ASSUME TypeInv, SessionInv, NEW r \in Questions, FinishTurn(r)
    PROVE  SessionInv'
<1> DEFINE session == SessionOf[r]
<1>1. session \in Sessions
  BY SessionAssumption
<1>2. PICK o \in Outcomes(input[r]) :
        /\ store' = [store EXCEPT ![session] = SavedHistory(r, o)]
        /\ responses' = [responses EXCEPT ![session] = Append(@, [request |-> r, outcome |-> o])]
        /\ phase' = [phase EXCEPT ![r] = IF Deliverable(o) THEN "answered" ELSE "failed"]
  BY DEF FinishTurn
<1>3. phase[r] = "running" /\ UNCHANGED <<history, input, overlapped>> /\ Disciplined' = Disciplined
  BY DEF FinishTurn, Disciplined
<1>4. /\ phase \in [Questions -> {"unsent", "running", "answered", "failed"}]
      /\ store \in [Sessions -> Histories] /\ responses \in [Sessions -> Seq(Responses)]
      /\ StartOf(input[r]) \in StartStates
  BY DEF TypeInv, TypeOK
<1>5. \A s \in Sessions : s # session => store'[s] = store[s] /\ responses'[s] = responses[s]
  BY <1>2, <1>4
<1>6. /\ store'[session] = SavedHistory(r, o)
      /\ responses'[session] = Append(responses[session], [request |-> r, outcome |-> o])
  BY <1>1, <1>2, <1>4
<1>7. ASSUME NEW q \in Questions, phase'[q] = "running", SessionOf[q] \in Disciplined
      PROVE  history'[q] = store'[SessionOf[q]] /\ InFlight(SessionOf[q])' = {q}
  <2>1. q # r /\ phase[q] = "running"
    BY <1>2, <1>4, <1>7
  <2>2. history[q] = store[SessionOf[q]] /\ InFlight(SessionOf[q]) = {q}
    BY <2>1, <1>7 DEF SessionInv, Undisturbed
  <2>3. SessionOf[q] # session /\ SessionOf[q] \in Sessions
    BY <2>1, <2>2, <1>3, SessionAssumption DEF InFlight
  <2>4. InFlight(SessionOf[q])' = {q}
    BY <2>2, <2>3, <1>2, <1>4, InFlightElsewhere
  <2> QED
    BY <2>2, <2>3, <2>4, <1>3, <1>5
<1>8. Undisturbed'
  BY <1>3, <1>7 DEF Undisturbed
<1>9. CASE session \notin Disciplined
  BY <1>3, <1>5, <1>8, <1>9 DEF SessionInv, NoLostTurn, CountsTrailing, RoundsBounded, Disciplined
<1>10. CASE session \in Disciplined
  <2> DEFINE sent == responses[session]
             response == [request |-> r, outcome |-> o]
             count == CarriedCount(store[session])
  <2>1. history[r] = store[session] /\ input[r].ambiguity_count = count
    <3>1. history[r] = store[session]
      BY <1>3, <1>10 DEF SessionInv, Undisturbed
    <3>2. input[r] = InitialState(r, history[r])
      BY DEF TypeInv, LocalsAgree
    <3> QED
      BY <3>1, <3>2 DEF InitialState
  <2>2. /\ sent \in Seq(Responses) /\ store[session].turns \in Seq(Messages)
        /\ count \in Nat /\ count <= MaxClarificationRounds
    BY <1>1, <1>4, RoundsAssumption DEF Histories, CarriedCount
  <2>3. /\ o \in TurnResults
        /\ o.status = "asking_clarification" =>
              o.ambiguity_count = count + 1 /\ o.ambiguity_count \in 1 .. MaxClarificationRounds
    BY <1>4, <2>1, OutcomeTypes
  <2>4. IsTranscript(store'[session].turns, responses'[session])
    <3>1. store'[session].turns = store[session].turns \o Exchange(r)
      BY <1>6, <2>1 DEF SavedHistory, NewTurns
    <3>2. IsTranscript(store[session].turns, sent)
      BY <1>10 DEF SessionInv, NoLostTurn
    <3> QED
      BY <3>1, <3>2, <1>6, <2>2, <2>3, TranscriptGrows
  <2>5. Asks(response) <=> o.status = "asking_clarification"
    BY DEF Asks
  <2>6. /\ count < Len(sent) => ~Asks(sent[Len(sent) - count])
        /\ \A i \in 1 .. Len(sent) - MaxClarificationRounds :
              \E j \in i .. i + MaxClarificationRounds : ~Asks(sent[j])
    BY <1>10 DEF SessionInv, CountsTrailing, RoundsBounded
  <2>7. response \in Responses
    BY <2>3 DEF Responses
  <2>8. CarriedCount(store'[session]) = IF Asks(response) THEN count + 1 ELSE 0
    BY <1>6, <2>3, <2>5 DEF SavedHistory, CarriedCount, IsContinuation
  <2>9. LET more == responses'[session]
            now == CarriedCount(store'[session])
        IN  now < Len(more) => ~Asks(more[Len(more) - now])
    <3>1. /\ Len(Append(sent, response)) = Len(sent) + 1 /\ Len(sent) \in Nat
          /\ \A j \in 1 .. Len(sent) : Append(sent, response)[j] = sent[j]
          /\ Append(sent, response)[Len(sent) + 1] = response
      BY <2>2, <2>7
    <3> HIDE DEF sent, response, count
    <3>2. CASE Asks(response)
      <4>1. CarriedCount(store'[session]) = count + 1
        BY <3>2, <2>8
      <4>2. count < Len(sent) => Append(sent, response)[Len(sent) - count] = sent[Len(sent) - count]
        BY <3>1, <2>2
      <4> QED
        BY <4>1, <4>2, <3>1, <2>2, <2>6, <1>6, SMTT(30) DEF sent, response
    <3>3. CASE ~Asks(response)
      BY <3>1, <3>3, <2>8, <1>6 DEF sent, response
    <3> QED
      BY <3>2, <3>3
  <2>10. \A i \in 1 .. Len(responses'[session]) - MaxClarificationRounds :
            \E j \in i .. i + MaxClarificationRounds : ~Asks(responses'[session][j])
    <3>1. Asks(response) => count < MaxClarificationRounds
      BY <2>2, <2>3, <2>5, RoundsAssumption
    <3> HIDE DEF sent, response, count
    <3>2. \A i \in 1 .. Len(Append(sent, response)) - MaxClarificationRounds :
              \E j \in i .. i + MaxClarificationRounds : ~Asks(Append(sent, response)[j])
      BY <2>2, <2>6, <2>7, <3>1, RoundsGrow
    <3> QED
      BY <3>2, <1>6 DEF sent, response
  <2>11. NoLostTurn'
    BY <1>3, <1>5, <2>4 DEF SessionInv, NoLostTurn, Disciplined
  <2>12. CountsTrailing'
    BY <1>3, <1>5, <2>9 DEF SessionInv, CountsTrailing, Disciplined
  <2>13. RoundsBounded'
    BY <1>3, <1>5, <2>10 DEF SessionInv, RoundsBounded, Disciplined
  <2> QED
    BY <1>8, <2>11, <2>12, <2>13 DEF SessionInv
<1> QED
  BY <1>9, <1>10

LEMMA FailSession ==
    ASSUME TypeInv, SessionInv, NEW r \in Questions, FailTurn(r)
    PROVE  SessionInv'
<1>1. /\ phase' = [phase EXCEPT ![r] = "failed"]
      /\ UNCHANGED <<store, history, input, responses, overlapped>>
      /\ Disciplined' = Disciplined
  BY DEF FailTurn, Disciplined
<1>2. phase \in [Questions -> {"unsent", "running", "answered", "failed"}]
  BY DEF TypeInv, TypeOK
<1>3. ASSUME NEW q \in Questions, phase'[q] = "running", SessionOf[q] \in Disciplined
      PROVE  history[q] = store[SessionOf[q]] /\ InFlight(SessionOf[q])' = {q}
  <2>1. q # r /\ phase[q] = "running"
    BY <1>1, <1>2, <1>3
  <2>2. history[q] = store[SessionOf[q]] /\ InFlight(SessionOf[q]) = {q}
    BY <2>1, <1>3 DEF SessionInv, Undisturbed
  <2>3. InFlight(SessionOf[q])' = InFlight(SessionOf[q]) \ {r}
    BY <1>1, <1>2 DEF InFlight
  <2> QED
    BY <2>1, <2>2, <2>3
<1>4. Undisturbed'
  BY <1>1, <1>3 DEF Undisturbed
<1> QED
  BY <1>1, <1>4 DEF SessionInv, NoLostTurn, CountsTrailing, RoundsBounded

LEMMA InitSession == Init => SessionInv
<1> SUFFICES ASSUME Init PROVE SessionInv
  OBVIOUS
<1>1. \A s \in Sessions : store[s].turns = <<>> /\ responses[s] = <<>>
  BY DEF Init, BlankHistory
<1>2. NoLostTurn
  BY <1>1 DEF NoLostTurn, IsTranscript, Disciplined
<1>3. CountsTrailing /\ RoundsBounded
  <2>1. CarriedCount(BlankHistory) = 0
    BY DEF CarriedCount, BlankHistory, IsContinuation
  <2> QED
    BY <1>1, <2>1, RoundsAssumption DEF Init, CountsTrailing, RoundsBounded, Disciplined
<1>4. Undisturbed
  BY DEF Init, Undisturbed
<1> QED
  BY <1>2, <1>3, <1>4 DEF SessionInv

LEMMA RestartSession == TypeInv /\ Restart => SessionInv'
<1> SUFFICES ASSUME TypeInv, Restart PROVE SessionInv'
  OBVIOUS
<1>1. \A s \in Sessions : store'[s] = BlankHistory /\ responses'[s] = <<>>
  BY DEF Restart
<1>2. NoLostTurn'
  BY <1>1 DEF NoLostTurn, IsTranscript, Disciplined, BlankHistory
<1>3. CountsTrailing' /\ RoundsBounded'
  <2>1. CarriedCount(BlankHistory) = 0
    BY DEF CarriedCount, BlankHistory, IsContinuation
  <2> QED
    BY <1>1, <2>1, RoundsAssumption DEF CountsTrailing, RoundsBounded, Disciplined
<1>4. \A r \in Questions : phase'[r] # "running"
  BY DEF Restart
<1> QED
  BY <1>2, <1>3, <1>4 DEF SessionInv, Undisturbed

LEMMA SessionKept == TypeInv /\ SessionInv /\ [Next]_vars => SessionInv'
<1> SUFFICES ASSUME TypeInv, SessionInv, [Next]_vars PROVE SessionInv'
  OBVIOUS
<1>1. CASE UNCHANGED vars
  BY <1>1 DEF vars, SessionInv, Undisturbed, NoLostTurn, CountsTrailing, RoundsBounded,
              Disciplined, InFlight
<1>2. CASE Next
  BY <1>2, StartSession, FinishSession, FailSession, RestartSession DEF Next
<1> QED
  BY <1>1, <1>2

LEMMA SessionInvariant == Spec => [](TypeInv /\ SessionInv)
<1>1. Init => TypeInv /\ SessionInv
  BY InitTypes, InitSession
<1>2. TypeInv /\ SessionInv /\ [Next]_vars => (TypeInv /\ SessionInv)'
  BY TypesKept, SessionKept
<1> QED
  BY <1>1, <1>2, PTL DEF Spec

\* The store of a session whose requests never overlapped is the transcript of
\* its responses.
THEOREM TurnsKept == Spec => []NoLostTurn
<1>1. TypeInv /\ SessionInv => NoLostTurn
  BY DEF SessionInv
<1> QED
  BY <1>1, SessionInvariant, PTL

\* The agent never asks back more than MAX_CLARIFICATION_ROUNDS times in a row.
THEOREM RoundsCorrect == Spec => []RoundsBounded
<1>1. TypeInv /\ SessionInv => RoundsBounded
  BY DEF SessionInv
<1> QED
  BY <1>1, SessionInvariant, PTL

\* A run sees the last exchanges of its session, whole and in order.
THEOREM ContextCorrect == Spec => []RecentContext
<1>1. TypeInv /\ SessionInv => RecentContext
  <2> SUFFICES ASSUME TypeInv, SessionInv,
                      NEW r \in Questions, phase[r] = "running",
                      SessionOf[r] \in Disciplined, Window > 0
               PROVE  LET sent == responses[SessionOf[r]]
                          recent == SubSeq(sent, 1 + (IF Window < Len(sent) THEN Len(sent) - Window ELSE 0), Len(sent))
                      IN  IsTranscript(input[r].conversation_history, recent)
    BY DEF RecentContext
  <2> DEFINE sent == responses[SessionOf[r]]
             turns == store[SessionOf[r]].turns
             n == IF Window < Len(sent) THEN Len(sent) - Window ELSE 0
  <2>1. SessionOf[r] \in Sessions /\ sent \in Seq(Responses) /\ turns \in Seq(Messages)
    BY SessionAssumption DEF TypeInv, TypeOK, Histories
  <2>2. IsTranscript(turns, sent)
    BY DEF SessionInv, NoLostTurn
  <2>3. input[r].conversation_history = RecentTurns(turns)
    <3>1. input[r] = InitialState(r, history[r])
      BY DEF TypeInv, LocalsAgree
    <3>2. history[r] = store[SessionOf[r]]
      BY DEF SessionInv, Undisturbed
    <3> QED
      BY <3>1, <3>2 DEF InitialState
  <2> HIDE DEF sent, turns
  <2>4. Len(turns) = 2 * Len(sent) /\ Len(sent) \in Nat
    BY <2>1, <2>2 DEF IsTranscript
  <2>5. /\ n \in Nat /\ n <= Len(sent)
        /\ 2 * n = IF 0 < Window /\ 2 * Window < Len(turns) THEN Len(turns) - 2 * Window ELSE 0
    BY <2>4, WindowAssumption
  <2> HIDE DEF n
  <2>6. RecentTurns(turns) = SubSeq(turns, 1 + 2 * n, Len(turns))
    BY <2>5 DEF RecentTurns
  <2>7. IsTranscript(SubSeq(turns, 1 + 2 * n, Len(turns)), SubSeq(sent, 1 + n, Len(sent)))
    BY <2>1, <2>2, <2>5, TranscriptCut
  <2> QED
    BY <2>3, <2>6, <2>7 DEF n, sent
<1> QED
  BY <1>1, SessionInvariant, PTL

-----------------------------------------------------------------------------
(* Sessions with any overlap: a request continues one response, whole.      *)

SourceInv == RespondedOnce /\ OneSource

\* Responses answer requests.
LEMMA RequestTypes ==
    ASSUME TypeOK, NEW s \in Sessions, NEW i \in DOMAIN responses[s]
    PROVE  responses[s][i].request \in Questions
<1>1. responses[s] \in Seq(Responses)
  BY DEF TypeOK
<1>2. responses[s][i] \in Responses
  BY <1>1
<1> QED
  BY <1>2 DEF Responses

\* A new response leaves the others where they are.
LEMMA ResponsesStay ==
    ASSUME TypeOK, NEW s \in Sessions, NEW t \in Sessions, NEW e,
           responses' = [responses EXCEPT ![t] = Append(@, e)]
    PROVE  \A i \in DOMAIN responses[s] :
                i \in DOMAIN responses'[s] /\ responses'[s][i] = responses[s][i]
<1>1. responses[s] \in Seq(Responses) /\ responses \in [Sessions -> Seq(Responses)]
  BY DEF TypeOK
<1>2. responses'[s] = IF s = t THEN Append(responses[s], e) ELSE responses[s]
  BY <1>1
<1> QED
  BY <1>1, <1>2

LEMMA FinishSource ==
    ASSUME TypeInv, SourceInv, NEW r \in Questions, FinishTurn(r)
    PROVE  SourceInv'
<1> DEFINE session == SessionOf[r]
           sent == responses[session]
<1>1. session \in Sessions
  BY SessionAssumption
<1>2. PICK o \in Outcomes(input[r]) :
        /\ store' = [store EXCEPT ![session] = SavedHistory(r, o)]
        /\ responses' = [responses EXCEPT ![session] = Append(@, [request |-> r, outcome |-> o])]
        /\ phase' = [phase EXCEPT ![r] = IF Deliverable(o) THEN "answered" ELSE "failed"]
  BY DEF FinishTurn
<1> DEFINE response == [request |-> r, outcome |-> o]
<1>3. phase[r] = "running" /\ UNCHANGED <<history, input, overlapped>>
  BY DEF FinishTurn
<1>4. /\ phase \in [Questions -> {"unsent", "running", "answered", "failed"}]
      /\ store \in [Sessions -> Histories] /\ responses \in [Sessions -> Seq(Responses)]
      /\ history[r].turns \in Seq(Messages) /\ TypeOK
  BY DEF TypeInv, TypeOK, Histories
<1>5. \A s \in Sessions : s # session => store'[s] = store[s] /\ responses'[s] = responses[s]
  BY <1>2, <1>4
<1>6. /\ store'[session] = SavedHistory(r, o) /\ responses'[session] = Append(sent, response)
  BY <1>1, <1>2, <1>4
<1>7. /\ sent \in Seq(Responses)
      /\ Len(Append(sent, response)) = Len(sent) + 1
      /\ DOMAIN Append(sent, response) = 1 .. Len(sent) + 1
      /\ DOMAIN sent = 1 .. Len(sent) /\ Len(sent) \in Nat
      /\ \A i \in 1 .. Len(sent) : Append(sent, response)[i] = sent[i]
      /\ Append(sent, response)[Len(sent) + 1] = response
  BY <1>1, <1>4
<1>8. \A i \in DOMAIN sent :
        /\ phase[sent[i].request] \in {"answered", "failed"} /\ sent[i].request # r
        /\ \A j \in DOMAIN sent : sent[j].request = sent[i].request => j = i
  BY <1>1, <1>3 DEF SourceInv, RespondedOnce
<1>9. \A q \in Questions : phase[q] \in {"answered", "failed"} => phase'[q] \in {"answered", "failed"}
  BY <1>2, <1>3, <1>4
<1>10. phase'[r] \in {"answered", "failed"}
  BY <1>2, <1>4
<1>11. ASSUME NEW s \in Sessions, NEW i \in DOMAIN responses'[s]
       PROVE  /\ phase'[responses'[s][i].request] \in {"answered", "failed"}
              /\ \A j \in DOMAIN responses'[s] :
                    responses'[s][j].request = responses'[s][i].request => j = i
  <2>1. CASE s # session
    <3>1. responses'[s] = responses[s]
      BY <2>1, <1>5
    <3>2. responses[s][i].request \in Questions
      BY <3>1, <1>4, <1>11, RequestTypes
    <3> QED
      BY <3>1, <3>2, <1>9, <1>11 DEF SourceInv, RespondedOnce
  <2>2. CASE s = session
    <3>1. \A j \in 1 .. Len(sent) : sent[j].request \in Questions
      BY <1>1, <1>4, <1>7, RequestTypes
    <3>2. response.request = r
      OBVIOUS
    <3> HIDE DEF sent, response
    <3>3. /\ i \in 1 .. Len(sent) + 1 /\ responses'[s] = Append(sent, response)
          /\ DOMAIN responses'[s] = 1 .. Len(sent) + 1
      BY <2>2, <1>6, <1>7, <1>11
    <3>4. CASE i = Len(sent) + 1
      BY <3>2, <3>3, <3>4, <1>7, <1>8, <1>10
    <3>5. CASE i \in 1 .. Len(sent)
      BY <3>1, <3>2, <3>3, <3>5, <1>7, <1>8, <1>9
    <3> QED
      BY <3>3, <3>4, <3>5, <1>7
  <2> QED
    BY <2>1, <2>2
<1>12. RespondedOnce'
  BY <1>11 DEF RespondedOnce
<1>13. FromOneResponse(SavedHistory(r, o), session)'
  <2>1. SavedHistory(r, o)' = SavedHistory(r, o)
    BY <1>3 DEF SavedHistory, NewTurns
  <2>2. LET turns == SavedHistory(r, o).turns IN turns[Len(turns)].of = r
    <3>1. SavedHistory(r, o).turns = history[r].turns \o Exchange(r)
      BY DEF SavedHistory, NewTurns
    <3>2. LET turns == history[r].turns \o Exchange(r) IN turns[Len(turns)] = Turn("assistant", r)
      BY <1>4, ExchangeAppended
    <3> QED
      BY <3>1, <3>2 DEF Turn
  <2>3. Len(sent) + 1 \in DOMAIN responses'[session] /\ responses'[session][Len(sent) + 1] = response
    BY <1>6, <1>7
  <2> QED
    BY <2>1, <2>2, <2>3, SMTT(30) DEF FromOneResponse, SavedHistory
<1>14. ASSUME NEW s \in Sessions PROVE FromOneResponse(store[s], s)'
  <2>1. CASE s = session
    <3>1. store'[s] = SavedHistory(r, o)' /\ s' = session
      BY <2>1, <1>3, <1>6 DEF SavedHistory, NewTurns
    <3> QED
      BY <3>1, <1>13 DEF FromOneResponse
  <2>2. CASE s # session
    BY <2>2, <1>5, SMTT(30) DEF SourceInv, OneSource, FromOneResponse
  <2> QED
    BY <2>1, <2>2
<1>15. ASSUME NEW q \in Questions PROVE FromOneResponse(history[q], SessionOf[q])'
  <2>1. FromOneResponse(history[q], SessionOf[q]) /\ SessionOf[q] \in Sessions
    BY SessionAssumption DEF SourceInv, OneSource
  <2>2. history'[q] = history[q]
    BY <1>3
  <2>3. \A i \in DOMAIN responses[SessionOf[q]] :
            /\ i \in DOMAIN responses'[SessionOf[q]]
            /\ responses'[SessionOf[q]][i] = responses[SessionOf[q]][i]
    BY <2>1, <1>1, <1>2, <1>4, ResponsesStay
  <2> QED
    BY <2>1, <2>2, <2>3 DEF FromOneResponse
<1> QED
  BY <1>12, <1>14, <1>15 DEF SourceInv, OneSource

LEMMA StartSource ==
    ASSUME TypeInv, SourceInv, NEW r \in Questions, StartTurn(r)
    PROVE  SourceInv'
<1>1. /\ phase' = [phase EXCEPT ![r] = "running"] /\ phase[r] = "unsent"
      /\ history' = [history EXCEPT ![r] = store[SessionOf[r]]]
      /\ UNCHANGED <<store, responses>>
  BY DEF StartTurn
<1>2. /\ phase \in [Questions -> {"unsent", "running", "answered", "failed"}]
      /\ history \in [Questions -> Histories]
  BY DEF TypeInv, TypeOK
<1>3. \A q \in Questions : phase[q] \in {"answered", "failed"} => phase'[q] = phase[q]
  BY <1>1, <1>2
<1>4. \A s \in Sessions : \A i \in DOMAIN responses[s] : responses[s][i].request \in Questions
  BY RequestTypes DEF TypeInv
<1>5. RespondedOnce'
  BY <1>1, <1>3, <1>4 DEF SourceInv, RespondedOnce
<1>6. \A q \in Questions : history'[q] = IF q = r THEN store[SessionOf[r]] ELSE history[q]
  BY <1>1, <1>2
<1>7. OneSource'
  BY <1>1, <1>6, SessionAssumption DEF SourceInv, OneSource, FromOneResponse
<1> QED
  BY <1>5, <1>7 DEF SourceInv

LEMMA FailSource ==
    ASSUME TypeInv, SourceInv, NEW r \in Questions, FailTurn(r)
    PROVE  SourceInv'
<1>1. /\ phase' = [phase EXCEPT ![r] = "failed"] /\ phase[r] = "running"
      /\ UNCHANGED <<store, history, responses>>
  BY DEF FailTurn
<1>2. phase \in [Questions -> {"unsent", "running", "answered", "failed"}]
  BY DEF TypeInv, TypeOK
<1>3. \A q \in Questions : phase[q] \in {"answered", "failed"} => phase'[q] = phase[q]
  BY <1>1, <1>2
<1>4. \A s \in Sessions : \A i \in DOMAIN responses[s] : responses[s][i].request \in Questions
  BY RequestTypes DEF TypeInv
<1>5. RespondedOnce'
  BY <1>1, <1>3, <1>4 DEF SourceInv, RespondedOnce
<1>6. OneSource'
  BY <1>1 DEF SourceInv, OneSource, FromOneResponse
<1> QED
  BY <1>5, <1>6 DEF SourceInv

LEMMA RestartSource == Restart => SourceInv'
BY SessionAssumption DEF Restart, SourceInv, RespondedOnce, OneSource, FromOneResponse, BlankHistory

LEMMA SourceInvariant == Spec => [](TypeInv /\ SourceInv)
<1>1. Init => TypeInv /\ SourceInv
  <2>1. Init => RespondedOnce /\ OneSource
    BY SessionAssumption DEF Init, RespondedOnce, OneSource, FromOneResponse, BlankHistory
  <2> QED
    BY <2>1, InitTypes DEF SourceInv
<1>2. TypeInv /\ SourceInv /\ [Next]_vars => (TypeInv /\ SourceInv)'
  <2> SUFFICES ASSUME TypeInv, SourceInv, [Next]_vars PROVE SourceInv'
    BY TypesKept
  <2>1. CASE UNCHANGED vars
    BY <2>1 DEF vars, SourceInv, RespondedOnce, OneSource, FromOneResponse
  <2>2. CASE Next
    BY <2>2, StartSource, FinishSource, FailSource, RestartSource DEF Next
  <2> QED
    BY <2>1, <2>2
<1> QED
  BY <1>1, <1>2, PTL DEF Spec

\* However requests overlap, a run continues exactly one response of its
\* session, or starts afresh: never with fields of two of them.
THEOREM OneResponse == Spec => []ContinuesOneResponse
<1>1. TypeInv /\ SourceInv => ContinuesOneResponse
  <2> SUFFICES ASSUME TypeInv, SourceInv, NEW r \in Questions,
                      phase[r] = "running", history[r].turns # <<>>
               PROVE  LET last == history[r].turns[Len(history[r].turns)].of
                          sent == responses[SessionOf[r]]
                          from == CHOOSE i \in DOMAIN sent : sent[i].request = last
                          past == sent[from].outcome
                      IN  IF past.status = "asking_clarification"
                          THEN /\ input[r].accumulated_intent = past.accumulated_intent
                               /\ input[r].last_clarification = past.last_clarification
                               /\ input[r].ambiguity_count = past.ambiguity_count
                          ELSE /\ input[r].accumulated_intent = None
                               /\ input[r].last_clarification = None
                               /\ input[r].ambiguity_count = 0
    BY DEF ContinuesOneResponse
  <2> DEFINE h == history[r]
             last == h.turns[Len(h.turns)].of
             sent == responses[SessionOf[r]]
             from == CHOOSE i \in DOMAIN sent : sent[i].request = last
  <2>1. PICK i \in DOMAIN sent :
            /\ last = sent[i].request
            /\ h.last_status = sent[i].outcome.status
            /\ h.accumulated_intent = sent[i].outcome.accumulated_intent
            /\ h.last_clarification_question = sent[i].outcome.last_clarification
            /\ h.ambiguity_count = sent[i].outcome.ambiguity_count
    BY DEF SourceInv, OneSource, FromOneResponse
  <2>2. from \in DOMAIN sent /\ sent[from].request = last
    BY <2>1
  <2>3. from = i
    <3>1. \A j, k \in DOMAIN sent : sent[j].request = sent[k].request => j = k
      BY SessionAssumption DEF SourceInv, RespondedOnce
    <3> HIDE DEF sent, last, from
    <3> QED
      BY <2>1, <2>2, <3>1
  <2>4. input[r] = InitialState(r, h)
    BY DEF TypeInv, LocalsAgree
  <2>5. /\ input[r].accumulated_intent = CarriedIntent(h)
        /\ input[r].last_clarification = CarriedClarification(h)
        /\ input[r].ambiguity_count = CarriedCount(h)
    BY <2>4 DEF InitialState
  <2> HIDE DEF h, last, sent, from
  <2>6. IF sent[from].outcome.status = "asking_clarification"
        THEN /\ input[r].accumulated_intent = sent[from].outcome.accumulated_intent
             /\ input[r].last_clarification = sent[from].outcome.last_clarification
             /\ input[r].ambiguity_count = sent[from].outcome.ambiguity_count
        ELSE /\ input[r].accumulated_intent = None
             /\ input[r].last_clarification = None
             /\ input[r].ambiguity_count = 0
    BY <2>1, <2>3, <2>5 DEF IsContinuation, CarriedIntent, CarriedClarification, CarriedCount
  <2> QED
    BY <2>6 DEF h, last, sent, from
<1> QED
  BY <1>1, SourceInvariant, PTL

-----------------------------------------------------------------------------
(* Sessions with any overlap: what is stored is an extract of what was sent. *)

\* More responses leave an extract one.
LEMMA ExtractStays ==
    ASSUME NEW turns \in Seq(Messages), NEW sent \in Seq(Responses), NEW more \in Seq(Responses),
           \A i \in DOMAIN sent : i \in DOMAIN more /\ more[i] = sent[i],
           IsExtract(turns, sent)
    PROVE  IsExtract(turns, more)
<1>1. PICK n \in 0 .. Len(turns) :
        /\ Len(turns) = 2 * n
        /\ \A k \in 1 .. n :
            /\ turns[2 * k - 1] = Turn("user", turns[2 * k].of)
            /\ turns[2 * k].role = "assistant"
            /\ \E i \in DOMAIN sent : sent[i].request = turns[2 * k].of
        /\ \A k \in 2 .. n : \E i, j \in DOMAIN sent :
            /\ i < j
            /\ sent[i].request = turns[2 * k - 2].of /\ sent[j].request = turns[2 * k].of
  BY DEF IsExtract
<1>2. ASSUME NEW k \in 1 .. n PROVE \E i \in DOMAIN more : more[i].request = turns[2 * k].of
  <2>1. PICK i \in DOMAIN sent : sent[i].request = turns[2 * k].of
    BY <1>1
  <2>2. i \in DOMAIN more /\ more[i] = sent[i]
    OBVIOUS
  <2> QED
    BY <2>1, <2>2
<1>3. ASSUME NEW k \in 2 .. n
      PROVE  \E i, j \in DOMAIN more :
                /\ i < j
                /\ more[i].request = turns[2 * k - 2].of /\ more[j].request = turns[2 * k].of
  <2>1. PICK i \in DOMAIN sent, j \in DOMAIN sent :
            /\ i < j
            /\ sent[i].request = turns[2 * k - 2].of /\ sent[j].request = turns[2 * k].of
    BY <1>1
  <2>2. i \in DOMAIN more /\ j \in DOMAIN more /\ more[i] = sent[i] /\ more[j] = sent[j]
    OBVIOUS
  <2> QED
    BY <2>1, <2>2
<1> QED
  BY <1>1, <1>2, <1>3 DEF IsExtract

\* An extract stays one when a response and its exchange are added.
LEMMA ExtractGrows ==
    ASSUME NEW turns \in Seq(Messages), NEW sent \in Seq(Responses),
           NEW r \in Questions, NEW o \in TurnResults, IsExtract(turns, sent)
    PROVE  LET longer == turns \o Exchange(r)
               more == Append(sent, [request |-> r, outcome |-> o])
           IN  /\ IsExtract(longer, more)
               /\ longer # <<>> /\ more # <<>>
               /\ longer[Len(longer)].of = more[Len(more)].request
<1> DEFINE longer == turns \o Exchange(r)
           more == Append(sent, [request |-> r, outcome |-> o])
<1>1. /\ longer \in Seq(Messages)
      /\ Len(longer) = Len(turns) + 2
      /\ \A i \in 1 .. Len(turns) : longer[i] = turns[i]
      /\ longer[Len(turns) + 1] = Turn("user", r)
      /\ longer[Len(turns) + 2] = Turn("assistant", r)
  BY ExchangeAppended
<1>2. /\ Len(more) = Len(sent) + 1 /\ DOMAIN more = 1 .. Len(sent) + 1
      /\ \A i \in 1 .. Len(sent) : more[i] = sent[i]
      /\ more[Len(sent) + 1].request = r
      /\ DOMAIN sent = 1 .. Len(sent) /\ Len(sent) \in Nat /\ Len(turns) \in Nat
  OBVIOUS
<1>3. PICK n \in 0 .. Len(turns) :
        /\ Len(turns) = 2 * n
        /\ \A k \in 1 .. n :
            /\ turns[2 * k - 1] = Turn("user", turns[2 * k].of)
            /\ turns[2 * k].role = "assistant"
            /\ \E i \in DOMAIN sent : sent[i].request = turns[2 * k].of
        /\ \A k \in 2 .. n : \E i, j \in DOMAIN sent :
            /\ i < j
            /\ sent[i].request = turns[2 * k - 2].of /\ sent[j].request = turns[2 * k].of
  BY DEF IsExtract
<1>4. Turn("user", r).of = r /\ Turn("assistant", r).of = r /\ Turn("assistant", r).role = "assistant"
  BY DEF Turn
<1> HIDE DEF longer, more
<1>5. n \in Nat /\ n + 1 \in 0 .. Len(longer) /\ Len(longer) = 2 * (n + 1)
  BY <1>1, <1>2, <1>3
<1>6. longer[2 * (n + 1)] = Turn("assistant", r) /\ longer[2 * (n + 1) - 1] = Turn("user", r)
  BY <1>1, <1>3, <1>5
<1>7. \A k \in 1 .. n : longer[2 * k - 1] = turns[2 * k - 1] /\ longer[2 * k] = turns[2 * k]
  BY <1>1, <1>3, <1>5
<1>8. ASSUME NEW k \in 1 .. n + 1
      PROVE  /\ longer[2 * k - 1] = Turn("user", longer[2 * k].of)
             /\ longer[2 * k].role = "assistant"
             /\ \E i \in DOMAIN more : more[i].request = longer[2 * k].of
  <2>1. CASE k = n + 1
    BY <2>1, <1>2, <1>4, <1>6
  <2>2. CASE k \in 1 .. n
    <3>1. PICK i \in DOMAIN sent : sent[i].request = turns[2 * k].of
      BY <2>2, <1>3
    <3>2. i \in DOMAIN more /\ more[i] = sent[i]
      BY <1>2
    <3> QED
      BY <2>2, <3>1, <3>2, <1>3, <1>7
  <2> QED
    BY <2>1, <2>2, <1>5
<1>9. ASSUME NEW k \in 2 .. n + 1
      PROVE  \E i, j \in DOMAIN more :
                /\ i < j
                /\ more[i].request = longer[2 * k - 2].of /\ more[j].request = longer[2 * k].of
  <2>1. k - 1 \in 1 .. n /\ 2 * (k - 1) = 2 * k - 2
    BY <1>5
  <2>2. longer[2 * k - 2] = turns[2 * k - 2]
    BY <2>1, <1>7
  <2>3. CASE k = n + 1
    <3>1. PICK i \in DOMAIN sent : sent[i].request = turns[2 * (k - 1)].of
      BY <2>1, <1>3
    <3>2. /\ i \in DOMAIN more /\ more[i].request = longer[2 * k - 2].of
          /\ Len(sent) + 1 \in DOMAIN more /\ i < Len(sent) + 1
      BY <3>1, <2>1, <2>2, <1>2
    <3>3. more[Len(sent) + 1].request = longer[2 * k].of
      BY <2>3, <1>2, <1>4, <1>6
    <3> QED
      BY <3>2, <3>3
  <2>4. CASE k \in 2 .. n
    <3>1. PICK i \in DOMAIN sent, j \in DOMAIN sent :
            /\ i < j
            /\ sent[i].request = turns[2 * k - 2].of /\ sent[j].request = turns[2 * k].of
      BY <2>4, <1>3
    <3>2. i \in DOMAIN more /\ j \in DOMAIN more /\ more[i] = sent[i] /\ more[j] = sent[j]
      BY <1>2
    <3>3. longer[2 * k] = turns[2 * k]
      BY <2>4, <1>5, <1>7
    <3> QED
      BY <2>2, <3>1, <3>2, <3>3
  <2> QED
    BY <2>3, <2>4, <1>5
<1>10. IsExtract(longer, more)
  BY <1>5, <1>8, <1>9 DEF IsExtract
<1>11. longer # <<>> /\ more # <<>> /\ longer[Len(longer)].of = more[Len(more)].request
  BY <1>1, <1>2, <1>4
<1> QED
  BY <1>10, <1>11 DEF longer, more

ExtractInv == Extracts /\ EndsWithLast

LEMMA BlankExtract == IsExtract(BlankHistory.turns, <<>>)
BY DEF BlankHistory, IsExtract

LEMMA FinishExtract ==
    ASSUME TypeInv, ExtractInv, NEW r \in Questions, FinishTurn(r)
    PROVE  ExtractInv'
<1> DEFINE session == SessionOf[r]
<1>1. session \in Sessions
  BY SessionAssumption
<1>2. PICK o \in Outcomes(input[r]) :
        /\ store' = [store EXCEPT ![session] = SavedHistory(r, o)]
        /\ responses' = [responses EXCEPT ![session] = Append(@, [request |-> r, outcome |-> o])]
  BY DEF FinishTurn
<1> DEFINE response == [request |-> r, outcome |-> o]
           turns == history[r].turns
<1>3. history' = history
  BY DEF FinishTurn
<1>4. /\ store \in [Sessions -> Histories] /\ responses \in [Sessions -> Seq(Responses)]
      /\ \A s \in Sessions : store[s].turns \in Seq(Messages)
      /\ \A q \in Questions : history[q].turns \in Seq(Messages)
      /\ o \in TurnResults /\ TypeOK
  BY OutcomeTypes DEF TypeInv, TypeOK, Histories
<1>5. \A s \in Sessions : s # session => store'[s] = store[s] /\ responses'[s] = responses[s]
  BY <1>2, <1>4
<1>6. store'[session].turns = turns \o Exchange(r) /\ responses'[session] = Append(responses[session], response)
  BY <1>1, <1>2, <1>4 DEF SavedHistory, NewTurns
<1>7. responses' \in [Sessions -> Seq(Responses)]
  BY <1>1, FinishTypesKept DEF TypeInv, TypeOK
<1>8. /\ IsExtract(store'[session].turns, responses'[session])
      /\ store'[session].turns # <<>>
      /\ store'[session].turns[Len(store'[session].turns)].of
            = responses'[session][Len(responses'[session])].request
  <2>1. IsExtract(turns, responses[session])
    BY DEF ExtractInv, Extracts
  <2>2. turns \in Seq(Messages) /\ responses[session] \in Seq(Responses)
    BY <1>1, <1>4
  <2> HIDE DEF turns, session
  <2> QED
    BY <2>1, <2>2, <1>4, <1>6, ExtractGrows
<1>9. ASSUME NEW q \in Questions PROVE IsExtract(history'[q].turns, responses'[SessionOf[q]])
  <2>1. SessionOf[q] \in Sessions /\ IsExtract(history[q].turns, responses[SessionOf[q]])
    BY SessionAssumption DEF ExtractInv, Extracts
  <2>2. \A i \in DOMAIN responses[SessionOf[q]] :
            /\ i \in DOMAIN responses'[SessionOf[q]]
            /\ responses'[SessionOf[q]][i] = responses[SessionOf[q]][i]
    BY <2>1, <1>1, <1>2, <1>4, ResponsesStay
  <2> QED
    BY <2>1, <2>2, <1>3, <1>4, <1>7, ExtractStays
<1>10. Extracts'
  BY <1>5, <1>8, <1>9 DEF ExtractInv, Extracts
<1>11. EndsWithLast'
  BY <1>5, <1>8 DEF ExtractInv, EndsWithLast
<1> QED
  BY <1>10, <1>11 DEF ExtractInv

LEMMA StartExtract ==
    ASSUME TypeInv, ExtractInv, NEW r \in Questions, StartTurn(r)
    PROVE  ExtractInv'
<1>1. /\ history' = [history EXCEPT ![r] = store[SessionOf[r]]]
      /\ history \in [Questions -> Histories]
      /\ UNCHANGED <<store, responses>>
  BY DEF StartTurn, TypeInv, TypeOK
<1>2. \A q \in Questions : history'[q] = IF q = r THEN store[SessionOf[r]] ELSE history[q]
  BY <1>1
<1> QED
  BY <1>1, <1>2, SessionAssumption DEF ExtractInv, Extracts, EndsWithLast

LEMMA RestartExtract == Restart => ExtractInv'
<1> SUFFICES ASSUME Restart PROVE ExtractInv'
  OBVIOUS
<1>1. /\ \A s \in Sessions : store'[s] = BlankHistory /\ responses'[s] = <<>>
      /\ \A r \in Questions : history'[r] = BlankHistory
  BY DEF Restart
<1> QED
  BY <1>1, BlankExtract, SessionAssumption DEF ExtractInv, Extracts, EndsWithLast

LEMMA ExtractInvariant == Spec => [](TypeInv /\ SourceInv /\ ExtractInv)
<1>1. Init => ExtractInv
  <2> SUFFICES ASSUME Init PROVE ExtractInv
    OBVIOUS
  <2>1. /\ \A s \in Sessions : store[s] = BlankHistory /\ responses[s] = <<>>
        /\ \A r \in Questions : history[r] = BlankHistory
    BY DEF Init
  <2> QED
    BY <2>1, BlankExtract, SessionAssumption DEF ExtractInv, Extracts, EndsWithLast
<1>2. TypeInv /\ ExtractInv /\ [Next]_vars => ExtractInv'
  <2> SUFFICES ASSUME TypeInv, ExtractInv, [Next]_vars PROVE ExtractInv'
    OBVIOUS
  <2>1. CASE UNCHANGED vars
    BY <2>1 DEF vars, ExtractInv, Extracts, EndsWithLast
  <2>2. ASSUME NEW r \in Questions, FailTurn(r) PROVE ExtractInv'
    BY <2>2 DEF FailTurn, ExtractInv, Extracts, EndsWithLast
  <2> QED
    BY <2>1, <2>2, StartExtract, FinishExtract, RestartExtract DEF Next
<1> QED
  BY <1>1, <1>2, SourceInvariant, PTL DEF Spec

\* Whatever overlapped, the store keeps whole exchanges, none twice, in the
\* order of their responses, and the one that was responded to last.
THEOREM TurnsSurvive == Spec => []SurvivingTurns
<1>1. TypeInv /\ SourceInv /\ ExtractInv => SurvivingTurns
  <2> SUFFICES ASSUME TypeInv, SourceInv, ExtractInv, NEW s \in Sessions
               PROVE  LET sent == responses[s]
                          turns == store[s].turns
                          Position(r) == CHOOSE i \in DOMAIN sent : sent[i].request = r
                          kept == 1 .. Len(turns) \div 2
                      IN  /\ Len(turns) % 2 = 0
                          /\ \A k \in kept :
                              /\ turns[2 * k - 1].role = "user" /\ turns[2 * k].role = "assistant"
                              /\ turns[2 * k - 1].of = turns[2 * k].of
                              /\ \E i \in DOMAIN sent : sent[i].request = turns[2 * k].of
                              /\ k > 1 => Position(turns[2 * k - 2].of) < Position(turns[2 * k].of)
                          /\ sent # <<>> =>
                              /\ kept # {}
                              /\ turns[Len(turns)].of = sent[Len(sent)].request
    BY DEF SurvivingTurns
  <2> DEFINE sent == responses[s]
             turns == store[s].turns
             Position(r) == CHOOSE i \in DOMAIN sent : sent[i].request = r
             kept == 1 .. Len(turns) \div 2
  <2>1. sent \in Seq(Responses) /\ turns \in Seq(Messages) /\ Len(turns) \in Nat
    BY DEF TypeInv, TypeOK, Histories
  <2>2. \A i, j \in DOMAIN sent : sent[j].request = sent[i].request => j = i
    BY DEF SourceInv, RespondedOnce
  <2>3. sent # <<>> => turns # <<>> /\ turns[Len(turns)].of = sent[Len(sent)].request
    BY DEF ExtractInv, EndsWithLast
  <2>4. IsExtract(turns, sent)
    BY DEF ExtractInv, Extracts
  <2>5. \A i \in DOMAIN sent : Position(sent[i].request) = i
    BY <2>2
  <2> HIDE DEF sent, turns, Position
  <2>6. PICK n \in 0 .. Len(turns) :
        /\ Len(turns) = 2 * n
        /\ \A k \in 1 .. n :
            /\ turns[2 * k - 1] = Turn("user", turns[2 * k].of)
            /\ turns[2 * k].role = "assistant"
            /\ \E i \in DOMAIN sent : sent[i].request = turns[2 * k].of
        /\ \A k \in 2 .. n : \E i, j \in DOMAIN sent :
            /\ i < j
            /\ sent[i].request = turns[2 * k - 2].of /\ sent[j].request = turns[2 * k].of
    BY <2>4 DEF IsExtract
  <2>7. Len(turns) % 2 = 0 /\ kept = 1 .. n
    BY <2>1, <2>6
  <2>8. sent # <<>> => kept # {} /\ turns[Len(turns)].of = sent[Len(sent)].request
    <3>1. turns # <<>> => 1 \in 1 .. n
      <4>1. turns # <<>> => Len(turns) # 0
        BY <2>1
      <4> QED
        BY <4>1, <2>1, <2>6
    <3>2. turns # <<>> => kept # {}
      BY <2>7, <3>1
    <3> QED
      BY <2>3, <3>2
  <2> HIDE DEF kept
  <2>9. ASSUME NEW k \in kept
        PROVE  /\ turns[2 * k - 1].role = "user" /\ turns[2 * k].role = "assistant"
               /\ turns[2 * k - 1].of = turns[2 * k].of
               /\ \E i \in DOMAIN sent : sent[i].request = turns[2 * k].of
               /\ k > 1 => Position(turns[2 * k - 2].of) < Position(turns[2 * k].of)
    <3>1. k \in 1 .. n
      BY <2>7
    <3>2. /\ turns[2 * k - 1].role = "user" /\ turns[2 * k].role = "assistant"
          /\ turns[2 * k - 1].of = turns[2 * k].of
          /\ \E i \in DOMAIN sent : sent[i].request = turns[2 * k].of
      <4>1. /\ turns[2 * k - 1] = Turn("user", turns[2 * k].of)
            /\ turns[2 * k].role = "assistant"
            /\ \E i \in DOMAIN sent : sent[i].request = turns[2 * k].of
        BY <3>1, <2>6
      <4>2. Turn("user", turns[2 * k].of).role = "user" /\ Turn("user", turns[2 * k].of).of = turns[2 * k].of
        BY DEF Turn
      <4> QED
        BY <4>1, <4>2
    <3>3. ASSUME k > 1 PROVE Position(turns[2 * k - 2].of) < Position(turns[2 * k].of)
      <4>1. k \in 2 .. n
        BY <3>1, <3>3
      <4>2. PICK i \in DOMAIN sent, j \in DOMAIN sent :
              /\ i < j
              /\ sent[i].request = turns[2 * k - 2].of /\ sent[j].request = turns[2 * k].of
        BY <4>1, <2>6
      <4> QED
        BY <4>2, <2>5
    <3> QED
      BY <3>2, <3>3
  <2> QED
    BY <2>7, <2>8, <2>9 DEF sent, turns, Position, kept
<1> QED
  BY <1>1, ExtractInvariant, PTL

-----------------------------------------------------------------------------
(* The refinement: the chat endpoint implements Conversation, for any       *)
(* number of requests and sessions. An awaited request is one atomic step  *)
(* of its session.                                                         *)

\* A session nothing was saved of has the blank history.
BlankUntilSaved == \A s \in Sessions : store[s].turns = <<>> => store[s] = BlankHistory

LEMMA BlankInvariant == Spec => []BlankUntilSaved
<1>1. Init => BlankUntilSaved
  BY DEF Init, BlankUntilSaved
<1>2. TypeInv /\ BlankUntilSaved /\ [Next]_vars => BlankUntilSaved'
  <2> SUFFICES ASSUME TypeInv, BlankUntilSaved, [Next]_vars PROVE BlankUntilSaved'
    OBVIOUS
  <2>1. ASSUME NEW r \in Questions, FinishTurn(r) PROVE BlankUntilSaved'
    <3>1. PICK o \in Outcomes(input[r]) :
            store' = [store EXCEPT ![SessionOf[r]] = SavedHistory(r, o)]
      BY <2>1 DEF FinishTurn
    <3>2. history[r].turns \in Seq(Messages) /\ store \in [Sessions -> Histories]
      BY DEF TypeInv, TypeOK, Histories
    <3>3. SavedHistory(r, o).turns # <<>>
      <4>1. Len(history[r].turns \o Exchange(r)) = Len(history[r].turns) + 2
        BY <3>2, ExchangeAppended
      <4>2. Len(history[r].turns) \in Nat
        BY <3>2
      <4> QED
        BY <4>1, <4>2 DEF SavedHistory, NewTurns
    <3>4. \A s \in Sessions :
            store'[s] = IF s = SessionOf[r] THEN SavedHistory(r, o) ELSE store[s]
      BY <3>1, <3>2
    <3> HIDE DEF SavedHistory
    <3> QED
      BY <3>3, <3>4 DEF BlankUntilSaved
  <2>2. CASE UNCHANGED vars
    BY <2>2 DEF vars, BlankUntilSaved
  <2>3. ASSUME NEW r \in Questions, StartTurn(r) \/ FailTurn(r) PROVE BlankUntilSaved'
    BY <2>3 DEF StartTurn, FailTurn, BlankUntilSaved
  <2>4. CASE Restart
    BY <2>4 DEF Restart, BlankUntilSaved
  <2> QED
    BY <2>1, <2>2, <2>3, <2>4 DEF Next
<1>3. Spec => []TypeInv
  BY SessionInvariant, PTL
<1> QED
  BY <1>1, <1>2, <1>3, PTL DEF Spec

-----------------------------------------------------------------------------
(* What is carried over is what the last response said.                     *)

\* The outcomes of a run depend on four fields of its start state.
LEMMA OutcomesOfStart ==
    ASSUME NEW x, NEW y, StartOf(x) = StartOf(y)
    PROVE  Outcomes(x) = Outcomes(y)
<1>1. /\ x.question = y.question
      /\ x.accumulated_intent = y.accumulated_intent
      /\ x.last_clarification = y.last_clarification
      /\ x.ambiguity_count = y.ambiguity_count
  BY DEF StartOf
<1>2. ResolvedIntents(x) = ResolvedIntents(y)
  BY <1>1 DEF ResolvedIntents
<1> QED
  BY <1>1, <1>2 DEF Outcomes, AskedOutcomes, ResolvedOutcomes, RefusedOutcomes

\* The abstract specification's outcomes are these outcomes.
LEMMA SameOutcomes == ASSUME NEW x PROVE Conversations!Outcomes(x) = Outcomes(x)
<1>1. Conversations!ResolvedIntents(x) = ResolvedIntents(x)
  BY DEF ResolvedIntents, Merged, OrQuestion, Truthy, Conversations!ResolvedIntents,
         Conversations!Merged, Conversations!OrQuestion, Conversations!Truthy
<1>2. Conversations!Clarifications = Clarifications /\ Conversations!Reasons = Reasons
  BY DEF Clarifications, Reasons, Classifying, Get, Conversations!Clarifications,
         Conversations!Reasons, Conversations!Classifying, Conversations!Get
<1>3. Conversations!AskedOutcomes(x) = AskedOutcomes(x)
  BY <1>1, <1>2 DEF AskedOutcomes, Outcome, Conversations!AskedOutcomes, Conversations!Outcome
<1>4. Conversations!ResolvedOutcomes(x) = ResolvedOutcomes(x)
  BY <1>1 DEF ResolvedOutcomes, Outcome, Conversations!ResolvedOutcomes, Conversations!Outcome
<1>5. Conversations!RefusedOutcomes(x) = RefusedOutcomes(x)
  BY <1>1, <1>2 DEF RefusedOutcomes, Outcome, Conversations!RefusedOutcomes, Conversations!Outcome
<1> QED
  BY <1>3, <1>4, <1>5 DEF Outcomes, Conversations!Outcomes

\* The source of a whole transcript is its last response.
LEMMA LastIsSource ==
    ASSUME TypeInv, SessionInv, SourceInv, NEW s \in Disciplined, store[s].turns # <<>>
    PROVE  LET sent == responses[s]
               last == sent[Len(sent)].outcome
           IN  /\ sent # <<>>
               /\ store[s].last_status = last.status
               /\ store[s].accumulated_intent = last.accumulated_intent
               /\ store[s].last_clarification_question = last.last_clarification
               /\ store[s].ambiguity_count = last.ambiguity_count
<1> DEFINE sent == responses[s]
           turns == store[s].turns
<1>1. /\ s \in Sessions /\ sent \in Seq(Responses) /\ turns \in Seq(Messages)
  BY DEF TypeInv, TypeOK, Disciplined, Histories
<1>2. IsTranscript(turns, sent)
  BY DEF SessionInv, NoLostTurn
<1>3. PICK i \in DOMAIN sent :
            /\ turns[Len(turns)].of = sent[i].request
            /\ store[s].last_status = sent[i].outcome.status
            /\ store[s].accumulated_intent = sent[i].outcome.accumulated_intent
            /\ store[s].last_clarification_question = sent[i].outcome.last_clarification
            /\ store[s].ambiguity_count = sent[i].outcome.ambiguity_count
  BY <1>1 DEF SourceInv, OneSource, FromOneResponse
<1>4. \A j \in DOMAIN sent : sent[j].request = sent[i].request => j = i
  BY <1>1 DEF SourceInv, RespondedOnce
<1>5. turns # <<>>
  OBVIOUS
<1> HIDE DEF sent, turns
<1>6. Len(sent) \in DOMAIN sent /\ Len(turns) = 2 * Len(sent) /\ sent # <<>>
  BY <1>1, <1>2, <1>3 DEF IsTranscript
<1>7. turns[2 * Len(sent)] = Turn("assistant", sent[Len(sent)].request)
  BY <1>2, <1>6 DEF IsTranscript
<1>8. turns[Len(turns)].of = sent[Len(sent)].request
  BY <1>6, <1>7 DEF Turn
<1>9. i = Len(sent)
  BY <1>3, <1>4, <1>6, <1>8
<1> QED
  BY <1>3, <1>6, <1>9 DEF sent

\* A run that nobody disturbed started from what the conversation said last.
LEMMA StartsAgree ==
    ASSUME TypeInv, SessionInv, SourceInv, BlankUntilSaved,
           NEW r \in Questions, phase[r] = "running", SessionOf[r] \in Disciplined
    PROVE  StartOf(input[r]) = StartOf(Conversations!Start(r, responses[SessionOf[r]]))
<1> DEFINE s == SessionOf[r]
           sent == responses[s]
           h == store[s]
           start == Conversations!Start(r, sent)
<1>1. s \in Sessions /\ sent \in Seq(Responses) /\ h \in Histories
  BY SessionAssumption DEF TypeInv, TypeOK
<1>2. input[r] = InitialState(r, h)
  BY DEF TypeInv, LocalsAgree, SessionInv, Undisturbed
<1>3. /\ CarriedIntent(h) = start.accumulated_intent
      /\ CarriedClarification(h) = start.last_clarification
      /\ CarriedCount(h) = start.ambiguity_count
      /\ start.question = r
  <2>1. CASE h.turns = <<>>
    <3>1. h = BlankHistory /\ Len(sent) = 0
      BY <2>1, <1>1 DEF BlankUntilSaved, SessionInv, NoLostTurn, IsTranscript
    <3>2. ~IsContinuation(h) /\ sent = <<>>
      BY <3>1, <1>1 DEF IsContinuation, BlankHistory
    <3> QED
      BY <3>2 DEF CarriedIntent, CarriedClarification, CarriedCount,
                  Conversations!Start, Conversations!Continues
  <2>2. CASE h.turns # <<>>
    <3> DEFINE last == sent[Len(sent)].outcome
    <3>1. /\ sent # <<>>
          /\ h.last_status = last.status
          /\ h.accumulated_intent = last.accumulated_intent
          /\ h.last_clarification_question = last.last_clarification
          /\ h.ambiguity_count = last.ambiguity_count
      BY <2>2, LastIsSource
    <3>2. Conversations!Continues(sent) <=> IsContinuation(h)
      BY <3>1 DEF Conversations!Continues, IsContinuation
    <3> HIDE DEF sent, h
    <3> QED
      BY <3>1, <3>2 DEF CarriedIntent, CarriedClarification, CarriedCount, Conversations!Start
  <2> QED
    BY <2>1, <2>2
<1> HIDE DEF start, h
<1> QED
  BY <1>2, <1>3 DEF InitialState, StartOf, start, s, sent

-----------------------------------------------------------------------------
(* Step by step                                                             *)

Said == [s \in Disciplined |-> responses[s]]

\* A response of a session without overlap is a turn of its conversation.
LEMMA FinishIsTurn ==
    ASSUME TypeInv, SessionInv, SourceInv, BlankUntilSaved, NEW r \in Questions, FinishTurn(r)
    PROVE  Conversations!Turn(r) \/ Said' = Said
<1> DEFINE s == SessionOf[r]
<1>1. s \in Sessions /\ phase[r] = "running" /\ Disciplined' = Disciplined
  BY SessionAssumption DEF FinishTurn, Disciplined
<1>2. PICK o \in Outcomes(input[r]) :
        responses' = [responses EXCEPT ![s] = Append(@, [request |-> r, outcome |-> o])]
  BY DEF FinishTurn
<1>3. \A t \in Sessions :
        responses'[t] = IF t = s THEN Append(responses[s], [request |-> r, outcome |-> o]) ELSE responses[t]
  BY <1>1, <1>2 DEF TypeInv, TypeOK
<1>4. CASE s \notin Disciplined
  BY <1>1, <1>3, <1>4 DEF Said, Disciplined
<1>5. CASE s \in Disciplined
  <2>1. \A i \in DOMAIN responses[s] : responses[s][i].request # r
    BY <1>1 DEF SourceInv, RespondedOnce
  <2>2. o \in Outcomes(Conversations!Start(r, responses[s]))
    BY <1>1, <1>5, StartsAgree, OutcomesOfStart
  <2>3. Said' = [Said EXCEPT ![s] = Append(Said[s], [request |-> r, outcome |-> o])]
    BY <1>1, <1>3, <1>5 DEF Said, Disciplined
  <2>4. s \in DOMAIN Said /\ Said[s] = responses[s]
    BY <1>5 DEF Said
  <2>5. /\ s \in DOMAIN Said
        /\ \A i \in DOMAIN Said[s] : Said[s][i].request # r
        /\ \E outcome \in Outcomes(Conversations!Start(r, Said[s])) :
            Said' = [Said EXCEPT ![s] = Append(Said[s], [request |-> r, outcome |-> outcome])]
    BY <2>1, <2>2, <2>3, <2>4
  <2>6. Conversations!Turn(r) <=>
            /\ s \in DOMAIN Said
            /\ \A i \in DOMAIN Said[s] : Said[s][i].request # r
            /\ \E outcome \in Conversations!Outcomes(Conversations!Start(r, Said[s])) :
                Said' = [Said EXCEPT ![s] = Append(Said[s], [request |-> r, outcome |-> outcome])]
    BY DEF Conversations!Turn, Said
  <2> QED
    BY <2>5, <2>6, SameOutcomes
<1> QED
  BY <1>4, <1>5

\* A request that overlaps another deserts its conversation, and no other step
\* of a request shows.
LEMMA StartIsDesertion ==
    ASSUME NEW r \in Questions, StartTurn(r)
    PROVE  Conversations!Desert(SessionOf[r]) \/ Said' = Said
<1>1. responses' = responses
  BY DEF StartTurn
<1>2. CASE overlapped' = overlapped
  BY <1>1, <1>2 DEF Said, Disciplined
<1>3. CASE overlapped' = overlapped \cup {SessionOf[r]}
  <2>1. Said' = [s \in DOMAIN Said \ {SessionOf[r]} |-> Said[s]]
    BY <1>1, <1>3 DEF Said, Disciplined
  <2> QED
    BY <2>1 DEF Conversations!Desert, Said
<1> QED
  BY <1>2, <1>3 DEF StartTurn

\* An awaited request takes effect at one moment, once, on the turn before it
\* and on nothing else: whatever the other sessions do, whichever runs fail,
\* and across restarts.
THEOREM ChatRefines == Spec => ImplementsConversation
<1>1. Init => Conversations!Init
  BY DEF Init, Conversations!Init, Disciplined
<1>2. TypeInv /\ SessionInv /\ SourceInv /\ BlankUntilSaved /\ [Next]_vars
        => [Conversations!Next]_Said
  <2> SUFFICES ASSUME TypeInv, SessionInv, SourceInv, BlankUntilSaved, [Next]_vars
               PROVE  Conversations!Next \/ Said' = Said
    OBVIOUS
  <2>1. ASSUME NEW r \in Questions, StartTurn(r) PROVE Conversations!Next \/ Said' = Said
    BY <2>1, StartIsDesertion, SessionAssumption DEF Conversations!Next
  <2>2. ASSUME NEW r \in Questions, FinishTurn(r) PROVE Conversations!Next \/ Said' = Said
    BY <2>2, FinishIsTurn DEF Conversations!Next
  <2>3. ASSUME NEW r \in Questions, FailTurn(r) PROVE Said' = Said
    BY <2>3 DEF FailTurn, Said, Disciplined
  <2>4. CASE Restart
    BY <2>4 DEF Restart, Conversations!Next, Conversations!Restart, Disciplined
  <2>5. CASE UNCHANGED vars
    BY <2>5 DEF vars, Said, Disciplined
  <2> QED
    BY <2>1, <2>2, <2>3, <2>4, <2>5 DEF Next
<1>3. Spec => [](TypeInv /\ SessionInv /\ SourceInv /\ BlankUntilSaved)
  BY SessionInvariant, SourceInvariant, BlankInvariant, PTL
<1>4. ImplementsConversation <=> Conversations!Init /\ [][Conversations!Next]_Said
  BY DEF ImplementsConversation, Conversations!Spec, Said
<1> QED
  BY <1>1, <1>2, <1>3, <1>4, PTL DEF Spec

-----------------------------------------------------------------------------
(* The intents of a conversation                                            *)

\* A new response joins the dialogue of the last one if that asked back, and
\* opens one if it did not; the other dialogues stay.
LEMMA DialogueGrows ==
    ASSUME NEW sent \in Seq(Responses), NEW e \in Responses
    PROVE  LET more == Append(sent, e)
               n == Len(sent)
           IN  /\ \A i \in DOMAIN sent : Dialogue(more, i) = Dialogue(sent, i)
               /\ sent # <<>> /\ Asks(sent[n]) => Dialogue(more, n + 1) = Dialogue(sent, n) \cup {n + 1}
               /\ sent = <<>> \/ ~Asks(sent[n]) => Dialogue(more, n + 1) = {n + 1}
<1> DEFINE more == Append(sent, e)
           n == Len(sent)
<1>1. /\ n \in Nat /\ DOMAIN sent = 1 .. n /\ (sent = <<>> <=> n = 0)
      /\ \A i \in 1 .. n : more[i] = sent[i]
  OBVIOUS
<1> HIDE DEF more, n
<1>2. ASSUME NEW i \in 1 .. n + 1, NEW j \in 1 .. i
      PROVE  SameDialogue(more, j, i) <=> SameDialogue(sent, j, i)
  <2>1. \A k \in j .. i - 1 : more[k] = sent[k]
    BY <1>1
  <2> QED
    BY <2>1 DEF SameDialogue, Asks
<1>3. ASSUME NEW i \in DOMAIN sent PROVE Dialogue(more, i) = Dialogue(sent, i)
  BY <1>1, <1>2 DEF Dialogue
<1>4. \A j \in 1 .. n : SameDialogue(sent, j, n + 1) <=> Asks(sent[n]) /\ SameDialogue(sent, j, n)
  BY <1>1 DEF SameDialogue
<1>5. SameDialogue(more, n + 1, n + 1)
  BY <1>1 DEF SameDialogue
<1>6. \A j : j \in Dialogue(more, n + 1) <=> j = n + 1 \/ (j \in 1 .. n /\ Asks(sent[n]) /\ SameDialogue(sent, j, n))
  <2>1. 1 .. n + 1 = (1 .. n) \cup {n + 1} /\ n + 1 \notin 1 .. n
    BY <1>1
  <2> QED
    BY <1>1, <1>2, <1>4, <1>5, <2>1 DEF Dialogue
<1>7. \A j : j \in Dialogue(sent, n) <=> j \in 1 .. n /\ SameDialogue(sent, j, n)
  BY DEF Dialogue
<1>8. ASSUME sent # <<>>, Asks(sent[n]) PROVE Dialogue(more, n + 1) = Dialogue(sent, n) \cup {n + 1}
  BY <1>6, <1>7, <1>8
<1>9. ASSUME sent = <<>> \/ ~Asks(sent[n]) PROVE Dialogue(more, n + 1) = {n + 1}
  BY <1>1, <1>6, <1>9
<1> QED
  BY <1>3, <1>8, <1>9 DEF more, n

\* What a run makes of the intent it is given, if the merger drops nothing.
LEMMA IntentOfStart ==
    ASSUME MergerFaithful, NEW x, NEW o \in Outcomes(x)
    PROVE  /\ x.last_clarification # None /\ x.accumulated_intent \in Intents
                => o.accumulated_intent = x.accumulated_intent \cup {x.question}
           /\ x.last_clarification = None /\ x.accumulated_intent = None
                => o.accumulated_intent = {x.question}
<1>1. o.accumulated_intent \in ResolvedIntents(x)
  BY DEF Outcomes, AskedOutcomes, ResolvedOutcomes, RefusedOutcomes, Outcome
<1>2. ASSUME x.last_clarification # None, x.accumulated_intent \in Intents
      PROVE  o.accumulated_intent = x.accumulated_intent \cup {x.question}
  <2>1. ResolvedIntents(x) = {(IF Truthy(x.accumulated_intent) THEN x.accumulated_intent ELSE {}) \cup {x.question}}
    BY <1>2 DEF ResolvedIntents, Merged
  <2>2. Truthy(x.accumulated_intent) <=> x.accumulated_intent # {}
    BY <1>2, NoneAssumption DEF Truthy
  <2> QED
    BY <1>1, <2>1, <2>2
<1>3. ASSUME x.last_clarification = None, x.accumulated_intent = None
      PROVE  o.accumulated_intent = {x.question}
  BY <1>1, <1>3 DEF ResolvedIntents, OrQuestion, Truthy
<1> QED
  BY <1>2, <1>3

\* What IntentIsDialogue says of one session.
IntentsAre(sent) ==
    \A i \in DOMAIN sent :
        (/\ MergerFaithful
         /\ \A j \in Dialogue(sent, i) : j < i => sent[j].outcome.last_clarification # None)
        => sent[i].outcome.accumulated_intent = {sent[j].request : j \in Dialogue(sent, i)}

LEMMA IntentsGrow ==
    ASSUME NEW sent \in Seq(Responses), IntentsAre(sent), NEW r \in Questions,
           NEW o \in Outcomes(Conversations!Start(r, sent)), o \in TurnResults
    PROVE  IntentsAre(Append(sent, [request |-> r, outcome |-> o]))
<1> DEFINE e == [request |-> r, outcome |-> o]
           more == Append(sent, e)
           n == Len(sent)
           x == Conversations!Start(r, sent)
<1>1. /\ e \in Responses /\ e.request = r /\ e.outcome = o
  BY DEF Responses
<1> HIDE DEF e
<1>2. /\ n \in Nat /\ DOMAIN sent = 1 .. n /\ (sent = <<>> <=> n = 0)
      /\ DOMAIN more = 1 .. n + 1
      /\ \A i \in 1 .. n : more[i] = sent[i]
      /\ more[n + 1] = e
  BY <1>1
<1>3. /\ \A i \in DOMAIN sent : Dialogue(more, i) = Dialogue(sent, i)
      /\ sent # <<>> /\ Asks(sent[n]) => Dialogue(more, n + 1) = Dialogue(sent, n) \cup {n + 1}
      /\ sent = <<>> \/ ~Asks(sent[n]) => Dialogue(more, n + 1) = {n + 1}
  BY <1>1, DialogueGrows
<1>4. /\ sent # <<>> => sent[n].outcome \in TurnResults
      /\ o \in Outcomes(x)
  <2>1. ASSUME sent # <<>> PROVE sent[n] \in Responses
    BY <1>2, <2>1
  <2> QED
    BY <2>1 DEF Responses
<1> HIDE DEF more, n
<1>5. \A i \in DOMAIN sent : Dialogue(sent, i) \subseteq 1 .. i /\ Dialogue(sent, i) \subseteq DOMAIN sent
  BY <1>2 DEF Dialogue
<1>6. ASSUME NEW i \in DOMAIN sent, MergerFaithful,
             \A j \in Dialogue(more, i) : j < i => more[j].outcome.last_clarification # None
      PROVE  more[i].outcome.accumulated_intent = {more[j].request : j \in Dialogue(more, i)}
  <2>1. Dialogue(more, i) = Dialogue(sent, i) /\ more[i] = sent[i]
    BY <1>2, <1>3
  <2>2. \A j \in Dialogue(sent, i) : more[j] = sent[j]
    BY <1>2, <1>5
  <2>3. sent[i].outcome.accumulated_intent = {sent[j].request : j \in Dialogue(sent, i)}
    BY <1>6, <2>1, <2>2 DEF IntentsAre
  <2>4. {sent[j].request : j \in Dialogue(sent, i)} = {more[j].request : j \in Dialogue(sent, i)}
    BY <2>2
  <2> QED
    BY <2>1, <2>3, <2>4
<1>7. ASSUME MergerFaithful,
             \A j \in Dialogue(more, n + 1) : j < n + 1 => more[j].outcome.last_clarification # None
      PROVE  o.accumulated_intent = {more[j].request : j \in Dialogue(more, n + 1)}
  <2>1. CASE sent = <<>> \/ ~Asks(sent[n])
    <3>1. x.accumulated_intent = None /\ x.last_clarification = None /\ x.question = r
      BY <2>1 DEF Conversations!Start, Conversations!Continues, Asks, n
    <3> HIDE DEF x
    <3>2. o.accumulated_intent = {r}
      BY <1>4, <1>7, <3>1, IntentOfStart
    <3> QED
      BY <2>1, <3>2, <1>1, <1>2, <1>3
  <2>2. CASE sent # <<>> /\ Asks(sent[n])
    <3>1. /\ x.accumulated_intent = sent[n].outcome.accumulated_intent
          /\ x.last_clarification = sent[n].outcome.last_clarification
          /\ x.question = r
      BY <2>2 DEF Conversations!Start, Conversations!Continues, Asks, n
    <3> HIDE DEF x
    <3>2. n \in DOMAIN sent /\ n \in Dialogue(sent, n)
      BY <1>2, <2>2 DEF Dialogue, SameDialogue
    <3>3. /\ Dialogue(more, n + 1) = Dialogue(sent, n) \cup {n + 1}
          /\ \A j \in Dialogue(sent, n) : more[j] = sent[j] /\ j < n + 1
      BY <1>2, <1>3, <1>5, <2>2, <3>2
    <3>4. \A j \in Dialogue(sent, n) : sent[j].outcome.last_clarification # None
      BY <1>7, <3>3
    <3>5. sent[n].outcome.accumulated_intent = {sent[j].request : j \in Dialogue(sent, n)}
      BY <1>7, <3>2, <3>4 DEF IntentsAre
    <3>6. sent[n].outcome.accumulated_intent \in Intents
      BY <1>4, <2>2 DEF TurnResults
    <3>7. o.accumulated_intent = sent[n].outcome.accumulated_intent \cup {r}
      BY <1>4, <1>7, <3>1, <3>2, <3>4, <3>6, IntentOfStart
    <3>8. {more[j].request : j \in Dialogue(more, n + 1)} = {sent[j].request : j \in Dialogue(sent, n)} \cup {r}
      BY <3>3, <1>1, <1>2
    <3> QED
      BY <3>5, <3>7, <3>8
  <2> QED
    BY <2>1, <2>2
<1>8. ASSUME NEW i \in DOMAIN more, MergerFaithful,
             \A j \in Dialogue(more, i) : j < i => more[j].outcome.last_clarification # None
      PROVE  more[i].outcome.accumulated_intent = {more[j].request : j \in Dialogue(more, i)}
  <2>1. CASE i \in DOMAIN sent
    BY <2>1, <1>6, <1>8
  <2>2. CASE i = n + 1
    BY <2>2, <1>1, <1>2, <1>7, <1>8
  <2> QED
    BY <2>1, <2>2, <1>2
<1> QED
  BY <1>8 DEF IntentsAre, more, e

\* The intent behind a response accounts for every message of its dialogue and
\* for none of another, if the merger drops nothing and no clarification
\* question on the way was null.
THEOREM IntentsCorrect == Spec => []IntentIsDialogue
<1>1. Init => IntentIsDialogue
  BY DEF Init, IntentIsDialogue, Disciplined
<1>2. TypeInv /\ SessionInv /\ SourceInv /\ BlankUntilSaved /\ IntentIsDialogue /\ [Next]_vars
        => IntentIsDialogue'
  <2> SUFFICES ASSUME TypeInv, SessionInv, SourceInv, BlankUntilSaved, IntentIsDialogue, [Next]_vars
               PROVE  \A s \in Disciplined' : IntentsAre(responses'[s])
    BY DEF IntentIsDialogue, IntentsAre, Dialogue, SameDialogue, Asks
  <2>1. \A s \in Disciplined : IntentsAre(responses[s])
    BY DEF IntentIsDialogue, IntentsAre
  <2>2. ASSUME NEW r \in Questions, FinishTurn(r), NEW s \in Disciplined'
        PROVE  IntentsAre(responses'[s])
    <3>1. PICK o \in Outcomes(input[r]) :
            responses' = [responses EXCEPT ![SessionOf[r]] = Append(@, [request |-> r, outcome |-> o])]
      BY <2>2 DEF FinishTurn
    <3>2. phase[r] = "running" /\ Disciplined' = Disciplined
      BY <2>2 DEF FinishTurn, Disciplined
    <3>3. /\ o \in TurnResults /\ s \in Sessions /\ SessionOf[r] \in Sessions
          /\ responses \in [Sessions -> Seq(Responses)]
      BY <2>2, <3>2, OutcomeTypes, SessionAssumption DEF TypeInv, TypeOK, Disciplined
    <3>4. CASE s # SessionOf[r]
      BY <3>1, <3>2, <3>3, <3>4, <2>1
    <3>5. CASE s = SessionOf[r]
      <4>1. responses'[s] = Append(responses[s], [request |-> r, outcome |-> o])
        BY <3>1, <3>3, <3>5
      <4>2. o \in Outcomes(Conversations!Start(r, responses[s]))
        BY <3>2, <3>5, <2>2, StartsAgree, OutcomesOfStart
      <4> QED
        BY <4>1, <4>2, <3>2, <3>3, <2>1, IntentsGrow
    <3> QED
      BY <3>4, <3>5
  <2>3. ASSUME NEW r \in Questions, StartTurn(r) \/ FailTurn(r)
        PROVE  \A s \in Disciplined' : IntentsAre(responses'[s])
    BY <2>1, <2>3 DEF StartTurn, FailTurn, Disciplined
  <2>4. CASE Restart
    BY <2>4 DEF Restart, Disciplined, IntentsAre
  <2>5. CASE UNCHANGED vars
    BY <2>1, <2>5 DEF vars, Disciplined
  <2> QED
    BY <2>2, <2>3, <2>4, <2>5 DEF Next
<1>3. Spec => [](TypeInv /\ SessionInv /\ SourceInv /\ BlankUntilSaved)
  BY SessionInvariant, SourceInvariant, BlankInvariant, PTL
<1> QED
  BY <1>1, <1>2, <1>3, PTL DEF Spec

=============================================================================
