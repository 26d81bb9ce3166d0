------------------------- MODULE SessionStateProofs -------------------------
(***************************************************************************)
(* Lemmas about the control state machine of SessionState, for every       *)
(* permitted call: where it leads, what it appends to the history, and how *)
(* it moves the holder of the session.  The proofs about the modules that  *)
(* keep a session file, SessionStore and Handoff, rest on them.            *)
(***************************************************************************)
EXTENDS SessionState, TLAPS

\* A permitted call leads to a phase, and only taking control to a held one.
LEMMA TargetPhase ==
    ASSUME NEW s \in SessionStates, NEW call \in Calls, Permitted(s, call)
    PROVE  /\ TRANSITIONS[s.phase][call.event] \in Phases
           /\ TRANSITIONS[s.phase][call.event] = "human_active" <=>
                 call.event = "take_control"
<1>1. s.phase \in Phases /\ call.event \in DOMAIN TRANSITIONS[s.phase]
  BY DEF Permitted, SessionStates
<1>2. CASE s.phase = "running"
  BY <1>1, <1>2 DEF TRANSITIONS, Phases
<1>3. CASE s.phase = "paused_for_human"
  BY <1>1, <1>3 DEF TRANSITIONS, Phases
<1>4. CASE s.phase = "human_active"
  BY <1>1, <1>4 DEF TRANSITIONS, Phases
<1>5. CASE s.phase = "resuming"
  BY <1>1, <1>5 DEF TRANSITIONS, Phases
<1>6. CASE s.phase = "finished"
  BY <1>1, <1>6 DEF TRANSITIONS, Phases
<1>7. QED
  BY <1>1, <1>2, <1>3, <1>4, <1>5, <1>6 DEF Phases

\* The pure transition function stays within the types.
LEMMA AdvanceType ==
    ASSUME NEW s \in SessionStates, NEW call \in Calls, Permitted(s, call)
    PROVE  Advance(s, call) \in SessionStates
<1> DEFINE target == TRANSITIONS[s.phase][call.event]
<1>1. target \in Phases
  BY TargetPhase
<1>2. [from_phase |-> s.phase, to_phase |-> target, event |-> call.event,
       actor |-> call.actor, operator_id |-> call.operator_id] \in TransitionRecord
  BY <1>1 DEF TransitionRecord, SessionStates, Calls
<1>3. QED
  BY <1>1, <1>2 DEF Advance, NextOperator, NextIntervention, SessionStates, Calls

LEMMA StartType == Start \in SessionStates
<1>1. << >> \in Seq(TransitionRecord)
  OBVIOUS
<1>2. QED
  BY <1>1 DEF Start, SessionStates, Phases

\* What a permitted call appends, and who holds the session after it.
Entry(s, call) ==
    [from_phase |-> s.phase, to_phase |-> TRANSITIONS[s.phase][call.event],
     event |-> call.event, actor |-> call.actor, operator_id |-> call.operator_id]

LEMMA AdvanceExtends ==
    ASSUME NEW s \in SessionStates, NEW call \in Calls, Permitted(s, call)
    PROVE  /\ s.history \in Seq(TransitionRecord)
           /\ Entry(s, call) \in TransitionRecord
           /\ Advance(s, call).history = Append(s.history, Entry(s, call))
           /\ Advance(s, call).phase = TRANSITIONS[s.phase][call.event]
           /\ Advance(s, call).phase = "human_active" =>
                 /\ call.event = "take_control"
                 /\ Advance(s, call).operator_id = call.operator_id
<1>1. TRANSITIONS[s.phase][call.event] \in Phases
  BY TargetPhase
<1>2. Entry(s, call) \in TransitionRecord
  BY <1>1 DEF TransitionRecord, SessionStates, Calls, Entry
<1>3. s.history \in Seq(TransitionRecord)
  BY DEF SessionStates
<1>4. /\ Advance(s, call).phase = TRANSITIONS[s.phase][call.event]
      /\ Advance(s, call).history = Append(s.history, Entry(s, call))
  BY DEF Advance, Entry
<1>5. Advance(s, call).phase = "human_active" => call.event = "take_control"
  BY <1>4, TargetPhase
<1>6. Advance(s, call).phase = "human_active" =>
        Advance(s, call).operator_id = call.operator_id
  BY <1>4, <1>5 DEF Advance, NextOperator
<1>7. QED
  BY <1>2, <1>3, <1>4, <1>5, <1>6

\* The last entry of an extended history is the new one.
LEMMA LastOfAppend ==
    ASSUME NEW S, NEW h \in Seq(S), NEW r \in S
    PROVE  /\ Append(h, r) # << >>
           /\ Append(h, r)[Len(Append(h, r))] = r
OBVIOUS

\* A permitted call moves the holder the way the promise allows.
LEMMA HolderStep ==
    ASSUME NEW s \in SessionStates, NEW call \in Calls, Permitted(s, call),
           NEW h, h = Holder(s), NEW t, t = Holder(Advance(s, call))
    PROVE  \/ h \in {"automation", "verifying"} /\ t = "nobody"
           \/ h = "nobody" /\ t \in Operators
           \/ h \in Operators /\ t = "verifying"
           \/ h = "verifying" /\ t = "automation"
           \/ t = "over"
<1>1. Advance(s, call).phase = TRANSITIONS[s.phase][call.event]
  BY DEF Advance
<1>2. s.phase \in Phases /\ call.event \in DOMAIN TRANSITIONS[s.phase]
  BY DEF Permitted, SessionStates
<1>3. CASE s.phase = "running"
  BY <1>1, <1>2, <1>3 DEF Holder, TRANSITIONS
<1>4. CASE s.phase = "paused_for_human"
  <2>1. CASE call.event = "take_control"
    <3>1. call.operator_id \in Operators
      BY <2>1 DEF Permitted, OwnsTheHold, ALLOWED_ACTORS, Calls
    <3>2. /\ Advance(s, call).phase = "human_active"
          /\ Advance(s, call).operator_id = call.operator_id
      BY <1>4, <2>1 DEF Advance, NextOperator, TRANSITIONS
    <3>3. QED
      BY <1>4, <3>1, <3>2 DEF Holder
  <2>2. CASE call.event # "take_control"
    BY <1>1, <1>2, <1>4, <2>2 DEF Holder, TRANSITIONS
  <2>3. QED
    BY <2>1, <2>2
<1>5. CASE s.phase = "human_active"
  <2>1. CASE call.event = "hand_back"
    <3>1. s.operator_id = call.operator_id /\ call.operator_id \in Operators
      BY <1>5, <2>1 DEF Permitted, OwnsTheHold, ALLOWED_ACTORS, Calls
    <3>2. Advance(s, call).phase = "resuming"
      BY <1>1, <1>5, <2>1 DEF TRANSITIONS
    <3>3. QED
      BY <1>5, <3>1, <3>2 DEF Holder
  <2>2. CASE call.event # "hand_back"
    BY <1>1, <1>2, <1>5, <2>2 DEF Holder, TRANSITIONS
  <2>3. QED
    BY <2>1, <2>2
<1>6. CASE s.phase = "resuming"
  BY <1>1, <1>2, <1>6 DEF Holder, TRANSITIONS
<1>7. CASE s.phase = "finished"
  BY <1>1, <1>2, <1>7 DEF Holder, TRANSITIONS
<1>8. QED
  BY <1>2, <1>3, <1>4, <1>5, <1>6, <1>7 DEF Phases
=============================================================================
