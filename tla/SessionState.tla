---------------------------- MODULE SessionState ----------------------------
(***************************************************************************)
(* The control state machine of one live browser session                   *)
(* (src/cua/session/state.py): the transition table, who may fire which    *)
(* event, and the pure transition function.  No variables: SessionStore    *)
(* and Handoff keep a session file in these shapes and change it only      *)
(* through Advance.                                                        *)
(*                                                                         *)
(* A state's controller is a function of its phase (the class validator    *)
(* enforces it), so the record carries the phase only.  Timestamps, notes  *)
(* and the run id are left out; intervention ids are numbers, 0 for none.  *)
(***************************************************************************)
EXTENDS Naturals, Sequences

CONSTANTS Operators,   \* ids of the people at the ops CLI
          NoOne        \* operator_id when nobody is named

ASSUME OperatorsAssumption == NoOne \notin Operators

Phases == {"running", "paused_for_human", "human_active", "resuming", "finished"}

Events == {"stuck_detected", "take_control", "hand_back", "checkpoint_reverified",
           "reverify_failed", "finish", "abort", "expire"}

Actors == {"automation", "operator", "system"}

CONTROLLER_FOR ==
    [running          |-> "automation",
     paused_for_human |-> "nobody",
     human_active     |-> "human",
     resuming         |-> "automation",
     finished         |-> "nobody"]

TRANSITIONS ==
    [running          |-> [stuck_detected |-> "paused_for_human",
                           finish         |-> "finished",
                           abort          |-> "finished"],
     paused_for_human |-> [take_control   |-> "human_active",
                           abort          |-> "finished",
                           expire         |-> "finished",
                           finish         |-> "finished"],
     human_active     |-> [hand_back      |-> "resuming",
                           abort          |-> "finished",
                           expire         |-> "finished",
                           finish         |-> "finished"],
     resuming         |-> [checkpoint_reverified |-> "running",
                           reverify_failed       |-> "paused_for_human",
                           abort                 |-> "finished",
                           finish                |-> "finished"],
     finished         |-> [e \in {} |-> "finished"]]

ALLOWED_ACTORS ==
    [stuck_detected        |-> {"automation"},
     finish                |-> {"automation"},
     take_control          |-> {"operator"},
     hand_back             |-> {"operator"},
     abort                 |-> {"operator"},
     checkpoint_reverified |-> {"automation"},
     reverify_failed       |-> {"automation"},
     expire                |-> {"system", "automation"}]

\* One entry of the session's history.
TransitionRecord ==
    [from_phase : Phases, to_phase : Phases, event : Events, actor : Actors,
     operator_id : Operators \cup {NoOne}]

SessionStates ==
    [phase : Phases, version : Nat, operator_id : Operators \cup {NoOne},
     intervention_id : Nat, history : Seq(TransitionRecord)]

\* SessionState.start: a run that has just begun, held by automation.
Start ==
    [phase |-> "running", version |-> 0, operator_id |-> NoOne,
     intervention_id |-> 0, history |-> << >>]

Controller(s) == CONTROLLER_FOR[s.phase]

\* A call to the transition function: what happened, who says so, the
\* operator behind it and the intervention it opens.
Calls ==
    [event : Events, actor : Actors, operator_id : Operators \cup {NoOne},
     intervention_id : Nat]

\* Mutant of OwnsTheHold.
AnyoneMayLetGo(s, call) == TRUE

\* While somebody holds the session it is theirs: nobody else's command lands.
OwnsTheHold(s, call) ==
    s.phase = "human_active" /\ call.actor = "operator" => call.operator_id = s.operator_id

\* The checks advance makes before it moves.  A call that fails one of the
\* first four raises IllegalTransition, the last one NotInControl.
Permitted(s, call) ==
    /\ call.event \in DOMAIN TRANSITIONS[s.phase]
    /\ call.actor \in ALLOWED_ACTORS[call.event]
    /\ call.actor = "operator" => call.operator_id # NoOne
    /\ call.event = "stuck_detected" => call.intervention_id # 0
    /\ OwnsTheHold(s, call)

\* Mutant of NextOperator.
TakerNotNoted(s, call, target) == IF target = "running" THEN NoOne ELSE s.operator_id

\* Mutant of NextOperator.
InterventionForOperator(s, call, target) ==
    IF target = "running" THEN NoOne
    ELSE IF call.event = "take_control" THEN s.intervention_id
    ELSE s.operator_id

\* Going back to running forgets the holder and the intervention; any other move
\* keeps them unless it names new ones, so a finished session still says what
\* ended it.
NextOperator(s, call, target) ==
    IF target = "running" THEN NoOne
    ELSE IF call.event = "take_control" THEN call.operator_id
    ELSE s.operator_id

NextIntervention(s, call, target) ==
    IF target = "running" THEN 0
    ELSE IF call.intervention_id # 0 THEN call.intervention_id
    ELSE s.intervention_id

\* The state a permitted call leads to.
Advance(s, call) ==
    LET target == TRANSITIONS[s.phase][call.event]
    IN  [phase           |-> target,
         version         |-> s.version + 1,
         operator_id     |-> NextOperator(s, call, target),
         intervention_id |-> NextIntervention(s, call, target),
         history         |-> Append(s.history, [from_phase  |-> s.phase,
                                                to_phase    |-> target,
                                                event       |-> call.event,
                                                actor       |-> call.actor,
                                                operator_id |-> call.operator_id])]

\* What require_automation asks before automation touches the browser.
AutomationHolds(s) == Controller(s) = "automation"

\* Who has the browser, as ControlPromise names the holders.
Holder(s) ==
    CASE s.phase = "running"          -> "automation"
      [] s.phase = "paused_for_human" -> "nobody"
      [] s.phase = "human_active"     -> s.operator_id
      [] s.phase = "resuming"         -> "verifying"
      [] s.phase = "finished"         -> "over"
=============================================================================
