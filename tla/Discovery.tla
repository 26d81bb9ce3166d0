------------------------------- MODULE Discovery -------------------------------
(***************************************************************************)
(* The discovery loop (src/cua/discover/loop.py) and how its run concludes *)
(* (src/cua/discover/run.py): a model is asked for one tool call per turn, *)
(* each act passes the policy gate, and what works becomes a step of the   *)
(* recording.  A confirmation covers one call, native dialogs are          *)
(* dismissed until the model has seen them, and a stuck run is stopped.    *)
(*                                                                         *)
(* Model, page and policy are adversaries: any call may come, any act may  *)
(* be rated, refused or fail, and raise a request or a dialog.  Controls   *)
(* that look alike are one, as they are to the loop.  Which screen is      *)
(* shown matters only as changed or not.  Evidence, redaction, credential  *)
(* fields and the text of tool results are left out.                       *)
(***************************************************************************)
EXTENDS Integers, SequencesExt

CONSTANTS
    Controls,           \* what calls name, by signature: frame, role and label
    Calls,              \* the tool calls the model may make
    MaxSteps,           \* max_steps: turns
    REPEAT_LIMIT,
    NO_PROGRESS_LIMIT

Nothing == "nothing"  \* no control, no dialog

Tools ==
    {"click", "type_text", "press_key", "press_tab", "scroll", "read_text", "declare_output",
     "request_confirmation", "done", "give_up", "invalid"}

\* press_key also stands for navigate, type_text for select_option, and invalid
\* for a call that does not parse or was cut off.
ToolCalls == [tool : Tools, on : Controls \cup {Nothing}, dialog : {Nothing, "accept", "dismiss"}]

ASSUME CallsAssumption ==
    /\ Nothing \notin Controls
    /\ Calls \subseteq ToolCalls
    /\ \A c \in Calls :
          /\ c.dialog # Nothing => c.tool = "click"
          /\ c.tool \in {"click", "type_text", "declare_output", "done"} => c.on \in Controls
ASSUME LimitsAssumption ==
    /\ MaxSteps \in Nat
    /\ REPEAT_LIMIT \in Nat \ {0, 1}
    /\ NO_PROGRESS_LIMIT \in Nat \ {0}

VARIABLES
    pc,         \* entering, asking the model, observing, concluding, ended
    turn,
    allow,      \* the run's allow_irreversible
    handling,   \* the policy's irreversible_handling
    armed,      \* _confirmation_armed
    calls,      \* StuckDetector._calls, as many as it looks at
    unchanged,  \* StuckDetector._unchanged
    dialogs,    \* _dialogs_seen: the type of the dialog each control last opened
    outputs,    \* _outputs
    pending,    \* the step an act returned, until the screen after it is seen
    steps,      \* _steps
    stop,
    result,
    passed,     \* history: did the current call let something irreversible through
    answered,   \* history: the dialog the current call answered
    shown,      \* history: the dialogs reported to the model
    acted,      \* history: turns of the acts a recording can hold
    wrong,      \* history: turns the model was told went wrong
    changes     \* history: did the latest acts change the screen

detector == <<calls, unchanged, changes>>
config == <<allow, handling>>
recording == <<pending, steps, acted, wrong>>
vars == <<pc, turn, config, armed, detector, dialogs, outputs, recording, stop, result,
          passed, answered, shown>>

Acting == {"click", "type_text", "press_key", "press_tab", "scroll"}
DialogTypes == {"alert", "confirm", "prompt"}
Risks == {"safe", "reversible", "irreversible"}

\* The gate rates an action at least as its caller declares it.
Stricter ==
    [safe |-> Risks, reversible |-> Risks \ {"safe"}, irreversible |-> {"irreversible"}]

NoStep == [turn |-> -1, risk |-> "safe"]
NoDialog == [on |-> Nothing, type |-> Nothing, response |-> Nothing]

Latest(s, n) == SubSeq(s, Len(s) - n + 1, Len(s))

LastOf(s, n) == IF Len(s) <= n THEN s ELSE Latest(s, n)

Init ==
    /\ pc = "entering"
    /\ turn = 0
    /\ allow \in BOOLEAN
    /\ handling \in {"block", "confirm", "escalate"}
    /\ armed = FALSE
    /\ calls = << >>
    /\ unchanged = 0
    /\ dialogs = [e \in Controls |-> Nothing]
    /\ outputs = {}
    /\ pending = NoStep
    /\ steps = << >>
    /\ stop = "none"
    /\ result = "none"
    /\ passed = FALSE
    /\ answered = NoDialog
    /\ shown = {}
    /\ acted = {}
    /\ wrong = {}
    /\ changes = << >>

StopAs(reason) ==
    /\ pc' = "concluding"
    /\ stop' = reason

-----------------------------------------------------------------------------
(* Between the calls.                                                       *)

\* The entry URL is opened unconfirmed and becomes the first step.
Enter ==
    /\ pc = "entering"
    /\ \/ /\ pc' = "asking"
          /\ steps' = << [turn |-> 0, risk |-> "safe"] >>
          /\ UNCHANGED stop
       \/ /\ StopAs("entry_failed")
          /\ UNCHANGED steps
    /\ UNCHANGED <<turn, config, armed, detector, dialogs, outputs, pending, acted, wrong,
                   result, passed, answered, shown>>

Spent == turn >= MaxSteps

\* The clock is looked at only here, so it may run out before any turn.
OutOfBudget ==
    /\ pc = "asking"
    /\ \/ Spent /\ StopAs("max_steps")
       \/ ~Spent /\ StopAs("timeout")
    /\ UNCHANGED <<turn, config, armed, detector, dialogs, outputs, recording, result,
                   passed, answered, shown>>

NextTurn ==
    /\ pc = "asking"
    /\ ~Spent
    /\ turn' = turn + 1

\* A ModelError, or a transient one again after the one retry.
ModelFails ==
    /\ NextTurn
    /\ StopAs("model_error")
    /\ UNCHANGED <<config, armed, detector, dialogs, outputs, recording, result,
                   passed, answered, shown>>

\* No tool call: a nudge, and a turn is gone; a confirmation is not.
TextReply ==
    /\ NextTurn
    /\ UNCHANGED <<pc, config, armed, detector, dialogs, outputs, recording, stop, result,
                   passed, answered, shown>>

-----------------------------------------------------------------------------
(* One tool call.                                                           *)

\* The key names an element by its signature, so Calls compares as the key does.
Repeated(s) ==
    /\ Len(s) >= REPEAT_LIMIT
    /\ \A i \in DOMAIN Latest(s, REPEAT_LIMIT) : Latest(s, REPEAT_LIMIT)[i] = Last(s)

NoteCall(c) == calls' = LastOf(Append(calls, c), REPEAT_LIMIT)

\* Mutant of ArmedAfter.
ArmedUntilAnAct(c) ==
    IF c.tool = "request_confirmation" THEN armed \/ allow ELSE armed /\ c.tool \notin Acting

\* A confirmation covers exactly the next call, whatever that call was.
ArmedAfter(c) == c.tool = "request_confirmation" /\ (armed \/ allow)

\* A call that is neither the third of its kind nor the end of the run.
Make(c) ==
    /\ NextTurn
    /\ NoteCall(c)
    /\ ~Repeated(calls')
    /\ armed' = ArmedAfter(c)
    /\ UNCHANGED <<config, unchanged, changes>>

ThirdTime(c) ==
    /\ NextTurn
    /\ NoteCall(c)
    /\ Repeated(calls')
    /\ StopAs("repeated_action")
    /\ armed' = (armed /\ c.tool = "request_confirmation")
    /\ passed' = FALSE
    /\ answered' = NoDialog
    /\ UNCHANGED <<config, unchanged, changes, dialogs, outputs, recording, result, shown>>

\* Nothing was touched: the call did not parse, its ref or its element could not
\* be used or recorded, its value did not parse, or it answered a dialog nobody saw.
Refusal ==
    /\ passed' = FALSE
    /\ answered' = NoDialog
    /\ wrong' = wrong \cup {turn'}
    /\ pc' = "asking"
    /\ UNCHANGED <<dialogs, outputs, pending, steps, acted, stop, result, shown>>

Unusable(c) ==
    /\ Make(c)
    /\ c.tool \notin {"request_confirmation", "give_up", "scroll", "press_key", "press_tab"}
    /\ Refusal

RequestConfirmation(c) ==
    /\ Make(c)
    /\ c.tool = "request_confirmation"
    /\ passed' = FALSE
    /\ answered' = NoDialog
    /\ UNCHANGED <<pc, dialogs, outputs, recording, stop, result, shown>>

GiveUp(c) ==
    /\ Make(c)
    /\ c.tool = "give_up"
    /\ StopAs("gave_up")
    /\ passed' = FALSE
    /\ answered' = NoDialog
    /\ UNCHANGED <<dialogs, outputs, recording, result, shown>>

\* Every declared output resolves on this screen, or the call is refused.
Done(c) ==
    /\ Make(c)
    /\ c.tool = "done"
    /\ StopAs("done")
    /\ passed' = FALSE
    /\ answered' = NoDialog
    /\ UNCHANGED <<dialogs, outputs, recording, result, shown>>

\* Mutant of Seen.
AnyDialog(c) == TRUE

Seen(c) == c.dialog # Nothing => dialogs[c.on] # Nothing

Expected(c) == IF dialogs[c.on] = "confirm" THEN "confirm" ELSE "alert"

Declared(c) ==
    IF c.tool = "type_text" THEN "reversible"
    ELSE IF c.dialog = "accept" /\ Expected(c) = "confirm" THEN "irreversible"
    ELSE "safe"

\* The run's flag and the confirmation stand for the human's word, which only
\* the handling "confirm" accepts.
Granted(risk) == risk # "irreversible" \/ (handling = "confirm" /\ allow /\ armed)

\* Only the dialog the call expects is answered, if the gate grants the reply.
Answerable(c, dialog, reply) == c.dialog # Nothing /\ dialog = Expected(c) /\ Granted(reply)

\* What the surface lets happen while it performs call c, rated risk.  Everything
\* irreversible is judged on its own: the action, the requests it sends, and the
\* reply to the dialog it expects.
Perform(c, risk, request, dialog, reply) ==
    /\ Granted(risk)
    /\ dialog # Nothing => Answerable(c, dialog, reply)
    /\ passed' = \/ risk = "irreversible"
                 \/ request = "irreversible" /\ Granted(request)
                 \/ dialog # Nothing /\ reply = "irreversible"
    /\ answered' = IF dialog = Nothing THEN NoDialog
                   ELSE [on |-> c.on, type |-> dialog, response |-> c.dialog]

\* The recording holds no scrolling.
NoteAct(c) == acted' = IF c.tool = "scroll" THEN acted ELSE acted \cup {turn'}

\* A read is gated like an act, and may use up what was confirmed for another.
Read(c) ==
    /\ Make(c)
    /\ c.tool = "read_text" \/ (c.tool = "declare_output" /\ c.on \notin outputs)
    /\ \E risk, request \in Risks :
          /\ Perform(c, risk, request, Nothing, "safe")
          /\ \/ /\ wrong' = wrong \cup {turn'}
                /\ UNCHANGED outputs
             \/ /\ Granted(request)
                /\ outputs' = IF c.tool = "read_text" THEN outputs ELSE outputs \cup {c.on}
                /\ UNCHANGED wrong
    /\ UNCHANGED <<pc, dialogs, pending, steps, acted, stop, result, shown>>

\* The call did what it says, as far as the surface can tell before it settles.
Works(c) ==
    /\ Make(c)
    /\ c.tool \in Acting
    /\ Seen(c)
    /\ pc' = "observing"
    /\ \E risk, reply \in Stricter[Declared(c)], request \in Risks :
          /\ Granted(request)
          /\ Perform(c, risk, request, IF c.dialog = Nothing THEN Nothing ELSE Expected(c), reply)
          /\ pending' = IF c.tool = "scroll" THEN NoStep ELSE [turn |-> turn', risk |-> risk]
    /\ NoteAct(c)
    /\ UNCHANGED <<dialogs, outputs, steps, wrong, stop, result, shown>>

\* Refused before anything happened: the target is gone, the gate blocks it, or
\* nobody confirmed it.
Denied ==
    /\ passed' = FALSE
    /\ answered' = NoDialog
    /\ UNCHANGED <<dialogs, shown>>

\* It happened and something went wrong: the dispatch failed, a request or the
\* reply was refused, the expected dialog did not come, or another one did and
\* was dismissed.  A click remembers that one, for the model to answer.
GoesWrong(c) ==
    \E risk, reply \in Stricter[Declared(c)], request \in Risks :
        \E dialog, unexpected \in DialogTypes \cup {Nothing} :
            /\ Perform(c, risk, request, dialog, reply)
            /\ IF unexpected # Nothing /\ c.tool = "click"
               THEN /\ dialogs' = [dialogs EXCEPT ![c.on] = unexpected]
                    /\ shown' = shown \cup {<<c.on, unexpected>>}
               ELSE UNCHANGED <<dialogs, shown>>

Fails(c) ==
    /\ Make(c)
    /\ c.tool \in Acting
    /\ Seen(c)
    /\ pc' = "observing"
    /\ Denied \/ GoesWrong(c)
    /\ pending' = NoStep
    /\ wrong' = wrong \cup {turn'}
    /\ NoteAct(c)
    /\ UNCHANGED <<outputs, steps, stop, result>>

-----------------------------------------------------------------------------
(* After an act.                                                            *)

\* Mutant of Kept.
KeptAnyway(late) == pending # NoStep

\* Serious events that arrived while the page settled undo the act.
Kept(late) == pending # NoStep /\ ~late

\* Mutant of Stuck.
StuckOnceMore == unchanged' > NO_PROGRESS_LIMIT

Stuck == unchanged' >= NO_PROGRESS_LIMIT

\* Calls that need not change the screen.
Neutral(c) == c.tool \in {"scroll", "press_tab"}

\* The late events found here may be an earlier act's: they carry no name.
Observe ==
    /\ pc = "observing"
    /\ \E late, changed \in BOOLEAN :
          /\ steps' = IF Kept(late) THEN Append(steps, pending) ELSE steps
          /\ wrong' = IF late THEN wrong \cup {turn} ELSE wrong
          /\ IF Neutral(Last(calls))
             THEN UNCHANGED <<unchanged, changes>> /\ pc' = "asking" /\ UNCHANGED stop
             ELSE /\ unchanged' = IF changed THEN 0 ELSE unchanged + 1
                  /\ changes' = LastOf(Append(changes, changed), NO_PROGRESS_LIMIT)
                  /\ IF Stuck THEN StopAs("no_progress") ELSE pc' = "asking" /\ UNCHANGED stop
    /\ pending' = NoStep
    /\ UNCHANGED <<turn, config, armed, calls, dialogs, outputs, acted, result,
                   passed, answered, shown>>

-----------------------------------------------------------------------------
(* The end.                                                                 *)

StuckReasons == {"gave_up", "max_steps", "timeout", "repeated_action", "no_progress"}

\* A draft is saved only if it builds, its success checkpoint holds on the final
\* screen and the catalog takes it; a stuck run asks a human instead.
Outcomes ==
    IF stop = "done" THEN {"recorded", "failed"}
    ELSE IF stop \in StuckReasons THEN {"stopped"} ELSE {"failed"}

Conclude ==
    /\ pc = "concluding"
    /\ pc' = "ended"
    /\ result' \in Outcomes
    /\ UNCHANGED <<turn, config, armed, detector, dialogs, outputs, recording, stop,
                   passed, answered, shown>>

\* An exception anywhere: the run is reported as crashed.
Crash ==
    /\ pc # "ended"
    /\ pc' = "ended"
    /\ stop' = "crashed"
    /\ result' = "failed"
    /\ UNCHANGED <<turn, config, armed, detector, dialogs, outputs, recording,
                   passed, answered, shown>>

ToolCall(c) ==
    \/ ThirdTime(c) \/ Unusable(c) \/ RequestConfirmation(c) \/ GiveUp(c) \/ Done(c)
    \/ Read(c) \/ Works(c) \/ Fails(c)

Next ==
    \/ Enter \/ OutOfBudget \/ ModelFails \/ TextReply
    \/ \E c \in Calls : ToolCall(c)
    \/ Observe \/ Conclude \/ Crash

Spec == Init /\ [][Next]_vars

-----------------------------------------------------------------------------
(* What must hold.                                                          *)

\* The state has its shape; turns, stuck windows and the log keep to their limits.
TypeOK ==
    /\ pc \in {"entering", "asking", "observing", "concluding", "ended"}
    /\ turn \in 0..MaxSteps
    /\ allow \in BOOLEAN /\ handling \in {"block", "confirm", "escalate"}
    /\ armed \in BOOLEAN /\ (armed => allow)
    /\ calls \in Seq(Calls) /\ Len(calls) <= REPEAT_LIMIT
    /\ unchanged \in 0..NO_PROGRESS_LIMIT
    /\ dialogs \in [Controls -> DialogTypes \cup {Nothing}]
    /\ outputs \subseteq Controls
    /\ pending = NoStep \/ pending \in [turn : {turn}, risk : Risks]
    /\ pending # NoStep => pc \in {"observing", "ended"}
    /\ steps \in Seq([turn : 0..MaxSteps, risk : Risks])
    /\ stop \in {"none", "done", "model_error", "entry_failed", "crashed"} \cup StuckReasons
    /\ result \in {"none", "recorded", "stopped", "failed"}

\* The prompt promises that a confirmation covers only the very next tool call:
\* whatever irreversible gets through the gate, and every confirm dialog that is
\* accepted, comes right after a confirmation this run and its policy allow.
ConfirmedJustBefore ==
    passed \/ (answered.type = "confirm" /\ answered.response = "accept") =>
        /\ allow /\ handling = "confirm"
        /\ Len(calls) >= 2 /\ calls[Len(calls) - 1].tool = "request_confirmation"

\* A dialog is answered only on a control whose dialog the model was told of, and
\* as a confirm only if it was told of a confirm.
AnswersWhatWasShown ==
    answered # NoDialog =>
        \E d \in shown : d[1] = answered.on /\ (d[2] = "confirm" <=> answered.type = "confirm")

SameThroughout(s, n) == Len(s) >= n /\ \A i, j \in (Len(s) - n + 1)..Len(s) : s[i] = s[j]

\* A run is stopped as stuck by the third equal call in a row, or by the second
\* act in a row that changed nothing on screen, and never otherwise.
StuckEndsTheRun ==
    LET repeats == SameThroughout(calls, REPEAT_LIMIT)
        still == SameThroughout(changes, NO_PROGRESS_LIMIT) /\ ~Last(changes)
    IN  /\ pc = "asking" => ~repeats /\ ~still
        /\ stop = "repeated_action" => repeats
        /\ stop = "no_progress" => still

\* The recording is the entry and exactly the acts the model was not told went
\* wrong, in order; one step for each, late warnings included.
RecordedAsTold ==
    pc \in {"asking", "concluding"} /\ steps # << >> =>
        /\ {steps[i].turn : i \in DOMAIN steps} = {0} \cup (acted \ wrong)
        /\ \A i, j \in DOMAIN steps : i < j => steps[i].turn < steps[j].turn
=============================================================================
