------------------------------- MODULE Handoff -------------------------------
(***************************************************************************)
(* One replay that can pause for a human.  Four parties share it:          *)
(*   - the replay engine, which performs the flow's steps, asks for a      *)
(*     human when it may, and re-verifies what a human hands back          *)
(*     (run, _step_with_handbacks, _reverify, _escalate in                 *)
(*     src/cua/replay/engine.py);                                          *)
(*   - its OperatorChannel, which pauses the session, polls the session    *)
(*     file, and tells the engine how the pause ended                      *)
(*     (src/cua/session/operator.py);                                      *)
(*   - people at the ops CLI in other processes (src/cua/cli.py), and at   *)
(*     the window itself, which they may close;                            *)
(*   - the clock.                                                          *)
(* SessionStore shows that a call to transition takes effect in one step,  *)
(* so here it is one; a read and the transition decided on it stay two.    *)
(*                                                                         *)
(* What a step does on the page is abstracted to what the handoff can      *)
(* tell apart: it acts, it verifies, it stops the run, or it asks for a    *)
(* human, before its action or after it.                                   *)
(***************************************************************************)
EXTENDS SessionState, Integers, FiniteSets

CONSTANTS NoFile,             \* no session_state.json yet
          Steps,              \* how many steps the flow has
          CheckpointSteps,    \* those whose wait is a checkpoint
          MAX_HUMAN_PAUSES,
          WaitS,              \* ticks an operator is waited for
          MaxFaults           \* bound: session-file writes that fail (OSError)

ASSUME StepsAssumption == Steps \in Nat \ {0} /\ CheckpointSteps \subseteq 1..Steps
ASSUME PausesAssumption == MAX_HUMAN_PAUSES \in Nat
ASSUME WaitAssumption == WaitS \in Nat \ {0}
ASSUME FaultsAssumption == MaxFaults \in Nat
ASSUME NoFileAssumption == NoFile \notin SessionStates

VARIABLES
    \* the session file and the world around the run
    file,        \* session_state.json
    cli,         \* what each operator's ops command is doing
    age,         \* ticks since the file's updated_at, while a human holds it
    windowOpen,  \* the browser window, a human's to close
    faults,      \* session-file writes that have failed so far
    \* the engine
    pc,          \* where the run is
    at,          \* the step it is on; Steps + 1 is the success check
    origin,      \* where the open escalation was raised
    stopCode,    \* outcome code of the stop that raised it
    pauses,      \* _pauses
    path,        \* whether _intervention_path is set
    handback,    \* the hand-back being re-verified
    recoveries,  \* the result's human records, in order
    acted,       \* every action performed on the app, see Act
    checked,     \* file version at the control check the next action passed
    result,      \* how the run ended
    \* the channel
    opened,      \* opened_at of each pause, as the history's length then
    seen,        \* what the channel last read: phase and version
    holding,     \* _holding
    lost,        \* _lost
    left         \* ticks until the deadline of the open pause

worldVars   == <<file, cli, age, windowOpen, faults>>
log         == <<acted, checked>>
engineVars  == <<pc, at, origin, stopCode, pauses, path, handback, recoveries, log, result>>
channelVars == <<opened, seen, holding, lost, left>>
vars        == <<worldVars, engineVars, channelVars>>

SuccessCheck == Steps + 1

\* The step a result or a request names: the success check belongs to the last.
StepOf(s) == IF s = SuccessCheck THEN Steps ELSE s

IsCheckpoint(s) == StepOf(s) \in CheckpointSteps

NotEnded == [status |-> "none", code |-> "none"]

NoHandback == [intervention_id |-> 0, step |-> 0, operator_id |-> NoOne, note |-> "none"]

Idle == [verb |-> "none", version |-> -1]

History == IF file = NoFile THEN << >> ELSE file.history

Last(h) == h[Len(h)]

Init ==
    /\ file = NoFile
    /\ cli = [o \in Operators |-> Idle]
    /\ age = 0
    /\ windowOpen = TRUE
    /\ faults = 0
    /\ pc = "before"
    /\ at = 1
    /\ origin = "flow"
    /\ stopCode = "none"
    /\ pauses = 0
    /\ path = FALSE
    /\ handback = NoHandback
    /\ recoveries = << >>
    /\ acted = << >>
    /\ checked = 0
    /\ result = NotEnded
    /\ opened = << >>
    /\ seen = [phase |-> "running", version |-> 0]
    /\ holding = FALSE
    /\ lost = FALSE
    /\ left = 0

-----------------------------------------------------------------------------
(* The session file.                                                        *)

AutomationCall(event, iv) ==
    [event |-> event, actor |-> IF event = "expire" THEN "system" ELSE "automation",
     operator_id |-> NoOne, intervention_id |-> iv]

OperatorCall(o, event) ==
    [event |-> event, actor |-> "operator", operator_id |-> o, intervention_id |-> 0]

AnyVersion == -1

\* StateStore.transition: the compare-and-swap and the transition function.
Accepted(call, version) ==
    /\ file # NoFile
    /\ version \in {AnyVersion, file.version}
    /\ Permitted(file, call)

Move(call) == file' = Advance(file, call) /\ age' = 0

\* OperatorChannel._quietly: a refused transition, or one the disk refuses, is
\* noted in the evidence and the run carries on.
Quietly(call, version) ==
    \/ Accepted(call, version) /\ Move(call) /\ UNCHANGED faults
    \/ ~Accepted(call, version) /\ UNCHANGED <<file, age, faults>>
    \/ faults < MaxFaults /\ faults' = faults + 1 /\ UNCHANGED <<file, age>>

\* Mutant of ControlHeld.
ControlUnchecked == TRUE

\* file_control: no file means no human was ever involved.
ControlHeld == file # NoFile => AutomationHolds(file)

-----------------------------------------------------------------------------
(* How a run ends.                                                          *)

End(status, code) ==
    /\ result' = [status |-> status, code |-> code]
    /\ pc' = "ended"

\* An exception nobody catches: run_replay records a crash and closes up.
Crash(exception) == End("crashed", exception)

\* _result's status for a failure: escalated once an intervention was answered.
FailureStatus == IF path THEN "escalated" ELSE "stopped"

\* run's NotInControl handler and _control_lost.
LoseControl == End(FailureStatus, "OPERATOR_ABORTED")

-----------------------------------------------------------------------------
(* Asking for a human.                                                      *)

MayPause == pauses < MAX_HUMAN_PAUSES

\* _escalate, raised from the flow, from a recovery while a hand-back is being
\* re-verified (nested), or for a re-verification that failed (post).  known is
\* what the result has recorded by then.
Escalate(from, code, known) ==
    /\ recoveries' = known
    /\ \/ /\ ~MayPause
          /\ End(FailureStatus, code)
          /\ UNCHANGED <<pauses, origin, stopCode, opened, left>>
       \/ /\ MayPause
          /\ pauses' = pauses + 1
          /\ origin' = from
          /\ stopCode' = code
          /\ opened' = Append(opened, Len(History))
          /\ left' = WaitS
          /\ pc' = "opening"
          /\ UNCHANGED result

HumanRecord(outcome, operator, note, reverified, iv, step) ==
    [outcome |-> outcome, operator_id |-> operator, note |-> note,
     reverified |-> reverified, intervention_id |-> iv, step |-> step]

\* Mutant of HandedBackRecord.
LatestPauseRecord(reverified) ==
    HumanRecord("handed_back", handback.operator_id, handback.note, reverified,
                pauses, handback.step)

HandedBackRecord(reverified) ==
    HumanRecord("handed_back", handback.operator_id, handback.note, reverified,
                handback.intervention_id, handback.step)

\* _reverify's except: the hand-back did not verify, and that is a reason of
\* its own to ask again.
FailVerification(known) ==
    Escalate("post", "POST_HANDOFF_CHECKPOINT_FAILED",
             Append(known, HandedBackRecord(FALSE)))

-----------------------------------------------------------------------------
(* The engine working through the flow.                                     *)

\* Any read of the page goes through the control hook first.  A closed window
\* is an error no wait survives.
LookFrom(here, there) ==
    /\ pc = here
    /\ \/ ControlHeld /\ windowOpen /\ pc' = there /\ UNCHANGED result
       \/ ControlHeld /\ ~windowOpen /\ Crash("TargetClosed")
       \/ ~ControlHeld /\ LoseControl
    /\ UNCHANGED <<worldVars, channelVars, at, origin, stopCode, pauses, path,
                   handback, recoveries, acted>>

ResolveTarget == LookFrom("before", "deciding") /\ UNCHANGED checked
PollWait      == LookFrom("waiting", "judging") /\ UNCHANGED checked

GuardAction ==
    /\ LookFrom("deciding", "acting")
    /\ checked' = Len(History)

\* The action reaches the app, at its version of the file.  The hook ran before
\* it, not with it.
Act ==
    /\ pc = "acting"
    /\ \/ /\ windowOpen
          /\ acted' = Append(acted, [step |-> at, checked |-> checked,
                                    version |-> Len(History)])
          /\ pc' = "waiting"
          /\ UNCHANGED result
       \/ /\ ~windowOpen
          /\ Crash("TargetClosed")
          /\ UNCHANGED acted
    /\ checked' = 0
    /\ UNCHANGED <<worldVars, channelVars, at, origin, stopCode, pauses, path,
                   handback, recoveries>>

\* Mutant of Proceed.
ActAgain == at' = at /\ pc' = "before"

\* Mutant of Proceed.
ToTheSuccessCheck == at' = SuccessCheck /\ pc' = "waiting"

\* On to the next step, or to the success check after the last.
Proceed ==
    /\ at' = IF at = SuccessCheck THEN at ELSE at + 1
    /\ pc' = IF at >= Steps THEN "waiting" ELSE "before"

StepPasses ==
    /\ pc = "judging"
    /\ at # SuccessCheck
    /\ Proceed
    /\ UNCHANGED <<worldVars, channelVars, origin, stopCode, pauses, path,
                   handback, recoveries, log, result>>

\* Mutant of SuccessStatus.
PlainSuccess == "success"

SuccessStatus == IF recoveries = << >> THEN "success" ELSE "recovered_then_success"

Succeed ==
    /\ pc = "judging"
    /\ at = SuccessCheck
    /\ End(SuccessStatus, "none")
    /\ UNCHANGED <<worldVars, channelVars, at, origin, stopCode, pauses, path,
                   handback, recoveries, log>>

\* A stop nobody is asked about: a business outcome, a policy refusal, a step
\* whose on_fail is stop.
StopRun ==
    /\ pc \in {"deciding", "judging"}
    /\ End("stopped", "STEP_FAILED")
    /\ UNCHANGED <<worldVars, channelVars, at, origin, stopCode, pauses, path,
                   handback, recoveries, log>>

\* A stop that asks: on_fail escalate, an escalating detector or exhausted
\* recovery, or (before the action) a step replay will not confirm by itself.
AskForHuman ==
    /\ pc \in {"deciding", "judging"}
    /\ Escalate("flow", "STEP_FAILED", recoveries)
    /\ UNCHANGED <<worldVars, at, path, handback, log, seen, holding, lost>>

-----------------------------------------------------------------------------
(* The channel pausing the session and waiting.                             *)

CreateSession ==
    /\ pc = "opening"
    /\ file' = IF file = NoFile THEN Start ELSE file
    /\ pc' = "opened"
    /\ UNCHANGED <<cli, age, windowOpen, faults, channelVars, at, origin, stopCode,
                   pauses, path, handback, recoveries, log, result>>

ReadBeforePause ==
    /\ pc = "opened"
    /\ seen' = [phase |-> file.phase, version |-> file.version]
    /\ pc' = "pausing"
    /\ UNCHANGED <<worldVars, opened, holding, lost, left, at, origin, stopCode,
                   pauses, path, handback, recoveries, log, result>>

PauseSession ==
    /\ pc = "pausing"
    /\ Quietly(AutomationCall(IF seen.phase = "resuming" THEN "reverify_failed"
                              ELSE "stuck_detected", pauses),
               seen.version)
    /\ pc' = "polling"
    /\ UNCHANGED <<cli, windowOpen, channelVars, at, origin, stopCode, pauses, path,
                   handback, recoveries, log, result>>

\* Mutant of LeftAfterTake.
OldDeadline == left

LeftAfterTake == WaitS - age

\* One turn of _wait_for_operator, up to its sleep.  Seeing the session taken
\* moves the deadline to a full wait after the take.
Poll ==
    /\ pc = "polling"
    /\ seen' = [phase |-> file.phase, version |-> file.version]
    /\ LET taken == file.phase = "human_active" /\ ~holding
       IN  /\ holding' = (holding \/ taken)
           /\ left' = IF taken THEN LeftAfterTake ELSE left
    /\ pc' = IF file.phase \in {"resuming", "finished"} THEN "collecting" ELSE "sleeping"
    /\ UNCHANGED <<worldVars, opened, lost, at, origin, stopCode, pauses, path,
                   handback, recoveries, log, result>>

\* Mutant of TimeIsUp.
NeverUp == FALSE

TimeIsUp == left = 0

\* The sleep is a wait on the page: with the window closed it raises.
Wake ==
    /\ pc = "sleeping"
    /\ windowOpen
    /\ pc' = IF TimeIsUp THEN "expiring" ELSE "polling"
    /\ UNCHANGED <<worldVars, channelVars, at, origin, stopCode, pauses, path,
                   handback, recoveries, log, result>>

WindowGone ==
    /\ pc = "sleeping"
    /\ ~windowOpen
    /\ lost' = TRUE
    /\ Quietly(AutomationCall("finish", 0), AnyVersion)
    /\ pc' = "collecting"
    /\ UNCHANGED <<cli, windowOpen, opened, seen, holding, left, at, origin, stopCode,
                   pauses, path, handback, recoveries, log, result>>

Expire ==
    /\ pc = "expiring"
    /\ Quietly(AutomationCall("expire", 0), seen.version)
    /\ pc' = "collecting"
    /\ UNCHANGED <<cli, windowOpen, channelVars, at, origin, stopCode, pauses, path,
                   handback, recoveries, log, result>>

-----------------------------------------------------------------------------
(* The channel telling the engine how the pause ended.                      *)

\* Mutant of Taker.
LastTaker(h, since) ==
    LET takes == {i \in 1..Len(h) : h[i].event = "take_control"}
    IN  IF takes = {} THEN NoOne
        ELSE h[CHOOSE i \in takes : \A j \in takes : j <= i].operator_id

\* _taker: whoever took control since this pause opened, from the newest back.
Taker(h, since) ==
    LET takes == {i \in since + 1..Len(h) : h[i].event = "take_control"}
    IN  IF takes = {} THEN NoOne
        ELSE h[CHOOSE i \in takes : \A j \in takes : j <= i].operator_id

\* An answered pause marks the run as one a human was involved in.
Involve == path' = TRUE

\* What the engine does with an escalated stop: end the run, unless the pause
\* was raised inside a re-verification, whose except takes it for a failure.
DeliverStop(record) ==
    /\ Involve
    /\ \/ /\ origin # "nested"
          /\ recoveries' = Append(recoveries, record)
          /\ End("escalated", stopCode)
          /\ UNCHANGED <<pauses, origin, stopCode, opened, left>>
       \/ /\ origin = "nested"
          /\ FailVerification(Append(recoveries, record))

\* The window was closed under the pause (_session_gone).
CollectLost ==
    /\ pc = "collecting"
    /\ lost
    /\ LET taker == Taker(file.history, opened[pauses])
       IN  DeliverStop(HumanRecord(IF taker # NoOne THEN "aborted" ELSE "expired",
                                   taker, "closed", FALSE, pauses, StepOf(at)))
    /\ UNCHANGED <<worldVars, at, handback, log, seen, holding, lost>>

\* Nobody came in time, or somebody aborted (_ended).  Which it was is read off
\* the last transition; the record's validator wants an operator exactly when
\* somebody took this pause.
Aborted(h) == h # << >> /\ Last(h).event = "abort"

CollectEnded ==
    /\ pc = "collecting"
    /\ ~lost
    /\ file.phase # "resuming"
    /\ LET taker   == Taker(file.history, opened[pauses])
           aborted == Aborted(file.history)
           by      == IF aborted THEN Last(file.history).operator_id ELSE taker
       IN  \/ /\ (by = NoOne) = (taker = NoOne)
              /\ DeliverStop(HumanRecord(IF aborted THEN "aborted" ELSE "expired", by,
                                         IF aborted THEN "abort" ELSE "none",
                                         FALSE, pauses, StepOf(at)))
           \/ /\ (by = NoOne) # (taker = NoOne)
              /\ Crash("ValidationError")
              /\ UNCHANGED <<pauses, origin, stopCode, path, recoveries, opened, left>>
    /\ UNCHANGED <<worldVars, at, handback, log, seen, holding, lost>>

\* Control came back; the assertions want to know from whom.
CollectHandback ==
    /\ pc = "collecting"
    /\ ~lost
    /\ file.phase = "resuming"
    /\ LET taker == Taker(file.history, opened[pauses])
       IN  \/ taker = NoOne /\ Crash("AssertionError")
           \/ taker # NoOne /\ pc' = "noting" /\ UNCHANGED result
    /\ UNCHANGED <<worldVars, channelVars, at, origin, stopCode, pauses, path,
                   handback, recoveries, log>>

\* Mutant of NoteOf.
FirstNote(h) == h[1].event

\* The operator_note of a hand-back is that of the last transition there is by the
\* time the note is read.
NoteOf(h) == Last(h).event

\* _handback reads the file again for the note, and the engine unwinds with
\* _HandedBack: into _reverify, or, out of a re-verification, into nothing.
DeliverHandback ==
    /\ pc = "noting"
    /\ Involve
    /\ \/ /\ origin # "nested"
          /\ handback' = [intervention_id |-> pauses,
                          step            |-> StepOf(at),
                          operator_id     |-> Taker(file.history, opened[pauses]),
                          note            |-> NoteOf(file.history)]
          /\ pc' = "verifying"
          /\ UNCHANGED result
       \/ /\ origin = "nested"
          /\ Crash("_HandedBack")
          /\ UNCHANGED handback
    /\ UNCHANGED <<worldVars, channelVars, at, origin, stopCode, pauses, recoveries, log>>

-----------------------------------------------------------------------------
(* The engine re-verifying a hand-back.                                     *)

\* A checkpoint is read again; a step without one gets a detector pass, which
\* reads nothing when no detector is in scope.
PollCheckpoint == LookFrom("verifying", "rejudging") /\ UNCHANGED checked

PassNoDetectors ==
    /\ pc = "verifying"
    /\ ~IsCheckpoint(at)
    /\ pc' = "confirming"
    /\ UNCHANGED <<worldVars, channelVars, at, origin, stopCode, pauses, path,
                   handback, recoveries, log, result>>

Verified ==
    /\ pc = "rejudging"
    /\ pc' = "confirming"
    /\ UNCHANGED <<worldVars, channelVars, at, origin, stopCode, pauses, path,
                   handback, recoveries, log, result>>

NotVerified ==
    /\ pc = "rejudging"
    /\ FailVerification(recoveries)
    /\ UNCHANGED <<worldVars, at, path, handback, log, seen, holding, lost>>

\* A recovery run while re-verifying reached something replay will not confirm
\* by itself, which asks for a human in its own words.  Over the cap it is one
\* more way not to verify.
RecoveryNeedsHuman ==
    /\ pc = "rejudging"
    /\ IF MayPause
       THEN Escalate("nested", "CONFIRMATION_REQUIRED", recoveries)
       ELSE FailVerification(recoveries)
    /\ UNCHANGED <<worldVars, at, path, handback, log, seen, holding, lost>>

\* confirm(True): the session goes back to running and the flow goes on with
\* the next step, never with this one's action.
Confirm ==
    /\ pc = "confirming"
    /\ Quietly(AutomationCall("checkpoint_reverified", 0), AnyVersion)
    /\ recoveries' = Append(recoveries, HandedBackRecord(IsCheckpoint(at)))
    /\ Proceed
    /\ UNCHANGED <<cli, windowOpen, channelVars, origin, stopCode, pauses, path,
                   handback, log, result>>

-----------------------------------------------------------------------------
(* The end of the run, and what can end it from outside.                    *)

\* Mutant of SessionOver.
NobodyHolds == file # NoFile => Controller(file) = "nobody"

SessionOver == file # NoFile => file.phase = "finished"

\* run_replay's finally: the session file must not outlive the run.
CheckFinished ==
    /\ pc = "ended"
    /\ pc' = IF SessionOver THEN "closed" ELSE "closing"
    /\ UNCHANGED <<worldVars, channelVars, at, origin, stopCode, pauses, path,
                   handback, recoveries, log, result>>

CloseSession ==
    /\ pc = "closing"
    /\ Quietly(AutomationCall("finish", 0), AnyVersion)
    /\ pc' = "closed"
    /\ UNCHANGED <<cli, windowOpen, channelVars, at, origin, stopCode, pauses, path,
                   handback, recoveries, log, result>>

Over == {"ended", "closing", "closed", "killed"}

\* Ctrl-C at the terminal the run was started from.
Interrupt ==
    /\ pc \notin Over
    /\ Crash("KeyboardInterrupt")
    /\ UNCHANGED <<worldVars, channelVars, at, origin, stopCode, pauses, path,
                   handback, recoveries, log>>

\* The process is killed: no handler runs and the file stays as it is.
Kill ==
    /\ pc \notin {"closed", "killed"}
    /\ pc' = "killed"
    /\ UNCHANGED <<worldVars, channelVars, at, origin, stopCode, pauses, path,
                   handback, recoveries, log, result>>

-----------------------------------------------------------------------------
(* People.                                                                  *)

\* take-control first looks whether the run is still there to answer.
LookAlive(o) ==
    /\ cli[o] = Idle
    /\ file # NoFile
    /\ file.phase # "finished"
    /\ pc \notin {"closed", "killed"}
    /\ cli' = [cli EXCEPT ![o] = [verb |-> "looked", version |-> -1]]
    /\ UNCHANGED <<file, age, windowOpen, faults, engineVars, channelVars>>

\* _act_on reads the file without the lock ...
ReadSession(o, verb) ==
    /\ file # NoFile
    /\ cli[o].verb = IF verb = "take_control" THEN "looked" ELSE "none"
    /\ cli' = [cli EXCEPT ![o] = [verb |-> verb, version |-> file.version]]
    /\ UNCHANGED <<file, age, windowOpen, faults, engineVars, channelVars>>

\* ... and asks for the transition from the version it read, or is refused.
Command(o) ==
    /\ cli[o].verb \in {"take_control", "hand_back", "abort"}
    /\ LET call == OperatorCall(o, cli[o].verb)
       IN  \/ Accepted(call, cli[o].version) /\ Move(call)
           \/ ~Accepted(call, cli[o].version) /\ UNCHANGED <<file, age>>
    /\ cli' = [cli EXCEPT ![o] = Idle]
    /\ UNCHANGED <<windowOpen, faults, engineVars, channelVars>>

CloseWindow ==
    /\ windowOpen
    /\ pc \notin {"closed", "killed"}
    /\ windowOpen' = FALSE
    /\ UNCHANGED <<file, cli, age, faults, engineVars, channelVars>>

\* Time, where something measures it.
Waiting == {"opening", "opened", "pausing", "polling", "sleeping", "expiring"}

InPhase(phase) == file # NoFile /\ file.phase = phase

HumanHolds == InPhase("human_active")

Tick ==
    /\ pc \in Waiting
    /\ left > 0 \/ (HumanHolds /\ age < WaitS)
    /\ left' = IF left > 0 THEN left - 1 ELSE 0
    /\ age' = IF HumanHolds /\ age < WaitS THEN age + 1 ELSE age
    /\ UNCHANGED <<file, cli, windowOpen, faults, engineVars, opened, seen, holding, lost>>

-----------------------------------------------------------------------------
Engine ==
    \/ ResolveTarget \/ GuardAction \/ Act \/ PollWait
    \/ StepPasses \/ Succeed \/ StopRun \/ AskForHuman
    \/ PollCheckpoint \/ PassNoDetectors \/ Verified \/ NotVerified
    \/ RecoveryNeedsHuman \/ Confirm

Channel ==
    \/ CreateSession \/ ReadBeforePause \/ PauseSession
    \/ Poll \/ Wake \/ WindowGone \/ Expire
    \/ CollectLost \/ CollectEnded \/ CollectHandback \/ DeliverHandback

Closing == CheckFinished \/ CloseSession

People ==
    \/ \E o \in Operators :
          \/ LookAlive(o)
          \/ \E verb \in {"take_control", "hand_back", "abort"} : ReadSession(o, verb)
          \/ Command(o)
    \/ CloseWindow

Next == Engine \/ Channel \/ Closing \/ Interrupt \/ Kill \/ People \/ Tick

\* The run's process keeps running and time keeps passing.  Nobody has to come,
\* and an operator who came need not come back.
Fairness == WF_vars(Engine \/ Channel \/ Closing) /\ WF_vars(Tick)

Spec == Init /\ [][Next]_vars /\ Fairness
-----------------------------------------------------------------------------
(* Types.                                                                   *)

PCs == {"before", "deciding", "acting", "waiting", "judging", "verifying", "rejudging",
        "confirming", "noting", "collecting", "ended", "closing", "closed", "killed"}
       \cup Waiting

RecordTypes ==
    [outcome : {"handed_back", "aborted", "expired"}, operator_id : Operators \cup {NoOne},
     note : Events \cup {"none", "closed"}, reverified : BOOLEAN,
     intervention_id : Nat, step : 1..Steps]

TypeOK ==
    /\ file \in SessionStates \cup {NoFile}
    /\ cli \in [Operators -> [verb : Events \cup {"none", "looked"}, version : Nat \cup {-1}]]
    /\ age \in 0..WaitS /\ left \in 0..WaitS
    /\ windowOpen \in BOOLEAN /\ holding \in BOOLEAN /\ lost \in BOOLEAN /\ path \in BOOLEAN
    /\ faults \in 0..MaxFaults
    /\ pc \in PCs
    /\ at \in 1..SuccessCheck
    /\ origin \in {"flow", "nested", "post"}
    /\ pauses \in 0..MAX_HUMAN_PAUSES
    /\ handback = NoHandback
          \/ handback \in [intervention_id : 1..pauses, step : 1..Steps,
                            operator_id : Operators, note : Events]
    /\ recoveries \in Seq(RecordTypes)
    /\ acted \in Seq([step : 1..Steps, checked : Nat, version : Nat])
    /\ checked \in Nat
    /\ opened \in Seq(Nat) /\ Len(opened) = pauses
    /\ seen \in [phase : Phases, version : Nat]

-----------------------------------------------------------------------------
(* Who acts, and how often.                                                 *)

PhaseAt(version) == IF version = 0 THEN "running" ELSE History[version].to_phase

\* Automation acts on the app only by a control check it passed while it held the
\* session, and only an abort can have come between the check and the act.
ActsOnlyInControl ==
    \A i \in 1..Len(acted) :
        /\ PhaseAt(acted[i].checked) \in {"running", "resuming"}
        /\ \A v \in acted[i].checked + 1..acted[i].version : History[v].event = "abort"

\* No hand-back, however many there are and whenever the pause came, makes
\* automation perform a step's action again: a submit is never repeated.
NeverActsTwice ==
    \A i, j \in 1..Len(acted) : acted[i].step = acted[j].step => i = j

\* Nor is a step skipped unseen: a run that succeeds performed every step's
\* action, or its result names the human who was asked at that step and handed
\* the session back.
EveryStepIsAccountedFor ==
    result.status \in {"success", "recovered_then_success"} =>
        \A s \in 1..Steps :
            \/ \E i \in 1..Len(acted) : acted[i].step = s
            \/ \E i \in 1..Len(recoveries) :
                  recoveries[i].step = s /\ recoveries[i].outcome = "handed_back"

-----------------------------------------------------------------------------
(* Pauses and what the result says of them.                                 *)

Settled == pc \in {"ended", "closing", "closed"} /\ result.status # "crashed"

RecordsOf(k) == {i \in 1..Len(recoveries) : recoveries[i].intervention_id = k}

\* A run that ends by its own account has exactly one record for every pause it
\* opened, nested ones too.  (Losing control to an abort during a
\* re-verification is the exception: _result then has no place for the hand-back.)
EveryPauseIsRecordedOnce ==
    Settled /\ result.code # "OPERATOR_ABORTED" =>
        \A k \in 1..pauses : Cardinality(RecordsOf(k)) = 1

\* The transitions made while pause k was open.
During(k) ==
    {i \in 1..Len(History) :
        opened[k] < i /\ (k < Len(opened) => i <= opened[k + 1])}

\* A record names only somebody who took or aborted the session during that
\* very pause: nobody is blamed for a pause they never saw.
NobodyElseIsBlamed ==
    \A r \in {recoveries[i] : i \in 1..Len(recoveries)} :
        r.operator_id # NoOne =>
            \E i \in During(r.intervention_id) :
                /\ History[i].operator_id = r.operator_id
                /\ History[i].event \in {"take_control", "abort"}

\* A hand-back's note is the one its operator handed this pause back with, or
\* else that of somebody's abort since: never an earlier pause's, and never the
\* automation's.
NotesAreOfTheirPause ==
    \A r \in {recoveries[i] : i \in 1..Len(recoveries)} :
        r.outcome = "handed_back" =>
            \E i \in During(r.intervention_id) :
                /\ History[i].event = r.note
                /\ \/ r.note = "hand_back" /\ History[i].operator_id = r.operator_id
                   \/ r.note = "abort"

\* A plain success never had a session file at all; any other had every pause taken
\* by somebody, none of them aborted, and the last one handed back.
SuccessIsEarned ==
    /\ result.status = "success" => file = NoFile
    /\ result.status = "recovered_then_success" =>
          /\ recoveries[Len(recoveries)].outcome = "handed_back"
          /\ \A i \in 1..Len(recoveries) :
                recoveries[i].outcome # "aborted" /\ recoveries[i].operator_id # NoOne

\* Once the run has closed up, its session file does not claim a live session.
ClosedMeansFinished == pc = "closed" => file = NoFile \/ file.phase = "finished"

-----------------------------------------------------------------------------
(* Time.                                                                    *)

Takes(h) == {i \in 1..Len(h) : h[i].event = "take_control"}

Expired == HumanHolds /\ file'.phase = "finished" /\ Last(file'.history).event = "expire"

\* Taking control restarts the clock: the first person to take the session is
\* not expired before a full wait has passed since they took it.
FirstHoldGetsTheWindow ==
    [][Expired /\ Cardinality(Takes(History)) = 1 => age >= WaitS]_vars

\* What a run still has before it at a step, until it asks for a human again.
Ahead ==
    [opening |-> 15, opened |-> 14, pausing |-> 13, polling |-> 12, sleeping |-> 12,
     expiring |-> 11, collecting |-> 10, noting |-> 9,
     verifying |-> 8, rejudging |-> 7, confirming |-> 6,
     before |-> 5, deciding |-> 4, acting |-> 3, waiting |-> 2, judging |-> 1,
     ended |-> 0, closing |-> -1, closed |-> -2, killed |-> -3]

ComesCloser ==
    \/ pauses' > pauses
    \/ /\ pauses' = pauses
       /\ \/ at' > at
          \/ /\ at' = at
             /\ \/ Ahead[pc'] < Ahead[pc]
                \/ /\ Ahead[pc'] = Ahead[pc]
                   /\ \/ holding' /\ ~holding
                      \/ holding' = holding /\ left' <= left

\* A run only ever comes closer to its end: pauses it may still ask for, steps of
\* its flow, places within a step and a pause are used up and not given back.
\* Where it turns around, waiting for somebody, the deadline comes closer too, but
\* for the one time that it is moved for the first who takes the session.
RunComesCloser == [][ComesCloser]_vars

\* Every run ends.
RunEnds == <>(pc \in {"closed", "killed"})

-----------------------------------------------------------------------------
(* The session as ControlPromise sees it.                                   *)

SessionHolder == IF file = NoFile THEN "automation" ELSE Holder(file)

Promise == INSTANCE ControlPromise WITH holder <- SessionHolder
KeepsPromise == Promise!Spec

-----------------------------------------------------------------------------
(* What the code's own words say and the code does not do.                  *)

\* "Taking control restarts the clock: an operator who takes the session at the
\* last second gets the whole window to work in" (session/operator.py:241).
EveryHoldGetsTheWindow == [][Expired => age >= WaitS]_vars

\* "Finish a run as escalated without resuming it" (ops_abort, cli.py:594): an
\* abort ends the run with a record of it, not with a validation error.
AbortIsRecordable == result.code # "ValidationError"

\* "keep re-verifying it for as long as operators hand control back"
\* (engine.py:364): no hand-back unwinds out of the run.
EveryHandBackIsReverified == result.code # "_HandedBack"
=============================================================================
