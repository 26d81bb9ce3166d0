------------------------------ MODULE ReplayEngine ------------------------------
(***************************************************************************)
(* How the replay engine drives one flow (src/cua/replay/engine.py): each  *)
(* step resolves its target, acts, and polls its wait; every look at the   *)
(* page may match an outcome detector, whose recovery clicks something,    *)
(* keeps waiting, or re-runs earlier steps inside the interrupted wait; a  *)
(* stop unwinds through those nested waits, changing its owner on the way; *)
(* a hand-back unwinds them all and re-verifies the step; an operator who  *)
(* takes the session away ends the run from wherever it next looks or acts.*)
(*                                                                         *)
(* The page is an adversary: any look may find any detector's trigger, the *)
(* awaited condition, a refused request or nothing.  Artifacts choose      *)
(* freely whether a failure escalates.  A call stack is a variable here,   *)
(* so an exception is one step per level it passes.  Handoff looks inside  *)
(* a pause, which is one step here; the checks before a run starts, drift  *)
(* warnings, the evidence and the text of outputs are left out.            *)
(***************************************************************************)
EXTENDS Integers, SequencesExt

CONSTANTS
    Steps,            \* how many steps the flow has
    TargetSteps,      \* those that act on an element they must find first
    CheckpointSteps,  \* those whose wait is a checkpoint
    Reversible,       \* those the declaration or the policy rates reversible
    Irreversible,     \* those declared irreversible or answering a dialog
    PageRated,        \* those the gate may rate irreversible by what is on the page
    Detectors,
    Kind,             \* each detector's outcome or, when recoverable, its recovery
    Scope,            \* the steps each detector is looked for at
    OnTimeout,        \* detectors triggered by a checkpoint running out of time
    Reruns,           \* the steps a run_steps recovery re-runs, in order
    MaxAttempts,
    Timeout,          \* ticks a wait polls for
    Window,           \* ticks a wait_retry recovery keeps it polling for
    MAX_HUMAN_PAUSES

Kinds == {"business", "hard_failure", "click", "wait_retry", "run_steps"}

ASSUME StepsAssumption ==
    /\ Steps \in Nat \ {0}
    /\ UNION {TargetSteps, CheckpointSteps, Reversible, Irreversible, PageRated} \subseteq 1..Steps
ASSUME DetectorsAssumption ==
    /\ IsFiniteSet(Detectors)
    \* a detector stands for the code it declares, which is none of ENGINE_CODES
    /\ Detectors \cap {"none", "STEP_FAILED", "OUTPUT_EXTRACTION_FAILED", "OPERATOR_ABORTED"} = {}
    /\ Kind \in [Detectors -> Kinds]
    /\ Scope \in [Detectors -> SUBSET (1..Steps)]
    /\ OnTimeout \subseteq Detectors
    /\ MaxAttempts \in [Detectors -> Nat \ {0}]
ASSUME TimeAssumption == Timeout \in Nat /\ Window \in Nat /\ MAX_HUMAN_PAUSES \in Nat

\* What the artifact's validator demands of a run_steps recovery: it re-runs
\* steps in flow order, all before its scope, none irreversible, and every step
\* in its scope has a checkpoint to verify again.
ValidRerun(d) ==
    /\ Reruns[d] \in Seq(1..Steps)
    /\ Kind[d] = "run_steps" =>
          /\ Reruns[d] # << >>
          /\ \A i, j \in DOMAIN Reruns[d] : i < j => Reruns[d][i] < Reruns[d][j]
          /\ \A i \in DOMAIN Reruns[d] :
                /\ Reruns[d][i] \in (1..Steps) \ Irreversible
                /\ \A s \in Scope[d] : Reruns[d][i] < s
          /\ Scope[d] \subseteq CheckpointSteps

ASSUME RerunsAssumption == \A d \in Detectors : ValidRerun(d)

VARIABLES
    pc,           \* running, raising a stop, asking a human, unwinding, ended
    at,           \* the flow's step; Steps + 1 is the success check
    stack,        \* the step in progress and, inside its wait, the re-run ones
    stop,         \* the stop being raised or asked about
    reverifying,  \* _reverifying
    pauses,       \* _pauses
    answered,     \* whether _intervention_path is set
    attended,     \* whether an operator channel is attached
    attempts,     \* _attempts
    recoveries,   \* the result's recoveries, in order
    performed,    \* how often each step's action reached the app as irreversible
    result

vars == <<pc, at, stack, stop, reverifying, pauses, answered, attended, attempts,
          recoveries, performed, result>>

human == <<pauses, answered, attended>>
ledger == <<attempts, recoveries>>

SuccessCheck == Steps + 1

Recoverable(d) == Kind[d] \in {"click", "wait_retry", "run_steps"}

InScope(d, step) == step \in Scope[d]

\* One wait_retry budget per step; clicks and re-runs up to max_attempts.
Limit(d) == IF Kind[d] = "wait_retry" THEN 1 ELSE MaxAttempts[d]

-----------------------------------------------------------------------------
(* A step in progress and the poll it is in.                                *)

NoWindow == -1

NotOpened == [open |-> FALSE, window |-> NoWindow]

\* use says which poll it is in: for its target, its wait, that wait again after
\* a hand-back, one pass of detectors, the success check, or an output; or
\* that it is about to act, or has had its one pass.  rest is what a run_steps
\* recovery of detector via still has to re-run, skip that the wait is left out.
Poll(step, use, budget, skip) ==
    [step |-> step, use |-> use, opened |-> [d \in Detectors |-> NotOpened],
     left |-> Timeout, budget |-> budget, skip |-> skip, via |-> "none", rest |-> << >>]

StartStep(step, skip) ==
    Poll(step, IF step \in TargetSteps THEN "resolve" ELSE "act", Timeout, skip)

Top == Last(stack)

Opened(f) == {d \in Detectors : f.opened[d].open}

\* Recoveries of this poll whose wait_retry window was opened, ended or not.
Windows(f) == {d \in Opened(f) : f.opened[d].window # NoWindow}

Live(f) == {d \in Windows(f) : f.opened[d].window > 0}

Replace(f) == stack' = Append(Front(stack), f)

\* _close: a record for every recovery this poll opened.
Records(f, succeeded) ==
    LET record(d) == [type |-> "automatic", step |-> f.step, detector |-> d,
                      succeeded |-> succeeded]
    IN  SetToSeq({record(d) : d \in Opened(f)})

Close(f, succeeded) == recoveries' = recoveries \o Records(f, succeeded)

HumanRecord(outcome) ==
    [type |-> "human", step |-> at, detector |-> "none", succeeded |-> outcome = "handed_back"]

\* Time passes for every poll on the stack; a window that has ended stays ended.
Tick(s) ==
    LET less(n) == IF n > 0 THEN n - 1 ELSE n
    IN  [i \in DOMAIN s |->
            [s[i] EXCEPT !.left = less(@), !.budget = less(@),
                         !.opened = [d \in Detectors |->
                             [s[i].opened[d] EXCEPT !.window = less(@)]]]]

NoStop == [status |-> "none", code |-> "none", reason |-> "none"]

Init ==
    /\ pc = "running"
    /\ at = 1
    /\ stack = << StartStep(1, FALSE) >>
    /\ stop = NoStop
    /\ reverifying = FALSE
    /\ pauses = 0
    /\ answered = FALSE
    /\ attended \in BOOLEAN
    /\ attempts = [s \in 1..Steps |-> [d \in Detectors |-> 0]]
    /\ recoveries = << >>
    /\ performed = [s \in 1..Steps |-> 0]
    /\ result = "none"

-----------------------------------------------------------------------------
(* Stops.                                                                   *)

RaiseAs(status, code) ==
    /\ pc' = "raising"
    /\ stop' = [status |-> status, code |-> code, reason |-> "none"]

Raise(code) == RaiseAs("hard_failure", code)

Ask(code, reason) ==
    /\ pc' = "asking"
    /\ stop' = [status |-> "hard_failure", code |-> code, reason |-> reason]

\* A step's on_fail, a detector's escalate or a recovery's on_exhausted decides.
RaiseOrAsk(code) == Raise(code) \/ Ask(code, "FAILED")

\* What a re-run step can fail with that means its recovery did not work.
RecoveryStepFailures == {"STEP_FAILED"}

\* Stops nobody is asked about, whoever raises them: a refused request, a
\* blocked action, an unexpected dialog, a confirmation nobody gave.
PolicyStop == Raise("POLICY_BLOCKED")

-----------------------------------------------------------------------------
(* One look of a poll.                                                      *)

Polling == pc = "running" /\ Top.use \notin {"act", "passed"}

LookBlocked ==
    /\ Polling
    /\ PolicyStop
    /\ UNCHANGED <<at, stack, reverifying, human, ledger, performed, result>>

\* The interrupted wait goes on with its full timeout; a single pass is over.
Resumed(f) ==
    [f EXCEPT !.left = Timeout, !.via = "none",
              !.use = IF @ = "pass" THEN "passed" ELSE @]

Used(f, d) == attempts[f.step][d]

\* Mutant of NoMoreTries.
OverTheLimit(f, d) == Used(f, d) > Limit(d)

NoMoreTries(f, d) == Used(f, d) >= Limit(d)

Opening(f, d) == [f EXCEPT !.opened[d].open = TRUE]

\* _exhausted: the recovering detector owns the failure.
Exhaust(f, d) ==
    /\ Replace(Opening(f, d))
    /\ RaiseOrAsk(d)
    /\ UNCHANGED ledger

\* Mutant of Count.
NotCounted(f, d) == UNCHANGED ledger

\* Counted per step and detector, across all of a step's waits.
Count(f, d) ==
    /\ attempts' = [attempts EXCEPT ![f.step][d] = Used(f, d) + 1]
    /\ UNCHANGED recoveries

\* _recovery_click passes the gate like any click; a click that fails, or finds
\* nothing to click, still used its attempt.
RecoverByClick(f, d) ==
    /\ Kind[d] = "click"
    /\ Count(f, d)
    /\ \/ Replace(Resumed(Opening(f, d))) /\ UNCHANGED <<pc, stop>>
       \/ Replace(Opening(f, d)) /\ PolicyStop
       \/ Replace(Opening(f, d)) /\ Ask("POLICY_BLOCKED", "IRREVERSIBLE_NEEDS_HUMAN")

\* A wait_retry recovery sets its trigger aside and keeps polling for Window.
RecoverByWaiting(f, d) ==
    /\ Kind[d] = "wait_retry"
    /\ Count(f, d)
    /\ Replace([Opening(f, d) EXCEPT !.opened[d].window = Window,
                                     !.use = IF @ = "pass" THEN "passed" ELSE @])
    /\ UNCHANGED <<pc, stop>>

\* Push the next step to re-run; the last one's wait is the interrupted one.
Rerun(below, f, steps) ==
    stack' = below \o << [f EXCEPT !.rest = Tail(steps)],
                         StartStep(Head(steps), Len(steps) = 1) >>

RecoverByRerunning(f, d) ==
    /\ Kind[d] = "run_steps"
    /\ Count(f, d)
    /\ Rerun(Front(stack), [Opening(f, d) EXCEPT !.via = d], Reruns[d])
    /\ UNCHANGED <<pc, stop>>

\* _handle.
Handle(f, d) ==
    \/ /\ Kind[d] = "business"
       /\ RaiseAs("business_outcome", d)
       /\ UNCHANGED <<stack, ledger>>
    \/ /\ Kind[d] = "hard_failure"
       /\ RaiseOrAsk(d)
       /\ UNCHANGED <<stack, ledger>>
    \/ Recoverable(d) /\ NoMoreTries(f, d) /\ Exhaust(f, d)
    \/ /\ Recoverable(d)
       /\ ~NoMoreTries(f, d)
       /\ RecoverByClick(f, d) \/ RecoverByWaiting(f, d) \/ RecoverByRerunning(f, d)

\* A detector in scope matches.  One whose window is open is set aside.
LookMatches(d) ==
    /\ Polling
    /\ InScope(d, Top.step)
    /\ d \notin OnTimeout \cup Windows(Top)
    /\ Handle(Top, d)
    /\ UNCHANGED <<at, reverifying, human, performed, result>>

\* The recovery that failed to bring a poll back: one that acted, else a window.
Owners(f) == IF Opened(f) = Windows(f) THEN Windows(f) ELSE Opened(f) \ Windows(f)

OwnFailure(f) ==
    IF f.use = "read" THEN "OUTPUT_EXTRACTION_FAILED" ELSE "STEP_FAILED"

\* Mutant of TimedOut.
BlameTheStep(f) == RaiseOrAsk(OwnFailure(f))

TimedOut(f) ==
    IF Opened(f) # {} THEN \E d \in Owners(f) : RaiseOrAsk(d)
    ELSE RaiseOrAsk(OwnFailure(f))

HasCheckpoint(f) ==
    f.use \in {"rewait", "success"} \/ (f.use = "wait" /\ f.step \in CheckpointSteps)

\* The look found nothing.
Waits ==
    /\ Polling
    /\ Top.use # "pass"
    /\ Live(Top) # {} \/ (Windows(Top) = {} /\ Top.left > 0)
    /\ stack' = Tick(stack)
    /\ UNCHANGED <<pc, at, stop, reverifying, human, ledger, performed, result>>

WindowsEnd ==
    /\ Polling
    /\ Windows(Top) # {} /\ Live(Top) = {}
    /\ TimedOut(Top)
    /\ UNCHANGED <<at, stack, reverifying, human, ledger, performed, result>>

OutOfTime == Polling /\ Top.use # "pass" /\ Windows(Top) = {} /\ Top.left = 0

DeadlineMatches(d) ==
    /\ OutOfTime
    /\ HasCheckpoint(Top)
    /\ InScope(d, Top.step) /\ d \in OnTimeout
    /\ Handle(Top, d)
    /\ UNCHANGED <<at, reverifying, human, performed, result>>

DeadlinePasses ==
    /\ OutOfTime
    /\ TimedOut(Top)
    /\ UNCHANGED <<at, stack, reverifying, human, ledger, performed, result>>

-----------------------------------------------------------------------------
(* A poll that verifies, and what comes next.                               *)

\* A flow step is done, or a re-run one and with it perhaps the recovery.
StepDone ==
    IF Len(stack) = 1
    THEN /\ at' = at + 1
         /\ stack' = << IF at = Steps THEN Poll(Steps, "success", 0, FALSE)
                        ELSE StartStep(at + 1, FALSE) >>
    ELSE LET outer == Last(Front(stack))
             below == Front(Front(stack))
         IN  /\ UNCHANGED at
             /\ IF outer.rest = << >> THEN stack' = Append(below, Resumed(outer))
                ELSE Rerun(below, outer, outer.rest)

TargetFound ==
    /\ Polling
    /\ Top.use = "resolve"
    /\ Close(Top, TRUE)
    /\ Replace([Poll(Top.step, "act", Top.budget, Top.skip) EXCEPT !.left = 0])
    /\ UNCHANGED <<pc, at, stop, reverifying, human, attempts, performed, result>>

WaitPasses ==
    /\ Polling
    /\ Top.use = "wait"
    /\ Close(Top, TRUE)
    /\ StepDone
    /\ UNCHANGED <<pc, stop, reverifying, human, attempts, performed, result>>

CheckSucceeds ==
    /\ Polling
    /\ Top.use = "success"
    /\ Close(Top, TRUE)
    /\ Replace(Poll(Steps, "read", 0, FALSE))
    /\ UNCHANGED <<pc, at, stop, reverifying, human, attempts, performed, result>>

End(status) == pc' = "ended" /\ result' = status

\* Mutant of Finish.
FinishPlainly(known) == End("success")

Finish(known) ==
    End(IF known = << >> THEN "success" ELSE "recovered_then_success")

OutputRead ==
    /\ Polling
    /\ Top.use = "read"
    /\ Close(Top, TRUE)
    /\ stack' = << >>
    /\ Finish(recoveries')
    /\ UNCHANGED <<at, stop, reverifying, human, attempts, performed>>

\* The element was found and what it says does not parse, or reading it is
\* refused, or something the page did meanwhile was.
OutputUnreadable ==
    /\ Polling
    /\ Top.use = "read"
    /\ Close(Top, TRUE)
    /\ Replace(Poll(Steps, "read", 0, FALSE))
    /\ Raise("OUTPUT_EXTRACTION_FAILED") \/ PolicyStop
    /\ UNCHANGED <<at, reverifying, human, attempts, performed, result>>

\* The hand-back verified: the flow goes on behind the step it paused at, or the
\* success check starts over.
HandbackVerified ==
    /\ pc = "running"
    /\ Top.use \in {"rewait", "pass", "passed"}
    /\ recoveries' = Append(recoveries \o Records(Top, TRUE), HumanRecord("handed_back"))
    /\ reverifying' = FALSE
    /\ at' = IF at = SuccessCheck THEN at ELSE at + 1
    /\ stack' = << IF at >= Steps THEN Poll(Steps, "success", 0, FALSE)
                   ELSE StartStep(at + 1, FALSE) >>
    /\ UNCHANGED <<pc, stop, human, attempts, performed, result>>

-----------------------------------------------------------------------------
(* A step's action.                                                         *)

Acting == pc = "running" /\ Top.use = "act"

\* The gate rates an action by the page as well as by what is declared: once
\* before the act, to know whether a failed act may be retried, and again in
\* perform.  Both read the page, so they need not agree.
Declared(step) ==
    IF step \in Irreversible THEN "irreversible"
    ELSE IF step \in Reversible THEN "reversible" ELSE "safe"

Ratings(step) ==
    {Declared(step)} \cup (IF step \in PageRated THEN {"irreversible"} ELSE {})

Reached(step) ==
    \E rated \in Ratings(step) :
        performed' = [performed EXCEPT ![step] = IF rated = "irreversible" THEN @ + 1 ELSE @]

\* Refused, or an irreversible act whose target has changed: nothing reached the
\* app.
ActRefused ==
    /\ Acting
    /\ \/ PolicyStop
       \/ /\ "irreversible" \in Ratings(Top.step)
          /\ \/ Ask("POLICY_BLOCKED", "IRREVERSIBLE_NEEDS_HUMAN")
             \/ Top.step \in TargetSteps /\ RaiseOrAsk("TARGET_CHANGED")
    /\ UNCHANGED <<at, stack, reverifying, human, ledger, performed, result>>

ActWorks ==
    /\ Acting
    /\ Reached(Top.step)
    /\ IF Top.skip THEN StepDone
       ELSE /\ Replace(Poll(Top.step, "wait", 0, FALSE))
            /\ UNCHANGED at
    /\ UNCHANGED <<pc, stop, reverifying, human, ledger, result>>

\* Mutant of Retryable.
AlwaysRetryable(rated) == TRUE

Retryable(rated) == rated # "irreversible"

\* A failed act may still have reached the server.  It is retried while the
\* step's timeout lasts, or the step fails; an unexpected dialog stops the run.
ActFails ==
    /\ Acting
    /\ \E judged \in Ratings(Top.step) :
          /\ Reached(Top.step) \/ UNCHANGED performed
          /\ \/ /\ Retryable(judged) /\ Top.budget > 0
                /\ stack' = Append(Tick(Front(stack)),
                       [StartStep(Top.step, Top.skip) EXCEPT !.budget = Top.budget - 1])
                /\ UNCHANGED <<pc, stop>>
             \/ /\ ~Retryable(judged) \/ Top.budget = 0
                /\ RaiseOrAsk("STEP_FAILED")
                /\ UNCHANGED stack
             \/ PolicyStop /\ UNCHANGED stack
    /\ UNCHANGED <<at, reverifying, human, ledger, result>>

-----------------------------------------------------------------------------
(* Asking a human (_escalate), and unwinding.                               *)

\* A stop raised while re-verifying belongs to the hand-back being verified,
\* unless it asks for what replay will not do itself.
BelongsToHandback == reverifying /\ stop.reason # "IRREVERSIBLE_NEEDS_HUMAN"

NobodyIsAsked ==
    /\ pc = "asking"
    /\ BelongsToHandback \/ pauses >= MAX_HUMAN_PAUSES \/ ~attended
    /\ pc' = "raising"
    /\ stop' = [stop EXCEPT
          !.status = IF ~BelongsToHandback /\ answered THEN "escalated" ELSE @]
    /\ pauses' = IF BelongsToHandback \/ pauses >= MAX_HUMAN_PAUSES THEN pauses
                 ELSE pauses + 1
    /\ UNCHANGED <<at, stack, reverifying, answered, attended, ledger, performed, result>>

HumanIsAsked ==
    /\ pc = "asking"
    /\ attended
    /\ ~BelongsToHandback
    /\ pauses < MAX_HUMAN_PAUSES
    /\ pauses' = pauses + 1
    /\ answered' = TRUE
    /\ \/ /\ pc' = "unwinding"
          /\ UNCHANGED <<stop, recoveries>>
       \/ /\ pc' = "raising"
          /\ stop' = [stop EXCEPT !.status = "escalated"]
          /\ recoveries' = Append(recoveries, HumanRecord("not_handed_back"))
    /\ UNCHANGED <<at, stack, reverifying, attended, attempts, performed, result>>

\* Mutant of OptionalMiss.
AnyMiss == stop.status = "hard_failure"

\* An output the artifact does not require may be missed, unless a recovery
\* failed on the way to it.
OptionalMiss ==
    /\ stop.status = "hard_failure"
    /\ stop.code = "OUTPUT_EXTRACTION_FAILED"
    /\ Opened(Top) = {}

OutputSkipped ==
    /\ pc = "raising"
    /\ stack # << >>
    /\ Len(stack) = 1 /\ Top.use = "read"
    /\ OptionalMiss
    /\ Close(Top, FALSE)
    /\ stack' = << >>
    /\ \/ Finish(recoveries') /\ UNCHANGED stop
       \/ PolicyStop /\ UNCHANGED result
    /\ UNCHANGED <<at, reverifying, human, attempts, performed>>

\* A re-run step could not be done, so the recovery that re-ran it has failed.
RerunFailed ==
    /\ Len(stack) > 1
    /\ stop.status = "hard_failure" /\ stop.code \in RecoveryStepFailures

\* A stop passes one level: the poll's recoveries failed with it, and a run_steps
\* recovery around it takes the blame for a failed re-run.
Unwind ==
    /\ pc = "raising"
    /\ stack # << >>
    /\ Close(Top, FALSE)
    /\ stack' = Front(stack)
    /\ IF RerunFailed
       THEN RaiseOrAsk(Last(Front(stack)).via)
       ELSE UNCHANGED <<pc, stop>>
    /\ UNCHANGED <<at, reverifying, human, attempts, performed, result>>

\* Mutant of RecordInterrupted.
DropInterrupted(f) == UNCHANGED recoveries

\* A hand-back unwinds past every poll too, and what it interrupted still belongs
\* in the result.
RecordInterrupted(f) == Close(f, FALSE)

UnwindHandback ==
    /\ pc = "unwinding"
    /\ stack # << >>
    /\ RecordInterrupted(Top)
    /\ stack' = Front(stack)
    /\ UNCHANGED <<pc, at, stop, reverifying, human, attempts, performed, result>>

\* _step_with_handbacks and _finish_with_handbacks catch it and re-verify; out of
\* a re-verification nothing catches it.
Reverify ==
    /\ pc = "unwinding"
    /\ stack = << >>
    /\ LET step == IF at = SuccessCheck THEN Steps ELSE at
       IN  IF reverifying
           THEN End("crashed") /\ UNCHANGED <<stack, stop, reverifying>>
           ELSE /\ pc' = "running"
                /\ stop' = NoStop
                /\ reverifying' = TRUE
                /\ stack' = << Poll(step, IF step \in CheckpointSteps THEN "rewait" ELSE "pass",
                                    0, FALSE) >>
                /\ UNCHANGED result
    /\ UNCHANGED <<at, human, ledger, performed>>

\* _reverify's except: the hand-back is recorded, and asked about again.
HandbackFails ==
    /\ pc = "raising"
    /\ stack = << >>
    /\ reverifying
    /\ reverifying' = FALSE
    /\ recoveries' = Append(recoveries, HumanRecord("handed_back"))
    /\ Ask("POST_HANDOFF_CHECKPOINT_FAILED", "POST_HANDOFF_CHECKPOINT_FAILED")
    /\ UNCHANGED <<at, stack, human, attempts, performed, result>>

StopEndsRun ==
    /\ pc = "raising"
    /\ stack = << >>
    /\ ~reverifying
    /\ End(stop.status)
    /\ UNCHANGED <<at, stack, stop, reverifying, human, ledger, performed>>

-----------------------------------------------------------------------------
(* An operator takes the session away.                                      *)

\* The control hook looks at the file that the first pause writes; from then on
\* an operator may abort, and every look and act after that raises NotInControl.
Abortable == answered

\* Whether this poll still asks the page anything: a pass of detectors looks only
\* for those in scope, and lets the app answer only a recovery that acted.
AsksThePage(f) ==
    /\ f.use = "pass" => \E d \in Detectors \ OnTimeout : InScope(d, f.step)
    /\ f.use = "passed" => Opened(f) # Windows(f)

\* run() ends as the escalation it already was (_control_lost).
ControlLost ==
    /\ End("escalated")
    /\ stop' = [status |-> "escalated", code |-> "OPERATOR_ABORTED", reason |-> "none"]
    /\ UNCHANGED <<at, reverifying, human, attempts, performed>>

\* No poll catches it on its way, as they do a stop and a hand-back: none is
\* closed, and the stack stays as what was in progress.
LosesControl ==
    /\ pc = "running"
    /\ Abortable /\ AsksThePage(Top)
    /\ ControlLost
    /\ UNCHANGED <<stack, recoveries>>

\* The page is also read right after a poll is closed: for what an output says, and
\* for what a failed re-run left on the screen.
LosesControlBehindAPoll ==
    /\ Abortable
    /\ \/ pc = "running" /\ Top.use = "read" /\ Close(Top, TRUE)
       \/ pc = "raising" /\ RerunFailed /\ Close(Top, FALSE)
    /\ stack' = Front(stack)
    /\ ControlLost

-----------------------------------------------------------------------------
Next ==
    \/ LookBlocked
    \/ \E d \in Detectors : LookMatches(d) \/ DeadlineMatches(d)
    \/ Waits \/ WindowsEnd \/ DeadlinePasses
    \/ TargetFound \/ WaitPasses \/ CheckSucceeds \/ OutputRead \/ OutputUnreadable
    \/ HandbackVerified
    \/ ActRefused \/ ActWorks \/ ActFails
    \/ NobodyIsAsked \/ HumanIsAsked
    \/ OutputSkipped \/ Unwind \/ UnwindHandback
    \/ Reverify \/ HandbackFails \/ StopEndsRun
    \/ LosesControl \/ LosesControlBehindAPoll

\* The engine is one thread that never waits for anything but time.
Spec == Init /\ [][Next]_vars /\ WF_vars(Next)
-----------------------------------------------------------------------------
PCs == {"running", "asking", "raising", "unwinding", "ended"}

Uses == {"resolve", "act", "wait", "rewait", "pass", "passed", "success", "read"}

FrameOK(f) ==
    /\ f.step \in 1..Steps /\ f.use \in Uses /\ f.skip \in BOOLEAN
    /\ f.left \in 0..Timeout /\ f.budget \in 0..Timeout
    /\ f.opened \in [Detectors -> [open : BOOLEAN,
                                   window : (0..Window) \cup {NoWindow}]]
    /\ f.via \in Detectors \cup {"none"}

TypeOK ==
    /\ pc \in PCs
    /\ at \in 1..SuccessCheck
    /\ \A i \in 1..Len(stack) : FrameOK(stack[i])
    /\ reverifying \in BOOLEAN /\ answered \in BOOLEAN /\ attended \in BOOLEAN
    /\ pauses \in 0..MAX_HUMAN_PAUSES
    /\ attempts \in [1..Steps -> [Detectors -> Nat]]
    /\ performed \in [1..Steps -> Nat]

\* However its waits, retries, re-runs and hand-backs interleave, a step never
\* has more recoveries of one kind than its detector allows, all its waits
\* together.
AttemptsAreCapped ==
    \A s \in 1..Steps, d \in Detectors : Recoverable(d) => attempts[s][d] <= Limit(d)

\* A step declared irreversible, or answering a dialog, reaches the app at most
\* once: not by a retry, not by a recovery, not after a human.
DeclaredOnce == \A s \in Irreversible : performed[s] <= 1

RecordsOf(s, d) ==
    {i \in 1..Len(recoveries) : recoveries[i].step = s /\ recoveries[i].detector = d}

\* The recovery was in progress where an operator took the session away.
CutOff(s, d) ==
    /\ stop.code = "OPERATOR_ABORTED"
    /\ \E i \in 1..Len(stack) : stack[i].step = s /\ stack[i].opened[d].open

\* Every recovery a run began is in its result, whatever stop ends the run and
\* whatever stop or hand-back pulls it out of how many waits.  Only an operator who
\* takes the session away loses any, and then only those still in progress.
EveryRecoveryIsRecorded ==
    pc = "ended" /\ result # "crashed" =>
        \A s \in 1..Steps, d \in Detectors :
            attempts[s][d] > 0 => RecordsOf(s, d) # {} \/ CutOff(s, d)

HandbackAfter(i) ==
    \E j \in i + 1..Len(recoveries) : recoveries[j].type = "human" /\ recoveries[j].succeeded

Failed(i) == recoveries[i].type = "automatic" /\ ~recoveries[i].succeeded

\* A run that succeeds left no failed recovery behind it, unless a human handed
\* the run back after it: the flow never just carries on past one.
SuccessIsVerified ==
    result \in {"success", "recovered_then_success"} =>
        \A i \in 1..Len(recoveries) : Failed(i) => HandbackAfter(i)

\* A recovery that did not help owns the failure: a run that stops with a step's
\* own failure had no recovery failing, since a human last handed it back.
RecoveryOwnsItsFailure ==
    result = "hard_failure" /\ stop.code \in {"STEP_FAILED", "OUTPUT_EXTRACTION_FAILED"} =>
        \A i \in 1..Len(recoveries) : Failed(i) => HandbackAfter(i)

\* The result that the run builds at its end is one its own validators take (an
\* exception there would lose the result): a plain success shows no recovery, a
\* recovered one shows one that helped or a human who handed back, and only a
\* run that a human was asked about says escalated.
ResultIsAccepted ==
    /\ result = "success" => recoveries = << >>
    /\ result = "recovered_then_success" =>
          \E i \in 1..Len(recoveries) : recoveries[i].succeeded
    /\ result = "escalated" => answered

-----------------------------------------------------------------------------
(* That it ends.                                                            *)

\* However recoveries re-run steps inside the waits of re-run steps, waits never
\* nest deeper than the flow is long.
NestingIsBounded == Len(stack) <= Steps

\* What a poll has before it.
UseRank ==
    [resolve |-> 2, act |-> 1, wait |-> 0, pass |-> 3, rewait |-> 2, passed |-> 2,
     success |-> 1, read |-> 0]

\* Frame g is frame f with less time, less of its step, or less to re-run left.
LaterPoll(f, g) ==
    \/ g.budget < f.budget
    \/ /\ g.budget = f.budget
       /\ \/ UseRank[g.use] < UseRank[f.use]
          \/ /\ g.use = f.use
             /\ \/ f.via # "none" /\ g.via = "none"
                \/ f.via = g.via /\ Len(g.rest) < Len(f.rest)
                \/ /\ f.via = g.via /\ f.rest = g.rest
                   /\ g.left <= f.left
                   /\ \A d \in Detectors : g.opened[d].window <= f.opened[d].window
                   /\ g.left < f.left
                      \/ \E d \in Detectors : g.opened[d].window < f.opened[d].window

\* Some frame has become a later one and so has, if it changed, every one below it;
\* what is above it may be anything.
LaterStack(s, t) ==
    \E i \in 1..Len(s) :
        /\ i <= Len(t)
        /\ LaterPoll(s[i], t[i])
        /\ \A j \in 1..i - 1 : t[j] = s[j] \/ LaterPoll(s[j], t[j])

MoreAttempts ==
    /\ attempts' # attempts
    /\ \A s \in 1..Steps, d \in Detectors : attempts'[s][d] >= attempts[s][d]

StageRank ==
    [unwinding |-> 3, running |-> 2, asking |-> 1, raising |-> 1, ended |-> 0]

\* A step of a run that neither pauses nor changes its stage.
Advances ==
    IF pc = "running"
    THEN \/ MoreAttempts
         \/ /\ attempts' = attempts
            /\ at' > at \/ (at' = at /\ LaterStack(stack, stack'))
    ELSE \/ Len(stack') < Len(stack)
         \/ stack' = stack /\ pc = "asking" /\ pc' = "raising"

UsesSomethingUp ==
    \/ pauses' > pauses
    \/ /\ pauses' = pauses
       /\ \/ StageRank[pc'] < StageRank[pc]
          \/ /\ StageRank[pc'] = StageRank[pc]
             /\ \/ reverifying /\ ~reverifying'
                \/ reverifying' = reverifying /\ Advances

\* Every step of the run uses up something that it has only so much of: a pause, a
\* stage on the way to the next, a recovery's attempts, a step of the flow, or the
\* time of a wait.  No recovery, retry, re-run or hand-back gives any back that is
\* worth more than what it costs, which is why the run ends.
EveryStepUsesSomethingUp == [][UsesSomethingUp]_vars

\* Whatever the page shows, the run ends.
RunEnds == <>(pc = "ended")
=============================================================================
