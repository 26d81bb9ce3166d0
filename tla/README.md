# cua-record-replay in TLA+

`cua` records what a model does in a browser as a *capability artifact* (steps,
detectors, recoveries, outputs), lets people approve it, and replays it without
a model. A replay that cannot go on pauses, hands the browser to a human
operator, and re-verifies what it gets back. This directory models the parts of
that which are hard to test, checks them with TLC on small instances, and proves
with TLAPS, for every size, nearly all of the safety properties those checks
state (section 4).

All paths below are relative to `src/src/cua/` unless they start with `src/`.

## 1. Inventory

| component | state it keeps | operations | talks to | hard behaviour | correct when |
|---|---|---|---|---|---|
| session state machine and store (`session/state.py`) | `session_state.json`: phase, version, operator, intervention, history; a lock file | `advance`, `create`, `read`, `transition`, `require_automation` | read and written by the run's process and by every ops command | processes interleave, die between lock, temporary file and rename; unlocked reads | one writer at a time; nothing overwritten; the history only grows; only the taker lets go |
| operator channel (`session/operator.py`, `session/intervention.py`) | whether a hold was seen, whether the window is gone, the open pause's deadline | pause, poll, expire, window gone, end, hand back, confirm, close | session file; called by the engine; page for its sleeps | polling against commands, deadlines, a closed window, failed writes | a pause is always answered, recorded once, and blamed on nobody else |
| ops commands (`cli.py`) | what they read | `take-control`, `hand-back`, `abort` (read, check alive, transition with the read version) | session file | the read is stale when used | a command lands only on the state it was decided on |
| replay engine, hand-backs (`replay/engine.py`) | pauses, intervention path, hand-back being verified, recoveries | `run`, `_step_with_handbacks`, `_finish_with_handbacks`, `_reverify`, `_escalate` | channel, gated surface | exceptions that unwind; a pause raised inside a re-verification; aborts between look and act | no action twice, no step skipped, ends with what happened |
| replay engine, steps (`replay/engine.py`, `replay/conditions.py`) | attempts per step and detector, open recoveries of each wait, deadlines | resolve, guard, perform, wait, detect, click, keep waiting, re-run, exhaust, read outputs | gated surface | waits nest inside waits; recoveries restart them; retries of acts that may have landed; an abort from any look or act | bounded recoveries, recorded unless an abort cuts them off; a failure has the right owner; it ends |
| replay result (`replay/result.py`, `replay/extract.py`) | — | validators, contract of outputs | built by the engine | a record the validator refuses crashes the run | status, recoveries and human records agree |
| replay entry (`replay/run.py`) | run directory, lease | preflight refusals, crash path, closing the session, stability batch | engine, channel, evidence | interrupts and crashes with an open pause | the session file never outlives its run |
| artifact, versions, catalog (`artifact/*.py`) | catalog files | validate, save, approve, bump, override | discovery writes, replay reads | check-then-write without a lock | only approved, valid, monotone versions replay |
| policy gate (`policy/gate.py`, `models.py`, `fit.py`) | — | `check`, path normalisation, rule precedence | asked about every act and request | conflicting rules, path spellings | the strictest matching rule decides |
| gated surface (`policy/enforce.py`) | pending confirmation | `judge`, `perform`, `confirm` | wraps the surface for engine and discovery | the page changes between rating and act | nothing ungated reaches the page |
| redaction (`policy/redact.py`) | — | text substitution | evidence | — | — |
| discovery (`discover/*.py`) | transcript, stuck windows, armed confirmation, recorded steps | `_run` turn loop, `StuckDetector`, `record` | model, gated surface, evidence, catalog | a confirmation that outlives its call; late events | a confirmation covers one call; a stuck run stops |
| recorder (`discover/record.py`) | — | propose parameters, derive waits and success, template, build the draft | discovery hands it the recording, a person accepts parameters, the catalog saves the draft | literals inside literals; what one run's screens showed is asserted of every other | a replay with other inputs does what the flow would with them, and waits for what it shows |
| locator ladder (`locate/*.py`) | — | resolve, record | engine, discovery | ambiguous matches between rungs | first rung with exactly one match |
| browser surface (`surface/*.py`, `locator.js`) | open act, dialogs, routes | act, snapshot, callbacks | playwright | callbacks during and after an act; requests while a human holds the browser | events belong to the act that caused them |
| evidence (`evidence/*.py`) | files of a run | append, scrub | everybody | — | — |
| mock application (`src/mock_app/*.py`) | ledger, sessions, armed faults | injected faults, requests | the surface under test | threads fire and clear counted faults | a fault with count *n* fires *n* times |

`PROJECT.json` lists the same components with their status, and under `hazards`
every place where a test would hardly reach, with the properties that would
catch it going wrong.

## 2. Modules

    SessionState       the transition table, advance, the control check    (pure)
      |-- SessionStateProofs    what advance does to a file and its history (TLAPS)
      |-- ControlPromise        what session control promises              (abstract)
      |-- SessionStore          the file, its lock, its processes     implements ControlPromise
      |     `-- SessionStoreProofs    (with SessionStateProofs)            (TLAPS)
      `-- Handoff               engine + channel + ops commands + clock   implements ControlPromise
            |-- MCHandoff
            `-- HandoffProofs         (with SessionStateProofs)            (TLAPS)
    ReplayEngine       one flow against an adversarial page
      |-- MCReplayEngine
      `-- ReplayEngineProofs                                               (TLAPS)
    Surface            gate, gated browser surface and its callbacks, under session control
      |-- MCSurface
      `-- SurfaceProofs                                                    (TLAPS)
    Discovery          the turn loop against any model, page and policy
      |-- MCDiscovery
      `-- DiscoveryProofs                                                  (TLAPS)
    Recorder           from a recording to a draft, and what a replay of it does (pure)
      |-- MCRecorder        flows, screens and values for TLC
      `-- Catalog           version files, discoveries that end in a draft, saves,
            |               approvals, the refusals before a replay
            |-- MCCatalog       (with MCRecorder)
            `-- CatalogProofs                                              (TLAPS)
    MockApp            the application under test: requests on threads
      |-- MCMockApp
      `-- MockAppProofs                                                    (TLAPS)

**SessionState** is `session/state.py` down to line 223: `TRANSITIONS`,
`ALLOWED_ACTORS`, `CONTROLLER_FOR`, `Permitted`/`Advance` (`advance`) and
`AutomationHolds` (`require_automation`). Timestamps, notes and the run id are
left out: no decision reads them.

**SessionStore** is `StateStore`. `transition` is five actions: `Acquire`
(flock), `Refuse` or `WriteTemporary` (read again, compare versions, advance,
write `.tmp`), `Replace` (`os.replace`), `Release`. `Read` and `Request` are the
caller's unlocked read and what it decides from it; `Die` may happen between any
two of them and drops the flock, as the kernel does. `Create` is one action: the
run's process is the only one with nothing to read yet. Operators pass the
version they read; the run passes it for its pause and expiry and passes none
for `finish` and `checkpoint_reverified` (`PassesVersion`).

**ControlPromise** is one variable, `holder`: automation, nobody (paused), a
person, verifying, over. It says who may follow whom. `SessionStore` and
`Handoff` both implement it: each instantiates it with
`INSTANCE ControlPromise WITH holder <- SessionHolder`, the holder read off the
file's phase, and `KeepsPromise` is the instance's specification.

**Handoff** is one whole replay that may pause: the engine's steps and their
re-verification (`pc`, `at`, `origin`, `pauses`, `path`, `handback`,
`recoveries`), the channel (`opened`, `seen`, `holding`, `lost`, `left`), ops
commands in other processes (`cli`), the browser window a person may close, and
the clock. Since `SessionStore` shows a transition takes effect at its rename, a
transition is one step here, while a read and the transition decided on it
remain two. A step of the flow is reduced to acting, verifying, stopping, or
asking for a human before or after its action. `origin` says where an escalation
was raised: in the flow, after a re-verification that failed (`post`), or by a
recovery inside one (`nested`); the three unwind to different places.

**ReplayEngine** looks inside a step: `stack` is the engine's call stack of polls
(the step in progress and, inside its wait, the steps a `run_steps` recovery
re-runs), each with its deadline, its step budget and the recoveries it opened.
An exception is one action per level it passes (`Unwind`, `UnwindHandback`), so
that what each `finally` and `except` does to the result is visible. Once a pause
has written a session file an operator may abort, and the next look or act raises
`NotInControl` (`LosesControl`). No poll catches that, so it is one step to the end
of the run: the frames it passed stay on the stack as they were, since nobody closes
them. `LosesControlBehindAPoll` is the same where the page is read just after a poll
was closed: reading an output, and describing what a failed re-run left. The page is
an adversary: any look may find the awaited condition, any detector in scope, a
refused request, or nothing. An artifact's choices to escalate are free choices.
A pause is one step here (`HumanIsAsked`); `Handoff` looks inside it.

**Discovery** is one discovery run: `_run`'s turns, each tool call with every way
it can end (`Unusable`, `Read`, `Works`, `Fails`, ...), what follows an act once
the page has settled (`Observe`), and how the run concludes. `Perform` is the
gated act: the action, the requests that arrive meanwhile and the reply to the
expected dialog are judged one by one, each granted or not by the run's flag, the
confirmation and the policy's handling. The gate may rate anything at or above
what is declared. `armed`, `calls`, `unchanged`, `dialogs`, `outputs` and `steps`
are the loop's own; `passed`, `answered`, `shown`, `acted`, `wrong` and `changes`
are history, for the properties. Elements with one signature are one control, as
they are in `_dialogs_seen` and `_repeat_key`; of screens only whether they
changed is kept; `calls` keeps as many calls as `note_call` looks at.

**Surface** is `surface/playwright.py` with `policy/gate.py` and
`policy/enforce.py` in front of it, and the session file that decides whether a
callback judges anything at all. An act (`Perform`, `Dispatched`,
`DialogWaitEnds`, `Collect`) runs on the automation's thread; what it causes goes
into `pending` and is delivered by the callback actions (`Route...`, `LaterHop`,
`Popup`, `Dialog...`) at any time and in any order: during the act, after it,
during the next one, or after a person has taken the session. `_on_route`'s fetch
of the first hop is two steps, since the thread goes on meanwhile. `Check` is the
gate's whole decision over classes of URLs, names and messages: blocked origins,
paths and queries, the irreversible rules, a pressed Enter that counts as a click,
`about:blank`. `Pause`, `Take`, `HandBack`, `Abort` and `Browse` are what
`Handoff` looks into.

**Recorder** is `discover/record.py` with the schema's rules for the inputs and
secrets of a step and `render`, as pure operators: `Propose` (`propose_parameters`),
`Wait` and `Success` (the checkpoints of `build_capability`), `Templated`, `Draft`,
`Builds` (what is refused), `Saved` (`run_discovery`'s test of the success on the
last screen) and `Does` (what a replay of a step does). A text is a sequence of
words and marks; a name is the sequence of its words. Its last part is the
reference: a *flow* is what a person does, with *slots* for the values that differ
from run to run in what is typed, opened and shown; `Run` is the recording of a
flow with some values.

**Catalog** is `artifact/catalog.py` with what its callers do around it: the save
of a discovery, the save, approve and replay commands, each a process of its own.
A load lists the files and reads them one after another; a write is two steps
(`OpenFile` truncates, `WriteFile` fills), because `write_text` is, so commands
meet between them, and `Die` may leave a file empty. A discovery ends in
`RecordDraft`: a person accepts some of the proposals, and the draft `Recorder`
makes of the recording is saved if it builds and its success holds; `ContentOf` is
what the catalog's rules see of it. The pure rules are operators
used by those actions: `ContractBreaks`, `RequiredBump`, `BigEnough`
(`artifact/versioning.py`), `Resolve` (tenant overrides), `FitsPolicy`
(`policy/fit.py`), `Accepts` (`coerce_inputs`) and `Refusal` (`_preflight`). A
content is a record of what these rules tell apart.

**MockApp** is CoreLedger, `src/mock_app`. Each route is a sequence of steps
(`Steps`), in the order in which its view asks for faults, decides, or touches the
ledger; each client's request is at one of them. `fire` and `open_subaccount` are
two steps inside their lock (`LookFault`/`UseFault`, `CountAccounts`/`OpenAccount`);
`login_required` looks at the token once, before the view, so a session may be
revoked or expire under a running request. `arming` and `issued` are history.

Definitions introduced by `\* Mutant of X.` are faulty versions of `X`; no
specification uses them. Each property of a passing run names in `PROJECT.json`
one of them, which put in the place of `X` makes TLC find the property violated.

## 3. What is checked

### session_store
Two operators and the run; `MaxVersion = 5` transitions. Five are enough to
pause, take, hand back, verify and pause again, or to take, abort and have every
stale command refused. Every interleaving of the unlocked read, the locked
section and deaths is explored.
- `HistoryOnlyGrows`, `ActsOnWhatItRead`: every change adds one entry that
  continues the last one, and an operator's lands only on the version they read.
- `OnlyTheTakerLetsGo`: nobody hands back or ends another's hold.
- `KeepsPromise`: refinement of ControlPromise.

That there is one writer at a time (`OneWriter`) and that what is renamed over the
file was computed from the file as it is (`NothingIsOverwritten`) is proved for
every size (section 4); the properties above break when either does.

`CHECK_DEADLOCK FALSE`: when the version bound is reached and the run's process
is dead, nothing is left to do.

### handoff
Two steps (the first without a checkpoint, the second with one), the three pauses
the code allows, two operators, one tick of waiting, no write faults. Three pauses
give a hand-back whose verification fails and asks again, a request nested in a
re-verification and another one after it, and operators of earlier pauses to be
confused with; two operators give stale and foreign commands.
- `ActsOnlyInControl`: every act passed a control check while automation held the
  session; only an abort can come between the check and the act (`checked` is a
  history variable for this).
- `NeverActsTwice`, `EveryStepIsAccountedFor`: however often the browser changes
  hands, no action is repeated, and no step passes unless it acted or a human
  was asked at it and handed back.
- `EveryPauseIsRecordedOnce`, `NobodyElseIsBlamed`, `SuccessIsEarned`: the result
  tells what happened.
- `NotesAreOfTheirPause`: the note in a record is the one this pause was handed back
  with, or that of an abort since. Notes are free text, so `note` is the event of
  the entry that `_handback` takes it from when it reads the file again (`NoteOf`).
- `ClosedMeansFinished`: the session file does not outlive the run.
- `KeepsPromise`, for the composed system.

`SuccessIsEarned` and `ClosedMeansFinished` are stated of runs whose disk works
(`MaxFaults = 0`): a failed write is swallowed by `_quietly`, by design. An expiry
that could not be written leaves a paused session which an operator may still take
while the run already ends, and a finish that could not be written leaves the
file as it was. The proofs say it more exactly, for any number of failures: both
hold as long as no write has failed yet (`faults = 0`). The other theorems of
section 4 hold whatever writes fail.

`SuccessIsEarned` lets a pause recorded as expired stand before a success if
somebody had taken it. A take that lands between the last poll and the expiry
decided on it keeps the session, since the expiry's refusal is swallowed
(`session/operator.py:276`), and if the pause was raised inside a re-verification
that stop is caught (`replay/engine.py:397`) and the late operator's hand-back
brings the run to a success.

*View and symmetry.* Operators are interchangeable and no property of this run
is a liveness property. `View` identifies states that nothing that follows can
tell apart: a command that is stale, or that its state does not permit, will be
refused whatever happens; a deadline, a last read, the reason of a pause and a
hand-back do not matter where each is assigned before it is read again; once the
run has crashed or begins to close up its data no longer changes, the invariants
about it were checked in the states before, and what follows depends on the file.

### handoff_time
One operator, one step, two pauses and one session-file write that fails at any
point, with fairness, without symmetry or view.
- `FirstHoldGetsTheWindow`: the first person to take the session has a full wait.
- `RunComesCloser`: what every step uses up and none gives back, in order of weight:
  a pause, a step of the flow, a place within a step or a pause (`Ahead`), and where
  the run only waits, the one restart of the clock and the time to the deadline.
- `RunEnds`: every pause, hold and hand-back is answered in time, and the run's
  thread comes to its end.

*Fairness*: the run's thread keeps running (one thread, no locks but the flock,
so weak fairness of its next step) and time passes while it is measured. No
fairness for people: nobody has to come, and whoever came need not come back. A
kill or an interrupt may happen but need not.

### replay_engine
A sign-in that may be re-run and a submit behind a checkpoint. One detector of
each kind: a business outcome, a click, a wait, a re-run of step 1, and a hard
failure at the deadline. Step 1 is declared reversible and may be rated
irreversible by the page, step 2 is declared irreversible. Timeouts and windows
are one tick: that distinguishes a wait that is over from one that is not, and a
window that outlives its wait's deadline. Two pauses give a hand-back whose
re-verification asks again.
- `AttemptsAreCapped`: over all of a step's waits, re-runs and hand-backs.
- `DeclaredOnce`: what is declared irreversible reaches the app at most once.
- `EveryRecoveryIsRecorded`: also when stops or hand-backs unwind through it, on
  several levels. Only an operator's abort loses records, and then only those of
  recoveries in progress at that moment (`CutOff`); the run ends as escalated without
  them.
- `SuccessIsVerified`: the flow never just carries on past a failed recovery.
- `RecoveryOwnsItsFailure`: a failure is reported as the step's own only when no
  recovery failed on the way to it.
- `ResultIsAccepted`: the status fits the recoveries and pauses as `ReplayResult`'s
  validators want it; an exception there would lose the result of what was done.
- `EveryStepUsesSomethingUp`: a pause, a stage on the way to the next, attempts, a
  step of the flow, or time in a frame of the stack, in that order of weight; what
  is above that frame may start afresh (`LaterStack`).
- `RunEnds`: whatever the page shows. *Fairness*: weak fairness of the single
  thread; it only ever waits for time.

### discovery
One control and 13 calls on it or beside it, four turns, the code's limits of
three repetitions and two idle acts, every setting of the run's flag and the
policy's handling. Four turns let a click meet a dialog, a confirmation be given
and spent on something else, and the dialog be answered after all; or an idle act,
neutral calls, and another idle act; or the same call until it is stopped.
- `ConfirmedJustBefore`: nothing irreversible passes the gate, and no confirm
  dialog is accepted, unless the previous call was a confirmation that counts.
- `AnswersWhatWasShown`: a dialog is only answered where the model was told of
  one, as a confirm only if it was told of a confirm.
- `StuckEndsTheRun`: stuck runs are stopped, at the limit, and no others are.
- `RecordedAsTold`: the recording is exactly the acts the model was not told went
  wrong.

*View*: of the calls only the last and how often it was made matter later; the
recording is only compared with the log of acts, so only where the two disagree
is kept; what a call let through is judged in the state right after it, and the
view keeps each invariant's truth. `CHECK_DEADLOCK FALSE`: the run ends.

### surface
Two acts out of six (a click that opens a page behind a redirect and expects a
dialog, a confirmed submit that asks or navigates, typing with a resource, popup
or download, an Enter on the submit button, two navigations), one pause, one thing
a person does in the page. Two acts are what it takes for an event of one to come
during the other; one pause puts a person between a request and its answer. The
confirm flag is off, so that only confirmations let the irreversible pass.
- `EveryEventIsReportedOnce`: what was refused or answered under automation is
  told exactly once, in the result of the act that ran when it happened or by a
  drain if none did; an act that met a refusal is no success; what happens under a
  person's control is not told.
- `NothingPassesUnjudged`: no request, redirect or dialog that arrives under
  automation passes unless the gate allows it or a confirmation covers it, also
  when a person takes the session while it is fetched; a dialog is accepted for
  the act that expected it, once.

`CHECK_DEADLOCK FALSE`: acts, pauses and deeds are bounded.

### catalog
Three commands at once (one saves, one approves, one does any of them or replays),
three versions, the drafts of two recordings and six contents one contract change apart (an optional input, its
use, a required input, a lost output, a tenant's riskier button), four initial
directories, three invocations, every death. Three invocations are a save, an
approval and a replay, or an approval that meets a save, with a replay after them.
- `UnattendedRunsWereApproved`: what runs without `--allow-draft` is a version and
  content some person's approve wrote, whatever interleaved.
- `MinorChangesKeepCalls`: a save below a major bump takes every call the version
  below takes, and keeps its outputs, codes and deployment.
- `ReplaysForOtherInputs`: a draft recorded with some values, and replayed with
  others for the inputs that were accepted, types, chooses, opens and presses what
  the flow does with those. Its mutant replaces short literals before longer ones.
- `WaitsHoldForOtherInputs`: if the draft was saved, what it waits for after each
  step, and its success, hold on the screens of that other run.

The last two are about what any discovery may be about to record, not only the two
whose drafts go on to be saved in this run: TLC evaluates them over `CatalogFlows`
and `MCValues`. 300 flows of one to three acts out of twelve (every kind of act, values in fields, paths and queries, a credential,
a confirm, a screen that changes later), three sets of values (a member number that
is part of an account number, amounts with and without cents, kinds of account),
every choice among the proposals, every other set. Two acts let one act's screen
be another's `before` and a value be proposed twice; with a deposit between them an
amount is typed before any last screen. They ask that the recorded values can be
told apart (`Unambiguous`: no two alike, none a word of fixed text or of an
input's name, what contains one accepted too) and, for the waits, that every screen
change is recorded (`AllRecorded`) and an amount is typed like one (`AsTyped`).
What happens without these is in section 5 and in run amount_checkpoint.

`CHECK_DEADLOCK FALSE`: invocations are bounded.

### mock_app
Two windows of one browser, one of which is also the control surface; an ordinary
and a restricted member; one input per route and way to end; four requests, counts
up to two. Four are an arm, two requests that fire it and meet in the lock, and
one more; or a sign-in, two creates of one member that meet in the ledger, and a
confirmation.
- `FiresAsArmed`: firings and what is left always make up the count, so a fault
  fires as often as it was armed for before it is gone.
- `AccountsMatchAnswers`: a number is given to one request, which opened it, and a
  confirmation shows what its create opened, unless a reset came between.
- `EveryRequestIsAnswered`. *Fairness*: each thread keeps running. Each lock is
  let go before another is asked for, so weak fairness of each thread is enough.

`CHECK_DEADLOCK FALSE`: requests are bounded.

### Where the code does not do what it says
Four runs each check one sentence of the repository and find it violated
(`findings` in `PROJECT.json` quotes them):

| run | the sentence | what the run shows |
|---|---|---|
| hold_window | taking control restarts the clock (`session/operator.py:241`) | `_holding` is never reset: only the first hold of a run restarts it |
| abort_record | abort finishes a run as escalated (`cli.py:594`) | an abort of a pause nobody took builds a record its validator refuses; the run crashes |
| nested_handback | re-verify as long as operators hand control back (`replay/engine.py:364`) | a hand-back of a pause raised in a re-verification unwinds out of the run |
| amount_checkpoint | a derived success checkpoint never asserts an amount (`src/DECISIONS.md:49`) | a deposit typed as `500` is no amount to `_AMOUNT_LITERAL`, stands in `$500.00` and is asserted; a replay with `1000` is shown `$1,000.00` and fails after it opened the account |

The first three use one operator and one step; three pauses, so that a second pause
is an ordinary one. The last is one discovery that opens an account. More
disagreements show in the models without a run of their own:
- an abort after the last look at the page ends as a success (against `cli.py:594`
  again: `SuccessIsEarned` says what a success does promise);
- a pause that expired can stand before a success (section 3, against "After this
  the run finishes as escalated", `session/intervention.py:47`);
- a failed act that was rated reversible is retried (`replay/engine.py:489`, against
  "retry only when the effective risk is safe", `src/DECISIONS.md:24`);
- `_handback` reads the file a second time for the note (`session/operator.py:357`):
  an abort after the poll that saw the hand-back puts its note under the name of the
  person who handed back (against "What the operator said they did",
  `replay/result.py:85`; `NotesAreOfTheirPause` says what does hold);
- the one detector pass after a hand-back waits for nothing, and what it clicked is
  recorded as succeeded (`replay/engine.py:444`, against "Whether the interrupted
  wait verified afterwards", `replay/result.py:68`);
- an abort passes the polls uncaught (`replay/engine.py:441`, `:868`), and the result
  that `run` still builds (`replay/engine.py:291`) lacks the recoveries in progress,
  against "the recoveries it interrupted still belong in the result"
  (`replay/engine.py:869`, of a hand-back) and "Automatic recoveries and human
  interventions, in order" (`replay/result.py:188`); `EveryRecoveryIsRecorded` without
  its second disjunct is violated in seven states, and as it stands says that nothing
  else is lost;
- a recovery that a pause interrupts is recorded as failed, and the run a human
  handed back may succeed with it (against "A finished run has only verified
  recoveries", `replay/engine.py:345`; `SuccessIsVerified` says what does hold).

## 4. What is proved

Each stateful module `M` has an `MProofs` with an inductive invariant `IInv`, the
theorem `Invariance` (`Spec => []IInv`), and the theorems that follow from it. They
hold for every value of the constants that satisfies the module's assumptions: any
number of steps, operators, clients, commands, detectors or requests, any policy,
page, recording and waiting time. TLC checked the two longest, those of `Handoff`
and `ReplayEngine`, on small instances before they were proved. In a proof of `IInv
/\ [Next]_vars => IInv'` each action, or group of actions with the same effect, has
a lemma of its own.

`TypeOK` is proved of every module. TLC checks it besides in session_store, surface
and catalog, where its parts relate variables (what is noted as the operator, a
confirmation that does not outlive its act, files read in order); in the other four
modules it only bounds them.

| module | theorem | property |
|---|---|---|
| SessionStoreProofs | `TypeCorrect`, `OnlyTheTaker` | `TypeOK`, `OnlyTheTakerLetsGo` |
| | `LockExclusion`, `NothingLost` | `OneWriter`, `NothingIsOverwritten` (stated only here) |
| | `NoStaleOperator`, `NothingTakenBack` | `ActsOnWhatItRead`, `HistoryOnlyGrows` (action properties) |
| | `Refinement` | `KeepsPromise` |
| HandoffProofs | `TypeCorrect`, `ActsInControl`, `ActsOnce` | `TypeOK`, `ActsOnlyInControl`, `NeverActsTwice` |
| | `StepsAccountedFor`, `PausesRecordedOnce`, `NobodyBlamed` | `EveryStepIsAccountedFor`, `EveryPauseIsRecordedOnce`, `NobodyElseIsBlamed` |
| | `NotesOfTheirPause` | `NotesAreOfTheirPause` |
| | `FirstHoldIsWhole`, `ComesToItsEnd` | `FirstHoldGetsTheWindow`, `RunComesCloser` (action properties) |
| | `Refinement` | `KeepsPromise` |
| | `EarnedSuccess`, `ClosedFinished` | `SuccessIsEarned`, `ClosedMeansFinished`, while `faults = 0` |
| ReplayEngineProofs | `TypeCorrect`, `AttemptsCapped`, `IrreversibleOnce` | `TypeOK`, `AttemptsAreCapped`, `DeclaredOnce` |
| | `RecoveriesRecorded`, `SuccessVerified`, `FailureOwned` | `EveryRecoveryIsRecorded`, `SuccessIsVerified`, `RecoveryOwnsItsFailure` |
| | `ResultAccepted`, `NestingBounded` | `ResultIsAccepted`, `NestingIsBounded` (stated only here) |
| | `UsesUp` | `EveryStepUsesSomethingUp` (action property) |
| DiscoveryProofs | `TypeCorrect`, `ConfirmationCoversOneCall` | `TypeOK`, `ConfirmedJustBefore` |
| | `AnswersOnlyWhatWasShown`, `StuckIsNoticed`, `RecordingIsAsTold` | `AnswersWhatWasShown`, `StuckEndsTheRun`, `RecordedAsTold` |
| SurfaceProofs | `TypeCorrect`, `EventsAreReported`, `EverythingIsJudged` | `TypeOK`, `EveryEventIsReportedOnce`, `NothingPassesUnjudged` |
| CatalogProofs | `TypeCorrect`, `UnattendedMeansApproved`, `CallsAreKept` | `TypeOK`, `UnattendedRunsWereApproved`, `MinorChangesKeepCalls` |
| MockAppProofs | `TypeCorrect`, `FaultsFireAsArmed`, `AccountsAreAnswered` | `TypeOK`, `FiresAsArmed`, `AccountsMatchAnswers` |

### The session file
*Assumed*: `NoOne` is no operator, `Runner` is neither, `NoFile` is no session
state. `SessionStateProofs` has the facts about `Advance` that both session modules
use: a permitted call yields a state (`AdvanceType`), adds one entry that continues
the history (`AdvanceExtends`), and moves the session from one holder to another as
`ControlPromise` allows, or not at all (`HolderStep`).

The invariants of `SessionStore` are not inductive by themselves. `IInv` adds:
- `FileExists`: only an existing file is asked for a transition;
- `AsksAsItself`: a client makes the calls of its kind, and an operator passes
  the version it read. Without it the call under way could be anybody's;
- `FreshWhenWriting`: whoever is about to rename passed the version check on the
  file as it still is. This is what `OneWriter` buys, and `NothingIsOverwritten`
  and `ActsOnWhatItRead` rest on it;
- `HolderTook`: a session somebody holds was last changed by that person taking
  it. `OnlyTheTakerLetsGo` speaks about the history, but `advance` compares with
  the current operator; this ties the two together.

`Replace` is the only action that changes an existing file (`FileSteps`), and it
changes it by one `Advance` of a permitted call (`ReplaceAdvances`), so the two
action properties and the refinement reduce to facts about `Advance`.

### Handoff
*Assumed*: there is a step, a time to wait, natural numbers of pauses and failing
writes, and `NoFile` is no session state. Nothing about operators but that `NoOne`
is not one of them; nothing about how many pauses the code allows.

The run's books (where it is, what it performed, whom it recorded) and the session
file are changed by different parties, so `IInv` has one part per relation:

| part | relates | needed because |
|---|---|---|
| `FileSound` | version, phase, history | every argument about who did what reads the history |
| `Placed` | `pc`, the open pause, the hand-back | a hand-back must belong to the step and pause it is verified for, also while another pause is nested in it |
| `Controlled` | the check, the act, what came between | an act follows its check by a step of its own |
| `Progress` | `at`, `acted`, hand-backs | a step behind the run acted or was handed back; none ahead acted |
| `Recorded` | pauses and their records | the pauses without a record are exactly the open one and the one under verification (`Missing`) |
| `Attributed` | records, hand-back, history | the name in a hand-back is of somebody who took in that pause |
| `Answered` | the last record and the end | a run that goes on was last handed back |
| `Clocked` | deadline and age of the first hold | what is left of the wait and what passed of the hold make a full one |

`Next` has some thirty disjuncts and `IInv` nine parts. Instead of one proof for
each pair, every step is classified twice: by what it does to the books
(`BookSteps`: it opens a pause, acts, verifies, delivers, confirms, closes, ...),
with what the file may do meanwhile (`FileStep`), and by what it does to the clock
(`ClockSteps`). Each part then has one lemma over the classes (`PlacedStep`,
`ControlledStep`, ..., `ClockedStep`). The refinement follows from `FileStep` and
`HolderStep` alone: every step changes the file by one permitted call, creates it,
or leaves it.

Two things are proved beside `IInv`, from it. `Noted` follows a note from the history
into the record: whoever lets go took the session in the entry before (`LetGo`), the
channel has seen a hand-back of the open pause with nothing but aborts after it
(`HandBackSeen`), so the last entry it then reads is one or the other. And every
step comes closer to the run's end (`ComesCloser`): a step that moves the run moves it
to a later place (`Nearer`), one that does not is time passing or somebody else's
(`StandsStill`), and where the run turns back, in `Escalate` and `Proceed`, it has
used up a pause or a step of the flow.

`Undisturbed` is proved beside them, while no write has failed: the file's phase is
the one that the place of the run calls for (`InStep`), and a run with a record that
nobody answered can only end (`Doomed`). `InStep` is false after a failed write, and
so are the two theorems that rest on it: TLC finds both counterexamples with
`MaxFaults = 1` (section 3).

### ReplayEngine
*Assumed*: what the artifact's validators demand of steps and detectors (`ValidRerun`),
finitely many detectors, and that none declares a code of the engine's own
(`vocab.py:45`). The stack of polls has no bound, so `IInv` speaks of each of its
levels:
- `Shape`, `Fits`: the flow's step is at the bottom, the frames above it re-run
  steps that are not irreversible, and each frame but the top one has open the
  detector whose recovery it re-runs;
- `Accounted`: an attempt is recorded or its frame is still on the stack, with that
  detector open. Unwinding pops a frame and records what it had open, so the
  disjunction is kept at each level. A run ends with an empty stack, or with the one
  that an abort left, which is what `RecoveriesRecorded` says of it;
- `Once`: if an irreversible step reached the app the flow is past it, or past its
  action, or raising and will not act before a hand-back moves it on;
- `Owned`, `Ended`: who owns a failed recovery at each stage of the unwinding. A
  failure that nobody handed back after is owned by the frame below it, so a
  step's own failure is raised only where there is none.

Beside `IInv`, and from it: `Earned` says that a human who did not hand back came
after something that helped (`Backed`), or has ended the run; with `IInv`, that a
recovery which failed has a hand-back behind it, a success never has only failures
to show. `Depth` says that a frame at level *n* works on a step at least *n* before
the success check, since a recovery re-runs only steps before its own
(`ValidRerun`); `NestingBounded` follows, and that the order of `LaterStack` is over
stacks of bounded length. `UsesUp` has one lemma per action for what the action uses
up (`Progress`): recoveries count an attempt, a look that finds nothing takes time from a frame and leaves those below
it alone, and unwinding takes the stack down.

### Discovery
*Assumed*: calls are tool calls, a dialog is expected of clicks only, both limits
are positive, and a call has to come at least twice to be a repetition. `IInv` adds
that what is armed was asked for by the last call (`ArmedByTheLastCall`), that what
the loop remembers of a control's dialog was told to the model
(`RememberedWasShown`), that the counters are what the log of changes and calls
shows, and below the limits while the run goes on (`DetectorInv`), and that the
recorded steps with the pending one are the entry and the acts not told to have gone
wrong, in order (`RecordingInv`).

### Surface
*Assumed*: the kinds of acts, effects and handlings there are, that an act's expected
dialog goes with a click, and that a navigation goes to URLs.
The callbacks run in any order, so `IInv` follows an effect from its cause to what
became of it: it is pending, then perhaps fetched, then in the log once
(`SettledOnce`), a hop after the navigation it belongs to (`HopsComeAfter`). What was
refused or answered under automation is in the list of events or was told, never
both (`EventsAreApart`, `AnsweredOrRefusedIsReported`); while an act runs, what it
was refused is still in the list its result is made from (`RunningAct`); one dialog
is answered per act (`OneAnswerForAnAct`); each entry of the log was judged right
when it was made (`Judgements`).

### Catalog
*Assumed*: commands are of the kinds there are, contents are well formed, versions
have one digit per part (section 5), and the drafts of the discoveries are among the
contents (`RecordingsAreContents`). An approval is followed from the directory into
what a command read, is about to write and is about to run: `FilesEarned`, `Earned`.
That is needed because a command acts on files it read before others wrote.
`CallsAreKept` adds that a replacement which breaks no contract takes every call,
field by field (`KeepsCalls`, `KeepsContract`, `KeepsTable`).

### MockApp
*Assumed*: the routes, faults and members of the inputs are those of the application.
`IInv` says what a thread inside a locked section may rely on: it holds the lock of
the step it is at (`LookHoldsTheLock`), the fault it looked up is armed as it was
(`LookedUpIsArmed`), the number it is about to give is the first free one
(`CountedIsNext`); and that requests and the accounts they opened are apart
(`IdsAreApart`, `ShownIsMine`).

### Only model-checked
- Liveness: `RunEnds` of `Handoff` and of `ReplayEngine`, and
  `EveryRequestIsAnswered`. The prover has no rule for fairness and `ENABLED` here.
  Of both `RunEnds` the safety half is proved for every size: no step gives back
  more than it uses up. What is left to TLC is that a run which has not ended has a
  step to take, that it is taken, and that what is used up, in that order of weight,
  is well-founded.
- `ReplaysForOtherInputs` and `WaitsHoldForOtherInputs` of `Catalog`: what
  `Recorder`'s recursive functions make of a text is a fact by induction over that
  text, and the induction theorems cannot be instantiated with the provers used.
- The four runs that find a violation: there the sentence is false.

## 5. Abstractions, and what is not modelled

- The truth of conditions and the resolution of locators: any look may find
  anything, so the properties hold for every page. What needs a page that
  behaves (that a good page leads to success) is not stated.
- `ReplayEngine` has one output, read at the last step; the success check
  belongs to the last step, as `_finish_with_handbacks` has it.
- A step the page alone makes irreversible can be performed more than once
  (rated safe first, irreversible when re-run); `DeclaredOnce` is about declared
  ones.
- `Discovery` does not say which act a request or a late event belongs to:
  `Surface` does. `RecordedAsTold` is about what the model was told. The loop's
  rules about credential fields are left out.
- `Recorder` takes as given, of each text on a screen, whether it reads like
  interface (`plain`: its length, role, place beside a label, digits), and of each
  target whether it is a credential field. Redaction, wording, checkpoint ids and
  the messages of dialogs are left out, the person keeps the proposed names, and a
  target that is present resolves.
- `Surface` leaves out waiting for the page to settle and the requests in flight
  it counts, snapshots and locators, what is captured of a person's clicks, and
  tracing. An effect arrives once: the browser neither loses nor repeats events.
- `Catalog` takes the schema's validators as given: `Loads` has those that relate
  a capability to its tenants and its policy. Versions are single digits, so that
  the order of file names is the order of versions.
- `MockApp` leaves out the shell, banner and control pages, markup, amounts and
  settings. A session's expiry is an event that may happen at any time.
- Out of scope: redaction, evidence and traces (text and files written in order
  by one thread), the rendering and argument parsing of the CLI, the desktop
  surface and the in-page script (they drive somebody else's program), the model
  provider, the locator ladder (a pure choice over what the page matches; replay
  and discovery take its answer as the page's).

What the models allow because the code does, and no property forbids:

- a late request is judged as one of the act that runs when it arrives, with its
  kind and under its confirmation, and late events are told in its result; a late
  dialog is answered if the next act expects the same. While the run is paused and
  nobody holds the session, requests pass ungated and dialogs stay open;
- two commands that write one catalog file may overwrite an approved version with
  a draft or tear it (`artifact/catalog.py:147`); one file that does not load makes
  every command on the catalog fail; a save does not check the new file against
  the policy; a replay without a version takes the latest in use, and refuses it
  if it is a draft;
- `contract_breaks` does not look at what the success checks require; an output or
  an input of a tenant that disappears is no break. A minor version may start to
  use an optional input, and refuse calls without it as `INPUT_INVALID` that the
  older version took (`artifact/versioning.py:60`): `MinorChangesKeepCalls` is
  about what `coerce_inputs` takes;
- a literal that is also a word of a fixed text is replaced there too, and one that
  is a word of another input's name inside that input's placeholder
  (`discover/record.py:373`), which then names no input; a heading is compared with
  the literals as they were typed (`discover/record.py:301`), so a checkpoint may
  keep a value that the page shows in other letters;
- a wait asks for a text of the screen an act left together with the next act's
  element; if the page changed between the two, no one screen need have both.

## 6. Plan

What would extend this most:

1. **Proofs**: lemmas about `Recorder`'s operators that need no induction (what
   `Builds` and `Saved` refuse, that what is accepted is among the proposals); that
   an abort after the last look is the only way a run can succeed on a finished
   session.
2. **Results**: the statuses of a run with pauses and crashes together
   (`ResultIsAccepted` is stated of `ReplayEngine`, where a pause is one step), the
   contract of outputs, the stability batch.
3. **Locators**: the ladder as pure operators, against a reference definition of
   the first rung with exactly one match.
