---------------------------- MODULE HandoffProofs ----------------------------
(***************************************************************************)
(* Theorems about Handoff, for any number of operators, steps and allowed  *)
(* pauses and for any waiting time.  IInv is inductive whatever writes of  *)
(* the session file fail; Undisturbed adds what holds until one does,      *)
(* Noted what a hand-back's note is, and the last section is about how a   *)
(* run comes closer to its end.                                            *)
(***************************************************************************)
EXTENDS Handoff, SessionStateProofs, FiniteSetTheorems, WellFoundedInduction

(* Where the run is: in the flow, in a pause, or verifying a hand-back.     *)

FlowPCs == {"before", "deciding", "acting", "waiting", "judging"}

PausePCs == Waiting \cup {"collecting", "noting"}

VerifyPCs == {"verifying", "rejudging", "confirming"}

\* An escalation raised while a hand-back was being re-verified.
NestedPause == pc \in PausePCs /\ origin = "nested"

-----------------------------------------------------------------------------
(* The inductive invariant, part by part.                                   *)

EntrySound(r) ==
    /\ r.event = "take_control" <=> r.to_phase = "human_active"
    /\ r.event \in {"take_control", "hand_back", "abort"} => r.operator_id \in Operators
    /\ r.event = "abort" => r.to_phase = "finished"

\* The version counts the history, and the phase is where its last entry led.
FileSound ==
    file # NoFile =>
        /\ file.version = Len(History)
        /\ file.phase = PhaseAt(Len(History))
        /\ \A i \in 1..Len(History) : EntrySound(History[i])

TakenSince(version) == \E i \in version + 1..Len(History) : History[i].event = "take_control"

\* Where the run can be with what is open: a pause has an opening in the history,
\* and a hand-back under verification belongs to the step the run is on.
Placed ==
    /\ pc \notin Over => result = NotEnded
    /\ pc \in {"before", "deciding", "acting"} => at <= Steps
    /\ file # NoFile => pauses >= 1
    /\ pc \in (PausePCs \ {"opening"}) \cup VerifyPCs => file # NoFile
    /\ pc \in PausePCs => pauses >= 1 /\ opened[pauses] <= Len(History)
    /\ pc = "noting" => TakenSince(opened[pauses])
    /\ pc \in VerifyPCs \/ NestedPause =>
          /\ handback # NoHandback
          /\ handback.step = StepOf(at)
          /\ handback.intervention_id = IF NestedPause THEN pauses - 1 ELSE pauses

\* An act about to happen passed its check in control, and only an abort came since.
Controlled ==
    /\ ActsOnlyInControl
    /\ \A i \in 1..Len(acted) :
          acted[i].checked <= acted[i].version /\ acted[i].version <= Len(History)
    /\ pc = "acting" =>
          /\ checked <= Len(History)
          /\ PhaseAt(checked) \in {"running", "resuming"}
          /\ \A v \in checked + 1..Len(History) : History[v].event = "abort"

Performed(s) == \E i \in 1..Len(acted) : acted[i].step = s

HandedBackAt(s) ==
    \E i \in 1..Len(recoveries) :
        recoveries[i].step = s /\ recoveries[i].outcome = "handed_back"

\* The steps behind the run are performed or handed back, and none ahead is performed.
Progress ==
    /\ NeverActsTwice
    /\ \A i \in 1..Len(acted) :
          /\ acted[i].step <= at
          /\ pc \in {"before", "deciding", "acting"} => acted[i].step < at
    /\ \A s \in 1..at - 1 : Performed(s) \/ HandedBackAt(s)
    /\ pc \in {"waiting", "judging"} /\ at <= Steps => Performed(at)
    /\ EveryStepIsAccountedFor

\* The pauses whose record is still to come: the open one, and the one whose
\* hand-back is being re-verified.
Missing ==
    {k \in 1..pauses :
        \/ pc \in PausePCs /\ k = pauses
        \/ (pc \in VerifyPCs \/ NestedPause) /\ k = handback.intervention_id}

Recorded ==
    /\ \A i \in 1..Len(recoveries) : recoveries[i].intervention_id \in 1..pauses
    /\ pc \notin Over \/ (Settled /\ result.code # "OPERATOR_ABORTED") =>
          \A k \in 1..pauses :
              IF k \in Missing THEN RecordsOf(k) = {}
              ELSE \E i \in 1..Len(recoveries) : RecordsOf(k) = {i}

SawPause(operator, k) ==
    \E i \in During(k) :
        /\ History[i].operator_id = operator
        /\ History[i].event \in {"take_control", "abort"}

\* Nobody is named who was not there, nor will be from the hand-back at hand.
Attributed ==
    /\ NobodyElseIsBlamed
    /\ pc \in VerifyPCs \/ NestedPause =>
          SawPause(handback.operator_id, handback.intervention_id)

\* A run still going, and one that succeeded, was last handed back; a run with no
\* record never had a file.
Answered ==
    /\ pc \notin Over /\ recoveries # << >> => Last(recoveries).outcome = "handed_back"
    /\ result.status = "recovered_then_success" =>
          recoveries # << >> /\ Last(recoveries).outcome = "handed_back"
    /\ result.status = "success" => file = NoFile

\* The first hold is on the clock from its take: what is left of the wait and what
\* has passed of the hold make up a full one.
Clocked ==
    /\ holding => Takes(History) # {}
    /\ pc \in {"sleeping", "expiring"} =>
          /\ seen.version <= file.version
          /\ seen.version = file.version => seen.phase = file.phase
          /\ seen.phase = "human_active" => holding
    /\ pc = "expiring" => left = 0
    /\ HumanHolds /\ holding /\ Cardinality(Takes(History)) = 1 => left + age >= WaitS

IInv ==
    /\ TypeOK
    /\ FileSound
    /\ Placed
    /\ Controlled
    /\ Progress
    /\ Recorded
    /\ Attributed
    /\ Answered
    /\ Clocked

-----------------------------------------------------------------------------
(* What holds besides until a write of the session file fails.              *)

InPhases(phases) == file # NoFile /\ file.phase \in phases

\* How an operator may have moved on from what the channel last read.
MovedOn == InPhases({"resuming", "finished"}) \/ (HumanHolds /\ TakenSince(opened[pauses]))

\* The phase of the file where the run is.
InStep ==
    /\ pc \in FlowPCs => file = NoFile \/ InPhases({"running", "finished"})
    /\ pc \in VerifyPCs \cup {"noting"} => InPhases({"resuming", "finished"})
    /\ pc \in {"opening", "opened", "pausing"} =>
          IF origin = "flow"
          THEN file = NoFile \/ InPhases({"running", "finished"})
          ELSE InPhases({"resuming", "human_active", "finished"})
    /\ pc = "pausing" /\ InPhases({"running"}) =>
          seen.phase = "running" /\ seen.version = file.version
    /\ pc \in {"polling", "sleeping", "expiring"} => ~InPhases({"running"})
    /\ pc \in {"sleeping", "expiring"} =>
          /\ seen.phase \in {"paused_for_human", "human_active"}
          /\ opened[pauses] <= seen.version
          /\ seen.version = file.version \/ MovedOn
    /\ pc = "collecting" => MovedOn
    /\ lost => InPhases({"finished"})
    /\ pc = "closed" => file = NoFile \/ InPhases({"finished"})

Unearned(r) == r.outcome = "aborted" \/ r.operator_id = NoOne

\* A record of a pause nobody answered leaves a run that can only end.
Doomed ==
    (\E i \in 1..Len(recoveries) : Unearned(recoveries[i])) =>
        /\ pc \in Over \/ (pc \in PausePCs \ {"noting"} /\ InPhases({"finished"}))
        /\ result.status # "recovered_then_success"

Undisturbed == InStep /\ Doomed

-----------------------------------------------------------------------------
(* What a step may do to the session file.                                  *)

\* A permitted call moved the file.
Moved(call) == file # NoFile /\ Permitted(file, call) /\ file' = Advance(file, call)

FileCall == file' = file \/ \E call \in Calls : Moved(call)

FileStep == FileCall \/ (file = NoFile /\ file' = Start)

\* What happened stays in the history.
Grows ==
    /\ file # NoFile => file' # NoFile
    /\ Len(History) <= Len(History')
    /\ \A i \in 1..Len(History) : History'[i] = History[i]

\* What automation and operators call the transition function with is well typed.
LEMMA CallTypes ==
    /\ \A event \in Events : \A iv \in Nat : AutomationCall(event, iv) \in Calls
    /\ \A o \in Operators : \A event \in Events : OperatorCall(o, event) \in Calls
<1>1. ASSUME NEW event \in Events, NEW iv \in Nat PROVE AutomationCall(event, iv) \in Calls
  BY DEF AutomationCall, Calls, Actors
<1>2. ASSUME NEW o \in Operators, NEW event \in Events PROVE OperatorCall(o, event) \in Calls
  BY DEF OperatorCall, Calls, Actors
<1>3. QED
  BY <1>1, <1>2

\* A call made quietly moves the file or leaves it, and only a call that moves it
\* restarts the age of the file.
LEMMA QuietlyMoves ==
    ASSUME NEW call \in Calls, NEW version, Quietly(call, version)
    PROVE  /\ file' = file \/ Moved(call)
           /\ FileCall /\ FileStep
           /\ age' = age \/ (Moved(call) /\ age' = 0)
           /\ faults' = faults \/ (faults < MaxFaults /\ faults' = faults + 1)
BY DEF Quietly, Accepted, Move, Moved, FileCall, FileStep

\* The history as the module reads it: empty without a file.
LEMMA HistoryType ==
    ASSUME TypeOK
    PROVE  /\ History \in Seq(TransitionRecord) /\ Len(History) \in Nat
           /\ file = NoFile => History = << >>
           /\ file # NoFile => file \in SessionStates /\ History = file.history
<1>1. file # NoFile => file \in SessionStates
  BY DEF TypeOK
<1>2. file # NoFile => file.history \in Seq(TransitionRecord)
  BY <1>1 DEF SessionStates
<1>3. QED
  BY <1>1, <1>2 DEF History

\* The three ways the file changes, with the history before and after.
LEMMA FileMoves ==
    ASSUME TypeOK, FileStep
    PROVE  \/ file' = file /\ History' = History
           \/ file = NoFile /\ file' = Start /\ History = << >> /\ History' = << >>
           \/ \E call \in Calls :
                /\ Moved(call)
                /\ file \in SessionStates /\ file' \in SessionStates
                /\ History' = Append(History, Entry(file, call))
                /\ Entry(file, call) \in TransitionRecord
<1>1. CASE file' = file
  BY <1>1 DEF History
<1>2. CASE file = NoFile /\ file' = Start
  BY <1>2, StartType, NoFileAssumption DEF History, Start
<1>3. CASE \E call \in Calls : Moved(call)
  <2>1. PICK call \in Calls : Moved(call)
    BY <1>3
  <2>2. file \in SessionStates /\ Permitted(file, call) /\ file' = Advance(file, call)
    BY <2>1 DEF Moved, TypeOK
  <2>3. /\ file' \in SessionStates /\ file' # NoFile
        /\ Entry(file, call) \in TransitionRecord
        /\ file'.history = Append(file.history, Entry(file, call))
    BY <2>2, AdvanceType, AdvanceExtends, NoFileAssumption
  <2>4. History' = Append(History, Entry(file, call))
    BY <2>1, <2>3 DEF History, Moved
  <2>5. QED
    BY <2>1, <2>2, <2>3, <2>4
<1>4. QED
  BY <1>1, <1>2, <1>3 DEF FileStep, FileCall

\* Whatever moves the file, what is in its history stays there.
LEMMA HistoryGrows ==
    ASSUME TypeOK, FileStep
    PROVE  /\ Grows
           /\ file' \in SessionStates \cup {NoFile}
           /\ History' \in Seq(TransitionRecord)
<1>1. History \in Seq(TransitionRecord)
  BY HistoryType
<1>2. CASE file' = file /\ History' = History
  BY <1>1, <1>2 DEF Grows, TypeOK
<1>3. CASE file = NoFile /\ file' = Start /\ History = << >> /\ History' = << >>
  BY <1>1, <1>3, StartType DEF Grows
<1>4. CASE \E call \in Calls :
                /\ Moved(call)
                /\ file \in SessionStates /\ file' \in SessionStates
                /\ History' = Append(History, Entry(file, call))
                /\ Entry(file, call) \in TransitionRecord
  <2>1. PICK call \in Calls :
                /\ Moved(call)
                /\ file \in SessionStates /\ file' \in SessionStates
                /\ History' = Append(History, Entry(file, call))
                /\ Entry(file, call) \in TransitionRecord
    BY <1>4
  <2>2. file' # NoFile
    BY <2>1, NoFileAssumption
  <2>3. /\ Len(History) <= Len(History')
        /\ \A i \in 1..Len(History) : History'[i] = History[i]
        /\ History' \in Seq(TransitionRecord)
    BY <1>1, <2>1
  <2>4. QED
    BY <2>1, <2>2, <2>3 DEF Grows
<1>5. QED
  BY <1>2, <1>3, <1>4, FileMoves

\* The entry a permitted call adds is sound.
LEMMA EntryIsSound ==
    ASSUME NEW s \in SessionStates, NEW call \in Calls, Permitted(s, call)
    PROVE  EntrySound(Entry(s, call))
<1>1. TRANSITIONS[s.phase][call.event] = "human_active" <=> call.event = "take_control"
  BY TargetPhase
<1>2. call.event \in {"take_control", "hand_back", "abort"} => call.operator_id \in Operators
  BY DEF Permitted, ALLOWED_ACTORS, Calls
<1>3. call.event = "abort" => TRANSITIONS[s.phase][call.event] = "finished"
  <2>1. s.phase \in Phases /\ call.event \in DOMAIN TRANSITIONS[s.phase]
    BY DEF Permitted, SessionStates
  <2>2. QED
    BY <2>1 DEF TRANSITIONS, Phases
<1>4. QED
  BY <1>1, <1>2, <1>3 DEF EntrySound, Entry

\* A file step keeps the version, the phase and the history in agreement.
LEMMA FileSoundStep == ASSUME TypeOK, FileSound, FileStep PROVE FileSound'
<1>1. CASE file' = file /\ History' = History
  BY <1>1 DEF FileSound, PhaseAt
<1>2. CASE file = NoFile /\ file' = Start /\ History = << >> /\ History' = << >>
  BY <1>2 DEF FileSound, PhaseAt, Start
<1>3. CASE \E call \in Calls :
                /\ Moved(call)
                /\ file \in SessionStates /\ file' \in SessionStates
                /\ History' = Append(History, Entry(file, call))
                /\ Entry(file, call) \in TransitionRecord
  <2>1. PICK call \in Calls :
                /\ Moved(call)
                /\ file \in SessionStates /\ file' \in SessionStates
                /\ History' = Append(History, Entry(file, call))
                /\ Entry(file, call) \in TransitionRecord
    BY <1>3
  <2> DEFINE e == Entry(file, call)
  <2>2. EntrySound(e)
    BY <2>1, EntryIsSound DEF Moved
  <2>3. /\ Len(History) \in Nat
        /\ Len(History') = Len(History) + 1
        /\ History'[Len(History')] = e
        /\ \A i \in 1..Len(History) : History'[i] = History[i]
    BY <2>1, HistoryType
  <2>4. file'.version = file.version + 1 /\ file'.phase = e.to_phase
    BY <2>1 DEF Moved, Advance, Entry
  <2> HIDE DEF e
  <2>5. file # NoFile
    BY <2>1 DEF Moved
  <2>6. file'.version = Len(History')
    BY <2>3, <2>4, <2>5 DEF FileSound
  <2>7. file'.phase = PhaseAt(Len(History))' 
    BY <2>3, <2>4 DEF PhaseAt
  <2>8. \A i \in 1..Len(History') : EntrySound(History'[i])
    BY <2>2, <2>3, <2>5 DEF FileSound
  <2>9. QED
    BY <2>6, <2>7, <2>8 DEF FileSound
<1>4. QED
  BY <1>1, <1>2, <1>3, FileMoves

\* Who took the session since a version, if anybody.
LEMMA TakerFacts ==
    ASSUME FileSound, TypeOK, file # NoFile, NEW since \in Nat
    PROVE  /\ Taker(file.history, since) \in Operators \cup {NoOne}
           /\ Taker(file.history, since) = NoOne <=> ~TakenSince(since)
           /\ Taker(file.history, since) # NoOne =>
                 \E i \in since + 1..Len(History) :
                     /\ History[i].event = "take_control"
                     /\ History[i].operator_id = Taker(file.history, since)
<1> DEFINE takes == {i \in since + 1..Len(History) : History[i].event = "take_control"}
           newest == CHOOSE i \in takes : \A j \in takes : j <= i
<1>1. History \in Seq(TransitionRecord) /\ History = file.history /\ Len(History) \in Nat
  BY HistoryType
<1>2. Taker(file.history, since) = IF takes = {} THEN NoOne ELSE History[newest].operator_id
  BY <1>1 DEF Taker
<1>3. CASE takes = {}
  BY <1>2, <1>3 DEF TakenSince
<1>4. CASE takes # {}
  <2>1. \E i \in takes : \A j \in takes : j <= i
    <3> DEFINE gap(i) == Len(History) - i
               gaps == {gap(i) : i \in takes}
    <3>0. \A i \in takes : gap(i) \in Nat
      BY <1>1
    <3>1. gaps # {} /\ gaps \subseteq Nat
      <4> HIDE DEF gap, takes
      <4>1. QED
        BY <1>4, <3>0
    <3> HIDE DEF gaps
    <3>2. PICK g \in gaps : \A h \in gaps : ~(h < g)
      <4>1. PICK g \in gaps : \A h \in gaps : <<h, g>> \notin OpToRel(<, Nat)
        BY <3>1, NatLessThanWellFounded, WFMin
      <4>2. QED
        BY <3>1, <4>1 DEF OpToRel
    <3>3. PICK i \in takes : g = gap(i)
      BY <3>2 DEF gaps
    <3>4. \A j \in takes : j <= i
      <4> SUFFICES ASSUME NEW j \in takes PROVE j <= i
        OBVIOUS
      <4>1. gap(j) \in gaps /\ ~(gap(j) < gap(i))
        BY <3>2, <3>3 DEF gaps
      <4>2. i \in Int /\ j \in Int /\ Len(History) \in Int
        BY <1>1
      <4>3. QED
        BY <4>1, <4>2
    <3>5. QED
      BY <3>4
  <2>2. newest \in takes
    BY <2>1
  <2> HIDE DEF newest
  <2>3. newest \in 1..Len(History) /\ History[newest].event = "take_control"
    BY <2>2, <1>1
  <2>4. History[newest].operator_id \in Operators
    BY <2>3 DEF FileSound, EntrySound
  <2>5. QED
    BY <1>2, <1>4, <2>2, <2>4, OperatorsAssumption DEF TakenSince
<1>5. QED
  BY <1>3, <1>4

-----------------------------------------------------------------------------
(* What a step does to the run's own books: the actions of Handoff by their *)
(* effect on the variables the invariant relates, whatever they do to the   *)
(* channel's and the world's.                                               *)

Books == <<at, origin, pauses, handback, recoveries, acted, result, opened>>

Idles == UNCHANGED <<pc, Books>> /\ FileCall

WaitsOn ==
    /\ pc \in PausePCs \ {"noting"}
    /\ pc' \in PausePCs \ {"opening", "noting"}
    /\ UNCHANGED Books
    /\ FileStep
    /\ file' # NoFile

Notes ==
    /\ pc = "collecting"
    /\ TakenSince(opened[pauses])
    /\ file.phase = "resuming"
    /\ pc' = "noting"
    /\ UNCHANGED <<Books, file>>

Looks ==
    /\ \/ pc = "before" /\ pc' = "deciding"
       \/ pc = "deciding" /\ pc' = "acting"
       \/ pc = "waiting" /\ pc' = "judging"
       \/ pc = "verifying" /\ pc' \in {"rejudging", "confirming"}
       \/ pc = "rejudging" /\ pc' = "confirming"
    /\ UNCHANGED <<Books, file>>

Acts ==
    /\ pc = "acting"
    /\ acted' = Append(acted, [step |-> at, checked |-> checked, version |-> Len(History)])
    /\ pc' = "waiting"
    /\ UNCHANGED <<at, origin, pauses, handback, recoveries, result, opened, file>>

Passes ==
    /\ pc = "judging"
    /\ at # SuccessCheck
    /\ Proceed
    /\ UNCHANGED <<origin, pauses, handback, recoveries, acted, result, opened, file>>

Wins ==
    /\ pc = "judging"
    /\ at = SuccessCheck
    /\ End(SuccessStatus, "none")
    /\ UNCHANGED <<at, origin, pauses, handback, recoveries, acted, opened, file>>

\* A run that fails outside the flow without a record has crashed or lost control.
Fails ==
    /\ pc \notin Over
    /\ pc' = "ended"
    /\ result'.status \in {"stopped", "escalated", "crashed"}
    /\ pc \notin FlowPCs => result'.status = "crashed" \/ result'.code = "OPERATOR_ABORTED"
    /\ UNCHANGED <<at, origin, pauses, handback, recoveries, acted, opened, file>>

Closes ==
    /\ \/ pc \in {"ended", "closing"} /\ pc' \in {"closing", "closed"}
       \/ pc' = "killed"
    /\ UNCHANGED Books
    /\ FileCall

Opens(from, known) ==
    /\ MayPause
    /\ recoveries' = known
    /\ pauses' = pauses + 1
    /\ origin' = from
    /\ opened' = Append(opened, Len(History))
    /\ pc' = "opening"
    /\ UNCHANGED <<at, handback, acted, result, file>>

Stops(known) ==
    /\ recoveries' = known
    /\ pc' = "ended"
    /\ result'.status \in {"stopped", "escalated"}
    /\ UNCHANGED <<at, origin, pauses, handback, acted, opened, file>>

Asks ==
    /\ pc \in {"deciding", "judging"}
    /\ Opens("flow", recoveries) \/ Stops(recoveries)

VerificationFails(known) ==
    LET all == Append(known, HandedBackRecord(FALSE)) IN Opens("post", all) \/ Stops(all)

AsksAgain ==
    /\ pc = "rejudging"
    /\ VerificationFails(recoveries) \/ Opens("nested", recoveries)

\* The record of a pause that was not handed back.
Unanswered(r) ==
    /\ r \in RecordTypes
    /\ r.intervention_id = pauses
    /\ r.outcome # "handed_back"
    /\ r.operator_id # NoOne => SawPause(r.operator_id, pauses)
    /\ InStep /\ Unearned(r) => InPhases({"finished"})

Delivers ==
    /\ pc = "collecting"
    /\ \E r \in RecordTypes :
          /\ Unanswered(r)
          /\ \/ origin # "nested" /\ Stops(Append(recoveries, r))
             \/ origin = "nested" /\ VerificationFails(Append(recoveries, r))

HandsBack ==
    /\ pc = "noting"
    /\ origin # "nested"
    /\ pc' = "verifying"
    /\ handback' \in [intervention_id : {pauses}, step : {StepOf(at)},
                      operator_id : Operators, note : Events]
    /\ SawPause(handback'.operator_id, pauses)
    /\ UNCHANGED <<at, origin, pauses, recoveries, acted, result, opened, file>>

Confirms ==
    /\ pc = "confirming"
    /\ \E b \in BOOLEAN : recoveries' = Append(recoveries, HandedBackRecord(b))
    /\ Proceed
    /\ UNCHANGED <<origin, pauses, handback, acted, result, opened>>
    /\ FileCall

BookStep ==
    \/ Idles \/ WaitsOn \/ Notes \/ Looks \/ Acts \/ Passes \/ Wins \/ Fails \/ Closes
    \/ Asks \/ AsksAgain \/ Delivers \/ HandsBack \/ Confirms

\* What the classification of the steps rests on.
Basics == TypeOK /\ FileSound /\ Placed

LEMMA FileKept == ASSUME file' = file PROVE FileCall /\ FileStep
BY DEF FileCall, FileStep

LEMMA StepOfType == ASSUME TypeOK PROVE StepOf(at) \in 1..Steps
BY StepsAssumption DEF TypeOK, StepOf, SuccessCheck

\* Reading the page, and the engine's other steps on its own.
LEMMA LookSteps ==
    ASSUME Basics,
           \/ ResolveTarget \/ GuardAction \/ PollWait \/ PollCheckpoint
           \/ PassNoDetectors \/ Verified \/ Act \/ StepPasses \/ Succeed \/ StopRun
           \/ Interrupt
    PROVE  Looks \/ Fails \/ Acts \/ Passes \/ Wins
<1> USE DEF Books, log, engineVars, channelVars, worldVars, Over, Waiting, FlowPCs
<1>1. CASE ResolveTarget \/ GuardAction \/ PollWait \/ PollCheckpoint
  BY <1>1 DEF ResolveTarget, GuardAction, PollWait, PollCheckpoint, LookFrom, Crash,
       LoseControl, End, FailureStatus, Looks, Fails
<1>2. CASE PassNoDetectors \/ Verified
  BY <1>2 DEF PassNoDetectors, Verified, Looks
<1>3. CASE Act
  BY <1>3 DEF Act, Crash, End, Acts, Fails
<1>4. CASE StepPasses
  BY <1>4 DEF StepPasses, Passes
<1>5. CASE Succeed
  BY <1>5 DEF Succeed, Wins
<1>6. CASE StopRun \/ Interrupt
  BY <1>6 DEF StopRun, Interrupt, Crash, End, Fails
<1>7. QED
  BY <1>1, <1>2, <1>3, <1>4, <1>5, <1>6

\* _reverify's except, by its effect on the books.
LEMMA VerificationStep ==
    ASSUME NEW known, FailVerification(known),
           UNCHANGED <<at, handback, acted, file>>
    PROVE  VerificationFails(known)
BY DEF FailVerification, VerificationFails, HandedBackRecord, HumanRecord, Escalate, End,
       FailureStatus, Opens, Stops

\* A stop that asks for a human opens a pause, or ends the run over the cap.
LEMMA AskSteps ==
    ASSUME Basics, AskForHuman \/ NotVerified \/ RecoveryNeedsHuman
    PROVE  Asks \/ AsksAgain
<1> USE DEF log, engineVars, channelVars, worldVars, Escalate, End, FailureStatus, Opens, Stops
<1>1. CASE AskForHuman
  BY <1>1 DEF AskForHuman, Asks
<1>2. CASE NotVerified
  <2>1. FailVerification(recoveries) /\ UNCHANGED <<at, handback, acted, file>>
    BY <1>2 DEF NotVerified
  <2>2. QED
    BY <1>2, <2>1, VerificationStep DEF NotVerified, AsksAgain
<1>3. CASE RecoveryNeedsHuman
  <2>1. UNCHANGED <<at, handback, acted, file>>
    BY <1>3 DEF RecoveryNeedsHuman
  <2>2. CASE MayPause
    BY <1>3, <2>2 DEF RecoveryNeedsHuman, AsksAgain
  <2>3. CASE ~MayPause
    <3>1. FailVerification(recoveries)
      BY <1>3, <2>3 DEF RecoveryNeedsHuman
    <3>2. QED
      BY <1>3, <2>1, <3>1, VerificationStep DEF RecoveryNeedsHuman, AsksAgain
  <2>4. QED
    BY <2>2, <2>3
<1>4. QED
  BY <1>1, <1>2, <1>3

\* While the channel waits, only the file and the place in the wait change.
LEMMA WaitSteps ==
    ASSUME Basics,
           \/ CreateSession \/ ReadBeforePause \/ PauseSession \/ Poll \/ Wake
           \/ WindowGone \/ Expire
    PROVE  WaitsOn
<1> USE DEF log, engineVars, channelVars, worldVars, WaitsOn, Books, PausePCs, Waiting
<1>1. TypeOK /\ Placed
  BY DEF Basics
<1>2. CASE CreateSession
  <2>1. FileStep
    BY <1>2 DEF CreateSession, FileStep, FileCall
  <2>2. file' # NoFile
    BY <1>2, StartType, NoFileAssumption DEF CreateSession
  <2>3. QED
    BY <1>2, <2>1, <2>2 DEF CreateSession
<1>3. CASE ReadBeforePause \/ Poll \/ Wake
  BY <1>1, <1>3, FileKept DEF ReadBeforePause, Poll, Wake, Placed
<1>4. pc \in {"pausing", "sleeping", "expiring"} => file # NoFile
  BY <1>1 DEF Placed
<1>5. ASSUME FileStep, file # NoFile PROVE file' # NoFile
  BY <1>1, <1>5, HistoryGrows DEF Grows
<1>6. CASE PauseSession
  <2>1. \A iv \in Nat : AutomationCall("reverify_failed", iv) \in Calls
                        /\ AutomationCall("stuck_detected", iv) \in Calls
    BY CallTypes DEF Events
  <2>2. pauses \in Nat
    BY <1>1, PausesAssumption DEF TypeOK
  <2>3. FileStep
    BY <1>6, <2>1, <2>2, QuietlyMoves DEF PauseSession
  <2>4. QED
    BY <1>4, <1>5, <1>6, <2>3 DEF PauseSession
<1>7. CASE WindowGone
  <2>1. AutomationCall("finish", 0) \in Calls
    BY CallTypes DEF Events
  <2>2. FileStep
    BY <1>7, <2>1, QuietlyMoves DEF WindowGone
  <2>3. QED
    BY <1>4, <1>5, <1>7, <2>2 DEF WindowGone
<1>8. CASE Expire
  <2>1. AutomationCall("expire", 0) \in Calls
    BY CallTypes DEF Events
  <2>2. FileStep
    BY <1>8, <2>1, QuietlyMoves DEF Expire
  <2>3. QED
    BY <1>4, <1>5, <1>8, <2>2 DEF Expire
<1>9. QED
  BY <1>2, <1>3, <1>6, <1>7, <1>8

\* A confirmed hand-back is recorded and the flow goes on.
LEMMA ConfirmStep == ASSUME Basics, Confirm PROVE Confirms
<1>1. AutomationCall("checkpoint_reverified", 0) \in Calls
  BY CallTypes DEF Events
<1>2. FileCall
  BY <1>1, QuietlyMoves DEF Confirm
<1>3. IsCheckpoint(at) \in BOOLEAN
  BY DEF IsCheckpoint
<1>4. PICK b \in BOOLEAN : b = IsCheckpoint(at)
  BY <1>3
<1>5. recoveries' = Append(recoveries, HandedBackRecord(b))
  BY <1>4 DEF Confirm, HandedBackRecord, HumanRecord
<1>6. /\ pc = "confirming" /\ Proceed
      /\ UNCHANGED <<origin, pauses, handback, acted, result, opened>>
  BY DEF Confirm, log, channelVars
<1>7. QED
  BY <1>2, <1>5, <1>6 DEF Confirms

\* Closing up and being killed leave the books as they are.
LEMMA CloseSteps == ASSUME Basics, CheckFinished \/ CloseSession \/ Kill PROVE Closes
<1> USE DEF log, engineVars, channelVars, worldVars, Closes, Books
<1>1. CASE CheckFinished \/ Kill
  BY <1>1, FileKept DEF CheckFinished, Kill
<1>2. CASE CloseSession
  <2>1. AutomationCall("finish", 0) \in Calls
    BY CallTypes DEF Events
  <2>2. FileCall
    BY <1>2, <2>1, QuietlyMoves DEF CloseSession
  <2>3. QED
    BY <1>2, <2>2 DEF CloseSession
<1>3. QED
  BY <1>1, <1>2

\* An operator's command moves the file or is refused.
LEMMA CommandMoves ==
    ASSUME NEW o \in Operators, Command(o)
    PROVE  \/ UNCHANGED <<file, age>>
           \/ /\ OperatorCall(o, cli[o].verb) \in Calls
              /\ cli[o].verb \in {"take_control", "hand_back", "abort"}
              /\ Moved(OperatorCall(o, cli[o].verb))
              /\ age' = 0
<1>1. \A e \in {"take_control", "hand_back", "abort"} : OperatorCall(o, e) \in Calls
  BY CallTypes DEF Events
<1>2. QED
  BY <1>1 DEF Command, Accepted, Move, Moved

\* So do the people and the clock.
LEMMA IdleSteps == ASSUME Basics, People \/ Tick \/ UNCHANGED vars PROVE Idles
<1> USE DEF log, engineVars, channelVars, worldVars, vars, Idles, Books
<1>1. CASE Tick \/ UNCHANGED vars \/ CloseWindow
  BY <1>1, FileKept DEF Tick, CloseWindow
<1>2. CASE \E o \in Operators : LookAlive(o)
  BY <1>2, FileKept DEF LookAlive
<1>3. CASE \E o \in Operators : \E verb \in {"take_control", "hand_back", "abort"} :
              ReadSession(o, verb)
  BY <1>3, FileKept DEF ReadSession
<1>4. CASE \E o \in Operators : Command(o)
  <2>1. PICK o \in Operators : Command(o)
    BY <1>4
  <2>2. FileCall
    BY <2>1, CommandMoves DEF FileCall
  <2>3. QED
    BY <2>1, <2>2 DEF Command
<1>5. QED
  BY <1>1, <1>2, <1>3, <1>4 DEF People

\* Whoever the channel names as the taker took the session in the open pause.
LEMMA TakerSaw ==
    ASSUME Basics, pc \in PausePCs \ {"opening"},
           NEW taker, taker = Taker(file.history, opened[pauses])
    PROVE  /\ taker \in Operators \cup {NoOne}
           /\ taker = NoOne <=> ~TakenSince(opened[pauses])
           /\ taker # NoOne => SawPause(taker, pauses)
           /\ file # NoFile /\ opened[pauses] \in Nat /\ Len(opened) = pauses
<1>1. file # NoFile /\ pauses >= 1
  BY DEF Basics, Placed
<1>2. opened[pauses] \in Nat /\ Len(opened) = pauses
  BY <1>1, PausesAssumption DEF Basics, TypeOK
<1>3. /\ taker \in Operators \cup {NoOne}
      /\ taker = NoOne <=> ~TakenSince(opened[pauses])
      /\ taker # NoOne =>
            \E i \in opened[pauses] + 1..Len(History) :
                History[i].event = "take_control" /\ History[i].operator_id = taker
  BY <1>1, <1>2, TakerFacts DEF Basics
<1>4. ASSUME taker # NoOne PROVE SawPause(taker, pauses)
  <2>1. PICK i \in opened[pauses] + 1..Len(History) :
              History[i].event = "take_control" /\ History[i].operator_id = taker
    BY <1>3, <1>4
  <2>2. Len(History) \in Nat
    BY HistoryType DEF Basics
  <2>3. i \in During(pauses)
    BY <1>2, <2>1, <2>2 DEF During
  <2>4. QED
    BY <2>1, <2>3 DEF SawPause
<1>5. QED
  BY <1>1, <1>2, <1>3, <1>4

\* A pause that was not handed back, delivered to the engine.
LEMMA DeliverSteps ==
    ASSUME Basics, pc = "collecting", NEW r \in RecordTypes, Unanswered(r), DeliverStop(r),
           UNCHANGED <<at, handback, acted, file>>
    PROVE  Delivers
<1>1. CASE origin # "nested"
  <2>1. Stops(Append(recoveries, r))
    BY <1>1 DEF DeliverStop, End, Stops
  <2>2. QED
    BY <1>1, <2>1 DEF Delivers
<1>2. CASE origin = "nested"
  <2>1. FailVerification(Append(recoveries, r))
    BY <1>2 DEF DeliverStop
  <2>2. VerificationFails(Append(recoveries, r))
    BY <2>1, VerificationStep
  <2>3. QED
    BY <1>2, <2>2 DEF Delivers
<1>3. QED
  BY <1>1, <1>2

\* A record of the open pause, whatever became of it.
LEMMA PauseRecord ==
    ASSUME Basics, NEW outcome \in {"aborted", "expired"},
           NEW by \in Operators \cup {NoOne}, NEW note \in Events \cup {"none", "closed"},
           NEW r, r = [outcome |-> outcome, operator_id |-> by, note |-> note,
                       reverified |-> FALSE, intervention_id |-> pauses,
                       step |-> StepOf(at)]
    PROVE  /\ r \in RecordTypes
           /\ r.intervention_id = pauses /\ r.outcome = outcome /\ r.operator_id = by
<1>1. pauses \in Nat
  BY PausesAssumption DEF Basics, TypeOK
<1>2. StepOf(at) \in 1..Steps
  BY StepOfType DEF Basics
<1>3. QED
  BY <1>1, <1>2 DEF RecordTypes

\* A pause whose window was closed.
LEMMA LostSteps == ASSUME Basics, CollectLost PROVE Delivers
<1> DEFINE taker == Taker(file.history, opened[pauses])
           outcome == IF taker # NoOne THEN "aborted" ELSE "expired"
           r == [outcome |-> outcome, operator_id |-> taker, note |-> "closed",
                 reverified |-> FALSE, intervention_id |-> pauses, step |-> StepOf(at)]
<1>1. pc = "collecting" /\ lost /\ DeliverStop(r) /\ UNCHANGED <<at, handback, acted, file>>
  BY DEF CollectLost, HumanRecord, worldVars, log
<1>2. taker \in Operators \cup {NoOne} /\ (taker # NoOne => SawPause(taker, pauses))
  BY <1>1, TakerSaw DEF PausePCs
<1>3. outcome \in {"aborted", "expired"}
  OBVIOUS
<1> HIDE DEF taker, outcome
<1>4. /\ r \in RecordTypes
      /\ r.intervention_id = pauses /\ r.outcome = outcome /\ r.operator_id = taker
  BY <1>2, <1>3, PauseRecord
<1> HIDE DEF r
<1>5. InStep => InPhases({"finished"})
  BY <1>1 DEF InStep
<1>6. Unanswered(r)
  BY <1>2, <1>3, <1>4, <1>5 DEF Unanswered
<1>7. QED
  BY <1>1, <1>4, <1>6, DeliverSteps

\* A history whose last entry is an abort: by an operator, and the session is over.
LEMMA AbortFacts ==
    ASSUME Basics, file # NoFile, Aborted(file.history)
    PROVE  /\ Len(History) \in 1..Len(History)
           /\ History[Len(History)].event = "abort"
           /\ History[Len(History)].operator_id \in Operators
           /\ Last(file.history) = History[Len(History)]
           /\ file.phase = "finished"
<1>1. History \in Seq(TransitionRecord) /\ History = file.history
  BY HistoryType DEF Basics
<1>2. /\ Len(History) \in 1..Len(History)
      /\ History[Len(History)].event = "abort"
      /\ Last(file.history) = History[Len(History)]
  BY <1>1 DEF Aborted, Last
<1>3. EntrySound(History[Len(History)]) /\ file.phase = PhaseAt(Len(History))
  BY <1>2 DEF Basics, FileSound
<1>4. QED
  BY <1>2, <1>3 DEF EntrySound, PhaseAt

\* A pause that ran out or was aborted: delivered, unless its record is refused.
LEMMA EndedSteps == ASSUME Basics, CollectEnded PROVE Delivers \/ Fails
<1> DEFINE taker == Taker(file.history, opened[pauses])
           by == IF Aborted(file.history) THEN Last(file.history).operator_id ELSE taker
           outcome == IF Aborted(file.history) THEN "aborted" ELSE "expired"
           note == IF Aborted(file.history) THEN "abort" ELSE "none"
           r == [outcome |-> outcome, operator_id |-> by, note |-> note,
                 reverified |-> FALSE, intervention_id |-> pauses, step |-> StepOf(at)]
<1>1. /\ pc = "collecting" /\ file.phase # "resuming"
      /\ UNCHANGED <<at, handback, acted, file>>
  BY DEF CollectEnded, worldVars, log
<1>2. \/ (by = NoOne <=> taker = NoOne) /\ DeliverStop(r)
      \/ Crash("ValidationError") /\ UNCHANGED <<pauses, origin, recoveries, opened>>
  BY DEF CollectEnded, HumanRecord
<1>3. CASE Crash("ValidationError") /\ UNCHANGED <<pauses, origin, recoveries, opened>>
  BY <1>1, <1>3 DEF Crash, End, Fails, Over, FlowPCs
<1>4. CASE (by = NoOne <=> taker = NoOne) /\ DeliverStop(r)
  <2>1. DeliverStop(r)
    BY <1>4
  <2>2. /\ taker \in Operators \cup {NoOne}
        /\ taker = NoOne <=> ~TakenSince(opened[pauses])
        /\ taker # NoOne => SawPause(taker, pauses)
        /\ file # NoFile /\ opened[pauses] \in Nat /\ Len(opened) = pauses
    BY <1>1, TakerSaw DEF PausePCs
  <2>3. /\ outcome \in {"aborted", "expired"} /\ note \in Events \cup {"none", "closed"}
        /\ outcome = "aborted" <=> Aborted(file.history)
    BY DEF Events
  <2>4. by \in Operators \cup {NoOne}
    BY <2>2, AbortFacts
  <2>5. ASSUME by # NoOne PROVE SawPause(by, pauses)
    <3>1. CASE ~Aborted(file.history)
      BY <2>2, <2>5, <3>1
    <3>2. CASE Aborted(file.history)
      <4>1. TakenSince(opened[pauses])
        BY <1>4, <2>2, <2>5
      <4>2. /\ Len(History) \in 1..Len(History)
            /\ History[Len(History)].event = "abort"
            /\ History[Len(History)].operator_id = by
        BY <2>2, <3>2, AbortFacts
      <4>3. Len(History) \in During(pauses)
        BY <2>2, <4>1, <4>2 DEF TakenSince, During
      <4>4. QED
        BY <4>2, <4>3 DEF SawPause
    <3>3. QED
      BY <3>1, <3>2
  <2>6. ASSUME InStep, outcome = "aborted" \/ by = NoOne PROVE InPhases({"finished"})
    <3>1. CASE Aborted(file.history)
      BY <2>2, <3>1, AbortFacts DEF InPhases
    <3>2. CASE ~Aborted(file.history)
      <4>1. ~TakenSince(opened[pauses])
        BY <2>2, <2>6, <3>2
      <4>2. MovedOn
        BY <1>1, <2>6 DEF InStep
      <4>3. QED
        BY <1>1, <4>1, <4>2 DEF MovedOn, InPhases
    <3>3. QED
      BY <3>1, <3>2
  <2> HIDE DEF taker, by, outcome, note
  <2>7. /\ r \in RecordTypes
        /\ r.intervention_id = pauses /\ r.outcome = outcome /\ r.operator_id = by
    BY <2>3, <2>4, PauseRecord
  <2> HIDE DEF r
  <2>8. Unanswered(r)
    BY <2>3, <2>5, <2>6, <2>7 DEF Unanswered, Unearned
  <2>9. QED
    BY <1>1, <2>1, <2>7, <2>8, DeliverSteps
<1>5. QED
  BY <1>2, <1>3, <1>4

\* A pause that was handed back, and a nested one that unwinds out of the run.
LEMMA HandbackSteps ==
    ASSUME Basics, CollectHandback \/ DeliverHandback
    PROVE  Notes \/ HandsBack \/ Fails
<1> DEFINE taker == Taker(file.history, opened[pauses])
<1>1. pc \in PausePCs \ {"opening"}
  BY DEF CollectHandback, DeliverHandback, PausePCs
<1>2. /\ taker \in Operators \cup {NoOne}
      /\ taker = NoOne <=> ~TakenSince(opened[pauses])
      /\ taker # NoOne => SawPause(taker, pauses)
      /\ file # NoFile
  BY <1>1, TakerSaw
<1>3. CASE CollectHandback
  BY <1>2, <1>3 DEF CollectHandback, Crash, End, Notes, Fails, Over, Books, worldVars,
       channelVars, log
<1>4. CASE DeliverHandback
  <2>1. CASE origin = "nested"
    BY <1>4, <2>1 DEF DeliverHandback, Crash, End, Fails, Over, FlowPCs, worldVars,
         channelVars, log
  <2>2. CASE origin # "nested"
    <3>1. TakenSince(opened[pauses])
      BY <1>4 DEF DeliverHandback, Basics, Placed
    <3>2. taker \in Operators /\ SawPause(taker, pauses)
      BY <1>2, <3>1
    <3>3. NoteOf(file.history) \in Events
      <4>1. History \in Seq(TransitionRecord) /\ History = file.history
        BY <1>2, HistoryType DEF Basics
      <4>2. Len(History) \in 1..Len(History)
        <5>1. opened[pauses] \in Nat
          BY <1>1, TakerSaw
        <5>2. QED
          BY <3>1, <4>1, <5>1 DEF TakenSince
      <4>3. History[Len(History)] \in TransitionRecord
        BY <4>1, <4>2
      <4>4. QED
        BY <4>1, <4>3 DEF NoteOf, Last, TransitionRecord
    <3>4. handback' = [intervention_id |-> pauses, step |-> StepOf(at),
                       operator_id |-> taker, note |-> NoteOf(file.history)]
      BY <1>4, <2>2 DEF DeliverHandback
    <3>5. /\ pc = "noting" /\ pc' = "verifying"
          /\ UNCHANGED <<at, origin, pauses, recoveries, acted, result, opened, file>>
      BY <1>4, <2>2 DEF DeliverHandback, worldVars, channelVars, log
    <3> HIDE DEF taker
    <3>6. QED
      BY <2>2, <3>2, <3>3, <3>4, <3>5 DEF HandsBack
  <2>3. QED
    BY <2>1, <2>2
<1>5. QED
  BY <1>3, <1>4

\* Every step of the system is one of these to the books.
LEMMA BookSteps == ASSUME Basics, [Next]_vars PROVE BookStep
<1>1. CASE Engine
  BY <1>1, LookSteps, AskSteps, ConfirmStep DEF Engine, BookStep
<1>2. CASE Channel
  BY <1>2, WaitSteps, LostSteps, EndedSteps, HandbackSteps DEF Channel, BookStep
<1>3. CASE Closing \/ Kill
  BY <1>3, CloseSteps DEF Closing, BookStep
<1>4. CASE Interrupt
  BY <1>4, LookSteps DEF BookStep
<1>5. CASE People \/ Tick \/ UNCHANGED vars
  BY <1>5, IdleSteps DEF BookStep
<1>6. QED
  BY <1>1, <1>2, <1>3, <1>4, <1>5 DEF Next

\* Whatever a step does to the books, what it does to the file is a FileStep.
LEMMA BookFileStep == ASSUME BookStep PROVE FileStep
BY FileKept DEF BookStep, FileStep, Idles, WaitsOn, Notes, Looks, Acts, Passes, Wins, Fails, Closes,
   Asks, AsksAgain, VerificationFails, Delivers, HandsBack, Confirms, Opens, Stops

-----------------------------------------------------------------------------
(* The initial state.                                                       *)

\* The run starts with nothing done, recorded or opened.
LEMMA InitInv == Init => IInv /\ Undisturbed
<1> SUFFICES ASSUME Init PROVE IInv /\ Undisturbed
  OBVIOUS
<1> USE StepsAssumption, PausesAssumption, WaitAssumption, FaultsAssumption DEF Init
<1>1. TypeOK
  <2>1. << >> \in Seq(RecordTypes) /\ << >> \in Seq(Nat)
        /\ << >> \in Seq([step : 1..Steps, checked : Nat, version : Nat])
    OBVIOUS
  <2>2. Idle \in [verb : Events \cup {"none", "looked"}, version : Nat \cup {-1}]
    BY DEF Idle
  <2>3. /\ file \in SessionStates \cup {NoFile}
        /\ cli \in [Operators -> [verb : Events \cup {"none", "looked"}, version : Nat \cup {-1}]]
    BY <2>2
  <2>4. age \in 0..WaitS /\ left \in 0..WaitS /\ faults \in 0..MaxFaults
    OBVIOUS
  <2>5. windowOpen \in BOOLEAN /\ holding \in BOOLEAN /\ lost \in BOOLEAN /\ path \in BOOLEAN
    OBVIOUS
  <2>6. /\ pc \in PCs /\ at \in 1..SuccessCheck /\ origin \in {"flow", "nested", "post"}
        /\ pauses \in 0..MAX_HUMAN_PAUSES /\ Len(opened) = pauses
        /\ checked \in Nat /\ seen \in [phase : Phases, version : Nat]
    BY DEF PCs, Phases, SuccessCheck
  <2>7. QED
    BY <2>1, <2>3, <2>4, <2>5, <2>6 DEF TypeOK
<1>2. FileSound /\ Placed /\ Controlled
  BY DEF FileSound, Placed, Controlled, ActsOnlyInControl, Over, PausePCs, Waiting, VerifyPCs,
         NestedPause
<1>3. Progress
  BY DEF Progress, NeverActsTwice, EveryStepIsAccountedFor, NotEnded
<1>4. Recorded /\ Attributed
  BY DEF Recorded, Attributed, NobodyElseIsBlamed, VerifyPCs, NestedPause, PausePCs, Waiting
<1>5. Answered /\ Clocked
  BY DEF Answered, Clocked, NotEnded, HumanHolds, InPhase
<1>6. Undisturbed
  BY DEF Undisturbed, InStep, Doomed, FlowPCs, VerifyPCs
<1>7. QED
  BY <1>1, <1>2, <1>3, <1>4, <1>5, <1>6 DEF IInv

-----------------------------------------------------------------------------
(* Types.                                                                   *)

\* The types of the world's and the channel's variables, and of the engine's.
WorldTypes ==
    /\ cli \in [Operators -> [verb : Events \cup {"none", "looked"}, version : Nat \cup {-1}]]
    /\ age \in 0..WaitS /\ left \in 0..WaitS
    /\ windowOpen \in BOOLEAN /\ holding \in BOOLEAN /\ lost \in BOOLEAN /\ path \in BOOLEAN
    /\ faults \in 0..MaxFaults
    /\ checked \in Nat
    /\ seen \in [phase : Phases, version : Nat]

BookTypes ==
    /\ pc \in PCs
    /\ at \in 1..SuccessCheck
    /\ origin \in {"flow", "nested", "post"}
    /\ pauses \in 0..MAX_HUMAN_PAUSES
    /\ handback = NoHandback
          \/ handback \in [intervention_id : 1..pauses, step : 1..Steps,
                            operator_id : Operators, note : Events]
    /\ recoveries \in Seq(RecordTypes)
    /\ acted \in Seq([step : 1..Steps, checked : Nat, version : Nat])
    /\ opened \in Seq(Nat) /\ Len(opened) = pauses

\* The type invariant in three parts, each kept for its own reasons.
LEMMA TypesAre ==
    TypeOK <=> file \in SessionStates \cup {NoFile} /\ WorldTypes /\ BookTypes
BY DEF TypeOK, WorldTypes, BookTypes

\* The file as the channel reads it.
LEMMA ReadType ==
    ASSUME TypeOK, file # NoFile
    PROVE  [phase |-> file.phase, version |-> file.version] \in [phase : Phases, version : Nat]
BY DEF TypeOK, SessionStates

\* The types of the world, the channel and the clock.
LEMMA WorldTypesStep == ASSUME Basics, [Next]_vars PROVE WorldTypes'
<1>1. WorldTypes /\ Placed /\ TypeOK
  BY TypesAre DEF Basics
<1> USE WaitAssumption, FaultsAssumption DEF WorldTypes
<1> USE DEF log, engineVars, channelVars, worldVars
<1>2. CASE ResolveTarget \/ PollWait \/ PollCheckpoint
  BY <1>1, <1>2 DEF ResolveTarget, PollWait, PollCheckpoint, LookFrom
<1>3. CASE GuardAction
  <2>1. Len(History) \in Nat
    BY <1>1, HistoryType
  <2>2. QED
    BY <1>1, <1>3, <2>1 DEF GuardAction, LookFrom
<1>4. CASE Act
  BY <1>1, <1>4 DEF Act
<1>5. CASE StepPasses \/ Succeed \/ StopRun \/ PassNoDetectors \/ Verified \/ Interrupt \/ Kill
           \/ CheckFinished
  BY <1>1, <1>5 DEF StepPasses, Succeed, StopRun, PassNoDetectors, Verified, Interrupt, Kill,
       CheckFinished
<1>6. CASE AskForHuman \/ NotVerified \/ RecoveryNeedsHuman
  BY <1>1, <1>6 DEF AskForHuman, NotVerified, RecoveryNeedsHuman, FailVerification, Escalate,
       HandedBackRecord, HumanRecord
<1>7. ASSUME NEW call \in Calls, NEW version, Quietly(call, version)
      PROVE  age' \in 0..WaitS /\ faults' \in 0..MaxFaults
  BY <1>1, <1>7, QuietlyMoves
<1>8. /\ \A iv \in Nat : AutomationCall("reverify_failed", iv) \in Calls
                         /\ AutomationCall("stuck_detected", iv) \in Calls
      /\ AutomationCall("finish", 0) \in Calls /\ AutomationCall("expire", 0) \in Calls
      /\ AutomationCall("checkpoint_reverified", 0) \in Calls
      /\ pauses \in Nat
  <2>1. pauses \in Nat
    BY <1>1, PausesAssumption DEF TypeOK
  <2>2. QED
    BY <2>1, CallTypes DEF Events
<1>9. CASE Confirm
  <2>1. age' \in 0..WaitS /\ faults' \in 0..MaxFaults
    BY <1>7, <1>8, <1>9 DEF Confirm
  <2>2. QED
    BY <1>1, <1>9, <2>1 DEF Confirm
<1>10. CASE CloseSession
  <2>1. age' \in 0..WaitS /\ faults' \in 0..MaxFaults
    BY <1>7, <1>8, <1>10 DEF CloseSession
  <2>2. QED
    BY <1>1, <1>10, <2>1 DEF CloseSession
<1>11. CASE PauseSession
  <2>1. age' \in 0..WaitS /\ faults' \in 0..MaxFaults
    BY <1>7, <1>8, <1>11 DEF PauseSession
  <2>2. QED
    BY <1>1, <1>11, <2>1 DEF PauseSession
<1>12. CASE WindowGone
  <2>1. age' \in 0..WaitS /\ faults' \in 0..MaxFaults
    BY <1>7, <1>8, <1>12 DEF WindowGone
  <2>2. QED
    BY <1>1, <1>12, <2>1 DEF WindowGone
<1>13. CASE Expire
  <2>1. age' \in 0..WaitS /\ faults' \in 0..MaxFaults
    BY <1>7, <1>8, <1>13 DEF Expire
  <2>2. QED
    BY <1>1, <1>13, <2>1 DEF Expire
<1>14. CASE CreateSession \/ Wake
  BY <1>1, <1>14 DEF CreateSession, Wake
<1>15. CASE ReadBeforePause \/ Poll
  <2>1. file # NoFile
    BY <1>1, <1>15 DEF ReadBeforePause, Poll, Placed, PausePCs, Waiting
  <2>2. [phase |-> file.phase, version |-> file.version] \in [phase : Phases, version : Nat]
    BY <1>1, <2>1, ReadType
  <2>3. CASE ReadBeforePause
    BY <1>1, <2>2, <2>3 DEF ReadBeforePause
  <2>4. CASE Poll
    <3>1. left' = left \/ left' = WaitS - age
      BY <2>4 DEF Poll, LeftAfterTake
    <3>2. left' \in 0..WaitS
      BY <1>1, <3>1
    <3>3. holding' \in BOOLEAN
      BY <2>4 DEF Poll
    <3>4. QED
      BY <1>1, <2>2, <2>4, <3>2, <3>3 DEF Poll
  <2>5. QED
    BY <1>15, <2>3, <2>4
<1>16. ASSUME NEW r, DeliverStop(r), UNCHANGED <<worldVars, checked, seen, holding, lost>>
       PROVE  WorldTypes'
  BY <1>1, <1>16 DEF DeliverStop, Involve, FailVerification, Escalate, HandedBackRecord,
       HumanRecord
<1>17. CASE CollectLost
  <2>1. \E r : DeliverStop(r)
    BY <1>17 DEF CollectLost, HumanRecord
  <2>2. QED
    BY <1>16, <1>17, <2>1 DEF CollectLost
<1>18. CASE CollectEnded
  <2>1. (\E r : DeliverStop(r)) \/ UNCHANGED <<path, left>>
    BY <1>18 DEF CollectEnded, HumanRecord
  <2>2. QED
    BY <1>1, <1>16, <1>18, <2>1 DEF CollectEnded
<1>19. CASE CollectHandback \/ DeliverHandback
  BY <1>1, <1>19 DEF CollectHandback, DeliverHandback, Involve
<1>20. CASE CloseWindow \/ Tick
  <2>1. CASE CloseWindow
    BY <1>1, <2>1 DEF CloseWindow
  <2>2. CASE Tick
    <3>1. /\ age' = age \/ (age < WaitS /\ age' = age + 1)
          /\ left' = IF left > 0 THEN left - 1 ELSE 0
      BY <2>2 DEF Tick
    <3>2. age' \in 0..WaitS /\ left' \in 0..WaitS
      BY <1>1, <3>1
    <3>3. QED
      BY <1>1, <2>2, <3>2 DEF Tick
  <2>3. QED
    BY <1>20, <2>1, <2>2
<1>21. CASE UNCHANGED vars
  BY <1>1, <1>21 DEF vars
<1>22. CASE \E o \in Operators : LookAlive(o)
  BY <1>1, <1>22 DEF LookAlive
<1>23. CASE \E o \in Operators : \E verb \in {"take_control", "hand_back", "abort"} :
              ReadSession(o, verb)
  <2>1. PICK o \in Operators, verb \in {"take_control", "hand_back", "abort"} : ReadSession(o, verb)
    BY <1>23
  <2>2. file.version \in Nat /\ verb \in Events
    BY <1>1, <2>1 DEF ReadSession, TypeOK, SessionStates, Events
  <2>3. QED
    BY <1>1, <2>1, <2>2 DEF ReadSession
<1>24. CASE \E o \in Operators : Command(o)
  <2>1. PICK o \in Operators : Command(o)
    BY <1>24
  <2>2. age' \in 0..WaitS
    BY <1>1, <2>1, CommandMoves
  <2>3. Idle \in [verb : Events \cup {"none", "looked"}, version : Nat \cup {-1}]
    BY DEF Idle
  <2>4. QED
    BY <1>1, <2>1, <2>2, <2>3 DEF Command
<1>25. QED
  BY <1>2, <1>3, <1>4, <1>5, <1>6, <1>9, <1>10, <1>11, <1>12, <1>13, <1>14, <1>15, <1>17,
     <1>18, <1>19, <1>20, <1>21, <1>22, <1>23, <1>24
     DEF Next, Engine, Channel, Closing, People

\* The record a hand-back leaves, once it was confirmed or was not verified.
Honoured(r) ==
    /\ r \in RecordTypes
    /\ r.outcome = "handed_back"
    /\ r.intervention_id = handback.intervention_id
    /\ r.operator_id = handback.operator_id
    /\ r.note = handback.note
    /\ r.step = handback.step

\* The hand-back being re-verified belongs to this step and to a pause already opened.
LEMMA HandbackIs ==
    ASSUME Basics, pc \in VerifyPCs \/ NestedPause
    PROVE  /\ handback.intervention_id \in 1..pauses /\ handback.step \in 1..Steps
           /\ handback.operator_id \in Operators /\ handback.note \in Events
           /\ handback.step = StepOf(at)
           /\ handback.intervention_id = IF NestedPause THEN pauses - 1 ELSE pauses
           /\ pauses \in Nat
<1>1. handback \in [intervention_id : 1..pauses, step : 1..Steps,
                    operator_id : Operators, note : Events]
  BY DEF Basics, TypeOK, Placed
<1>2. /\ handback.step = StepOf(at)
      /\ handback.intervention_id = IF NestedPause THEN pauses - 1 ELSE pauses
      /\ pauses \in Nat
  BY PausesAssumption DEF Basics, Placed, TypeOK
<1>3. QED
  BY <1>1, <1>2

\* The record made of it honours it, whatever re-verifying it came to.
LEMMA HandedBackRecordIs ==
    ASSUME Basics, pc \in VerifyPCs \/ NestedPause, NEW b \in BOOLEAN,
           NEW r, r = [outcome |-> "handed_back", operator_id |-> handback.operator_id,
                       note |-> handback.note, reverified |-> b,
                       intervention_id |-> handback.intervention_id, step |-> handback.step]
    PROVE  Honoured(r)
<1>1. /\ handback.intervention_id \in Nat /\ handback.step \in 1..Steps
      /\ handback.operator_id \in Operators /\ handback.note \in Events
  BY HandbackIs
<1>2. r \in RecordTypes
  BY <1>1 DEF RecordTypes
<1>3. QED
  BY <1>2 DEF Honoured

\* A failed re-verification records the hand-back and asks again, or ends the run.
LEMMA VerificationFailsIs ==
    ASSUME Basics, pc \in VerifyPCs \/ NestedPause, NEW known, VerificationFails(known)
    PROVE  \E r \in RecordTypes :
              Honoured(r) /\ (Opens("post", Append(known, r)) \/ Stops(Append(known, r)))
<1> DEFINE r == [outcome |-> "handed_back", operator_id |-> handback.operator_id,
                 note |-> handback.note, reverified |-> FALSE,
                 intervention_id |-> handback.intervention_id, step |-> handback.step]
<1>1. Honoured(r)
  BY HandedBackRecordIs
<1>2. Opens("post", Append(known, r)) \/ Stops(Append(known, r))
  BY DEF VerificationFails, HandedBackRecord, HumanRecord
<1> HIDE DEF r
<1>3. QED
  BY <1>1, <1>2 DEF Honoured

\* A confirmed one records it.
LEMMA ConfirmsIs ==
    ASSUME Basics, Confirms
    PROVE  \E r \in RecordTypes : Honoured(r) /\ recoveries' = Append(recoveries, r)
<1>1. PICK b \in BOOLEAN : recoveries' = Append(recoveries, HandedBackRecord(b))
  BY DEF Confirms
<1> DEFINE r == [outcome |-> "handed_back", operator_id |-> handback.operator_id,
                 note |-> handback.note, reverified |-> b,
                 intervention_id |-> handback.intervention_id, step |-> handback.step]
<1>2. pc \in VerifyPCs
  BY DEF Confirms, VerifyPCs
<1>3. Honoured(r)
  BY <1>2, HandedBackRecordIs
<1>4. recoveries' = Append(recoveries, r)
  BY <1>1 DEF HandedBackRecord, HumanRecord
<1> HIDE DEF r
<1>5. QED
  BY <1>3, <1>4 DEF Honoured

\* A pause that is about to be opened, or a stop, with the records known by then.
LEMMA OpensTypes ==
    ASSUME Basics, NEW from \in {"flow", "nested", "post"},
           NEW known \in Seq(RecordTypes), Opens(from, known) \/ Stops(known)
    PROVE  BookTypes'
<1>1. /\ BookTypes /\ Len(History) \in Nat
  BY TypesAre, HistoryType DEF Basics
<1>2. CASE Stops(known)
  BY <1>1, <1>2 DEF BookTypes, Stops, PCs
<1>3. CASE Opens(from, known)
  <2>1. pauses' = pauses + 1 /\ pauses \in Nat /\ pauses' \in 0..MAX_HUMAN_PAUSES
    BY <1>1, <1>3, PausesAssumption DEF Opens, MayPause, BookTypes
  <2>2. opened' \in Seq(Nat) /\ Len(opened') = pauses'
    BY <1>1, <1>3 DEF Opens, BookTypes
  <2>3. handback' = NoHandback
          \/ handback' \in [intervention_id : 1..pauses', step : 1..Steps,
                            operator_id : Operators, note : Events]
    <3>1. 1..pauses \subseteq 1..pauses'
      BY <2>1
    <3>2. CASE handback = NoHandback
      BY <1>3, <3>2 DEF Opens
    <3>3. CASE handback \in [intervention_id : 1..pauses, step : 1..Steps,
                             operator_id : Operators, note : Events]
      BY <1>3, <3>1, <3>3 DEF Opens
    <3>4. QED
      BY <1>1, <3>2, <3>3 DEF BookTypes
  <2>4. QED
    BY <1>1, <1>3, <2>1, <2>2, <2>3 DEF BookTypes, Opens, PCs, Waiting
<1>4. QED
  BY <1>2, <1>3

\* The types of the run's own books.
LEMMA BookTypesStep == ASSUME Basics, BookStep PROVE BookTypes'
<1>1. BookTypes /\ Placed /\ recoveries \in Seq(RecordTypes)
  BY TypesAre DEF Basics, TypeOK
<1> USE StepsAssumption
<1>2. CASE Idles \/ WaitsOn \/ Notes \/ Looks \/ Wins \/ Fails \/ Closes
  BY <1>1, <1>2 DEF BookTypes, Books, Idles, WaitsOn, Notes, Looks, Wins, Fails, Closes, End,
       PCs, PausePCs
<1>3. CASE Acts
  <2>1. at \in 1..Steps /\ checked \in Nat /\ Len(History) \in Nat
    BY <1>1, <1>3, HistoryType DEF Basics, TypeOK, Acts, Placed, SuccessCheck
  <2>2. acted' \in Seq([step : 1..Steps, checked : Nat, version : Nat])
    BY <1>1, <1>3, <2>1 DEF Acts, BookTypes
  <2>3. QED
    BY <1>1, <1>3, <2>2 DEF Acts, BookTypes, PCs
<1>4. ASSUME Proceed PROVE at' \in 1..SuccessCheck /\ pc' \in {"waiting", "before"}
  BY <1>1, <1>4 DEF Proceed, SuccessCheck, BookTypes
<1>5. CASE Passes
  BY <1>1, <1>4, <1>5 DEF Passes, BookTypes, PCs
<1>6. CASE Asks
  BY <1>1, <1>6, OpensTypes DEF Asks
<1>7. CASE AsksAgain
  <2>1. CASE Opens("nested", recoveries)
    BY <1>1, <2>1, OpensTypes
  <2>2. CASE VerificationFails(recoveries)
    <3>1. pc \in VerifyPCs
      BY <1>7 DEF AsksAgain, VerifyPCs
    <3>2. PICK r \in RecordTypes :
              Honoured(r) /\ (Opens("post", Append(recoveries, r)) \/ Stops(Append(recoveries, r)))
      BY <2>2, <3>1, VerificationFailsIs
    <3>3. Append(recoveries, r) \in Seq(RecordTypes)
      BY <1>1
    <3>4. QED
      BY <3>2, <3>3, OpensTypes
  <2>3. QED
    BY <1>7, <2>1, <2>2 DEF AsksAgain
<1>8. CASE Delivers
  <2>1. PICK r \in RecordTypes :
          \/ origin # "nested" /\ Stops(Append(recoveries, r))
          \/ origin = "nested" /\ VerificationFails(Append(recoveries, r))
    BY <1>8 DEF Delivers
  <2>2. Append(recoveries, r) \in Seq(RecordTypes)
    BY <1>1
  <2>3. CASE Stops(Append(recoveries, r))
    BY <2>2, <2>3, OpensTypes
  <2>4. CASE origin = "nested" /\ VerificationFails(Append(recoveries, r))
    <3>1. NestedPause
      BY <1>8, <2>4 DEF Delivers, NestedPause, PausePCs
    <3>2. PICK s \in RecordTypes :
              \/ Opens("post", Append(Append(recoveries, r), s))
              \/ Stops(Append(Append(recoveries, r), s))
      BY <2>4, <3>1, VerificationFailsIs
    <3>3. Append(Append(recoveries, r), s) \in Seq(RecordTypes)
      BY <2>2
    <3>4. QED
      BY <3>2, <3>3, OpensTypes
  <2>5. QED
    BY <2>1, <2>3, <2>4
<1>9. CASE HandsBack
  <2>1. pauses \in 1..pauses /\ StepOf(at) \in 1..Steps
    BY <1>1, <1>9, StepOfType, PausesAssumption
       DEF HandsBack, Placed, PausePCs, BookTypes, Basics
  <2>2. handback' \in [intervention_id : 1..pauses', step : 1..Steps,
                       operator_id : Operators, note : Events]
    BY <1>9, <2>1 DEF HandsBack
  <2>3. QED
    BY <1>1, <1>9, <2>2 DEF HandsBack, BookTypes, PCs
<1>10. CASE Confirms
  <2>1. PICK r \in RecordTypes : recoveries' = Append(recoveries, r)
    BY <1>10, ConfirmsIs
  <2>2. recoveries' \in Seq(RecordTypes)
    BY <1>1, <2>1
  <2>3. QED
    BY <1>1, <1>4, <1>10, <2>2 DEF Confirms, BookTypes, PCs
<1>11. QED
  BY <1>2, <1>3, <1>5, <1>6, <1>7, <1>8, <1>9, <1>10 DEF BookStep

LEMMA TypeStep == ASSUME Basics, [Next]_vars PROVE TypeOK'
<1>1. BookStep /\ FileStep
  BY BookSteps, BookFileStep
<1>2. file' \in SessionStates \cup {NoFile}
  BY <1>1, HistoryGrows DEF Basics
<1>3. WorldTypes' /\ BookTypes'
  BY <1>1, WorldTypesStep, BookTypesStep
<1>4. QED
  BY <1>2, <1>3 DEF TypeOK, WorldTypes, BookTypes

-----------------------------------------------------------------------------
(* Where the run is.                                                        *)

\* A call to the transition function never creates or removes the file.
LEMMA FileCallKeeps ==
    ASSUME TypeOK, FileCall
    PROVE  /\ file' = NoFile <=> file = NoFile
           /\ Len(History) \in Nat /\ Len(History') \in Nat /\ Len(History) <= Len(History')
<1>1. file # NoFile => file' # NoFile
  BY HistoryGrows DEF FileStep, Grows
<1>2. file = NoFile => file' = NoFile
  BY DEF FileCall, Moved
<1>3. Len(History) <= Len(History') /\ History' \in Seq(TransitionRecord)
  BY HistoryGrows DEF FileStep, Grows
<1>4. QED
  BY <1>1, <1>2, <1>3, HistoryType

\* Neither a stop nor a new pause leaves anything open but that pause.
LEMMA OpensPlaced ==
    ASSUME Basics, pc \notin Over, NEW from \in {"flow", "nested", "post"}, NEW known,
           Opens(from, known) \/ Stops(known),
           from = "nested" => pc \in VerifyPCs
    PROVE  Placed'
<1>1. /\ pauses \in Nat /\ Len(opened) = pauses /\ opened \in Seq(Nat) /\ Len(History) \in Nat
      /\ file # NoFile => pauses >= 1
      /\ result = NotEnded
  BY PausesAssumption, HistoryType DEF Basics, TypeOK, Placed
<1>2. CASE Stops(known)
  BY <1>1, <1>2 DEF Stops, Placed, Over, PausePCs, Waiting, VerifyPCs, NestedPause
<1>3. CASE Opens(from, known)
  <2>1. pauses' >= 1 /\ opened'[pauses'] = Len(History) /\ pauses' = pauses + 1
    BY <1>1, <1>3 DEF Opens
  <2>2. opened'[pauses'] <= Len(History)'
    BY <1>1, <1>3, <2>1 DEF Opens, History
  <2>3. ASSUME from = "nested"
        PROVE  /\ handback # NoHandback /\ handback.step = StepOf(at)
               /\ handback.intervention_id = pauses
    BY <2>3 DEF Basics, Placed, NestedPause, VerifyPCs, PausePCs, Waiting
  <2>4. NestedPause' => from = "nested"
    BY <1>3 DEF Opens, NestedPause
  <2>5. ~(pc' \in VerifyPCs) /\ pc' = "opening" /\ UNCHANGED <<at, handback, result, file>>
    BY <1>3 DEF Opens, VerifyPCs
  <2>6. NestedPause' =>
          /\ handback' # NoHandback /\ handback'.step = StepOf(at)'
          /\ handback'.intervention_id = pauses' - 1
    BY <1>1, <2>1, <2>3, <2>4, <2>5 DEF StepOf
  <2>7. QED
    BY <1>1, <2>1, <2>2, <2>5, <2>6 DEF Placed, Over, PausePCs, Waiting
<1>4. QED
  BY <1>2, <1>3

\* Every step leaves the run where what is open agrees with it.
LEMMA PlacedStep == ASSUME Basics, BookStep PROVE Placed'
<1>1. Placed /\ TypeOK /\ pauses \in Nat
  BY PausesAssumption DEF Basics, TypeOK
<1> USE DEF Over, PausePCs, Waiting, VerifyPCs, NestedPause
<1>2. CASE Idles
  <2>1. /\ file' = NoFile <=> file = NoFile
        /\ Len(History) \in Nat /\ Len(History') \in Nat /\ Len(History) <= Len(History')
    BY <1>1, <1>2, FileCallKeeps DEF Idles
  <2>2. UNCHANGED <<pc, at, origin, pauses, handback, result, opened>>
    BY <1>2 DEF Idles, Books
  <2>3. pc \in PausePCs => opened'[pauses'] <= Len(History)'
    <3>1. pc \in PausePCs => opened[pauses] \in Nat
      BY <1>1 DEF TypeOK, Placed
    <3>2. QED
      BY <1>1, <2>1, <2>2, <3>1 DEF Placed
  <2>4. pc = "noting" => TakenSince(opened[pauses])'
    <3>1. FileStep
      BY <1>2 DEF Idles, FileStep
    <3>2. \A i \in 1..Len(History) : History'[i] = History[i]
      BY <1>1, <3>1, HistoryGrows DEF Grows
    <3>3. pc = "noting" => opened[pauses] \in Nat
      BY <1>1 DEF TypeOK, Placed
    <3>4. QED
      BY <1>1, <2>1, <2>2, <3>2, <3>3 DEF Placed, TakenSince
  <2>5. QED
    BY <1>1, <2>1, <2>2, <2>3, <2>4 DEF Placed, StepOf
<1>3. CASE WaitsOn
  <2>1. FileStep /\ file' # NoFile /\ pc' # "noting"
    BY <1>3 DEF WaitsOn
  <2>2. UNCHANGED <<at, origin, pauses, handback, result, opened>>
    BY <1>3 DEF WaitsOn, Books
  <2>3. opened'[pauses'] <= Len(History)' /\ pauses' >= 1
    <3>1. Len(History) <= Len(History') /\ Len(History) \in Nat /\ Len(History') \in Nat
      BY <1>1, <2>1, HistoryGrows, HistoryType DEF Grows
    <3>2. opened[pauses] \in Nat /\ opened[pauses] <= Len(History) /\ pauses >= 1
      BY <1>1, <1>3 DEF TypeOK, Placed, WaitsOn
    <3>3. QED
      BY <2>2, <3>1, <3>2
  <2>4. pc \in PausePCs /\ pc' \in PausePCs
    BY <1>3 DEF WaitsOn
  <2>5. QED
    BY <1>1, <2>1, <2>2, <2>3, <2>4 DEF Placed, StepOf
<1>4. CASE Notes \/ Looks
  <2>1. UNCHANGED <<at, origin, pauses, handback, result, opened, file>>
    BY <1>4 DEF Notes, Looks, Books
  <2>2. CASE Notes
    BY <1>1, <2>1, <2>2 DEF Notes, Placed, StepOf, History, TakenSince
  <2>3. CASE Looks
    BY <1>1, <2>1, <2>3 DEF Looks, Placed, StepOf, History
  <2>4. QED
    BY <1>4, <2>2, <2>3
<1>5. CASE Acts
  BY <1>1, <1>5 DEF Acts, Placed
<1>6. ASSUME Proceed PROVE pc' = "before" => at' <= Steps
  BY <1>1, <1>6, StepsAssumption DEF Proceed, SuccessCheck, TypeOK
<1>7. CASE Passes
  <2>1. pc' \in {"waiting", "before"}
    BY <1>7 DEF Passes, Proceed
  <2>2. QED
    BY <1>1, <1>6, <1>7, <2>1 DEF Passes, Placed
<1>8. CASE Wins \/ Fails
  BY <1>1, <1>8 DEF Wins, Fails, End, Placed
<1>9. CASE Closes
  <2>1. file' = NoFile <=> file = NoFile
    BY <1>1, <1>9, FileCallKeeps DEF Closes
  <2>2. QED
    BY <1>1, <1>9, <2>1 DEF Closes, Books, Placed
<1>10. CASE Asks
  BY <1>10, OpensPlaced DEF Asks
<1>11. CASE AsksAgain
  <2>1. CASE Opens("nested", recoveries)
    BY <1>11, <2>1, OpensPlaced DEF AsksAgain
  <2>2. CASE VerificationFails(recoveries)
    <3>1. PICK r \in RecordTypes :
              Opens("post", Append(recoveries, r)) \/ Stops(Append(recoveries, r))
      BY <1>11, <2>2, VerificationFailsIs DEF AsksAgain
    <3>2. QED
      BY <1>11, <3>1, OpensPlaced DEF AsksAgain
  <2>3. QED
    BY <1>11, <2>1, <2>2 DEF AsksAgain
<1>12. CASE Delivers
  <2>1. PICK r \in RecordTypes :
          \/ origin # "nested" /\ Stops(Append(recoveries, r))
          \/ origin = "nested" /\ VerificationFails(Append(recoveries, r))
    BY <1>12 DEF Delivers
  <2>2. CASE Stops(Append(recoveries, r))
    BY <1>12, <2>2, OpensPlaced DEF Delivers
  <2>3. CASE origin = "nested" /\ VerificationFails(Append(recoveries, r))
    <3>1. PICK s \in RecordTypes :
              \/ Opens("post", Append(Append(recoveries, r), s))
              \/ Stops(Append(Append(recoveries, r), s))
      BY <1>12, <2>3, VerificationFailsIs DEF Delivers
    <3>2. QED
      BY <1>12, <3>1, OpensPlaced DEF Delivers
  <2>4. QED
    BY <2>1, <2>2, <2>3
<1>13. CASE HandsBack
  <2>1. /\ handback'.step = StepOf(at) /\ handback'.intervention_id = pauses
        /\ pauses >= 1
    BY <1>1, <1>13 DEF HandsBack, Placed
  <2>2. handback' # NoHandback
    BY <1>1, <2>1 DEF NoHandback
  <2>3. QED
    BY <1>1, <1>13, <2>1, <2>2 DEF HandsBack, Placed, StepOf
<1>14. CASE Confirms
  <2>1. file' = NoFile <=> file = NoFile
    BY <1>1, <1>14, FileCallKeeps DEF Confirms
  <2>2. pc' \in {"waiting", "before"}
    BY <1>14 DEF Confirms, Proceed
  <2>3. QED
    BY <1>1, <1>6, <1>14, <2>1, <2>2 DEF Confirms, Placed
<1>15. QED
  BY <1>2, <1>3, <1>4, <1>5, <1>7, <1>8, <1>9, <1>10, <1>11, <1>12, <1>13, <1>14
     DEF BookStep

LEMMA BasicsStep == ASSUME Basics, [Next]_vars PROVE Basics' /\ BookStep /\ FileStep
<1>1. BookStep /\ FileStep
  BY BookSteps, BookFileStep
<1>2. TypeOK' /\ FileSound' /\ Placed'
  BY <1>1, TypeStep, FileSoundStep, PlacedStep DEF Basics
<1>3. QED
  BY <1>1, <1>2 DEF Basics

-----------------------------------------------------------------------------
(* Who acts.                                                                *)

\* All an operator can do to a session automation holds is abort it.
LEMMA OnlyAborts ==
    ASSUME NEW o \in Operators, NEW verb \in {"take_control", "hand_back", "abort"},
           NEW s \in SessionStates, Permitted(s, OperatorCall(o, verb)),
           s.phase \in {"running", "resuming", "finished"}
    PROVE  verb = "abort" /\ s.phase # "finished"
<1>1. OperatorCall(o, verb).event = verb
  BY DEF OperatorCall
<1>2. verb \in DOMAIN TRANSITIONS[s.phase]
  BY <1>1 DEF Permitted
<1>3. QED
  BY <1>2 DEF TRANSITIONS

\* The run comes to act only by a check that found automation in control, and
\* keeps what it found while only people move.
LEMMA CheckSteps ==
    ASSUME Basics, [Next]_vars, pc' = "acting"
    PROVE  \/ pc = "deciding" /\ ControlHeld /\ checked' = Len(History) /\ file' = file
           \/ /\ pc = "acting" /\ checked' = checked
              /\ \/ file' = file
                 \/ \E o \in Operators : \E verb \in {"take_control", "hand_back", "abort"} :
                       OperatorCall(o, verb) \in Calls /\ Moved(OperatorCall(o, verb))
<1> USE DEF log, engineVars, channelVars, worldVars, vars
<1>1. CASE GuardAction
  BY <1>1 DEF GuardAction, LookFrom, Crash, LoseControl, End
<1>2. CASE ResolveTarget \/ PollWait \/ PollCheckpoint \/ PassNoDetectors \/ Verified \/ Act
           \/ StepPasses \/ Succeed \/ StopRun \/ Interrupt
  BY <1>2 DEF ResolveTarget, PollWait, PollCheckpoint, PassNoDetectors, Verified, Act,
       StepPasses, Succeed, StopRun, Interrupt, LookFrom, Crash, LoseControl, End, Proceed
<1>3. CASE AskForHuman \/ NotVerified \/ RecoveryNeedsHuman
  BY <1>3, AskSteps DEF Asks, AsksAgain, VerificationFails, Opens, Stops
<1>4. CASE Confirm
  BY <1>4, ConfirmStep DEF Confirms, Proceed
<1>5. CASE Channel
  BY <1>5, WaitSteps, LostSteps, EndedSteps, HandbackSteps
     DEF Channel, WaitsOn, Delivers, Fails, Notes, HandsBack, VerificationFails, Opens, Stops,
         PausePCs, Waiting
<1>6. CASE Closing \/ Kill
  BY <1>6 DEF Closing, CheckFinished, CloseSession, Kill
<1>7. CASE Tick \/ UNCHANGED vars \/ CloseWindow
  BY <1>7 DEF Tick, CloseWindow
<1>8. CASE \E o \in Operators :
              \/ LookAlive(o)
              \/ \E verb \in {"take_control", "hand_back", "abort"} : ReadSession(o, verb)
  BY <1>8 DEF LookAlive, ReadSession
<1>9. CASE \E o \in Operators : Command(o)
  <2>1. PICK o \in Operators : Command(o)
    BY <1>9
  <2>2. UNCHANGED <<pc, checked>>
    BY <2>1 DEF Command
  <2>3. QED
    BY <2>1, <2>2, CommandMoves
<1>10. QED
  BY <1>1, <1>2, <1>3, <1>4, <1>5, <1>6, <1>7, <1>8, <1>9 DEF Next, Engine, People

\* Between the check and the act nothing but an abort can come.
LEMMA StillChecked ==
    ASSUME Basics, Controlled, [Next]_vars, pc' = "acting"
    PROVE  /\ checked' \in 0..Len(History')
           /\ PhaseAt(checked)' \in {"running", "resuming"}
           /\ \A v \in checked' + 1..Len(History') : History'[v].event = "abort"
<1>1. TypeOK /\ FileSound /\ checked \in Nat /\ Len(History) \in Nat
      /\ History \in Seq(TransitionRecord)
  BY HistoryType DEF Basics, TypeOK
<1>2. CASE pc = "deciding" /\ ControlHeld /\ checked' = Len(History) /\ file' = file
  <2>1. History' = History
    BY <1>2 DEF History
  <2>2. PhaseAt(Len(History)) \in {"running", "resuming"}
    <3>1. CASE file = NoFile
      BY <1>1, <3>1, HistoryType DEF PhaseAt
    <3>2. CASE file # NoFile
      <4>1. file.phase \in Phases /\ CONTROLLER_FOR[file.phase] = "automation"
        BY <1>1, <1>2, <3>2 DEF ControlHeld, AutomationHolds, Controller, TypeOK, SessionStates
      <4>2. file.phase \in {"running", "resuming"}
        BY <4>1 DEF CONTROLLER_FOR, Phases
      <4>3. QED
        BY <1>1, <3>2, <4>2 DEF FileSound
    <3>3. QED
      BY <3>1, <3>2
  <2>3. QED
    BY <1>1, <1>2, <2>1, <2>2 DEF PhaseAt
<1>3. CASE pc = "acting" /\ checked' = checked
  <2>1. /\ checked <= Len(History)
        /\ PhaseAt(checked) \in {"running", "resuming"}
        /\ \A v \in checked + 1..Len(History) : History[v].event = "abort"
    BY <1>3 DEF Controlled
  <2>2. CASE file' = file
    <3>1. History' = History
      BY <2>2 DEF History
    <3>2. QED
      BY <1>1, <1>3, <2>1, <3>1 DEF PhaseAt
  <2>3. CASE \E o \in Operators : \E verb \in {"take_control", "hand_back", "abort"} :
                 OperatorCall(o, verb) \in Calls /\ Moved(OperatorCall(o, verb))
    <3>1. PICK o \in Operators, verb \in {"take_control", "hand_back", "abort"} :
                 OperatorCall(o, verb) \in Calls /\ Moved(OperatorCall(o, verb))
      BY <2>3
    <3> DEFINE e == Entry(file, OperatorCall(o, verb))
    <3>2. file # NoFile /\ file \in SessionStates /\ Permitted(file, OperatorCall(o, verb))
      BY <1>1, <3>1 DEF Moved, TypeOK
    <3>3. file' # NoFile /\ History' = Append(History, e) /\ e \in TransitionRecord
      <4>1. /\ file' = Advance(file, OperatorCall(o, verb))
            /\ file' \in SessionStates
            /\ file'.history = Append(file.history, e) /\ e \in TransitionRecord
        BY <3>1, <3>2, AdvanceType, AdvanceExtends DEF Moved
      <4>2. QED
        BY <3>2, <4>1, NoFileAssumption DEF History
    <3>4. file.phase \in {"running", "resuming", "finished"}
      <4>1. file.phase = PhaseAt(Len(History))
        BY <1>1, <3>2 DEF FileSound
      <4>2. CASE checked = Len(History)
        BY <2>1, <4>1, <4>2
      <4>3. CASE checked < Len(History)
        <5>1. Len(History) \in checked + 1..Len(History) /\ Len(History) \in 1..Len(History)
          BY <1>1, <4>3
        <5>2. History[Len(History)].event = "abort" /\ EntrySound(History[Len(History)])
          BY <1>1, <2>1, <3>2, <5>1 DEF FileSound
        <5>3. QED
          BY <1>1, <4>1, <4>3, <5>2 DEF EntrySound, PhaseAt
      <4>4. QED
        BY <1>1, <2>1, <4>2, <4>3
    <3>5. e.event = "abort"
      BY <3>2, <3>4, OnlyAborts DEF Entry, OperatorCall
    <3> HIDE DEF e
    <3>6. /\ Len(History') = Len(History) + 1
          /\ History'[Len(History) + 1] = e
          /\ \A i \in 1..Len(History) : History'[i] = History[i]
      BY <1>1, <3>3
    <3>7. PhaseAt(checked)' = PhaseAt(checked)
      BY <1>1, <1>3, <2>1, <3>6 DEF PhaseAt
    <3>8. \A v \in checked' + 1..Len(History') : History'[v].event = "abort"
      <4> SUFFICES ASSUME NEW v \in checked + 1..Len(History) + 1
                   PROVE  History'[v].event = "abort"
        BY <1>3, <3>6
      <4>1. v = Len(History) + 1 \/ (v \in checked + 1..Len(History) /\ v \in 1..Len(History))
        BY <1>1
      <4>2. QED
        BY <2>1, <3>5, <3>6, <4>1
    <3>9. QED
      BY <1>1, <1>3, <2>1, <3>6, <3>7, <3>8
  <2>4. QED
    BY <1>3, <2>2, <2>3, CheckSteps
<1>4. QED
  BY <1>2, <1>3, CheckSteps

\* A member of a sequence.
LEMMA ElementOf == ASSUME NEW S, NEW s \in Seq(S), NEW i \in 1..Len(s) PROVE s[i] \in S
OBVIOUS

\* Acts, and the act about to happen, stay covered by their checks.
LEMMA ControlledStep == ASSUME Basics, Controlled, [Next]_vars PROVE Controlled'
<1>1. BookStep /\ FileStep /\ TypeOK
  BY BasicsStep DEF Basics
<1>2. /\ Len(History) <= Len(History') /\ \A i \in 1..Len(History) : History'[i] = History[i]
      /\ Len(History) \in Nat /\ Len(History') \in Nat
  BY <1>1, HistoryGrows, HistoryType DEF Grows
<1>3. acted \in Seq([step : 1..Steps, checked : Nat, version : Nat])
  BY <1>1 DEF TypeOK
<1>4. /\ ActsOnlyInControl
      /\ \A i \in 1..Len(acted) :
          acted[i].checked <= acted[i].version /\ acted[i].version <= Len(History)
  BY DEF Controlled
<1>5. CASE acted' = acted
  <2>1. ASSUME NEW i \in 1..Len(acted)
        PROVE  /\ PhaseAt(acted[i].checked)' \in {"running", "resuming"}
               /\ \A v \in acted'[i].checked + 1..acted'[i].version : History'[v].event = "abort"
               /\ acted'[i].checked <= acted'[i].version /\ acted'[i].version <= Len(History')
    <3>1. acted[i].checked \in Nat /\ acted[i].version \in Nat
      <4>1. acted[i] \in [step : 1..Steps, checked : Nat, version : Nat]
        BY <1>3, ElementOf
      <4>2. QED
        BY <4>1
    <3>2. acted[i].checked <= acted[i].version /\ acted[i].version <= Len(History)
      BY <1>4
    <3>3. PhaseAt(acted[i].checked)' = PhaseAt(acted[i].checked)
      BY <1>2, <1>5, <3>1, <3>2 DEF PhaseAt
    <3>4. \A v \in acted[i].checked + 1..acted[i].version :
              v \in 1..Len(History) /\ History[v].event = "abort"
      BY <1>2, <1>4, <3>1, <3>2 DEF ActsOnlyInControl
    <3>5. PhaseAt(acted[i].checked) \in {"running", "resuming"}
      BY <1>4 DEF ActsOnlyInControl
    <3>6. \A v \in acted[i].checked + 1..acted[i].version : History'[v].event = "abort"
      BY <1>2, <3>4
    <3>7. acted'[i] = acted[i]
      BY <1>5
    <3>8. PhaseAt(acted[i].checked)' \in {"running", "resuming"}
      BY <3>3, <3>5
    <3>9. acted'[i].version <= Len(History')
      BY <1>2, <3>1, <3>2, <3>7
    <3>10. QED
      BY <3>2, <3>6, <3>7, <3>8, <3>9
  <2>2. ActsOnlyInControl'
    BY <1>5, <2>1 DEF ActsOnlyInControl
  <2>3. QED
    BY <1>2, <1>5, <2>1, <2>2, StillChecked DEF Controlled
<1>6. CASE Acts
  <2>1. /\ checked <= Len(History) /\ checked \in Nat
        /\ PhaseAt(checked) \in {"running", "resuming"}
        /\ \A v \in checked + 1..Len(History) : History[v].event = "abort"
    BY <1>1, <1>6 DEF Controlled, Acts, TypeOK
  <2>2. /\ acted' = Append(acted, [step |-> at, checked |-> checked, version |-> Len(History)])
        /\ History' = History /\ pc' # "acting"
    BY <1>6 DEF Acts, History
  <2>3. ASSUME NEW i \in 1..Len(acted')
        PROVE  /\ PhaseAt(acted'[i].checked) \in {"running", "resuming"}
               /\ \A v \in acted'[i].checked + 1..acted'[i].version : History[v].event = "abort"
               /\ acted'[i].checked <= acted'[i].version /\ acted'[i].version <= Len(History)
    <3>1. CASE i \in 1..Len(acted)
      <4>1. acted'[i] = acted[i]
        BY <1>3, <2>2, <3>1
      <4>2. QED
        BY <1>4, <3>1, <4>1 DEF ActsOnlyInControl
    <3>2. CASE i = Len(acted) + 1
      <4>1. acted'[i] = [step |-> at, checked |-> checked, version |-> Len(History)]
        BY <1>3, <2>2, <3>2
      <4>2. QED
        BY <2>1, <4>1
    <3>3. QED
      BY <1>3, <2>2, <3>1, <3>2
  <2>4. ActsOnlyInControl'
    BY <2>2, <2>3 DEF ActsOnlyInControl, PhaseAt
  <2>5. QED
    BY <2>2, <2>3, <2>4 DEF Controlled
<1>7. QED
  BY <1>1, <1>5, <1>6
     DEF BookStep, Books, Idles, WaitsOn, Notes, Looks, Passes, Wins, Fails, Closes, Asks,
         AsksAgain, VerificationFails, Opens, Stops, Delivers, HandsBack, Confirms

-----------------------------------------------------------------------------
(* The steps behind the run.                                                *)

\* No record is withdrawn: the list is kept, or extended by one or two.
RecordsGrow ==
    /\ Len(recoveries) \in Nat /\ Len(recoveries') \in Nat /\ Len(recoveries) <= Len(recoveries')
    /\ \A i \in 1..Len(recoveries) : recoveries'[i] = recoveries[i]

\* A list and the same list with one or two records more.
LEMMA RecordsExtend ==
    ASSUME NEW S, NEW recs \in Seq(S), NEW r \in S, NEW s \in S
    PROVE  /\ Append(recs, r) \in Seq(S) /\ Append(Append(recs, r), s) \in Seq(S)
           /\ Len(recs) \in Nat
           /\ Len(Append(recs, r)) = Len(recs) + 1
           /\ Len(Append(Append(recs, r), s)) = Len(recs) + 2
           /\ Append(recs, r)[Len(recs) + 1] = r
           /\ Append(Append(recs, r), s)[Len(recs) + 2] = s
           /\ \A i \in 1..Len(recs) :
                 Append(recs, r)[i] = recs[i] /\ Append(Append(recs, r), s)[i] = recs[i]
OBVIOUS

\* How the list of records changes: what is recorded, when.
RecordedNow ==
    \/ recoveries' = recoveries
    \/ /\ pc \in {"rejudging", "confirming"}
       /\ \E r \in RecordTypes : Honoured(r) /\ recoveries' = Append(recoveries, r)
    \/ /\ pc = "collecting" /\ origin # "nested"
       /\ \E r \in RecordTypes : Unanswered(r) /\ recoveries' = Append(recoveries, r)
    \/ /\ pc = "collecting" /\ origin = "nested"
       /\ \E r \in RecordTypes : \E s \in RecordTypes :
             /\ Unanswered(r) /\ Honoured(s)
             /\ recoveries' = Append(Append(recoveries, r), s)

\* Every step records what RecordedNow says, and withdraws nothing.
LEMMA RecordSteps == ASSUME Basics, BookStep PROVE RecordedNow /\ RecordsGrow
<1>1. recoveries \in Seq(RecordTypes)
  BY DEF Basics, TypeOK
<1>2. RecordedNow
  <2>1. CASE AsksAgain
    <3>1. CASE Opens("nested", recoveries)
      BY <3>1 DEF Opens, RecordedNow
    <3>2. CASE VerificationFails(recoveries)
      <4>1. PICK r \in RecordTypes :
                Honoured(r) /\ (Opens("post", Append(recoveries, r)) \/ Stops(Append(recoveries, r)))
        BY <2>1, <3>2, VerificationFailsIs DEF AsksAgain, VerifyPCs
      <4>2. recoveries' = Append(recoveries, r) /\ pc = "rejudging"
        BY <2>1, <4>1 DEF Opens, Stops, AsksAgain
      <4>3. QED
        BY <4>1, <4>2 DEF RecordedNow
    <3>3. QED
      BY <2>1, <3>1, <3>2 DEF AsksAgain
  <2>2. CASE Delivers
    <3>1. PICK r \in RecordTypes :
            /\ Unanswered(r)
            /\ \/ origin # "nested" /\ Stops(Append(recoveries, r))
               \/ origin = "nested" /\ VerificationFails(Append(recoveries, r))
      BY <2>2 DEF Delivers
    <3>2. pc = "collecting"
      BY <2>2 DEF Delivers
    <3>3. CASE origin # "nested" /\ Stops(Append(recoveries, r))
      <4>1. recoveries' = Append(recoveries, r)
        BY <3>3 DEF Stops
      <4>2. QED
        BY <3>1, <3>2, <3>3, <4>1 DEF RecordedNow
    <3>4. CASE origin = "nested" /\ VerificationFails(Append(recoveries, r))
      <4>1. NestedPause
        BY <3>2, <3>4 DEF NestedPause, PausePCs
      <4>2. PICK s \in RecordTypes :
              /\ Honoured(s)
              /\ \/ Opens("post", Append(Append(recoveries, r), s))
                 \/ Stops(Append(Append(recoveries, r), s))
        BY <3>4, <4>1, VerificationFailsIs
      <4>3. recoveries' = Append(Append(recoveries, r), s)
        BY <4>2 DEF Opens, Stops
      <4>4. QED
        BY <3>1, <3>2, <3>4, <4>2, <4>3 DEF RecordedNow
    <3>5. QED
      BY <3>1, <3>3, <3>4
  <2>3. CASE Confirms
    <3>1. PICK r \in RecordTypes : Honoured(r) /\ recoveries' = Append(recoveries, r)
      BY <2>3, ConfirmsIs
    <3>2. pc = "confirming"
      BY <2>3 DEF Confirms
    <3>3. QED
      BY <3>1, <3>2 DEF RecordedNow
  <2>4. CASE Asks
    BY <2>4 DEF Asks, Opens, Stops, RecordedNow
  <2>5. CASE \/ Idles \/ WaitsOn \/ Notes \/ Looks \/ Acts \/ Passes \/ Wins \/ Fails
             \/ Closes \/ HandsBack
    BY <2>5 DEF Idles, WaitsOn, Notes, Looks, Acts, Passes, Wins, Fails, Closes, HandsBack,
         Books, RecordedNow
  <2>6. QED
    BY <2>1, <2>2, <2>3, <2>4, <2>5 DEF BookStep
<1>3. RecordsGrow
  <2>1. CASE recoveries' = recoveries
    BY <1>1, <2>1 DEF RecordsGrow
  <2>2. CASE \E r \in RecordTypes : recoveries' = Append(recoveries, r)
    <3>1. PICK r \in RecordTypes : recoveries' = Append(recoveries, r)
      BY <2>2
    <3>2. QED
      BY <1>1, <3>1, RecordsExtend DEF RecordsGrow
  <2>3. CASE \E r \in RecordTypes : \E s \in RecordTypes :
                recoveries' = Append(Append(recoveries, r), s)
    <3>1. PICK r \in RecordTypes, s \in RecordTypes :
                recoveries' = Append(Append(recoveries, r), s)
      BY <2>3
    <3>2. QED
      BY <1>1, <3>1, RecordsExtend DEF RecordsGrow
  <2>4. QED
    BY <1>2, <2>1, <2>2, <2>3 DEF RecordedNow
<1>4. QED
  BY <1>2, <1>3

\* No step is performed again, and none is left behind unaccounted for.
LEMMA ProgressStep == ASSUME Basics, Progress, BookStep PROVE Progress'
<1>1. /\ at \in 1..SuccessCheck /\ Steps \in Nat \ {0} /\ SuccessCheck = Steps + 1
      /\ acted \in Seq([step : 1..Steps, checked : Nat, version : Nat])
      /\ Placed /\ Len(acted) \in Nat
  BY StepsAssumption DEF Basics, TypeOK, SuccessCheck
<1>2. \A s \in 1..Steps : HandedBackAt(s) => HandedBackAt(s)'
  BY RecordSteps DEF RecordsGrow, HandedBackAt
<1>3. \A i \in 1..Len(acted) :
          /\ acted[i].step <= at /\ acted[i].step \in 1..Steps
          /\ pc \in {"before", "deciding", "acting"} => acted[i].step < at
  <2>1. \A i \in 1..Len(acted) : acted[i] \in [step : 1..Steps, checked : Nat, version : Nat]
    BY <1>1, ElementOf
  <2>2. QED
    BY <2>1 DEF Progress
<1>4. /\ NeverActsTwice
      /\ \A s \in 1..at - 1 : Performed(s) \/ HandedBackAt(s)
      /\ pc \in {"waiting", "judging"} /\ at <= Steps => Performed(at)
      /\ EveryStepIsAccountedFor
  BY DEF Progress
\* What is left to show once the list of acts only grew.
<1>5. ASSUME \A s \in 1..Steps : Performed(s) => Performed(s)',
             result' = result \/ result'.status \notin {"success", "recovered_then_success"}
      PROVE  EveryStepIsAccountedFor'
  <2>1. \A s \in 1..Steps : Performed(s) \/ HandedBackAt(s) => Performed(s)' \/ HandedBackAt(s)'
    BY <1>2, <1>5
  <2>2. result.status \in {"success", "recovered_then_success"} =>
          \A s \in 1..Steps : Performed(s) \/ HandedBackAt(s)
    BY <1>4 DEF EveryStepIsAccountedFor, Performed, HandedBackAt
  <2>3. result'.status \in {"success", "recovered_then_success"} =>
          \A s \in 1..Steps : Performed(s)' \/ HandedBackAt(s)'
    BY <1>5, <2>1, <2>2
  <2>4. QED
    BY <2>3 DEF EveryStepIsAccountedFor, Performed, HandedBackAt
<1>6. ASSUME UNCHANGED <<acted, at>>,
             pc' \in {"before", "deciding", "acting"} => pc \in {"before", "deciding", "acting"},
             pc' \in {"waiting", "judging"} => pc \in {"waiting", "judging"},
             result' = result \/ result'.status \notin {"success", "recovered_then_success"}
      PROVE  Progress'
  <2>1. \A s \in 1..Steps : Performed(s)' = Performed(s)
    BY <1>6 DEF Performed
  <2>2. EveryStepIsAccountedFor'
    BY <1>5, <1>6, <2>1
  <2>3. NeverActsTwice'
    BY <1>4, <1>6 DEF NeverActsTwice
  <2>4. \A s \in 1..at' - 1 : Performed(s)' \/ HandedBackAt(s)'
    BY <1>1, <1>2, <1>4, <1>6, <2>1
  <2>5. pc' \in {"waiting", "judging"} /\ at' <= Steps => Performed(at)'
    BY <1>4, <1>6 DEF Performed
  <2>6. \A i \in 1..Len(acted') :
          /\ acted'[i].step <= at'
          /\ pc' \in {"before", "deciding", "acting"} => acted'[i].step < at'
    BY <1>3, <1>6
  <2>7. QED
    BY <2>2, <2>3, <2>4, <2>5, <2>6 DEF Progress
<1>7. CASE \/ Idles \/ WaitsOn \/ Notes \/ Looks \/ Fails \/ Closes \/ Asks \/ AsksAgain
           \/ Delivers \/ HandsBack
  <2>1. UNCHANGED <<acted, at>>
    BY <1>7 DEF Books, Idles, WaitsOn, Notes, Looks, Fails, Closes, Asks, AsksAgain, Delivers,
         VerificationFails, Opens, Stops, HandsBack
  <2>2. result' = result \/ result'.status \notin {"success", "recovered_then_success"}
    BY <1>7 DEF Books, Idles, WaitsOn, Notes, Looks, Fails, Closes, Asks, AsksAgain, Delivers,
         VerificationFails, Opens, Stops, HandsBack
  <2>3. /\ pc' \in {"before", "deciding", "acting"} => pc \in {"before", "deciding", "acting"}
        /\ pc' \in {"waiting", "judging"} => pc \in {"waiting", "judging"}
    BY <1>7 DEF Books, Idles, WaitsOn, Notes, Looks, Fails, Closes, Asks, AsksAgain, Delivers,
         VerificationFails, Opens, Stops, HandsBack, PausePCs, Waiting
  <2>4. QED
    BY <1>6, <2>1, <2>2, <2>3
<1>8. CASE Acts
  <2>1. /\ acted' = Append(acted, [step |-> at, checked |-> checked, version |-> Len(History)])
        /\ pc = "acting" /\ pc' = "waiting" /\ at' = at /\ result' = result
    BY <1>8 DEF Acts
  <2>2. at <= Steps
    BY <1>1, <2>1 DEF Placed
  <2>3. /\ Len(acted') = Len(acted) + 1
        /\ acted'[Len(acted) + 1].step = at
        /\ \A i \in 1..Len(acted) : acted'[i].step = acted[i].step
    BY <1>1, <2>1
  <2>4. \A i \in 1..Len(acted) : acted[i].step < at
    BY <1>3, <2>1
  <2>5. NeverActsTwice'
    <3> SUFFICES ASSUME NEW i \in 1..Len(acted) + 1, NEW j \in 1..Len(acted) + 1,
                        acted'[i].step = acted'[j].step
                 PROVE  i = j
      BY <2>3 DEF NeverActsTwice
    <3>1. CASE i \in 1..Len(acted) /\ j \in 1..Len(acted)
      BY <1>4, <2>3, <3>1 DEF NeverActsTwice
    <3>2. ASSUME NEW k \in 1..Len(acted) PROVE acted'[k].step # acted'[Len(acted) + 1].step
      <4>1. acted'[k].step < at /\ acted'[k].step \in Int
        BY <1>3, <2>3, <2>4
      <4>2. QED
        BY <1>1, <2>3, <4>1
    <3>3. i \in 1..Len(acted) \/ i = Len(acted) + 1
      BY <1>1
    <3>4. j \in 1..Len(acted) \/ j = Len(acted) + 1
      BY <1>1
    <3>5. QED
      BY <3>1, <3>2, <3>3, <3>4
  <2>6. ASSUME NEW s \in 1..Steps, Performed(s) PROVE Performed(s)'
    <3>1. PICK i \in 1..Len(acted) : acted[i].step = s
      BY <2>6 DEF Performed
    <3>2. i \in 1..Len(acted') /\ acted'[i].step = s
      BY <1>1, <2>3, <3>1
    <3>3. QED
      BY <3>2 DEF Performed
  <2>7. EveryStepIsAccountedFor'
    BY <1>5, <2>1, <2>6
  <2>8. \A s \in 1..at' - 1 : Performed(s)' \/ HandedBackAt(s)'
    BY <1>1, <1>2, <1>4, <2>1, <2>6
  <2>9. Performed(at)'
    BY <1>1, <2>1, <2>3 DEF Performed
  <2>10. \A i \in 1..Len(acted') : acted'[i].step <= at'
    BY <1>1, <2>1, <2>3, <2>4, <1>3
  <2>11. QED
    BY <2>1, <2>5, <2>7, <2>8, <2>9, <2>10 DEF Progress
\* Going on from a step that was performed or handed back.
<1>9. ASSUME Proceed, UNCHANGED <<acted, result>>,
             \A s \in 1..Steps : s = at => Performed(s) \/ HandedBackAt(s)'
      PROVE  Progress'
  <2>1. \A s \in 1..Steps : Performed(s)' = Performed(s)
    BY <1>9 DEF Performed
  <2>2. EveryStepIsAccountedFor' /\ NeverActsTwice'
    BY <1>4, <1>5, <1>9, <2>1 DEF NeverActsTwice
  <2>3. /\ at = SuccessCheck => at' = at /\ pc' = "waiting"
        /\ at <= Steps => at' = at + 1 /\ pc' = IF at >= Steps THEN "waiting" ELSE "before"
    BY <1>1, <1>9 DEF Proceed
  <2>4. \A s \in 1..at' - 1 : Performed(s)' \/ HandedBackAt(s)'
    <3> SUFFICES ASSUME NEW s \in 1..at' - 1 PROVE Performed(s)' \/ HandedBackAt(s)'
      OBVIOUS
    <3>1. CASE s \in 1..at - 1
      BY <1>1, <1>2, <1>4, <2>1, <3>1
    <3>2. CASE s = at /\ at <= Steps
      <4>1. Performed(s) \/ HandedBackAt(s)'
        BY <1>1, <1>9, <3>2
      <4>2. QED
        BY <1>1, <2>1, <3>2, <4>1
    <3>3. QED
      BY <1>1, <2>3, <3>1, <3>2
  <2>5. pc' = "waiting" => ~(at' <= Steps)
    BY <1>1, <2>3
  <2>6. pc' = "before" => at' = at + 1
    BY <1>1, <2>3
  <2>7. \A i \in 1..Len(acted') :
          /\ acted'[i].step <= at'
          /\ pc' = "before" => acted'[i].step < at'
    <3> SUFFICES ASSUME NEW i \in 1..Len(acted)
                 PROVE  /\ acted[i].step <= at'
                        /\ pc' = "before" => acted[i].step < at'
      BY <1>9
    <3>1. acted[i].step <= at /\ acted[i].step \in 1..Steps
      BY <1>3
    <3>2. at' = at \/ at' = at + 1
      BY <1>1, <2>3
    <3>3. at \in Int /\ acted[i].step \in Int
      BY <1>1, <3>1
    <3>4. QED
      BY <2>6, <3>1, <3>2, <3>3
  <2>8. pc' \in {"waiting", "before"}
    BY <1>9 DEF Proceed
  <2>9. QED
    BY <2>2, <2>4, <2>5, <2>7, <2>8 DEF Progress
<1>10. CASE Passes
  BY <1>1, <1>4, <1>9, <1>10 DEF Passes
<1>11. CASE Wins
  <2>1. at = SuccessCheck /\ pc' = "ended" /\ UNCHANGED <<acted, at, recoveries>>
    BY <1>11 DEF Wins, End
  <2>2. \A s \in 1..Steps : Performed(s) \/ HandedBackAt(s)
    BY <1>1, <1>4, <2>1
  <2>3. EveryStepIsAccountedFor'
    BY <2>1, <2>2 DEF EveryStepIsAccountedFor, Performed, HandedBackAt
  <2>4. NeverActsTwice' /\ \A s \in 1..at' - 1 : Performed(s)' \/ HandedBackAt(s)'
    BY <1>4, <2>1 DEF NeverActsTwice, Performed, HandedBackAt
  <2>5. QED
    BY <1>3, <2>1, <2>3, <2>4 DEF Progress
<1>12. CASE Confirms
  <2>1. PICK r \in RecordTypes : Honoured(r) /\ recoveries' = Append(recoveries, r)
    BY <1>12, ConfirmsIs
  <2>2. r.outcome = "handed_back" /\ r.step = StepOf(at)
    BY <1>12, <2>1, HandbackIs DEF Honoured, Confirms, VerifyPCs
  <2>3. at <= Steps => StepOf(at) = at
    BY <1>1 DEF StepOf
  <2>4. \A s \in 1..Steps : s = at => HandedBackAt(s)'
    <3>1. recoveries \in Seq(RecordTypes)
      BY DEF Basics, TypeOK
    <3>2. /\ Len(recoveries') = Len(recoveries) + 1 /\ Len(recoveries) \in Nat
          /\ recoveries'[Len(recoveries) + 1] = r
      BY <2>1, <3>1, RecordsExtend
    <3>3. \E i \in 1..Len(recoveries') : recoveries'[i] = r
      BY <3>2
    <3>4. ASSUME NEW s \in 1..Steps, s = at
          PROVE  \E i \in 1..Len(recoveries') :
                    recoveries'[i].step = s /\ recoveries'[i].outcome = "handed_back"
      BY <2>2, <2>3, <3>3, <3>4
    <3>5. QED
      BY <3>4 DEF HandedBackAt
  <2>5. QED
    BY <1>9, <1>12, <2>4 DEF Confirms
<1>13. QED
  BY <1>7, <1>8, <1>10, <1>11, <1>12 DEF BookStep

-----------------------------------------------------------------------------
(* Every pause is recorded once.                                            *)

RecordsIn(recs, k) == {i \in 1..Len(recs) : recs[i].intervention_id = k}

\* Each of n pauses has one record, the missing ones none, and nothing else is recorded.
Complete(recs, n, missing) ==
    /\ \A i \in 1..Len(recs) : recs[i].intervention_id \in 1..n
    /\ \A k \in 1..n :
          IF k \in missing THEN RecordsIn(recs, k) = {}
          ELSE \E i \in 1..Len(recs) : RecordsIn(recs, k) = {i}

\* Recording a missing pause leaves one fewer missing.
LEMMA CompleteAppend ==
    ASSUME NEW S, NEW recs \in Seq(S), NEW r \in S, NEW n \in Nat, NEW missing,
           Complete(recs, n, missing), r.intervention_id \in missing,
           r.intervention_id \in 1..n
    PROVE  Complete(Append(recs, r), n, missing \ {r.intervention_id})
<1> DEFINE longer == Append(recs, r)
<1>1. /\ Len(longer) = Len(recs) + 1 /\ Len(recs) \in Nat
      /\ longer[Len(recs) + 1] = r
      /\ \A i \in 1..Len(recs) : longer[i] = recs[i]
  BY RecordsExtend
<1> HIDE DEF longer
<1>2. \A i \in 1..Len(longer) : i \in 1..Len(recs) \/ i = Len(recs) + 1
  BY <1>1
<1>3. \A i \in 1..Len(recs) : i \in 1..Len(longer)
  BY <1>1
<1>4. \A i \in 1..Len(longer) : longer[i].intervention_id \in 1..n
  BY <1>1, <1>2 DEF Complete
<1>5. ASSUME NEW k \in 1..n, k # r.intervention_id
      PROVE  RecordsIn(longer, k) = RecordsIn(recs, k)
  BY <1>1, <1>2, <1>3, <1>5 DEF RecordsIn
<1>6. RecordsIn(longer, r.intervention_id) = {Len(recs) + 1}
  <2>1. RecordsIn(recs, r.intervention_id) = {}
    BY DEF Complete
  <2>2. Len(recs) + 1 \in 1..Len(longer)
    BY <1>1
  <2>3. QED
    BY <1>1, <1>2, <2>1, <2>2 DEF RecordsIn
<1>7. \A k \in 1..n :
          IF k \in missing \ {r.intervention_id} THEN RecordsIn(longer, k) = {}
          ELSE \E i \in 1..Len(longer) : RecordsIn(longer, k) = {i}
  <2> SUFFICES ASSUME NEW k \in 1..n
               PROVE  IF k \in missing \ {r.intervention_id} THEN RecordsIn(longer, k) = {}
                      ELSE \E i \in 1..Len(longer) : RecordsIn(longer, k) = {i}
    OBVIOUS
  <2>1. CASE k = r.intervention_id
    <3>1. Len(recs) + 1 \in 1..Len(longer)
      BY <1>1
    <3>2. QED
      BY <1>6, <2>1, <3>1
  <2>2. CASE k # r.intervention_id
    BY <1>3, <1>5, <2>2 DEF Complete
  <2>3. QED
    BY <2>1, <2>2
<1>8. QED
  BY <1>4, <1>7 DEF Complete, longer

\* Opening a pause adds one that is missing.
LEMMA CompleteOpens ==
    ASSUME NEW recs, NEW n \in Nat, NEW missing, missing \subseteq 1..n,
           Complete(recs, n, missing)
    PROVE  Complete(recs, n + 1, missing \cup {n + 1})
<1>1. \A k \in 1..n + 1 : k \in 1..n \/ k = n + 1
  OBVIOUS
<1>2. n + 1 \notin 1..n /\ \A k \in 1..n : k \in 1..n + 1
  OBVIOUS
<1>3. \A i \in 1..Len(recs) : recs[i].intervention_id \in 1..n
  BY DEF Complete
<1>4. RecordsIn(recs, n + 1) = {}
  BY <1>2, <1>3 DEF RecordsIn
<1>5. QED
  BY <1>1, <1>2, <1>3, <1>4 DEF Complete

\* Which pauses are missing, by where the run is.
LEMMA MissingIs ==
    ASSUME Basics
    PROVE  /\ pc \in FlowPCs \cup Over => Missing = {}
           /\ pc \in VerifyPCs => Missing = {handback.intervention_id}
           /\ pc \in PausePCs /\ origin # "nested" => Missing = {pauses}
           /\ NestedPause => Missing = {pauses, handback.intervention_id}
           /\ Missing \subseteq 1..pauses /\ pauses \in Nat
<1>1. pauses \in Nat /\ (pc \in PausePCs => pauses \in 1..pauses)
  BY PausesAssumption DEF Basics, TypeOK, Placed
<1>2. pc \in VerifyPCs \/ NestedPause => handback.intervention_id \in 1..pauses
  BY HandbackIs
<1>3. QED
  BY <1>1, <1>2
     DEF Missing, FlowPCs, Over, VerifyPCs, PausePCs, Waiting, NestedPause

\* A run the records of which are accounted for: it goes on, or came to its own end.
Accountable == pc \notin Over \/ (Settled /\ result.code # "OPERATOR_ABORTED")

\* Recorded, in terms of the records, the pauses and what is missing.
LEMMA RecordedIs ==
    Recorded <=>
        /\ \A i \in 1..Len(recoveries) : recoveries[i].intervention_id \in 1..pauses
        /\ Accountable => Complete(recoveries, pauses, Missing)
BY DEF Recorded, Accountable, Complete, RecordsIn, RecordsOf

\* With the records complete but for the missing, opening a pause makes one more
\* missing and stopping none.
LEMMA OpensRecorded ==
    ASSUME Basics, Basics', NEW known, NEW missing, NEW from \in {"flow", "post", "nested"},
           Complete(known, pauses, missing),
           Opens(from, known) \/ (Stops(known) /\ missing = {}),
           from = "nested" => missing = {handback.intervention_id},
           from # "nested" => missing = {},
           missing \subseteq 1..pauses
    PROVE  Recorded'
<1>1. pauses \in Nat
  BY MissingIs
<1>2. CASE Stops(known) /\ missing = {}
  <2>1. Missing' = {}
    BY <1>2, MissingIs DEF Stops, Missing, Over, PausePCs, Waiting, VerifyPCs, NestedPause
  <2>2. recoveries' = known /\ pauses' = pauses
    BY <1>2 DEF Stops
  <2>3. Complete(recoveries', pauses', Missing')
    BY <1>2, <2>1, <2>2
  <2>4. Recorded'
    BY <2>3 DEF Recorded, Complete, RecordsIn, RecordsOf
  <2>5. QED
    BY <2>4
<1>3. CASE Opens(from, known)
  <2>1. recoveries' = known /\ pauses' = pauses + 1 /\ pc' = "opening" /\ origin' = from
        /\ handback' = handback
    BY <1>3 DEF Opens
  <2>2. Missing' = missing \cup {pauses + 1}
    <3>1. pauses + 1 \in 1..pauses + 1 /\ \A k \in 1..pauses : k \in 1..pauses + 1
      BY <1>1
    <3>2. pc' \in PausePCs /\ pc' \notin VerifyPCs
      BY <2>1 DEF PausePCs, Waiting, VerifyPCs
    <3>3. Missing' = {k \in 1..pauses + 1 :
                         k = pauses + 1 \/ (from = "nested" /\ k = handback.intervention_id)}
      BY <2>1, <3>2 DEF Missing, NestedPause
    <3>4. QED
      BY <3>1, <3>3
  <2>3. Complete(recoveries', pauses', Missing')
    BY <1>1, <2>1, <2>2, CompleteOpens
  <2>4. QED
    BY <2>3 DEF Recorded, Complete, RecordsIn, RecordsOf
<1>4. QED
  BY <1>2, <1>3

\* Every pause keeps its one record, or stays the one to be recorded.
LEMMA RecordedStep == ASSUME Basics, Basics', Recorded, BookStep PROVE Recorded'
<1>1. /\ recoveries \in Seq(RecordTypes) /\ pauses \in Nat
      /\ pc \in PausePCs => pauses \in 1..pauses
  BY PausesAssumption DEF Basics, TypeOK, Placed
<1>2. /\ \A i \in 1..Len(recoveries) : recoveries[i].intervention_id \in 1..pauses
      /\ Accountable => Complete(recoveries, pauses, Missing)
  BY RecordedIs
<1> USE DEF Over, PausePCs, Waiting, VerifyPCs, NestedPause, FlowPCs
\* Nothing recorded, nothing opened, and the same still missing.
<1>3. ASSUME UNCHANGED <<recoveries, pauses>>,
             Accountable' => Accountable /\ Missing' = Missing
      PROVE  Recorded'
  <2>1. Accountable' => Complete(recoveries', pauses', Missing')
    BY <1>2, <1>3
  <2>2. QED
    BY <1>2, <1>3, <2>1 DEF Recorded, Accountable, Complete, RecordsIn, RecordsOf
<1>4. CASE Idles \/ WaitsOn \/ Notes \/ Looks
  <2>1. UNCHANGED <<recoveries, pauses, origin, handback, result>>
    BY <1>4 DEF Idles, WaitsOn, Notes, Looks, Books
  <2>2. Missing' = Missing
    BY <1>4, <2>1 DEF Idles, WaitsOn, Notes, Looks, Missing
  <2>3. Accountable' => Accountable
    BY <1>4, <2>1 DEF Idles, WaitsOn, Notes, Looks, Accountable, Settled
  <2>4. QED
    BY <1>3, <2>1, <2>2, <2>3
<1>5. CASE Acts \/ Passes \/ Wins
  <2>1. UNCHANGED <<recoveries, pauses, origin, handback>>
    BY <1>5 DEF Acts, Passes, Wins
  <2>2. pc \in FlowPCs /\ pc' \in FlowPCs \cup Over
    BY <1>5 DEF Acts, Passes, Proceed, Wins, End
  <2>3. Missing' = Missing /\ Accountable
    BY <2>1, <2>2 DEF Missing, Accountable
  <2>4. QED
    BY <1>3, <2>1, <2>3
<1>6. CASE Fails
  <2>1. UNCHANGED <<recoveries, pauses, origin, handback>> /\ pc' = "ended" /\ Accountable
    BY <1>6 DEF Fails, Accountable
  <2>2. pc \notin FlowPCs => ~Accountable'
    BY <1>6 DEF Fails, Accountable, Settled
  <2>3. pc \in FlowPCs => Missing' = Missing
    BY <2>1 DEF Missing
  <2>4. QED
    BY <1>3, <2>1, <2>2, <2>3
<1>7. CASE Closes
  <2>1. UNCHANGED <<recoveries, pauses, origin, handback, result>>
    BY <1>7 DEF Closes, Books
  <2>2. pc' = "killed" => ~Accountable'
    BY DEF Accountable, Settled
  <2>3. pc' # "killed" => pc \in {"ended", "closing"} /\ pc' \in {"closing", "closed"}
    BY <1>7 DEF Closes
  <2>4. pc' # "killed" => Missing' = Missing
    BY <2>1, <2>3 DEF Missing
  <2>5. pc' # "killed" /\ Accountable' => Accountable
    BY <2>1, <2>3 DEF Accountable, Settled
  <2>6. QED
    BY <1>3, <2>1, <2>2, <2>4, <2>5
<1>8. CASE Asks
  <2>1. Missing = {} /\ Complete(recoveries, pauses, {})
    BY <1>2, <1>8, MissingIs DEF Asks, Accountable
  <2>2. QED
    BY <1>8, <2>1, OpensRecorded DEF Asks
<1>9. CASE AsksAgain
  <2>1. pc \in VerifyPCs /\ Accountable /\ Missing = {handback.intervention_id}
        /\ Missing \subseteq 1..pauses
    BY <1>9, MissingIs DEF AsksAgain, Accountable
  <2>2. Complete(recoveries, pauses, Missing)
    BY <1>2, <2>1
  <2>3. CASE Opens("nested", recoveries)
    BY <2>1, <2>2, <2>3, OpensRecorded
  <2>4. CASE VerificationFails(recoveries)
    <3>1. PICK r \in RecordTypes :
              Honoured(r) /\ (Opens("post", Append(recoveries, r)) \/ Stops(Append(recoveries, r)))
      BY <2>1, <2>4, VerificationFailsIs
    <3>2. Complete(Append(recoveries, r), pauses, Missing \ {r.intervention_id})
      BY <1>1, <2>1, <2>2, <3>1, CompleteAppend DEF Honoured
    <3>3. Complete(Append(recoveries, r), pauses, {})
      BY <2>1, <3>1, <3>2 DEF Honoured
    <3>4. QED
      BY <3>1, <3>3, OpensRecorded
  <2>5. QED
    BY <1>9, <2>3, <2>4 DEF AsksAgain
<1>10. CASE Delivers
  <2>1. PICK r \in RecordTypes :
          /\ Unanswered(r)
          /\ \/ origin # "nested" /\ Stops(Append(recoveries, r))
             \/ origin = "nested" /\ VerificationFails(Append(recoveries, r))
    BY <1>10 DEF Delivers
  <2>2. /\ pc = "collecting" /\ Accountable /\ Complete(recoveries, pauses, Missing)
        /\ r.intervention_id = pauses /\ pauses \in 1..pauses
    BY <1>1, <1>2, <1>10, <2>1 DEF Delivers, Accountable, Unanswered
  <2>3. CASE origin # "nested" /\ Stops(Append(recoveries, r))
    <3>1. Missing = {pauses}
      BY <2>2, <2>3, MissingIs
    <3>2. Complete(Append(recoveries, r), pauses, {})
      <4>1. Complete(Append(recoveries, r), pauses, Missing \ {r.intervention_id})
        BY <1>1, <2>2, <3>1, CompleteAppend
      <4>2. QED
        BY <2>2, <3>1, <4>1
    <3>3. QED
      BY <2>3, <3>2, OpensRecorded
  <2>4. CASE origin = "nested" /\ VerificationFails(Append(recoveries, r))
    <3>1. NestedPause
      BY <2>2, <2>4
    <3>2. /\ Missing = {pauses, handback.intervention_id}
          /\ handback.intervention_id \in 1..pauses /\ handback.intervention_id = pauses - 1
      BY <3>1, MissingIs, HandbackIs
    <3>3. PICK s \in RecordTypes :
              /\ Honoured(s)
              /\ \/ Opens("post", Append(Append(recoveries, r), s))
                 \/ Stops(Append(Append(recoveries, r), s))
      BY <2>4, <3>1, VerificationFailsIs
    <3>4. s.intervention_id = handback.intervention_id
      BY <3>3 DEF Honoured
    <3>5. Complete(Append(recoveries, r), pauses, Missing \ {pauses})
      BY <1>1, <2>2, <3>2, CompleteAppend
    <3>6. Missing \ {pauses} = {handback.intervention_id}
      BY <1>1, <3>2
    <3>7. Append(recoveries, r) \in Seq(RecordTypes)
      BY <1>1
    <3>8. Complete(Append(Append(recoveries, r), s), pauses,
                   (Missing \ {pauses}) \ {handback.intervention_id})
      BY <1>1, <3>2, <3>4, <3>5, <3>6, <3>7, CompleteAppend
    <3>9. Complete(Append(Append(recoveries, r), s), pauses, {})
      BY <3>6, <3>8
    <3>10. QED
      BY <3>3, <3>9, OpensRecorded
  <2>5. QED
    BY <2>1, <2>3, <2>4
<1>11. CASE HandsBack
  <2>1. UNCHANGED <<recoveries, pauses>> /\ handback'.intervention_id = pauses
        /\ pc' = "verifying" /\ pc = "noting" /\ origin # "nested"
    BY <1>11 DEF HandsBack
  <2>2. Missing = {pauses} /\ Accountable
    BY <2>1, MissingIs DEF Accountable
  <2>3. Missing' = {pauses}
    BY <1>1, <2>1 DEF Missing
  <2>4. QED
    BY <1>3, <2>1, <2>2, <2>3
<1>12. CASE Confirms
  <2>1. PICK r \in RecordTypes : Honoured(r) /\ recoveries' = Append(recoveries, r)
    BY <1>12, ConfirmsIs
  <2>2. /\ Missing = {handback.intervention_id} /\ handback.intervention_id \in 1..pauses
        /\ Complete(recoveries, pauses, Missing)
    BY <1>2, <1>12, MissingIs, HandbackIs DEF Confirms, Accountable
  <2>3. Complete(recoveries', pauses, {})
    <3>1. Complete(Append(recoveries, r), pauses, Missing \ {r.intervention_id})
      BY <1>1, <2>1, <2>2, CompleteAppend DEF Honoured
    <3>2. Missing \ {r.intervention_id} = {}
      BY <2>1, <2>2 DEF Honoured
    <3>3. QED
      BY <2>1, <3>1, <3>2
  <2>4. pauses' = pauses /\ Missing' = {}
    BY <1>12 DEF Confirms, Proceed, Missing
  <2>5. QED
    BY <2>3, <2>4 DEF Recorded, Complete, RecordsIn, RecordsOf
<1>13. QED
  BY <1>4, <1>5, <1>6, <1>7, <1>8, <1>9, <1>10, <1>11, <1>12 DEF BookStep

-----------------------------------------------------------------------------
(* Who is named.                                                            *)

\* A pause opens at the end of the history, and the file does not move with it.
LEMMA OpenedNow ==
    ASSUME BookStep
    PROVE  opened' = opened \/ (opened' = Append(opened, Len(History)) /\ file' = file)
BY DEF BookStep, Idles, WaitsOn, Notes, Looks, Acts, Passes, Wins, Fails, Closes, Asks,
   AsksAgain, VerificationFails, Delivers, HandsBack, Confirms, Opens, Stops, Books

\* What happened in a pause stays so: the history and the openings only grow.
LEMMA DuringKept ==
    ASSUME Basics, BookStep, NEW k \in 1..pauses, NEW i \in During(k)
    PROVE  i \in During(k)' /\ History'[i] = History[i]
<1>2. /\ opened \in Seq(Nat) /\ Len(opened) = pauses /\ pauses \in Nat
  BY PausesAssumption DEF Basics, TypeOK
<1>3. /\ Len(History) <= Len(History') /\ \A j \in 1..Len(History) : History'[j] = History[j]
      /\ Len(History) \in Nat /\ Len(History') \in Nat
  BY BookFileStep, HistoryGrows, HistoryType DEF Grows, Basics
<1>4. i \in 1..Len(History) /\ opened[k] < i /\ (k < Len(opened) => i <= opened[k + 1])
  BY DEF During
<1>5. opened'[k] = opened[k] /\ (k < Len(opened') => i <= opened'[k + 1])
  <2>1. CASE opened' = opened
    BY <1>4, <2>1
  <2>2. CASE opened' = Append(opened, Len(History))
    <3>1. /\ Len(opened') = Len(opened) + 1
          /\ opened'[Len(opened) + 1] = Len(History)
          /\ \A j \in 1..Len(opened) : opened'[j] = opened[j]
      <4>1. opened \in Seq(Nat) /\ Len(History) \in Nat
        BY <1>2, <1>3
      <4>2. QED
        BY <2>2, <4>1
    <3>2. k < Len(opened) \/ k = Len(opened)
      BY <1>2
    <3>3. k < Len(opened) => k + 1 \in 1..Len(opened)
      BY <1>2
    <3>4. QED
      BY <1>2, <1>4, <3>1, <3>2, <3>3
  <2>3. QED
    BY <2>1, <2>2, OpenedNow
<1>6. i \in During(k)'
  BY <1>3, <1>4, <1>5 DEF During
<1>7. QED
  BY <1>3, <1>4, <1>6

\* Who was there was there.
LEMMA SawKept ==
    ASSUME Basics, BookStep
    PROVE  \A o \in Operators : \A k \in 1..pauses : SawPause(o, k) => SawPause(o, k)'
<1> SUFFICES ASSUME NEW o \in Operators, NEW k \in 1..pauses, SawPause(o, k)
             PROVE  SawPause(o, k)'
  OBVIOUS
<1>1. PICK i \in During(k) :
        History[i].operator_id = o /\ History[i].event \in {"take_control", "abort"}
  BY DEF SawPause
<1>2. i \in During(k)' /\ History'[i] = History[i]
  BY DuringKept
<1>3. QED
  BY <1>1, <1>2 DEF SawPause

\* A hand-back being re-verified is the one just delivered or the one there was.
LEMMA HandbackKept ==
    ASSUME BookStep, pc' \in VerifyPCs \/ NestedPause'
    PROVE  HandsBack \/ (handback' = handback /\ (pc \in VerifyPCs \/ NestedPause))
BY DEF BookStep, Idles, WaitsOn, Notes, Looks, Acts, Passes, Wins, Fails, Closes, Asks,
   AsksAgain, VerificationFails, Delivers, HandsBack, Confirms, Opens, Stops, Books,
   VerifyPCs, NestedPause, PausePCs, Waiting, Proceed, End

\* Whoever is named by a record or a hand-back was there.
LEMMA AttributedStep ==
    ASSUME Basics, Basics', Attributed, Recorded, BookStep
    PROVE  Attributed'
<1>1. /\ recoveries \in Seq(RecordTypes) /\ pauses \in Nat
      /\ \A i \in 1..Len(recoveries) :
            /\ recoveries[i] \in RecordTypes
            /\ recoveries[i].intervention_id \in 1..pauses
  <2>1. recoveries \in Seq(RecordTypes) /\ pauses \in Nat
    BY PausesAssumption DEF Basics, TypeOK
  <2>2. \A i \in 1..Len(recoveries) : recoveries[i] \in RecordTypes
    BY <2>1, ElementOf
  <2>3. QED
    BY <2>1, <2>2 DEF Recorded
<1>2. \A o \in Operators : \A k \in 1..pauses : SawPause(o, k) => SawPause(o, k)'
  BY SawKept
<1>3. \A r \in RecordTypes : r.operator_id \in Operators \cup {NoOne}
  BY DEF RecordTypes
<1>4. ASSUME NEW r \in RecordTypes, r.intervention_id \in 1..pauses,
             r.operator_id # NoOne => SawPause(r.operator_id, r.intervention_id)
      PROVE  r.operator_id # NoOne => SawPause(r.operator_id, r.intervention_id)'
  BY <1>2, <1>3, <1>4
<1>5. \A i \in 1..Len(recoveries) :
        recoveries[i].operator_id # NoOne =>
            SawPause(recoveries[i].operator_id, recoveries[i].intervention_id)
  BY DEF Attributed, NobodyElseIsBlamed, SawPause
<1>6. ASSUME pc \in VerifyPCs \/ NestedPause
      PROVE  /\ SawPause(handback.operator_id, handback.intervention_id)
             /\ handback.operator_id \in Operators /\ handback.intervention_id \in 1..pauses
  BY <1>6, HandbackIs DEF Attributed
<1>7. ASSUME NEW r, Honoured(r), pc \in VerifyPCs \/ NestedPause
      PROVE  /\ r.intervention_id \in 1..pauses
             /\ SawPause(r.operator_id, r.intervention_id)
  BY <1>6, <1>7 DEF Honoured
<1>8. ASSUME NEW r, Unanswered(r), pc \in PausePCs
      PROVE  /\ r.intervention_id \in 1..pauses
             /\ r.operator_id # NoOne => SawPause(r.operator_id, r.intervention_id)
  BY <1>1, <1>8 DEF Unanswered, Basics, Placed
\* Each record of the longer list is an old one or one of those just made.
<1>9. \A i \in 1..Len(recoveries') :
        LET r == recoveries'[i]
        IN  /\ r \in RecordTypes /\ r.intervention_id \in 1..pauses
            /\ r.operator_id # NoOne => SawPause(r.operator_id, r.intervention_id)
  <2> SUFFICES ASSUME NEW i \in 1..Len(recoveries'), NEW r, r = recoveries'[i]
               PROVE  /\ r \in RecordTypes /\ r.intervention_id \in 1..pauses
                      /\ r.operator_id # NoOne => SawPause(r.operator_id, r.intervention_id)
    OBVIOUS
  <2>1. CASE i \in 1..Len(recoveries)
    <3>1. r = recoveries[i]
      BY <2>1, RecordSteps DEF RecordsGrow
    <3>2. QED
      BY <1>1, <1>5, <2>1, <3>1
  <2>2. CASE i \notin 1..Len(recoveries)
    <3>1. CASE recoveries' = recoveries
      BY <2>2, <3>1
    <3>2. CASE /\ pc \in {"rejudging", "confirming"}
               /\ \E s \in RecordTypes : Honoured(s) /\ recoveries' = Append(recoveries, s)
      <4>1. PICK s \in RecordTypes : Honoured(s) /\ recoveries' = Append(recoveries, s)
        BY <3>2
      <4>2. r = s
        BY <1>1, <2>2, <4>1, RecordsExtend
      <4>3. QED
        BY <1>7, <3>2, <4>1, <4>2 DEF VerifyPCs
    <3>3. CASE /\ pc = "collecting"
               /\ \E s \in RecordTypes : Unanswered(s) /\ recoveries' = Append(recoveries, s)
      <4>1. PICK s \in RecordTypes : Unanswered(s) /\ recoveries' = Append(recoveries, s)
        BY <3>3
      <4>2. r = s
        BY <1>1, <2>2, <4>1, RecordsExtend
      <4>3. QED
        BY <1>8, <3>3, <4>1, <4>2 DEF PausePCs
    <3>4. CASE /\ pc = "collecting" /\ origin = "nested"
               /\ \E s \in RecordTypes : \E t \in RecordTypes :
                     /\ Unanswered(s) /\ Honoured(t)
                     /\ recoveries' = Append(Append(recoveries, s), t)
      <4>1. PICK s \in RecordTypes, t \in RecordTypes :
                     /\ Unanswered(s) /\ Honoured(t)
                     /\ recoveries' = Append(Append(recoveries, s), t)
        BY <3>4
      <4>2. r = s \/ r = t
        <5>1. /\ Len(recoveries') = Len(recoveries) + 2 /\ Len(recoveries) \in Nat
              /\ recoveries'[Len(recoveries) + 2] = t
          BY <1>1, <4>1, RecordsExtend
        <5>2. recoveries'[Len(recoveries) + 1] = s
          BY <1>1, <4>1
        <5>3. i = Len(recoveries) + 1 \/ i = Len(recoveries) + 2
          BY <2>2, <5>1
        <5>4. QED
          BY <5>1, <5>2, <5>3
      <4>3. NestedPause /\ pc \in PausePCs
        BY <3>4 DEF NestedPause, PausePCs
      <4>4. QED
        BY <1>7, <1>8, <4>1, <4>2, <4>3
    <3>5. QED
      BY <3>1, <3>2, <3>3, <3>4, RecordSteps DEF RecordedNow
  <2>3. QED
    BY <2>1, <2>2
<1>10. NobodyElseIsBlamed'
  <2> SUFFICES ASSUME NEW i \in 1..Len(recoveries'), NEW r, r = recoveries'[i],
                      r.operator_id # NoOne
               PROVE  \E j \in During(r.intervention_id)' :
                         /\ History'[j].operator_id = r.operator_id
                         /\ History'[j].event \in {"take_control", "abort"}
    BY DEF NobodyElseIsBlamed, During
  <2>1. SawPause(r.operator_id, r.intervention_id)'
    BY <1>4, <1>9
  <2>2. QED
    BY <2>1 DEF SawPause
<1>11. pc' \in VerifyPCs \/ NestedPause' =>
          SawPause(handback.operator_id, handback.intervention_id)'
  <2> SUFFICES ASSUME pc' \in VerifyPCs \/ NestedPause'
               PROVE  SawPause(handback.operator_id, handback.intervention_id)'
    OBVIOUS
  <2>1. CASE handback' = handback /\ (pc \in VerifyPCs \/ NestedPause)
    BY <1>2, <1>6, <2>1 DEF SawPause, During
  <2>2. CASE HandsBack
    <3>1. /\ handback'.operator_id \in Operators /\ handback'.intervention_id = pauses
          /\ SawPause(handback'.operator_id, pauses) /\ pauses \in 1..pauses
      BY <1>1, <2>2 DEF HandsBack, Basics, Placed, PausePCs
    <3>2. QED
      BY <1>2, <3>1 DEF SawPause, During
  <2>3. QED
    BY <2>1, <2>2, HandbackKept
<1>12. QED
  BY <1>10, <1>11 DEF Attributed

-----------------------------------------------------------------------------
(* How a run that succeeds got there.                                       *)

\* A run that is over stays over: nothing is recorded, decided or opened any more.
LEMMA OverStays ==
    ASSUME BookStep, pc \in Over
    PROVE  /\ pc' \in Over
           /\ UNCHANGED <<recoveries, result, pauses, acted, opened>>
           /\ FileCall
BY DEF Over, BookStep, Idles, WaitsOn, Notes, Looks, Acts, Passes, Wins, Fails, Closes, Asks,
   AsksAgain, VerificationFails, Delivers, HandsBack, Confirms, Opens, Stops, Books,
   PausePCs, Waiting, Proceed, End

\* A result is given once, and a good one only at the success check.
LEMMA ResultNow ==
    ASSUME BookStep
    PROVE  \/ result' = result
           \/ result'.status \in {"stopped", "escalated", "crashed"}
           \/ Wins
BY DEF BookStep, Idles, WaitsOn, Notes, Looks, Acts, Passes, Fails, Closes, Asks,
   AsksAgain, VerificationFails, Delivers, HandsBack, Confirms, Opens, Stops, Books

\* No record means no pause, and no pause no file.
LEMMA UnrecordedRun ==
    ASSUME Basics, Recorded, pc \in FlowPCs, recoveries = << >>
    PROVE  file = NoFile
<1>1. Complete(recoveries, pauses, {})
  BY RecordedIs, MissingIs DEF Accountable, FlowPCs, Over
<1>2. pauses \in Nat
  BY MissingIs
<1>3. ASSUME pauses >= 1 PROVE FALSE
  <2>1. 1 \in 1..pauses
    BY <1>2, <1>3
  <2>2. \E i \in 1..Len(recoveries) : RecordsIn(recoveries, 1) = {i}
    BY <1>1, <2>1 DEF Complete
  <2>3. QED
    BY <2>2
<1>4. QED
  BY <1>2, <1>3 DEF Basics, Placed

\* A run goes on, and succeeds, only from a hand-back.
LEMMA AnsweredStep ==
    ASSUME Basics, Answered, Recorded, BookStep
    PROVE  Answered'
<1>1. recoveries \in Seq(RecordTypes) /\ Placed
  BY DEF Basics, TypeOK
<1>2. pc' \notin Over /\ recoveries' # << >> => Last(recoveries)'.outcome = "handed_back"
  <2> SUFFICES ASSUME pc' \notin Over, recoveries' # << >>
               PROVE  Last(recoveries)'.outcome = "handed_back"
    OBVIOUS
  <2>1. pc \notin Over
    BY OverStays
  <2>2. CASE recoveries' = recoveries
    BY <2>1, <2>2 DEF Answered, Last
  <2>3. CASE \E r \in RecordTypes : Honoured(r) /\ recoveries' = Append(recoveries, r)
    <3>1. PICK r \in RecordTypes : Honoured(r) /\ recoveries' = Append(recoveries, r)
      BY <2>3
    <3>2. recoveries'[Len(recoveries')] = r
      BY <1>1, <3>1, RecordsExtend
    <3>3. QED
      BY <3>1, <3>2 DEF Last, Honoured
  <2>4. CASE /\ pc = "collecting" /\ origin # "nested"
    <3>1. Idles \/ WaitsOn \/ Notes
      BY <2>4 DEF BookStep, Looks, Acts, Passes, Wins, Fails, Closes, Asks, AsksAgain,
           Delivers, HandsBack, Confirms, Stops, End, Over
    <3>2. recoveries' = recoveries
      BY <3>1 DEF Idles, WaitsOn, Notes, Books
    <3>3. QED
      BY <2>2, <3>2
  <2>5. CASE \E r \in RecordTypes : \E s \in RecordTypes :
                /\ Unanswered(r) /\ Honoured(s)
                /\ recoveries' = Append(Append(recoveries, r), s)
    <3>1. PICK r \in RecordTypes, s \in RecordTypes :
                /\ Unanswered(r) /\ Honoured(s)
                /\ recoveries' = Append(Append(recoveries, r), s)
      BY <2>5
    <3>2. recoveries'[Len(recoveries')] = s
      BY <1>1, <3>1, RecordsExtend
    <3>3. QED
      BY <3>1, <3>2 DEF Last, Honoured
  <2>6. QED
    BY <2>2, <2>3, <2>4, <2>5, RecordSteps DEF RecordedNow
<1>3. CASE result' = result /\ result.status \in {"success", "recovered_then_success"}
  <2>1. pc \in Over
    BY <1>1, <1>3 DEF Placed, NotEnded
  <2>2. UNCHANGED recoveries /\ FileCall
    BY <2>1, OverStays
  <2>3. file = NoFile => file' = NoFile
    BY <2>2 DEF FileCall, Moved
  <2>4. QED
    BY <1>2, <1>3, <2>2, <2>3 DEF Answered, Last
<1>4. CASE Wins
  <2>1. /\ result'.status = SuccessStatus /\ UNCHANGED <<recoveries, file>>
        /\ pc \in FlowPCs /\ pc \notin Over
    BY <1>4 DEF Wins, End, FlowPCs, Over
  <2>2. CASE recoveries = << >>
    BY <1>2, <2>1, <2>2, UnrecordedRun DEF Answered, SuccessStatus
  <2>3. CASE recoveries # << >>
    BY <1>2, <2>1, <2>3 DEF Answered, SuccessStatus, Last
  <2>4. QED
    BY <2>2, <2>3
<1>5. CASE result'.status \notin {"success", "recovered_then_success"}
  BY <1>2, <1>5 DEF Answered
<1>6. QED
  BY <1>3, <1>4, <1>5, ResultNow

-----------------------------------------------------------------------------
(* Time.                                                                    *)

\* What a step does to the file and its age: only the channel expires a session,
\* and only as it last read it.
FileClock ==
    \/ file' = file /\ age' = age
    \/ file = NoFile /\ file' = Start
    \/ /\ age' = 0
       /\ \E call \in Calls :
             /\ Moved(call)
             /\ call.event = "expire" => pc = "expiring" /\ seen.version = file.version

\* Every step but a poll and a tick leaves the deadline or sets it a full wait off,
\* and a wait that runs out does so at its deadline.
OtherSteps ==
    /\ FileClock
    /\ holding' = holding
    /\ left' \in {left, WaitS}
    /\ pc' \in {"sleeping", "expiring"} =>
          /\ seen' = seen
          /\ pc' = pc \/ (pc = "sleeping" /\ pc' = "expiring" /\ left = 0)
          /\ left' = left

\* A call made quietly, by its effect on the file and its age.
LEMMA QuietClock ==
    ASSUME TypeOK, NEW call \in Calls, NEW version, Quietly(call, version),
           call.event = "expire" => pc = "expiring" /\ version = seen.version
    PROVE  FileClock
<1>1. CASE Accepted(call, version) /\ Move(call)
  <2>1. Moved(call) /\ age' = 0
    BY <1>1 DEF Accepted, Move, Moved
  <2>2. call.event = "expire" => seen.version = file.version
    BY <1>1 DEF Accepted, AnyVersion, TypeOK
  <2>3. QED
    BY <2>1, <2>2 DEF FileClock
<1>2. QED
  BY <1>1 DEF Quietly, FileClock

\* Every step polls, ticks, or does neither to the deadline.
LEMMA ClockSteps == ASSUME Basics, [Next]_vars PROVE Poll \/ Tick \/ OtherSteps
<1> USE DEF log, engineVars, channelVars, worldVars, vars
<1>1. /\ \A iv \in Nat : AutomationCall("reverify_failed", iv) \in Calls
                         /\ AutomationCall("stuck_detected", iv) \in Calls
      /\ AutomationCall("finish", 0) \in Calls /\ AutomationCall("expire", 0) \in Calls
      /\ AutomationCall("checkpoint_reverified", 0) \in Calls
      /\ pauses \in Nat /\ TypeOK
  <2>1. pauses \in Nat
    BY PausesAssumption DEF Basics, TypeOK
  <2>2. QED
    BY <2>1, CallTypes DEF Events, Basics
<1>2. \A iv \in Nat : \A event \in Events : AutomationCall(event, iv).event = event
  BY DEF AutomationCall
<1>3. CASE ResolveTarget \/ PollWait \/ PollCheckpoint \/ GuardAction \/ Act
           \/ StepPasses \/ Succeed \/ StopRun \/ PassNoDetectors \/ Verified \/ Interrupt
           \/ Kill \/ CheckFinished
  BY <1>3 DEF ResolveTarget, PollWait, PollCheckpoint, GuardAction, Act, LookFrom, StepPasses,
       Succeed, StopRun, PassNoDetectors, Verified, Interrupt, Kill, CheckFinished, Crash,
       LoseControl, End, Proceed, OtherSteps, FileClock
<1>4. CASE AskForHuman \/ NotVerified \/ RecoveryNeedsHuman
  BY <1>4 DEF AskForHuman, NotVerified, RecoveryNeedsHuman, FailVerification, Escalate, End,
       HandedBackRecord, HumanRecord, OtherSteps, FileClock
<1>5. CASE Confirm
  <2>1. FileClock
    BY <1>1, <1>2, <1>5, QuietClock DEF Confirm, Events
  <2>2. QED
    BY <1>5, <2>1 DEF Confirm, Proceed, OtherSteps
<1>6. CASE CloseSession
  <2>1. FileClock
    BY <1>1, <1>2, <1>6, QuietClock DEF CloseSession, Events
  <2>2. QED
    BY <1>6, <2>1 DEF CloseSession, OtherSteps
<1>7. CASE PauseSession
  <2>1. FileClock
    BY <1>1, <1>2, <1>7, QuietClock DEF PauseSession, Events
  <2>2. QED
    BY <1>7, <2>1 DEF PauseSession, OtherSteps
<1>8. CASE WindowGone
  <2>1. FileClock
    BY <1>1, <1>2, <1>8, QuietClock DEF WindowGone, Events
  <2>2. QED
    BY <1>8, <2>1 DEF WindowGone, OtherSteps
<1>9. CASE Expire
  <2>1. FileClock
    BY <1>1, <1>2, <1>9, QuietClock DEF Expire, Events
  <2>2. QED
    BY <1>9, <2>1 DEF Expire, OtherSteps
<1>10. CASE CreateSession \/ ReadBeforePause
  BY <1>10 DEF CreateSession, ReadBeforePause, OtherSteps, FileClock
<1>11. CASE Wake
  BY <1>11 DEF Wake, TimeIsUp, OtherSteps, FileClock
<1>12. ASSUME NEW r, DeliverStop(r), UNCHANGED <<file, age, holding>>
       PROVE  OtherSteps
  BY <1>12 DEF DeliverStop, FailVerification, Escalate, End, HandedBackRecord, HumanRecord,
       OtherSteps, FileClock
<1>13. CASE CollectLost
  <2>1. \E r : DeliverStop(r)
    BY <1>13 DEF CollectLost, HumanRecord
  <2>2. QED
    BY <1>12, <1>13, <2>1 DEF CollectLost
<1>14. CASE CollectEnded
  <2>1. (\E r : DeliverStop(r)) \/ (pc' = "ended" /\ UNCHANGED left)
    BY <1>14 DEF CollectEnded, HumanRecord, Crash, End
  <2>2. CASE \E r : DeliverStop(r)
    BY <1>12, <1>14, <2>2 DEF CollectEnded
  <2>3. CASE pc' = "ended" /\ UNCHANGED left
    BY <1>14, <2>3 DEF CollectEnded, OtherSteps, FileClock
  <2>4. QED
    BY <2>1, <2>2, <2>3
<1>15. CASE CollectHandback \/ DeliverHandback
  BY <1>15 DEF CollectHandback, DeliverHandback, Crash, End, OtherSteps, FileClock
<1>16. CASE CloseWindow \/ UNCHANGED vars
  BY <1>16 DEF CloseWindow, OtherSteps, FileClock
<1>17. CASE \E o \in Operators :
               \/ LookAlive(o)
               \/ \E verb \in {"take_control", "hand_back", "abort"} : ReadSession(o, verb)
  BY <1>17 DEF LookAlive, ReadSession, OtherSteps, FileClock
<1>18. CASE \E o \in Operators : Command(o)
  <2>1. PICK o \in Operators : Command(o)
    BY <1>18
  <2>2. OperatorCall(o, cli[o].verb).event = cli[o].verb
    BY DEF OperatorCall
  <2>3. FileClock
    BY <2>1, <2>2, CommandMoves DEF FileClock
  <2>4. QED
    BY <2>1, <2>3 DEF Command, OtherSteps
<1>19. QED
  BY <1>3, <1>4, <1>5, <1>6, <1>7, <1>8, <1>9, <1>10, <1>11, <1>13, <1>14, <1>15, <1>16,
     <1>17, <1>18 DEF Next, Engine, Channel, Closing, People

\* A session taken a second time has two takes in its history.
LEMMA SecondTake ==
    ASSUME Basics, NEW call \in Calls, Moved(call), file' \in SessionStates,
           History' = Append(History, Entry(file, call)),
           HumanHolds', Takes(History) # {}
    PROVE  Cardinality(Takes(History))' # 1
<1>1. History \in Seq(TransitionRecord) /\ Len(History) \in Nat
  BY HistoryType DEF Basics
<1>2. file \in SessionStates /\ Permitted(file, call) /\ file'.phase = "human_active"
  BY DEF Basics, TypeOK, Moved, HumanHolds, InPhase
<1>3. call.event = "take_control" /\ Entry(file, call) \in TransitionRecord
  BY <1>2, AdvanceExtends DEF Moved
<1>4. PICK i : i \in Takes(History)
  OBVIOUS
<1> DEFINE H == History'
           n == Len(History) + 1
<1>5. i \in 1..Len(History) /\ History[i].event = "take_control"
  BY <1>4 DEF Takes
<1>6. Len(H) = n /\ H[n] = Entry(file, call) /\ H[i] = History[i]
  BY <1>1, <1>3, <1>5
<1>7. i \in Takes(H) /\ n \in Takes(H) /\ i # n
  <2>1. H[n].event = "take_control"
    BY <1>3, <1>6 DEF Entry
  <2>2. i \in 1..Len(H) /\ n \in 1..Len(H) /\ i # n
    BY <1>1, <1>5, <1>6
  <2> HIDE DEF H, n
  <2>3. QED
    BY <1>5, <1>6, <2>1, <2>2 DEF Takes
<1>8. Takes(H) \subseteq 1..n
  BY <1>6 DEF Takes
<1> HIDE DEF H
<1>9. IsFiniteSet(Takes(H))
  <2>1. IsFiniteSet(1..n)
    BY <1>1, FS_Interval
  <2>2. QED
    BY <1>8, <2>1, FS_Subset
<1>10. ASSUME Cardinality(Takes(H)) = 1 PROVE FALSE
  <2>1. PICK x : Takes(H) = {x}
    BY <1>9, <1>10, FS_Singleton
  <2>2. QED
    BY <1>7, <2>1
<1>11. QED
  BY <1>10 DEF H

\* The deadline and the age of the hold stay in step.
LEMMA ClockedStep ==
    ASSUME Basics, Basics', Clocked, Grows, Poll \/ Tick \/ OtherSteps
    PROVE  Clocked'
<1>1. TypeOK /\ FileSound /\ TypeOK' /\ WaitS \in Nat
  BY WaitAssumption DEF Basics
<1>2. /\ left \in 0..WaitS /\ age \in 0..WaitS /\ left' \in 0..WaitS /\ age' \in 0..WaitS
  BY <1>1 DEF TypeOK
<1>3. /\ History \in Seq(TransitionRecord) /\ Len(History) \in Nat /\ Len(History') \in Nat
      /\ pc \in {"sleeping", "expiring"} => file # NoFile
  <2>1. History' \in Seq(TransitionRecord)
    <3>1. file' \in SessionStates \cup {NoFile}
      BY <1>1 DEF TypeOK
    <3>2. QED
      BY <3>1 DEF History, SessionStates
  <2>2. pc \in {"sleeping", "expiring"} => file # NoFile
    BY DEF Basics, Placed, PausePCs, Waiting
  <2>3. QED
    BY <1>1, <2>1, <2>2, HistoryType
<1>4. file # NoFile => file.version \in Nat
  BY <1>1 DEF TypeOK, SessionStates
<1>5. Takes(History) # {} => Takes(History') # {}
  BY <1>3 DEF Takes, Grows
<1>6. CASE Poll
  <2>1. /\ file' = file /\ age' = age /\ pc' \in {"collecting", "sleeping"}
        /\ History' = History /\ file # NoFile
    BY <1>6 DEF Poll, worldVars, History, Basics, Placed, PausePCs, Waiting
  <2>2. /\ seen'.phase = file.phase /\ seen'.version = file.version
        /\ holding' = (holding \/ (file.phase = "human_active" /\ ~holding))
        /\ left' = IF file.phase = "human_active" /\ ~holding THEN WaitS - age ELSE left
    BY <1>6 DEF Poll, LeftAfterTake
  <2>3. file.phase = "human_active" => Takes(History) # {}
    <3>1. ASSUME file.phase = "human_active" PROVE Len(History) \in Takes(History)
      <4>1. /\ file.phase = PhaseAt(Len(History))
            /\ \A i \in 1..Len(History) : EntrySound(History[i])
        BY <1>1, <2>1 DEF FileSound
      <4>2. Len(History) # 0 /\ History[Len(History)].to_phase = "human_active"
        BY <3>1, <4>1 DEF PhaseAt
      <4>3. Len(History) \in 1..Len(History)
        BY <1>3, <4>2
      <4>4. QED
        BY <4>1, <4>2, <4>3 DEF EntrySound, Takes
    <3>2. QED
      BY <3>1
  <2>4. holding' => Takes(History') # {}
    BY <2>1, <2>2, <2>3 DEF Clocked
  <2>5. pc' \in {"sleeping", "expiring"} =>
          /\ seen'.version <= file'.version
          /\ seen'.version = file'.version => seen'.phase = file'.phase
          /\ seen'.phase = "human_active" => holding'
    <3>1. file.phase = "human_active" => holding'
      BY <2>2
    <3>2. file.version \in Nat /\ file'.version = file.version /\ file'.phase = file.phase
      BY <1>4, <2>1
    <3>3. seen'.version <= file'.version
      BY <2>2, <3>2
    <3>4. QED
      BY <2>2, <3>1, <3>2, <3>3
  <2>6. file'.phase = "human_active" /\ holding' /\ Cardinality(Takes(History')) = 1 =>
          left' + age' >= WaitS
    BY <1>1, <1>2, <2>1, <2>2 DEF Clocked, HumanHolds, InPhase
  <2>7. QED
    BY <2>1, <2>4, <2>5, <2>6 DEF Clocked, HumanHolds, InPhase, Takes
<1>7. CASE Tick
  <2>1. /\ file' = file /\ pc' = pc /\ seen' = seen /\ holding' = holding /\ History' = History
        /\ left' = IF left > 0 THEN left - 1 ELSE 0
        /\ age' = IF HumanHolds /\ age < WaitS THEN age + 1 ELSE age
    BY <1>7 DEF Tick, engineVars, History
  <2>2. Clocked /\ HumanHolds' = HumanHolds /\ Takes(History)' = Takes(History)
    BY <2>1 DEF HumanHolds, InPhase, Takes
  <2>3. pc = "expiring" => left' = 0
    BY <1>2, <2>1 DEF Clocked
  <2>4. HumanHolds /\ left + age >= WaitS => left' + age' >= WaitS
    BY <1>1, <1>2, <2>1
  <2>5. QED
    BY <2>1, <2>2, <2>3, <2>4 DEF Clocked
<1>8. CASE OtherSteps
  <2>1. holding' = holding /\ left' \in {left, WaitS}
    BY <1>8 DEF OtherSteps
  <2>2. pc' \in {"sleeping", "expiring"} =>
          /\ seen' = seen /\ left' = left
          /\ pc \in {"sleeping", "expiring"}
          /\ pc' = "expiring" => left = 0
    BY <1>8 DEF OtherSteps, Clocked
  <2>3. CASE file' = file /\ age' = age
    <3>1. History' = History
      BY <2>3 DEF History
    <3>2. HumanHolds' = HumanHolds /\ Takes(History)' = Takes(History)
      BY <2>3, <3>1 DEF HumanHolds, InPhase, Takes
    <3>3. HumanHolds /\ holding /\ Cardinality(Takes(History)) = 1 => left' + age' >= WaitS
      <4>1. HumanHolds /\ holding /\ Cardinality(Takes(History)) = 1 => left + age >= WaitS
        BY DEF Clocked
      <4>2. left' = left => left' + age' = left + age
        BY <2>3
      <4>3. left' = WaitS => left' + age' >= WaitS
        <5>1. \A a \in Nat : WaitS + a >= WaitS
          BY <1>1
        <5>2. age' \in Nat
          BY <1>1, <1>2
        <5>3. QED
          BY <5>1, <5>2
      <4>4. QED
        BY <2>1, <4>1, <4>2, <4>3
    <3>4. QED
      BY <2>1, <2>2, <2>3, <3>2, <3>3 DEF Clocked
  <2>4. CASE file = NoFile /\ file' = Start
    <3>1. ~HumanHolds' /\ pc' \notin {"sleeping", "expiring"}
      BY <1>3, <2>2, <2>4 DEF HumanHolds, InPhase, Start
    <3>2. QED
      BY <1>5, <2>1, <3>1 DEF Clocked, Takes
  <2>5. CASE age' = 0 /\ \E call \in Calls : Moved(call)
    <3>1. PICK call \in Calls : Moved(call)
      BY <2>5
    <3>2. /\ file \in SessionStates /\ file' \in SessionStates /\ file # NoFile
          /\ History' = Append(History, Entry(file, call))
          /\ file'.version = file.version + 1
      <4>1. file \in SessionStates /\ Permitted(file, call) /\ file' = Advance(file, call)
        BY <1>1, <3>1 DEF Moved, TypeOK
      <4>2. file' \in SessionStates /\ file' # NoFile
        BY <4>1, AdvanceType, NoFileAssumption
      <4>3. file'.history = Append(file.history, Entry(file, call))
        BY <4>1, AdvanceExtends
      <4>4. file'.version = file.version + 1
        BY <4>1 DEF Advance
      <4>5. QED
        BY <3>1, <4>1, <4>2, <4>3, <4>4 DEF History, Moved
    <3>3. holding /\ HumanHolds' => Cardinality(Takes(History))' # 1
      BY <3>1, <3>2, SecondTake DEF Clocked
    <3>4. pc' \in {"sleeping", "expiring"} => seen'.version < file'.version
      <4>1. pc' \in {"sleeping", "expiring"} => seen.version <= file.version /\ seen' = seen
        BY <2>2 DEF Clocked
      <4>2. seen.version \in Nat /\ file.version \in Nat
        BY <1>1, <1>4, <3>2 DEF TypeOK
      <4>3. QED
        BY <3>2, <4>1, <4>2
    <3>5. seen'.version \in Nat /\ file'.version \in Nat
      BY <1>1, <3>2 DEF TypeOK, SessionStates
    <3>6. /\ holding' => Takes(History)' # {}
          /\ pc' = "expiring" => left' = 0
          /\ pc' \in {"sleeping", "expiring"} => (seen'.phase = "human_active" => holding')
      BY <1>5, <2>1, <2>2 DEF Clocked, Takes
    <3>7. QED
      BY <2>1, <3>3, <3>4, <3>5, <3>6 DEF Clocked
  <2>6. QED
    BY <1>8, <2>3, <2>4, <2>5 DEF OtherSteps, FileClock
<1>9. QED
  BY <1>6, <1>7, <1>8

-----------------------------------------------------------------------------
(* The inductive invariant, and what follows from it.                       *)

\* The strengthened invariant is inductive.
LEMMA StepInv == IInv /\ [Next]_vars => IInv'
<1> SUFFICES ASSUME IInv, [Next]_vars PROVE IInv'
  OBVIOUS
<1>1. Basics
  BY DEF IInv, Basics
<1>2. Basics' /\ BookStep /\ FileStep
  BY <1>1, BasicsStep
<1>3. Grows
  BY <1>1, <1>2, HistoryGrows DEF Basics
<1>4. Controlled'
  BY <1>1, ControlledStep DEF IInv
<1>5. Progress'
  BY <1>1, <1>2, ProgressStep DEF IInv
<1>6. Recorded'
  BY <1>1, <1>2, RecordedStep DEF IInv
<1>7. Attributed'
  BY <1>1, <1>2, AttributedStep DEF IInv
<1>8. Answered'
  BY <1>1, <1>2, AnsweredStep DEF IInv
<1>9. Clocked'
  BY <1>1, <1>2, <1>3, ClockSteps, ClockedStep DEF IInv
<1>10. QED
  BY <1>2, <1>4, <1>5, <1>6, <1>7, <1>8, <1>9 DEF IInv, Basics

\* The strengthened invariant holds of every behaviour, whatever operators do and
\* whichever writes of the session file fail.
THEOREM Invariance == Spec => []IInv
BY InitInv, StepInv, PTL DEF Spec

\* Every variable of a paused or running replay stays within its type.
THEOREM TypeCorrect == Spec => []TypeOK
<1>1. IInv => TypeOK
  BY DEF IInv
<1>2. QED
  BY <1>1, Invariance, PTL

\* Automation acts on the app only by a check of session_state.json it passed in
\* control, and only an abort can have landed between the check and the act.
THEOREM ActsInControl == Spec => []ActsOnlyInControl
<1>1. IInv => ActsOnlyInControl
  BY DEF IInv, Controlled
<1>2. QED
  BY <1>1, Invariance, PTL

\* No step's action is performed twice, however often the session is handed over
\* and back.
THEOREM ActsOnce == Spec => []NeverActsTwice
<1>1. IInv => NeverActsTwice
  BY DEF IInv, Progress
<1>2. QED
  BY <1>1, Invariance, PTL

\* A run that succeeds performed every step, or names the human who was asked at
\* it and handed the session back.
THEOREM StepsAccountedFor == Spec => []EveryStepIsAccountedFor
<1>1. IInv => EveryStepIsAccountedFor
  BY DEF IInv, Progress
<1>2. QED
  BY <1>1, Invariance, PTL

\* A run that ends by its own account has exactly one record of every pause.
THEOREM PausesRecordedOnce == Spec => []EveryPauseIsRecordedOnce
<1>1. ASSUME IInv PROVE EveryPauseIsRecordedOnce
  <2> SUFFICES ASSUME Settled, result.code # "OPERATOR_ABORTED", NEW k \in 1..pauses
               PROVE  Cardinality(RecordsOf(k)) = 1
    BY DEF EveryPauseIsRecordedOnce
  <2>1. Basics /\ Recorded /\ pc \in Over
    BY <1>1 DEF IInv, Basics, Settled, Over
  <2>2. Missing = {}
    BY <2>1, MissingIs
  <2>3. PICK i \in 1..Len(recoveries) : RecordsOf(k) = {i}
    BY <2>1, <2>2 DEF Recorded
  <2>4. QED
    BY <2>3, FS_Singleton
<1>2. QED
  BY <1>1, Invariance, PTL

\* A record names only somebody who took or aborted the session during its pause.
THEOREM NobodyBlamed == Spec => []NobodyElseIsBlamed
<1>1. IInv => NobodyElseIsBlamed
  BY DEF IInv, Attributed
<1>2. QED
  BY <1>1, Invariance, PTL

\* The first person to take the session is not expired before a full wait has
\* passed since they took it.
THEOREM FirstHoldIsWhole == Spec => FirstHoldGetsTheWindow
<1>1. ASSUME IInv, [Next]_vars, Expired, Cardinality(Takes(History)) = 1
      PROVE  age >= WaitS
  <2>1. Basics /\ Clocked
    BY <1>1 DEF IInv, Basics
  <2>2. HumanHolds /\ file'.phase = "finished" /\ Last(file'.history).event = "expire"
    BY <1>1 DEF Expired
  <2>3. file # NoFile /\ file' # file
    BY <2>2 DEF HumanHolds, InPhase
  <2>4. FileClock
    BY <1>1, <2>1, <2>3, ClockSteps DEF Poll, Tick, OtherSteps, worldVars
  <2>5. PICK call \in Calls :
          /\ Moved(call)
          /\ call.event = "expire" => pc = "expiring" /\ seen.version = file.version
    BY <2>3, <2>4 DEF FileClock
  <2>6. call.event = "expire"
    <3>1. file \in SessionStates /\ Permitted(file, call) /\ file' = Advance(file, call)
      BY <2>1, <2>5 DEF Moved, Basics, TypeOK
    <3>2. /\ file.history \in Seq(TransitionRecord) /\ Entry(file, call) \in TransitionRecord
          /\ file'.history = Append(file.history, Entry(file, call))
      BY <3>1, AdvanceExtends
    <3>3. Last(file'.history) = Entry(file, call)
      BY <3>2, LastOfAppend DEF Last
    <3>4. QED
      BY <2>2, <3>3 DEF Entry
  <2>7. pc = "expiring" /\ seen.version = file.version /\ file.phase = "human_active"
    BY <2>2, <2>5, <2>6 DEF HumanHolds, InPhase
  <2>8. left = 0 /\ holding
    BY <2>1, <2>7 DEF Clocked
  <2>9. left + age >= WaitS
    BY <1>1, <2>1, <2>2, <2>8 DEF Clocked
  <2>10. age \in Nat
    BY <2>1, WaitAssumption DEF Basics, TypeOK
  <2>11. QED
    BY <2>8, <2>9, <2>10
<1>2. IInv /\ [Next]_vars => [Expired /\ Cardinality(Takes(History)) = 1 => age >= WaitS]_vars
  BY <1>1
<1>3. QED
  BY <1>2, Invariance, PTL DEF Spec, FirstHoldGetsTheWindow

\* Whatever the engine, the channel, operators, a closed window and the clock do to
\* it, the session changes hands only as ControlPromise says.
THEOREM Refinement == Spec => KeepsPromise
<1>1. Init => Promise!Init
  BY DEF Init, SessionHolder, Promise!Init, Promise!Automation
<1>2. IInv /\ [Next]_vars => [Promise!Next]_SessionHolder
  <2> SUFFICES ASSUME IInv, [Next]_vars, SessionHolder' # SessionHolder PROVE Promise!Next
    OBVIOUS
  <2>1. file' # file /\ TypeOK /\ FileStep
    BY BasicsStep DEF SessionHolder, IInv, Basics
  <2>2. CASE file = NoFile /\ file' = Start
    <3>1. file' # NoFile /\ file'.phase = "running"
      BY <2>2, StartType, NoFileAssumption DEF Start
    <3>2. QED
      BY <2>2, <3>1 DEF SessionHolder, Holder
  <2>3. CASE \E call \in Calls : Moved(call)
    <3>1. PICK call \in Calls : Moved(call)
      BY <2>3
    <3>2. /\ file \in SessionStates /\ Permitted(file, call) /\ file' = Advance(file, call)
          /\ file # NoFile /\ file' # NoFile
      BY <2>1, <3>1, AdvanceType, NoFileAssumption DEF Moved, TypeOK
    <3>3. SessionHolder = Holder(file) /\ SessionHolder' = Holder(Advance(file, call))
      BY <3>2 DEF SessionHolder, Holder
    <3>4. \/ SessionHolder \in {"automation", "verifying"} /\ SessionHolder' = "nobody"
          \/ SessionHolder = "nobody" /\ SessionHolder' \in Operators
          \/ SessionHolder \in Operators /\ SessionHolder' = "verifying"
          \/ SessionHolder = "verifying" /\ SessionHolder' = "automation"
          \/ SessionHolder' = "over"
      BY <3>2, <3>3, HolderStep
    <3>5. QED
      BY <3>4 DEF Promise!Next, Promise!AskForHuman, Promise!TakeControl,
                  Promise!HandBack, Promise!Carry, Promise!End, Promise!Automation,
                  Promise!Verifying, Promise!Nobody, Promise!Over
  <2>4. QED
    BY <2>1, <2>2, <2>3 DEF FileStep, FileCall
<1>3. QED
  BY <1>1, <1>2, Invariance, PTL DEF Spec, KeepsPromise, Promise!Spec

-----------------------------------------------------------------------------
(* As long as no write of the session file fails.                           *)

\* When automation's calls are permitted, and where they lead.
LEMMA AutomationPhases ==
    ASSUME file \in SessionStates, NEW iv \in Nat
    PROVE  /\ Permitted(file, AutomationCall("finish", iv)) <=> file.phase # "finished"
           /\ Permitted(file, AutomationCall("expire", iv)) <=>
                 file.phase \in {"paused_for_human", "human_active"}
           /\ Permitted(file, AutomationCall("checkpoint_reverified", iv)) <=>
                 file.phase = "resuming"
           /\ Permitted(file, AutomationCall("reverify_failed", iv)) <=>
                 file.phase = "resuming"
           /\ iv # 0 => (Permitted(file, AutomationCall("stuck_detected", iv)) <=>
                            file.phase = "running")
<1>1. file.phase \in Phases
  BY DEF SessionStates
<1> USE DEF Permitted, AutomationCall, OwnsTheHold, ALLOWED_ACTORS
<1>2. CASE file.phase = "running"
  BY <1>2 DEF TRANSITIONS
<1>3. CASE file.phase = "paused_for_human"
  BY <1>3 DEF TRANSITIONS
<1>4. CASE file.phase = "human_active"
  BY <1>4 DEF TRANSITIONS
<1>5. CASE file.phase = "resuming"
  BY <1>5 DEF TRANSITIONS
<1>6. CASE file.phase = "finished"
  BY <1>6 DEF TRANSITIONS
<1>7. QED
  BY <1>1, <1>2, <1>3, <1>4, <1>5, <1>6 DEF Phases

\* Where a permitted call leads, by its event.
LEMMA MovedPhases ==
    ASSUME file \in SessionStates, NEW call \in Calls, Moved(call)
    PROVE  /\ file' \in SessionStates /\ file' # NoFile
           /\ file.phase # "finished"
           /\ call.event \in {"finish", "expire", "abort"} => file'.phase = "finished"
           /\ call.event = "checkpoint_reverified" => file'.phase = "running"
           /\ call.event \in {"reverify_failed", "stuck_detected"} =>
                 file'.phase = "paused_for_human"
           /\ call.event = "take_control" => file'.phase = "human_active"
           /\ call.event = "hand_back" => file'.phase = "resuming"
<1>1. /\ Permitted(file, call) /\ file' = Advance(file, call)
      /\ file' \in SessionStates /\ file' # NoFile
      /\ file'.phase = TRANSITIONS[file.phase][call.event]
  BY AdvanceType, AdvanceExtends, NoFileAssumption DEF Moved
<1>2. file.phase \in Phases /\ call.event \in DOMAIN TRANSITIONS[file.phase]
  BY <1>1 DEF SessionStates, Permitted
<1>3. CASE file.phase = "running"
  BY <1>1, <1>2, <1>3 DEF TRANSITIONS
<1>4. CASE file.phase = "paused_for_human"
  BY <1>1, <1>2, <1>4 DEF TRANSITIONS
<1>5. CASE file.phase = "human_active"
  BY <1>1, <1>2, <1>5 DEF TRANSITIONS
<1>6. CASE file.phase = "resuming"
  BY <1>1, <1>2, <1>6 DEF TRANSITIONS
<1>7. CASE file.phase = "finished"
  BY <1>2, <1>7 DEF TRANSITIONS
<1>8. QED
  BY <1>2, <1>3, <1>4, <1>5, <1>6, <1>7 DEF Phases

\* With no failing write a quiet call lands exactly when it is permitted at the
\* version it names.
LEMMA QuietlyLands ==
    ASSUME faults' = 0, TypeOK, NEW call, NEW version, Quietly(call, version)
    PROVE  IF Accepted(call, version) THEN Moved(call) ELSE file' = file
<1>1. faults' # faults + 1
  BY FaultsAssumption DEF TypeOK
<1>2. QED
  BY <1>1 DEF Quietly, Accepted, Move, Moved

\* A write that failed is never undone.
LEMMA FaultsCount ==
    ASSUME TypeOK, [Next]_vars, faults' = 0
    PROVE  faults = 0
<1> USE DEF worldVars, vars
<1>1. faults \in Nat
  BY FaultsAssumption DEF TypeOK
<1>2. ASSUME NEW call, NEW version, Quietly(call, version) PROVE faults = 0
  BY <1>1, <1>2 DEF Quietly
<1>3. CASE Confirm \/ PauseSession \/ WindowGone \/ Expire \/ CloseSession
  BY <1>2, <1>3 DEF Confirm, PauseSession, WindowGone, Expire, CloseSession
<1>4. CASE (Engine \/ Channel \/ Closing \/ Interrupt \/ Kill)
           /\ ~(Confirm \/ PauseSession \/ WindowGone \/ Expire \/ CloseSession)
  BY <1>4 DEF Engine, ResolveTarget, GuardAction, Act, PollWait, LookFrom, StepPasses,
     Succeed, StopRun, AskForHuman, PollCheckpoint, PassNoDetectors, Verified, NotVerified,
     RecoveryNeedsHuman, Channel, CreateSession, ReadBeforePause, Poll, Wake, CollectLost,
     CollectEnded, CollectHandback, DeliverHandback, Closing, CheckFinished, Interrupt, Kill
<1>5. CASE People \/ Tick \/ UNCHANGED vars
  BY <1>5 DEF People, LookAlive, ReadSession, Command, CloseWindow, Tick
<1>6. QED
  BY <1>2, <1>3, <1>4, <1>5 DEF Next

\* A finished session stays finished.
LEMMA StaysFinished ==
    ASSUME TypeOK, FileStep, InPhases({"finished"})
    PROVE  file' = file /\ InPhases({"finished"})'
<1>1. file \in SessionStates /\ file # NoFile
  BY DEF TypeOK, InPhases
<1>2. file' = file
  BY <1>1, MovedPhases DEF FileStep, FileCall, InPhases
<1>3. QED
  BY <1>2 DEF InPhases

\* The run's own steps leave the file alone, and ask from a phase it may ask from.
LEMMA InStepBooks ==
    ASSUME Basics, InStep, lost' = lost,
           \/ Notes \/ Looks \/ Acts \/ Passes \/ Wins \/ Fails \/ Asks \/ AsksAgain
           \/ Delivers \/ HandsBack
    PROVE  InStep'
<1> USE DEF FlowPCs, VerifyPCs, PausePCs, Waiting, Over
<1>1. file' = file
  BY DEF Notes, Looks, Acts, Passes, Wins, Fails, Asks, AsksAgain, Delivers, HandsBack,
       VerificationFails, Opens, Stops, End, Books
<1>2. lost' => InPhases({"finished"})'
  BY <1>1 DEF InStep, InPhases
<1>3. CASE pc' = "ended"
  BY <1>2, <1>3 DEF InStep
<1>4. CASE Looks \/ Acts \/ Passes
  <2>1. \/ pc \in FlowPCs /\ pc' \in FlowPCs
        \/ pc \in VerifyPCs /\ pc' \in VerifyPCs
    BY <1>4 DEF Looks, Acts, Passes, Proceed
  <2>2. QED
    BY <1>1, <1>2, <2>1 DEF InStep, InPhases
<1>5. CASE Notes \/ HandsBack
  <2>1. pc' \in VerifyPCs \cup {"noting"} /\ InPhases({"resuming", "finished"})
    BY <1>5 DEF Notes, HandsBack, InStep, InPhases, Basics, Placed
  <2>2. QED
    BY <1>1, <1>2, <2>1 DEF InStep, InPhases
<1>6. CASE pc' = "opening" /\ Asks
  <2>1. pc \in FlowPCs /\ origin' = "flow"
    BY <1>6 DEF Asks, Opens, Stops
  <2>2. file = NoFile \/ InPhases({"running", "finished"})
    BY <2>1 DEF InStep
  <2>3. QED
    BY <1>1, <1>2, <1>6, <2>1, <2>2 DEF InStep, InPhases
<1>7. CASE pc' = "opening" /\ (AsksAgain \/ Delivers)
  <2>1. origin' # "flow" /\ pc \in {"rejudging", "collecting"}
    BY <1>7 DEF AsksAgain, Delivers, VerificationFails, Opens, Stops
  <2>2. InPhases({"resuming", "human_active", "finished"})
    BY <2>1 DEF InStep, InPhases, MovedOn, HumanHolds, InPhase
  <2>3. QED
    BY <1>1, <1>2, <1>7, <2>1, <2>2 DEF InStep, InPhases
<1>8. QED
  BY <1>3, <1>4, <1>5, <1>6, <1>7 DEF Wins, Fails, Asks, AsksAgain, Delivers,
     VerificationFails, Opens, Stops, End

\* The channel opens the pause and reads the file before asking for the session.
LEMMA InStepOpening ==
    ASSUME Basics, InStep, CreateSession \/ ReadBeforePause
    PROVE  InStep'
<1> USE DEF FlowPCs, VerifyPCs, PausePCs, Waiting, Over, channelVars, worldVars
<1>1. CASE CreateSession
  <2>1. /\ pc = "opening" /\ pc' = "opened" /\ origin' = origin /\ lost' = lost
        /\ file' = IF file = NoFile THEN Start ELSE file
    BY <1>1 DEF CreateSession
  <2>2. CASE file = NoFile
    <3>1. file' = Start /\ file' # NoFile /\ file'.phase = "running"
      BY <2>1, <2>2, StartType, NoFileAssumption DEF Start
    <3>2. origin = "flow" /\ ~lost
      BY <2>1, <2>2 DEF InStep, InPhases
    <3>3. QED
      BY <2>1, <3>1, <3>2 DEF InStep, InPhases
  <2>3. CASE file # NoFile
    BY <2>1, <2>3 DEF InStep, InPhases
  <2>4. QED
    BY <2>2, <2>3
<1>2. CASE ReadBeforePause
  <2>1. /\ pc = "opened" /\ pc' = "pausing" /\ origin' = origin /\ lost' = lost
        /\ file' = file /\ seen'.phase = file.phase /\ seen'.version = file.version
    BY <1>2 DEF ReadBeforePause
  <2>2. QED
    BY <2>1 DEF InStep, InPhases
<1>3. QED
  BY <1>1, <1>2

\* A running session is paused by it: nobody else moves one but to abort it.
LEMMA InStepPausing ==
    ASSUME faults' = 0, Basics, InStep, PauseSession
    PROVE  InStep'
<1> DEFINE event == IF seen.phase = "resuming" THEN "reverify_failed" ELSE "stuck_detected"
           call == AutomationCall(event, pauses)
<1>1. /\ pc = "pausing" /\ pc' = "polling" /\ lost' = lost
      /\ Quietly(call, seen.version)
  BY DEF PauseSession, channelVars
<1>2. /\ file # NoFile /\ file \in SessionStates /\ pauses \in Nat /\ pauses # 0
      /\ TypeOK
  BY <1>1, PausesAssumption DEF Basics, Placed, TypeOK, PausePCs, Waiting
<1>3. call \in Calls /\ call.event \in {"reverify_failed", "stuck_detected"}
  <2>1. event \in {"reverify_failed", "stuck_detected"}
    OBVIOUS
  <2> HIDE DEF event
  <2>2. call \in Calls
    BY <1>2, <2>1, CallTypes DEF Events
  <2>3. QED
    BY <2>1, <2>2 DEF AutomationCall
<1>4. ~InPhases({"running"})'
  <2>1. CASE Accepted(call, seen.version)
    <3>1. Moved(call)
      BY <1>1, <1>2, <2>1, QuietlyLands
    <3>2. QED
      BY <1>2, <1>3, <3>1, MovedPhases DEF InPhases
  <2>2. CASE ~Accepted(call, seen.version)
    <3>1. file' = file
      BY <1>1, <1>2, <2>2, QuietlyLands
    <3>2. ASSUME InPhases({"running"}) PROVE FALSE
      <4>1. seen.phase = "running" /\ seen.version = file.version /\ file.phase = "running"
        BY <1>1, <3>2 DEF InStep, InPhases
      <4>2. call = AutomationCall("stuck_detected", pauses)
        BY <4>1
      <4>3. Permitted(file, call)
        BY <1>2, <4>1, <4>2, AutomationPhases
      <4>4. QED
        BY <1>2, <2>2, <4>1, <4>3 DEF Accepted
    <3>3. QED
      BY <3>1, <3>2 DEF InPhases
  <2>3. QED
    BY <2>1, <2>2
<1>5. lost' => InPhases({"finished"})'
  <2>1. FileStep
    BY <1>1, <1>3, QuietlyMoves
  <2>2. QED
    BY <1>1, <1>2, <2>1, StaysFinished DEF InStep
<1> HIDE DEF call
<1>6. QED
  BY <1>1, <1>4, <1>5 DEF InStep, FlowPCs, VerifyPCs

\* Polling ends the wait only when somebody moved on, and a window that closes or a
\* wait that runs out finishes the session unless somebody did first.
LEMMA InStepWaiting ==
    ASSUME faults' = 0, Basics, Clocked, InStep,
           Poll \/ Wake \/ WindowGone \/ Expire
    PROVE  InStep'
<1> USE DEF FlowPCs, VerifyPCs
<1>1. /\ file # NoFile /\ file \in SessionStates /\ file.phase \in Phases /\ TypeOK
      /\ file.version = Len(History) /\ opened[pauses] <= Len(History)
      /\ pc \in {"polling", "sleeping", "expiring"} /\ ~InPhases({"running"})
  <2>1. pc \in {"polling", "sleeping", "expiring"}
    BY DEF Poll, Wake, WindowGone, Expire
  <2>2. file # NoFile /\ opened[pauses] <= Len(History)
    BY <2>1 DEF Basics, Placed, PausePCs, Waiting
  <2>3. file \in SessionStates /\ TypeOK
    BY <2>2 DEF Basics, TypeOK
  <2>4. QED
    BY <2>1, <2>2, <2>3 DEF Basics, FileSound, InStep, SessionStates
<1>2. CASE Poll
  <2>1. /\ UNCHANGED <<file, opened, pauses, lost, origin>>
        /\ seen'.phase = file.phase /\ seen'.version = file.version
        /\ pc' = IF file.phase \in {"resuming", "finished"} THEN "collecting" ELSE "sleeping"
    BY <1>2 DEF Poll, worldVars
  <2>2. lost' => InPhases({"finished"})'
    BY <2>1 DEF InStep, InPhases
  <2>3. CASE file.phase \in {"resuming", "finished"}
    <3>1. pc' = "collecting" /\ MovedOn'
      BY <1>1, <2>1, <2>3 DEF MovedOn, InPhases
    <3>2. QED
      BY <2>2, <3>1 DEF InStep
  <2>4. CASE file.phase \notin {"resuming", "finished"}
    <3>1. pc' = "sleeping" /\ file.phase \in {"paused_for_human", "human_active"}
      BY <1>1, <2>1, <2>4 DEF Phases, InPhases
    <3>2. opened'[pauses'] <= seen'.version /\ seen'.version = file'.version
      BY <1>1, <2>1
    <3>3. ~InPhases({"running"})'
      BY <1>1, <2>1 DEF InPhases
    <3>4. QED
      BY <2>1, <2>2, <3>1, <3>2, <3>3 DEF InStep
  <2>5. QED
    BY <2>3, <2>4
<1>3. CASE Wake
  <2>1. /\ UNCHANGED <<file, opened, pauses, lost, origin, seen>>
        /\ pc = "sleeping" /\ pc' \in {"polling", "expiring"}
    BY <1>3 DEF Wake, worldVars, channelVars
  <2>2. MovedOn' = MovedOn /\ ~InPhases({"running"})' /\ (lost' => InPhases({"finished"})')
    BY <1>1, <2>1 DEF MovedOn, InPhases, HumanHolds, InPhase, TakenSince, History, InStep
  <2>3. /\ seen'.phase \in {"paused_for_human", "human_active"}
        /\ opened'[pauses'] <= seen'.version
        /\ seen'.version = file'.version \/ MovedOn'
    BY <2>1, <2>2 DEF InStep
  <2>4. QED
    BY <2>1, <2>2, <2>3 DEF InStep
<1>4. CASE WindowGone
  <2>1. /\ Quietly(AutomationCall("finish", 0), AnyVersion) /\ pc' = "collecting"
        /\ UNCHANGED <<opened, pauses>>
    BY <1>4 DEF WindowGone
  <2>2. AutomationCall("finish", 0) \in Calls /\ AutomationCall("finish", 0).event = "finish"
    BY CallTypes DEF Events, AutomationCall
  <2>3. InPhases({"finished"})'
    <3>1. CASE file.phase = "finished"
      <4>1. FileStep
        BY <2>1, <2>2, QuietlyMoves
      <4>2. QED
        BY <1>1, <3>1, <4>1, StaysFinished DEF InPhases
    <3>2. CASE file.phase # "finished"
      <4>1. Accepted(AutomationCall("finish", 0), AnyVersion)
        BY <1>1, <3>2, AutomationPhases DEF Accepted
      <4>2. Moved(AutomationCall("finish", 0))
        BY <1>1, <2>1, <4>1, QuietlyLands
      <4>3. QED
        BY <1>1, <2>2, <4>2, MovedPhases DEF InPhases
    <3>3. QED
      BY <3>1, <3>2
  <2>4. MovedOn'
    BY <2>3 DEF MovedOn, InPhases
  <2>5. QED
    BY <2>1, <2>3, <2>4 DEF InStep
<1>5. CASE Expire
  <2>1. /\ Quietly(AutomationCall("expire", 0), seen.version) /\ pc' = "collecting"
        /\ pc = "expiring" /\ UNCHANGED <<opened, pauses, lost>>
    BY <1>5 DEF Expire, channelVars
  <2>2. AutomationCall("expire", 0) \in Calls /\ AutomationCall("expire", 0).event = "expire"
    BY CallTypes DEF Events, AutomationCall
  <2>3. lost' => InPhases({"finished"})'
    <3>1. FileStep
      BY <2>1, <2>2, QuietlyMoves
    <3>2. QED
      BY <1>1, <2>1, <3>1, StaysFinished DEF InStep
  <2>4. MovedOn'
    <3>1. CASE Accepted(AutomationCall("expire", 0), seen.version)
      <4>1. Moved(AutomationCall("expire", 0))
        BY <1>1, <2>1, <3>1, QuietlyLands
      <4>2. QED
        BY <1>1, <2>2, <4>1, MovedPhases DEF MovedOn, InPhases
    <3>2. CASE ~Accepted(AutomationCall("expire", 0), seen.version)
      <4>1. file' = file
        BY <1>1, <2>1, <3>2, QuietlyLands
      <4>2. seen.version # file.version
        <5>1. ASSUME seen.version = file.version PROVE FALSE
          <6>1. file.phase \in {"paused_for_human", "human_active"}
            BY <2>1, <5>1 DEF Clocked, InStep
          <6>2. QED
            BY <1>1, <3>2, <5>1, <6>1, AutomationPhases DEF Accepted
        <5>2. QED
          BY <5>1
      <4>3. MovedOn
        BY <2>1, <4>2 DEF InStep
      <4>4. QED
        BY <2>1, <4>1, <4>3 DEF MovedOn, InPhases, HumanHolds, InPhase, TakenSince, History
    <3>3. QED
      BY <3>1, <3>2
  <2>5. QED
    BY <2>1, <2>3, <2>4 DEF InStep
<1>6. QED
  BY <1>2, <1>3, <1>4, <1>5

\* A confirmed hand-back puts the session back to running, and the end of the run
\* finishes it.
LEMMA InStepCalls ==
    ASSUME faults' = 0, Basics, InStep, Confirm \/ CheckFinished \/ CloseSession \/ Kill
    PROVE  InStep'
<1> USE DEF FlowPCs, VerifyPCs
<1>1. TypeOK /\ (file # NoFile => file \in SessionStates /\ file.phase \in Phases)
  BY DEF Basics, TypeOK, SessionStates
<1>2. lost' = lost /\ FileStep
  <2>1. /\ AutomationCall("finish", 0) \in Calls
        /\ AutomationCall("checkpoint_reverified", 0) \in Calls
    BY CallTypes DEF Events
  <2>2. CASE Confirm
    BY <2>1, <2>2, QuietlyMoves DEF Confirm, channelVars
  <2>3. CASE CloseSession
    BY <2>1, <2>3, QuietlyMoves DEF CloseSession, channelVars
  <2>4. CASE CheckFinished \/ Kill
    BY <2>4, FileKept DEF CheckFinished, Kill, channelVars, worldVars
  <2>5. QED
    BY <2>2, <2>3, <2>4
<1>3. lost' => InPhases({"finished"})'
  BY <1>1, <1>2, StaysFinished DEF InStep
<1>4. CASE Confirm
  <2>1. /\ Quietly(AutomationCall("checkpoint_reverified", 0), AnyVersion)
        /\ pc = "confirming" /\ pc' \in {"before", "waiting"}
    BY <1>4 DEF Confirm, Proceed
  <2>2. InPhases({"resuming", "finished"}) /\ file # NoFile
    BY <2>1 DEF InStep, InPhases
  <2>3. InPhases({"running", "finished"})'
    <3>1. CASE file.phase = "finished"
      BY <1>1, <1>2, <2>2, <3>1, StaysFinished DEF InPhases
    <3>2. CASE file.phase = "resuming"
      <4>1. Accepted(AutomationCall("checkpoint_reverified", 0), AnyVersion)
        BY <1>1, <2>2, <3>2, AutomationPhases DEF Accepted
      <4>2. Moved(AutomationCall("checkpoint_reverified", 0))
        BY <1>1, <2>1, <4>1, QuietlyLands
      <4>3. /\ AutomationCall("checkpoint_reverified", 0) \in Calls
            /\ AutomationCall("checkpoint_reverified", 0).event = "checkpoint_reverified"
        BY CallTypes DEF Events, AutomationCall
      <4>4. QED
        BY <1>1, <2>2, <4>2, <4>3, MovedPhases DEF InPhases
    <3>3. QED
      BY <2>2, <3>1, <3>2 DEF InPhases
  <2>4. QED
    BY <1>3, <2>1, <2>3 DEF InStep
<1>5. CASE CheckFinished
  <2>1. pc' \in {"closed", "closing"} /\ file' = file /\ (pc' = "closed" => SessionOver)
    BY <1>5 DEF CheckFinished, worldVars
  <2>2. QED
    BY <1>3, <2>1 DEF InStep, InPhases, SessionOver
<1>6. CASE CloseSession
  <2>1. Quietly(AutomationCall("finish", 0), AnyVersion) /\ pc' = "closed"
    BY <1>6 DEF CloseSession
  <2>2. file' = NoFile \/ InPhases({"finished"})'
    <3>1. CASE file = NoFile
      <4>1. ~Accepted(AutomationCall("finish", 0), AnyVersion)
        BY <3>1 DEF Accepted
      <4>2. QED
        BY <1>1, <2>1, <3>1, <4>1, QuietlyLands
    <3>2. CASE file # NoFile /\ file.phase = "finished"
      BY <1>1, <1>2, <3>2, StaysFinished DEF InPhases
    <3>3. CASE file # NoFile /\ file.phase # "finished"
      <4>1. Accepted(AutomationCall("finish", 0), AnyVersion)
        BY <1>1, <3>3, AutomationPhases DEF Accepted
      <4>2. Moved(AutomationCall("finish", 0))
        BY <1>1, <2>1, <4>1, QuietlyLands
      <4>3. /\ AutomationCall("finish", 0) \in Calls
            /\ AutomationCall("finish", 0).event = "finish"
        BY CallTypes DEF Events, AutomationCall
      <4>4. QED
        BY <1>1, <3>3, <4>2, <4>3, MovedPhases DEF InPhases
    <3>4. QED
      BY <3>1, <3>2, <3>3
  <2>3. QED
    BY <1>3, <2>1, <2>2 DEF InStep
<1>7. CASE Kill
  BY <1>3, <1>7 DEF Kill, InStep
<1>8. QED
  BY <1>4, <1>5, <1>6, <1>7

\* An operator takes a paused session and hands back a held one, and either way, or by
\* an abort, has moved on from whatever the channel read.
LEMMA OperatorMovesOn ==
    ASSUME Basics, NEW call \in Calls, Moved(call),
           call.event \in {"take_control", "hand_back", "abort"},
           UNCHANGED <<opened, pauses>>
    PROVE  /\ file \in SessionStates /\ file' # NoFile
           /\ file.phase # "finished" /\ ~InPhases({"running"})'
           /\ file.phase = "running" => file'.phase = "finished"
           /\ file.phase = "resuming" => file'.phase = "finished"
           /\ file.phase = "human_active" => file'.phase \in {"resuming", "finished"}
           /\ pc \in PausePCs => MovedOn'
<1>1. TypeOK /\ file \in SessionStates /\ file # NoFile /\ file.phase \in Phases
  BY DEF Basics, TypeOK, Moved, SessionStates
<1>2. /\ file' \in SessionStates /\ file' # NoFile /\ file.phase # "finished"
      /\ call.event = "abort" => file'.phase = "finished"
      /\ call.event = "take_control" => file'.phase = "human_active"
      /\ call.event = "hand_back" => file'.phase = "resuming"
  BY <1>1, MovedPhases
<1>3. /\ call.event = "take_control" => file.phase = "paused_for_human"
      /\ call.event = "hand_back" => file.phase = "human_active"
  <2>1. call.event \in DOMAIN TRANSITIONS[file.phase]
    BY DEF Moved, Permitted
  <2>2. QED
    BY <1>1, <2>1 DEF TRANSITIONS, Phases
<1>4. ASSUME pc \in PausePCs, call.event = "take_control" PROVE TakenSince(opened[pauses])'
  <2>1. /\ History' = Append(History, Entry(file, call)) /\ Entry(file, call) \in TransitionRecord
        /\ History \in Seq(TransitionRecord)
    <3>1. file.history \in Seq(TransitionRecord) /\ Entry(file, call) \in TransitionRecord
          /\ file'.history = Append(file.history, Entry(file, call))
      BY <1>1, AdvanceExtends DEF Moved
    <3>2. QED
      BY <1>1, <1>2, <3>1 DEF History
  <2>2. opened[pauses] <= Len(History) /\ opened[pauses] \in Nat
    <3>1. opened \in Seq(Nat) /\ Len(opened) = pauses /\ pauses >= 1
      BY <1>4 DEF Basics, TypeOK, Placed
    <3>2. QED
      BY <1>4, <3>1, PausesAssumption DEF Basics, TypeOK, Placed
  <2> DEFINE n == Len(History) + 1
  <2>3. Len(History') = n /\ History'[n] = Entry(file, call)
    BY <2>1
  <2>4. History'[n].event = "take_control"
    BY <1>4, <2>3 DEF Entry
  <2>5. n \in opened'[pauses'] + 1..Len(History')
    BY <2>1, <2>2, <2>3
  <2> HIDE DEF n
  <2>6. QED
    BY <2>4, <2>5 DEF TakenSince
<1>5. pc \in PausePCs => MovedOn'
  BY <1>2, <1>4 DEF MovedOn, InPhases, HumanHolds, InPhase
<1>6. QED
  BY <1>1, <1>2, <1>3, <1>5 DEF InPhases

\* People move the session on, and only from where they may.
LEMMA InStepIdle ==
    ASSUME Basics, InStep, People \/ Tick \/ UNCHANGED vars
    PROVE  InStep'
<1>1. UNCHANGED <<pc, origin, opened, pauses, seen, lost>>
  BY DEF People, LookAlive, ReadSession, Command, CloseWindow, Tick, vars, engineVars, channelVars
<1>2. CASE file' = file
  BY <1>1, <1>2 DEF InStep, InPhases, MovedOn, HumanHolds, InPhase, TakenSince, History
<1>3. CASE \E o \in Operators : Command(o)
  <2>1. PICK o \in Operators : Command(o)
    BY <1>3
  <2> DEFINE call == OperatorCall(o, cli[o].verb)
  <2>2. CASE /\ call \in Calls /\ cli[o].verb \in {"take_control", "hand_back", "abort"}
             /\ Moved(call)
    <3>1. call.event \in {"take_control", "hand_back", "abort"}
      BY <2>2 DEF OperatorCall
    <3> HIDE DEF call
    <3>2. /\ file \in SessionStates /\ file' # NoFile
          /\ file.phase # "finished" /\ ~InPhases({"running"})'
          /\ file.phase = "running" => file'.phase = "finished"
          /\ file.phase = "resuming" => file'.phase = "finished"
          /\ file.phase = "human_active" => file'.phase \in {"resuming", "finished"}
          /\ pc \in PausePCs => MovedOn'
      BY <1>1, <2>2, <3>1, OperatorMovesOn
    <3>3. ~InPhases({"finished"}) /\ file # NoFile
      BY <2>2, <3>2 DEF InPhases, Moved
    <3>4. /\ pc \in FlowPCs => InPhases({"running", "finished"})'
          /\ pc \in VerifyPCs \cup {"noting"} => InPhases({"resuming", "finished"})'
          /\ pc \in {"opening", "opened", "pausing"} =>
                IF origin = "flow" THEN InPhases({"running", "finished"})'
                ELSE InPhases({"resuming", "human_active", "finished"})'
      BY <3>2, <3>3 DEF InStep, InPhases
    <3>5. /\ pc \in {"sleeping", "expiring"} =>
                /\ seen'.phase \in {"paused_for_human", "human_active"}
                /\ opened'[pauses'] <= seen'.version
                /\ MovedOn'
          /\ pc = "collecting" => MovedOn'
      BY <1>1, <3>2 DEF InStep, PausePCs, Waiting
    <3>6. ~lost /\ pc # "closed"
      BY <3>3 DEF InStep
    <3>7. QED
      BY <1>1, <3>2, <3>4, <3>5, <3>6 DEF InStep
  <2>3. CASE file' = file
    BY <1>2, <2>3
  <2>4. QED
    BY <2>1, <2>2, <2>3, CommandMoves
<1>4. QED
  BY <1>2, <1>3 DEF People, LookAlive, ReadSession, CloseWindow, Tick, vars, worldVars

\* No step takes the file out of step with the run.
LEMMA InStepStep ==
    ASSUME faults' = 0, Basics, Clocked, InStep, [Next]_vars
    PROVE  InStep'
<1> USE DEF log, engineVars, channelVars
<1>1. CASE \/ ResolveTarget \/ GuardAction \/ PollWait \/ PollCheckpoint
           \/ PassNoDetectors \/ Verified \/ Act \/ StepPasses \/ Succeed \/ StopRun
           \/ Interrupt
  <2>1. lost' = lost
    BY <1>1 DEF ResolveTarget, GuardAction, PollWait, PollCheckpoint, LookFrom,
         PassNoDetectors, Verified, Act, StepPasses, Succeed, StopRun, Interrupt
  <2>2. QED
    BY <1>1, <2>1, LookSteps, InStepBooks
<1>2. CASE AskForHuman \/ NotVerified \/ RecoveryNeedsHuman
  <2>1. lost' = lost
    BY <1>2 DEF AskForHuman, NotVerified, RecoveryNeedsHuman
  <2>2. QED
    BY <1>2, <2>1, AskSteps, InStepBooks
<1>3. CASE CollectLost \/ CollectEnded
  <2>1. lost' = lost
    BY <1>3 DEF CollectLost, CollectEnded
  <2>2. QED
    BY <1>3, <2>1, LostSteps, EndedSteps, InStepBooks
<1>4. CASE CollectHandback \/ DeliverHandback
  <2>1. lost' = lost
    BY <1>4 DEF CollectHandback, DeliverHandback
  <2>2. QED
    BY <1>4, <2>1, HandbackSteps, InStepBooks
<1>5. CASE CreateSession \/ ReadBeforePause
  BY <1>5, InStepOpening
<1>6. CASE PauseSession
  BY <1>6, InStepPausing
<1>7. CASE Poll \/ Wake \/ WindowGone \/ Expire
  BY <1>7, InStepWaiting
<1>8. CASE Confirm \/ CheckFinished \/ CloseSession \/ Kill
  BY <1>8, InStepCalls
<1>9. CASE People \/ Tick \/ UNCHANGED vars
  BY <1>9, InStepIdle
<1>10. QED
  BY <1>1, <1>2, <1>3, <1>4, <1>5, <1>6, <1>7, <1>8, <1>9 DEF Next, Engine, Channel, Closing

\* Until the run is over no record of an unanswered pause lies behind it, but in the
\* pause that follows one out of which nobody can answer any more.
LEMMA DoomedStep ==
    ASSUME Basics, InStep, Doomed, BookStep
    PROVE  Doomed'
<1> DEFINE Lost == \E i \in 1..Len(recoveries) : Unearned(recoveries[i])
<1>1. /\ recoveries \in Seq(RecordTypes) /\ TypeOK
      /\ pc \notin Over => result = NotEnded
      /\ pc \in (PausePCs \ {"opening"}) \cup VerifyPCs => file # NoFile
  BY DEF Basics, TypeOK, Placed
<1>2. ASSUME recoveries' = recoveries
      PROVE  Lost' = Lost
  BY <1>2
<1>3. CASE pc \in Over
  <2>1. pc' \in Over /\ recoveries' = recoveries /\ result' = result
    BY <1>3, OverStays
  <2>2. QED
    BY <2>1 DEF Doomed
<1>4. CASE pc \notin Over /\ Delivers
  <2>1. PICK r \in RecordTypes :
          /\ Unanswered(r)
          /\ \/ origin # "nested" /\ Stops(Append(recoveries, r))
             \/ origin = "nested" /\ VerificationFails(Append(recoveries, r))
    BY <1>4 DEF Delivers
  <2>2. CASE \E known : Stops(known)
    BY <2>2 DEF Stops, Doomed, Over
  <2>3. CASE /\ origin = "nested" /\ VerificationFails(Append(recoveries, r))
    <3>1. NestedPause /\ pc = "collecting"
      BY <1>4, <2>3 DEF Delivers, NestedPause, PausePCs
    <3>2. PICK s \in RecordTypes :
            /\ Honoured(s)
            /\ \/ Opens("post", Append(Append(recoveries, r), s))
               \/ Stops(Append(Append(recoveries, r), s))
      BY <2>3, <3>1, VerificationFailsIs
    <3>3. CASE Opens("post", Append(Append(recoveries, r), s))
      <4>1. /\ recoveries' = Append(Append(recoveries, r), s) /\ pc' = "opening"
            /\ result' = result /\ file' = file
        BY <3>3 DEF Opens
      <4>2. result'.status # "recovered_then_success" /\ pc' \in PausePCs \ {"noting"}
        BY <1>1, <1>4, <4>1 DEF NotEnded, PausePCs, Waiting
      <4>3. ASSUME NEW i \in 1..Len(recoveries'), Unearned(recoveries'[i])
            PROVE  InPhases({"finished"})
        <5>1. CASE i \in 1..Len(recoveries)
          <6>1. recoveries'[i] = recoveries[i]
            BY <1>1, <4>1, <5>1, RecordsExtend
          <6>2. QED
            BY <1>4, <4>3, <5>1, <6>1 DEF Doomed
        <5>2. CASE i \notin 1..Len(recoveries)
          <6>1. /\ Len(recoveries') = Len(recoveries) + 2 /\ Len(recoveries) \in Nat
                /\ recoveries'[Len(recoveries) + 1] = r
                /\ recoveries'[Len(recoveries) + 2] = s
            BY <1>1, <4>1
          <6>2. recoveries'[i] = r \/ recoveries'[i] = s
            BY <5>2, <6>1
          <6>3. ~Unearned(s)
            <7>1. s.operator_id \in Operators
              BY <3>1, <3>2, HandbackIs DEF Honoured
            <7>2. QED
              BY <3>2, <7>1, OperatorsAssumption DEF Honoured, Unearned
          <6>4. QED
            BY <2>1, <4>3, <6>2, <6>3 DEF Unanswered
        <5>3. QED
          BY <5>1, <5>2
      <4>4. (\E i \in 1..Len(recoveries') : Unearned(recoveries'[i])) => InPhases({"finished"})'
        BY <4>1, <4>3 DEF InPhases
      <4>5. QED
        BY <4>2, <4>4 DEF Doomed, Unearned
    <3>4. QED
      BY <2>2, <3>2, <3>3
  <2>4. QED
    BY <2>1, <2>2, <2>3
<1>5. CASE pc \in VerifyPCs
  <2>1. recoveries' = recoveries \/ \E r \in RecordTypes :
                                        Honoured(r) /\ recoveries' = Append(recoveries, r)
    BY <1>5, RecordSteps DEF RecordedNow, VerifyPCs
  <2>2. ~Lost
    BY <1>5 DEF Doomed, VerifyPCs, Over, PausePCs, Waiting
  <2>3. CASE recoveries' = recoveries
    BY <1>2, <2>2, <2>3 DEF Doomed, Unearned
  <2>4. CASE \E r \in RecordTypes : Honoured(r) /\ recoveries' = Append(recoveries, r)
    <3>1. PICK r \in RecordTypes : Honoured(r) /\ recoveries' = Append(recoveries, r)
      BY <2>4
    <3>2. ~Unearned(r)
      <4>1. r.operator_id \in Operators
        BY <1>5, <3>1, HandbackIs DEF Honoured
      <4>2. QED
        BY <3>1, <4>1, OperatorsAssumption DEF Honoured, Unearned
    <3>3. \A i \in 1..Len(recoveries') : recoveries'[i] = r \/ i \in 1..Len(recoveries)
      BY <1>1, <3>1, RecordsExtend
    <3>4. \A i \in 1..Len(recoveries) : recoveries'[i] = recoveries[i]
      BY <1>1, <3>1, RecordsExtend
    <3>5. \A i \in 1..Len(recoveries') : ~Unearned(recoveries'[i])
      BY <2>2, <3>2, <3>3, <3>4
    <3>6. QED
      BY <3>5 DEF Doomed, Unearned
  <2>5. QED
    BY <2>1, <2>3, <2>4
<1>6. CASE pc \notin Over /\ pc \notin VerifyPCs /\ ~Delivers
  <2>1. recoveries' = recoveries
    BY <1>6 DEF BookStep, Idles, WaitsOn, Notes, Looks, Acts, Passes, Wins, Fails, Closes,
       Asks, AsksAgain, HandsBack, Confirms, Opens, Stops, Books, VerifyPCs, End
  <2>2. CASE ~Lost
    BY <1>2, <2>1, <2>2 DEF Doomed, Unearned
  <2>3. CASE Lost
    <3>1. pc \in PausePCs \ {"noting"} /\ InPhases({"finished"})
      BY <1>6, <2>3 DEF Doomed
    <3>2. result'.status # "recovered_then_success"
      BY <1>1, <1>6, <3>1, ResultNow DEF NotEnded, Wins, PausePCs, Waiting
    <3>3. InPhases({"finished"})'
      BY <1>1, <3>1, BookFileStep, StaysFinished
    <3>4. pc' \in Over \cup (PausePCs \ {"noting"})
      BY <1>6, <3>1 DEF BookStep, Idles, WaitsOn, Notes, Looks, Acts, Passes, Wins, Fails,
         Closes, Asks, AsksAgain, HandsBack, Confirms, Opens, Stops, Books, PausePCs, Waiting,
         Over, End, InPhases
    <3>5. QED
      BY <3>2, <3>3, <3>4 DEF Doomed
  <2>4. QED
    BY <2>2, <2>3
<1>7. QED
  BY <1>3, <1>4, <1>5, <1>6

-----------------------------------------------------------------------------
(* What is promised for as long as every write of the session file has      *)
(* succeeded.  A failing one breaks both: a finish nobody could write leaves *)
(* the file as it was, and after an expiry nobody could write somebody can   *)
(* still come, and the run succeed past a pause recorded as expired.         *)

\* Until a write of it fails, the phase of session_state.json is in step with the
\* run, and a pause nobody answered leaves a run that can only end.
THEOREM UndisturbedInvariance == Spec => [](faults = 0 => Undisturbed)
<1>1. Init => (faults = 0 => Undisturbed)
  BY InitInv
<1>2. IInv /\ (faults = 0 => Undisturbed) /\ [Next]_vars => (faults = 0 => Undisturbed)'
  <2> SUFFICES ASSUME IInv, faults = 0 => Undisturbed, [Next]_vars, faults' = 0
               PROVE  Undisturbed'
    OBVIOUS
  <2>1. Basics /\ Clocked
    BY DEF IInv, Basics
  <2>2. InStep /\ Doomed
    BY <2>1, FaultsCount DEF Basics, Undisturbed
  <2>3. InStep'
    BY <2>1, <2>2, InStepStep
  <2>4. Doomed'
    BY <2>1, <2>2, BasicsStep, DoomedStep
  <2>5. QED
    BY <2>3, <2>4 DEF Undisturbed
<1>3. QED
  BY <1>1, <1>2, Invariance, PTL DEF Spec

\* Until a write fails: a plain success never had a session file, and any other had
\* every pause taken by somebody, none aborted, and the last one handed back.
THEOREM EarnedSuccess == Spec => [](faults = 0 => SuccessIsEarned)
<1>1. ASSUME IInv, Undisturbed PROVE SuccessIsEarned
  <2>1. result.status = "success" => file = NoFile
    BY <1>1 DEF IInv, Answered
  <2>2. ASSUME result.status = "recovered_then_success"
        PROVE  /\ recoveries[Len(recoveries)].outcome = "handed_back"
               /\ \A i \in 1..Len(recoveries) :
                     recoveries[i].outcome # "aborted" /\ recoveries[i].operator_id # NoOne
    BY <1>1, <2>2 DEF IInv, Answered, Undisturbed, Doomed, Unearned, Last
  <2>3. QED
    BY <2>1, <2>2 DEF SuccessIsEarned
<1>2. QED
  BY <1>1, Invariance, UndisturbedInvariance, PTL

\* Until a write fails: once the run has closed up, its session file does not claim a
\* live session.
THEOREM ClosedFinished == Spec => [](faults = 0 => ClosedMeansFinished)
<1>1. Undisturbed => ClosedMeansFinished
  BY DEF Undisturbed, InStep, InPhases, ClosedMeansFinished
<1>2. QED
  BY <1>1, UndisturbedInvariance, PTL

-----------------------------------------------------------------------------
(* Whose note a hand-back carries.                                          *)

\* Whoever lets go of the session took it in the entry before, and whoever holds
\* it is named by the last entry.
LetGo ==
    /\ \A i \in 1..Len(History) :
          /\ History[i].to_phase = "resuming" <=> History[i].event = "hand_back"
          /\ History[i].event = "hand_back" =>
                /\ i - 1 \in 1..Len(History)
                /\ History[i - 1].event = "take_control"
                /\ History[i - 1].operator_id = History[i].operator_id
    /\ HumanHolds => History[Len(History)].operator_id = file.operator_id

\* Operator o may be recorded as handing pause k back with this note.
NoteGiven(note, o, k) ==
    \E i \in During(k) :
        /\ History[i].event = note
        /\ \/ note = "hand_back" /\ History[i].operator_id = o
           \/ note = "abort"

\* The channel has seen the open pause handed back; only an abort came since.
HandBackSeen ==
    \E i \in opened[pauses] + 2..Len(History) :
        /\ History[i].event = "hand_back"
        /\ \A j \in i + 1..Len(History) : History[j].event = "abort"

Noted ==
    /\ LetGo
    /\ NotesAreOfTheirPause
    /\ pc = "noting" => HandBackSeen
    /\ pc \in VerifyPCs \/ NestedPause =>
          NoteGiven(handback.note, handback.operator_id, handback.intervention_id)

\* A step of the file keeps whoever lets go the one who took it.
LEMMA LetGoStep == ASSUME Basics, LetGo, FileStep PROVE LetGo'
<1>1. TypeOK /\ FileSound
  BY DEF Basics
<1>2. CASE file' = file /\ History' = History
  BY <1>2 DEF LetGo, HumanHolds, InPhase
<1>3. CASE file = NoFile /\ file' = Start /\ History = << >> /\ History' = << >>
  BY <1>3 DEF LetGo, HumanHolds, InPhase, Start
<1>4. CASE \E call \in Calls :
                /\ Moved(call)
                /\ file \in SessionStates /\ file' \in SessionStates
                /\ History' = Append(History, Entry(file, call))
                /\ Entry(file, call) \in TransitionRecord
  <2>1. PICK call \in Calls :
                /\ Moved(call)
                /\ file \in SessionStates /\ file' \in SessionStates
                /\ History' = Append(History, Entry(file, call))
                /\ Entry(file, call) \in TransitionRecord
    BY <1>4
  <2> DEFINE e == Entry(file, call)
             n == Len(History)
  <2>2. /\ n \in Nat /\ Len(History') = n + 1 /\ History'[n + 1] = e
        /\ \A i \in 1..n : History'[i] = History[i]
    BY <1>1, <2>1, HistoryType
  <2>3. /\ e.event = call.event /\ e.operator_id = call.operator_id
        /\ e.to_phase = TRANSITIONS[file.phase][call.event]
        /\ file # NoFile /\ file.phase \in Phases
        /\ Permitted(file, call)
    BY <2>1 DEF Entry, Moved, SessionStates
  <2>4. /\ e.to_phase = "resuming" <=> e.event = "hand_back"
        /\ e.event = "hand_back" => file.phase = "human_active"
        /\ e.to_phase = "human_active" => e.event = "take_control"
    <3>1. call.event \in DOMAIN TRANSITIONS[file.phase]
      BY <2>3 DEF Permitted
    <3>2. QED
      BY <2>3, <3>1 DEF TRANSITIONS, Phases
  <2>5. e.event = "hand_back" => e.operator_id = file.operator_id
    <3>1. e.event = "hand_back" => call.actor = "operator"
      BY <2>3 DEF Permitted, ALLOWED_ACTORS
    <3>2. QED
      BY <2>3, <2>4, <3>1 DEF Permitted, OwnsTheHold
  <2>6. file.phase = "human_active" =>
           n \in 1..n /\ History[n].event = "take_control" /\ History[n].operator_id = file.operator_id
    <3> SUFFICES ASSUME file.phase = "human_active"
                 PROVE  /\ n \in 1..n /\ History[n].event = "take_control"
                        /\ History[n].operator_id = file.operator_id
      OBVIOUS
    <3>1. PhaseAt(n) = "human_active"
      BY <1>1, <2>3 DEF FileSound
    <3>2. n # 0
      BY <3>1 DEF PhaseAt
    <3>3. n \in 1..n /\ History[n].to_phase = "human_active"
      BY <2>2, <3>1, <3>2 DEF PhaseAt
    <3>4. EntrySound(History[n])
      BY <1>1, <2>3, <3>3 DEF FileSound
    <3>5. HumanHolds
      BY <2>3 DEF HumanHolds, InPhase
    <3>6. QED
      BY <3>3, <3>4, <3>5 DEF EntrySound, LetGo
  <2>7. HumanHolds' => e.operator_id = file'.operator_id
    <3>1. file' = Advance(file, call)
      BY <2>1 DEF Moved
    <3>2. file'.phase = TRANSITIONS[file.phase][call.event]
          /\ file'.operator_id = NextOperator(file, call, TRANSITIONS[file.phase][call.event])
      BY <3>1 DEF Advance
    <3>3. QED
      BY <2>3, <2>4, <3>2 DEF HumanHolds, InPhase, NextOperator
  <2> HIDE DEF e, n
  <2>8. \A i \in 1..n + 1 :
          /\ History'[i].to_phase = "resuming" <=> History'[i].event = "hand_back"
          /\ History'[i].event = "hand_back" =>
                /\ i - 1 \in 1..n + 1
                /\ History'[i - 1].event = "take_control"
                /\ History'[i - 1].operator_id = History'[i].operator_id
    <3> SUFFICES ASSUME NEW i \in 1..n + 1
                 PROVE  /\ History'[i].to_phase = "resuming" <=> History'[i].event = "hand_back"
                        /\ History'[i].event = "hand_back" =>
                              /\ i - 1 \in 1..n + 1
                              /\ History'[i - 1].event = "take_control"
                              /\ History'[i - 1].operator_id = History'[i].operator_id
      OBVIOUS
    <3>1. CASE i = n + 1
      <4>1. i - 1 = n
        BY <2>2, <3>1
      <4>2. e.event = "hand_back" => n \in 1..n + 1 /\ History'[n] = History[n]
        BY <2>2, <2>4, <2>6
      <4>3. QED
        BY <2>2, <2>4, <2>5, <2>6, <3>1, <4>1, <4>2
    <3>2. CASE i \in 1..n
      <4>1. /\ History[i].to_phase = "resuming" <=> History[i].event = "hand_back"
            /\ History[i].event = "hand_back" =>
                  /\ i - 1 \in 1..n
                  /\ History[i - 1].event = "take_control"
                  /\ History[i - 1].operator_id = History[i].operator_id
        BY <3>2 DEF LetGo, n
      <4>2. i - 1 \in 1..n => i - 1 \in 1..n + 1
        BY <2>2
      <4>3. QED
        BY <2>2, <3>2, <4>1, <4>2
    <3>3. QED
      BY <2>2, <3>1, <3>2
  <2>9. QED
    BY <2>2, <2>7, <2>8 DEF LetGo
<1>5. QED
  BY <1>1, <1>2, <1>3, <1>4, FileMoves

\* The newest take since a version is whom the channel names.
LEMMA TakerIs ==
    ASSUME TypeOK, file # NoFile, NEW since \in Nat, NEW k \in since + 1..Len(History),
           History[k].event = "take_control",
           \A j \in k + 1..Len(History) : History[j].event # "take_control"
    PROVE  Taker(file.history, since) = History[k].operator_id
<1> DEFINE takes == {i \in since + 1..Len(History) : History[i].event = "take_control"}
<1>1. History = file.history /\ Len(History) \in Nat
  BY HistoryType
<1>2. k \in takes
  OBVIOUS
<1>3. \A j \in takes : j <= k
  BY <1>1
<1>4. (CHOOSE i \in takes : \A j \in takes : j <= i) = k
  <2>1. \A i \in takes : (\A j \in takes : j <= i) => i = k
    BY <1>1, <1>2, <1>3
  <2>2. \E i \in takes : \A j \in takes : j <= i
    BY <1>2, <1>3
  <2> HIDE DEF takes
  <2>3. QED
    BY <2>1, <2>2
<1>5. Taker(file.history, since) =
         IF takes = {} THEN NoOne
         ELSE History[CHOOSE i \in takes : \A j \in takes : j <= i].operator_id
  BY <1>1 DEF Taker
<1> HIDE DEF takes
<1>6. QED
  BY <1>2, <1>4, <1>5

\* What was given stays given.
LEMMA GivenKept ==
    ASSUME Basics, BookStep, NEW note, NEW o, NEW k \in 1..pauses, NoteGiven(note, o, k)
    PROVE  \E i \in During(k)' :
              /\ History'[i].event = note
              /\ \/ note = "hand_back" /\ History'[i].operator_id = o
                 \/ note = "abort"
<1>1. PICK i \in During(k) :
        /\ History[i].event = note
        /\ \/ note = "hand_back" /\ History[i].operator_id = o
           \/ note = "abort"
  BY DEF NoteGiven
<1>2. i \in During(k)' /\ History'[i] = History[i]
  BY <1>1, DuringKept
<1>3. QED
  BY <1>1, <1>2

\* While the note is still to be read, only people move.
LEMMA NotingSteps ==
    ASSUME [Next]_vars, pc = "noting", pc' = "noting"
    PROVE  People \/ UNCHANGED vars
<1>1. ~Engine
  BY DEF Engine, ResolveTarget, GuardAction, Act, PollWait, StepPasses, Succeed, StopRun,
     AskForHuman, PollCheckpoint, PassNoDetectors, Verified, NotVerified,
     RecoveryNeedsHuman, Confirm, LookFrom
<1>2. ~Channel
  BY DEF Channel, CreateSession, ReadBeforePause, PauseSession, Poll, Wake, WindowGone,
     Expire, CollectLost, CollectEnded, CollectHandback, DeliverHandback, Crash, End
<1>3. ~Closing /\ ~Interrupt /\ ~Kill /\ ~Tick
  BY DEF Closing, CheckFinished, CloseSession, Interrupt, Kill, Tick, Waiting, Crash, End
<1>4. QED
  BY <1>1, <1>2, <1>3 DEF Next

\* A hand-back that the channel has seen stays the last word but for an abort.
LEMMA SeenKept ==
    ASSUME Basics, LetGo, HandBackSeen, pc = "noting", pc' = "noting", [Next]_vars
    PROVE  HandBackSeen'
<1>1. TypeOK /\ FileSound /\ file # NoFile /\ opened[pauses] \in Nat /\ Len(History) \in Nat
  <2>1. pc \in PausePCs \ {"opening"}
    BY DEF PausePCs, Waiting
  <2>2. QED
    BY <2>1, TakerSaw, HistoryType DEF Basics
<1>2. PICK i \in opened[pauses] + 2..Len(History) :
        /\ History[i].event = "hand_back"
        /\ \A j \in i + 1..Len(History) : History[j].event = "abort"
  BY DEF HandBackSeen
<1>3. \/ UNCHANGED <<file, opened, pauses>>
      \/ /\ UNCHANGED <<opened, pauses>>
         /\ \E o \in Operators : Command(o)
  <2>1. CASE UNCHANGED vars
    BY <2>1 DEF vars, worldVars, engineVars, channelVars
  <2>2. CASE People
    BY <2>2 DEF People, engineVars, channelVars, LookAlive, ReadSession, CloseWindow, Command
  <2>3. QED
    BY <2>1, <2>2, NotingSteps
<1>4. CASE UNCHANGED <<file, opened, pauses>>
  BY <1>2, <1>4 DEF HandBackSeen, History
<1>5. CASE UNCHANGED <<opened, pauses>> /\ \E o \in Operators : Command(o)
  <2>1. PICK o \in Operators : Command(o)
    BY <1>5
  <2>2. CASE file' = file
    BY <1>4, <1>5, <2>2
  <2>3. CASE /\ OperatorCall(o, cli[o].verb) \in Calls
             /\ cli[o].verb \in {"take_control", "hand_back", "abort"}
             /\ Moved(OperatorCall(o, cli[o].verb))
    <3>1. PICK call \in Calls :
            call.event \in {"take_control", "hand_back", "abort"} /\ Moved(call)
      BY <2>3 DEF OperatorCall
    <3>2. file.phase = "resuming" \/ file.phase = "finished"
      <4>1. CASE i = Len(History)
        <5>1. History[i].to_phase = "resuming" /\ Len(History) # 0
          BY <1>1, <1>2, <4>1 DEF LetGo
        <5>2. QED
          BY <1>1, <4>1, <5>1 DEF FileSound, PhaseAt
      <4>2. CASE i # Len(History)
        <5>1. Len(History) \in i + 1..Len(History) /\ Len(History) \in 1..Len(History)
          BY <1>1, <1>2, <4>2
        <5>2. History[Len(History)].event = "abort" /\ EntrySound(History[Len(History)])
          BY <1>1, <1>2, <5>1 DEF FileSound
        <5>3. QED
          BY <1>1, <5>1, <5>2 DEF EntrySound, FileSound, PhaseAt
      <4>3. QED
        BY <4>1, <4>2
    <3>3. file'.phase = "finished" /\ file \in SessionStates
      BY <1>5, <3>1, <3>2, OperatorMovesOn
    <3>4. call.event = "abort"
      BY <3>1, <3>3, MovedPhases
    <3>5. /\ Len(History') = Len(History) + 1
          /\ History'[Len(History) + 1].event = "abort"
          /\ \A j \in 1..Len(History) : History'[j] = History[j]
      <4>1. /\ file.history \in Seq(TransitionRecord) /\ Entry(file, call) \in TransitionRecord
            /\ file'.history = Append(file.history, Entry(file, call)) /\ file' # NoFile
        BY <1>5, <3>1, <3>3, AdvanceExtends, OperatorMovesOn DEF Moved, SessionStates
      <4>2. History' = Append(History, Entry(file, call)) /\ History \in Seq(TransitionRecord)
        BY <1>1, <4>1 DEF History
      <4>3. Entry(file, call).event = "abort"
        BY <3>4 DEF Entry
      <4>4. QED
        BY <4>1, <4>2, <4>3
    <3>6. i \in opened'[pauses'] + 2..Len(History') /\ History'[i].event = "hand_back"
      BY <1>1, <1>2, <1>5, <3>5
    <3>7. \A j \in i + 1..Len(History') : History'[j].event = "abort"
      BY <1>1, <1>2, <3>5
    <3>8. QED
      BY <3>6, <3>7 DEF HandBackSeen
  <2>4. QED
    BY <2>1, <2>2, <2>3, CommandMoves
<1>6. QED
  BY <1>3, <1>4, <1>5

\* A note read by now is the hand-back's own or that of the abort that came since.
LEMMA DeliveredNote ==
    ASSUME Basics, LetGo, HandBackSeen, DeliverHandback, origin # "nested"
    PROVE  NoteGiven(handback'.note, handback'.operator_id, pauses)
<1> DEFINE since == opened[pauses]
           n == Len(History)
<1>1. pc \in PausePCs \ {"opening"} /\ pc = "noting"
  BY DEF DeliverHandback, PausePCs
<1>2. /\ TypeOK /\ FileSound /\ file # NoFile /\ History = file.history
      /\ since \in Nat /\ Len(opened) = pauses /\ n \in Nat
  BY <1>1, TakerSaw, HistoryType DEF Basics
<1>3. handback'.note = NoteOf(file.history) /\ handback'.operator_id = Taker(file.history, since)
  BY DEF DeliverHandback
<1>4. PICK i \in since + 2..n :
        /\ History[i].event = "hand_back"
        /\ \A j \in i + 1..n : History[j].event = "abort"
  BY DEF HandBackSeen
<1> HIDE DEF since, n
<1>5. /\ i \in 1..n /\ i - 1 \in since + 1..n
      /\ \A j \in i..n : j = i \/ j \in i + 1..n
      /\ n = i \/ n \in i + 1..n
      /\ \A j \in (i - 1) + 1..n : j \in i..n
  BY <1>2, <1>4
<1>6. History[i - 1].event = "take_control" /\ History[i - 1].operator_id = History[i].operator_id
  BY <1>4, <1>5 DEF LetGo, n
<1>7. \A j \in (i - 1) + 1..n : History[j].event # "take_control"
  BY <1>4, <1>5
<1>8. Taker(file.history, since) = History[i].operator_id
  BY <1>2, <1>5, <1>6, <1>7, TakerIs DEF n
<1>9. n \in During(pauses) /\ i \in During(pauses)
  BY <1>2, <1>4 DEF During, since, n
<1>10. NoteOf(file.history) = History[n].event
  BY <1>2 DEF NoteOf, Last, n
<1>11. QED
  BY <1>3, <1>4, <1>5, <1>8, <1>9, <1>10 DEF NoteGiven

\* The one hand-back the channel takes is the last thing that happened.
LEMMA SeesHandBack ==
    ASSUME Basics, LetGo, Notes
    PROVE  HandBackSeen'
<1> DEFINE since == opened[pauses]
           n == Len(History)
<1>1. pc \in PausePCs \ {"opening"}
  BY DEF Notes, PausePCs
<1>2. /\ FileSound /\ file # NoFile /\ since \in Nat /\ n \in Nat
  BY <1>1, TakerSaw, HistoryType DEF Basics
<1>3. PICK t \in since + 1..n : History[t].event = "take_control"
  BY DEF Notes, TakenSince
<1>4. n \in 1..n /\ PhaseAt(n) = "resuming"
  BY <1>2, <1>3 DEF Notes, FileSound
<1>5. History[n].event = "hand_back"
  BY <1>2, <1>4 DEF LetGo, PhaseAt
<1>6. n \in since + 2..n
  <2>1. t # n
    BY <1>3, <1>5
  <2>2. QED
    BY <1>2, <1>3, <2>1
<1>7. UNCHANGED <<opened, pauses, file>> /\ History' = History
  BY DEF Notes, Books, History
<1>8. \A j \in n + 1..n : FALSE
  BY <1>2
<1>9. QED
  BY <1>5, <1>6, <1>7, <1>8 DEF HandBackSeen

\* The channel hands back in one way only.
LEMMA HandsBackIs == ASSUME [Next]_vars, HandsBack PROVE DeliverHandback
<1>1. pc = "noting" /\ pc' = "verifying"
  BY DEF HandsBack
<1>2. ~Engine
  BY <1>1 DEF Engine, ResolveTarget, GuardAction, Act, PollWait, StepPasses, Succeed,
     StopRun, AskForHuman, PollCheckpoint, PassNoDetectors, Verified, NotVerified,
     RecoveryNeedsHuman, Confirm, LookFrom
<1>3. Channel => DeliverHandback
  BY <1>1 DEF Channel, CreateSession, ReadBeforePause, PauseSession, Poll, Wake, WindowGone,
     Expire, CollectLost, CollectEnded, CollectHandback
<1>4. ~Closing /\ ~Interrupt /\ ~Kill /\ ~Tick
  BY <1>1 DEF Closing, CheckFinished, CloseSession, Interrupt, Kill, Tick, Waiting, Crash, End
<1>5. ~People /\ ~UNCHANGED vars
  BY <1>1 DEF People, LookAlive, ReadSession, Command, CloseWindow, vars, engineVars
<1>6. QED
  BY <1>2, <1>3, <1>4, <1>5 DEF Next

\* The note is about to be read once the channel has seen the hand-back.
LEMMA NotingNow ==
    ASSUME BookStep, pc' = "noting"
    PROVE  pc = "noting" \/ Notes
BY DEF BookStep, Idles, WaitsOn, Looks, Acts, Passes, Wins, Fails, Closes, Asks,
   AsksAgain, VerificationFails, Delivers, HandsBack, Confirms, Opens, Stops, FlowPCs,
   VerifyPCs, Over, Proceed, Crash, End

\* Nothing is noted to begin with.
LEMMA NotedInit == Init => Noted
<1> SUFFICES ASSUME Init PROVE Noted
  OBVIOUS
<1>1. History = << >> /\ recoveries = << >> /\ pc = "before" /\ file = NoFile
  BY DEF Init, History
<1>2. QED
  BY <1>1 DEF Noted, LetGo, NotesAreOfTheirPause, HumanHolds, InPhase, VerifyPCs, NestedPause,
     PausePCs, Waiting

\* Whatever a step records of a hand-back carries a note of its own pause.
LEMMA NotedStep ==
    ASSUME IInv, Noted, [Next]_vars
    PROVE  Noted'
<1>1. Basics /\ BookStep /\ FileStep /\ Recorded
  BY BasicsStep DEF IInv, Basics
<1>2. LetGo'
  BY <1>1, LetGoStep DEF Noted
<1>3. /\ recoveries \in Seq(RecordTypes) /\ pauses \in Nat
      /\ \A i \in 1..Len(recoveries) :
            recoveries[i] \in RecordTypes /\ recoveries[i].intervention_id \in 1..pauses
  BY <1>1, PausesAssumption, ElementOf DEF Basics, TypeOK, Recorded
<1>4. \A i \in 1..Len(recoveries) :
        recoveries[i].outcome = "handed_back" =>
            NoteGiven(recoveries[i].note, recoveries[i].operator_id, recoveries[i].intervention_id)
  BY DEF Noted, NotesAreOfTheirPause, NoteGiven
<1>5. ASSUME NEW r, Honoured(r), pc \in VerifyPCs \/ NestedPause
      PROVE  /\ r.intervention_id \in 1..pauses
             /\ NoteGiven(r.note, r.operator_id, r.intervention_id)
  BY <1>1, <1>5, HandbackIs DEF Honoured, Noted
\* Each hand-back of the longer list is an old one or the one just recorded.
<1>6. ASSUME NEW i \in 1..Len(recoveries'), recoveries'[i].outcome = "handed_back"
      PROVE  /\ recoveries'[i].intervention_id \in 1..pauses
             /\ NoteGiven(recoveries'[i].note, recoveries'[i].operator_id,
                          recoveries'[i].intervention_id)
  <2> DEFINE r == recoveries'[i]
  <2>1. CASE i \in 1..Len(recoveries)
    <3>1. r = recoveries[i]
      BY <1>1, <2>1, RecordSteps DEF RecordsGrow
    <3> HIDE DEF r
    <3>2. r.outcome = "handed_back"
      BY <1>6 DEF r
    <3>3. r.intervention_id \in 1..pauses /\ NoteGiven(r.note, r.operator_id, r.intervention_id)
      BY <1>3, <1>4, <2>1, <3>1, <3>2
    <3>4. QED
      BY <3>3 DEF r
  <2>2. CASE i \notin 1..Len(recoveries)
    <3>1. Honoured(r) /\ (pc \in VerifyPCs \/ NestedPause)
      <4>1. CASE recoveries' = recoveries
        BY <2>2, <4>1
      <4>2. CASE /\ pc \in {"rejudging", "confirming"}
                 /\ \E s \in RecordTypes : Honoured(s) /\ recoveries' = Append(recoveries, s)
        <5>1. PICK s \in RecordTypes : Honoured(s) /\ recoveries' = Append(recoveries, s)
          BY <4>2
        <5>2. r = s
          BY <1>3, <2>2, <5>1, RecordsExtend
        <5>3. QED
          BY <4>2, <5>1, <5>2 DEF VerifyPCs
      <4>3. CASE /\ pc = "collecting"
                 /\ \E s \in RecordTypes : Unanswered(s) /\ recoveries' = Append(recoveries, s)
        <5>1. PICK s \in RecordTypes : Unanswered(s) /\ recoveries' = Append(recoveries, s)
          BY <4>3
        <5>2. r = s
          BY <1>3, <2>2, <5>1, RecordsExtend
        <5>3. QED
          BY <1>6, <5>1, <5>2 DEF Unanswered
      <4>4. CASE /\ pc = "collecting" /\ origin = "nested"
                 /\ \E s \in RecordTypes : \E t \in RecordTypes :
                       /\ Unanswered(s) /\ Honoured(t)
                       /\ recoveries' = Append(Append(recoveries, s), t)
        <5>1. PICK s \in RecordTypes, t \in RecordTypes :
                       /\ Unanswered(s) /\ Honoured(t)
                       /\ recoveries' = Append(Append(recoveries, s), t)
          BY <4>4
        <5>2. /\ Len(recoveries') = Len(recoveries) + 2 /\ Len(recoveries) \in Nat
              /\ recoveries'[Len(recoveries) + 2] = t
          BY <1>3, <5>1, RecordsExtend
        <5>3. recoveries'[Len(recoveries) + 1] = s
          BY <1>3, <5>1
        <5>4. r = s \/ r = t
          <6>1. i = Len(recoveries) + 1 \/ i = Len(recoveries) + 2
            BY <2>2, <5>2
          <6>2. QED
            BY <5>2, <5>3, <6>1
        <5>5. r = t
          BY <1>6, <5>1, <5>4 DEF Unanswered
        <5>6. QED
          BY <4>4, <5>1, <5>5 DEF NestedPause, PausePCs
      <4>5. QED
        BY <1>1, <4>1, <4>2, <4>3, <4>4, RecordSteps DEF RecordedNow
    <3> HIDE DEF r
    <3>2. r.intervention_id \in 1..pauses /\ NoteGiven(r.note, r.operator_id, r.intervention_id)
      BY <1>5, <3>1
    <3>3. QED
      BY <3>2 DEF r
  <2>3. QED
    BY <2>1, <2>2
<1>7. NotesAreOfTheirPause'
  <2> SUFFICES ASSUME NEW i \in 1..Len(recoveries'), NEW r, r = recoveries'[i],
                      r.outcome = "handed_back"
               PROVE  \E j \in During(r.intervention_id)' :
                         /\ History'[j].event = r.note
                         /\ \/ r.note = "hand_back" /\ History'[j].operator_id = r.operator_id
                            \/ r.note = "abort"
    BY DEF NotesAreOfTheirPause, During
  <2>1. r.intervention_id \in 1..pauses /\ NoteGiven(r.note, r.operator_id, r.intervention_id)
    BY <1>6
  <2>2. QED
    BY <1>1, <2>1, GivenKept
<1>8. pc' = "noting" => HandBackSeen'
  BY <1>1, NotingNow, SeenKept, SeesHandBack DEF Noted
<1>9. pc' \in VerifyPCs \/ NestedPause' =>
         NoteGiven(handback.note, handback.operator_id, handback.intervention_id)'
  <2> SUFFICES ASSUME pc' \in VerifyPCs \/ NestedPause', NEW h, h = handback'
               PROVE  NoteGiven(handback.note, handback.operator_id, handback.intervention_id)'
    OBVIOUS
  <2>1. h.intervention_id \in 1..pauses /\ NoteGiven(h.note, h.operator_id, h.intervention_id)
    <3>1. CASE handback' = handback /\ (pc \in VerifyPCs \/ NestedPause)
      BY <1>1, <3>1, HandbackIs DEF Noted
    <3>2. CASE HandsBack
      <4>1. h.intervention_id = pauses /\ pauses \in 1..pauses
        BY <1>1, <1>3, <3>2 DEF HandsBack, Basics, Placed, PausePCs
      <4>2. NoteGiven(h.note, h.operator_id, pauses)
        BY <1>1, <3>2, HandsBackIs, DeliveredNote DEF Noted, HandsBack
      <4>3. QED
        BY <4>1, <4>2
    <3>3. QED
      BY <1>1, <3>1, <3>2, HandbackKept
  <2>2. \E i \in During(h.intervention_id)' :
          /\ History'[i].event = h.note
          /\ \/ h.note = "hand_back" /\ History'[i].operator_id = h.operator_id
             \/ h.note = "abort"
    BY <1>1, <2>1, GivenKept
  <2>3. QED
    BY <2>2 DEF NoteGiven, During
<1>10. QED
  BY <1>2, <1>7, <1>8, <1>9 DEF Noted

\* A hand-back is recorded with the note of its own pause, given by whoever the
\* record names or by somebody who has aborted the run since, whichever writes of
\* the session file fail.
THEOREM NotesOfTheirPause == Spec => []NotesAreOfTheirPause
<1>1. IInv /\ Noted /\ [Next]_vars => Noted'
  BY NotedStep
<1>2. Noted => NotesAreOfTheirPause
  BY DEF Noted
<1>3. QED
  BY <1>1, <1>2, NotedInit, Invariance, PTL DEF Spec

-----------------------------------------------------------------------------
(* That a run comes closer to its end.                                      *)

\* What moves the run to a later place and opens no pause.
Nearer == pauses' = pauses /\ at' = at /\ Ahead[pc'] < Ahead[pc]

\* What leaves it where it is.
StandsStill ==
    /\ UNCHANGED <<pc, at, pauses, holding>>
    /\ left' <= left

\* Either will do.
LEMMA NearerIs ==
    ASSUME Basics, Nearer \/ StandsStill
    PROVE  ComesCloser
BY DEF Nearer, StandsStill, ComesCloser

\* Asking for a human uses up a pause, or ends the run.
LEMMA EscalateCloser ==
    ASSUME Basics, pc \in PCs \ Over, NEW from, NEW code, NEW known,
           Escalate(from, code, known), at' = at
    PROVE  ComesCloser
<1>1. pauses \in Nat
  BY PausesAssumption DEF Basics, TypeOK
<1>2. CASE MayPause
  BY <1>1, <1>2 DEF Escalate, ComesCloser
<1>3. CASE ~MayPause
  <2>1. pauses' = pauses /\ pc' = "ended"
    BY <1>3 DEF Escalate, End
  <2>2. Ahead["ended"] < Ahead[pc]
    BY DEF Ahead, PCs, Over, Waiting
  <2>3. QED
    BY <2>1, <2>2, NearerIs DEF Nearer
<1>4. QED
  BY <1>2, <1>3

\* Going on uses up a step of the flow or, at the last one, what was before it.
LEMMA ProceedCloser ==
    ASSUME Basics, pc \in {"judging", "confirming"}, Proceed, pauses' = pauses,
           pc = "judging" => at # SuccessCheck
    PROVE  ComesCloser
<1>1. at \in Nat /\ Steps \in Nat /\ SuccessCheck = Steps + 1 /\ at <= SuccessCheck
  BY StepsAssumption DEF Basics, TypeOK, SuccessCheck
<1>2. CASE at = SuccessCheck
  <2>1. at' = at /\ pc = "confirming" /\ pc' = "waiting"
    BY <1>1, <1>2 DEF Proceed
  <2>2. QED
    BY <2>1, NearerIs DEF Nearer, Ahead
<1>3. CASE at # SuccessCheck
  BY <1>1, <1>3 DEF Proceed, ComesCloser
<1>4. QED
  BY <1>2, <1>3

\* A failed re-verification asks again.
LEMMA VerificationCloser ==
    ASSUME Basics, pc \in PCs \ Over, NEW known, FailVerification(known), at' = at
    PROVE  ComesCloser
<1> DEFINE all == Append(known, HandedBackRecord(FALSE))
           code == "POST_HANDOFF_CHECKPOINT_FAILED"
<1>1. Escalate("post", code, all)
  BY DEF FailVerification
<1> HIDE DEF all, code
<1>2. QED
  BY <1>1, EscalateCloser

\* Whatever has happened, the run's process ends it.
LEMMA CrashCloser ==
    ASSUME Basics, pc \in PCs \ Over, pc' = "ended", UNCHANGED <<at, pauses>>
    PROVE  ComesCloser
<1>1. Ahead["ended"] < Ahead[pc]
  BY DEF Ahead, PCs, Over, Waiting
<1>2. QED
  BY <1>1, NearerIs DEF Nearer

\* The engine's steps, the channel's, and everybody else's.
LEMMA EngineCloser == ASSUME Basics, Engine PROVE ComesCloser
<1> USE DEF PCs, Over, Waiting
<1>1. CASE ResolveTarget \/ PollWait \/ GuardAction \/ PollCheckpoint
  <2>1. CASE pc' = "ended"
    <3>1. UNCHANGED <<at, pauses>> /\ pc \in {"before", "waiting", "deciding", "verifying"}
      BY <1>1 DEF ResolveTarget, PollWait, GuardAction, PollCheckpoint, LookFrom
    <3>2. QED
      BY <2>1, <3>1, CrashCloser
  <2>2. CASE pc' # "ended"
    <3>1. Nearer
      BY <1>1, <2>2 DEF ResolveTarget, PollWait, GuardAction, PollCheckpoint, LookFrom,
         Crash, LoseControl, End, Nearer, Ahead
    <3>2. QED
      BY <3>1, NearerIs
  <2>3. QED
    BY <2>1, <2>2
<1>2. CASE Act \/ Succeed \/ StopRun \/ PassNoDetectors \/ Verified
  <2>1. Nearer
    BY <1>2 DEF Act, Succeed, StopRun, PassNoDetectors, Verified, Crash, End, Nearer, Ahead
  <2>2. QED
    BY <2>1, NearerIs
<1>3. CASE StepPasses \/ Confirm
  BY <1>3, ProceedCloser DEF StepPasses, Confirm
<1>4. CASE AskForHuman
  <2> DEFINE code == "STEP_FAILED"  from == "flow"
  <2>1. Escalate(from, code, recoveries) /\ at' = at /\ pc \in {"deciding", "judging"}
    BY <1>4 DEF AskForHuman
  <2> HIDE DEF code, from
  <2>2. QED
    BY <2>1, EscalateCloser
<1>5. CASE NotVerified
  BY <1>5, VerificationCloser DEF NotVerified
<1>6. CASE RecoveryNeedsHuman
  <2> DEFINE code == "CONFIRMATION_REQUIRED"  from == "nested"
  <2>1. /\ Escalate(from, code, recoveries) \/ FailVerification(recoveries)
        /\ at' = at /\ pc = "rejudging"
    BY <1>6 DEF RecoveryNeedsHuman
  <2> HIDE DEF code, from
  <2>2. QED
    BY <2>1, EscalateCloser, VerificationCloser
<1>7. QED
  BY <1>1, <1>2, <1>3, <1>4, <1>5, <1>6 DEF Engine

LEMMA ChannelCloser == ASSUME Basics, Channel PROVE ComesCloser
<1>1. CASE CreateSession \/ ReadBeforePause \/ PauseSession \/ WindowGone \/ Expire
  <2>1. Nearer
    BY <1>1 DEF CreateSession, ReadBeforePause, PauseSession, WindowGone, Expire, Nearer, Ahead
  <2>2. QED
    BY <2>1, NearerIs
<1>2. CASE Poll
  <2>1. CASE pc' = "collecting"
    BY <1>2, <2>1, NearerIs DEF Poll, Nearer, Ahead
  <2>2. CASE pc' # "collecting"
    <3>1. /\ pc = "polling" /\ pc' = "sleeping" /\ UNCHANGED <<at, pauses>>
          /\ holding \in BOOLEAN /\ left \in Int
      BY <1>2, <2>2, WaitAssumption DEF Poll, Basics, TypeOK
    <3>2. (holding' /\ ~holding) \/ (holding' = holding /\ left' = left)
      <4> DEFINE taken == file.phase = "human_active" /\ ~holding
      <4>1. holding' = (holding \/ taken) /\ left' = IF taken THEN LeftAfterTake ELSE left
        BY <1>2 DEF Poll
      <4>2. taken => ~holding
        OBVIOUS
      <4> HIDE DEF taken
      <4>3. QED
        BY <3>1, <4>1, <4>2
    <3>3. Ahead["sleeping"] = Ahead["polling"]
      BY DEF Ahead
    <3>4. left' = left => left' <= left
      BY <3>1
    <3>5. QED
      BY <3>1, <3>2, <3>3, <3>4 DEF ComesCloser
  <2>3. QED
    BY <2>1, <2>2
<1>3. CASE Wake
  <2>1. CASE pc' = "expiring"
    BY <1>3, <2>1, NearerIs DEF Wake, Nearer, Ahead, channelVars
  <2>2. CASE pc' # "expiring"
    <3>1. /\ pc = "sleeping" /\ pc' = "polling" /\ UNCHANGED <<at, pauses, left, holding>>
          /\ left \in Int
      BY <1>3, <2>2, WaitAssumption DEF Wake, channelVars, Basics, TypeOK
    <3>2. QED
      BY <3>1 DEF ComesCloser, Ahead
  <2>3. QED
    BY <2>1, <2>2
<1>4. CASE CollectLost \/ CollectEnded
  <2>1. pc = "collecting" /\ at' = at
    BY <1>4 DEF CollectLost, CollectEnded
  <2>2. \/ pc' = "ended" /\ pauses' = pauses
        \/ \E known : FailVerification(known)
    <3>1. CASE CollectLost
      BY <3>1 DEF CollectLost, DeliverStop, End
    <3>2. CASE CollectEnded
      BY <3>2 DEF CollectEnded, DeliverStop, Crash, End
    <3>3. QED
      BY <1>4, <3>1, <3>2
  <2>3. QED
    BY <2>1, <2>2, CrashCloser, VerificationCloser DEF PCs, Over, Waiting
<1>5. CASE CollectHandback \/ DeliverHandback
  <2>1. Nearer
    BY <1>5 DEF CollectHandback, DeliverHandback, Crash, End, Nearer, Ahead
  <2>2. QED
    BY <2>1, NearerIs
<1>6. QED
  BY <1>1, <1>2, <1>3, <1>4, <1>5 DEF Channel

LEMMA OtherCloser ==
    ASSUME Basics, Closing \/ Interrupt \/ Kill \/ People \/ Tick \/ UNCHANGED vars
    PROVE  ComesCloser
<1>1. left \in Int /\ pc \in PCs
  BY WaitAssumption DEF Basics, TypeOK
<1>2. CASE Closing
  <2>1. Nearer
    BY <1>2 DEF Closing, CheckFinished, CloseSession, Nearer, Ahead
  <2>2. QED
    BY <2>1, NearerIs
<1>3. CASE Interrupt
  BY <1>1, <1>3, CrashCloser DEF Interrupt, Crash, End
<1>4. CASE Kill
  <2>1. Ahead["killed"] < Ahead[pc]
    BY <1>1, <1>4 DEF Kill, Ahead, PCs, Waiting
  <2>2. QED
    BY <1>4, <2>1, NearerIs DEF Kill, Nearer
<1>5. CASE People \/ UNCHANGED vars
  <2>1. UNCHANGED <<engineVars, channelVars>>
    BY <1>5 DEF People, LookAlive, ReadSession, Command, CloseWindow, vars
  <2>2. StandsStill
    BY <1>1, <2>1 DEF StandsStill, engineVars, channelVars
  <2>3. QED
    BY <2>2, NearerIs
<1>6. CASE Tick
  <2>1. UNCHANGED <<pc, at, pauses, holding>> /\ left' = IF left > 0 THEN left - 1 ELSE 0
    BY <1>6 DEF Tick, engineVars
  <2>2. left >= 0
    BY WaitAssumption DEF Basics, TypeOK
  <2>3. StandsStill
    BY <1>1, <2>1, <2>2 DEF StandsStill
  <2>4. QED
    BY <2>3, NearerIs
<1>7. QED
  BY <1>2, <1>3, <1>4, <1>5, <1>6

\* Whatever people, the clock and failing writes do, every step of a run brings it
\* closer to its end or leaves it where it was: the measure behind RunEnds, for any
\* number of steps and pauses and any wait.
THEOREM ComesToItsEnd == Spec => RunComesCloser
<1>1. IInv /\ [Next]_vars => [ComesCloser]_vars
  <2> SUFFICES ASSUME IInv, [Next]_vars PROVE ComesCloser
    OBVIOUS
  <2>1. Basics
    BY DEF IInv, Basics
  <2>2. QED
    BY <2>1, EngineCloser, ChannelCloser, OtherCloser DEF Next
<1>2. QED
  BY <1>1, Invariance, PTL DEF Spec, RunComesCloser
=============================================================================
