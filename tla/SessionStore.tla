---------------------------- MODULE SessionStore ----------------------------
(***************************************************************************)
(* session_state.json and its lock file (StateStore in                     *)
(* src/cua/session/state.py), used by the process that owns the browser    *)
(* (Runner) and by any number of ops CLI processes (Operators), as         *)
(* _act_on in src/cua/cli.py and OperatorChannel in                        *)
(* src/cua/session/operator.py use it.                                     *)
(*                                                                         *)
(* A client reads without the lock, decides, and then calls transition:    *)
(* take the flock, read again, compare versions, advance, write a          *)
(* temporary file, rename it over the old one, drop the flock.  Each of    *)
(* these is a step of its own here and a process may die between any two.  *)
(* The rename is atomic, so a reader sees the old state or the new one.    *)
(***************************************************************************)
EXTENDS SessionState, Integers

CONSTANTS Runner,       \* the process that owns the browser
          NoFile,       \* no session_state.json yet
          MaxVersion    \* bound: no transition is asked for past this version

ASSUME RunnerAssumption == Runner \notin Operators \cup {NoOne}
ASSUME NoFileAssumption == NoFile \notin SessionStates
ASSUME MaxVersionAssumption == MaxVersion \in Nat

VARIABLES file,      \* session_state.json
          lock,      \* the client holding session_state.json.lock, or NoOne
          pc,        \* where each client is in its call
          seen,      \* the version each client last read without the lock
          request,   \* the call each client is making
          expected,  \* its expected_version, NoVersion when it passes none
          updated    \* what each client has in its temporary file

vars == <<file, lock, pc, seen, request, expected, updated>>

Clients == Operators \cup {Runner}

NoVersion == -1

Versions == Nat \cup {NoVersion}

\* The calls each kind of client makes.  An operator always names itself; the
\* run opens intervention 1 when it pauses (one id is enough here).
CallsOf(c) ==
    IF c = Runner
    THEN [event : {"stuck_detected", "reverify_failed"}, actor : {"automation"},
          operator_id : {NoOne}, intervention_id : {1}]
         \cup [event : {"checkpoint_reverified", "finish"}, actor : {"automation"},
               operator_id : {NoOne}, intervention_id : {0}]
         \cup [event : {"expire"}, actor : {"system"},
               operator_id : {NoOne}, intervention_id : {0}]
    ELSE [event : {"take_control", "hand_back", "abort"}, actor : {"operator"},
          operator_id : {c}, intervention_id : {0}]

\* Whether c passes expected_version: an operator and the run's pause and
\* expiry do, the run's finish and its checkpoint_reverified do not.
PassesVersion(call) == call.event \notin {"finish", "checkpoint_reverified"}

NoCall == [event |-> "finish", actor |-> "automation", operator_id |-> NoOne,
           intervention_id |-> 0]

Init ==
    /\ file = NoFile
    /\ lock = NoOne
    /\ pc = [c \in Clients |-> "idle"]
    /\ seen = [c \in Clients |-> NoVersion]
    /\ request = [c \in Clients |-> NoCall]
    /\ expected = [c \in Clients |-> NoVersion]
    /\ updated = [c \in Clients |-> Start]

-----------------------------------------------------------------------------
\* StateStore.create, called by the run's first pause.  It runs under the lock
\* from its check to its rename and nobody else has a file to act on yet.
Create ==
    /\ pc[Runner] = "idle"
    /\ file = NoFile
    /\ lock = NoOne
    /\ file' = Start
    /\ UNCHANGED <<lock, pc, seen, request, expected, updated>>

\* StateStore.read: no lock, and the whole state as some rename left it.
Read(c) ==
    /\ pc[c] = "idle"
    /\ file # NoFile
    /\ seen' = [seen EXCEPT ![c] = file.version]
    /\ UNCHANGED <<file, lock, pc, request, expected, updated>>

\* The client decides on a transition from what it read.
Request(c) ==
    /\ pc[c] = "idle"
    /\ file # NoFile
    /\ file.version < MaxVersion
    /\ seen[c] # NoVersion
    /\ \E call \in CallsOf(c) :
          /\ request' = [request EXCEPT ![c] = call]
          /\ expected' = [expected EXCEPT
                ![c] = IF PassesVersion(call) THEN seen[c] ELSE NoVersion]
    /\ pc' = [pc EXCEPT ![c] = "wanting"]
    /\ UNCHANGED <<file, lock, seen, updated>>

\* Mutant of Acquire.
AcquireShared(c) ==
    /\ pc[c] = "wanting"
    /\ lock' = c
    /\ pc' = [pc EXCEPT ![c] = "holding"]
    /\ UNCHANGED <<file, seen, request, expected, updated>>

\* flock(LOCK_EX).
Acquire(c) ==
    /\ pc[c] = "wanting"
    /\ lock = NoOne
    /\ lock' = c
    /\ pc' = [pc EXCEPT ![c] = "holding"]
    /\ UNCHANGED <<file, seen, request, expected, updated>>

\* Mutant of Stale.
NeverStale(c) == FALSE

\* Under the lock: read again, refuse a stale or forbidden call (an exception
\* that leaves through the finally), else write the temporary file.
Stale(c) == expected[c] # NoVersion /\ file.version # expected[c]

Refuse(c) ==
    /\ pc[c] = "holding"
    /\ Stale(c) \/ ~Permitted(file, request[c])
    /\ pc' = [pc EXCEPT ![c] = "leaving"]
    /\ UNCHANGED <<file, lock, seen, request, expected, updated>>

WriteTemporary(c) ==
    /\ pc[c] = "holding"
    /\ ~Stale(c)
    /\ Permitted(file, request[c])
    /\ updated' = [updated EXCEPT ![c] = Advance(file, request[c])]
    /\ pc' = [pc EXCEPT ![c] = "writing"]
    /\ UNCHANGED <<file, lock, seen, request, expected>>

\* os.replace.
Replace(c) ==
    /\ pc[c] = "writing"
    /\ file' = updated[c]
    /\ pc' = [pc EXCEPT ![c] = "leaving"]
    /\ UNCHANGED <<lock, seen, request, expected, updated>>

\* A call's local variables go with it.
Forget(c) ==
    /\ seen' = [seen EXCEPT ![c] = NoVersion]
    /\ request' = [request EXCEPT ![c] = NoCall]
    /\ expected' = [expected EXCEPT ![c] = NoVersion]
    /\ updated' = [updated EXCEPT ![c] = Start]

\* flock(LOCK_UN); the command, or the call, is over.
Release(c) ==
    /\ pc[c] = "leaving"
    /\ lock' = NoOne
    /\ pc' = [pc EXCEPT ![c] = "idle"]
    /\ Forget(c)
    /\ UNCHANGED file

\* The process is killed.  The kernel drops its flock; a temporary file it
\* wrote is never read by anyone.  The next ops command is a new process.
Die(c) ==
    /\ pc[c] # "dead"
    /\ lock' = IF lock = c THEN NoOne ELSE lock
    /\ pc' = [pc EXCEPT ![c] = IF c = Runner THEN "dead" ELSE "idle"]
    /\ Forget(c)
    /\ UNCHANGED file

Transition(c) ==
    Acquire(c) \/ Refuse(c) \/ WriteTemporary(c) \/ Replace(c) \/ Release(c)

Next ==
    \/ Create
    \/ \E c \in Clients : Read(c) \/ Request(c) \/ Transition(c) \/ Die(c)

Spec == Init /\ [][Next]_vars
-----------------------------------------------------------------------------
TypeOK ==
    /\ file \in SessionStates \cup {NoFile}
    /\ lock \in Clients \cup {NoOne}
    /\ pc \in [Clients -> {"idle", "wanting", "holding", "writing", "leaving", "dead"}]
    /\ seen \in [Clients -> Versions]
    /\ request \in [Clients -> Calls]
    /\ expected \in [Clients -> Versions]
    /\ updated \in [Clients -> SessionStates]

\* The flock is exclusive: two processes are never both between reading the
\* state and renaming the new one over it, whoever dies in between.
OneWriter ==
    \A c \in Clients : pc[c] \in {"holding", "writing", "leaving"} => lock = c

\* What a client is about to rename over the file was computed from the file as
\* it still is: no other process's transition can be lost under it.
NothingIsOverwritten ==
    \A c \in Clients :
        pc[c] = "writing" =>
            /\ file # NoFile
            /\ Permitted(file, request[c])
            /\ updated[c] = Advance(file, request[c])

\* What the file says happened is never taken back: every change adds exactly
\* one entry to the history and one to the version, starting from the phase the
\* last one left, however the processes interleave and whoever dies.
HistoryOnlyGrows ==
    [][file # NoFile /\ file' # file =>
          /\ file'.version = file.version + 1
          /\ \E r \in TransitionRecord :
                /\ file'.history = Append(file.history, r)
                /\ r.from_phase = file.phase
                /\ r.to_phase = file'.phase]_vars

LetGoByTheTaker(h) ==
    \A i \in 2..Len(h) :
        h[i].from_phase = "human_active" /\ h[i].actor = "operator"
            => h[i - 1].event = "take_control" /\ h[i].operator_id = h[i - 1].operator_id

\* Whoever ends a hold by handing back or aborting is the person who took it:
\* one operator cannot hand back or end another's session.
OnlyTheTakerLetsGo == file # NoFile => LetGoByTheTaker(file.history)

\* An operator's transition lands only on the very state that operator read:
\* what they were shown is what they acted on, whatever happened in between.
ActsOnWhatItRead ==
    [][\A c \in Operators :
          pc[c] = "writing" /\ file' # file /\ lock = c => file.version = seen[c]]_vars

\* The file implements the promise of ControlPromise, seen through its phase.
SessionHolder == IF file = NoFile THEN "automation" ELSE Holder(file)

Promise == INSTANCE ControlPromise WITH holder <- SessionHolder
KeepsPromise == Promise!Spec
=============================================================================
