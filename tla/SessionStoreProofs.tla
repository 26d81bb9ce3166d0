------------------------- MODULE SessionStoreProofs -------------------------
(***************************************************************************)
(* Theorems about SessionStore, for any number of operators and any bound  *)
(* on the version.  The invariant that carries them all is IInv: the types,*)
(* the exclusive lock, and that a process about to rename its temporary    *)
(* file computed it from the file as it still is.                          *)
(***************************************************************************)
EXTENDS SessionStore, SessionStateProofs

LEMMA CallsType ==
    ASSUME NEW c \in Clients, NEW call \in CallsOf(c)
    PROVE  call \in Calls
BY DEF CallsOf, Calls, Clients, Events, Actors

LEMMA NoCallType == NoCall \in Calls
BY DEF NoCall, Calls, Events, Actors

-----------------------------------------------------------------------------
(* The inductive invariant.                                                 *)

Calling == {"wanting", "holding", "writing", "leaving"}

\* Only an existing file is asked for a transition.
FileExists == \A c \in Clients : pc[c] \in Calling => file # NoFile

\* A client asks for the calls of its kind, and an operator passes the version
\* it read.
AsksAsItself ==
    \A c \in Clients :
        pc[c] \in Calling =>
            /\ request[c] \in CallsOf(c)
            /\ c \in Operators => expected[c] = seen[c] /\ seen[c] # NoVersion

\* The version check was made on the file as it still is.
FreshWhenWriting == \A c \in Clients : pc[c] = "writing" => ~Stale(c)

\* A session somebody holds was last changed by that person taking it.
HolderTook ==
    file # NoFile /\ file.phase = "human_active" =>
        /\ file.history # << >>
        /\ file.history[Len(file.history)].event = "take_control"
        /\ file.history[Len(file.history)].operator_id = file.operator_id

IInv ==
    /\ TypeOK
    /\ FileExists
    /\ AsksAsItself
    /\ OneWriter
    /\ NothingIsOverwritten
    /\ FreshWhenWriting
    /\ HolderTook
    /\ OnlyTheTakerLetsGo

LEMMA InitInv == Init => IInv
<1> SUFFICES ASSUME Init PROVE IInv
  OBVIOUS
<1>1. TypeOK
  BY StartType, NoCallType DEF Init, TypeOK, Clients, Versions, NoVersion
<1>2. FileExists /\ AsksAsItself /\ OneWriter /\ NothingIsOverwritten /\ FreshWhenWriting
  BY DEF Init, Clients, FileExists, AsksAsItself, OneWriter, NothingIsOverwritten,
         FreshWhenWriting, Calling
<1>3. HolderTook /\ OnlyTheTakerLetsGo
  BY DEF Init, HolderTook, OnlyTheTakerLetsGo
<1>4. QED
  BY <1>1, <1>2, <1>3 DEF IInv

\* A client is never the absence of one, and the run is nobody's operator.
LEMMA ClientFacts == NoOne \notin Clients /\ Runner \notin Operators
BY OperatorsAssumption, RunnerAssumption DEF Clients

LEMMA CreateInv == IInv /\ Create => IInv'
<1> SUFFICES ASSUME IInv, Create PROVE IInv'
  OBVIOUS
<1> USE DEF IInv, Create
<1>1. TypeOK'
  BY StartType DEF TypeOK
<1>2. file' # NoFile
  BY StartType, NoFileAssumption
<1>3. FileExists' /\ AsksAsItself' /\ OneWriter'
  BY <1>2 DEF FileExists, AsksAsItself, OneWriter
<1>4. NothingIsOverwritten' /\ FreshWhenWriting'
  BY DEF FileExists, NothingIsOverwritten, FreshWhenWriting, Calling
<1>5. HolderTook' /\ OnlyTheTakerLetsGo'
  BY DEF HolderTook, OnlyTheTakerLetsGo, LetGoByTheTaker, Start
<1>6. QED
  BY <1>1, <1>3, <1>4, <1>5

LEMMA ReadInv == ASSUME NEW c \in Clients PROVE IInv /\ Read(c) => IInv'
<1> SUFFICES ASSUME IInv, Read(c) PROVE IInv'
  OBVIOUS
<1> USE DEF IInv, Read
<1>1. TypeOK'
  <2>1. file.version \in Versions
    BY DEF TypeOK, SessionStates, Versions
  <2>2. QED
    BY <2>1 DEF TypeOK
<1>2. FileExists' /\ OneWriter' /\ NothingIsOverwritten'
  BY DEF FileExists, OneWriter, NothingIsOverwritten
<1>3. AsksAsItself'
  BY DEF AsksAsItself, Calling, TypeOK
<1>4. FreshWhenWriting' /\ HolderTook' /\ OnlyTheTakerLetsGo'
  BY DEF FreshWhenWriting, HolderTook, OnlyTheTakerLetsGo, Stale
<1>5. QED
  BY <1>1, <1>2, <1>3, <1>4

LEMMA RequestInv == ASSUME NEW c \in Clients PROVE IInv /\ Request(c) => IInv'
<1> SUFFICES ASSUME IInv, Request(c) PROVE IInv'
  OBVIOUS
<1> USE DEF IInv
<1>1. PICK call \in CallsOf(c) :
        /\ request' = [request EXCEPT ![c] = call]
        /\ expected' = [expected EXCEPT
              ![c] = IF PassesVersion(call) THEN seen[c] ELSE NoVersion]
  BY DEF Request
<1>2. call \in Calls
  BY CallsType
<1>3. TypeOK'
  BY <1>1, <1>2 DEF TypeOK, Request, Versions
<1>4. FileExists' /\ OneWriter' /\ HolderTook' /\ OnlyTheTakerLetsGo'
  BY DEF Request, FileExists, OneWriter, TypeOK, HolderTook, OnlyTheTakerLetsGo
<1>5. NothingIsOverwritten' /\ FreshWhenWriting'
  BY <1>1 DEF Request, NothingIsOverwritten, FreshWhenWriting, TypeOK, Stale
<1>6. c \in Operators => PassesVersion(call)
  BY ClientFacts DEF CallsOf, PassesVersion
<1>7. AsksAsItself'
  BY <1>1, <1>6 DEF Request, AsksAsItself, TypeOK
<1>8. QED
  BY <1>3, <1>4, <1>5, <1>7

LEMMA AcquireInv == ASSUME NEW c \in Clients PROVE IInv /\ Acquire(c) => IInv'
<1> SUFFICES ASSUME IInv, Acquire(c) PROVE IInv'
  OBVIOUS
<1> USE DEF IInv, Acquire
<1>1. TypeOK' /\ OneWriter'
  BY ClientFacts DEF TypeOK, OneWriter
<1>2. FileExists' /\ AsksAsItself'
  BY DEF FileExists, AsksAsItself, TypeOK, Calling
<1>3. NothingIsOverwritten' /\ FreshWhenWriting'
  BY DEF NothingIsOverwritten, FreshWhenWriting, TypeOK, Stale
<1>4. HolderTook' /\ OnlyTheTakerLetsGo'
  BY DEF HolderTook, OnlyTheTakerLetsGo
<1>5. QED
  BY <1>1, <1>2, <1>3, <1>4

LEMMA RefuseInv == ASSUME NEW c \in Clients PROVE IInv /\ Refuse(c) => IInv'
<1> SUFFICES ASSUME IInv, Refuse(c) PROVE IInv'
  OBVIOUS
<1> USE DEF IInv, Refuse
<1>1. TypeOK' /\ OneWriter'
  BY DEF TypeOK, OneWriter
<1>2. FileExists' /\ AsksAsItself'
  BY DEF FileExists, AsksAsItself, TypeOK, Calling
<1>3. NothingIsOverwritten' /\ FreshWhenWriting'
  BY DEF NothingIsOverwritten, FreshWhenWriting, TypeOK, Stale
<1>4. HolderTook' /\ OnlyTheTakerLetsGo'
  BY DEF HolderTook, OnlyTheTakerLetsGo
<1>5. QED
  BY <1>1, <1>2, <1>3, <1>4

LEMMA WriteTemporaryInv ==
    ASSUME NEW c \in Clients PROVE IInv /\ WriteTemporary(c) => IInv'
<1> SUFFICES ASSUME IInv, WriteTemporary(c) PROVE IInv'
  OBVIOUS
<1> USE DEF IInv, WriteTemporary
<1>1. file # NoFile /\ file \in SessionStates /\ request[c] \in Calls
  BY DEF FileExists, Calling, TypeOK
<1>2. Advance(file, request[c]) \in SessionStates
  BY <1>1, AdvanceType
<1>3. TypeOK'
  BY <1>2 DEF TypeOK
<1>4. OneWriter' /\ FileExists' /\ AsksAsItself'
  BY DEF OneWriter, FileExists, AsksAsItself, TypeOK, Calling
<1>5. NothingIsOverwritten' /\ FreshWhenWriting'
  BY <1>1 DEF NothingIsOverwritten, FreshWhenWriting, TypeOK, Stale
<1>6. HolderTook' /\ OnlyTheTakerLetsGo'
  BY DEF HolderTook, OnlyTheTakerLetsGo
<1>7. QED
  BY <1>3, <1>4, <1>5, <1>6

\* What renaming the temporary file over the old one does to the history.
LEMMA ReplaceAdvances ==
    ASSUME NEW c \in Clients, IInv, Replace(c)
    PROVE  /\ file \in SessionStates /\ request[c] \in Calls
           /\ Permitted(file, request[c])
           /\ file' = Advance(file, request[c])
           /\ file' \in SessionStates /\ file' # NoFile
<1>1. /\ file \in SessionStates /\ request[c] \in Calls
      /\ Permitted(file, request[c])
      /\ file' = Advance(file, request[c])
  BY DEF IInv, TypeOK, NothingIsOverwritten, Replace
<1>2. QED
  BY <1>1, AdvanceType, NoFileAssumption

\* A history stays let go by its takers when the entry added to it is.
LEMMA LetGoAppend ==
    ASSUME NEW h \in Seq(TransitionRecord), NEW r \in TransitionRecord,
           LetGoByTheTaker(h),
           r.from_phase = "human_active" /\ r.actor = "operator" =>
               /\ h # << >>
               /\ h[Len(h)].event = "take_control"
               /\ h[Len(h)].operator_id = r.operator_id
    PROVE  LetGoByTheTaker(Append(h, r))
<1> SUFFICES ASSUME NEW i \in 2..Len(Append(h, r)),
                    Append(h, r)[i].from_phase = "human_active",
                    Append(h, r)[i].actor = "operator"
             PROVE  /\ Append(h, r)[i - 1].event = "take_control"
                    /\ Append(h, r)[i].operator_id = Append(h, r)[i - 1].operator_id
  BY DEF LetGoByTheTaker
<1>1. Len(Append(h, r)) = Len(h) + 1 /\ Len(h) \in Nat
  OBVIOUS
<1>2. i - 1 \in 1..Len(h) /\ Append(h, r)[i - 1] = h[i - 1]
  BY <1>1
<1>3. CASE i = Len(h) + 1
  BY <1>1, <1>2, <1>3
<1>4. CASE i \in 2..Len(h)
  <2>1. Append(h, r)[i] = h[i]
    BY <1>4
  <2>2. QED
    BY <1>2, <1>4, <2>1 DEF LetGoByTheTaker
<1>5. QED
  BY <1>1, <1>3, <1>4

LEMMA ReplaceInv == ASSUME NEW c \in Clients PROVE IInv /\ Replace(c) => IInv'
<1> SUFFICES ASSUME IInv, Replace(c) PROVE IInv'
  OBVIOUS
<1>1. /\ file \in SessionStates /\ request[c] \in Calls
      /\ Permitted(file, request[c])
      /\ file' = Advance(file, request[c])
      /\ file' \in SessionStates /\ file' # NoFile
  BY ReplaceAdvances
<1>2. TypeOK'
  BY <1>1 DEF IInv, TypeOK, Replace
<1>3. OneWriter' /\ FileExists' /\ AsksAsItself'
  BY <1>1 DEF IInv, OneWriter, FileExists, AsksAsItself, TypeOK, Calling, Replace
<1>4. \A d \in Clients : pc'[d] # "writing"
  BY DEF IInv, TypeOK, OneWriter, Replace
<1>5. NothingIsOverwritten' /\ FreshWhenWriting'
  BY <1>4 DEF NothingIsOverwritten, FreshWhenWriting
<1>6. /\ file.history \in Seq(TransitionRecord)
      /\ Entry(file, request[c]) \in TransitionRecord
      /\ file'.history = Append(file.history, Entry(file, request[c]))
      /\ file'.phase = "human_active" =>
            /\ request[c].event = "take_control"
            /\ file'.operator_id = request[c].operator_id
  BY <1>1, AdvanceExtends
<1>7. HolderTook'
  BY <1>6, LastOfAppend DEF HolderTook, Entry
<1>8. OnlyTheTakerLetsGo'
  <2>1. LetGoByTheTaker(file.history)
    BY <1>1, NoFileAssumption DEF IInv, OnlyTheTakerLetsGo
  <2>2. file.phase = "human_active" /\ request[c].actor = "operator" =>
          request[c].operator_id = file.operator_id
    BY <1>1 DEF Permitted, OwnsTheHold
  <2>3. file.phase = "human_active" =>
          /\ file.history # << >>
          /\ file.history[Len(file.history)].event = "take_control"
          /\ file.history[Len(file.history)].operator_id = file.operator_id
    BY <1>1, NoFileAssumption DEF IInv, HolderTook
  <2>4. LetGoByTheTaker(Append(file.history, Entry(file, request[c])))
    BY <1>6, <2>1, <2>2, <2>3, LetGoAppend DEF Entry
  <2>5. QED
    BY <1>6, <2>4 DEF OnlyTheTakerLetsGo
<1>9. QED
  BY <1>2, <1>3, <1>5, <1>7, <1>8 DEF IInv

\* A call's end, by the unlock or by the process dying, leaves the file alone.
LEMMA ForgetInv ==
    ASSUME NEW c \in Clients, IInv, Forget(c), UNCHANGED file,
           NEW p \in {"idle", "dead"}, pc' = [pc EXCEPT ![c] = p],
           lock' = IF lock = c THEN NoOne ELSE lock
    PROVE  IInv'
<1> USE DEF IInv, Forget
<1>1. TypeOK'
  BY StartType, NoCallType DEF TypeOK, Versions
<1>2. FileExists' /\ AsksAsItself' /\ OneWriter'
  BY DEF FileExists, AsksAsItself, OneWriter, TypeOK, Calling
<1>3. NothingIsOverwritten' /\ FreshWhenWriting'
  BY DEF NothingIsOverwritten, FreshWhenWriting, TypeOK, Stale
<1>4. HolderTook' /\ OnlyTheTakerLetsGo'
  BY DEF HolderTook, OnlyTheTakerLetsGo
<1>5. QED
  BY <1>1, <1>2, <1>3, <1>4

LEMMA ReleaseInv == ASSUME NEW c \in Clients PROVE IInv /\ Release(c) => IInv'
BY ForgetInv DEF Release, IInv, OneWriter

LEMMA DieInv == ASSUME NEW c \in Clients PROVE IInv /\ Die(c) => IInv'
BY ForgetInv DEF Die

LEMMA StepInv == IInv /\ [Next]_vars => IInv'
<1> SUFFICES ASSUME IInv, [Next]_vars PROVE IInv'
  OBVIOUS
<1>1. CASE UNCHANGED vars
  BY <1>1 DEF vars, IInv, TypeOK, FileExists, AsksAsItself, OneWriter, FreshWhenWriting,
     NothingIsOverwritten, Stale, HolderTook, OnlyTheTakerLetsGo
<1>2. CASE Create
  BY <1>2, CreateInv
<1>3. CASE \E c \in Clients : Read(c) \/ Request(c) \/ Transition(c) \/ Die(c)
  BY <1>3, ReadInv, RequestInv, AcquireInv, RefuseInv, WriteTemporaryInv, ReplaceInv,
     ReleaseInv, DieInv DEF Transition
<1>4. QED
  BY <1>1, <1>2, <1>3 DEF Next

-----------------------------------------------------------------------------
(* The theorems.                                                            *)

\* Every reachable state of the store satisfies the inductive invariant.
THEOREM Invariance == Spec => []IInv
<1>1. QED
  BY InitInv, StepInv, PTL DEF Spec

\* Every file the store writes is a session state, whoever wrote it.
THEOREM TypeCorrect == Spec => []TypeOK
<1>1. IInv => TypeOK
  BY DEF IInv
<1>2. QED
  BY <1>1, Invariance, PTL

\* At most one process is between taking the flock and dropping it.
THEOREM LockExclusion == Spec => []OneWriter
<1>1. IInv => OneWriter
  BY DEF IInv
<1>2. QED
  BY <1>1, Invariance, PTL

\* No transition is ever computed from a state the file no longer has.
THEOREM NothingLost == Spec => []NothingIsOverwritten
<1>1. IInv => NothingIsOverwritten
  BY DEF IInv
<1>2. QED
  BY <1>1, Invariance, PTL

\* A hold is handed back or aborted only by the person who took it.
THEOREM OnlyTheTaker == Spec => []OnlyTheTakerLetsGo
<1>1. IInv => OnlyTheTakerLetsGo
  BY DEF IInv
<1>2. QED
  BY <1>1, Invariance, PTL

\* An operator's transition lands only on the state that operator read.
THEOREM NoStaleOperator == Spec => ActsOnWhatItRead
<1>1. IInv => \A c \in Operators :
                pc[c] = "writing" /\ file' # file /\ lock = c => file.version = seen[c]
  BY DEF IInv, AsksAsItself, FreshWhenWriting, Stale, Calling, Clients
<1>2. QED
  BY <1>1, Invariance, PTL DEF ActsOnWhatItRead

\* The only steps that change the file are its creation and a rename.
LEMMA FileSteps ==
    ASSUME [Next]_vars, file' # file
    PROVE  (file = NoFile /\ file' = Start) \/ \E c \in Clients : Replace(c)
BY DEF Next, vars, Create, Read, Request, Transition, Acquire, Refuse, WriteTemporary,
       Release, Die

\* What happened is never taken back: each change of the file adds one entry.
THEOREM NothingTakenBack == Spec => HistoryOnlyGrows
<1> DEFINE Grows ==
        file # NoFile /\ file' # file =>
          /\ file'.version = file.version + 1
          /\ \E r \in TransitionRecord :
                /\ file'.history = Append(file.history, r)
                /\ r.from_phase = file.phase
                /\ r.to_phase = file'.phase
<1>1. IInv /\ [Next]_vars => Grows
  <2> SUFFICES ASSUME IInv, [Next]_vars, file # NoFile, file' # file
               PROVE  /\ file'.version = file.version + 1
                      /\ \E r \in TransitionRecord :
                            /\ file'.history = Append(file.history, r)
                            /\ r.from_phase = file.phase
                            /\ r.to_phase = file'.phase
    OBVIOUS
  <2>1. PICK c \in Clients : Replace(c)
    BY FileSteps
  <2> DEFINE r == Entry(file, request[c])
  <2>2. /\ file \in SessionStates /\ request[c] \in Calls
        /\ Permitted(file, request[c])
        /\ file' = Advance(file, request[c])
    BY <2>1, ReplaceAdvances
  <2>3. file'.version = file.version + 1
    BY <2>2 DEF Advance
  <2>4. r \in TransitionRecord /\ file'.history = Append(file.history, r)
    BY <2>2, AdvanceExtends
  <2>5. r.from_phase = file.phase /\ r.to_phase = file'.phase
    BY <2>2, AdvanceExtends DEF Entry
  <2>6. QED
    BY <2>3, <2>4, <2>5
<1>2. QED
  BY <1>1, Invariance, PTL DEF Spec, HistoryOnlyGrows

-----------------------------------------------------------------------------
(* The file implements ControlPromise.                                      *)

\* Whatever the processes do to the file, and wherever they die, its holder
\* changes only as ControlPromise says.
THEOREM Refinement == Spec => KeepsPromise
<1>1. Init => Promise!Init
  BY DEF Init, SessionHolder, Promise!Init, Promise!Automation
<1>2. IInv /\ [Next]_vars => [Promise!Next]_SessionHolder
  <2> SUFFICES ASSUME IInv, [Next]_vars, SessionHolder' # SessionHolder PROVE Promise!Next
    OBVIOUS
  <2>1. file' # file
    BY DEF SessionHolder
  <2>2. CASE file = NoFile /\ file' = Start
    <3>1. file' # NoFile /\ file'.phase = "running"
      BY <2>2, StartType, NoFileAssumption DEF Start
    <3>2. QED
      BY <2>2, <3>1 DEF SessionHolder, Holder
  <2>3. CASE \E c \in Clients : Replace(c)
    <3>1. PICK c \in Clients : Replace(c)
      BY <2>3
    <3>2. /\ file \in SessionStates /\ request[c] \in Calls
          /\ Permitted(file, request[c])
          /\ file' = Advance(file, request[c])
          /\ file # NoFile /\ file' # NoFile
      BY <3>1, ReplaceAdvances, NoFileAssumption
    <3>3. SessionHolder = Holder(file) /\ SessionHolder' = Holder(Advance(file, request[c]))
      BY <3>2 DEF SessionHolder, Holder
    <3>4. \/ SessionHolder \in {"automation", "verifying"} /\ SessionHolder' = "nobody"
          \/ SessionHolder = "nobody" /\ SessionHolder' \in Operators
          \/ SessionHolder \in Operators /\ SessionHolder' = "verifying"
          \/ SessionHolder = "verifying" /\ SessionHolder' = "automation"
          \/ SessionHolder' = "over"
      BY <3>2, <3>3, HolderStep
    <3>5. QED
      BY <3>4 DEF Promise!Next, Promise!AskForHuman, Promise!TakeControl,
                  Promise!HandBack, Promise!Carry, Promise!End, Promise!Automation,
                  Promise!Verifying, Promise!Nobody, Promise!Over
  <2>4. QED
    BY <2>1, <2>2, <2>3, FileSteps
<1>3. QED
  BY <1>1, <1>2, Invariance, PTL DEF Spec, KeepsPromise, Promise!Spec
=============================================================================
