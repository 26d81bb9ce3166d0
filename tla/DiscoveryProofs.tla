---------------------------- MODULE DiscoveryProofs ----------------------------
(***************************************************************************)
(* Theorems about Discovery, for any controls, any calls the model may     *)
(* make, any number of turns and any limits of the stuck detector.  IInv   *)
(* carries them all: what the detector's windows hold, that a confirmation *)
(* is armed only right after the call that asked for it, that a remembered *)
(* dialog was reported, and which turns the recording stands for.          *)
(***************************************************************************)
EXTENDS Discovery, SequenceTheorems, TLAPS

(* What the windows of the stuck detector hold.                             *)

\* The last n elements are elements, and as many as there are up to n.
LEMMA LastOfProperties ==
    ASSUME NEW S, NEW s \in Seq(S), NEW n \in Nat \ {0}
    PROVE  /\ LastOf(s, n) \in Seq(S)
           /\ Len(LastOf(s, n)) = IF Len(s) <= n THEN Len(s) ELSE n
           /\ \A i \in 1..Len(LastOf(s, n)) :
                 LastOf(s, n)[i] = s[Len(s) - Len(LastOf(s, n)) + i]
<1>1. CASE Len(s) <= n
  BY <1>1 DEF LastOf
<1>2. CASE Len(s) > n
  <2> DEFINE m == Len(s) - n + 1
  <2>1. m \in Int /\ Len(s) \in Int /\ m <= Len(s) /\ Len(s) - m + 1 = n
    BY <1>2
  <2>2. \A i \in m..Len(s) : s[i] \in S
    BY <1>2
  <2>3. /\ SubSeq(s, m, Len(s)) \in Seq(S)
        /\ Len(SubSeq(s, m, Len(s))) = n
        /\ \A i \in 1..n : SubSeq(s, m, Len(s))[i] = s[m + i - 1]
    <3> HIDE DEF m
    <3>1. QED BY <2>1, <2>2, SubSeqProperties
  <2>4. LastOf(s, n) = SubSeq(s, m, Len(s))
    BY <1>2 DEF LastOf, Latest
  <2>5. QED
    BY <1>2, <2>3, <2>4
<1>3. QED
  BY <1>1, <1>2

\* A window after one more element: the new one last, the others one further.
LEMMA WindowAfter ==
    ASSUME NEW S, NEW s \in Seq(S), NEW e \in S, NEW n \in Nat \ {0}, Len(s) <= n
    PROVE  LET t == LastOf(Append(s, e), n)
           IN  /\ t \in Seq(S)
               /\ Len(t) = IF Len(s) < n THEN Len(s) + 1 ELSE n
               /\ Last(t) = e /\ t[Len(t)] = e
               /\ \A i \in 1..(Len(t) - 1) : t[i] = s[Len(s) + 1 - Len(t) + i]
<1> DEFINE a == Append(s, e)
           t == LastOf(a, n)
<1>1. /\ a \in Seq(S) /\ Len(a) = Len(s) + 1 /\ a[Len(s) + 1] = e
      /\ \A i \in 1..Len(s) : a[i] = s[i]
  BY AppendProperties
<1>2. /\ t \in Seq(S)
      /\ Len(t) = IF Len(a) <= n THEN Len(a) ELSE n
      /\ \A i \in 1..Len(t) : t[i] = a[Len(a) - Len(t) + i]
  <2> HIDE DEF a
  <2>1. QED BY <1>1, LastOfProperties
<1>3. Len(s) \in Nat /\ Len(t) \in Nat /\ Len(t) >= 1
  BY <1>1, <1>2
<1> HIDE DEF a, t
<1>4. Len(t) = IF Len(s) < n THEN Len(s) + 1 ELSE n
  BY <1>1, <1>2, <1>3
<1>5. t[Len(t)] = e
  <2>1. Len(t) \in 1..Len(t) /\ Len(a) - Len(t) + Len(t) = Len(s) + 1
    BY <1>1, <1>3
  <2>2. QED
    BY <1>1, <1>2, <2>1
<1>6. Last(t) = e
  BY <1>5 DEF Last
<1>7. ASSUME NEW i \in 1..(Len(t) - 1) PROVE t[i] = s[Len(s) + 1 - Len(t) + i]
  <2>1. i \in 1..Len(t) /\ Len(a) - Len(t) + i = Len(s) + 1 - Len(t) + i
    BY <1>1, <1>3
  <2>2. Len(s) + 1 - Len(t) + i \in 1..Len(s)
    BY <1>3, <1>4
  <2>3. QED
    BY <1>1, <1>2, <2>1, <2>2
<1>8. QED
  BY <1>2, <1>4, <1>5, <1>6, <1>7 DEF a, t

\* The detector's test for a repetition is that the last calls are all equal.
LEMMA RepeatedIsSame ==
    ASSUME NEW S, NEW s \in Seq(S)
    PROVE  Repeated(s) <=> SameThroughout(s, REPEAT_LIMIT)
<1> DEFINE r == REPEAT_LIMIT
           m == Len(s) - r + 1
<1>0. r \in Nat /\ r >= 2 /\ Len(s) \in Nat
  BY LimitsAssumption
<1>1. CASE Len(s) < r
  BY <1>0, <1>1 DEF Repeated, SameThroughout
<1>2. CASE Len(s) >= r
  <2>1. m \in 1..Len(s) /\ Len(s) - m + 1 = r
    BY <1>0, <1>2
  <2>2. /\ Len(SubSeq(s, m, Len(s))) = r
        /\ \A i \in 1..r : SubSeq(s, m, Len(s))[i] = s[m + i - 1]
        /\ DOMAIN SubSeq(s, m, Len(s)) = 1..r
    <3>1. \A i \in m..Len(s) : s[i] \in S
      BY <2>1
    <3>2. m \in Int /\ Len(s) \in Int
      BY <1>0
    <3> HIDE DEF m, r
    <3>3. QED BY <2>1, <3>1, <3>2, SubSeqProperties
  <2>3. Repeated(s) <=> \A i \in 1..r : s[m + i - 1] = s[Len(s)]
    <3>1. Latest(s, r) = SubSeq(s, m, Len(s))
      BY DEF Latest
    <3>2. Repeated(s) <=> \A i \in DOMAIN Latest(s, r) : Latest(s, r)[i] = s[Len(s)]
      BY <1>2 DEF Repeated, Last
    <3> HIDE DEF r, m
    <3>3. QED BY <2>2, <3>1, <3>2
  <2>4. SameThroughout(s, r) <=> \A i, j \in m..Len(s) : s[i] = s[j]
    BY <1>2 DEF SameThroughout
  <2>5. ASSUME \A i \in 1..r : s[m + i - 1] = s[Len(s)], NEW k \in m..Len(s)
        PROVE  s[k] = s[Len(s)]
    <3>1. k - m + 1 \in 1..r /\ m + (k - m + 1) - 1 = k
      BY <1>0, <2>1
    <3>2. QED
      BY <2>5, <3>1
  <2>6. \A i \in 1..r : m + i - 1 \in m..Len(s)
    BY <1>0, <2>1
  <2>7. Len(s) \in m..Len(s)
    BY <1>0, <2>1
  <2> HIDE DEF m, r
  <2>8. (\A i \in 1..r : s[m + i - 1] = s[Len(s)]) <=> (\A i, j \in m..Len(s) : s[i] = s[j])
    BY <2>5, <2>6, <2>7
  <2>9. QED
    BY <2>3, <2>4, <2>8 DEF r
<1>3. QED
  BY <1>0, <1>1, <1>2

-----------------------------------------------------------------------------
(* The inductive invariant.                                                 *)

Running == {"entering", "asking", "observing"}

\* The last n entries of the log of changes are FALSE, and the one before is not.
StillFor(s, n) ==
    /\ n \in 0..Len(s)
    /\ \A i \in (Len(s) - n + 1)..Len(s) : ~s[i]
    /\ n < Len(s) => s[Len(s) - n]

\* The detector counts what its windows show, and the run goes on only while
\* neither limit is reached.
DetectorInv ==
    /\ changes \in Seq(BOOLEAN) /\ Len(changes) <= NO_PROGRESS_LIMIT
    /\ StillFor(changes, unchanged)
    /\ pc \in Running => stop = "none" /\ unchanged < NO_PROGRESS_LIMIT /\ ~Repeated(calls)
    /\ stop = "repeated_action" => Repeated(calls)
    /\ stop = "no_progress" => unchanged = NO_PROGRESS_LIMIT

\* What is armed was asked for by the last call.
ArmedByTheLastCall ==
    armed => Len(calls) >= 1 /\ calls[Len(calls)].tool = "request_confirmation"

\* What the loop remembers of a control's dialog, the model was told.
RememberedWasShown ==
    \A e \in Controls : dialogs[e] # Nothing => <<e, dialogs[e]>> \in shown

RecordedTurns == {steps[i].turn : i \in DOMAIN steps}

PendingTurn == IF pending = NoStep THEN {} ELSE {pending.turn}

\* The steps and the one still pending are the entry and the acts that went well.
RecordingInv ==
    /\ acted \subseteq 1..turn /\ wrong \subseteq 1..turn
    /\ \A i \in DOMAIN steps : steps[i].turn \in 0..turn
    /\ \A i, j \in DOMAIN steps : i < j => steps[i].turn < steps[j].turn
    /\ pc = "entering" => turn = 0 /\ steps = << >>
    /\ pc \in {"asking", "observing"} => steps # << >>
    /\ pc = "observing" => \A i \in DOMAIN steps : steps[i].turn < turn
    /\ pc # "ended" /\ steps # << >> =>
          RecordedTurns \cup PendingTurn = {0} \cup (acted \ wrong)

IInv ==
    /\ TypeOK
    /\ DetectorInv
    /\ ArmedByTheLastCall
    /\ ConfirmedJustBefore
    /\ RememberedWasShown
    /\ AnswersWhatWasShown
    /\ RecordingInv

LEMMA InitInv == Init => IInv
<1> SUFFICES ASSUME Init PROVE IInv
  OBVIOUS
<1> USE LimitsAssumption DEF Init
<1>1. TypeOK
  <2>1. << >> \in Seq(Calls) /\ << >> \in Seq([turn : 0..MaxSteps, risk : Risks])
        /\ Len(<< >>) = 0
    OBVIOUS
  <2>2. calls \in Seq(Calls) /\ Len(calls) <= REPEAT_LIMIT
        /\ steps \in Seq([turn : 0..MaxSteps, risk : Risks])
    BY <2>1
  <2>3. turn \in 0..MaxSteps /\ unchanged \in 0..NO_PROGRESS_LIMIT
    OBVIOUS
  <2>4. QED
    BY <2>2, <2>3 DEF TypeOK
<1>2. DetectorInv
  BY DEF DetectorInv, StillFor, Repeated
<1>3. ArmedByTheLastCall /\ ConfirmedJustBefore /\ RememberedWasShown /\ AnswersWhatWasShown
  BY DEF ArmedByTheLastCall, ConfirmedJustBefore, RememberedWasShown, AnswersWhatWasShown,
         NoDialog, Nothing
<1>4. RecordingInv
  BY DEF RecordingInv
<1>5. QED
  BY <1>1, <1>2, <1>3, <1>4 DEF IInv

-----------------------------------------------------------------------------
(* What every call that is carried out or refused has in common.            *)

\* The log after a call: the call last, the one before it second to last.
LEMMA CallsAfter ==
    ASSUME TypeOK, NEW c \in Calls, NoteCall(c)
    PROVE  /\ calls' \in Seq(Calls) /\ Len(calls') <= REPEAT_LIMIT
           /\ Len(calls') >= 1 /\ Last(calls') = c /\ calls'[Len(calls')] = c
           /\ Len(calls) >= 1 =>
                 Len(calls') >= 2 /\ calls'[Len(calls') - 1] = calls[Len(calls)]
<1> DEFINE t == LastOf(Append(calls, c), REPEAT_LIMIT)
<1>1. calls' = t
  BY DEF NoteCall
<1>2. calls \in Seq(Calls) /\ Len(calls) <= REPEAT_LIMIT /\ Len(calls) \in Nat
  BY DEF TypeOK
<1>3. REPEAT_LIMIT \in Nat \ {0} /\ REPEAT_LIMIT >= 2
  BY LimitsAssumption
<1>4. /\ t \in Seq(Calls)
      /\ Len(t) = IF Len(calls) < REPEAT_LIMIT THEN Len(calls) + 1 ELSE REPEAT_LIMIT
      /\ Last(t) = c /\ t[Len(t)] = c
      /\ \A i \in 1..(Len(t) - 1) : t[i] = calls[Len(calls) + 1 - Len(t) + i]
  BY <1>2, <1>3, WindowAfter
<1> HIDE DEF t
<1>5. ASSUME Len(calls) >= 1 PROVE Len(t) >= 2 /\ t[Len(t) - 1] = calls[Len(calls)]
  <2>1. Len(t) >= 2
    BY <1>2, <1>3, <1>4, <1>5
  <2>2. Len(t) - 1 \in 1..(Len(t) - 1) /\ Len(calls) + 1 - Len(t) + (Len(t) - 1) = Len(calls)
    BY <1>2, <2>1
  <2>3. QED
    BY <1>4, <2>1, <2>2
<1>6. QED
  BY <1>1, <1>2, <1>3, <1>4, <1>5

\* The counters and the armed flag after a call.
LEMMA MakeFacts ==
    ASSUME IInv, NEW c \in Calls, Make(c)
    PROVE  /\ pc = "asking" /\ stop = "none"
           /\ turn' = turn + 1 /\ turn' \in 0..MaxSteps
           /\ calls' \in Seq(Calls) /\ Len(calls') <= REPEAT_LIMIT
           /\ ~Repeated(calls')
           /\ armed' \in BOOLEAN /\ (armed' => allow') /\ ArmedByTheLastCall'
<1>1. turn \in 0..MaxSteps /\ MaxSteps \in Nat /\ (armed => allow) /\ armed \in BOOLEAN
      /\ allow \in BOOLEAN
  BY LimitsAssumption DEF IInv, TypeOK
<1>2. turn' = turn + 1 /\ turn < MaxSteps /\ pc = "asking" /\ allow' = allow
  BY <1>1 DEF Make, NextTurn, Spent, config
<1>3. NoteCall(c) /\ ~Repeated(calls') /\ armed' = ArmedAfter(c)
  BY DEF Make
<1>4. /\ calls' \in Seq(Calls) /\ Len(calls') <= REPEAT_LIMIT
      /\ Len(calls') >= 1 /\ calls'[Len(calls')] = c
  BY <1>3, CallsAfter DEF IInv
<1>5. ArmedByTheLastCall'
  BY <1>3, <1>4 DEF ArmedByTheLastCall, ArmedAfter
<1>6. armed' \in BOOLEAN /\ (armed' => allow')
  BY <1>1, <1>2, <1>3 DEF ArmedAfter
<1>7. stop = "none"
  BY <1>2 DEF IInv, DetectorInv, Running
<1>8. QED
  BY <1>1, <1>2, <1>3, <1>4, <1>5, <1>6, <1>7

\* What is neither acting nor observing leaves no step pending.
LEMMA NothingPending == IInv /\ pc = "asking" => pending = NoStep
BY DEF IInv, TypeOK

\* Every rating the gate may give is a risk.
LEMMA StricterType == ASSUME NEW c PROVE Stricter[Declared(c)] \subseteq Risks
BY DEF Stricter, Declared, Risks

-----------------------------------------------------------------------------
(* Every step keeps the types.                                              *)

LEMMA ToolCallType == ASSUME IInv, NEW c \in Calls, ToolCall(c) PROVE TypeOK'
<1> USE DEF config, detector, recording
<1>1. ASSUME Make(c) PROVE pending = NoStep /\ TypeOK
  BY <1>1, MakeFacts, NothingPending DEF IInv
<1>2. CASE ThirdTime(c)
  <2>1. /\ calls' \in Seq(Calls) /\ Len(calls') <= REPEAT_LIMIT
    BY <1>2, CallsAfter DEF IInv, ThirdTime
  <2>2. TypeOK /\ turn' \in 0..MaxSteps /\ pc = "asking" /\ pending = NoStep
    BY <1>2, NothingPending, LimitsAssumption DEF IInv, TypeOK, ThirdTime, NextTurn, Spent
  <2>3. QED
    BY <1>2, <2>1, <2>2 DEF TypeOK, ThirdTime, StopAs, StuckReasons
<1>3. CASE Unusable(c) \/ RequestConfirmation(c) \/ GiveUp(c) \/ Done(c)
  <2>1. Make(c)
    BY <1>3 DEF Unusable, RequestConfirmation, GiveUp, Done
  <2>2. QED
    BY <1>1, <1>3, <2>1, MakeFacts
    DEF TypeOK, Unusable, RequestConfirmation, GiveUp, Done, Refusal, StopAs, StuckReasons, Make
<1>4. CASE Read(c)
  <2>1. Make(c)
    BY <1>4 DEF Read
  <2>2. outputs' \subseteq Controls
    BY <1>1, <1>4, <2>1, CallsAssumption DEF Read, TypeOK
  <2>3. QED
    BY <1>1, <1>4, <2>1, <2>2, MakeFacts DEF TypeOK, Read, Make
<1>5. CASE Works(c)
  <2>1. Make(c) /\ pc' = "observing"
    BY <1>5 DEF Works
  <2>2. pending' = NoStep \/ pending' \in [turn : {turn'}, risk : Risks]
    BY <1>5, StricterType DEF Works
  <2>3. QED
    BY <1>1, <1>5, <2>1, <2>2, MakeFacts DEF TypeOK, Works, Make
<1>6. CASE Fails(c)
  <2>1. Make(c) /\ pc' = "observing" /\ pending' = NoStep
    BY <1>6 DEF Fails
  <2>2. dialogs' \in [Controls -> DialogTypes \cup {Nothing}]
    BY <1>1, <1>6, <2>1 DEF Fails, Denied, GoesWrong, TypeOK
  <2>3. QED
    BY <1>1, <1>6, <2>1, <2>2, MakeFacts DEF TypeOK, Fails, Make
<1>7. QED
  BY <1>2, <1>3, <1>4, <1>5, <1>6 DEF ToolCall

LEMMA ObserveType == IInv /\ Observe => TypeOK'
<1> SUFFICES ASSUME IInv, Observe PROVE TypeOK'
  OBVIOUS
<1> USE DEF config
<1>1. TypeOK /\ unchanged < NO_PROGRESS_LIMIT /\ pc = "observing"
  BY DEF IInv, DetectorInv, Running, Observe
<1>2. steps' \in Seq([turn : 0..MaxSteps, risk : Risks])
  <2>1. pending # NoStep => pending \in [turn : 0..MaxSteps, risk : Risks]
    BY <1>1 DEF TypeOK
  <2>2. PICK late \in BOOLEAN : steps' = IF Kept(late) THEN Append(steps, pending) ELSE steps
    BY DEF Observe
  <2> DEFINE S == [turn : 0..MaxSteps, risk : Risks]
  <2>3. steps \in Seq(S) /\ (pending # NoStep => pending \in S)
    BY <1>1, <2>1 DEF TypeOK
  <2> HIDE DEF S
  <2>4. steps' \in Seq(S)
    BY <2>2, <2>3, AppendProperties DEF Kept
  <2>5. QED
    BY <2>4 DEF S
<1>3. unchanged' \in 0..NO_PROGRESS_LIMIT
  BY <1>1, LimitsAssumption DEF TypeOK, Observe
<1>4. /\ pc' \in {"asking", "concluding"}
      /\ stop' \in {stop, "no_progress"}
  BY DEF Observe, StopAs
<1>5. QED
  BY <1>1, <1>2, <1>3, <1>4 DEF TypeOK, Observe, StuckReasons

LEMMA StepType == IInv /\ [Next]_vars => TypeOK'
<1> SUFFICES ASSUME IInv, [Next]_vars PROVE TypeOK'
  OBVIOUS
<1> USE DEF config, detector, recording
<1>1. TypeOK
  BY DEF IInv
<1>2. CASE Enter
  <2>1. [turn |-> 0, risk |-> "safe"] \in [turn : 0..MaxSteps, risk : Risks]
    BY LimitsAssumption DEF Risks
  <2>2. steps' \in Seq([turn : 0..MaxSteps, risk : Risks])
    <3> DEFINE S == [turn : 0..MaxSteps, risk : Risks]
               entry == [turn |-> 0, risk |-> "safe"]
    <3>1. steps' = << entry >> \/ steps' = steps
      BY <1>2 DEF Enter
    <3>2. entry \in S /\ steps \in Seq(S)
      BY <1>1, <2>1 DEF TypeOK
    <3> HIDE DEF S, entry
    <3>3. << entry >> \in Seq(S)
      BY <3>2
    <3>4. steps' \in Seq(S)
      BY <3>1, <3>2, <3>3
    <3>5. QED
      BY <3>4 DEF S
  <2>3. pending = NoStep
    BY <1>1, <1>2 DEF TypeOK, Enter
  <2>4. QED
    BY <1>1, <1>2, <2>2, <2>3 DEF TypeOK, Enter, StopAs
<1>3. CASE OutOfBudget \/ ModelFails \/ TextReply
  <2>1. pc = "asking" /\ pending = NoStep
    BY <1>3, NothingPending DEF OutOfBudget, ModelFails, TextReply, NextTurn
  <2>2. turn' \in 0..MaxSteps
    BY <1>1, <1>3, LimitsAssumption
    DEF TypeOK, OutOfBudget, ModelFails, TextReply, NextTurn, Spent
  <2>3. QED
    BY <1>1, <1>3, <2>1, <2>2 DEF TypeOK, OutOfBudget, ModelFails, TextReply, StopAs, StuckReasons
<1>4. CASE \E c \in Calls : ToolCall(c)
  BY <1>4, ToolCallType
<1>5. CASE Observe
  BY <1>5, ObserveType
<1>6. CASE Conclude
  BY <1>1, <1>6 DEF TypeOK, Conclude, Outcomes
<1>7. CASE Crash
  BY <1>1, <1>7 DEF TypeOK, Crash
<1>8. CASE UNCHANGED vars
  BY <1>1, <1>8 DEF TypeOK, vars
<1>9. QED
  BY <1>2, <1>3, <1>4, <1>5, <1>6, <1>7, <1>8 DEF Next

-----------------------------------------------------------------------------
(* Every step keeps the detector's count in line with its windows.          *)

\* One more entry in the window of changes.
LEMMA StillAfter ==
    ASSUME NEW s \in Seq(BOOLEAN), NEW u \in Nat, NEW n \in Nat \ {0}, NEW changed \in BOOLEAN,
           Len(s) <= n, u < n, StillFor(s, u)
    PROVE  LET t == LastOf(Append(s, changed), n)
               v == IF changed THEN 0 ELSE u + 1
           IN  t \in Seq(BOOLEAN) /\ Len(t) <= n /\ StillFor(t, v)
<1> DEFINE t == LastOf(Append(s, changed), n)
           v == IF changed THEN 0 ELSE u + 1
<1>1. /\ t \in Seq(BOOLEAN)
      /\ Len(t) = IF Len(s) < n THEN Len(s) + 1 ELSE n
      /\ t[Len(t)] = changed
      /\ \A i \in 1..(Len(t) - 1) : t[i] = s[Len(s) + 1 - Len(t) + i]
  BY WindowAfter
<1> DEFINE l == Len(s)
           k == Len(t)
<1>2. l \in Nat /\ k \in Nat \ {0} /\ (k = l + 1 \/ k = l) /\ k <= n
  BY <1>1
<1>3. /\ u \in 0..l
      /\ \A i \in (l - u + 1)..l : ~s[i]
      /\ u < l => s[l - u]
  BY DEF StillFor
<1>4. /\ \A i \in 1..(k - 1) : t[i] = s[l + 1 - k + i]
      /\ k = IF l < n THEN l + 1 ELSE n
      /\ t[k] = changed
  BY <1>1
<1> HIDE DEF l, k, t
<1>5. CASE changed
  <2>1. v \in 0..k /\ (\A i \in (k - v + 1)..k : FALSE) /\ k - v = k
    BY <1>2, <1>5
  <2>2. QED
    BY <1>1, <1>2, <1>4, <1>5, <2>1 DEF StillFor, k, t
<1>6. CASE ~changed
  <2>1. v = u + 1 /\ v \in 0..k
    BY <1>2, <1>3, <1>4, <1>6
  <2>2. ASSUME NEW i \in (k - v + 1)..k PROVE ~t[i]
    <3>1. CASE i = k
      BY <1>4, <1>6, <3>1
    <3>2. CASE i # k
      <4>1. i \in 1..(k - 1) /\ l + 1 - k + i \in (l - u + 1)..l
        BY <1>2, <1>3, <2>1, <3>2
      <4>2. QED
        BY <1>3, <1>4, <4>1
    <3>3. QED
      BY <3>1, <3>2
  <2>3. ASSUME v < k PROVE t[k - v]
    <3>1. k - v \in 1..(k - 1) /\ l + 1 - k + (k - v) = l - u /\ u < l
      BY <1>2, <1>3, <2>1, <2>3
    <3>2. QED
      BY <1>3, <1>4, <3>1
  <2>4. QED
    BY <1>1, <1>2, <2>1, <2>2, <2>3 DEF StillFor, k, t
<1>7. QED
  BY <1>5, <1>6

LEMMA DetectorStep == IInv /\ [Next]_vars => DetectorInv'
<1> SUFFICES ASSUME IInv, [Next]_vars PROVE DetectorInv'
  OBVIOUS
<1> USE DEF detector
<1>1. DetectorInv /\ TypeOK
  BY DEF IInv
<1>2. CASE Enter \/ OutOfBudget \/ ModelFails \/ TextReply
  BY <1>1, <1>2
  DEF DetectorInv, Enter, OutOfBudget, ModelFails, TextReply, NextTurn, StopAs, Running
<1>3. ASSUME NEW c \in Calls, ToolCall(c) PROVE DetectorInv'
  <2>1. CASE ThirdTime(c)
    BY <1>1, <2>1 DEF DetectorInv, ThirdTime, StopAs, NextTurn, Running
  <2>2. CASE ~ThirdTime(c)
    <3>1. Make(c)
      BY <1>3, <2>2 DEF ToolCall, Unusable, RequestConfirmation, GiveUp, Done, Read, Works, Fails
    <3>2. UNCHANGED <<unchanged, changes>> /\ ~Repeated(calls') /\ pc = "asking" /\ stop = "none"
      BY <3>1, MakeFacts DEF Make
    <3>3. \/ stop' = stop
          \/ stop' \in {"gave_up", "done"} /\ pc' = "concluding"
      BY <1>3, <2>2 DEF ToolCall, Unusable, Refusal, RequestConfirmation, GiveUp, Done,
                        Read, Works, Fails, StopAs, recording
    <3>4. QED
      BY <1>1, <3>2, <3>3 DEF DetectorInv, Running
  <2>3. QED
    BY <2>1, <2>2
<1>4. CASE Observe
  <2>1. PICK changed \in BOOLEAN :
          IF Neutral(Last(calls))
          THEN UNCHANGED <<unchanged, changes>> /\ pc' = "asking" /\ UNCHANGED stop
          ELSE /\ unchanged' = IF changed THEN 0 ELSE unchanged + 1
               /\ changes' = LastOf(Append(changes, changed), NO_PROGRESS_LIMIT)
               /\ IF Stuck THEN StopAs("no_progress") ELSE pc' = "asking" /\ UNCHANGED stop
    BY <1>4 DEF Observe
  <2>2. pc = "observing" /\ calls' = calls
    BY <1>4 DEF Observe
  <2>3. CASE Neutral(Last(calls))
    BY <1>1, <2>1, <2>2, <2>3 DEF DetectorInv, Running
  <2>4. CASE ~Neutral(Last(calls))
    <3>1. unchanged \in Nat /\ unchanged < NO_PROGRESS_LIMIT /\ NO_PROGRESS_LIMIT \in Nat \ {0}
      BY <1>1, <2>2, LimitsAssumption DEF TypeOK, DetectorInv, Running
    <3>2. changes' \in Seq(BOOLEAN) /\ Len(changes') <= NO_PROGRESS_LIMIT
          /\ StillFor(changes', unchanged')
      BY <1>1, <2>1, <2>4, <3>1, StillAfter DEF DetectorInv
    <3>3. stop = "none" /\ ~Repeated(calls)
      BY <1>1, <2>2 DEF DetectorInv, Running
    <3>4. QED
      BY <2>1, <2>2, <2>4, <3>1, <3>2, <3>3 DEF DetectorInv, Stuck, StopAs, Running
  <2>5. QED
    BY <2>3, <2>4
<1>5. CASE Conclude \/ Crash
  BY <1>1, <1>5 DEF DetectorInv, Conclude, Crash, Running
<1>6. CASE UNCHANGED vars
  BY <1>1, <1>6 DEF DetectorInv, vars
<1>7. QED
  BY <1>2, <1>3, <1>4, <1>5, <1>6 DEF Next

-----------------------------------------------------------------------------
(* Every step keeps what is said of confirmations and dialogs.              *)

\* What the gate lets through while it performs a call was confirmed just before,
\* and a reply that accepts a confirm dialog is rated irreversible.
LEMMA PerformIsConfirmed ==
    ASSUME IInv, NEW c \in Calls, Make(c), NEW dialog,
           NEW reply \in Stricter[Declared(c)], NEW risk, NEW request,
           Perform(c, risk, request, dialog, reply)
    PROVE  ConfirmedJustBefore'
<1>1. /\ armed => Len(calls) >= 1 /\ calls[Len(calls)].tool = "request_confirmation"
      /\ Len(calls) >= 1 => Len(calls') >= 2 /\ calls'[Len(calls') - 1] = calls[Len(calls)]
      /\ handling' = handling /\ allow' = allow
  BY CallsAfter DEF IInv, ArmedByTheLastCall, Make, config
<1>2. passed' => Granted("irreversible")
  BY DEF Perform, Granted, Answerable
<1>3. answered'.type = "confirm" /\ answered'.response = "accept" => Granted("irreversible")
  <2>1. SUFFICES ASSUME answered'.type = "confirm", answered'.response = "accept"
                 PROVE  Granted("irreversible")
    OBVIOUS
  <2>2. dialog # Nothing
    BY <2>1 DEF Perform, NoDialog, Nothing
  <2>3. answered' = [on |-> c.on, type |-> dialog, response |-> c.dialog]
        /\ c.dialog # Nothing /\ dialog = Expected(c) /\ Granted(reply)
    BY <2>2 DEF Perform, Answerable
  <2>4. c.tool = "click"
    BY <2>3, CallsAssumption
  <2>5. Declared(c) = "irreversible"
    BY <2>1, <2>3, <2>4 DEF Declared
  <2>6. reply = "irreversible"
    BY <2>5 DEF Stricter
  <2>7. QED
    BY <2>3, <2>6
<1>4. QED
  BY <1>1, <1>2, <1>3 DEF ConfirmedJustBefore, Granted

LEMMA ConfirmationStep ==
    IInv /\ [Next]_vars => ArmedByTheLastCall' /\ ConfirmedJustBefore'
<1> SUFFICES ASSUME IInv, [Next]_vars PROVE ArmedByTheLastCall' /\ ConfirmedJustBefore'
  OBVIOUS
<1>1. ArmedByTheLastCall /\ ConfirmedJustBefore
  BY DEF IInv
<1>2. ASSUME UNCHANGED <<calls, armed, allow, handling, passed, answered>>
      PROVE  ArmedByTheLastCall' /\ ConfirmedJustBefore'
  BY <1>1, <1>2 DEF ArmedByTheLastCall, ConfirmedJustBefore
<1>3. CASE Enter \/ OutOfBudget \/ ModelFails \/ TextReply \/ Observe \/ Conclude \/ Crash
           \/ UNCHANGED vars
  BY <1>2, <1>3 DEF Enter, OutOfBudget, ModelFails, TextReply, Observe, Conclude, Crash,
                    vars, config, detector
<1>4. ASSUME NEW c \in Calls, ToolCall(c) PROVE ArmedByTheLastCall' /\ ConfirmedJustBefore'
  <2>1. ASSUME passed' = FALSE, answered' = NoDialog PROVE ConfirmedJustBefore'
    BY <2>1 DEF ConfirmedJustBefore, NoDialog, Nothing
  <2>2. CASE ThirdTime(c)
    <3>1. /\ Len(calls') >= 1 /\ calls'[Len(calls')] = c
      BY <2>2, CallsAfter DEF IInv, ThirdTime
    <3>2. QED
      BY <2>1, <2>2, <3>1 DEF ThirdTime, ArmedByTheLastCall
  <2>3. CASE Unusable(c) \/ RequestConfirmation(c) \/ GiveUp(c) \/ Done(c)
    <3>1. Make(c)
      BY <2>3 DEF Unusable, RequestConfirmation, GiveUp, Done
    <3>2. QED
      BY <2>1, <2>3, <3>1, MakeFacts
      DEF Unusable, Refusal, RequestConfirmation, GiveUp, Done
  <2>4. CASE Read(c)
    <3>1. Make(c) /\ \E risk, request \in Risks : Perform(c, risk, request, Nothing, "safe")
      BY <2>4 DEF Read
    <3>2. c.tool # "click" /\ c.tool # "type_text"
      BY <2>4 DEF Read
    <3>3. "safe" \in Stricter[Declared(c)]
      BY <3>2, CallsAssumption DEF Declared, Stricter, Risks, Nothing
    <3>4. QED
      BY <3>1, <3>3, PerformIsConfirmed, MakeFacts
  <2>5. CASE Works(c)
    BY <2>5, PerformIsConfirmed, MakeFacts DEF Works
  <2>6. CASE Fails(c)
    BY <2>1, <2>6, PerformIsConfirmed, MakeFacts DEF Fails, Denied, GoesWrong
  <2>7. QED
    BY <1>4, <2>2, <2>3, <2>4, <2>5, <2>6 DEF ToolCall
<1>5. QED
  BY <1>3, <1>4 DEF Next

\* The dialog a call answers was shown on the control the call names.
LEMMA PerformAnswersShown ==
    ASSUME IInv, NEW c \in Calls, Seen(c), NEW dialog, NEW reply, NEW risk, NEW request,
           Perform(c, risk, request, dialog, reply), shown \subseteq shown'
    PROVE  AnswersWhatWasShown'
<1> SUFFICES ASSUME answered' # NoDialog PROVE AnswersWhatWasShown'
  BY DEF AnswersWhatWasShown
<1>1. dialog # Nothing
  BY DEF Perform
<1>2. /\ answered' = [on |-> c.on, type |-> dialog, response |-> c.dialog]
      /\ c.dialog # Nothing /\ dialog = Expected(c)
  BY <1>1 DEF Perform, Answerable
<1>3. c.on \in Controls
  BY <1>2, CallsAssumption
<1>4. dialogs[c.on] # Nothing
  BY <1>2 DEF Seen
<1>5. <<c.on, dialogs[c.on]>> \in shown'
  BY <1>3, <1>4 DEF IInv, RememberedWasShown
<1>6. dialogs[c.on] = "confirm" <=> answered'.type = "confirm"
  BY <1>2 DEF Expected
<1>7. QED
  BY <1>2, <1>5, <1>6 DEF AnswersWhatWasShown

LEMMA DialogStep == IInv /\ [Next]_vars => RememberedWasShown' /\ AnswersWhatWasShown'
<1> SUFFICES ASSUME IInv, [Next]_vars PROVE RememberedWasShown' /\ AnswersWhatWasShown'
  OBVIOUS
<1>1. RememberedWasShown /\ AnswersWhatWasShown
  BY DEF IInv
<1>2. ASSUME UNCHANGED <<dialogs, shown>> PROVE RememberedWasShown'
  BY <1>1, <1>2 DEF RememberedWasShown
<1>3. ASSUME UNCHANGED <<shown, answered>> PROVE AnswersWhatWasShown'
  BY <1>1, <1>3 DEF AnswersWhatWasShown
<1>4. ASSUME answered' = NoDialog PROVE AnswersWhatWasShown'
  BY <1>4 DEF AnswersWhatWasShown
<1>5. CASE Enter \/ OutOfBudget \/ ModelFails \/ TextReply \/ Observe \/ Conclude \/ Crash
           \/ UNCHANGED vars
  BY <1>2, <1>3, <1>5 DEF Enter, OutOfBudget, ModelFails, TextReply, Observe, Conclude, Crash, vars
<1>6. ASSUME NEW c \in Calls, ToolCall(c) PROVE RememberedWasShown' /\ AnswersWhatWasShown'
  <2>1. CASE ThirdTime(c) \/ Unusable(c) \/ RequestConfirmation(c) \/ GiveUp(c) \/ Done(c)
    BY <1>2, <1>4, <2>1 DEF ThirdTime, Unusable, RequestConfirmation, GiveUp, Done, Refusal
  <2>2. CASE Read(c)
    <3>1. answered' = NoDialog
      BY <2>2 DEF Read, Perform
    <3>2. QED
      BY <1>2, <1>4, <2>2, <3>1 DEF Read
  <2>3. CASE Works(c)
    BY <1>2, <2>3, PerformAnswersShown DEF Works
  <2>4. CASE Fails(c)
    <3>1. Seen(c) /\ (Denied \/ GoesWrong(c))
      BY <2>4 DEF Fails
    <3>2. CASE Denied
      BY <1>2, <1>4, <3>2 DEF Denied
    <3>3. CASE GoesWrong(c)
      <4>1. AnswersWhatWasShown'
        BY <3>1, <3>3, PerformAnswersShown DEF GoesWrong
      <4>2. CASE UNCHANGED <<dialogs, shown>>
        BY <1>2, <4>1, <4>2
      <4>3. CASE ~UNCHANGED <<dialogs, shown>>
        <5>1. PICK unexpected \in DialogTypes :
                /\ dialogs' = [dialogs EXCEPT ![c.on] = unexpected]
                /\ shown' = shown \cup {<<c.on, unexpected>>}
          BY <3>3, <4>3 DEF GoesWrong
        <5>2. dialogs \in [Controls -> DialogTypes \cup {Nothing}]
          BY DEF IInv, TypeOK
        <5>3. QED
          BY <1>1, <4>1, <5>1, <5>2 DEF RememberedWasShown
      <4>4. QED
        BY <4>2, <4>3
    <3>4. QED
      BY <3>1, <3>2, <3>3
  <2>5. QED
    BY <1>6, <2>1, <2>2, <2>3, <2>4 DEF ToolCall
<1>7. QED
  BY <1>5, <1>6 DEF Next

-----------------------------------------------------------------------------
(* Every step keeps the recording in line with what the model was told.     *)

\* A turn that has just begun is new to the recording and to the logs of the turns.
LEMMA NewTurn ==
    ASSUME IInv, pc = "asking", turn' = turn + 1
    PROVE  /\ turn \in Nat /\ turn' \in Nat /\ turn' \notin acted /\ turn' \notin wrong
           /\ acted \subseteq 1..turn' /\ wrong \subseteq 1..turn' /\ turn' \in 1..turn'
           /\ \A i \in DOMAIN steps : steps[i].turn \in 0..turn' /\ steps[i].turn < turn'
           /\ steps # << >> /\ pending = NoStep /\ RecordedTurns = {0} \cup (acted \ wrong)
<1>1. turn \in Nat
  BY LimitsAssumption DEF IInv, TypeOK
<1>2. pending = NoStep
  BY NothingPending
<1>3. /\ acted \subseteq 1..turn /\ wrong \subseteq 1..turn
      /\ \A i \in DOMAIN steps : steps[i].turn \in 0..turn
      /\ steps # << >>
      /\ RecordedTurns \cup PendingTurn = {0} \cup (acted \ wrong)
  BY DEF IInv, RecordingInv
<1>4. PendingTurn = {}
  BY <1>2 DEF PendingTurn
<1>5. QED
  BY <1>1, <1>2, <1>3, <1>4

LEMMA ToolCallRecording == ASSUME IInv, NEW c \in Calls, ToolCall(c) PROVE RecordingInv'
<1>1. pc = "asking" /\ turn' = turn + 1 /\ steps' = steps
  BY DEF ToolCall, ThirdTime, Unusable, Refusal, RequestConfirmation, GiveUp, Done, Read,
         Works, Fails, Make, NextTurn, recording
<1>2. /\ turn \in Nat /\ turn' \in Nat /\ turn' \notin acted /\ turn' \notin wrong
      /\ acted \subseteq 1..turn' /\ wrong \subseteq 1..turn' /\ turn' \in 1..turn'
      /\ \A i \in DOMAIN steps : steps[i].turn \in 0..turn' /\ steps[i].turn < turn'
      /\ steps # << >> /\ pending = NoStep /\ RecordedTurns = {0} \cup (acted \ wrong)
  BY <1>1, NewTurn
<1>3. \A i, j \in DOMAIN steps : i < j => steps[i].turn < steps[j].turn
  BY DEF IInv, RecordingInv
<1>4. RecordedTurns' = RecordedTurns
  BY <1>1 DEF RecordedTurns
<1>5. ASSUME pending' = NoStep, acted' \in {acted, acted \cup {turn'}},
             wrong' = wrong \cup {turn'} \/ (wrong' = wrong /\ acted' = acted),
             pc' # "entering"
      PROVE  RecordingInv'
  <2>1. PendingTurn' = {}
    BY <1>5 DEF PendingTurn
  <2>2. acted' \ wrong' = acted \ wrong
    BY <1>2, <1>5
  <2>3. QED
    BY <1>1, <1>2, <1>3, <1>4, <1>5, <2>1, <2>2 DEF RecordingInv
<1>6. CASE ThirdTime(c) \/ Unusable(c) \/ RequestConfirmation(c) \/ GiveUp(c) \/ Done(c)
  <2>1. acted' = acted /\ pending' = pending /\ wrong' \in {wrong, wrong \cup {turn'}}
    BY <1>6 DEF ThirdTime, Unusable, Refusal, RequestConfirmation, GiveUp, Done, recording
  <2>2. pc' # "entering"
    BY <1>1, <1>6 DEF ThirdTime, Unusable, Refusal, RequestConfirmation, GiveUp, Done, StopAs
  <2>3. pending' = NoStep /\ acted' \in {acted, acted \cup {turn'}}
    BY <1>2, <2>1
  <2>4. wrong' = wrong \cup {turn'} \/ (wrong' = wrong /\ acted' = acted)
    BY <2>1
  <2>5. QED
    BY <1>5, <2>2, <2>3, <2>4
<1>7. CASE Read(c)
  BY <1>1, <1>2, <1>5, <1>7 DEF Read
<1>8. CASE Fails(c)
  BY <1>2, <1>5, <1>8 DEF Fails, NoteAct
<1>9. CASE Works(c)
  <2>1. pc' = "observing" /\ wrong' = wrong
    BY <1>9 DEF Works
  <2>2. CASE c.tool = "scroll"
    BY <1>5, <1>9, <2>1, <2>2 DEF Works, NoteAct
  <2>3. CASE c.tool # "scroll"
    <3>1. acted' = acted \cup {turn'} /\ pending'.turn = turn' /\ pending' # NoStep
      BY <1>2, <1>9, <2>3 DEF Works, NoteAct, NoStep
    <3>2. PendingTurn' = {turn'}
      BY <3>1 DEF PendingTurn
    <3>3. acted' \ wrong' = (acted \ wrong) \cup {turn'}
      BY <1>2, <2>1, <3>1
    <3>4. QED
      BY <1>1, <1>2, <1>3, <1>4, <2>1, <3>1, <3>2, <3>3 DEF RecordingInv
  <2>4. QED
    BY <2>2, <2>3
<1>10. QED
  BY <1>6, <1>7, <1>8, <1>9 DEF ToolCall

LEMMA ObserveRecording == IInv /\ Observe => RecordingInv'
<1> SUFFICES ASSUME IInv, Observe PROVE RecordingInv'
  OBVIOUS
<1>1. PICK late \in BOOLEAN :
        /\ steps' = IF Kept(late) THEN Append(steps, pending) ELSE steps
        /\ wrong' = IF late THEN wrong \cup {turn} ELSE wrong
  BY DEF Observe
<1>2. /\ pc = "observing" /\ pc' \in {"asking", "concluding"}
      /\ UNCHANGED <<turn, acted>> /\ pending' = NoStep
  BY DEF Observe, StopAs
<1>3. /\ acted \subseteq 1..turn /\ wrong \subseteq 1..turn
      /\ \A i \in DOMAIN steps : steps[i].turn \in 0..turn /\ steps[i].turn < turn
      /\ \A i, j \in DOMAIN steps : i < j => steps[i].turn < steps[j].turn
      /\ steps # << >>
      /\ RecordedTurns \cup PendingTurn = {0} \cup (acted \ wrong)
  BY <1>2 DEF IInv, RecordingInv
<1> DEFINE S == [turn : 0..MaxSteps, risk : Risks]
<1>4. /\ turn \in Nat /\ steps \in Seq(S)
      /\ pending # NoStep => pending \in S /\ pending.turn = turn
  BY LimitsAssumption DEF IInv, TypeOK
<1> HIDE DEF S
<1>5. turn \in 1..turn
  <2>1. 1 \in DOMAIN steps
    BY <1>3, <1>4
  <2>2. QED
    BY <1>3, <1>4, <2>1
<1>6. PendingTurn' = {}
  BY <1>2 DEF PendingTurn
<1>7. acted' \subseteq 1..turn' /\ wrong' \subseteq 1..turn'
  BY <1>1, <1>2, <1>3, <1>5
<1>8. CASE Kept(late)
  <2>1. ~late /\ pending # NoStep /\ steps' = Append(steps, pending) /\ wrong' = wrong
    BY <1>1, <1>8 DEF Kept
  <2>2. PendingTurn = {turn}
    BY <1>4, <2>1 DEF PendingTurn
  <2>3. /\ Len(steps') = Len(steps) + 1 /\ Len(steps) \in Nat /\ steps' # << >>
        /\ DOMAIN steps = 1..Len(steps) /\ DOMAIN steps' = 1..(Len(steps) + 1)
        /\ \A i \in DOMAIN steps : steps'[i] = steps[i]
        /\ steps'[Len(steps) + 1].turn = turn
    BY <1>4, <2>1, AppendProperties, LenProperties
  <2>4. RecordedTurns' = RecordedTurns \cup {turn}
    <3>1. \A i \in DOMAIN steps' : i \in DOMAIN steps \/ i = Len(steps) + 1
      BY <2>3
    <3>2. DOMAIN steps \subseteq DOMAIN steps' /\ Len(steps) + 1 \in DOMAIN steps'
      BY <2>3
    <3>3. QED
      BY <2>3, <3>1, <3>2 DEF RecordedTurns
  <2>5. \A i \in DOMAIN steps' : steps'[i].turn \in 0..turn
    BY <1>3, <1>4, <2>3
  <2>6. \A i, j \in DOMAIN steps' : i < j => steps'[i].turn < steps'[j].turn
    BY <1>3, <1>4, <2>3
  <2>7. RecordedTurns' \cup PendingTurn' = {0} \cup (acted' \ wrong')
    BY <1>2, <1>3, <1>6, <2>1, <2>2, <2>4
  <2>8. QED
    BY <1>2, <1>7, <2>3, <2>5, <2>6, <2>7 DEF RecordingInv
<1>9. CASE ~Kept(late)
  <2>1. steps' = steps /\ RecordedTurns' = RecordedTurns
    BY <1>1, <1>9 DEF RecordedTurns
  <2>2. turn \notin RecordedTurns
    BY <1>3, <1>4 DEF RecordedTurns
  <2>3. CASE late
    <3>1. wrong' = wrong \cup {turn}
      BY <1>1, <2>3
    <3>2. PendingTurn \subseteq {turn}
      BY <1>4 DEF PendingTurn
    <3>3. {0} \cup (acted' \ wrong') = RecordedTurns
      <4>1. turn # 0
        BY <1>4, <1>5
      <4>2. RecordedTurns \cup PendingTurn = {0} \cup (acted \ wrong) /\ acted' = acted
        BY <1>2, <1>3
      <4>3. QED
        BY <2>2, <3>1, <3>2, <4>1, <4>2
    <3>4. QED
      BY <1>2, <1>3, <1>6, <1>7, <2>1, <3>3 DEF RecordingInv
  <2>4. CASE ~late
    <3>1. wrong' = wrong /\ PendingTurn = {}
      BY <1>1, <1>9, <2>4 DEF Kept, PendingTurn
    <3>2. QED
      BY <1>2, <1>3, <1>6, <1>7, <2>1, <3>1 DEF RecordingInv
  <2>5. QED
    BY <2>3, <2>4
<1>10. QED
  BY <1>8, <1>9

LEMMA RecordingStep == IInv /\ [Next]_vars => RecordingInv'
<1> SUFFICES ASSUME IInv, [Next]_vars PROVE RecordingInv'
  OBVIOUS
<1> USE DEF recording
<1>1. RecordingInv /\ (pending = NoStep \/ pc \in {"observing", "ended"})
  BY DEF IInv, TypeOK
<1>2. CASE Enter
  <2>1. /\ pc = "entering" /\ pc' \in {"asking", "concluding"} /\ pending' = NoStep
        /\ UNCHANGED <<turn, acted, wrong>>
    BY <1>1, <1>2 DEF Enter, StopAs
  <2>2. turn = 0 /\ acted = {} /\ wrong = {}
    BY <1>1, <2>1 DEF RecordingInv
  <2>3. PendingTurn' = {}
    BY <2>1 DEF PendingTurn
  <2>4. CASE steps' = << [turn |-> 0, risk |-> "safe"] >>
    <3>1. DOMAIN steps' = {1} /\ steps'[1].turn = 0 /\ steps' # << >>
      BY <2>4
    <3>2. RecordedTurns' = {0}
      BY <3>1 DEF RecordedTurns
    <3>3. QED
      BY <2>1, <2>2, <2>3, <3>1, <3>2 DEF RecordingInv
  <2>5. CASE steps' = steps /\ pc' = "concluding"
    BY <1>1, <2>1, <2>2, <2>5 DEF RecordingInv
  <2>6. QED
    BY <1>2, <2>4, <2>5 DEF Enter, StopAs
<1>3. CASE ModelFails \/ TextReply
  <2>1. /\ pc = "asking" /\ pc' \in {"asking", "concluding"} /\ turn' = turn + 1
        /\ UNCHANGED recording
    BY <1>3 DEF ModelFails, TextReply, NextTurn, StopAs
  <2>2. RecordedTurns' = RecordedTurns /\ PendingTurn' = {}
    BY <2>1, NothingPending DEF RecordedTurns, PendingTurn
  <2>3. QED
    BY <1>1, <2>1, <2>2, NewTurn DEF RecordingInv
<1>4. CASE \E c \in Calls : ToolCall(c)
  BY <1>4, ToolCallRecording
<1>5. CASE Observe
  BY <1>5, ObserveRecording
<1>6. CASE OutOfBudget \/ Conclude \/ Crash \/ UNCHANGED vars
  <2>1. UNCHANGED <<turn, recording>>
    BY <1>6 DEF OutOfBudget, Conclude, Crash, vars
  <2>2. RecordedTurns' = RecordedTurns /\ PendingTurn' = PendingTurn
    BY <2>1 DEF RecordedTurns, PendingTurn
  <2>3. pc' = pc \/ pc' = "ended" \/ (pc = "asking" /\ pc' = "concluding")
    BY <1>6 DEF OutOfBudget, Conclude, Crash, vars, StopAs
  <2>4. QED
    BY <1>1, <2>1, <2>2, <2>3 DEF RecordingInv
<1>7. QED
  BY <1>2, <1>3, <1>4, <1>5, <1>6 DEF Next

-----------------------------------------------------------------------------
(* The invariant holds, and with it what the runs check.                    *)

\* Whatever the model, the page and the policy do, every reachable state of a
\* discovery run satisfies the inductive invariant.
THEOREM Invariance == Spec => []IInv
<1>1. Init => IInv
  BY InitInv
<1>2. IInv /\ [Next]_vars => IInv'
  <2>1. SUFFICES ASSUME IInv, [Next]_vars PROVE IInv'
    OBVIOUS
  <2>2. TypeOK' /\ DetectorInv'
    BY <2>1, StepType, DetectorStep
  <2>3. ArmedByTheLastCall' /\ ConfirmedJustBefore'
    BY <2>1, ConfirmationStep
  <2>4. RememberedWasShown' /\ AnswersWhatWasShown'
    BY <2>1, DialogStep
  <2>5. RecordingInv'
    BY <2>1, RecordingStep
  <2>6. QED
    BY <2>2, <2>3, <2>4, <2>5 DEF IInv
<1>3. QED
  BY <1>1, <1>2, PTL DEF Spec

\* The state has its shape; turns, stuck windows and the log keep to their limits,
\* however many turns and whatever the limits.
THEOREM TypeCorrect == Spec => []TypeOK
<1>1. IInv => TypeOK
  BY DEF IInv
<1>2. QED
  BY <1>1, Invariance, PTL

\* Whatever irreversible the gate of a discovery run lets through comes right
\* after a confirmation that this run and its policy allow.
THEOREM ConfirmationCoversOneCall == Spec => []ConfirmedJustBefore
<1>1. IInv => ConfirmedJustBefore
  BY DEF IInv
<1>2. QED
  BY <1>1, Invariance, PTL

\* A native dialog is answered only on a control whose dialog the model was told of.
THEOREM AnswersOnlyWhatWasShown == Spec => []AnswersWhatWasShown
<1>1. IInv => AnswersWhatWasShown
  BY DEF IInv
<1>2. QED
  BY <1>1, Invariance, PTL

\* The detector's count and the windows agree: a run goes on exactly while neither
\* the calls nor the screens have been the same for as long as its limits say.
THEOREM StuckIsNoticed == Spec => []StuckEndsTheRun
<1>1. IInv => StuckEndsTheRun
  <2> SUFFICES ASSUME IInv PROVE StuckEndsTheRun
    OBVIOUS
  <2> DEFINE n == NO_PROGRESS_LIMIT
             still == SameThroughout(changes, n) /\ ~Last(changes)
  <2>1. Repeated(calls) <=> SameThroughout(calls, REPEAT_LIMIT)
    BY RepeatedIsSame DEF IInv, TypeOK
  <2>2. /\ n \in Nat \ {0} /\ Len(changes) \in Nat /\ Len(changes) <= n
        /\ StillFor(changes, unchanged) /\ unchanged \in 0..n
    BY LimitsAssumption DEF IInv, DetectorInv, TypeOK
  <2>3. ASSUME unchanged = n PROVE still
    <3>1. Len(changes) = n
      BY <2>2, <2>3 DEF StillFor
    <3>2. changes \in Seq(BOOLEAN) /\ \A i \in 1..n : changes[i] \in BOOLEAN /\ ~changes[i]
      BY <2>2, <2>3, <3>1 DEF StillFor, IInv, DetectorInv
    <3>3. QED
      BY <2>2, <3>1, <3>2 DEF SameThroughout, Last
  <2>4. ASSUME still PROVE unchanged = n
    <3>1. Len(changes) = n /\ \A i, j \in 1..n : changes[i] = changes[j]
      BY <2>2, <2>4 DEF SameThroughout
    <3>2. ~changes[n]
      BY <2>4, <3>1 DEF Last
    <3>3. SUFFICES ASSUME unchanged < n PROVE FALSE
      BY <2>2
    <3>4. n - unchanged \in 1..n /\ changes[n - unchanged]
      BY <2>2, <3>1, <3>3 DEF StillFor
    <3>5. QED
      BY <2>2, <3>1, <3>2, <3>4
  <2>5. QED
    BY <2>1, <2>2, <2>3, <2>4 DEF IInv, DetectorInv, StuckEndsTheRun, Running
<1>2. QED
  BY <1>1, Invariance, PTL

\* Every recording stands for the entry and exactly the acts the model was not told
\* went wrong, one step for each and in order, however long the run.
THEOREM RecordingIsAsTold == Spec => []RecordedAsTold
<1>1. IInv => RecordedAsTold
  <2> SUFFICES ASSUME IInv, pc \in {"asking", "concluding"}, steps # << >>
               PROVE  /\ RecordedTurns = {0} \cup (acted \ wrong)
                      /\ \A i, j \in DOMAIN steps : i < j => steps[i].turn < steps[j].turn
    BY DEF RecordedAsTold, RecordedTurns
  <2>1. pending = NoStep
    BY DEF IInv, TypeOK
  <2>2. PendingTurn = {}
    BY <2>1 DEF PendingTurn
  <2>3. QED
    BY <2>2 DEF IInv, RecordingInv
<1>2. QED
  BY <1>1, Invariance, PTL
=============================================================================
