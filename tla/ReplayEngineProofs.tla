-------------------------- MODULE ReplayEngineProofs --------------------------
(***************************************************************************)
(* Theorems about ReplayEngine, for flows of any length, any detectors and *)
(* timeouts, whatever the page shows.  The invariant IInv describes the    *)
(* stack of polls: the flow's step at the bottom, re-run steps above it,   *)
(* and for each recovery that was begun a record or an open frame.  Earned *)
(* and Depth, beside it, are about the records and how waits nest.         *)
(***************************************************************************)
EXTENDS ReplayEngine, SequenceTheorems, FiniteSetTheorems, TLAPS

-----------------------------------------------------------------------------
(* The invariant.                                                           *)

Frame == [step : 1..Steps, use : Uses,
          opened : [Detectors -> [open : BOOLEAN, window : (0..Window) \cup {NoWindow}]],
          left : 0..Timeout, budget : 0..Timeout, skip : BOOLEAN,
          via : Detectors \cup {"none"}, rest : Seq((1..Steps) \ Irreversible)]
Record == [type : {"automatic", "human"}, step : 1..SuccessCheck,
           detector : Detectors \cup {"none"}, succeeded : BOOLEAN]
Codes == Detectors \cup {"none", "STEP_FAILED", "OUTPUT_EXTRACTION_FAILED", "POLICY_BLOCKED",
                         "TARGET_CHANGED", "POST_HANDOFF_CHECKPOINT_FAILED", "OPERATOR_ABORTED"}
Reasons == {"none", "FAILED", "IRREVERSIBLE_NEEDS_HUMAN", "POST_HANDOFF_CHECKPOINT_FAILED"}
StopType == [status : {"none", "hard_failure", "business_outcome", "escalated"},
             code : Codes, reason : Reasons]

FlowUses == {"resolve", "act", "wait"}
EndUses == {"success", "read"}
HandbackUses == {"rewait", "pass", "passed"}
Acted == {"wait", "rewait", "pass", "passed"}

\* What a frame at level n of the stack is: the flow's own step at the bottom, a
\* step that is re-run above it, never an irreversible one.  A frame about to act
\* has no recovery open, and the detector it is re-running steps for is open.
Fits(f, n, a, rv) ==
    /\ f \in Frame
    /\ f.use = "act" => Opened(f) = {}
    /\ f.via # "none" => f.opened[f.via].open
    /\ n = 1 =>
        /\ ~f.skip
        /\ f.use \in FlowUses => a <= Steps /\ f.step = a
        /\ f.use \in FlowUses \cup EndUses => ~rv
    /\ n > 1 => f.use \in FlowUses /\ f.step \notin Irreversible

\* Every frame but the top one re-runs steps.
Shape(s, a, rv) ==
    /\ s \in Seq(Frame)
    /\ \A i \in 1..Len(s) : Fits(s[i], i, a, rv)
    /\ \A i \in 1..Len(s) : i < Len(s) => s[i].via # "none"

\* Every attempt is recorded, or will be when its frame is closed.
Listed(recs, s, d) == \E i \in 1..Len(recs) : recs[i].step = s /\ recs[i].detector = d
InProgress(stk, s, d) == \E i \in 1..Len(stk) : stk[i].step = s /\ stk[i].opened[d].open
Accounted(att, recs, stk) ==
    \A s \in 1..Steps, d \in Detectors :
        att[s][d] > 0 => Listed(recs, s, d) \/ InProgress(stk, s, d)

\* An irreversible step reached the app at most once; if it did, the flow is past
\* it or past its action, or will not act again before a hand-back.
Once(done, p, a, stk) ==
    \A s \in Irreversible :
        /\ done[s] \in {0, 1}
        /\ done[s] = 1 => \/ s < a
                          \/ s = a /\ (p # "running" \/ stk[1].use \in Acted)

\* Every failed recovery has a hand-back behind it.
ExcusedIn(recs) ==
    \A i \in 1..Len(recs) : recs[i].type = "automatic" /\ ~recs[i].succeeded =>
        \E j \in i + 1..Len(recs) : recs[j].type = "human" /\ recs[j].succeeded
Excused == ExcusedIn(recoveries)

OwnFailures == {"STEP_FAILED", "OUTPUT_EXTRACTION_FAILED"}

\* A failed recovery that nobody handed back after is owned by the frame below it,
\* whose detector opened it; so a step's own failure is raised without one.
Owned ==
    /\ pc = "running" /\ ~reverifying => Excused
    /\ pc \in {"raising", "asking"} /\ ~reverifying =>
        /\ Excused \/ stack = << >> \/ Last(stack).via # "none"
        /\ stop.status = "hard_failure" /\ stop.code \in OwnFailures =>
            /\ Excused
            /\ stack # << >> => Opened(Last(stack)) = {}
            /\ stop.code = "OUTPUT_EXTRACTION_FAILED" => Len(stack) <= 1

Ended ==
    /\ pc # "ended" => result = "none"
    /\ result \in {"success", "recovered_then_success"} => Excused
    /\ result = "hard_failure" /\ stop.code \in OwnFailures => Excused

Typed ==
    /\ pc \in PCs
    /\ at \in 1..SuccessCheck
    /\ stop \in StopType
    /\ reverifying \in BOOLEAN /\ answered \in BOOLEAN /\ attended \in BOOLEAN
    /\ pauses \in 0..MAX_HUMAN_PAUSES
    /\ attempts \in [1..Steps -> [Detectors -> Nat]]
    /\ recoveries \in Seq(Record)
    /\ performed \in [1..Steps -> Nat]
    /\ pc = "running" => stack # << >>
    /\ pc = "ended" => stack = << >> \/ stop.code = "OPERATOR_ABORTED"

IInv ==
    /\ Typed
    /\ Shape(stack, at, reverifying)
    /\ Accounted(attempts, recoveries, stack)
    /\ AttemptsAreCapped
    /\ Once(performed, pc, at, stack)
    /\ Owned
    /\ Ended

-----------------------------------------------------------------------------
(* Sequences.                                                               *)

\* SetToSeq lists every member of a finite set.
LEMMA SetToSeqIs ==
    ASSUME NEW S, IsFiniteSet(S)
    PROVE  /\ SetToSeq(S) \in Seq(S)
           /\ \A x \in S : \E i \in 1..Len(SetToSeq(S)) : SetToSeq(S)[i] = x
<1> DEFINE n == Cardinality(S)
           q == SetToSeq(S)
<1>1. n \in Nat /\ ExistsBijection(1..n, S)
  BY FS_CardinalityType
<1>2. PICK b \in Bijection(1..n, S) : TRUE
  BY <1>1 DEF ExistsBijection
<1>3. b \in [1..n -> S] /\ IsInjective(b)
  BY <1>2 DEF Bijection, Injection, Surjection, IsInjective
<1>4. q \in [1..n -> S] /\ IsInjective(q)
  BY <1>3 DEF SetToSeq
<1>5. q \in Injection(1..n, S)
  BY <1>4 DEF Injection, IsInjective
<1> HIDE DEF q
<1>6. Cardinality(1..n) = n
  BY <1>1, FS_Interval
<1>7. q \in Surjection(1..n, S)
  BY <1>5, <1>6, FS_Injection
<1>8. q \in Seq(S) /\ Len(q) = n
  BY <1>1, <1>4
<1>9. \A x \in S : \E i \in 1..n : q[i] = x
  BY <1>7 DEF Surjection
<1>10. QED
  BY <1>8, <1>9 DEF q

LEMMA FrontIs ==
    ASSUME NEW T, NEW s \in Seq(T), s # << >>
    PROVE  /\ Front(s) \in Seq(T) /\ Len(s) \in Nat \ {0} /\ Len(Front(s)) = Len(s) - 1
           /\ \A i \in 1..Len(s) - 1 : Front(s)[i] = s[i]
           /\ Last(s) \in T /\ Last(s) = s[Len(s)]
           /\ Front(s) = << >> <=> Len(s) = 1
<1>1. Len(s) \in Nat \ {0} /\ \A i \in 1..Len(s) : s[i] \in T
  BY EmptySeq, LenProperties
<1> DEFINE n == Len(s) - 1
           q == SubSeq(s, 1, n)
<1>2. n \in Int /\ 1 \in Int /\ \A i \in 1..n : s[i] \in T
  BY <1>1
<1> HIDE DEF n
<1>3. /\ q \in Seq(T) /\ Len(q) = IF 1 <= n THEN n - 1 + 1 ELSE 0
      /\ \A i \in 1..n - 1 + 1 : q[i] = s[1 + i - 1]
  BY <1>2, SubSeqProperties
<1> HIDE DEF q
<1>4. Len(q) = n /\ \A i \in 1..n : q[i] = s[i]
  <2>1. n \in Nat
    BY <1>1 DEF n
  <2>2. n - 1 + 1 = n /\ (~(1 <= n) => n = 0) /\ \A i \in 1..n : 1 + i - 1 = i
    BY <2>1
  <2>3. \A i \in 1..n : q[i] = s[1 + i - 1]
    BY <1>3, <2>2
  <2>4. QED
    BY <1>3, <2>2, <2>3
<1>5. q = << >> <=> n = 0
  BY <1>3, <1>4, EmptySeq
<1>6. Front(s) = q
  BY DEF Front, q, n
<1>7. QED
  BY <1>1, <1>3, <1>4, <1>5, <1>6 DEF n, Last

LEMMA AppendIs ==
    ASSUME NEW T, NEW s \in Seq(T), NEW f \in T
    PROVE  /\ Append(s, f) \in Seq(T) /\ Append(s, f) # << >>
           /\ Len(s) \in Nat /\ Len(Append(s, f)) = Len(s) + 1
           /\ \A i \in 1..Len(s) : Append(s, f)[i] = s[i]
           /\ Append(s, f)[Len(s) + 1] = f /\ Last(Append(s, f)) = f
           /\ Front(Append(s, f)) = s
<1> DEFINE q == Append(s, f)
<1>1. /\ q \in Seq(T) /\ q # << >> /\ Len(s) \in Nat /\ Len(q) = Len(s) + 1
      /\ \A i \in 1..Len(s) : q[i] = s[i]
      /\ q[Len(s) + 1] = f
  BY AppendProperties, LenProperties
<1> HIDE DEF q
<1>2. Last(q) = f
  BY <1>1 DEF Last
<1>3. Front(q) \in Seq(T) /\ Len(Front(q)) = Len(s) /\ \A i \in 1..Len(s) : Front(q)[i] = s[i]
  BY <1>1, FrontIs
<1>4. Front(q) = s
  BY <1>3, SeqEqual
<1>5. QED
  BY <1>1, <1>2, <1>4 DEF q

LEMMA PushIs ==
    ASSUME NEW T, NEW s \in Seq(T), NEW f \in T, NEW g \in T
    PROVE  s \o << f, g >> = Append(Append(s, f), g)
OBVIOUS

-----------------------------------------------------------------------------
(* Frames.                                                                  *)

Cell == [open : BOOLEAN, window : (0..Window) \cup {NoWindow}]
Cells == [Detectors -> Cell]

LEMMA FrameIs ==
    ASSUME NEW f \in Frame
    PROVE  /\ f.step \in 1..Steps /\ f.use \in Uses /\ f.opened \in Cells
           /\ f.left \in 0..Timeout /\ f.budget \in 0..Timeout /\ f.skip \in BOOLEAN
           /\ f.via \in Detectors \cup {"none"} /\ f.rest \in Seq((1..Steps) \ Irreversible)
           /\ Opened(f) = {d \in Detectors : f.opened[d].open}
BY DEF Frame, Cells, Cell, Opened

LEMMA PollIs ==
    ASSUME NEW step \in 1..Steps, NEW use \in Uses, NEW budget \in 0..Timeout, NEW skip \in BOOLEAN
    PROVE  LET f == Poll(step, use, budget, skip)
           IN  /\ f \in Frame /\ f.step = step /\ f.use = use /\ f.skip = skip
               /\ f.via = "none" /\ Opened(f) = {}
<1>1. NotOpened \in Cell /\ ~NotOpened.open
  BY DEF NotOpened, Cell, NoWindow
<1> DEFINE cells == [d \in Detectors |-> NotOpened]
<1>2. cells \in Cells /\ \A d \in Detectors : ~cells[d].open
  BY <1>1 DEF Cells
<1>3. Timeout \in 0..Timeout /\ << >> \in Seq((1..Steps) \ Irreversible)
  BY TimeAssumption
<1>4. Poll(step, use, budget, skip) =
        [step |-> step, use |-> use, opened |-> cells, left |-> Timeout,
         budget |-> budget, skip |-> skip, via |-> "none", rest |-> << >>]
  BY DEF Poll
<1> HIDE DEF cells
<1>5. Poll(step, use, budget, skip) \in Frame
  <2>1. Frame = [step : 1..Steps, use : Uses, opened : Cells, left : 0..Timeout, budget : 0..Timeout,
                 skip : BOOLEAN, via : Detectors \cup {"none"}, rest : Seq((1..Steps) \ Irreversible)]
    BY DEF Frame, Cells, Cell
  <2>2. QED
    BY <1>2, <1>3, <1>4, <2>1
<1>6. QED
  BY <1>2, <1>4, <1>5 DEF Opened

\* Opening a recovery changes that mark only.
LEMMA OpeningIs ==
    ASSUME NEW f \in Frame, NEW d \in Detectors
    PROVE  LET g == Opening(f, d)
           IN  /\ g \in Frame /\ g.step = f.step /\ g.use = f.use /\ g.skip = f.skip
               /\ g.via = f.via /\ g.rest = f.rest /\ g.opened[d].open
               /\ \A e \in Detectors : f.opened[e].open => g.opened[e].open
<1> DEFINE cell == [f.opened[d] EXCEPT !.open = TRUE]
           cells == [f.opened EXCEPT ![d] = cell]
           g == [f EXCEPT !.opened = cells]
<1>1. f.opened \in Cells /\ f.opened[d] \in Cell
  BY FrameIs DEF Cells
<1>2. cell \in Cell /\ cell.open
  BY <1>1 DEF Cell
<1>3. Opening(f, d) = g
  BY DEF Opening
<1> HIDE DEF cell
<1>4. cells \in Cells /\ cells[d] = cell /\ \A e \in Detectors : e # d => cells[e] = f.opened[e]
  BY <1>1, <1>2 DEF Cells
<1> HIDE DEF cells
<1>5. /\ g \in Frame /\ g.step = f.step /\ g.use = f.use /\ g.skip = f.skip
      /\ g.via = f.via /\ g.rest = f.rest /\ g.opened = cells
  <2>1. Frame = [step : 1..Steps, use : Uses, opened : Cells, left : 0..Timeout, budget : 0..Timeout,
                 skip : BOOLEAN, via : Detectors \cup {"none"}, rest : Seq((1..Steps) \ Irreversible)]
    BY DEF Frame, Cells, Cell
  <2>2. QED
    BY <1>4, <2>1
<1> HIDE DEF g
<1>6. QED
  BY <1>2, <1>3, <1>4, <1>5

LEMMA ResumedIs ==
    ASSUME NEW f \in Frame
    PROVE  LET g == Resumed(f)
           IN  /\ g \in Frame /\ g.step = f.step /\ g.skip = f.skip /\ g.via = "none"
               /\ g.opened = f.opened /\ Opened(g) = Opened(f)
               /\ g.use = IF f.use = "pass" THEN "passed" ELSE f.use
<1> DEFINE use == IF f.use = "pass" THEN "passed" ELSE f.use
           g == [f EXCEPT !.left = Timeout, !.via = "none", !.use = use]
<1>1. Resumed(f) = g
  BY DEF Resumed
<1>2. use \in Uses /\ Timeout \in 0..Timeout
  BY FrameIs, TimeAssumption DEF Uses
<1> HIDE DEF use
<1>3. /\ g \in Frame /\ g.step = f.step /\ g.skip = f.skip /\ g.via = "none"
      /\ g.opened = f.opened /\ g.use = use
  BY <1>2 DEF Frame
<1> HIDE DEF g
<1>4. QED
  BY <1>1, <1>3 DEF use, Opened

\* A wait_retry recovery's window.
LEMMA WaitingIs ==
    ASSUME NEW f \in Frame, NEW d \in Detectors
    PROVE  LET g == [f EXCEPT !.opened[d].window = Window,
                              !.use = IF @ = "pass" THEN "passed" ELSE @]
           IN  /\ g \in Frame /\ g.step = f.step /\ g.skip = f.skip /\ g.via = f.via
               /\ \A e \in Detectors : g.opened[e].open = f.opened[e].open
               /\ g.use = IF f.use = "pass" THEN "passed" ELSE f.use
<1> DEFINE cell == [f.opened[d] EXCEPT !.window = Window]
           cells == [f.opened EXCEPT ![d] = cell]
           use == IF f.use = "pass" THEN "passed" ELSE f.use
           g == [f EXCEPT !.opened = cells, !.use = use]
<1>1. f.opened \in Cells /\ f.opened[d] \in Cell
  BY FrameIs DEF Cells
<1>2. cell \in Cell /\ cell.open = f.opened[d].open
  BY <1>1, TimeAssumption DEF Cell
<1>3. use \in Uses
  BY FrameIs DEF Uses
<1>4. [f EXCEPT !.opened[d].window = Window, !.use = IF @ = "pass" THEN "passed" ELSE @] = g
  BY FrameIs
<1> HIDE DEF cell, use
<1>5. cells \in Cells /\ cells[d] = cell /\ \A e \in Detectors : e # d => cells[e] = f.opened[e]
  BY <1>1, <1>2 DEF Cells
<1> HIDE DEF cells
<1>6. /\ g \in Frame /\ g.step = f.step /\ g.use = use /\ g.skip = f.skip
      /\ g.via = f.via /\ g.opened = cells
  <2>1. Frame = [step : 1..Steps, use : Uses, opened : Cells, left : 0..Timeout, budget : 0..Timeout,
                 skip : BOOLEAN, via : Detectors \cup {"none"}, rest : Seq((1..Steps) \ Irreversible)]
    BY DEF Frame, Cells, Cell
  <2>2. QED
    BY <1>3, <1>5, <2>1
<1> HIDE DEF g
<1>7. QED
  BY <1>2, <1>4, <1>5, <1>6 DEF use

-----------------------------------------------------------------------------
(* Stacks.                                                                  *)

LEMMA TopFits ==
    ASSUME NEW s, NEW a, NEW rv, Shape(s, a, rv), s # << >>
    PROVE  Last(s) \in Frame /\ Len(s) \in Nat \ {0} /\ Fits(Last(s), Len(s), a, rv)
<1>1. s \in Seq(Frame)
  BY DEF Shape
<1>2. Last(s) \in Frame /\ Len(s) \in Nat \ {0} /\ Last(s) = s[Len(s)]
  BY <1>1, FrontIs
<1>3. QED
  BY <1>2 DEF Shape

LEMMA ShapeFront ==
    ASSUME NEW s, NEW a, NEW rv, Shape(s, a, rv), s # << >>
    PROVE  /\ Shape(Front(s), a, rv)
           /\ Front(s) # << >> => /\ Last(Front(s)).via # "none" /\ Last(Front(s)) = s[Len(s) - 1]
                                 /\ Last(Front(s)) \in Frame
                                 /\ Last(Front(s)).opened[Last(Front(s)).via].open
<1> DEFINE q == Front(s)
<1>1. s \in Seq(Frame)
  BY DEF Shape
<1>2. /\ q \in Seq(Frame) /\ Len(s) \in Nat \ {0} /\ Len(q) = Len(s) - 1
      /\ \A i \in 1..Len(s) - 1 : q[i] = s[i]
      /\ q = << >> <=> Len(s) = 1
  BY <1>1, FrontIs
<1> HIDE DEF q
<1>3. \A i \in 1..Len(q) : Fits(q[i], i, a, rv) /\ q[i].via # "none"
  <2> SUFFICES ASSUME NEW i \in 1..Len(q) PROVE Fits(q[i], i, a, rv) /\ q[i].via # "none"
    OBVIOUS
  <2>1. i \in 1..Len(s) /\ i < Len(s) /\ q[i] = s[i]
    BY <1>2
  <2>2. QED
    BY <2>1 DEF Shape
<1>4. Shape(q, a, rv)
  BY <1>2, <1>3 DEF Shape
<1>5. ASSUME q # << >>
      PROVE  /\ Last(q).via # "none" /\ Last(q) = s[Len(s) - 1] /\ Last(q) \in Frame
             /\ Last(q).opened[Last(q).via].open
  <2>1. Len(q) \in 1..Len(q) /\ Last(q) = q[Len(q)] /\ q[Len(q)] = s[Len(s) - 1]
    BY <1>2, <1>5 DEF Last
  <2>2. QED
    BY <2>1, <1>3 DEF Fits
<1>6. QED
  BY <1>4, <1>5 DEF q

LEMMA ShapeAppend ==
    ASSUME NEW s, NEW a, NEW rv, Shape(s, a, rv), NEW f, Fits(f, Len(s) + 1, a, rv),
           s # << >> => Last(s).via # "none"
    PROVE  Shape(Append(s, f), a, rv)
<1> DEFINE q == Append(s, f)
<1>1. s \in Seq(Frame) /\ f \in Frame
  BY DEF Shape, Fits
<1>2. /\ q \in Seq(Frame) /\ Len(s) \in Nat /\ Len(q) = Len(s) + 1
      /\ \A i \in 1..Len(s) : q[i] = s[i]
      /\ q[Len(s) + 1] = f
  BY <1>1, AppendIs
<1> HIDE DEF q
<1>3. ASSUME NEW i \in 1..Len(q)
      PROVE  Fits(q[i], i, a, rv) /\ (i < Len(q) => q[i].via # "none")
  <2>1. CASE i = Len(s) + 1
    BY <1>2, <2>1
  <2>2. CASE i # Len(s) + 1
    <3>1. i \in 1..Len(s) /\ q[i] = s[i]
      BY <1>2, <2>2
    <3>2. Fits(s[i], i, a, rv) /\ (i < Len(s) => s[i].via # "none")
      BY <3>1 DEF Shape
    <3>3. i = Len(s) => s[i].via # "none"
      <4>1. i = Len(s) => s # << >> /\ Last(s) = s[i]
        BY <3>1, <1>2, EmptySeq DEF Last
      <4>2. QED
        BY <4>1
    <3>4. QED
      BY <1>2, <3>1, <3>2, <3>3
  <2>3. QED
    BY <2>1, <2>2
<1>4. QED
  BY <1>2, <1>3 DEF Shape, q

LEMMA ShapeReplace ==
    ASSUME NEW s, NEW a, NEW rv, Shape(s, a, rv), s # << >>, NEW f, Fits(f, Len(s), a, rv)
    PROVE  LET q == Append(Front(s), f)
           IN  /\ Shape(q, a, rv) /\ q # << >> /\ Len(q) = Len(s) /\ Last(q) = f
               /\ Front(q) = Front(s)
               /\ Len(s) > 1 => q[1] = s[1]
               /\ Len(s) = 1 => q[1] = f
<1> DEFINE b == Front(s)
           q == Append(b, f)
<1>1. s \in Seq(Frame) /\ f \in Frame
  BY DEF Shape, Fits
<1>2. /\ b \in Seq(Frame) /\ Len(s) \in Nat \ {0} /\ Len(b) = Len(s) - 1
      /\ \A i \in 1..Len(s) - 1 : b[i] = s[i]
  BY <1>1, FrontIs
<1>3. Shape(b, a, rv) /\ (b # << >> => Last(b).via # "none")
  BY ShapeFront
<1> HIDE DEF b
<1>4. /\ q # << >> /\ Len(q) = Len(b) + 1 /\ Last(q) = f /\ Front(q) = b
      /\ \A i \in 1..Len(b) : q[i] = b[i]
      /\ q[Len(b) + 1] = f
  BY <1>1, <1>2, AppendIs
<1>5. Len(b) + 1 = Len(s)
  BY <1>2
<1>6. Shape(q, a, rv)
  BY <1>3, <1>5, ShapeAppend
<1> HIDE DEF q
<1>7. /\ Len(s) > 1 => q[1] = s[1]
      /\ Len(s) = 1 => q[1] = f
  BY <1>2, <1>4
<1>8. QED
  BY <1>4, <1>5, <1>6, <1>7 DEF b, q

LEMMA ShapeOne ==
    ASSUME NEW a, NEW rv, NEW f, Fits(f, 1, a, rv)
    PROVE  /\ Shape(<< f >>, a, rv) /\ << f >> # << >> /\ << f >>[1] = f
           /\ Last(<< f >>) = f /\ Len(<< f >>) = 1
<1>1. f \in Frame
  BY DEF Fits
<1>2. << f >> \in Seq(Frame) /\ Len(<< f >>) = 1 /\ << f >>[1] = f /\ << f >> # << >>
  BY <1>1
<1>3. QED
  BY <1>2 DEF Shape, Last

LEMMA ShapeNone == \A a, rv : Shape(<< >>, a, rv)
BY DEF Shape

\* What is above the bottom does not depend on where the flow is.
LEMMA StartFits ==
    ASSUME NEW step \in 1..Steps, NEW skip \in BOOLEAN, NEW n \in Nat, NEW a, NEW rv,
           n = 1 => ~skip /\ a = step /\ ~rv,
           n > 1 => step \notin Irreversible
    PROVE  LET f == StartStep(step, skip)
           IN  /\ Fits(f, n, a, rv) /\ f.step = step /\ f.skip = skip /\ f.via = "none"
               /\ f.use \in FlowUses \ Acted /\ Opened(f) = {}
<1> DEFINE use == IF step \in TargetSteps THEN "resolve" ELSE "act"
           f == Poll(step, use, Timeout, skip)
<1>1. use \in Uses /\ use \in FlowUses \ Acted /\ Timeout \in 0..Timeout
  BY TimeAssumption DEF Uses, FlowUses, Acted
<1>2. StartStep(step, skip) = f
  BY DEF StartStep
<1> HIDE DEF use
<1>3. /\ f \in Frame /\ f.step = step /\ f.use = use /\ f.skip = skip
      /\ f.via = "none" /\ Opened(f) = {}
  BY <1>1, PollIs
<1> HIDE DEF f
<1>4. Fits(f, n, a, rv)
  BY <1>1, <1>3, StepsAssumption DEF Fits
<1>5. QED
  BY <1>1, <1>2, <1>3, <1>4

-----------------------------------------------------------------------------
(* Records.                                                                 *)

LEMMA RecordsAre ==
    ASSUME NEW f \in Frame, NEW b \in BOOLEAN
    PROVE  /\ Records(f, b) \in Seq(Record)
           /\ \A i \in 1..Len(Records(f, b)) :
                 /\ Records(f, b)[i].type = "automatic" /\ Records(f, b)[i].succeeded = b
                 /\ Records(f, b)[i].step = f.step
           /\ \A d \in Opened(f) : Listed(Records(f, b), f.step, d)
           /\ Opened(f) = {} => Records(f, b) = << >>
<1> DEFINE record(d) == [type |-> "automatic", step |-> f.step, detector |-> d, succeeded |-> b]
           S == {record(d) : d \in Opened(f)}
           g == [d \in Opened(f) |-> record(d)]
<1>1. Records(f, b) = SetToSeq(S)
  BY DEF Records
<1>2. f.step \in 1..SuccessCheck /\ Opened(f) \subseteq Detectors
  BY FrameIs, StepsAssumption DEF SuccessCheck, Opened
<1>3. \A d \in Opened(f) : record(d) \in Record
  BY <1>2 DEF Record
<1>4. IsFiniteSet(Opened(f))
  BY <1>2, DetectorsAssumption, FS_Subset
<1>5. IsFiniteSet(S)
  <2>1. g \in Surjection(Opened(f), S)
    BY DEF Surjection
  <2>2. QED
    BY <2>1, <1>4, FS_Surjection
<1>6. /\ SetToSeq(S) \in Seq(S)
      /\ \A x \in S : \E i \in 1..Len(SetToSeq(S)) : SetToSeq(S)[i] = x
  <2> HIDE DEF S
  <2>1. QED
    BY <1>5, SetToSeqIs
<1> DEFINE q == SetToSeq(S)
<1> HIDE DEF q
<1>7. q \in Seq(S) /\ \A x \in S : \E i \in 1..Len(q) : q[i] = x
  BY <1>6 DEF q
<1>8. q \in Seq(Record)
  <2>1. S \subseteq Record
    BY <1>3
  <2> HIDE DEF S
  <2>2. QED
    BY <2>1, <1>7, SeqMonotonic
<1>9. \A i \in 1..Len(q) : q[i] \in S
  <2> HIDE DEF S
  <2>1. QED
    BY <1>7, LenProperties
<1>10. \A i \in 1..Len(q) : q[i].type = "automatic" /\ q[i].succeeded = b /\ q[i].step = f.step
  BY <1>9
<1>11. ASSUME NEW d \in Opened(f) PROVE Listed(q, f.step, d)
  <2>1. PICK i \in 1..Len(q) : q[i] = record(d)
    BY <1>7
  <2>2. QED
    BY <2>1 DEF Listed
<1>12. ASSUME Opened(f) = {} PROVE q = << >>
  <2>1. S = {}
    BY <1>12
  <2>2. ~(1 \in 1..Len(q))
    BY <1>9, <2>1
  <2>3. QED
    BY <1>8, <2>2, EmptySeq
<1>13. QED
  BY <1>1, <1>8, <1>10, <1>11, <1>12 DEF q

LEMMA ConcatIs ==
    ASSUME NEW T, NEW s \in Seq(T), NEW r \in Seq(T)
    PROVE  /\ s \o r \in Seq(T) /\ Len(s) \in Nat /\ Len(r) \in Nat /\ Len(s \o r) = Len(s) + Len(r)
           /\ \A i \in 1..Len(s) : (s \o r)[i] = s[i]
           /\ \A i \in 1..Len(r) : (s \o r)[Len(s) + i] = r[i]
           /\ \A i \in 1..Len(s) + Len(r) : i \in 1..Len(s) \/ \E j \in 1..Len(r) : i = Len(s) + j
<1>1. s \o r \in Seq(T) /\ Len(s) \in Nat /\ Len(r) \in Nat /\ Len(s \o r) = Len(s) + Len(r)
  BY ConcatProperties, LenProperties
<1>2. \A i \in 1..Len(s) + Len(r) : (s \o r)[i] = IF i <= Len(s) THEN s[i] ELSE r[i - Len(s)]
  BY ConcatProperties
<1> DEFINE m == Len(s)
           n == Len(r)
<1> HIDE DEF m, n
<1>3. m \in Nat /\ n \in Nat
  BY <1>1 DEF m, n
<1>4. \A i \in 1..m + n : i \in 1..m \/ \E j \in 1..n : i = m + j
  <2> SUFFICES ASSUME NEW i \in 1..m + n, i \notin 1..m PROVE \E j \in 1..n : i = m + j
    OBVIOUS
  <2>1. i - m \in 1..n /\ i = m + (i - m)
    BY <1>3
  <2>2. QED
    BY <2>1
<1>5. \A i \in 1..m : i \in 1..m + n /\ i <= m
  BY <1>3
<1>6. \A i \in 1..n : m + i \in 1..m + n /\ ~(m + i <= m) /\ (m + i) - m = i
  BY <1>3
<1>7. QED
  BY <1>1, <1>2, <1>4, <1>5, <1>6 DEF m, n

LEMMA ListedMore ==
    ASSUME NEW recs \in Seq(Record), NEW r \in Seq(Record), NEW s, NEW d
    PROVE  /\ Listed(recs, s, d) => Listed(recs \o r, s, d)
           /\ Listed(r, s, d) => Listed(recs \o r, s, d)
<1> DEFINE q == recs \o r
<1>1. /\ Len(recs) \in Nat /\ Len(r) \in Nat /\ Len(q) = Len(recs) + Len(r)
      /\ \A i \in 1..Len(recs) : q[i] = recs[i]
      /\ \A i \in 1..Len(r) : q[Len(recs) + i] = r[i]
  BY ConcatIs
<1> HIDE DEF q
<1>2. ASSUME Listed(recs, s, d) PROVE Listed(q, s, d)
  <2>1. PICK i \in 1..Len(recs) : recs[i].step = s /\ recs[i].detector = d
    BY <1>2 DEF Listed
  <2>2. i \in 1..Len(q) /\ q[i] = recs[i]
    BY <1>1
  <2>3. QED
    BY <2>1, <2>2 DEF Listed
<1>3. ASSUME Listed(r, s, d) PROVE Listed(q, s, d)
  <2>1. PICK i \in 1..Len(r) : r[i].step = s /\ r[i].detector = d
    BY <1>3 DEF Listed
  <2>2. Len(recs) + i \in 1..Len(q) /\ q[Len(recs) + i] = r[i]
    BY <1>1
  <2>3. QED
    BY <2>1, <2>2 DEF Listed
<1>4. QED
  BY <1>2, <1>3 DEF q

\* Records that are no failures change nothing; a hand-back excuses all before it.
LEMMA ExcusedStays ==
    ASSUME NEW recs \in Seq(Record), NEW r \in Seq(Record), ExcusedIn(recs),
           \A i \in 1..Len(r) : r[i].type = "human" \/ r[i].succeeded
    PROVE  ExcusedIn(recs \o r)
<1> DEFINE q == recs \o r
<1>1. /\ Len(recs) \in Nat /\ Len(r) \in Nat /\ Len(q) = Len(recs) + Len(r)
      /\ \A i \in 1..Len(recs) : q[i] = recs[i]
      /\ \A i \in 1..Len(r) : q[Len(recs) + i] = r[i]
  BY ConcatIs
<1>4. \A i \in 1..Len(recs) + Len(r) : i \in 1..Len(recs) \/ \E j \in 1..Len(r) : i = Len(recs) + j
  BY ONLY recs \in Seq(Record), r \in Seq(Record), ConcatIs, Zenon
<1> HIDE DEF q
<1>2. ASSUME NEW i \in 1..Len(q), q[i].type = "automatic", ~q[i].succeeded
      PROVE  \E j \in i + 1..Len(q) : q[j].type = "human" /\ q[j].succeeded
  <2>1. ~\E j \in 1..Len(r) : i = Len(recs) + j
    BY <1>1, <1>2
  <2>2. i \in 1..Len(recs) /\ q[i] = recs[i]
    BY <1>1, <1>4, <2>1
  <2>3. PICK j \in i + 1..Len(recs) : recs[j].type = "human" /\ recs[j].succeeded
    BY <1>2, <2>2 DEF ExcusedIn
  <2>4. j \in 1..Len(recs) /\ j \in i + 1..Len(q)
    BY <1>1, <2>2, <2>3
  <2>5. q[j] = recs[j]
    BY <1>1, <2>4
  <2>6. QED
    BY <2>3, <2>4, <2>5
<1>3. QED
  BY <1>2 DEF ExcusedIn, q

LEMMA HandbackExcuses ==
    ASSUME NEW recs \in Seq(Record), NEW h \in Record, h.type = "human", h.succeeded
    PROVE  ExcusedIn(Append(recs, h))
<1> DEFINE q == Append(recs, h)
<1>1. /\ Len(recs) \in Nat /\ Len(q) = Len(recs) + 1
      /\ q[Len(recs) + 1] = h
  BY AppendIs
<1> HIDE DEF q
<1>2. ASSUME NEW i \in 1..Len(q), q[i].type = "automatic"
      PROVE  \E j \in i + 1..Len(q) : q[j].type = "human" /\ q[j].succeeded
  <2>1. i # Len(q)
    BY <1>1, <1>2
  <2>2. Len(q) \in i + 1..Len(q) /\ q[Len(q)] = h
    BY <1>1, <2>1
  <2>3. QED
    BY <2>2
<1>3. QED
  BY <1>2 DEF ExcusedIn, q

LEMMA HumanRecordIs ==
    ASSUME at \in 1..SuccessCheck, NEW o \in {"handed_back", "not_handed_back"}
    PROVE  LET h == HumanRecord(o)
           IN  /\ h \in Record /\ h.type = "human"
               /\ o = "handed_back" => h.succeeded
BY DEF HumanRecord, Record

-----------------------------------------------------------------------------
(* Attempts that are accounted for.                                         *)

LEMMA AccountedMore ==
    ASSUME NEW att, NEW recs \in Seq(Record), NEW r \in Seq(Record), NEW stk,
           Accounted(att, recs, stk)
    PROVE  Accounted(att, recs \o r, stk)
<1> SUFFICES ASSUME NEW s \in 1..Steps, NEW d \in Detectors, att[s][d] > 0
             PROVE  Listed(recs \o r, s, d) \/ InProgress(stk, s, d)
  BY DEF Accounted
<1>1. Listed(recs, s, d) \/ InProgress(stk, s, d)
  BY DEF Accounted
<1>2. QED
  BY <1>1, ListedMore

LEMMA AccountedAppend ==
    ASSUME NEW att, NEW recs, NEW stk \in Seq(Frame), NEW f \in Frame, Accounted(att, recs, stk)
    PROVE  Accounted(att, recs, Append(stk, f))
<1> DEFINE q == Append(stk, f)
<1>1. Len(stk) \in Nat /\ Len(q) = Len(stk) + 1 /\ \A i \in 1..Len(stk) : q[i] = stk[i]
  BY AppendIs
<1> HIDE DEF q
<1>2. ASSUME NEW s, NEW d, InProgress(stk, s, d) PROVE InProgress(q, s, d)
  <2>1. PICK i \in 1..Len(stk) : stk[i].step = s /\ stk[i].opened[d].open
    BY <1>2 DEF InProgress
  <2>2. i \in 1..Len(q) /\ q[i] = stk[i]
    BY <1>1
  <2>3. QED
    BY <2>1, <2>2 DEF InProgress
<1>3. QED
  BY <1>2 DEF Accounted, q

\* A frame may go when what it has open is listed.
LEMMA AccountedClosed ==
    ASSUME NEW att, NEW recs, NEW stk \in Seq(Frame), stk # << >>, Accounted(att, recs, stk),
           \A d \in Opened(Last(stk)) : Listed(recs, Last(stk).step, d)
    PROVE  Accounted(att, recs, Front(stk))
<1> DEFINE q == Front(stk)
           f == Last(stk)
<1>1. /\ Len(stk) \in Nat \ {0} /\ Len(q) = Len(stk) - 1 /\ f = stk[Len(stk)]
      /\ \A i \in 1..Len(stk) - 1 : q[i] = stk[i]
  BY FrontIs
<1>2. \A d \in Detectors : f.opened[d].open => Listed(recs, f.step, d)
  BY DEF Opened
<1> HIDE DEF q, f
<1> SUFFICES ASSUME NEW s \in 1..Steps, NEW d \in Detectors, att[s][d] > 0
             PROVE  Listed(recs, s, d) \/ InProgress(q, s, d)
  BY DEF Accounted, q
<1>3. CASE Listed(recs, s, d)
  BY <1>3
<1>4. CASE InProgress(stk, s, d)
  <2>1. PICK i \in 1..Len(stk) : stk[i].step = s /\ stk[i].opened[d].open
    BY <1>4 DEF InProgress
  <2>2. CASE i = Len(stk)
    BY <1>1, <1>2, <2>1, <2>2
  <2>3. CASE i # Len(stk)
    <3>1. i \in 1..Len(stk) - 1 /\ i \in 1..Len(q)
      BY <1>1, <2>3
    <3>2. q[i] = stk[i]
      BY <1>1, <3>1
    <3>3. QED
      BY <2>1, <3>1, <3>2 DEF InProgress
  <2>4. QED
    BY <2>2, <2>3
<1>5. QED
  BY <1>3, <1>4 DEF Accounted

\* The top frame may be replaced by one for the same step with as much open.
LEMMA AccountedReplace ==
    ASSUME NEW att, NEW recs, NEW stk \in Seq(Frame), stk # << >>, Accounted(att, recs, stk),
           NEW f \in Frame, f.step = Last(stk).step,
           \A d \in Detectors : Last(stk).opened[d].open => f.opened[d].open
    PROVE  Accounted(att, recs, Append(Front(stk), f))
<1> DEFINE b == Front(stk)
           q == Append(b, f)
           l == Last(stk)
<1>1. /\ b \in Seq(Frame) /\ Len(stk) \in Nat \ {0} /\ Len(b) = Len(stk) - 1 /\ l = stk[Len(stk)]
      /\ \A i \in 1..Len(stk) - 1 : b[i] = stk[i]
  BY FrontIs
<1>2. /\ f.step = l.step
      /\ \A d \in Detectors : l.opened[d].open => f.opened[d].open
  OBVIOUS
<1> HIDE DEF b, l
<1>3. /\ Len(q) = Len(b) + 1 /\ q[Len(b) + 1] = f
      /\ \A i \in 1..Len(b) : q[i] = b[i]
  BY <1>1, AppendIs
<1> HIDE DEF q
<1>4. Len(q) = Len(stk) /\ q[Len(stk)] = f /\ \A i \in 1..Len(stk) - 1 : q[i] = stk[i]
  BY <1>1, <1>3
<1>5. ASSUME NEW s, NEW d \in Detectors, InProgress(stk, s, d) PROVE InProgress(q, s, d)
  <2>1. PICK i \in 1..Len(stk) : stk[i].step = s /\ stk[i].opened[d].open
    BY <1>5 DEF InProgress
  <2>2. CASE i = Len(stk)
    BY <1>1, <1>2, <1>4, <2>1, <2>2 DEF InProgress
  <2>3. CASE i # Len(stk)
    <3>1. i \in 1..Len(stk) - 1
      BY <1>1, <2>3
    <3>2. q[i] = stk[i] /\ i \in 1..Len(q)
      BY <1>1, <1>4, <3>1
    <3>3. QED
      BY <2>1, <3>2 DEF InProgress
  <2>4. QED
    BY <2>2, <2>3
<1>6. QED
  BY <1>5 DEF Accounted, b, q

\* _close: the top frame goes and its recoveries are listed.
LEMMA CloseTop ==
    ASSUME NEW att, NEW recs \in Seq(Record), NEW stk \in Seq(Frame), stk # << >>,
           Accounted(att, recs, stk), NEW b \in BOOLEAN
    PROVE  /\ recs \o Records(Last(stk), b) \in Seq(Record)
           /\ Accounted(att, recs \o Records(Last(stk), b), Front(stk))
           /\ b => (ExcusedIn(recs) => ExcusedIn(recs \o Records(Last(stk), b)))
           /\ Opened(Last(stk)) = {} => recs \o Records(Last(stk), b) = recs
<1> DEFINE f == Last(stk)
           r == Records(f, b)
           q == recs \o r
<1>1. f \in Frame
  BY FrontIs
<1>2. /\ r \in Seq(Record)
      /\ \A i \in 1..Len(r) : r[i].succeeded = b
      /\ \A d \in Opened(f) : Listed(r, f.step, d)
      /\ Opened(f) = {} => r = << >>
  BY <1>1, RecordsAre
<1> HIDE DEF r
<1>3. q \in Seq(Record) /\ (r = << >> => q = recs)
  BY <1>2, ConcatIs, ConcatEmptySeq
<1>4. Accounted(att, q, stk) /\ \A d \in Opened(f) : Listed(q, f.step, d)
  BY <1>2, AccountedMore, ListedMore
<1>5. b => (ExcusedIn(recs) => ExcusedIn(q))
  BY <1>2, ExcusedStays
<1> HIDE DEF q
<1>6. Accounted(att, q, Front(stk))
  BY <1>4, AccountedClosed
<1>7. QED
  BY <1>2, <1>3, <1>5, <1>6 DEF q, r

\* Count, for the top frame of a stack that has the recovery open.
LEMMA CountIs ==
    ASSUME IInv, NEW f \in Frame, NEW d \in Detectors, ~NoMoreTries(f, d), Count(f, d),
           NEW stk \in Seq(Frame), NEW i \in 1..Len(stk), stk[i].step = f.step, stk[i].opened[d].open,
           Accounted(attempts, recoveries, stk)
    PROVE  /\ attempts' \in [1..Steps -> [Detectors -> Nat]] /\ AttemptsAreCapped'
           /\ Accounted(attempts', recoveries, stk)
<1>1. attempts \in [1..Steps -> [Detectors -> Nat]] /\ f.step \in 1..Steps
  BY FrameIs DEF IInv, Typed
<1>2. Limit(d) \in Nat
  BY DetectorsAssumption DEF Limit
<1> DEFINE k == attempts[f.step][d]
<1>3. attempts' = [attempts EXCEPT ![f.step][d] = k + 1]
  BY DEF Count, Used
<1>4. k \in Nat /\ k + 1 <= Limit(d)
  BY <1>1, <1>2 DEF NoMoreTries, Used
<1> HIDE DEF k
<1>5. /\ attempts' \in [1..Steps -> [Detectors -> Nat]]
      /\ \A s \in 1..Steps, e \in Detectors :
            attempts'[s][e] = IF s = f.step /\ e = d THEN k + 1 ELSE attempts[s][e]
  <2> DEFINE row == [attempts[f.step] EXCEPT ![d] = k + 1]
  <2>1. attempts[f.step] \in [Detectors -> Nat]
    BY <1>1
  <2>2. row \in [Detectors -> Nat] /\ \A e \in Detectors : row[e] = IF e = d THEN k + 1 ELSE attempts[f.step][e]
    BY <1>4, <2>1
  <2>3. attempts' = [attempts EXCEPT ![f.step] = row]
    BY <1>3
  <2> HIDE DEF row
  <2>4. /\ attempts' \in [1..Steps -> [Detectors -> Nat]]
        /\ \A s \in 1..Steps : attempts'[s] = IF s = f.step THEN row ELSE attempts[s]
    BY <1>1, <2>2, <2>3
  <2>5. QED
    BY <2>2, <2>4
<1>6. AttemptsAreCapped'
  BY <1>4, <1>5 DEF IInv, AttemptsAreCapped
<1>7. Accounted(attempts', recoveries, stk)
  <2> SUFFICES ASSUME NEW s \in 1..Steps, NEW e \in Detectors, attempts'[s][e] > 0
               PROVE  Listed(recoveries, s, e) \/ InProgress(stk, s, e)
    BY DEF Accounted
  <2>1. CASE s = f.step /\ e = d
    BY <2>1 DEF InProgress
  <2>2. CASE ~(s = f.step /\ e = d)
    BY <1>5, <2>2 DEF Accounted
  <2>3. QED
    BY <2>1, <2>2
<1>8. QED
  BY <1>5, <1>6, <1>7

-----------------------------------------------------------------------------
(* What a step has to show.                                                 *)

LEMMA OnceKept ==
    ASSUME NEW done, NEW a, NEW s, NEW t, Once(done, "running", a, s),
           s[1].use \in Acted => t[1].use \in Acted
    PROVE  Once(done, "running", a, t)
BY DEF Once

LEMMA OnceStops ==
    ASSUME NEW done, NEW p, NEW q, NEW a, NEW s, NEW t, Once(done, p, a, s), q # "running"
    PROVE  Once(done, q, a, t)
BY DEF Once

\* From one poll to another.
LEMMA RunningInv ==
    ASSUME IInv, pc = "running", UNCHANGED <<pc, stop, human, result>>,
           at' \in 1..SuccessCheck, reverifying' \in BOOLEAN,
           attempts' \in [1..Steps -> [Detectors -> Nat]], recoveries' \in Seq(Record),
           performed' \in [1..Steps -> Nat], stack' # << >>, Shape(stack', at', reverifying'),
           Accounted(attempts', recoveries', stack'), AttemptsAreCapped',
           Once(performed', "running", at', stack'), ~reverifying' => ExcusedIn(recoveries')
    PROVE  IInv'
<1>1. Typed'
  BY DEF IInv, Typed, human
<1>2. Owned'
  BY DEF Owned, Excused
<1>3. Ended'
  BY DEF IInv, Ended
<1>4. QED
  BY <1>1, <1>2, <1>3 DEF IInv

\* From a poll to a stop.
LEMMA RaisedInv ==
    ASSUME IInv, pc = "running", pc' \in {"raising", "asking"}, stop' \in StopType,
           UNCHANGED <<at, reverifying, human, result>>, recoveries' \in Seq(Record),
           attempts' \in [1..Steps -> [Detectors -> Nat]], performed' \in [1..Steps -> Nat],
           Shape(stack', at, reverifying), Accounted(attempts', recoveries', stack'),
           AttemptsAreCapped', Once(performed', pc', at, stack'),
           ~reverifying => ExcusedIn(recoveries'),
           stop'.code \in OwnFailures =>
                /\ Opened(Last(stack')) = {}
                /\ stop'.code = "OUTPUT_EXTRACTION_FAILED" => Len(stack') <= 1
    PROVE  IInv'
<1>1. Typed'
  BY DEF IInv, Typed, human, PCs
<1>2. Owned'
  BY DEF Owned, Excused
<1>3. Ended'
  BY DEF IInv, Ended
<1>4. QED
  BY <1>1, <1>2, <1>3 DEF IInv

\* The stops a poll may raise.
LEMMA StopsAre ==
    ASSUME NEW code \in Codes, RaiseOrAsk(code) \/ Raise(code)
           \/ (code = "POLICY_BLOCKED" /\ (PolicyStop \/ Ask(code, "IRREVERSIBLE_NEEDS_HUMAN")))
    PROVE  /\ pc' \in {"raising", "asking"} /\ stop' \in StopType /\ stop'.code = code
           /\ stop'.status = "hard_failure"
BY DEF RaiseOrAsk, Raise, RaiseAs, Ask, PolicyStop, StopType, Reasons

LEMMA OwnFailuresAre ==
    /\ \A d \in Detectors : d \notin OwnFailures /\ d # "none" /\ d \in Codes
    /\ "POLICY_BLOCKED" \notin OwnFailures /\ "POLICY_BLOCKED" \in Codes
    /\ "TARGET_CHANGED" \notin OwnFailures /\ "TARGET_CHANGED" \in Codes
    /\ "STEP_FAILED" \in Codes /\ "OUTPUT_EXTRACTION_FAILED" \in Codes
    /\ "POST_HANDOFF_CHECKPOINT_FAILED" \in Codes /\ "POST_HANDOFF_CHECKPOINT_FAILED" \notin OwnFailures
BY DetectorsAssumption DEF OwnFailures, Codes

\* While a poll looks, everything is as the invariant has it.
LEMMA Now ==
    ASSUME IInv, pc = "running"
    PROVE  /\ stack \in Seq(Frame) /\ stack # << >> /\ Top \in Frame /\ Len(stack) \in Nat \ {0}
           /\ Fits(Top, Len(stack), at, reverifying) /\ Shape(stack, at, reverifying)
           /\ Accounted(attempts, recoveries, stack) /\ AttemptsAreCapped
           /\ Once(performed, "running", at, stack) /\ recoveries \in Seq(Record)
           /\ attempts \in [1..Steps -> [Detectors -> Nat]] /\ performed \in [1..Steps -> Nat]
           /\ at \in 1..SuccessCheck /\ reverifying \in BOOLEAN
           /\ ~reverifying => ExcusedIn(recoveries)
<1>1. Shape(stack, at, reverifying) /\ stack # << >>
  BY DEF IInv, Typed
<1>2. QED
  BY <1>1, TopFits DEF IInv, Typed, Top, Shape, Owned, Excused

\* A stop that leaves the stack alone.
LEMMA StopInPlace ==
    ASSUME IInv, pc = "running", NEW code \in Codes,
           RaiseOrAsk(code) \/ Raise(code)
           \/ (code = "POLICY_BLOCKED" /\ (PolicyStop \/ Ask(code, "IRREVERSIBLE_NEEDS_HUMAN"))),
           UNCHANGED <<at, stack, reverifying, human, ledger, result>>,
           performed' \in [1..Steps -> Nat], Once(performed', pc', at, stack),
           code \in OwnFailures => /\ Opened(Top) = {}
                                   /\ code = "OUTPUT_EXTRACTION_FAILED" => Len(stack) <= 1
    PROVE  IInv'
<1>1. pc' \in {"raising", "asking"} /\ stop' \in StopType /\ stop'.code = code
  BY StopsAre
<1>2. AttemptsAreCapped'
  BY Now DEF AttemptsAreCapped, ledger
<1>3. /\ recoveries' = recoveries /\ attempts' = attempts /\ stack' = stack
      /\ UNCHANGED <<at, reverifying, human, result>>
  BY DEF ledger
<1>4. QED
  BY <1>1, <1>2, <1>3, Now, RaisedInv DEF Top

-----------------------------------------------------------------------------
(* One look of a poll.                                                      *)

LEMMA LookBlockedInv ==
    ASSUME IInv, LookBlocked
    PROVE  IInv'
<1>1. pc = "running" /\ PolicyStop /\ UNCHANGED <<at, stack, reverifying, human, ledger, performed, result>>
  BY DEF LookBlocked, Polling
<1>2. pc' # "running"
  BY <1>1 DEF PolicyStop, Raise, RaiseAs
<1>3. performed' \in [1..Steps -> Nat] /\ Once(performed', pc', at, stack)
  BY <1>1, <1>2, Now, OnceStops
<1>4. QED
  BY <1>1, <1>3, OwnFailuresAre, StopInPlace

LEMMA RunningNow ==
    ASSUME IInv, Polling
    PROVE  /\ pc = "running" /\ Top.use \notin {"act", "passed"}
           /\ stack \in Seq(Frame) /\ stack # << >> /\ Top \in Frame /\ Len(stack) \in Nat \ {0}
           /\ Fits(Top, Len(stack), at, reverifying)
BY Now DEF Polling

\* The top frame replaced by the same poll with more recoveries open.
LEMMA TopReplaced ==
    ASSUME IInv, Polling, NEW g \in Frame, g.step = Top.step, g.skip = Top.skip,
           g.use = Top.use \/ (Top.use = "pass" /\ g.use = "passed"),
           \A e \in Detectors : Top.opened[e].open => g.opened[e].open,
           g.via = "none" \/ g.opened[g.via].open
    PROVE  LET q == Append(Front(stack), g)
           IN  /\ Shape(q, at, reverifying) /\ Accounted(attempts, recoveries, q)
               /\ q # << >> /\ Len(q) = Len(stack) /\ q[Len(stack)] = g /\ Last(q) = g
               /\ Front(q) = Front(stack) /\ q \in Seq(Frame)
               /\ Once(performed, "running", at, q)
<1> DEFINE q == Append(Front(stack), g)
           n == Len(stack)
<1>1. /\ Shape(stack, at, reverifying) /\ stack # << >> /\ stack \in Seq(Frame)
      /\ Top \in Frame /\ n \in Nat \ {0} /\ Fits(Top, n, at, reverifying)
      /\ Top.use \notin {"act", "passed"}
      /\ Once(performed, "running", at, stack)
  BY Now, RunningNow
<1>2. Fits(g, n, at, reverifying)
  <2>1. g.use # "act"
    BY <1>1
  <2>2. n = 1 => /\ ~g.skip
                 /\ g.use \in FlowUses => at <= Steps /\ g.step = at
                 /\ g.use \in FlowUses \cup EndUses => ~reverifying
    BY <1>1 DEF Fits, FlowUses, EndUses
  <2>3. n > 1 => g.use \in FlowUses /\ g.step \notin Irreversible
    BY <1>1 DEF Fits, FlowUses
  <2>4. QED
    BY <2>1, <2>2, <2>3 DEF Fits
<1>3. /\ Shape(q, at, reverifying) /\ q # << >> /\ Len(q) = n /\ Last(q) = g
      /\ Front(q) = Front(stack)
      /\ n > 1 => q[1] = stack[1]
      /\ n = 1 => q[1] = g
  BY <1>1, <1>2, ShapeReplace
<1>4. Accounted(attempts, recoveries, q)
  <2>1. Accounted(attempts, recoveries, stack)
    BY DEF IInv
  <2>2. Last(stack) = Top
    BY DEF Top
  <2>3. g.step = Last(stack).step /\ \A e \in Detectors : Last(stack).opened[e].open => g.opened[e].open
    BY <2>2
  <2>4. QED
    BY <1>1, <2>1, <2>3, AccountedReplace
<1>5. Top = stack[n]
  BY DEF Top, Last
<1> HIDE DEF q
<1>6. q[n] = g /\ q \in Seq(Frame)
  BY <1>3 DEF Last, Shape
<1>7. stack[1].use \in Acted => q[1].use \in Acted
  <2>1. CASE n > 1
    BY <1>3, <2>1
  <2>2. CASE n = 1
    <3>1. q[1] = g /\ stack[1] = Top
      BY <1>3, <1>5, <2>2
    <3>2. Top.use \in Acted => g.use \in Acted
      BY DEF Acted
    <3>3. QED
      BY <3>1, <3>2
  <2>3. n = 1 \/ n > 1
    <3>1. n \in Nat /\ n # 0
      BY <1>1
    <3> HIDE DEF n
    <3>2. QED
      BY <3>1
  <2>4. QED
    BY <2>1, <2>2, <2>3
<1>8. Once(performed, "running", at, q)
  BY <1>1, <1>7, OnceKept
<1>9. QED
  BY <1>3, <1>4, <1>6, <1>8 DEF q

LEMMA OpeningFits ==
    ASSUME IInv, Polling, NEW d \in Detectors
    PROVE  LET g == Opening(Top, d)
           IN  /\ g \in Frame /\ g.step = Top.step /\ g.skip = Top.skip /\ g.use = Top.use
               /\ \A e \in Detectors : Top.opened[e].open => g.opened[e].open
               /\ g.opened[d].open /\ (g.via = "none" \/ g.opened[g.via].open) /\ g.via = Top.via
<1>1. Top \in Frame /\ Fits(Top, Len(stack), at, reverifying)
  BY RunningNow
<1> DEFINE g == Opening(Top, d)
<1>2. /\ g \in Frame /\ g.step = Top.step /\ g.skip = Top.skip /\ g.use = Top.use
      /\ \A e \in Detectors : Top.opened[e].open => g.opened[e].open
      /\ g.opened[d].open /\ g.via = Top.via
  BY <1>1, OpeningIs
<1> HIDE DEF g
<1>3. Top.via # "none" => Top.via \in Detectors /\ Top.opened[Top.via].open
  BY <1>1, FrameIs DEF Fits
<1>4. QED
  BY <1>2, <1>3 DEF g

\* A detector's recovery is marked open, and a stop is raised.
LEMMA OpenedStop ==
    ASSUME IInv, Polling, NEW d \in Detectors, NEW code \in Codes \ OwnFailures,
           RaiseOrAsk(code) \/ Raise(code)
           \/ (code = "POLICY_BLOCKED" /\ (PolicyStop \/ Ask(code, "IRREVERSIBLE_NEEDS_HUMAN"))),
           Replace(Opening(Top, d)), UNCHANGED <<at, reverifying, human, performed, result, recoveries>>,
           UNCHANGED attempts \/ (~NoMoreTries(Top, d) /\ Count(Top, d))
    PROVE  IInv'
<1> DEFINE g == Opening(Top, d)
           q == Append(Front(stack), g)
<1>1. /\ g \in Frame /\ g.step = Top.step /\ g.skip = Top.skip /\ g.use = Top.use
      /\ \A e \in Detectors : Top.opened[e].open => g.opened[e].open
      /\ g.opened[d].open /\ (g.via = "none" \/ g.opened[g.via].open)
  BY OpeningFits
<1>2. stack' = q
  BY DEF Replace
<1> HIDE DEF g
<1>3. /\ Shape(q, at, reverifying) /\ Accounted(attempts, recoveries, q) /\ Len(q) = Len(stack)
      /\ q[Len(stack)] = g /\ q \in Seq(Frame) /\ Once(performed, "running", at, q)
  BY <1>1, TopReplaced
<1> HIDE DEF q
<1>4. pc' \in {"raising", "asking"} /\ stop' \in StopType /\ stop'.code = code
  BY StopsAre
<1>5. Once(performed', pc', at, stack')
  BY <1>3, <1>4, OnceStops
<1>6. /\ attempts' \in [1..Steps -> [Detectors -> Nat]] /\ AttemptsAreCapped'
      /\ Accounted(attempts', recoveries, q)
  <2>1. CASE UNCHANGED attempts
    BY <2>1, <1>3, Now, RunningNow DEF AttemptsAreCapped
  <2>2. CASE ~NoMoreTries(Top, d) /\ Count(Top, d)
    <3>1. Len(stack) \in 1..Len(q) /\ Top \in Frame
      BY <1>3, RunningNow
    <3>2. QED
      BY <1>1, <1>3, <2>2, <3>1, CountIs
  <2>3. QED
    BY <2>1, <2>2
<1>7. QED
  BY <1>2, <1>3, <1>4, <1>5, <1>6, Now, RunningNow, RaisedInv

\* A recovery after which the poll goes on.
LEMMA RecoveredInv ==
    ASSUME IInv, Polling, NEW d \in Detectors, NEW g \in Frame,
           g.step = Top.step, g.skip = Top.skip,
           g.use = Top.use \/ (Top.use = "pass" /\ g.use = "passed"),
           \A e \in Detectors : Top.opened[e].open => g.opened[e].open,
           g.opened[d].open, g.via = "none" \/ g.opened[g.via].open,
           Replace(g), ~NoMoreTries(Top, d), Count(Top, d),
           UNCHANGED <<pc, stop, at, reverifying, human, performed, result>>
    PROVE  IInv'
<1> DEFINE q == Append(Front(stack), g)
<1>1. stack' = q
  BY DEF Replace
<1>2. /\ Shape(q, at, reverifying) /\ Accounted(attempts, recoveries, q) /\ Len(q) = Len(stack)
      /\ q[Len(stack)] = g /\ q \in Seq(Frame) /\ Once(performed, "running", at, q) /\ q # << >>
  BY TopReplaced
<1> HIDE DEF q
<1>3. /\ attempts' \in [1..Steps -> [Detectors -> Nat]] /\ AttemptsAreCapped'
      /\ Accounted(attempts', recoveries, q)
  <2>1. Len(stack) \in 1..Len(q) /\ Top \in Frame
    BY <1>2, RunningNow
  <2>2. QED
    BY <1>2, <2>1, CountIs
<1>4. recoveries' = recoveries
  BY DEF Count
<1>5. QED
  BY <1>1, <1>2, <1>3, <1>4, Now, RunningNow, RunningInv

LEMMA ClickInv ==
    ASSUME IInv, Polling, NEW d \in Detectors, ~NoMoreTries(Top, d), RecoverByClick(Top, d),
           UNCHANGED <<at, reverifying, human, performed, result>>
    PROVE  IInv'
<1>1. Count(Top, d) /\ UNCHANGED recoveries
  BY DEF RecoverByClick, Count
<1>2. CASE Replace(Resumed(Opening(Top, d))) /\ UNCHANGED <<pc, stop>>
  <2> DEFINE o == Opening(Top, d)
             g == Resumed(o)
  <2>1. /\ o \in Frame /\ o.step = Top.step /\ o.skip = Top.skip /\ o.use = Top.use
        /\ \A e \in Detectors : Top.opened[e].open => o.opened[e].open
        /\ o.opened[d].open
    BY OpeningFits
  <2> HIDE DEF o
  <2>2. /\ g \in Frame /\ g.step = o.step /\ g.skip = o.skip /\ g.via = "none"
        /\ g.opened = o.opened
        /\ g.use = IF o.use = "pass" THEN "passed" ELSE o.use
    BY <2>1, ResumedIs
  <2>3. Replace(g)
    BY <1>2 DEF o
  <2> HIDE DEF g
  <2>4. g.use = Top.use \/ (Top.use = "pass" /\ g.use = "passed")
    BY <2>1, <2>2
  <2>5. QED
    BY <1>1, <1>2, <2>1, <2>2, <2>3, <2>4, RecoveredInv
<1>3. CASE Replace(Opening(Top, d)) /\ (PolicyStop \/ Ask("POLICY_BLOCKED", "IRREVERSIBLE_NEEDS_HUMAN"))
  BY <1>1, <1>3, OwnFailuresAre, OpenedStop
<1>4. QED
  BY <1>2, <1>3 DEF RecoverByClick

LEMMA WaitRetryInv ==
    ASSUME IInv, Polling, NEW d \in Detectors, ~NoMoreTries(Top, d), RecoverByWaiting(Top, d),
           UNCHANGED <<at, reverifying, human, performed, result>>
    PROVE  IInv'
<1> DEFINE o == Opening(Top, d)
           g == [o EXCEPT !.opened[d].window = Window, !.use = IF @ = "pass" THEN "passed" ELSE @]
<1>1. Count(Top, d) /\ UNCHANGED <<pc, stop>>
  BY DEF RecoverByWaiting
<1>2. /\ o \in Frame /\ o.step = Top.step /\ o.skip = Top.skip /\ o.use = Top.use
      /\ \A e \in Detectors : Top.opened[e].open => o.opened[e].open
      /\ o.opened[d].open /\ (o.via = "none" \/ o.opened[o.via].open)
      /\ o.via = "none" \/ o.via \in Detectors
  BY OpeningFits, RunningNow, FrameIs
<1>3. Replace(g)
  BY DEF RecoverByWaiting
<1> HIDE DEF o
<1>4. /\ g \in Frame /\ g.step = o.step /\ g.skip = o.skip /\ g.via = o.via
      /\ \A e \in Detectors : g.opened[e].open = o.opened[e].open
      /\ g.use = IF o.use = "pass" THEN "passed" ELSE o.use
  BY <1>2, WaitingIs
<1> HIDE DEF g
<1>5. g.use = Top.use \/ (Top.use = "pass" /\ g.use = "passed")
  BY <1>2, <1>4
<1>6. /\ \A e \in Detectors : Top.opened[e].open => g.opened[e].open
      /\ g.opened[d].open
      /\ g.via = "none" \/ g.opened[g.via].open
  BY <1>2, <1>4
<1>7. g.step = Top.step /\ g.skip = Top.skip
  BY <1>2, <1>4
<1>8. QED
  BY <1>1, <1>3, <1>4, <1>5, <1>6, <1>7, RecoveredInv

-----------------------------------------------------------------------------
(* Re-running steps.                                                        *)

\* Pushing the next step to re-run on top of the frame it is re-run for.
LEMMA RerunIs ==
    ASSUME NEW below \in Seq(Frame), NEW f \in Frame, f.via # "none",
           NEW steps \in Seq((1..Steps) \ Irreversible), steps # << >>,
           NEW a, NEW rv, NEW att, NEW recs,
           Shape(Append(below, f), a, rv), Accounted(att, recs, Append(below, f))
    PROVE  LET q == below \o << [f EXCEPT !.rest = Tail(steps)],
                                StartStep(Head(steps), Len(steps) = 1) >>
           IN  /\ Shape(q, a, rv) /\ Accounted(att, recs, q) /\ q # << >> /\ q \in Seq(Frame)
               /\ q[1].use = Append(below, f)[1].use
               /\ Len(below) + 1 \in 1..Len(q)
               /\ q[Len(below) + 1].step = f.step /\ q[Len(below) + 1].opened = f.opened
<1> DEFINE s == Append(below, f)
           g == [f EXCEPT !.rest = Tail(steps)]
           h == StartStep(Head(steps), Len(steps) = 1)
           q == Append(below, g)
<1>1. /\ Tail(steps) \in Seq((1..Steps) \ Irreversible)
      /\ Head(steps) \in (1..Steps) \ Irreversible
  BY HeadTailProperties
<1>2. /\ g \in Frame /\ g.step = f.step /\ g.use = f.use /\ g.opened = f.opened
      /\ g.skip = f.skip /\ g.via = f.via
  BY <1>1 DEF Frame
<1>3. /\ s \in Seq(Frame) /\ s # << >> /\ Len(below) \in Nat /\ Len(s) = Len(below) + 1
      /\ Last(s) = f /\ Front(s) = below /\ s[Len(below) + 1] = f
  BY AppendIs
<1>4. Shape(s, a, rv) /\ Accounted(att, recs, s)
  OBVIOUS
<1> HIDE DEF s, g
<1>5. Fits(f, Len(s), a, rv)
  BY <1>3, <1>4, TopFits
<1>6. Fits(g, Len(s), a, rv)
  BY <1>2, <1>5 DEF Fits, Opened
<1>7. /\ Shape(q, a, rv) /\ q # << >> /\ Len(q) = Len(s) /\ Last(q) = g
      /\ Len(s) > 1 => q[1] = s[1]
      /\ Len(s) = 1 => q[1] = g
  BY <1>3, <1>4, <1>6, ShapeReplace
<1>8. Accounted(att, recs, q)
  <2>1. g.step = Last(s).step /\ \A e \in Detectors : Last(s).opened[e].open => g.opened[e].open
    BY <1>2, <1>3
  <2>2. QED
    BY <1>2, <1>3, <1>4, <2>1, AccountedReplace
<1>9. q \in Seq(Frame) /\ q[Len(below) + 1] = g
  BY <1>2, AppendIs
<1> HIDE DEF q
<1>10. q[1].use = s[1].use
  <2>1. CASE Len(s) > 1
    BY <1>7, <2>1
  <2>2. CASE Len(s) = 1
    BY <1>2, <1>3, <1>7, <2>2
  <2>3. QED
    BY <1>3, <2>1, <2>2
<1>11. /\ Fits(h, Len(q) + 1, a, rv) /\ h \in Frame
  <2> DEFINE n == Len(q) + 1
             step == Head(steps)
             skip == Len(steps) = 1
  <2>1. n \in Nat /\ n # 1
    BY <1>3, <1>7
  <2>2. skip \in BOOLEAN /\ step \in 1..Steps /\ step \notin Irreversible
    BY <1>1
  <2> HIDE DEF n, step, skip
  <2>3. Fits(StartStep(step, skip), n, a, rv)
    BY <2>1, <2>2, StartFits
  <2>4. Fits(h, Len(q) + 1, a, rv)
    BY <2>3 DEF n, step, skip
  <2> HIDE DEF h
  <2>5. QED
    BY <2>4 DEF Fits
<1> HIDE DEF h
<1> DEFINE r == Append(q, h)
<1>12. Shape(r, a, rv)
  BY <1>2, <1>7, <1>11, ShapeAppend
<1>13. Accounted(att, recs, r)
  BY <1>8, <1>9, <1>11, AccountedAppend
<1>14. /\ r \in Seq(Frame) /\ r # << >> /\ Len(r) = Len(q) + 1
       /\ \A i \in 1..Len(q) : r[i] = q[i]
  BY <1>9, <1>11, AppendIs
<1>15. below \o << g, h >> = r
  BY <1>2, <1>9, <1>11, PushIs DEF q
<1> HIDE DEF r
<1>16. 1 \in 1..Len(q) /\ Len(below) + 1 \in 1..Len(q) /\ Len(below) + 1 \in 1..Len(r)
  BY <1>3, <1>7, <1>14
<1>17. r[1].use = s[1].use /\ r[Len(below) + 1].step = f.step /\ r[Len(below) + 1].opened = f.opened
  BY <1>2, <1>9, <1>10, <1>14, <1>16
<1>18. QED
  BY <1>12, <1>13, <1>14, <1>15, <1>16, <1>17 DEF g, h, s

LEMMA RerunsAre ==
    ASSUME NEW d \in Detectors, Kind[d] = "run_steps"
    PROVE  Reruns[d] \in Seq((1..Steps) \ Irreversible) /\ Reruns[d] # << >>
<1> DEFINE q == Reruns[d]
<1>1. /\ q \in Seq(1..Steps) /\ q # << >>
      /\ \A i \in DOMAIN q : q[i] \in (1..Steps) \ Irreversible
  BY RerunsAssumption DEF ValidRerun
<1> HIDE DEF q
<1>2. Len(q) \in Nat /\ DOMAIN q = 1..Len(q) /\ q = [i \in 1..Len(q) |-> q[i]]
  BY <1>1, LenProperties
<1>3. q \in Seq((1..Steps) \ Irreversible)
  BY <1>1, <1>2
<1>4. QED
  BY <1>1, <1>3 DEF q

LEMMA RerunningInv ==
    ASSUME IInv, Polling, NEW d \in Detectors, ~NoMoreTries(Top, d), RecoverByRerunning(Top, d),
           UNCHANGED <<at, reverifying, human, performed, result>>
    PROVE  IInv'
<1> DEFINE o == Opening(Top, d)
           f == [o EXCEPT !.via = d]
           b == Front(stack)
           q == b \o << [f EXCEPT !.rest = Tail(Reruns[d])],
                        StartStep(Head(Reruns[d]), Len(Reruns[d]) = 1) >>
<1>1. Count(Top, d) /\ UNCHANGED <<pc, stop>> /\ UNCHANGED recoveries /\ Kind[d] = "run_steps"
  BY DEF RecoverByRerunning, Count
<1>2. stack' = q
  BY DEF RecoverByRerunning, Rerun
<1>3. /\ o \in Frame /\ o.step = Top.step /\ o.skip = Top.skip /\ o.use = Top.use
      /\ \A e \in Detectors : Top.opened[e].open => o.opened[e].open
      /\ o.opened[d].open
  BY OpeningFits
<1> HIDE DEF o
<1>4. /\ f \in Frame /\ f.step = o.step /\ f.skip = o.skip /\ f.use = o.use /\ f.opened = o.opened
      /\ f.via = d
  BY <1>3 DEF Frame
<1> HIDE DEF f
<1>5. /\ Shape(Append(b, f), at, reverifying) /\ Accounted(attempts, recoveries, Append(b, f))
      /\ Once(performed, "running", at, Append(b, f))
  BY <1>3, <1>4, TopReplaced
<1>6. b \in Seq(Frame) /\ Len(b) + 1 = Len(stack)
  BY RunningNow, FrontIs
<1>7. f.via # "none"
  BY <1>4, OwnFailuresAre
<1>8. /\ Shape(q, at, reverifying) /\ Accounted(attempts, recoveries, q) /\ q # << >> /\ q \in Seq(Frame)
      /\ q[1].use = Append(b, f)[1].use
      /\ Len(b) + 1 \in 1..Len(q)
      /\ q[Len(b) + 1].step = f.step /\ q[Len(b) + 1].opened = f.opened
  <2> HIDE DEF b
  <2>1. QED
    <3>1. Reruns[d] \in Seq((1..Steps) \ Irreversible) /\ Reruns[d] # << >>
      BY <1>1, RerunsAre
    <3>2. QED
      BY <1>4, <1>5, <1>6, <1>7, <3>1, RerunIs
<1> HIDE DEF q, b
<1>9. Once(performed, "running", at, q)
  BY <1>5, <1>8, OnceKept
<1>10. /\ attempts' \in [1..Steps -> [Detectors -> Nat]] /\ AttemptsAreCapped'
       /\ Accounted(attempts', recoveries, q)
  <2>1. q[Len(b) + 1].step = Top.step /\ q[Len(b) + 1].opened[d].open
    BY <1>3, <1>4, <1>8
  <2>2. QED
    BY <1>1, <1>8, <2>1, RunningNow, CountIs
<1>11. QED
  BY <1>1, <1>2, <1>8, <1>9, <1>10, Now, RunningNow, RunningInv

-----------------------------------------------------------------------------
(* Detectors that match, and waits that end.                                *)

LEMMA HandleInv ==
    ASSUME IInv, Polling, NEW d \in Detectors, Handle(Top, d),
           UNCHANGED <<at, reverifying, human, performed, result>>
    PROVE  IInv'
<1>1. /\ d \in Codes \ OwnFailures
      /\ pc = "running" /\ performed \in [1..Steps -> Nat] /\ Once(performed, "running", at, stack)
  BY OwnFailuresAre, Now, RunningNow
<1>2. CASE RaiseAs("business_outcome", d) /\ UNCHANGED <<stack, ledger>>
  <2>1. pc' = "raising" /\ stop' \in StopType /\ stop'.code = d
    BY <1>1, <1>2 DEF RaiseAs, StopType, Reasons
  <2>2. Once(performed', pc', at, stack')
    BY <1>1, <1>2, <2>1, OnceStops
  <2>3. AttemptsAreCapped'
    BY <1>2, Now, RunningNow DEF AttemptsAreCapped, ledger
  <2>4. recoveries' = recoveries /\ attempts' = attempts /\ stack' = stack
    BY <1>2 DEF ledger
  <2>5. QED
    BY <1>1, <2>1, <2>2, <2>3, <2>4, Now, RaisedInv
<1>3. CASE RaiseOrAsk(d) /\ UNCHANGED <<stack, ledger>>
  <2>1. pc' # "running"
    BY <1>1, <1>3, StopsAre
  <2>2. performed' \in [1..Steps -> Nat] /\ Once(performed', pc', at, stack)
    BY <1>1, <2>1, OnceStops
  <2>3. QED
    BY <1>1, <1>3, <2>2, StopInPlace
<1>4. CASE Exhaust(Top, d)
  <2>1. Replace(Opening(Top, d)) /\ RaiseOrAsk(d) /\ UNCHANGED recoveries /\ UNCHANGED attempts
    BY <1>4 DEF Exhaust, ledger
  <2>2. QED
    BY <1>1, <2>1, OpenedStop
<1>5. CASE /\ ~NoMoreTries(Top, d)
           /\ RecoverByClick(Top, d) \/ RecoverByWaiting(Top, d) \/ RecoverByRerunning(Top, d)
  BY <1>5, ClickInv, WaitRetryInv, RerunningInv
<1>6. QED
  BY <1>2, <1>3, <1>4, <1>5 DEF Handle

LEMMA MatchesInv ==
    ASSUME IInv, NEW d \in Detectors, LookMatches(d) \/ DeadlineMatches(d)
    PROVE  IInv'
BY HandleInv DEF LookMatches, DeadlineMatches, OutOfTime

\* Time passing changes no more than clocks.
LEMMA TickIs ==
    ASSUME NEW s \in Seq(Frame)
    PROVE  /\ Tick(s) \in Seq(Frame) /\ Len(Tick(s)) = Len(s) /\ Len(s) \in Nat
           /\ \A i \in 1..Len(s) :
                 /\ Tick(s)[i].step = s[i].step /\ Tick(s)[i].use = s[i].use
                 /\ Tick(s)[i].skip = s[i].skip /\ Tick(s)[i].via = s[i].via
                 /\ \A d \in Detectors : Tick(s)[i].opened[d].open = s[i].opened[d].open
<1> DEFINE less(n) == IF n > 0 THEN n - 1 ELSE n
           cell(c) == [c EXCEPT !.window = less(@)]
           cells(f) == [d \in Detectors |-> cell(f.opened[d])]
           tick(f) == [f EXCEPT !.left = less(@), !.budget = less(@), !.opened = cells(f)]
<1>1. /\ Len(s) \in Nat /\ DOMAIN s = 1..Len(s) /\ \A i \in 1..Len(s) : s[i] \in Frame
  BY LenProperties
<1>2. Tick(s) = [i \in 1..Len(s) |-> tick(s[i])]
  BY <1>1 DEF Tick
<1>3. ASSUME NEW f \in Frame
      PROVE  /\ tick(f) \in Frame /\ tick(f).step = f.step /\ tick(f).use = f.use
             /\ tick(f).skip = f.skip /\ tick(f).via = f.via
             /\ \A d \in Detectors : tick(f).opened[d].open = f.opened[d].open
  <2>1. \A n \in 0..Timeout : less(n) \in 0..Timeout
    BY TimeAssumption
  <2>2. \A n \in (0..Window) \cup {NoWindow} : less(n) \in (0..Window) \cup {NoWindow}
    BY TimeAssumption DEF NoWindow
  <2> HIDE DEF less
  <2>3. \A c \in Cell : cell(c) \in Cell /\ cell(c).open = c.open
    BY <2>2 DEF Cell
  <2> HIDE DEF cell
  <2>4. f.opened \in Cells /\ \A d \in Detectors : f.opened[d] \in Cell
    BY FrameIs DEF Cells
  <2>5. cells(f) \in Cells /\ \A d \in Detectors : cells(f)[d].open = f.opened[d].open
    BY <2>3, <2>4 DEF Cells
  <2> HIDE DEF cells
  <2>6. Frame = [step : 1..Steps, use : Uses, opened : Cells, left : 0..Timeout, budget : 0..Timeout,
                 skip : BOOLEAN, via : Detectors \cup {"none"}, rest : Seq((1..Steps) \ Irreversible)]
    BY DEF Frame, Cells, Cell
  <2>7. less(f.left) \in 0..Timeout /\ less(f.budget) \in 0..Timeout
    BY <2>1, FrameIs
  <2>8. /\ tick(f) \in Frame /\ tick(f).step = f.step /\ tick(f).use = f.use
        /\ tick(f).skip = f.skip /\ tick(f).via = f.via /\ tick(f).opened = cells(f)
    BY <2>5, <2>6, <2>7
  <2> HIDE DEF tick
  <2>9. QED
    BY <2>5, <2>8
<1> HIDE DEF tick
<1>4. Tick(s) \in [1..Len(s) -> Frame] /\ \A i \in 1..Len(s) : Tick(s)[i] = tick(s[i])
  BY <1>1, <1>2, <1>3
<1>5. Tick(s) \in Seq(Frame) /\ Len(Tick(s)) = Len(s)
  BY <1>1, <1>4
<1>6. QED
  BY <1>1, <1>3, <1>4, <1>5

LEMMA TickFits ==
    ASSUME NEW s, NEW a, NEW rv, Shape(s, a, rv), NEW att, NEW recs, Accounted(att, recs, s)
    PROVE  /\ Shape(Tick(s), a, rv) /\ Accounted(att, recs, Tick(s))
           /\ s # << >> => /\ Tick(s) # << >> /\ Tick(s)[1].use = s[1].use
                           /\ Last(Tick(s)).via = Last(s).via
<1> DEFINE q == Tick(s)
<1>1. s \in Seq(Frame)
  BY DEF Shape
<1>2. /\ q \in Seq(Frame) /\ Len(q) = Len(s) /\ Len(s) \in Nat
      /\ \A i \in 1..Len(s) :
            /\ q[i].step = s[i].step /\ q[i].use = s[i].use
            /\ q[i].skip = s[i].skip /\ q[i].via = s[i].via
            /\ \A d \in Detectors : q[i].opened[d].open = s[i].opened[d].open
  BY <1>1, TickIs
<1> HIDE DEF q
<1>3. ASSUME NEW i \in 1..Len(s)
      PROVE  Fits(q[i], i, a, rv) /\ (i < Len(s) => q[i].via # "none")
  <2>1. Fits(s[i], i, a, rv) /\ (i < Len(s) => s[i].via # "none")
    BY DEF Shape
  <2>2. q[i] \in Frame /\ s[i] \in Frame
    BY <1>1, <1>2, LenProperties
  <2>3. Opened(q[i]) = Opened(s[i])
    BY <1>2 DEF Opened
  <2>4. s[i].via # "none" => q[i].opened[q[i].via].open
    <3>1. s[i].via \in Detectors \cup {"none"}
      BY <2>2, FrameIs
    <3>2. QED
      BY <1>2, <2>1, <3>1 DEF Fits
  <2>5. QED
    BY <1>2, <2>1, <2>2, <2>3, <2>4 DEF Fits
<1>4. Shape(q, a, rv)
  BY <1>2, <1>3 DEF Shape
<1>5. Accounted(att, recs, q)
  BY <1>2 DEF Accounted, InProgress
<1>6. s # << >> => q # << >> /\ 1 \in 1..Len(s) /\ Len(s) \in 1..Len(s)
  BY <1>1, <1>2, EmptySeq
<1>7. s # << >> => q # << >> /\ q[1].use = s[1].use /\ Last(q).via = Last(s).via
  BY <1>2, <1>6 DEF Last
<1>8. QED
  BY <1>4, <1>5, <1>7 DEF q

LEMMA WaitsInv ==
    ASSUME IInv, Waits
    PROVE  IInv'
<1>1. /\ pc = "running" /\ stack' = Tick(stack)
      /\ UNCHANGED <<pc, at, stop, reverifying, human, attempts, recoveries, performed, result>>
  BY DEF Waits, Polling, ledger
<1>2. /\ Shape(Tick(stack), at, reverifying) /\ Accounted(attempts, recoveries, Tick(stack))
      /\ Tick(stack) # << >> /\ Tick(stack)[1].use = stack[1].use
  BY <1>1, Now, TickFits
<1>3. Once(performed, "running", at, Tick(stack))
  BY <1>1, <1>2, Now, OnceKept
<1>4. AttemptsAreCapped'
  BY <1>1, Now DEF AttemptsAreCapped
<1>5. QED
  BY <1>1, <1>2, <1>3, <1>4, Now, RunningInv

\* A recovery that is open owns the failure; the step's own code is raised
\* without one, and an output's only where outputs are read.
LEMMA TimedOutInv ==
    ASSUME IInv, WindowsEnd \/ DeadlinePasses
    PROVE  IInv'
<1>1. /\ Polling /\ TimedOut(Top)
      /\ UNCHANGED <<at, stack, reverifying, human, ledger, performed, result>>
  BY DEF WindowsEnd, DeadlinePasses, OutOfTime
<1>2. /\ pc = "running" /\ performed \in [1..Steps -> Nat] /\ Once(performed, "running", at, stack)
      /\ Fits(Top, Len(stack), at, reverifying) /\ Len(stack) \in Nat \ {0}
  BY <1>1, Now, RunningNow
<1>3. PICK code \in Codes :
        /\ RaiseOrAsk(code)
        /\ code \in OwnFailures => /\ Opened(Top) = {}
                                   /\ code = "OUTPUT_EXTRACTION_FAILED" => Top.use = "read"
  <2>1. CASE Opened(Top) # {}
    <3>1. PICK d \in Owners(Top) : RaiseOrAsk(d)
      BY <1>1, <2>1 DEF TimedOut
    <3>2. d \in Detectors
      BY DEF Owners, Windows, Opened
    <3>3. QED
      BY <3>1, <3>2, OwnFailuresAre
  <2>2. CASE Opened(Top) = {}
    <3>1. RaiseOrAsk(OwnFailure(Top))
      BY <1>1, <2>2 DEF TimedOut
    <3>2. /\ OwnFailure(Top) \in Codes
          /\ OwnFailure(Top) = "OUTPUT_EXTRACTION_FAILED" => Top.use = "read"
      BY OwnFailuresAre DEF OwnFailure
    <3>3. QED
      BY <2>2, <3>1, <3>2
  <2>3. QED
    BY <2>1, <2>2
<1>4. Top.use = "read" => Len(stack) <= 1
  BY <1>2 DEF Fits, FlowUses
<1>5. pc' # "running"
  BY <1>3, StopsAre
<1>6. performed' \in [1..Steps -> Nat] /\ Once(performed', pc', at, stack)
  BY <1>1, <1>2, <1>5, OnceStops
<1>7. QED
  BY <1>1, <1>2, <1>3, <1>4, <1>6, StopInPlace

-----------------------------------------------------------------------------
(* A poll that verifies.                                                    *)

LEMMA FrontLast ==
    ASSUME NEW T, NEW s \in Seq(T), s # << >>
    PROVE  s = Append(Front(s), Last(s))
<1>1. /\ Front(s) \in Seq(T) /\ Len(s) \in Nat \ {0} /\ Len(Front(s)) = Len(s) - 1
      /\ \A i \in 1..Len(s) - 1 : Front(s)[i] = s[i]
      /\ Last(s) \in T /\ Last(s) = s[Len(s)]
  BY FrontIs
<1> DEFINE b == Front(s)
           l == Last(s)
           q == Append(b, l)
<1> HIDE DEF b, l
<1>2. /\ q \in Seq(T) /\ Len(b) \in Nat /\ Len(q) = Len(b) + 1
      /\ \A i \in 1..Len(b) : q[i] = b[i]
      /\ q[Len(b) + 1] = l
  BY <1>1, AppendIs DEF b, l
<1> HIDE DEF q
<1>3. Len(q) = Len(s) /\ \A i \in 1..Len(s) : q[i] = s[i]
  <2>1. Len(b) = Len(s) - 1 /\ Len(b) + 1 = Len(s)
    BY <1>1 DEF b
  <2>2. ASSUME NEW i \in 1..Len(s) PROVE q[i] = s[i]
    <3>1. CASE i = Len(s)
      BY <1>1, <1>2, <2>1, <3>1 DEF l
    <3>2. CASE i # Len(s)
      <4>1. i \in 1..Len(b) /\ i \in 1..Len(s) - 1
        BY <1>1, <2>1, <3>2
      <4>2. QED
        BY <1>1, <1>2, <4>1 DEF b
    <3>3. QED
      BY <3>1, <3>2
  <2>3. QED
    BY <1>2, <2>1, <2>2
<1>4. q = s
  BY <1>2, <1>3, SeqEqual
<1>5. QED
  BY <1>4 DEF q, b, l

\* A poll that starts afresh at the bottom of the stack.
LEMMA PollFits ==
    ASSUME NEW step \in 1..Steps, NEW use \in EndUses \cup {"rewait", "pass"}, NEW a, NEW rv,
           use \in EndUses => ~rv
    PROVE  Fits(Poll(step, use, 0, FALSE), 1, a, rv) /\ Poll(step, use, 0, FALSE).use = use
<1> DEFINE f == Poll(step, use, 0, FALSE)
<1>1. use \in Uses /\ 0 \in 0..Timeout /\ FALSE \in BOOLEAN
  BY TimeAssumption DEF Uses, EndUses
<1>2. /\ f \in Frame /\ f.step = step /\ f.use = use /\ f.skip = FALSE
      /\ f.via = "none" /\ Opened(f) = {}
  BY <1>1, PollIs
<1> HIDE DEF f
<1>3. use \notin FlowUses
  BY DEF FlowUses, EndUses
<1>4. Fits(f, 1, a, rv) /\ f.use = use
  BY <1>2, <1>3 DEF Fits
<1>5. QED
  BY <1>4 DEF f

\* A single new poll on an empty stack.
LEMMA OneFrame ==
    ASSUME NEW a, NEW rv, NEW f, Fits(f, 1, a, rv), NEW att, NEW recs, Accounted(att, recs, << >>)
    PROVE  /\ Shape(<< f >>, a, rv) /\ << f >> # << >> /\ << f >>[1] = f
           /\ Accounted(att, recs, << f >>)
<1>1. f \in Frame /\ << >> \in Seq(Frame)
  BY DEF Fits
<1>2. Append(<< >>, f) = << f >>
  BY <1>1
<1>3. Accounted(att, recs, << f >>)
  BY <1>1, <1>2, AccountedAppend
<1>4. QED
  BY <1>3, ShapeOne

LEMMA Closed ==
    ASSUME IInv, pc = "running", Close(Top, TRUE)
    PROVE  /\ recoveries' \in Seq(Record) /\ Accounted(attempts, recoveries', Front(stack))
           /\ ~reverifying => ExcusedIn(recoveries')
<1>1. /\ recoveries \in Seq(Record) /\ stack \in Seq(Frame) /\ stack # << >>
      /\ Accounted(attempts, recoveries, stack) /\ (~reverifying => ExcusedIn(recoveries))
  BY Now
<1>2. recoveries' = recoveries \o Records(Last(stack), TRUE)
  BY DEF Close, Top
<1>3. QED
  BY <1>1, <1>2, CloseTop

LEMMA StepDoneIs ==
    ASSUME IInv, pc = "running", Top.use \in FlowUses, StepDone, NEW recs, NEW done,
           Accounted(attempts, recs, Front(stack)), Once(done, "running", at, stack)
    PROVE  /\ at' \in 1..SuccessCheck /\ stack' # << >> /\ Shape(stack', at', reverifying)
           /\ Accounted(attempts, recs, stack') /\ Once(done, "running", at', stack')
<1>1. /\ Shape(stack, at, reverifying) /\ stack \in Seq(Frame) /\ stack # << >>
      /\ Top \in Frame /\ Len(stack) \in Nat \ {0} /\ Fits(Top, Len(stack), at, reverifying)
      /\ at \in 1..SuccessCheck
  BY Now
<1>2. CASE Len(stack) = 1
  <2> DEFINE f == IF at = Steps THEN Poll(Steps, "success", 0, FALSE) ELSE StartStep(at + 1, FALSE)
  <2>1. at' = at + 1 /\ stack' = << f >>
    BY <1>2 DEF StepDone
  <2>2. at \in 1..Steps /\ ~reverifying
    BY <1>1, <1>2 DEF Fits, SuccessCheck
  <2>3. at + 1 \in 1..SuccessCheck
    BY <2>2, StepsAssumption DEF SuccessCheck
  <2>4. Fits(f, 1, at + 1, reverifying)
    <3>1. CASE at = Steps
      <4>1. Steps \in 1..Steps /\ "success" \in EndUses
        BY StepsAssumption DEF EndUses
      <4>2. Fits(Poll(Steps, "success", 0, FALSE), 1, at + 1, reverifying)
        BY <4>1, <2>2, PollFits
      <4>3. QED
        BY <3>1, <4>2
    <3>2. CASE at # Steps
      <4>1. at + 1 \in 1..Steps
        BY <2>2, <3>2, StepsAssumption
      <4> DEFINE a == at + 1
                 skip == FALSE
      <4>2. a \in 1..Steps /\ skip \in BOOLEAN /\ ~skip
        BY <4>1
      <4> HIDE DEF a, skip
      <4>3. Fits(StartStep(a, skip), 1, a, reverifying)
        BY <2>2, <4>2, StartFits
      <4>4. QED
        BY <3>2, <4>3 DEF a, skip
    <3>3. QED
      BY <3>1, <3>2
  <2> HIDE DEF f
  <2>5. Front(stack) = << >>
    BY <1>1, <1>2, FrontIs
  <2>6. Shape(<< f >>, at + 1, reverifying) /\ << f >> # << >> /\ Accounted(attempts, recs, << f >>)
    BY <2>4, <2>5, OneFrame
  <2>7. Once(done, "running", at + 1, << f >>)
    <3>1. \A s \in Irreversible : s \in 1..Steps
      BY StepsAssumption
    <3>2. \A s \in Irreversible : s < at \/ s = at => s < at + 1
      BY <3>1, <2>2
    <3>3. QED
      BY <3>2 DEF Once
  <2>8. QED
    BY <2>1, <2>3, <2>6, <2>7
<1>3. CASE Len(stack) # 1
  <2> DEFINE b0 == Front(stack)
             outer == Last(b0)
             below == Front(b0)
             g == Resumed(outer)
             q == below \o << [outer EXCEPT !.rest = Tail(outer.rest)],
                              StartStep(Head(outer.rest), Len(outer.rest) = 1) >>
  <2>1. /\ b0 \in Seq(Frame) /\ Len(b0) = Len(stack) - 1 /\ b0 # << >>
        /\ \A i \in 1..Len(stack) - 1 : b0[i] = stack[i]
    BY <1>1, <1>3, FrontIs
  <2>2. b0[1] = stack[1]
    <3>1. 1 \in 1..Len(stack) - 1
      BY <1>1, <1>3
    <3>2. QED
      BY <2>1, <3>1
  <2>3. Shape(b0, at, reverifying) /\ outer.via # "none" /\ outer \in Frame
    BY <1>1, <2>1, ShapeFront
  <2>4. at' = at /\ (stack' = Append(below, g) \/ (outer.rest # << >> /\ stack' = q))
    BY <1>3 DEF StepDone, Rerun
  <2>5. Accounted(attempts, recs, b0)
    OBVIOUS
  <2> HIDE DEF b0
  <2>6. Fits(outer, Len(b0), at, reverifying) /\ Len(b0) \in Nat \ {0}
    BY <2>1, <2>3, TopFits
  <2>7. b0 = Append(below, outer) /\ below \in Seq(Frame)
    BY <2>1, FrontLast, FrontIs
  <2> HIDE DEF outer
  <2>8. CASE stack' = Append(below, g)
    <3>1. /\ g \in Frame /\ g.step = outer.step /\ g.skip = outer.skip /\ g.via = "none"
          /\ g.opened = outer.opened /\ Opened(g) = Opened(outer)
          /\ g.use = IF outer.use = "pass" THEN "passed" ELSE outer.use
      BY <2>3, ResumedIs
    <3> HIDE DEF g
    <3>2. g.use = outer.use \/ (outer.use = "pass" /\ g.use = "passed")
      BY <3>1
    <3>3. Fits(g, Len(b0), at, reverifying)
      BY <2>6, <3>1, <3>2 DEF Fits, FlowUses, EndUses
    <3>4. /\ Shape(Append(below, g), at, reverifying) /\ Append(below, g) # << >>
          /\ Len(b0) > 1 => Append(below, g)[1] = b0[1]
          /\ Len(b0) = 1 => Append(below, g)[1] = g
      BY <2>1, <2>3, <3>3, ShapeReplace
    <3>5. Accounted(attempts, recs, Append(below, g))
      <4>1. g.step = Last(b0).step /\ \A e \in Detectors : Last(b0).opened[e].open => g.opened[e].open
        BY <3>1 DEF outer
      <4>2. QED
        BY <2>1, <2>5, <3>1, <4>1, AccountedReplace
    <3>6. stack[1].use \in Acted => Append(below, g)[1].use \in Acted
      <4>1. CASE Len(b0) > 1
        BY <2>2, <3>4, <4>1
      <4>2. CASE Len(b0) = 1
        <5>1. stack[1] = outer /\ Append(below, g)[1] = g
          BY <2>2, <3>4, <4>2 DEF outer, Last
        <5>2. outer.use \in Acted => g.use \in Acted
          BY <3>2 DEF Acted
        <5>3. QED
          BY <5>1, <5>2
      <4>3. Len(b0) = 1 \/ Len(b0) > 1
        <5> DEFINE m == Len(b0)
        <5>1. m \in Nat /\ m # 0
          BY <2>6
        <5> HIDE DEF m
        <5>2. m = 1 \/ m > 1
          BY <5>1
        <5>3. QED
          BY <5>2 DEF m
      <4>4. QED
        BY <4>1, <4>2, <4>3
    <3>7. Once(done, "running", at, Append(below, g))
      BY <3>6, OnceKept
    <3>8. QED
      BY <1>1, <2>4, <2>8, <3>4, <3>5, <3>7
  <2>9. CASE outer.rest # << >> /\ stack' = q
    <3>1. outer.rest \in Seq((1..Steps) \ Irreversible)
      BY <2>3, FrameIs
    <3>2. /\ Shape(q, at, reverifying) /\ Accounted(attempts, recs, q) /\ q # << >>
          /\ q[1].use = Append(below, outer)[1].use
      <4>1. Shape(Append(below, outer), at, reverifying) /\ Accounted(attempts, recs, Append(below, outer))
        BY <2>3, <2>5, <2>7
      <4> HIDE DEF below
      <4>2. QED
        BY <2>3, <2>7, <2>9, <3>1, <4>1, RerunIs
    <3> HIDE DEF q
    <3>3. stack[1].use \in Acted => q[1].use \in Acted
      BY <2>2, <2>7, <3>2
    <3>4. Once(done, "running", at, q)
      BY <3>3, OnceKept
    <3>5. QED
      BY <1>1, <2>4, <2>9, <3>2, <3>4
  <2>10. QED
    BY <2>4, <2>8, <2>9
<1>4. QED
  BY <1>2, <1>3

LEMMA AlwaysPositive == \A n \in Nat \ {0} : n # 1 <=> n > 1
OBVIOUS

\* A poll that verifies is closed and another takes its place.
LEMMA FreshTop ==
    ASSUME IInv, pc = "running", Close(Top, TRUE), Top.use \notin Acted,
           NEW g, Fits(g, Len(stack), at, reverifying)
    PROVE  LET q == Append(Front(stack), g)
           IN  /\ Shape(q, at, reverifying) /\ q # << >> /\ Len(q) = Len(stack) /\ Last(q) = g
               /\ Accounted(attempts, recoveries', q) /\ Once(performed, "running", at, q)
<1> DEFINE q == Append(Front(stack), g)
<1>1. /\ Shape(stack, at, reverifying) /\ stack \in Seq(Frame) /\ stack # << >>
      /\ Len(stack) \in Nat \ {0} /\ Once(performed, "running", at, stack) /\ g \in Frame
  BY Now DEF Fits
<1>2. /\ Shape(q, at, reverifying) /\ q # << >> /\ Len(q) = Len(stack) /\ Last(q) = g
      /\ Len(stack) > 1 => q[1] = stack[1]
  BY <1>1, ShapeReplace
<1>3. Accounted(attempts, recoveries', q)
  BY <1>1, Closed, FrontIs, AccountedAppend
<1> HIDE DEF q
<1>4. stack[1].use \in Acted => q[1].use \in Acted
  <2>1. Len(stack) = 1 => stack[1] = Top
    BY DEF Top, Last
  <2>2. QED
    BY <1>1, <1>2, <2>1, AlwaysPositive
<1>5. Once(performed, "running", at, q)
  BY <1>1, <1>4, OnceKept
<1>6. QED
  BY <1>2, <1>3, <1>5 DEF q

LEMMA TargetFoundInv ==
    ASSUME IInv, TargetFound
    PROVE  IInv'
<1> DEFINE p == Poll(Top.step, "act", Top.budget, Top.skip)
           g == [p EXCEPT !.left = 0]
           q == Append(Front(stack), g)
<1>1. /\ pc = "running" /\ Top.use = "resolve" /\ Close(Top, TRUE) /\ stack' = q
      /\ UNCHANGED <<pc, at, stop, reverifying, human, attempts, performed, result>>
  BY DEF TargetFound, Polling, Replace
<1>2. Top \in Frame /\ Fits(Top, Len(stack), at, reverifying)
  BY <1>1, Now
<1>3. /\ p \in Frame /\ p.step = Top.step /\ p.use = "act" /\ p.skip = Top.skip
      /\ p.via = "none" /\ Opened(p) = {}
  <2>1. "act" \in Uses
    BY DEF Uses
  <2>2. QED
    BY <1>2, <2>1, FrameIs, PollIs
<1> HIDE DEF p
<1>4. /\ g \in Frame /\ g.step = Top.step /\ g.use = "act" /\ g.skip = Top.skip
      /\ g.via = "none" /\ Opened(g) = {}
  <2>1. 0 \in 0..Timeout
    BY TimeAssumption
  <2>2. /\ g \in Frame /\ g.step = p.step /\ g.use = p.use /\ g.skip = p.skip
        /\ g.via = p.via /\ g.opened = p.opened
    BY <1>3, <2>1 DEF Frame
  <2> HIDE DEF g
  <2>3. QED
    BY <1>3, <2>2 DEF Opened
<1> HIDE DEF g
<1>5. Fits(g, Len(stack), at, reverifying)
  BY <1>1, <1>2, <1>4 DEF Fits, FlowUses, EndUses
<1>6. Top.use \notin Acted
  BY <1>1 DEF Acted
<1>7. /\ Shape(q, at, reverifying) /\ q # << >>
      /\ Accounted(attempts, recoveries', q) /\ Once(performed, "running", at, q)
  BY <1>1, <1>5, <1>6, FreshTop
<1> HIDE DEF q
<1>8. AttemptsAreCapped'
  BY <1>1, Now DEF AttemptsAreCapped
<1>9. QED
  BY <1>1, <1>7, <1>8, Now, Closed, RunningInv

LEMMA WaitPassesInv ==
    ASSUME IInv, WaitPasses
    PROVE  IInv'
<1>1. /\ pc = "running" /\ Top.use \in FlowUses /\ Close(Top, TRUE) /\ StepDone
      /\ UNCHANGED <<pc, stop, reverifying, human, attempts, performed, result>>
  BY DEF WaitPasses, Polling, FlowUses
<1>2. /\ recoveries' \in Seq(Record) /\ Accounted(attempts, recoveries', Front(stack))
      /\ ~reverifying => ExcusedIn(recoveries')
  BY <1>1, Closed
<1>3. Once(performed, "running", at, stack)
  BY <1>1, Now
<1>4. /\ at' \in 1..SuccessCheck /\ stack' # << >> /\ Shape(stack', at', reverifying)
      /\ Accounted(attempts, recoveries', stack') /\ Once(performed, "running", at', stack')
  <2> DEFINE recs == recoveries'
  <2>1. Accounted(attempts, recs, Front(stack))
    BY <1>2
  <2> HIDE DEF recs
  <2>2. /\ at' \in 1..SuccessCheck /\ stack' # << >> /\ Shape(stack', at', reverifying)
        /\ Accounted(attempts, recs, stack') /\ Once(performed, "running", at', stack')
    BY <1>1, <1>3, <2>1, StepDoneIs
  <2>3. QED
    BY <2>2 DEF recs
<1>5. AttemptsAreCapped'
  BY <1>1, Now DEF AttemptsAreCapped
<1>6. QED
  BY <1>1, <1>2, <1>4, <1>5, Now, RunningInv

\* Only the flow itself checks its success or reads outputs.
LEMMA AtTheEnd ==
    ASSUME IInv, pc = "running", Top.use \in EndUses
    PROVE  /\ Len(stack) = 1 /\ Front(stack) = << >> /\ ~reverifying
           /\ Fits(Poll(Steps, "read", 0, FALSE), Len(stack), at, reverifying)
           /\ Opened(Poll(Steps, "read", 0, FALSE)) = {}
<1>1. /\ stack \in Seq(Frame) /\ stack # << >> /\ Len(stack) \in Nat \ {0}
      /\ Fits(Top, Len(stack), at, reverifying)
  BY Now
<1>2. Top.use \notin FlowUses
  BY DEF EndUses, FlowUses
<1>3. Len(stack) = 1 /\ ~reverifying
  BY <1>1, <1>2, AlwaysPositive DEF Fits
<1>4. Front(stack) = << >>
  BY <1>1, <1>3, FrontIs
<1>5. Steps \in 1..Steps /\ "read" \in EndUses /\ "read" \in Uses
  BY StepsAssumption DEF EndUses, Uses
<1>6. Fits(Poll(Steps, "read", 0, FALSE), 1, at, reverifying)
  BY <1>3, <1>5, PollFits
<1>7. 0 \in 0..Timeout /\ FALSE \in BOOLEAN
  BY TimeAssumption
<1>8. Opened(Poll(Steps, "read", 0, FALSE)) = {}
  BY <1>5, <1>7, PollIs
<1>9. QED
  BY <1>3, <1>4, <1>6, <1>8

LEMMA CheckSucceedsInv ==
    ASSUME IInv, CheckSucceeds
    PROVE  IInv'
<1> DEFINE g == Poll(Steps, "read", 0, FALSE)
           q == Append(Front(stack), g)
<1>1. /\ pc = "running" /\ Top.use = "success" /\ Close(Top, TRUE) /\ stack' = q
      /\ UNCHANGED <<pc, at, stop, reverifying, human, attempts, performed, result>>
  BY DEF CheckSucceeds, Polling, Replace
<1>2. Top.use \in EndUses /\ Top.use \notin Acted
  BY <1>1 DEF EndUses, Acted
<1>3. Fits(g, Len(stack), at, reverifying)
  BY <1>1, <1>2, AtTheEnd
<1> HIDE DEF g
<1>4. /\ Shape(q, at, reverifying) /\ q # << >>
      /\ Accounted(attempts, recoveries', q) /\ Once(performed, "running", at, q)
  BY <1>1, <1>2, <1>3, FreshTop
<1> HIDE DEF q
<1>5. AttemptsAreCapped'
  BY <1>1, Now DEF AttemptsAreCapped
<1>6. QED
  BY <1>1, <1>4, <1>5, Now, Closed, RunningInv

LEMMA OutputUnreadableInv ==
    ASSUME IInv, OutputUnreadable
    PROVE  IInv'
<1> DEFINE g == Poll(Steps, "read", 0, FALSE)
           q == Append(Front(stack), g)
<1>1. /\ pc = "running" /\ Top.use = "read" /\ Close(Top, TRUE) /\ stack' = q
      /\ Raise("OUTPUT_EXTRACTION_FAILED") \/ PolicyStop
      /\ UNCHANGED <<at, reverifying, human, attempts, performed, result>>
  BY DEF OutputUnreadable, Polling, Replace
<1>2. Top.use \in EndUses /\ Top.use \notin Acted
  BY <1>1 DEF EndUses, Acted
<1>3. /\ Fits(g, Len(stack), at, reverifying) /\ Opened(g) = {} /\ Len(stack) = 1
  BY <1>1, <1>2, AtTheEnd
<1> HIDE DEF g
<1>4. /\ Shape(q, at, reverifying) /\ q # << >> /\ Len(q) = Len(stack) /\ Last(q) = g
      /\ Accounted(attempts, recoveries', q) /\ Once(performed, "running", at, q)
  BY <1>1, <1>2, <1>3, FreshTop
<1> HIDE DEF q
<1>5. pc' \in {"raising", "asking"} /\ stop' \in StopType
  BY <1>1, OwnFailuresAre DEF Raise, RaiseAs, PolicyStop, StopType, Reasons
<1>6. Once(performed', pc', at, stack')
  BY <1>1, <1>4, <1>5, OnceStops
<1>7. AttemptsAreCapped'
  BY <1>1, Now DEF AttemptsAreCapped
<1>8. Opened(Last(stack')) = {} /\ Len(stack') <= 1
  BY <1>1, <1>3, <1>4
<1>9. QED
  BY <1>1, <1>4, <1>5, <1>6, <1>7, <1>8, Now, Closed, RaisedInv

LEMMA EndInv ==
    ASSUME IInv, pc' = "ended", stack' = << >>,
           UNCHANGED <<at, reverifying, human, attempts, performed>>,
           recoveries' \in Seq(Record), stop' \in StopType, Accounted(attempts, recoveries', << >>),
           result' \in {"success", "recovered_then_success"} => ExcusedIn(recoveries'),
           result' = "hard_failure" /\ stop'.code \in OwnFailures => ExcusedIn(recoveries')
    PROVE  IInv'
<1>1. Typed'
  BY DEF IInv, Typed, human, PCs
<1>2. Owned'
  BY DEF Owned
<1>3. Ended'
  BY DEF Ended, Excused
<1>4. Shape(stack', at', reverifying') /\ Accounted(attempts', recoveries', stack')
  BY ShapeNone
<1>5. AttemptsAreCapped'
  BY DEF IInv, AttemptsAreCapped
<1>6. Once(performed', pc', at', stack')
  BY OnceStops DEF IInv
<1>7. QED
  BY <1>1, <1>2, <1>3, <1>4, <1>5, <1>6 DEF IInv

LEMMA OutputReadInv ==
    ASSUME IInv, OutputRead
    PROVE  IInv'
<1>1. /\ pc = "running" /\ Top.use \in EndUses /\ Close(Top, TRUE) /\ stack' = << >>
      /\ pc' = "ended" /\ result' \in {"success", "recovered_then_success"}
      /\ UNCHANGED <<at, stop, reverifying, human, attempts, performed>>
  BY DEF OutputRead, Polling, EndUses, Finish, End
<1>2. ~reverifying /\ Front(stack) = << >>
  BY <1>1, AtTheEnd
<1>3. /\ recoveries' \in Seq(Record) /\ Accounted(attempts, recoveries', << >>)
      /\ ExcusedIn(recoveries')
  BY <1>1, <1>2, Closed
<1>4. stop' \in StopType
  BY <1>1 DEF IInv, Typed
<1>5. QED
  BY <1>1, <1>3, <1>4, EndInv

\* The flow goes on behind what a hand-back re-verified.
LEMMA HandbackVerifiedInv ==
    ASSUME IInv, HandbackVerified
    PROVE  IInv'
<1> DEFINE h == HumanRecord("handed_back")
           recs == recoveries \o Records(Last(stack), TRUE)
           f == IF at >= Steps THEN Poll(Steps, "success", 0, FALSE) ELSE StartStep(at + 1, FALSE)
           a == IF at = SuccessCheck THEN at ELSE at + 1
<1>1. /\ pc = "running" /\ Top.use \in HandbackUses /\ recoveries' = Append(recs, h)
      /\ reverifying' = FALSE /\ at' = a /\ stack' = << f >>
      /\ UNCHANGED <<pc, stop, human, attempts, performed, result>>
  BY DEF HandbackVerified, HandbackUses, Top
<1>2. /\ stack \in Seq(Frame) /\ stack # << >> /\ Len(stack) \in Nat \ {0}
      /\ Fits(Top, Len(stack), at, reverifying) /\ at \in 1..SuccessCheck
      /\ recoveries \in Seq(Record) /\ Accounted(attempts, recoveries, stack)
      /\ Once(performed, "running", at, stack)
  BY <1>1, Now
<1>3. Len(stack) = 1
  BY <1>1, <1>2, AlwaysPositive DEF Fits, FlowUses, HandbackUses
<1>4. Front(stack) = << >>
  BY <1>2, <1>3, FrontIs
<1>5. recs \in Seq(Record) /\ Accounted(attempts, recs, << >>)
  <2>1. recs \in Seq(Record) /\ Accounted(attempts, recs, Front(stack))
    BY <1>2, CloseTop
  <2> HIDE DEF recs
  <2>2. QED
    BY <1>4, <2>1
<1> HIDE DEF recs
<1>6. h \in Record /\ h.type = "human" /\ h.succeeded
  BY <1>2, HumanRecordIs
<1> HIDE DEF h
<1>7. /\ Append(recs, h) \in Seq(Record) /\ ExcusedIn(Append(recs, h))
      /\ Accounted(attempts, Append(recs, h), << >>)
  <2>1. Append(recs, h) \in Seq(Record)
    BY <1>5, <1>6, AppendIs
  <2>2. << h >> \in Seq(Record) /\ recs \o << h >> = Append(recs, h)
    BY <1>5, <1>6
  <2>3. Accounted(attempts, recs \o << h >>, << >>)
    BY <1>5, <2>2, AccountedMore
  <2>4. ExcusedIn(Append(recs, h))
    BY <1>5, <1>6, HandbackExcuses
  <2>5. QED
    BY <2>1, <2>2, <2>3, <2>4
<1>8. a \in 1..SuccessCheck
  BY <1>2, StepsAssumption DEF SuccessCheck
<1>9. Fits(f, 1, a, FALSE)
  <2>1. CASE at >= Steps
    <3>1. Steps \in 1..Steps /\ "success" \in EndUses
      BY StepsAssumption DEF EndUses
    <3> HIDE DEF a
    <3>2. Fits(Poll(Steps, "success", 0, FALSE), 1, a, FALSE)
      BY <3>1, PollFits
    <3>3. QED
      BY <2>1, <3>2
  <2>2. CASE ~(at >= Steps)
    <3>1. a = at + 1 /\ a \in 1..Steps
      BY <1>2, <2>2, StepsAssumption DEF SuccessCheck
    <3> DEFINE skip == FALSE
               rv == FALSE
    <3>2. skip \in BOOLEAN /\ ~skip /\ ~rv
      OBVIOUS
    <3> HIDE DEF a, skip, rv
    <3>3. Fits(StartStep(a, skip), 1, a, rv)
      BY <3>1, <3>2, StartFits
    <3>4. QED
      BY <2>2, <3>1, <3>3 DEF skip, rv
  <2>3. QED
    BY <2>1, <2>2
<1>10. Once(performed, "running", a, << f >>)
  <2>1. \A s \in Irreversible : s \in 1..Steps
    BY StepsAssumption
  <2>2. \A s \in Irreversible : s < at \/ s = at => s < a
    BY <1>2, <2>1, StepsAssumption DEF SuccessCheck
  <2> HIDE DEF a, f
  <2>3. QED
    BY <1>2, <2>2 DEF Once
<1> HIDE DEF f, a
<1>11. /\ Shape(<< f >>, a, FALSE) /\ << f >> # << >>
       /\ Accounted(attempts, Append(recs, h), << f >>)
  BY <1>7, <1>9, OneFrame
<1>12. AttemptsAreCapped'
  BY <1>1, Now DEF AttemptsAreCapped
<1>13. QED
  BY <1>1, <1>7, <1>8, <1>10, <1>11, <1>12, Now, RunningInv

-----------------------------------------------------------------------------
(* A step's action.                                                         *)

LEMMA ActingNow ==
    ASSUME IInv, Acting
    PROVE  /\ pc = "running" /\ Top.use = "act" /\ Top \in Frame /\ Top.step \in 1..Steps
           /\ Top.budget \in 0..Timeout /\ Top.skip \in BOOLEAN
           /\ Opened(Top) = {} /\ Accounted(attempts, recoveries, Front(stack))
           /\ Len(stack) = 1 => /\ Top.step = at /\ stack[1] = Top /\ ~Top.skip /\ ~reverifying
                                /\ at <= Steps
           /\ Len(stack) # 1 => Top.step \notin Irreversible /\ Len(stack) > 1
<1>1. /\ pc = "running" /\ Top.use = "act"
      /\ stack \in Seq(Frame) /\ stack # << >> /\ Len(stack) \in Nat \ {0} /\ Top \in Frame
      /\ Fits(Top, Len(stack), at, reverifying) /\ Accounted(attempts, recoveries, stack)
  BY Now DEF Acting
<1>2. Top.use \in FlowUses /\ Opened(Top) = {}
  BY <1>1 DEF FlowUses, Fits
<1>3. Accounted(attempts, recoveries, Front(stack))
  BY <1>1, <1>2, AccountedClosed DEF Top
<1>4. /\ Len(stack) = 1 => /\ Top.step = at /\ stack[1] = Top /\ ~Top.skip /\ ~reverifying
                           /\ at <= Steps
      /\ Len(stack) > 1 => Top.step \notin Irreversible
  BY <1>1, <1>2 DEF Fits, Top, Last
<1>5. Len(stack) # 1 => Len(stack) > 1
  BY <1>1, AlwaysPositive
<1>6. QED
  BY <1>1, <1>2, <1>3, <1>4, <1>5, FrameIs

\* What an act that may have reached the app leaves: an irreversible step is the
\* flow's own, and had not acted before.
LEMMA ReachedIs ==
    ASSUME IInv, Acting, Reached(Top.step) \/ UNCHANGED performed
    PROVE  /\ performed' \in [1..Steps -> Nat]
           /\ \A s \in Irreversible : /\ performed'[s] \in {0, 1}
                                      /\ performed'[s] = 1 => s < at \/ s = at
           /\ Len(stack) # 1 => Once(performed', "running", at, stack)
           /\ at \notin Irreversible => \A p, q : Once(performed', p, at, q)
<1>1. /\ performed \in [1..Steps -> Nat] /\ Once(performed, "running", at, stack)
      /\ Top.step \in 1..Steps /\ Irreversible \subseteq 1..Steps
  BY ActingNow, Now, StepsAssumption
<1>2. PICK k \in {0, 1} : performed' = [performed EXCEPT ![Top.step] = @ + k]
  <2>1. CASE UNCHANGED performed
    <3>1. performed' = [performed EXCEPT ![Top.step] = @ + 0]
      BY <1>1, <2>1
    <3>2. QED
      BY <3>1
  <2>2. CASE Reached(Top.step)
    <3>1. PICK rated \in Ratings(Top.step) :
            performed' = [performed EXCEPT ![Top.step] = IF rated = "irreversible" THEN @ + 1 ELSE @]
      BY <2>2 DEF Reached
    <3>2. CASE rated = "irreversible"
      <4>1. performed' = [performed EXCEPT ![Top.step] = @ + 1]
        BY <3>1, <3>2
      <4>2. QED
        BY <4>1
    <3>3. CASE rated # "irreversible"
      <4>1. performed' = [performed EXCEPT ![Top.step] = @]
        BY <3>1, <3>3
      <4>2. performed' = performed
        BY <1>1, <4>1
      <4>3. performed' = [performed EXCEPT ![Top.step] = @ + 0]
        BY <1>1, <4>2
      <4>4. QED
        BY <4>3
    <3>4. QED
      BY <3>2, <3>3
  <2>3. QED
    BY <2>1, <2>2
<1>3. /\ performed' \in [1..Steps -> Nat]
      /\ \A s \in 1..Steps : performed'[s] = IF s = Top.step THEN performed[s] + k ELSE performed[s]
  BY <1>1, <1>2
<1>4. CASE Len(stack) # 1
  <2>1. Top.step \notin Irreversible
    BY <1>4, ActingNow
  <2>2. \A s \in Irreversible : performed'[s] = performed[s]
    BY <1>1, <1>3, <2>1
  <2>3. Once(performed', "running", at, stack)
    BY <1>1, <2>2 DEF Once
  <2>4. at \notin Irreversible => \A p, q : Once(performed', p, at, q)
    BY <2>3 DEF Once
  <2>5. QED
    BY <1>3, <2>3, <2>4 DEF Once
<1>5. CASE Len(stack) = 1
  <2>1. Top.step = at /\ stack[1].use = "act"
    BY <1>5, ActingNow
  <2>2. stack[1].use \notin Acted
    BY <2>1 DEF Acted
  <2>3. \A s \in Irreversible : performed[s] \in {0, 1} /\ (performed[s] = 1 => s < at)
    BY <1>1, <2>2 DEF Once
  <2>4. at \in Irreversible => performed[at] = 0
    <3>1. at \in 1..SuccessCheck
      BY ActingNow, Now
    <3>2. ~(at < at)
      BY <3>1, StepsAssumption DEF SuccessCheck
    <3>3. QED
      BY <2>3, <3>2
  <2>5. \A s \in Irreversible : /\ s # at => performed'[s] = performed[s]
                                /\ s = at => performed'[s] = k
    BY <1>1, <1>3, <2>1, <2>4
  <2>6. \A s \in Irreversible : /\ performed'[s] \in {0, 1}
                                /\ performed'[s] = 1 => s < at \/ s = at
    BY <2>3, <2>5
  <2>7. at \notin Irreversible => \A p, q : Once(performed', p, at, q)
    BY <2>3, <2>5 DEF Once
  <2>8. QED
    BY <1>3, <1>5, <2>6, <2>7
<1>6. QED
  BY <1>4, <1>5

LEMMA ActRefusedInv ==
    ASSUME IInv, ActRefused
    PROVE  IInv'
<1>1. Acting /\ UNCHANGED <<at, stack, reverifying, human, ledger, performed, result>>
  BY DEF ActRefused
<1>2. /\ pc = "running" /\ performed \in [1..Steps -> Nat] /\ Once(performed, "running", at, stack)
  BY <1>1, ActingNow, Now
<1>3. PICK code \in {"POLICY_BLOCKED", "TARGET_CHANGED"} :
        RaiseOrAsk(code) \/ Raise(code)
        \/ (code = "POLICY_BLOCKED" /\ (PolicyStop \/ Ask(code, "IRREVERSIBLE_NEEDS_HUMAN")))
  BY DEF ActRefused
<1>4. code \in Codes \ OwnFailures
  BY OwnFailuresAre
<1>5. pc' # "running"
  BY <1>3, <1>4, StopsAre
<1>6. performed' \in [1..Steps -> Nat] /\ Once(performed', pc', at, stack)
  BY <1>1, <1>2, <1>5, OnceStops
<1>7. QED
  BY <1>1, <1>2, <1>3, <1>4, <1>6, StopInPlace

LEMMA ActWorksInv ==
    ASSUME IInv, ActWorks
    PROVE  IInv'
<1>1. /\ Acting /\ Reached(Top.step) /\ UNCHANGED <<pc, stop, reverifying, human, ledger, result>>
      /\ attempts' = attempts /\ recoveries' = recoveries
  BY DEF ActWorks, ledger
<1>2. /\ performed' \in [1..Steps -> Nat]
      /\ \A s \in Irreversible : /\ performed'[s] \in {0, 1}
                                 /\ performed'[s] = 1 => s < at \/ s = at
      /\ Len(stack) # 1 => Once(performed', "running", at, stack)
  BY <1>1, ReachedIs
<1>3. AttemptsAreCapped'
  BY <1>1, ActingNow, Now DEF AttemptsAreCapped
<1>4. CASE Top.skip
  <2>1. StepDone /\ Top.use \in FlowUses
    BY <1>1, <1>4, ActingNow DEF ActWorks, FlowUses
  <2> DEFINE done == performed'
  <2>2. Once(done, "running", at, stack) /\ Accounted(attempts, recoveries, Front(stack))
    BY <1>1, <1>2, <1>4, ActingNow
  <2> HIDE DEF done
  <2>3. /\ at' \in 1..SuccessCheck /\ stack' # << >> /\ Shape(stack', at', reverifying)
        /\ Accounted(attempts, recoveries, stack') /\ Once(done, "running", at', stack')
    BY <1>1, <2>1, <2>2, ActingNow, StepDoneIs
  <2>4. QED
    BY <1>1, <1>2, <1>3, <2>3, ActingNow, Now, RunningInv DEF done
<1>5. CASE ~Top.skip
  <2> DEFINE g == Poll(Top.step, "wait", 0, FALSE)
             q == Append(Front(stack), g)
  <2>1. stack' = q /\ at' = at
    BY <1>1, <1>5 DEF ActWorks, Replace
  <2>2. /\ Shape(stack, at, reverifying) /\ stack # << >> /\ Len(stack) \in Nat \ {0}
        /\ stack \in Seq(Frame) /\ Fits(Top, Len(stack), at, reverifying)
    BY <1>1, ActingNow, Now
  <2>3. g \in Frame /\ g.step = Top.step /\ g.use = "wait" /\ ~g.skip /\ g.via = "none" /\ Opened(g) = {}
    <3> DEFINE skip == FALSE
               step == Top.step
    <3>1. "wait" \in Uses /\ 0 \in 0..Timeout /\ skip \in BOOLEAN /\ ~skip /\ step \in 1..Steps
      BY <1>1, TimeAssumption, ActingNow DEF Uses
    <3>2. g = Poll(step, "wait", 0, skip)
      OBVIOUS
    <3> HIDE DEF skip, step, g
    <3>3. g \in Frame /\ g.step = step /\ g.use = "wait" /\ ~g.skip /\ g.via = "none" /\ Opened(g) = {}
      BY <3>1, <3>2, PollIs
    <3>4. QED
      BY <3>3 DEF step
  <2> HIDE DEF g
  <2>4. Fits(g, Len(stack), at, reverifying)
    BY <1>1, <2>2, <2>3, ActingNow DEF Fits, FlowUses, EndUses
  <2>5. /\ Shape(q, at, reverifying) /\ q # << >>
        /\ Len(stack) > 1 => q[1] = stack[1]
        /\ Len(stack) = 1 => q[1] = g
    BY <2>2, <2>4, ShapeReplace
  <2>6. Accounted(attempts, recoveries, q)
    BY <1>1, <2>2, <2>3, ActingNow, FrontIs, AccountedAppend
  <2> HIDE DEF q
  <2>7. Once(performed', "running", at, q)
    <3>1. CASE Len(stack) = 1
      <4>1. q[1].use \in Acted
        BY <2>3, <2>5, <3>1 DEF Acted
      <4>2. QED
        BY <1>2, <4>1 DEF Once
    <3>2. CASE Len(stack) # 1
      <4>1. q[1] = stack[1]
        BY <2>2, <2>5, <3>2, AlwaysPositive
      <4>2. QED
        BY <1>2, <3>2, <4>1 DEF Once
    <3>3. QED
      BY <3>1, <3>2
  <2>8. QED
    BY <1>1, <1>2, <1>3, <2>1, <2>5, <2>6, <2>7, ActingNow, Now, RunningInv
<1>6. QED
  BY <1>4, <1>5

\* A failed act is retried only if nothing irreversible may have been done.
LEMMA ActFailsInv ==
    ASSUME IInv, ActFails
    PROVE  IInv'
<1>1. PICK judged \in Ratings(Top.step) :
          /\ Reached(Top.step) \/ UNCHANGED performed
          /\ \/ /\ Retryable(judged) /\ Top.budget > 0
                /\ stack' = Append(Tick(Front(stack)),
                       [StartStep(Top.step, Top.skip) EXCEPT !.budget = Top.budget - 1])
                /\ UNCHANGED <<pc, stop>>
             \/ /\ ~Retryable(judged) \/ Top.budget = 0
                /\ RaiseOrAsk("STEP_FAILED")
                /\ UNCHANGED stack
             \/ PolicyStop /\ UNCHANGED stack
  BY DEF ActFails
<1>2. /\ Acting /\ UNCHANGED <<at, reverifying, human, ledger, result>>
      /\ attempts' = attempts /\ recoveries' = recoveries
  BY DEF ActFails, ledger
<1>3. /\ performed' \in [1..Steps -> Nat]
      /\ \A s \in Irreversible : /\ performed'[s] \in {0, 1}
                                 /\ performed'[s] = 1 => s < at \/ s = at
      /\ Len(stack) # 1 => Once(performed', "running", at, stack)
      /\ at \notin Irreversible => \A p, q : Once(performed', p, at, q)
  BY <1>1, <1>2, ReachedIs
<1>4. /\ Shape(stack, at, reverifying) /\ stack # << >> /\ Len(stack) \in Nat \ {0}
      /\ stack \in Seq(Frame) /\ Fits(Top, Len(stack), at, reverifying)
  BY <1>2, ActingNow, Now
<1>5. CASE /\ Retryable(judged) /\ Top.budget > 0
           /\ stack' = Append(Tick(Front(stack)),
                  [StartStep(Top.step, Top.skip) EXCEPT !.budget = Top.budget - 1])
           /\ UNCHANGED <<pc, stop>>
  <2> DEFINE b == Front(stack)
             t == Tick(b)
             p == StartStep(Top.step, Top.skip)
             g == [p EXCEPT !.budget = Top.budget - 1]
             q == Append(t, g)
  <2>1. stack' = q
    BY <1>5
  <2>2. /\ b \in Seq(Frame) /\ Len(b) = Len(stack) - 1 /\ (b = << >> <=> Len(stack) = 1)
        /\ \A i \in 1..Len(stack) - 1 : b[i] = stack[i]
    BY <1>4, FrontIs
  <2>3. /\ Shape(b, at, reverifying) /\ (b # << >> => Last(b).via # "none")
        /\ Accounted(attempts, recoveries, b)
    BY <1>2, <1>4, ShapeFront, ActingNow
  <2> HIDE DEF b
  <2>4. /\ Shape(t, at, reverifying) /\ Accounted(attempts, recoveries, t)
        /\ t \in Seq(Frame) /\ Len(t) = Len(stack) - 1
        /\ b # << >> => t # << >> /\ t[1].use = b[1].use /\ Last(t).via # "none"
    BY <2>2, <2>3, TickFits, TickIs
  <2> HIDE DEF t
  <2>5. Fits(p, Len(stack), at, reverifying)
    <3>1. /\ Len(stack) = 1 => ~Top.skip /\ at = Top.step /\ ~reverifying
          /\ Len(stack) > 1 => Top.step \notin Irreversible
      <4>1. Len(stack) > 1 => Len(stack) # 1
        BY <1>4, AlwaysPositive
      <4>2. Len(stack) = 1 => ~Top.skip /\ at = Top.step /\ ~reverifying
        BY <1>2, ActingNow
      <4>3. Len(stack) # 1 => Top.step \notin Irreversible
        BY <1>2, ActingNow
      <4>4. QED
        BY <4>1, <4>2, <4>3
    <3>2. Top.step \in 1..Steps /\ Top.skip \in BOOLEAN /\ Len(stack) \in Nat
      BY <1>2, <1>4, ActingNow
    <3>3. QED
      BY <3>1, <3>2, StartFits
  <2> HIDE DEF p
  <2>6. Fits(g, Len(stack), at, reverifying)
    <3>1. Top.budget - 1 \in 0..Timeout
      BY <1>2, <1>5, ActingNow, TimeAssumption
    <3> DEFINE budget == Top.budget - 1
    <3> HIDE DEF budget
    <3>2. p \in Frame
      BY <2>5 DEF Fits
    <3>3. g = [p EXCEPT !.budget = budget]
      BY DEF budget
    <3> HIDE DEF g
    <3>4. /\ g \in Frame /\ g.step = p.step /\ g.use = p.use /\ g.skip = p.skip
          /\ g.via = p.via /\ g.opened = p.opened
      BY <3>1, <3>2, <3>3 DEF Frame, budget
    <3>5. Opened(g) = Opened(p)
      BY <3>4 DEF Opened
    <3>6. QED
      BY <2>5, <3>4, <3>5 DEF Fits
  <2> HIDE DEF g
  <2>7. g \in Frame /\ Len(t) + 1 = Len(stack) /\ (t # << >> => Last(t).via # "none")
    <3>1. t # << >> => b # << >>
      BY <1>4, <2>2, <2>4, EmptySeq
    <3>2. QED
      BY <1>4, <2>4, <2>6, <3>1 DEF Fits
  <2>8. Shape(q, at, reverifying)
    BY <2>4, <2>6, <2>7, ShapeAppend
  <2>9. /\ Accounted(attempts, recoveries, q) /\ q # << >>
        /\ \A i \in 1..Len(t) : q[i] = t[i]
    BY <2>4, <2>7, AccountedAppend, AppendIs
  <2> HIDE DEF q
  <2>10. Once(performed', "running", at, q)
    <3>1. CASE Len(stack) = 1
      <4>1. at \notin Irreversible
        BY <1>2, <1>5, <3>1, ActingNow DEF Ratings, Declared, Retryable
      <4>2. QED
        BY <1>3, <4>1
    <3>2. CASE Len(stack) # 1
      <4>1. 1 \in 1..Len(stack) - 1 /\ b # << >>
        BY <1>4, <2>2, <3>2
      <4>2. q[1].use = stack[1].use
        BY <2>2, <2>4, <2>9, <4>1
      <4>3. QED
        BY <1>3, <3>2, <4>2 DEF Once
    <3>3. QED
      BY <3>1, <3>2
  <2>11. AttemptsAreCapped'
    BY <1>2, ActingNow, Now DEF AttemptsAreCapped
  <2>12. QED
    BY <1>2, <1>3, <1>5, <2>1, <2>8, <2>9, <2>10, <2>11, ActingNow, Now, RunningInv
<1>6. CASE \E code \in {"STEP_FAILED", "POLICY_BLOCKED"} :
             /\ RaiseOrAsk(code) \/ (code = "POLICY_BLOCKED" /\ PolicyStop)
             /\ UNCHANGED stack
  <2>1. PICK code \in {"STEP_FAILED", "POLICY_BLOCKED"} :
             RaiseOrAsk(code) \/ (code = "POLICY_BLOCKED" /\ PolicyStop)
    BY <1>6
  <2>2. code \in Codes /\ code # "OUTPUT_EXTRACTION_FAILED"
    BY OwnFailuresAre
  <2>3. pc' # "running"
    BY <2>1, <2>2, StopsAre
  <2>4. Once(performed', pc', at, stack)
    BY <1>3, <2>3 DEF Once
  <2>5. UNCHANGED <<at, stack, reverifying, human, ledger, result>>
    BY <1>2, <1>6
  <2>6. QED
    BY <1>2, <1>3, <2>1, <2>2, <2>4, <2>5, ActingNow, StopInPlace
<1>7. QED
  BY <1>1, <1>5, <1>6

-----------------------------------------------------------------------------
(* Stops.                                                                   *)

\* What holds of the stack and the records whatever the run is doing.
LEMMA Always ==
    ASSUME IInv
    PROVE  /\ stack \in Seq(Frame) /\ Shape(stack, at, reverifying) /\ at \in 1..SuccessCheck
           /\ Accounted(attempts, recoveries, stack) /\ recoveries \in Seq(Record)
           /\ stop \in StopType /\ reverifying \in BOOLEAN
           /\ pauses \in 0..MAX_HUMAN_PAUSES /\ answered \in BOOLEAN /\ attended \in BOOLEAN
           /\ Owned
BY DEF IInv, Typed, Shape

\* From a stop to the next.
LEMMA StoppedInv ==
    ASSUME IInv, pc # "ended", pc' \in {"raising", "asking", "unwinding"}, stop' \in StopType,
           UNCHANGED <<at, attended, attempts, performed, result>>,
           answered' \in BOOLEAN, pauses' \in 0..MAX_HUMAN_PAUSES, reverifying' \in BOOLEAN,
           recoveries' \in Seq(Record), Shape(stack', at, reverifying'),
           Accounted(attempts, recoveries', stack'), Owned'
    PROVE  IInv'
<1>1. Typed'
  BY DEF IInv, Typed, PCs
<1>2. Ended'
  BY DEF IInv, Ended
<1>3. Once(performed', pc', at', stack')
  BY OnceStops DEF IInv
<1>4. AttemptsAreCapped'
  BY DEF IInv, AttemptsAreCapped
<1>5. QED
  BY <1>1, <1>2, <1>3, <1>4 DEF IInv

LEMMA NobodyIsAskedInv ==
    ASSUME IInv, NobodyIsAsked
    PROVE  IInv'
<1>1. /\ pc = "asking" /\ pc' = "raising"
      /\ UNCHANGED <<at, stack, reverifying, answered, attended, ledger, performed, result>>
      /\ attempts' = attempts /\ recoveries' = recoveries
  BY DEF NobodyIsAsked, ledger
<1>2. stop' = stop \/ stop' = [stop EXCEPT !.status = "escalated"]
  <2>1. stop \in StopType
    BY Always
  <2>2. stop = [stop EXCEPT !.status = @]
    BY <2>1 DEF StopType
  <2>3. QED
    BY <2>2 DEF NobodyIsAsked
<1>3. stop' \in StopType /\ (stop' = stop \/ stop'.status = "escalated")
  BY <1>2, Always DEF StopType
<1>4. pauses' \in 0..MAX_HUMAN_PAUSES
  BY Always, TimeAssumption DEF NobodyIsAsked
<1>5. Owned'
  BY <1>1, <1>3, Always DEF Owned, Excused
<1>6. QED
  BY <1>1, <1>3, <1>4, <1>5, Always, StoppedInv

\* A hand-back's record, and one of a pause that was not handed back.
LEMMA HumanRecorded ==
    ASSUME IInv, NEW o \in {"handed_back", "not_handed_back"}
    PROVE  LET recs == Append(recoveries, HumanRecord(o))
           IN  /\ recs \in Seq(Record) /\ Accounted(attempts, recs, stack)
               /\ o = "handed_back" => ExcusedIn(recs)
               /\ Excused => ExcusedIn(recs)
<1> DEFINE h == HumanRecord(o)
           r == << h >>
<1>1. recoveries \in Seq(Record) /\ Accounted(attempts, recoveries, stack)
  BY Always
<1>2. h \in Record /\ h.type = "human" /\ (o = "handed_back" => h.succeeded)
  BY Always, HumanRecordIs
<1> HIDE DEF h
<1>3. /\ r \in Seq(Record) /\ recoveries \o r = Append(recoveries, h)
      /\ \A i \in 1..Len(r) : r[i].type = "human"
  BY <1>1, <1>2
<1> HIDE DEF r
<1>4. recoveries \o r \in Seq(Record) /\ Accounted(attempts, recoveries \o r, stack)
  BY <1>1, <1>3, ConcatIs, AccountedMore
<1>5. Excused => ExcusedIn(recoveries \o r)
  BY <1>1, <1>3, ExcusedStays DEF Excused
<1>6. o = "handed_back" => ExcusedIn(Append(recoveries, h))
  BY <1>1, <1>2, HandbackExcuses
<1>7. QED
  BY <1>3, <1>4, <1>5, <1>6 DEF h

LEMMA HumanIsAskedInv ==
    ASSUME IInv, HumanIsAsked
    PROVE  IInv'
<1>1. /\ pc = "asking" /\ UNCHANGED <<at, stack, reverifying, attended, attempts, performed, result>>
      /\ answered' = TRUE /\ pauses' \in 0..MAX_HUMAN_PAUSES
  BY Always, TimeAssumption DEF HumanIsAsked
<1>2. CASE pc' = "unwinding" /\ UNCHANGED <<stop, recoveries>>
  <2>1. Owned'
    BY <1>2 DEF Owned
  <2>2. QED
    BY <1>1, <1>2, <2>1, Always, StoppedInv
<1>3. CASE /\ pc' = "raising"
           /\ stop' = [stop EXCEPT !.status = "escalated"]
           /\ recoveries' = Append(recoveries, HumanRecord("not_handed_back"))
  <2>1. stop' \in StopType /\ stop'.status = "escalated"
    BY <1>3, Always DEF StopType
  <2> DEFINE recs == Append(recoveries, HumanRecord("not_handed_back"))
  <2>2. recs \in Seq(Record) /\ Accounted(attempts, recs, stack) /\ (Excused => ExcusedIn(recs))
    BY HumanRecorded
  <2>3. recoveries' = recs
    BY <1>3
  <2> HIDE DEF recs
  <2>4. Excused => Excused'
    BY <2>2, <2>3 DEF Excused
  <2>5. Owned'
    BY <1>1, <1>3, <2>1, <2>4, Always DEF Owned
  <2>6. QED
    BY <1>1, <1>3, <2>1, <2>2, <2>3, <2>5, Always, StoppedInv
<1>4. QED
  BY <1>2, <1>3 DEF HumanIsAsked

\* A stop passes one level.
LEMMA UnwindInv ==
    ASSUME IInv, Unwind
    PROVE  IInv'
<1> DEFINE b == Front(stack)
           recs == recoveries \o Records(Last(stack), FALSE)
           converts == /\ Len(stack) > 1 /\ stop.status = "hard_failure"
                       /\ stop.code \in RecoveryStepFailures
<1>1. /\ pc = "raising" /\ stack # << >> /\ recoveries' = recs /\ stack' = b
      /\ UNCHANGED <<at, reverifying, human, attempts, performed, result>>
  BY DEF Unwind, Close, Top
<1>2. IF converts THEN RaiseOrAsk(Last(b).via) ELSE UNCHANGED <<pc, stop>>
  BY DEF Unwind, RerunFailed
<1>3. /\ recs \in Seq(Record) /\ Accounted(attempts, recs, b)
      /\ Opened(Last(stack)) = {} => recs = recoveries
  BY <1>1, Always, CloseTop
<1> HIDE DEF recs
<1>4. /\ Shape(b, at, reverifying) /\ (b # << >> => Last(b).via # "none" /\ Last(b) \in Frame)
      /\ b = << >> <=> Len(stack) = 1
      /\ Len(stack) \in Nat \ {0}
  BY <1>1, Always, ShapeFront, FrontIs
<1>5. Len(stack) # 1 <=> Len(stack) > 1
  BY <1>4, AlwaysPositive
<1> HIDE DEF b
<1>6. CASE converts
  <2>1. Last(b).via \in Detectors
    <3>1. b # << >>
      BY <1>4, <1>5, <1>6
    <3>2. QED
      BY <1>4, <3>1, FrameIs
  <2>2. /\ pc' \in {"raising", "asking"} /\ stop' \in StopType /\ stop'.code \notin OwnFailures
    BY <1>2, <1>6, <2>1, OwnFailuresAre, StopsAre
  <2>3. Owned'
    BY <1>1, <1>4, <2>2 DEF Owned
  <2>4. QED
    BY <1>1, <1>3, <1>4, <2>2, <2>3, Always, StoppedInv DEF human
<1>7. CASE ~converts
  <2>1. pc' = "raising" /\ stop' = stop
    BY <1>1, <1>2, <1>7
  <2>2. ASSUME ~reverifying, stop.status = "hard_failure", stop.code \in OwnFailures
        PROVE  Excused' /\ b = << >>
    <3>1. /\ Excused /\ Opened(Last(stack)) = {}
          /\ stop.code = "OUTPUT_EXTRACTION_FAILED" => Len(stack) <= 1
      BY <1>1, <2>2, Always DEF Owned
    <3>2. Excused'
      BY <1>1, <1>3, <3>1 DEF Excused
    <3>3. ~(Len(stack) > 1)
      <4>1. CASE stop.code = "STEP_FAILED"
        BY <1>7, <2>2, <4>1 DEF RecoveryStepFailures
      <4>2. CASE stop.code = "OUTPUT_EXTRACTION_FAILED"
        BY <1>4, <3>1, <4>2
      <4>3. QED
        BY <2>2, <4>1, <4>2 DEF OwnFailures
    <3>4. QED
      BY <1>4, <1>5, <3>2, <3>3
  <2>3. Owned'
    <3>1. b = << >> => Len(b) <= 1
      OBVIOUS
    <3>2. QED
      BY <1>1, <1>4, <2>1, <2>2, <3>1 DEF Owned
  <2>4. QED
    BY <1>1, <1>3, <1>4, <2>1, <2>3, Always, StoppedInv DEF human
<1>8. QED
  BY <1>6, <1>7

LEMMA UnwindHandbackInv ==
    ASSUME IInv, UnwindHandback
    PROVE  IInv'
<1>1. /\ pc = "unwinding" /\ stack # << >> /\ stack' = Front(stack)
      /\ recoveries' = recoveries \o Records(Last(stack), FALSE)
      /\ UNCHANGED <<pc, at, stop, reverifying, human, attempts, performed, result>>
  BY DEF UnwindHandback, RecordInterrupted, Close, Top
<1>2. recoveries' \in Seq(Record) /\ Accounted(attempts, recoveries', stack')
  BY <1>1, Always, CloseTop
<1>3. Shape(stack', at, reverifying)
  BY <1>1, Always, ShapeFront
<1>4. Owned'
  BY <1>1 DEF Owned
<1>5. QED
  BY <1>1, <1>2, <1>3, <1>4, Always, StoppedInv DEF human

LEMMA OutputSkippedInv ==
    ASSUME IInv, OutputSkipped
    PROVE  IInv'
<1>1. /\ pc = "raising" /\ stack # << >> /\ Len(stack) = 1 /\ Top.use = "read"
      /\ stop.status = "hard_failure" /\ stop.code = "OUTPUT_EXTRACTION_FAILED"
      /\ Opened(Last(stack)) = {} /\ stack' = << >>
      /\ recoveries' = recoveries \o Records(Last(stack), FALSE)
      /\ UNCHANGED <<at, reverifying, human, attempts, performed>>
  BY DEF OutputSkipped, OptionalMiss, Close, Top
<1>2. ~reverifying
  BY <1>1, Always, TopFits DEF Fits, Top, EndUses
<1>3. Excused
  BY <1>1, <1>2, Always DEF Owned, OwnFailures
<1>4. Front(stack) = << >>
  BY <1>1, Always, FrontIs
<1>5. /\ recoveries' \in Seq(Record) /\ Accounted(attempts, recoveries', << >>)
      /\ recoveries' = recoveries
  <2> DEFINE recs == recoveries \o Records(Last(stack), FALSE)
  <2>1. /\ recs \in Seq(Record) /\ Accounted(attempts, recs, Front(stack))
        /\ Opened(Last(stack)) = {} => recs = recoveries
    BY <1>1, Always, CloseTop
  <2>2. recoveries' = recs
    BY <1>1
  <2> HIDE DEF recs
  <2>3. QED
    BY <1>1, <1>4, <2>1, <2>2
<1>6. ExcusedIn(recoveries') /\ Excused'
  BY <1>3, <1>5 DEF Excused
<1>7. CASE Finish(recoveries') /\ UNCHANGED stop
  <2>1. pc' = "ended" /\ stop' \in StopType
    BY <1>7, Always DEF Finish, End
  <2>2. QED
    BY <1>1, <1>5, <1>6, <2>1, EndInv
<1>8. CASE PolicyStop /\ UNCHANGED result
  <2>1. pc' = "raising" /\ stop' \in StopType /\ stop'.code = "POLICY_BLOCKED"
    BY <1>8, OwnFailuresAre DEF PolicyStop, Raise, RaiseAs, StopType, Reasons
  <2>2. Owned'
    BY <1>6, <2>1, OwnFailuresAre DEF Owned
  <2>3. Shape(stack', at, reverifying)
    BY <1>1, ShapeNone
  <2>4. QED
    BY <1>1, <1>5, <1>8, <2>1, <2>2, <2>3, Always, StoppedInv DEF human
<1>9. QED
  BY <1>7, <1>8 DEF OutputSkipped

LEMMA ReverifyInv ==
    ASSUME IInv, Reverify
    PROVE  IInv'
<1> DEFINE step == IF at = SuccessCheck THEN Steps ELSE at
           use == IF step \in CheckpointSteps THEN "rewait" ELSE "pass"
           f == Poll(step, use, 0, FALSE)
<1>1. /\ pc = "unwinding" /\ stack = << >> /\ UNCHANGED <<at, human, ledger, performed>>
      /\ attempts' = attempts /\ recoveries' = recoveries
  BY DEF Reverify, ledger
<1>2. /\ recoveries' \in Seq(Record) /\ Accounted(attempts, recoveries', << >>)
  BY <1>1, Always
<1>3. CASE reverifying
  <2>1. pc' = "ended" /\ result' = "crashed" /\ UNCHANGED <<stack, stop, reverifying>>
    BY <1>3 DEF Reverify, End
  <2>2. stop' \in StopType
    BY <2>1, Always
  <2>3. QED
    BY <1>1, <1>2, <2>1, <2>2, EndInv
<1>4. CASE ~reverifying
  <2>1. /\ pc' = "running" /\ stop' = NoStop /\ reverifying' = TRUE /\ stack' = << f >>
        /\ UNCHANGED result
    BY <1>4 DEF Reverify
  <2>2. step \in 1..Steps
    BY Always, StepsAssumption DEF SuccessCheck
  <2> HIDE DEF step
  <2>3. use \in {"rewait", "pass"} /\ use \in Acted /\ use \notin EndUses
    BY DEF Acted, EndUses
  <2> HIDE DEF use
  <2> DEFINE rv == TRUE
  <2> HIDE DEF rv
  <2>4. Fits(f, 1, at, rv) /\ f.use \in Acted
    BY <2>2, <2>3, PollFits
  <2> HIDE DEF f
  <2>5. /\ Shape(<< f >>, at, rv) /\ << f >> # << >> /\ << f >>[1] = f
        /\ Accounted(attempts, recoveries', << f >>)
    BY <1>2, <2>4, OneFrame
  <2>6. Once(performed', pc', at', stack')
    BY <1>1, <2>1, <2>4, <2>5 DEF IInv, Once
  <2>7. Typed'
    <3>1. stop' \in StopType
      BY <2>1 DEF NoStop, StopType, Codes, Reasons
    <3>2. QED
      BY <1>1, <2>1, <2>5, <3>1 DEF IInv, Typed, PCs, human
  <2>8. Owned' /\ Ended'
    BY <1>1, <2>1 DEF IInv, Owned, Ended
  <2>9. AttemptsAreCapped'
    BY <1>1 DEF IInv, AttemptsAreCapped
  <2>10. Shape(stack', at', reverifying') /\ Accounted(attempts', recoveries', stack')
    BY <1>1, <2>1, <2>5 DEF rv
  <2>11. QED
    BY <2>6, <2>7, <2>8, <2>9, <2>10 DEF IInv
<1>5. QED
  BY <1>3, <1>4, Always

LEMMA HandbackFailsInv ==
    ASSUME IInv, HandbackFails
    PROVE  IInv'
<1> DEFINE recs == Append(recoveries, HumanRecord("handed_back"))
<1>1. /\ pc = "raising" /\ stack = << >> /\ reverifying' = FALSE /\ recoveries' = recs
      /\ Ask("POST_HANDOFF_CHECKPOINT_FAILED", "POST_HANDOFF_CHECKPOINT_FAILED")
      /\ UNCHANGED <<at, stack, human, attempts, performed, result>>
  BY DEF HandbackFails
<1>2. recs \in Seq(Record) /\ Accounted(attempts, recs, stack) /\ ExcusedIn(recs)
  BY HumanRecorded
<1> HIDE DEF recs
<1>3. /\ pc' = "asking" /\ stop' \in StopType /\ stop'.code \notin OwnFailures
  BY <1>1, OwnFailuresAre DEF Ask, StopType, Reasons
<1>4. Owned'
  BY <1>1, <1>2, <1>3 DEF Owned, Excused
<1>5. Shape(stack', at, reverifying')
  BY <1>1, ShapeNone
<1>6. QED
  BY <1>1, <1>2, <1>3, <1>4, <1>5, Always, StoppedInv DEF human

LEMMA StopEndsRunInv ==
    ASSUME IInv, StopEndsRun
    PROVE  IInv'
<1>1. /\ pc = "raising" /\ stack = << >> /\ ~reverifying /\ pc' = "ended" /\ result' = stop.status
      /\ UNCHANGED <<at, stack, stop, reverifying, human, ledger, performed>>
      /\ attempts' = attempts /\ recoveries' = recoveries
  BY DEF StopEndsRun, End, ledger
<1>2. result' \notin {"success", "recovered_then_success"}
  BY <1>1, Always DEF StopType
<1>3. result' = "hard_failure" /\ stop'.code \in OwnFailures => ExcusedIn(recoveries')
  BY <1>1, Always DEF Owned, Excused
<1>4. recoveries' \in Seq(Record) /\ stop' \in StopType /\ Accounted(attempts, recoveries', << >>)
  BY <1>1, Always
<1>5. QED
  BY <1>1, <1>2, <1>3, <1>4, EndInv

\* What an operator's abort leaves: the stack, or all of it but a poll that was
\* closed before.
LEMMA LosesControlIs ==
    ASSUME IInv, LosesControl \/ LosesControlBehindAPoll
    PROVE  /\ pc \in {"running", "raising"} /\ stack # << >> /\ pc' = "ended"
           /\ result' = "escalated" /\ stop'.status = "escalated"
           /\ stop'.code = "OPERATOR_ABORTED" /\ stop' \in StopType /\ answered
           /\ UNCHANGED <<at, reverifying, human, attempts, performed>>
           /\ \/ stack' = stack /\ recoveries' = recoveries
              \/ /\ stack' = Front(stack)
                 /\ \E b \in BOOLEAN : recoveries' = recoveries \o Records(Last(stack), b)
<1>1. /\ answered /\ pc' = "ended" /\ result' = "escalated"
      /\ stop' = [status |-> "escalated", code |-> "OPERATOR_ABORTED", reason |-> "none"]
      /\ UNCHANGED <<at, reverifying, human, attempts, performed>>
  BY DEF LosesControl, LosesControlBehindAPoll, Abortable, ControlLost, End
<1>2. stop' \in StopType /\ stop'.status = "escalated" /\ stop'.code = "OPERATOR_ABORTED"
  BY <1>1 DEF StopType, Codes, Reasons
<1>3. CASE LosesControl
  <2>1. pc = "running" /\ stack' = stack /\ recoveries' = recoveries
    BY <1>3 DEF LosesControl
  <2>2. QED
    BY <1>1, <1>2, <2>1, Now
<1>4. CASE LosesControlBehindAPoll
  <2>1. /\ stack' = Front(stack)
        /\ \/ pc = "running" /\ recoveries' = recoveries \o Records(Last(stack), TRUE)
           \/ /\ pc = "raising" /\ Len(stack) > 1
              /\ recoveries' = recoveries \o Records(Last(stack), FALSE)
    BY <1>4 DEF LosesControlBehindAPoll, RerunFailed, Close, Top
  <2>2. stack # << >>
    <3>1. CASE pc = "running"
      BY <3>1, Now
    <3>2. CASE Len(stack) > 1
      <4>1. stack = << >> => Len(stack) = 0
        OBVIOUS
      <4>2. QED
        BY <3>2, <4>1
    <3>3. QED
      BY <2>1, <3>1, <3>2
  <2>3. QED
    BY <1>1, <1>2, <2>1, <2>2
<1>5. QED
  BY <1>3, <1>4

LEMMA LosesControlInv ==
    ASSUME IInv, LosesControl \/ LosesControlBehindAPoll
    PROVE  IInv'
<1>1. /\ stack # << >> /\ pc' = "ended" /\ result' = "escalated"
      /\ stop'.code = "OPERATOR_ABORTED" /\ stop' \in StopType
      /\ UNCHANGED <<at, reverifying, human, attempts, performed>>
      /\ \/ stack' = stack /\ recoveries' = recoveries
         \/ /\ stack' = Front(stack)
            /\ \E b \in BOOLEAN : recoveries' = recoveries \o Records(Last(stack), b)
  BY LosesControlIs
<1>2. /\ recoveries' \in Seq(Record) /\ Accounted(attempts, recoveries', stack')
      /\ Shape(stack', at, reverifying)
  <2>1. CASE stack' = stack /\ recoveries' = recoveries
    BY <2>1, Always
  <2>2. ASSUME stack' = Front(stack), NEW b \in BOOLEAN,
               recoveries' = recoveries \o Records(Last(stack), b)
        PROVE  /\ recoveries' \in Seq(Record) /\ Accounted(attempts, recoveries', stack')
               /\ Shape(stack', at, reverifying)
    BY <1>1, <2>2, Always, CloseTop, ShapeFront
  <2>3. QED
    BY <1>1, <2>1, <2>2
<1>3. Typed'
  BY <1>1, <1>2 DEF IInv, Typed, human, PCs
<1>4. Owned' /\ Ended'
  BY <1>1 DEF Owned, Ended
<1>5. AttemptsAreCapped'
  BY <1>1 DEF IInv, AttemptsAreCapped
<1>6. Once(performed', pc', at', stack')
  BY <1>1, OnceStops DEF IInv
<1>7. QED
  BY <1>1, <1>2, <1>3, <1>4, <1>5, <1>6 DEF IInv

-----------------------------------------------------------------------------
(* The theorems.                                                            *)

LEMMA InitInv ==
    ASSUME Init
    PROVE  IInv
<1> DEFINE skip == FALSE
           rv == FALSE
           f == StartStep(1, skip)
<1>1. /\ pc = "running" /\ at = 1 /\ stack = << f >> /\ stop = NoStop /\ reverifying = rv
      /\ pauses = 0 /\ answered = FALSE /\ attended \in BOOLEAN
      /\ attempts = [s \in 1..Steps |-> [d \in Detectors |-> 0]]
      /\ recoveries = << >> /\ performed = [s \in 1..Steps |-> 0] /\ result = "none"
  BY DEF Init
<1>2. skip \in BOOLEAN /\ ~skip /\ ~rv /\ 1 \in 1..Steps /\ at \in 1..SuccessCheck
  BY <1>1, StepsAssumption DEF SuccessCheck
<1> HIDE DEF skip, rv
<1>3. Fits(f, 1, 1, rv)
  BY <1>2, StartFits
<1> HIDE DEF f
<1>4. Accounted(attempts, recoveries, << >>)
  BY <1>1 DEF Accounted
<1>5. /\ Shape(<< f >>, 1, rv) /\ << f >> # << >> /\ Accounted(attempts, recoveries, << f >>)
  BY <1>3, <1>4, OneFrame
<1>6. Typed
  <2>1. stop \in StopType
    BY <1>1 DEF NoStop, StopType, Codes, Reasons
  <2>2. /\ attempts \in [1..Steps -> [Detectors -> Nat]] /\ performed \in [1..Steps -> Nat]
        /\ recoveries \in Seq(Record) /\ pauses \in 0..MAX_HUMAN_PAUSES
    BY <1>1, TimeAssumption
  <2>3. QED
    BY <1>1, <1>2, <1>5, <2>1, <2>2 DEF Typed, PCs, rv
<1>7. AttemptsAreCapped
  <2>1. \A d \in Detectors : Limit(d) \in Nat
    BY DetectorsAssumption DEF Limit
  <2>2. QED
    BY <1>1, <2>1 DEF AttemptsAreCapped
<1>8. Once(performed, pc, at, stack)
  BY <1>1, StepsAssumption DEF Once
<1>9. Owned /\ Ended
  BY <1>1 DEF Owned, Ended, Excused, ExcusedIn
<1>10. QED
  BY <1>1, <1>5, <1>6, <1>7, <1>8, <1>9 DEF IInv

LEMMA StutterInv ==
    ASSUME IInv, UNCHANGED vars
    PROVE  IInv'
<1>1. UNCHANGED <<pc, at, stack, stop, reverifying, pauses, answered, attended, attempts,
                  recoveries, performed, result>>
  BY DEF vars
<1>2. Typed' /\ Owned' /\ Ended' /\ AttemptsAreCapped'
  BY <1>1 DEF IInv, Typed, Owned, Ended, Excused, AttemptsAreCapped
<1>3. QED
  BY <1>1, <1>2 DEF IInv

LEMMA NextInv ==
    ASSUME IInv, Next
    PROVE  IInv'
<1>1. CASE LookBlocked
  BY <1>1, LookBlockedInv
<1>2. CASE \E d \in Detectors : LookMatches(d) \/ DeadlineMatches(d)
  BY <1>2, MatchesInv
<1>3. CASE Waits
  BY <1>3, WaitsInv
<1>4. CASE WindowsEnd \/ DeadlinePasses
  BY <1>4, TimedOutInv
<1>5. CASE TargetFound
  BY <1>5, TargetFoundInv
<1>6. CASE WaitPasses
  BY <1>6, WaitPassesInv
<1>7. CASE CheckSucceeds
  BY <1>7, CheckSucceedsInv
<1>8. CASE OutputRead
  BY <1>8, OutputReadInv
<1>9. CASE OutputUnreadable
  BY <1>9, OutputUnreadableInv
<1>10. CASE HandbackVerified
  BY <1>10, HandbackVerifiedInv
<1>11. CASE ActRefused
  BY <1>11, ActRefusedInv
<1>12. CASE ActWorks
  BY <1>12, ActWorksInv
<1>13. CASE ActFails
  BY <1>13, ActFailsInv
<1>14. CASE NobodyIsAsked
  BY <1>14, NobodyIsAskedInv
<1>15. CASE HumanIsAsked
  BY <1>15, HumanIsAskedInv
<1>16. CASE OutputSkipped
  BY <1>16, OutputSkippedInv
<1>17. CASE Unwind
  BY <1>17, UnwindInv
<1>18. CASE UnwindHandback
  BY <1>18, UnwindHandbackInv
<1>19. CASE Reverify
  BY <1>19, ReverifyInv
<1>20. CASE HandbackFails
  BY <1>20, HandbackFailsInv
<1>21. CASE StopEndsRun
  BY <1>21, StopEndsRunInv
<1>22. CASE LosesControl \/ LosesControlBehindAPoll
  BY <1>22, LosesControlInv
<1>23. QED
  BY <1>1, <1>2, <1>3, <1>4, <1>5, <1>6, <1>7, <1>8, <1>9, <1>10, <1>11, <1>12, <1>13, <1>14,
     <1>15, <1>16, <1>17, <1>18, <1>19, <1>20, <1>21, <1>22 DEF Next

\* The invariant holds in every state of every run of every valid artifact.
THEOREM Invariance == Spec => []IInv
<1>1. Init => IInv
  BY InitInv
<1>2. IInv /\ [Next]_vars => IInv'
  BY NextInv, StutterInv
<1>3. QED
  BY <1>1, <1>2, PTL DEF Spec

\* Every poll on the stack is well formed, and so is the rest of the state.
THEOREM TypeCorrect == Spec => []TypeOK
<1>1. IInv => TypeOK
  <2> SUFFICES ASSUME IInv PROVE TypeOK
    OBVIOUS
  <2>1. \A i \in 1..Len(stack) : stack[i] \in Frame
    BY Always, LenProperties
  <2>2. \A f \in Frame : FrameOK(f)
    BY DEF Frame, FrameOK
  <2>3. QED
    BY <2>1, <2>2 DEF IInv, Typed, TypeOK
<1>2. QED
  BY <1>1, Invariance, PTL

\* No step has more recoveries of one kind than its detector allows, whatever
\* waits, re-runs and hand-backs it goes through (_handle, engine.py).
THEOREM AttemptsCapped == Spec => []AttemptsAreCapped
<1>1. IInv => AttemptsAreCapped
  BY DEF IInv
<1>2. QED
  BY <1>1, Invariance, PTL

\* A step declared irreversible reaches the app at most once, whatever fails
\* and is retried, re-run or taken over by a human (_act, engine.py).
THEOREM IrreversibleOnce == Spec => []DeclaredOnce
<1>1. IInv => DeclaredOnce
  BY DEF IInv, Once, DeclaredOnce
<1>2. QED
  BY <1>1, Invariance, PTL

\* Every recovery a run began is in its result, however stops and hand-backs pull it
\* out of its waits (_close, engine.py); an operator's abort, which no poll catches
\* (run, _control_lost), loses those that were in progress then, and no other.
THEOREM RecoveriesRecorded == Spec => []EveryRecoveryIsRecorded
<1>1. IInv => EveryRecoveryIsRecorded
  <2> SUFFICES ASSUME IInv, pc = "ended", NEW s \in 1..Steps, NEW d \in Detectors, attempts[s][d] > 0
               PROVE  RecordsOf(s, d) # {} \/ CutOff(s, d)
    BY DEF EveryRecoveryIsRecorded
  <2>1. Listed(recoveries, s, d) \/ InProgress(stack, s, d)
    BY DEF IInv, Accounted
  <2>2. CASE Listed(recoveries, s, d)
    BY <2>2 DEF Listed, RecordsOf
  <2>3. CASE InProgress(stack, s, d)
    <3>1. stack # << >>
      BY <2>3 DEF InProgress
    <3>2. stop.code = "OPERATOR_ABORTED"
      BY <3>1 DEF IInv, Typed
    <3>3. QED
      BY <2>3, <3>2 DEF InProgress, CutOff
  <2>4. QED
    BY <2>1, <2>2, <2>3
<1>2. QED
  BY <1>1, Invariance, PTL

LEMMA ExcusedMeans ==
    ASSUME Excused
    PROVE  \A i \in 1..Len(recoveries) : Failed(i) => HandbackAfter(i)
BY DEF Excused, ExcusedIn, Failed, HandbackAfter

\* A run that reports success has a human's hand-back behind every recovery that
\* failed (run, engine.py).
THEOREM SuccessVerified == Spec => []SuccessIsVerified
<1>1. IInv => SuccessIsVerified
  BY ExcusedMeans DEF IInv, Ended, SuccessIsVerified
<1>2. QED
  BY <1>1, Invariance, PTL

\* A run that reports a step's own failure had no recovery failing since the last
\* hand-back: one that failed owns the failure (_timed_out, _run_steps, engine.py).
THEOREM FailureOwned == Spec => []RecoveryOwnsItsFailure
<1>1. IInv => RecoveryOwnsItsFailure
  BY ExcusedMeans DEF IInv, Ended, OwnFailures, RecoveryOwnsItsFailure
<1>2. QED
  BY <1>1, Invariance, PTL

-----------------------------------------------------------------------------
(* What the result is built from.                                           *)

\* Some recovery helped, or a human handed the run back.
Helped(recs) == \E i \in 1..Len(recs) : recs[i].succeeded

\* A human who did not hand back came after something that helped: one who was the
\* first to do anything has ended the run.
Backed(recs) == \A i \in 1..Len(recs) : recs[i].type = "human" /\ ~recs[i].succeeded => Helped(recs)

Earned ==
    /\ Backed(recoveries) \/ (pc \in {"raising", "ended"} /\ stop.status = "escalated")
    /\ stop.status = "escalated" => answered
    /\ ResultIsAccepted

LEMMA BackedMore ==
    ASSUME NEW recs \in Seq(Record), NEW r \in Seq(Record), Backed(recs),
           \A i \in 1..Len(r) : r[i].type = "automatic" \/ r[i].succeeded
    PROVE  Backed(recs \o r)
<1> DEFINE q == recs \o r
<1>1. /\ Len(recs) \in Nat /\ Len(r) \in Nat /\ Len(q) = Len(recs) + Len(r)
      /\ \A i \in 1..Len(recs) : q[i] = recs[i]
      /\ \A i \in 1..Len(r) : q[Len(recs) + i] = r[i]
  BY ConcatIs
<1>4. \A i \in 1..Len(recs) + Len(r) : i \in 1..Len(recs) \/ \E j \in 1..Len(r) : i = Len(recs) + j
  BY ONLY recs \in Seq(Record), r \in Seq(Record), ConcatIs, Zenon
<1> HIDE DEF q
<1>2. ASSUME NEW i \in 1..Len(q), q[i].type = "human", ~q[i].succeeded PROVE Helped(q)
  <2>1. ~\E j \in 1..Len(r) : i = Len(recs) + j
    <3> SUFFICES ASSUME NEW j \in 1..Len(r), i = Len(recs) + j PROVE FALSE
      OBVIOUS
    <3>1. q[i] = r[j]
      BY <1>1
    <3>2. QED
      BY <1>2, <3>1
  <2>2. i \in 1..Len(recs) /\ q[i] = recs[i]
    BY <1>1, <1>4, <2>1
  <2>3. PICK j \in 1..Len(recs) : recs[j].succeeded
    BY <1>2, <2>2 DEF Backed, Helped
  <2>4. j \in 1..Len(q) /\ q[j] = recs[j]
    BY <1>1
  <2>5. QED
    BY <2>3, <2>4 DEF Helped
<1>3. QED
  BY <1>2 DEF Backed, q

\* A run whose failed recoveries were all handed back shows what brought it home.
LEMMA EarnedMeans ==
    ASSUME NEW recs \in Seq(Record), recs # << >>, ExcusedIn(recs), Backed(recs)
    PROVE  Helped(recs)
<1>1. Len(recs) \in Nat /\ 1 \in 1..Len(recs) /\ recs[1] \in Record
  BY EmptySeq, LenProperties
<1>2. CASE recs[1].succeeded
  BY <1>1, <1>2 DEF Helped
<1>3. CASE ~recs[1].succeeded /\ recs[1].type = "human"
  BY <1>1, <1>3 DEF Backed
<1>4. CASE ~recs[1].succeeded /\ recs[1].type = "automatic"
  <2>1. PICK j \in 1 + 1..Len(recs) : recs[j].type = "human" /\ recs[j].succeeded
    BY <1>1, <1>4 DEF ExcusedIn
  <2>2. j \in 1..Len(recs)
    BY <1>1
  <2>3. QED
    BY <2>1, <2>2 DEF Helped
<1>5. QED
  BY <1>1, <1>2, <1>3, <1>4 DEF Record

\* A poll's own records.
LEMMA BackedClose ==
    ASSUME NEW recs \in Seq(Record), Backed(recs), NEW f \in Frame, NEW b \in BOOLEAN
    PROVE  recs \o Records(f, b) \in Seq(Record) /\ Backed(recs \o Records(f, b))
<1> DEFINE r == Records(f, b)
<1>1. r \in Seq(Record) /\ \A i \in 1..Len(r) : r[i].type = "automatic"
  BY RecordsAre
<1> HIDE DEF r
<1>2. recs \o r \in Seq(Record) /\ Backed(recs \o r)
  BY <1>1, ConcatIs, BackedMore
<1>3. QED
  BY <1>2 DEF r

LEMMA BackedHandback ==
    ASSUME NEW recs \in Seq(Record), at \in 1..SuccessCheck
    PROVE  Backed(Append(recs, HumanRecord("handed_back")))
<1> DEFINE h == HumanRecord("handed_back")
           q == Append(recs, h)
<1>1. h \in Record /\ h.succeeded
  BY HumanRecordIs
<1> HIDE DEF h
<1>2. Len(recs) \in Nat /\ Len(q) = Len(recs) + 1 /\ q[Len(recs) + 1] = h
  BY <1>1, AppendIs
<1> HIDE DEF q
<1>3. Len(recs) + 1 \in 1..Len(q)
  BY <1>2
<1>4. Helped(q)
  BY <1>1, <1>2, <1>3 DEF Helped
<1>5. QED
  BY <1>4 DEF Backed, q, h

\* What the end of a run makes of its records.
LEMMA FinishEarned ==
    ASSUME recoveries' \in Seq(Record), ExcusedIn(recoveries'), Backed(recoveries'),
           Finish(recoveries'), stop' = stop, answered' = answered, stop.status = "escalated" => answered
    PROVE  Earned'
<1> DEFINE recs == recoveries'
<1>1. recs # << >> => Helped(recs)
  BY EarnedMeans
<1>2. /\ result' = IF recs = << >> THEN "success" ELSE "recovered_then_success"
  BY DEF Finish, End
<1>3. ResultIsAccepted'
  BY <1>1, <1>2 DEF ResultIsAccepted, Helped
<1>4. QED
  BY <1>3 DEF Earned

\* A run that goes on, with what it records on the way.
LEMMA StillEarned ==
    ASSUME IInv, pc # "ended", Earned, Backed(recoveries'), UNCHANGED result,
           answered => answered', stop' = stop \/ stop'.status # "escalated"
    PROVE  Earned'
<1>1. result' = "none"
  BY DEF IInv, Ended
<1>2. ResultIsAccepted'
  BY <1>1 DEF ResultIsAccepted
<1>3. QED
  BY <1>2 DEF Earned

LEMMA RaisedStatus ==
    ASSUME NEW code, \/ Raise(code) \/ RaiseOrAsk(code) \/ PolicyStop
                     \/ Ask(code, "IRREVERSIBLE_NEEDS_HUMAN")
    PROVE  stop'.status # "escalated"
BY DEF Raise, RaiseAs, RaiseOrAsk, Ask, PolicyStop

LEMMA LookEarned ==
    ASSUME IInv, Earned,
           \/ LookBlocked \/ WindowsEnd \/ DeadlinePasses \/ Waits
           \/ \E d \in Detectors : LookMatches(d) \/ DeadlineMatches(d)
    PROVE  Earned'
<1>1. pc = "running" /\ UNCHANGED <<answered, result>>
  BY DEF LookBlocked, WindowsEnd, DeadlinePasses, Waits, LookMatches, DeadlineMatches, OutOfTime,
         Polling, human
<1>2. ASSUME NEW d, Handle(Top, d)
      PROVE  recoveries' = recoveries /\ (stop' = stop \/ stop'.status # "escalated")
  BY <1>2 DEF Handle, RaiseAs, RaiseOrAsk, Raise, Ask, Exhaust, RecoverByClick, RecoverByWaiting,
              RecoverByRerunning, Count, PolicyStop, ledger
<1>3. recoveries' = recoveries /\ (stop' = stop \/ stop'.status # "escalated")
  BY <1>2 DEF LookBlocked, WindowsEnd, DeadlinePasses, Waits, LookMatches, DeadlineMatches, OutOfTime,
              TimedOut, PolicyStop, RaiseOrAsk, Raise, RaiseAs, Ask, ledger
<1>4. Backed(recoveries')
  BY <1>1, <1>3 DEF Earned
<1>5. QED
  BY <1>1, <1>3, <1>4, StillEarned

LEMMA ActEarned ==
    ASSUME IInv, Earned, ActRefused \/ ActWorks \/ ActFails
    PROVE  Earned'
<1>1. pc = "running" /\ UNCHANGED <<answered, result>> /\ recoveries' = recoveries
  BY DEF ActRefused, ActWorks, ActFails, Acting, human, ledger
<1>2. stop' = stop \/ stop'.status # "escalated"
  <2>1. CASE ActRefused
    BY <2>1, RaisedStatus DEF ActRefused
  <2>2. CASE ActWorks
    BY <2>2 DEF ActWorks
  <2>3. CASE ActFails
    BY <2>3, RaisedStatus DEF ActFails
  <2>4. QED
    BY <2>1, <2>2, <2>3
<1>3. Backed(recoveries')
  BY <1>1 DEF Earned
<1>4. QED
  BY <1>1, <1>2, <1>3, StillEarned

\* A poll that verified, or a hand-back that did.
LEMMA VerifiedEarned ==
    ASSUME IInv, Earned, \/ TargetFound \/ WaitPasses \/ CheckSucceeds \/ OutputUnreadable
                         \/ OutputRead \/ HandbackVerified
    PROVE  Earned'
<1>1. /\ pc = "running" /\ UNCHANGED answered
      /\ recoveries \in Seq(Record) /\ Top \in Frame /\ at \in 1..SuccessCheck
  BY Now DEF TargetFound, WaitPasses, CheckSucceeds, OutputUnreadable, OutputRead, HandbackVerified,
             Polling, human
<1>2. Backed(recoveries)
  BY <1>1 DEF Earned
<1> DEFINE recs == recoveries \o Records(Top, TRUE)
<1>3. recs \in Seq(Record) /\ Backed(recs)
  BY <1>1, <1>2, BackedClose
<1>4. CASE TargetFound \/ WaitPasses \/ CheckSucceeds \/ OutputUnreadable
  <2>1. /\ recoveries' = recs /\ UNCHANGED result
        /\ stop' = stop \/ stop'.status # "escalated"
    <3>1. CASE TargetFound \/ WaitPasses \/ CheckSucceeds
      BY <3>1 DEF TargetFound, WaitPasses, CheckSucceeds, Close
    <3>2. CASE OutputUnreadable
      BY <3>2, RaisedStatus DEF OutputUnreadable, Close
    <3>3. QED
      BY <1>4, <3>1, <3>2
  <2> HIDE DEF recs
  <2>2. QED
    BY <1>1, <1>3, <2>1, StillEarned
<1>5. CASE HandbackVerified
  <2>1. /\ recoveries' = Append(recs, HumanRecord("handed_back")) /\ UNCHANGED <<result, stop>>
    BY <1>5 DEF HandbackVerified
  <2> HIDE DEF recs
  <2>2. Backed(recoveries')
    BY <1>1, <1>3, <2>1, BackedHandback
  <2>3. QED
    BY <1>1, <2>1, <2>2, StillEarned
<1>6. CASE OutputRead
  <2>1. recoveries' = recs /\ Finish(recoveries') /\ UNCHANGED stop /\ Top.use \in EndUses
    BY <1>6 DEF OutputRead, Close, EndUses
  <2>2. ExcusedIn(recs)
    <3>1. ~reverifying => ExcusedIn(recoveries')
      BY <1>1, <1>6, Closed DEF OutputRead
    <3>2. QED
      BY <1>1, <2>1, <3>1, AtTheEnd
  <2> HIDE DEF recs
  <2>3. stop.status = "escalated" => answered
    BY DEF Earned
  <2>4. QED
    BY <1>1, <1>3, <2>1, <2>2, <2>3, FinishEarned
<1>7. QED
  BY <1>4, <1>5, <1>6

\* A human who does not hand back is asked last.
LEMMA AskedEarned ==
    ASSUME IInv, Earned, NobodyIsAsked \/ HumanIsAsked
    PROVE  Earned'
<1>1. /\ pc = "asking" /\ UNCHANGED result /\ stop \in StopType
      /\ Backed(recoveries)
  BY Always DEF NobodyIsAsked, HumanIsAsked, Earned
<1>2. result' = "none"
  BY <1>1 DEF IInv, Ended
<1>3. ResultIsAccepted'
  BY <1>2 DEF ResultIsAccepted
<1>4. CASE NobodyIsAsked
  <2>1. /\ recoveries' = recoveries /\ answered' = answered
        /\ stop' = [stop EXCEPT !.status = IF ~BelongsToHandback /\ answered THEN "escalated" ELSE @]
    BY <1>4 DEF NobodyIsAsked, ledger
  <2>2. stop'.status = IF ~BelongsToHandback /\ answered THEN "escalated" ELSE stop.status
    BY <1>1, <2>1 DEF StopType
  <2>3. stop'.status = "escalated" => answered'
    BY <2>1, <2>2 DEF Earned
  <2>4. QED
    BY <1>1, <1>3, <2>1, <2>3 DEF Earned
<1>5. CASE HumanIsAsked
  <2>1. answered' = TRUE
    BY <1>5 DEF HumanIsAsked
  <2>2. CASE pc' = "unwinding" /\ UNCHANGED <<stop, recoveries>>
    BY <1>1, <1>3, <2>1, <2>2 DEF Earned
  <2>3. CASE pc' = "raising" /\ stop' = [stop EXCEPT !.status = "escalated"]
    <3>1. stop'.status = "escalated"
      BY <1>1, <2>3 DEF StopType
    <3>2. QED
      BY <1>3, <2>1, <2>3, <3>1 DEF Earned
  <2>4. QED
    BY <1>5, <2>2, <2>3 DEF HumanIsAsked
<1>6. QED
  BY <1>4, <1>5

\* What passes up the stack only adds failed recoveries.
LEMMA UnwoundEarned ==
    ASSUME IInv, Earned, Unwind \/ UnwindHandback
    PROVE  Earned'
<1>1. /\ stack \in Seq(Frame) /\ stack # << >> /\ recoveries \in Seq(Record)
      /\ pc \in {"raising", "unwinding"} /\ UNCHANGED <<answered, result>>
      /\ recoveries' = recoveries \o Records(Top, FALSE)
  BY Always DEF Unwind, UnwindHandback, RecordInterrupted, Close, human
<1>2. Top \in Frame
  BY <1>1, FrontIs DEF Top
<1>3. Backed(recoveries) => Backed(recoveries')
  BY <1>1, <1>2, BackedClose
<1>4. stop' = stop \/ stop'.status # "escalated"
  <2>1. CASE Unwind
    BY <2>1, RaisedStatus DEF Unwind
  <2>2. CASE UnwindHandback
    BY <2>2 DEF UnwindHandback
  <2>3. QED
    BY <2>1, <2>2
<1>5. CASE Backed(recoveries)
  BY <1>1, <1>3, <1>4, <1>5, StillEarned
<1>6. CASE pc = "raising" /\ stop.status = "escalated"
  <2>1. pc' = "raising" /\ stop' = stop
    BY <1>6 DEF Unwind, RerunFailed, UnwindHandback
  <2>2. result' = "none"
    BY <1>1 DEF IInv, Ended
  <2>3. QED
    BY <1>1, <1>6, <2>1, <2>2 DEF Earned, ResultIsAccepted
<1>7. QED
  BY <1>1, <1>5, <1>6 DEF Earned

LEMMA StoppedEarned ==
    ASSUME IInv, Earned, OutputSkipped \/ Reverify \/ HandbackFails \/ StopEndsRun
    PROVE  Earned'
<1>1. /\ recoveries \in Seq(Record) /\ stack \in Seq(Frame) /\ at \in 1..SuccessCheck
      /\ stop \in StopType
      /\ stop.status = "escalated" => answered
  BY Always DEF Earned
<1>2. CASE OutputSkipped
  <2> DEFINE recs == recoveries \o Records(Top, FALSE)
  <2>1. /\ pc = "raising" /\ stack # << >> /\ Len(stack) = 1 /\ stop.status = "hard_failure"
        /\ stop.code \in OwnFailures /\ Opened(Top) = {} /\ Top.use = "read"
        /\ recoveries' = recs /\ UNCHANGED answered
    BY <1>2 DEF OutputSkipped, OptionalMiss, Close, OwnFailures, human
  <2>2. Top \in Frame /\ Backed(recoveries)
    BY <1>1, <2>1, FrontIs DEF Top, Earned
  <2>3. recs \in Seq(Record) /\ Backed(recs)
    BY <1>1, <2>2, BackedClose
  <2>4. ~reverifying /\ Excused
    <3>1. ~reverifying
      BY <2>1, Always, TopFits DEF Fits, Top, EndUses
    <3>2. QED
      BY <2>1, <3>1, Always DEF Owned
  <2>5. recs = recoveries
    <3>1. Records(Top, FALSE) = << >>
      BY <2>1, <2>2, RecordsAre
    <3>2. QED
      BY <1>1, <3>1, ConcatEmptySeq
  <2> HIDE DEF recs
  <2>6. CASE Finish(recoveries') /\ UNCHANGED stop
    BY <1>1, <2>1, <2>3, <2>4, <2>5, <2>6, FinishEarned DEF Excused
  <2>7. CASE PolicyStop /\ UNCHANGED result
    <3>1. stop'.status # "escalated"
      BY <2>7 DEF PolicyStop, Raise, RaiseAs
    <3>2. QED
      BY <2>1, <2>3, <2>7, <3>1, StillEarned
  <2>8. QED
    BY <1>2, <2>6, <2>7 DEF OutputSkipped
<1>3. CASE Reverify
  <2>1. pc = "unwinding" /\ UNCHANGED answered /\ recoveries' = recoveries
    BY <1>3 DEF Reverify, human, ledger
  <2>2. Backed(recoveries')
    BY <2>1 DEF Earned
  <2>3. /\ stop' = stop \/ stop' = NoStop
        /\ result' = "crashed" \/ result' = result
    BY <1>3 DEF Reverify, End
  <2>4. result = "none"
    BY <2>1 DEF IInv, Ended
  <2>5. ResultIsAccepted'
    BY <2>3, <2>4 DEF ResultIsAccepted
  <2>6. stop'.status = "escalated" => answered'
    BY <1>1, <2>1, <2>3 DEF NoStop
  <2>7. QED
    BY <2>2, <2>5, <2>6 DEF Earned
<1>4. CASE HandbackFails
  <2>1. /\ pc = "raising" /\ UNCHANGED <<answered, result>> /\ stop'.status # "escalated"
        /\ recoveries' = Append(recoveries, HumanRecord("handed_back"))
    BY <1>4 DEF HandbackFails, Ask, human
  <2>2. QED
    BY <1>1, <2>1, BackedHandback, StillEarned
<1>5. CASE StopEndsRun
  <2>1. /\ pc = "raising" /\ pc' = "ended" /\ UNCHANGED <<stop, answered>>
        /\ recoveries' = recoveries /\ result' = stop.status
    BY <1>5 DEF StopEndsRun, End, human, ledger
  <2>2. ResultIsAccepted'
    BY <1>1, <2>1 DEF ResultIsAccepted, StopType
  <2>3. QED
    BY <2>1, <2>2 DEF Earned
<1>6. QED
  BY <1>2, <1>3, <1>4, <1>5

\* An operator can only take away a session that a human was asked about.
LEMMA LosesControlEarned ==
    ASSUME IInv, Earned, LosesControl \/ LosesControlBehindAPoll
    PROVE  Earned'
<1>1. /\ pc' = "ended" /\ result' = "escalated" /\ stop'.status = "escalated" /\ answered'
  BY LosesControlIs DEF human
<1>2. QED
  BY <1>1 DEF Earned, ResultIsAccepted

\* The result a run builds at its end is one its validators take
\* (run, engine.py; ReplayResult, result.py).
THEOREM ResultAccepted == Spec => []ResultIsAccepted
<1>1. Init => Earned
  BY DEF Init, Earned, Backed, NoStop, ResultIsAccepted
<1>2. IInv /\ Earned /\ [Next]_vars => Earned'
  <2>1. IInv /\ Earned /\ Next => Earned'
    BY LookEarned, ActEarned, VerifiedEarned, AskedEarned, UnwoundEarned, StoppedEarned,
       LosesControlEarned DEF Next
  <2>2. Earned /\ UNCHANGED vars => Earned'
    BY DEF vars, Earned, ResultIsAccepted
  <2>3. QED
    BY <2>1, <2>2
<1>3. Earned => ResultIsAccepted
  BY DEF Earned
<1>4. QED
  BY <1>1, <1>2, <1>3, Invariance, PTL DEF Spec

-----------------------------------------------------------------------------
(* How deep waits nest.                                                     *)

\* Each level works on an earlier step than the one below it, and will re-run
\* only steps that are earlier still.
Deep(f, n) ==
    /\ f.step <= SuccessCheck - n
    /\ \A k \in 1..Len(f.rest) : f.rest[k] < f.step

Depth(s) == \A i \in 1..Len(s) : Deep(s[i], i)

LEMMA PollHas ==
    ASSUME NEW step, NEW use, NEW budget, NEW skip
    PROVE  /\ Poll(step, use, budget, skip).step = step /\ Poll(step, use, budget, skip).use = use
           /\ Poll(step, use, budget, skip).budget = budget
           /\ Poll(step, use, budget, skip).rest = << >>
BY DEF Poll

LEMMA StartHas ==
    ASSUME NEW step, NEW skip
    PROVE  StartStep(step, skip).step = step /\ StartStep(step, skip).rest = << >>
BY DEF StartStep, Poll

LEMMA PlainPoll ==
    ASSUME NEW step \in 1..Steps, NEW use \in Uses
    PROVE  LET f == Poll(step, use, 0, FALSE)
           IN  f \in Frame /\ f.step = step /\ f.use = use /\ f.budget = 0 /\ f.rest = << >>
<1> DEFINE skip == FALSE
           budget == 0
           f == Poll(step, use, budget, skip)
<1>1. skip \in BOOLEAN /\ budget \in 0..Timeout
  BY TimeAssumption
<1> HIDE DEF skip, budget
<1>2. /\ f \in Frame /\ f.step = step /\ f.use = use /\ f.budget = budget /\ f.rest = << >>
  BY <1>1, PollIs, PollHas
<1>3. QED
  BY <1>2 DEF skip, budget

\* Frames of the same steps, that have as much to re-run as before or nothing.
LEMMA DepthKept ==
    ASSUME NEW s \in Seq(Frame), NEW t \in Seq(Frame), Depth(s), Len(t) <= Len(s),
           \A i \in 1..Len(t) : t[i].step = s[i].step /\ t[i].rest \in {s[i].rest, << >>}
    PROVE  Depth(t)
<1>1. Len(s) \in Nat /\ Len(t) \in Nat
  BY LenProperties
<1> SUFFICES ASSUME NEW i \in 1..Len(t) PROVE Deep(t[i], i)
  BY DEF Depth
<1>2. i \in 1..Len(s)
  BY <1>1
<1>3. Deep(s[i], i)
  BY <1>2 DEF Depth
<1>4. CASE t[i].rest = s[i].rest
  BY <1>3, <1>4 DEF Deep
<1>5. CASE t[i].rest = << >>
  BY <1>3, <1>5 DEF Deep
<1>6. QED
  BY <1>4, <1>5

LEMMA DepthOne ==
    ASSUME NEW f, f.step \in 1..Steps, f.rest = << >>
    PROVE  Depth(<< f >>)
<1>1. Deep(f, 1)
  BY StepsAssumption DEF Deep, SuccessCheck
<1>2. QED
  BY <1>1 DEF Depth

\* The top frame replaced by one that works on the same step.
LEMMA DepthReplace ==
    ASSUME NEW s \in Seq(Frame), s # << >>, Depth(s), NEW f \in Frame,
           f.step = Last(s).step, f.rest \in {Last(s).rest, << >>}
    PROVE  Depth(Append(Front(s), f))
<1> DEFINE b == Front(s)
           q == Append(b, f)
           l == Last(s)
<1>1. /\ b \in Seq(Frame) /\ Len(s) \in Nat \ {0} /\ Len(b) = Len(s) - 1 /\ l = s[Len(s)]
      /\ \A i \in 1..Len(s) - 1 : b[i] = s[i]
  BY FrontIs
<1>2. f.step = l.step /\ f.rest \in {l.rest, << >>}
  OBVIOUS
<1> HIDE DEF b, l
<1>3. /\ q \in Seq(Frame) /\ Len(q) = Len(b) + 1 /\ q[Len(b) + 1] = f
      /\ \A i \in 1..Len(b) : q[i] = b[i]
  BY <1>1, AppendIs
<1> HIDE DEF q
<1>4. ASSUME NEW i \in 1..Len(q) PROVE q[i].step = s[i].step /\ q[i].rest \in {s[i].rest, << >>}
  <2>1. CASE i = Len(s)
    BY <1>1, <1>2, <1>3, <2>1
  <2>2. CASE i # Len(s)
    BY <1>1, <1>3, <2>2
  <2>3. QED
    BY <2>1, <2>2
<1>5. Len(q) <= Len(s)
  BY <1>1, <1>3
<1>6. Depth(q)
  BY <1>3, <1>4, <1>5, DepthKept
<1>7. QED
  BY <1>6 DEF q, b

LEMMA DepthFront ==
    ASSUME NEW s \in Seq(Frame), s # << >>, Depth(s)
    PROVE  Depth(Front(s))
<1> DEFINE b == Front(s)
<1>1. /\ b \in Seq(Frame) /\ Len(s) \in Nat \ {0} /\ Len(b) = Len(s) - 1
      /\ \A i \in 1..Len(s) - 1 : b[i] = s[i]
  BY FrontIs
<1> HIDE DEF b
<1>2. Len(b) <= Len(s) /\ \A i \in 1..Len(b) : b[i] = s[i]
  BY <1>1
<1>3. Depth(b)
  BY <1>1, <1>2, DepthKept
<1>4. QED
  BY <1>3 DEF b

\* Pushing a step to re-run: an earlier one than the step it is re-run for.
LEMMA DepthRerun ==
    ASSUME NEW s \in Seq(Frame), s # << >>, Depth(s), NEW f \in Frame, f.step = Last(s).step,
           NEW steps \in Seq((1..Steps) \ Irreversible), steps # << >>,
           \A k \in 1..Len(steps) : steps[k] < f.step
    PROVE  Depth(Front(s) \o << [f EXCEPT !.rest = Tail(steps)],
                                StartStep(Head(steps), Len(steps) = 1) >>)
<1> DEFINE b == Front(s)
           g == [f EXCEPT !.rest = Tail(steps)]
           h == StartStep(Head(steps), Len(steps) = 1)
           q == b \o << g, h >>
<1>1. /\ b \in Seq(Frame) /\ Len(s) \in Nat \ {0} /\ Len(b) = Len(s) - 1
      /\ \A i \in 1..Len(s) - 1 : b[i] = s[i]
      /\ Last(s) = s[Len(s)] /\ Len(s) \in 1..Len(s)
  <2> DEFINE n == Len(s)
  <2>1. n \in Nat \ {0}
    BY FrontIs
  <2> HIDE DEF n
  <2>2. n \in 1..n
    BY <2>1
  <2>3. QED
    BY <2>2, FrontIs DEF n
<1>2. /\ Len(steps) \in Nat \ {0} /\ Head(steps) = steps[1] /\ Len(Tail(steps)) = Len(steps) - 1
      /\ \A k \in 1..Len(steps) - 1 : Tail(steps)[k] = steps[k + 1]
      /\ Tail(steps) \in Seq((1..Steps) \ Irreversible)
      /\ steps[1] \in 1..Steps
  BY HeadTailProperties, EmptySeq, LenProperties
<1>3. f.step \in 1..Steps /\ f.step <= SuccessCheck - Len(s)
  <2>1. Deep(s[Len(s)], Len(s))
    BY <1>1 DEF Depth
  <2>2. QED
    BY <1>1, <2>1, FrameIs DEF Deep
<1>4. g.step = f.step /\ g.rest = Tail(steps)
  BY DEF Frame
<1>5. h.step = steps[1] /\ h.rest = << >>
  BY <1>2, StartHas
<1> HIDE DEF g, h, b
<1>6. Deep(g, Len(s))
  <2>1. ASSUME NEW k \in 1..Len(g.rest) PROVE g.rest[k] < g.step
    <3>1. k \in 1..Len(steps) - 1 /\ k + 1 \in 1..Len(steps)
      BY <1>2, <1>4
    <3>2. QED
      BY <1>2, <1>4, <3>1
  <2>2. QED
    BY <1>3, <1>4, <2>1 DEF Deep
<1>7. Deep(h, Len(s) + 1)
  <2>1. steps[1] < f.step
    BY <1>2
  <2>2. h.step <= SuccessCheck - (Len(s) + 1)
    BY <1>1, <1>2, <1>3, <1>5, <2>1, StepsAssumption DEF SuccessCheck
  <2>3. QED
    BY <1>5, <2>2 DEF Deep
<1>8. Len(q) = Len(s) + 1 /\ q[Len(s)] = g /\ q[Len(s) + 1] = h
      /\ \A i \in 1..Len(s) - 1 : q[i] = s[i]
  <2>1. Len(<< g, h >>) = 2 /\ << g, h >>[1] = g /\ << g, h >>[2] = h
    OBVIOUS
  <2>2. Len(b) + 1 = Len(s) /\ Len(b) + 2 = Len(s) + 1 /\ Len(b) \in Nat
    BY <1>1
  <2>3. /\ Len(q) = Len(b) + 2
        /\ \A i \in 1..Len(b) : q[i] = b[i]
        /\ q[Len(b) + 1] = g /\ q[Len(b) + 2] = h
    BY <1>1, <2>1, <2>2
  <2> HIDE DEF q
  <2>4. QED
    BY <1>1, <2>2, <2>3
<1> HIDE DEF q
<1>9. ASSUME NEW i \in 1..Len(q) PROVE Deep(q[i], i)
  <2>1. CASE i = Len(s) + 1
    BY <1>7, <1>8, <2>1
  <2>2. CASE i = Len(s)
    BY <1>6, <1>8, <2>2
  <2>3. CASE i # Len(s) + 1 /\ i # Len(s)
    <3>1. i \in 1..Len(s) - 1 /\ i \in 1..Len(s)
      BY <1>1, <1>8, <2>3
    <3>2. QED
      BY <1>8, <3>1 DEF Depth
  <2>4. QED
    BY <2>1, <2>2, <2>3
<1>10. Depth(q)
  BY <1>9 DEF Depth
<1>11. QED
  BY <1>10 DEF q, b, g, h

-----------------------------------------------------------------------------
(* Polls that get later.                                                    *)

\* Time passing makes no frame an earlier one, and a frame later whose clock runs.
LEMMA TickLater ==
    ASSUME NEW s \in Seq(Frame)
    PROVE  \A i \in 1..Len(s) :
              /\ Tick(s)[i].rest = s[i].rest
              /\ Tick(s)[i] = s[i] \/ LaterPoll(s[i], Tick(s)[i])
              /\ s[i].left > 0 \/ Live(s[i]) # {} => LaterPoll(s[i], Tick(s)[i])
<1> DEFINE less(n) == IF n > 0 THEN n - 1 ELSE n
           cell(c) == [c EXCEPT !.window = less(@)]
           cells(f) == [d \in Detectors |-> cell(f.opened[d])]
           tick(f) == [f EXCEPT !.left = less(@), !.budget = less(@), !.opened = cells(f)]
<1>1. /\ Len(s) \in Nat /\ DOMAIN s = 1..Len(s) /\ \A i \in 1..Len(s) : s[i] \in Frame
  BY LenProperties
<1>2. Tick(s) = [i \in 1..Len(s) |-> tick(s[i])]
  BY <1>1 DEF Tick
<1>3. ASSUME NEW f \in Frame
      PROVE  /\ tick(f).rest = f.rest
             /\ tick(f) = f \/ LaterPoll(f, tick(f))
             /\ f.left > 0 \/ Live(f) # {} => LaterPoll(f, tick(f))
  <2>1. \A n \in 0..Timeout : /\ less(n) \in 0..Timeout /\ less(n) <= n
                              /\ n > 0 => less(n) < n
                              /\ less(n) < n \/ less(n) = n
    BY TimeAssumption
  <2>2. \A n \in (0..Window) \cup {NoWindow} : /\ less(n) \in (0..Window) \cup {NoWindow}
                                               /\ less(n) <= n
                                               /\ n > 0 => less(n) < n
                                               /\ less(n) < n \/ less(n) = n
    BY TimeAssumption DEF NoWindow
  <2> HIDE DEF less
  <2>3. \A c \in Cell : cell(c) \in Cell /\ cell(c).open = c.open /\ cell(c).window = less(c.window)
                        /\ c.window \in (0..Window) \cup {NoWindow}
    BY <2>2 DEF Cell
  <2>4. \A c, e \in Cell : c.open = e.open /\ c.window = e.window => c = e
    BY DEF Cell
  <2> HIDE DEF cell
  <2>5. f.opened \in Cells /\ \A d \in Detectors : f.opened[d] \in Cell
    BY FrameIs DEF Cells
  <2> DEFINE o == cells(f)
  <2>6. /\ o \in Cells
        /\ \A d \in Detectors : /\ o[d] \in Cell /\ o[d].open = f.opened[d].open
                                /\ o[d].window = less(f.opened[d].window)
    BY <2>3, <2>5 DEF Cells
  <2> HIDE DEF o
  <2>7. Frame = [step : 1..Steps, use : Uses, opened : Cells, left : 0..Timeout, budget : 0..Timeout,
                 skip : BOOLEAN, via : Detectors \cup {"none"}, rest : Seq((1..Steps) \ Irreversible)]
    BY DEF Frame, Cells, Cell
  <2>8. less(f.left) \in 0..Timeout /\ less(f.budget) \in 0..Timeout
    BY <2>1, FrameIs
  <2> DEFINE g == tick(f)
  <2>9. /\ g \in Frame /\ g.step = f.step /\ g.use = f.use /\ g.skip = f.skip /\ g.via = f.via
        /\ g.rest = f.rest /\ g.opened = o /\ g.left = less(f.left) /\ g.budget = less(f.budget)
    BY <2>6, <2>7, <2>8 DEF o
  <2> HIDE DEF g
  <2>10. \A d \in Detectors : /\ g.opened[d].window <= f.opened[d].window
                              /\ f.opened[d].window > 0 => g.opened[d].window < f.opened[d].window
                              /\ g.opened[d].window = f.opened[d].window
                                 \/ g.opened[d].window < f.opened[d].window
    BY <2>2, <2>3, <2>5, <2>6, <2>9
  <2>11. /\ f.left \in 0..Timeout /\ f.budget \in 0..Timeout
         /\ g.left <= f.left /\ (f.left > 0 => g.left < f.left)
         /\ g.left < f.left \/ g.left = f.left
         /\ g.budget < f.budget \/ g.budget = f.budget
    BY <2>1, <2>9, FrameIs
  <2>12. ASSUME g.left < f.left \/ \E d \in Detectors : g.opened[d].window < f.opened[d].window
         PROVE  LaterPoll(f, g)
    BY <2>9, <2>10, <2>11, <2>12 DEF LaterPoll
  <2>13. ASSUME g.budget < f.budget PROVE LaterPoll(f, g)
    BY <2>13 DEF LaterPoll
  <2>14. ASSUME g.left = f.left, g.budget = f.budget,
                \A d \in Detectors : g.opened[d].window = f.opened[d].window
         PROVE  g = f
    <3>1. \A d \in Detectors : g.opened[d] = f.opened[d]
      BY <2>4, <2>5, <2>6, <2>9, <2>14
    <3>2. g.opened = f.opened
      BY <2>5, <2>6, <2>9, <3>1 DEF Cells
    <3>3. \A x \in Frame : x = [step |-> x.step, use |-> x.use, opened |-> x.opened,
                               left |-> x.left, budget |-> x.budget, skip |-> x.skip,
                               via |-> x.via, rest |-> x.rest]
      BY <2>7
    <3>4. QED
      BY <2>9, <2>14, <3>2, <3>3
  <2>15. g = f \/ LaterPoll(f, g)
    BY <2>10, <2>11, <2>12, <2>13, <2>14
  <2>16. Live(f) # {} => \E d \in Detectors : g.opened[d].window < f.opened[d].window
    BY <2>10 DEF Live, Windows, Opened
  <2>17. f.left > 0 \/ Live(f) # {} => LaterPoll(f, g)
    BY <2>11, <2>12, <2>16
  <2>18. QED
    BY <2>9, <2>15, <2>17 DEF g
<1> HIDE DEF tick
<1>4. \A i \in 1..Len(s) : Tick(s)[i] = tick(s[i])
  BY <1>1, <1>2
<1>5. QED
  BY <1>1, <1>3, <1>4

\* A frame that has no more budget and less of its step before it is a later one.
LEMMA LaterUse ==
    ASSUME NEW f \in Frame, NEW g, g.use \in Uses, g.budget \in 0..f.budget,
           UseRank[g.use] < UseRank[f.use]
    PROVE  LaterPoll(f, g)
<1>1. g.budget < f.budget \/ g.budget = f.budget
  BY FrameIs, TimeAssumption
<1>2. QED
  BY <1>1 DEF LaterPoll

\* The top frame has become a later one.
LEMMA LaterTop ==
    ASSUME NEW s \in Seq(Frame), s # << >>, NEW f \in Frame, LaterPoll(Last(s), f)
    PROVE  LaterStack(s, Append(Front(s), f))
<1> DEFINE b == Front(s)
           q == Append(b, f)
           n == Len(s)
<1>1. /\ b \in Seq(Frame) /\ n \in Nat \ {0} /\ Len(b) = n - 1 /\ Last(s) = s[n]
      /\ \A i \in 1..n - 1 : b[i] = s[i]
  BY FrontIs
<1> HIDE DEF b
<1>2. /\ q \in Seq(Frame) /\ Len(q) = Len(b) + 1 /\ q[Len(b) + 1] = f
      /\ \A i \in 1..Len(b) : q[i] = b[i]
  BY <1>1, AppendIs
<1> HIDE DEF q
<1>3. Len(q) = n /\ q[n] = f /\ \A i \in 1..n - 1 : q[i] = s[i]
  BY <1>1, <1>2
<1>4. LaterPoll(s[n], q[n])
  BY <1>1, <1>3
<1> HIDE DEF n
<1>5. n \in 1..n /\ n <= Len(q)
  BY <1>1, <1>3
<1>6. LaterStack(s, q)
  BY <1>3, <1>4, <1>5 DEF LaterStack, n
<1>7. QED
  BY <1>6 DEF q, b

-----------------------------------------------------------------------------
(* What each step uses up.                                                  *)

\* What a step of the run has to show.
Progress == UsesSomethingUp /\ (Depth(stack) => Depth(stack'))

LEMMA StageLeft ==
    ASSUME pc = "running", pc' \in {"asking", "raising", "ended"}, pauses' = pauses
    PROVE  UsesSomethingUp
BY DEF UsesSomethingUp, StageRank

LEMMA StaysRunning ==
    ASSUME pc = "running", pc' = "running", pauses' = pauses, reverifying' = reverifying, Advances
    PROVE  UsesSomethingUp
BY DEF UsesSomethingUp

LEMMA CountAdvances ==
    ASSUME IInv, pc = "running", NEW f \in Frame, NEW d \in Detectors, Count(f, d)
    PROVE  Advances
<1>1. attempts \in [1..Steps -> [Detectors -> Nat]] /\ f.step \in 1..Steps
  BY FrameIs DEF IInv, Typed
<1> DEFINE k == attempts[f.step][d]
<1>2. attempts' = [attempts EXCEPT ![f.step][d] = k + 1]
  BY DEF Count, Used
<1>3. k \in Nat
  BY <1>1
<1> HIDE DEF k
<1> DEFINE row == [attempts[f.step] EXCEPT ![d] = k + 1]
<1>4. attempts[f.step] \in [Detectors -> Nat]
  BY <1>1
<1>5. /\ row \in [Detectors -> Nat] /\ row[d] = k + 1
      /\ \A e \in Detectors : e # d => row[e] = attempts[f.step][e]
  BY <1>3, <1>4
<1>6. attempts' = [attempts EXCEPT ![f.step] = row]
  BY <1>2
<1> HIDE DEF row
<1>7. /\ attempts'[f.step] = row
      /\ \A s \in 1..Steps : s # f.step => attempts'[s] = attempts[s]
  BY <1>1, <1>5, <1>6
<1>8. attempts'[f.step][d] = k + 1 /\ attempts[f.step][d] = k
  BY <1>5, <1>7 DEF k
<1>9. attempts' # attempts
  BY <1>3, <1>8
<1>10. ASSUME NEW s \in 1..Steps, NEW e \in Detectors PROVE attempts'[s][e] >= attempts[s][e]
  <2>1. attempts[s][e] \in Nat
    BY <1>1
  <2>2. CASE s = f.step /\ e = d
    BY <1>3, <1>8, <2>2
  <2>3. CASE s = f.step /\ e # d
    BY <1>5, <1>7, <2>1, <2>3
  <2>4. CASE s # f.step
    BY <1>7, <2>1, <2>4
  <2>5. QED
    BY <2>2, <2>3, <2>4
<1>11. QED
  BY <1>9, <1>10 DEF Advances, MoreAttempts

\* A stop that leaves the stack alone, or has opened the recovery it is about.
LEMMA StopProgress ==
    ASSUME IInv, pc = "running", pc' \in {"asking", "raising"}, UNCHANGED human,
           stack' = stack \/ \E d \in Detectors : Replace(Opening(Top, d))
    PROVE  Progress
<1>1. UsesSomethingUp
  BY StageLeft DEF human
<1>2. ASSUME Depth(stack), NEW d \in Detectors, Replace(Opening(Top, d)) PROVE Depth(stack')
  <2>1. /\ stack \in Seq(Frame) /\ stack # << >> /\ Top \in Frame
    BY Now
  <2>2. /\ Opening(Top, d) \in Frame /\ Opening(Top, d).step = Top.step
        /\ Opening(Top, d).rest = Top.rest
    BY <2>1, OpeningIs
  <2>3. Depth(Append(Front(stack), Opening(Top, d)))
    BY <1>2, <2>1, <2>2, DepthReplace DEF Top
  <2>4. QED
    BY <1>2, <2>3 DEF Replace
<1>3. QED
  BY <1>1, <1>2 DEF Progress

\* A recovery that was counted and has the poll go on.
LEMMA RecoveredProgress ==
    ASSUME IInv, pc = "running", NEW d \in Detectors, Count(Top, d),
           UNCHANGED <<pc, reverifying, human>>, Depth(stack) => Depth(stack')
    PROVE  Progress
<1>1. Advances
  BY Now, CountAdvances
<1>2. QED
  BY <1>1, StaysRunning DEF Progress, human

LEMMA ClickProgress ==
    ASSUME IInv, Polling, NEW d \in Detectors, RecoverByClick(Top, d), UNCHANGED <<reverifying, human>>
    PROVE  Progress
<1>1. pc = "running" /\ stack \in Seq(Frame) /\ stack # << >> /\ Top \in Frame
  BY RunningNow
<1>2. CASE Replace(Resumed(Opening(Top, d))) /\ UNCHANGED <<pc, stop>>
  <2> DEFINE o == Opening(Top, d)
             g == Resumed(o)
  <2>1. o \in Frame /\ o.step = Top.step /\ o.rest = Top.rest
    BY <1>1, OpeningIs
  <2>2. stack' = Append(Front(stack), g)
    BY <1>2 DEF Replace
  <2> HIDE DEF o
  <2>3. g \in Frame /\ g.step = o.step
    BY <2>1, ResumedIs
  <2>4. g.rest = o.rest
    BY <2>1 DEF Resumed, Frame
  <2> HIDE DEF g
  <2>5. Depth(stack) => Depth(stack')
    BY <1>1, <2>1, <2>2, <2>3, <2>4, DepthReplace DEF Top
  <2>6. QED
    BY <1>1, <1>2, <2>5, RecoveredProgress DEF RecoverByClick
<1>3. CASE Replace(Opening(Top, d)) /\ (PolicyStop \/ Ask("POLICY_BLOCKED", "IRREVERSIBLE_NEEDS_HUMAN"))
  BY <1>1, <1>3, StopProgress DEF PolicyStop, Raise, RaiseAs, Ask
<1>4. QED
  BY <1>2, <1>3 DEF RecoverByClick

LEMMA WaitRetryProgress ==
    ASSUME IInv, Polling, NEW d \in Detectors, RecoverByWaiting(Top, d), UNCHANGED <<reverifying, human>>
    PROVE  Progress
<1> DEFINE o == Opening(Top, d)
           g == [o EXCEPT !.opened[d].window = Window, !.use = IF @ = "pass" THEN "passed" ELSE @]
<1>1. pc = "running" /\ stack \in Seq(Frame) /\ stack # << >> /\ Top \in Frame
  BY RunningNow
<1>2. o \in Frame /\ o.step = Top.step /\ o.rest = Top.rest
  BY <1>1, OpeningIs
<1>3. stack' = Append(Front(stack), g)
  BY DEF RecoverByWaiting, Replace
<1> HIDE DEF o
<1>4. g \in Frame /\ g.step = o.step
  BY <1>2, WaitingIs
<1>5. g.rest = o.rest
  BY <1>2 DEF Frame
<1> HIDE DEF g
<1>6. Depth(stack) => Depth(stack')
  BY <1>1, <1>2, <1>3, <1>4, <1>5, DepthReplace DEF Top
<1>7. QED
  BY <1>1, <1>6, RecoveredProgress DEF RecoverByWaiting

\* What a recovery re-runs is before the step it interrupts.
LEMMA RerunsBefore ==
    ASSUME NEW d \in Detectors, Kind[d] = "run_steps", NEW step, InScope(d, step)
    PROVE  \A k \in 1..Len(Reruns[d]) : Reruns[d][k] < step
<1> DEFINE q == Reruns[d]
<1>1. q \in Seq(1..Steps) /\ \A i \in DOMAIN q : q[i] < step
  BY RerunsAssumption DEF ValidRerun, InScope
<1> HIDE DEF q
<1>2. DOMAIN q = 1..Len(q)
  BY <1>1, LenProperties
<1>3. QED
  BY <1>1, <1>2 DEF q

LEMMA RerunningProgress ==
    ASSUME IInv, Polling, NEW d \in Detectors, RecoverByRerunning(Top, d), InScope(d, Top.step),
           UNCHANGED <<reverifying, human>>
    PROVE  Progress
<1> DEFINE o == Opening(Top, d)
           f == [o EXCEPT !.via = d]
           steps == Reruns[d]
<1>1. pc = "running" /\ stack \in Seq(Frame) /\ stack # << >> /\ Top \in Frame
  BY RunningNow
<1>2. o \in Frame /\ o.step = Top.step
  BY <1>1, OpeningIs
<1>3. stack' = Front(stack) \o << [f EXCEPT !.rest = Tail(steps)],
                                  StartStep(Head(steps), Len(steps) = 1) >>
  BY DEF RecoverByRerunning, Rerun
<1>4. steps \in Seq((1..Steps) \ Irreversible) /\ steps # << >>
  BY RerunsAre DEF RecoverByRerunning
<1>5. \A k \in 1..Len(steps) : steps[k] < Top.step
  BY RerunsBefore DEF RecoverByRerunning
<1> HIDE DEF o, steps
<1>6. f \in Frame /\ f.step = o.step
  BY <1>2 DEF Frame
<1> HIDE DEF f
<1>7. Depth(stack) => Depth(stack')
  BY <1>1, <1>2, <1>3, <1>4, <1>5, <1>6, DepthRerun DEF Top
<1>8. QED
  BY <1>1, <1>7, RecoveredProgress DEF RecoverByRerunning

LEMMA HandleProgress ==
    ASSUME IInv, Polling, NEW d \in Detectors, Handle(Top, d), InScope(d, Top.step),
           UNCHANGED <<reverifying, human>>
    PROVE  Progress
<1>1. pc = "running"
  BY RunningNow
<1>2. CASE (RaiseAs("business_outcome", d) \/ RaiseOrAsk(d)) /\ UNCHANGED <<stack, ledger>>
  BY <1>1, <1>2, StopProgress DEF RaiseAs, RaiseOrAsk, Raise, Ask
<1>3. CASE Exhaust(Top, d)
  BY <1>1, <1>3, StopProgress DEF Exhaust, RaiseAs, RaiseOrAsk, Raise, Ask
<1>4. CASE RecoverByClick(Top, d) \/ RecoverByWaiting(Top, d) \/ RecoverByRerunning(Top, d)
  BY <1>4, ClickProgress, WaitRetryProgress, RerunningProgress
<1>5. QED
  BY <1>2, <1>3, <1>4 DEF Handle

LEMMA LookProgress ==
    ASSUME IInv, \/ LookBlocked \/ WindowsEnd \/ DeadlinePasses
                 \/ \E d \in Detectors : LookMatches(d) \/ DeadlineMatches(d)
    PROVE  Progress
<1>1. CASE LookBlocked
  BY <1>1, RunningNow, StopProgress DEF LookBlocked, PolicyStop, Raise, RaiseAs
<1>2. CASE WindowsEnd \/ DeadlinePasses
  <2>1. Polling /\ TimedOut(Top) /\ UNCHANGED <<stack, human>>
    BY <1>2 DEF WindowsEnd, DeadlinePasses, OutOfTime
  <2>2. \E code : RaiseOrAsk(code)
    BY <2>1 DEF TimedOut
  <2>3. pc' \in {"asking", "raising"}
    BY <2>2 DEF RaiseOrAsk, Raise, RaiseAs, Ask
  <2>4. QED
    BY <2>1, <2>3, RunningNow, StopProgress
<1>3. CASE \E d \in Detectors : LookMatches(d) \/ DeadlineMatches(d)
  BY <1>3, HandleProgress DEF LookMatches, DeadlineMatches, OutOfTime
<1>4. QED
  BY <1>1, <1>2, <1>3

LEMMA WaitsProgress ==
    ASSUME IInv, Waits
    PROVE  Progress
<1>1. /\ pc = "running" /\ stack' = Tick(stack)
      /\ UNCHANGED <<pc, at, reverifying, human, attempts>>
      /\ Live(Top) # {} \/ Top.left > 0
  BY DEF Waits, Polling, ledger
<1>2. stack \in Seq(Frame) /\ Len(stack) \in Nat \ {0} /\ Top = stack[Len(stack)]
  BY <1>1, Now DEF Top, Last
<1> DEFINE n == Len(stack)
           t == Tick(stack)
<1>3. /\ t \in Seq(Frame) /\ Len(t) = n
      /\ \A i \in 1..n : t[i].step = stack[i].step
  BY <1>2, TickIs
<1>4. \A i \in 1..n : /\ t[i].rest = stack[i].rest
                      /\ t[i] = stack[i] \/ LaterPoll(stack[i], t[i])
                      /\ stack[i].left > 0 \/ Live(stack[i]) # {} => LaterPoll(stack[i], t[i])
  BY <1>2, TickLater
<1> HIDE DEF t
<1>5. Depth(stack) => Depth(t)
  BY <1>2, <1>3, <1>4, DepthKept
<1> HIDE DEF n
<1>6. n \in 1..n /\ \A j \in 1..n - 1 : j \in 1..n
  BY <1>2 DEF n
<1>7. LaterStack(stack, t)
  <2>1. LaterPoll(stack[n], t[n])
    BY <1>1, <1>2, <1>4, <1>6 DEF n
  <2>2. \A j \in 1..n - 1 : t[j] = stack[j] \/ LaterPoll(stack[j], t[j])
    BY <1>4, <1>6
  <2>3. n <= Len(t)
    BY <1>3, <1>6
  <2>4. QED
    BY <1>6, <2>1, <2>2, <2>3 DEF LaterStack, n
<1>8. Advances
  BY <1>1, <1>7 DEF Advances, t
<1>9. QED
  BY <1>1, <1>5, <1>8, StaysRunning DEF Progress, human, t

\* The poll on top goes on to what it does next.
LEMMA NextUseProgress ==
    ASSUME IInv, pc = "running", NEW g \in Frame, Replace(g),
           UNCHANGED <<pc, at, reverifying, human, attempts>>,
           g.step = Top.step, g.rest = << >>, g.budget \in 0..Top.budget,
           UseRank[g.use] < UseRank[Top.use]
    PROVE  Progress
<1>1. stack \in Seq(Frame) /\ stack # << >> /\ Top \in Frame
  BY Now
<1>2. LaterPoll(Top, g)
  BY <1>1, FrameIs, LaterUse
<1>3. LaterStack(stack, stack')
  BY <1>1, <1>2, LaterTop DEF Top, Replace
<1>4. Depth(stack) => Depth(stack')
  BY <1>1, DepthReplace DEF Top, Replace
<1>5. QED
  BY <1>3, <1>4, StaysRunning DEF Advances, Progress, human

LEMMA TargetFoundProgress ==
    ASSUME IInv, TargetFound
    PROVE  Progress
<1> DEFINE p == Poll(Top.step, "act", Top.budget, Top.skip)
           g == [p EXCEPT !.left = 0]
<1>1. /\ pc = "running" /\ Top.use = "resolve" /\ Replace(g)
      /\ UNCHANGED <<pc, at, reverifying, human, attempts>>
  BY DEF TargetFound, Polling
<1>2. /\ Top.step \in 1..Steps /\ Top.budget \in 0..Timeout /\ Top.skip \in BOOLEAN
      /\ "act" \in Uses /\ 0 \in 0..Timeout
  BY <1>1, Now, FrameIs, TimeAssumption DEF Uses
<1>3. /\ p \in Frame /\ p.step = Top.step /\ p.use = "act" /\ p.budget = Top.budget
      /\ p.rest = << >>
  BY <1>2, PollIs, PollHas
<1> HIDE DEF p
<1>4. /\ g \in Frame /\ g.step = p.step /\ g.use = p.use /\ g.budget = p.budget /\ g.rest = p.rest
  BY <1>2, <1>3 DEF Frame
<1> HIDE DEF g
<1>5. g.budget \in 0..Top.budget
  BY <1>2, <1>3, <1>4, TimeAssumption
<1>6. UseRank[g.use] < UseRank[Top.use]
  BY <1>1, <1>3, <1>4 DEF UseRank
<1>7. QED
  BY <1>1, <1>3, <1>4, <1>5, <1>6, NextUseProgress

\* Only the flow's last step checks its success or reads outputs.
LEMMA CheckSucceedsProgress ==
    ASSUME IInv, CheckSucceeds
    PROVE  Progress
<1> DEFINE g == Poll(Steps, "read", 0, FALSE)
<1>1. /\ pc = "running" /\ Top.use = "success" /\ Replace(g)
      /\ UNCHANGED <<pc, at, reverifying, human, attempts>>
  BY DEF CheckSucceeds, Polling
<1>2. /\ stack \in Seq(Frame) /\ stack # << >> /\ Top \in Frame /\ Front(stack) = << >>
  BY <1>1, Now, AtTheEnd DEF EndUses
<1>3. Steps \in 1..Steps /\ "read" \in Uses
  BY StepsAssumption DEF Uses
<1>4. g \in Frame /\ g.step = Steps /\ g.use = "read" /\ g.budget = 0 /\ g.rest = << >>
  BY <1>3, PlainPoll
<1> HIDE DEF g
<1>5. LaterPoll(Top, g)
  <2>1. UseRank[g.use] < UseRank[Top.use]
    BY <1>1, <1>4 DEF UseRank
  <2>2. g.budget \in 0..Top.budget
    BY <1>2, <1>4, FrameIs
  <2>3. QED
    BY <1>2, <1>4, <2>1, <2>2, FrameIs, LaterUse
<1>6. LaterStack(stack, stack')
  <2>1. LaterStack(stack, Append(Front(stack), g))
    BY <1>2, <1>4, <1>5, LaterTop DEF Top
  <2>2. QED
    BY <1>1, <2>1 DEF Replace
<1>7. stack' = << g >>
  <2>1. Append(<< >>, g) = << g >>
    OBVIOUS
  <2>2. QED
    BY <1>1, <1>2, <2>1 DEF Replace
<1>8. Depth(stack')
  BY <1>3, <1>4, <1>7, DepthOne
<1>9. QED
  BY <1>1, <1>6, <1>8, StaysRunning DEF Advances, Progress, human

LEMMA OutputsProgress ==
    ASSUME IInv, OutputRead \/ OutputUnreadable
    PROVE  Progress
<1>1. pc = "running" /\ Top.use \in EndUses /\ UNCHANGED human
  BY DEF OutputRead, OutputUnreadable, Polling, EndUses
<1>2. pc' \in {"asking", "raising", "ended"}
  BY DEF OutputRead, OutputUnreadable, Finish, End, PolicyStop, Raise, RaiseAs
<1>3. UsesSomethingUp
  BY <1>1, <1>2, StageLeft DEF human
<1>4. CASE stack' = << >>
  BY <1>3, <1>4 DEF Progress, Depth
<1>5. CASE Replace(Poll(Steps, "read", 0, FALSE))
  <2> DEFINE g == Poll(Steps, "read", 0, FALSE)
  <2>1. stack' = Append(<< >>, g)
    BY <1>1, <1>5, AtTheEnd DEF Replace
  <2>2. g.step \in 1..Steps /\ g.rest = << >>
    <3>1. Steps \in 1..Steps /\ "read" \in Uses
      BY StepsAssumption DEF Uses
    <3>2. QED
      BY <3>1, PlainPoll
  <2> HIDE DEF g
  <2>3. stack' = << g >>
    BY <2>1
  <2>4. QED
    BY <1>3, <2>2, <2>3, DepthOne DEF Progress
<1>6. QED
  BY <1>4, <1>5 DEF OutputRead, OutputUnreadable

\* A step that is done: the flow goes on, or the wait it was re-run for has one
\* step less to wait for, if any.
LEMMA StepDoneAdvances ==
    ASSUME IInv, pc = "running", Top.use \in FlowUses, StepDone
    PROVE  /\ at' > at \/ (at' = at /\ LaterStack(stack, stack'))
           /\ Depth(stack) => Depth(stack')
<1>1. /\ Shape(stack, at, reverifying) /\ stack \in Seq(Frame) /\ stack # << >>
      /\ Len(stack) \in Nat \ {0} /\ at \in 1..SuccessCheck
  BY Now
<1>2. CASE Len(stack) = 1
  <2> DEFINE f == IF at = Steps THEN Poll(Steps, "success", 0, FALSE) ELSE StartStep(at + 1, FALSE)
  <2>1. at' = at + 1 /\ stack' = << f >>
    BY <1>2 DEF StepDone
  <2>2. at \in 1..Steps
    <3>1. Fits(Top, 1, at, reverifying)
      BY <1>2, Now
    <3>2. QED
      BY <1>1, <3>1 DEF Fits, SuccessCheck
  <2>3. at' > at
    BY <2>1, <2>2
  <2>4. f.step \in 1..Steps /\ f.rest = << >>
    <3>1. CASE at = Steps
      <4>1. "success" \in Uses
        BY DEF Uses
      <4>2. QED
        BY <2>2, <3>1, <4>1, PlainPoll
    <3>2. CASE at # Steps
      <4>1. at + 1 \in 1..Steps
        BY <2>2, <3>2, StepsAssumption
      <4>2. QED
        BY <3>2, <4>1, StartHas
    <3>3. QED
      BY <3>1, <3>2
  <2> HIDE DEF f
  <2>5. QED
    BY <2>1, <2>3, <2>4, DepthOne
<1>3. CASE Len(stack) # 1
  <2> DEFINE b0 == Front(stack)
             outer == Last(b0)
             below == Front(b0)
             g == Resumed(outer)
             q == below \o << [outer EXCEPT !.rest = Tail(outer.rest)],
                              StartStep(Head(outer.rest), Len(outer.rest) = 1) >>
  <2>1. /\ b0 \in Seq(Frame) /\ Len(b0) = Len(stack) - 1 /\ b0 # << >>
        /\ \A i \in 1..Len(stack) - 1 : b0[i] = stack[i]
    BY <1>1, <1>3, FrontIs
  <2>2. outer.via # "none" /\ outer \in Frame
    BY <1>1, <2>1, ShapeFront
  <2>3. at' = at /\ (stack' = Append(below, g) \/ (outer.rest # << >> /\ stack' = q))
    BY <1>3 DEF StepDone, Rerun
  <2>4. Depth(stack) => Depth(b0)
    BY <1>1, DepthFront
  <2> HIDE DEF b0
  <2>5. ASSUME NEW t, LaterStack(b0, t) PROVE LaterStack(stack, t)
    <3>1. PICK i \in 1..Len(b0) : /\ i <= Len(t)
                                  /\ LaterPoll(b0[i], t[i])
                                  /\ \A j \in 1..i - 1 : t[j] = b0[j] \/ LaterPoll(b0[j], t[j])
      BY <2>5 DEF LaterStack
    <3>2. i \in 1..Len(stack) /\ b0[i] = stack[i] /\ \A j \in 1..i - 1 : b0[j] = stack[j]
      BY <1>1, <2>1
    <3>3. QED
      BY <3>1, <3>2 DEF LaterStack
  <2>6. /\ outer.rest \in Seq((1..Steps) \ Irreversible) /\ outer.use \in Uses
        /\ outer.budget \in 0..Timeout
    BY <2>2, FrameIs
  <2>7. CASE stack' = Append(below, g)
    <3>1. /\ g \in Frame /\ g.step = outer.step /\ g.via = "none"
          /\ g.use = IF outer.use = "pass" THEN "passed" ELSE outer.use
      BY <2>2, ResumedIs
    <3>2. g.rest = outer.rest /\ g.budget = outer.budget
      BY <2>2 DEF Resumed, Frame
    <3> HIDE DEF g
    <3>3. LaterPoll(outer, g)
      <4>1. CASE outer.use = "pass"
        BY <3>1, <3>2, <4>1 DEF LaterPoll, UseRank
      <4>2. CASE outer.use # "pass"
        BY <2>2, <3>1, <3>2, <4>2 DEF LaterPoll
      <4>3. QED
        BY <4>1, <4>2
    <3>4. LaterStack(b0, stack')
      BY <2>1, <2>7, <3>1, <3>3, LaterTop
    <3>5. Depth(b0) => Depth(stack')
      BY <2>1, <2>7, <3>1, <3>2, DepthReplace
    <3>6. QED
      BY <2>3, <2>4, <2>5, <3>4, <3>5
  <2>8. CASE outer.rest # << >> /\ stack' = q
    <3> DEFINE f == [outer EXCEPT !.rest = Tail(outer.rest)]
               h == StartStep(Head(outer.rest), Len(outer.rest) = 1)
    <3>1. /\ Tail(outer.rest) \in Seq((1..Steps) \ Irreversible) /\ Len(outer.rest) \in Nat \ {0}
          /\ Len(Tail(outer.rest)) = Len(outer.rest) - 1
      BY <2>6, <2>8, HeadTailProperties, EmptySeq, LenProperties
    <3>2. /\ f \in Frame /\ f.budget = outer.budget /\ f.use = outer.use /\ f.via = outer.via
          /\ f.rest = Tail(outer.rest)
      BY <2>2, <3>1 DEF Frame
    <3>3. LaterPoll(outer, f)
      BY <3>1, <3>2 DEF LaterPoll
    <3>4. /\ below \in Seq(Frame) /\ Len(below) + 1 = Len(b0) /\ Len(b0) \in Nat \ {0}
          /\ \A i \in 1..Len(b0) - 1 : below[i] = b0[i]
      <4>1. /\ below \in Seq(Frame) /\ Len(b0) \in Nat \ {0} /\ Len(below) = Len(b0) - 1
            /\ \A i \in 1..Len(b0) - 1 : below[i] = b0[i]
        BY <2>1, FrontIs
      <4> HIDE DEF below
      <4>2. Len(below) + 1 = Len(b0)
        BY <4>1
      <4>3. QED
        BY <4>1, <4>2
    <3>5. outer = b0[Len(b0)]
      BY DEF Last
    <3>6. Depth(b0) => Depth(q)
      <4>1. ASSUME Depth(b0) PROVE \A k \in 1..Len(outer.rest) : outer.rest[k] < outer.step
        <5> DEFINE n == Len(b0)
        <5>1. n \in Nat \ {0}
          BY <3>4
        <5> HIDE DEF n
        <5>2. n \in 1..n
          BY <5>1
        <5>3. Deep(b0[n], n)
          BY <4>1, <5>2 DEF Depth, n
        <5>4. QED
          BY <3>5, <5>3 DEF Deep, n
      <4> HIDE DEF f, h
      <4>2. QED
        BY <2>1, <2>2, <2>6, <2>8, <4>1, DepthRerun
    <3> HIDE DEF f, h, outer
    <3>7. LaterStack(b0, q)
      <4> DEFINE n == Len(b0)
      <4>1. Len(q) = n + 1 /\ q[n] = f /\ \A j \in 1..n - 1 : q[j] = b0[j]
        <5>1. q = below \o << f, h >>
          BY DEF f, h
        <5> HIDE DEF q, below
        <5>2. Len(<< f, h >>) = 2 /\ << f, h >>[1] = f
          OBVIOUS
        <5>3. /\ Len(q) = Len(below) + 2 /\ q[Len(below) + 1] = f
              /\ \A i \in 1..Len(below) : q[i] = below[i]
          BY <3>4, <5>1, <5>2
        <5>4. QED
          BY <3>4, <5>3
      <4>2. n \in 1..n /\ n <= Len(q)
        BY <3>4, <4>1
      <4>3. LaterPoll(b0[n], q[n])
        BY <3>3, <3>5, <4>1
      <4> HIDE DEF q
      <4>4. QED
        BY <4>1, <4>2, <4>3 DEF LaterStack
    <3>8. QED
      BY <2>3, <2>4, <2>5, <2>8, <3>6, <3>7
  <2>9. QED
    BY <2>3, <2>7, <2>8
<1>4. QED
  BY <1>2, <1>3

LEMMA WaitPassesProgress ==
    ASSUME IInv, WaitPasses
    PROVE  Progress
<1>1. /\ pc = "running" /\ Top.use \in FlowUses /\ StepDone
      /\ UNCHANGED <<pc, reverifying, human, attempts>>
  BY DEF WaitPasses, Polling, FlowUses
<1>2. QED
  BY <1>1, StepDoneAdvances, StaysRunning DEF Advances, Progress, human

\* A hand-back that verified goes on, or has the success check start over.
LEMMA HandbackVerifiedProgress ==
    ASSUME IInv, HandbackVerified
    PROVE  Progress
<1> DEFINE f == IF at >= Steps THEN Poll(Steps, "success", 0, FALSE) ELSE StartStep(at + 1, FALSE)
<1>1. /\ pc = "running" /\ Top.use \in HandbackUses /\ reverifying' = FALSE
      /\ at' = IF at = SuccessCheck THEN at ELSE at + 1
      /\ stack' = << f >> /\ UNCHANGED <<pc, human, attempts>>
  BY DEF HandbackVerified, HandbackUses
<1>2. /\ stack \in Seq(Frame) /\ stack # << >> /\ Len(stack) \in Nat \ {0} /\ Top \in Frame
      /\ Fits(Top, Len(stack), at, reverifying) /\ at \in 1..SuccessCheck /\ reverifying \in BOOLEAN
  BY <1>1, Now
<1>3. Front(stack) = << >>
  <2>1. Len(stack) = 1
    BY <1>1, <1>2, AlwaysPositive DEF Fits, FlowUses, HandbackUses
  <2>2. QED
    BY <1>2, <2>1, FrontIs
<1>4. /\ Steps \in 1..Steps /\ "success" \in Uses
      /\ ~(at >= Steps) => at + 1 \in 1..Steps
      /\ at = SuccessCheck => at >= Steps
  <2>1. "success" \in Uses
    BY DEF Uses
  <2>2. /\ Steps \in 1..Steps
        /\ ~(at >= Steps) => at + 1 \in 1..Steps
        /\ at = SuccessCheck => at >= Steps
    BY ONLY <1>2, StepsAssumption DEF SuccessCheck
  <2>3. QED
    BY <2>1, <2>2
<1> DEFINE p == Poll(Steps, "success", 0, FALSE)
           r == StartStep(at + 1, FALSE)
<1>5. /\ p \in Frame /\ p.step = Steps /\ p.use = "success" /\ p.budget = 0 /\ p.rest = << >>
      /\ r.step = at + 1 /\ r.rest = << >>
  <2>1. p \in Frame /\ p.step = Steps /\ p.use = "success" /\ p.budget = 0 /\ p.rest = << >>
    BY <1>4, PlainPoll
  <2>2. \A skip : StartStep(at + 1, skip).step = at + 1 /\ StartStep(at + 1, skip).rest = << >>
    BY StartHas
  <2> HIDE DEF p
  <2>3. QED
    BY <2>1, <2>2
<1> HIDE DEF p, r
<1>6. /\ f.step \in 1..Steps /\ f.rest = << >>
      /\ at = SuccessCheck => f \in Frame /\ f.use = "success" /\ f.budget = 0
  <2>1. f = IF at >= Steps THEN p ELSE r
    BY DEF p, r
  <2> HIDE DEF f
  <2>2. QED
    BY <1>4, <1>5, <2>1
<1> HIDE DEF f
<1>7. Depth(stack')
  BY <1>1, <1>6, DepthOne
<1>8. CASE at # SuccessCheck
  <2>1. at' > at
    BY <1>1, <1>2, <1>8, StepsAssumption DEF SuccessCheck
  <2>2. QED
    BY <1>1, <1>2, <1>7, <2>1 DEF Progress, UsesSomethingUp, Advances, human
<1>9. CASE at = SuccessCheck
  <2>1. UseRank[f.use] < UseRank[Top.use]
    BY <1>1, <1>6, <1>9 DEF UseRank, HandbackUses
  <2>2. f.budget \in 0..Top.budget /\ f.use \in Uses
    BY <1>2, <1>4, <1>6, <1>9, FrameIs
  <2>3. LaterPoll(Top, f)
    BY <1>2, <2>1, <2>2, LaterUse
  <2>4. LaterStack(stack, Append(Front(stack), f))
    BY <1>2, <1>6, <1>9, <2>3, LaterTop DEF Top
  <2>5. Append(<< >>, f) = << f >>
    OBVIOUS
  <2>6. at' = at /\ LaterStack(stack, stack')
    BY <1>1, <1>3, <1>9, <2>4, <2>5
  <2>7. QED
    BY <1>1, <1>2, <1>7, <2>6 DEF Progress, UsesSomethingUp, Advances, human
<1>10. QED
  BY <1>8, <1>9

LEMMA ActRefusedProgress ==
    ASSUME IInv, ActRefused
    PROVE  Progress
<1>1. pc = "running" /\ UNCHANGED <<stack, human>>
  BY DEF ActRefused, Acting
<1>2. pc' \in {"asking", "raising"}
  BY DEF ActRefused, RaiseOrAsk, PolicyStop, Raise, RaiseAs, Ask
<1>3. QED
  BY <1>1, <1>2, StopProgress

LEMMA ActWorksProgress ==
    ASSUME IInv, ActWorks
    PROVE  Progress
<1>1. /\ Acting /\ pc = "running" /\ Top.use = "act"
      /\ UNCHANGED <<pc, reverifying, human, attempts>>
  BY DEF ActWorks, Acting, ledger
<1>2. CASE Top.skip
  BY <1>1, <1>2, StepDoneAdvances, StaysRunning DEF ActWorks, FlowUses, Advances, Progress, human
<1>3. CASE ~Top.skip
  <2> DEFINE g == Poll(Top.step, "wait", 0, FALSE)
  <2>1. Replace(g) /\ UNCHANGED at
    BY <1>3 DEF ActWorks
  <2>2. Top.step \in 1..Steps /\ Top.budget \in 0..Timeout /\ "wait" \in Uses
    BY <1>1, ActingNow DEF Uses
  <2>3. /\ g \in Frame /\ g.step = Top.step /\ g.use = "wait" /\ g.budget = 0 /\ g.rest = << >>
    BY <2>2, PlainPoll
  <2> HIDE DEF g
  <2>4. g.budget \in 0..Top.budget /\ UseRank[g.use] < UseRank[Top.use]
    BY <1>1, <2>2, <2>3 DEF UseRank
  <2>5. QED
    BY <1>1, <2>1, <2>3, <2>4, NextUseProgress
<1>4. QED
  BY <1>2, <1>3

\* A retry comes out of the step's own time.
LEMMA ActFailsProgress ==
    ASSUME IInv, ActFails
    PROVE  Progress
<1>1. /\ Acting /\ pc = "running" /\ UNCHANGED <<at, reverifying, human, attempts>>
      /\ stack \in Seq(Frame) /\ stack # << >> /\ Len(stack) \in Nat \ {0} /\ Top \in Frame
      /\ Top.step \in 1..Steps /\ Top.budget \in 0..Timeout /\ Top.skip \in BOOLEAN
  BY ActingNow, Now DEF ActFails, ledger
<1>2. CASE /\ Top.budget > 0
           /\ stack' = Append(Tick(Front(stack)),
                  [StartStep(Top.step, Top.skip) EXCEPT !.budget = Top.budget - 1])
           /\ UNCHANGED <<pc, stop>>
  <2> DEFINE b == Front(stack)
             t == Tick(b)
             p == StartStep(Top.step, Top.skip)
             g == [p EXCEPT !.budget = Top.budget - 1]
             q == Append(t, g)
             n == Len(stack)
  <2>1. /\ b \in Seq(Frame) /\ Len(b) = n - 1 /\ Top = stack[n]
        /\ \A i \in 1..n - 1 : b[i] = stack[i]
    BY <1>1, FrontIs DEF Top
  <2>2. /\ t \in Seq(Frame) /\ Len(t) = Len(b)
        /\ \A i \in 1..Len(b) : t[i].step = b[i].step
    BY <2>1, TickIs
  <2>3. \A i \in 1..Len(b) : t[i].rest = b[i].rest /\ (t[i] = b[i] \/ LaterPoll(b[i], t[i]))
    BY <2>1, TickLater
  <2> HIDE DEF b, t
  <2>4. p \in Frame /\ p.step = Top.step /\ p.rest = << >>
    <3> DEFINE use == IF Top.step \in TargetSteps THEN "resolve" ELSE "act"
               time == Timeout
    <3>1. use \in Uses /\ time \in 0..Timeout
      BY TimeAssumption DEF Uses
    <3>2. p = Poll(Top.step, use, time, Top.skip)
      BY DEF StartStep
    <3> HIDE DEF use, time, p
    <3>3. QED
      BY <1>1, <3>1, <3>2, PollIs, PollHas
  <2>5. Top.budget - 1 \in 0..Timeout /\ Top.budget - 1 < Top.budget
    BY <1>1, <1>2, TimeAssumption
  <2> HIDE DEF p
  <2>6. g \in Frame /\ g.step = p.step /\ g.rest = p.rest /\ g.budget = Top.budget - 1
    BY <2>4, <2>5 DEF Frame
  <2> HIDE DEF g
  <2>7. /\ q \in Seq(Frame) /\ Len(q) = Len(t) + 1 /\ q[Len(t) + 1] = g
        /\ \A i \in 1..Len(t) : q[i] = t[i]
    BY <2>2, <2>6, AppendIs
  <2>8. stack' = q
    BY <1>2 DEF g, p, t, b
  <2> HIDE DEF q
  <2>9. /\ Len(q) = n /\ q[n] = g
        /\ \A i \in 1..n - 1 : /\ q[i].step = stack[i].step /\ q[i].rest = stack[i].rest
                               /\ q[i] = stack[i] \/ LaterPoll(stack[i], q[i])
    <3>1. Len(t) = n - 1 /\ Len(b) = n - 1 /\ Len(t) + 1 = n
      BY <1>1, <2>1, <2>2
    <3>2. Len(q) = n /\ q[n] = g /\ \A i \in 1..n - 1 : q[i] = t[i] /\ b[i] = stack[i]
      BY <2>1, <2>7, <3>1
    <3>3. \A i \in 1..n - 1 : i \in 1..Len(b)
      BY <3>1
    <3>4. ASSUME NEW i \in 1..n - 1
          PROVE  /\ q[i].step = stack[i].step /\ q[i].rest = stack[i].rest
                 /\ q[i] = stack[i] \/ LaterPoll(stack[i], q[i])
      <4>1. q[i] = t[i] /\ b[i] = stack[i]
        BY <3>2
      <4>2. i \in 1..Len(b)
        BY <3>3
      <4>3. t[i].step = b[i].step
        BY <2>2, <4>2
      <4>4. t[i].rest = b[i].rest /\ (t[i] = b[i] \/ LaterPoll(b[i], t[i]))
        BY <2>3, <4>2
      <4>5. QED
        BY <4>1, <4>3, <4>4, Zenon
    <3>5. QED
      BY <3>2, <3>4
  <2>10. LaterPoll(Top, g)
    BY <2>5, <2>6 DEF LaterPoll
  <2>11. LaterStack(stack, q)
    <3>1. n \in 1..n /\ n <= Len(q)
      BY <1>1, <2>9
    <3>2. QED
      BY <2>1, <2>9, <2>10, <3>1 DEF LaterStack
  <2>12. Depth(stack) => Depth(q)
    <3>1. ASSUME NEW i \in 1..Len(q)
          PROVE  q[i].step = stack[i].step /\ q[i].rest \in {stack[i].rest, << >>}
      <4>1. CASE i = n
        BY <2>1, <2>4, <2>6, <2>9, <4>1
      <4>2. CASE i # n
        BY <1>1, <2>9, <4>2
      <4>3. QED
        BY <4>1, <4>2
    <3>2. Len(q) <= Len(stack)
      BY <1>1, <2>9
    <3>3. QED
      BY <1>1, <2>7, <3>1, <3>2, DepthKept
  <2>13. QED
    BY <1>1, <1>2, <2>8, <2>11, <2>12, StaysRunning DEF Advances, Progress, human
<1>3. CASE (RaiseOrAsk("STEP_FAILED") \/ PolicyStop) /\ UNCHANGED stack
  <2>1. pc' \in {"asking", "raising"}
    BY <1>3 DEF RaiseOrAsk, PolicyStop, Raise, RaiseAs, Ask
  <2>2. QED
    BY <1>1, <1>3, <2>1, StopProgress
<1>4. QED
  BY <1>2, <1>3 DEF ActFails

\* A human is asked so often at most, and every stop passes up the stack.
LEMMA StopsProgress ==
    ASSUME IInv, \/ NobodyIsAsked \/ HumanIsAsked \/ OutputSkipped \/ Unwind \/ UnwindHandback
                 \/ Reverify \/ HandbackFails \/ StopEndsRun
    PROVE  Progress
<1>1. /\ stack \in Seq(Frame) /\ at \in 1..SuccessCheck /\ pauses \in Nat
      /\ reverifying \in BOOLEAN
  BY Always, TimeAssumption
<1>2. stack # << >> => /\ Len(Front(stack)) < Len(stack)
                       /\ Depth(stack) => Depth(Front(stack))
  BY <1>1, FrontIs, DepthFront
<1>3. CASE NobodyIsAsked
  <2>1. /\ pc = "asking" /\ pc' = "raising" /\ UNCHANGED <<stack, reverifying>>
        /\ pauses' = pauses \/ pauses' = pauses + 1
    BY <1>3 DEF NobodyIsAsked
  <2>2. QED
    BY <1>1, <2>1 DEF Progress, UsesSomethingUp, StageRank, Advances
<1>4. CASE HumanIsAsked
  <2>1. pauses' > pauses /\ stack' = stack
    BY <1>1, <1>4 DEF HumanIsAsked
  <2>2. QED
    BY <2>1 DEF Progress, UsesSomethingUp
<1>5. CASE OutputSkipped
  <2>1. /\ pc = "raising" /\ pc' \in {"raising", "ended"} /\ UNCHANGED <<reverifying, pauses>>
        /\ stack' = << >> /\ Len(stack') < Len(stack)
    BY <1>5 DEF OutputSkipped, Finish, End, PolicyStop, Raise, RaiseAs, human
  <2>2. Depth(stack')
    BY <2>1 DEF Depth
  <2>3. QED
    BY <2>1, <2>2 DEF Progress, UsesSomethingUp, StageRank, Advances
<1>6. CASE Unwind
  <2>1. /\ pc = "raising" /\ pc' \in {"raising", "asking"} /\ UNCHANGED <<reverifying, pauses>>
        /\ stack # << >> /\ stack' = Front(stack)
    BY <1>6 DEF Unwind, RaiseOrAsk, Raise, RaiseAs, Ask, human
  <2>2. QED
    BY <1>2, <2>1 DEF Progress, UsesSomethingUp, StageRank, Advances
<1>7. CASE UnwindHandback
  <2>1. /\ pc = "unwinding" /\ UNCHANGED <<pc, reverifying, pauses>>
        /\ stack # << >> /\ stack' = Front(stack)
    BY <1>7 DEF UnwindHandback, human
  <2>2. QED
    BY <1>2, <2>1 DEF Progress, UsesSomethingUp, StageRank, Advances
<1>8. CASE Reverify
  <2> DEFINE step == IF at = SuccessCheck THEN Steps ELSE at
             use == IF step \in CheckpointSteps THEN "rewait" ELSE "pass"
             f == Poll(step, use, 0, FALSE)
  <2>1. /\ pc = "unwinding" /\ pc' \in {"running", "ended"} /\ pauses' = pauses
        /\ stack' = stack \/ stack' = << f >>
    BY <1>8 DEF Reverify, End, human
  <2>2. f.step \in 1..Steps /\ f.rest = << >>
    <3>1. step \in 1..Steps
      BY <1>1, StepsAssumption DEF SuccessCheck
    <3> HIDE DEF step, use
    <3>2. \A skip : /\ Poll(step, use, 0, skip).step = step
                   /\ Poll(step, use, 0, skip).rest = << >>
      BY PollHas
    <3>3. QED
      BY <3>1, <3>2
  <2> HIDE DEF f
  <2>3. Depth(stack) => Depth(stack')
    BY <2>1, <2>2, DepthOne
  <2>4. QED
    BY <2>1, <2>3 DEF Progress, UsesSomethingUp, StageRank
<1>9. CASE HandbackFails
  <2>1. /\ pc = "raising" /\ pc' = "asking" /\ reverifying /\ ~reverifying' /\ pauses' = pauses
        /\ stack' = stack
    BY <1>9 DEF HandbackFails, Ask, human
  <2>2. QED
    BY <2>1 DEF Progress, UsesSomethingUp, StageRank
<1>10. CASE StopEndsRun
  <2>1. pc = "raising" /\ pc' = "ended" /\ pauses' = pauses /\ stack' = stack
    BY <1>10 DEF StopEndsRun, End, human
  <2>2. QED
    BY <2>1 DEF Progress, UsesSomethingUp, StageRank
<1>11. QED
  BY <1>3, <1>4, <1>5, <1>6, <1>7, <1>8, <1>9, <1>10

LEMMA LosesControlProgress ==
    ASSUME IInv, LosesControl \/ LosesControlBehindAPoll
    PROVE  Progress
<1>1. /\ pc \in {"running", "raising"} /\ stack # << >> /\ pc' = "ended" /\ UNCHANGED human
      /\ stack' = stack \/ stack' = Front(stack)
  BY LosesControlIs
<1>2. UsesSomethingUp
  BY <1>1 DEF UsesSomethingUp, StageRank, human
<1>3. Depth(stack) => Depth(stack')
  BY <1>1, Always, DepthFront
<1>4. QED
  BY <1>2, <1>3 DEF Progress

LEMMA NextProgress ==
    ASSUME IInv, Next
    PROVE  Progress
BY LookProgress, WaitsProgress, TargetFoundProgress, WaitPassesProgress, CheckSucceedsProgress,
   OutputsProgress, HandbackVerifiedProgress, ActRefusedProgress, ActWorksProgress,
   ActFailsProgress, StopsProgress, LosesControlProgress DEF Next

\* However recoveries nest, a wait inside a wait is an earlier step's: no more
\* waits than the flow has steps (_run_steps, engine.py; the artifact's validator
\* orders what a recovery re-runs).
THEOREM NestingBounded == Spec => []NestingIsBounded
<1>1. Init => Depth(stack)
  <2> SUFFICES ASSUME Init PROVE Depth(stack)
    OBVIOUS
  <2>1. 1 \in 1..Steps
    BY StepsAssumption
  <2>2. QED
    BY <2>1, StartHas, DepthOne DEF Init
<1>2. IInv /\ Depth(stack) /\ [Next]_vars => Depth(stack)'
  <2>1. IInv /\ Depth(stack) /\ Next => Depth(stack)'
    BY NextProgress DEF Progress, Depth
  <2>2. Depth(stack) /\ UNCHANGED vars => Depth(stack)'
    BY DEF vars, Depth
  <2>3. QED
    BY <2>1, <2>2
<1>3. IInv /\ Depth(stack) => NestingIsBounded
  <2> SUFFICES ASSUME IInv, Depth(stack), stack # << >> PROVE Len(stack) <= Steps
    BY StepsAssumption DEF NestingIsBounded
  <2> DEFINE n == Len(stack)
             f == stack[n]
  <2>1. n \in Nat \ {0} /\ f \in Frame
    BY Always, FrontIs
  <2> HIDE DEF n, f
  <2>2. n \in 1..n
    BY <2>1
  <2>3. Deep(f, n)
    BY <2>2 DEF Depth, n, f
  <2>4. f.step \in 1..Steps /\ f.step <= SuccessCheck - n
    BY <2>1, <2>3, FrameIs DEF Deep
  <2>5. n <= Steps
    BY <2>1, <2>4, StepsAssumption DEF SuccessCheck
  <2>6. QED
    BY <2>5 DEF n
<1>4. QED
  BY <1>1, <1>2, <1>3, Invariance, PTL DEF Spec

\* Every step of a run uses up something: why a replay ends whatever the page shows
\* (_poll, _act, _handle, _escalate, engine.py).
THEOREM UsesUp == Spec => EveryStepUsesSomethingUp
<1>1. IInv /\ [Next]_vars => [UsesSomethingUp]_vars
  BY NextProgress DEF Progress
<1>2. QED
  BY <1>1, Invariance, PTL DEF Spec, EveryStepUsesSomethingUp
=============================================================================
