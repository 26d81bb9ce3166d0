---------------------------- MODULE SurfaceProofs ----------------------------
(***************************************************************************)
(* Theorems about Surface, for any policy, acts and pages, any number of   *)
(* acts, pauses and things a person does.  The invariant IInv follows each *)
(* effect from the page to what became of it: it is pending, then perhaps  *)
(* fetched, then logged, and told of at most once.                         *)
(***************************************************************************)
EXTENDS Surface, SequenceTheorems, TLAPS

Stages == {"idle", "dispatch", "dialog", "grace", "stopped"}
MainShape == main \in [stage : Stages, act : Acts \cup {NoAct}, failure : BOOLEAN]

\* The effects that were caused so far, and by what.
Known == pending \cup fetching \cup {d.item : d \in log}
Causes == {<<"act", n>> : n \in 1..lastAct} \cup {<<"human", n>> : n \in 1..deeds}
Provenance ==
    \A x \in Known :
        /\ x = [cause |-> x.cause, effect |-> x.effect]
        /\ x.cause \in Causes
        /\ x.effect \in Effects \/ x.effect.type = "hop"
OnlyNavigationsAreFetched == \A x \in fetching : x.effect.type = "navigation"

\* An effect is settled once; a navigation that is fetched was judged before.
SettledOnce ==
    /\ \A x \in pending : \A d \in log : d.item # x
    /\ \A x \in fetching : \A d \in log : d.item = x => d.held
    /\ \A x \in pending \cup fetching :
        /\ \A e \in events : e.item # x
        /\ \A t \in told : t.item # x

\* A hop comes after the navigation whose chain it belongs to.
HopsComeAfter ==
    \A x \in Known : x.effect.type = "hop" =>
        /\ x.effect.of[1].type = "navigation"
        /\ [cause |-> x.cause, effect |-> x.effect.of[1]] \notin pending \cup fetching

\* Events are those of effects that arrived while automation held the session,
\* and each is in the list, or was told, once.
EventsAreOfTheLog ==
    /\ \A e \in events : (\E d \in log : d.item = e.item) /\ \A d \in log : d.item = e.item => d.held
    /\ \A t \in told : (\E d \in log : d.item = t.item) /\ \A d \in log : d.item = t.item => d.held
EventsAreApart ==
    /\ \A t \in told : \A e \in events : t.item # e.item
    /\ \A t1, t2 \in told : t1.item = t2.item => t1 = t2
    /\ \A e1, e2 \in events : e1.item = e2.item => e1 = e2

Reported(x) == (\E e \in events : e.item = x) \/ (\E t \in told : t.item = x)
Answered == {"accept", "dismiss"}
AnsweredOrRefusedIsReported ==
    \A d \in log : d.held /\ d.outcome \in Refusals \cup Answered => Reported(d.item)
OutcomesWithoutControl ==
    \A d \in log : ~d.held => d.outcome \in {"passed", "left", "followed", "loaded", "cancelled"}
ToldByTheActThatRan == \A t \in told : t.by # 0 => \E d \in log : d.item = t.item /\ d.act = t.by
PassedWithoutRefusal == \A d \in log : d.held /\ d.act \in passed => d.outcome \notin Refusals

\* While an act runs its number is not used up, and what it is refused is still
\* in the list its result is made from.
Blocking == BLOCKING_EVENTS \cup {"unexpected_dialog"}
RunningAct ==
    Acting =>
        /\ lastAct \in 1..MaxActs /\ lastAct \notin passed
        /\ \A e \in events : e.act = lastAct => \E d \in log : d.item = e.item /\ d.act = lastAct
        /\ \A d \in log : d.held /\ d.act = lastAct /\ d.outcome \in Refusals =>
              \E e \in events : e.act = lastAct /\ e.kind \in Blocking
ActsOfTheLog == \A d \in log : d.act \in 0..lastAct

\* One dialog is answered for an act: the one it still expects, or one it did.
OneAnswerForAnAct ==
    /\ \A d \in log : d.outcome \in Answered => d.act # 0
    /\ expected # NoDialog =>
        Acting /\ \A d \in log : d.outcome \in Answered => d.act # lastAct
    /\ \A d1, d2 \in log :
        {d1.outcome, d2.outcome} \subseteq Answered /\ d1.act = d2.act => d1 = d2

\* What was let through was judged, as NothingPassesUnjudged has it.
JudgedRight(d) ==
    LET e == d.item.effect IN d.held =>
        /\ e.type = "subresource" /\ d.outcome = "passed" => ~UrlBlocked(e.url, FALSE)
        /\ d.outcome = "fetched" =>
            ~UrlBlocked(e.url, TRUE) /\ Allowed(RequestOf(d.action, "navigation", e.frame, e.url), d)
        /\ e.type = "navigation" /\ d.outcome = "passed" /\ e.hops # <<>> =>
            /\ ~UrlBlocked(e.hops[1], TRUE)
            /\ Allowed(RequestOf(d.action, "navigation", e.frame, e.hops[1]), d)
        /\ d.outcome = "accept" =>
            /\ d.by.dialog = [type |-> e.dialog, message |-> e.message, response |-> "accept"]
            /\ Allowed(DialogOf(d.by, e.message), d)
Judgements == \A d \in log : JudgedRight(d)

Items  == Provenance /\ OnlyNavigationsAreFetched /\ SettledOnce /\ HopsComeAfter
Report == /\ EventsAreOfTheLog /\ EventsAreApart /\ AnsweredOrRefusedIsReported
          /\ OutcomesWithoutControl /\ ToldByTheActThatRan /\ PassedWithoutRefusal
          /\ RunningAct /\ ActsOfTheLog /\ OneAnswerForAnAct /\ Judgements
IInv == TypeOK /\ MainShape /\ Items /\ Report

-----------------------------------------------------------------------------
LEMMA EffectFacts ==
    ASSUME NEW e \in Effects
    PROVE  /\ e.type # "hop"
           /\ e.type = "navigation" => /\ e.url # NoUrl
                                       /\ e.hops # <<>> => 1 \in DOMAIN e.hops /\ e.hops[1] # NoUrl
<1>1. /\ e.type \in {"subresource", "navigation", "scheme", "popup", "download", "dialog"}
      /\ e.type = "navigation" =>
            e.url # NoUrl /\ e.hops \in Seq({e.hops[i] : i \in DOMAIN e.hops} \ {NoUrl})
  BY Assumptions
<1>2. ASSUME e.type = "navigation", e.hops # <<>> PROVE 1 \in DOMAIN e.hops /\ e.hops[1] # NoUrl
  <2> DEFINE S == {e.hops[i] : i \in DOMAIN e.hops} \ {NoUrl}
  <2>1. e.hops \in Seq(S) /\ e.hops # <<>> /\ NoUrl \notin S
    BY <1>1, <1>2
  <2> HIDE DEF S
  <2>2. Len(e.hops) \in Nat /\ Len(e.hops) # 0 /\ DOMAIN e.hops = 1..Len(e.hops)
    BY <2>1, EmptySeq, LenProperties
  <2>3. 1 \in DOMAIN e.hops
    BY <2>2
  <2>4. e.hops[1] \in S
    BY <2>1, <2>2, <2>3, ElementOfSeq
  <2>5. QED
    BY <2>1, <2>3, <2>4
<1>3. QED
  BY <1>1, <1>2

LEMMA ActFacts ==
    ASSUME NEW a \in Acts
    PROVE  /\ a.kind \in Kinds /\ a # NoAct /\ a.confirmed \in BOOLEAN
           /\ a.dialog # NoDialog =>
                 /\ a.dialog.response \in Answered
                 /\ a.dialog = [type |-> a.dialog.type, message |-> a.dialog.message,
                                response |-> a.dialog.response]
<1>1. /\ a.kind \in Kinds /\ a.confirmed \in BOOLEAN
      /\ a.dialog # NoDialog => \E response \in {"accept", "dismiss"} : a.dialog =
            [type |-> a.dialog.type, message |-> a.dialog.message, response |-> response]
  BY Assumptions
<1>2. a # NoAct
  BY <1>1 DEF NoAct, Kinds
<1>3. ASSUME a.dialog # NoDialog
      PROVE  /\ a.dialog.response \in Answered
             /\ a.dialog = [type |-> a.dialog.type, message |-> a.dialog.message,
                            response |-> a.dialog.response]
  <2>1. PICK response \in {"accept", "dismiss"} : a.dialog =
            [type |-> a.dialog.type, message |-> a.dialog.message, response |-> response]
    BY <1>1, <1>3
  <2>2. a.dialog.response = response
    BY <2>1
  <2>3. QED
    BY <2>1, <2>2 DEF Answered
<1>4. QED
  BY <1>1, <1>2, <1>3

LEMMA InitInv == Init => IInv
<1> SUFFICES ASSUME Init PROVE IInv
  OBVIOUS
<1> USE DEF Init
<1>1. {MaxActs, MaxPauses, MaxDeeds} \subseteq Nat
  BY Assumptions
<1>2. main.stage = "idle" /\ main.act = NoAct /\ main.failure = FALSE /\ ~Acting
  BY DEF Idle, Acting
<1>3. TypeOK
  <2>1. confirmedNow = main.act.confirmed /\ expected \in {NoDialog, main.act.dialog}
    <3>1. NoAct.confirmed = FALSE
      BY DEF NoAct
    <3>2. main.act.confirmed = FALSE /\ confirmedNow = FALSE
      BY <1>2, <3>1
    <3>3. QED
      BY <3>2
  <2>2. main.stage \in {"idle", "dispatch", "dialog", "grace", "stopped"} /\ lastAction \in Kinds
        /\ control \in {"automation", "nobody", "human", "over"} /\ dialogSeen \in BOOLEAN
    BY <1>2 DEF Kinds
  <2>3. lastAct \in 0..MaxActs /\ deeds \in 0..MaxDeeds /\ pauses \in 0..MaxPauses
    BY <1>1
  <2>4. Acting <=> main.act # NoAct
    BY <1>2
  <2>5. QED
    BY <2>1, <2>2, <2>3, <2>4 DEF TypeOK
<1>4. MainShape
  BY DEF MainShape, Idle, Stages
<1>5. Items
  BY DEF Items, Provenance, Known, OnlyNavigationsAreFetched, SettledOnce, HopsComeAfter
<1>6. Report
  BY <1>2 DEF Report, EventsAreOfTheLog, EventsAreApart, AnsweredOrRefusedIsReported,
     OutcomesWithoutControl, ToldByTheActThatRan, PassedWithoutRefusal, RunningAct, ActsOfTheLog,
     OneAnswerForAnAct, Judgements
<1>7. QED
  BY <1>3, <1>4, <1>5, <1>6 DEF IInv

-----------------------------------------------------------------------------
(* What becomes of an item.                                                 *)

\* The hops of a chain are new: none was there before its navigation is over.
LEMMA HopFacts ==
    ASSUME IInv, NEW item \in pending \cup fetching, NEW x \in Hops(item)
    PROVE  /\ x = [cause |-> x.cause, effect |-> x.effect]
           /\ x.cause = item.cause /\ x.effect.type = "hop"
           /\ x.effect.of[1].type = "navigation"
           /\ [cause |-> x.cause, effect |-> x.effect.of[1]] = item
           /\ x \notin Known
<1>1. item.effect.type = "navigation"
  BY DEF Hops
<1>2. PICK i \in DOMAIN item.effect.hops :
        x = [cause |-> item.cause,
             effect |-> [type |-> "hop", url |-> item.effect.hops[i], frame |-> item.effect.frame,
                         of |-> <<item.effect, i>>]]
  BY <1>1 DEF Hops
<1>3. item = [cause |-> item.cause, effect |-> item.effect]
  BY DEF IInv, Items, Provenance, Known
<1>4. x.cause = item.cause /\ x.effect.type = "hop" /\ x.effect.of = <<item.effect, i>>
  BY <1>2
<1>5. x.effect.of[1] = item.effect
  BY <1>4
<1>6. x = [cause |-> x.cause, effect |-> x.effect]
  BY <1>2
<1>7. x \notin Known
  BY <1>3, <1>4, <1>5 DEF IInv, Items, HopsComeAfter
<1>8. QED
  BY <1>1, <1>3, <1>4, <1>5, <1>6, <1>7

\* An item that is settled leaves; the hops of its chain may take its place.
LEMMA Leaving ==
    ASSUME IInv, NEW item \in pending \cup fetching, NEW d0, log' = log \cup {d0}, d0.item = item,
           NEW new, new = {} \/ new = Hops(item),
           pending' = (pending \ {item}) \cup new, fetching' = fetching \ {item},
           \A e \in events' : e \in events \/ e.item = item,
           UNCHANGED <<told, lastAct, deeds>>
    PROVE  Items' /\ pending' \cap fetching' = {}
<1>1. Items /\ EventsAreOfTheLog /\ pending \cap fetching = {}
  BY DEF IInv, Report, TypeOK
<1>2. \A x \in new : /\ x = [cause |-> x.cause, effect |-> x.effect]
                     /\ x.cause = item.cause /\ x.effect.type = "hop"
                     /\ x.effect.of[1].type = "navigation"
                     /\ [cause |-> x.cause, effect |-> x.effect.of[1]] = item
                     /\ x \notin Known
  BY HopFacts
<1>3. item \in Known
  BY DEF Known
<1>4. Known' \subseteq Known \cup new /\ Causes' = Causes
  BY <1>3 DEF Known, Causes
<1>5. \A d \in log : d.item \in Known
  BY DEF Known
<1>6. Provenance'
  BY <1>1, <1>2, <1>3, <1>4 DEF Items, Provenance
<1>7. OnlyNavigationsAreFetched'
  BY <1>1 DEF Items, OnlyNavigationsAreFetched
<1>8. SettledOnce'
  <2>1. \A x \in pending' : \A d \in log' : d.item # x
    BY <1>1, <1>2, <1>3, <1>5 DEF Items, SettledOnce
  <2>2. \A x \in fetching' : \A d \in log' : d.item = x => d.held
    BY <1>1 DEF Items, SettledOnce
  <2>3. /\ \A e \in events : e.item \in Known
        /\ \A t \in told : t.item \in Known
    BY <1>1, <1>5 DEF EventsAreOfTheLog
  <2>4. \A x \in pending' \cup fetching' : /\ \A e \in events' : e.item # x
                                           /\ \A t \in told' : t.item # x
    BY <1>1, <1>2, <1>3, <2>3 DEF Items, SettledOnce
  <2>5. QED
    BY <2>1, <2>2, <2>4 DEF SettledOnce
<1>9. HopsComeAfter'
  <2>1. ASSUME NEW x \in Known, x.effect.type = "hop"
        PROVE  /\ x.effect.of[1].type = "navigation"
               /\ [cause |-> x.cause, effect |-> x.effect.of[1]] \notin pending' \cup fetching'
    <3> DEFINE parent == [cause |-> x.cause, effect |-> x.effect.of[1]]
    <3>1. x.effect.of[1].type = "navigation" /\ parent \notin pending \cup fetching
      BY <1>1, <2>1 DEF Items, HopsComeAfter
    <3>2. parent.effect = x.effect.of[1]
      OBVIOUS
    <3>3. parent \notin new
      BY <1>2, <3>1, <3>2
    <3>4. QED
      BY <3>1, <3>3
  <2>2. ASSUME NEW x \in new
        PROVE  /\ x.effect.of[1].type = "navigation"
               /\ [cause |-> x.cause, effect |-> x.effect.of[1]] \notin pending' \cup fetching'
    BY <1>2, <1>3
  <2>3. QED
    BY <1>4, <2>1, <2>2 DEF HopsComeAfter
<1>10. pending' \cap fetching' = {}
  BY <1>1, <1>2 DEF Known
<1>11. QED
  BY <1>6, <1>7, <1>8, <1>9, <1>10 DEF Items

\* A navigation that may go is fetched.
LEMMA Fetching ==
    ASSUME IInv, NEW item \in pending, NEW d0, log' = log \cup {d0}, d0.item = item, d0.held,
           item.effect.type = "navigation",
           pending' = pending \ {item}, fetching' = fetching \cup {item},
           UNCHANGED <<events, told, lastAct, deeds>>
    PROVE  Items' /\ pending' \cap fetching' = {}
<1>1. Items /\ pending \cap fetching = {}
  BY DEF IInv, TypeOK
<1>2. Known' = Known /\ Causes' = Causes
  BY DEF Known, Causes
<1>3. Provenance' /\ OnlyNavigationsAreFetched' /\ SettledOnce' /\ HopsComeAfter'
  BY <1>1, <1>2 DEF Items, Provenance, OnlyNavigationsAreFetched, SettledOnce, HopsComeAfter
<1>4. QED
  BY <1>1, <1>3 DEF Items

\* What is written down about an effect when it is settled, and told.
Entry(item, held, outcome) ==
    [item |-> item, held |-> held, outcome |-> outcome, act |-> IF Acting THEN lastAct ELSE 0,
     by |-> main.act, action |-> lastAction]

\* A callback keeps the report right if it puts an event in the list for what it
\* refuses or answers, and for nothing while somebody else holds the session.
LEMMA Reporting ==
    ASSUME IInv, NEW item \in pending \cup fetching, NEW held \in BOOLEAN, NEW outcome, NEW kind,
           Settles(item, held, outcome, kind), item \in fetching => held,
           kind \in EventKinds => held,
           held /\ outcome \in Refusals \cup Answered => kind \in EventKinds,
           held /\ outcome \in Refusals => kind \in Blocking,
           ~held => outcome \in {"passed", "left", "followed", "loaded", "cancelled"},
           outcome \in Answered => expected # NoDialog /\ expected' = NoDialog,
           expected' \in {expected, NoDialog},
           JudgedRight(Entry(item, held, outcome)),
           UNCHANGED <<main, lastAct, told, passed>>
    PROVE  Report'
<1>1. PICK d0 : d0 = Entry(item, held, outcome)
  OBVIOUS
<1>2. PICK e0 : e0 = [item |-> item, kind |-> kind, act |-> lastAct]
  OBVIOUS
<1>3. /\ d0.item = item /\ d0.held = held /\ d0.outcome = outcome
      /\ d0.act = IF Acting THEN lastAct ELSE 0
      /\ log' = log \cup {d0}
  BY <1>1 DEF Entry, Settles
<1>4. /\ e0.item = item /\ e0.kind = kind /\ e0.act = lastAct
      /\ events' = events \cup (IF kind \in EventKinds THEN {e0} ELSE {})
  BY <1>2 DEF Settles
<1>5. Report /\ TypeOK /\ Items
  BY DEF IInv
<1>6. /\ \A e \in events : e.item # item
      /\ \A t \in told : t.item # item
      /\ \A d \in log : d.item = item => d.held /\ held
  BY <1>5 DEF Items, SettledOnce
<1>7. Acting' = Acting
  BY DEF Acting
<1>8. lastAct \in Nat /\ passed \subseteq 1..lastAct
  BY <1>5, Assumptions DEF TypeOK
<1>9. EventsAreOfTheLog'
  BY <1>3, <1>4, <1>5, <1>6 DEF Report, EventsAreOfTheLog
<1>10. EventsAreApart'
  BY <1>4, <1>5, <1>6 DEF Report, EventsAreApart
<1>11. AnsweredOrRefusedIsReported'
  <2>1. \A x : Reported(x) => Reported(x)'
    BY <1>4 DEF Reported
  <2>2. kind \in EventKinds => Reported(item)'
    BY <1>4 DEF Reported
  <2>3. QED
    BY <1>3, <1>5, <2>1, <2>2 DEF Report, AnsweredOrRefusedIsReported
<1>12. OutcomesWithoutControl'
  BY <1>3, <1>5 DEF Report, OutcomesWithoutControl
<1>13. ToldByTheActThatRan'
  BY <1>3, <1>5 DEF Report, ToldByTheActThatRan
<1>14. PassedWithoutRefusal'
  <2>1. d0.act \notin passed
    BY <1>3, <1>5, <1>8 DEF Report, RunningAct
  <2>2. QED
    BY <1>3, <1>5, <2>1 DEF Report, PassedWithoutRefusal
<1>15. RunningAct'
  <2>1. SUFFICES ASSUME Acting
        PROVE  /\ lastAct' \in 1..MaxActs /\ lastAct' \notin passed'
               /\ \A e \in events' : e.act = lastAct' =>
                     \E d \in log' : d.item = e.item /\ d.act = lastAct'
               /\ \A d \in log' : d.held /\ d.act = lastAct' /\ d.outcome \in Refusals =>
                     \E e \in events' : e.act = lastAct' /\ e.kind \in Blocking
    BY <1>7 DEF RunningAct
  <2>2. /\ lastAct \in 1..MaxActs /\ lastAct \notin passed
        /\ \A e \in events : e.act = lastAct => \E d \in log : d.item = e.item /\ d.act = lastAct
        /\ \A d \in log : d.held /\ d.act = lastAct /\ d.outcome \in Refusals =>
              \E e \in events : e.act = lastAct /\ e.kind \in Blocking
    BY <1>5, <2>1 DEF Report, RunningAct
  <2>3. \A e \in events' : e.act = lastAct => \E d \in log' : d.item = e.item /\ d.act = lastAct
    BY <1>3, <1>4, <2>1, <2>2
  <2>4. \A d \in log' : d.held /\ d.act = lastAct /\ d.outcome \in Refusals =>
            \E e \in events' : e.act = lastAct /\ e.kind \in Blocking
    BY <1>3, <1>4, <2>2
  <2>5. QED
    BY <2>2, <2>3, <2>4
<1>16. ActsOfTheLog'
  BY <1>3, <1>5, <1>8 DEF Report, ActsOfTheLog
<1>17. OneAnswerForAnAct'
  <2>1. OneAnswerForAnAct
    BY <1>5 DEF Report
  <2>2. CASE outcome \in Answered
    <3>1. /\ Acting /\ d0.act = lastAct /\ lastAct # 0
          /\ \A d \in log : d.outcome \in Answered => d.act # lastAct
      BY <1>3, <1>5, <1>7, <2>1, <2>2 DEF OneAnswerForAnAct, Report, RunningAct
    <3>2. QED
      BY <1>3, <2>1, <2>2, <3>1 DEF OneAnswerForAnAct
  <2>3. CASE outcome \notin Answered
    BY <1>3, <1>7, <2>1, <2>3 DEF OneAnswerForAnAct
  <2>4. QED
    BY <2>2, <2>3
<1>18. Judgements'
  BY <1>1, <1>3, <1>5 DEF Report, Judgements
<1>19. QED
  BY <1>9, <1>10, <1>11, <1>12, <1>13, <1>14, <1>15, <1>16, <1>17, <1>18 DEF Report

\* The guard that judges a request, and what it lets through.
LEMMA GuardFacts ==
    ASSUME IInv, NEW held \in BOOLEAN, NEW outcome, NEW item, NEW p, ~Refused(Check(p), confirmedNow)
    PROVE  Allowed(p, Entry(item, held, outcome)) /\ Check(p) # "block"
<1>1. Policy.handling \in {"block", "confirm", "escalate"} /\ ConfirmFlag \in BOOLEAN
  BY Assumptions
<1>2. confirmedNow = Entry(item, held, outcome).by.confirmed
  BY DEF IInv, TypeOK, Entry
<1>3. Check(p) \in {"allow", "block", "confirm", "escalate"}
  BY <1>1 DEF Check
<1>4. Check(p) # "block" /\ Check(p) # "escalate"
  BY DEF Refused
<1>5. Check(p) = "confirm" => ConfirmFlag \/ confirmedNow
  BY DEF Refused
<1>6. QED
  BY <1>2, <1>3, <1>4, <1>5 DEF Allowed

LEMMA NavigationFacts ==
    ASSUME NEW kind, NEW frame, NEW url, url # NoUrl,
           Check(RequestOf(kind, "navigation", frame, url)) # "block"
    PROVE  ~UrlBlocked(url, TRUE)
<1> DEFINE p == RequestOf(kind, "navigation", frame, url)
<1>1. p.phase = "navigation" /\ p.url = url
  BY DEF RequestOf, Judged
<1> HIDE DEF p
<1>2. Check(p) # "block"
  BY DEF p
<1>3. QED
  BY <1>1, <1>2 DEF Check

LEMMA SubresourceFacts ==
    ASSUME NEW kind, NEW frame, NEW url, Check(RequestOf(kind, "subresource", frame, url)) # "block"
    PROVE  ~UrlBlocked(url, FALSE)
<1> DEFINE p == RequestOf(kind, "subresource", frame, url)
<1>1. p.phase = "subresource" /\ p.url = url
  BY DEF RequestOf, Judged
<1> HIDE DEF p
<1>2. Check(p) # "block"
  BY DEF p
<1>3. QED
  BY <1>1, <1>2 DEF Check

\* The outcomes that let nothing through are judged right whatever was decided.
LEMMA NothingLetThrough ==
    ASSUME NEW item, NEW held \in BOOLEAN, NEW outcome,
           ~held \/ /\ outcome # "fetched" /\ outcome # "accept"
                    /\ outcome = "passed" => /\ item.effect.type \notin {"subresource", "navigation"}
    PROVE  JudgedRight(Entry(item, held, outcome))
<1>1. /\ Entry(item, held, outcome).held = held
      /\ Entry(item, held, outcome).outcome = outcome
      /\ Entry(item, held, outcome).item = item
  BY DEF Entry
<1>2. QED
  BY <1>1 DEF JudgedRight

\* What a callback leaves alone.
LEMMA CallbackTypes ==
    ASSUME IInv, NEW item, NEW held \in BOOLEAN, NEW outcome, NEW kind,
           Settles(item, held, outcome, kind), pending' \cap fetching' = {},
           expected' \in {expected, NoDialog}, dialogSeen' \in BOOLEAN,
           UNCHANGED <<control, main, lastAct, lastAction, confirmedNow, counts, told, passed>>
    PROVE  TypeOK' /\ MainShape'
<1>1. TypeOK /\ MainShape /\ Acting' = Acting
  BY DEF IInv, Acting
<1>2. lastAct \in 0..lastAct
  BY <1>1, Assumptions DEF TypeOK
<1>3. \A e \in events' : e \in events \/ (e.kind \in EventKinds /\ e.act = lastAct)
  BY DEF Settles
<1>4. MainShape'
  BY <1>1 DEF MainShape
<1>5. TypeOK'
  <2>1. \A e \in events' : e.kind \in EventKinds /\ e.act \in 0..lastAct'
    BY <1>1, <1>2, <1>3 DEF TypeOK
  <2>2. expected' \in {NoDialog, main'.act.dialog}
    BY <1>1 DEF TypeOK
  <2>3. QED
    BY <1>1, <2>1, <2>2 DEF TypeOK, counts
<1>6. QED
  BY <1>4, <1>5

\* A callback that settles an item.
LEMMA CallbackInv ==
    ASSUME IInv, NEW item \in pending \cup fetching, NEW held \in BOOLEAN, NEW outcome, NEW kind,
           Settles(item, held, outcome, kind), item \in fetching => held,
           kind \in EventKinds => held,
           held /\ outcome \in Refusals \cup Answered => kind \in EventKinds,
           held /\ outcome \in Refusals => kind \in Blocking,
           ~held => outcome \in {"passed", "left", "followed", "loaded", "cancelled"},
           outcome \in Answered => expected # NoDialog /\ expected' = NoDialog,
           expected' \in {expected, NoDialog}, dialogSeen' \in BOOLEAN,
           JudgedRight(Entry(item, held, outcome)),
           NEW new, new = {} \/ new = Hops(item),
           pending' = (pending \ {item}) \cup new, fetching' = fetching \ {item},
           UNCHANGED <<control, main, lastAct, lastAction, confirmedNow, counts, told, passed>>
    PROVE  IInv'
<1>1. Report'
  BY Reporting
<1>2. Items' /\ pending' \cap fetching' = {}
  <2>1. PICK d0 : d0 = Entry(item, held, outcome)
    OBVIOUS
  <2>2. log' = log \cup {d0} /\ d0.item = item
    BY <2>1 DEF Entry, Settles
  <2>3. \A e \in events' : e \in events \/ e.item = item
    BY DEF Settles
  <2>4. deeds' = deeds
    BY DEF counts
  <2>5. QED
    BY <2>2, <2>3, <2>4, Leaving
<1>3. TypeOK' /\ MainShape'
  BY <1>2, CallbackTypes
<1>4. QED
  BY <1>1, <1>2, <1>3 DEF IInv

\* The words for outcomes and events.
LEMMA Words ==
    /\ Quiet \notin EventKinds
    /\ Blocking \subseteq EventKinds
    /\ {"redirect_off_policy", "navigation_off_policy", "download_blocked"} \subseteq EventKinds
    /\ {"navigation_blocked", "redirect_blocked", "request_blocked", "popup_closed",
        "dialog_refused", "unexpected_dialog"} \subseteq Blocking
    /\ "dialog_answered" \in EventKinds
    /\ {"passed", "left", "followed", "loaded", "cancelled", "fetched"} \cap (Refusals \cup Answered) = {}
    /\ Refusals = {"aborted", "no_content", "closed", "dismissed"}
    /\ Refusals \cap Answered = {} /\ Answered = {"accept", "dismiss"}
BY DEF Quiet, EventKinds, BLOCKING_EVENTS, Blocking, Refusals, Answered

Rest == UNCHANGED <<control, main, lastAct, lastAction, confirmedNow, counts, told, passed>>

LEMMA PendingFacts ==
    ASSUME IInv, NEW item \in pending
    PROVE  /\ fetching = fetching \ {item} /\ item \notin fetching
           /\ item.effect.type # "hop" => item.effect \in Effects
           /\ expected \in {expected, NoDialog} /\ dialogSeen \in BOOLEAN
           /\ Held \in BOOLEAN
           /\ \A S : S \ {item} = (S \ {item}) \cup {}
BY DEF IInv, TypeOK, Items, Provenance, Known, Held

\* An effect that only is noticed: what it leads to happens anyway.
LEMMA NoticedInv ==
    ASSUME IInv, NEW item \in pending, NEW held \in BOOLEAN,
           NEW outcome \in {"left", "followed", "loaded", "cancelled"},
           NEW kind, kind = Quiet \/ (held /\ kind \in EventKinds),
           Settles(item, held, outcome, kind), Gone(item), fetching' = fetching,
           UNCHANGED surface, Rest
    PROVE  IInv'
<1>1. JudgedRight(Entry(item, held, outcome))
  BY NothingLetThrough
<1>2. /\ outcome \notin Refusals \cup Answered
      /\ kind \in EventKinds => held
      /\ outcome \in {"passed", "left", "followed", "loaded", "cancelled"}
  BY Words
<1>3. UNCHANGED <<control, main, lastAct, lastAction, confirmedNow, counts, told, passed>>
      /\ expected' = expected /\ dialogSeen' = dialogSeen
  BY DEF Rest, surface
<1>4. pending' = (pending \ {item}) \cup {} /\ fetching' = fetching \ {item} /\ item \notin fetching
  BY PendingFacts DEF Gone
<1>5. expected' \in {expected, NoDialog} /\ dialogSeen' \in BOOLEAN
  BY <1>3, PendingFacts
<1>6. QED
  BY <1>1, <1>2, <1>3, <1>4, <1>5, CallbackInv

LEMMA NoticesInv ==
    ASSUME NEW item \in pending
    PROVE  IInv /\ (LaterHop(item) \/ OddScheme(item) \/ Download(item) \/ DialogLeft(item)) => IInv'
<1> SUFFICES ASSUME IInv, LaterHop(item) \/ OddScheme(item) \/ Download(item) \/ DialogLeft(item)
             PROVE  IInv'
  OBVIOUS
<1>1. Held \in BOOLEAN
  BY DEF Held
<1>2. CASE LaterHop(item)
  <2> DEFINE kind == IF Held /\ Guard(item.effect, "navigation", item.effect.url)
                     THEN "redirect_off_policy" ELSE Quiet
  <2>1. kind = Quiet \/ (Held /\ kind \in EventKinds)
    BY Words
  <2>2. Settles(item, Held, "followed", kind)
    BY <1>2 DEF LaterHop
  <2> HIDE DEF kind
  <2>3. Gone(item) /\ fetching' = fetching /\ UNCHANGED surface /\ Rest
    BY <1>2 DEF LaterHop, surface, Rest
  <2>4. QED
    BY <1>1, <2>1, <2>2, <2>3, NoticedInv
<1>3. CASE OddScheme(item)
  <2> DEFINE kind == IF Held THEN "navigation_off_policy" ELSE Quiet
  <2>1. kind = Quiet \/ (Held /\ kind \in EventKinds)
    BY Words
  <2>2. Settles(item, Held, "loaded", kind)
    BY <1>3 DEF OddScheme
  <2> HIDE DEF kind
  <2>3. Gone(item) /\ fetching' = fetching /\ UNCHANGED surface /\ Rest
    BY <1>3 DEF OddScheme, surface, Rest
  <2>4. QED
    BY <1>1, <2>1, <2>2, <2>3, NoticedInv
<1>4. CASE Download(item)
  <2> DEFINE kind == IF Held THEN "download_blocked" ELSE Quiet
  <2>1. kind = Quiet \/ (Held /\ kind \in EventKinds)
    BY Words
  <2>2. Settles(item, Held, "cancelled", kind)
    BY <1>4 DEF Download
  <2> HIDE DEF kind
  <2>3. Gone(item) /\ fetching' = fetching /\ UNCHANGED surface /\ Rest
    BY <1>4 DEF Download, surface, Rest
  <2>4. QED
    BY <1>1, <2>1, <2>2, <2>3, NoticedInv
<1>5. CASE DialogLeft(item)
  <2>1. Settles(item, FALSE, "left", Quiet) /\ Gone(item) /\ fetching' = fetching
        /\ UNCHANGED surface /\ Rest
    BY <1>5 DEF DialogLeft, surface, Rest
  <2>2. QED
    BY <2>1, NoticedInv
<1>6. QED
  BY <1>2, <1>3, <1>4, <1>5

LEMMA PopupInv == ASSUME NEW item \in pending PROVE IInv /\ Popup(item) => IInv'
<1> SUFFICES ASSUME IInv, Popup(item) PROVE IInv'
  OBVIOUS
<1>1. /\ Gone(item) /\ fetching' = fetching /\ UNCHANGED surface /\ Rest
      /\ expected' = expected /\ dialogSeen' = dialogSeen
      /\ UNCHANGED <<control, main, lastAct, lastAction, confirmedNow, counts, told, passed>>
  BY DEF Popup, surface, Rest
<1>2. CASE Settles(item, FALSE, "left", Quiet)
  BY <1>1, <1>2, NoticedInv
<1>3. CASE Settles(item, TRUE, "closed", "popup_closed")
  <2>1. JudgedRight(Entry(item, TRUE, "closed"))
    BY NothingLetThrough
  <2>2. pending' = (pending \ {item}) \cup {} /\ fetching' = fetching \ {item}
    BY <1>1, PendingFacts DEF Gone
  <2>3. expected' \in {expected, NoDialog} /\ dialogSeen' \in BOOLEAN
    BY <1>1, PendingFacts
  <2>4. "popup_closed" \in EventKinds \cap Blocking /\ "closed" \notin Answered
    BY Words
  <2>5. QED
    BY <1>1, <1>3, <2>1, <2>2, <2>3, <2>4, CallbackInv
<1>4. QED
  BY <1>2, <1>3 DEF Popup

LEMMA RouteUngatedInv == ASSUME NEW item \in pending PROVE IInv /\ RouteUngated(item) => IInv'
<1> SUFFICES ASSUME IInv, RouteUngated(item) PROVE IInv'
  OBVIOUS
<1>1. /\ Settles(item, FALSE, "passed", Quiet)
      /\ pending' = (pending \ {item}) \cup Hops(item)
      /\ fetching' = fetching \ {item} /\ item \notin fetching
      /\ expected' \in {expected, NoDialog} /\ dialogSeen' \in BOOLEAN
      /\ UNCHANGED <<control, main, lastAct, lastAction, confirmedNow, counts, told, passed>>
  BY PendingFacts DEF RouteUngated, Follow, surface
<1>2. JudgedRight(Entry(item, FALSE, "passed"))
  BY NothingLetThrough
<1>3. Quiet \notin EventKinds /\ "passed" \notin Answered
  BY Words
<1>4. QED
  BY <1>1, <1>2, <1>3, CallbackInv

LEMMA RouteSubresourceInv ==
    ASSUME NEW item \in pending PROVE IInv /\ RouteSubresource(item) => IInv'
<1> SUFFICES ASSUME IInv, RouteSubresource(item) PROVE IInv'
  OBVIOUS
<1> DEFINE p == RequestOf(lastAction, "subresource", item.effect.frame, item.effect.url)
<1>1. /\ item.effect.type = "subresource"
      /\ pending' = (pending \ {item}) \cup {} /\ fetching' = fetching \ {item} /\ item \notin fetching
      /\ expected' \in {expected, NoDialog} /\ dialogSeen' \in BOOLEAN
      /\ UNCHANGED <<control, main, lastAct, lastAction, confirmedNow, counts, told, passed>>
  BY PendingFacts DEF RouteSubresource, Arrives, Gone, surface
<1>2. CASE Settles(item, TRUE, "aborted", "request_blocked")
  <2>1. JudgedRight(Entry(item, TRUE, "aborted"))
    BY NothingLetThrough
  <2>2. "request_blocked" \in EventKinds \cap Blocking /\ "aborted" \notin Answered
    BY Words
  <2>3. QED
    BY <1>1, <1>2, <2>1, <2>2, CallbackInv
<1>3. CASE Settles(item, TRUE, "passed", Quiet) /\ ~Refused(Check(p), confirmedNow)
  <2>1. ~UrlBlocked(item.effect.url, FALSE)
    BY <1>3, GuardFacts, SubresourceFacts
  <2>2. JudgedRight(Entry(item, TRUE, "passed"))
    <3>1. /\ Entry(item, TRUE, "passed").item = item
          /\ Entry(item, TRUE, "passed").outcome = "passed"
      BY DEF Entry
    <3>2. QED
      BY <1>1, <2>1, <3>1 DEF JudgedRight
  <2>3. Quiet \notin EventKinds /\ "passed" \notin Refusals \cup Answered
    BY Words
  <2>4. QED
    BY <1>1, <1>3, <2>2, <2>3, CallbackInv
<1>4. QED
  BY <1>2, <1>3 DEF RouteSubresource, Guard

LEMMA RouteNavigationInv ==
    ASSUME NEW item \in pending PROVE IInv /\ RouteNavigation(item) => IInv'
<1> SUFFICES ASSUME IInv, RouteNavigation(item) PROVE IInv'
  OBVIOUS
<1> DEFINE e == item.effect
           p == RequestOf(lastAction, "navigation", e.frame, e.url)
<1>1. /\ e.type = "navigation" /\ e.url # NoUrl
      /\ pending' = (pending \ {item}) \cup {}
      /\ expected' \in {expected, NoDialog} /\ dialogSeen' \in BOOLEAN
      /\ UNCHANGED <<control, main, lastAct, lastAction, confirmedNow, counts, told, passed>>
  BY PendingFacts, EffectFacts DEF RouteNavigation, Arrives, Gone, surface
<1>2. CASE Settles(item, TRUE, "no_content", "navigation_blocked") /\ fetching' = fetching
  <2>1. JudgedRight(Entry(item, TRUE, "no_content"))
    BY NothingLetThrough
  <2>2. "navigation_blocked" \in EventKinds \cap Blocking /\ "no_content" \notin Answered
    BY Words
  <2>3. fetching' = fetching \ {item}
    BY <1>2, PendingFacts
  <2>4. QED
    BY <1>1, <1>2, <2>1, <2>2, <2>3, CallbackInv
<1>3. CASE /\ Settles(item, TRUE, "fetched", Quiet) /\ fetching' = fetching \cup {item}
           /\ ~Refused(Check(p), confirmedNow)
  <2>1. ~UrlBlocked(e.url, TRUE) /\ Allowed(p, Entry(item, TRUE, "fetched"))
    BY <1>1, <1>3, GuardFacts, NavigationFacts
  <2>2. JudgedRight(Entry(item, TRUE, "fetched"))
    <3>1. /\ Entry(item, TRUE, "fetched").item = item
          /\ Entry(item, TRUE, "fetched").outcome = "fetched"
          /\ Entry(item, TRUE, "fetched").action = lastAction
      BY DEF Entry
    <3>2. QED
      BY <2>1, <3>1 DEF JudgedRight
  <2>3. Quiet \notin EventKinds /\ "fetched" \notin Refusals \cup Answered
    BY Words
  <2>4. Report'
    BY <1>1, <1>3, <2>2, <2>3, PendingFacts, Reporting
  <2>5. Items' /\ pending' \cap fetching' = {}
    <3>1. PICK d0 : d0 = Entry(item, TRUE, "fetched")
      OBVIOUS
    <3>2. log' = log \cup {d0} /\ d0.item = item /\ d0.held /\ events' = events
      BY <1>3, <2>3, <3>1 DEF Entry, Settles
    <3>3. deeds' = deeds /\ pending' = pending \ {item}
      BY <1>1 DEF counts
    <3>4. QED
      BY <1>1, <1>3, <3>2, <3>3, Fetching
  <2>6. TypeOK' /\ MainShape'
    BY <1>1, <1>3, <2>5, CallbackTypes
  <2>7. QED
    BY <2>4, <2>5, <2>6 DEF IInv
<1>4. QED
  BY <1>2, <1>3 DEF RouteNavigation, Guard

\* A navigation that is being fetched: nothing of it was told, its chain is not
\* begun, and it was judged while automation held the session.
LEMMA FetchingFacts ==
    ASSUME IInv, NEW item \in fetching
    PROVE  /\ pending = pending \ {item} /\ item.effect.type = "navigation"
           /\ item.effect.hops # <<>> => item.effect.hops[1] # NoUrl
           /\ expected \in {expected, NoDialog} /\ dialogSeen \in BOOLEAN
<1>1. item.effect.type = "navigation" /\ item \notin pending /\ item \in Known /\ dialogSeen \in BOOLEAN
  BY DEF IInv, Items, OnlyNavigationsAreFetched, TypeOK, Known
<1>2. item.effect \in Effects
  BY <1>1 DEF IInv, Items, Provenance
<1>3. QED
  BY <1>1, <1>2, EffectFacts

LEMMA FetchInv ==
    ASSUME NEW item \in fetching PROVE IInv /\ (FetchFails(item) \/ FetchReturns(item)) => IInv'
<1> SUFFICES ASSUME IInv, FetchFails(item) \/ FetchReturns(item) PROVE IInv'
  OBVIOUS
<1> DEFINE e == item.effect
           p == RequestOf(lastAction, "navigation", e.frame, e.hops[1])
<1>1. /\ fetching' = fetching \ {item} /\ pending = pending \ {item}
      /\ e.type = "navigation" /\ (e.hops # <<>> => e.hops[1] # NoUrl)
      /\ expected' \in {expected, NoDialog} /\ dialogSeen' \in BOOLEAN
      /\ UNCHANGED <<control, main, lastAct, lastAction, confirmedNow, counts, told, passed>>
  BY FetchingFacts DEF FetchFails, FetchReturns, surface
<1>2. {"navigation_blocked", "redirect_blocked"} \subseteq EventKinds \cap Blocking
      /\ {"aborted", "no_content"} \cap Answered = {}
      /\ Quiet \notin EventKinds /\ "passed" \notin Refusals \cup Answered
  BY Words
<1>3. CASE Settles(item, TRUE, "aborted", "navigation_blocked") /\ pending' = pending
  <2>1. JudgedRight(Entry(item, TRUE, "aborted"))
    BY NothingLetThrough
  <2>2. pending' = (pending \ {item}) \cup {}
    BY <1>1, <1>3
  <2>3. QED
    BY <1>1, <1>2, <1>3, <2>1, <2>2, CallbackInv
<1>4. CASE Settles(item, TRUE, "no_content", "redirect_blocked") /\ pending' = pending
  <2>1. JudgedRight(Entry(item, TRUE, "no_content"))
    BY NothingLetThrough
  <2>2. pending' = (pending \ {item}) \cup {}
    BY <1>1, <1>4
  <2>3. QED
    BY <1>1, <1>2, <1>4, <2>1, <2>2, CallbackInv
<1>5. CASE /\ Settles(item, TRUE, "passed", Quiet) /\ Follow(item)
           /\ e.hops = <<>> \/ ~Refused(Check(p), confirmedNow)
  <2>1. e.hops # <<>> => ~UrlBlocked(e.hops[1], TRUE) /\ Allowed(p, Entry(item, TRUE, "passed"))
    BY <1>1, <1>5, GuardFacts, NavigationFacts
  <2>2. JudgedRight(Entry(item, TRUE, "passed"))
    <3>1. /\ Entry(item, TRUE, "passed").item = item
          /\ Entry(item, TRUE, "passed").outcome = "passed"
          /\ Entry(item, TRUE, "passed").action = lastAction
      BY DEF Entry
    <3>2. QED
      BY <1>1, <2>1, <3>1 DEF JudgedRight
  <2>3. pending' = (pending \ {item}) \cup Hops(item)
    BY <1>5 DEF Follow
  <2>4. QED
    BY <1>1, <1>2, <1>5, <2>2, <2>3, CallbackInv
<1>6. FetchFails(item) => Settles(item, TRUE, "aborted", "navigation_blocked") /\ pending' = pending
  BY DEF FetchFails
<1>7. FetchReturns(item) =>
        \/ Settles(item, TRUE, "no_content", "redirect_blocked") /\ pending' = pending
        \/ /\ Settles(item, TRUE, "passed", Quiet) /\ Follow(item)
           /\ e.hops = <<>> \/ ~Refused(Check(p), confirmedNow)
  BY DEF FetchReturns, Guard
<1>8. QED
  BY <1>3, <1>4, <1>5, <1>6, <1>7

LEMMA DialogUnexpectedInv ==
    ASSUME NEW item \in pending PROVE IInv /\ DialogUnexpected(item) => IInv'
<1> SUFFICES ASSUME IInv, DialogUnexpected(item) PROVE IInv'
  OBVIOUS
<1>1. /\ pending' = (pending \ {item}) \cup {} /\ fetching' = fetching \ {item}
      /\ expected' \in {expected, NoDialog} /\ dialogSeen' \in BOOLEAN
      /\ UNCHANGED <<control, main, lastAct, lastAction, confirmedNow, counts, told, passed>>
      /\ Settles(item, TRUE, "dismissed", "unexpected_dialog")
  BY PendingFacts DEF DialogUnexpected, Gone
<1>2. "unexpected_dialog" \in EventKinds \cap Blocking /\ "dismissed" \notin Answered
  BY Words
<1>3. JudgedRight(Entry(item, TRUE, "dismissed"))
  BY NothingLetThrough
<1>4. QED
  BY <1>1, <1>2, <1>3, CallbackInv

\* An expected dialog is the running act's, judged with its target and risk.
LEMMA DialogExpectedInv ==
    ASSUME NEW item \in pending PROVE IInv /\ DialogExpected(item) => IInv'
<1> SUFFICES ASSUME IInv, DialogExpected(item) PROVE IInv'
  OBVIOUS
<1> DEFINE e == item.effect
           p == DialogOf(main.act, e.message)
<1>1. /\ pending' = (pending \ {item}) \cup {} /\ fetching' = fetching \ {item}
      /\ expected' = NoDialog /\ dialogSeen' \in BOOLEAN
      /\ UNCHANGED <<control, main, lastAct, lastAction, confirmedNow, counts, told, passed>>
  BY PendingFacts DEF DialogExpected, Gone
<1>2. Acting /\ expected # NoDialog /\ e.dialog = expected.type /\ e.message = expected.message
  BY DEF DialogExpected, Expected
<1>3. expected = main.act.dialog /\ main.act \in Acts
  BY <1>2 DEF IInv, TypeOK, MainShape
<1>4. /\ expected.response \in Answered
      /\ expected = [type |-> expected.type, message |-> expected.message,
                     response |-> expected.response]
  BY <1>2, <1>3, ActFacts
<1>5. CASE Settles(item, TRUE, "dismissed", "dialog_refused")
  <2>1. "dialog_refused" \in EventKinds \cap Blocking /\ "dismissed" \notin Answered
    BY Words
  <2>2. JudgedRight(Entry(item, TRUE, "dismissed"))
    BY NothingLetThrough
  <2>3. QED
    BY <1>1, <1>5, <2>1, <2>2, CallbackInv
<1>6. CASE /\ Settles(item, TRUE, expected.response, "dialog_answered")
           /\ ~Refused(Check(p), confirmedNow)
  <2>1. PICK outcome \in Answered : outcome = expected.response
    BY <1>4
  <2>2. Allowed(p, Entry(item, TRUE, outcome))
    BY <1>6, GuardFacts
  <2>3. JudgedRight(Entry(item, TRUE, outcome))
    <3>1. /\ Entry(item, TRUE, outcome).item = item
          /\ Entry(item, TRUE, outcome).outcome = outcome
          /\ Entry(item, TRUE, outcome).by = main.act
      BY DEF Entry
    <3>2. outcome \notin {"fetched", "passed"}
      BY Words
    <3>3. outcome = "accept" =>
            main.act.dialog = [type |-> e.dialog, message |-> e.message, response |-> "accept"]
      BY <1>2, <1>3, <1>4, <2>1
    <3>4. QED
      BY <2>2, <3>1, <3>2, <3>3 DEF JudgedRight
  <2>4. "dialog_answered" \in EventKinds /\ outcome \notin Refusals
    BY Words
  <2>5. Settles(item, TRUE, outcome, "dialog_answered")
    BY <1>6, <2>1
  <2>6. QED
    BY <1>1, <1>2, <2>3, <2>4, <2>5, CallbackInv
<1>7. QED
  BY <1>5, <1>6 DEF DialogExpected

-----------------------------------------------------------------------------
(* The automation's thread.                                                 *)

LEMMA ItemsStay ==
    ASSUME IInv, UNCHANGED <<pending, fetching, log, events, told, lastAct, deeds>>
    PROVE  Items' /\ pending' \cap fetching' = {}
<1>1. Known' = Known /\ Causes' = Causes
  BY DEF Known, Causes
<1>2. QED
  BY <1>1 DEF IInv, TypeOK, Items, Provenance, OnlyNavigationsAreFetched, SettledOnce, HopsComeAfter

LEMMA ReportStays ==
    ASSUME IInv, Acting' = Acting, UNCHANGED <<log, events, told, passed, lastAct, expected>>
    PROVE  Report'
<1>1. Report
  BY DEF IInv
<1>2. EventsAreOfTheLog' /\ EventsAreApart' /\ OutcomesWithoutControl' /\ ToldByTheActThatRan'
      /\ PassedWithoutRefusal' /\ ActsOfTheLog' /\ Judgements'
  BY <1>1 DEF Report, EventsAreOfTheLog, EventsAreApart, OutcomesWithoutControl,
     ToldByTheActThatRan, PassedWithoutRefusal, ActsOfTheLog, Judgements
<1>3. AnsweredOrRefusedIsReported'
  BY <1>1 DEF Report, AnsweredOrRefusedIsReported, Reported
<1>4. RunningAct' /\ OneAnswerForAnAct'
  BY <1>1 DEF Report, RunningAct, OneAnswerForAnAct
<1>5. QED
  BY <1>2, <1>3, <1>4 DEF Report

\* Between the beginning and the end of an act the thread only waits.
LEMMA WaitsInv ==
    IInv /\ (PerformWithoutControl \/ Dispatched \/ DialogWaitEnds) => IInv'
<1> SUFFICES ASSUME IInv, PerformWithoutControl \/ Dispatched \/ DialogWaitEnds PROVE IInv'
  OBVIOUS
<1>1. UNCHANGED <<control, lastAct, lastAction, expected, dialogSeen, confirmedNow, pending, fetching,
                  events, pauses, deeds, log, told, passed>>
  BY DEF PerformWithoutControl, Dispatched, DialogWaitEnds, surface, counts, history
<1>2. TypeOK /\ MainShape /\ dialogSeen \in BOOLEAN
  BY DEF IInv, TypeOK
<1>3. /\ main'.stage \in Stages /\ main'.failure \in BOOLEAN /\ main'.act = main.act
      /\ Acting' = Acting /\ MainShape'
  <2>1. CASE PerformWithoutControl
    <3>1. ~Acting /\ main.stage = "idle"
      BY <2>1 DEF PerformWithoutControl, Acting
    <3>2. main.act = NoAct
      BY <1>2, <3>1 DEF TypeOK
    <3>3. main' = [stage |-> "stopped", act |-> NoAct, failure |-> FALSE]
      BY <2>1 DEF PerformWithoutControl, Idle
    <3>4. main'.stage = "stopped" /\ main'.act = NoAct /\ main'.failure = FALSE
      BY <3>3
    <3>5. ~Acting'
      BY <3>4 DEF Acting
    <3>6. MainShape'
      BY <3>3 DEF MainShape, Stages
    <3>7. Acting' = Acting
      BY <3>1, <3>5 DEF Acting
    <3>8. main'.stage \in Stages /\ main'.failure \in BOOLEAN /\ main'.act = main.act
      BY <3>2, <3>4 DEF Stages
    <3>9. QED
      BY <3>6, <3>7, <3>8
  <2>2. CASE Dispatched
    <3>1. Acting /\ main'.stage \in {"dialog", "grace"} /\ main'.failure \in BOOLEAN
          /\ main'.act = main.act /\ MainShape'
      BY <1>2, <2>2 DEF Dispatched, Acting, MainShape, Stages
    <3>2. Acting'
      BY <3>1 DEF Acting
    <3>3. QED
      BY <3>1, <3>2 DEF Stages
  <2>3. CASE DialogWaitEnds
    <3>1. Acting /\ main'.stage = "grace" /\ main'.failure \in BOOLEAN
          /\ main'.act = main.act /\ MainShape'
      BY <1>2, <2>3 DEF DialogWaitEnds, Acting, MainShape, Stages
    <3>2. Acting'
      BY <3>1 DEF Acting
    <3>3. QED
      BY <3>1, <3>2 DEF Stages
  <2>4. QED
    BY <2>1, <2>2, <2>3
<1>4. Report'
  BY <1>1, <1>3, ReportStays
<1>5. Items' /\ pending' \cap fetching' = {}
  BY <1>1, ItemsStay
<1>6. TypeOK'
  BY <1>1, <1>2, <1>3 DEF TypeOK, Stages
<1>7. QED
  BY <1>3, <1>4, <1>5, <1>6 DEF IInv

\* What is caused by something new was not there before.
LEMMA Causing ==
    ASSUME IInv, NEW cause, cause \notin Causes, cause \in Causes', Causes \subseteq Causes',
           NEW effects \in SUBSET Effects,
           pending' = pending \cup {[cause |-> cause, effect |-> e] : e \in effects},
           UNCHANGED <<fetching, log, events, told>>
    PROVE  Items' /\ pending' \cap fetching' = {}
<1> DEFINE new == {[cause |-> cause, effect |-> e] : e \in effects}
<1>1. Items /\ EventsAreOfTheLog /\ pending \cap fetching = {}
  BY DEF IInv, Report, TypeOK
<1>2. \A x \in new : /\ x = [cause |-> x.cause, effect |-> x.effect]
                     /\ x.cause = cause /\ x.effect \in Effects /\ x.effect.type # "hop"
  BY EffectFacts
<1>3. pending' = pending \cup new
  OBVIOUS
<1> HIDE DEF new
<1>4. \A x \in Known : x.cause \in Causes
  BY <1>1 DEF Items, Provenance
<1>5. \A x \in new : x \notin Known
  BY <1>2, <1>4
<1>6. Known' = Known \cup new
  BY <1>3 DEF Known
<1>7. Provenance' /\ OnlyNavigationsAreFetched'
  BY <1>1, <1>2, <1>6 DEF Items, Provenance, OnlyNavigationsAreFetched
<1>8. SettledOnce'
  <2>1. \A d \in log : d.item \in Known
    BY DEF Known
  <2>2. /\ \A e \in events : e.item \in Known
        /\ \A t \in told : t.item \in Known
    BY <1>1, <2>1 DEF EventsAreOfTheLog
  <2>3. QED
    BY <1>1, <1>3, <1>5, <2>1, <2>2 DEF Items, SettledOnce
<1>9. HopsComeAfter'
  <2>1. ASSUME NEW x \in Known, x.effect.type = "hop"
        PROVE  /\ x.effect.of[1].type = "navigation"
               /\ [cause |-> x.cause, effect |-> x.effect.of[1]] \notin pending' \cup fetching'
    <3> DEFINE parent == [cause |-> x.cause, effect |-> x.effect.of[1]]
    <3>1. x.effect.of[1].type = "navigation" /\ parent \notin pending \cup fetching
      BY <1>1, <2>1 DEF Items, HopsComeAfter
    <3>2. parent.cause \in Causes
      BY <1>4
    <3> HIDE DEF parent
    <3>3. parent \notin new
      BY <1>2, <3>2
    <3>4. QED
      BY <1>3, <3>1, <3>3 DEF parent
  <2>2. QED
    BY <1>2, <1>6, <2>1 DEF HopsComeAfter
<1>10. pending' \cap fetching' = {}
  BY <1>1, <1>3, <1>5 DEF Known
<1>11. QED
  BY <1>7, <1>8, <1>9, <1>10 DEF Items

LEMMA PerformInv == ASSUME NEW a \in Acts PROVE IInv /\ Perform(a) => IInv'
<1> SUFFICES ASSUME IInv, Perform(a) PROVE IInv'
  OBVIOUS
<1>1. /\ main.stage = "idle" /\ lastAct < MaxActs
      /\ main' = [stage |-> "dispatch", act |-> a, failure |-> FALSE]
      /\ lastAct' = lastAct + 1 /\ lastAction' = a.kind
      /\ expected' = a.dialog /\ dialogSeen' = FALSE /\ confirmedNow' = a.confirmed
      /\ UNCHANGED <<control, fetching, events, pauses, deeds, log, told, passed>>
  BY DEF Perform, counts, history
<1>2. TypeOK /\ MainShape /\ Report /\ MaxActs \in Nat
  BY Assumptions DEF IInv
<1>3. /\ lastAct \in Nat /\ lastAct + 1 \in 1..MaxActs /\ lastAct' \in 0..MaxActs
      /\ lastAct + 1 \notin 0..lastAct /\ 0..lastAct \subseteq 0..lastAct + 1
      /\ 1..lastAct \subseteq 1..lastAct + 1 /\ lastAct + 1 \notin 1..lastAct
  <2>1. lastAct \in 0..MaxActs
    BY <1>2 DEF TypeOK
  <2>2. lastAct < MaxActs /\ lastAct' = lastAct + 1
    BY <1>1
  <2>3. QED
    BY <1>2, <2>1, <2>2
<1>4. main'.stage = "dispatch" /\ main'.act = a /\ Acting' /\ MainShape'
  BY <1>1 DEF Acting, MainShape, Stages
<1>5. Items' /\ pending' \cap fetching' = {}
  <2>1. PICK caused \in a.causes :
          pending' = pending \cup {[cause |-> <<"act", lastAct + 1>>, effect |-> e] : e \in caused}
    BY DEF Perform
  <2>2. caused \in SUBSET Effects
    BY DEF Effects
  <2>3. PICK cause : cause = <<"act", lastAct + 1>>
    OBVIOUS
  <2>4. cause \notin Causes
    <3>1. \A n \in 1..lastAct : cause # <<"act", n>>
      BY <1>3, <2>3
    <3>2. \A n : cause # <<"human", n>>
      BY <2>3
    <3>3. QED
      BY <3>1, <3>2 DEF Causes
  <2>5. Causes \subseteq Causes' /\ cause \in Causes'
    BY <1>1, <1>3, <2>3 DEF Causes
  <2>6. QED
    BY <1>1, <2>1, <2>2, <2>3, <2>4, <2>5, Causing
<1>6. \A d \in log : d.act \in 0..lastAct /\ d.act # lastAct + 1
  BY <1>2, <1>3 DEF Report, ActsOfTheLog
<1>7. \A e \in events : e.act \in 0..lastAct /\ e.act # lastAct + 1
  BY <1>2, <1>3 DEF TypeOK
<1>8. passed \subseteq 1..lastAct /\ \A t \in told : t.by \in 0..lastAct
  BY <1>2 DEF TypeOK
<1>9. TypeOK'
  <2>1. a.kind \in Kinds /\ a # NoAct
    BY ActFacts
  <2>2. /\ \A e \in events' : e.kind \in EventKinds /\ e.act \in 0..lastAct'
        /\ \A t \in told' : t.by \in 0..lastAct'
        /\ passed' \subseteq 1..lastAct'
    BY <1>1, <1>2, <1>3, <1>7, <1>8 DEF TypeOK
  <2>3. /\ main'.stage \in Stages /\ (Acting' <=> main'.act # NoAct)
        /\ expected' \in {NoDialog, main'.act.dialog} /\ confirmedNow' = main'.act.confirmed
    BY <1>1, <1>4, <2>1 DEF Stages
  <2>4. QED
    BY <1>1, <1>2, <1>3, <1>5, <2>1, <2>2, <2>3 DEF TypeOK, Stages
<1>10. Report'
  <2>1. EventsAreOfTheLog' /\ EventsAreApart' /\ OutcomesWithoutControl' /\ ToldByTheActThatRan'
        /\ PassedWithoutRefusal' /\ Judgements'
    BY <1>1, <1>2 DEF Report, EventsAreOfTheLog, EventsAreApart, OutcomesWithoutControl,
       ToldByTheActThatRan, PassedWithoutRefusal, Judgements
  <2>2. AnsweredOrRefusedIsReported'
    BY <1>1, <1>2 DEF Report, AnsweredOrRefusedIsReported, Reported
  <2>3. RunningAct'
    BY <1>1, <1>3, <1>6, <1>7, <1>8 DEF RunningAct
  <2>4. ActsOfTheLog'
    BY <1>1, <1>3, <1>6 DEF ActsOfTheLog
  <2>5. OneAnswerForAnAct'
    BY <1>1, <1>2, <1>4, <1>6 DEF Report, OneAnswerForAnAct
  <2>6. QED
    BY <2>1, <2>2, <2>3, <2>4, <2>5 DEF Report
<1>11. QED
  BY <1>4, <1>5, <1>9, <1>10 DEF IInv

\* Events that are told leave the list.
LEMMA Telling ==
    ASSUME IInv, NEW own \in SUBSET events, NEW by,
           events' = events \ own, Tells(own, by), UNCHANGED log
    PROVE  /\ EventsAreOfTheLog' /\ EventsAreApart' /\ AnsweredOrRefusedIsReported'
           /\ OutcomesWithoutControl' /\ Judgements'
<1>1. Report
  BY DEF IInv
<1>2. \A t \in told' : t \in told \/ \E e \in own : t = [item |-> e.item, by |-> by]
  BY DEF Tells
<1>3. told \subseteq told' /\ \A e \in own : \E t \in told' : t.item = e.item
  <2>1. told \subseteq told'
    BY DEF Tells
  <2>2. ASSUME NEW e \in own PROVE \E t \in told' : t.item = e.item
    <3>1. [item |-> e.item, by |-> by] \in told'
      BY DEF Tells
    <3>2. QED
      BY <3>1
  <2>3. QED
    BY <2>1, <2>2
<1>4. EventsAreOfTheLog'
  BY <1>1, <1>2 DEF Report, EventsAreOfTheLog
<1>5. EventsAreApart'
  <2>1. \A t \in told : \A e \in events : t.item # e.item
    BY <1>1 DEF Report, EventsAreApart
  <2>2. \A e1, e2 \in events : e1.item = e2.item => e1 = e2
    BY <1>1 DEF Report, EventsAreApart
  <2>3. \A t1, t2 \in told : t1.item = t2.item => t1 = t2
    BY <1>1 DEF Report, EventsAreApart
  <2>4. \A t \in told' : \A e \in events' : t.item # e.item
    BY <1>2, <2>1, <2>2
  <2>5. ASSUME NEW t1 \in told', NEW t2 \in told', t1.item = t2.item PROVE t1 = t2
    BY <1>2, <2>1, <2>2, <2>3, <2>5
  <2>6. QED
    BY <2>2, <2>4, <2>5 DEF EventsAreApart
<1>6. AnsweredOrRefusedIsReported'
  <2>1. \A x : Reported(x) => Reported(x)'
    <3>1. SUFFICES ASSUME NEW x, Reported(x)
                   PROVE  (\E e \in events' : e.item = x) \/ (\E t \in told' : t.item = x)
      BY DEF Reported
    <3>2. QED
      BY <1>3, <3>1 DEF Reported
  <2>2. QED
    BY <1>1, <2>1 DEF Report, AnsweredOrRefusedIsReported
<1>7. QED
  BY <1>1, <1>4, <1>5, <1>6 DEF Report, OutcomesWithoutControl, Judgements

LEMMA TellingItems ==
    ASSUME IInv, NEW own \in SUBSET events, NEW by, events' = events \ own, Tells(own, by),
           UNCHANGED <<pending, fetching, log, lastAct, deeds>>
    PROVE  Items' /\ pending' \cap fetching' = {}
<1>1. Known' = Known /\ Causes' = Causes
  BY DEF Known, Causes
<1>2. Items /\ pending \cap fetching = {}
  BY DEF IInv, TypeOK
<1>3. \A t \in told' : t \in told \/ \E e \in events : t.item = e.item
  BY DEF Tells
<1>4. SettledOnce'
  BY <1>2, <1>3 DEF Items, SettledOnce
<1>5. Provenance' /\ OnlyNavigationsAreFetched' /\ HopsComeAfter'
  BY <1>1, <1>2 DEF Items, Provenance, OnlyNavigationsAreFetched, HopsComeAfter
<1>6. QED
  BY <1>2, <1>4, <1>5 DEF Items

\* The act's result is made from all of its events, and is no success if one of
\* them says it was refused something.
LEMMA CollectInv == IInv /\ Collect => IInv'
<1> SUFFICES ASSUME IInv, Collect PROVE IInv'
  OBVIOUS
<1> DEFINE own == {e \in events : e.act = lastAct}
<1>1. /\ main.stage = "grace" /\ main' = Idle /\ expected' = NoDialog /\ confirmedNow' = FALSE
      /\ events' = events \ own /\ Tells(own, lastAct) /\ passed' = Ok(own)
      /\ UNCHANGED <<control, lastAct, lastAction, dialogSeen, pending, fetching, pauses, deeds, log>>
  BY DEF Collect, EndsAct, TakesOut, counts
<1>2. TypeOK /\ Report /\ Acting
  BY <1>1 DEF IInv, Acting
<1>3. own \in SUBSET events /\ \A e \in own : e.act = lastAct
  OBVIOUS
<1>4. /\ lastAct \in 1..MaxActs /\ lastAct \notin passed
      /\ \A e \in events : e.act = lastAct => \E d \in log : d.item = e.item /\ d.act = lastAct
      /\ \A d \in log : d.held /\ d.act = lastAct /\ d.outcome \in Refusals =>
            \E e \in own : e.kind \in Blocking
  BY <1>2 DEF Report, RunningAct
<1>5. passed' = passed \/ (passed' = passed \cup {lastAct} /\ \A e \in own : e.kind \notin Blocking)
  BY <1>1 DEF Ok, Blocking
<1> HIDE DEF own
<1>6. Items' /\ pending' \cap fetching' = {}
  BY <1>1, <1>3, TellingItems
<1>7. main'.stage = "idle" /\ main'.act = NoAct /\ ~Acting' /\ MainShape'
  BY <1>1 DEF Idle, Acting, MainShape, Stages
<1>8. \A t \in told' : t \in told \/ (t.by = lastAct /\ \E e \in own : t.item = e.item)
  BY <1>1 DEF Tells
<1>9. lastAct \in Nat /\ lastAct \in 0..lastAct /\ lastAct \in 1..lastAct
  <2>1. MaxActs \in Nat
    BY Assumptions
  <2>2. QED
    BY <1>4, <2>1
<1>10. Report'
  <2>1. /\ EventsAreOfTheLog' /\ EventsAreApart' /\ AnsweredOrRefusedIsReported'
        /\ OutcomesWithoutControl' /\ Judgements'
    BY <1>1, <1>3, Telling
  <2>2. ToldByTheActThatRan'
    BY <1>1, <1>2, <1>3, <1>4, <1>8 DEF Report, ToldByTheActThatRan
  <2>3. PassedWithoutRefusal'
    BY <1>1, <1>2, <1>4, <1>5 DEF Report, PassedWithoutRefusal
  <2>4. RunningAct'
    BY <1>7 DEF RunningAct
  <2>5. ActsOfTheLog' /\ OneAnswerForAnAct'
    BY <1>1, <1>2 DEF Report, ActsOfTheLog, OneAnswerForAnAct
  <2>6. QED
    BY <2>1, <2>2, <2>3, <2>4, <2>5 DEF Report
<1>11. TypeOK'
  <2>1. confirmedNow' = main'.act.confirmed
    <3>1. NoAct.confirmed = FALSE
      BY DEF NoAct
    <3>2. QED
      BY <1>1, <1>7, <3>1
  <2>2. /\ \A e \in events' : e.kind \in EventKinds /\ e.act \in 0..lastAct'
        /\ \A t \in told' : t.by \in 0..lastAct'
        /\ passed' \subseteq 1..lastAct'
    BY <1>1, <1>2, <1>5, <1>8, <1>9 DEF TypeOK
  <2>3. expected' \in {NoDialog, main'.act.dialog}
    BY <1>1
  <2>4. QED
    BY <1>1, <1>2, <1>6, <1>7, <2>1, <2>2, <2>3 DEF TypeOK
<1>12. QED
  BY <1>6, <1>7, <1>10, <1>11 DEF IInv

LEMMA DrainEventsInv == IInv /\ DrainEvents => IInv'
<1> SUFFICES ASSUME IInv, DrainEvents PROVE IInv'
  OBVIOUS
<1>1. /\ main.stage = "idle" /\ Tells(events, 0) /\ events' = {}
      /\ UNCHANGED <<control, main, lastAct, lastAction, expected, dialogSeen, confirmedNow,
                     pending, fetching, pauses, deeds, log, passed>>
  BY DEF DrainEvents, surface, counts
<1>2. TypeOK /\ Report /\ MainShape /\ ~Acting /\ ~Acting'
  BY <1>1 DEF IInv, Acting
<1>3. events' = events \ events
  BY <1>1
<1>4. Items' /\ pending' \cap fetching' = {}
  BY <1>1, <1>3, TellingItems
<1>5. \A t \in told' : t \in told \/ t.by = 0
  BY <1>1 DEF Tells
<1>6. Report'
  <2>1. /\ EventsAreOfTheLog' /\ EventsAreApart' /\ AnsweredOrRefusedIsReported'
        /\ OutcomesWithoutControl' /\ Judgements'
    BY <1>1, <1>3, Telling
  <2>2. ToldByTheActThatRan'
    BY <1>1, <1>2, <1>5 DEF Report, ToldByTheActThatRan
  <2>3. PassedWithoutRefusal' /\ ActsOfTheLog'
    BY <1>1, <1>2 DEF Report, PassedWithoutRefusal, ActsOfTheLog
  <2>4. RunningAct'
    BY <1>2 DEF RunningAct
  <2>5. OneAnswerForAnAct'
    BY <1>1, <1>2 DEF Report, OneAnswerForAnAct
  <2>6. QED
    BY <2>1, <2>2, <2>3, <2>4, <2>5 DEF Report
<1>7. TypeOK' /\ MainShape'
  <2>1. 0 \in 0..lastAct
    BY <1>2, Assumptions DEF TypeOK
  <2>2. \A t \in told' : t.by \in 0..lastAct'
    BY <1>1, <1>2, <1>5, <2>1 DEF TypeOK
  <2>3. QED
    BY <1>1, <1>2, <2>2 DEF TypeOK, MainShape
<1>8. QED
  BY <1>4, <1>6, <1>7 DEF IInv

-----------------------------------------------------------------------------
(* The session file and the person.                                         *)

LEMMA SessionInv == IInv /\ (Pause \/ Take \/ HandBack \/ Abort \/ UNCHANGED vars) => IInv'
<1> SUFFICES ASSUME IInv, Pause \/ Take \/ HandBack \/ Abort \/ UNCHANGED vars PROVE IInv'
  OBVIOUS
<1>1. UNCHANGED <<main, lastAct, lastAction, expected, dialogSeen, confirmedNow, pending, fetching,
                  events, deeds, log, told, passed>>
  BY DEF Pause, Take, HandBack, Abort, vars, surface, counts, history
<1>2. TypeOK /\ MainShape /\ Acting' = Acting
  BY <1>1 DEF IInv, Acting
<1>3. control' \in {"automation", "nobody", "human", "over"} /\ pauses' \in 0..MaxPauses
  <2>1. MaxPauses \in Nat /\ pauses \in 0..MaxPauses
    BY <1>2, Assumptions DEF TypeOK
  <2>2. pauses' = pauses \/ (pauses' = pauses + 1 /\ pauses < MaxPauses)
    BY DEF Pause, Take, HandBack, Abort, vars, counts
  <2>3. control' \in {"automation", "nobody", "human", "over"}
    BY <1>2 DEF Pause, Take, HandBack, Abort, vars, TypeOK
  <2>4. QED
    BY <2>1, <2>2, <2>3
<1>4. Report'
  BY <1>1, <1>2, ReportStays
<1>5. Items'
  BY <1>1, ItemsStay
<1>6. TypeOK' /\ MainShape'
  BY <1>1, <1>2, <1>3 DEF TypeOK, MainShape
<1>7. QED
  BY <1>4, <1>5, <1>6 DEF IInv

LEMMA BrowseInv == IInv /\ Browse => IInv'
<1> SUFFICES ASSUME IInv, Browse PROVE IInv'
  OBVIOUS
<1>1. /\ deeds < MaxDeeds /\ deeds' = deeds + 1
      /\ UNCHANGED <<control, main, lastAct, lastAction, expected, dialogSeen, confirmedNow,
                     fetching, events, pauses, log, told, passed>>
  BY DEF Browse, surface, history
<1>2. TypeOK /\ MainShape /\ Acting' = Acting
  BY <1>1 DEF IInv, Acting
<1>3. deeds \in Nat /\ deeds + 1 \in 0..MaxDeeds
  <2>1. MaxDeeds \in Nat /\ deeds \in 0..MaxDeeds
    BY <1>2, Assumptions DEF TypeOK
  <2>2. QED
    BY <1>1, <2>1
<1>4. Report'
  BY <1>1, <1>2, ReportStays
<1>5. Items' /\ pending' \cap fetching' = {}
  <2>1. PICK e \in HumanCauses :
          pending' = pending \cup {[cause |-> <<"human", deeds + 1>>, effect |-> e]}
    BY DEF Browse
  <2>2. PICK cause : cause = <<"human", deeds + 1>>
    OBVIOUS
  <2>3. {e} \in SUBSET Effects
    <3>1. e \in HumanCauses
      BY <2>1
    <3>2. HumanCauses \subseteq Effects
      BY Zenon DEF Effects
    <3>3. QED
      BY <3>1, <3>2
  <2>4. pending' = pending \cup {[cause |-> cause, effect |-> f] : f \in {e}}
    BY <2>1, <2>2
  <2>5. cause \notin Causes
    <3>1. \A n \in 1..deeds : cause # <<"human", n>>
      BY <1>3, <2>2
    <3>2. \A n : cause # <<"act", n>>
      BY <2>2
    <3>3. QED
      BY <3>1, <3>2 DEF Causes
  <2>6. Causes \subseteq Causes' /\ cause \in Causes'
    <3>1. 1..deeds \subseteq 1..deeds + 1 /\ deeds + 1 \in 1..deeds + 1
      BY <1>3
    <3>2. QED
      BY <1>1, <2>2, <3>1 DEF Causes
  <2>7. QED
    BY <1>1, <2>3, <2>4, <2>5, <2>6, Causing
<1>6. TypeOK' /\ MainShape'
  BY <1>1, <1>2, <1>3, <1>5 DEF TypeOK, MainShape
<1>7. QED
  BY <1>4, <1>5, <1>6 DEF IInv

LEMMA NextInv == IInv /\ [Next]_vars => IInv'
<1> SUFFICES ASSUME IInv, [Next]_vars PROVE IInv'
  OBVIOUS
<1>1. ASSUME NEW a \in Acts, Perform(a) PROVE IInv'
  BY <1>1, PerformInv
<1>2. ASSUME NEW item \in pending,
             \/ RouteUngated(item) \/ RouteSubresource(item) \/ RouteNavigation(item)
             \/ LaterHop(item) \/ OddScheme(item) \/ Popup(item) \/ Download(item)
             \/ DialogLeft(item) \/ DialogUnexpected(item) \/ DialogExpected(item)
      PROVE  IInv'
  BY <1>2, RouteUngatedInv, RouteSubresourceInv, RouteNavigationInv, NoticesInv, PopupInv,
     DialogUnexpectedInv, DialogExpectedInv
<1>3. ASSUME NEW item \in fetching, FetchFails(item) \/ FetchReturns(item) PROVE IInv'
  BY <1>3, FetchInv
<1>4. QED
  BY <1>1, <1>2, <1>3, WaitsInv, CollectInv, DrainEventsInv, SessionInv, BrowseInv DEF Next

-----------------------------------------------------------------------------
(* The theorems.                                                            *)

\* The inductive invariant: where each effect is between the page and the report.
THEOREM Invariance == Spec => []IInv
BY InitInv, NextInv, PTL DEF Spec

\* Types, and that a dialog is expected and a confirmation given only by the act
\* that runs (_expected_dialog, _confirmed_now are taken back when it ends).
THEOREM TypeCorrect == Spec => []TypeOK
<1>1. IInv => TypeOK
  BY DEF IInv
<1>2. QED
  BY Invariance, <1>1, PTL

\* act, _emit and drain_events, whatever the order of the callbacks: each refusal
\* and each answer is told once, and no act whose result is ok was refused anything.
THEOREM EventsAreReported == Spec => []EveryEventIsReportedOnce
<1>1. IInv => EveryEventIsReportedOnce
  <2> SUFFICES ASSUME IInv PROVE EveryEventIsReportedOnce
    OBVIOUS
  <2>1. Report
    BY DEF IInv
  <2>2. ASSUME NEW d \in log
        PROVE  /\ d.held /\ d.outcome \in Refusals \cup {"accept", "dismiss"} => Reported(d.item)
               /\ ~d.held => ~Reported(d.item)
               /\ d.held /\ d.act \in passed => d.outcome \notin Refusals
    <3>1. d.held /\ d.outcome \in Refusals \cup {"accept", "dismiss"} => Reported(d.item)
      BY <2>1 DEF Report, AnsweredOrRefusedIsReported, Answered
    <3>2. ~d.held => ~Reported(d.item)
      BY <2>1 DEF Report, EventsAreOfTheLog, Reported
    <3>3. d.held /\ d.act \in passed => d.outcome \notin Refusals
      BY <2>1 DEF Report, PassedWithoutRefusal
    <3>4. QED
      BY <3>1, <3>2, <3>3
  <2>3. /\ \A t \in told : \A e \in events : t.item # e.item
        /\ \A t1, t2 \in told : t1.item = t2.item => t1 = t2
        /\ \A t \in told : t.by # 0 => \E d \in log : d.item = t.item /\ d.act = t.by
    BY <2>1 DEF Report, EventsAreApart, ToldByTheActThatRan
  <2>4. QED
    BY <2>2, <2>3 DEF EveryEventIsReportedOnce, Reported
<1>2. QED
  BY Invariance, <1>1, PTL

\* _on_route and _on_dialog under any policy: what automation's page is let do was
\* judged and allowed, and an act answers one dialog at most, the one it expected.
THEOREM EverythingIsJudged == Spec => []NothingPassesUnjudged
<1>1. IInv => NothingPassesUnjudged
  <2> SUFFICES ASSUME IInv PROVE NothingPassesUnjudged
    OBVIOUS
  <2>1. /\ \A d \in log : JudgedRight(d)
        /\ \A d1, d2 \in log : {d1.outcome, d2.outcome} \subseteq {"accept", "dismiss"}
                               /\ d1.act = d2.act => d1 = d2
        /\ \A d \in log : ~d.held =>
              d.outcome \in {"passed", "left", "followed", "loaded", "cancelled"}
    BY DEF IInv, Report, Judgements, OneAnswerForAnAct, OutcomesWithoutControl, Answered
  <2>2. QED
    BY <2>1 DEF NothingPassesUnjudged, JudgedRight
<1>2. QED
  BY Invariance, <1>1, PTL
=============================================================================
