------------------------------- MODULE Surface -------------------------------
(***************************************************************************)
(* The gated browser surface: acts of the automation, the requests,        *)
(* dialogs and popups they cause, and the session control that another     *)
(* process changes at any time.                                            *)
(*                                                                         *)
(* What an act causes is delivered by callbacks, in any order, while the   *)
(* act runs, after it, during the next one or after a person has taken     *)
(* the session.  The gate judges an action before it happens and each of   *)
(* its requests and dialogs when it arrives.  URLs, names and messages are *)
(* the classes the policy tells apart.                                     *)
(***************************************************************************)
EXTENDS Integers, Sequences, FiniteSets

CONSTANTS
    Acts,          \* the actions automation may perform
    HumanCauses,   \* what a person's own browsing may cause
    Policy,        \* the policy of the run
    ConfirmFlag,   \* --confirm-irreversible
    MaxActs,       \* bound: acts that reach the surface
    MaxPauses,     \* bound: times the automation pauses
    MaxDeeds       \* bound: things a person does

Any   == "any"          \* a rule's field that says nothing
NoUrl == [origin |-> "none", path |-> "none", query |-> "none", wellFormed |-> FALSE]
Blank == [NoUrl EXCEPT !.path = "blank"]    \* about:blank
NoDialog == [type |-> "none", message |-> "none", response |-> "none"]
NoAct == [kind |-> "none", confirmed |-> FALSE, dialog |-> NoDialog]
BLOCKING_EVENTS == {"navigation_blocked", "redirect_blocked", "redirect_off_policy",
    "request_blocked", "navigation_off_policy", "popup_closed", "download_blocked",
    "dialog_refused"}
EventKinds == BLOCKING_EVENTS \cup {"dialog_answered", "unexpected_dialog"}
Kinds == {"navigate", "click", "type_text", "select_option", "press_key", "scroll", "read_text"}

\* What the acts and a person may make happen in the page.
Effects == (UNION {UNION a.causes : a \in Acts}) \cup HumanCauses

ASSUME Assumptions ==
    /\ {MaxActs, MaxPauses, MaxDeeds} \subseteq Nat /\ ConfirmFlag \in BOOLEAN
    /\ Policy.handling \in {"block", "confirm", "escalate"}
    /\ \A a \in Acts :
        /\ a.kind \in Kinds /\ a.confirmed \in BOOLEAN
        /\ a.dialog # NoDialog =>
            /\ a.kind = "click"
            /\ \E response \in {"accept", "dismiss"} : a.dialog =
                [type |-> a.dialog.type, message |-> a.dialog.message, response |-> response]
    \* what a page does: a navigation goes to a URL, and where that leads are URLs
    /\ \A e \in Effects :
        /\ e.type \in {"subresource", "navigation", "scheme", "popup", "download", "dialog"}
        /\ e.type = "navigation" =>
            e.url # NoUrl /\ e.hops \in Seq({e.hops[i] : i \in DOMAIN e.hops} \ {NoUrl})
    \* a surface is only used through a GatedSurface, so its guards are installed

VARIABLES
    control,       \* who holds the session file: automation, nobody, human, over
    main,          \* what the automation's thread does: its stage and its act
    lastAct,       \* _last_act, the number of the last act
    lastAction,    \* _last_action, its kind, which requests are judged with
    expected,      \* _expected_dialog
    dialogSeen,    \* _dialog_seen
    confirmedNow,  \* _confirmed_now
    pending,       \* effects caused and not yet delivered
    fetching,      \* navigations whose first hop is being fetched
    events,        \* _events, not yet collected
    pauses, deeds, \* how often the automation paused, and a person did something
    log,           \* history: what became of each effect
    told,          \* history: which events the caller was told, in which act's result
    passed         \* history: the acts whose result was ok

counts == <<pauses, deeds>>
surface == <<lastAct, lastAction, expected, dialogSeen, confirmedNow>>
history == <<log, told, passed>>
vars == <<control, main, surface, pending, fetching, events, counts, history>>

-----------------------------------------------------------------------------
\* PolicyGate.  An unsafe path is one normalize_path refuses.
UrlBlocked(u, requireAllow) ==
    \/ ~u.wellFormed
    \/ u.origin \notin Policy.origins
    \/ u.path = "unsafe"
    \/ u.path \in Policy.deny
    \/ requireAllow /\ u.path \notin Policy.allow
    \/ u.query \in Policy.denyQuery

PressedLikeClick(rule, p) ==
    rule.action = "click" /\ p.action = "press_key" /\ p.key = "Enter" /\ p.text # "none"
RuleMatches(rule, p) ==
    LET paths == {p.frame.path} \cup (IF p.phase = "navigation" THEN {p.url.path} ELSE {})
    IN  /\ rule.action \in {Any, p.action} \/ PressedLikeClick(rule, p)
        /\ rule.text \in {Any, p.text}
        /\ rule.path = Any \/ "unsafe" \in paths \/ rule.path \in paths
        /\ rule.message \in {Any, p.message}
        /\ rule.response \in {Any, p.response}
Irreversible(p) ==
    p.declared = "irreversible" \/ \E rule \in Policy.irreversible : RuleMatches(rule, p)

\* The decision: allow, block, or what the policy does with the irreversible.
Check(p) ==
    IF p.phase = "subresource" THEN IF UrlBlocked(p.url, FALSE) THEN "block" ELSE "allow"
    ELSE IF \/ p.action \notin Policy.actions
            \/ UrlBlocked(p.frame, TRUE) /\ ~(p.frame = Blank /\ p.action = "navigate")
            \/ p.url # NoUrl /\ UrlBlocked(p.url, TRUE)
         THEN "block"
    ELSE IF Irreversible(p) THEN Policy.handling ELSE "allow"

\* GatedSurface._refusal, for a confirmation that is given or not.
Refused(decision, confirmed) ==
    \/ decision \in {"block", "escalate"}
    \/ decision = "confirm" /\ ~ConfirmFlag /\ ~confirmed

\* What the gate judges: an action, a request of an act of this kind, a dialog.
Judged == [phase |-> "action", action |-> "click", frame |-> Blank, url |-> NoUrl,
           text |-> "none", key |-> "none", declared |-> "safe",
           message |-> "none", response |-> "none"]
Proposal(a) ==
    [Judged EXCEPT !.action = a.kind, !.frame = a.frame, !.url = a.url, !.text = a.text,
                   !.key = a.key, !.declared = a.declared]
RequestOf(kind, phase, frame, url) ==
    [Judged EXCEPT !.phase = phase, !.action = kind, !.frame = frame, !.url = url]
DialogOf(a, message) ==
    [Judged EXCEPT !.phase = "dialog", !.frame = a.frame, !.text = a.text,
                   !.declared = a.declared, !.message = message, !.response = a.dialog.response]

-----------------------------------------------------------------------------
Idle == [stage |-> "idle", act |-> NoAct, failure |-> FALSE]

Init ==
    /\ control = "automation"
    /\ main = Idle
    /\ lastAct = 0 /\ lastAction = "navigate"
    /\ expected = NoDialog /\ dialogSeen = FALSE /\ confirmedNow = FALSE
    /\ pending = {} /\ fetching = {} /\ events = {}
    /\ pauses = 0 /\ deeds = 0
    /\ log = {} /\ told = {} /\ passed = {}

Held   == control = "automation"
Acting == main.stage \in {"dispatch", "dialog", "grace"}

\* perform: an action is judged; one that is not refused is dispatched, and
\* the page does some of what it may do.
Perform(a) ==
    /\ main.stage = "idle" /\ lastAct < MaxActs
    /\ Held
    /\ ~Refused(Check(Proposal(a)), a.confirmed)
    /\ main' = [stage |-> "dispatch", act |-> a, failure |-> FALSE]
    /\ lastAct' = lastAct + 1 /\ lastAction' = a.kind
    /\ expected' = a.dialog /\ dialogSeen' = FALSE /\ confirmedNow' = a.confirmed
    /\ \E caused \in a.causes :
        pending' = pending \cup {[cause |-> <<"act", lastAct + 1>>, effect |-> e] : e \in caused}
    /\ UNCHANGED <<control, fetching, events, counts, history>>

\* Without control an act raises, and the run unwinds.  While it is paused the
\* thread waits, so only a session that was ended meets an act.
PerformWithoutControl ==
    /\ main.stage = "idle" /\ control = "over"
    /\ main' = [Idle EXCEPT !.stage = "stopped"]
    /\ UNCHANGED <<control, surface, pending, fetching, events, counts, history>>

\* The call to the page returns or fails; a failure skips the waits below.
Dispatched ==
    /\ main.stage = "dispatch"
    /\ \/ main' = [main EXCEPT !.stage = IF main.act.dialog # NoDialog THEN "dialog" ELSE "grace"]
       \/ main' = [main EXCEPT !.stage = "grace", !.failure = TRUE]
    /\ UNCHANGED <<control, surface, pending, fetching, events, counts, history>>

\* An expected dialog is waited for, up to a timeout.
DialogWaitEnds ==
    /\ main.stage = "dialog"
    /\ main' = [main EXCEPT !.stage = "grace", !.failure = ~dialogSeen]
    /\ UNCHANGED <<control, surface, pending, fetching, events, counts, history>>

Tells(es, by) == told' = told \cup {[item |-> e.item, by |-> by] : e \in es}
Ok(own) ==
    IF main.failure \/ \E e \in own : e.kind \in BLOCKING_EVENTS \cup {"unexpected_dialog"}
    THEN passed ELSE passed \cup {lastAct}

\* Mutant of TakesOut: the events of the act stay in the list.
LeavesIn(own) == UNCHANGED events
TakesOut(own) == events' = events \ own

\* Mutant of EndsAct: the confirmation is not taken back.
EndsActConfirmed == main' = Idle /\ expected' = NoDialog /\ UNCHANGED confirmedNow
EndsAct == main' = Idle /\ expected' = NoDialog /\ confirmedNow' = FALSE

\* The act is over: its own events are taken out of the list into its result.
Collect ==
    /\ main.stage = "grace"
    /\ LET own == {e \in events : e.act = lastAct} IN
        /\ TakesOut(own)
        /\ Tells(own, lastAct)
        /\ passed' = Ok(own)
    /\ EndsAct
    /\ UNCHANGED <<control, lastAct, lastAction, dialogSeen, pending, fetching, counts, log>>

\* The caller's wait collects what is left, of whichever act.
DrainEvents ==
    /\ main.stage = "idle" /\ events # {}
    /\ Tells(events, 0)
    /\ events' = {}
    /\ UNCHANGED <<control, main, surface, pending, fetching, counts, log, passed>>

-----------------------------------------------------------------------------
\* The callbacks.  held is who had control when the effect arrived.
Settles(item, held, outcome, kind) ==
    /\ log' = log \cup {[item |-> item, held |-> held, outcome |-> outcome,
                         act |-> IF Acting THEN lastAct ELSE 0, by |-> main.act,
                         action |-> lastAction]}
    /\ events' = events \cup
        (IF kind \in EventKinds THEN {[item |-> item, kind |-> kind, act |-> lastAct]} ELSE {})
Arrives(item, type) == item.effect.type = type
Gone(item) == pending' = pending \ {item}
Quiet == "quiet"    \* no event

Guard(e, phase, url) == Refused(Check(RequestOf(lastAction, phase, e.frame, url)), confirmedNow)

\* The rest of a redirect chain, which the browser follows by itself: requests
\* of their own, one for each hop.
Hops(item) ==
    IF item.effect.type # "navigation" THEN {}
    ELSE {[cause |-> item.cause,
           effect |-> [type |-> "hop", url |-> item.effect.hops[i], frame |-> item.effect.frame,
                       of |-> <<item.effect, i>>]] : i \in DOMAIN item.effect.hops}
Follow(item) == pending' = (pending \ {item}) \cup Hops(item)

\* _on_route: nothing is judged unless automation holds the session.
RouteUngated(item) ==
    /\ Arrives(item, "subresource") \/ Arrives(item, "navigation")
    /\ ~Held
    /\ Settles(item, FALSE, "passed", Quiet)
    /\ Follow(item)
    /\ UNCHANGED <<control, main, surface, fetching, counts, told, passed>>

RouteSubresource(item) ==
    /\ Arrives(item, "subresource")
    /\ Gone(item)
    /\ Held
    /\ IF Guard(item.effect, "subresource", item.effect.url)
       THEN Settles(item, TRUE, "aborted", "request_blocked")
       ELSE Settles(item, TRUE, "passed", Quiet)
    /\ UNCHANGED <<control, main, surface, fetching, counts, told, passed>>

\* A navigation that may go is fetched first; the thread goes on meanwhile.
RouteNavigation(item) ==
    /\ Arrives(item, "navigation")
    /\ Gone(item)
    /\ Held
    /\ IF Guard(item.effect, "navigation", item.effect.url)
       THEN Settles(item, TRUE, "no_content", "navigation_blocked") /\ UNCHANGED fetching
       ELSE Settles(item, TRUE, "fetched", Quiet) /\ fetching' = fetching \cup {item}
    /\ UNCHANGED <<control, main, surface, counts, told, passed>>

FetchFails(item) ==
    /\ item \in fetching
    /\ fetching' = fetching \ {item}
    /\ Settles(item, TRUE, "aborted", "navigation_blocked")
    /\ UNCHANGED <<control, main, surface, pending, counts, told, passed>>

\* Mutant of FetchReturns: a redirect is judged if automation still has control.
FetchReturnsGated(item) ==
    /\ item \in fetching
    /\ fetching' = fetching \ {item}
    /\ LET hops == item.effect.hops IN
        IF hops # <<>> /\ Held /\ Guard(item.effect, "navigation", hops[1])
        THEN Settles(item, TRUE, "no_content", "redirect_blocked") /\ UNCHANGED pending
        ELSE Settles(item, TRUE, "passed", Quiet) /\ Follow(item)
    /\ UNCHANGED <<control, main, surface, counts, told, passed>>

\* Where the first hop leads is judged by the guard the request came under,
\* whoever has control by then.
FetchReturns(item) ==
    /\ item \in fetching
    /\ fetching' = fetching \ {item}
    /\ LET hops == item.effect.hops IN
        IF hops # <<>> /\ Guard(item.effect, "navigation", hops[1])
        THEN Settles(item, TRUE, "no_content", "redirect_blocked") /\ UNCHANGED pending
        ELSE Settles(item, TRUE, "passed", Quiet) /\ Follow(item)
    /\ UNCHANGED <<control, main, surface, counts, told, passed>>

\* _on_request: a later hop is only noticed.
LaterHop(item) ==
    /\ Arrives(item, "hop")
    /\ Gone(item)
    /\ Settles(item, Held, "followed",
               IF Held /\ Guard(item.effect, "navigation", item.effect.url)
               THEN "redirect_off_policy" ELSE Quiet)
    /\ UNCHANGED <<control, main, surface, fetching, counts, told, passed>>

\* _on_frame_navigated, _on_page, _on_download_blocked.
OddScheme(item) ==
    /\ Arrives(item, "scheme")
    /\ Gone(item)
    /\ Settles(item, Held, "loaded", IF Held THEN "navigation_off_policy" ELSE Quiet)
    /\ UNCHANGED <<control, main, surface, fetching, counts, told, passed>>
Popup(item) ==
    /\ Arrives(item, "popup")
    /\ Gone(item)
    /\ IF Held THEN Settles(item, TRUE, "closed", "popup_closed") ELSE Settles(item, FALSE, "left", Quiet)
    /\ UNCHANGED <<control, main, surface, fetching, counts, told, passed>>
Download(item) ==
    /\ Arrives(item, "download")
    /\ Gone(item)
    /\ Settles(item, Held, "cancelled", IF Held THEN "download_blocked" ELSE Quiet)
    /\ UNCHANGED <<control, main, surface, fetching, counts, told, passed>>

\* _on_dialog.
DialogLeft(item) ==
    /\ Arrives(item, "dialog")
    /\ Gone(item)
    /\ ~Held
    /\ Settles(item, FALSE, "left", Quiet)
    /\ UNCHANGED <<control, main, surface, fetching, counts, told, passed>>

Expected(e) == Acting /\ expected # NoDialog /\ e.dialog = expected.type /\ e.message = expected.message
DialogUnexpected(item) ==
    /\ Arrives(item, "dialog")
    /\ Gone(item)
    /\ Held /\ ~Expected(item.effect)
    /\ dialogSeen' = TRUE
    /\ Settles(item, TRUE, "dismissed", "unexpected_dialog")
    /\ UNCHANGED <<control, main, lastAct, lastAction, expected, confirmedNow, fetching, counts, told, passed>>
DialogExpected(item) ==
    /\ Arrives(item, "dialog")
    /\ Gone(item)
    /\ Held /\ Expected(item.effect)
    /\ dialogSeen' = TRUE /\ expected' = NoDialog
    /\ IF Refused(Check(DialogOf(main.act, item.effect.message)), confirmedNow)
       THEN Settles(item, TRUE, "dismissed", "dialog_refused")
       ELSE Settles(item, TRUE, expected.response, "dialog_answered")
    /\ UNCHANGED <<control, main, lastAct, lastAction, confirmedNow, fetching, counts, told, passed>>

-----------------------------------------------------------------------------
\* The session file: the automation pauses itself between two acts, the other
\* changes come from the ops command in a process of its own.
Pause ==
    /\ main.stage = "idle" /\ Held /\ pauses < MaxPauses
    /\ control' = "nobody"
    /\ pauses' = pauses + 1
    /\ UNCHANGED <<main, surface, pending, fetching, events, deeds, history>>
Take ==
    /\ control = "nobody" /\ control' = "human"
    /\ UNCHANGED <<main, surface, pending, fetching, events, counts, history>>
HandBack ==
    /\ control = "human" /\ control' = "automation"
    /\ UNCHANGED <<main, surface, pending, fetching, events, counts, history>>
Abort ==
    /\ control # "over" /\ control' = "over"
    /\ UNCHANGED <<main, surface, pending, fetching, events, counts, history>>

\* A person works in the page.
Browse ==
    /\ control = "human" /\ deeds < MaxDeeds
    /\ deeds' = deeds + 1
    /\ \E e \in HumanCauses : pending' = pending \cup {[cause |-> <<"human", deeds + 1>>, effect |-> e]}
    /\ UNCHANGED <<control, main, surface, fetching, events, pauses, history>>

Next ==
    \/ \E a \in Acts : Perform(a)
    \/ PerformWithoutControl \/ Dispatched \/ DialogWaitEnds \/ Collect \/ DrainEvents
    \/ \E item \in pending :
        \/ RouteUngated(item) \/ RouteSubresource(item) \/ RouteNavigation(item)
        \/ LaterHop(item) \/ OddScheme(item) \/ Popup(item) \/ Download(item)
        \/ DialogLeft(item) \/ DialogUnexpected(item) \/ DialogExpected(item)
    \/ \E item \in fetching : FetchFails(item) \/ FetchReturns(item)
    \/ Pause \/ Take \/ HandBack \/ Abort \/ Browse

Spec == Init /\ [][Next]_vars

-----------------------------------------------------------------------------
TypeOK ==
    /\ control \in {"automation", "nobody", "human", "over"}
    /\ main.stage \in {"idle", "dispatch", "dialog", "grace", "stopped"}
    /\ Acting <=> main.act # NoAct
    /\ lastAct \in 0..MaxActs /\ lastAction \in Kinds /\ deeds \in 0..MaxDeeds /\ pauses \in 0..MaxPauses
    \* a dialog is expected, and a confirmation given, by the act that runs
    /\ expected \in {NoDialog, main.act.dialog}
    /\ confirmedNow = main.act.confirmed
    /\ dialogSeen \in BOOLEAN
    /\ pending \cap fetching = {}
    /\ \A e \in events : e.kind \in EventKinds /\ e.act \in 0..lastAct
    /\ \A t \in told : t.by \in 0..lastAct
    /\ passed \subseteq 1..lastAct

Refusals == {"aborted", "no_content", "closed", "dismissed"}

\* What the surface refused or answered while automation held the session is
\* told exactly once: in the result of the act that ran when it happened, which
\* is then no success unless it was the answer it expected, or, when no act ran,
\* by a later drain (the split of _events at the end of act, drain_events).
EveryEventIsReportedOnce ==
    /\ \A t \in told : \A e \in events : t.item # e.item
    /\ \A t1, t2 \in told : t1.item = t2.item => t1 = t2
    /\ \A d \in log :
        LET reported == \/ \E e \in events : e.item = d.item
                        \/ \E t \in told : t.item = d.item
        IN  /\ d.held /\ d.outcome \in Refusals \cup {"accept", "dismiss"} => reported
            /\ ~d.held => ~reported
            /\ d.held /\ d.act \in passed => d.outcome \notin Refusals
    /\ \A t \in told : t.by # 0 => \E d \in log : d.item = t.item /\ d.act = t.by

\* Somebody allowed it: the decision is allow, or confirm with the flag or a
\* confirmation of the act that runs.
Allowed(p, d) ==
    \/ Check(p) = "allow"
    \/ Check(p) = "confirm" /\ (ConfirmFlag \/ d.by.confirmed)

\* Nothing that arrives while automation holds the session passes unjudged.  No
\* navigation or resource off the policy, and no first redirect to one, even
\* when another person takes the session while it is fetched.  Where a
\* confirmation is needed an act that has it is running.  A dialog is accepted
\* for the act that expected it, judged with that act's target and risk, and for
\* each act at most one is answered.  What arrives under nobody's or a person's
\* control is left alone (_on_route, _on_dialog, GatedSurface's guards).
NothingPassesUnjudged ==
    /\ \A d \in log : LET e == d.item.effect IN d.held =>
        /\ e.type = "subresource" /\ d.outcome = "passed" => ~UrlBlocked(e.url, FALSE)
        /\ d.outcome = "fetched" =>
            ~UrlBlocked(e.url, TRUE) /\ Allowed(RequestOf(d.action, "navigation", e.frame, e.url), d)
        /\ e.type = "navigation" /\ d.outcome = "passed" /\ e.hops # <<>> =>
            /\ ~UrlBlocked(e.hops[1], TRUE)
            /\ Allowed(RequestOf(d.action, "navigation", e.frame, e.hops[1]), d)
        /\ d.outcome = "accept" =>
            /\ d.by.dialog = [type |-> e.dialog, message |-> e.message, response |-> "accept"]
            /\ Allowed(DialogOf(d.by, e.message), d)
    /\ \A d1, d2 \in log :
        {d1.outcome, d2.outcome} \subseteq {"accept", "dismiss"} /\ d1.act = d2.act => d1 = d2
    /\ \A d \in log : ~d.held => d.outcome \in {"passed", "left", "followed", "loaded", "cancelled"}
=============================================================================
