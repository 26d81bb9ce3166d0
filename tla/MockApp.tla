------------------------------- MODULE MockApp -------------------------------
(***************************************************************************)
(* CoreLedger, the application capabilities are recorded against: requests *)
(* of several browsers and of the /__control surface, each on a thread of  *)
(* its own, meet in the armed faults (a lock), the ledger of sub-accounts  *)
(* (a lock) and the session tokens.                                        *)
(*                                                                         *)
(* A route is the sequence of what it does to shared state or decides; a   *)
(* request is at one of these steps.  Pages, wording, amounts and the      *)
(* query string are left out; an input is good or bad.                     *)
(***************************************************************************)
EXTENDS Integers, Sequences, FiniteSets

CONSTANTS
    Clients,      \* who makes requests, one at a time each: a window, a test, a tool
    Browser,      \* client -> the browser, with its cookies, it belongs to
    Members,      \* the seeded members
    Restricted,   \* those no operator role may open
    Unknown,      \* a member number nobody has
    Inputs,       \* client -> the requests it makes
    MaxRequests,  \* bound: requests made in all
    MaxTimes      \* bound: the largest count a fault is armed with

Sites == [permission_denied |-> {"create", "detail"},
          app_error         |-> {"detail", "search", "create"},
          session_expired   |-> {"detail", "create"}]
Sited == DOMAIN Sites
Faults == Sited \cup {"not_found", "validation_error", "interstitial", "slow", "layout_drift"}

\* A count is how often a fault fires; Always is null, Unset was not given.
Always == -1
Unset  == -2
Counts == {Always} \cup 1..MaxTimes
CountOf(f, times) ==
    IF times # Unset THEN times ELSE IF f = "session_expired" THEN 1 ELSE Always

\* The site of a sited fault: the one asked for, or the first of its sites.
SiteOf(f, site) ==
    IF f \notin Sited THEN ""
    ELSE IF site # "" THEN site
    ELSE [permission_denied |-> "create", app_error |-> "detail", session_expired |-> "detail"][f]

\* What a request does, in order: a fault is asked for at the step of its
\* name; the other steps decide on the request, or read or write the ledger.
Steps == [
    search       |-> <<"app_error", "layout_drift", "query", "not_found", "directory">>,
    detail       |-> <<"session_expired", "slow", "app_error", "member",
                       "permission_denied", "restricted", "interstitial", "page">>,
    form         |-> <<"member", "restricted", "page">>,
    create       |-> <<"session_expired", "app_error", "member", "permission_denied",
                       "restricted", "validation_error", "input", "open">>,
    confirmation |-> <<"confirm">>,
    login        |-> <<"credentials">>,
    logout       |-> <<"revoke">>,
    arm          |-> <<"arm">>,
    clear        |-> <<"clear">>,
    reset        |-> <<"reset_faults", "reset_ledger">>]
Routes == DOMAIN Steps
LoginRequired == {"search", "detail", "form", "create", "confirmation"}

Ids     == 1..MaxRequests
Browsers == {Browser[c] : c \in Clients}
Numbers == Members \X Ids        \* 10003-S01 is <<member, 1>>
None    == <<>>
Nobody  == "nobody"

ASSUME Assumptions ==
    /\ Restricted \subseteq Members
    /\ Unknown \notin Members
    /\ Nobody \notin Clients
    /\ Clients \subseteq DOMAIN Browser
    /\ MaxRequests \in Nat /\ MaxTimes \in Nat \ {0}
    /\ \A c \in Clients : \A r \in Inputs[c] :
        /\ r.route \in Routes
        /\ r.member \in Members \cup {Unknown}
        /\ r.good \in BOOLEAN
        /\ r.inject \in SUBSET [fault : Faults, site : {"", "search", "detail", "create"}]
        /\ \A i \in r.inject : i.fault = "session_expired" => i.site = ""
        /\ r.fault \in Faults
        /\ r.times \in Counts \cup {0, Unset}
        /\ r.site \in {"", "search", "detail", "create"}

VARIABLES
    armed,      \* InjectionState._armed: fault -> its count and site, or None
    faultLock,  \* InjectionState._lock: who holds it
    ledger,     \* Ledger.subaccounts: number -> the request that opened it, or 0
    ledgerLock, \* Ledger._lock
    sessions,   \* SessionStore._expiry: token -> none, live, stale, gone
    cookie,     \* the session token in each browser's cookie jar, 0 if none
    req,        \* each client's request
    requests,   \* how many were made
    mine,       \* what a client's last answered create told it
    arming,     \* history: what each fault was last armed with, and its firings
    issued      \* history: whom each number was given to since the last reset

shared == <<armed, faultLock, ledger, ledgerLock, sessions>>
history == <<arming, issued>>
vars == <<armed, faultLock, ledger, ledgerLock, sessions, cookie, req, requests,
          mine, arming, issued>>

Answers == {"expired", "error", "denied", "missing", "page", "redirect", "invalid",
            "created", "confirmed", "signed_in", "signed_out", "ok", "bad"}

Idle == [stage |-> "idle"]
Tokens == 0..MaxRequests
Requests ==
    [stage : {"check", "run", "look", "answered"}, id : Ids, in : UNION {Inputs[c] : c \in Clients}, token : Tokens,
     at : 1..9, hits : SUBSET Faults, count : Counts \cup 0..MaxRequests + 1,
     number : Numbers \cup {None}, shown : 0..MaxRequests, answer : Answers \cup {""}]

\* Types.  A request whose thread is inside a locked section holds that lock.
TypeOK ==
    /\ armed \in [Faults -> {None} \cup [times : Counts,
                                         site : {"", "search", "detail", "create"}]]
    /\ {faultLock, ledgerLock} \subseteq Clients \cup {Nobody}
    /\ ledger \in [Numbers -> 0..MaxRequests]
    /\ sessions \in [Ids -> {"none", "live", "stale", "gone"}]
    /\ cookie \in [Browsers -> Tokens]
    /\ req \in [Clients -> {Idle} \cup Requests]
    /\ requests \in 0..MaxRequests
    /\ mine \in [Clients -> [id : 0..MaxRequests, number : Numbers \cup {None}]]
    /\ arming \in [Faults -> [times : Counts \cup {0}, fired : Nat, ended : BOOLEAN]]
    /\ issued \in [Numbers -> SUBSET Ids]
    /\ \A c \in Clients : c \in {faultLock, ledgerLock} <=> req[c].stage = "look"

Init ==
    /\ armed = [f \in Faults |-> None]
    /\ faultLock = Nobody /\ ledgerLock = Nobody
    /\ ledger = [n \in Numbers |-> 0]
    /\ sessions = [t \in Ids |-> "none"]
    /\ cookie = [b \in Browsers |-> 0]
    /\ req = [c \in Clients |-> Idle]
    /\ requests = 0
    /\ mine = [c \in Clients |-> [id |-> 0, number |-> None]]
    /\ arming = [f \in Faults |-> [times |-> 0, fired |-> 0, ended |-> TRUE]]
    /\ issued = [n \in Numbers |-> {}]

-----------------------------------------------------------------------------
\* The request of c at its step, and what becomes of it.
Route(c) == req[c].in.route
Member(c) == req[c].in.member
At(c, stage, step) ==
    /\ req[c].stage = stage
    /\ Steps[Route(c)][req[c].at] = step
Goes(c, r) == req' = [req EXCEPT ![c] = r]
Passes(c) == Goes(c, [req[c] EXCEPT !.at = @ + 1, !.stage = "run"])
Answered(c, answer) == [req[c] EXCEPT !.stage = "answered", !.answer = answer]
Answer(c, answer) == Goes(c, Answered(c, answer))
Decide(c, step, stop, answer) ==
    /\ At(c, "run", step)
    /\ IF stop THEN Answer(c, answer) ELSE Passes(c)
    /\ UNCHANGED <<shared, history, cookie, requests, mine>>

\* A client asks.  The cookie goes along as it is now; a confirmation is asked
\* for the number the client was last told.
Request(c, in) ==
    /\ req[c].stage = "idle"
    /\ requests < MaxRequests
    /\ in.route = "confirmation" => mine[c].number # None
    /\ requests' = requests + 1
    /\ Goes(c, [stage |-> IF in.route \in LoginRequired THEN "check" ELSE "run",
                id |-> requests + 1, in |-> in, token |-> cookie[Browser[c]], at |-> 1, hits |-> {},
                count |-> 0, number |-> IF in.route = "confirmation" THEN mine[c].number ELSE None,
                shown |-> 0, answer |-> ""])
    /\ UNCHANGED <<shared, history, cookie, mine>>

\* login_required: the token is checked once, before the view runs.
CheckSession(c) ==
    /\ req[c].stage = "check"
    /\ IF req[c].token # 0 /\ sessions[req[c].token] = "live"
       THEN Goes(c, [req[c] EXCEPT !.stage = "run"])
       ELSE Answer(c, "expired")
    /\ UNCHANGED <<shared, history, cookie, requests, mine>>

Revoke(c) ==
    IF req[c].token = 0 THEN sessions ELSE [sessions EXCEPT ![req[c].token] = "gone"]

\* POST /login: a new token, named by its request, is put in the answer's cookie.
SignIn(c) ==
    /\ At(c, "run", "credentials")
    /\ IF req[c].in.good
       THEN /\ sessions' = [sessions EXCEPT ![req[c].id] = "live"]
            /\ Answer(c, "signed_in")
       ELSE Answer(c, "page") /\ UNCHANGED sessions
    /\ UNCHANGED <<armed, faultLock, ledger, ledgerLock, history, cookie, requests, mine>>

SignOut(c) ==
    /\ At(c, "run", "revoke")
    /\ sessions' = Revoke(c)
    /\ Answer(c, "signed_out")
    /\ UNCHANGED <<armed, faultLock, ledger, ledgerLock, history, cookie, requests, mine>>

-----------------------------------------------------------------------------
\* InjectionState.fire.  A fault asked for by the request itself (?inject=)
\* never looks at the armed ones.
FaultAt(c) == Steps[Route(c)][req[c].at]
SiteMatches(f, site, route) == f \in Sited => site = route
OneShot(c) == {i \in req[c].in.inject : i.fault = FaultAt(c)}

\* What the view makes of a fault that fired, or did not.
AfterFault(c, fired) ==
    IF fired /\ FaultAt(c) = "session_expired" THEN Answered(c, "expired")
    ELSE IF fired /\ FaultAt(c) = "app_error" THEN Answered(c, "error")
    ELSE [req[c] EXCEPT !.stage = "run", !.at = @ + 1,
                        !.hits = IF fired THEN @ \cup {FaultAt(c)} ELSE @]
SessionsAfter(c, fired) ==
    IF fired /\ FaultAt(c) = "session_expired" THEN Revoke(c) ELSE sessions

FireOneShot(c) ==
    /\ req[c].stage = "run" /\ FaultAt(c) \in Faults
    /\ OneShot(c) # {}
    /\ \E i \in OneShot(c), fired \in BOOLEAN :
        /\ fired <=> SiteMatches(i.fault, SiteOf(i.fault, i.site), Route(c))
        /\ Goes(c, AfterFault(c, fired))
        /\ sessions' = SessionsAfter(c, fired)
    /\ UNCHANGED <<armed, faultLock, ledger, ledgerLock, history, cookie, requests, mine>>

\* with self._lock: a fault that is not armed here is passed over ...
MayLock(lock) == lock = Nobody
Applies(c) == LET a == armed[FaultAt(c)] IN
    a # None /\ SiteMatches(FaultAt(c), a.site, Route(c))
\* Mutant of PassFault: returns with the lock held.
PassHoldingOn(c) ==
    /\ req[c].stage = "run" /\ FaultAt(c) \in Faults /\ OneShot(c) = {}
    /\ MayLock(faultLock)
    /\ ~Applies(c)
    /\ faultLock' = c
    /\ Goes(c, AfterFault(c, FALSE))
    /\ UNCHANGED <<armed, ledger, ledgerLock, sessions, history, cookie, requests, mine>>

PassFault(c) ==
    /\ req[c].stage = "run" /\ FaultAt(c) \in Faults /\ OneShot(c) = {}
    /\ MayLock(faultLock)
    /\ ~Applies(c)
    /\ Goes(c, AfterFault(c, FALSE))
    /\ UNCHANGED <<shared, history, cookie, requests, mine>>

\* ... one that is armed here is looked up ...
\* Mutant of LookFault: the fault is looked up without the lock.
LookUnlocked(c) ==
    /\ req[c].stage = "run" /\ FaultAt(c) \in Faults /\ OneShot(c) = {}
    /\ Applies(c)
    /\ Goes(c, [req[c] EXCEPT !.stage = "look", !.count = armed[FaultAt(c)].times])
    /\ UNCHANGED <<shared, history, cookie, requests, mine>>

LookFault(c) ==
    /\ req[c].stage = "run" /\ FaultAt(c) \in Faults /\ OneShot(c) = {}
    /\ MayLock(faultLock)
    /\ Applies(c)
    /\ faultLock' = c
    /\ Goes(c, [req[c] EXCEPT !.stage = "look", !.count = armed[FaultAt(c)].times])
    /\ UNCHANGED <<armed, ledger, ledgerLock, sessions, history, cookie, requests, mine>>

\* ... and consumed before the lock is let go.
Left(times) == times - 1
UseFault(c) ==
    /\ req[c].stage = "look" /\ FaultAt(c) \in Faults
    /\ faultLock' = Nobody
    /\ LET f == FaultAt(c)  left == Left(req[c].count) IN
        /\ Goes(c, [AfterFault(c, TRUE) EXCEPT !.count = 0])
        /\ sessions' = SessionsAfter(c, TRUE)
        /\ armed' = IF req[c].count = Always THEN armed
                    ELSE [armed EXCEPT ![f] = IF left <= 0 THEN None
                                              ELSE [times |-> left, site |-> armed[f].site]]
        /\ arming' = [arming EXCEPT ![f].fired = @ + 1]
    /\ UNCHANGED <<ledger, ledgerLock, issued, cookie, requests, mine>>

\* /__control: a count of 0, or a site the fault does not have, is refused.
Arm(c) ==
    /\ At(c, "run", "arm")
    /\ LET f == req[c].in.fault
           times == CountOf(f, req[c].in.times)
           site == SiteOf(f, req[c].in.site)
           valid == times # 0 /\ (f \in Sited => site \in Sites[f])
       IN IF valid
          THEN /\ MayLock(faultLock)
               /\ armed' = [armed EXCEPT ![f] = [times |-> times, site |-> site]]
               /\ arming' = [arming EXCEPT ![f] = [times |-> times, fired |-> 0,
                                                   ended |-> FALSE]]
               /\ Answer(c, "ok")
          ELSE Answer(c, "bad") /\ UNCHANGED <<armed, arming>>
    /\ UNCHANGED <<faultLock, ledger, ledgerLock, sessions, issued, cookie, requests, mine>>

Clear(c) ==
    /\ At(c, "run", "clear")
    /\ MayLock(faultLock)
    /\ armed' = [armed EXCEPT ![req[c].in.fault] = None]
    /\ arming' = [arming EXCEPT ![req[c].in.fault].ended = TRUE]
    /\ Answer(c, "ok")
    /\ UNCHANGED <<faultLock, ledger, ledgerLock, sessions, issued, cookie, requests, mine>>

\* The reset clears the faults and then the ledger, under one lock each.
ResetFaults(c) ==
    /\ At(c, "run", "reset_faults")
    /\ MayLock(faultLock)
    /\ armed' = [f \in Faults |-> None]
    /\ arming' = [f \in Faults |-> [arming[f] EXCEPT !.ended = TRUE]]
    /\ Passes(c)
    /\ UNCHANGED <<faultLock, ledger, ledgerLock, sessions, issued, cookie, requests, mine>>

ResetLedger(c) ==
    /\ At(c, "run", "reset_ledger")
    /\ MayLock(ledgerLock)
    /\ ledger' = [n \in Numbers |-> 0]
    /\ issued' = [n \in Numbers |-> {}]
    /\ Answer(c, "ok")
    /\ UNCHANGED <<armed, faultLock, ledgerLock, sessions, arming, cookie, requests, mine>>

-----------------------------------------------------------------------------
\* The decisions of the views.
FindMember(c)     == Decide(c, "member", Member(c) \notin Members, "missing")
RefuseRestricted(c) ==
    Decide(c, "restricted", Member(c) \in Restricted \/ "permission_denied" \in req[c].hits, "denied")
ReadQuery(c)      == Decide(c, "query", ~req[c].in.good, "page")
LookUp(c)         ==
    Decide(c, "directory", TRUE,
           IF "not_found" \in req[c].hits \/ Member(c) \notin Members THEN "page" ELSE "redirect")
ShowPage(c)       == Decide(c, "page", TRUE, "page")
Validate(c)       ==
    Decide(c, "input", ~req[c].in.good \/ "validation_error" \in req[c].hits, "invalid")

\* Ledger.open_subaccount: numbers the member's accounts under the lock ...
Opened(m) == {n \in Numbers : n[1] = m /\ ledger[n] # 0}
\* Mutant of CountAccounts: the accounts are counted without the lock.
CountUnlocked(c) ==
    /\ At(c, "run", "open")
    /\ Goes(c, [req[c] EXCEPT !.stage = "look", !.count = Cardinality(Opened(Member(c))) + 1])
    /\ UNCHANGED <<shared, history, cookie, requests, mine>>

CountAccounts(c) ==
    /\ At(c, "run", "open")
    /\ MayLock(ledgerLock)
    /\ ledgerLock' = c
    /\ Goes(c, [req[c] EXCEPT !.stage = "look", !.count = Cardinality(Opened(Member(c))) + 1])
    /\ UNCHANGED <<armed, faultLock, ledger, sessions, history, cookie, requests, mine>>

\* ... and writes the new one before it is let go.
OpenAccount(c) ==
    /\ At(c, "look", "open")
    /\ ledgerLock' = Nobody
    /\ LET number == <<Member(c), req[c].count>> IN
        /\ ledger' = [ledger EXCEPT ![number] = req[c].id]
        /\ issued' = [issued EXCEPT ![number] = @ \cup {req[c].id}]
        /\ Goes(c, [Answered(c, "created") EXCEPT !.number = number, !.count = 0])
    /\ UNCHANGED <<armed, faultLock, sessions, arming, cookie, requests, mine>>

\* The confirmation reads the ledger without the lock.
Confirm(c) ==
    /\ At(c, "run", "confirm")
    /\ LET opened == ledger[req[c].number] IN
        Goes(c, [Answered(c, IF opened = 0 THEN "missing" ELSE "confirmed") EXCEPT !.shown = opened])
    /\ UNCHANGED <<shared, history, cookie, requests, mine>>

\* The answer arrives: its cookie is set or deleted, and it is remembered.
Receive(c) ==
    /\ req[c].stage = "answered"
    /\ cookie' = [cookie EXCEPT ![Browser[c]] = CASE req[c].answer = "signed_in" -> req[c].id
                                         [] req[c].answer \in {"expired", "signed_out"} -> 0
                                         [] OTHER -> @]
    /\ mine' = IF req[c].answer = "created"
               THEN [mine EXCEPT ![c] = [id |-> req[c].id, number |-> req[c].number]] ELSE mine
    /\ Goes(c, Idle)
    /\ UNCHANGED <<shared, history, requests>>

\* A session outlives its ttl.
Expire(t) ==
    /\ sessions[t] = "live"
    /\ sessions' = [sessions EXCEPT ![t] = "stale"]
    /\ UNCHANGED <<armed, faultLock, ledger, ledgerLock, history, cookie, req, requests, mine>>

Serve(c) ==
    \/ CheckSession(c) \/ SignIn(c) \/ SignOut(c)
    \/ FireOneShot(c) \/ PassFault(c) \/ LookFault(c) \/ UseFault(c)
    \/ Arm(c) \/ Clear(c) \/ ResetFaults(c) \/ ResetLedger(c)
    \/ FindMember(c) \/ RefuseRestricted(c) \/ ReadQuery(c) \/ LookUp(c) \/ ShowPage(c)
    \/ Validate(c) \/ CountAccounts(c) \/ OpenAccount(c) \/ Confirm(c)

Next ==
    \/ \E c \in Clients : Serve(c) \/ Receive(c)
    \/ \E c \in Clients : \E in \in Inputs[c] : Request(c, in)
    \/ \E t \in Ids : Expire(t)

\* A thread keeps running; nobody has to ask, or to read an answer.
Fairness == \A c \in Clients : WF_vars(Serve(c))
Spec == Init /\ [][Next]_vars /\ Fairness

-----------------------------------------------------------------------------
\* A fault armed with a count fires exactly that often before it is gone, and
\* what is left always makes up the count (InjectionState.fire, arm and clear
\* from several threads).
FiresAsArmed ==
    \A f \in Faults : LET a == arming[f] IN
        IF armed[f] = None
        THEN a.ended \/ a.fired = a.times
        ELSE /\ ~a.ended
             /\ a.times = Always => armed[f].times = Always
             /\ a.times # Always => armed[f].times > 0 /\ armed[f].times + a.fired = a.times

\* Until the ledger is reset a number is given to one request and stands for
\* what that opened, and a client that asks for the number it was told sees its
\* own account and no other (Ledger.open_subaccount, subaccount_confirmation).
\* A request answered otherwise, by an expired session above all, created none.
AccountsMatchAnswers ==
    /\ \A n \in Numbers : issued[n] = IF ledger[n] = 0 THEN {} ELSE {ledger[n]}
    /\ \A c \in Clients : req[c].stage = "answered" =>
        /\ req[c].answer # "created" => \A n \in Numbers : ledger[n] # req[c].id
        /\ \/ req[c].in.route # "confirmation" \/ req[c].answer = "expired"
           \/ mine[c].id \notin issued[mine[c].number]
           \/ req[c].shown = mine[c].id

\* Every request is answered: no way through a view leaves a lock behind.
EveryRequestIsAnswered ==
    \A c \in Clients : req[c].stage \notin {"idle", "answered"} ~> req[c].stage = "answered"
=============================================================================
