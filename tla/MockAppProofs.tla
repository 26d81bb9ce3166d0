---------------------------- MODULE MockAppProofs ----------------------------
(***************************************************************************)
(* Theorems about MockApp, for any clients and browsers, members and       *)
(* inputs, any number of requests and any counts a fault is armed with.    *)
(* The invariant IInv says what a thread inside a locked section may rely  *)
(* on: the armed fault, or the member's accounts, are as it read them.     *)
(***************************************************************************)
EXTENDS MockApp, FiniteSetTheorems, TLAPS

Active == {"check", "run", "look"}
Here(c) == req[c].stage \in Active
Asked(c) == req[c].stage # "idle"

\* A request on its way is at a step of its route, and past the look at the
\* member only with a member there is.
OnItsRoute ==
    \A c \in Clients : Here(c) =>
        /\ req[c].at \in DOMAIN Steps[Route(c)]
        /\ Route(c) = "create" /\ req[c].at > 3 => Member(c) \in Members

\* A thread inside a locked section holds the lock of the step it is at.
LookHoldsTheLock ==
    \A c \in Clients :
        /\ faultLock = c <=> req[c].stage = "look" /\ FaultAt(c) \in Faults
        /\ ledgerLock = c <=> req[c].stage = "look" /\ FaultAt(c) = "open"

\* The fault a thread looked up is still armed as it was.
LookedUpIsArmed ==
    faultLock # Nobody =>
        /\ armed[FaultAt(faultLock)] # None
        /\ req[faultLock].count = armed[FaultAt(faultLock)].times

\* The accounts of a member are numbered one after the other.
NumberedInOrder ==
    \A m \in Members : \E k \in 0..MaxRequests :
        \A i \in Ids : ledger[<<m, i>>] # 0 <=> i <= k

\* The number a thread is about to give is the first that is free.
CountedIsNext ==
    ledgerLock # Nobody =>
        LET m == Member(ledgerLock)  k == req[ledgerLock].count IN
            /\ k \in Ids
            /\ \A i \in Ids : ledger[<<m, i>>] # 0 <=> i < k

\* Requests have numbers of their own, and an account that of the request that
\* opened it, and was told so.
IdsAreApart ==
    /\ \A c \in Clients : mine[c].id <= requests
    /\ \A n \in Numbers : ledger[n] <= requests
    /\ \A c, d \in Clients : Asked(c) =>
        /\ req[c].id <= requests
        /\ mine[d].id # req[c].id
        /\ Asked(d) /\ c # d => req[c].id # req[d].id
        /\ req[c].stage # "answered" \/ req[c].answer # "created" =>
              \A n \in Numbers : ledger[n] # req[c].id
    /\ \A n, o \in Numbers : ledger[n] # 0 /\ ledger[n] = ledger[o] => n = o

IssuedAsOpened == \A n \in Numbers : issued[n] = IF ledger[n] = 0 THEN {} ELSE {ledger[n]}

\* A confirmation asks for the number its client was told, and shows what stands
\* there unless that changed since.
ShownIsMine ==
    \A c \in Clients : Asked(c) /\ Route(c) = "confirmation" =>
        /\ mine[c].number \in Numbers /\ req[c].number = mine[c].number
        /\ req[c].stage = "answered" /\ req[c].answer # "expired" =>
              (ledger[mine[c].number] = mine[c].id /\ mine[c].id # 0 => req[c].shown = mine[c].id)

\* What does not depend on the faults that are armed.
Accounts ==
    /\ OnItsRoute
    /\ LookHoldsTheLock
    /\ NumberedInOrder
    /\ CountedIsNext
    /\ IdsAreApart
    /\ IssuedAsOpened
    /\ ShownIsMine

IInv == TypeOK /\ Accounts /\ LookedUpIsArmed /\ FiresAsArmed

-----------------------------------------------------------------------------
(* The routes and the inputs.                                               *)

LEMMA FaultsAre ==
    /\ Sited = {"permission_denied", "app_error", "session_expired"}
    /\ Faults = {"permission_denied", "app_error", "session_expired", "not_found",
                 "validation_error", "interstitial", "slow", "layout_drift"}
BY DEF Faults, Sited, Sites

\* The steps a route may end with.
Final == {"directory", "page", "confirm", "credentials", "revoke", "arm", "clear",
          "reset_ledger", "open"}

\* After every other step there is one more.
LEMMA AfterAStep ==
    ASSUME NEW r \in Routes, NEW i \in DOMAIN Steps[r]
    PROVE  /\ i \in 1..8
           /\ Steps[r][i] \notin Final => i + 1 \in DOMAIN Steps[r]
           /\ r = "create" /\ i = 3 => Steps[r][i] = "member"
           /\ Steps[r][i] = "open" => r = "create" /\ i > 3
           /\ Steps[r][i] = "confirm" <=> r = "confirmation"
<1>1. Routes = {"search", "detail", "form", "create", "confirmation", "login", "logout",
                "arm", "clear", "reset"}
  BY DEF Routes, Steps
<1>2. CASE r = "search"
  <2> DEFINE s == <<"app_error", "layout_drift", "query", "not_found", "directory">>
  <2>1. Steps[r] = s /\ DOMAIN s = 1..5
    BY <1>2 DEF Steps
  <2>2. /\ s[1] = "app_error" /\ s[2] = "layout_drift" /\ s[3] = "query"
        /\ s[4] = "not_found" /\ s[5] = "directory"
    OBVIOUS
  <2> HIDE DEF s
  <2>3. i = 1 \/ i = 2 \/ i = 3 \/ i = 4 \/ i = 5
    BY <2>1
  <2>4. s[i] \notin Final => i # 5
    BY <2>2 DEF Final
  <2>5. s[i] \notin Final => i + 1 \in DOMAIN s
    BY <2>1, <2>3, <2>4
  <2>6. QED
    BY <1>2, <2>1, <2>2, <2>3, <2>5
<1>3. CASE r = "detail"
  <2> DEFINE s == <<"session_expired", "slow", "app_error", "member",
                  "permission_denied", "restricted", "interstitial", "page">>
  <2>1. Steps[r] = s /\ DOMAIN s = 1..8
    BY <1>3 DEF Steps
  <2>2. /\ s[1] = "session_expired" /\ s[2] = "slow" /\ s[3] = "app_error" /\ s[4] = "member"
        /\ s[5] = "permission_denied" /\ s[6] = "restricted" /\ s[7] = "interstitial" /\ s[8] = "page"
    OBVIOUS
  <2> HIDE DEF s
  <2>3. i = 1 \/ i = 2 \/ i = 3 \/ i = 4 \/ i = 5 \/ i = 6 \/ i = 7 \/ i = 8
    BY <2>1
  <2>4. s[i] \notin Final => i # 8
    BY <2>2 DEF Final
  <2>5. s[i] \notin Final => i + 1 \in DOMAIN s
    BY <2>1, <2>3, <2>4
  <2>6. QED
    BY <1>3, <2>1, <2>2, <2>3, <2>5
<1>4. CASE r = "form"
  <2> DEFINE s == <<"member", "restricted", "page">>
  <2>1. Steps[r] = s /\ DOMAIN s = 1..3
    BY <1>4 DEF Steps
  <2>2. s[1] = "member" /\ s[2] = "restricted" /\ s[3] = "page"
    OBVIOUS
  <2> HIDE DEF s
  <2>3. i = 1 \/ i = 2 \/ i = 3
    BY <2>1
  <2>4. s[i] \notin Final => i # 3
    BY <2>2 DEF Final
  <2>5. s[i] \notin Final => i + 1 \in DOMAIN s
    BY <2>1, <2>3, <2>4
  <2>6. QED
    BY <1>4, <2>1, <2>2, <2>3, <2>5
<1>5. CASE r = "create"
  <2> DEFINE s == <<"session_expired", "app_error", "member", "permission_denied",
                  "restricted", "validation_error", "input", "open">>
  <2>1. Steps[r] = s /\ DOMAIN s = 1..8
    BY <1>5 DEF Steps
  <2>2. /\ s[1] = "session_expired" /\ s[2] = "app_error" /\ s[3] = "member" /\ s[4] = "permission_denied"
        /\ s[5] = "restricted" /\ s[6] = "validation_error" /\ s[7] = "input" /\ s[8] = "open"
    OBVIOUS
  <2> HIDE DEF s
  <2>3. i = 1 \/ i = 2 \/ i = 3 \/ i = 4 \/ i = 5 \/ i = 6 \/ i = 7 \/ i = 8
    BY <2>1
  <2>4. s[i] \notin Final => i # 8
    BY <2>2 DEF Final
  <2>5. s[i] \notin Final => i + 1 \in DOMAIN s
    BY <2>1, <2>3, <2>4
  <2>6. QED
    BY <1>5, <2>1, <2>2, <2>3, <2>5
<1>6. CASE r = "confirmation"
  <2> DEFINE s == <<"confirm">>
  <2>1. Steps[r] = s /\ DOMAIN s = 1..1
    BY <1>6 DEF Steps
  <2>2. s[1] = "confirm"
    OBVIOUS
  <2> HIDE DEF s
  <2>3. i = 1
    BY <2>1
  <2>4. s[i] \notin Final => i # 1
    BY <2>2 DEF Final
  <2>5. s[i] \notin Final => i + 1 \in DOMAIN s
    BY <2>1, <2>3, <2>4
  <2>6. QED
    BY <1>6, <2>1, <2>2, <2>3, <2>5
<1>7. CASE r = "login"
  <2> DEFINE s == <<"credentials">>
  <2>1. Steps[r] = s /\ DOMAIN s = 1..1
    BY <1>7 DEF Steps
  <2>2. s[1] = "credentials"
    OBVIOUS
  <2> HIDE DEF s
  <2>3. i = 1
    BY <2>1
  <2>4. s[i] \notin Final => i # 1
    BY <2>2 DEF Final
  <2>5. s[i] \notin Final => i + 1 \in DOMAIN s
    BY <2>1, <2>3, <2>4
  <2>6. QED
    BY <1>7, <2>1, <2>2, <2>3, <2>5
<1>8. CASE r = "logout"
  <2> DEFINE s == <<"revoke">>
  <2>1. Steps[r] = s /\ DOMAIN s = 1..1
    BY <1>8 DEF Steps
  <2>2. s[1] = "revoke"
    OBVIOUS
  <2> HIDE DEF s
  <2>3. i = 1
    BY <2>1
  <2>4. s[i] \notin Final => i # 1
    BY <2>2 DEF Final
  <2>5. s[i] \notin Final => i + 1 \in DOMAIN s
    BY <2>1, <2>3, <2>4
  <2>6. QED
    BY <1>8, <2>1, <2>2, <2>3, <2>5
<1>9. CASE r = "arm"
  <2> DEFINE s == <<"arm">>
  <2>1. Steps[r] = s /\ DOMAIN s = 1..1
    BY <1>9 DEF Steps
  <2>2. s[1] = "arm"
    OBVIOUS
  <2> HIDE DEF s
  <2>3. i = 1
    BY <2>1
  <2>4. s[i] \notin Final => i # 1
    BY <2>2 DEF Final
  <2>5. s[i] \notin Final => i + 1 \in DOMAIN s
    BY <2>1, <2>3, <2>4
  <2>6. QED
    BY <1>9, <2>1, <2>2, <2>3, <2>5
<1>10. CASE r = "clear"
  <2> DEFINE s == <<"clear">>
  <2>1. Steps[r] = s /\ DOMAIN s = 1..1
    BY <1>10 DEF Steps
  <2>2. s[1] = "clear"
    OBVIOUS
  <2> HIDE DEF s
  <2>3. i = 1
    BY <2>1
  <2>4. s[i] \notin Final => i # 1
    BY <2>2 DEF Final
  <2>5. s[i] \notin Final => i + 1 \in DOMAIN s
    BY <2>1, <2>3, <2>4
  <2>6. QED
    BY <1>10, <2>1, <2>2, <2>3, <2>5
<1>11. CASE r = "reset"
  <2> DEFINE s == <<"reset_faults", "reset_ledger">>
  <2>1. Steps[r] = s /\ DOMAIN s = 1..2
    BY <1>11 DEF Steps
  <2>2. s[1] = "reset_faults" /\ s[2] = "reset_ledger"
    OBVIOUS
  <2> HIDE DEF s
  <2>3. i = 1 \/ i = 2
    BY <2>1
  <2>4. s[i] \notin Final => i # 2
    BY <2>2 DEF Final
  <2>5. s[i] \notin Final => i + 1 \in DOMAIN s
    BY <2>1, <2>3, <2>4
  <2>6. QED
    BY <1>11, <2>1, <2>2, <2>3, <2>5
<1>12. \/ r = "search" \/ r = "detail" \/ r = "form" \/ r = "create" \/ r = "confirmation"
       \/ r = "login" \/ r = "logout" \/ r = "arm" \/ r = "clear" \/ r = "reset"
  BY <1>1
<1>13. QED
  BY <1>12, <1>2, <1>3, <1>4, <1>5, <1>6, <1>7, <1>8, <1>9, <1>10, <1>11

LEMMA InputFacts ==
    ASSUME NEW in \in UNION {Inputs[c] : c \in Clients}
    PROVE  /\ in.route \in Routes
           /\ in.fault \in Faults
           /\ in.times \in Counts \cup {0, Unset}
           /\ in.site \in {"", "search", "detail", "create"}
<1>1. PICK c \in Clients : in \in Inputs[c]
  OBVIOUS
<1>2. QED
  BY <1>1, Assumptions

\* A request on its way, and at which step it is.
LEMMA HereFacts ==
    ASSUME IInv, NEW c \in Clients, Here(c)
    PROVE  /\ req[c] \in Requests
           /\ Route(c) \in Routes /\ req[c].at \in DOMAIN Steps[Route(c)]
           /\ req[c].at \in 1..8
           /\ FaultAt(c) \notin Final => req[c].at + 1 \in DOMAIN Steps[Route(c)]
           /\ Route(c) = "create" /\ req[c].at = 3 => FaultAt(c) = "member"
           /\ FaultAt(c) = "open" => Member(c) \in Members
           /\ FaultAt(c) = "confirm" <=> Route(c) = "confirmation"
           /\ faultLock = c \/ ledgerLock = c <=> req[c].stage = "look"
<1>1. req[c] \in Requests
  <2>1. req[c] \in {Idle} \cup Requests
    BY DEF IInv, TypeOK
  <2>2. QED
    BY <2>1 DEF Idle, Here, Active
<1>2. Route(c) \in Routes
  BY <1>1, InputFacts DEF Route, Requests
<1>3. /\ req[c].at \in DOMAIN Steps[Route(c)]
      /\ Route(c) = "create" /\ req[c].at > 3 => Member(c) \in Members
  BY DEF IInv, Accounts, OnItsRoute
<1>4. faultLock = c \/ ledgerLock = c <=> req[c].stage = "look"
  BY DEF IInv, TypeOK
<1>5. QED
  BY <1>1, <1>2, <1>3, <1>4, AfterAStep DEF FaultAt

LEMMA InitInv == Init => IInv
<1> SUFFICES ASSUME Init PROVE IInv
  OBVIOUS
<1> USE DEF Init
<1>1. \A c \in Clients : req[c] = Idle /\ c # Nobody /\ ~Here(c) /\ ~Asked(c)
  BY Assumptions DEF Idle, Here, Asked, Active
<1>2. MaxRequests \in Nat
  BY Assumptions
<1>3. TypeOK
  <2>1. 0 \in 0..MaxRequests
    BY <1>2
  <2>2. /\ armed \in [Faults -> {None} \cup [times : Counts,
                                            site : {"", "search", "detail", "create"}]]
        /\ ledger \in [Numbers -> 0..MaxRequests]
        /\ sessions \in [Ids -> {"none", "live", "stale", "gone"}]
        /\ cookie \in [Browsers -> Tokens]
        /\ req \in [Clients -> {Idle} \cup Requests]
        /\ mine \in [Clients -> [id : 0..MaxRequests, number : Numbers \cup {None}]]
        /\ issued \in [Numbers -> SUBSET Ids]
    BY <2>1 DEF Tokens
  <2>3. arming \in [Faults -> [times : Counts \cup {0}, fired : Nat, ended : BOOLEAN]]
    OBVIOUS
  <2>4. \A c \in Clients : c \in {faultLock, ledgerLock} <=> req[c].stage = "look"
    BY <1>1 DEF Idle
  <2>5. QED
    BY <2>1, <2>2, <2>3, <2>4 DEF TypeOK
<1>4. OnItsRoute /\ LookHoldsTheLock /\ LookedUpIsArmed /\ CountedIsNext /\ ShownIsMine
  BY <1>1 DEF OnItsRoute, LookHoldsTheLock, LookedUpIsArmed, CountedIsNext, ShownIsMine, Idle
<1>5. FiresAsArmed
  BY DEF FiresAsArmed
<1>6. NumberedInOrder
  <2>1. \A m \in Members : \A i \in Ids : <<m, i>> \in Numbers /\ ~(i <= 0)
    BY DEF Numbers, Ids
  <2>2. 0 \in 0..MaxRequests
    BY <1>2
  <2>3. QED
    BY <2>1, <2>2 DEF NumberedInOrder
<1>7. IdsAreApart /\ IssuedAsOpened
  BY <1>1 DEF IdsAreApart, IssuedAsOpened
<1>8. QED
  BY <1>3, <1>4, <1>5, <1>6, <1>7 DEF IInv, Accounts

-----------------------------------------------------------------------------
(* A request that goes on, or is answered, without opening an account.      *)

\* Whatever else a step does: the request it serves keeps its number and input,
\* stays on its route, and lets go of the lock it looked under.
LEMMA Moving ==
    ASSUME IInv, NEW c \in Clients, Here(c), NEW r \in Requests, Goes(c, r),
           r.stage \in {"run", "answered"},
           r.id = req[c].id, r.in = req[c].in, r.number = req[c].number,
           r.stage = "run" => r.at \in DOMAIN Steps[Route(c)],
           r.stage = "run" /\ Route(c) = "create" /\ r.at > 3 => Member(c) \in Members,
           r.stage = "answered" => r.answer # "created",
           r.stage = "answered" /\ Route(c) = "confirmation" /\ r.answer # "expired" =>
              r.shown = ledger[r.number],
           ledgerLock # c, faultLock' = IF faultLock = c THEN Nobody ELSE faultLock,
           UNCHANGED <<ledger, ledgerLock, issued, mine, requests>>
    PROVE  /\ Accounts'
           /\ req' \in [Clients -> {Idle} \cup Requests]
           /\ \A d \in Clients : d \in {faultLock', ledgerLock'} <=> req'[d].stage = "look"
           /\ armed' = armed \/ faultLock = Nobody => LookedUpIsArmed'
<1>1. TypeOK /\ Accounts /\ Nobody \notin Clients
  BY Assumptions DEF IInv
<1>2. /\ req' \in [Clients -> {Idle} \cup Requests]
      /\ req'[c] = r /\ \A d \in Clients \ {c} : req'[d] = req[d]
  BY <1>1 DEF TypeOK, Goes
<1>3. /\ Route(c)' = Route(c) /\ Member(c)' = Member(c)
      /\ \A d \in Clients \ {c} : /\ Route(d)' = Route(d) /\ Member(d)' = Member(d)
                                  /\ FaultAt(d)' = FaultAt(d)
                                  /\ Here(d)' = Here(d) /\ Asked(d)' = Asked(d)
  BY <1>2 DEF Route, Member, FaultAt, Here, Asked
<1>4. OnItsRoute'
  <2>1. ASSUME NEW d \in Clients, Here(d)'
        PROVE  /\ req'[d].at \in DOMAIN Steps[Route(d)']
               /\ Route(d)' = "create" /\ req'[d].at > 3 => Member(d)' \in Members
    <3>1. CASE d = c
      BY <1>2, <1>3, <2>1, <3>1 DEF Here, Active
    <3>2. CASE d # c
      BY <1>1, <1>2, <1>3, <2>1, <3>2 DEF Accounts, OnItsRoute
    <3>3. QED
      BY <3>1, <3>2
  <2>2. QED
    BY <2>1 DEF OnItsRoute
<1>5. LookHoldsTheLock'
  BY <1>1, <1>2, <1>3 DEF Accounts, LookHoldsTheLock
<1>6. \A d \in Clients : d \in {faultLock', ledgerLock'} <=> req'[d].stage = "look"
  <2>1. \A d \in Clients : d \in {faultLock, ledgerLock} <=> req[d].stage = "look"
    BY <1>1 DEF TypeOK
  <2>2. c \notin {faultLock', ledgerLock'} /\ req'[c].stage # "look"
    BY <1>1, <1>2
  <2>3. ASSUME NEW d \in Clients \ {c}
        PROVE  d \in {faultLock', ledgerLock'} <=> d \in {faultLock, ledgerLock}
    BY <1>1
  <2>4. QED
    BY <1>2, <2>1, <2>2, <2>3
<1>7. NumberedInOrder' /\ IssuedAsOpened'
  BY <1>1 DEF Accounts, NumberedInOrder, IssuedAsOpened
<1>8. CountedIsNext'
  <2>1. CASE ledgerLock = Nobody
    BY <2>1 DEF CountedIsNext
  <2>2. CASE ledgerLock \in Clients \ {c}
    BY <1>1, <1>2, <1>3, <2>2 DEF Accounts, CountedIsNext
  <2>3. QED
    BY <1>1, <2>1, <2>2 DEF TypeOK
<1>9. IdsAreApart'
  <2>1. Asked(c) /\ req[c].stage # "answered" /\ Asked(c)' = Asked(c)
    BY <1>2 DEF Asked, Here, Active
  <2>2. QED
    BY <1>1, <1>2, <1>3, <2>1 DEF Accounts, IdsAreApart
<1>10. ShownIsMine'
  <2>1. Asked(c)
    BY DEF Asked, Here, Active
  <2>2. ASSUME NEW d \in Clients, Asked(d)', Route(d)' = "confirmation"
        PROVE  /\ mine'[d].number \in Numbers /\ req'[d].number = mine'[d].number
               /\ req'[d].stage = "answered" /\ req'[d].answer # "expired" =>
                  (ledger'[mine'[d].number] = mine'[d].id /\ mine'[d].id # 0 =>
                   req'[d].shown = mine'[d].id)
    <3>1. CASE d = c
      <4>1. Route(c) = "confirmation"
        BY <1>3, <2>2, <3>1
      <4>2. mine[c].number \in Numbers /\ req[c].number = mine[c].number
        BY <1>1, <2>1, <4>1 DEF Accounts, ShownIsMine
      <4>3. QED
        BY <1>2, <3>1, <4>1, <4>2
    <3>2. CASE d # c
      BY <1>1, <1>2, <1>3, <2>2, <3>2 DEF Accounts, ShownIsMine
    <3>3. QED
      BY <3>1, <3>2
  <2>3. QED
    BY <2>2 DEF ShownIsMine
<1>11. ASSUME armed' = armed \/ faultLock = Nobody PROVE LookedUpIsArmed'
  <2>1. CASE faultLock \in {Nobody, c}
    BY <2>1 DEF LookedUpIsArmed
  <2>2. CASE faultLock \in Clients \ {c}
    BY <1>1, <1>2, <1>3, <1>11, <2>2 DEF LookedUpIsArmed, IInv
  <2>3. QED
    BY <1>1, <2>1, <2>2 DEF TypeOK
<1>12. QED
  BY <1>2, <1>4, <1>5, <1>6, <1>7, <1>8, <1>9, <1>10, <1>11 DEF Accounts

\* A request that is answered, other than with an account.
LEMMA Stopping ==
    ASSUME IInv, NEW c \in Clients, Here(c), NEW answer \in Answers,
           NEW r, r = Answered(c, answer)
    PROVE  /\ r \in Requests /\ r.stage = "answered" /\ r.answer = answer
           /\ r.id = req[c].id /\ r.in = req[c].in /\ r.number = req[c].number
<1>1. req[c] \in Requests
  BY HereFacts
<1>2. QED
  BY <1>1 DEF Answered, Requests

\* A request that goes on to the next step of its route.
LEMMA GoingOn ==
    ASSUME IInv, NEW c \in Clients, Here(c), FaultAt(c) \notin Final, NEW r, NEW h \in SUBSET Faults,
           r = [req[c] EXCEPT !.stage = "run", !.at = @ + 1, !.hits = h],
           FaultAt(c) = "member" => Member(c) \in Members
    PROVE  /\ r \in Requests /\ r.stage = "run"
           /\ r.id = req[c].id /\ r.in = req[c].in /\ r.number = req[c].number
           /\ r.at \in DOMAIN Steps[Route(c)]
           /\ Route(c) = "create" /\ r.at > 3 => Member(c) \in Members
<1>1. /\ req[c] \in Requests /\ req[c].at \in 1..8
      /\ req[c].at + 1 \in DOMAIN Steps[Route(c)]
      /\ Route(c) = "create" /\ req[c].at = 3 => FaultAt(c) = "member"
  BY HereFacts
<1>2. Route(c) = "create" /\ req[c].at > 3 => Member(c) \in Members
  BY DEF IInv, Accounts, OnItsRoute
<1>3. /\ r.stage = "run" /\ r.at = req[c].at + 1
      /\ r.id = req[c].id /\ r.in = req[c].in /\ r.number = req[c].number
  BY <1>1 DEF Requests
<1>4. r \in Requests
  <2>1. req[c].at + 1 \in 1..9
    BY <1>1
  <2>2. r = [req[c] EXCEPT !.stage = "run", !.at = req[c].at + 1, !.hits = h]
    OBVIOUS
  <2>3. QED
    BY <1>1, <2>1, <2>2 DEF Requests
<1>5. Route(c) = "create" /\ req[c].at + 1 > 3 => Member(c) \in Members
  BY <1>1, <1>2
<1>6. QED
  BY <1>1, <1>3, <1>4, <1>5

\* A step that moves a request and leaves the faults and the locks alone.
LEMMA MovesOnly ==
    ASSUME IInv, NEW c \in Clients, req[c].stage \in {"check", "run"}, NEW r \in Requests, Goes(c, r),
           r.stage \in {"run", "answered"},
           r.id = req[c].id, r.in = req[c].in, r.number = req[c].number,
           r.stage = "run" => r.at \in DOMAIN Steps[Route(c)],
           r.stage = "run" /\ Route(c) = "create" /\ r.at > 3 => Member(c) \in Members,
           r.stage = "answered" => r.answer # "created",
           r.stage = "answered" /\ Route(c) = "confirmation" /\ r.answer # "expired" =>
              r.shown = ledger[r.number],
           sessions' \in [Ids -> {"none", "live", "stale", "gone"}],
           UNCHANGED <<armed, faultLock, ledger, ledgerLock, arming, issued, cookie, requests, mine>>
    PROVE  IInv'
<1>1. Here(c) /\ req[c].stage # "look" /\ TypeOK
  BY DEF Here, Active, IInv
<1>2. faultLock # c /\ ledgerLock # c
  BY <1>1 DEF TypeOK
<1>3. /\ Accounts'
      /\ req' \in [Clients -> {Idle} \cup Requests]
      /\ \A d \in Clients : d \in {faultLock', ledgerLock'} <=> req'[d].stage = "look"
      /\ LookedUpIsArmed'
  BY <1>1, <1>2, Moving
<1>4. TypeOK'
  BY <1>1, <1>3 DEF TypeOK
<1>5. FiresAsArmed'
  BY DEF IInv, FiresAsArmed
<1>6. QED
  BY <1>3, <1>4, <1>5 DEF IInv

LEMMA DecideInv ==
    ASSUME IInv, NEW c \in Clients, NEW step, NEW stop \in BOOLEAN, NEW answer \in Answers \ {"created"},
           Decide(c, step, stop, answer), step \in Final => stop,
           step # "confirm", step = "member" /\ ~stop => Member(c) \in Members
    PROVE  IInv'
<1>1. /\ req[c].stage = "run" /\ FaultAt(c) = step
      /\ IF stop THEN Answer(c, answer) ELSE Passes(c)
      /\ UNCHANGED <<sessions, armed, faultLock, ledger, ledgerLock, arming, issued, cookie,
                     requests, mine>>
  BY DEF Decide, At, FaultAt, shared, history
<1>2. Here(c) /\ Route(c) # "confirmation" /\ req[c] \in Requests
  BY <1>1, HereFacts DEF Here, Active
<1>3. sessions' \in [Ids -> {"none", "live", "stale", "gone"}]
  BY <1>1 DEF IInv, TypeOK
<1>4. CASE stop
  <2> DEFINE r == Answered(c, answer)
  <2>1. Goes(c, r)
    BY <1>1, <1>4 DEF Answer
  <2>2. /\ r \in Requests /\ r.stage = "answered" /\ r.answer = answer
        /\ r.id = req[c].id /\ r.in = req[c].in /\ r.number = req[c].number
    BY <1>2, Stopping
  <2> HIDE DEF r
  <2>3. QED
    BY <1>1, <1>2, <1>3, <2>1, <2>2, MovesOnly
<1>5. CASE ~stop
  <2> DEFINE r == [req[c] EXCEPT !.stage = "run", !.at = @ + 1, !.hits = req[c].hits]
  <2>1. Goes(c, r)
    <3>1. r = [req[c] EXCEPT !.at = @ + 1, !.stage = "run"]
      BY <1>2 DEF Requests
    <3>2. QED
      BY <1>1, <1>5, <3>1 DEF Passes
  <2>2. req[c].hits \in SUBSET Faults
    BY <1>2 DEF Requests
  <2>3. /\ r \in Requests /\ r.stage = "run"
        /\ r.id = req[c].id /\ r.in = req[c].in /\ r.number = req[c].number
        /\ r.at \in DOMAIN Steps[Route(c)]
        /\ Route(c) = "create" /\ r.at > 3 => Member(c) \in Members
    BY <1>1, <1>2, <1>5, <2>2, GoingOn
  <2> HIDE DEF r
  <2>4. QED
    BY <1>1, <1>2, <1>3, <2>1, <2>3, MovesOnly
<1>6. QED
  BY <1>4, <1>5

-----------------------------------------------------------------------------
(* Sessions and faults.                                                     *)

LEMMA RevokeType ==
    ASSUME IInv, NEW c \in Clients, NEW fired \in BOOLEAN
    PROVE  /\ Revoke(c) \in [Ids -> {"none", "live", "stale", "gone"}]
           /\ SessionsAfter(c, fired) \in [Ids -> {"none", "live", "stale", "gone"}]
BY DEF IInv, TypeOK, Revoke, SessionsAfter

LEMMA CheckSessionInv == ASSUME NEW c \in Clients PROVE IInv /\ CheckSession(c) => IInv'
<1> SUFFICES ASSUME IInv, CheckSession(c) PROVE IInv'
  OBVIOUS
<1>1. /\ Here(c) /\ req[c].stage = "check" /\ req[c] \in Requests
      /\ req[c].at \in DOMAIN Steps[Route(c)]
      /\ Route(c) = "create" /\ req[c].at > 3 => Member(c) \in Members
      /\ UNCHANGED <<sessions, armed, faultLock, ledger, ledgerLock, arming, issued, cookie,
                     requests, mine>>
  BY HereFacts DEF CheckSession, Here, Active, IInv, Accounts, OnItsRoute, shared, history
<1>2. sessions' \in [Ids -> {"none", "live", "stale", "gone"}]
  BY <1>1 DEF IInv, TypeOK
<1>3. CASE Goes(c, [req[c] EXCEPT !.stage = "run"])
  <2> DEFINE r == [req[c] EXCEPT !.stage = "run"]
  <2>1. /\ r \in Requests /\ r.stage = "run" /\ r.at = req[c].at
        /\ r.id = req[c].id /\ r.in = req[c].in /\ r.number = req[c].number
    BY <1>1 DEF Requests
  <2> HIDE DEF r
  <2>2. Goes(c, r)
    BY <1>3 DEF r
  <2>3. QED
    BY <1>1, <1>2, <2>1, <2>2, MovesOnly
<1>4. CASE Answer(c, "expired")
  <2> DEFINE r == Answered(c, "expired")
  <2>1. /\ r \in Requests /\ r.stage = "answered" /\ r.answer = "expired"
        /\ r.id = req[c].id /\ r.in = req[c].in /\ r.number = req[c].number
    BY <1>1, Stopping DEF Answers
  <2>2. Goes(c, r)
    BY <1>4 DEF Answer
  <2> HIDE DEF r
  <2>3. QED
    BY <1>1, <1>2, <2>1, <2>2, MovesOnly
<1>5. QED
  BY <1>3, <1>4 DEF CheckSession

\* The answers of views that decide nothing else: the request stops, the faults,
\* the locks and the ledger stay as they are.
LEMMA AnswersOnly ==
    ASSUME IInv, NEW c \in Clients, req[c].stage = "run", FaultAt(c) # "confirm",
           NEW answer \in Answers \ {"created"}, Answer(c, answer),
           sessions' \in [Ids -> {"none", "live", "stale", "gone"}],
           UNCHANGED <<armed, faultLock, ledger, ledgerLock, arming, issued, cookie, requests, mine>>
    PROVE  IInv'
<1> DEFINE r == Answered(c, answer)
<1>1. Here(c) /\ Route(c) # "confirmation" /\ req[c].stage \in {"check", "run"}
  BY HereFacts DEF Here, Active
<1>2. /\ r \in Requests /\ r.stage = "answered" /\ r.answer = answer
      /\ r.id = req[c].id /\ r.in = req[c].in /\ r.number = req[c].number
  BY <1>1, Stopping
<1>3. Goes(c, r)
  BY DEF Answer
<1> HIDE DEF r
<1>4. QED
  BY <1>1, <1>2, <1>3, MovesOnly

LEMMA SignInv == ASSUME NEW c \in Clients PROVE IInv /\ (SignIn(c) \/ SignOut(c)) => IInv'
<1> SUFFICES ASSUME IInv, SignIn(c) \/ SignOut(c) PROVE IInv'
  OBVIOUS
<1>1. req[c].stage = "run" /\ FaultAt(c) # "confirm"
  BY DEF SignIn, SignOut, At, FaultAt
<1>2. sessions' \in [Ids -> {"none", "live", "stale", "gone"}]
  <2>1. sessions \in [Ids -> {"none", "live", "stale", "gone"}]
    BY DEF IInv, TypeOK
  <2>2. sessions' \in {sessions, [sessions EXCEPT ![req[c].id] = "live"], Revoke(c)}
    BY DEF SignIn, SignOut
  <2>3. Revoke(c) \in [Ids -> {"none", "live", "stale", "gone"}]
    BY RevokeType
  <2>4. QED
    BY <2>1, <2>2, <2>3
<1>3. \E answer \in Answers \ {"created"} : Answer(c, answer)
  BY DEF SignIn, SignOut, Answers
<1>4. UNCHANGED <<armed, faultLock, ledger, ledgerLock, arming, issued, cookie, requests, mine>>
  BY DEF SignIn, SignOut, history
<1>5. QED
  BY <1>1, <1>2, <1>3, <1>4, AnswersOnly

\* What the view makes of a fault is the next step or an answer.
LEMMA AfterFaultMoves ==
    ASSUME IInv, NEW c \in Clients, Here(c), FaultAt(c) \in Faults, NEW fired \in BOOLEAN,
           NEW r, r = AfterFault(c, fired)
    PROVE  /\ r \in Requests /\ r.stage \in {"run", "answered"}
           /\ r.id = req[c].id /\ r.in = req[c].in /\ r.number = req[c].number
           /\ r.stage = "run" => r.at \in DOMAIN Steps[Route(c)]
           /\ r.stage = "run" /\ Route(c) = "create" /\ r.at > 3 => Member(c) \in Members
           /\ r.stage = "answered" => r.answer # "created"
           /\ Route(c) # "confirmation"
<1>1. FaultAt(c) \notin Final /\ FaultAt(c) # "member" /\ FaultAt(c) # "confirm"
  BY FaultsAre DEF Final
<1>2. Route(c) # "confirmation" /\ req[c] \in Requests
  BY <1>1, HereFacts
<1>3. CASE fired /\ FaultAt(c) \in {"session_expired", "app_error"}
  <2>1. \E answer \in {"expired", "error"} : r = Answered(c, answer)
    BY <1>3 DEF AfterFault
  <2>2. {"expired", "error"} \subseteq Answers
    BY DEF Answers
  <2>3. QED
    BY <1>2, <2>1, <2>2, Stopping
<1>4. CASE ~(fired /\ FaultAt(c) \in {"session_expired", "app_error"})
  <2>1. PICK h \in SUBSET Faults : r = [req[c] EXCEPT !.stage = "run", !.at = @ + 1, !.hits = h]
    <3> DEFINE h == IF fired THEN req[c].hits \cup {FaultAt(c)} ELSE req[c].hits
    <3>1. h \in SUBSET Faults
      BY <1>2 DEF Requests
    <3>2. r = [req[c] EXCEPT !.stage = "run", !.at = @ + 1, !.hits = h]
      BY <1>2, <1>4 DEF AfterFault, Requests
    <3>3. QED
      BY <3>1, <3>2
  <2>2. QED
    BY <1>1, <1>2, <2>1, GoingOn
<1>5. QED
  BY <1>3, <1>4

LEMMA FireOneShotInv == ASSUME NEW c \in Clients PROVE IInv /\ FireOneShot(c) => IInv'
<1> SUFFICES ASSUME IInv, FireOneShot(c) PROVE IInv'
  OBVIOUS
<1>1. PICK fired \in BOOLEAN : Goes(c, AfterFault(c, fired)) /\ sessions' = SessionsAfter(c, fired)
  BY DEF FireOneShot
<1>2. /\ req[c].stage = "run" /\ FaultAt(c) \in Faults /\ Here(c)
      /\ UNCHANGED <<armed, faultLock, ledger, ledgerLock, arming, issued, cookie, requests, mine>>
  BY DEF FireOneShot, history, Here, Active
<1>3. sessions' \in [Ids -> {"none", "live", "stale", "gone"}]
  BY <1>1, RevokeType
<1>4. QED
  BY <1>1, <1>2, <1>3, AfterFaultMoves, MovesOnly

LEMMA PassFaultInv == ASSUME NEW c \in Clients PROVE IInv /\ PassFault(c) => IInv'
<1> SUFFICES ASSUME IInv, PassFault(c) PROVE IInv'
  OBVIOUS
<1>1. /\ req[c].stage = "run" /\ FaultAt(c) \in Faults /\ Here(c)
      /\ Goes(c, AfterFault(c, FALSE))
      /\ UNCHANGED <<sessions, armed, faultLock, ledger, ledgerLock, arming, issued, cookie,
                     requests, mine>>
  BY DEF PassFault, shared, history, Here, Active
<1>2. sessions' \in [Ids -> {"none", "live", "stale", "gone"}]
  BY <1>1 DEF IInv, TypeOK
<1>3. QED
  BY <1>1, <1>2, AfterFaultMoves, MovesOnly

\* A thread that looks up an armed fault holds the lock until it has used it.
LEMMA LookFaultInv == ASSUME NEW c \in Clients PROVE IInv /\ LookFault(c) => IInv'
<1> SUFFICES ASSUME IInv, LookFault(c) PROVE IInv'
  OBVIOUS
<1> DEFINE r == [req[c] EXCEPT !.stage = "look", !.count = armed[FaultAt(c)].times]
<1>1. /\ req[c].stage = "run" /\ FaultAt(c) \in Faults /\ Here(c) /\ req[c] \in Requests
      /\ faultLock = Nobody /\ faultLock' = c /\ armed[FaultAt(c)] # None
      /\ Goes(c, r)
      /\ UNCHANGED <<armed, ledger, ledgerLock, sessions, arming, issued, cookie, requests, mine>>
  BY HereFacts DEF LookFault, MayLock, Applies, history, Here, Active
<1>2. TypeOK /\ Accounts /\ Nobody \notin Clients
  BY Assumptions DEF IInv
<1>3. armed[FaultAt(c)].times \in Counts
  BY <1>1, <1>2 DEF TypeOK
<1>4. /\ r \in Requests /\ r.stage = "look" /\ r.count = armed[FaultAt(c)].times
      /\ r.id = req[c].id /\ r.in = req[c].in /\ r.number = req[c].number /\ r.at = req[c].at
  BY <1>1, <1>3 DEF Requests
<1> HIDE DEF r
<1>5. /\ req' \in [Clients -> {Idle} \cup Requests]
      /\ req'[c] = r /\ \A d \in Clients \ {c} : req'[d] = req[d]
  BY <1>1, <1>2, <1>4 DEF TypeOK, Goes
<1>6. \A d \in Clients : /\ Route(d)' = Route(d) /\ Member(d)' = Member(d)
                         /\ FaultAt(d)' = FaultAt(d)
                         /\ Here(d)' = Here(d) /\ Asked(d)' = Asked(d)
  BY <1>1, <1>4, <1>5 DEF Route, Member, FaultAt, Here, Asked, Active
<1>7. \A d \in Clients : faultLock # d
  BY <1>1, <1>2
<1>8. OnItsRoute'
  BY <1>2, <1>4, <1>5, <1>6 DEF Accounts, OnItsRoute
<1>9. FaultAt(c) # "open"
  BY <1>1, FaultsAre
<1>10. LookHoldsTheLock'
  <2>1. \A d \in Clients : ~(req[d].stage = "look" /\ FaultAt(d) \in Faults)
    BY <1>2, <1>7 DEF Accounts, LookHoldsTheLock
  <2>2. \A d \in Clients : ledgerLock = d <=> req[d].stage = "look" /\ FaultAt(d) = "open"
    BY <1>2 DEF Accounts, LookHoldsTheLock
  <2>3. QED
    BY <1>1, <1>4, <1>5, <1>6, <1>9, <2>1, <2>2 DEF LookHoldsTheLock
<1>11. TypeOK'
  <2>1. \A d \in Clients : d \in {faultLock, ledgerLock} <=> req[d].stage = "look"
    BY <1>2 DEF TypeOK
  <2>2. \A d \in Clients : d \in {faultLock', ledgerLock'} <=> req'[d].stage = "look"
    BY <1>1, <1>4, <1>5, <1>7, <2>1
  <2>3. QED
    BY <1>1, <1>2, <1>5, <2>2 DEF TypeOK
<1>12. LookedUpIsArmed'
  BY <1>1, <1>4, <1>5, <1>6 DEF LookedUpIsArmed
<1>13. FiresAsArmed' /\ NumberedInOrder' /\ IssuedAsOpened'
  BY <1>1, <1>2 DEF IInv, FiresAsArmed, Accounts, NumberedInOrder, IssuedAsOpened
<1>14. CountedIsNext'
  <2>1. ledgerLock # c
    BY <1>1, <1>2 DEF TypeOK
  <2>2. CASE ledgerLock = Nobody
    BY <1>1, <2>2 DEF CountedIsNext
  <2>3. CASE ledgerLock \in Clients \ {c}
    BY <1>1, <1>2, <1>5, <1>6, <2>3 DEF Accounts, CountedIsNext
  <2>4. QED
    BY <1>2, <2>1, <2>2, <2>3 DEF TypeOK
<1>15. IdsAreApart'
  BY <1>1, <1>2, <1>4, <1>5, <1>6 DEF Accounts, IdsAreApart
<1>16. ShownIsMine'
  BY <1>1, <1>2, <1>4, <1>5, <1>6 DEF Accounts, ShownIsMine
<1>17. QED
  BY <1>8, <1>10, <1>11, <1>12, <1>13, <1>14, <1>15, <1>16 DEF IInv, Accounts

\* What is used up was armed as it was looked up, so the count stays made up.
LEMMA UseFaultInv == ASSUME NEW c \in Clients PROVE IInv /\ UseFault(c) => IInv'
<1> SUFFICES ASSUME IInv, UseFault(c) PROVE IInv'
  OBVIOUS
<1> DEFINE f == FaultAt(c)
           r == [AfterFault(c, TRUE) EXCEPT !.count = 0]
           left == req[c].count - 1
<1>1. /\ req[c].stage = "look" /\ f \in Faults /\ Here(c) /\ req[c] \in Requests
      /\ faultLock' = Nobody /\ Goes(c, r)
      /\ sessions' = SessionsAfter(c, TRUE)
      /\ armed' = IF req[c].count = Always THEN armed
                  ELSE [armed EXCEPT ![f] = IF left <= 0 THEN None
                                            ELSE [times |-> left, site |-> armed[f].site]]
      /\ arming' = [arming EXCEPT ![f].fired = @ + 1]
      /\ UNCHANGED <<ledger, ledgerLock, issued, cookie, requests, mine>>
  BY HereFacts DEF UseFault, Left, Here, Active
<1>2. TypeOK /\ Accounts /\ Nobody \notin Clients /\ MaxRequests \in Nat /\ MaxTimes \in Nat \ {0}
  BY Assumptions DEF IInv
<1>3. faultLock = c /\ f # "open" /\ ledgerLock # c
  BY <1>1, <1>2, FaultsAre DEF Accounts, LookHoldsTheLock
<1>4. /\ armed[f] # None /\ req[c].count = armed[f].times
      /\ armed[f] \in [times : Counts, site : {"", "search", "detail", "create"}]
  BY <1>1, <1>2, <1>3 DEF LookedUpIsArmed, IInv, TypeOK
<1>5. /\ r \in Requests /\ r.stage \in {"run", "answered"}
      /\ r.id = req[c].id /\ r.in = req[c].in /\ r.number = req[c].number
      /\ r.stage = "run" => r.at \in DOMAIN Steps[Route(c)]
      /\ r.stage = "run" /\ Route(c) = "create" /\ r.at > 3 => Member(c) \in Members
      /\ r.stage = "answered" => r.answer # "created"
      /\ Route(c) # "confirmation"
  <2> DEFINE q == AfterFault(c, TRUE)
  <2>1. /\ q \in Requests /\ q.stage \in {"run", "answered"}
        /\ q.id = req[c].id /\ q.in = req[c].in /\ q.number = req[c].number
        /\ q.stage = "run" => q.at \in DOMAIN Steps[Route(c)]
        /\ q.stage = "run" /\ Route(c) = "create" /\ q.at > 3 => Member(c) \in Members
        /\ q.stage = "answered" => q.answer # "created"
        /\ Route(c) # "confirmation"
    BY <1>1, AfterFaultMoves
  <2> HIDE DEF q
  <2>2. r = [q EXCEPT !.count = 0]
    BY DEF q
  <2>3. 0 \in Counts \cup 0..MaxRequests + 1
    BY <1>2
  <2>4. r \in Requests
    BY <2>1, <2>2, <2>3 DEF Requests
  <2>5. /\ r.stage = q.stage /\ r.id = q.id /\ r.in = q.in /\ r.number = q.number
        /\ r.at = q.at /\ r.answer = q.answer
    BY <2>1, <2>2 DEF Requests
  <2>6. QED
    BY <2>1, <2>4, <2>5
<1> HIDE DEF r, f
<1>6. /\ Accounts'
      /\ req' \in [Clients -> {Idle} \cup Requests]
      /\ \A d \in Clients : d \in {faultLock', ledgerLock'} <=> req'[d].stage = "look"
  BY <1>1, <1>3, <1>5, Moving
<1> DEFINE n == armed[f].times
<1>7. \/ n = Always
      \/ /\ n \in 1..MaxTimes /\ n # Always /\ req[c].count # Always
         /\ left = n - 1 /\ (left <= 0 \/ left \in Counts)
         /\ left <= 0 => n = 1
  <2>1. n \in Counts /\ req[c].count = n
    BY <1>4
  <2> HIDE DEF n
  <2>2. CASE n \in 1..MaxTimes
    BY <1>2, <2>1, <2>2 DEF Counts, Always
  <2>3. QED
    BY <2>1, <2>2 DEF Counts
<1>8. TypeOK'
  <2>1. armed' \in [Faults -> {None} \cup [times : Counts, site : {"", "search", "detail", "create"}]]
    <3>1. CASE req[c].count = Always
      BY <1>1, <1>2, <3>1 DEF TypeOK
    <3>2. CASE req[c].count # Always
      <4>1. left <= 0 \/ left \in Counts
        BY <1>4, <1>7, <3>2
      <4>2. left <= 0 \/ [times |-> left, site |-> armed[f].site]
                            \in [times : Counts, site : {"", "search", "detail", "create"}]
        BY <1>4, <4>1
      <4>3. QED
        BY <1>1, <1>2, <3>2, <4>2 DEF TypeOK
    <3>3. QED
      BY <3>1, <3>2
  <2>2. arming' \in [Faults -> [times : Counts \cup {0}, fired : Nat, ended : BOOLEAN]]
    <3> DEFINE T == [times : Counts \cup {0}, fired : Nat, ended : BOOLEAN]
    <3>1. arming \in [Faults -> T]
      BY <1>2 DEF TypeOK
    <3>2. [arming[f] EXCEPT !.fired = @ + 1] \in T
      BY <1>1, <3>1
    <3>3. arming' = [arming EXCEPT ![f] = [arming[f] EXCEPT !.fired = @ + 1]]
      BY <1>1, <3>1
    <3> HIDE DEF T
    <3>4. arming' \in [Faults -> T]
      BY <1>1, <3>1, <3>2, <3>3
    <3>5. QED
      BY <3>4 DEF T
  <2>3. sessions' \in [Ids -> {"none", "live", "stale", "gone"}]
    BY <1>1, RevokeType
  <2>4. QED
    BY <1>1, <1>2, <1>6, <2>1, <2>2, <2>3 DEF TypeOK
<1>9. LookedUpIsArmed'
  BY <1>1 DEF LookedUpIsArmed
<1>10. FiresAsArmed'
  <2>1. SUFFICES ASSUME NEW g \in Faults
                 PROVE  IF armed'[g] = None
                        THEN arming'[g].ended \/ arming'[g].fired = arming'[g].times
                        ELSE /\ ~arming'[g].ended
                             /\ arming'[g].times = Always => armed'[g].times = Always
                             /\ arming'[g].times # Always =>
                                   /\ armed'[g].times > 0
                                   /\ armed'[g].times + arming'[g].fired = arming'[g].times
    BY DEF FiresAsArmed
  <2>2. IF armed[g] = None
        THEN arming[g].ended \/ arming[g].fired = arming[g].times
        ELSE /\ ~arming[g].ended
             /\ arming[g].times = Always => armed[g].times = Always
             /\ arming[g].times # Always =>
                   armed[g].times > 0 /\ armed[g].times + arming[g].fired = arming[g].times
    BY DEF IInv, FiresAsArmed
  <2>3. CASE g # f
    <3>1. armed'[g] = armed[g] /\ arming'[g] = arming[g]
      BY <1>1, <1>2, <2>3 DEF TypeOK
    <3>2. QED
      BY <2>2, <3>1
  <2>4. CASE g = f
    <3>1. /\ arming'[f].times = arming[f].times /\ arming'[f].ended = arming[f].ended
          /\ arming'[f].fired = arming[f].fired + 1
          /\ arming[f].fired \in Nat /\ arming[f].times \in Counts \cup {0}
      <4>1. arming[f] \in [times : Counts \cup {0}, fired : Nat, ended : BOOLEAN] /\ f \in DOMAIN arming
        BY <1>1, <1>2 DEF TypeOK
      <4>2. arming'[f] = [arming[f] EXCEPT !.fired = @ + 1]
        BY <1>1, <4>1
      <4>3. QED
        BY <4>1, <4>2
    <3>2. /\ ~arming[f].ended
          /\ arming[f].times = Always => n = Always
          /\ arming[f].times # Always => n > 0 /\ n + arming[f].fired = arming[f].times
      BY <1>4, <2>2, <2>4
    <3>3. armed[f] # None
      BY <1>4
    <3>4. CASE n = Always
      <4>1. armed' = armed
        BY <1>1, <1>4, <3>4
      <4>2. ~(n > 0)
        BY <3>4 DEF Always
      <4>3. arming[f].times = Always
        BY <3>2, <4>2
      <4>4. QED
        BY <2>4, <3>1, <3>2, <3>3, <3>4, <4>1, <4>3
    <3>5. CASE n # Always
      <4>1. armed'[f] = IF left <= 0 THEN None ELSE [times |-> left, site |-> armed[f].site]
        BY <1>1, <1>2, <1>7, <3>5 DEF TypeOK
      <4>2. arming[f].times # Always /\ n + arming[f].fired = arming[f].times /\ n \in 1..MaxTimes
        BY <1>7, <3>2, <3>5
      <4>3. CASE left <= 0
        <5>1. n = 1 /\ arming'[f].fired = arming'[f].times
          BY <1>7, <3>1, <3>5, <4>2, <4>3
        <5>2. QED
          BY <2>4, <4>1, <4>3, <5>1
      <4>4. CASE ~(left <= 0)
        <5>1. armed'[f] # None /\ armed'[f].times = left
          BY <4>1, <4>4 DEF None
        <5>2. left = n - 1 /\ left \in Counts
          BY <1>7, <3>5, <4>4
        <5>3. left > 0 /\ left + arming'[f].fired = arming'[f].times
          BY <1>2, <3>1, <4>2, <4>4, <5>2
        <5>4. QED
          BY <2>4, <3>1, <3>2, <3>5, <5>1, <5>3
      <4>5. QED
        BY <4>3, <4>4
    <3>6. QED
      BY <3>4, <3>5
  <2>5. QED
    BY <2>3, <2>4
<1>11. QED
  BY <1>6, <1>8, <1>9, <1>10 DEF IInv

-----------------------------------------------------------------------------
(* The control surface.                                                     *)

FaultTypes ==
    /\ armed \in [Faults -> {None} \cup [times : Counts, site : {"", "search", "detail", "create"}]]
    /\ arming \in [Faults -> [times : Counts \cup {0}, fired : Nat, ended : BOOLEAN]]

\* A step of the control surface that answers or goes on while no thread is
\* inside the section that reads the faults.
LEMMA ControlInv ==
    ASSUME IInv, NEW c \in Clients, req[c].stage = "run", FaultAt(c) # "confirm", faultLock = Nobody,
           \/ Answer(c, "ok")
           \/ Passes(c) /\ FaultAt(c) \notin Final /\ FaultAt(c) # "member",
           FaultTypes', FiresAsArmed',
           UNCHANGED <<faultLock, ledger, ledgerLock, sessions, issued, cookie, requests, mine>>
    PROVE  IInv'
<1>1. TypeOK /\ Here(c) /\ Route(c) # "confirmation" /\ req[c] \in Requests /\ Nobody \notin Clients
  BY HereFacts, Assumptions DEF IInv, Here, Active
<1>2. faultLock # c /\ ledgerLock # c
  BY <1>1 DEF TypeOK
<1>3. /\ Accounts'
      /\ req' \in [Clients -> {Idle} \cup Requests]
      /\ \A d \in Clients : d \in {faultLock', ledgerLock'} <=> req'[d].stage = "look"
      /\ LookedUpIsArmed'
  <2>1. CASE Answer(c, "ok")
    <3>0. PICK r : r = Answered(c, "ok")
      OBVIOUS
    <3>1. /\ r \in Requests /\ r.stage = "answered" /\ r.answer = "ok"
          /\ r.id = req[c].id /\ r.in = req[c].in /\ r.number = req[c].number
      <4>1. "ok" \in Answers
        BY DEF Answers
      <4>2. Here(c)
        BY <1>1
      <4>3. QED
        BY <3>0, <4>1, <4>2, Stopping
    <3>2. Goes(c, r)
      BY <2>1, <3>0 DEF Answer
    <3>3. QED
      BY <1>1, <1>2, <3>1, <3>2, Moving
  <2>2. CASE Passes(c) /\ FaultAt(c) \notin Final /\ FaultAt(c) # "member"
    <3> DEFINE r == [req[c] EXCEPT !.stage = "run", !.at = @ + 1, !.hits = req[c].hits]
    <3>1. req[c].hits \in SUBSET Faults /\ r = [req[c] EXCEPT !.at = @ + 1, !.stage = "run"]
      BY <1>1 DEF Requests
    <3>2. /\ r \in Requests /\ r.stage = "run"
          /\ r.id = req[c].id /\ r.in = req[c].in /\ r.number = req[c].number
          /\ r.at \in DOMAIN Steps[Route(c)]
          /\ Route(c) = "create" /\ r.at > 3 => Member(c) \in Members
      BY <1>1, <2>2, <3>1, GoingOn
    <3>3. Goes(c, r)
      BY <2>2, <3>1 DEF Passes
    <3> HIDE DEF r
    <3>4. QED
      BY <1>1, <1>2, <3>2, <3>3, Moving
  <2>3. QED
    BY <2>1, <2>2
<1>4. TypeOK'
  BY <1>1, <1>3 DEF TypeOK, FaultTypes
<1>5. QED
  BY <1>3, <1>4 DEF IInv

\* What a fault may be armed with.
LEMMA CountsFacts ==
    /\ 1 \in Counts /\ Always \in Counts
    /\ \A n \in Counts : n # Always => n > 0 /\ n + 0 = n
<1>1. MaxTimes \in Nat \ {0}
  BY Assumptions
<1>2. QED
  BY <1>1 DEF Counts

LEMMA ArmInv == ASSUME NEW c \in Clients PROVE IInv /\ Arm(c) => IInv'
<1> SUFFICES ASSUME IInv, Arm(c) PROVE IInv'
  OBVIOUS
<1> DEFINE f == req[c].in.fault
           times == CountOf(f, req[c].in.times)
           site == SiteOf(f, req[c].in.site)
<1>1. /\ req[c].stage = "run" /\ FaultAt(c) # "confirm" /\ Here(c) /\ req[c] \in Requests /\ TypeOK
      /\ UNCHANGED <<faultLock, ledger, ledgerLock, sessions, issued, cookie, requests, mine>>
  BY HereFacts DEF Arm, At, FaultAt, Here, Active, IInv
<1>2. /\ f \in Faults /\ req[c].in.times \in Counts \cup {0, Unset}
      /\ req[c].in.site \in {"", "search", "detail", "create"}
  BY <1>1, InputFacts DEF Requests
<1>3. CASE Answer(c, "ok") /\ MayLock(faultLock) /\ times # 0
           /\ armed' = [armed EXCEPT ![f] = [times |-> times, site |-> site]]
           /\ arming' = [arming EXCEPT ![f] = [times |-> times, fired |-> 0, ended |-> FALSE]]
  <2>1. times \in Counts
    <3>1. 1 \in Counts /\ Always \in Counts
      BY CountsFacts
    <3>2. QED
      BY <1>2, <1>3, <3>1 DEF CountOf
  <2>2. site \in {"", "search", "detail", "create"}
    <3>1. CASE f \in Sited /\ req[c].in.site = ""
      <4>1. f = "permission_denied" \/ f = "app_error" \/ f = "session_expired"
        BY <3>1, FaultsAre
      <4>2. [permission_denied |-> "create", app_error |-> "detail", session_expired |-> "detail"][f]
               \in {"create", "detail"}
        BY <4>1
      <4>3. QED
        BY <3>1, <4>2 DEF SiteOf
    <3>2. CASE ~(f \in Sited /\ req[c].in.site = "")
      BY <1>2, <3>2 DEF SiteOf
    <3>3. QED
      BY <3>1, <3>2
  <2> HIDE DEF f, times, site
  <2>3. armed' \in [Faults -> {None} \cup [times : Counts,
                                            site : {"", "search", "detail", "create"}]]
    BY <1>1, <1>2, <1>3, <2>1, <2>2 DEF TypeOK
  <2>4. arming' \in [Faults -> [times : Counts \cup {0}, fired : Nat, ended : BOOLEAN]]
    BY <1>1, <1>2, <1>3, <2>1 DEF TypeOK
  <2>5. FiresAsArmed'
    <3>1. \A g \in Faults : g # f => armed'[g] = armed[g] /\ arming'[g] = arming[g]
      BY <1>1, <1>3 DEF TypeOK
    <3>2. /\ armed'[f] = [times |-> times, site |-> site]
          /\ arming'[f] = [times |-> times, fired |-> 0, ended |-> FALSE]
      BY <1>1, <1>2, <1>3 DEF TypeOK
    <3>3. armed'[f] # None
      BY <3>2 DEF None
    <3>4. times # Always => times > 0 /\ times + 0 = times
      BY <2>1, CountsFacts
    <3>5. QED
      BY <3>1, <3>2, <3>3, <3>4 DEF IInv, FiresAsArmed
  <2>6. QED
    BY <1>1, <1>3, <2>3, <2>4, <2>5, ControlInv DEF MayLock, FaultTypes
<1>4. CASE Answer(c, "bad") /\ UNCHANGED <<armed, arming>>
  <2>1. sessions' \in [Ids -> {"none", "live", "stale", "gone"}] /\ "bad" \in Answers \ {"created"}
    BY <1>1 DEF TypeOK, Answers
  <2>2. QED
    BY <1>1, <1>4, <2>1, AnswersOnly
<1>5. QED
  BY <1>3, <1>4 DEF Arm

LEMMA ClearInv == ASSUME NEW c \in Clients PROVE IInv /\ Clear(c) => IInv'
<1> SUFFICES ASSUME IInv, Clear(c) PROVE IInv'
  OBVIOUS
<1> DEFINE f == req[c].in.fault
<1>1. /\ req[c].stage = "run" /\ FaultAt(c) # "confirm" /\ Here(c) /\ req[c] \in Requests /\ TypeOK
      /\ faultLock = Nobody /\ Answer(c, "ok")
      /\ armed' = [armed EXCEPT ![f] = None]
      /\ arming' = [arming EXCEPT ![f].ended = TRUE]
      /\ UNCHANGED <<faultLock, ledger, ledgerLock, sessions, issued, cookie, requests, mine>>
  BY HereFacts DEF Clear, MayLock, At, FaultAt, Here, Active, IInv
<1>2. f \in Faults
  BY <1>1, InputFacts DEF Requests
<1> HIDE DEF f
<1>3. armed' \in [Faults -> {None} \cup [times : Counts, site : {"", "search", "detail", "create"}]]
  BY <1>1, <1>2 DEF TypeOK
<1>4. /\ arming' \in [Faults -> [times : Counts \cup {0}, fired : Nat, ended : BOOLEAN]]
      /\ arming'[f].ended /\ \A g \in Faults \ {f} : arming'[g] = arming[g]
  <2> DEFINE T == [times : Counts \cup {0}, fired : Nat, ended : BOOLEAN]
  <2>1. arming \in [Faults -> T]
    BY <1>1 DEF TypeOK
  <2>2. [arming[f] EXCEPT !.ended = TRUE] \in T /\ [arming[f] EXCEPT !.ended = TRUE].ended
    BY <1>2, <2>1
  <2>3. arming' = [arming EXCEPT ![f] = [arming[f] EXCEPT !.ended = TRUE]]
    BY <1>1, <1>2, <2>1
  <2> HIDE DEF T
  <2>4. /\ arming' \in [Faults -> T]
        /\ arming'[f].ended /\ \A g \in Faults \ {f} : arming'[g] = arming[g]
    BY <1>2, <2>1, <2>2, <2>3
  <2>5. QED
    BY <2>4 DEF T
<1>5. FiresAsArmed'
  <2>1. \A g \in Faults \ {f} : armed'[g] = armed[g]
    BY <1>1 DEF TypeOK
  <2>2. armed'[f] = None
    BY <1>1, <1>2 DEF TypeOK
  <2>3. QED
    BY <1>4, <2>1, <2>2 DEF IInv, FiresAsArmed
<1>6. QED
  BY <1>1, <1>3, <1>4, <1>5, ControlInv DEF FaultTypes

LEMMA ResetFaultsInv == ASSUME NEW c \in Clients PROVE IInv /\ ResetFaults(c) => IInv'
<1> SUFFICES ASSUME IInv, ResetFaults(c) PROVE IInv'
  OBVIOUS
<1>1. /\ req[c].stage = "run" /\ FaultAt(c) = "reset_faults" /\ TypeOK
      /\ faultLock = Nobody /\ Passes(c)
      /\ armed' = [f \in Faults |-> None]
      /\ arming' = [f \in Faults |-> [arming[f] EXCEPT !.ended = TRUE]]
      /\ UNCHANGED <<faultLock, ledger, ledgerLock, sessions, issued, cookie, requests, mine>>
  BY DEF ResetFaults, MayLock, At, FaultAt, IInv
<1>2. FaultAt(c) \notin Final /\ FaultAt(c) # "member" /\ FaultAt(c) # "confirm"
  BY <1>1 DEF Final
<1>3. armed' \in [Faults -> {None} \cup [times : Counts, site : {"", "search", "detail", "create"}]]
  BY <1>1
<1>4. arming' \in [Faults -> [times : Counts \cup {0}, fired : Nat, ended : BOOLEAN]]
  <2>1. \A f \in Faults : arming[f] \in [times : Counts \cup {0}, fired : Nat, ended : BOOLEAN]
    BY <1>1 DEF TypeOK
  <2>2. \A f \in Faults :
          [arming[f] EXCEPT !.ended = TRUE] \in [times : Counts \cup {0}, fired : Nat, ended : BOOLEAN]
    BY <2>1
  <2>3. QED
    BY <1>1, <2>2
<1>5. FiresAsArmed'
  <2>1. \A g \in Faults : armed'[g] = None /\ arming'[g].ended
    BY <1>1 DEF TypeOK
  <2>2. QED
    BY <2>1 DEF FiresAsArmed
<1>6. QED
  BY <1>1, <1>2, <1>3, <1>4, <1>5, ControlInv DEF FaultTypes

-----------------------------------------------------------------------------
(* The ledger.                                                              *)

\* Counting a member's accounts gives the number before the first free one, and
\* one is free for a request that opened none yet.
LEMMA CountOpened ==
    ASSUME IInv, NEW m \in Members, NEW id \in Ids, \A n \in Numbers : ledger[n] # id
    PROVE  /\ Cardinality(Opened(m)) + 1 \in Ids
           /\ \A i \in Ids : ledger[<<m, i>>] # 0 <=> i < Cardinality(Opened(m)) + 1
<1>1. MaxRequests \in Nat
  BY Assumptions
<1>2. PICK k \in 0..MaxRequests : \A i \in Ids : ledger[<<m, i>>] # 0 <=> i <= k
  BY DEF IInv, Accounts, NumberedInOrder
<1>3. k \in Nat /\ 1..k \subseteq Ids
  BY <1>1, <1>2 DEF Ids
<1>4. Opened(m) = {<<m, i>> : i \in 1..k}
  <2>1. ASSUME NEW n \in Opened(m) PROVE n \in {<<m, i>> : i \in 1..k}
    <3>1. n \in Members \X Ids /\ n[1] = m /\ ledger[n] # 0
      BY DEF Opened, Numbers
    <3>2. n = <<m, n[2]>> /\ n[2] \in Ids
      BY <3>1
    <3>3. ledger[<<m, n[2]>>] # 0
      BY <3>1, <3>2
    <3>4. n[2] \in 1..k
      BY <1>1, <1>2, <1>3, <3>2, <3>3 DEF Ids
    <3>5. QED
      BY <3>2, <3>4
  <2>2. ASSUME NEW i \in 1..k PROVE <<m, i>> \in Opened(m)
    <3>1. i \in Ids /\ i <= k
      BY <1>3
    <3>2. <<m, i>> \in Numbers /\ <<m, i>>[1] = m /\ ledger[<<m, i>>] # 0
      BY <1>2, <3>1 DEF Numbers
    <3>3. QED
      BY <3>2 DEF Opened
  <2>3. QED
    BY <2>1, <2>2
<1>5. Cardinality(Opened(m)) = k
  <2> DEFINE f == [i \in 1..k |-> <<m, i>>]
  <2>1. f \in Injection(1..k, Opened(m))
    BY <1>4 DEF Injection, IsInjective
  <2>2. f \in Surjection(1..k, Opened(m))
    BY <1>4 DEF Surjection
  <2>3. ExistsBijection(1..k, Opened(m))
    BY <2>1, <2>2 DEF ExistsBijection, Bijection
  <2>4. QED
    BY <1>3, <2>3, FS_CountingElements
<1>6. k < MaxRequests
  <2> DEFINE T == Ids \ {id}
             g == [i \in 1..k |-> ledger[<<m, i>>]]
  <2>1. IsFiniteSet(Ids) /\ Cardinality(Ids) = MaxRequests
    BY <1>1, FS_Interval DEF Ids
  <2>2. IsFiniteSet(T) /\ Cardinality(T) = MaxRequests - 1
    BY <2>1, FS_RemoveElement
  <2>3. \A i \in 1..k : <<m, i>> \in Numbers /\ ledger[<<m, i>>] \in T
    <3>1. SUFFICES ASSUME NEW i \in 1..k PROVE <<m, i>> \in Numbers /\ ledger[<<m, i>>] \in T
      OBVIOUS
    <3>2. i \in Ids /\ <<m, i>> \in Numbers /\ ledger[<<m, i>>] # 0
      BY <1>2, <1>3 DEF Numbers
    <3>3. ledger[<<m, i>>] \in 0..MaxRequests
      BY <3>2 DEF IInv, TypeOK
    <3>4. QED
      BY <1>1, <3>2, <3>3 DEF Ids
  <2>4. \A i, j \in 1..k : ledger[<<m, i>>] = ledger[<<m, j>>] => i = j
    <3>1. SUFFICES ASSUME NEW i \in 1..k, NEW j \in 1..k, ledger[<<m, i>>] = ledger[<<m, j>>]
                   PROVE  i = j
      OBVIOUS
    <3>2. <<m, i>> \in Numbers /\ <<m, j>> \in Numbers /\ ledger[<<m, i>>] # 0
      BY <1>2, <1>3, <2>3
    <3>3. <<m, i>> = <<m, j>>
      BY <3>1, <3>2 DEF IInv, Accounts, IdsAreApart
    <3>4. QED
      BY <3>3
  <2>5. g \in Injection(1..k, T)
    BY <2>3, <2>4 DEF Injection, IsInjective
  <2> HIDE DEF g, T
  <2>6. Cardinality(1..k) <= Cardinality(T)
    BY <2>2, <2>5, FS_Injection
  <2>7. Cardinality(1..k) = k
    BY <1>3, FS_Interval
  <2>8. QED
    BY <1>1, <1>3, <2>2, <2>6, <2>7
<1>7. QED
  BY <1>1, <1>2, <1>3, <1>5, <1>6 DEF Ids

\* A reset waits for the thread that is opening an account.
LEMMA ResetLedgerInv == ASSUME NEW c \in Clients PROVE IInv /\ ResetLedger(c) => IInv'
<1> SUFFICES ASSUME IInv, ResetLedger(c) PROVE IInv'
  OBVIOUS
<1>1. /\ req[c].stage = "run" /\ FaultAt(c) = "reset_ledger" /\ Here(c)
      /\ ledgerLock = Nobody /\ Answer(c, "ok")
      /\ ledger' = [n \in Numbers |-> 0] /\ issued' = [n \in Numbers |-> {}]
      /\ UNCHANGED <<armed, faultLock, ledgerLock, sessions, arming, cookie, requests, mine>>
  BY DEF ResetLedger, MayLock, At, FaultAt, Here, Active
<1>2. /\ TypeOK /\ Accounts /\ Nobody \notin Clients /\ MaxRequests \in Nat
      /\ req[c] \in Requests /\ Route(c) # "confirmation"
  BY <1>1, HereFacts, Assumptions DEF IInv
<1> DEFINE r == Answered(c, "ok")
<1>3. /\ r \in Requests /\ r.stage = "answered" /\ r.answer = "ok"
      /\ r.id = req[c].id /\ r.in = req[c].in /\ r.number = req[c].number
  BY <1>1, Stopping DEF Answers
<1>4. Goes(c, r)
  BY <1>1 DEF Answer
<1> HIDE DEF r
<1>5. /\ req' \in [Clients -> {Idle} \cup Requests]
      /\ req'[c] = r /\ \A d \in Clients \ {c} : req'[d] = req[d]
  BY <1>2, <1>3, <1>4 DEF TypeOK, Goes
<1>6. \A d \in Clients : /\ Route(d)' = Route(d) /\ Member(d)' = Member(d)
                         /\ Asked(d)' = Asked(d) /\ Here(d)' => Here(d)
  BY <1>1, <1>3, <1>5 DEF Route, Member, Asked, Here, Active
<1>7. \A d \in Clients \ {c} : FaultAt(d)' = FaultAt(d)
  BY <1>5 DEF FaultAt, Route
<1>8. faultLock # c
  BY <1>1, <1>2 DEF TypeOK
<1>9. OnItsRoute'
  <2>1. ~Here(c)'
    BY <1>3, <1>5 DEF Here, Active
  <2>2. ASSUME NEW d \in Clients, Here(d)'
        PROVE  /\ req'[d].at \in DOMAIN Steps[Route(d)']
               /\ Route(d)' = "create" /\ req'[d].at > 3 => Member(d)' \in Members
    <3>1. d # c
      BY <2>1, <2>2
    <3>2. Here(d) /\ Route(d)' = Route(d) /\ Member(d)' = Member(d) /\ req'[d] = req[d]
      BY <1>5, <2>2, <3>1 DEF Here, Route, Member
    <3>3. QED
      BY <1>2, <3>2 DEF Accounts, OnItsRoute
  <2>3. QED
    BY <2>2 DEF OnItsRoute
<1>10. LookHoldsTheLock'
  BY <1>1, <1>2, <1>3, <1>5, <1>7, <1>8 DEF Accounts, LookHoldsTheLock
<1>11. TypeOK'
  <2>1. \A d \in Clients : d \in {faultLock, ledgerLock} <=> req[d].stage = "look"
    BY <1>2 DEF TypeOK
  <2>2. \A d \in Clients : d \in {faultLock', ledgerLock'} <=> req'[d].stage = "look"
    BY <1>1, <1>3, <1>5, <2>1
  <2>3. ledger' \in [Numbers -> 0..MaxRequests] /\ issued' \in [Numbers -> SUBSET Ids]
    BY <1>1, <1>2
  <2>4. QED
    BY <1>1, <1>2, <1>5, <2>2, <2>3 DEF TypeOK
<1>12. LookedUpIsArmed'
  BY <1>1, <1>5, <1>7, <1>8, <1>2 DEF IInv, LookedUpIsArmed, TypeOK
<1>13. FiresAsArmed' /\ CountedIsNext'
  BY <1>1 DEF IInv, FiresAsArmed, CountedIsNext
<1>14. NumberedInOrder'
  <2>1. \A m \in Members : \A i \in Ids : ledger'[<<m, i>>] = 0 /\ ~(i <= 0)
    BY <1>1 DEF Numbers, Ids
  <2>2. 0 \in 0..MaxRequests
    BY <1>2
  <2>3. QED
    BY <2>1, <2>2 DEF NumberedInOrder
<1>15. IdsAreApart'
  <2>1. \A n \in Numbers : ledger'[n] = 0
    BY <1>1
  <2>2. ASSUME NEW d \in Clients, Asked(d)
        PROVE  req'[d].id = req[d].id /\ req[d].id # 0
    <3>1. req[d] \in Requests
      <4>1. req[d] \in {Idle} \cup Requests
        BY <1>2 DEF TypeOK
      <4>2. QED
        BY <2>2, <4>1 DEF Asked, Idle
    <3>2. req[d].id \in 1..MaxRequests
      BY <3>1 DEF Requests, Ids
    <3>3. QED
      BY <1>2, <1>3, <1>5, <3>2
  <2>3. 0 <= requests
    <3>1. requests \in 0..MaxRequests
      BY <1>2 DEF TypeOK
    <3>2. QED
      BY <1>2, <3>1
  <2>4. \A d \in Clients : mine[d].id <= requests
    BY <1>2 DEF Accounts, IdsAreApart
  <2>5. \A d, e \in Clients : Asked(d) =>
          /\ req[d].id <= requests
          /\ mine[e].id # req[d].id
          /\ Asked(e) /\ d # e => req[d].id # req[e].id
    BY <1>2 DEF Accounts, IdsAreApart
  <2> DEFINE Apart(d, e) == Asked(d)' =>
          /\ req'[d].id <= requests'
          /\ mine'[e].id # req'[d].id
          /\ Asked(e)' /\ d # e => req'[d].id # req'[e].id
          /\ req'[d].stage # "answered" \/ req'[d].answer # "created" =>
                \A n \in Numbers : ledger'[n] # req'[d].id
  <2>6. ASSUME NEW d \in Clients, NEW e \in Clients PROVE Apart(d, e)
    <3>1. Asked(d)' = Asked(d) /\ Asked(e)' = Asked(e)
      BY <1>1, <1>3, <1>5 DEF Asked
    <3>2. \A x \in {d, e} : Asked(x) => req'[x].id = req[x].id /\ req[x].id # 0
      BY <2>2
    <3>3. QED
      BY <1>1, <2>1, <2>5, <3>1, <3>2
  <2>7. /\ \A d \in Clients : mine'[d].id <= requests'
        /\ \A n \in Numbers : ledger'[n] <= requests'
        /\ \A n, o \in Numbers : ledger'[n] # 0 /\ ledger'[n] = ledger'[o] => n = o
    BY <1>1, <2>1, <2>3, <2>4
  <2>8. QED
    BY <2>6, <2>7 DEF IdsAreApart
<1>16. IssuedAsOpened'
  BY <1>1 DEF IssuedAsOpened
<1>17. ShownIsMine'
  <2>1. \A n \in Numbers : ledger'[n] = 0
    BY <1>1
  <2>2. \A d \in Clients : req'[d].number = req[d].number
    BY <1>3, <1>5
  <2>3. ASSUME NEW d \in Clients, Asked(d)', Route(d)' = "confirmation"
        PROVE  /\ mine'[d].number \in Numbers /\ req'[d].number = mine'[d].number
               /\ ~(ledger'[mine'[d].number] = mine'[d].id /\ mine'[d].id # 0)
    <3>1. Asked(d) /\ Route(d) = "confirmation"
      BY <1>1, <1>3, <1>5, <2>3 DEF Asked, Route
    <3>2. mine[d].number \in Numbers /\ req[d].number = mine[d].number
      BY <1>2, <3>1 DEF Accounts, ShownIsMine
    <3>3. QED
      BY <1>1, <2>1, <2>2, <3>2
  <2>4. QED
    BY <2>3 DEF ShownIsMine
<1>18. QED
  BY <1>9, <1>10, <1>11, <1>12, <1>13, <1>14, <1>15, <1>16, <1>17 DEF IInv, Accounts

\* A thread that counts the accounts holds the lock until it has written one.
LEMMA CountAccountsInv == ASSUME NEW c \in Clients PROVE IInv /\ CountAccounts(c) => IInv'
<1> SUFFICES ASSUME IInv, CountAccounts(c) PROVE IInv'
  OBVIOUS
<1> DEFINE k == Cardinality(Opened(Member(c))) + 1
           r == [req[c] EXCEPT !.stage = "look", !.count = k]
<1>1. /\ req[c].stage = "run" /\ FaultAt(c) = "open" /\ Here(c)
      /\ ledgerLock = Nobody /\ ledgerLock' = c
      /\ Goes(c, r)
      /\ UNCHANGED <<armed, faultLock, ledger, sessions, arming, issued, cookie, requests, mine>>
  BY DEF CountAccounts, MayLock, At, FaultAt, history, Here, Active
<1>2. /\ TypeOK /\ Accounts /\ Nobody \notin Clients /\ MaxRequests \in Nat
      /\ req[c] \in Requests /\ Member(c) \in Members
  BY <1>1, HereFacts, Assumptions DEF IInv
<1>3. /\ k \in Ids
      /\ \A i \in Ids : ledger[<<Member(c), i>>] # 0 <=> i < k
  <2>1. req[c].id \in Ids
    BY <1>2 DEF Requests
  <2>2. \A n \in Numbers : ledger[n] # req[c].id
    BY <1>1, <1>2 DEF Asked, Accounts, IdsAreApart
  <2>3. QED
    BY <1>2, <2>1, <2>2, CountOpened
<1> HIDE DEF k
<1>4. /\ r \in Requests /\ r.stage = "look" /\ r.count = k
      /\ r.id = req[c].id /\ r.in = req[c].in /\ r.number = req[c].number /\ r.at = req[c].at
  <2>1. k \in Counts \cup 0..MaxRequests + 1
    BY <1>2, <1>3 DEF Ids
  <2>2. QED
    BY <1>2, <2>1 DEF Requests
<1> HIDE DEF r
<1>5. /\ req' \in [Clients -> {Idle} \cup Requests]
      /\ req'[c] = r /\ \A d \in Clients \ {c} : req'[d] = req[d]
  BY <1>1, <1>2, <1>4 DEF TypeOK, Goes
<1>6. \A d \in Clients : /\ Route(d)' = Route(d) /\ Member(d)' = Member(d)
                         /\ FaultAt(d)' = FaultAt(d)
                         /\ Here(d)' = Here(d) /\ Asked(d)' = Asked(d)
  BY <1>1, <1>4, <1>5 DEF Route, Member, FaultAt, Here, Asked, Active
<1>7. \A d \in Clients : ledgerLock # d
  BY <1>1, <1>2
<1>8. OnItsRoute'
  BY <1>2, <1>4, <1>5, <1>6 DEF Accounts, OnItsRoute
<1>9. FaultAt(c) \notin Faults
  BY <1>1, FaultsAre
<1>10. LookHoldsTheLock'
  <2>1. \A d \in Clients : ~(req[d].stage = "look" /\ FaultAt(d) = "open")
    BY <1>2, <1>7 DEF Accounts, LookHoldsTheLock
  <2>2. \A d \in Clients : faultLock = d <=> req[d].stage = "look" /\ FaultAt(d) \in Faults
    BY <1>2 DEF Accounts, LookHoldsTheLock
  <2>3. QED
    BY <1>1, <1>4, <1>5, <1>6, <1>9, <2>1, <2>2 DEF LookHoldsTheLock
<1>11. TypeOK'
  <2>1. \A d \in Clients : d \in {faultLock, ledgerLock} <=> req[d].stage = "look"
    BY <1>2 DEF TypeOK
  <2>2. \A d \in Clients : d \in {faultLock', ledgerLock'} <=> req'[d].stage = "look"
    BY <1>1, <1>4, <1>5, <1>7, <2>1
  <2>3. QED
    BY <1>1, <1>2, <1>5, <2>2 DEF TypeOK
<1>12. LookedUpIsArmed'
  <2>1. faultLock # c
    BY <1>1, <1>2 DEF TypeOK
  <2>2. QED
    BY <1>1, <1>2, <1>5, <1>6, <2>1 DEF IInv, TypeOK, LookedUpIsArmed
<1>13. FiresAsArmed' /\ NumberedInOrder' /\ IssuedAsOpened'
  BY <1>1, <1>2 DEF IInv, FiresAsArmed, Accounts, NumberedInOrder, IssuedAsOpened
<1>14. CountedIsNext'
  BY <1>1, <1>3, <1>4, <1>5, <1>6 DEF CountedIsNext
<1>15. IdsAreApart'
  BY <1>1, <1>2, <1>4, <1>5, <1>6 DEF Accounts, IdsAreApart
<1>16. ShownIsMine'
  BY <1>1, <1>2, <1>4, <1>5, <1>6 DEF Accounts, ShownIsMine
<1>17. QED
  BY <1>8, <1>10, <1>11, <1>12, <1>13, <1>14, <1>15, <1>16 DEF IInv, Accounts

\* The number that is written was counted under the lock, so it is still free.
LEMMA OpenAccountInv == ASSUME NEW c \in Clients PROVE IInv /\ OpenAccount(c) => IInv'
<1> SUFFICES ASSUME IInv, OpenAccount(c) PROVE IInv'
  OBVIOUS
<1> DEFINE m == Member(c)
           k == req[c].count
           id == req[c].id
           number == <<m, k>>
           r == [Answered(c, "created") EXCEPT !.number = number, !.count = 0]
<1>1. /\ req[c].stage = "look" /\ FaultAt(c) = "open" /\ Here(c) /\ ledgerLock' = Nobody
      /\ ledger' = [ledger EXCEPT ![number] = id]
      /\ issued' = [issued EXCEPT ![number] = @ \cup {id}]
      /\ Goes(c, r)
      /\ UNCHANGED <<armed, faultLock, sessions, arming, cookie, requests, mine>>
  BY DEF OpenAccount, At, FaultAt, Here, Active
<1>2. /\ TypeOK /\ Accounts /\ Nobody \notin Clients /\ MaxRequests \in Nat
      /\ req[c] \in Requests /\ m \in Members /\ Route(c) # "confirmation"
  BY <1>1, HereFacts, Assumptions DEF IInv
<1>3. FaultAt(c) \notin Faults
  BY <1>1, FaultsAre
<1>4. ledgerLock = c /\ faultLock # c
  BY <1>1, <1>2, <1>3 DEF Accounts, LookHoldsTheLock
<1>5. k \in Ids /\ \A i \in Ids : ledger[<<m, i>>] # 0 <=> i < k
  BY <1>2, <1>4 DEF Accounts, CountedIsNext
<1>6. id \in Ids /\ id # 0
  <2>1. id \in Ids
    BY <1>2 DEF Requests
  <2>2. QED
    BY <1>2, <2>1 DEF Ids
<1>7. number \in Numbers /\ ledger[number] = 0
  <2>1. ~(k < k)
    BY <1>2, <1>5 DEF Ids
  <2>2. QED
    BY <1>2, <1>5, <2>1 DEF Numbers
<1>8. /\ r \in Requests /\ r.stage = "answered" /\ r.answer = "created"
      /\ r.id = id /\ r.in = req[c].in /\ r.number = number
  <2> DEFINE q == Answered(c, "created")
  <2>1. /\ q \in Requests /\ q.stage = "answered" /\ q.answer = "created"
        /\ q.id = id /\ q.in = req[c].in
    BY <1>1, Stopping DEF Answers
  <2>2. 0 \in Counts \cup 0..MaxRequests + 1
    BY <1>2
  <2> HIDE DEF q, number, id
  <2>3. r = [q EXCEPT !.number = number, !.count = 0]
    BY DEF q
  <2>4. QED
    BY <1>7, <2>1, <2>2, <2>3 DEF Requests
<1>9. \A i \in Ids : <<m, i>> \in Numbers /\ (<<m, i>> = number <=> i = k)
  BY <1>2, <1>5 DEF Numbers
<1>10. \A o \in Members \ {m} : \A i \in Ids : <<o, i>> \in Numbers /\ <<o, i>> # number
  BY <1>2, <1>5 DEF Numbers
<1> HIDE DEF r
<1>11. /\ req' \in [Clients -> {Idle} \cup Requests]
       /\ req'[c] = r /\ \A d \in Clients \ {c} : req'[d] = req[d]
  BY <1>1, <1>2, <1>8 DEF TypeOK, Goes
<1>12. /\ ledger' \in [Numbers -> 0..MaxRequests] /\ issued' \in [Numbers -> SUBSET Ids]
       /\ ledger'[number] = id /\ issued'[number] = issued[number] \cup {id}
       /\ \A n \in Numbers \ {number} : ledger'[n] = ledger[n] /\ issued'[n] = issued[n]
  <2> HIDE DEF number, id
  <2>1. id \in 0..MaxRequests
    BY <1>2, <1>6 DEF Ids
  <2>2. QED
    BY <1>1, <1>2, <1>6, <1>7, <2>1 DEF TypeOK
<1> HIDE DEF id, number
<1>13. OnItsRoute'
  <2>1. ASSUME NEW d \in Clients, Here(d)'
        PROVE  /\ req'[d].at \in DOMAIN Steps[Route(d)']
               /\ Route(d)' = "create" /\ req'[d].at > 3 => Member(d)' \in Members
    <3>1. d # c
      BY <1>8, <1>11, <2>1 DEF Here, Active
    <3>2. Here(d) /\ Route(d)' = Route(d) /\ Member(d)' = Member(d) /\ req'[d] = req[d]
      BY <1>11, <2>1, <3>1 DEF Here, Route, Member
    <3>3. QED
      BY <1>2, <3>2 DEF Accounts, OnItsRoute
  <2>2. QED
    BY <2>1 DEF OnItsRoute
<1>14. \A d \in Clients \ {c} : FaultAt(d)' = FaultAt(d)
  BY <1>11 DEF FaultAt, Route
<1>15. LookHoldsTheLock'
  BY <1>1, <1>2, <1>4, <1>8, <1>11, <1>14 DEF Accounts, LookHoldsTheLock
<1>16. TypeOK'
  <2>1. \A d \in Clients : d \in {faultLock, ledgerLock} <=> req[d].stage = "look"
    BY <1>2 DEF TypeOK
  <2>2. \A d \in Clients : d \in {faultLock', ledgerLock'} <=> req'[d].stage = "look"
    BY <1>1, <1>2, <1>4, <1>8, <1>11, <2>1
  <2>3. QED
    BY <1>1, <1>2, <1>11, <1>12, <2>2 DEF TypeOK
<1>17. LookedUpIsArmed'
  BY <1>1, <1>2, <1>4, <1>11, <1>14 DEF IInv, TypeOK, LookedUpIsArmed
<1>18. FiresAsArmed' /\ CountedIsNext'
  BY <1>1 DEF IInv, FiresAsArmed, CountedIsNext
<1>19. NumberedInOrder'
  <2>1. ASSUME NEW o \in Members
        PROVE  \E j \in 0..MaxRequests : \A i \in Ids : ledger'[<<o, i>>] # 0 <=> i <= j
    <3>1. CASE o = m
      <4>1. \A i \in Ids : ledger'[<<m, i>>] # 0 <=> i < k \/ i = k
        BY <1>5, <1>6, <1>9, <1>12
      <4>2. \A i \in Ids : (i < k \/ i = k) <=> i <= k
        BY <1>2, <1>5 DEF Ids
      <4>3. k \in 0..MaxRequests
        BY <1>2, <1>5 DEF Ids
      <4>4. QED
        BY <3>1, <4>1, <4>2, <4>3
    <3>2. CASE o # m
      <4>1. PICK j \in 0..MaxRequests : \A i \in Ids : ledger[<<o, i>>] # 0 <=> i <= j
        BY <1>2 DEF Accounts, NumberedInOrder
      <4>2. \A i \in Ids : ledger'[<<o, i>>] = ledger[<<o, i>>]
        BY <1>10, <1>12, <3>2
      <4>3. QED
        BY <4>1, <4>2
    <3>3. QED
      BY <3>1, <3>2
  <2>2. QED
    BY <2>1 DEF NumberedInOrder
<1>20. IssuedAsOpened'
  <2>1. issued[number] = {}
    BY <1>2, <1>7 DEF Accounts, IssuedAsOpened
  <2>2. QED
    BY <1>2, <1>6, <1>12, <2>1 DEF Accounts, IssuedAsOpened
<1>21. Asked(c) /\ req[c].stage # "answered"
  BY <1>1 DEF Asked
<1>22. IdsAreApart'
  <2>1. /\ id <= requests
        /\ \A n \in Numbers : ledger[n] # id
        /\ \A d \in Clients : mine[d].id # id /\ (Asked(d) /\ d # c => req[d].id # id)
    BY <1>2, <1>21 DEF Accounts, IdsAreApart, id
  <2>2. \A d \in Clients : /\ Asked(d)' = Asked(d) /\ req'[d].id = req[d].id
                           /\ d # c => req'[d] = req[d]
    BY <1>8, <1>11, <1>21 DEF Asked, id
  <2>3. \A n \in Numbers : ledger'[n] <= requests
    BY <1>2, <1>12, <2>1 DEF Accounts, IdsAreApart
  <2>4. \A n, o \in Numbers : ledger'[n] # 0 /\ ledger'[n] = ledger'[o] => n = o
    BY <1>2, <1>12, <2>1 DEF Accounts, IdsAreApart
  <2>5. ASSUME NEW d \in Clients, Asked(d), req'[d].stage # "answered" \/ req'[d].answer # "created",
               NEW n \in Numbers
        PROVE  ledger'[n] # req[d].id
    <3>1. d # c
      BY <1>8, <1>11, <2>5
    <3>2. ledger[n] # req[d].id
      BY <1>2, <2>2, <2>5, <3>1 DEF Accounts, IdsAreApart
    <3>3. req[d].id # id
      BY <2>1, <2>5, <3>1
    <3>4. QED
      BY <1>12, <3>2, <3>3
  <2>6. \A d, e \in Clients : Asked(d) =>
          /\ req[d].id <= requests
          /\ mine[e].id # req[d].id
          /\ Asked(e) /\ d # e => req[d].id # req[e].id
    BY <1>2 DEF Accounts, IdsAreApart
  <2>7. \A d \in Clients : mine'[d].id <= requests'
    BY <1>1, <1>2 DEF Accounts, IdsAreApart
  <2>8. ASSUME NEW d \in Clients, NEW e \in Clients, Asked(d)'
        PROVE  /\ req'[d].id <= requests'
               /\ mine'[e].id # req'[d].id
               /\ Asked(e)' /\ d # e => req'[d].id # req'[e].id
               /\ req'[d].stage # "answered" \/ req'[d].answer # "created" =>
                     \A n \in Numbers : ledger'[n] # req'[d].id
    <3>1. Asked(d) /\ Asked(e)' = Asked(e) /\ req'[d].id = req[d].id /\ req'[e].id = req[e].id
      BY <2>2, <2>8
    <3>2. QED
      BY <1>1, <2>5, <2>6, <3>1
  <2>9. QED
    BY <1>1, <2>3, <2>4, <2>7, <2>8 DEF IdsAreApart
<1>23. ShownIsMine'
  <2>1. ASSUME NEW d \in Clients, Asked(d)', Route(d)' = "confirmation"
        PROVE  /\ mine'[d].number \in Numbers /\ req'[d].number = mine'[d].number
               /\ req'[d].stage = "answered" /\ req'[d].answer # "expired" =>
                  (ledger'[mine'[d].number] = mine'[d].id /\ mine'[d].id # 0 =>
                   req'[d].shown = mine'[d].id)
    <3>1. d # c
      BY <1>2, <1>8, <1>11, <2>1 DEF Route
    <3>2. req'[d] = req[d] /\ Asked(d) /\ Route(d) = "confirmation"
      BY <1>11, <2>1, <3>1 DEF Asked, Route
    <3>3. /\ mine[d].number \in Numbers /\ req[d].number = mine[d].number
          /\ req[d].stage = "answered" /\ req[d].answer # "expired" =>
             (ledger[mine[d].number] = mine[d].id /\ mine[d].id # 0 => req[d].shown = mine[d].id)
      BY <1>2, <3>2 DEF Accounts, ShownIsMine
    <3>4. mine[d].id # id
      BY <1>2, <1>21 DEF Accounts, IdsAreApart, id
    <3>5. QED
      BY <1>1, <1>12, <3>2, <3>3, <3>4
  <2>2. QED
    BY <2>1 DEF ShownIsMine
<1>24. QED
  BY <1>13, <1>15, <1>16, <1>17, <1>18, <1>19, <1>20, <1>22, <1>23 DEF IInv, Accounts

LEMMA ConfirmInv == ASSUME NEW c \in Clients PROVE IInv /\ Confirm(c) => IInv'
<1> SUFFICES ASSUME IInv, Confirm(c) PROVE IInv'
  OBVIOUS
<1> DEFINE opened == ledger[req[c].number]
           answer == IF opened = 0 THEN "missing" ELSE "confirmed"
           r == [Answered(c, answer) EXCEPT !.shown = opened]
<1>1. /\ req[c].stage = "run" /\ FaultAt(c) = "confirm" /\ Here(c) /\ Goes(c, r)
      /\ UNCHANGED <<sessions, armed, faultLock, ledger, ledgerLock, arming, issued, cookie,
                     requests, mine>>
  BY DEF Confirm, At, FaultAt, shared, history, Here, Active
<1>2. TypeOK /\ Accounts /\ Route(c) = "confirmation"
  BY <1>1, HereFacts DEF IInv
<1>3. req[c].number \in Numbers
  BY <1>1, <1>2 DEF Accounts, ShownIsMine, Asked
<1>4. opened \in 0..MaxRequests
  BY <1>2, <1>3 DEF TypeOK
<1>5. answer \in Answers \ {"created"}
  BY DEF Answers
<1>6. /\ r \in Requests /\ r.stage = "answered" /\ r.answer # "created"
      /\ r.id = req[c].id /\ r.in = req[c].in /\ r.number = req[c].number
      /\ r.shown = ledger[r.number]
  <2> HIDE DEF answer
  <2> DEFINE q == Answered(c, answer)
  <2>1. /\ q \in Requests /\ q.stage = "answered" /\ q.answer = answer
        /\ q.id = req[c].id /\ q.in = req[c].in /\ q.number = req[c].number
    BY <1>1, <1>5, Stopping
  <2> HIDE DEF q, opened
  <2>2. r = [q EXCEPT !.shown = opened]
    BY DEF q
  <2>3. r \in Requests /\ r.shown = opened /\ r.number = q.number /\ r.stage = q.stage
        /\ r.answer = q.answer /\ r.id = q.id /\ r.in = q.in
    BY <1>4, <2>1, <2>2 DEF Requests
  <2>4. QED
    BY <1>5, <2>1, <2>3 DEF opened
<1>7. sessions' \in [Ids -> {"none", "live", "stale", "gone"}]
  BY <1>1, <1>2 DEF TypeOK
<1> HIDE DEF r
<1>8. QED
  BY <1>1, <1>6, <1>7, MovesOnly

-----------------------------------------------------------------------------
(* The clients.                                                             *)

\* The thread of a client that reads an answer or asks holds no lock.
LEMMA ReceiveInv == ASSUME NEW c \in Clients PROVE IInv /\ Receive(c) => IInv'
<1> SUFFICES ASSUME IInv, Receive(c) PROVE IInv'
  OBVIOUS
<1>1. /\ req[c].stage = "answered" /\ Goes(c, Idle)
      /\ cookie' = [cookie EXCEPT ![Browser[c]] =
                       CASE req[c].answer = "signed_in" -> req[c].id
                         [] req[c].answer \in {"expired", "signed_out"} -> 0
                         [] OTHER -> @]
      /\ mine' = IF req[c].answer = "created"
                 THEN [mine EXCEPT ![c] = [id |-> req[c].id, number |-> req[c].number]] ELSE mine
      /\ UNCHANGED <<armed, faultLock, ledger, ledgerLock, sessions, arming, issued, requests>>
  BY DEF Receive, shared, history
<1>2. TypeOK /\ Accounts /\ Nobody \notin Clients /\ MaxRequests \in Nat
  BY Assumptions DEF IInv
<1>3. req[c] \in Requests /\ Asked(c)
  <2>1. req[c] \in {Idle} \cup Requests
    BY <1>2 DEF TypeOK
  <2>2. QED
    BY <1>1, <2>1 DEF Idle, Asked
<1>4. /\ req' \in [Clients -> {Idle} \cup Requests]
      /\ req'[c] = Idle /\ \A d \in Clients \ {c} : req'[d] = req[d]
  BY <1>1, <1>2 DEF TypeOK, Goes
<1>5. Idle.stage = "idle"
  BY DEF Idle
<1>6. \A d \in Clients : (Here(d)' \/ Asked(d)') => d # c
  BY <1>4, <1>5 DEF Here, Asked, Active
<1>7. \A d \in Clients \ {c} : /\ req'[d] = req[d] /\ Route(d)' = Route(d)
                               /\ Member(d)' = Member(d) /\ FaultAt(d)' = FaultAt(d)
                               /\ Asked(d)' = Asked(d) /\ Here(d)' = Here(d)
  BY <1>4 DEF Route, Member, FaultAt, Asked, Here
<1>8. \A d \in Clients : d \in {faultLock, ledgerLock} <=> req[d].stage = "look"
  BY <1>2 DEF TypeOK
<1>9. c # faultLock /\ c # ledgerLock
  BY <1>1, <1>8
<1>10. mine' \in [Clients -> [id : 0..MaxRequests, number : Numbers \cup {None}]]
  <2>1. req[c].id \in 0..MaxRequests /\ req[c].number \in Numbers \cup {None}
    <3>1. req[c].id \in Ids /\ req[c].number \in Numbers \cup {None}
      BY <1>3 DEF Requests
    <3>2. QED
      BY <1>2, <3>1 DEF Ids
  <2> DEFINE T == [id : 0..MaxRequests, number : Numbers \cup {None}]
  <2>2. [id |-> req[c].id, number |-> req[c].number] \in T /\ mine \in [Clients -> T]
    BY <1>2, <2>1 DEF TypeOK
  <2> HIDE DEF T
  <2>3. mine' \in [Clients -> T]
    BY <1>1, <2>2
  <2>4. QED
    BY <2>3 DEF T
<1>11. cookie' \in [Browsers -> Tokens]
  <2>1. req[c].id \in Tokens /\ 0 \in Tokens
    <3>1. req[c].id \in Ids
      BY <1>3 DEF Requests
    <3>2. QED
      BY <1>2, <3>1 DEF Ids, Tokens
  <2>2. cookie \in [Browsers -> Tokens] /\ Browser[c] \in Browsers
    BY <1>2 DEF TypeOK, Browsers
  <2>3. (CASE req[c].answer = "signed_in" -> req[c].id
           [] req[c].answer \in {"expired", "signed_out"} -> 0
           [] OTHER -> cookie[Browser[c]]) \in Tokens
    BY <2>1, <2>2
  <2>4. QED
    BY <1>1, <2>2, <2>3
<1>12. TypeOK'
  <2>1. \A d \in Clients : d \in {faultLock', ledgerLock'} <=> req'[d].stage = "look"
    BY <1>1, <1>4, <1>5, <1>8
  <2>2. QED
    BY <1>1, <1>2, <1>4, <1>10, <1>11, <2>1 DEF TypeOK
<1>13. OnItsRoute'
  <2>1. ASSUME NEW d \in Clients, Here(d)'
        PROVE  /\ req'[d].at \in DOMAIN Steps[Route(d)']
               /\ Route(d)' = "create" /\ req'[d].at > 3 => Member(d)' \in Members
    <3>1. d # c
      BY <1>4, <1>5, <2>1 DEF Here, Active
    <3>2. Here(d) /\ Route(d)' = Route(d) /\ Member(d)' = Member(d) /\ req'[d] = req[d]
      BY <1>4, <2>1, <3>1 DEF Here, Route, Member
    <3>3. QED
      BY <1>2, <3>2 DEF Accounts, OnItsRoute
  <2>2. QED
    BY <2>1 DEF OnItsRoute
<1>14. LookHoldsTheLock'
  BY <1>1, <1>2, <1>4, <1>5, <1>7, <1>9 DEF Accounts, LookHoldsTheLock
<1>15. LookedUpIsArmed' /\ CountedIsNext'
  BY <1>1, <1>2, <1>7, <1>9 DEF IInv, TypeOK, Accounts, LookedUpIsArmed, CountedIsNext
<1>16. FiresAsArmed' /\ NumberedInOrder' /\ IssuedAsOpened'
  BY <1>1, <1>2 DEF IInv, FiresAsArmed, Accounts, NumberedInOrder, IssuedAsOpened
<1>17. \A d \in Clients \ {c} : mine'[d] = mine[d]
  BY <1>1, <1>2 DEF TypeOK
<1>18. IdsAreApart'
  <2>1. \A d, e \in Clients : Asked(d) =>
          /\ req[d].id <= requests
          /\ mine[e].id # req[d].id
          /\ Asked(e) /\ d # e => req[d].id # req[e].id
          /\ req[d].stage # "answered" \/ req[d].answer # "created" =>
                \A n \in Numbers : ledger[n] # req[d].id
    BY <1>2 DEF Accounts, IdsAreApart
  <2>2. mine'[c].id = mine[c].id \/ mine'[c].id = req[c].id
    BY <1>1, <1>2 DEF TypeOK
  <2>3. ASSUME NEW d \in Clients, NEW e \in Clients, Asked(d)'
        PROVE  /\ req'[d].id <= requests'
               /\ mine'[e].id # req'[d].id
               /\ Asked(e)' /\ d # e => req'[d].id # req'[e].id
               /\ req'[d].stage # "answered" \/ req'[d].answer # "created" =>
                     \A n \in Numbers : ledger'[n] # req'[d].id
    <3>1. d # c /\ req'[d] = req[d] /\ Asked(d)
      BY <1>4, <1>5, <2>3 DEF Asked
    <3>2. mine'[e].id # req[d].id
      BY <1>3, <1>17, <2>1, <2>2, <3>1
    <3>3. Asked(e)' => e # c /\ Asked(e) /\ req'[e] = req[e]
      BY <1>4, <1>5 DEF Asked
    <3>4. QED
      BY <1>1, <2>1, <3>1, <3>2, <3>3
  <2>4. \A d \in Clients : mine'[d].id <= requests'
    BY <1>1, <1>2, <1>3, <1>17, <2>1, <2>2 DEF Accounts, IdsAreApart
  <2>5. /\ \A n \in Numbers : ledger'[n] <= requests'
        /\ \A n, o \in Numbers : ledger'[n] # 0 /\ ledger'[n] = ledger'[o] => n = o
    BY <1>1, <1>2 DEF Accounts, IdsAreApart
  <2>6. QED
    BY <2>3, <2>4, <2>5 DEF IdsAreApart
<1>19. ShownIsMine'
  <2>1. ASSUME NEW d \in Clients, Asked(d)', Route(d)' = "confirmation"
        PROVE  /\ mine'[d].number \in Numbers /\ req'[d].number = mine'[d].number
               /\ req'[d].stage = "answered" /\ req'[d].answer # "expired" =>
                  (ledger'[mine'[d].number] = mine'[d].id /\ mine'[d].id # 0 =>
                   req'[d].shown = mine'[d].id)
    <3>1. d # c /\ req'[d] = req[d] /\ Asked(d)
      BY <1>4, <1>5, <2>1 DEF Asked
    <3>2. Route(d) = "confirmation" /\ mine'[d] = mine[d]
      BY <1>17, <2>1, <3>1 DEF Route
    <3>3. QED
      BY <1>1, <1>2, <3>1, <3>2 DEF Accounts, ShownIsMine
  <2>2. QED
    BY <2>1 DEF ShownIsMine
<1>20. QED
  BY <1>12, <1>13, <1>14, <1>15, <1>16, <1>18, <1>19 DEF IInv, Accounts

\* Every route has a first step.
LEMMA RoutesBegin == \A r \in Routes : 1 \in DOMAIN Steps[r]
<1>1. \A r \in Routes :
        \/ r = "search" \/ r = "detail" \/ r = "form" \/ r = "create" \/ r = "confirmation"
        \/ r = "login" \/ r = "logout" \/ r = "arm" \/ r = "clear" \/ r = "reset"
  BY DEF Routes, Steps
<1>2. /\ DOMAIN Steps["search"] = 1..5 /\ DOMAIN Steps["detail"] = 1..8
      /\ DOMAIN Steps["form"] = 1..3 /\ DOMAIN Steps["create"] = 1..8
      /\ DOMAIN Steps["confirmation"] = 1..1 /\ DOMAIN Steps["login"] = 1..1
      /\ DOMAIN Steps["logout"] = 1..1 /\ DOMAIN Steps["arm"] = 1..1
      /\ DOMAIN Steps["clear"] = 1..1 /\ DOMAIN Steps["reset"] = 1..2
  BY DEF Steps
<1>3. QED
  BY <1>1, <1>2

\* A new request takes a number that no other request and no account has.
LEMMA RequestInv ==
    ASSUME NEW c \in Clients, NEW in \in Inputs[c] PROVE IInv /\ Request(c, in) => IInv'
<1> SUFFICES ASSUME IInv, Request(c, in) PROVE IInv'
  OBVIOUS
<1> DEFINE r == [stage |-> IF in.route \in LoginRequired THEN "check" ELSE "run",
                 id |-> requests + 1, in |-> in, token |-> cookie[Browser[c]], at |-> 1, hits |-> {},
                 count |-> 0, number |-> IF in.route = "confirmation" THEN mine[c].number ELSE None,
                 shown |-> 0, answer |-> ""]
<1>1. /\ req[c].stage = "idle" /\ requests < MaxRequests
      /\ in.route = "confirmation" => mine[c].number # None
      /\ requests' = requests + 1 /\ Goes(c, r)
      /\ UNCHANGED <<armed, faultLock, ledger, ledgerLock, sessions, arming, issued, cookie, mine>>
  BY DEF Request, shared, history
<1>2. TypeOK /\ Accounts /\ Nobody \notin Clients /\ MaxRequests \in Nat /\ in.route \in Routes
  BY Assumptions DEF IInv
<1>3. /\ requests \in Nat /\ requests + 1 \in Ids /\ requests' \in 0..MaxRequests
      /\ requests + 1 # 0 /\ requests <= requests + 1
      /\ \A i \in 0..MaxRequests : i <= requests => i # requests + 1 /\ i <= requests + 1
  <2>1. requests \in 0..MaxRequests
    BY <1>2 DEF TypeOK
  <2>2. requests < MaxRequests /\ MaxRequests \in Nat /\ requests' = requests + 1
    BY <1>1, <1>2
  <2>3. requests \in Nat /\ requests + 1 \in Ids
    BY <2>1, <2>2 DEF Ids
  <2>4. QED
    BY <2>1, <2>2, <2>3
<1>4. /\ r \in Requests /\ r.stage \in {"check", "run"} /\ r.id = requests + 1 /\ r.at = 1
      /\ r.in.route = in.route
      /\ in.route = "confirmation" => r.number = mine[c].number /\ mine[c].number \in Numbers
  <2>1. in \in UNION {Inputs[d] : d \in Clients}
    OBVIOUS
  <2>2. cookie[Browser[c]] \in Tokens
    BY <1>2 DEF TypeOK, Browsers
  <2>3. mine[c].number \in Numbers \cup {None}
    BY <1>2 DEF TypeOK
  <2>4. 0 \in Counts \cup 0..MaxRequests + 1 /\ 0 \in 0..MaxRequests
    BY <1>2
  <2>5. r \in Requests
    BY <1>3, <2>1, <2>2, <2>3, <2>4 DEF Requests
  <2>6. QED
    BY <1>1, <2>3, <2>5
<1> HIDE DEF r
<1>5. /\ req' \in [Clients -> {Idle} \cup Requests]
      /\ req'[c] = r /\ \A d \in Clients \ {c} : req'[d] = req[d]
  BY <1>1, <1>2, <1>4 DEF TypeOK, Goes
<1>6. \A d \in Clients : d \in {faultLock, ledgerLock} <=> req[d].stage = "look"
  BY <1>2 DEF TypeOK
<1>7. c # faultLock /\ c # ledgerLock
  BY <1>1, <1>6
<1>8. \A d \in Clients \ {c} : /\ req'[d] = req[d] /\ Route(d)' = Route(d)
                               /\ Member(d)' = Member(d) /\ FaultAt(d)' = FaultAt(d)
                               /\ Asked(d)' = Asked(d) /\ Here(d)' = Here(d)
  BY <1>5 DEF Route, Member, FaultAt, Asked, Here
<1>9. \A d \in Clients : mine[d].id \in 0..MaxRequests
  BY <1>2 DEF TypeOK
<1>10. \A n \in Numbers : ledger[n] \in 0..MaxRequests
  BY <1>2 DEF TypeOK
<1>11. \A d \in Clients \ {c} : Asked(d) => req[d].id \in 0..MaxRequests
  <2>1. SUFFICES ASSUME NEW d \in Clients \ {c}, Asked(d) PROVE req[d].id \in 0..MaxRequests
    OBVIOUS
  <2>2. req[d] \in {Idle} \cup Requests
    BY <1>2 DEF TypeOK
  <2>3. req[d] \in Requests
    BY <2>1, <2>2 DEF Asked, Idle
  <2>4. req[d].id \in Ids
    BY <2>3 DEF Requests
  <2>5. QED
    BY <1>2, <2>4 DEF Ids
<1>12. TypeOK'
  <2>1. \A d \in Clients : d \in {faultLock', ledgerLock'} <=> req'[d].stage = "look"
    BY <1>1, <1>4, <1>5, <1>6, <1>7
  <2>2. QED
    BY <1>1, <1>2, <1>3, <1>5, <2>1 DEF TypeOK
<1>13. OnItsRoute'
  <2>1. ASSUME NEW d \in Clients, Here(d)'
        PROVE  /\ req'[d].at \in DOMAIN Steps[Route(d)']
               /\ Route(d)' = "create" /\ req'[d].at > 3 => Member(d)' \in Members
    <3>1. CASE d = c
      <4>1. req'[d].at = 1 /\ Route(d)' \in Routes
        BY <1>2, <1>4, <1>5, <3>1 DEF Route
      <4>2. QED
        BY <4>1, RoutesBegin
    <3>2. CASE d # c
      <4>1. Here(d) /\ Route(d)' = Route(d) /\ Member(d)' = Member(d) /\ req'[d] = req[d]
        BY <1>5, <2>1, <3>2 DEF Here, Route, Member
      <4>2. QED
        BY <1>2, <4>1 DEF Accounts, OnItsRoute
    <3>3. QED
      BY <3>1, <3>2
  <2>2. QED
    BY <2>1 DEF OnItsRoute
<1>14. LookHoldsTheLock'
  BY <1>1, <1>2, <1>4, <1>5, <1>7, <1>8 DEF Accounts, LookHoldsTheLock
<1>15. LookedUpIsArmed' /\ CountedIsNext'
  BY <1>1, <1>2, <1>7, <1>8 DEF IInv, TypeOK, Accounts, LookedUpIsArmed, CountedIsNext
<1>16. FiresAsArmed' /\ NumberedInOrder' /\ IssuedAsOpened'
  BY <1>1, <1>2 DEF IInv, FiresAsArmed, Accounts, NumberedInOrder, IssuedAsOpened
<1>17. /\ \A d \in Clients : mine[d].id <= requests
       /\ \A n \in Numbers : ledger[n] <= requests
  BY <1>2 DEF Accounts, IdsAreApart
<1>18. IdsAreApart'
  <2>1. \A d, e \in Clients : Asked(d) =>
          /\ req[d].id <= requests
          /\ mine[e].id # req[d].id
          /\ Asked(e) /\ d # e => req[d].id # req[e].id
          /\ req[d].stage # "answered" \/ req[d].answer # "created" =>
                \A n \in Numbers : ledger[n] # req[d].id
    BY <1>2 DEF Accounts, IdsAreApart
  <2>2. ASSUME NEW d \in Clients, NEW e \in Clients, Asked(d)'
        PROVE  /\ req'[d].id <= requests'
               /\ mine'[e].id # req'[d].id
               /\ Asked(e)' /\ d # e => req'[d].id # req'[e].id
               /\ req'[d].stage # "answered" \/ req'[d].answer # "created" =>
                     \A n \in Numbers : ledger'[n] # req'[d].id
    <3>1. \A x \in {d, e} : x # c => req'[x] = req[x] /\ (Asked(x)' => Asked(x))
      BY <1>5 DEF Asked
    <3>2. \A x \in {d, e} : x # c /\ Asked(x)' => req[x].id <= requests /\ req[x].id # requests + 1
                                                  /\ req[x].id <= requests + 1
      BY <1>3, <1>11, <2>1, <3>1
    <3>3. req'[c].id = requests + 1
      BY <1>4, <1>5
    <3>4. CASE d = c
      BY <1>1, <1>3, <1>9, <1>10, <1>17, <3>1, <3>2, <3>3, <3>4
    <3>5. CASE d # c
      BY <1>1, <2>1, <2>2, <3>1, <3>2, <3>3, <3>5
    <3>6. QED
      BY <3>4, <3>5
  <2>3. /\ \A d \in Clients : mine'[d].id <= requests'
        /\ \A n \in Numbers : ledger'[n] <= requests'
    BY <1>1, <1>3, <1>9, <1>10, <1>17
  <2>4. \A n, o \in Numbers : ledger'[n] # 0 /\ ledger'[n] = ledger'[o] => n = o
    BY <1>1, <1>2 DEF Accounts, IdsAreApart
  <2>5. QED
    BY <2>2, <2>3, <2>4 DEF IdsAreApart
<1>19. ShownIsMine'
  <2>1. ASSUME NEW d \in Clients, Asked(d)', Route(d)' = "confirmation"
        PROVE  /\ mine'[d].number \in Numbers /\ req'[d].number = mine'[d].number
               /\ req'[d].stage = "answered" /\ req'[d].answer # "expired" =>
                  (ledger'[mine'[d].number] = mine'[d].id /\ mine'[d].id # 0 =>
                   req'[d].shown = mine'[d].id)
    <3>1. CASE d = c
      BY <1>1, <1>4, <1>5, <2>1, <3>1 DEF Route
    <3>2. CASE d # c
      <4>1. req'[d] = req[d] /\ Asked(d) /\ Route(d) = "confirmation"
        BY <1>5, <2>1, <3>2 DEF Asked, Route
      <4>2. QED
        BY <1>1, <1>2, <4>1 DEF Accounts, ShownIsMine
    <3>3. QED
      BY <3>1, <3>2
  <2>2. QED
    BY <2>1 DEF ShownIsMine
<1>20. QED
  BY <1>12, <1>13, <1>14, <1>15, <1>16, <1>18, <1>19 DEF IInv, Accounts

\* A step that touches no request, no lock, no fault and no account.
LEMMA SessionsOnly ==
    ASSUME IInv, sessions' \in [Ids -> {"none", "live", "stale", "gone"}],
           UNCHANGED <<armed, faultLock, ledger, ledgerLock, arming, issued, cookie, req,
                       requests, mine>>
    PROVE  IInv'
<1>1. TypeOK'
  BY DEF IInv, TypeOK
<1>2. \A d \in Clients : /\ Route(d)' = Route(d) /\ Member(d)' = Member(d)
                         /\ FaultAt(d)' = FaultAt(d)
                         /\ Asked(d)' = Asked(d) /\ Here(d)' = Here(d)
  BY DEF Route, Member, FaultAt, Asked, Here
<1>3. OnItsRoute' /\ LookHoldsTheLock' /\ IdsAreApart' /\ ShownIsMine'
  BY <1>2 DEF IInv, Accounts, OnItsRoute, LookHoldsTheLock, IdsAreApart, ShownIsMine
<1>4. LookedUpIsArmed' /\ CountedIsNext'
  BY <1>2 DEF IInv, TypeOK, Accounts, LookedUpIsArmed, CountedIsNext
<1>5. FiresAsArmed' /\ NumberedInOrder' /\ IssuedAsOpened'
  BY DEF IInv, FiresAsArmed, Accounts, NumberedInOrder, IssuedAsOpened
<1>6. QED
  BY <1>1, <1>3, <1>4, <1>5 DEF IInv, Accounts

LEMMA ExpireInv == ASSUME NEW t \in Ids PROVE IInv /\ Expire(t) => IInv'
<1> SUFFICES ASSUME IInv, Expire(t) PROVE IInv'
  OBVIOUS
<1>1. sessions' \in [Ids -> {"none", "live", "stale", "gone"}]
  BY DEF IInv, TypeOK, Expire
<1>2. QED
  BY <1>1, SessionsOnly DEF Expire, history

LEMMA DecisionsInv ==
    ASSUME NEW c \in Clients
    PROVE  IInv /\ (FindMember(c) \/ RefuseRestricted(c) \/ ReadQuery(c) \/ LookUp(c)
                    \/ ShowPage(c) \/ Validate(c)) => IInv'
<1> SUFFICES ASSUME IInv, \/ FindMember(c) \/ RefuseRestricted(c) \/ ReadQuery(c)
                          \/ LookUp(c) \/ ShowPage(c) \/ Validate(c)
             PROVE  IInv'
  OBVIOUS
<1>1. {"missing", "denied", "page", "redirect", "invalid"} \subseteq Answers \ {"created"}
  BY DEF Answers
<1>2. /\ {"member", "restricted", "query", "input"} \cap Final = {}
      /\ {"member", "restricted", "query", "directory", "page", "input"} \cap {"confirm"} = {}
  BY DEF Final
<1>3. CASE FindMember(c)
  BY <1>1, <1>2, <1>3, DecideInv DEF FindMember
<1>4. CASE RefuseRestricted(c)
  BY <1>1, <1>2, <1>4, DecideInv DEF RefuseRestricted
<1>5. CASE ReadQuery(c)
  BY <1>1, <1>2, <1>5, DecideInv DEF ReadQuery
<1>6. CASE LookUp(c)
  BY <1>1, <1>2, <1>6, DecideInv DEF LookUp
<1>7. CASE ShowPage(c)
  BY <1>1, <1>2, <1>7, DecideInv DEF ShowPage
<1>8. CASE Validate(c)
  BY <1>1, <1>2, <1>8, DecideInv DEF Validate
<1>9. QED
  BY <1>3, <1>4, <1>5, <1>6, <1>7, <1>8

LEMMA ServeInv == ASSUME NEW c \in Clients PROVE IInv /\ Serve(c) => IInv'
BY CheckSessionInv, SignInv, FireOneShotInv, PassFaultInv, LookFaultInv, UseFaultInv, ArmInv, ClearInv,
   ResetFaultsInv, ResetLedgerInv, DecisionsInv, CountAccountsInv, OpenAccountInv, ConfirmInv
   DEF Serve

LEMMA NextInv == IInv /\ [Next]_vars => IInv'
<1> SUFFICES ASSUME IInv, [Next]_vars PROVE IInv'
  OBVIOUS
<1>1. ASSUME NEW c \in Clients, Serve(c) \/ Receive(c) PROVE IInv'
  BY <1>1, ServeInv, ReceiveInv
<1>2. ASSUME NEW c \in Clients, NEW in \in Inputs[c], Request(c, in) PROVE IInv'
  BY <1>2, RequestInv
<1>3. ASSUME NEW t \in Ids, Expire(t) PROVE IInv'
  BY <1>3, ExpireInv
<1>4. CASE UNCHANGED vars
  <2>1. UNCHANGED <<armed, faultLock, ledger, ledgerLock, sessions, arming, issued, cookie, req,
                    requests, mine>>
    BY <1>4 DEF vars
  <2>2. sessions' \in [Ids -> {"none", "live", "stale", "gone"}]
    BY <2>1 DEF IInv, TypeOK
  <2>3. QED
    BY <2>1, <2>2, SessionsOnly
<1>5. QED
  BY <1>1, <1>2, <1>3, <1>4 DEF Next

-----------------------------------------------------------------------------
(* The theorems.                                                            *)

\* The inductive invariant: what a thread inside a locked section read is still
\* so, whatever the other threads of the application do meanwhile.
THEOREM Invariance == Spec => []IInv
BY InitInv, NextInv, PTL DEF Spec

\* Every variable keeps its type, and exactly the threads inside a locked section
\* hold a lock (InjectionState.fire, Ledger.open_subaccount).
THEOREM TypeCorrect == Spec => []TypeOK
<1>1. IInv => TypeOK
  BY DEF IInv
<1>2. QED
  BY Invariance, <1>1, PTL

\* InjectionState: with any number of threads firing, arming, clearing and
\* resetting, a counted fault fires as often as it was armed to and no more.
THEOREM FaultsFireAsArmed == Spec => []FiresAsArmed
<1>1. IInv => FiresAsArmed
  BY DEF IInv
<1>2. QED
  BY Invariance, <1>1, PTL

\* The ledger under the invariant: a request that was not told of an account
\* opened none, and a confirmation shows the client its own.
LEMMA AccountsLemma == IInv => AccountsMatchAnswers
<1> SUFFICES ASSUME IInv PROVE AccountsMatchAnswers
  OBVIOUS
<1>1. TypeOK /\ Accounts
  BY DEF IInv
<1>2. \A n \in Numbers : issued[n] = IF ledger[n] = 0 THEN {} ELSE {ledger[n]}
  BY <1>1 DEF Accounts, IssuedAsOpened
<1>3. ASSUME NEW c \in Clients, req[c].stage = "answered"
      PROVE  /\ req[c].answer # "created" => \A n \in Numbers : ledger[n] # req[c].id
             /\ \/ req[c].in.route # "confirmation" \/ req[c].answer = "expired"
                \/ mine[c].id \notin issued[mine[c].number]
                \/ req[c].shown = mine[c].id
  <2>1. Asked(c)
    BY <1>3 DEF Asked
  <2>2. req[c].answer # "created" => \A n \in Numbers : ledger[n] # req[c].id
    BY <1>1, <2>1 DEF Accounts, IdsAreApart
  <2>3. ASSUME req[c].in.route = "confirmation", req[c].answer # "expired",
               mine[c].id \in issued[mine[c].number]
        PROVE  req[c].shown = mine[c].id
    <3>1. /\ mine[c].number \in Numbers
          /\ ledger[mine[c].number] = mine[c].id /\ mine[c].id # 0 => req[c].shown = mine[c].id
      BY <1>1, <1>3, <2>1, <2>3 DEF Accounts, ShownIsMine, Route
    <3>2. ledger[mine[c].number] # 0 /\ mine[c].id = ledger[mine[c].number]
      BY <1>2, <2>3, <3>1
    <3>3. QED
      BY <3>1, <3>2
  <2>4. QED
    BY <2>2, <2>3
<1>4. QED
  BY <1>2, <1>3 DEF AccountsMatchAnswers

\* Ledger.open_subaccount and the views over it: with any number of clients a
\* number is given once, a refused request opened nothing, and a client asking
\* for the number it was told sees its own account.
THEOREM AccountsAreAnswered == Spec => []AccountsMatchAnswers
BY Invariance, AccountsLemma, PTL
=============================================================================
