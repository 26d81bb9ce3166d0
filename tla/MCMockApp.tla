------------------------------ MODULE MCMockApp ------------------------------
(* CoreLedger for TLC: two windows of one browser, an ordinary member and a *)
(* restricted one, one input for every route and every way it can end.      *)
EXTENDS MockApp

MCBrowser == [c \in Clients |-> "browser"]

\* Requests of the application, without and with a fault of their own.
Ask(route, member, good, inject) ==
    [route |-> route, member |-> member, good |-> good, inject |-> inject,
     fault |-> "slow", times |-> 1, site |-> "detail"]
\* Requests of the control surface.
Control(route, fault, times, site) ==
    [route |-> route, member |-> "member", good |-> TRUE, inject |-> {},
     fault |-> fault, times |-> times, site |-> site]

OneWindow ==
    {Ask("login", "member", TRUE, {}),
     Ask("create", "member", TRUE, {}),
     Ask("confirmation", "member", TRUE, {}),
     Ask("create", "member", FALSE, {}),
     Ask("search", "member", TRUE, {})}
OtherWindow ==
    {Ask("create", "member", TRUE, {}),
     Ask("create", "restricted", TRUE, {}),
     Ask("logout", "member", TRUE, {}),
     Ask("detail", "member", TRUE, {[fault |-> "app_error", site |-> "search"]}),
     Ask("detail", "member", TRUE, {[fault |-> "app_error", site |-> ""]}),
     Ask("form", "nobody", TRUE, {}),
     Control("arm", "validation_error", 2, "create"),
     Control("arm", "session_expired", Unset, "create"),
     Control("arm", "app_error", 0, "create"),
     Control("clear", "validation_error", 1, "create"),
     Control("reset", "slow", 1, "detail")}
MCInputs == [c \in Clients |-> IF c = "one" THEN OneWindow ELSE OtherWindow]
=============================================================================
