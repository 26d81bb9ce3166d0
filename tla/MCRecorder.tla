------------------------------ MODULE MCRecorder ------------------------------
(* Flows for TLC: a member looked up by number or by URL, an account opened   *)
(* with an amount and a kind, a sign-in; short ones in every order.           *)
EXTENDS Recorder

MCLower == [Savings |-> "savings", Checking |-> "checking", Member |-> "member"]
MCDigits == ("10003" :> 5) @@ ("10004" :> 5) @@ ("S01" :> 2) @@ ("S02" :> 2)
            @@ ("500" :> 3) @@ ("1000" :> 4) @@ ("00" :> 2) @@ ("000" :> 3) @@ ("1" :> 1)
MCNumbers == DOMAIN MCDigits \ {"S01", "S02"}

\* Slots: a member, one of the member's accounts, an amount, a kind of account.
Filled(member, account, amount, kind) ==
    [member |-> <<member>>, account |-> <<member, "-", account>>, amount |-> amount, kind |-> <<kind>>]
Cents(n) == <<n, ".", "00">>
MCValues == {Filled("10003", "S01", Cents("500"), "Savings"),
             Filled("10004", "S02", Cents("1000"), "Checking"),
             Filled("10004", "S01", <<"500">>, "Savings")}
MCFormatted == (Cents("500") :> <<"$", "500", ".", "00">>)
               @@ (<<"500">> :> <<"$", "500", ".", "00">>)
               @@ (Cents("1000") :> <<"$", "1", ",", "000", ".", "00">>)

W(word) == [word |-> word, slot |-> "", amount |-> FALSE]
V(slot) == [word |-> "", slot |-> slot, amount |-> FALSE]
Amount  == [word |-> "", slot |-> "amount", amount |-> TRUE]
Goal == <<W("open"), V("kind"), W("with"), V("amount"), W("for"), V("account"), W("of"), V("member")>>
Entry == <<"http", "host", "/">>
Under(path) == <<W("http"), W("host"), W("/")>> \o path

Element(id, frame, label) == [id |-> id, frame |-> frame, label |-> label, credential |-> FALSE, rated |-> "safe"]
Number   == Element("number", "main", <<"Member", "number">>)
Password == [Element("password", "main", <<"password">>) EXCEPT !.credential = TRUE]
Deposit  == Element("deposit", "main", <<"initial", "deposit">>)
Type     == Element("type", "main", <<"account", "type">>)
Search   == Element("search", "main", <<"search">>)
Create   == Element("create", "main", <<"create">>)
Balance  == Element("balance", "main", <<"balance">>)
Menu     == Element("menu", "top", <<"menu">>)

Node(frame, element, items, plain) == [frame |-> frame, element |-> element, items |-> items, plain |-> plain]
Control(t) == Node(t.frame, t.id, [i \in DOMAIN t.label |-> W(t.label[i])], FALSE)
Shows(items) == Node("main", "text", items, TRUE)
Controls == [i \in 1..7 |-> Control(<<Number, Password, Deposit, Type, Search, Create, Menu>>[i])]
Screen(nodes, url) == [nodes |-> nodes \o Controls, urls |-> [main |-> url]]
Form     == Screen(<<Shows(<<W("welcome")>>)>>, <<W("form")>>)
Profile  == Screen(<<Shows(<<W("profile"), W("of"), V("member")>>), Shows(<<W("details")>>),
                     Node("main", "text", <<V("account")>>, FALSE), Control(Balance)>>, <<W("profile")>>)
Opened   == Screen(<<Shows(<<W("opened"), V("kind")>>), Shows(<<W("receipt")>>),
                     Node("main", "text", <<Amount>>, FALSE), Control(Balance)>>, <<W("receipt")>>)

AnyStep == [action |-> "click", risk |-> "safe", target |-> Search, key |-> "none", dialog |-> NoDialog,
          limit |-> 0, items |-> <<>>, after |-> Form, later |-> NoScreen]
Open(items, after) ==
    [AnyStep EXCEPT !.action = "navigate", !.target = NoTarget, !.items = items, !.after = after]
Start == Open([i \in DOMAIN EntryUrl |-> W(EntryUrl[i])], Form)
Fill(target, items, limit) ==
    [AnyStep EXCEPT !.action = "type_text", !.target = target, !.items = items, !.limit = limit]
Click(target, after) == [AnyStep EXCEPT !.target = target, !.after = after]
Kinds == {
    Fill(Number, <<V("member")>>, 5),
    Fill(Deposit, <<V("amount")>>, 0),
    Fill(Number, <<V("account")>>, 0),
    Fill(Password, [i \in 1..4 |-> W(Ref("secrets", <<"password">>)[i])], 0),
    Fill(Password, <<W("plain")>>, 0),
    [Fill(Type, <<V("kind"), W("plan")>>, 0) EXCEPT !.action = "select_option"],
    Open(Under(<<W("members"), W("/"), V("member"), W("/"), W("accounts"), W("/"), V("account")>>), Profile),
    Open(Under(<<W("open"), W("?"), W("of"), W("="), V("member"), W("&"), W("tab"), W("="), W("1")>>), Opened),
    Click(Search, Profile),
    [Click(Create, Opened) EXCEPT !.dialog = [type |-> "confirm", response |-> "accept"]],
    [Click(Search, Form) EXCEPT !.later = Profile],
    [Click(NoTarget, Profile) EXCEPT !.action = "press_key", !.key = "Enter"]}
FlowOf(steps) ==
    [goal |-> Goal, entry |-> Entry, secrets |-> (<<"password">> :> "credential"), blank |-> Blank,
     steps |-> <<Start>> \o steps, outputs |-> <<Balance>>, proof |-> Menu]
MCFlows ==
    {FlowOf(<<k>>) : k \in Kinds} \cup {FlowOf(<<j, k>>) : j, k \in Kinds}
    \cup {FlowOf(<<j, Fill(Deposit, <<V("amount")>>, 0), k>>) : j, k \in Kinds}
=============================================================================
