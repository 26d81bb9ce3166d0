------------------------------ MODULE MCSurface ------------------------------
(* The surface for TLC: a click that opens pages, one that answers a dialog   *)
(* and submits, typing and navigating, with what their pages may do.          *)
EXTENDS Surface

Url(path) == [origin |-> "ours", path |-> path, query |-> "plain", wellFormed |-> TRUE]
Elsewhere == [Url("page") EXCEPT !.origin = "theirs"]
MCPolicy == [
    actions |-> {"navigate", "click", "type_text", "press_key"},
    origins |-> {"ours"}, allow |-> {"page", "create"}, deny |-> {"control"},
    denyQuery |-> {"inject"}, handling |-> "confirm",
    irreversible |->
        {[action |-> "click", text |-> "submit", path |-> Any, message |-> Any, response |-> Any],
         [action |-> "click", text |-> Any, path |-> "create", message |-> Any, response |-> Any],
         [action |-> Any, text |-> Any, path |-> Any, message |-> "sure", response |-> "accept"]}]

Go(url, hops) == [type |-> "navigation", frame |-> Url("page"), url |-> url, hops |-> hops]
Load(url) == [type |-> "subresource", frame |-> Url("page"), url |-> url]
Ask(message) == [type |-> "dialog", dialog |-> "confirm", message |-> message]
Other(type) == [type |-> type]

Act(kind, text, causes) ==
    [kind |-> kind, frame |-> Url("page"), url |-> NoUrl, text |-> text, key |-> "none",
     declared |-> "safe", dialog |-> NoDialog, confirmed |-> FALSE, causes |-> causes]
Sure == [type |-> "confirm", message |-> "sure", response |-> "accept"]

Open   == [Act("click", "open", {{Go(Url("page"), <<Elsewhere>>)}})
           EXCEPT !.dialog = Sure]
Submit == [Act("click", "submit", {{Ask("sure")}, {Go(Url("create"), <<Url("page")>>)}})
           EXCEPT !.dialog = Sure, !.confirmed = TRUE, !.declared = "irreversible"]
Type   == Act("type_text", "field", {{Load(Elsewhere)}, {Other("popup")}, {Other("download")}})
Enter  == [Act("press_key", "submit", {{}}) EXCEPT !.key = "Enter"]
Visit  == [Act("navigate", "none", {{Other("scheme")}})
           EXCEPT !.frame = Blank, !.url = Url("page")]
Astray == [Visit EXCEPT !.url = [Url("page") EXCEPT !.query = "inject"]]
MCActs == {Open, Submit, Type, Enter, Visit, Astray}
MCHumanCauses == {Ask("sure")}
=============================================================================
