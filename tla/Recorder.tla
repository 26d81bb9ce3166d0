------------------------------- MODULE Recorder -------------------------------
(***************************************************************************)
(* From a finished discovery to a draft capability: the inputs that are    *)
(* proposed, the literals that become templates, the waits and checkpoints *)
(* derived from the screens, what the schema refuses; and what a replay of *)
(* the draft types, opens and waits for.                                   *)
(*                                                                         *)
(* A text is a sequence of tokens, words and punctuation marks; spaces are *)
(* dropped.  Where an element is on the page, and what makes a text read   *)
(* like interface rather than data, are attributes of the screens' nodes.  *)
(***************************************************************************)
EXTENDS Integers, Sequences, FiniteSets, SequencesExt

CONSTANTS
    Lower,    \* word -> the word in lower case, where it differs
    Digits,   \* word -> the length of its digits, where it has some
    Numbers,  \* the words that are digits only
    Flows,    \* what discoveries may have recorded, for any values of its slots
    Values,   \* slot -> text, for every set of values a flow is run with
    Formatted \* a text -> how the application shows it as an amount

Scopes == {"inputs", "secrets", "surface"}
Marks  == {"/", "?", "=", "&"}
Punctuation == Marks \cup {"$", ",", ".", "-", ":"}
NoTarget == [id |-> "none"]
NoDialog == [type |-> "none", response |-> "none"]
Settle == {}

-----------------------------------------------------------------------------
(* Texts.                                                                  *)

Low(t) == [i \in DOMAIN t |-> IF t[i] \in DOMAIN Lower THEN Lower[t[i]] ELSE t[i]]
HasDigit(t) == \E i \in DOMAIN t : t[i] \in DOMAIN Digits

StandsAt(part, t, i) ==
    i + Len(part) - 1 <= Len(t) /\ \A k \in DOMAIN part : t[i + k - 1] = part[k]
Occurs(part, t) == \E i \in DOMAIN t : StandsAt(part, t, i)

\* _word_boundary: whole words, in any case.
Named(literal, t) == literal # <<>> /\ Occurs(Low(literal), Low(t))

\* Every occurrence of a literal replaced, from left to right.
Substitute(t, literal, by) ==
    LET from[i \in 1..Len(t) + 1] ==
            IF i > Len(t) THEN <<>>
            ELSE IF StandsAt(Low(literal), Low(t), i) THEN by \o from[i + Len(literal)]
            ELSE <<t[i]>> \o from[i + 1]
    IN  from[1]

\* {{scope.name}}; a name is a sequence of words, joined by underscores.
Ref(scope, name) == <<"{{", scope>> \o name \o <<"}}">>
EntryUrl == Ref("surface", <<"entry_url">>)
RefSpans(t) ==
    {s \in (DOMAIN t) \X (DOMAIN t) :
        /\ s[1] + 2 < s[2] /\ t[s[1]] = "{{" /\ t[s[2]] = "}}"
        /\ t[s[1] + 1] \in Scopes
        /\ \A k \in s[1] + 1..s[2] - 1 : t[k] \notin {"{{", "}}"}}
RefAt(t, s) == [scope |-> t[s[1] + 1], name |-> SubSeq(t, s[1] + 2, s[2] - 1)]
Refs(t) == {RefAt(t, s) : s \in RefSpans(t)}
IsSingleRef(t) == <<1, Len(t)>> \in RefSpans(t)

\* render: the templates of a text filled in.  A secret's stands for its value.
Render(t, inputs, entry) ==
    LET filled(r) == CASE r.scope = "inputs"  -> inputs[r.name]
                       [] r.scope = "surface" -> entry
                       [] OTHER               -> Ref("secrets", r.name)
        from[i \in 1..Len(t) + 1] ==
            IF i > Len(t) THEN <<>>
            ELSE IF \E s \in RefSpans(t) : s[1] = i
            THEN LET s == CHOOSE s \in RefSpans(t) : s[1] = i
                 IN  filled(RefAt(t, s)) \o from[s[2] + 1]
            ELSE <<t[i]>> \o from[i + 1]
    IN  from[1]

-----------------------------------------------------------------------------
(* The inputs that are proposed.                                           *)

\* _snake: the words of a label, if it starts with a letter.  (The "s" that a
\* URL segment's name loses is left: names are only compared.)
Snake(t) ==
    LET words == SelectSeq(Low(t), LAMBDA w : w \notin Punctuation)
    IN  IF words = <<>> \/ words[1] \in Numbers THEN <<>> ELSE words
OrValue(name) == IF name = <<>> THEN <<"value">> ELSE name

\* digits_pattern: of a fixed length only where the field enforces it.
Pattern(literal, limit) ==
    IF Len(literal) # 1 \/ literal[1] \notin Numbers THEN "any"
    ELSE IF limit = Digits[literal[1]] THEN "fixed" ELSE "digits"

\* The segments and query values of a URL, behind its scheme and host, in order.
Pieces(url) ==
    SetToSortSeq({s \in (DOMAIN url) \X (DOMAIN url) :
                    /\ 3 < s[1] /\ s[1] <= s[2]
                    /\ url[s[1] - 1] \in Marks
                    /\ s[2] = Len(url) \/ url[s[2] + 1] \in Marks
                    /\ \A k \in s[1]..s[2] : url[k] \notin Marks},
                 LAMBDA s, r : s[1] < r[1])
InPath(url, i) == \A k \in 1..i : url[k] # "?"

UrlCandidates(url) ==
    LET pieces == Pieces(url)
        text(i) == SubSeq(url, pieces[i][1], pieces[i][2])
        before(i) == IF i = 1 THEN <<>> ELSE Snake(text(i - 1))
        candidate(i) ==
            IF ~HasDigit(text(i)) THEN <<>>
            ELSE IF InPath(url, pieces[i][1])
            THEN << [literal |-> text(i), limit |-> 0,
                     base |-> IF before(i) = <<>> THEN <<"value">> ELSE before(i) \o <<"id">>] >>
            ELSE IF url[pieces[i][1] - 1] = "="
            THEN << [literal |-> text(i), limit |-> 0, base |-> OrValue(before(i))] >>
            ELSE <<>>
    IN  FlattenSeq([i \in DOMAIN pieces |-> candidate(i)])

Candidates(step) ==
    IF step.action \in {"type_text", "select_option"}
    THEN IF Refs(step.text) # {} THEN <<>>
         ELSE << [literal |-> step.text, limit |-> step.limit,
                  base |-> OrValue(Snake(step.target.label))] >>
    ELSE IF step.action = "navigate" /\ step.text # EntryUrl THEN UrlCandidates(step.text)
    ELSE <<>>

Fresh(base, used) ==
    IF base \notin used THEN base
    ELSE base \o << ToString(CHOOSE n \in 2..Cardinality(used) + 2 :
                        /\ base \o <<ToString(n)>> \notin used
                        /\ \A m \in 2..n - 1 : base \o <<ToString(m)>> \in used) >>

\* propose_parameters: what the run typed, chose or opened and the goal names.
Propose(record) ==
    LET candidates ==
            SelectSeq(FlattenSeq([k \in DOMAIN record.steps |-> Candidates(record.steps[k])]),
                      LAMBDA c : Named(c.literal, record.goal))
        add(found, c) ==
            IF \E i \in DOMAIN found : found[i].literal = c.literal THEN found
            ELSE Append(found, [literal |-> c.literal, pattern |-> Pattern(c.literal, c.limit),
                                name |-> Fresh(c.base, {found[i].name : i \in DOMAIN found})])
    IN  FoldLeft(add, <<>>, candidates)

-----------------------------------------------------------------------------
(* The waits.                                                              *)

Labels(screen, frame) ==
    SelectSeq(screen.nodes, LAMBDA n : n.frame = frame /\ n.text # <<>>)

\* _new_heading: the first text that appeared and reads like interface.
NewHeading(before, after, frame, literals) ==
    LET seen == {n.text : n \in ToSet(Labels(before, frame))}
        fresh == SelectSeq(Labels(after, frame), LAMBDA n :
            n.text \notin seen /\ n.plain /\ ~\E l \in literals : Occurs(l, n.text))
    IN  IF fresh = <<>> THEN <<>> ELSE fresh[1].text

VisibleIn(literal, screen, frame) ==
    \E n \in ToSet(Labels(screen, frame)) : Named(literal, n.text)

\* Mutant of Reformatted: nothing is expected to be shown in another shape.
NeverReformatted(literal) == FALSE
\* _AMOUNT_LITERAL.
Reformatted(literal) ==
    \/ \E i \in DOMAIN literal : literal[i] \in {"$", ","}
    \/ \E i \in 2..Len(literal) - 1 :
        literal[i] = "." /\ {literal[i - 1], literal[i + 1]} \subseteq DOMAIN Digits

\* _changed_frame: the frame whose URL the step changed, or the top.
ChangedFrame(before, after) ==
    LET changed == {f \in DOMAIN after.urls :
                      f # "top" /\ (f \notin DOMAIN before.urls \/ before.urls[f] # after.urls[f])}
    IN  IF changed = {} THEN "top" ELSE CHOOSE f \in changed : TRUE

Goals(record) == ToSet(record.outputs) \cup {record.proof}
Focus(record) == IF record.outputs = <<>> THEN record.proof ELSE record.outputs[1]
Present(targets) == {[kind |-> "element", target |-> t.id] : t \in targets}
Text(text, frame) == [kind |-> "text", text |-> text, frame |-> frame]

\* What a replay waits for after a step; Settle when nothing was derived.
Wait(record, params, k) ==
    LET step == record.steps[k]
        last == k = Len(record.steps)
        following == IF last THEN NoTarget ELSE record.steps[k + 1].target
        frame == IF last THEN Focus(record).frame
                 ELSE IF following # NoTarget THEN following.frame
                 ELSE ChangedFrame(step.before, step.after)
        targets == IF last THEN Goals(record) ELSE {following} \ {NoTarget}
        changed == step.before # step.after
        heading == NewHeading(step.before, step.after, frame, {p.literal : p \in ToSet(params)})
        headed == IF heading # <<>> /\ changed THEN {Text(heading, frame)} ELSE {}
        shown == {Text(Ref("inputs", p.name), frame) : p \in {q \in ToSet(params) :
                    VisibleIn(q.literal, step.after, frame) /\ ~Reformatted(q.literal)}}
    IN  IF step.action \in {"type_text", "select_option"} THEN Settle
        ELSE headed \cup (IF last THEN shown ELSE {})
                    \cup (IF changed \/ last THEN Present(targets) ELSE {})

Success(record, params) ==
    LET final == Wait(record, params, Len(record.steps))
    IN  IF final = Settle THEN Present(Goals(record)) ELSE final

-----------------------------------------------------------------------------
(* The draft.                                                              *)

\* Mutant of LongestFirst: the accepted literals are replaced as they came.
AsTheyCame(params) == params
LongestFirst(params) == SortSeq(params, LAMBDA p, q : Len(p.literal) > Len(q.literal))

Templated(params, t) ==
    FoldLeft(LAMBDA s, p : Substitute(s, p.literal, Ref("inputs", p.name)), t, LongestFirst(params))

Relative(url, entry) ==
    IF IsPrefix(entry, url) THEN EntryUrl \o SubSeq(url, Len(entry) + 1, Len(url)) ELSE url

DraftText(record, params, step) ==
    CASE step.action = "navigate" /\ step.text # EntryUrl ->
            Relative(Templated(params, step.text), record.entry)
      [] step.action = "type_text" /\ Refs(step.text) = {} -> Templated(params, step.text)
      [] step.action = "select_option" -> Templated(params, step.text)
      [] OTHER -> step.text

AcceptsConfirm(dialog) == dialog = [type |-> "confirm", response |-> "accept"]
DraftStep(record, params, k) == LET step == record.steps[k] IN
    [action |-> step.action, target |-> step.target, key |-> step.key, dialog |-> step.dialog,
     text |-> DraftText(record, params, step),
     risk |-> IF step.action = "click" /\ AcceptsConfirm(step.dialog)
              THEN "irreversible" ELSE step.risk,
     wait |-> Wait(record, params, k)]

\* build_capability's artifact, if it builds.
Draft(record, params) ==
    [inputs  |-> params,
     steps   |-> [k \in DOMAIN record.steps |-> DraftStep(record, params, k)],
     outputs |-> record.outputs,
     entry   |-> record.entry,
     success |-> Success(record, params)]

\* A URL that still holds a record number, outside its templates and its host.
HoldsRecordNumber(url) ==
    \E i \in DOMAIN url :
        /\ url[i] \in DOMAIN Digits /\ Digits[url[i]] >= 5
        /\ i > 2 \/ url[1] = "{{"
        /\ ~\E s \in RefSpans(url) : s[1] < i /\ i < s[2]

\* The refusals of build_capability and of the schema's cross references.
UsedSecrets(draft) ==
    {r.name : r \in {q \in UNION {Refs(draft.steps[k].text) : k \in DOMAIN draft.steps} :
                     q.scope = "secrets"}}
StepValid(draft, secrets, step) ==
    LET refs == Refs(step.text)
        guarded == {r \in refs : r.scope = "secrets"}
    IN  /\ \A r \in refs :
            CASE r.scope = "inputs"  -> \E p \in ToSet(draft.inputs) : p.name = r.name
              [] r.scope = "secrets" -> r.name \in DOMAIN secrets
              [] OTHER               -> r.name = <<"entry_url">>
        /\ guarded # {} => step.action = "type_text" /\ IsSingleRef(step.text)
        /\ step.action = "type_text" =>
            /\ \A r \in guarded : secrets[r.name] = "credential" => step.target.credential
            /\ step.target.credential => guarded # {} /\ IsSingleRef(step.text)
Builds(record, draft) ==
    /\ draft.steps # <<>>
    /\ \A k \in DOMAIN draft.steps : LET step == draft.steps[k] IN
        /\ step.action = "navigate" /\ step.text # EntryUrl => ~HoldsRecordNumber(step.text)
        /\ step.target = NoTarget => step.action \in {"navigate", "press_key"}
        /\ StepValid(draft, record.secrets, step)
    /\ UsedSecrets(draft) \subseteq DOMAIN record.secrets
    /\ \A i, j \in DOMAIN draft.inputs : draft.inputs[i].name = draft.inputs[j].name => i = j

-----------------------------------------------------------------------------
(* Replaying it.                                                           *)

\* holds, on a screen.
Holds(condition, screen, inputs, entry) ==
    IF condition.kind = "text"
    THEN Occurs(Render(condition.text, inputs, entry),
                FlattenSeq([i \in DOMAIN Labels(screen, condition.frame) |->
                               Labels(screen, condition.frame)[i].text]))
    ELSE \E n \in ToSet(screen.nodes) : n.element = condition.target

\* run_discovery saves a draft only if its success holds on the final screen.
Literals(params) ==
    [n \in {p.name : p \in ToSet(params)} |->
        (CHOOSE p \in ToSet(params) : p.name = n).literal]
SuccessHolds(record, draft) ==
    \A c \in draft.success : Holds(c, record.final, Literals(draft.inputs), draft.entry)
Saved(record, draft) == Builds(record, draft) /\ SuccessHolds(record, draft)

\* What a replay of a step does, its templates filled in.
Does(draft, k, inputs) == LET step == draft.steps[k] IN
    [action |-> step.action, target |-> step.target, key |-> step.key,
     dialog |-> step.dialog, text |-> Render(step.text, inputs, draft.entry)]

-----------------------------------------------------------------------------
(* One flow run with different values.  What a person types, opens and sees *)
(* is made of words and of slots, which show the values of a run.           *)

Shown(items, values) ==
    FlattenSeq([i \in DOMAIN items |->
        LET item == items[i] IN
        IF item.slot = "" THEN <<item.word>>
        ELSE IF item.amount THEN Formatted[values[item.slot]] ELSE values[item.slot]])

Blank    == [nodes |-> <<>>, urls |-> <<>>]
NoScreen == [nodes |-> <<>>, urls |-> [top |-> <<>>]]
OnScreen(screen, values) ==
    [nodes |-> [i \in DOMAIN screen.nodes |-> LET n == screen.nodes[i] IN
                   [frame |-> n.frame, element |-> n.element, plain |-> n.plain,
                    text |-> Shown(n.items, values)]],
     urls  |-> [f \in DOMAIN screen.urls |-> Shown(screen.urls[f], values)]]

\* A step's screen may change again, by something that is not recorded.
Left(flow, k) ==
    IF k = 0 THEN Blank
    ELSE IF flow.steps[k].later # NoScreen THEN flow.steps[k].later ELSE flow.steps[k].after
Run(flow, values) ==
    [goal |-> Shown(flow.goal, values), entry |-> flow.entry, secrets |-> flow.secrets,
     steps |-> [k \in DOMAIN flow.steps |-> LET s == flow.steps[k] IN
        [action |-> s.action, risk |-> s.risk, target |-> s.target, key |-> s.key,
         dialog |-> s.dialog, limit |-> s.limit, text |-> Shown(s.items, values),
         before |-> OnScreen(Left(flow, k - 1), values), after |-> OnScreen(s.after, values)]],
     outputs |-> flow.outputs, proof |-> flow.proof,
     final |-> OnScreen(Left(flow, Len(flow.steps)), values)]

\* The proposals a person may accept, and the call that gives the inputs the
\* values of another run; what was not accepted stays as it was recorded.
Acceptable(record) ==
    LET proposals == Propose(record) IN
    {SelectSeq(proposals, LAMBDA p : p \in accepted) : accepted \in SUBSET ToSet(proposals)}
SlotOf(values, p) == CHOOSE s \in DOMAIN values : values[s] = p.literal
Call(params, values, others) ==
    [n \in {p.name : p \in ToSet(params)} |->
        others[SlotOf(values, CHOOSE p \in ToSet(params) : p.name = n)]]
Mixed(params, values, others) ==
    [s \in DOMAIN values |->
        IF \E p \in ToSet(params) : p.literal = values[s] THEN others[s] ELSE values[s]]

Words(t) == {Low(t)[i] : i \in DOMAIN t} \ Punctuation
FixedIn(items) == Words([i \in DOMAIN items |-> items[i].word]) \ {""}
Items(flow) ==
    UNION {{s.items} \cup {n.items : n \in ToSet(s.after.nodes) \cup ToSet(s.later.nodes)}
           : s \in ToSet(flow.steps)}

\* The values tell apart what is typed: each accepted literal is one slot's, no
\* fixed text and no input's name has a word of it, and what contains it is accepted too.
Unambiguous(flow, values, params) ==
    /\ \A s, t \in DOMAIN values : Low(values[s]) = Low(values[t]) => s = t
    /\ \A p \in ToSet(params) :
        /\ \E s \in DOMAIN values : values[s] = p.literal
        /\ \A s \in DOMAIN values : Named(p.literal, values[s]) =>
                \E q \in ToSet(params) : q.literal = values[s]
        /\ Words(p.literal) \cap (UNION {FixedIn(i) : i \in Items(flow)}) = {}
        /\ Words(p.literal) \cap ({"inputs"} \cup UNION {Words(q.name) : q \in ToSet(params)}) = {}

\* What the application shows in another shape was not accepted, or was typed
\* like an amount; and every change of its screens was recorded.
AsTyped(flow, values, params) ==
    \A items \in Items(flow) : \A i \in DOMAIN items :
        /\ items[i].amount
        /\ \E p \in ToSet(params) : p.literal = values[items[i].slot]
        => ToSet(values[items[i].slot]) \cap {"$", ",", "."} # {}
AllRecorded(flow) == \A k \in DOMAIN flow.steps : flow.steps[k].later = NoScreen

-----------------------------------------------------------------------------
\* The draft of a recording, called with other values, does what the flow would.
DoesAsTheFlow ==
    \A flow \in Flows, values, others \in Values :
        LET record == Run(flow, values) IN
        \A params \in Acceptable(record) :
            LET draft == Draft(record, params)
                wanted == Run(flow, Mixed(params, values, others))
            IN  Builds(record, draft) /\ Unambiguous(flow, values, params) =>
                    \A k \in DOMAIN draft.steps :
                        Does(draft, k, Call(params, values, others)) =
                            Does(wanted, k, <<>>)

\* ... and what it waits for is on the screens of the flow with those values.
WaitsForTheFlow ==
    \A flow \in {f \in Flows : AllRecorded(f)}, values, others \in Values :
        LET record == Run(flow, values) IN
        \A params \in Acceptable(record) :
            LET draft == Draft(record, params)
                wanted == Run(flow, Mixed(params, values, others))
                holds(c, screen) == Holds(c, screen, Call(params, values, others), draft.entry)
            IN  /\ Saved(record, draft)
                /\ Unambiguous(flow, values, params)
                /\ AsTyped(flow, values, params)
                => /\ \A k \in DOMAIN draft.steps :
                        \A c \in draft.steps[k].wait : holds(c, wanted.steps[k].after)
                   /\ \A c \in draft.success : holds(c, wanted.final)
=============================================================================
