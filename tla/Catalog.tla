------------------------------- MODULE Catalog -------------------------------
(***************************************************************************)
(* The catalog of one capability: a JSON file per version, saved as a      *)
(* draft, approved by a person, loaded for a replay.  Every command is a   *)
(* process of its own; none takes a lock, a load reads one file after      *)
(* another, and a write truncates the file before it fills it.             *)
(*                                                                         *)
(* Around it: the version rules a save must meet, tenant overrides, the    *)
(* fit of a capability to its policy, and the refusals before a replay.    *)
(***************************************************************************)
EXTENDS Integers, FiniteSets, FiniteSetsExt, Functions, Recorder

CONSTANTS
    Commands,    \* the processes
    Discoveries, \* what the discoveries that come to an end have recorded
    Fitting,     \* the pattern of an input -> the values that match it
    Versions,    \* <<major, minor, patch>> triples files are named by
    Contents,    \* what a file may hold besides its version and status
    Calls,       \* inputs a caller may supply: names, as the recorder makes them, to values
    Stores,      \* what the directory may hold at first
    Jobs,        \* command -> the invocations it may make
    MaxJobs      \* bound: invocations in all

None  == [status |-> "none"]    \* no such file
Empty == [status |-> "empty"]   \* truncated, not yet filled
Torn  == [status |-> "torn"]    \* two writers' bytes
Unnamed == <<>>                 \* no version was asked for
Base    == "base"               \* the capability itself, no tenant's variant
Statuses == {"draft", "approved", "deprecated"}

Files == [version : Versions, status : Statuses, content : Contents]
Readable(f) == f.status \in Statuses

\* An invocation, with the options of every command.
JobType == [kind : {"discover", "save", "approve", "replay", "replay_file"},
            version : Versions \cup {Unnamed}, status : Statuses, content : Contents,
            overwrite : BOOLEAN, call : Calls, tenant : STRING,
            allowDraft : BOOLEAN, policyLoads : BOOLEAN, secrets : BOOLEAN]
NamesItsVersion == {"discover", "save", "replay_file"}

\* What a tenant's patch of a step may change: the element it acts on, so what
\* the gate rates it and whether it is a credential field, and none of
\* LOCKED_STEP_PATHS: the action, the URL, the declared risk.
PatchFields == {"rated", "credential"}

ASSUME Assumptions ==
    /\ MaxJobs \in Nat
    /\ Discoveries \subseteq {Run(f, values) : f \in Flows, values \in Values}
    \* one digit each, so that files are listed in the order of their versions
    /\ Versions \subseteq [1..3 -> 0..9]
    /\ \A p \in Commands : \A job \in Jobs[p] :
        job \in JobType /\ (job.kind \in NamesItsVersion => job.version # Unnamed)
    /\ \A c \in Contents :
        /\ Base \notin DOMAIN c.tenants
        /\ c.uses \subseteq DOMAIN c.inputs
        /\ \A table \in {c.outputs, c.codes} : table = [k \in DOMAIN table |-> table[k]]
        /\ \A t \in DOMAIN c.tenants :
            /\ DOMAIN c.tenants[t].steps \subseteq DOMAIN c.steps
            /\ \A s \in DOMAIN c.tenants[t].steps :
                DOMAIN c.tenants[t].steps[s] \subseteq PatchFields
    /\ Stores \subseteq [Versions -> {None} \cup Files]
    /\ \A s \in Stores : \A v \in Versions : s[v] # None => s[v].version = v

VARIABLES
    file,        \* version -> its file
    proc,        \* command -> where it is
    jobs,        \* invocations made so far
    approvals,   \* history: versions and contents a person's approve has written
    bumps,       \* history: a saved capability and the version it was checked against
    ran          \* history: what replays ran, and whether drafts were allowed

vars == <<file, proc, jobs, approvals, bumps, ran>>

-----------------------------------------------------------------------------
\* Versions are ordered as triples.
Older(v, w) ==
    \E i \in 1..3 : v[i] < w[i] /\ \A j \in 1..(i - 1) : v[j] = w[j]
Latest(fs) == CHOOSE f \in fs : \A g \in fs : ~Older(f.version, g.version)

\* The weight of a bump: none 0, patch 1, minor 2, major 3.
ActualBump(old, new) ==
    IF old = new THEN 0 ELSE IF new[1] > old[1] THEN 3 ELSE IF new[2] > old[2] THEN 2 ELSE 1

\* Mutant of InputBreaks: an input that becomes required is not seen.
InputBreaksButRequired(old, new) ==
    \/ \E n \in DOMAIN old : n \notin DOMAIN new \/ new[n].values # old[n].values
    \/ \E n \in DOMAIN new \ DOMAIN old : new[n].required

\* contract_breaks.  "values" stands for an input's type, pattern and enum,
\* "deployment" for secrets, surface kind and policy.
InputBreaks(old, new) ==
    \/ \E n \in DOMAIN old :
        \/ n \notin DOMAIN new
        \/ new[n].values # old[n].values
        \/ new[n].required /\ ~old[n].required
    \/ \E n \in DOMAIN new \ DOMAIN old : new[n].required
Loses(old, new) == \E k \in DOMAIN old : k \notin DOMAIN new \/ new[k] # old[k]
ContractBreaks(old, new) ==
    \/ InputBreaks(old.inputs, new.inputs)
    \/ Loses(old.outputs, new.outputs)
    \/ Loses(old.codes, new.codes)
    \/ old.deployment # new.deployment

\* What is left of a capability when its wording is stripped.
Flow(c) == [c EXCEPT !.words = 0]
RequiredBump(old, new) ==
    IF ContractBreaks(old, new) THEN 3
    ELSE IF Flow(old) # Flow(new) THEN 2
    ELSE IF old # new THEN 1 ELSE 0

BigEnough(old, new) ==
    ActualBump(old.version, new.version) >= RequiredBump(old.content, new.content)

-----------------------------------------------------------------------------
\* The capability a tenant runs: its patches merged into the base.
Merge(base, patch) ==
    [f \in DOMAIN base |-> IF f \in DOMAIN patch THEN patch[f] ELSE base[f]]
Resolve(c, t) ==
    IF t = Base THEN [entry |-> c.entry, steps |-> c.steps]
    ELSE LET o == c.tenants[t] IN
        [entry |-> IF o.entry = "" THEN c.entry ELSE o.entry,
         steps |-> [s \in DOMAIN c.steps |->
            IF s \in DOMAIN o.steps THEN Merge(c.steps[s], o.steps[s]) ELSE c.steps[s]]]
\* A credential field must still look like one.
Resolves(c, t) ==
    \A s \in DOMAIN c.steps : c.steps[s].credential => Resolve(c, t).steps[s].credential

\* capability_policy_errors: no complaint about a variant.
FitsPolicy(variant) ==
    /\ variant.entry = "inside"
    /\ \A s \in DOMAIN variant.steps : LET step == variant.steps[s] IN
        /\ step.action = "allowed"
        /\ step.url # "outside"
        /\ step.rated = "irreversible" => step.risk = "irreversible"

Variants(c) == {Base} \cup DOMAIN c.tenants
\* load_capability, with a policy file or without.
Loads(f, withPolicy) ==
    /\ Readable(f)
    /\ \A t \in Variants(f.content) : Resolves(f.content, t)
    /\ withPolicy => \A t \in Variants(f.content) : FitsPolicy(Resolve(f.content, t))

\* coerce_inputs: no complaint about a call.
Accepts(c, call) ==
    /\ DOMAIN call \subseteq DOMAIN c.inputs
    /\ \A n \in DOMAIN c.inputs :
        IF n \in DOMAIN call THEN call[n] \in c.inputs[n].values ELSE ~c.inputs[n].required

\* Mutant of DraftRefused: only a deprecated capability is refused.
NoDraftRefused(job, f) == FALSE
DraftRefused(job, f) == f.status = "draft" /\ ~job.allowDraft

\* _preflight: the first refusal, in its order; "" when the replay may run.
Refusal(job, f) ==
    IF job.tenant \notin Variants(f.content) THEN "TENANT_UNKNOWN"
    ELSE IF f.status = "deprecated" THEN "CAPABILITY_DEPRECATED"
    ELSE IF DraftRefused(job, f) THEN "DRAFT_NOT_APPROVED"
    ELSE IF ~job.policyLoads \/ ~FitsPolicy(Resolve(f.content, job.tenant)) THEN "POLICY_MISMATCH"
    ELSE IF ~Accepts(f.content, job.call) \/ ~(f.content.uses \subseteq DOMAIN job.call)
        THEN "INPUT_INVALID"
    ELSE IF ~job.secrets THEN "SECRET_MISSING"
    ELSE ""

-----------------------------------------------------------------------------
Idle == [at |-> "idle", job |-> None, left |-> {}, found |-> {}, bad |-> FALSE,
         again |-> FALSE, next |-> None]

Init ==
    /\ file \in Stores
    /\ proc = [p \in Commands |-> Idle]
    /\ jobs = 0
    /\ approvals = {[version |-> v, content |-> file[v].content] :
                    v \in {w \in Versions : file[w] # None /\ file[w].status = "approved"}}
    /\ bumps = {}
    /\ ran = {}

At(p, place) == proc[p].at = place
Job(p)       == proc[p].job
Goes(p, to)  == proc' = [proc EXCEPT ![p] = to]
Ends(p)      == Goes(p, Idle)
To(p, place) == [proc[p] EXCEPT !.at = place]
History == <<approvals, bumps, ran>>

\* A command is invoked.
Invoke(p, job) ==
    /\ At(p, "idle") /\ jobs < MaxJobs
    /\ jobs' = jobs + 1
    /\ Goes(p, [Idle EXCEPT !.job = job,
                            !.at = CASE job.kind = "discover" -> "exists"
                                     [] job.kind = "save" -> "save"
                                     [] job.kind = "replay_file" -> "path"
                                     [] OTHER -> "list"])
    /\ UNCHANGED <<file, History>>

\* Discovery looks for its version before the first call of the model.
DiscoverLook(p) ==
    /\ At(p, "exists")
    /\ IF file[Job(p).version] # None THEN Ends(p) ELSE Goes(p, To(p, "record"))
    /\ UNCHANGED <<file, jobs, History>>

\* What the catalog's rules see of a draft that was recorded.
ContentOf(draft) ==
    [inputs |-> [n \in {p.name : p \in ToSet(draft.inputs)} |->
                    [values |-> UNION {Fitting[p.pattern] : p \in {q \in ToSet(draft.inputs) : q.name = n}},
                     required |-> TRUE]],
     uses |-> {r.name : r \in {q \in UNION {Refs(draft.steps[k].text) : k \in DOMAIN draft.steps} :
                                q.scope = "inputs"}},
     shows |-> {r.name : r \in UNION {Refs(c.text) : c \in {d \in draft.success : d.kind = "text"}}},
     outputs |-> [o \in {t.id : t \in ToSet(draft.outputs)} |-> "money"],
     codes |-> <<>>, deployment |-> "d", words |-> 1, entry |-> "inside",
     steps |-> [k \in DOMAIN draft.steps |-> LET s == draft.steps[k] IN
        [action |-> "allowed", url |-> IF s.action = "navigate" THEN "inside" ELSE "none",
         risk |-> s.risk, rated |-> IF s.target = NoTarget THEN "safe" ELSE s.target.rated,
         credential |-> s.target # NoTarget /\ s.target.credential]],
     tenants |-> <<>>]

ASSUME RecordingsAreContents ==
    \A record \in Discoveries : \A params \in Acceptable(record) :
        Saved(record, Draft(record, params)) => ContentOf(Draft(record, params)) \in Contents

\* It comes to an end: a person accepts some of the proposals, and the draft is
\* saved if it builds and its success holds on the screen that is left.
RecordDraft(p) ==
    /\ At(p, "record")
    /\ \E record \in Discoveries : \E params \in Acceptable(record) :
        LET draft == Draft(record, params) IN
        IF Saved(record, draft)
        THEN Goes(p, [To(p, "save") EXCEPT !.job.content = ContentOf(draft)])
        ELSE Ends(p)
    /\ UNCHANGED <<file, jobs, History>>

\* Catalog.save looks at the version it is about to write ...
SaveLook(p) ==
    /\ At(p, "save")
    /\ LET there == file[Job(p).version] IN
        IF /\ Job(p).status = "draft"
           /\ \/ there = None
              \/ Loads(there, FALSE) /\ there.status = "draft" /\ Job(p).overwrite
        THEN Goes(p, To(p, "list")) ELSE Ends(p)
    /\ UNCHANGED <<file, jobs, History>>

\* ... as every command does, it lists the files that are there ...
ListFiles(p) ==
    /\ At(p, "list")
    /\ Goes(p, [To(p, "read") EXCEPT !.left = {v \in Versions : file[v] # None},
                                     !.found = {}, !.bad = FALSE])
    /\ UNCHANGED <<file, jobs, History>>

\* Mutant of ReadFile: the files are read in any order.
ReadAnyFile(p) ==
    /\ At(p, "read")
    /\ \E v \in proc[p].left :
        Goes(p, IF Loads(file[v], Job(p).kind # "replay")
                THEN [proc[p] EXCEPT !.left = @ \ {v}, !.found = @ \cup {file[v]}]
                ELSE [proc[p] EXCEPT !.left = @ \ {v}, !.bad = TRUE])
    /\ UNCHANGED <<file, jobs, History>>

\* ... and loads them one after another, in the order of their names.  Only
\* the replay command loads without the policy file.
ReadFile(p) ==
    /\ At(p, "read")
    /\ \E v \in proc[p].left :
        /\ \A w \in proc[p].left : ~Older(w, v)
        /\ Goes(p, IF Loads(file[v], Job(p).kind # "replay")
                   THEN [proc[p] EXCEPT !.left = @ \ {v}, !.found = @ \cup {file[v]}]
                   ELSE [proc[p] EXCEPT !.left = @ \ {v}, !.bad = TRUE])
    /\ UNCHANGED <<file, jobs, History>>

Loaded(p) == At(p, "read") /\ proc[p].left = {} /\ ~proc[p].bad

\* One bad file is an error of the whole catalog.
LoadFails(p) ==
    /\ At(p, "read") /\ proc[p].left = {} /\ proc[p].bad
    /\ Ends(p)
    /\ UNCHANGED <<file, jobs, History>>

\* A save is checked against the latest version below it, if there is one.
CheckVersion(p) ==
    /\ Loaded(p) /\ Job(p).kind \in {"discover", "save"}
    /\ LET new == [version |-> Job(p).version, status |-> Job(p).status, content |-> Job(p).content]
           previous == {f \in proc[p].found : Older(f.version, new.version)}
       IN  IF previous = {}
           THEN Goes(p, [To(p, "open") EXCEPT !.next = new]) /\ UNCHANGED bumps
           ELSE IF BigEnough(Latest(previous), new)
           THEN /\ Goes(p, [To(p, "open") EXCEPT !.next = new])
                /\ bumps' = bumps \cup {[old |-> Latest(previous), new |-> new]}
           ELSE Ends(p) /\ UNCHANGED bumps
    /\ UNCHANGED <<file, jobs, approvals, ran>>

\* Catalog.get with drafts: the version asked for, or the latest in use.
Matches(p) ==
    IF Job(p).version # Unnamed THEN {f \in proc[p].found : f.version = Job(p).version}
    ELSE {f \in proc[p].found : f.status # "deprecated"}

NothingMatches(p) ==
    /\ Loaded(p) /\ Job(p).kind \in {"approve", "replay"}
    /\ Matches(p) = {}
    /\ Ends(p)
    /\ UNCHANGED <<file, jobs, History>>

\* The approve command gets a capability for its version, and
\* Catalog.approve gets that version again ...
ApproveFinds(p) ==
    /\ Loaded(p) /\ Job(p).kind = "approve" /\ ~proc[p].again
    /\ Matches(p) # {}
    /\ Goes(p, [To(p, "list") EXCEPT !.again = TRUE, !.job.version = Latest(Matches(p)).version])
    /\ UNCHANGED <<file, jobs, History>>

\* ... and approves what it read then, if that is a draft.
Approve(p) ==
    /\ Loaded(p) /\ Job(p).kind = "approve" /\ proc[p].again
    /\ \E f \in Matches(p) :
        IF f.status = "draft"
        THEN Goes(p, [To(p, "open") EXCEPT !.next = [f EXCEPT !.status = "approved"]])
        ELSE Ends(p)
    /\ UNCHANGED <<file, jobs, History>>

\* write_text opens the file, which empties it ...
OpenFile(p) ==
    /\ At(p, "open")
    /\ file' = [file EXCEPT ![proc[p].next.version] = Empty]
    /\ Goes(p, To(p, "write"))
    /\ UNCHANGED <<jobs, History>>

\* ... and writes from the start: over what another command has written since
\* then, the rest of a longer text stays behind.
WriteFile(p) ==
    /\ At(p, "write")
    /\ LET new == proc[p].next IN
        /\ \E after \in {new} \cup (IF file[new.version] = Empty THEN {} ELSE {Torn}) :
            file' = [file EXCEPT ![new.version] = after]
        /\ approvals' = approvals \cup
            (IF Job(p).kind = "approve"
             THEN {[version |-> new.version, content |-> new.content]} ELSE {})
    /\ Ends(p)
    /\ UNCHANGED <<jobs, bumps, ran>>

\* A replay of a file by its path loads that file alone.
LoadPath(p) ==
    /\ At(p, "path")
    /\ LET f == file[Job(p).version] IN
        IF Loads(f, FALSE) THEN Goes(p, [To(p, "preflight") EXCEPT !.next = f]) ELSE Ends(p)
    /\ UNCHANGED <<file, jobs, History>>

ReplayFinds(p) ==
    /\ Loaded(p) /\ Job(p).kind = "replay"
    /\ Matches(p) # {}
    /\ Goes(p, [To(p, "preflight") EXCEPT !.next = Latest(Matches(p))])
    /\ UNCHANGED <<file, jobs, History>>

\* run_replay: refused before a browser opens, or run as it was loaded.
Preflight(p) ==
    /\ At(p, "preflight")
    /\ LET f == proc[p].next IN
        ran' = ran \cup
            (IF Refusal(Job(p), f) = ""
             THEN {[version |-> f.version, content |-> f.content, tenant |-> Job(p).tenant,
                    unattended |-> ~Job(p).allowDraft]} ELSE {})
    /\ Ends(p)
    /\ UNCHANGED <<file, jobs, approvals, bumps>>

\* A command dies between two steps; a file it has emptied stays empty.
Die(p) ==
    /\ ~At(p, "idle")
    /\ Ends(p)
    /\ UNCHANGED <<file, jobs, History>>

Next == \E p \in Commands :
    \/ \E job \in Jobs[p] : Invoke(p, job)
    \/ DiscoverLook(p) \/ RecordDraft(p) \/ SaveLook(p) \/ ListFiles(p) \/ ReadFile(p) \/ LoadFails(p)
    \/ CheckVersion(p) \/ NothingMatches(p) \/ ApproveFinds(p) \/ Approve(p)
    \/ OpenFile(p) \/ WriteFile(p)
    \/ LoadPath(p) \/ ReplayFinds(p) \/ Preflight(p) \/ Die(p)

Spec == Init /\ [][Next]_vars

-----------------------------------------------------------------------------
\* A file that can be read is the one its name says; a command that reads has
\* only files in its hands, and one that writes has something to write.
TypeOK ==
    /\ \A v \in Versions : Readable(file[v]) => file[v] \in Files /\ file[v].version = v
    /\ jobs \in 0..MaxJobs
    /\ \A p \in Commands : LET c == proc[p] IN
        /\ c.at \in {"idle", "exists", "record", "save", "list", "read", "open", "write", "path", "preflight"}
        /\ c.at # "idle" => c.job \in JobType
        /\ c.left \subseteq Versions /\ c.found \subseteq Files
        /\ c.bad \in BOOLEAN /\ c.again \in BOOLEAN
        /\ c.at \in {"open", "write", "preflight"} => c.next \in Files
        \* what is read agrees with what is still to be read
        /\ c.at = "read" => \A f \in c.found : \A v \in c.left : Older(f.version, v)
    /\ \A a \in approvals : a \in [version : Versions, content : Contents]
    /\ \A b \in bumps : b.old \in Files /\ b.new \in Files /\ Older(b.old.version, b.new.version)

\* What runs unattended is what a person approved, as that version: whatever
\* saves, approvals and crashes come between the load, the run and the writes
\* of other commands (the refusal of drafts, Catalog.save, Catalog.approve).
UnattendedRunsWereApproved ==
    \A r \in ran : r.unattended => [version |-> r.version, content |-> r.content] \in approvals

\* A save that is no major bump keeps the contract of the version below it: it
\* takes every call that one took, declares the same outputs, can still answer
\* with each of its codes and needs nothing new of the deployment
\* (contract_breaks against coerce_inputs).
MinorChangesKeepCalls ==
    \A b \in bumps : b.old.version[1] = b.new.version[1] =>
        LET old == b.old.content
            new == b.new.content
        IN  /\ \A call \in Calls : Accepts(old, call) => Accepts(new, call)
            /\ old.outputs = Restrict(new.outputs, DOMAIN old.outputs)
            /\ old.codes = Restrict(new.codes, DOMAIN old.codes)
            /\ old.deployment = new.deployment

\* What a discovery is about to record replays for other inputs: whatever flow it
\* recorded, with whatever values, and whichever proposals are accepted, the draft
\* types, chooses, opens and presses what the flow would with the inputs of the
\* call, literals within longer literals included (propose_parameters,
\* build_capability and render together).
ReplaysForOtherInputs == \A p \in Commands : At(p, "record") => DoesAsTheFlow

\* And the waits and the success it derives from one run's screens hold on the
\* screens of the run with those inputs, so a replay that did what it was asked is
\* not failed for what only the recorded run showed (build_capability and holds).
WaitsHoldForOtherInputs == \A p \in Commands : At(p, "record") => WaitsForTheFlow
=============================================================================
