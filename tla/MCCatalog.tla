------------------------------ MODULE MCCatalog ------------------------------
(* The catalog for TLC: three versions, a recorded content and contents one  *)
(* change apart from each other, and the commands that can meet over one     *)
(* file.                                                                     *)
EXTENDS Catalog, MCRecorder

MCVersions == {<<1, 0, 0>>, <<1, 1, 0>>, <<2, 0, 0>>}

\* A member is looked up; the goal names the number, and nothing else.
LookUpMember ==
    [FlowOf(<<Fill(Number, <<V("member")>>, 5), Click(Search, Profile)>>)
        EXCEPT !.goal = <<W("look"), W("up"), V("member")>>]
\* The same, but the page shows no balance in the end.
NotThere == [LookUpMember EXCEPT !.steps[3].after = Form]
MCDiscoveries ==
    {Run(f, Filled("10003", "S01", Cents("500"), "Savings")) : f \in {LookUpMember, NotThere}}
CatalogFlows == MCFlows \cup {LookUpMember, NotThere}
\* An account is opened with an amount; the page that confirms it shows the amount.
OpenAccount ==
    FlowOf(<<Fill(Deposit, <<V("amount")>>, 0),
             [Click(Create, Opened) EXCEPT !.dialog = [type |-> "confirm", response |-> "accept"]]>>)
Openings == {OpenAccount}
MCOpenings == {Run(OpenAccount, values) : values \in MCValues}
MCFitting == [fixed |-> {"x"}, digits |-> {"x"}, any |-> {"x", "y"}]
RecordedFrom(records) ==
    UNION {{ContentOf(Draft(r, params)) : params \in Acceptable(r)} : r \in records}

M == <<"member", "number">>
N == <<"note">>
Input(required) == [values |-> {"x"}, required |-> required]
Step == [action |-> "allowed", url |-> "none", risk |-> "safe", rated |-> "safe",
         credential |-> FALSE]
\* A recorded capability after its review: with a detector and a tenant.
First == [inputs |-> (M :> Input(TRUE)), uses |-> {M}, shows |-> {M}, outputs |-> [balance |-> "money"],
          codes |-> [gone |-> "business_outcome"], deployment |-> "d", words |-> 1,
          entry |-> "inside", steps |-> <<[Step EXCEPT !.url = "inside"], Step, Step>>,
          tenants |-> [t1 |-> [entry |-> "", steps |-> (2 :> [rated |-> "safe"])]]]
WithInput(required, uses) ==
    [First EXCEPT !.inputs = (M :> Input(TRUE)) @@ (N :> Input(required)), !.uses = uses]
Optional   == WithInput(FALSE, {M})
UsesIt     == WithInput(FALSE, {M, N})
Required   == WithInput(TRUE, {M, N})
NoOutput   == [First EXCEPT !.outputs = <<>>]
\* The tenant's page shows another button: the gate rates it irreversible.
Risky      == [First EXCEPT !.tenants.t1.steps = (2 :> [rated |-> "irreversible"])]
Recordings == RecordedFrom(MCDiscoveries)
MCContents == Recordings \cup {First, Optional, UsesIt, Required, NoOutput, Risky}
OpeningContents == MCContents \cup RecordedFrom(MCOpenings)

WithM  == (M :> "x")
WithMN == (M :> "x") @@ (N :> "x")
MCCalls == {WithM, WithMN, <<>>, (M :> "y")}

Approved(v, c) == [version |-> v, status |-> "approved", content |-> c]
Nothing == [v \in MCVersions |-> None]
MCStores == {Nothing,
             [Nothing EXCEPT ![<<1, 0, 0>>] = Approved(<<1, 0, 0>>, First)],
             [Nothing EXCEPT ![<<1, 0, 0>>] = [Approved(<<1, 0, 0>>, Required)
                                                EXCEPT !.status = "draft"]],
             [Nothing EXCEPT ![<<1, 0, 0>>] = [Approved(<<1, 0, 0>>, Optional)
                                                EXCEPT !.status = "deprecated"]]}

Plain == [kind |-> "save", version |-> Unnamed, status |-> "draft", content |-> First,
          overwrite |-> FALSE, call |-> WithM, tenant |-> Base,
          allowDraft |-> FALSE, policyLoads |-> TRUE, secrets |-> TRUE]
Save(v, c, over) == [Plain EXCEPT !.version = v, !.content = c, !.overwrite = over]

Saves ==
    {[Plain EXCEPT !.kind = "discover", !.version = <<1, 0, 0>>],
     [Save(<<1, 1, 0>>, First, FALSE) EXCEPT !.status = "approved"],
     Save(<<1, 0, 0>>, Optional, TRUE), Save(<<2, 0, 0>>, Risky, FALSE)}
    \cup {Save(<<1, 1, 0>>, c, FALSE) : c \in {Optional, UsesIt, Required, NoOutput}}
    \cup {Save(<<2, 0, 0>>, c, TRUE) : c \in {First, Required}}
Approvals == {[Plain EXCEPT !.kind = "approve", !.version = v] : v \in {Unnamed, <<1, 0, 0>>}}
Replays ==
    {[Plain EXCEPT !.kind = "replay"],
     [Plain EXCEPT !.kind = "replay", !.tenant = "t1", !.call = WithMN, !.allowDraft = TRUE],
     [Plain EXCEPT !.kind = "replay", !.version = <<1, 0, 0>>, !.tenant = "t2"],
     [Plain EXCEPT !.kind = "replay_file", !.version = <<1, 0, 0>>],
     [Plain EXCEPT !.kind = "replay_file", !.version = <<2, 0, 0>>, !.secrets = FALSE]}
Discovers == [p \in Commands |-> {j \in Saves : j.kind = "discover"}]
MCJobs == [p \in Commands |->
    CASE p = "save" -> Saves [] p = "approve" -> Approvals
      [] OTHER -> Saves \cup Approvals \cup Replays]

-----------------------------------------------------------------------------
\* "A derived success checkpoint never asserts an amount: the app reformats it, so
\* the check fails a run that did exactly what it was asked" (src/DECISIONS.md:49):
\* no capability that was recorded waits for the amount of the deposit.
AmountsAreNotAsserted ==
    \A v \in Versions : Readable(file[v]) => Deposit.label \notin file[v].content.shows
=============================================================================
