---------------------------- MODULE CatalogProofs ----------------------------
(***************************************************************************)
(* Theorems about Catalog, for any versions, contents, jobs and number of  *)
(* commands.  The invariant IInv follows an approval from the directory    *)
(* into what a command has read, what it is about to run and what it is    *)
(* about to write.                                                         *)
(***************************************************************************)
EXTENDS Catalog, WellFoundedInduction, TLAPS

Places == {"idle", "exists", "record", "save", "list", "read", "open", "write", "path", "preflight"}
Process == [at : Places, job : JobType \cup {None}, left : SUBSET Versions,
            found : SUBSET Files, bad : BOOLEAN, again : BOOLEAN, next : Files \cup {None}]
Unreadable == {None, Empty, Torn}
Approval == [version : Versions, content : Contents]
Bump == [old : Files, new : Files]

Typed ==
    /\ file \in [Versions -> Unreadable \cup Files]
    /\ proc \in [Commands -> Process]
    /\ jobs \in 0..MaxJobs
    /\ approvals \subseteq Approval

FilesAreNamed == \A v \in Versions : Readable(file[v]) => file[v].version = v

\* What a command holds fits the place where it is.
Saving == {"discover", "save"}
InPlace(c) ==
    /\ c.at # "idle" => c.job \in JobType
    /\ c.at # "idle" /\ c.job.kind \in NamesItsVersion => c.job.version \in Versions
    /\ c.at \in {"exists", "record", "save"} => c.job.kind \in Saving
    /\ c.at = "path" => c.job.kind = "replay_file"
    /\ c.at \in {"open", "write", "preflight"} => c.next \in Files
    /\ c.at = "read" => \A f \in c.found : \A v \in c.left : Older(f.version, v)

\* A file reads "approved" only after an approval, in the directory and in what
\* a command has read or is about to run; and only an approve writes that.
WasApproved(f, given) ==
    f.status = "approved" => [version |-> f.version, content |-> f.content] \in given
Earned(c, given) ==
    /\ \A f \in c.found : WasApproved(f, given)
    /\ c.at = "preflight" => WasApproved(c.next, given)
    /\ c.at \in {"list", "read", "open", "write"} /\ c.job.kind \in Saving => c.job.status = "draft"
    /\ c.at \in {"open", "write"} /\ c.next.status = "approved" => c.job.kind = "approve"
FilesEarned == \A v \in Versions : WasApproved(file[v], approvals)

BumpsAreBigEnough ==
    \A b \in bumps : b \in Bump /\ Older(b.old.version, b.new.version) /\ BigEnough(b.old, b.new)

Fine(c, given) == InPlace(c) /\ Earned(c, given)
IInv ==
    /\ Typed
    /\ FilesAreNamed
    /\ \A p \in Commands : Fine(proc[p], approvals)
    /\ FilesEarned
    /\ BumpsAreBigEnough
    /\ UnattendedRunsWereApproved

-----------------------------------------------------------------------------
(* Versions.                                                                *)

Triples == [1..3 -> 0..9]

LEMMA OlderIs ==
    ASSUME NEW v \in Triples, NEW w \in Triples
    PROVE  Older(v, w) <=> \/ v[1] < w[1]
                           \/ v[1] = w[1] /\ v[2] < w[2]
                           \/ v[1] = w[1] /\ v[2] = w[2] /\ v[3] < w[3]
<1>1. \A i \in 1..3 : i = 1 \/ i = 2 \/ i = 3
  OBVIOUS
<1>2. /\ v[1] \in Int /\ v[2] \in Int /\ v[3] \in Int
      /\ w[1] \in Int /\ w[2] \in Int /\ w[3] \in Int
  BY DEF Triples
<1>3. v[1] < w[1] => Older(v, w)
  BY <1>2 DEF Older
<1>4. v[1] = w[1] /\ v[2] < w[2] => Older(v, w)
  BY <1>2 DEF Older
<1>5. v[1] = w[1] /\ v[2] = w[2] /\ v[3] < w[3] => Older(v, w)
  BY <1>2 DEF Older
<1>6. ASSUME NEW i \in 1..3, v[i] < w[i], \A j \in 1..(i - 1) : v[j] = w[j]
      PROVE  \/ v[1] < w[1]
             \/ v[1] = w[1] /\ v[2] < w[2]
             \/ v[1] = w[1] /\ v[2] = w[2] /\ v[3] < w[3]
  <2>1. CASE i = 1
    BY <1>6, <2>1
  <2>2. CASE i = 2
    BY <1>6, <2>2
  <2>3. CASE i = 3
    BY <1>6, <2>3
  <2>4. QED
    BY <1>1, <2>1, <2>2, <2>3
<1>7. QED
  BY <1>3, <1>4, <1>5, <1>6 DEF Older

\* Two versions are the same, or one of them is older.
LEMMA OlderIsTotal ==
    ASSUME NEW v \in Triples, NEW w \in Triples, v # w
    PROVE  Older(v, w) \/ Older(w, v)
<1>1. v[1] # w[1] \/ v[2] # w[2] \/ v[3] # w[3]
  <2>1. (\A i \in 1..3 : v[i] = w[i]) => v = w
    BY DEF Triples
  <2>2. \A i \in 1..3 : i = 1 \/ i = 2 \/ i = 3
    OBVIOUS
  <2>3. QED
    BY <2>1, <2>2
<1>2. /\ v[1] \in Int /\ v[2] \in Int /\ v[3] \in Int
      /\ w[1] \in Int /\ w[2] \in Int /\ w[3] \in Int
  BY DEF Triples
<1>3. QED
  BY <1>1, <1>2, OlderIs

\* The greatest version of some files exists, so Latest is one of them.
After(v) == 999 - (100 * v[1] + 10 * v[2] + v[3])
LEMMA AfterFalls ==
    ASSUME NEW v \in Triples, NEW w \in Triples
    PROVE  /\ After(v) \in Nat
           /\ Older(v, w) => After(w) < After(v)
<1> DEFINE a1 == v[1]  a2 == v[2]  a3 == v[3]  b1 == w[1]  b2 == w[2]  b3 == w[3]
<1>1. a1 \in 0..9 /\ a2 \in 0..9 /\ a3 \in 0..9 /\ b1 \in 0..9 /\ b2 \in 0..9 /\ b3 \in 0..9
  BY DEF Triples
<1>2. Older(v, w) => \/ a1 < b1
                     \/ a1 = b1 /\ a2 < b2
                     \/ a1 = b1 /\ a2 = b2 /\ a3 < b3
  BY OlderIs
<1>3. /\ After(v) = 999 - (100 * a1 + 10 * a2 + a3)
      /\ After(w) = 999 - (100 * b1 + 10 * b2 + b3)
  BY DEF After
<1> HIDE DEF a1, a2, a3, b1, b2, b3
<1>4. /\ 999 - (100 * a1 + 10 * a2 + a3) \in Nat
      /\ \/ a1 < b1
         \/ a1 = b1 /\ a2 < b2
         \/ a1 = b1 /\ a2 = b2 /\ a3 < b3
         => 999 - (100 * b1 + 10 * b2 + b3) < 999 - (100 * a1 + 10 * a2 + a3)
  BY <1>1
<1>5. QED
  BY <1>2, <1>3, <1>4

LEMMA LatestIsThere ==
    ASSUME NEW fs, fs # {}, \A f \in fs : f.version \in Triples
    PROVE  Latest(fs) \in fs /\ \A g \in fs : ~Older(Latest(fs).version, g.version)
<1> DEFINE T == {After(f.version) : f \in fs}
<1>1. T \subseteq Nat /\ T # {}
  BY AfterFalls
<1>2. PICK x \in T : \A y \in T : ~(<<y, x>> \in OpToRel(<, Nat))
  <2> HIDE DEF T
  <2>1. QED
    BY <1>1, NatLessThanWellFounded, WFMin
<1>3. PICK f \in fs : x = After(f.version)
  BY <1>2
<1>4. \A g \in fs : ~Older(f.version, g.version)
  <2> SUFFICES ASSUME NEW g \in fs, Older(f.version, g.version) PROVE FALSE
    OBVIOUS
  <2>1. After(g.version) < After(f.version) /\ After(g.version) \in Nat /\ After(f.version) \in Nat
    BY AfterFalls
  <2>2. <<After(g.version), x>> \in OpToRel(<, Nat)
    BY <2>1, <1>3 DEF OpToRel
  <2>3. After(g.version) \in T
    OBVIOUS
  <2>4. QED
    BY <1>2, <2>2, <2>3
<1>5. QED
  BY <1>4 DEF Latest

-----------------------------------------------------------------------------
(* Files, and what a command does to its own state.                         *)

LEMMA UnreadableIs == \A f \in Unreadable : ~Readable(f) /\ f.status # "approved"
BY DEF Unreadable, None, Empty, Torn, Readable, Statuses

LEMMA FileIs ==
    ASSUME NEW f \in Files
    PROVE  /\ f.version \in Versions /\ f.status \in Statuses /\ f.content \in Contents
           /\ Readable(f)
           /\ f = [version |-> f.version, status |-> f.status, content |-> f.content]
BY DEF Files, Readable

LEMMA VersionsAreTriples == \A v \in Versions : v \in Triples
BY Assumptions DEF Assumptions, Triples

\* A file that loads is one that can be read, and says its name.
LEMMA LoadedFile ==
    ASSUME Typed, FilesAreNamed, NEW v \in Versions, NEW withPolicy, Loads(file[v], withPolicy)
    PROVE  file[v] \in Files /\ file[v].version = v
<1>1. Readable(file[v])
  BY DEF Loads
<1>2. file[v] \in Unreadable \cup Files
  BY DEF Typed
<1>3. QED
  BY <1>1, <1>2, UnreadableIs DEF FilesAreNamed

LEMMA IdleIsFine ==
    /\ Idle \in Process /\ \A given : Fine(Idle, given)
    /\ Idle.at = "idle"
BY DEF Idle, Process, Fine, InPlace, Earned, WasApproved, Places, None

\* A step that changes the state of one command only.
LEMMA OneCommand ==
    ASSUME IInv, NEW p \in Commands, NEW c, c \in Process, Fine(c, approvals),
           proc' = [proc EXCEPT ![p] = c], UNCHANGED <<file, approvals, bumps, ran>>,
           jobs' \in 0..MaxJobs
    PROVE  IInv'
<1>1. Typed'
  BY DEF IInv, Typed
<1>2. FilesAreNamed'
  BY DEF IInv, FilesAreNamed
<1>3. (\A q \in Commands : Fine(proc[q], approvals))'
  <2> SUFFICES ASSUME NEW q \in Commands PROVE Fine(proc'[q], approvals)
    OBVIOUS
  <2>1. proc'[q] = IF q = p THEN c ELSE proc[q]
    BY DEF IInv, Typed
  <2>2. Fine(proc[q], approvals)
    BY DEF IInv
  <2>3. QED
    BY <2>1, <2>2
<1>4. FilesEarned'
  BY DEF IInv, FilesEarned
<1>5. BumpsAreBigEnough'
  BY DEF IInv, BumpsAreBigEnough
<1>6. UnattendedRunsWereApproved'
  BY DEF IInv, UnattendedRunsWereApproved
<1>7. QED
  BY <1>1, <1>2, <1>3, <1>4, <1>5, <1>6 DEF IInv

LEMMA EndsInv ==
    ASSUME IInv, NEW p \in Commands, Ends(p), UNCHANGED <<file, jobs, History>>
    PROVE  IInv'
<1>1. jobs' \in 0..MaxJobs
  BY DEF IInv, Typed
<1>2. proc' = [proc EXCEPT ![p] = Idle] /\ UNCHANGED <<file, approvals, bumps, ran>>
  BY DEF Ends, Goes, History
<1>3. Idle \in Process /\ Fine(Idle, approvals)
  BY IdleIsFine
<1>4. QED
  BY <1>1, <1>2, <1>3, OneCommand

\* What a command that is not idle has in its hands.
LEMMA AtPlace ==
    ASSUME IInv, NEW p \in Commands, proc[p].at # "idle"
    PROVE  /\ proc[p] \in Process /\ Fine(proc[p], approvals)
           /\ proc[p].job \in JobType
           /\ proc[p].job.kind \in NamesItsVersion => proc[p].job.version \in Versions
BY DEF IInv, Typed, Fine, InPlace

\* The state of a command after it has moved on.
LEMMA MovesOn ==
    ASSUME NEW r \in Process, NEW place \in Places
    PROVE  LET c == [r EXCEPT !.at = place]
           IN  /\ c \in Process /\ c.at = place /\ c.job = r.job /\ c.left = r.left
               /\ c.found = r.found /\ c.bad = r.bad /\ c.again = r.again /\ c.next = r.next
BY DEF Process

LEMMA GivenContent ==
    ASSUME NEW r \in Process, r.job \in JobType, NEW content \in Contents, NEW place \in Places
    PROVE  LET job == [r.job EXCEPT !.content = content]
               c == [[r EXCEPT !.at = place] EXCEPT !.job = job]
           IN  /\ job \in JobType /\ job.kind = r.job.kind /\ job.version = r.job.version
               /\ c \in Process /\ c.at = place /\ c.found = r.found /\ c.job = job
<1> DEFINE job == [r.job EXCEPT !.content = content]
           m == [r EXCEPT !.at = place]
<1>1. job \in JobType /\ job.kind = r.job.kind /\ job.version = r.job.version
  BY DEF JobType
<1>2. m \in Process /\ m.at = place /\ m.job = r.job /\ m.found = r.found
  BY MovesOn
<1> HIDE DEF job, m
<1>4. LET c == [m EXCEPT !.job = job]
      IN  c \in Process /\ c.at = place /\ c.job = job /\ c.found = r.found
  BY <1>1, <1>2 DEF Process
<1>5. QED
  BY <1>1, <1>4 DEF job, m

-----------------------------------------------------------------------------
(* The steps.                                                               *)

LEMMA InitInv == Init => IInv
<1> SUFFICES ASSUME Init PROVE IInv
  OBVIOUS
<1>1. file \in [Versions -> {None} \cup Files] /\ \A v \in Versions : file[v] # None => file[v].version = v
  BY Assumptions DEF Init, Assumptions
<1>2. \A v \in Versions : file[v].status = "approved" =>
          /\ file[v] # None /\ file[v] \in Files
          /\ [version |-> v, content |-> file[v].content] \in approvals
  <2>1. None.status # "approved"
    BY DEF None
  <2>2. QED
    BY <1>1, <2>1 DEF Init
<1>3. approvals \subseteq Approval
  <2> SUFFICES ASSUME NEW v \in Versions, file[v] # None
               PROVE  [version |-> v, content |-> file[v].content] \in Approval
    BY DEF Init
  <2>1. file[v].content \in Contents
    BY <1>1, FileIs
  <2>2. QED
    BY <2>1 DEF Approval
<1>4. Typed
  <2>1. file \in [Versions -> Unreadable \cup Files]
    BY <1>1 DEF Unreadable
  <2>2. proc \in [Commands -> Process]
    BY IdleIsFine DEF Init
  <2>3. jobs \in 0..MaxJobs
    BY Assumptions DEF Init, Assumptions
  <2>4. QED
    BY <2>1, <2>2, <2>3, <1>3 DEF Typed
<1>5. FilesAreNamed
  BY <1>1, UnreadableIs DEF FilesAreNamed, Unreadable
<1>6. \A p \in Commands : Fine(proc[p], approvals)
  BY IdleIsFine DEF Init
<1>7. FilesEarned
  BY <1>1, <1>2 DEF FilesEarned, WasApproved
<1>8. BumpsAreBigEnough /\ UnattendedRunsWereApproved
  BY DEF Init, BumpsAreBigEnough, UnattendedRunsWereApproved
<1>9. QED
  BY <1>4, <1>5, <1>6, <1>7, <1>8 DEF IInv

LEMMA InvokeInv ==
    ASSUME IInv, NEW p \in Commands, NEW job \in Jobs[p], Invoke(p, job)
    PROVE  IInv'
<1> DEFINE place == CASE job.kind = "discover" -> "exists"
                      [] job.kind = "save" -> "save"
                      [] job.kind = "replay_file" -> "path"
                      [] OTHER -> "list"
           c == [Idle EXCEPT !.job = job, !.at = place]
<1>1. job \in JobType /\ (job.kind \in NamesItsVersion => job.version \in Versions)
  <2>1. job \in JobType /\ (job.kind \in NamesItsVersion => job.version # Unnamed)
    BY Assumptions DEF Assumptions
  <2>2. job.version \in Versions \cup {Unnamed}
    BY <2>1 DEF JobType
  <2>3. QED
    BY <2>1, <2>2
<1>2. /\ job.kind = "discover" => place = "exists"
      /\ job.kind = "save" => place = "save"
      /\ job.kind = "replay_file" => place = "path"
      /\ job.kind \notin {"discover", "save", "replay_file"} => place = "list"
  OBVIOUS
<1>3. jobs' \in 0..MaxJobs
  BY Assumptions DEF Invoke, IInv, Typed, Assumptions
<1>4. proc' = [proc EXCEPT ![p] = c] /\ UNCHANGED <<file, approvals, bumps, ran>>
  BY DEF Invoke, Goes, History
<1> HIDE DEF place
<1>5. c \in Process /\ c.at = place /\ c.job = job /\ c.found = {}
  <2>1. place \in Places /\ job \in JobType
    BY <1>1, <1>2 DEF Places
  <2>2. Idle \in Process /\ Idle.found = {}
    BY IdleIsFine DEF Idle
  <2> HIDE DEF Idle
  <2>3. QED
    BY <2>1, <2>2 DEF Process
<1> HIDE DEF c
<1>6. Fine(c, approvals)
  BY <1>1, <1>2, <1>5 DEF Fine, InPlace, Earned, Saving, NamesItsVersion, JobType
<1>7. QED
  BY <1>3, <1>4, <1>5, <1>6, OneCommand

LEMMA DiscoverLookInv ==
    ASSUME IInv, NEW p \in Commands, DiscoverLook(p)
    PROVE  IInv'
<1>1. CASE Ends(p)
  BY <1>1, EndsInv DEF DiscoverLook
<1>2. CASE Goes(p, To(p, "record"))
  <2> DEFINE c == [proc[p] EXCEPT !.at = "record"]
  <2>1. proc[p].at = "exists"
    BY DEF DiscoverLook, At
  <2>2. proc[p] \in Process /\ Fine(proc[p], approvals) /\ proc[p].job \in JobType
    BY <2>1, AtPlace
  <2>3. proc' = [proc EXCEPT ![p] = c]
    BY <1>2 DEF Goes, To
  <2>4. c \in Process /\ c.at = "record" /\ c.job = proc[p].job /\ c.found = proc[p].found
    BY <2>2, MovesOn DEF Places
  <2> HIDE DEF c
  <2>5. Fine(c, approvals)
    BY <2>1, <2>2, <2>4 DEF Fine, InPlace, Earned
  <2>6. jobs' \in 0..MaxJobs /\ UNCHANGED <<file, approvals, bumps, ran>>
    BY DEF DiscoverLook, History, IInv, Typed
  <2>7. QED
    BY <2>3, <2>4, <2>5, <2>6, OneCommand
<1>3. QED
  BY <1>1, <1>2 DEF DiscoverLook

LEMMA RecordDraftInv ==
    ASSUME IInv, NEW p \in Commands, RecordDraft(p)
    PROVE  IInv'
<1>1. PICK record \in Discoveries : \E params \in Acceptable(record) :
        IF Saved(record, Draft(record, params))
        THEN Goes(p, [To(p, "save") EXCEPT !.job.content = ContentOf(Draft(record, params))])
        ELSE Ends(p)
  BY DEF RecordDraft
<1>2. PICK params \in Acceptable(record) :
        IF Saved(record, Draft(record, params))
        THEN Goes(p, [To(p, "save") EXCEPT !.job.content = ContentOf(Draft(record, params))])
        ELSE Ends(p)
  BY <1>1
<1>3. CASE Ends(p)
  BY <1>3, EndsInv DEF RecordDraft
<1>4. CASE /\ Saved(record, Draft(record, params))
           /\ Goes(p, [To(p, "save") EXCEPT !.job.content = ContentOf(Draft(record, params))])
  <2> DEFINE new == ContentOf(Draft(record, params))
             job == [proc[p].job EXCEPT !.content = new]
             c == [[proc[p] EXCEPT !.at = "save"] EXCEPT !.job = job]
  <2>1. proc[p].at = "record"
    BY DEF RecordDraft, At
  <2>2. /\ proc[p] \in Process /\ Fine(proc[p], approvals) /\ proc[p].job \in JobType
        /\ proc[p].job.kind \in NamesItsVersion => proc[p].job.version \in Versions
    BY <2>1, AtPlace
  <2>3. proc' = [proc EXCEPT ![p] = c]
    <3>1. proc' = [proc EXCEPT ![p] = [[proc[p] EXCEPT !.at = "save"] EXCEPT !.job.content = new]]
      BY <1>4 DEF Goes, To
    <3> HIDE DEF new
    <3>2. [[proc[p] EXCEPT !.at = "save"] EXCEPT !.job.content = new] = c
      BY <2>2 DEF Process
    <3>3. QED
      BY <3>1, <3>2
  <2>4. new \in Contents
    BY <1>4, RecordingsAreContents DEF RecordingsAreContents
  <2> HIDE DEF new
  <2>5. /\ job \in JobType /\ job.kind = proc[p].job.kind /\ job.version = proc[p].job.version
        /\ c \in Process /\ c.at = "save" /\ c.found = proc[p].found /\ c.job = job
    BY <2>2, <2>4, GivenContent DEF Places
  <2> HIDE DEF c, job
  <2>8. Fine(c, approvals)
    BY <2>1, <2>2, <2>5 DEF Fine, InPlace, Earned
  <2>9. jobs' \in 0..MaxJobs /\ UNCHANGED <<file, approvals, bumps, ran>>
    BY DEF RecordDraft, History, IInv, Typed
  <2>10. QED
    BY <2>3, <2>5, <2>8, <2>9, OneCommand
<1>5. QED
  BY <1>2, <1>3, <1>4

LEMMA SaveLookInv ==
    ASSUME IInv, NEW p \in Commands, SaveLook(p)
    PROVE  IInv'
<1>1. CASE Ends(p)
  BY <1>1, EndsInv DEF SaveLook
<1>2. CASE Job(p).status = "draft" /\ Goes(p, To(p, "list"))
  <2> DEFINE c == [proc[p] EXCEPT !.at = "list"]
  <2>1. proc[p].at = "save" /\ proc[p].job.status = "draft"
    BY <1>2 DEF SaveLook, At, Job
  <2>2. /\ proc[p] \in Process /\ Fine(proc[p], approvals) /\ proc[p].job \in JobType
        /\ proc[p].job.kind \in NamesItsVersion => proc[p].job.version \in Versions
    BY <2>1, AtPlace
  <2>3. proc' = [proc EXCEPT ![p] = c]
    BY <1>2 DEF Goes, To
  <2>4. c \in Process /\ c.at = "list" /\ c.job = proc[p].job /\ c.found = proc[p].found
    BY <2>2, MovesOn DEF Places
  <2> HIDE DEF c
  <2>5. Fine(c, approvals)
    BY <2>1, <2>2, <2>4 DEF Fine, InPlace, Earned
  <2>6. jobs' \in 0..MaxJobs /\ UNCHANGED <<file, approvals, bumps, ran>>
    BY DEF SaveLook, History, IInv, Typed
  <2>7. QED
    BY <2>3, <2>4, <2>5, <2>6, OneCommand
<1>3. QED
  BY <1>1, <1>2 DEF SaveLook

LEMMA ListFilesInv ==
    ASSUME IInv, NEW p \in Commands, ListFiles(p)
    PROVE  IInv'
<1> DEFINE there == {v \in Versions : file[v] # None}
           c == [[proc[p] EXCEPT !.at = "read"] EXCEPT !.left = there, !.found = {}, !.bad = FALSE]
<1>1. proc[p].at = "list"
  BY DEF ListFiles, At
<1>2. /\ proc[p] \in Process /\ Fine(proc[p], approvals) /\ proc[p].job \in JobType
      /\ proc[p].job.kind \in NamesItsVersion => proc[p].job.version \in Versions
  BY <1>1, AtPlace
<1>3. proc' = [proc EXCEPT ![p] = c]
  BY DEF ListFiles, Goes, To
<1>4. there \subseteq Versions
  OBVIOUS
<1> HIDE DEF there
<1>5. c \in Process /\ c.at = "read" /\ c.job = proc[p].job /\ c.found = {}
  BY <1>2, <1>4 DEF Process, Places
<1> HIDE DEF c
<1>6. Fine(c, approvals)
  BY <1>1, <1>2, <1>5 DEF Fine, InPlace, Earned
<1>7. jobs' \in 0..MaxJobs /\ UNCHANGED <<file, approvals, bumps, ran>>
  BY DEF ListFiles, History, IInv, Typed
<1>8. QED
  BY <1>3, <1>5, <1>6, <1>7, OneCommand

\* What is read is older than what is left: the directory lists the files in order.
LEMMA ReadFileInv ==
    ASSUME IInv, NEW p \in Commands, ReadFile(p)
    PROVE  IInv'
<1>1. proc[p].at = "read"
  BY DEF ReadFile, At
<1>2. /\ proc[p] \in Process /\ Fine(proc[p], approvals) /\ proc[p].job \in JobType
      /\ proc[p].job.kind \in NamesItsVersion => proc[p].job.version \in Versions
  BY <1>1, AtPlace
<1>3. PICK v \in proc[p].left :
        /\ \A w \in proc[p].left : ~Older(w, v)
        /\ Goes(p, IF Loads(file[v], Job(p).kind # "replay")
                   THEN [proc[p] EXCEPT !.left = @ \ {v}, !.found = @ \cup {file[v]}]
                   ELSE [proc[p] EXCEPT !.left = @ \ {v}, !.bad = TRUE])
  BY DEF ReadFile
<1>4. v \in Versions /\ proc[p].left \subseteq Versions /\ proc[p].found \subseteq Files
  BY <1>2, <1>3 DEF Process
<1>5. \A w \in proc[p].left \ {v} : Older(v, w)
  BY <1>3, <1>4, OlderIsTotal, VersionsAreTriples
<1>6. \A f \in proc[p].found : WasApproved(f, approvals) /\ \A w \in proc[p].left : Older(f.version, w)
  BY <1>1, <1>2 DEF Fine, InPlace, Earned
<1>7. proc[p].job.kind \in Saving => proc[p].job.status = "draft"
  BY <1>1, <1>2 DEF Fine, Earned
<1>8. jobs' \in 0..MaxJobs /\ UNCHANGED <<file, approvals, bumps, ran>>
  BY DEF ReadFile, History, IInv, Typed
<1>9. CASE /\ Loads(file[v], Job(p).kind # "replay")
           /\ Goes(p, [proc[p] EXCEPT !.left = @ \ {v}, !.found = @ \cup {file[v]}])
  <2> DEFINE c == [proc[p] EXCEPT !.left = @ \ {v}, !.found = @ \cup {file[v]}]
  <2>1. file[v] \in Files /\ file[v].version = v
    BY <1>4, <1>9, LoadedFile DEF IInv
  <2>2. WasApproved(file[v], approvals)
    BY <1>4 DEF IInv, FilesEarned
  <2>3. proc' = [proc EXCEPT ![p] = c]
    BY <1>9 DEF Goes
  <2>4. /\ c.at = "read" /\ c.job = proc[p].job
        /\ c.left = proc[p].left \ {v} /\ c.found = proc[p].found \cup {file[v]}
        /\ c \in Process
    BY <1>1, <1>2, <1>4, <2>1 DEF Process
  <2> HIDE DEF c
  <2>5. InPlace(c)
    BY <1>2, <1>5, <1>6, <2>1, <2>4 DEF InPlace
  <2>6. Earned(c, approvals)
    BY <1>6, <1>7, <2>2, <2>4 DEF Earned
  <2>7. QED
    BY <1>8, <2>3, <2>4, <2>5, <2>6, OneCommand DEF Fine
<1>10. CASE Goes(p, [proc[p] EXCEPT !.left = @ \ {v}, !.bad = TRUE])
  <2> DEFINE c == [proc[p] EXCEPT !.left = @ \ {v}, !.bad = TRUE]
  <2>1. proc' = [proc EXCEPT ![p] = c]
    BY <1>10 DEF Goes
  <2>2. /\ c.at = "read" /\ c.job = proc[p].job
        /\ c.left = proc[p].left \ {v} /\ c.found = proc[p].found
        /\ c \in Process
    BY <1>1, <1>2, <1>4 DEF Process
  <2> HIDE DEF c
  <2>3. InPlace(c)
    BY <1>2, <1>6, <2>2 DEF InPlace
  <2>4. Earned(c, approvals)
    BY <1>6, <1>7, <2>2 DEF Earned
  <2>5. QED
    BY <1>8, <2>1, <2>2, <2>3, <2>4, OneCommand DEF Fine
<1>11. QED
  BY <1>3, <1>9, <1>10

LEMMA CheckVersionInv ==
    ASSUME IInv, NEW p \in Commands, CheckVersion(p)
    PROVE  IInv'
<1> DEFINE new == [version |-> Job(p).version, status |-> Job(p).status, content |-> Job(p).content]
           previous == {f \in proc[p].found : Older(f.version, new.version)}
           c == [[proc[p] EXCEPT !.at = "open"] EXCEPT !.next = new]
<1>1. proc[p].at = "read" /\ proc[p].job.kind \in Saving
  BY DEF CheckVersion, Loaded, At, Job, Saving
<1>2. /\ proc[p] \in Process /\ Fine(proc[p], approvals) /\ proc[p].job \in JobType
      /\ proc[p].job.version \in Versions
  BY <1>1, AtPlace DEF Saving, NamesItsVersion
<1>3. new \in Files /\ new.status = "draft"
  <2>1. proc[p].job.status = "draft"
    BY <1>1, <1>2 DEF Fine, Earned
  <2>2. proc[p].job.content \in Contents
    BY <1>2 DEF JobType
  <2>3. QED
    BY <1>2, <2>1, <2>2 DEF Files, Job, Statuses
<1>4. jobs' \in 0..MaxJobs /\ UNCHANGED <<file, approvals, ran>>
  BY DEF CheckVersion, IInv, Typed
<1>5. \/ Ends(p) /\ UNCHANGED bumps
      \/ Goes(p, [To(p, "open") EXCEPT !.next = new])
         /\ \/ UNCHANGED bumps
            \/ /\ previous # {} /\ BigEnough(Latest(previous), new)
               /\ bumps' = bumps \cup {[old |-> Latest(previous), new |-> new]}
  <2> HIDE DEF new
  <2>1. QED
    BY DEF CheckVersion, new
<1>6. CASE Ends(p) /\ UNCHANGED bumps
  <2>1. UNCHANGED <<file, jobs, History>>
    BY <1>6 DEF CheckVersion, History
  <2>2. QED
    BY <1>6, <2>1, EndsInv
<1>7. CASE Goes(p, [To(p, "open") EXCEPT !.next = new])
  <2>1. proc' = [proc EXCEPT ![p] = c]
    BY <1>7 DEF Goes, To
  <2>2. \A b \in bumps' : b \in Bump /\ Older(b.old.version, b.new.version) /\ BigEnough(b.old, b.new)
    <3>1. CASE UNCHANGED bumps
      BY <3>1 DEF IInv, BumpsAreBigEnough
    <3>2. CASE /\ previous # {} /\ BigEnough(Latest(previous), new)
               /\ bumps' = bumps \cup {[old |-> Latest(previous), new |-> new]}
      <4>1. previous \subseteq Files /\ \A f \in previous : f.version \in Triples
        BY <1>2, FileIs, VersionsAreTriples DEF Process
      <4>2. Latest(previous) \in previous
        <5> HIDE DEF previous
        <5>1. QED
          BY <3>2, <4>1, LatestIsThere
      <4>3. Latest(previous) \in Files /\ Older(Latest(previous).version, new.version)
        BY <4>1, <4>2
      <4> HIDE DEF previous, new
      <4>4. [old |-> Latest(previous), new |-> new] \in Bump
        BY <1>3, <4>3 DEF Bump
      <4>5. QED
        BY <3>2, <4>3, <4>4 DEF IInv, BumpsAreBigEnough
    <3>3. QED
      BY <1>5, <1>6, <3>1, <3>2, <1>7
  <2> HIDE DEF new
  <2>3. /\ c \in Process /\ c.at = "open" /\ c.job = proc[p].job
        /\ c.found = proc[p].found /\ c.next = new
    BY <1>2, <1>3 DEF Process, Places
  <2> HIDE DEF c
  <2>4. Fine(c, approvals)
    BY <1>1, <1>2, <1>3, <2>3 DEF Fine, InPlace, Earned
  <2>5. IInv' 
    <3>1. Typed'
      BY <1>4, <2>1, <2>3 DEF IInv, Typed
    <3>2. FilesAreNamed' /\ FilesEarned' /\ UnattendedRunsWereApproved'
      BY <1>4 DEF IInv, FilesAreNamed, FilesEarned, UnattendedRunsWereApproved
    <3>3. (\A q \in Commands : Fine(proc[q], approvals))'
      <4> SUFFICES ASSUME NEW q \in Commands PROVE Fine(proc'[q], approvals)
        BY <1>4
      <4>1. proc'[q] = IF q = p THEN c ELSE proc[q]
        BY <2>1 DEF IInv, Typed
      <4>2. Fine(proc[q], approvals)
        BY DEF IInv
      <4>3. QED
        BY <2>4, <4>1, <4>2
    <3>4. BumpsAreBigEnough'
      BY <2>2 DEF BumpsAreBigEnough
    <3>5. QED
      BY <3>1, <3>2, <3>3, <3>4 DEF IInv
  <2>6. QED
    BY <2>5
<1>8. QED
  BY <1>5, <1>6, <1>7

\* What a get finds is among the files that were read.
LEMMA MatchesAreRead ==
    ASSUME NEW p \in Commands, proc[p] \in Process, Matches(p) # {}
    PROVE  /\ Matches(p) \subseteq proc[p].found /\ Matches(p) \subseteq Files
           /\ Latest(Matches(p)) \in Matches(p)
<1>1. Matches(p) \subseteq proc[p].found
  BY DEF Matches
<1>2. proc[p].found \subseteq Files
  BY DEF Process
<1>3. \A f \in Matches(p) : f.version \in Triples
  BY <1>1, <1>2, FileIs, VersionsAreTriples
<1>4. QED
  BY <1>1, <1>2, <1>3, LatestIsThere

LEMMA ApproveFindsInv ==
    ASSUME IInv, NEW p \in Commands, ApproveFinds(p)
    PROVE  IInv'
<1> DEFINE v == Latest(Matches(p)).version
           job == [proc[p].job EXCEPT !.version = v]
           c == [[proc[p] EXCEPT !.at = "list"] EXCEPT !.again = TRUE, !.job = job]
<1>1. proc[p].at = "read" /\ proc[p].job.kind = "approve"
  BY DEF ApproveFinds, Loaded, At, Job
<1>2. /\ proc[p] \in Process /\ Fine(proc[p], approvals) /\ proc[p].job \in JobType
  BY <1>1, AtPlace
<1>3. v \in Versions
  BY <1>2, MatchesAreRead, FileIs DEF ApproveFinds
<1>4. proc' = [proc EXCEPT ![p] = c]
  <2>1. proc' = [proc EXCEPT ![p] = [[proc[p] EXCEPT !.at = "list"] EXCEPT !.again = TRUE, !.job.version = v]]
    BY DEF ApproveFinds, Goes, To
  <2> HIDE DEF v
  <2>2. [[proc[p] EXCEPT !.at = "list"] EXCEPT !.again = TRUE, !.job.version = v] = c
    BY <1>2 DEF Process
  <2>3. QED
    BY <2>1, <2>2
<1> HIDE DEF v
<1>5. job \in JobType /\ job.kind = "approve" /\ job.version = v
  BY <1>1, <1>2, <1>3 DEF JobType
<1> HIDE DEF job
<1>6. c \in Process /\ c.at = "list" /\ c.job = job /\ c.found = proc[p].found
  BY <1>2, <1>5 DEF Process, Places
<1> HIDE DEF c
<1>7. Fine(c, approvals)
  BY <1>1, <1>2, <1>3, <1>5, <1>6 DEF Fine, InPlace, Earned, Saving
<1>8. jobs' \in 0..MaxJobs /\ UNCHANGED <<file, approvals, bumps, ran>>
  BY DEF ApproveFinds, History, IInv, Typed
<1>9. QED
  BY <1>4, <1>6, <1>7, <1>8, OneCommand

LEMMA ApproveInv ==
    ASSUME IInv, NEW p \in Commands, Approve(p)
    PROVE  IInv'
<1>1. proc[p].at = "read" /\ proc[p].job.kind = "approve"
  BY DEF Approve, Loaded, At, Job
<1>2. /\ proc[p] \in Process /\ Fine(proc[p], approvals) /\ proc[p].job \in JobType
  BY <1>1, AtPlace
<1>3. PICK f \in Matches(p) :
        IF f.status = "draft"
        THEN Goes(p, [To(p, "open") EXCEPT !.next = [f EXCEPT !.status = "approved"]])
        ELSE Ends(p)
  BY DEF Approve
<1>4. CASE Ends(p)
  BY <1>4, EndsInv DEF Approve
<1>5. CASE Goes(p, [To(p, "open") EXCEPT !.next = [f EXCEPT !.status = "approved"]])
  <2> DEFINE new == [f EXCEPT !.status = "approved"]
             c == [[proc[p] EXCEPT !.at = "open"] EXCEPT !.next = new]
  <2>1. f \in Files
    BY <1>2, <1>3, MatchesAreRead
  <2>2. new \in Files
    BY <2>1 DEF Files, Statuses
  <2>3. proc' = [proc EXCEPT ![p] = c]
    BY <1>5 DEF Goes, To
  <2> HIDE DEF new
  <2>4. /\ c \in Process /\ c.at = "open" /\ c.job = proc[p].job
        /\ c.found = proc[p].found /\ c.next = new
    BY <1>2, <2>2 DEF Process, Places
  <2> HIDE DEF c
  <2>5. Fine(c, approvals)
    BY <1>1, <1>2, <2>2, <2>4 DEF Fine, InPlace, Earned, Saving
  <2>6. jobs' \in 0..MaxJobs /\ UNCHANGED <<file, approvals, bumps, ran>>
    BY DEF Approve, History, IInv, Typed
  <2>7. QED
    BY <2>3, <2>4, <2>5, <2>6, OneCommand
<1>6. QED
  BY <1>3, <1>4, <1>5

\* A step that writes a file, and may add an approval.
LEMMA OneFile ==
    ASSUME IInv, NEW p \in Commands, NEW c, c \in Process,
           NEW v \in Versions, NEW new, new \in Unreadable \cup Files,
           Readable(new) => new.version = v,
           file' = [file EXCEPT ![v] = new], proc' = [proc EXCEPT ![p] = c],
           approvals \subseteq approvals', approvals' \subseteq Approval,
           Fine(c, approvals'), WasApproved(new, approvals'),
           UNCHANGED <<jobs, bumps, ran>>
    PROVE  IInv'
<1>1. file \in [Versions -> Unreadable \cup Files] /\ proc \in [Commands -> Process]
  BY DEF IInv, Typed
<1>2. Typed'
  <2>1. file' \in [Versions -> Unreadable \cup Files]
    BY <1>1
  <2>2. proc' \in [Commands -> Process]
    BY <1>1
  <2>3. QED
    BY <2>1, <2>2 DEF IInv, Typed
<1>3. FilesAreNamed'
  <2> SUFFICES ASSUME NEW w \in Versions, Readable(file'[w]) PROVE file'[w].version = w
    BY DEF FilesAreNamed
  <2>1. file'[w] = IF w = v THEN new ELSE file[w]
    BY <1>1
  <2>2. QED
    BY <2>1 DEF IInv, FilesAreNamed
<1>4. \A f : WasApproved(f, approvals) => WasApproved(f, approvals')
  BY DEF WasApproved
<1>5. (\A q \in Commands : Fine(proc[q], approvals))'
  <2> SUFFICES ASSUME NEW q \in Commands PROVE Fine(proc'[q], approvals')
    OBVIOUS
  <2>1. proc'[q] = IF q = p THEN c ELSE proc[q]
    BY <1>1
  <2>2. Fine(proc[q], approvals)
    BY DEF IInv
  <2>3. Fine(proc[q], approvals')
    BY <2>2, <1>4 DEF Fine, Earned
  <2>4. QED
    BY <2>1, <2>3
<1>6. FilesEarned'
  <2> SUFFICES ASSUME NEW w \in Versions PROVE WasApproved(file'[w], approvals')
    BY DEF FilesEarned
  <2>1. file'[w] = IF w = v THEN new ELSE file[w]
    BY <1>1
  <2>2. WasApproved(file[w], approvals')
    BY <1>4 DEF IInv, FilesEarned
  <2>3. QED
    BY <2>1, <2>2
<1>7. BumpsAreBigEnough' /\ UnattendedRunsWereApproved'
  BY DEF IInv, BumpsAreBigEnough, UnattendedRunsWereApproved
<1>8. QED
  BY <1>2, <1>3, <1>5, <1>6, <1>7 DEF IInv

LEMMA OpenFileInv ==
    ASSUME IInv, NEW p \in Commands, OpenFile(p)
    PROVE  IInv'
<1> DEFINE c == [proc[p] EXCEPT !.at = "write"]
<1>1. proc[p].at = "open"
  BY DEF OpenFile, At
<1>2. /\ proc[p] \in Process /\ Fine(proc[p], approvals) /\ proc[p].job \in JobType
      /\ proc[p].next \in Files
  BY <1>1, AtPlace DEF Fine, InPlace
<1>3. proc[p].next.version \in Versions
  BY <1>2, FileIs
<1>4. proc' = [proc EXCEPT ![p] = c] /\ file' = [file EXCEPT ![proc[p].next.version] = Empty]
  BY DEF OpenFile, Goes, To
<1>5. /\ c \in Process /\ c.at = "write" /\ c.job = proc[p].job
      /\ c.found = proc[p].found /\ c.next = proc[p].next
  BY <1>2, MovesOn DEF Places
<1> HIDE DEF c
<1>6. Fine(c, approvals)
  BY <1>1, <1>2, <1>5 DEF Fine, InPlace, Earned
<1>7. Empty \in Unreadable /\ ~Readable(Empty) /\ WasApproved(Empty, approvals)
  BY UnreadableIs DEF Unreadable, WasApproved
<1>8. UNCHANGED <<jobs, bumps, ran, approvals>> /\ approvals \subseteq Approval
  BY DEF OpenFile, History, IInv, Typed
<1>9. QED
  BY <1>3, <1>4, <1>5, <1>6, <1>7, <1>8, OneFile

\* An approved file is written together with the approval it needs.
LEMMA WriteFileInv ==
    ASSUME IInv, NEW p \in Commands, WriteFile(p)
    PROVE  IInv'
<1> DEFINE new == proc[p].next
           given == [version |-> new.version, content |-> new.content]
<1>1. proc[p].at = "write"
  BY DEF WriteFile, At
<1>2. Fine(proc[p], approvals) /\ new \in Files
  BY <1>1, AtPlace DEF Fine, InPlace
<1>3. /\ new.version \in Versions /\ Readable(new) /\ given \in Approval
  BY <1>2, FileIs DEF Approval
<1>4. PICK after \in {new} \cup (IF file[new.version] = Empty THEN {} ELSE {Torn}) :
        file' = [file EXCEPT ![new.version] = after]
  BY DEF WriteFile
<1>5. approvals' = approvals \cup (IF proc[p].job.kind = "approve" THEN {given} ELSE {})
  BY DEF WriteFile, Job
<1>6. new.status = "approved" => given \in approvals'
  <2>1. new.status = "approved" => proc[p].job.kind = "approve"
    BY <1>1, <1>2 DEF Fine, Earned
  <2>2. QED
    BY <1>5, <2>1
<1>7. approvals \subseteq approvals' /\ approvals' \subseteq Approval
  BY <1>3, <1>5 DEF IInv, Typed
<1>8. proc' = [proc EXCEPT ![p] = Idle] /\ UNCHANGED <<jobs, bumps, ran>>
  BY DEF WriteFile, Ends, Goes
<1>9. Idle \in Process /\ Fine(Idle, approvals')
  BY IdleIsFine
<1>10. after \in Unreadable \cup Files /\ (Readable(after) => after.version = new.version)
       /\ WasApproved(after, approvals')
  <2>1. CASE after = new
    BY <1>2, <1>6, <2>1 DEF WasApproved
  <2>2. CASE after = Torn
    BY <2>2, UnreadableIs DEF Unreadable, WasApproved
  <2>3. QED
    BY <1>4, <2>1, <2>2
<1> HIDE DEF new
<1>11. QED
  BY <1>3, <1>4, <1>7, <1>8, <1>9, <1>10, OneFile

LEMMA LoadPathInv ==
    ASSUME IInv, NEW p \in Commands, LoadPath(p)
    PROVE  IInv'
<1> DEFINE f == file[Job(p).version]
           c == [[proc[p] EXCEPT !.at = "preflight"] EXCEPT !.next = f]
<1>1. proc[p].at = "path"
  BY DEF LoadPath, At
<1>2. /\ proc[p] \in Process /\ Fine(proc[p], approvals) /\ proc[p].job \in JobType
      /\ proc[p].job.kind = "replay_file" /\ proc[p].job.version \in Versions
  BY <1>1, AtPlace DEF Fine, InPlace, NamesItsVersion
<1>3. CASE Ends(p)
  BY <1>3, EndsInv DEF LoadPath
<1>4. CASE Loads(f, FALSE) /\ Goes(p, [To(p, "preflight") EXCEPT !.next = f])
  <2>1. f \in Files /\ WasApproved(f, approvals)
    BY <1>2, <1>4, LoadedFile DEF IInv, FilesEarned, Job
  <2>2. proc' = [proc EXCEPT ![p] = c]
    BY <1>4 DEF Goes, To
  <2> HIDE DEF f
  <2>3. /\ c \in Process /\ c.at = "preflight" /\ c.job = proc[p].job
        /\ c.found = proc[p].found /\ c.next = f
    BY <1>2, <2>1 DEF Process, Places
  <2> HIDE DEF c
  <2>4. Fine(c, approvals)
    BY <1>1, <1>2, <2>1, <2>3 DEF Fine, InPlace, Earned
  <2>5. jobs' \in 0..MaxJobs /\ UNCHANGED <<file, approvals, bumps, ran>>
    BY DEF LoadPath, History, IInv, Typed
  <2>6. QED
    BY <2>2, <2>3, <2>4, <2>5, OneCommand
<1>5. QED
  BY <1>3, <1>4 DEF LoadPath

LEMMA ReplayFindsInv ==
    ASSUME IInv, NEW p \in Commands, ReplayFinds(p)
    PROVE  IInv'
<1> DEFINE f == Latest(Matches(p))
           c == [[proc[p] EXCEPT !.at = "preflight"] EXCEPT !.next = f]
<1>1. proc[p].at = "read"
  BY DEF ReplayFinds, Loaded, At
<1>2. /\ proc[p] \in Process /\ Fine(proc[p], approvals) /\ proc[p].job \in JobType
      /\ proc[p].job.kind \in NamesItsVersion => proc[p].job.version \in Versions
  BY <1>1, AtPlace
<1>3. f \in Files /\ f \in proc[p].found
  BY <1>2, MatchesAreRead DEF ReplayFinds
<1>4. WasApproved(f, approvals)
  BY <1>2, <1>3 DEF Fine, Earned
<1>5. proc' = [proc EXCEPT ![p] = c]
  BY DEF ReplayFinds, Goes, To
<1> HIDE DEF f
<1>6. /\ c \in Process /\ c.at = "preflight" /\ c.job = proc[p].job
      /\ c.found = proc[p].found /\ c.next = f
  BY <1>2, <1>3 DEF Process, Places
<1> HIDE DEF c
<1>7. Fine(c, approvals)
  BY <1>1, <1>2, <1>3, <1>4, <1>6 DEF Fine, InPlace, Earned
<1>8. jobs' \in 0..MaxJobs /\ UNCHANGED <<file, approvals, bumps, ran>>
  BY DEF ReplayFinds, History, IInv, Typed
<1>9. QED
  BY <1>5, <1>6, <1>7, <1>8, OneCommand

\* An unattended run is not a draft and not deprecated: it was approved.
LEMMA PreflightInv ==
    ASSUME IInv, NEW p \in Commands, Preflight(p)
    PROVE  IInv'
<1> DEFINE f == proc[p].next
           run == [version |-> f.version, content |-> f.content, tenant |-> Job(p).tenant,
                   unattended |-> ~Job(p).allowDraft]
<1>1. proc[p].at = "preflight"
  BY DEF Preflight, At
<1>2. f \in Files /\ WasApproved(f, approvals) /\ proc[p].job \in JobType
  BY <1>1, AtPlace DEF Fine, InPlace, Earned
<1>3. f.status \in {"draft", "approved", "deprecated"}
  BY <1>2, FileIs DEF Statuses
<1>4. Refusal(Job(p), f) = "" /\ ~Job(p).allowDraft => [version |-> f.version, content |-> f.content] \in approvals
  <2> SUFFICES ASSUME Refusal(Job(p), f) = "", ~Job(p).allowDraft
               PROVE  [version |-> f.version, content |-> f.content] \in approvals
    OBVIOUS
  <2> HIDE DEF f
  <2>1. f.status # "deprecated" /\ ~DraftRefused(Job(p), f)
    BY DEF Refusal
  <2>2. f.status # "draft"
    BY <2>1 DEF DraftRefused
  <2>3. QED
    BY <1>2, <1>3, <2>1, <2>2 DEF WasApproved
<1>5. ran' = ran \cup (IF Refusal(Job(p), f) = "" THEN {run} ELSE {})
  BY DEF Preflight
<1>6. UnattendedRunsWereApproved'
  <2> SUFFICES ASSUME NEW r \in ran', r.unattended
               PROVE  [version |-> r.version, content |-> r.content] \in approvals
    BY DEF Preflight, UnattendedRunsWereApproved
  <2>1. CASE r \in ran
    BY <2>1 DEF IInv, UnattendedRunsWereApproved
  <2>2. CASE r = run /\ Refusal(Job(p), f) = ""
    <3>1. r.version = f.version /\ r.content = f.content /\ (r.unattended <=> ~Job(p).allowDraft)
      BY <2>2
    <3>2. QED
      BY <1>4, <2>2, <3>1
  <2>3. QED
    BY <1>5, <2>1, <2>2
<1>7. proc' = [proc EXCEPT ![p] = Idle] /\ UNCHANGED <<file, jobs, approvals, bumps>>
  BY DEF Preflight, Ends, Goes
<1>8. Typed'
  BY <1>7, IdleIsFine DEF IInv, Typed
<1>9. FilesAreNamed' /\ FilesEarned' /\ BumpsAreBigEnough'
  BY <1>7 DEF IInv, FilesAreNamed, FilesEarned, BumpsAreBigEnough
<1>10. (\A q \in Commands : Fine(proc[q], approvals))'
  <2> SUFFICES ASSUME NEW q \in Commands PROVE Fine(proc'[q], approvals)
    BY <1>7
  <2>1. proc'[q] = IF q = p THEN Idle ELSE proc[q]
    BY <1>7 DEF IInv, Typed
  <2>2. QED
    BY <2>1, IdleIsFine DEF IInv
<1>11. QED
  BY <1>6, <1>8, <1>9, <1>10 DEF IInv

LEMMA NextInv == IInv /\ [Next]_vars => IInv'
<1> SUFFICES ASSUME IInv, [Next]_vars PROVE IInv'
  OBVIOUS
<1>1. ASSUME NEW p \in Commands, NEW job \in Jobs[p], Invoke(p, job) PROVE IInv'
  BY <1>1, InvokeInv
<1>2. ASSUME NEW p \in Commands, DiscoverLook(p) \/ RecordDraft(p) \/ SaveLook(p) PROVE IInv'
  BY <1>2, DiscoverLookInv, RecordDraftInv, SaveLookInv
<1>3. ASSUME NEW p \in Commands, ListFiles(p) \/ ReadFile(p) \/ CheckVersion(p) PROVE IInv'
  BY <1>3, ListFilesInv, ReadFileInv, CheckVersionInv
<1>4. ASSUME NEW p \in Commands, LoadFails(p) \/ NothingMatches(p) \/ Die(p) PROVE IInv'
  BY <1>4, EndsInv DEF LoadFails, NothingMatches, Die
<1>5. ASSUME NEW p \in Commands, ApproveFinds(p) \/ Approve(p) PROVE IInv'
  BY <1>5, ApproveFindsInv, ApproveInv
<1>6. ASSUME NEW p \in Commands, OpenFile(p) \/ WriteFile(p) PROVE IInv'
  BY <1>6, OpenFileInv, WriteFileInv
<1>7. ASSUME NEW p \in Commands, LoadPath(p) \/ ReplayFinds(p) \/ Preflight(p) PROVE IInv'
  BY <1>7, LoadPathInv, ReplayFindsInv, PreflightInv
<1>8. CASE UNCHANGED vars
  BY <1>8 DEF vars, IInv, Typed, FilesAreNamed, FilesEarned, BumpsAreBigEnough, UnattendedRunsWereApproved
<1>9. QED
  BY <1>1, <1>2, <1>3, <1>4, <1>5, <1>6, <1>7, <1>8 DEF Next

-----------------------------------------------------------------------------
(* The theorems.                                                            *)

\* The inductive invariant: an approval is known wherever an approved file is.
THEOREM Invariance == Spec => []IInv
BY InitInv, NextInv, PTL DEF Spec

\* Types, and the order the files are read in (Catalog._load_all sorts the names).
THEOREM TypeCorrect == Spec => []TypeOK
<1>1. IInv => TypeOK
  <2> SUFFICES ASSUME IInv PROVE TypeOK
    OBVIOUS
  <2>1. \A v \in Versions : Readable(file[v]) => file[v] \in Files /\ file[v].version = v
    <3>1. \A v \in Versions : file[v] \in Unreadable \cup Files
      BY DEF IInv, Typed
    <3>2. QED
      BY <3>1, UnreadableIs DEF IInv, FilesAreNamed
  <2>2. ASSUME NEW p \in Commands
        PROVE  LET c == proc[p] IN
               /\ c.at \in {"idle", "exists", "record", "save", "list", "read", "open", "write", "path", "preflight"}
               /\ c.at # "idle" => c.job \in JobType
               /\ c.left \subseteq Versions /\ c.found \subseteq Files
               /\ c.bad \in BOOLEAN /\ c.again \in BOOLEAN
               /\ c.at \in {"open", "write", "preflight"} => c.next \in Files
               /\ c.at = "read" => \A f \in c.found : \A v \in c.left : Older(f.version, v)
    <3>1. proc[p] \in Process /\ Fine(proc[p], approvals)
      BY DEF IInv, Typed
    <3> DEFINE c == proc[p]
    <3>2. /\ c.at \in Places /\ c.left \subseteq Versions /\ c.found \subseteq Files
          /\ c.bad \in BOOLEAN /\ c.again \in BOOLEAN
      BY <3>1 DEF Process
    <3>3. /\ c.at # "idle" => c.job \in JobType
          /\ c.at \in {"open", "write", "preflight"} => c.next \in Files
          /\ c.at = "read" => \A f \in c.found : \A v \in c.left : Older(f.version, v)
      BY <3>1 DEF Fine, InPlace
    <3>4. QED
      BY <3>2, <3>3, Zenon DEF Places
  <2>3. jobs \in 0..MaxJobs /\ \A a \in approvals : a \in [version : Versions, content : Contents]
    BY DEF IInv, Typed, Approval
  <2>4. \A b \in bumps : b.old \in Files /\ b.new \in Files /\ Older(b.old.version, b.new.version)
    BY DEF IInv, BumpsAreBigEnough, Bump
  <2>5. QED
    BY <2>1, <2>2, <2>3, <2>4 DEF TypeOK
<1>2. QED
  BY Invariance, <1>1, PTL

\* Catalog.save, Catalog.approve, _load_for_replay and _preflight, for any number
\* of commands at once, dying anywhere: no draft and no deprecated capability runs
\* unattended, and what runs is what was approved.
THEOREM UnattendedMeansApproved == Spec => []UnattendedRunsWereApproved
<1>1. IInv => UnattendedRunsWereApproved
  BY DEF IInv
<1>2. QED
  BY Invariance, <1>1, PTL

\* check_version: no major bump, no break of the contract.
LEMMA KeepsContract ==
    ASSUME NEW old \in Files, NEW new \in Files, BigEnough(old, new), old.version[1] = new.version[1]
    PROVE  ~ContractBreaks(old.content, new.content)
<1>1. ActualBump(old.version, new.version) \in {0, 1, 2}
  <2>1. old.version[1] \in Int /\ ~(new.version[1] > old.version[1])
    BY FileIs, VersionsAreTriples DEF Triples
  <2>2. QED
    BY <2>1 DEF ActualBump
<1>2. ActualBump(old.version, new.version) >= RequiredBump(old.content, new.content)
  BY DEF BigEnough
<1>3. ContractBreaks(old.content, new.content) => RequiredBump(old.content, new.content) = 3
  BY DEF RequiredBump
<1>4. QED
  BY <1>1, <1>2, <1>3

\* contract_breaks against coerce_inputs: a call that was taken still is.
LEMMA KeepsCalls ==
    ASSUME NEW old, NEW new, ~InputBreaks(old.inputs, new.inputs), NEW call, Accepts(old, call)
    PROVE  Accepts(new, call)
<1>1. /\ \A n \in DOMAIN old.inputs :
            /\ n \in DOMAIN new.inputs
            /\ new.inputs[n].values = old.inputs[n].values
            /\ new.inputs[n].required => old.inputs[n].required
      /\ \A n \in DOMAIN new.inputs \ DOMAIN old.inputs : ~new.inputs[n].required
  BY DEF InputBreaks
<1>2. /\ DOMAIN call \subseteq DOMAIN old.inputs
      /\ \A n \in DOMAIN old.inputs :
            /\ n \in DOMAIN call => call[n] \in old.inputs[n].values
            /\ n \notin DOMAIN call => ~old.inputs[n].required
  BY DEF Accepts
<1>3. DOMAIN call \subseteq DOMAIN new.inputs
  BY <1>1, <1>2
<1>4. ASSUME NEW n \in DOMAIN new.inputs, n \in DOMAIN call
      PROVE  call[n] \in new.inputs[n].values
  BY <1>1, <1>2, <1>4
<1>5. ASSUME NEW n \in DOMAIN new.inputs, n \notin DOMAIN call
      PROVE  ~new.inputs[n].required
  BY <1>1, <1>2, <1>5
<1>6. QED
  BY <1>3, <1>4, <1>5 DEF Accepts

LEMMA KeepsTable ==
    ASSUME NEW old, NEW new, old = [k \in DOMAIN old |-> old[k]], ~Loses(old, new)
    PROVE  old = Restrict(new, DOMAIN old)
<1>1. \A k \in DOMAIN old : new[k] = old[k]
  BY DEF Loses
<1>2. Restrict(new, DOMAIN old) = [k \in DOMAIN old |-> new[k]]
  BY DEF Restrict
<1>3. [k \in DOMAIN old |-> new[k]] = [k \in DOMAIN old |-> old[k]]
  BY <1>1
<1>4. QED
  BY <1>2, <1>3

\* check_version and contract_breaks against coerce_inputs, for every pair of
\* capabilities: a save that keeps the major number keeps what callers rely on.
THEOREM CallsAreKept == Spec => []MinorChangesKeepCalls
<1>1. IInv => MinorChangesKeepCalls
  <2> SUFFICES ASSUME IInv, NEW b \in bumps, b.old.version[1] = b.new.version[1]
               PROVE  LET old == b.old.content
                          new == b.new.content
                      IN  /\ \A call \in Calls : Accepts(old, call) => Accepts(new, call)
                          /\ old.outputs = Restrict(new.outputs, DOMAIN old.outputs)
                          /\ old.codes = Restrict(new.codes, DOMAIN old.codes)
                          /\ old.deployment = new.deployment
    BY DEF MinorChangesKeepCalls
  <2> DEFINE old == b.old.content
             new == b.new.content
  <2>1. b.old \in Files /\ b.new \in Files /\ BigEnough(b.old, b.new)
    BY DEF IInv, BumpsAreBigEnough, Bump
  <2>2. ~ContractBreaks(old, new)
    BY <2>1, KeepsContract
  <2>3. old \in Contents
    BY <2>1, FileIs
  <2>4. /\ old.outputs = [k \in DOMAIN old.outputs |-> old.outputs[k]]
        /\ old.codes = [k \in DOMAIN old.codes |-> old.codes[k]]
    BY <2>3, Assumptions DEF Assumptions
  <2> HIDE DEF old, new
  <2>5. /\ ~InputBreaks(old.inputs, new.inputs) /\ ~Loses(old.outputs, new.outputs)
        /\ ~Loses(old.codes, new.codes) /\ old.deployment = new.deployment
    BY <2>2 DEF ContractBreaks
  <2>6. \A call \in Calls : Accepts(old, call) => Accepts(new, call)
    BY <2>5, KeepsCalls
  <2>7. /\ old.outputs = Restrict(new.outputs, DOMAIN old.outputs)
        /\ old.codes = Restrict(new.codes, DOMAIN old.codes)
    BY <2>4, <2>5, KeepsTable
  <2>8. QED
    BY <2>5, <2>6, <2>7 DEF old, new
<1>2. QED
  BY Invariance, <1>1, PTL
=============================================================================
