----------------------- MODULE ReleasePipeline_proofs -----------------------
(***************************************************************************)
(* Proofs about ReleasePipeline, for any repository, any number of runs of *)
(* the workflow and any commits, versions and inputs.  They rest on one    *)
(* inductive invariant, Inv: what a run has passed by the phase it is in,  *)
(* and that nobody works on a release that is published.                   *)
(***************************************************************************)
EXTENDS ReleasePipeline, TLAPS

\* The phases of a job that has to wait for the tests, and of one that has the tag.
Tested == {"build", "done"} \cup Publishing
Tagged == {"view", "create", "upload", "edit"}

\* What a run has passed.
Passed(r) ==
  /\ IF run[r].phase = "idle" THEN ~run[r].approved ELSE run[r].sha \in Commits
  /\ run[r].failed => run[r].phase \in {"plan", "build", "ensureTag"}
  /\ run[r].phase \in Tested => tests[run[r].sha] = "success"
  /\ run[r].phase \in {"awaitTests"} \cup Tested => run[r].signed = Signed(run[r].sha)
  /\ "windows" \in run[r].built => ApprovalHolds(r)
  /\ run[r].phase \in Publishing \cup {"done"} => run[r].built = Platforms
  /\ run[r].phase \in Tagged => tags[VersionOf(r)] = run[r].sha
  /\ run[r].phase = "edit" => SameFiles(r)

\* The concurrency group: of the runs in progress no two have the same commit.
OneOfACommit ==
  \A r, q \in Runs : InProgress(r) /\ InProgress(q) /\ run[r].sha = run[q].sha => r = q

\* A published release is the work of a run that is done and had the tag, and
\* no other run has it in hand.
Whole(v, r) ==
  /\ run[r].phase = "done" /\ VersionOf(r) = v /\ run[r].sha = tags[v]
  /\ \A f \in Files : release[v].files[f] = r
PublishedIsWhole ==
  \A v \in Versions : release[v].state = "published" =>
    /\ \E r \in Runs : Whole(v, r)
    /\ \A q \in Runs : run[q].phase \in {"upload", "edit"} => VersionOf(q) # v

Inv == TypeOK /\ (\A r \in Runs : Passed(r)) /\ OneOfACommit /\ PublishedIsWhole

-----------------------------------------------------------------------------
(* Type correctness.                                                       *)

\* An input names a commit, and a ref that is the branch or a version.
LEMMA InputParts ==
  ASSUME NEW input \in Inputs
  PROVE  input.ref \in Refs /\ input.sha \in Commits /\ input.tests \in Commits
BY InputsAssumption DEF Refs

\* The version of a commit, and its channel.
LEMMA VersionParts ==
  ASSUME NEW c \in Commits
  PROVE  Version[c] \in Versions /\ IsStable(c) \in BOOLEAN /\ Signed(c) \in BOOLEAN
BY MetadataAssumption DEF IsStable, Signed

LEMMA InitType == Init => TypeOK
BY DEF Init, TypeOK, NotStarted, NoRelease, RunRecords, ReleaseRecords, Phases, Publishing, Refs

\* What a step does to a run keeps the fields of its record in their sets.
LEMMA RunUpdate ==
  ASSUME TypeOK, NEW r \in Runs, NEW record \in RunRecords, run' = [run EXCEPT ![r] = record]
  PROVE  run' \in [Runs -> RunRecords]
BY DEF TypeOK

\* A run goes on to another phase.
LEMMA ToType ==
  ASSUME TypeOK, NEW r \in Runs, NEW phase \in Phases, To(r, phase)
  PROVE  run' \in [Runs -> RunRecords]
<1>1. run[r] \in RunRecords
  BY DEF TypeOK
<1>2. [run[r] EXCEPT !.phase = phase] \in RunRecords
  BY <1>1 DEF RunRecords
<1>3. run' = [run EXCEPT ![r] = [run[r] EXCEPT !.phase = phase]]
  BY DEF To
<1>4. QED
  BY <1>2, <1>3, RunUpdate

\* A run starts, fails or is started again.
LEMMA ControlType ==
  ASSUME TypeOK, NEW r \in Runs,
         Fail(r) \/ Rerun(r) \/ \E input \in Inputs : Dispatch(r, input)
  PROVE  TypeOK'
<1>1. run[r] \in RunRecords
  BY DEF TypeOK
<1>2. ASSUME NEW input \in Inputs, Dispatch(r, input) PROVE TypeOK'
  <2> DEFINE record == [NotStarted EXCEPT !.phase = "plan", !.ref = input.ref,
                                          !.sha = input.sha, !.tests = input.tests]
  <2>1. record \in RunRecords
    BY InputParts DEF NotStarted, RunRecords, Phases
  <2>2. run' = [run EXCEPT ![r] = record]
    BY <1>2 DEF Dispatch
  <2>3. QED
    BY <1>2, <2>1, <2>2, RunUpdate DEF Dispatch, Unchanged, TypeOK
<1>3. CASE Fail(r)
  <2> DEFINE record == [run[r] EXCEPT !.failed = TRUE, !.phase = JobOf(@), !.left = {}]
  <2>1. JobOf(run[r].phase) \in Phases
    BY <1>1 DEF RunRecords, JobOf, Phases, Publishing
  <2>2. record \in RunRecords
    BY <1>1, <2>1 DEF RunRecords
  <2>3. run' = [run EXCEPT ![r] = record]
    BY <1>3 DEF Fail
  <2>4. QED
    BY <1>3, <2>2, <2>3, RunUpdate DEF Fail, Unchanged, TypeOK
<1>4. CASE Rerun(r)
  <2>1. [run[r] EXCEPT !.failed = FALSE] \in RunRecords
    BY <1>1 DEF RunRecords
  <2>2. run' = [run EXCEPT ![r] = [run[r] EXCEPT !.failed = FALSE]]
    BY <1>4 DEF Rerun
  <2>3. QED
    BY <1>4, <2>1, <2>2, RunUpdate DEF Rerun, Unchanged, TypeOK
<1>5. QED
  BY <1>2, <1>3, <1>4

\* A run plans, waits, and builds.
LEMMA BuildType ==
  ASSUME TypeOK, NEW r \in Runs,
         \/ Plan(r) \/ AwaitTests(r) \/ Approve(r) \/ Assemble(r)
         \/ \E platform \in Platforms : Build(r, platform)
  PROVE  TypeOK'
<1>1. run[r] \in RunRecords
  BY DEF TypeOK
<1>2. CASE Plan(r)
  <2> DEFINE record == [run[r] EXCEPT !.phase = "awaitTests", !.signed = Signed(run[r].sha)]
  <2>1. record \in RunRecords
    BY <1>1 DEF RunRecords, Phases, Signed, IsStable
  <2>2. run' = [run EXCEPT ![r] = record]
    BY <1>2 DEF Plan
  <2>3. QED
    BY <1>2, <2>1, <2>2, RunUpdate DEF Plan, Unchanged, TypeOK
<1>3. CASE AwaitTests(r) \/ Assemble(r)
  BY <1>3, ToType DEF AwaitTests, Assemble, Unchanged, TypeOK, Phases, Publishing
<1>4. CASE Approve(r)
  <2>1. [run[r] EXCEPT !.approved = TRUE] \in RunRecords
    BY <1>1 DEF RunRecords
  <2>2. run' = [run EXCEPT ![r] = [run[r] EXCEPT !.approved = TRUE]]
    BY <1>4 DEF Approve
  <2>3. QED
    BY <1>4, <2>1, <2>2, RunUpdate DEF Approve, Unchanged, TypeOK
<1>5. ASSUME NEW platform \in Platforms, Build(r, platform) PROVE TypeOK'
  <2>1. [run[r] EXCEPT !.built = @ \cup {platform}] \in RunRecords
    BY <1>1 DEF RunRecords
  <2>2. run' = [run EXCEPT ![r] = [run[r] EXCEPT !.built = @ \cup {platform}]]
    BY <1>5 DEF Build
  <2>3. QED
    BY <1>5, <2>1, <2>2, RunUpdate DEF Build, Unchanged, TypeOK
<1>6. QED
  BY <1>2, <1>3, <1>4, <1>5

\* A run tags, uploads and publishes.
LEMMA PublishType ==
  ASSUME TypeOK, NEW r \in Runs,
         \/ EnsureTag(r) \/ PushTag(r) \/ View(r) \/ Create(r) \/ Verify(r) \/ Publish(r)
         \/ \E file \in Files : Upload(r, file)
  PROVE  TypeOK'
<1>1. run[r] \in RunRecords
  BY DEF TypeOK
<1>2. CASE EnsureTag(r) \/ Verify(r)
  BY <1>2, ToType DEF EnsureTag, Verify, Unchanged, TypeOK, Phases, Publishing
<1>3. CASE PushTag(r)
  <2>1. run' \in [Runs -> RunRecords]
    BY <1>3, ToType DEF PushTag, Phases, Publishing
  <2>2. tags' \in [Versions -> Commits \cup {NoCommit}]
    BY <1>1, <1>3 DEF PushTag, TypeOK, RunRecords
  <2>3. QED
    BY <1>3, <2>1, <2>2 DEF PushTag, TypeOK
<1>4. CASE View(r)
  <2>1. PICK phase \in {"done", "upload", "create"}, left \in {Files, {}} :
          run' = [run EXCEPT ![r].phase = phase, ![r].left = left]
    BY <1>4 DEF View
  <2> DEFINE record == [run[r] EXCEPT !.phase = phase, !.left = left]
  <2>2. record \in RunRecords
    BY <1>1 DEF RunRecords, Phases, Publishing
  <2>3. run' = [run EXCEPT ![r] = record]
    BY <2>1
  <2>4. QED
    BY <1>4, <2>2, <2>3, RunUpdate DEF View, Unchanged, TypeOK
<1>5. CASE Create(r)
  <2> DEFINE record == [run[r] EXCEPT !.phase = "upload", !.left = Files]
  <2>1. record \in RunRecords
    BY <1>1 DEF RunRecords, Phases, Publishing
  <2>2. run' = [run EXCEPT ![r] = record]
    BY <1>5 DEF Create
  <2>3. release' \in [Versions -> ReleaseRecords]
    BY <1>5 DEF Create, TypeOK, ReleaseRecords
  <2>4. QED
    BY <1>5, <2>1, <2>2, <2>3, RunUpdate DEF Create, TypeOK
<1>6. ASSUME NEW file \in Files, Upload(r, file) PROVE TypeOK'
  <2>1. [run[r] EXCEPT !.left = @ \ {file}] \in RunRecords
    BY <1>1 DEF RunRecords
  <2>2. run' = [run EXCEPT ![r] = [run[r] EXCEPT !.left = @ \ {file}]]
    BY <1>6 DEF Upload
  <2>3. release' \in [Versions -> ReleaseRecords]
    <3> DEFINE v == VersionOf(r)
               uploaded(content) ==
                 [release[v] EXCEPT !.files = [release[v].files EXCEPT ![file] = content]]
    <3>1. PICK content \in {r, Damaged} : release' = [release EXCEPT ![v] = uploaded(content)]
      BY <1>6 DEF Upload
    <3>2. v \in Versions => uploaded(content) \in ReleaseRecords
      BY DEF TypeOK, ReleaseRecords
    <3>3. QED
      BY <3>1, <3>2 DEF TypeOK
  <2>4. QED
    BY <1>6, <2>1, <2>2, <2>3, RunUpdate DEF Upload, TypeOK
<1>7. CASE Publish(r)
  <2>1. run' \in [Runs -> RunRecords]
    BY <1>7, ToType DEF Publish, Phases
  <2>2. release' \in [Versions -> ReleaseRecords]
    BY <1>7 DEF Publish, TypeOK, ReleaseRecords
  <2>3. QED
    BY <1>7, <2>1, <2>2 DEF Publish, TypeOK
<1>8. QED
  BY <1>2, <1>3, <1>4, <1>5, <1>6, <1>7

LEMMA NextType == TypeOK /\ [Next]_vars => TypeOK'
<1> SUFFICES ASSUME TypeOK, [Next]_vars PROVE TypeOK'
  OBVIOUS
<1>1. CASE \E c \in Commits : MoveBranch(c) \/ EndTests(c)
  BY <1>1 DEF MoveBranch, EndTests, TypeOK
<1>2. CASE \E v \in Versions, c \in Commits : TagByHand(v, c)
  BY <1>2 DEF TagByHand, TypeOK
<1>3. CASE \E ref \in Refs, c \in Commits : StartTests(ref, c)
  BY <1>3 DEF StartTests, TypeOK
<1>4. CASE \E r \in Runs, input \in Inputs : Dispatch(r, input)
  BY <1>4, ControlType
<1>5. CASE \E r \in Runs : Fail(r) \/ Rerun(r)
  BY <1>5, ControlType
<1>6. CASE \E r \in Runs : Work(r)
  BY <1>6, BuildType, PublishType DEF Work
<1>7. CASE UNCHANGED vars
  BY <1>7 DEF vars, TypeOK
<1>8. QED
  BY <1>1, <1>2, <1>3, <1>4, <1>5, <1>6, <1>7 DEF Next

-----------------------------------------------------------------------------
(* What a step leaves as it was.                                           *)

TestsKept == \A c \in Commits : tests[c] = "success" => tests'[c] = "success"
TagsKept == \A v \in Versions : tags[v] # NoCommit => tags'[v] = tags[v]
OthersKept(r) == \A q \in Runs \ {r} : run'[q] = run[q]

\* A run that a step leaves alone has passed what it had.
LEMMA PassedFrame ==
  ASSUME TypeOK, TestsKept, TagsKept, NEW q \in Runs, Passed(q), run'[q] = run[q],
         run[q].phase = "edit" => release'[VersionOf(q)].files = release[VersionOf(q)].files
  PROVE  Passed(q)'
<1>1. run[q] \in RunRecords
  BY DEF TypeOK
<1>2. run[q].phase # "idle" => run[q].sha \in Commits /\ VersionOf(q) \in Versions
  BY VersionParts DEF Passed, VersionOf
<1>3. run[q].phase \in Tested => tests'[run[q].sha] = "success"
  BY <1>2 DEF Passed, TestsKept, Tested, Publishing
<1>4. run[q].phase \in Tagged => tags'[VersionOf(q)] = run[q].sha
  BY <1>2, NamesAssumption DEF Passed, TagsKept, Tagged
<1>5. run[q].phase = "edit" => SameFiles(q)'
  BY DEF Passed, SameFiles, VersionOf
<1>6. QED
  BY <1>3, <1>4, <1>5 DEF Passed, ApprovalHolds, VersionOf

\* What a published release was made of stays.
LEMMA WholeFrame ==
  ASSUME TypeOK, TagsKept, NEW v \in Versions, NEW q \in Runs, Passed(q), Whole(v, q),
         run'[q] = run[q], release'[v] = release[v]
  PROVE  Whole(v, q)'
<1>1. tags[v] \in Commits
  BY DEF Whole, Passed
<1>2. tags'[v] = tags[v]
  BY <1>1, NamesAssumption DEF TagsKept
<1>3. QED
  BY <1>2 DEF Whole, VersionOf

\* A step of the repository or of the tests.
Outside ==
  \/ \E c \in Commits : MoveBranch(c) \/ EndTests(c)
  \/ \E v \in Versions, c \in Commits : TagByHand(v, c)
  \/ \E ref \in Refs, c \in Commits : StartTests(ref, c)

LEMMA OutsideFrame ==
  ASSUME TypeOK, Outside
  PROVE  TestsKept /\ TagsKept /\ run' = run /\ release' = release
<1>1. ASSUME NEW c \in Commits, MoveBranch(c) \/ EndTests(c)
      PROVE  TestsKept /\ TagsKept /\ run' = run /\ release' = release
  BY <1>1 DEF MoveBranch, EndTests, TestsKept, TagsKept, TypeOK
<1>2. ASSUME NEW v \in Versions, NEW c \in Commits, TagByHand(v, c)
      PROVE  TestsKept /\ TagsKept /\ run' = run /\ release' = release
  BY <1>2 DEF TagByHand, TestsKept, TagsKept, TypeOK
<1>3. ASSUME NEW ref \in Refs, NEW c \in Commits, StartTests(ref, c)
      PROVE  TestsKept /\ TagsKept /\ run' = run /\ release' = release
  BY <1>3 DEF StartTests, TestsKept, TagsKept, TypeOK
<1>4. QED
  BY <1>1, <1>2, <1>3 DEF Outside

\* The runs have what they had after such a step.
LEMMA OutsideInv == ASSUME Inv, Outside PROVE Inv'
<1>1. TypeOK /\ TestsKept /\ TagsKept /\ run' = run /\ release' = release
  BY OutsideFrame DEF Inv
<1>2. TypeOK'
  BY NextType DEF Inv, Outside, Next
<1>3. \A r \in Runs : Passed(r)'
  BY <1>1, PassedFrame DEF Inv
<1>4. OneOfACommit'
  BY <1>1 DEF Inv, OneOfACommit, InProgress
<1>5. PublishedIsWhole'
  <2>1. ASSUME NEW v \in Versions, release[v].state = "published"
        PROVE  /\ \E r \in Runs : Whole(v, r)'
               /\ \A q \in Runs : run'[q].phase \in {"upload", "edit"} => VersionOf(q)' # v
    <3>1. PICK r \in Runs : Whole(v, r)
      BY <2>1 DEF Inv, PublishedIsWhole
    <3>2. Whole(v, r)'
      BY <1>1, <3>1, WholeFrame DEF Inv
    <3>3. QED
      BY <1>1, <2>1, <3>2 DEF Inv, PublishedIsWhole, VersionOf
  <2>2. QED
    BY <1>1, <2>1 DEF PublishedIsWhole
<1>6. QED
  BY <1>2, <1>3, <1>4, <1>5 DEF Inv

-----------------------------------------------------------------------------
(* A step of a run.                                                        *)

\* The record of one run is replaced.
LEMMA RunBecomes ==
  ASSUME TypeOK, NEW r \in Runs, NEW record, run' = [run EXCEPT ![r] = record]
  PROVE  run'[r] = record /\ OthersKept(r)
BY DEF TypeOK, OthersKept

\* The jobs of a run: the record afterwards, and what they leave alone.
LEMMA BuildStep ==
  ASSUME TypeOK, NEW r \in Runs,
         \/ Plan(r) \/ AwaitTests(r) \/ Approve(r) \/ Assemble(r)
         \/ \E platform \in Platforms : Build(r, platform)
  PROVE  /\ OthersKept(r) /\ Unchanged /\ InProgress(r) /\ run[r].phase \in {"plan", "awaitTests", "build"}
         /\ run'[r].sha = run[r].sha /\ ~run'[r].failed
         /\ run[r].approved => run'[r].approved
         /\ \/ /\ Plan(r) /\ run'[r].phase = "awaitTests" /\ run'[r].signed = Signed(run[r].sha)
               /\ run'[r].built = run[r].built /\ run'[r].approved = run[r].approved
            \/ /\ AwaitTests(r) /\ run'[r].phase = "build" /\ run'[r].signed = run[r].signed
               /\ run'[r].built = run[r].built /\ run'[r].approved = run[r].approved
            \/ /\ run'[r].phase = "build" /\ run[r].phase = "build" /\ run'[r].signed = run[r].signed
               /\ "windows" \in run'[r].built \ run[r].built => ApprovalHolds(r)
               /\ (Approve(r) /\ run'[r].approved) \/ run'[r].approved = run[r].approved
            \/ /\ Assemble(r) /\ run'[r].phase = "ensureTag" /\ run'[r].signed = run[r].signed
               /\ run'[r].built = run[r].built /\ run'[r].approved = run[r].approved
<1>1. run[r] \in RunRecords
  BY DEF TypeOK
<1>2. CASE Plan(r)
  <2> DEFINE record == [run[r] EXCEPT !.phase = "awaitTests", !.signed = Signed(run[r].sha)]
  <2>1. run' = [run EXCEPT ![r] = record]
    BY <1>2 DEF Plan
  <2>2. run'[r] = record /\ OthersKept(r)
    BY <2>1, RunBecomes
  <2>3. At(r, "plan") /\ Unchanged
    BY <1>2 DEF Plan
  <2>4. QED
    BY <1>1, <1>2, <2>2, <2>3 DEF At, InProgress, RunRecords
<1>3. CASE AwaitTests(r)
  <2>1. run' = [run EXCEPT ![r] = [run[r] EXCEPT !.phase = "build"]]
    BY <1>3 DEF AwaitTests, To
  <2>2. run'[r] = [run[r] EXCEPT !.phase = "build"] /\ OthersKept(r)
    BY <2>1, RunBecomes
  <2>3. QED
    BY <1>1, <1>3, <2>2 DEF AwaitTests, At, InProgress, RunRecords
<1>4. CASE Assemble(r)
  <2>1. run' = [run EXCEPT ![r] = [run[r] EXCEPT !.phase = "ensureTag"]]
    BY <1>4 DEF Assemble, To
  <2>2. run'[r] = [run[r] EXCEPT !.phase = "ensureTag"] /\ OthersKept(r)
    BY <2>1, RunBecomes
  <2>3. QED
    BY <1>1, <1>4, <2>2 DEF Assemble, At, InProgress, RunRecords
<1>5. CASE Approve(r)
  <2>1. run' = [run EXCEPT ![r] = [run[r] EXCEPT !.approved = TRUE]]
    BY <1>5 DEF Approve
  <2>2. run'[r] = [run[r] EXCEPT !.approved = TRUE] /\ OthersKept(r)
    BY <2>1, RunBecomes
  <2>3. At(r, "build") /\ Unchanged
    BY <1>5 DEF Approve
  <2>4. /\ run'[r].phase = run[r].phase /\ run'[r].sha = run[r].sha /\ run'[r].approved
        /\ run'[r].failed = run[r].failed /\ run'[r].signed = run[r].signed /\ run'[r].built = run[r].built
    BY <1>1, <2>2 DEF RunRecords
  <2>5. QED
    BY <1>5, <2>2, <2>3, <2>4 DEF At, InProgress
<1>6. ASSUME NEW platform \in Platforms, Build(r, platform)
      PROVE  /\ OthersKept(r) /\ Unchanged /\ InProgress(r) /\ run[r].phase = "build"
             /\ run'[r] = [run[r] EXCEPT !.built = run[r].built \cup {platform}]
             /\ platform = "windows" => ApprovalHolds(r)
  <2>1. run' = [run EXCEPT ![r] = [run[r] EXCEPT !.built = run[r].built \cup {platform}]]
    BY <1>6 DEF Build
  <2>2. run'[r] = [run[r] EXCEPT !.built = run[r].built \cup {platform}] /\ OthersKept(r)
    BY <2>1, RunBecomes
  <2>3. QED
    BY <1>6, <2>2 DEF Build, At, InProgress
<1>7. CASE \E platform \in Platforms : Build(r, platform)
  <2>1. PICK platform \in Platforms : Build(r, platform)
    BY <1>7
  <2>2. /\ OthersKept(r) /\ Unchanged /\ InProgress(r) /\ run[r].phase = "build"
        /\ run'[r] = [run[r] EXCEPT !.built = run[r].built \cup {platform}]
        /\ platform = "windows" => ApprovalHolds(r)
    BY <1>6, <2>1
  <2>3. "windows" \in run'[r].built \ run[r].built => ApprovalHolds(r)
    BY <1>1, <2>2 DEF RunRecords
  <2>4. QED
    BY <1>1, <2>2, <2>3 DEF RunRecords, InProgress
<1>8. QED
  BY <1>2, <1>3, <1>4, <1>5, <1>7

\* The publish job: the record afterwards, and what it leaves alone.
LEMMA PublishStep ==
  ASSUME TypeOK, NEW r \in Runs,
         \/ EnsureTag(r) \/ PushTag(r) \/ View(r) \/ Create(r) \/ Verify(r) \/ Publish(r)
         \/ \E file \in Files : Upload(r, file)
  PROVE  /\ OthersKept(r) /\ tests' = tests /\ InProgress(r) /\ run[r].phase \in Publishing
         /\ run'[r].phase \in Publishing \cup {"done"}
         /\ run'[r].sha = run[r].sha /\ ~run'[r].failed /\ run'[r].built = run[r].built
         /\ run'[r].signed = run[r].signed /\ run'[r].approved = run[r].approved
         /\ \/ EnsureTag(r) /\ run'[r].phase = "view" /\ tags[VersionOf(r)] = run[r].sha
            \/ EnsureTag(r) /\ run'[r].phase = "pushTag"
            \/ PushTag(r) /\ run'[r].phase = "view"
            \/ View(r) /\ release[VersionOf(r)].state = "published" /\ run'[r].phase = "done"
            \/ View(r) /\ release[VersionOf(r)].state # "published" /\ run'[r].phase \in {"upload", "create"}
            \/ Create(r) /\ run'[r].phase = "upload"
            \/ (\E file \in Files : Upload(r, file)) /\ run'[r].phase = "upload"
            \/ Verify(r) /\ run'[r].phase = "edit"
            \/ Publish(r) /\ run'[r].phase = "done"
<1>1. run[r] \in RunRecords
  BY DEF TypeOK
<1>a. ASSUME NEW phase \in Phases, To(r, phase)
      PROVE  run'[r] = [run[r] EXCEPT !.phase = phase] /\ OthersKept(r)
  <2>1. run' = [run EXCEPT ![r] = [run[r] EXCEPT !.phase = phase]]
    BY <1>a DEF To
  <2>2. QED
    BY <2>1, RunBecomes
<1>2. CASE EnsureTag(r)
  <2>1. CASE tags[VersionOf(r)] = NoCommit
    <3>1. run'[r] = [run[r] EXCEPT !.phase = "pushTag"] /\ OthersKept(r)
      BY <1>2, <1>a, <2>1 DEF EnsureTag, Phases, Publishing
    <3>2. QED
      BY <1>1, <1>2, <3>1 DEF EnsureTag, Unchanged, At, InProgress, RunRecords, Publishing
  <2>2. CASE tags[VersionOf(r)] # NoCommit
    <3>1. run'[r] = [run[r] EXCEPT !.phase = "view"] /\ OthersKept(r)
      BY <1>2, <1>a, <2>2 DEF EnsureTag, Phases, Publishing
    <3>2. QED
      BY <1>1, <1>2, <2>2, <3>1 DEF EnsureTag, Unchanged, At, InProgress, RunRecords, Publishing
  <2>3. QED
    BY <2>1, <2>2
<1>3. CASE PushTag(r)
  <2>1. run'[r] = [run[r] EXCEPT !.phase = "view"] /\ OthersKept(r)
    BY <1>3, <1>a DEF PushTag, Phases, Publishing
  <2>2. QED
    BY <1>1, <1>3, <2>1 DEF PushTag, At, InProgress, RunRecords, Publishing
<1>4. CASE View(r)
  <2>1. PICK phase \in {"done", "upload", "create"}, left \in {Files, {}} :
          /\ run' = [run EXCEPT ![r].phase = phase, ![r].left = left]
          /\ phase = "done" <=> release[VersionOf(r)].state = "published"
    BY <1>4 DEF View
  <2> DEFINE record == [run[r] EXCEPT !.phase = phase, !.left = left]
  <2>2. run' = [run EXCEPT ![r] = record]
    BY <2>1
  <2>3. run'[r] = record /\ OthersKept(r)
    BY <2>2, RunBecomes
  <2>4. QED
    BY <1>1, <1>4, <2>1, <2>3 DEF View, Unchanged, At, InProgress, RunRecords, Publishing
<1>5. CASE Create(r)
  <2> DEFINE record == [run[r] EXCEPT !.phase = "upload", !.left = Files]
  <2>1. run' = [run EXCEPT ![r] = record]
    BY <1>5 DEF Create
  <2>2. run'[r] = record /\ OthersKept(r)
    BY <2>1, RunBecomes
  <2>3. At(r, "create") /\ tests' = tests
    BY <1>5 DEF Create
  <2>4. QED
    BY <1>1, <1>5, <2>2, <2>3 DEF At, InProgress, RunRecords, Publishing
<1>6. CASE \E file \in Files : Upload(r, file)
  <2>1. PICK file \in Files : Upload(r, file)
    BY <1>6
  <2>2. run' = [run EXCEPT ![r] = [run[r] EXCEPT !.left = @ \ {file}]]
    BY <2>1 DEF Upload
  <2>3. run'[r] = [run[r] EXCEPT !.left = @ \ {file}] /\ OthersKept(r)
    BY <2>2, RunBecomes
  <2>4. At(r, "upload") /\ tests' = tests
    BY <2>1 DEF Upload
  <2>5. QED
    BY <1>1, <1>6, <2>3, <2>4 DEF At, InProgress, RunRecords, Publishing
<1>7. CASE Verify(r)
  <2>1. run'[r] = [run[r] EXCEPT !.phase = "edit"] /\ OthersKept(r)
    BY <1>7, <1>a DEF Verify, Phases, Publishing
  <2>2. QED
    BY <1>1, <1>7, <2>1 DEF Verify, Unchanged, At, InProgress, RunRecords, Publishing
<1>8. CASE Publish(r)
  <2>1. run'[r] = [run[r] EXCEPT !.phase = "done"] /\ OthersKept(r)
    BY <1>8, <1>a DEF Publish, Phases
  <2>2. QED
    BY <1>1, <1>8, <2>1 DEF Publish, At, InProgress, RunRecords, Publishing
<1>9. QED
  BY <1>2, <1>3, <1>4, <1>5, <1>6, <1>7, <1>8

\* Two runs that have the same version's tag in hand are the same run.
LEMMA OneHasTheTag ==
  ASSUME Inv, NEW r \in Runs, NEW q \in Runs, run[r].phase \in Tagged, run[q].phase \in Tagged,
         VersionOf(r) = VersionOf(q)
  PROVE  r = q
<1>1. run[r].sha = run[q].sha
  BY DEF Inv, Passed
<1>2. InProgress(r) /\ InProgress(q)
  <2>1. ASSUME NEW p \in Runs, run[p].phase \in Tagged PROVE InProgress(p)
    BY <2>1 DEF Inv, Passed, InProgress, Tagged
  <2>2. QED
    BY <2>1
<1>3. QED
  BY <1>1, <1>2 DEF Inv, OneOfACommit

\* What a step of one run has to show for the invariant.
LEMMA RunStepInv ==
  ASSUME Inv, TypeOK', NEW r \in Runs, OthersKept(r), TestsKept, TagsKept, Passed(r)', PublishedIsWhole',
         InProgress(r)' => \/ InProgress(r) /\ run'[r].sha = run[r].sha
                           \/ GroupIsFree(r, run'[r].sha),
         \A q \in Runs \ {r} : run[q].phase = "edit" =>
           release'[VersionOf(q)].files = release[VersionOf(q)].files
  PROVE  Inv'
<1>1. ASSUME NEW q \in Runs PROVE Passed(q)'
  <2>1. CASE q # r
    <3>1. run'[q] = run[q]
      BY <2>1 DEF OthersKept
    <3>2. QED
      BY <2>1, <3>1, PassedFrame DEF Inv
  <2>2. QED
    BY <2>1
<1>2. OneOfACommit'
  <2>1. ASSUME NEW q \in Runs \ {r}, InProgress(r)', InProgress(q)', run'[r].sha = run'[q].sha
        PROVE  FALSE
    <3>1. run'[q] = run[q] /\ InProgress(q)
      BY <2>1 DEF OthersKept, InProgress
    <3>2. QED
      BY <2>1, <3>1 DEF Inv, OneOfACommit, GroupIsFree
  <2>2. ASSUME NEW p \in Runs \ {r}, NEW q \in Runs \ {r}, InProgress(p)', InProgress(q)',
               run'[p].sha = run'[q].sha
        PROVE  p = q
    <3>1. run'[p] = run[p] /\ run'[q] = run[q] /\ InProgress(p) /\ InProgress(q)
      BY <2>2 DEF OthersKept, InProgress
    <3>2. QED
      BY <2>2, <3>1 DEF Inv, OneOfACommit
  <2>3. QED
    BY <2>1, <2>2 DEF OneOfACommit
<1>3. QED
  BY <1>1, <1>2 DEF Inv

\* A step of a run that publishes nothing leaves what is published whole.
LEMMA StillWhole ==
  ASSUME Inv, NEW r \in Runs, OthersKept(r), TagsKept, run[r].phase # "done",
         \A v \in Versions : release'[v].state = "published" => release'[v] = release[v],
         run'[r].phase \in {"upload", "edit"} => (release[VersionOf(r)].state # "published")'
  PROVE  PublishedIsWhole'
<1> SUFFICES ASSUME NEW v \in Versions, release'[v].state = "published"
             PROVE  /\ \E p \in Runs : Whole(v, p)'
                    /\ \A q \in Runs : run'[q].phase \in {"upload", "edit"} => VersionOf(q)' # v
  BY DEF PublishedIsWhole
<1>1. release'[v] = release[v] /\ release[v].state = "published"
  OBVIOUS
<1>2. PICK p \in Runs : Whole(v, p)
  BY <1>1 DEF Inv, PublishedIsWhole
<1>3. p # r /\ run'[p] = run[p]
  BY <1>2 DEF Whole, OthersKept
<1>4. Whole(v, p)'
  BY <1>1, <1>2, <1>3, WholeFrame DEF Inv
<1>5. ASSUME NEW q \in Runs, run'[q].phase \in {"upload", "edit"} PROVE VersionOf(q)' # v
  <2>1. CASE q = r
    BY <1>5, <2>1
  <2>2. CASE q # r
    BY <1>1, <1>5, <2>2 DEF Inv, PublishedIsWhole, OthersKept, VersionOf
  <2>3. QED
    BY <2>1, <2>2
<1>6. QED
  BY <1>4, <1>5

\* A run starts, fails or is started again: what it has then.
LEMMA ControlStep ==
  ASSUME Inv, NEW r \in Runs, Fail(r) \/ Rerun(r) \/ \E input \in Inputs : Dispatch(r, input)
  PROVE  /\ OthersKept(r) /\ Unchanged /\ Passed(r)' /\ run[r].phase # "done"
         /\ run'[r].phase \notin {"upload", "edit"} /\ run'[r].approved = run[r].approved
         /\ InProgress(r)' => GroupIsFree(r, run'[r].sha)
<1>1. TypeOK /\ TypeOK' /\ run[r] \in RunRecords /\ Passed(r)
  BY ControlType DEF Inv, TypeOK
<1>2. Unchanged /\ TestsKept /\ TagsKept
  BY DEF Fail, Rerun, Dispatch, Unchanged, TestsKept, TagsKept
<1>3. ASSUME NEW input \in Inputs, Dispatch(r, input)
      PROVE  /\ OthersKept(r) /\ Passed(r)' /\ run[r].phase # "done"
             /\ run'[r].approved = run[r].approved /\ run'[r].phase = "plan"
             /\ GroupIsFree(r, run'[r].sha)
  <2> DEFINE record == [NotStarted EXCEPT !.phase = "plan", !.ref = input.ref,
                                          !.sha = input.sha, !.tests = input.tests]
  <2>1. run' = [run EXCEPT ![r] = record]
    BY <1>3 DEF Dispatch
  <2>2. run'[r] = record /\ OthersKept(r)
    BY <1>1, <2>1, RunBecomes
  <2>3. /\ run'[r].phase = "plan" /\ run'[r].sha = input.sha /\ ~run'[r].failed
        /\ run'[r].built = {}
    BY <2>2 DEF NotStarted
  <2>4. run[r].phase = "idle" /\ GroupIsFree(r, input.sha)
    BY <1>3 DEF Dispatch
  <2>5. ~run[r].approved /\ ~run'[r].approved
    BY <1>1, <2>2, <2>4 DEF NotStarted, Passed
  <2>6. run'[r].approved = run[r].approved
    BY <1>1, <2>2, <2>5 DEF NotStarted, RunRecords
  <2>7. QED
    BY <2>2, <2>3, <2>4, <2>6, InputParts DEF Passed, Tested, Tagged, Publishing
<1>4. ASSUME Fail(r)
      PROVE  /\ OthersKept(r) /\ Passed(r)' /\ run[r].phase # "done"
             /\ run'[r].approved = run[r].approved /\ ~InProgress(r)'
             /\ run'[r].phase \notin {"upload", "edit"}
  <2> DEFINE record == [run[r] EXCEPT !.failed = TRUE, !.phase = JobOf(@), !.left = {}]
  <2>1. run' = [run EXCEPT ![r] = record]
    BY <1>4 DEF Fail
  <2>2. run'[r] = record /\ OthersKept(r)
    BY <1>1, <2>1, RunBecomes
  <2>3. /\ run'[r].phase = JobOf(run[r].phase) /\ run'[r].sha = run[r].sha /\ run'[r].failed
        /\ run'[r].built = run[r].built /\ run'[r].signed = run[r].signed
        /\ run'[r].approved = run[r].approved
    BY <1>1, <2>2 DEF RunRecords
  <2>4. InProgress(r) /\ run[r].phase \in Phases
    BY <1>1, <1>4 DEF Fail, RunRecords
  <2>5. run[r].phase # "idle" /\ run[r].phase # "done" /\ run[r].sha \in Commits
    BY <1>1, <2>4 DEF InProgress, Passed
  <2>6. \/ run[r].phase \in {"plan", "awaitTests"} /\ run'[r].phase = "plan"
        \/ run[r].phase = "build" /\ run'[r].phase = "build"
        \/ run[r].phase \in Publishing /\ run'[r].phase = "ensureTag"
    BY <2>3, <2>4, <2>5 DEF JobOf, Phases, Publishing
  <2>7. Passed(r)'
    BY <1>1, <1>2, <2>3, <2>5, <2>6 DEF Passed, Tested, Tagged, Publishing, ApprovalHolds, Unchanged
  <2>8. QED
    BY <2>2, <2>3, <2>5, <2>6, <2>7 DEF InProgress
<1>5. ASSUME Rerun(r)
      PROVE  /\ OthersKept(r) /\ Passed(r)' /\ run[r].phase # "done"
             /\ run'[r].approved = run[r].approved
             /\ run'[r].phase \notin {"upload", "edit"} /\ GroupIsFree(r, run'[r].sha)
  <2>1. run' = [run EXCEPT ![r] = [run[r] EXCEPT !.failed = FALSE]]
    BY <1>5 DEF Rerun
  <2>2. run'[r] = [run[r] EXCEPT !.failed = FALSE] /\ OthersKept(r)
    BY <1>1, <2>1, RunBecomes
  <2>3. /\ run'[r].phase = run[r].phase /\ run'[r].sha = run[r].sha /\ ~run'[r].failed
        /\ run'[r].built = run[r].built /\ run'[r].signed = run[r].signed
        /\ run'[r].approved = run[r].approved
    BY <1>1, <2>2 DEF RunRecords
  <2>4. run[r].phase \in {"plan", "build", "ensureTag"} /\ GroupIsFree(r, run[r].sha)
    BY <1>1, <1>5 DEF Rerun, Passed
  <2>5. Passed(r)'
    BY <1>1, <1>2, <2>3, <2>4 DEF Passed, Tested, Tagged, Publishing, ApprovalHolds, Unchanged
  <2>6. QED
    BY <2>2, <2>3, <2>4, <2>5
<1>6. QED
  BY <1>2, <1>3, <1>4, <1>5

LEMMA ControlInv ==
  ASSUME Inv, NEW r \in Runs, Fail(r) \/ Rerun(r) \/ \E input \in Inputs : Dispatch(r, input)
  PROVE  Inv'
<1>1. TypeOK' /\ TestsKept /\ TagsKept
  BY ControlType, ControlStep DEF Inv, Unchanged, TestsKept, TagsKept
<1>2. PublishedIsWhole'
  BY <1>1, ControlStep, StillWhole DEF Unchanged
<1>3. QED
  BY <1>1, <1>2, ControlStep, RunStepInv DEF Unchanged

\* A run plans, waits, and builds.
LEMMA BuildInv ==
  ASSUME Inv, NEW r \in Runs,
         \/ Plan(r) \/ AwaitTests(r) \/ Approve(r) \/ Assemble(r)
         \/ \E platform \in Platforms : Build(r, platform)
  PROVE  Inv'
<1>1. TypeOK /\ TypeOK' /\ run[r] \in RunRecords /\ Passed(r)
  BY BuildType DEF Inv, TypeOK
<1>2. /\ OthersKept(r) /\ Unchanged /\ InProgress(r)
      /\ run[r].phase \in {"plan", "awaitTests", "build"}
      /\ run'[r].sha = run[r].sha /\ ~run'[r].failed
      /\ run[r].approved => run'[r].approved
      /\ run'[r].phase \in {"awaitTests", "build", "ensureTag"}
  BY <1>1, BuildStep
<1>3. TestsKept /\ TagsKept
  BY <1>2 DEF Unchanged, TestsKept, TagsKept
<1>4. run[r].sha \in Commits
  BY <1>1, <1>2 DEF Passed
<1>5. Passed(r)'
  <2>1. run'[r].phase \in Tested => tests'[run[r].sha] = "success"
    <3>1. AwaitTests(r) => tests[run[r].sha] = "success"
      BY DEF AwaitTests, TestsPassed
    <3>2. run[r].phase = "build" => tests[run[r].sha] = "success"
      BY <1>1 DEF Passed, Tested
    <3>3. \/ AwaitTests(r) \/ run[r].phase = "build" \/ run'[r].phase = "awaitTests"
      BY <1>1, BuildStep DEF Assemble, At
    <3>4. QED
      BY <1>2, <3>1, <3>2, <3>3 DEF Unchanged, Tested, Publishing
  <2>2. run'[r].signed = Signed(run[r].sha)
    BY <1>1, <1>2, BuildStep DEF Passed, Tested, Assemble, AwaitTests, At
  <2>3. "windows" \in run'[r].built => ApprovalHolds(r)'
    <3>1. ApprovalHolds(r) => ApprovalHolds(r)'
      BY <1>2 DEF ApprovalHolds
    <3>2. "windows" \in run'[r].built => "windows" \in run[r].built \/ ApprovalHolds(r)
      BY <1>1, BuildStep
    <3>3. QED
      BY <1>1, <3>1, <3>2 DEF Passed
  <2>4. run'[r].phase = "ensureTag" => run'[r].built = Platforms
    BY <1>1, BuildStep DEF Assemble, Complete
  <2>5. QED
    BY <1>2, <1>4, <2>1, <2>2, <2>3, <2>4 DEF Passed, Tagged, Publishing
<1>6. PublishedIsWhole'
  BY <1>2, <1>3, StillWhole DEF Unchanged
<1>7. QED
  BY <1>1, <1>2, <1>3, <1>5, <1>6, RunStepInv DEF Unchanged

\* The publish job: what it has at each of its phases.
LEMMA PublishPassed ==
  ASSUME Inv, NEW r \in Runs,
         \/ EnsureTag(r) \/ PushTag(r) \/ View(r) \/ Create(r) \/ Verify(r) \/ Publish(r)
         \/ \E file \in Files : Upload(r, file)
  PROVE  Passed(r)' /\ TagsKept
<1>1. TypeOK /\ run[r] \in RunRecords /\ Passed(r)
  BY DEF Inv, TypeOK
<1>2. /\ tests' = tests /\ run[r].phase \in Publishing /\ run'[r].phase \in Publishing \cup {"done"}
      /\ run'[r].sha = run[r].sha /\ ~run'[r].failed /\ run'[r].built = run[r].built
      /\ run'[r].signed = run[r].signed /\ run'[r].approved = run[r].approved
  BY <1>1, PublishStep
<1>3. run[r].sha \in Commits /\ VersionOf(r) \in Versions
  BY <1>1, <1>2, VersionParts DEF Passed, Publishing, VersionOf
<1>4. PushTag(r) => tags[VersionOf(r)] = NoCommit /\ tags' = [tags EXCEPT ![VersionOf(r)] = run[r].sha]
  BY DEF PushTag
<1>5. PushTag(r) \/ tags' = tags
  BY DEF EnsureTag, View, Create, Verify, Publish, Upload, Unchanged
<1>6. TagsKept
  BY <1>1, <1>4, <1>5 DEF TagsKept, TypeOK
<1>7. run'[r].phase \in Tagged => tags'[VersionOf(r)] = run[r].sha
  <2>1. PushTag(r) => tags'[VersionOf(r)] = run[r].sha
    BY <1>1, <1>3, <1>4 DEF TypeOK
  <2>2. run'[r].phase \in Tagged =>
          PushTag(r) \/ tags[VersionOf(r)] = run[r].sha
    BY <1>1, PublishStep DEF Passed, Tagged, View, Create, Upload, Verify, At
  <2>3. QED
    BY <1>5, <2>1, <2>2
<1>8. run'[r].phase = "edit" => SameFiles(r)'
  <2>1. run'[r].phase = "edit" => Verify(r)
    BY <1>1, PublishStep
  <2>2. Verify(r) => SameFiles(r) /\ release' = release
    BY DEF Verify, Unchanged
  <2>3. QED
    BY <1>2, <2>1, <2>2 DEF SameFiles, VersionOf
<1>9. QED
  BY <1>1, <1>2, <1>3, <1>6, <1>7, <1>8
  DEF Passed, Tested, Publishing, ApprovalHolds, VersionOf

\* The publish job: what it does to the releases.
LEMMA ReleaseStep ==
  ASSUME Inv, NEW r \in Runs,
         \/ EnsureTag(r) \/ PushTag(r) \/ View(r) \/ Create(r) \/ Verify(r) \/ Publish(r)
         \/ \E file \in Files : Upload(r, file)
  PROVE  /\ VersionOf(r) \in Versions /\ VersionOf(r)' = VersionOf(r)
         /\ \A w \in Versions \ {VersionOf(r)} : release'[w] = release[w]
         /\ \/ \E file \in Files : Upload(r, file)
            \/ release'[VersionOf(r)].files = release[VersionOf(r)].files
         /\ Publish(r) => release'[VersionOf(r)].state = "published"
         /\ ~Publish(r) => \A w \in Versions :
              release[w].state = "published" \/ release'[w].state = "published" => release'[w] = release[w]
<1>1. TypeOK /\ run[r] \in RunRecords /\ Passed(r)
  BY DEF Inv, TypeOK
<1>2. run[r].phase \in Publishing /\ run'[r].sha = run[r].sha
  BY <1>1, PublishStep
<1>3. VersionOf(r) \in Versions /\ VersionOf(r)' = VersionOf(r)
  BY <1>1, <1>2, VersionParts DEF Passed, Publishing, VersionOf
<1>4. CASE \E file \in Files : Upload(r, file)
  <2>1. PICK file \in Files, content \in {r, Damaged} :
          release' = [release EXCEPT ![VersionOf(r)].files[file] = content]
    BY <1>4 DEF Upload
  <2>2. release[VersionOf(r)].state # "published"
    BY <1>3, <1>4 DEF Upload, At, Inv, PublishedIsWhole
  <2>3. release'[VersionOf(r)].state # "published"
    BY <1>1, <1>3, <2>1, <2>2 DEF TypeOK, ReleaseRecords
  <2>4. \A w \in Versions \ {VersionOf(r)} : release'[w] = release[w]
    BY <1>1, <2>1 DEF TypeOK
  <2>5. ~Publish(r)
    BY <1>4 DEF Publish, Upload, At
  <2>6. QED
    BY <1>3, <1>4, <2>2, <2>3, <2>4, <2>5
<1>5. CASE Create(r)
  <2>1. /\ \A w \in Versions \ {VersionOf(r)} : release'[w] = release[w]
        /\ release[VersionOf(r)].state = "none" /\ release'[VersionOf(r)].state = "draft"
        /\ release'[VersionOf(r)].files = release[VersionOf(r)].files
    BY <1>1, <1>3, <1>5 DEF Create, TypeOK, ReleaseRecords
  <2>2. ~Publish(r)
    BY <1>5 DEF Publish, Create, At
  <2>3. QED
    BY <1>3, <2>1, <2>2
<1>6. CASE Publish(r)
  BY <1>1, <1>3, <1>6 DEF Publish, TypeOK, ReleaseRecords
<1>7. CASE EnsureTag(r) \/ PushTag(r) \/ View(r) \/ Verify(r)
  <2>1. release' = release /\ ~Publish(r)
    BY <1>7 DEF EnsureTag, PushTag, View, Verify, Publish, Unchanged, At
  <2>2. QED
    BY <1>3, <2>1
<1>8. QED
  BY <1>4, <1>5, <1>6, <1>7

\* A run tags, uploads and publishes.
LEMMA PublishInv ==
  ASSUME Inv, NEW r \in Runs,
         \/ EnsureTag(r) \/ PushTag(r) \/ View(r) \/ Create(r) \/ Verify(r) \/ Publish(r)
         \/ \E file \in Files : Upload(r, file)
  PROVE  Inv'
<1>1. TypeOK /\ TypeOK' /\ run[r] \in RunRecords /\ Passed(r)
  BY PublishType DEF Inv, TypeOK
<1>2. /\ OthersKept(r) /\ tests' = tests /\ InProgress(r) /\ run[r].phase \in Publishing
      /\ run'[r].phase \in Publishing \cup {"done"} /\ run'[r].sha = run[r].sha
  BY <1>1, PublishStep
<1>3. Passed(r)' /\ TagsKept /\ TestsKept
  BY <1>2, PublishPassed DEF TestsKept
<1> DEFINE v == VersionOf(r)
<1>4. /\ v \in Versions /\ VersionOf(r)' = v
      /\ \A w \in Versions \ {v} : release'[w] = release[w]
      /\ (\E file \in Files : Upload(r, file)) \/ release'[v].files = release[v].files
      /\ Publish(r) => release'[v].state = "published"
      /\ ~Publish(r) => \A w \in Versions :
           release[w].state = "published" \/ release'[w].state = "published" => release'[w] = release[w]
  BY ReleaseStep
<1>5. ASSUME NEW q \in Runs \ {r}, run[q].phase = "edit"
      PROVE  release'[VersionOf(q)].files = release[VersionOf(q)].files
  <2>1. VersionOf(q) \in Versions
    BY <1>5, VersionParts DEF Inv, Passed, VersionOf
  <2>2. CASE \E file \in Files : Upload(r, file)
    <3>1. run[r].phase = "upload"
      BY <2>2 DEF Upload, At
    <3>2. VersionOf(q) # v
      BY <1>5, <3>1, OneHasTheTag DEF Tagged
    <3>3. QED
      BY <1>4, <2>1, <3>2
  <2>3. QED
    BY <1>4, <2>1, <2>2
<1>6. PublishedIsWhole'
  <2>1. CASE Publish(r)
    <3> run[r].phase = "edit"
      BY <2>1 DEF Publish, At
    <3>1. run'[r].phase = "done"
      BY <1>1, <2>1, PublishStep DEF Publish, EnsureTag, PushTag, View, Create, Verify, Upload, At
    <3>2. tags' = tags /\ tags[v] = run[r].sha /\ SameFiles(r)
      BY <1>1, <2>1 DEF Publish, Passed, Tagged
    <3>3. Whole(v, r)'
      BY <1>2, <1>4, <2>1, <3>1, <3>2 DEF Whole, SameFiles, Publish, Upload, At
    <3>4. ASSUME NEW q \in Runs, run'[q].phase \in {"upload", "edit"} PROVE VersionOf(q)' # v
      <4>1. q # r /\ run'[q] = run[q]
        BY <1>2, <3>1, <3>4 DEF OthersKept
      <4>2. VersionOf(q) # v
        BY <3>4, <4>1, OneHasTheTag DEF Tagged
      <4>3. QED
        BY <4>1, <4>2 DEF VersionOf
    <3>5. ASSUME NEW w \in Versions \ {v}, release[w].state = "published"
          PROVE  /\ \E p \in Runs : Whole(w, p)'
                 /\ \A q \in Runs : run'[q].phase \in {"upload", "edit"} => VersionOf(q)' # w
      <4>1. release'[w] = release[w]
        BY <1>4
      <4>2. PICK p \in Runs : Whole(w, p)
        BY <3>5 DEF Inv, PublishedIsWhole
      <4>3. p # r /\ run'[p] = run[p]
        BY <1>2, <4>2 DEF Whole, OthersKept
      <4>4. Whole(w, p)'
        BY <1>1, <1>3, <4>1, <4>2, <4>3, WholeFrame DEF Inv
      <4>5. ASSUME NEW q \in Runs, run'[q].phase \in {"upload", "edit"} PROVE VersionOf(q)' # w
        <5>1. run'[q] = run[q]
          BY <1>2, <3>1, <4>5 DEF OthersKept
        <5>2. QED
          BY <3>5, <4>5, <5>1 DEF Inv, PublishedIsWhole, VersionOf
      <4>6. QED
        BY <4>4, <4>5
    <3>6. ASSUME NEW w \in Versions, release'[w].state = "published"
          PROVE  /\ \E p \in Runs : Whole(w, p)'
                 /\ \A q \in Runs : run'[q].phase \in {"upload", "edit"} => VersionOf(q)' # w
      <4>1. CASE w = v
        BY <1>4, <3>3, <3>4, <4>1 DEF Whole
      <4>2. CASE w # v
        BY <1>4, <3>5, <3>6, <4>2
      <4>3. QED
        BY <4>1, <4>2
    <3>7. QED
      BY <3>6 DEF PublishedIsWhole
  <2>2. CASE ~Publish(r)
    <3>1. run[r].phase \in {"upload", "edit"} => release[v].state # "published"
      BY <1>4 DEF Inv, PublishedIsWhole
    <3>2. run'[r].phase \in {"upload", "edit"} => release[v].state # "published"
      <4>1. \/ \E file \in Files : Upload(r, file)
            \/ Create(r)
            \/ Verify(r)
            \/ View(r) /\ release[v].state # "published"
            \/ run'[r].phase \notin {"upload", "edit"}
        BY <1>1, <2>2, PublishStep
      <4>2. (\E file \in Files : Upload(r, file)) \/ Verify(r) => run[r].phase = "upload"
        BY DEF Upload, Verify, At
      <4>3. Create(r) => release[v].state # "published"
        BY DEF Create
      <4>4. QED
        BY <3>1, <4>1, <4>2, <4>3
    <3>3. (release[VersionOf(r)].state # "published")' <=> release'[v].state # "published"
      BY <1>4
    <3>4. run'[r].phase \in {"upload", "edit"} => (release[VersionOf(r)].state # "published")'
      BY <1>4, <2>2, <3>2, <3>3
    <3>5. \A w \in Versions : release'[w].state = "published" => release'[w] = release[w]
      BY <1>4, <2>2
    <3>6. QED
      BY <1>2, <1>3, <3>4, <3>5, StillWhole DEF InProgress
  <2>3. QED
    BY <2>1, <2>2
<1>7. QED
  BY <1>1, <1>2, <1>3, <1>5, <1>6, RunStepInv

-----------------------------------------------------------------------------
(* The promise.                                                            *)

\* What is offered of the versions that are published stays.
LEMMA PublishedKept ==
  ASSUME Inv, TagsKept, \A p \in Runs : run[p].phase = "done" => run'[p] = run[p],
         NEW v \in Versions,
         release[v].state = "published" \/ release'[v].state = "published" => release'[v] = release[v]
  PROVE  Offer(v)' = Offer(v)
<1>1. CASE release[v].state = "published"
  <2>1. PICK p \in Runs : Whole(v, p)
    BY <1>1 DEF Inv, PublishedIsWhole
  <2>2. run'[p] = run[p] /\ release'[v] = release[v] /\ \A f \in Files : release[v].files[f] = p
    BY <1>1, <2>1 DEF Whole
  <2>3. tags[v] \in Commits
    BY <2>1 DEF Whole, Inv, Passed
  <2>4. tags'[v] = tags[v]
    BY <2>3, NamesAssumption DEF TagsKept
  <2>5. \A f \in Files : Content(release[v].files[f])' = Content(release[v].files[f])
    BY <2>2 DEF Content
  <2>6. QED
    BY <1>1, <2>2, <2>4, <2>5 DEF Offer
<1>2. CASE release[v].state # "published"
  BY <1>2 DEF Offer
<1>3. QED
  BY <1>1, <1>2

\* A step that is none of the promise's changes nothing of what it speaks of.
LEMMA NothingPromised ==
  ASSUME Inv, TagsKept, tests' = tests, \A p \in Runs : run'[p].approved = run[p].approved,
         \A p \in Runs : run[p].phase = "done" => run'[p] = run[p],
         \A v \in Versions :
           release[v].state = "published" \/ release'[v].state = "published" => release'[v] = release[v]
  PROVE  UNCHANGED Promise!vars
<1>1. tested' = tested
  BY DEF tested
<1>2. approved' = approved
  BY DEF approved
<1>3. published' = published
  <2>1. \A v \in Versions : Offer(v)' = Offer(v)
    BY PublishedKept
  <2>2. QED
    BY <2>1 DEF published
<1>4. QED
  BY <1>1, <1>2, <1>3 DEF Promise!vars

\* The repository and the tests: a commit's tests pass, or nothing is promised.
LEMMA PromiseOutside == ASSUME Inv, Outside PROVE [Promise!Next]_Promise!vars
<1>1. TypeOK /\ TagsKept /\ run' = run /\ release' = release
  BY OutsideFrame DEF Inv
<1>2. published' = published /\ approved' = approved
  <2>1. \A v \in Versions : Offer(v)' = Offer(v)
    BY <1>1, PublishedKept
  <2>2. QED
    BY <1>1, <2>1 DEF published, approved
<1>3. ASSUME NEW c \in Commits, EndTests(c) PROVE tested' \in {tested, tested \cup {c}}
  <2>1. PICK conclusion \in {"success", "failure"} : tests' = [tests EXCEPT ![c] = conclusion]
    BY <1>3 DEF EndTests
  <2>2. tests[c] = "running"
    BY <1>3 DEF EndTests
  <2>3. CASE conclusion = "success"
    BY <1>1, <2>1, <2>2, <2>3 DEF tested, TypeOK
  <2>4. CASE conclusion = "failure"
    BY <1>1, <2>1, <2>2, <2>4 DEF tested, TypeOK
  <2>5. QED
    BY <2>3, <2>4
<1>4. ASSUME NEW ref \in Refs, NEW c \in Commits, StartTests(ref, c) PROVE tested' = tested
  BY <1>1, <1>4 DEF StartTests, tested, TypeOK
<1>5. ASSUME NEW v \in Versions, NEW c \in Commits, TagByHand(v, c) PROVE tested' = tested
  BY <1>5 DEF TagByHand, tested
<1>6. ASSUME NEW c \in Commits, MoveBranch(c) PROVE tested' = tested
  BY <1>6 DEF MoveBranch, tested
<1>7. tested' = tested \/ \E c \in Commits : tested' = tested \cup {c}
  BY <1>3, <1>4, <1>5, <1>6 DEF Outside
<1>8. QED
  BY <1>2, <1>7 DEF Promise!Next, Promise!Test, Promise!vars

\* A run that starts, fails or starts again, plans or builds: it is approved,
\* or nothing is promised.
LEMMA PromiseBuild ==
  ASSUME Inv, NEW r \in Runs,
         \/ Fail(r) \/ Rerun(r) \/ \E input \in Inputs : Dispatch(r, input)
         \/ Plan(r) \/ AwaitTests(r) \/ Approve(r) \/ Assemble(r)
         \/ \E platform \in Platforms : Build(r, platform)
  PROVE  [Promise!Next]_Promise!vars
<1>1. /\ TypeOK /\ OthersKept(r) /\ Unchanged /\ run[r].phase # "done"
      /\ (Approve(r) /\ run'[r].approved) \/ run'[r].approved = run[r].approved
  BY ControlStep, BuildStep DEF Inv
<1>2. TagsKept /\ \A p \in Runs : run[p].phase = "done" => run'[p] = run[p]
  BY <1>1 DEF TagsKept, Unchanged, OthersKept
<1>3. CASE Approve(r) /\ run'[r].approved
  <2>1. tested' = tested
    BY <1>1 DEF tested, Unchanged
  <2>2. published' = published
    <3>1. \A v \in Versions : Offer(v)' = Offer(v)
      BY <1>1, <1>2, PublishedKept DEF Unchanged
    <3>2. QED
      BY <3>1 DEF published
  <2>3. approved' = approved \cup {r}
    BY <1>1, <1>3 DEF approved, OthersKept
  <2>4. QED
    BY <2>1, <2>2, <2>3 DEF Promise!Next, Promise!Approve
<1>4. CASE run'[r].approved = run[r].approved
  <2>1. \A p \in Runs : run'[p].approved = run[p].approved
    BY <1>1, <1>4 DEF OthersKept
  <2>2. QED
    BY <1>1, <1>2, <2>1, NothingPromised DEF Unchanged
<1>5. QED
  BY <1>1, <1>3, <1>4

\* A run that publishes does what is promised of it; the rest of its job does
\* not touch what is published.
LEMMA PromisePublish ==
  ASSUME Inv, NEW r \in Runs,
         \/ EnsureTag(r) \/ PushTag(r) \/ View(r) \/ Create(r) \/ Verify(r) \/ Publish(r)
         \/ \E file \in Files : Upload(r, file)
  PROVE  [Promise!Next]_Promise!vars
<1>1. /\ TypeOK /\ run[r] \in RunRecords /\ Passed(r) /\ TagsKept
      /\ OthersKept(r) /\ tests' = tests /\ run[r].phase \in Publishing
      /\ run'[r].sha = run[r].sha /\ run'[r].signed = run[r].signed /\ run'[r].approved = run[r].approved
  BY PublishStep, PublishPassed DEF Inv, TypeOK
<1>2. /\ \A p \in Runs : run'[p].approved = run[p].approved
      /\ \A p \in Runs : run[p].phase = "done" => run'[p] = run[p]
  BY <1>1 DEF OthersKept, Publishing
<1>2a. PICK v \in Versions : v = VersionOf(r)
  BY ReleaseStep
<1> DEFINE c == run[r].sha
           signed == run[r].signed
<1>3. \A w \in Versions \ {v} : release'[w] = release[w]
  BY <1>2a, ReleaseStep
<1>4. CASE ~Publish(r)
  BY <1>1, <1>2, <1>4, ReleaseStep, NothingPromised
<1>5. CASE Publish(r)
  <2>1. run[r].phase = "edit" /\ tags' = tags /\ release[v].state # "published"
    BY <1>2a, <1>5 DEF Publish, At, Inv, PublishedIsWhole
  <2>2. release'[v].state = "published" /\ \A f \in Files : release'[v].files[f] = r
    <3>1. \A f \in Files : release[v].files[f] = r
      BY <1>1, <1>2a, <2>1 DEF Passed, SameFiles
    <3>2. ~\E file \in Files : Upload(r, file)
      BY <2>1 DEF Upload, At
    <3>3. QED
      BY <1>2a, <1>5, <3>1, <3>2, ReleaseStep
  <2>3. tags[v] = c /\ c \in Commits /\ c \in tested /\ signed \in BOOLEAN
    BY <1>1, <1>2a, <2>1 DEF Passed, Tagged, Tested, Publishing, tested, RunRecords
  <2>4. v \in Stable => r \in approved /\ signed
    <3>1. v \in Stable => Signed(c)
      BY <1>2a DEF Signed, IsStable, VersionOf
    <3>2. signed = Signed(c) /\ ApprovalHolds(r)
      BY <1>1, <2>1 DEF Passed, Tested, Publishing, Platforms
    <3>3. v \in Stable => run[r].approved
      BY <1>2a, <3>2 DEF ApprovalHolds, IsStable, VersionOf
    <3>4. QED
      BY <3>1, <3>2, <3>3 DEF approved
  <2>5. published[v] = NoRelease
    BY <1>3, <2>1 DEF published, Offer
  <2>6. \A w \in Versions \ {v} : Offer(w)' = Offer(w)
    BY <1>1, <1>2, <1>3, PublishedKept
  <2>7. Offer(v)' = [commit |-> c, files |-> [f \in Files |-> [build |-> r, commit |-> c, signed |-> signed]]]
    <3>1. \A f \in Files : Content(release[v].files[f])' = [build |-> r, commit |-> c, signed |-> signed]
      BY <1>1, <2>2 DEF Content
    <3>2. QED
      BY <2>1, <2>2, <2>3, <3>1 DEF Offer
  <2>8. published' = [published EXCEPT ![v] =
          [commit |-> c, files |-> [f \in Files |-> [build |-> r, commit |-> c, signed |-> signed]]]]
    BY <1>3, <2>6, <2>7 DEF published
  <2>9. tested' = tested /\ approved' = approved
    BY <1>1, <1>2 DEF tested, approved
  <2>10. Promise!Publish(c, r, signed)
    BY <1>2a, <2>3, <2>4, <2>5, <2>8, <2>9 DEF Promise!Publish, VersionOf
  <2>11. QED
    BY <2>3, <2>10 DEF Promise!Next
<1>6. QED
  BY <1>4, <1>5

-----------------------------------------------------------------------------
(* The results.                                                            *)

LEMMA InitInv == Init => Inv
<1> SUFFICES ASSUME Init PROVE Inv
  OBVIOUS
<1>1. TypeOK
  BY InitType
<1>2. \A r \in Runs : run[r] = NotStarted
  BY DEF Init
<1>3. \A v \in Versions : release[v].state = "none"
  BY DEF Init, NoRelease
<1>4. \A r \in Runs : Passed(r)
  BY <1>2 DEF Passed, NotStarted, Tested, Tagged, Publishing
<1>5. OneOfACommit
  BY <1>2 DEF OneOfACommit, InProgress, NotStarted
<1>6. PublishedIsWhole
  BY <1>3 DEF PublishedIsWhole
<1>7. QED
  BY <1>1, <1>4, <1>5, <1>6 DEF Inv

\* The steps of Next, by who takes them.
LEMMA Steps ==
  ASSUME [Next]_vars
  PROVE  \/ UNCHANGED vars
         \/ Outside
         \/ \E r \in Runs : Fail(r) \/ Rerun(r) \/ \E input \in Inputs : Dispatch(r, input)
         \/ \E r \in Runs : \/ Plan(r) \/ AwaitTests(r) \/ Approve(r) \/ Assemble(r)
                            \/ \E platform \in Platforms : Build(r, platform)
         \/ \E r \in Runs :
              \/ EnsureTag(r) \/ PushTag(r) \/ View(r) \/ Create(r) \/ Verify(r) \/ Publish(r)
              \/ \E file \in Files : Upload(r, file)
BY DEF Next, Work, Outside

LEMMA NextInv == Inv /\ [Next]_vars => Inv'
<1> SUFFICES ASSUME Inv, [Next]_vars PROVE Inv'
  OBVIOUS
<1>1. CASE UNCHANGED vars
  BY <1>1 DEF vars, Inv, TypeOK, Passed, OneOfACommit, PublishedIsWhole, Whole, InProgress, SameFiles,
              ApprovalHolds, VersionOf
<1>2. QED
  BY <1>1, Steps, OutsideInv, ControlInv, BuildInv, PublishInv

\* The runs and the remote have their types, whatever runs, people and failures do.
THEOREM TypeCorrect == Spec => []TypeOK
<1>1. Init => TypeOK
  BY InitType
<1>2. TypeOK /\ [Next]_vars => TypeOK'
  BY NextType
<1>3. QED
  BY <1>1, <1>2, PTL DEF Spec

\* What a run has passed by its phase, one run of a commit at a time, and
\* published releases that are whole: the inductive invariant.
THEOREM Invariance == Spec => []Inv
<1>1. QED
  BY InitInv, NextInv, PTL DEF Spec

\* No release tag is moved (ensureReleaseTag pushes without force).
THEOREM TagsAreKept == Spec => TagsStay
<1>1. Inv /\ [Next]_vars => [\A v \in Versions : tags[v] # NoCommit => tags'[v] = tags[v]]_tags
  <2> SUFFICES ASSUME Inv, [Next]_vars PROVE TagsKept
    BY DEF TagsKept
  <2>1. CASE UNCHANGED vars
    BY <2>1 DEF vars, TagsKept
  <2>2. CASE Outside
    BY <2>2, OutsideFrame DEF Inv
  <2>3. CASE \E r \in Runs : Fail(r) \/ Rerun(r) \/ \E input \in Inputs : Dispatch(r, input)
    BY <2>3, ControlStep DEF Unchanged, TagsKept
  <2>4. CASE \E r \in Runs : \/ Plan(r) \/ AwaitTests(r) \/ Approve(r) \/ Assemble(r)
                             \/ \E platform \in Platforms : Build(r, platform)
    BY <2>4, BuildStep DEF Inv, Unchanged, TagsKept
  <2>5. QED
    BY <2>1, <2>2, <2>3, <2>4, Steps, PublishPassed
<1>2. QED
  BY <1>1, Invariance, PTL DEF Spec, TagsStay

\* What is published of a version comes from one run that is done, whole, from
\* the tagged commit, and no other run has it in hand (publishRelease).
THEOREM PublishedWhole == Spec => []PublishedIsWhole
<1>1. Inv => PublishedIsWhole
  BY DEF Inv
<1>2. QED
  BY <1>1, Invariance, PTL

\* The workflow keeps the promise of ReleasePromise for any repository, any
\* number of runs and any failures: published once, whole, from the tagged
\* commit, tested, and approved and signed when stable.
THEOREM Refinement == Spec => KeepsReleasePromise
<1>1. Init => Promise!Init
  <2> SUFFICES ASSUME Init PROVE Promise!Init
    OBVIOUS
  <2>1. tested = {} /\ approved = {}
    BY DEF Init, tested, approved, NotStarted
  <2>2. published = [v \in Versions |-> NoRelease]
    BY DEF Init, published, Offer, NoRelease
  <2>3. QED
    BY <2>1, <2>2 DEF Promise!Init
<1>2. Inv /\ [Next]_vars => [Promise!Next]_Promise!vars
  <2> SUFFICES ASSUME Inv, [Next]_vars PROVE [Promise!Next]_Promise!vars
    OBVIOUS
  <2>1. CASE UNCHANGED vars
    BY <2>1, NothingPromised DEF vars, TagsKept
  <2>2. QED
    BY <2>1, Steps, PromiseOutside, PromiseBuild, PromisePublish
<1>3. QED
  BY <1>1, <1>2, Invariance, PTL DEF Spec, KeepsReleasePromise, Promise!Spec
=============================================================================
