--------------------------- MODULE ReleasePipeline --------------------------
(***************************************************************************)
(* The release automation: scripts/lib/release as the Tests and Release    *)
(* workflows call it.  Several runs of the Release workflow, each with the *)
(* source a person or the Tests workflow gave it, work on one remote: its  *)
(* release branch, its tags and its GitHub Releases.  Any step may fail,   *)
(* and the failed job of a run can be started again.                       *)
(*                                                                         *)
(* Abstractions: what is uploaded is the artifacts and the manifest, which *)
(* SHA256SUMS goes with; a file is named by the run that built it, since   *)
(* no two builds are the same.  A commit has one Tests run.  Nobody        *)
(* withdraws a tag or edits a release by hand.  The job conditions and the *)
(* gh commands of release.yml are part of the actions of their job.        *)
(***************************************************************************)
EXTENDS Naturals, FiniteSets

CONSTANTS
  Commits, NoCommit,
  Versions,
  Version,     \* the version in a commit's metadata
  Stable,      \* the versions of the stable channel
  SignedBy,    \* the commits whose metadata asks for signing on macOS
  Runs, NoRun, Damaged,
  Newer,       \* the commits the release branch may go on to from each
  HandTags,    \* the tags people may create, each on its commit
  Inputs       \* the ref, commit and Tests run a Release run may be started with

ASSUME MetadataAssumption ==
  Version \in [Commits -> Versions] /\ Stable \subseteq Versions /\ SignedBy \subseteq Commits
ASSUME InputsAssumption ==
  Newer \in [Commits -> SUBSET Commits] /\
  HandTags \subseteq Versions \X Commits /\ Inputs \subseteq [ref : {"branch"} \cup Versions, sha : Commits, tests : Commits]
ASSUME NamesAssumption ==
  NoCommit \notin Commits /\ {NoRun, Damaged} \cap Runs = {} /\ NoRun # Damaged /\ "branch" \notin Versions

VARIABLES
  tests,    \* the state of each commit's Tests run
  branch,   \* the head of the release branch
  tags,     \* the commit each version's tag names
  run,      \* the runs of the Release workflow
  release   \* the GitHub Release of each version

vars == <<tests, branch, tags, run, release>>

Platforms == {"macos", "windows", "linux"}
Files == {"artifacts", "manifest"}
Refs == {"branch"} \cup Versions
Publishing == {"ensureTag", "pushTag", "view", "create", "upload", "edit"}
Phases == {"idle", "plan", "awaitTests", "build", "done"} \cup Publishing

NotStarted ==
  [phase |-> "idle", failed |-> FALSE, ref |-> "branch", sha |-> NoCommit, tests |-> NoCommit,
   signed |-> FALSE, approved |-> FALSE, built |-> {}, left |-> {}]
NoRelease == [state |-> "none", files |-> [f \in Files |-> NoRun]]

Init ==
  /\ tests = [c \in Commits |-> "none"]
  /\ branch \in Commits
  /\ tags = [v \in Versions |-> NoCommit]
  /\ run = [r \in Runs |-> NotStarted]
  /\ release = [v \in Versions |-> NoRelease]

----------------------------------------------------------------------------
(* The repository and the Tests workflow.                                  *)

MoveBranch(c) == branch' = c /\ c \in Newer[branch] /\ UNCHANGED <<tests, tags, run, release>>

TagByHand(v, c) ==
  /\ <<v, c>> \in HandTags /\ tags[v] = NoCommit
  /\ tags' = [tags EXCEPT ![v] = c]
  /\ UNCHANGED <<tests, branch, run, release>>

\* testsPreflight does not throw.
Preflight(ref, c) ==
  IF ref = "branch" THEN Version[c] \in Stable \/ tags[Version[c]] \in {NoCommit, c}
  ELSE ref = Version[c] /\ tags[ref] = c

PointsTo(ref, c) == IF ref = "branch" THEN branch = c ELSE tags[ref] = c

StartTests(ref, c) ==
  /\ tests[c] = "none" /\ PointsTo(ref, c)
  /\ tests' = [tests EXCEPT ![c] = IF Preflight(ref, c) THEN "running" ELSE "failure"]
  /\ UNCHANGED <<branch, tags, run, release>>

EndTests(c) ==
  /\ tests[c] = "running"
  /\ \E conclusion \in {"success", "failure"} : tests' = [tests EXCEPT ![c] = conclusion]
  /\ UNCHANGED <<branch, tags, run, release>>

----------------------------------------------------------------------------
(* The Release workflow.  A run that has failed keeps the phase its failed *)
(* job starts again from.                                                  *)

VersionOf(r) == Version[run[r].sha]
IsStable(c) == Version[c] \in Stable
InProgress(r) == run[r].phase \notin {"idle", "done"} /\ ~run[r].failed

\* The concurrency group of a source commit.
GroupIsFree(r, c) == \A q \in Runs \ {r} : run[q].sha = c => ~InProgress(q)

To(r, phase) == run' = [run EXCEPT ![r].phase = phase]
At(r, phase) == run[r].phase = phase /\ ~run[r].failed
Unchanged == UNCHANGED <<tests, branch, tags, release>>

\* By dispatch-release, while the Tests run is still running, or by hand.
Dispatch(r, input) ==
  /\ run[r].phase = "idle" /\ GroupIsFree(r, input.sha)
  /\ run' = [run EXCEPT ![r] =
       [NotStarted EXCEPT !.phase = "plan", !.ref = input.ref, !.sha = input.sha, !.tests = input.tests]]
  /\ Unchanged

\* Fault: the name of the job in place of its first phase.
JobName(phase) == IF phase \in Publishing THEN "publish" ELSE phase

\* The start of the job a phase belongs to.
JobOf(phase) ==
  CASE phase = "awaitTests" -> "plan" [] phase \in Publishing -> "ensureTag" [] OTHER -> phase

Fail(r) ==
  /\ InProgress(r)
  /\ run' = [run EXCEPT ![r].failed = TRUE, ![r].phase = JobOf(@), ![r].left = {}]
  /\ Unchanged

Rerun(r) ==
  /\ run[r].failed /\ GroupIsFree(r, run[r].sha)
  /\ run' = [run EXCEPT ![r].failed = FALSE]
  /\ Unchanged

\* resolveReleasePlan: where a version may come from, and the signing policy.
MayComeFrom(ref, c) == ref = Version[c] \/ (ref = "branch" /\ ~IsStable(c))
Signed(c) == IsStable(c) \/ c \in SignedBy

\* releasePlan, and validateReleaseRef up to its requests for the Tests run.
Plan(r) ==
  /\ At(r, "plan")
  /\ MayComeFrom(run[r].ref, run[r].sha) /\ PointsTo(run[r].ref, run[r].sha)
  /\ run' = [run EXCEPT ![r].phase = "awaitTests", ![r].signed = Signed(run[r].sha)]
  /\ Unchanged

\* Fault: the Tests run of any commit will do.
SomeTestsPassed(r) == tests[run[r].tests] = "success"

TestsPassed(r) == tests[run[r].tests] = "success" /\ run[r].tests = run[r].sha

\* A Tests run that has not passed, or not within the attempts, is a Fail.
AwaitTests(r) == At(r, "awaitTests") /\ TestsPassed(r) /\ To(r, "build") /\ Unchanged

Approve(r) ==
  /\ At(r, "build") /\ IsStable(run[r].sha) /\ ~run[r].approved
  /\ run' = [run EXCEPT ![r].approved = TRUE]
  /\ Unchanged

\* The condition of the jobs that wait for stable-approval.
ApprovalHolds(r) == IsStable(run[r].sha) => run[r].approved

Build(r, platform) ==
  /\ At(r, "build") /\ platform \notin run[r].built
  /\ platform = "windows" \/ (platform = "macos" /\ run[r].signed) => ApprovalHolds(r)
  /\ run' = [run EXCEPT ![r].built = @ \cup {platform}]
  /\ Unchanged

\* createManifest and verifyArtifacts: exactly one file of every platform.
Complete(r) == run[r].built = Platforms

Assemble(r) == At(r, "build") /\ Complete(r) /\ To(r, "ensureTag") /\ Unchanged

\* ensureReleaseTag reads the remote tag first; another target is a Fail.
EnsureTag(r) ==
  /\ At(r, "ensureTag")
  /\ tags[VersionOf(r)] \in {NoCommit, run[r].sha}
  /\ To(r, IF tags[VersionOf(r)] = NoCommit THEN "pushTag" ELSE "view")
  /\ Unchanged

\* Fault: the tag is pushed with force.
PushTagWithForce(r) ==
  /\ At(r, "pushTag")
  /\ tags' = [tags EXCEPT ![VersionOf(r)] = run[r].sha]
  /\ To(r, "view")
  /\ UNCHANGED <<tests, branch, release>>

\* The remote refuses a tag that is there by now.
PushTag(r) ==
  /\ At(r, "pushTag") /\ tags[VersionOf(r)] = NoCommit
  /\ tags' = [tags EXCEPT ![VersionOf(r)] = run[r].sha]
  /\ To(r, "view")
  /\ UNCHANGED <<tests, branch, release>>

\* verifyPublishedRelease
SameFiles(r) == \A f \in Files : release[VersionOf(r)].files[f] = r

DraftIsOurs(r) ==
  LET manifest == release[VersionOf(r)].files["manifest"]
  IN manifest \in Runs => run[manifest].sha = run[r].sha

View(r) ==
  LET there == release[VersionOf(r)].state IN
  /\ At(r, "view")
  /\ there = "published" => SameFiles(r)
  /\ there = "draft" => DraftIsOurs(r)
  /\ run' = [run EXCEPT
       ![r].phase = CASE there = "published" -> "done" [] there = "draft" -> "upload" [] OTHER -> "create",
       ![r].left = IF there = "draft" THEN Files ELSE {}]
  /\ Unchanged

Create(r) ==
  /\ At(r, "create") /\ release[VersionOf(r)].state = "none"
  /\ release' = [release EXCEPT ![VersionOf(r)].state = "draft"]
  /\ run' = [run EXCEPT ![r].phase = "upload", ![r].left = Files]
  /\ UNCHANGED <<tests, branch, tags>>

\* --clobber replaces the file that is there; it may arrive damaged.
Upload(r, file) ==
  /\ At(r, "upload") /\ file \in run[r].left
  /\ \E content \in {r, Damaged} :
       release' = [release EXCEPT ![VersionOf(r)].files[file] = content]
  /\ run' = [run EXCEPT ![r].left = @ \ {file}]
  /\ UNCHANGED <<tests, branch, tags>>

Verify(r) ==
  At(r, "upload") /\ run[r].left = {} /\ SameFiles(r) /\ To(r, "edit") /\ Unchanged

Publish(r) ==
  /\ At(r, "edit")
  /\ release' = [release EXCEPT ![VersionOf(r)].state = "published"]
  /\ To(r, "done")
  /\ UNCHANGED <<tests, branch, tags>>

Work(r) ==
  \/ Plan(r) \/ AwaitTests(r) \/ Approve(r) \/ Assemble(r)
  \/ \E platform \in Platforms : Build(r, platform)
  \/ EnsureTag(r) \/ PushTag(r) \/ View(r) \/ Create(r) \/ Verify(r) \/ Publish(r)
  \/ \E file \in Files : Upload(r, file)

Next ==
  \/ \E c \in Commits : MoveBranch(c) \/ EndTests(c)
  \/ \E v \in Versions, c \in Commits : TagByHand(v, c)
  \/ \E ref \in Refs, c \in Commits : StartTests(ref, c)
  \/ \E r \in Runs, input \in Inputs : Dispatch(r, input)
  \/ \E r \in Runs : Fail(r) \/ Rerun(r) \/ Work(r)

Spec == Init /\ [][Next]_vars

----------------------------------------------------------------------------
RunRecords ==
  [phase : Phases, failed : BOOLEAN, ref : Refs, sha : Commits \cup {NoCommit},
   tests : Commits \cup {NoCommit}, signed : BOOLEAN, approved : BOOLEAN,
   built : SUBSET Platforms, left : SUBSET Files]
ReleaseRecords ==
  [state : {"none", "draft", "published"}, files : [Files -> Runs \cup {NoRun, Damaged}]]

\* The runs and the remote have their types.
TypeOK ==
  /\ tests \in [Commits -> {"none", "running", "success", "failure"}]
  /\ branch \in Commits
  /\ tags \in [Versions -> Commits \cup {NoCommit}]
  /\ run \in [Runs -> RunRecords]
  /\ release \in [Versions -> ReleaseRecords]

\* A release tag is created once: neither a person's tag nor that of another
\* run is moved, whatever happened between looking and pushing (ensureReleaseTag).
TagsStay == [][\A v \in Versions : tags[v] # NoCommit => tags'[v] = tags[v]]_tags

\* The files of a version, each by its build and what it was built from.
Content(file) ==
  IF file \in Runs THEN [build |-> file, commit |-> run[file].sha, signed |-> run[file].signed]
  ELSE [build |-> file, commit |-> NoCommit, signed |-> FALSE]

\* What ReleasePromise speaks of.
tested == {c \in Commits : tests[c] = "success"}
approved == {r \in Runs : run[r].approved}
Offer(v) ==
  IF release[v].state = "published"
  THEN [commit |-> tags[v], files |-> [f \in Files |-> Content(release[v].files[f])]]
  ELSE NoRelease
published == [v \in Versions |-> Offer(v)]

Promise == INSTANCE ReleasePromise WITH Builds <- Runs, Nothing <- NoRelease

\* The workflow keeps the promise of ReleasePromise: published once, whole,
\* from the tagged commit, tested, and approved and signed when stable.
KeepsReleasePromise == Promise!Spec
=============================================================================
