# Android Credential Provider Fixer in TLA+

This project models the part of Android Credential Provider Fixer that can do harm: the
change of two secure settings of an Android device, the session in which such a change is
planned and executed, the snapshots that make it possible to undo it, and the frontend and
its shell that lead the user to it. Around it, it models the page that checks the result, the
automation that releases the program and the loop in which its companion is developed. The
modules are written from the source under `src/`; `PROJECT.json` names, for every definition, the lines
it stands for.

## The system

| Part | Source | State | Operations |
|---|---|---|---|
| Change execution | `packages/core/src/changes.rs` | none of its own: a plan, a device, and how far the call got | `execute_change`, `verify_plan_state`, `mutate_setting`, `recover_before`, `observe_managed` |
| Previews, plans, records | `packages/core/src/changes.rs` | preview (ready, consumed), plan, snapshot record (status, revision) | `prepare_pin`, `prepare_restore`, `create_change_plan`, the transitions of a record |
| Diagnosis | `packages/core/src/diagnostics.rs` | none | `list_devices`, `diagnose_device`, parsers, `complete_report` |
| ADB discovery, command port | `adb.rs`, `command.rs` | none | `discover_adb`, `validate_adb`, `CommandRunner` |
| Command runners | CLI `tokio_command_runner.rs`, application `tauri_shell_command_runner.rs` | a child process, its output, a deadline | `run` |
| Snapshot store | `packages/storage/src/lib.rs` | one file per revision of a snapshot, in a directory | `save` (and `prune`), `load`, `list` |
| Backend session | `apps/tauri-app/src-tauri/src/backend.rs` | `SessionState` behind a mutex: revision, discovery, selection, enumeration, diagnoses, previews, plans, executions | the Tauri commands |
| Command line | `apps/cli/src/main.rs` | none between calls | `pin`, `restore`, `snapshots`, `diagnose` |
| Frontend services | `apps/tauri-app/src/domain/*.ts` | one `EntityResource` per entity, and a generation per request | discover, select, list, diagnose, prepare, plan, execute, cancel |
| Frontend views | `apps/tauri-app/src/ui/views/*.tsx` | which view is open, ticks | every control, with what disables it |
| Application shell | `apps/tauri-app/src/app/App.tsx`, `app-service.ts`, `tutorial*.ts` | the session on screen, a switch to another one, the onboarding status, the tour | open, leave, simulate, tour, skip |
| WebAuthn page | `apps/webauthn-web/src/domain/*.ts`, its view | state of a ceremony, generation, credential | register, authenticate, clear |
| Android companion | `apps/android-app/.../domain/*.kt` | step of a guided diagnosis | next, back, open |
| Release automation | `.github/workflows/release.yml`, `scripts/lib/release/*.mts` | release branch, tags, GitHub Releases, the runs | plan, preflight, build, assemble, tag, draft, upload, publish |
| Android development loop | `scripts/lib/android-dev.mts` | pinned device, deployment, rebuild queue, timer | choose, check, build, install, start, watch, abort |

How they interact. The frontend calls backend commands over IPC; several can be under way at
once. A backend command takes the session mutex for a few lines, lets go of it, waits for ADB
or saves a snapshot, takes the mutex again and publishes what it has. The backend and the
command line call the core, which calls a command runner once per ADB command, and both save
snapshots through the same `FileSnapshotStore` into the same directory, without a lock; the
commands of the backend save after they let go of the mutex, so two of one process overlap as well
as those of two. The shell owns the sessions of the frontend: it creates one for a real device or for a simulation,
puts it in the place of another, and runs the tour inside it. The release automation and the
development loop work on remotes and devices that people use at the same time.

What is hard here:

- **interleaving**: a command publishes, after its wait, into a session that others changed;
- **ordering and partial failure on the device**: two settings are one change, any command can
  fail, and one that timed out may still take effect later;
- **partial failure of the store**: a save can fail before it has any effect or after it is
  durable, and a prune can be cut short between two files;
- **crashes**: the session is memory only; what is on disk is all that is left;
- **several saves at once** in one snapshot directory, of commands of the application or of several
  processes, and others that write the same settings;
- **callbacks that come late**: an answer after its request was given up, a frame after the tour
  was stopped, a ceremony after its test was cleared;
- **reruns of what was done in part**: a release job that failed anywhere is started again, next
  to other runs and to people who push tags.

What makes each part correct, in one line:

- *execution*: nothing is written unless the device is the planned one; the verdict tells the
  truth; a change that fails is undone, both settings of it; every call ends;
- *session*: what was made for an old context is never offered for a new one; a plan is executed
  at most once, from the preview it was made from; the record on disk is ahead of the device;
- *store*: an unresolved snapshot is never lost, an ordinary one only as excess, and what ended
  does not come back;
- *frontend*: a late answer changes nothing; what is shown belongs to the current session;
- *shell*: one session is alive but for a switch; a running write keeps its session; the tour
  settles the onboarding once; a switch ends;
- *runners*: every command ends, with its output or an error, and leaves no child;
- *WebAuthn page*: a ceremony that was given up has no effect, a result was earned, none hangs;
- *release automation*: a tag is never moved; what is published is one build, whole, of the
  tagged and tested commit, and approved when it is stable;
- *development loop*: what was built for one device is installed on that one; no edit is forgotten.

## Modules

| Module | Models |
|---|---|
| `ChangePromise` | the abstract specification of one `execute_change`: what each verdict promises |
| `ChangeExecution` | `execute_change`, one step per ADB command; implements `ChangePromise` |
| `ChangeExecution_proofs` | the theorems about it |
| `BackendSession` | the commands of `backend.rs` on `SessionState`, and the records they leave on disk |
| `BackendSession_proofs` | the theorems about it |
| `SnapshotStore` | the files of the snapshot directory under `save` and `prune` |
| `SnapshotStore_proofs` | the theorems about it |
| `FrontendWorkflow` | the frontend's services, what its views offer the user, and the backend commands they call |
| `FrontendWorkflow_proofs` | the theorems about it |
| `AppShell` | the sessions that replace each other on screen, and the tour |
| `AppShell_proofs` | the theorems about it |
| `WebAuthnPage` | the page's service and view, with the ceremonies of the browser |
| `WebAuthnPage_proofs` | the theorems about it |
| `ReleasePromise` | the abstract specification of what is published |
| `ReleasePipeline` | the Release workflow on the branch, tags and releases of the repository; implements `ReleasePromise` |
| `ReleasePipeline_proofs` | the theorems about it |
| `AndroidDev` | `just dev-android` and the devices it works on |
| `AndroidDev_proofs` | the theorems about it |
| `MC...` | the instances that are model-checked |

Definitions whose comment begins with *Fault:* are not part of a specification. Each is a
plausible mistake in the definition that follows it, kept to show that the property it breaks
depends on that definition.

### ChangeExecution

State: the device (`managed`, `context`), the `plan`, the control state of the call (`pc`,
`phase`, `step`), what it read at its start (`contextSeen`, `seen`), the progress of recovery
(`stepsOk`), and what it returns (`observed`, `verdict`). `touched`, `disturbed` and `undone`
are history. `CheckExpiry`, `ReadContext`, `ReadSetting` and `VerifyPlanState` are the checks;
`Write` and `Confirm` are the two ADB commands of `mutate_setting`, for the change and for
recovery; `ObserveEnabled` and `ObservePrimary` are `observe_managed`. `Drift` and
`ContextDrift` are everybody else, at any moment: the owner of the device, another process, a
command of this call that was given up and takes effect late. A command may fail, have its
effect and report a failure, or report a success and have none.

`ManagedSettingValue` (missing, empty, a raw value) is a member of `Values`; the comparison of
device, user and providers is one Boolean. The read-back parses what `settings get` prints, and
a value that does not parse is an error; both are in `Confirm` ("another value, or the read
failed"). `Err` returns are the verdict `rejected`; `Applied` and `Restored` are both `applied`.

### BackendSession

State: `SessionState` field by field, except that an entity is named by the revision it carries
and that the session's one preview is a record. `op` is what each command under way is doing;
`disk` is the newest record of each snapshot; `plan` remembers what each plan was made from
when it has left the session; `begun` and `ended` are history. One action is one critical
section, one save or the end of one wait, in the order of the code, so that every interleaving
of commands at these points is explored. A `StoreFaults` constant says how the store fails:
`"lost"` is an error before the rename, `"durable"` one after it (the sync of the directory, the
prune), `"load"` one of reading a snapshot. `Restart` ends the application anywhere.

`execute_change` is one wait here (`EndOfWriting`) whose verdicts are those of `ChangePromise`;
what happens on the device in between is the business of `ChangeExecution`. Calls that return
an error at once because an identifier is unknown change nothing and are left out, as are the
read-only commands. `retain_referenced_diagnoses` is `Retained`.

### SnapshotStore

State: `files`, one record for each snapshot and revision; `op`, where each writer is in `save`
and `prune` and what it has yet to remove. `Rename` stands for everything up to the rename,
since a reader ignores a name that does not end in `.json`. Then come the inventory
(`TakeInventory`), the second listing (`OpenDirectory`) and the removals one by one, in any
order (`RemoveFile`), each of which may be an error, and `Crash`, the end of the process. The
records that are saved are the ones the backend and the command line save: the next status of a
change, in the order of `run_pin`, `run_restore` and `execute_plan`, or the restored source of a
restore. A writer is one save under way, whether of a command of the application or of another
process. Four variables are history: `newest` is what was saved last of each snapshot; `raced`, the
snapshots whose last save came when another save was already about to remove them; `alone`, the
writer of a save that no other has overlapped yet; and `tidy`, that the last save to end was such a
one and returned without an error.

### FrontendWorkflow

State: `ui`, the signals of the services in `apps/tauri-app/src/domain`, each an
`EntityResource` (idle and invalidated are both `"none"`), and what each service waits for;
`call`, the functions of `WorkflowService` under way, each with the command it awaits and what it
does with the result; `backend`, the revisions the session of the backend has for selection,
enumeration and diagnosis, its preview and its plans; `ticked`, which preview and plan the user
confirmed. A service compares the generation of a request with its counter; here it remembers
the request it waits for (`awaited`), which decides the same. Everything a function does between
two awaits is one action: the signals change and the `invalidated` events run through the
services synchronously (`WithoutAdb` down to `WithoutExecution`), and what follows a resolved
promise runs before the next event of the user.

`AdbView`, `DeviceView` and the other operators of that kind are the views: each says which
intents of the user it offers, and when its controls are disabled, as `views/*.tsx` does. The
user's actions (`Act`, `Navigate`) are an intent the view on screen offers. `Serve` is the backend. Each command is served at one
moment, after which its answer is on its way; commands are served and answers delivered in any
order. `BackendSession` has the steps inside a command. Only `execute` keeps its two moments
here, because what a write meets in between is the point. `Deliver` is the rest of a function
after its answer: the generation check, the resource it sets, what it invalidates, and `handle`,
which reconciles with the backend and discovers, lists or diagnoses again when an error says
that an entity is stale (`Fail`, `Reconcile`, `DeliverContext`).

Left out: the replacement of the whole session (which is `AppShell`), `resetToAdb`, the restore
intent, which is only displayed, the kinds of change and blockers that disable a button for
good, and the checks that an answer names the entity that was asked for, which no command fails.

### AppShell

State: the signals of `App.tsx` (`resource`, `onboarding`, `scope` and `shown`, `demo`, `prompt`),
`transition` for the one `startLive` or `startDemo` that is under way and its locals, `tour` for
the `TutorialService` and the driver of each session, and `requests`, the calls of
`setOnboarding`. A session is a scope that is alive until it is disposed of; what happens inside
is `FrontendWorkflow`, of which only remains whether a plan is shown or being applied
(`Work`). Each part between two awaits of `startLive` and
`startDemo` is an action (`LiveStarts`, `FixtureLoaded`, `DemoSelected`, `PlanCancelled`, and
the ways they fail), and so is each callback of the tour: the frame that starts it, the timer
that gives up its targets, its last step, a dismissal, and the destruction of the driver.
Controls behind a dialog can be reached with the keyboard, so a dialog disables nothing.

Two things the module shows without a property of their own: a frame that comes after the tour
was stopped still drives it (`tutorial.ts:406`), with callbacks of an old generation, which settle
nothing; and a simulation can be started while the start-up state still loads or has failed.
Left out: theme and locale, and with them a late answer to `setTheme` or to the start-up
request that overwrites a newer start-up state (`app-service.ts:62`, `:83`); the steps of the tour
and the replay of what the user skipped (`tutorial-service.ts:182`, `:212`).

### WebAuthnPage

State: the signals and fields of `DiagnosisService`, the view's `consent`, and `ceremonies`, the
calls of the browser that are awaited, each with the generation and the deadline it was begun
under. `Register` and `Authenticate` begin one; `Settle` is its end: an answer with anything that
`verifyRegistration` and `verifyAuthentication` tell apart (a fresh challenge, whose credential it
is, whether the counter went up), or a refusal, in time or late. Users and challenges are
numbered. `Clear`, `SetUsername`, `SetMode` and the consent are the controls. Cancelling a
ceremony promises nothing, because the browser may have answered already.

Left out: encoding, attestation formats and wording. `InvalidUsername` cannot be met, since the
view disables the button that would lead there.

### ReleasePipeline

State: `branch`, `tags` and `release`, the remote; `tests`, the state of the Tests workflow for
each commit; `run`, the runs of the Release workflow, each at the job and the command it has
reached. `Plan`, `Preflight`, `AwaitTests`, `Approve`, `Build` for each platform, `Assemble`,
`EnsureTag` and `PushTag` (the lookup and the push are two steps), `Create` and `Verify` of the
draft, `Upload` file by file, and `Publish`. `Fail` ends any of them, an upload with a damaged
file included; `Rerun` starts the failed job again. `MoveBranch` and `TagByHand` are people. The
concurrency group of the workflow (`GroupIsFree`) keeps two runs of one commit apart, which is
what keeps a second run from changing a release the first has just published.

What is uploaded is the artifacts and the manifest. Assumed: nobody withdraws a tag or edits a
release by hand; a withdrawn tag would be created anew. `DraftIsOurs` is the check of a draft that
is already there. `may_create_tag` is computed by the plan and used nowhere. A `gh release view`
that fails for a reason of its own is taken for a missing release, and `Create` may then meet the
one that is there. The deployment of the web page is left out, with the rerun of an old job that
puts an old page back (`web.mts:69`).

### AndroidDev

State: `options`, `device` and `user`, which are chosen once; `work`, the command a deployment
awaits and which of its three checks of the context it is in; `queue`, `timer` and `aborted`;
and the environment: `connected` devices, each with the number of its connection, the
`foreground` user and the `edits`. Every command can fail at any time, and all fail after the
abort. The watcher is one action with the edit (`Edit`); an edit it reports without a file name is
ignored by the code, and left out. `firstUser` is history: the user the first check of all found,
with which `InstallIsChecked` compares the one the companion is installed for. The property says
what the checks can: between the last of them and the installation, `adb` is only given a serial, so that a device replaced in that moment
is not noticed.

## What is checked

| Run | Instance | Shows |
|---|---|---|
| `ChangeExecution.cfg` | three values; every plan; about 120,000 states | the type invariant; `VerifiedBeforeTouch`, `PrimaryStaysEnabled`, `RecoveryCoversBothKeys`, `RecoveredObservationIsTrue`; that it implements `ChangePromise` (`KeepsPromise`); that it ends (`Returns`) |
| `BackendSession.cfg` | two commands at once, two plans, four revisions, two previews, saves that fail before or after they are durable, restarts; about 2 million states up to symmetry | `DiagnosisFitsContext`, `PreviewFitsDiagnosis`, `OneUse`, `RecordedWhileWriting`, `RestoreIsAccounted`, `EndIsFinal` |
| `BackendSettles.cfg` | the commands that lead to a change, five revisions, a store that saves but may fail to load, no restart; about 300,000 states | `PlannedIsHeld`, and `ExecutingSettles` under fairness |
| `SnapshotStore.cfg` | two writers, three snapshots on two devices, one ordinary snapshot kept for each, seven saves, errors and crashes; about 2 million states up to symmetry | `KeptOutsideRaces`, `RetentionHolds`, `OnlyExcessIsPruned` |
| `FrontendWorkflow.cfg` | two functions at once, two devices, every intent of the user, errors at every level, four revisions, two previews; about 140,000 states up to symmetry | `ParentsAreCurrent`, `ResolvingIsAwaited`, `OutcomeIsShown`, `TwoConfirmations`, `ApplyingIsHeld` |
| `AppShell.cfg` | three sessions, one skip of the onboarding; about 400,000 states | `OneSession`, `WriteIsKept`, `SettlesOnce`, and `TransitionEnds` under fairness |
| `WebAuthnPage.cfg` | three names (a label, blanks, none), three ceremonies, five generations; about 135,000 states | `CredentialIsOfTheShownUser`, `ResultIsEarned`, and `Settles` under fairness |
| `ReleasePipeline.cfg` | two runs, two commits of one beta and one of a stable version, a tag people may push for each; about 1 million states up to symmetry | `TagsStay`; that it implements `ReleasePromise` (`KeepsReleasePromise`) |
| `AndroidDev.cfg` | one device that can be lost and come back, two users, three edits; about 143,000 states | `InstallIsChecked`, and `EveryEditIsDeployed` under fairness |
| `StartupSelection.cfg` | the context commands | violates `EnumerationFitsSelection` |
| `PruneRaces.cfg` | two writers | violates `UnresolvedAreKept` |
| `SwitchDuringWrite.cfg` | the shortest way to a plan that is cancelled and executed | violates `SwitchIsBlockedWhileWriting` |

Each passing run but those of `BackendSettles` and `AndroidDev` also checks the type invariant of
its module (`TypeOK` of `AndroidDev` holds as well). Deadlock is not checked: a call ends, bounds
are reached, and the instances stop there.

### Bounds, and why they are enough

- *Values* (3): a change needs a before and an after value; a third is one that is neither,
  which is what drift writes. The theorems need no bound.
- *Handlers* (2): the properties relate one command to one other that runs in its way. *Plans*
  (2): two plans compete for a preview, or one is the restore of the other. *MaxRevision*: a
  diagnosis takes three revisions (select, list, diagnose); the fourth is the command that
  supersedes it, the fifth, in the runs that need it, a diagnosis after a change. It limits only
  the commands that ask for a new context: the end of an execution and of startup advance past it.
- *MaxPreviews* (2): one preview takes the place of another.
- *Keep* (1, for 20) and three snapshots on two devices: one device at its limit and one
  beyond, another device that must not count. *Writers* (2): the prune of one save meets one
  other. *MaxSaves* (7): enough for two snapshots to go from planned to their end, six saves, and
  a third saved at any point, or for one of them to be restored.
- *Calls* (2) and *Devices* (2) of the frontend: one answer that is late and one function that is
  in its way; a device that is chosen after another. The session starts with a selection (2), so
  `MaxRevision` (4) leaves a listing and a diagnosis; what supersedes them is a new discovery or
  selection, which the bound lets happen before, and the end of an execution, which it does not
  limit. With two previews a tick or an answer of the first change can meet the second. A restore
  that is given up and a write for a diagnosis made since take a second selection, listing and
  diagnosis, more revisions than the run has; the theorems need no bound and cover it.
- *MaxScopes* (3): a live session, a simulation that replaces it, and one that replaces that one
  while its tour lingers. *MaxCeremonies* (3) and *MaxGeneration* (5): a registration, its
  verification and the registration of a second test, each of which may be cleared.
- *Runs* (2), *Commits* (3): two runs of one commit, of two commits of one version, or of two
  versions, with one tag pushed by hand in the way of each version. The theorems need no bound.
- *MaxEdits* (3): two edits during one deployment and one during the next. *MaxTransport* (2): a
  connection and the one after it. One device is enough after the choice; the choice is made from
  one, by name or at the prompt.

### Fairness

`ChangeExecution!FairSpec` is weakly fair in the steps of the call. Each is an ADB command or
plain code; both runners end a command at its deadline, so each step is eventually taken. The
command line's runner drains the output of a command that has ended without that deadline
(`tokio_command_runner.rs:104`), so there the assumption includes that the pipes close. The
environment is not fair. `BackendSession!FairSpec` is weakly fair in the steps of each command
under way, for the same reason and because saves return; nobody has to call a command.
`WebAuthnPage!FairSpec` is weakly fair in the end of each ceremony: the browser ends it by the
timeout it was given. `AppShell!FairSpec` is weakly fair in the awaits of a switch, whose answers
come from the gateway, and in the wait for the tour's targets, which has a timer of three seconds.
`AndroidDev!FairSpec` is weakly fair in the steps of a deployment, since every command has a
timeout, and in the timer of the watchers. Users, people and devices are never fair.

## Where the code and its documents differ

1. **A late startup replaces a selection** (`StartupSelection.cfg`). `get_startup_state` finds no
   selection, validates the saved path without the lock and then stores the selection, without
   comparing the revision and without clearing the enumeration. When a selection was made and
   its devices were listed meanwhile, the session has the devices of one adb and the selection of
   another, and `resolve_diagnosis` diagnoses them with the other one. The architecture document
   says that every asynchronous operation verifies its revision and parents before it publishes.
2. **Saves prune each other's snapshots** (`PruneRaces.cfg`). A prune removes by name all
   revisions of what its inventory found ordinary; a snapshot that was `planned` then may be
   `executing` or `applied` when its files are removed. The two saves may be those of two commands of
   the application, which save outside the mutex, or of the application and the command line. The
   privacy document promises that unresolved snapshots are retained.
3. **A refused cancellation hides a running write** (`SwitchDuringWrite.cfg`). `cancelPlan` sets no
   state while it waits, so after *Back* the *Apply* button still works. When the backend serves
   `execute` first, the cancellation is refused, and the error path of `cancelPlan`, the one
   function of `ChangeService` without a generation check, drops the preview, the plan and the
   execution that is under way. The device is being written, the view is no longer `applying`,
   which is all the tutorial entry looks at before it replaces the session, and the outcome of the
   write is passed over when it arrives.

`ApplyingIsHeld` lists what else ends the view of a running write. A recovery does: the error of
a request that was given up starts one (`workflow.ts:366`), and it goes on to discover, list or
diagnose whatever the user has done since. So does the late answer of an earlier execution, after
which `executePlan` invalidates the diagnosis that is current by then (`workflow.ts:226`), the
choice made in a file dialog that was left open (`adb.ts:127`), and the late answer of a diagnosis
that was made for a restore: `prepareRestore` goes on with whatever diagnosis is current by then
(`workflow.ts:260`), and the preview it starts takes the place of the change that is being applied.
That the list is complete is a theorem (`HeldView`); its last entry is one the small instance of
`FrontendWorkflow.cfg` is too short to reach, and was found where the proof did not go through. One more thing the frontend does not know: a diagnosis whose answer it passed over may
be the last one the backend served, and then the result on screen is not the latest diagnosis of
the session and the next change is refused and recovered from.

Two things that no document denies are worth knowing. A write may begin for a superseded
diagnosis: `execute_plan` compares the diagnosis of its plan with the latest one, saves the
`executing` record and writes; a command that changes the context in between does not see the plan,
which has left the session, and the execution does not look again (`backend.rs:702`). The device is
still compared with the plan before the first write (`VerifiedBeforeTouch`), so what is lost is the
guarantee about the session, not about the device. And an interrupted prune can bring an applied
snapshot back: a restored snapshot is ordinary, and when its restored revision is removed first and
the prune ends there, the applied one is the newest left and can be restored again
(`storage/src/lib.rs:157`); `OnlyExcessIsPruned` shows that a save that no other overlaps does this to
excess snapshots only.

Two limits of properties that hold belong here as well. `EndIsFinal` is about ends whose save
returned without an error: when `cancel_change_plan` gets an error from a save that is durable
all the same, it puts the plan back, and executing that plan turns the cancelled record into an
executing one. And `PlannedIsHeld` is checked with saves that work, without a restart and without
the call of `execute_pin_plan` for a restore plan (or the reverse): each of them drops a plan from
the session and leaves its record `planned`, and `PlannedHeld` proves that nothing else does.

## What is proved

All theorems hold for every value of the constants that satisfies the named assumptions of the
module, which the runs evaluate as well.

`ChangeExecution_proofs`, for every set of values and every reading of `Unavailable` that is not
one of them (the one assumption, `UnavailableAssumption`):

| Theorem | Statement |
|---|---|
| `TypeCorrect` | `Spec => []TypeOK` |
| `Invariance` | `Spec => []Inv` |
| `ChecksBeforeTouching` | `Spec => []VerifiedBeforeTouch` |
| `PrimaryIsEnabled` | `Spec => []PrimaryStaysEnabled` |
| `RecoversBothKeys` | `Spec => []RecoveryCoversBothKeys` |
| `ReportsWhatIsThere` | `Spec => []RecoveredObservationIsTrue` |
| `Refinement` | `Spec => KeepsPromise` |

None of the properties is inductive: each is about a moment at which the call has forgotten how
it got there. The inductive invariant `Inv` is `TypeOK` and three parts. `Progress` says how the
control state, the phase and what was read go together (past `verify` the planned state was
read; before it nothing was touched). `Undoing` says which restoring commands were issued at
each step of recovery. `Holds` says what the device holds, key by key, as long as nobody else
wrote: each setting is at its before or after value, and which, follows from phase, step and
whether every step of recovery succeeded. The proof that steps preserve `Inv` goes action by
action; `WriteEffect` states the effect of a write on the two keys once. The refinement maps
every variable to itself and shows that a step is a step of the promise or a stutter.

`BackendSession_proofs`, for any number of commands at once, any plans, any way the store may fail,
with the application restarted at any moment:

| Theorem | Statement |
|---|---|
| `Invariance` | `Spec => [](Owned /\ Named)` |
| `TypeCorrect` | `Spec => []TypeOK` |
| `RecordBeforeWrite` | `Spec => []RecordedWhileWriting` |
| `EndsStay` | `Spec => EndIsFinal` |
| `DiagnosisIsCurrent` | `Spec => []DiagnosisFitsContext` |
| `PreviewIsCurrent` | `Spec => []PreviewFitsDiagnosis` |
| `UsedOnce` | `Spec => []OneUse` |
| `RestoresAccounted` | if loads work, `Spec => []RestoreIsAccounted` |
| `PlannedHeld` | if saves work, without a restart and without calls for the wrong kind of plan, `Spec => []PlannedIsHeld` |

Five inductive invariants carry them. `Owned` is about plans: a plan is in one hand, that of the
session or that of one command, and the step at which a command holds it says whether its change
was begun, whether its end was saved, and, while it writes or is about to save the outcome, which
record is on disk. The one step that writes a record it has not in hand is the one that marks the
source of a restore; the source was applied, so whoever still holds it has only to finish.
`Dated` is about the context: of the commands that advanced the revision and have yet to publish,
no two have the same one, and as long as the one that advanced last is under way there is no
diagnosis. That is why comparing the revision is enough when a listing or a diagnosis is published.
`Used` is about previews: what a command copied is not newer than the stored preview, and if it is
as new then the preview is still ready; a preview that is ready has no plan that may still be used,
and no other has two. Of two commands that copied one preview the second thus finds it changed,
which needs both comparisons of `PreviewUnchanged`. `Footprint` is the lemma most actions rest on:
a step that changes the state of some plans of which no other command has one in hand keeps
`Owned` if it keeps it for those plans and its own handler.

The last two theorems leave out the failures after which the code does not do what the property
says. `RestoresAccounted` excludes only a source that cannot be loaded, which the code passes over
without a warning; saves may fail in either way, in the theorem and in the run.
`Accounted` follows the verdict from the save of the outcome to the report: a command about to
report a restore without a warning has its source restored on disk, and no step of any command
writes a record that says restored (`RestoredStays`), since the only records written over are those
of plans not begun, of a plan being executed, and of a source that is still applied. `Held` is
`PlannedIsHeld` and what makes it inductive: a command reports only plans whose record is no longer
planned. A command lets go of a plan by saving its record (whose revision is not ahead, by `Owned`),
by giving the plan to the session, or by reporting it, so the record of a plan in no hand is closed.

`SnapshotStore_proofs`, for any snapshots, devices and limit, and any number of saves at once:

| Theorem | Statement |
|---|---|
| `TypeCorrect` | `Spec => []TypeOK` |
| `UnresolvedSurvive` | `Spec => []KeptOutsideRaces` |
| `LimitHolds` | `Spec => []RetentionHolds` |
| `PrunedIsExcess` | `Spec => OnlyExcessIsPruned` |

`Inv` adds that no file is ahead of the record saved last, and that, but for the snapshots in
`raced`, what a writer is about to remove is not unresolved and the last record of an unresolved
snapshot is there. A prune puts no unresolved snapshot on its list, so a snapshot that is saved as
unresolved while it is on nobody's list stays on nobody's, and nothing else can lose it; `PruneRaces.cfg` is what happens
to the others. `Tidied` is about a save while it is `alone`, whatever overlapping saves left
behind: then no other writer has anything to remove, and once the save knows what to remove, the
ordinary snapshots of a device that it spares are at most `Keep`, and at least `Keep` of them are
newer than any it removes. The two are about one set, the spared snapshots, and that no step of
the prune removes a file of it (`SparedStay`) is why both hold to its end, and why what is removed
last is as much in excess as what is removed first. That the set has this size (`SparedBound`,
`RemovedIsOutranked`) takes the oldest spared snapshot of a device and the newest removed one,
which exist because the files are finite in number and the times natural numbers (`Smallest`).

`ReleasePipeline_proofs`, for any repository, any number of runs and any failures:

| Theorem | Statement |
|---|---|
| `Invariance` | `Spec => []Inv` |
| `TypeCorrect` | `Spec => []TypeOK` |
| `TagsAreKept` | `Spec => TagsStay` |
| `PublishedWhole` | `Spec => []PublishedIsWhole` |
| `Refinement` | `Spec => KeepsReleasePromise` |

`Inv` says what a run has passed by the phase it is in (its commit is tested, its stable version
approved and signed, the tag is on its commit, which files of the draft are its own), that of the
runs of one commit at most one is past the concurrency group (`OneOfACommit`), and that what is
published is whole and of a run that is over. The refinement maps the successful tests, the
approvals and the published releases to the variables of the promise; every step but the end of a
Tests run, an approval and `Publish` is a stutter.

`AppShell_proofs`, for any number of sessions, switches and tours, and whatever frame, timer or
answer comes late:

| Theorem | Statement |
|---|---|
| `Invariance` | `Spec => []Inv` |
| `TypeCorrect` | `Spec => []TypeOK` |
| `NothingLeftBehind` | `Spec => []OneSession` |
| `WritesAreKept` | `Spec => WriteIsKept` |
| `TourSettlesOnce` | `Spec => SettlesOnce` |

`Inv` has a part for the tours and one for the sessions. `ToursInOrder` says that a tour that is
active can still be ended by something, that the active driver is that of a tour that was not
ended, and that a tour that asked to settle the onboarding is over, which is why none asks twice.
`SessionsInOrder` says which sessions are alive, that only the one that is shown works or has a tour
that counts, and that what a switch has prepared is new, alive and without a tour. The calls of the
tutorial service call each other (`Stop` calls `StopTutorial`, which calls `Destroy`, whose callback
may end the tour), so their effect on a record of tours is stated call by call in lemmas
(`DestroyedEffect`, `StopTutorialEffect`, `StopEffect`), and each action cites the ones it makes.
`WriteIsKept` then follows from the second look at the session after the awaits of `startDemo`.

`WebAuthnPage_proofs`, for any names the user may type, any number of ceremonies and any answers:

| Theorem | Statement |
|---|---|
| `Invariance` | `Spec => []Inv` |
| `TypeCorrect` | `Spec => []TypeOK` |
| `CredentialIsBound` | `Spec => []CredentialIsOfTheShownUser` |
| `NoResultForFree` | `Spec => []ResultIsEarned` |

`Bound` is the heart of `Inv`: of the ceremonies that are awaited, those of the present generation
have the challenge that was issued last and are for the user, the name and the credential on
screen. Whatever else changes one of these also advances the generation, so a ceremony that ends
late is never of the present one, and the comparison of generations is all that is needed. No two
ceremonies have one challenge, so an answer belongs to one of them.

`AndroidDev_proofs`, for any devices, users, options, failures and edits; of the numbers of
connections it assumes that there is one (`BoundsAssumption`):

| Theorem | Statement |
|---|---|
| `Invariance` | `Spec => []Inv` |
| `TypeCorrect` | `Spec => []TypeOK` |
| `ChecksBeforeInstalling` | `Spec => []InstallIsChecked` |

`Inv` says to which of the three checks a command belongs (`CheckOf`), what the check has seen, and
that the user kept is the one the first check of all found.
It rests on the numbers of connections, which only grow: a connection that was gone when the
build ended is gone for good, and the check that follows the build finds another number, so whatever
passes it was there all along.

`FrontendWorkflow_proofs`, for any number of functions under way, any devices and errors, whatever
the user does and in whatever order the answers come:

| Theorem | Statement |
|---|---|
| `Invariance` | `Spec => []Inv` |
| `TypeCorrect` | `Spec => []TypeOK` |
| `CurrentParents` | `Spec => []ParentsAreCurrent` |
| `AwaitedResources` | `Spec => []ResolvingIsAwaited` |
| `ConfirmedTwice` | `Spec => TwoConfirmations` |
| `ShownOutcome` | `Spec => OutcomeIsShown` |
| `HeldView` | `Spec => ApplyingIsHeld` |

That an entity belongs to its parent is not inductive: when an answer comes, nothing on screen says
what it was asked about. `Inv` adds that. `Links` is `ParentsAreCurrent`; `Waits` says that a
service waits for a request just while its resource is resolving (with the exceptions the file
dialog and the recovery make), and that no adb is selected while the machine is searched;
`Matches`, that the function it waits for makes the request of that service, about the parent the
resource has; `Consents`, that what is ticked was ticked for the preview or the plan on screen; and
`Purposeful`, what a function may be for. `Fits` gathers what is about the signals, and holds of
every intermediate value a handler computes, so each function of the services has its lemma:
`Without...Effect` says what an invalidation leaves, `Without...Fits` that it keeps `Fits` and lets
no service wait for anybody new, `Start...Inv` that a request may be made by a function that no
service waits for, and `Settles` why a function that has its answer is one. The three action
properties rest on `GoesOn`: a function that has its answer is changed by nothing but its delivery.

Only model-checked: what is about fairness (`Returns`, `ExecutingSettles`, `Settles`,
`TransitionEnds`, `EveryEditIsDeployed`). Every other property of a passing run is a theorem.

## What is not modelled

- Command runners. When a child ends, when its pipes close and what a kill does is decided by the
  operating system and two libraries; to a change every failure of a command is the same. The
  hazards are listed.
- ADB discovery, the parsers and the findings of a diagnosis: sequential code with unit tests.
- The guided flow of the Android companion: linear, on one thread, with a unit test of each step.
- The order of versions, release notes and the checks of artifacts: strings and files, in sequence,
  with unit tests. `dev-cli.mts` and the documentation.
- The theme and the preferences file: no change depends on it (its hazard is listed).
- What blocks a preview: which provider is registered, which values parse. It is data the
  properties do not tell apart; `Plans` keeps what the planning code guarantees of a plan.
- Clocks: the age of a plan is a choice, and `updated_at` is the number of the save, so that a
  clock that goes back is outside the model.
- Invalid and version 1 files of the store: they are warnings and are never touched.
- Rendering, wording, localization, icons.

## Plan

In this order; each step leaves a project that is complete for what it has.

1. *Done*: `ChangePromise` and `ChangeExecution`, `BackendSession`, `SnapshotStore`,
   `FrontendWorkflow`, `AppShell`, `WebAuthnPage`, `ReleasePromise` and `ReleasePipeline`,
   `AndroidDev`; the theorems of each of them.
2. The backend of `FrontendWorkflow` as an abstraction that `BackendSession` implements.
