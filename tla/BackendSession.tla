--------------------------- MODULE BackendSession ---------------------------
(***************************************************************************)
(* The session of the desktop backend (apps/tauri-app/src-tauri/src/       *)
(* backend.rs) and the snapshot records its commands leave on disk.  Tauri *)
(* runs the commands concurrently: a command holds the session mutex only  *)
(* between awaits and saves, so each step below is one critical section,   *)
(* one save of a snapshot, or the end of one wait for ADB.                 *)
(*                                                                         *)
(* Abstractions: an entity is named by the session revision it carries,    *)
(* which is unique among entities of its kind; a snapshot is named by its  *)
(* plan; a call with an identifier the session does not know returns an    *)
(* error without a change of state and is left out; execute_change is one  *)
(* wait that ends in one of the verdicts of ChangePromise; the device      *)
(* serial, the providers and the values are not represented.  A saved ADB  *)
(* path exists, so get_startup_state always has something to validate.     *)
(***************************************************************************)
EXTENDS Naturals, FiniteSets

CONSTANTS
  Handlers,      \* command invocations that can be under way at once
  Plans,         \* identifiers of plans, and of their snapshots
  NoPlan,
  Commands,      \* the commands the frontend calls
  MaxRevision,   \* bound: no command that advances starts beyond it
  MaxPreviews,   \* bound: number of previews prepared
  StoreFaults,   \* how the store fails: a save "lost" or "durable", a "load"
  MayRestart     \* the application can be ended and started again

ASSUME ConstantsAssumption ==
  /\ NoPlan \notin Plans
  /\ MaxRevision \in Nat
  /\ MaxPreviews \in Nat
  /\ StoreFaults \subseteq {"lost", "durable", "load"}
  /\ MayRestart \in BOOLEAN

VARIABLES
  revision,      \* SessionState.revision
  discovery,     \* revision of the current discovery, 0 when none
  selection,     \* [id, discovery] of the ADB selection, id 0 when none
  enumeration,   \* [id, selection] of the device enumeration, id 0 when none
  latest,        \* latest_diagnosis_id, 0 when none
  diagnoses,     \* [id, enumeration] of the stored diagnoses
  preview,       \* the stored preview, id 0 when none
  previewCount,  \* previews prepared so far, names the next one
  plan,          \* [diagnosis, preview, source] of each plan created
  plans,         \* plans the session holds, each with its planned snapshot
  executions,    \* [plan, status, warned] of the stored executions
  op,            \* what each handler is doing
  disk,          \* [rev, status] of the newest record of each snapshot on disk
  begun,         \* history: how often execute_change was called for a plan
  ended          \* history: plans whose end was saved without an error

history == <<begun, ended>>
context == <<revision, discovery, selection, enumeration>>
entities == <<latest, diagnoses, preview, previewCount, plan, plans, executions>>
vars == <<revision, discovery, selection, enumeration, latest, diagnoses, preview,
          previewCount, plan, plans, executions, op, disk, begun, ended>>

Outcomes == {"applied", "restored", "recovered", "recoveryFailed", "invalidated"}
Ends == Outcomes \union {"cancelled", "expired"}
Statuses == Ends \union {"none", "planned", "executing"}

PCs == {"idle", "invalidate", "validating", "discovering", "listing", "diagnosing",
        "loaded", "savePlanned", "commitPlan", "saveDropped", "saveCancelled",
        "saveUnused", "saveExecuting", "reinsert", "writing", "saveOutcome",
        "restoreSource", "record", "finish"}

Idle == [pc |-> "idle", next |-> "idle", rev |-> 0, parent |-> 0, seen |-> 0,
         plan |-> NoPlan, source |-> NoPlan, todo |-> {}, status |-> "none",
         warned |-> FALSE]

NoRecord == [rev |-> 0, status |-> "none"]
NoSelection == [id |-> 0, discovery |-> 0]
NoEnumeration == [id |-> 0, selection |-> 0]
NoPreview == [id |-> 0, diagnosis |-> 0, source |-> NoPlan, rev |-> 0,
              status |-> "ready", unparsed |-> FALSE]
NotCreated == [diagnosis |-> 0, preview |-> 0, source |-> NoPlan]

TypeOK ==
  /\ revision \in Nat
  /\ discovery \in Nat
  /\ selection \in [id : Nat, discovery : Nat]
  /\ enumeration \in [id : Nat, selection : Nat]
  /\ latest \in Nat
  /\ diagnoses \subseteq [id : Nat, enumeration : Nat]
  /\ preview \in [id : Nat, diagnosis : Nat, source : Plans \union {NoPlan},
                  rev : Nat, status : {"ready", "consumed"}, unparsed : BOOLEAN]
  /\ previewCount \in Nat
  /\ plan \in [Plans -> [diagnosis : Nat, preview : Nat, source : Plans \union {NoPlan}]]
  /\ plans \subseteq Plans
  /\ executions \subseteq [plan : Plans, status : Statuses, warned : BOOLEAN]
  /\ op \in [Handlers -> [pc : PCs, next : PCs, rev : Nat, parent : Nat, seen : Nat,
                          plan : Plans \union {NoPlan}, source : Plans \union {NoPlan},
                          todo : SUBSET Plans, status : Statuses, warned : BOOLEAN]]
  /\ disk \in [Plans -> [rev : Nat, status : Statuses]]
  /\ begun \in [Plans -> Nat]
  /\ ended \subseteq Plans

Init ==
  /\ revision = 0
  /\ discovery = 0
  /\ selection = NoSelection
  /\ enumeration = NoEnumeration
  /\ latest = 0
  /\ diagnoses = {}
  /\ preview = NoPreview
  /\ previewCount = 0
  /\ plan = [p \in Plans |-> NotCreated]
  /\ plans = {}
  /\ executions = {}
  /\ op = [h \in Handlers |-> Idle]
  /\ disk = [p \in Plans |-> NoRecord]
  /\ begun = [p \in Plans |-> 0]
  /\ ended = {}

-----------------------------------------------------------------------------
(* Helpers.                                                                *)

\* A handler takes up a command.
Calls(h, command) == op[h].pc = "idle" /\ command \in Commands

Goto(h, pc) == op' = [op EXCEPT ![h].pc = pc]
Done(h) == op' = [op EXCEPT ![h] = Idle]

\* The identifiers of plans that were never given out.
Fresh == {p \in Plans : plan[p] = NotCreated}

\* A file is named by snapshot and revision and the newest revision is read:
\* the record replaces one of its own revision and hides the older ones.
WithRecord(p, rev, status) ==
  [disk EXCEPT ![p] = IF rev >= @.rev THEN [rev |-> rev, status |-> status] ELSE @]

\* FileSnapshotStore.save returns Ok.
Saves(p, rev, status) ==
  /\ disk' = WithRecord(p, rev, status)
  /\ ended' = IF status \in Ends THEN ended \union {p} ELSE ended

\* save returns an error: before the rename, or after it (directory sync, prune).
FailsToSave(p, rev, status) ==
  /\ \/ "lost" \in StoreFaults /\ UNCHANGED disk
     \/ "durable" \in StoreFaults /\ disk' = WithRecord(p, rev, status)
  /\ UNCHANGED ended

\* retain_referenced_diagnoses: the latest one and those still referred to.
Retained(ds, last, pv, held, exs) ==
  { d \in ds : \/ d.id = last
               \/ d.id = pv.diagnosis
               \/ \E p \in held : d.id = plan[p].diagnosis
               \/ \E e \in exs : d.id = plan[e.plan].diagnosis }

-----------------------------------------------------------------------------
(* Commands that change the context: startup, discovery, selection,        *)
(* enumeration, diagnosis.  Each one advances the revision and drops what  *)
(* depended on the old context; the plans it drops are invalidated on disk *)
(* before it goes on.                                                      *)

\* advance and clear_after_diagnosis.
Supersede(h, next, parent) ==
  /\ revision < MaxRevision
  /\ revision' = revision + 1
  /\ latest' = 0
  /\ diagnoses' = {}
  /\ preview' = NoPreview
  /\ executions' = {}
  /\ plans' = {}
  /\ op' = [op EXCEPT ![h] =
              [Idle EXCEPT !.pc = IF plans = {} THEN next ELSE "invalidate",
                           !.next = next, !.rev = revision + 1,
                           !.parent = parent, !.todo = plans]]
  /\ UNCHANGED <<previewCount, plan, disk, history>>

\* invalidate_plans: one save after the other; the first that fails ends the
\* command and leaves the remaining records as they are.
InvalidatePlan(h) ==
  /\ op[h].pc = "invalidate"
  /\ \E p \in op[h].todo :
       \/ /\ Saves(p, 2, "invalidated")
          /\ op' = [op EXCEPT
                      ![h] = IF op[h].todo # {p}
                               THEN [op[h] EXCEPT !.todo = @ \ {p}]
                               ELSE IF op[h].next = "idle" THEN Idle
                               ELSE [op[h] EXCEPT !.todo = {}, !.pc = op[h].next]]
       \/ FailsToSave(p, 2, "invalidated") /\ Done(h)
  /\ UNCHANGED <<context, entities, begun>>

\* get_startup_state validates the saved path when nothing is selected ...
StartValidation(h) ==
  /\ Calls(h, "startup")
  /\ selection = NoSelection
  /\ Goto(h, "validating")
  /\ UNCHANGED <<context, entities, disk, history>>

\* ... and then selects it, whatever the session has come to meanwhile.
PublishStartup(h) ==
  /\ op[h].pc = "validating"
  /\ Done(h)
  /\ \/ /\ revision' = revision + 1
        /\ selection' = [id |-> revision + 1, discovery |-> 0]
     \/ UNCHANGED <<revision, selection>>         \* the path is not a usable adb
  /\ UNCHANGED <<discovery, enumeration, entities, disk, history>>

StartDiscovery(h) ==
  /\ Calls(h, "discover")
  /\ Supersede(h, "discovering", 0)
  /\ selection' = NoSelection
  /\ enumeration' = NoEnumeration
  /\ UNCHANGED discovery

PublishDiscovery(h) ==
  /\ op[h].pc = "discovering"
  /\ discovery' = IF revision = op[h].rev THEN op[h].rev ELSE discovery
  /\ Done(h)
  /\ UNCHANGED <<revision, selection, enumeration, entities, disk, history>>

\* select_adb_candidate (of the current discovery) and choose_adb_executable
\* (of none) end in select_and_persist; a failing save of the preferences
\* leaves everything as it is.
SelectAdb(h) ==
  /\ \/ /\ Calls(h, "select")
        /\ discovery # 0
        /\ selection' = [id |-> revision + 1, discovery |-> discovery]
     \/ /\ Calls(h, "choose")
        /\ selection' = [id |-> revision + 1, discovery |-> 0]
  /\ Supersede(h, "idle", 0)
  /\ enumeration' = NoEnumeration
  /\ UNCHANGED discovery

\* list_devices keeps the old enumeration until it has the new one.
StartListing(h) ==
  /\ Calls(h, "list")
  /\ selection # NoSelection
  /\ Supersede(h, "listing", selection.id)
  /\ UNCHANGED <<discovery, selection, enumeration>>

\* Fault: the revision is not compared after the wait.
ListingCurrentBySelection(h) == selection.id = op[h].parent

ListingCurrent(h) == revision = op[h].rev /\ selection.id = op[h].parent

\* The wait for `adb devices` ends: with an error, too late, or in time.
PublishEnumeration(h) ==
  /\ op[h].pc = "listing"
  /\ \/ UNCHANGED enumeration
     \/ /\ ListingCurrent(h)
        /\ enumeration' = [id |-> op[h].rev, selection |-> op[h].parent]
  /\ Done(h)
  /\ UNCHANGED <<revision, discovery, selection, entities, disk, history>>

\* resolve_diagnosis takes the current adb and the devices of the enumeration.
StartDiagnosis(h) ==
  /\ Calls(h, "diagnose")
  /\ selection # NoSelection
  /\ enumeration # NoEnumeration
  /\ Supersede(h, "diagnosing", enumeration.id)
  /\ UNCHANGED <<discovery, selection, enumeration>>

PublishDiagnosis(h) ==
  /\ op[h].pc = "diagnosing"
  /\ \/ UNCHANGED <<latest, diagnoses>>
     \/ /\ revision = op[h].rev
        /\ enumeration.id = op[h].parent
        /\ latest' = op[h].rev
        /\ diagnoses' = Retained(diagnoses \union {[id |-> op[h].rev, enumeration |-> op[h].parent]},
                                 op[h].rev, preview, plans, executions)
  /\ Done(h)
  /\ UNCHANGED <<context, preview, previewCount, plan, plans, executions, disk, history>>

-----------------------------------------------------------------------------
(* Previews.                                                               *)

\* The session stores one preview: a new one takes the place of the last.
StorePreview(source, unparsed) ==
  /\ latest # 0
  /\ previewCount < MaxPreviews
  /\ previewCount' = previewCount + 1
  /\ preview' = [id |-> previewCount + 1, diagnosis |-> latest, source |-> source,
                 rev |-> 1, status |-> "ready", unparsed |-> unparsed]
  /\ UNCHANGED <<context, latest, diagnoses, plan, plans, executions, disk, history>>

\* prepare_pin; without allow_unparsed an unfamiliar value blocks the preview.
PreparePin(h) ==
  /\ Calls(h, "pin")
  /\ \E unparsed \in BOOLEAN : StorePreview(NoPlan, unparsed)
  /\ UNCHANGED op

\* prepare_restore reads the snapshot before it takes the lock ...
LoadSource(h) ==
  /\ Calls(h, "restore")
  /\ \E p \in Plans :
       /\ disk[p].status = "applied"
       /\ op' = [op EXCEPT ![h] = [Idle EXCEPT !.pc = "loaded", !.source = p,
                                               !.parent = latest]]
  /\ UNCHANGED <<context, entities, disk, history>>

\* ... and works with what it read, for the diagnosis the caller named.
PrepareRestore(h) ==
  /\ op[h].pc = "loaded"
  /\ \/ latest = op[h].parent /\ StorePreview(op[h].source, FALSE)
     \/ UNCHANGED <<context, entities, disk, history>>   \* stale, or not eligible
  /\ Done(h)

AuthorizePreview(h) ==
  /\ Calls(h, "authorize")
  /\ preview # NoPreview
  /\ preview.diagnosis = latest
  /\ preview.status = "ready"
  /\ preview.rev = 1               \* bound: the frontend asks once
  /\ preview' = [preview EXCEPT !.unparsed = FALSE, !.rev = @ + 1]
  /\ UNCHANGED <<context, latest, diagnoses, previewCount, plan, plans, executions,
                 op, disk, history>>

-----------------------------------------------------------------------------
(* create_plan: copy the preview, save the snapshot as planned, and commit *)
(* the plan if the preview is still the one that was copied.               *)

CopyPreview(h) ==
  /\ Calls(h, "create")
  /\ preview # NoPreview
  /\ preview.diagnosis = latest
  /\ preview.status = "ready"
  /\ ~preview.unparsed
  /\ \E p \in Fresh :
       /\ plan' = [plan EXCEPT ![p] = [diagnosis |-> preview.diagnosis,
                                       preview |-> preview.id, source |-> preview.source]]
       /\ op' = [op EXCEPT ![h] = [Idle EXCEPT !.pc = "savePlanned", !.plan = p,
                                     !.rev = revision, !.seen = preview.rev]]
  /\ UNCHANGED <<context, latest, diagnoses, preview, previewCount, plans, executions,
                 disk, history>>

SavePlanned(h) ==
  /\ op[h].pc = "savePlanned"
  /\ \/ Saves(op[h].plan, 1, "planned") /\ Goto(h, "commitPlan")
     \/ FailsToSave(op[h].plan, 1, "planned") /\ Done(h)
  /\ UNCHANGED <<context, entities, begun>>

\* Fault: only the revision of the session is compared.
SessionUnchanged(h) == revision = op[h].rev /\ preview.id = plan[op[h].plan].preview

PreviewUnchanged(h) ==
  /\ revision = op[h].rev
  /\ preview.id = plan[op[h].plan].preview
  /\ preview.rev = op[h].seen

\* Fault: a plan that cannot be committed is forgotten with its record.
CommitOrForget(h) ==
  /\ op[h].pc = "commitPlan"
  /\ IF PreviewUnchanged(h)
       THEN /\ preview' = [preview EXCEPT !.status = "consumed", !.rev = @ + 1]
            /\ plans' = plans \union {op[h].plan}
       ELSE UNCHANGED <<preview, plans>>
  /\ Done(h)
  /\ UNCHANGED <<context, latest, diagnoses, previewCount, plan, executions, disk, history>>

CommitPlan(h) ==
  /\ op[h].pc = "commitPlan"
  /\ IF PreviewUnchanged(h)
       THEN /\ preview' = [preview EXCEPT !.status = "consumed", !.rev = @ + 1]
            /\ plans' = plans \union {op[h].plan}
            /\ Done(h)
       ELSE Goto(h, "saveDropped") /\ UNCHANGED <<preview, plans>>
  /\ UNCHANGED <<context, latest, diagnoses, previewCount, plan, executions, disk, history>>

SaveDropped(h) ==
  /\ op[h].pc = "saveDropped"
  /\ \/ Saves(op[h].plan, 2, "invalidated")
     \/ FailsToSave(op[h].plan, 2, "invalidated")
  /\ Done(h)
  /\ UNCHANGED <<context, entities, begun>>

-----------------------------------------------------------------------------
(* cancel_change_plan and execute_plan: a plan leaves the session when it  *)
(* is taken up, and comes back only if its record could not be saved.      *)

\* Fault: the plan is looked up and stays in the session.
LookedUp(p) == plans

Taken(p) == plans \ {p}

TakePlan(h, p, pc, status) ==
  /\ p \in plans
  /\ plans' = Taken(p)
  /\ op' = [op EXCEPT ![h] = [Idle EXCEPT !.pc = pc, !.plan = p, !.status = status]]
  /\ UNCHANGED <<context, latest, diagnoses, preview, previewCount, plan, executions,
                 disk, history>>

TakeToCancel(h) ==
  Calls(h, "cancel") /\ \E p \in plans : TakePlan(h, p, "saveCancelled", "cancelled")

\* execute_pin_plan called for a restore plan or the reverse: the plan is gone.
TakeWrongKind(h) ==
  /\ Calls(h, "mismatch")
  /\ \E p \in plans : plans' = Taken(p)
  /\ UNCHANGED <<context, latest, diagnoses, preview, previewCount, plan, executions,
                 op, disk, history>>

\* A plan whose diagnosis is not the latest is invalidated, an old one expires.
TakeToExecute(h) ==
  /\ Calls(h, "execute")
  /\ \E p \in plans :
       \/ latest = plan[p].diagnosis /\ TakePlan(h, p, "saveExecuting", "executing")
       \/ latest = plan[p].diagnosis /\ TakePlan(h, p, "saveUnused", "expired")
       \/ latest # plan[p].diagnosis /\ TakePlan(h, p, "saveUnused", "invalidated")

SaveCancelled(h) ==
  /\ op[h].pc = "saveCancelled"
  /\ \/ Saves(op[h].plan, 2, "cancelled") /\ Goto(h, "record")
     \/ FailsToSave(op[h].plan, 2, "cancelled") /\ Goto(h, "reinsert")
  /\ UNCHANGED <<context, entities, begun>>

\* The record of a plan that is not executed: on an error the plan is dropped.
SaveUnused(h) ==
  /\ op[h].pc = "saveUnused"
  /\ \/ Saves(op[h].plan, 2, op[h].status) /\ Goto(h, "record")
     \/ FailsToSave(op[h].plan, 2, op[h].status) /\ Done(h)
  /\ UNCHANGED <<context, entities, begun>>

\* record_execution
RecordExecution(h) ==
  /\ op[h].pc = "record"
  /\ executions' = executions \union
       {[plan |-> op[h].plan, status |-> op[h].status, warned |-> FALSE]}
  /\ Done(h)
  /\ UNCHANGED <<context, latest, diagnoses, preview, previewCount, plan, plans, disk, history>>

Reinsert(h) ==
  /\ op[h].pc = "reinsert"
  /\ plans' = plans \union {op[h].plan}
  /\ Done(h)
  /\ UNCHANGED <<context, latest, diagnoses, preview, previewCount, plan, executions,
                 disk, history>>

\* Fault: a failing save is noted and the execution goes on.
SaveExecutingOrGoOn(h) ==
  /\ op[h].pc = "saveExecuting"
  /\ \/ Saves(op[h].plan, 2, "executing")
     \/ FailsToSave(op[h].plan, 2, "executing")
  /\ Goto(h, "writing")
  /\ begun' = [begun EXCEPT ![op[h].plan] = @ + 1]
  /\ UNCHANGED <<context, entities>>

\* The record is on disk before execute_change is called.
SaveExecuting(h) ==
  /\ op[h].pc = "saveExecuting"
  /\ \/ /\ Saves(op[h].plan, 2, "executing")
        /\ Goto(h, "writing")
        /\ begun' = [begun EXCEPT ![op[h].plan] = @ + 1]
     \/ /\ FailsToSave(op[h].plan, 2, "executing")
        /\ Goto(h, "reinsert")
        /\ UNCHANGED begun
  /\ UNCHANGED <<context, entities>>

\* Fault: an Err of execute_change is taken for a status of the record.
VerdictsWithRejected(p) == {"rejected", "applied", "restored", "recovered", "recoveryFailed"}

\* The verdicts of execute_change, by the status its caller records.
Verdicts(p) == {"invalidated", "recovered", "recoveryFailed"} \union
  IF plan[p].source = NoPlan THEN {"applied"} ELSE {"restored"}

EndOfWriting(h) ==
  /\ op[h].pc = "writing"
  /\ \E v \in Verdicts(op[h].plan) :
       op' = [op EXCEPT ![h].pc = "saveOutcome", ![h].status = v]
  /\ UNCHANGED <<context, entities, disk, history>>

\* Fault: a change that was rejected is not saved again.
SaveOutcomeOfWrites(h) ==
  /\ op[h].pc = "saveOutcome"
  /\ \/ op[h].status # "invalidated" /\ Saves(op[h].plan, 3, op[h].status)
     \/ op[h].status = "invalidated" /\ UNCHANGED <<disk, ended>>
  /\ Goto(h, IF op[h].status = "restored" THEN "restoreSource" ELSE "finish")
  /\ UNCHANGED <<context, entities, begun>>

\* A failing save of the outcome is only a warning of the execution.
SaveOutcome(h) ==
  /\ op[h].pc = "saveOutcome"
  /\ \E failed \in BOOLEAN :
       /\ IF failed THEN FailsToSave(op[h].plan, 3, op[h].status)
                    ELSE Saves(op[h].plan, 3, op[h].status)
       /\ op' = [op EXCEPT
                   ![h].pc = IF op[h].status = "restored" THEN "restoreSource" ELSE "finish",
                   ![h].warned = failed]
  /\ UNCHANGED <<context, entities, begun>>

\* Fault: a source that cannot be saved is passed over like one that cannot be loaded.
RestoreSourceQuietly(h) ==
  LET s == plan[op[h].plan].source
      rev == disk[s].rev + 1 IN
  /\ op[h].pc = "restoreSource"
  /\ \/ disk[s].status = "applied" /\ Saves(s, rev, "restored")
     \/ disk[s].status = "applied" /\ FailsToSave(s, rev, "restored")
     \/ disk[s].status # "applied" /\ UNCHANGED <<disk, ended>>
  /\ Goto(h, "finish")
  /\ UNCHANGED <<context, entities, begun>>

\* The source is loaded again, must still be applied, and is saved as restored.
\* An error is a warning of the execution, but a load that fails is passed over.
\* Loading and saving is one step: between the two only another restore of the
\* same source could write it, and that one writes the same record.
RestoreSource(h) ==
  LET s == plan[op[h].plan].source
      rev == disk[s].rev + 1 IN
  /\ op[h].pc = "restoreSource"
  /\ \/ disk[s].status = "applied" /\ Saves(s, rev, "restored") /\ Goto(h, "finish")
     \/ "load" \in StoreFaults /\ UNCHANGED <<disk, ended>> /\ Goto(h, "finish")
     \/ /\ \/ disk[s].status = "applied" /\ FailsToSave(s, rev, "restored")
           \/ disk[s].status # "applied" /\ UNCHANGED <<disk, ended>>
        /\ op' = [op EXCEPT ![h].pc = "finish", ![h].warned = TRUE]
  /\ UNCHANGED <<context, entities, begun>>

\* Fault: the preview outlives the diagnosis.
FinishKeepsPreview(h) ==
  /\ op[h].pc = "finish"
  /\ revision' = revision + 1
  /\ latest' = 0
  /\ executions' = executions \union
       {[plan |-> op[h].plan, status |-> op[h].status, warned |-> op[h].warned]}
  /\ diagnoses' = Retained(diagnoses, 0, preview, plans, executions')
  /\ Done(h)
  /\ UNCHANGED <<discovery, selection, enumeration, preview, previewCount, plan, plans,
                 disk, history>>

\* The last critical section of an execution ends the current diagnosis.
FinishExecution(h) ==
  /\ op[h].pc = "finish"
  /\ revision' = revision + 1
  /\ latest' = 0
  /\ preview' = NoPreview
  /\ executions' = executions \union
       {[plan |-> op[h].plan, status |-> op[h].status, warned |-> op[h].warned]}
  /\ diagnoses' = Retained(diagnoses, 0, NoPreview, plans, executions')
  /\ Done(h)
  /\ UNCHANGED <<discovery, selection, enumeration, previewCount, plan, plans, disk, history>>

-----------------------------------------------------------------------------
\* The application ends and starts again: only the snapshots are left.
Restart ==
  /\ MayRestart
  /\ revision' = 0
  /\ discovery' = 0
  /\ selection' = NoSelection
  /\ enumeration' = NoEnumeration
  /\ latest' = 0
  /\ diagnoses' = {}
  /\ preview' = NoPreview
  /\ plans' = {}
  /\ executions' = {}
  /\ op' = [h \in Handlers |-> Idle]
  /\ UNCHANGED <<previewCount, plan, disk, history>>

\* The steps of a command that is under way.
Proceed(h) ==
  \/ InvalidatePlan(h)
  \/ PublishStartup(h)
  \/ PublishDiscovery(h)
  \/ PublishEnumeration(h)
  \/ PublishDiagnosis(h)
  \/ PrepareRestore(h)
  \/ SavePlanned(h)
  \/ CommitPlan(h)
  \/ SaveDropped(h)
  \/ SaveCancelled(h)
  \/ SaveUnused(h)
  \/ RecordExecution(h)
  \/ Reinsert(h)
  \/ SaveExecuting(h)
  \/ EndOfWriting(h)
  \/ SaveOutcome(h)
  \/ RestoreSource(h)
  \/ FinishExecution(h)

Call(h) ==
  \/ StartValidation(h)
  \/ StartDiscovery(h)
  \/ SelectAdb(h)
  \/ StartListing(h)
  \/ StartDiagnosis(h)
  \/ PreparePin(h)
  \/ LoadSource(h)
  \/ AuthorizePreview(h)
  \/ CopyPreview(h)
  \/ TakeToCancel(h)
  \/ TakeWrongKind(h)
  \/ TakeToExecute(h)

Next == Restart \/ \E h \in Handlers : Call(h) \/ Proceed(h)

Spec == Init /\ [][Next]_vars

\* Every wait is bounded by a timeout and every save returns.
FairSpec == Spec /\ \A h \in Handlers : WF_vars(Proceed(h))

-----------------------------------------------------------------------------
(* Properties.                                                             *)

\* "A late diagnosis cannot replace a newer device context": the latest
\* diagnosis is stored and was made for the enumeration that is current now.
DiagnosisFitsContext ==
  latest # 0 => [id |-> latest, enumeration |-> enumeration.id] \in diagnoses

\* A preview is always one of the latest diagnosis, so a plan that is
\* created from it cannot be based on an older device state.
PreviewFitsDiagnosis == preview # NoPreview => preview.diagnosis = latest

\* "IPC binds enumeration to Selection ID": the devices on offer were listed by
\* the adb that is selected, which is the adb a diagnosis would be made with.
EnumerationFitsSelection ==
  enumeration # NoEnumeration => enumeration.selection = selection.id

\* What was confirmed once is used once: of two concurrent create_plan calls on
\* a preview one finds it consumed, so plans that were committed, now or earlier,
\* do not share one, and a plan is executed at most once, whatever saves fail.
Committed(p) == p \in plans \/ begun[p] > 0
OneUse ==
  /\ \A p \in Plans : begun[p] <= 1
  /\ \A p, q \in Plans :
       Committed(p) /\ Committed(q) /\ plan[p].preview = plan[q].preview => p = q

\* "Execution persists executing before the first possible write": while
\* execute_change runs, the record on disk says so.
RecordedWhileWriting ==
  \A h \in Handlers : op[h].pc = "writing" =>
    disk[op[h].plan] = [rev |-> 2, status |-> "executing"]

\* "A terminal state that cannot be replayed": once the end of a plan has been
\* saved without an error its record never changes, but for an applied one
\* that is restored.
EndIsFinal ==
  [][\A p \in ended :
       \/ disk'[p] = disk[p]
       \/ disk[p].status = "applied" /\ disk'[p].status = "restored"]_vars

\* A restore that reports no warning has left its source restored on disk, as
\* long as the source can be read.
RestoreIsAccounted ==
  \A e \in executions : e.status = "restored" /\ ~e.warned =>
    disk[plan[e.plan].source].status = "restored"

\* The record of a planned change that nobody can execute any more is closed:
\* one that is still planned belongs to the session or to a command under way.
PlannedIsHeld ==
  \A p \in Plans : disk[p].status = "planned" =>
    \/ p \in plans
    \/ \E h \in Handlers : p = op[h].plan \/ p \in op[h].todo

\* A record that says executing does not stay so: the execution ends and is saved.
ExecutingSettles ==
  \A p \in Plans : disk[p].status = "executing" ~> disk[p].status \in Ends
=============================================================================
