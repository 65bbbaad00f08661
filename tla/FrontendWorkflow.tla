-------------------------- MODULE FrontendWorkflow --------------------------
(***************************************************************************)
(* The services of one session of the desktop frontend (apps/tauri-app/    *)
(* src/domain/*.ts), the backend commands they call, and the user.  A      *)
(* function of WorkflowService runs until it awaits a command; when the    *)
(* answer comes it runs on, handles the result, and may call again.        *)
(* Several of them can be under way, and answers come in any order.        *)
(*                                                                         *)
(* Abstractions: an EntityResource that is idle or invalidated is "none".  *)
(* A service compares a generation that it counts up when it makes or      *)
(* gives up a request; here it remembers the request it still waits for,   *)
(* which decides the same.  An entity is named by the revision it carries; *)
(* a plan and its execution are named by their preview.  Providers,        *)
(* snapshots, what is restored and what is pinned, the blockers that       *)
(* disable a button for good, and the text of errors are left out, and so  *)
(* is the answer to somebody else's request, which no command gives.  The  *)
(* tick that runDiagnosis needs is part of the click.                      *)
(***************************************************************************)
EXTENDS Naturals

CONSTANTS
  Calls,         \* functions of WorkflowService that can be under way at once
  NoCall,
  Devices,       \* the devices an enumeration offers
  Intents,       \* what the user does
  Errors,        \* errors with a cause outside of this model
  MaxRevision,   \* bound: no new context is served beyond it
  MaxPreviews    \* bound: number of previews the backend prepares

ASSUME ConstantsAssumption ==
  /\ NoCall \notin Calls
  /\ Errors \subseteq {"adb", "device", "other"}
  /\ MaxRevision \in Nat
  /\ MaxPreviews \in Nat

VARIABLES
  ui,        \* the signals of the services, and the requests they wait for
  call,      \* what each function under way awaits
  backend,   \* the session of the backend
  ticked     \* history: the preview and the plan the user has confirmed

vars == <<ui, call, backend, ticked>>

Services == {"discovery", "adb", "enumeration", "diagnosis", "preview", "plan",
             "execution", "inventory", "context", "recovery"}
States == {"none", "resolving", "resolved", "failed"}
Ops == {"discover", "select", "choose", "list", "diagnose", "prepare", "authorize",
        "create", "execute", "cancel", "snapshots", "reconcile"}
Levels == {"adb", "device", "diagnosis"}     \* RecoveryLevel, inferred from the code
Failures == Levels \union {"other"}

NoDevice == [enumeration |-> 0, device |-> NoCall]
None == [state |-> "none", id |-> 0, parent |-> 0]
NoAdb == [state |-> "none", id |-> 0, parent |-> 0, last |-> FALSE]
NoDiagnosis == [state |-> "none", id |-> 0, parent |-> NoDevice]
NoPreview == [state |-> "none", id |-> 0, parent |-> 0, unparsed |-> FALSE]
NoAnswer == [kind |-> "none", id |-> 0, revision |-> 0, latest |-> 0, unparsed |-> FALSE]
Idle == [op |-> "none", on |-> 0, of |-> NoDevice, then |-> "none", phase |-> "idle",
         answer |-> NoAnswer]

TypeOK ==
  LET Resource == [state : States, id : Nat, parent : Nat]
      Device == [enumeration : Nat, device : Devices \union {NoCall}] IN
  /\ ui \in [discovery : Resource, enumeration : Resource, plan : Resource,
             execution : Resource, inventory : States, device : Device,
             adb : [state : States, id : Nat, parent : Nat, last : BOOLEAN],
             diagnosis : [state : States, id : Nat, parent : Device],
             preview : [state : States, id : Nat, parent : Nat, unparsed : BOOLEAN],
             context : [state : States, revision : Nat, latest : Nat],
             risk : BOOLEAN, allow : BOOLEAN, confirmed : BOOLEAN,
             awaited : [Services -> Calls \union {NoCall}]]
  /\ call \in [Calls ->
       [op : Ops \union {"none"}, on : Nat, of : Device,
        then : Levels \union {"none", "handle", "stop", "execute", "restore"},
        phase : {"idle", "asked", "writing", "answered"},
        answer : [kind : Failures \union {"none", "entity"}, id : Nat, revision : Nat,
                  latest : Nat, unparsed : BOOLEAN]]]
  /\ backend \in [revision : Nat, discovery : Nat, selection : Nat, enumeration : Nat,
                  latest : Nat, previews : Nat,
                  preview : [id : Nat, unparsed : BOOLEAN],
                  plans : SUBSET [id : Nat, diagnosis : Nat], writing : SUBSET Nat]
  /\ ticked \in [risk : Nat, device : Nat]

\* The session starts with the adb that start() found again by its saved path.
Init ==
  /\ ui = [discovery |-> [state |-> "resolved", id |-> 1, parent |-> 0],
           adb |-> [state |-> "resolved", id |-> 2, parent |-> 1, last |-> TRUE],
           enumeration |-> None, device |-> NoDevice, diagnosis |-> NoDiagnosis,
           preview |-> NoPreview, plan |-> None, execution |-> None,
           inventory |-> "none",
           context |-> [state |-> "resolved", revision |-> 2, latest |-> 0],
           risk |-> FALSE, allow |-> FALSE, confirmed |-> FALSE,
           awaited |-> [s \in Services |-> NoCall]]
  /\ call = [c \in Calls |-> Idle]
  /\ backend = [revision |-> 2, discovery |-> 1, selection |-> 2, enumeration |-> 0,
                latest |-> 0, previews |-> 0, preview |-> [id |-> 0, unparsed |-> FALSE],
                plans |-> {}, writing |-> {}]
  /\ ticked = [risk |-> 0, device |-> 0]

-----------------------------------------------------------------------------
(* What is on screen.                                                      *)

\* A diagnosis that is not the latest one of the session is not a result.
Outdated == ui.context.state = "resolved" /\ ui.context.latest # ui.diagnosis.id

\* deriveView: the first of these that applies.
View ==
  IF ui.plan.state = "resolved"
    THEN IF ui.execution.state = "resolving" THEN "applying" ELSE "plan"
  ELSE IF ui.preview.state = "resolved" THEN "preview"
  ELSE IF ui.execution.state = "resolved" THEN "outcome"
  ELSE IF ui.inventory = "resolved" THEN "snapshots"
  ELSE IF ui.diagnosis.state = "resolving" THEN "diagnosing"
  ELSE IF ui.diagnosis.state = "failed" THEN "diagnosisError"
  ELSE IF ui.diagnosis.state = "resolved" /\ ~Outdated THEN "result"
  ELSE IF ui.device # NoDevice THEN "confirmation"
  ELSE IF ui.enumeration.state = "resolved" THEN "devices"
  ELSE "adb"

Busy ==
  \/ ui.inventory = "resolving"
  \/ \E s \in Services \ {"inventory", "context", "recovery"} : ui[s].state = "resolving"

-----------------------------------------------------------------------------
(* Invalidation.  A service that gives up an entity gives up its request   *)
(* too, and tells the services that depend on it, which do the same.       *)

\* Fault: what is kept is not only an outcome.
WithoutExecutionOrKept(f, keepOutcome) ==
  [f EXCEPT !.awaited.execution = NoCall, !.execution = IF keepOutcome THEN @ ELSE None]

WithoutExecution(f, keepOutcome) ==
  [f EXCEPT !.awaited.execution = NoCall,
            !.execution = IF keepOutcome /\ @.state = "resolved" THEN @ ELSE None]

WithoutPlan(f, keepOutcome) ==
  WithoutExecution([f EXCEPT !.awaited.plan = NoCall, !.plan = None], keepOutcome)

WithoutPreview(f, keepOutcome) ==
  WithoutPlan([f EXCEPT !.awaited.preview = NoCall, !.preview = NoPreview,
                        !.risk = FALSE, !.allow = FALSE, !.confirmed = FALSE],
              keepOutcome)

\* Fault: an outcome goes with the diagnosis it came from.
WithoutDiagnosisOrOutcome(f) ==
  WithoutPreview([f EXCEPT !.awaited.diagnosis = NoCall, !.diagnosis = NoDiagnosis], FALSE)

WithoutDiagnosis(f) ==
  WithoutPreview([f EXCEPT !.awaited.diagnosis = NoCall, !.diagnosis = NoDiagnosis], TRUE)

WithoutDevice(f) == WithoutDiagnosis([f EXCEPT !.device = NoDevice])

\* Fault: the generation is left as it is, so a late enumeration is taken.
EnumerationStillAwaited(f) == WithoutDevice([f EXCEPT !.enumeration = None])

WithoutEnumeration(f) ==
  WithoutDevice([f EXCEPT !.awaited.enumeration = NoCall, !.enumeration = None])

\* An invalidated selection remembers what was selected last.
WithoutAdb(f) ==
  WithoutEnumeration(
    [f EXCEPT !.awaited.adb = NoCall,
              !.adb = [NoAdb EXCEPT !.last = f.adb.last]])

\* finishPlan and consumePreview stop short of what depends on the entity.
FinishedPlan(f) == [f EXCEPT !.awaited.plan = NoCall, !.plan = None]
ConsumedPreview(f) ==
  [f EXCEPT !.awaited.preview = NoCall, !.preview = NoPreview, !.risk = FALSE, !.allow = FALSE]

\* observeRevision: an older revision is ignored.
Observed(f, revision, latest) ==
  IF f.context.state = "resolved" /\ f.context.revision > revision THEN f
  ELSE [f EXCEPT !.context = [state |-> "resolved", revision |-> revision, latest |-> latest]]

-----------------------------------------------------------------------------
(* Requests.  c is the function that makes one and awaits it, f the state  *)
(* of the services at that point, then what follows the result: the user   *)
(* is shown it ("handle", and what execute and restore add), or it is the  *)
(* end of a recovery ("stop").                                             *)

Ask(c, op, on, then) ==
  call' = [call EXCEPT ![c] = [Idle EXCEPT !.op = op, !.on = on, !.then = then,
                                           !.phase = "asked"]]

Done(c) == call' = [call EXCEPT ![c] = Idle]

\* handle: a stale entity is looked up in the backend, anything else is shown.
Reconcile(c, f, level) ==
  /\ ui' = [f EXCEPT !.awaited.recovery = c, !.awaited.context = c,
                     !.context = [state |-> "resolving", revision |-> 0, latest |-> 0]]
  /\ Ask(c, "reconcile", 0, level)

\* Fault: every error is taken for a stale entity.
AlwaysRecover(c, f, error, then) ==
  IF then # "stop" THEN Reconcile(c, f, error) ELSE ui' = f /\ Done(c)

Fail(c, f, error, then) ==
  IF then # "stop" /\ error \in Levels
    THEN Reconcile(c, f, error)
    ELSE ui' = f /\ Done(c)

\* AdbService.discover looks for what was selected last.
StartDiscovery(c, f, then) ==
  /\ ui' = [WithoutAdb(f) EXCEPT !.awaited.discovery = c,
                                 !.discovery = [None EXCEPT !.state = "resolving"]]
  /\ Ask(c, "discover", IF f.adb.last THEN 1 ELSE 0, then)

\* selectCandidate
StartSelection(c, f, then) ==
  /\ ui' = [f EXCEPT !.awaited.adb = c,
                     !.adb = [NoAdb EXCEPT !.state = "resolving", !.parent = f.discovery.id]]
  /\ Ask(c, "select", f.discovery.id, then)

\* DeviceService.list
StartListing(c, f, then) ==
  IF f.adb.state = "resolved"
    THEN /\ ui' = [WithoutDevice(f) EXCEPT
                     !.awaited.enumeration = c,
                     !.enumeration = [state |-> "resolving", id |-> 0, parent |-> f.adb.id]]
         /\ Ask(c, "list", f.adb.id, then)
    ELSE Fail(c, f, "adb", then)

\* DiagnosisService.resolve
StartDiagnosis(c, f, then) ==
  IF f.device # NoDevice
    THEN /\ ui' = [WithoutDiagnosis(f) EXCEPT
                     !.awaited.diagnosis = c,
                     !.diagnosis = [state |-> "resolving", id |-> 0, parent |-> f.device]]
         /\ call' = [call EXCEPT ![c] = [Idle EXCEPT !.op = "diagnose", !.of = f.device,
                                           !.then = then, !.phase = "asked"]]
    ELSE Fail(c, f, "device", then)

\* preparePin, and prepareRestore with a diagnosis at hand.
StartPreview(c, f) ==
  /\ ui' = [WithoutPreview(f, FALSE) EXCEPT
              !.awaited.preview = c,
              !.preview = [NoPreview EXCEPT !.state = "resolving", !.parent = f.diagnosis.id]]
  /\ Ask(c, "prepare", f.diagnosis.id, "handle")

\* The result is good, or nobody waits for it any more.
Succeed(c, f, then) ==
  CASE then = "restore" /\ f.diagnosis.state = "resolved" -> StartPreview(c, f)
    [] then = "execute" -> ui' = WithoutDiagnosis(f) /\ Done(c)
    [] OTHER -> ui' = f /\ Done(c)

-----------------------------------------------------------------------------
(* What each view offers: the controls on it that are not disabled.        *)

AdbView(intent) ==
  /\ intent \in {"refreshAdb", "selectAdb", "chooseAdb", "continue"}
  /\ ~Busy
  /\ intent = "selectAdb" => ui.discovery.state = "resolved"
  /\ intent = "continue" => ui.adb.state = "resolved"

DeviceView(intent) ==
  \/ intent \in {"selectDevice", "backToAdb"}
  \/ intent = "continue" /\ ~Busy

ConfirmationView(intent) == intent = "backToDevices" \/ (intent = "diagnose" /\ ~Busy)

DiagnosisErrorView(intent) == intent \in {"diagnose", "backToDevices"}

DiagnosisView(intent) ==
  \/ intent \in {"snapshots", "backToAdb"}
  \/ intent = "pin" /\ ~Busy

ChangePreviewView(intent) ==
  \/ intent \in {"closePreview", "tickRisk"}
  \/ intent = "tickUnparsed" /\ ui.preview.unparsed
  \/ intent = "createPlan" /\ ~Busy /\ ui.risk /\ (ui.preview.unparsed => ui.allow)

\* Fault: the tick is not required.
PlanViewUnconfirmed(intent) ==
  \/ intent \in {"tickDevice", "cancelPlan"}
  \/ intent = "executePlan" /\ ~Busy

PlanView(intent) ==
  \/ intent \in {"tickDevice", "cancelPlan"}
  \/ intent = "executePlan" /\ ui.confirmed /\ ~Busy

OutcomeView(intent) == intent \in {"snapshots", "finish"}

SnapshotsView(intent) == intent = "closeSnapshots" \/ (intent = "restore" /\ ~Busy)

\* SessionView: one of the views; the two that wait offer nothing.
Offered(intent) ==
  CASE View = "adb" -> AdbView(intent)
    [] View = "devices" -> DeviceView(intent)
    [] View = "confirmation" -> ConfirmationView(intent)
    [] View = "diagnosisError" -> DiagnosisErrorView(intent)
    [] View = "result" -> DiagnosisView(intent)
    [] View = "preview" -> ChangePreviewView(intent)
    [] View = "plan" -> PlanView(intent)
    [] View = "outcome" -> OutcomeView(intent)
    [] View = "snapshots" -> SnapshotsView(intent)
    [] View \in {"diagnosing", "applying"} -> FALSE

-----------------------------------------------------------------------------
(* The user, who can do what the view offers.                              *)

Clicks(intent) ==
  /\ intent \in Intents
  /\ Offered(intent)
  /\ UNCHANGED backend

\* A click that is over when it is handled.
Navigates(intent) == Clicks(intent) /\ UNCHANGED call

\* A click that starts a function in a free slot.
Starts(c, intent) ==
  /\ Clicks(intent)
  /\ call[c] = Idle
  /\ UNCHANGED ticked

RefreshAdb(c) == Starts(c, "refreshAdb") /\ StartDiscovery(c, ui, "handle")

SelectAdb(c) == Starts(c, "selectAdb") /\ StartSelection(c, WithoutAdb(ui), "handle")

\* chooseExecutable leaves the selection as it is until a file is chosen.
ChooseAdb(c) ==
  /\ Starts(c, "chooseAdb")
  /\ ui' = [ui EXCEPT !.awaited.adb = c]
  /\ Ask(c, "choose", 0, "handle")

ContinueToDevices(c) == Starts(c, "continue") /\ StartListing(c, ui, "handle")

SelectDevice ==
  /\ Navigates("selectDevice")
  /\ \E d \in Devices :
       ui' = [WithoutDevice(ui) EXCEPT !.device = [enumeration |-> ui.enumeration.id,
                                                   device |-> d]]
  /\ UNCHANGED ticked

BackToAdb == Navigates("backToAdb") /\ ui' = WithoutEnumeration(ui) /\ UNCHANGED ticked

BackToDevices == Navigates("backToDevices") /\ ui' = WithoutDevice(ui) /\ UNCHANGED ticked

\* runDiagnosis and retryDiagnosis.
RunDiagnosis(c) == Starts(c, "diagnose") /\ StartDiagnosis(c, ui, "handle")

PreparePin(c) == Starts(c, "pin") /\ StartPreview(c, ui)

OpenSnapshots(c) ==
  /\ Starts(c, "snapshots")
  /\ ui' = [WithoutExecution(ui, FALSE) EXCEPT !.awaited.inventory = c,
                                               !.inventory = "resolving"]
  /\ Ask(c, "snapshots", 0, "handle")

WithoutInventory(f) == [f EXCEPT !.awaited.inventory = NoCall, !.inventory = "none"]

CloseSnapshots ==
  Navigates("closeSnapshots") /\ ui' = WithoutInventory(ui) /\ UNCHANGED ticked

\* Without a diagnosis one is made first.
PrepareRestore(c) ==
  /\ Starts(c, "restore")
  /\ IF ui.diagnosis.state = "resolved"
       THEN StartPreview(c, ui)
       ELSE StartDiagnosis(c, ui, "restore")

ClosePreview ==
  Navigates("closePreview") /\ ui' = WithoutPreview(ui, FALSE) /\ UNCHANGED ticked

TickRisk ==
  /\ Navigates("tickRisk")
  /\ ui' = [ui EXCEPT !.risk = ~@]
  /\ ticked' = [ticked EXCEPT !.risk = ui.preview.id]

TickUnparsed ==
  Navigates("tickUnparsed") /\ ui' = [ui EXCEPT !.allow = ~@] /\ UNCHANGED ticked

CreatePlan(c) ==
  /\ Starts(c, "createPlan")
  /\ IF ui.preview.parent = ui.diagnosis.id
       THEN /\ ui' = [ui EXCEPT !.awaited.plan = c,
                        !.plan = [state |-> "resolving", id |-> 0,
                                  parent |-> ui.preview.parent]]
            /\ Ask(c, IF ui.preview.unparsed THEN "authorize" ELSE "create", ui.preview.id,
                   "handle")
       ELSE Fail(c, ui, "diagnosis", "handle")

TickDevice ==
  /\ Navigates("tickDevice")
  /\ ui' = [ui EXCEPT !.confirmed = ~@]
  /\ ticked' = [ticked EXCEPT !.device = IF ui.confirmed THEN 0 ELSE ui.plan.id]

ExecutePlan(c) ==
  /\ Starts(c, "executePlan")
  /\ ui' = [ui EXCEPT !.awaited.execution = c,
                      !.execution = [state |-> "resolving", id |-> ui.plan.id,
                                     parent |-> ui.plan.parent]]
  /\ Ask(c, "execute", ui.plan.id, "execute")

\* cancelPlan changes nothing until it has its answer.
CancelPlan(c) ==
  /\ Starts(c, "cancelPlan")
  /\ Ask(c, "cancel", ui.plan.id, "handle")
  /\ UNCHANGED ui

FinishAndDiagnoseAgain(c) ==
  /\ Starts(c, "finish")
  /\ StartDiagnosis(c, WithoutExecution(WithoutInventory(ui), FALSE), "handle")

-----------------------------------------------------------------------------
(* The backend, one command at a time: BackendSession has the steps of     *)
(* each and their interleavings.                                           *)

Asked(c, op) ==
  /\ call[c].op = op
  /\ call[c].phase = "asked"
  /\ UNCHANGED <<ui, ticked>>

Answer(c, b, kind, id) ==
  /\ backend' = b
  /\ call' = [call EXCEPT ![c].phase = "answered",
                          ![c].answer = [kind |-> kind, id |-> id, revision |-> b.revision,
                                         latest |-> b.latest,
                                         unparsed |-> b.preview.unparsed]]

Refuse(c, kinds) == \E kind \in kinds : Answer(c, backend, kind, 0)

Superseded ==
  [backend EXCEPT !.revision = @ + 1, !.latest = 0, !.plans = {},
                  !.preview = [id |-> 0, unparsed |-> FALSE]]

\* A command that advances the revision: what it publishes, or an error that
\* comes after the old context is gone.
Advance(c, published, kinds) ==
  /\ backend.revision < MaxRevision
  /\ \/ Answer(c, published, "entity", published.revision)
     \/ \E kind \in kinds \intersect Errors : Answer(c, Superseded, kind, 0)

ServeDiscover(c) ==
  /\ Asked(c, "discover")
  /\ LET begun == [Superseded EXCEPT !.selection = 0, !.enumeration = 0] IN
     /\ backend.revision < MaxRevision
     /\ \/ Answer(c, [begun EXCEPT !.discovery = begun.revision], "entity", begun.revision)
        \/ \E kind \in {"adb", "other"} \intersect Errors : Answer(c, begun, kind, 0)

Selected == [Superseded EXCEPT !.selection = backend.revision + 1, !.enumeration = 0]

ServeSelect(c) ==
  /\ Asked(c, "select")
  /\ \/ /\ backend.discovery = call[c].on
        /\ backend.revision < MaxRevision
        /\ Answer(c, Selected, "entity", Selected.revision)
     \/ backend.discovery # call[c].on /\ Refuse(c, {"adb"})
     \/ Refuse(c, {"other"} \intersect Errors)

\* The dialog may be closed without a choice.
ServeChoose(c) ==
  /\ Asked(c, "choose")
  /\ \/ Answer(c, backend, "entity", 0)
     \/ backend.revision < MaxRevision /\ Answer(c, Selected, "entity", Selected.revision)
     \/ Refuse(c, {"other"} \intersect Errors)

ServeList(c) ==
  /\ Asked(c, "list")
  /\ \/ /\ backend.selection = call[c].on
        /\ Advance(c, [Superseded EXCEPT !.enumeration = backend.revision + 1],
                   {"adb", "other"})
     \/ backend.selection # call[c].on /\ Refuse(c, {"adb"})

ServeDiagnose(c) ==
  /\ Asked(c, "diagnose")
  /\ \/ backend.selection = 0 /\ Refuse(c, {"adb"})
     \/ /\ backend.selection # 0
        /\ backend.enumeration # call[c].of.enumeration
        /\ Refuse(c, {"device"})
     \/ /\ backend.selection # 0
        /\ backend.enumeration = call[c].of.enumeration
        /\ Advance(c, [Superseded EXCEPT !.latest = backend.revision + 1],
                   {"device", "other"})

\* Of a pin, which may need consent to values it cannot parse, or a restore.
ServePrepare(c) ==
  /\ Asked(c, "prepare")
  /\ \/ /\ backend.latest = call[c].on
        /\ backend.previews < MaxPreviews
        /\ \E unparsed \in BOOLEAN :
             Answer(c, [backend EXCEPT !.previews = @ + 1,
                          !.preview = [id |-> backend.previews + 1, unparsed |-> unparsed]],
                    "entity", backend.previews + 1)
     \/ backend.latest # call[c].on /\ Refuse(c, {"diagnosis"})
     \/ Refuse(c, {"other"} \intersect Errors)

ServeAuthorize(c) ==
  /\ Asked(c, "authorize")
  /\ IF backend.preview.id = call[c].on
       THEN Answer(c, [backend EXCEPT !.preview.unparsed = FALSE], "entity", call[c].on)
       ELSE Refuse(c, {"diagnosis"})

\* The preview is consumed; it cannot be authorized or planned again.
ServeCreate(c) ==
  /\ Asked(c, "create")
  /\ \/ /\ backend.preview.id = call[c].on
        /\ Answer(c, [backend EXCEPT
                        !.preview = [id |-> 0, unparsed |-> FALSE],
                        !.plans = @ \union {[id |-> call[c].on, diagnosis |-> backend.latest]}],
                  "entity", call[c].on)
     \/ backend.preview.id # call[c].on /\ Refuse(c, {"diagnosis"})
     \/ Refuse(c, {"other"} \intersect Errors)

\* The plan is taken and written, taken and dropped, kept, or not there.
ServeExecute(c) ==
  /\ Asked(c, "execute")
  /\ \/ \E p \in backend.plans :
          /\ p.id = call[c].on
          /\ LET taken == [backend EXCEPT !.plans = @ \ {p}] IN
             \/ \E kind \in {"entity"} \union ({"other"} \intersect Errors) :
                  Answer(c, taken, kind, p.id)              \* expired, or not current
             \/ /\ p.diagnosis = backend.latest
                /\ backend' = [taken EXCEPT !.writing = @ \union {p.id}]
                /\ call' = [call EXCEPT ![c].phase = "writing"]
     \/ (\A p \in backend.plans : p.id # call[c].on) /\ Refuse(c, {"diagnosis"})
     \/ Refuse(c, {"other"} \intersect Errors)

\* Whatever came of it, the diagnosis is not current any more.
FinishExecution(c) ==
  /\ call[c].phase = "writing"
  /\ Answer(c, [backend EXCEPT !.writing = @ \ {call[c].on}, !.revision = @ + 1, !.latest = 0,
                               !.preview = [id |-> 0, unparsed |-> FALSE]],
            "entity", call[c].on)
  /\ UNCHANGED <<ui, ticked>>

ServeCancel(c) ==
  /\ Asked(c, "cancel")
  /\ \/ \E p \in backend.plans :
          p.id = call[c].on /\ Answer(c, [backend EXCEPT !.plans = @ \ {p}], "entity", p.id)
     \/ (\A p \in backend.plans : p.id # call[c].on) /\ Refuse(c, {"diagnosis"})
     \/ Refuse(c, {"other"} \intersect Errors)

ServeRead(c) ==
  \/ Asked(c, "reconcile") /\ Answer(c, backend, "entity", 0)
  \/ Asked(c, "snapshots") /\ Refuse(c, {"entity"} \union ({"other"} \intersect Errors))

-----------------------------------------------------------------------------
(* The answers.  Of a request the service does not wait for any more, a    *)
(* good one is passed over; an error still goes to the user and to handle. *)

Answered(c, op) ==
  /\ call[c].op = op
  /\ call[c].phase = "answered"
  /\ UNCHANGED <<backend, ticked>>

Good(c) == call[c].answer.kind = "entity"

\* Fault: an answer is taken whether it is awaited or not.
AnyAnswer(c, service) == TRUE

Awaited(c, service) == ui.awaited[service] = c

Late(c, service) ==
  /\ ~Awaited(c, service)
  /\ IF Good(c)
       THEN Succeed(c, ui, call[c].then)
       ELSE Fail(c, ui, call[c].answer.kind, call[c].then)

\* The error of a request that is awaited: the resource has failed.
Failed(c, service) ==
  /\ Awaited(c, service)
  /\ ~Good(c)
  /\ Fail(c, [ui EXCEPT ![service].state = "failed", !.awaited[service] = NoCall],
          call[c].answer.kind, call[c].then)

InTime(c, service) == Awaited(c, service) /\ Good(c)

DeliverDiscovery(c) ==
  /\ Answered(c, "discover")
  /\ \/ Late(c, "discovery")
     \/ Failed(c, "discovery")
     \/ /\ InTime(c, "discovery")
        /\ LET f == Observed([ui EXCEPT !.awaited.discovery = NoCall,
                                !.discovery = [state |-> "resolved", id |-> call[c].answer.id,
                                               parent |-> 0]],
                             call[c].answer.revision, ui.context.latest) IN
           \/ call[c].on = 1 /\ StartSelection(c, f, call[c].then)
           \/ Succeed(c, f, call[c].then)            \* it is not there any more

\* A selection that is published makes the enumeration outdated.
WithSelection(c, f, discovery) ==
  WithoutEnumeration(
    Observed([f EXCEPT !.awaited.adb = NoCall,
                       !.adb = [state |-> "resolved", id |-> call[c].answer.id,
                                parent |-> discovery, last |-> TRUE]],
             call[c].answer.revision, ui.context.latest))

DeliverSelection(c) ==
  /\ Answered(c, "select")
  /\ \/ Late(c, "adb")
     \/ Failed(c, "adb")
     \/ InTime(c, "adb") /\ Succeed(c, WithSelection(c, ui, call[c].on), call[c].then)

DeliverChoice(c) ==
  /\ Answered(c, "choose")
  /\ \/ Late(c, "adb")
     \/ /\ Awaited(c, "adb") /\ ~Good(c)
        /\ Fail(c, [ui EXCEPT !.awaited.adb = NoCall], call[c].answer.kind, "handle")
     \/ /\ InTime(c, "adb")
        /\ Succeed(c, IF call[c].answer.id = 0 THEN [ui EXCEPT !.awaited.adb = NoCall]
                      ELSE WithSelection(c, WithoutAdb(ui), 0), "handle")

DeliverEnumeration(c) ==
  /\ Answered(c, "list")
  /\ \/ Late(c, "enumeration")
     \/ Failed(c, "enumeration")
     \/ /\ InTime(c, "enumeration")
        /\ Succeed(c, WithoutDiagnosis(
             Observed([ui EXCEPT !.awaited.enumeration = NoCall,
                         !.enumeration = [state |-> "resolved", id |-> call[c].answer.id,
                                          parent |-> call[c].on]],
                      call[c].answer.revision, ui.context.latest)), call[c].then)

DeliverDiagnosis(c) ==
  /\ Answered(c, "diagnose")
  /\ \/ Late(c, "diagnosis")
     \/ Failed(c, "diagnosis")
     \/ /\ InTime(c, "diagnosis")
        /\ Succeed(c, Observed([ui EXCEPT !.awaited.diagnosis = NoCall,
                                  !.diagnosis = [state |-> "resolved", id |-> call[c].answer.id,
                                                 parent |-> call[c].of]],
                               call[c].answer.revision, call[c].answer.id), call[c].then)

DeliverPreview(c) ==
  /\ Answered(c, "prepare")
  /\ \/ Late(c, "preview")
     \/ Failed(c, "preview")
     \/ /\ InTime(c, "preview")
        /\ Succeed(c, [ui EXCEPT !.awaited.preview = NoCall,
                         !.preview = [state |-> "resolved", id |-> call[c].answer.id,
                                      parent |-> call[c].on,
                                      unparsed |-> call[c].answer.unparsed]], "handle")

\* createPlan gives up the preview when it fails.
PlanFailed(c) ==
  /\ Awaited(c, "plan") /\ ~Good(c)
  /\ Fail(c, WithoutPreview(ui, FALSE), call[c].answer.kind, "handle")

DeliverAuthorization(c) ==
  /\ Answered(c, "authorize")
  /\ \/ Late(c, "plan")
     \/ PlanFailed(c)
     \/ /\ InTime(c, "plan")
        /\ ui' = [ui EXCEPT !.preview.unparsed = FALSE]
        /\ Ask(c, "create", call[c].on, "handle")

DeliverPlan(c) ==
  /\ Answered(c, "create")
  /\ \/ Late(c, "plan")
     \/ PlanFailed(c)
     \/ /\ InTime(c, "plan")
        /\ Succeed(c, ConsumedPreview([ui EXCEPT !.awaited.plan = NoCall,
                                         !.plan = [@ EXCEPT !.state = "resolved",
                                                            !.id = call[c].answer.id]]),
                   "handle")

\* A late result is passed over, and yet the diagnosis goes.
DeliverExecution(c) ==
  /\ Answered(c, "execute")
  /\ \/ Late(c, "execution")
     \/ /\ Awaited(c, "execution")
        /\ LET settled(state) ==
                 FinishedPlan([ui EXCEPT !.awaited.execution = NoCall, !.execution.state = state])
           IN IF Good(c) THEN Succeed(c, settled("resolved"), "execute")
              ELSE Fail(c, settled("failed"), call[c].answer.kind, "execute")

\* cancelPlan does not ask whether its plan is still the one on screen.
DeliverCancellation(c) ==
  /\ Answered(c, "cancel")
  /\ IF Good(c)
       THEN Succeed(c, WithoutPreview(ui, FALSE), "handle")
       ELSE Fail(c, WithoutPreview(ui, FALSE), call[c].answer.kind, "handle")

DeliverInventory(c) ==
  /\ Answered(c, "snapshots")
  /\ \/ Late(c, "inventory")
     \/ /\ Awaited(c, "inventory")
        /\ LET f == [ui EXCEPT !.awaited.inventory = NoCall,
                               !.inventory = IF Good(c) THEN "resolved" ELSE "failed"] IN
           IF Good(c) THEN Succeed(c, f, "handle")
           ELSE Fail(c, f, call[c].answer.kind, "handle")

\* reconcile, and the rest of handle unless another recovery has begun.
DeliverContext(c) ==
  LET answer == call[c].answer
      known == [ui EXCEPT !.awaited.context = NoCall,
                  !.context = [state |-> "resolved", revision |-> answer.revision,
                               latest |-> answer.latest]]
      f == IF ~Awaited(c, "context") THEN ui
           ELSE IF ui.diagnosis.state = "resolved" /\ ui.diagnosis.id # answer.latest
             THEN WithoutDiagnosis(known)
           ELSE known
      g == [f EXCEPT !.awaited.recovery = NoCall] IN
  /\ Answered(c, "reconcile")
  /\ CASE ~Awaited(c, "recovery") -> ui' = f /\ Done(c)
       [] Awaited(c, "recovery") /\ call[c].then = "adb" -> StartDiscovery(c, g, "stop")
       [] Awaited(c, "recovery") /\ call[c].then = "device" -> StartListing(c, g, "stop")
       [] Awaited(c, "recovery") /\ call[c].then = "diagnosis" -> StartDiagnosis(c, g, "stop")

-----------------------------------------------------------------------------

Act(c) ==
  \/ RefreshAdb(c)
  \/ SelectAdb(c)
  \/ ChooseAdb(c)
  \/ ContinueToDevices(c)
  \/ RunDiagnosis(c)
  \/ PreparePin(c)
  \/ OpenSnapshots(c)
  \/ PrepareRestore(c)
  \/ CreatePlan(c)
  \/ ExecutePlan(c)
  \/ CancelPlan(c)
  \/ FinishAndDiagnoseAgain(c)

Navigate ==
  \/ SelectDevice
  \/ BackToAdb
  \/ BackToDevices
  \/ CloseSnapshots
  \/ ClosePreview
  \/ TickRisk
  \/ TickUnparsed
  \/ TickDevice

Serve(c) ==
  \/ ServeDiscover(c)
  \/ ServeSelect(c)
  \/ ServeChoose(c)
  \/ ServeList(c)
  \/ ServeDiagnose(c)
  \/ ServePrepare(c)
  \/ ServeAuthorize(c)
  \/ ServeCreate(c)
  \/ ServeExecute(c)
  \/ FinishExecution(c)
  \/ ServeCancel(c)
  \/ ServeRead(c)

Deliver(c) ==
  \/ DeliverDiscovery(c)
  \/ DeliverSelection(c)
  \/ DeliverChoice(c)
  \/ DeliverEnumeration(c)
  \/ DeliverDiagnosis(c)
  \/ DeliverPreview(c)
  \/ DeliverAuthorization(c)
  \/ DeliverPlan(c)
  \/ DeliverExecution(c)
  \/ DeliverCancellation(c)
  \/ DeliverInventory(c)
  \/ DeliverContext(c)

Next == Navigate \/ \E c \in Calls : Act(c) \/ Serve(c) \/ Deliver(c)

Spec == Init /\ [][Next]_vars

-----------------------------------------------------------------------------
(* Properties.                                                             *)

Underway(resource) == resource.state \in {"resolving", "resolved"}

\* Every entity on the frontend, and every request it waits for, belongs to
\* the entity it was derived from that is there now: devices to the adb, the
\* device to the enumeration, the diagnosis to the device, preview and plan to
\* the diagnosis, the running execution to the plan.  The generations and the
\* invalidated events of the services are there for this.
ParentsAreCurrent ==
  /\ Underway(ui.enumeration) =>
       ui.adb.state = "resolved" /\ ui.enumeration.parent = ui.adb.id
  /\ ui.device # NoDevice =>
       /\ ui.enumeration.state = "resolved"
       /\ ui.device.enumeration = ui.enumeration.id
  /\ Underway(ui.diagnosis) => ui.device # NoDevice /\ ui.diagnosis.parent = ui.device
  /\ \A change \in {ui.preview, ui.plan} :
       Underway(change) =>
         ui.diagnosis.state = "resolved" /\ change.parent = ui.diagnosis.id
  /\ ui.execution.state = "resolving" =>
       ui.plan.state = "resolved" /\ ui.execution.id = ui.plan.id

\* A resource that is resolving has the request under way that its service
\* waits for, so it does not stay busy, with the buttons disabled, for ever.
ResolvingIsAwaited ==
  \A s \in Services \ {"recovery"} :
    (IF s = "inventory" THEN ui.inventory ELSE ui[s].state) = "resolving" =>
      \E c \in Calls : ui.awaited[s] = c /\ call[c] # Idle

\* "A write requires two GUI confirmations": whatever came between, execute is
\* only called for a plan whose risk and whose device the user has confirmed.
TwoConfirmations ==
  [][\A c \in Calls :
       call[c].op # "execute" /\ call'[c].op = "execute" =>
         ticked = [risk |-> call'[c].on, device |-> call'[c].on]]_vars

\* While a device is written to the view is "applying", in which App.tsx
\* refuses to start the tutorial and so to replace the session.
SwitchIsBlockedWhileWriting == backend.writing # {} => View = "applying"

\* What ends the view "applying" is the answer of execute, or one of the ways
\* the code has past it: the answer of cancelPlan, which does not ask what
\* became of its plan; the late answer of an earlier execute, after which
\* executePlan invalidates the diagnosis that is current by then; a recovery,
\* which the user's going on does not stop; the file dialog, during which
\* nothing is busy; and the late answer of a diagnosis that was made for a
\* restore, which goes on with whatever diagnosis is current by then.  No
\* click and no other late answer does.
ApplyingIsHeld ==
  [][View = "applying" /\ View' # "applying" =>
       \E c \in Calls :
         /\ call'[c] # call[c]
         /\ call[c].phase = "answered"
         /\ \/ call[c].op \in {"execute", "cancel"}
            \/ call[c].op = "choose" /\ Awaited(c, "adb")
            \/ call[c].op = "reconcile" /\ Awaited(c, "recovery")
            \/ call[c].then = "restore" /\ ~Awaited(c, "diagnosis")]_vars

\* An execution that ends in view leaves the user with its outcome, although
\* executePlan invalidates the diagnosis it came from, and with the plan gone.
OutcomeIsShown ==
  [][\A c \in Calls :
       /\ View = "applying" /\ Awaited(c, "execution") /\ Good(c)
       /\ call[c].phase = "answered" /\ call'[c] # call[c]
       => /\ View' = "outcome" /\ ui'.execution.id = call[c].on
          /\ ui'.diagnosis.state = "none"]_vars
=============================================================================
