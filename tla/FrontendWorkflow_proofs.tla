----------------------- MODULE FrontendWorkflow_proofs -----------------------
(***************************************************************************)
(* Proofs about FrontendWorkflow, for any number of functions under way,   *)
(* any devices and errors, whatever the user does and in whatever order    *)
(* the answers come.                                                       *)
(***************************************************************************)
EXTENDS FrontendWorkflow, TLAPS

Resources == [state : States, id : Nat, parent : Nat]
SelectedDevices == [enumeration : Nat, device : Devices \union {NoCall}]
Selections == [state : States, id : Nat, parent : Nat, last : BOOLEAN]
Diagnoses == [state : States, id : Nat, parent : SelectedDevices]
Previews == [state : States, id : Nat, parent : Nat, unparsed : BOOLEAN]
Contexts == [state : States, revision : Nat, latest : Nat]
Waitings == [Services -> Calls \union {NoCall}]

\* The signals of the services.
Signals ==
  [discovery : Resources, enumeration : Resources, plan : Resources, execution : Resources,
   inventory : States, device : SelectedDevices, adb : Selections, diagnosis : Diagnoses,
   preview : Previews, context : Contexts, risk : BOOLEAN, allow : BOOLEAN,
   confirmed : BOOLEAN, awaited : Waitings]

Purposes == Levels \union {"none", "handle", "stop", "execute", "restore"}
Answers == [kind : Failures \union {"none", "entity"}, id : Nat, revision : Nat, latest : Nat,
            unparsed : BOOLEAN]
Functions ==
  [op : Ops \union {"none"}, on : Nat, of : SelectedDevices, then : Purposes,
   phase : {"idle", "asked", "writing", "answered"}, answer : Answers]
Sessions ==
  [revision : Nat, discovery : Nat, selection : Nat, enumeration : Nat, latest : Nat,
   previews : Nat, preview : [id : Nat, unparsed : BOOLEAN],
   plans : SUBSET [id : Nat, diagnosis : Nat], writing : SUBSET Nat]

LEMMA Types ==
  TypeOK <=> /\ ui \in Signals
             /\ call \in [Calls -> Functions]
             /\ backend \in Sessions
             /\ ticked \in [risk : Nat, device : Nat]
BY DEF TypeOK, Signals, Resources, SelectedDevices, Selections, Diagnoses, Previews, Contexts,
       Waitings, Functions, Purposes, Answers, Sessions

LEMMA Constants ==
  /\ None \in Resources /\ NoPreview \in Previews /\ NoDiagnosis \in Diagnoses
  /\ NoDevice \in SelectedDevices /\ NoAdb \in Selections /\ Idle \in Functions
  /\ None.state = "none" /\ NoPreview.state = "none" /\ NoDiagnosis.state = "none"
  /\ NoAdb.state = "none"
BY DEF None, NoPreview, NoDiagnosis, NoDevice, NoAdb, Idle, NoAnswer, Resources, Previews,
       Diagnoses, SelectedDevices, Selections, Functions, Answers, Purposes, States

----------------------------------------------------------------------------
(* What giving up does: everything from one service down is gone, and what *)
(* is above it is as it was.                                               *)

\* What no invalidation touches.
Apart(g, f) ==
  /\ g.discovery = f.discovery /\ g.inventory = f.inventory /\ g.context = f.context
  /\ g.awaited.discovery = f.awaited.discovery
  /\ g.awaited.inventory = f.awaited.inventory
  /\ g.awaited.context = f.awaited.context
  /\ g.awaited.recovery = f.awaited.recovery

SameAdb(g, f) == g.adb = f.adb /\ g.awaited.adb = f.awaited.adb
SameEnumeration(g, f) ==
  g.enumeration = f.enumeration /\ g.awaited.enumeration = f.awaited.enumeration
SameDiagnosis(g, f) ==
  g.diagnosis = f.diagnosis /\ g.awaited.diagnosis = f.awaited.diagnosis
SamePreview(g, f) ==
  /\ g.preview = f.preview /\ g.awaited.preview = f.awaited.preview
  /\ g.risk = f.risk /\ g.allow = f.allow /\ g.confirmed = f.confirmed
SamePlan(g, f) == g.plan = f.plan /\ g.awaited.plan = f.awaited.plan

NoExecution(g, f, keepOutcome) ==
  /\ g.execution = IF keepOutcome /\ f.execution.state = "resolved" THEN f.execution ELSE None
  /\ g.awaited.execution = NoCall
NoPlan(g) == g.plan = None /\ g.awaited.plan = NoCall
NoChange(g) ==
  /\ NoPlan(g)
  /\ g.preview = NoPreview /\ g.awaited.preview = NoCall
  /\ g.risk = FALSE /\ g.allow = FALSE /\ g.confirmed = FALSE
NoResult(g) == g.diagnosis = NoDiagnosis /\ g.awaited.diagnosis = NoCall
NoList(g) == g.enumeration = None /\ g.awaited.enumeration = NoCall

LEMMA WithoutExecutionEffect ==
  ASSUME NEW f \in Signals, NEW keep \in BOOLEAN
  PROVE  LET g == WithoutExecution(f, keep) IN
         /\ g \in Signals
         /\ Apart(g, f) /\ SameAdb(g, f) /\ SameEnumeration(g, f) /\ g.device = f.device
         /\ SameDiagnosis(g, f) /\ SamePreview(g, f) /\ SamePlan(g, f)
         /\ NoExecution(g, f, keep)
<1> DEFINE a == [f.awaited EXCEPT !.execution = NoCall]
           e == IF keep /\ f.execution.state = "resolved" THEN f.execution ELSE None
<1>1. WithoutExecution(f, keep) = [f EXCEPT !.awaited = a, !.execution = e]
  BY DEF WithoutExecution, Signals
<1>2. a \in Waitings /\ e \in Resources
  BY Constants DEF Signals, Waitings
<1>3. /\ a.execution = NoCall
      /\ \A s \in Services \ {"execution"} : a[s] = f.awaited[s]
  BY DEF Signals, Waitings, Services
<1> HIDE DEF a, e
<1>4. [f EXCEPT !.awaited = a, !.execution = e] \in Signals
  BY <1>2 DEF Signals
<1>5. QED
  BY <1>1, <1>3, <1>4 DEF Signals, Services, e, Apart, SameAdb, SameEnumeration, SameDiagnosis,
     SamePreview, SamePlan, NoExecution

LEMMA WithoutPlanEffect ==
  ASSUME NEW f \in Signals, NEW keep \in BOOLEAN
  PROVE  LET g == WithoutPlan(f, keep) IN
         /\ g \in Signals
         /\ Apart(g, f) /\ SameAdb(g, f) /\ SameEnumeration(g, f) /\ g.device = f.device
         /\ SameDiagnosis(g, f) /\ SamePreview(g, f)
         /\ NoPlan(g) /\ NoExecution(g, f, keep)
<1> DEFINE a == [f.awaited EXCEPT !.plan = NoCall]
<1>1. PICK h : h = [f EXCEPT !.awaited = a, !.plan = None]
  OBVIOUS
<1>2. a \in Waitings
  BY DEF Signals, Waitings
<1>3. a.plan = NoCall /\ \A s \in Services \ {"plan"} : a[s] = f.awaited[s]
  BY DEF Signals, Waitings, Services
<1>4. WithoutPlan(f, keep) = WithoutExecution(h, keep)
  BY <1>1 DEF WithoutPlan, Signals
<1> HIDE DEF a
<1>5. h \in Signals
  BY <1>1, <1>2, Constants DEF Signals
<1>6. /\ Apart(h, f) /\ SameAdb(h, f) /\ SameEnumeration(h, f) /\ h.device = f.device
      /\ SameDiagnosis(h, f) /\ SamePreview(h, f) /\ NoPlan(h) /\ h.execution = f.execution
  BY <1>1, <1>3 DEF Signals, Services, Apart, SameAdb, SameEnumeration, SameDiagnosis,
     SamePreview, NoPlan
<1>7. QED
  BY <1>4, <1>5, <1>6, WithoutExecutionEffect DEF Apart, SameAdb, SameEnumeration, SameDiagnosis,
     SamePreview, SamePlan, NoPlan, NoExecution

LEMMA WithoutPreviewEffect ==
  ASSUME NEW f \in Signals, NEW keep \in BOOLEAN
  PROVE  LET g == WithoutPreview(f, keep) IN
         /\ g \in Signals
         /\ Apart(g, f) /\ SameAdb(g, f) /\ SameEnumeration(g, f) /\ g.device = f.device
         /\ SameDiagnosis(g, f)
         /\ NoChange(g) /\ NoExecution(g, f, keep)
<1> DEFINE a == [f.awaited EXCEPT !.preview = NoCall]
<1>1. PICK h : h = [f EXCEPT !.awaited = a, !.preview = NoPreview,
                             !.risk = FALSE, !.allow = FALSE, !.confirmed = FALSE]
  OBVIOUS
<1>2. a \in Waitings
  BY DEF Signals, Waitings
<1>3. a.preview = NoCall /\ \A s \in Services \ {"preview"} : a[s] = f.awaited[s]
  BY DEF Signals, Waitings, Services
<1>4. WithoutPreview(f, keep) = WithoutPlan(h, keep)
  BY <1>1 DEF WithoutPreview, Signals
<1> HIDE DEF a
<1>5. h \in Signals
  BY <1>1, <1>2, Constants DEF Signals
<1>6. /\ Apart(h, f) /\ SameAdb(h, f) /\ SameEnumeration(h, f) /\ h.device = f.device
      /\ SameDiagnosis(h, f) /\ h.execution = f.execution
      /\ h.preview = NoPreview /\ h.awaited.preview = NoCall
      /\ h.risk = FALSE /\ h.allow = FALSE /\ h.confirmed = FALSE
  BY <1>1, <1>3 DEF Signals, Services, Apart, SameAdb, SameEnumeration, SameDiagnosis
<1>7. QED
  BY <1>4, <1>5, <1>6, WithoutPlanEffect DEF Apart, SameAdb, SameEnumeration, SameDiagnosis,
     SamePreview, NoChange, NoExecution

LEMMA WithoutDiagnosisEffect ==
  ASSUME NEW f \in Signals
  PROVE  LET g == WithoutDiagnosis(f) IN
         /\ g \in Signals
         /\ Apart(g, f) /\ SameAdb(g, f) /\ SameEnumeration(g, f) /\ g.device = f.device
         /\ NoResult(g) /\ NoChange(g) /\ NoExecution(g, f, TRUE)
<1> DEFINE a == [f.awaited EXCEPT !.diagnosis = NoCall]
<1>1. PICK h : h = [f EXCEPT !.awaited = a, !.diagnosis = NoDiagnosis]
  OBVIOUS
<1>2. a \in Waitings
  BY DEF Signals, Waitings
<1>3. a.diagnosis = NoCall /\ \A s \in Services \ {"diagnosis"} : a[s] = f.awaited[s]
  BY DEF Signals, Waitings, Services
<1>4. WithoutDiagnosis(f) = WithoutPreview(h, TRUE)
  BY <1>1 DEF WithoutDiagnosis, Signals
<1> HIDE DEF a
<1>5. h \in Signals
  BY <1>1, <1>2, Constants DEF Signals
<1>6. /\ Apart(h, f) /\ SameAdb(h, f) /\ SameEnumeration(h, f) /\ h.device = f.device
      /\ h.execution = f.execution /\ NoResult(h)
  BY <1>1, <1>3 DEF Signals, Services, Apart, SameAdb, SameEnumeration, NoResult
<1>7. PICK g : g = WithoutPreview(h, TRUE)
  OBVIOUS
<1>8. /\ g \in Signals
      /\ Apart(g, h) /\ SameAdb(g, h) /\ SameEnumeration(g, h) /\ g.device = h.device
      /\ SameDiagnosis(g, h) /\ NoChange(g) /\ NoExecution(g, h, TRUE)
  BY <1>5, <1>7, WithoutPreviewEffect
<1>9. /\ Apart(g, f) /\ SameAdb(g, f) /\ SameEnumeration(g, f) /\ g.device = f.device
      /\ NoResult(g)
  BY <1>6, <1>8 DEF Apart, SameAdb, SameEnumeration, SameDiagnosis, NoResult
<1>10. NoExecution(g, f, TRUE)
  BY <1>6, <1>8 DEF NoExecution
<1>11. QED
  BY <1>4, <1>7, <1>8, <1>9, <1>10

LEMMA WithoutDeviceEffect ==
  ASSUME NEW f \in Signals
  PROVE  LET g == WithoutDevice(f) IN
         /\ g \in Signals
         /\ Apart(g, f) /\ SameAdb(g, f) /\ SameEnumeration(g, f) /\ g.device = NoDevice
         /\ NoResult(g) /\ NoChange(g) /\ NoExecution(g, f, TRUE)
<1>1. PICK h : h = [f EXCEPT !.device = NoDevice]
  OBVIOUS
<1>2. h \in Signals
  BY <1>1, Constants DEF Signals
<1>3. /\ Apart(h, f) /\ SameAdb(h, f) /\ SameEnumeration(h, f) /\ h.device = NoDevice
      /\ h.execution = f.execution
  BY <1>1 DEF Signals, Apart, SameAdb, SameEnumeration
<1>4. WithoutDevice(f) = WithoutDiagnosis(h)
  BY <1>1 DEF WithoutDevice
<1>5. QED
  BY <1>2, <1>3, <1>4, WithoutDiagnosisEffect DEF Apart, SameAdb, SameEnumeration, NoExecution

LEMMA WithoutEnumerationEffect ==
  ASSUME NEW f \in Signals
  PROVE  LET g == WithoutEnumeration(f) IN
         /\ g \in Signals
         /\ Apart(g, f) /\ SameAdb(g, f) /\ NoList(g) /\ g.device = NoDevice
         /\ NoResult(g) /\ NoChange(g) /\ NoExecution(g, f, TRUE)
<1> DEFINE a == [f.awaited EXCEPT !.enumeration = NoCall]
<1>1. PICK h : h = [f EXCEPT !.awaited = a, !.enumeration = None]
  OBVIOUS
<1>2. a \in Waitings
  BY DEF Signals, Waitings
<1>3. a.enumeration = NoCall /\ \A s \in Services \ {"enumeration"} : a[s] = f.awaited[s]
  BY DEF Signals, Waitings, Services
<1>4. WithoutEnumeration(f) = WithoutDevice(h)
  BY <1>1 DEF WithoutEnumeration, Signals
<1> HIDE DEF a
<1>5. h \in Signals
  BY <1>1, <1>2, Constants DEF Signals
<1>6. Apart(h, f) /\ SameAdb(h, f) /\ NoList(h) /\ h.execution = f.execution
  BY <1>1, <1>3 DEF Signals, Services, Apart, SameAdb, NoList
<1>7. QED
  BY <1>4, <1>5, <1>6, WithoutDeviceEffect DEF Apart, SameAdb, SameEnumeration, NoList, NoExecution

LEMMA WithoutAdbEffect ==
  ASSUME NEW f \in Signals
  PROVE  LET g == WithoutAdb(f) IN
         /\ g \in Signals
         /\ Apart(g, f) /\ g.adb.state = "none" /\ g.awaited.adb = NoCall
         /\ NoList(g) /\ g.device = NoDevice
         /\ NoResult(g) /\ NoChange(g) /\ NoExecution(g, f, TRUE)
<1> DEFINE a == [f.awaited EXCEPT !.adb = NoCall]
<1>0. PICK b : b = [NoAdb EXCEPT !.last = f.adb.last]
  OBVIOUS
<1>1. PICK h : h = [f EXCEPT !.awaited = a, !.adb = b]
  OBVIOUS
<1>2. a \in Waitings
  BY DEF Signals, Waitings
<1>3. a.adb = NoCall /\ \A s \in Services \ {"adb"} : a[s] = f.awaited[s]
  BY DEF Signals, Waitings, Services
<1>4. WithoutAdb(f) = WithoutEnumeration(h)
  BY <1>0, <1>1 DEF WithoutAdb, Signals
<1>5. b \in Selections /\ b.state = "none"
  BY <1>0 DEF NoAdb, Selections, Signals, States
<1> HIDE DEF a
<1>6. h \in Signals
  BY <1>1, <1>2, <1>5 DEF Signals
<1>7. Apart(h, f) /\ h.adb = b /\ h.awaited.adb = NoCall /\ h.execution = f.execution
  BY <1>1, <1>3 DEF Signals, Services, Apart
<1>8. QED
  BY <1>4, <1>5, <1>6, <1>7, WithoutEnumerationEffect DEF Apart, SameAdb, NoExecution

----------------------------------------------------------------------------
(* The invariant.                                                          *)

\* Everything that is under way belongs to what it was derived from.
Links(f) ==
  /\ Underway(f.enumeration) => f.adb.state = "resolved" /\ f.enumeration.parent = f.adb.id
  /\ f.device # NoDevice =>
       f.enumeration.state = "resolved" /\ f.device.enumeration = f.enumeration.id
  /\ Underway(f.diagnosis) => f.device # NoDevice /\ f.diagnosis.parent = f.device
  /\ Underway(f.preview) => f.diagnosis.state = "resolved" /\ f.preview.parent = f.diagnosis.id
  /\ Underway(f.plan) => f.diagnosis.state = "resolved" /\ f.plan.parent = f.diagnosis.id
  /\ f.execution.state = "resolving" => f.plan.state = "resolved" /\ f.execution.id = f.plan.id

\* A service waits for a request just while its resource is resolving; the adb
\* also while a file is chosen, and the context longer.  No adb is selected
\* while the machine is searched.
Waits(f) ==
  /\ f.discovery.state = "resolving" <=> f.awaited.discovery # NoCall
  /\ f.enumeration.state = "resolving" <=> f.awaited.enumeration # NoCall
  /\ f.diagnosis.state = "resolving" <=> f.awaited.diagnosis # NoCall
  /\ f.preview.state = "resolving" <=> f.awaited.preview # NoCall
  /\ f.plan.state = "resolving" <=> f.awaited.plan # NoCall
  /\ f.execution.state = "resolving" <=> f.awaited.execution # NoCall
  /\ f.inventory = "resolving" <=> f.awaited.inventory # NoCall
  /\ f.adb.state = "resolving" => f.awaited.adb # NoCall
  /\ f.context.state = "resolving" => f.awaited.context # NoCall
  /\ f.awaited.recovery = f.awaited.context
  /\ f.discovery.state = "resolving" => ~Underway(f.adb) /\ f.awaited.adb = NoCall

\* The function a service waits for makes the request of that service, for the
\* parent the resource has.
Match(f, c, r) ==
  /\ f.awaited.discovery = c => r.op = "discover"
  /\ f.awaited.adb = c => r.op = IF f.adb.state = "resolving" THEN "select" ELSE "choose"
  /\ f.awaited.enumeration = c => r.op = "list" /\ r.on = f.enumeration.parent
  /\ f.awaited.diagnosis = c => r.op = "diagnose" /\ r.of = f.diagnosis.parent
  /\ f.awaited.preview = c => r.op = "prepare" /\ r.on = f.preview.parent
  /\ f.awaited.plan = c => r.op \in {"authorize", "create"} /\ r.on = f.preview.id
  /\ f.awaited.execution = c => r.op = "execute" /\ r.on = f.execution.id
  /\ f.awaited.inventory = c => r.op = "snapshots"
  /\ f.awaited.context = c => r.op = "reconcile"

Matches(f, k) == \A c \in Calls : Match(f, c, k[c])

\* What is ticked on screen was ticked for the preview or the plan on screen, and
\* a plan is one of a preview whose risk was ticked.
Consents(f, t) ==
  /\ f.risk => f.preview.state = "resolved" /\ t.risk = f.preview.id
  /\ f.plan.state = "resolving" => f.preview.state = "resolved" /\ t.risk = f.preview.id
  /\ f.plan.state = "resolved" => ~Underway(f.preview) /\ t.risk = f.plan.id
  /\ f.confirmed =>
       \/ f.plan.state = "resolved" /\ t.device = f.plan.id
       \/ ~Underway(f.plan) /\ ~Underway(f.preview)

\* What a function is for, and that a plan is named by its preview.
Purposeful(r) ==
  /\ r.then = "restore" => r.op = "diagnose"
  /\ r.then = "execute" => r.op = "execute"
  /\ r.op = "reconcile" => r.then \in Levels
  /\ r.op = "create" /\ r.phase = "answered" /\ r.answer.kind = "entity" => r.answer.id = r.on

Fits(f, k, t) == f \in Signals /\ Links(f) /\ Waits(f) /\ Matches(f, k) /\ Consents(f, t)

Inv ==
  /\ TypeOK
  /\ Links(ui) /\ Waits(ui) /\ Matches(ui, call) /\ Consents(ui, ticked)
  /\ \A c \in Calls : Purposeful(call[c])

\* No service waits for c.
Free(f, c) == \A s \in Services : f.awaited[s] # c

\* Giving something up leaves what is left in order, and no service waits for
\* another function than before.
LEMMA FreeKept ==
  ASSUME NEW f \in Signals, NEW g \in Signals, NEW c \in Calls, Free(f, c),
         \A s \in Services : g.awaited[s] \in {f.awaited[s], NoCall}
  PROVE  Free(g, c)
BY ConstantsAssumption DEF Free

LEMMA WithoutExecutionFits ==
  ASSUME NEW f, NEW k, NEW t, Fits(f, k, t), NEW keep \in BOOLEAN
  PROVE  LET g == WithoutExecution(f, keep) IN
         Fits(g, k, t) /\ \A c \in Calls : Free(f, c) => Free(g, c)
<1>1. PICK g : g = WithoutExecution(f, keep)
  OBVIOUS
<1>2. /\ g \in Signals
      /\ Apart(g, f) /\ SameAdb(g, f) /\ SameEnumeration(g, f) /\ g.device = f.device
      /\ SameDiagnosis(g, f) /\ SamePreview(g, f) /\ SamePlan(g, f)
      /\ NoExecution(g, f, keep)
  BY <1>1, WithoutExecutionEffect DEF Fits
<1>3. g.execution.state # "resolving" /\ g.awaited.execution = NoCall
  BY <1>2, Constants DEF NoExecution
<1>4. Links(g)
  BY <1>2, <1>3 DEF Fits, Links, SameAdb, SameEnumeration, SameDiagnosis, SamePreview, SamePlan
<1>5. Waits(g)
  BY <1>2, <1>3 DEF Fits, Waits, Apart, SameAdb, SameEnumeration, SameDiagnosis, SamePreview, SamePlan
<1>6. Matches(g, k)
  <2> SUFFICES ASSUME NEW c \in Calls PROVE Match(g, c, k[c])
    BY DEF Matches
  <2>1. Match(f, c, k[c]) /\ c # NoCall
    BY ConstantsAssumption DEF Fits, Matches
  <2>2. QED
    BY <1>2, <1>3, <2>1 DEF Match, Apart, SameAdb, SameEnumeration, SameDiagnosis, SamePreview,
       SamePlan, Fits, Waits
<1>7. Consents(g, t)
  BY <1>2 DEF Fits, Consents, SamePreview, SamePlan
<1>8. \A c \in Calls : Free(f, c) => Free(g, c)
  BY <1>2, <1>3, FreeKept DEF Fits, Services, Apart, SameAdb, SameEnumeration, SameDiagnosis,
     SamePreview, SamePlan
<1>9. QED
  BY <1>1, <1>2, <1>4, <1>5, <1>6, <1>7, <1>8 DEF Fits

\* Without a preview there is no plan and nothing is ticked.
LEMMA NoChangeFits ==
  ASSUME NEW f, NEW k, NEW t, Fits(f, k, t), NEW g \in Signals, NEW keep \in BOOLEAN,
         Apart(g, f), NoChange(g), NoExecution(g, f, keep),
         \/ SameAdb(g, f)
         \/ g.adb.state = "none" /\ g.awaited.adb = NoCall,
         \/ SameAdb(g, f) /\ SameEnumeration(g, f)
         \/ NoList(g) /\ g.device = NoDevice,
         \/ SameDiagnosis(g, f) /\ SameEnumeration(g, f) /\ g.device = f.device
         \/ NoResult(g) /\ g.device \in {f.device, NoDevice}
  PROVE  Fits(g, k, t) /\ \A c \in Calls : Free(f, c) => Free(g, c)
<1>1. /\ g.execution.state # "resolving" /\ g.awaited.execution = NoCall
      /\ g.plan.state = "none" /\ g.awaited.plan = NoCall
      /\ g.preview.state = "none" /\ g.awaited.preview = NoCall
      /\ ~g.risk /\ ~g.confirmed
  BY Constants DEF NoExecution, NoChange, NoPlan
<1>2. Links(g)
  BY <1>1, Constants DEF Fits, Links, SameAdb, SameEnumeration, SameDiagnosis, NoResult, NoList, Underway
<1>3. Waits(g)
  BY <1>1, Constants DEF Fits, Waits, Apart, SameAdb, SameEnumeration, SameDiagnosis, NoResult,
     NoList, Underway
<1>4. Matches(g, k)
  <2> SUFFICES ASSUME NEW c \in Calls PROVE Match(g, c, k[c])
    BY DEF Matches
  <2>1. Match(f, c, k[c]) /\ c # NoCall
    BY ConstantsAssumption DEF Fits, Matches
  <2>2. QED
    BY <1>1, <2>1 DEF Match, Apart, SameAdb, SameEnumeration, SameDiagnosis, NoResult, NoList,
       Fits, Waits
<1>5. Consents(g, t)
  BY <1>1 DEF Consents, Underway
<1>6. \A s \in Services : g.awaited[s] \in {f.awaited[s], NoCall}
  BY <1>1 DEF Fits, Services, Apart, SameAdb, SameEnumeration, SameDiagnosis, NoResult, NoList, Waits
<1>7. \A c \in Calls : Free(f, c) => Free(g, c)
  BY <1>6, FreeKept DEF Fits
<1>8. QED
  BY <1>2, <1>3, <1>4, <1>5, <1>7 DEF Fits

LEMMA WithoutPreviewFits ==
  ASSUME NEW f, NEW k, NEW t, Fits(f, k, t), NEW keep \in BOOLEAN
  PROVE  LET g == WithoutPreview(f, keep) IN
         Fits(g, k, t) /\ \A c \in Calls : Free(f, c) => Free(g, c)
<1>1. PICK g : g = WithoutPreview(f, keep)
  OBVIOUS
<1>2. /\ g \in Signals
      /\ Apart(g, f) /\ SameAdb(g, f) /\ SameEnumeration(g, f) /\ g.device = f.device
      /\ SameDiagnosis(g, f) /\ NoChange(g) /\ NoExecution(g, f, keep)
  BY <1>1, WithoutPreviewEffect DEF Fits
<1>3. QED
  BY <1>1, <1>2, NoChangeFits

LEMMA WithoutDiagnosisFits ==
  ASSUME NEW f, NEW k, NEW t, Fits(f, k, t)
  PROVE  LET g == WithoutDiagnosis(f) IN
         Fits(g, k, t) /\ \A c \in Calls : Free(f, c) => Free(g, c)
<1>1. PICK g : g = WithoutDiagnosis(f)
  OBVIOUS
<1>2. /\ g \in Signals
      /\ Apart(g, f) /\ SameAdb(g, f) /\ SameEnumeration(g, f) /\ g.device = f.device
      /\ NoResult(g) /\ NoChange(g) /\ NoExecution(g, f, TRUE)
  BY <1>1, WithoutDiagnosisEffect DEF Fits
<1>3. QED
  BY <1>1, <1>2, NoChangeFits

LEMMA WithoutDeviceFits ==
  ASSUME NEW f, NEW k, NEW t, Fits(f, k, t)
  PROVE  LET g == WithoutDevice(f) IN
         Fits(g, k, t) /\ \A c \in Calls : Free(f, c) => Free(g, c)
<1>1. PICK g : g = WithoutDevice(f)
  OBVIOUS
<1>2. /\ g \in Signals
      /\ Apart(g, f) /\ SameAdb(g, f) /\ SameEnumeration(g, f) /\ g.device = NoDevice
      /\ NoResult(g) /\ NoChange(g) /\ NoExecution(g, f, TRUE)
  BY <1>1, WithoutDeviceEffect DEF Fits
<1>3. QED
  BY <1>1, <1>2, NoChangeFits

LEMMA WithoutEnumerationFits ==
  ASSUME NEW f, NEW k, NEW t, Fits(f, k, t)
  PROVE  LET g == WithoutEnumeration(f) IN
         Fits(g, k, t) /\ \A c \in Calls : Free(f, c) => Free(g, c)
<1>1. PICK g : g = WithoutEnumeration(f)
  OBVIOUS
<1>2. /\ g \in Signals
      /\ Apart(g, f) /\ SameAdb(g, f) /\ NoList(g) /\ g.device = NoDevice
      /\ NoResult(g) /\ NoChange(g) /\ NoExecution(g, f, TRUE)
  BY <1>1, WithoutEnumerationEffect DEF Fits
<1>3. QED
  BY <1>1, <1>2, NoChangeFits

LEMMA WithoutAdbFits ==
  ASSUME NEW f, NEW k, NEW t, Fits(f, k, t)
  PROVE  LET g == WithoutAdb(f) IN
         Fits(g, k, t) /\ \A c \in Calls : Free(f, c) => Free(g, c)
<1>1. PICK g : g = WithoutAdb(f)
  OBVIOUS
<1>2. /\ g \in Signals
      /\ Apart(g, f) /\ g.adb.state = "none" /\ g.awaited.adb = NoCall /\ NoList(g)
      /\ g.device = NoDevice
      /\ NoResult(g) /\ NoChange(g) /\ NoExecution(g, f, TRUE)
  BY <1>1, WithoutAdbEffect DEF Fits
<1>3. QED
  BY <1>1, <1>2, NoChangeFits

LEMMA WithoutInventoryFits ==
  ASSUME NEW f, NEW k, NEW t, Fits(f, k, t)
  PROVE  LET g == WithoutInventory(f) IN
         Fits(g, k, t) /\ \A c \in Calls : Free(f, c) => Free(g, c)
<1> DEFINE a == [f.awaited EXCEPT !.inventory = NoCall]
<1>1. PICK g : g = [f EXCEPT !.awaited = a, !.inventory = "none"]
  OBVIOUS
<1>2. a \in Waitings /\ a.inventory = NoCall /\ \A s \in Services \ {"inventory"} : a[s] = f.awaited[s]
  BY DEF Fits, Signals, Waitings, Services
<1>3. WithoutInventory(f) = g
  BY <1>1 DEF WithoutInventory, Fits, Signals
<1> HIDE DEF a
<1>4. g \in Signals /\ g.inventory = "none" /\ g.awaited = a
  BY <1>1, <1>2 DEF Fits, Signals, States
<1>5. /\ g.discovery = f.discovery /\ g.context = f.context /\ g.adb = f.adb
      /\ g.enumeration = f.enumeration /\ g.device = f.device /\ g.diagnosis = f.diagnosis
      /\ g.preview = f.preview /\ g.plan = f.plan /\ g.execution = f.execution
      /\ g.risk = f.risk /\ g.confirmed = f.confirmed
  BY <1>1 DEF Fits, Signals
<1>6. Links(g) /\ Waits(g) /\ Consents(g, t)
  BY <1>2, <1>4, <1>5 DEF Fits, Links, Waits, Consents, Services
<1>7. Matches(g, k)
  <2> SUFFICES ASSUME NEW c \in Calls PROVE Match(g, c, k[c])
    BY DEF Matches
  <2>1. Match(f, c, k[c]) /\ c # NoCall
    BY ConstantsAssumption DEF Fits, Matches
  <2>2. QED
    BY <1>2, <1>4, <1>5, <2>1 DEF Match, Services
<1>8. \A c \in Calls : Free(f, c) => Free(g, c)
  BY <1>2, <1>4, FreeKept DEF Fits, Services
<1>9. QED
  BY <1>3, <1>4, <1>6, <1>7, <1>8 DEF Fits

LEMMA ObservedFits ==
  ASSUME NEW f, NEW k, NEW t, Fits(f, k, t), NEW revision \in Nat, NEW latest \in Nat
  PROVE  LET g == Observed(f, revision, latest) IN
         /\ Fits(g, k, t) /\ \A c \in Calls : Free(f, c) => Free(g, c)
         /\ g.discovery = f.discovery /\ g.adb = f.adb /\ g.enumeration = f.enumeration
         /\ g.device = f.device /\ g.diagnosis = f.diagnosis /\ g.awaited = f.awaited
         /\ g.plan = f.plan /\ g.execution = f.execution /\ g.preview = f.preview
         /\ g.inventory = f.inventory
<1>1. CASE Observed(f, revision, latest) = f
  BY <1>1
<1>2. CASE Observed(f, revision, latest) # f
  <2>1. PICK g : g = [f EXCEPT !.context = [state |-> "resolved", revision |-> revision,
                                            latest |-> latest]]
    OBVIOUS
  <2>2. Observed(f, revision, latest) = g
    BY <1>2, <2>1 DEF Observed
  <2>3. g \in Signals
    <3>1. [state |-> "resolved", revision |-> revision, latest |-> latest] \in Contexts
      BY DEF Contexts, States
    <3>2. QED
      BY <2>1, <3>1 DEF Fits, Signals
  <2>4. /\ g.discovery = f.discovery /\ g.context.state = "resolved" /\ g.adb = f.adb
        /\ g.enumeration = f.enumeration /\ g.device = f.device /\ g.diagnosis = f.diagnosis
        /\ g.preview = f.preview /\ g.plan = f.plan /\ g.execution = f.execution
        /\ g.risk = f.risk /\ g.confirmed = f.confirmed /\ g.inventory = f.inventory
        /\ g.awaited = f.awaited
    BY <2>1 DEF Fits, Signals
  <2>5. Links(g) /\ Waits(g) /\ Consents(g, t)
    BY <2>4 DEF Fits, Links, Waits, Consents
  <2>6. Matches(g, k)
    <3> SUFFICES ASSUME NEW c \in Calls PROVE Match(g, c, k[c])
      BY DEF Matches
    <3>1. Match(f, c, k[c])
      BY DEF Fits, Matches
    <3>2. QED
      BY <2>4, <3>1 DEF Match
  <2>7. QED
    BY <2>2, <2>3, <2>4, <2>5, <2>6 DEF Fits, Free
<1>3. QED
  BY <1>1, <1>2

----------------------------------------------------------------------------
(* Requests.                                                               *)

\* The function c is replaced; what else there is fits.
LEMMA Concluded ==
  ASSUME Inv, NEW c \in Calls, NEW r \in Functions, Purposeful(r),
         call' = [call EXCEPT ![c] = r], Fits(ui', call', ticked'),
         backend' \in Sessions, ticked' \in [risk : Nat, device : Nat]
  PROVE  Inv'
<1>1. call' \in [Calls -> Functions] /\ \A d \in Calls : Purposeful(call'[d])
  BY Types DEF Inv
<1>2. TypeOK'
  BY <1>1, Types DEF Fits, TypeOK, Signals, Resources, SelectedDevices, Selections, Diagnoses,
     Previews, Contexts, Waitings, Functions, Purposes, Answers, Sessions
<1>3. QED
  BY <1>1, <1>2 DEF Inv, Fits

\* A function nobody waits for may turn to anything.
LEMMA Turned ==
  ASSUME Inv, NEW c \in Calls, NEW r, NEW f, Fits(f, call, ticked), Free(f, c),
         call' = [call EXCEPT ![c] = r]
  PROVE  Fits(f, call', ticked) /\ call'[c] = r
<1>1. call'[c] = r /\ \A d \in Calls \ {c} : call'[d] = call[d]
  BY Types DEF Inv
<1>2. ASSUME NEW d \in Calls PROVE Match(f, d, call'[d])
  <2>1. CASE d = c
    BY <2>1 DEF Free, Match, Services
  <2>2. CASE d # c
    BY <1>1, <2>2 DEF Fits, Matches
  <2>3. QED
    BY <2>1, <2>2
<1>3. QED
  BY <1>1, <1>2 DEF Fits, Matches

\* The function is done.
LEMMA DoneInv ==
  ASSUME Inv, NEW c \in Calls, NEW f, Fits(f, call, ticked), Free(f, c),
         ui' = f, Done(c), UNCHANGED <<backend, ticked>>
  PROVE  Inv'
<1>1. Idle \in Functions /\ Purposeful(Idle)
  BY Constants DEF Idle, Purposeful
<1>2. Fits(f, call', ticked)
  BY Turned DEF Done
<1>3. backend' \in Sessions /\ ticked' \in [risk : Nat, device : Nat]
  BY Types DEF Inv
<1>4. QED
  BY <1>1, <1>2, <1>3, Concluded DEF Done

\* The function c awaits the answer to a request.
LEMMA Asks ==
  ASSUME NEW c \in Calls, NEW op \in Ops, NEW on \in Nat, NEW then \in Purposes,
         Ask(c, op, on, then),
         then = "restore" => op = "diagnose", then = "execute" => op = "execute",
         op = "reconcile" => then \in Levels
  PROVE  \E r \in Functions :
           /\ call' = [call EXCEPT ![c] = r] /\ Purposeful(r)
           /\ r.op = op /\ r.on = on /\ r.then = then
<1>1. PICK r : r = [Idle EXCEPT !.op = op, !.on = on, !.then = then, !.phase = "asked"]
  OBVIOUS
<1>2. /\ r \in Functions /\ r.op = op /\ r.on = on /\ r.then = then
      /\ r.phase = "asked"
  BY <1>1, Constants DEF Functions
<1>3. Purposeful(r)
  BY <1>2 DEF Purposeful
<1>4. QED
  BY <1>1, <1>2, <1>3 DEF Ask

\* A recovery begins: nothing is given up yet.
LEMMA ReconcileInv ==
  ASSUME Inv, NEW c \in Calls, NEW f, Fits(f, call, ticked), Free(f, c), NEW level \in Levels,
         Reconcile(c, f, level), UNCHANGED <<backend, ticked>>
  PROVE  Inv'
<1>1. PICK r \in Functions :
        /\ call' = [call EXCEPT ![c] = r] /\ Purposeful(r)
        /\ r.op = "reconcile"
  BY Asks DEF Reconcile, Ops, Levels, Purposes
<1>2. Fits(f, call', ticked) /\ call'[c].op = "reconcile"
  BY <1>1, Turned
<1> DEFINE a == [f.awaited EXCEPT !.recovery = c, !.context = c]
           x == [state |-> "resolving", revision |-> 0, latest |-> 0]
<1>3. ui' = [f EXCEPT !.awaited = a, !.context = x]
  BY DEF Reconcile, Fits, Signals
<1>4. /\ a \in Waitings /\ a.recovery = c /\ a.context = c
      /\ \A s \in Services \ {"recovery", "context"} : a[s] = f.awaited[s]
  BY DEF Fits, Signals, Waitings, Services
<1>5. x \in Contexts
  BY DEF Contexts, States
<1> HIDE DEF a
<1>6. ui' \in Signals
  BY <1>3, <1>4, <1>5 DEF Fits, Signals
<1>7. /\ ui'.discovery = f.discovery /\ ui'.adb = f.adb /\ ui'.awaited = a
      /\ ui'.enumeration = f.enumeration /\ ui'.device = f.device /\ ui'.diagnosis = f.diagnosis
      /\ ui'.preview = f.preview /\ ui'.plan = f.plan /\ ui'.execution = f.execution
      /\ ui'.risk = f.risk /\ ui'.confirmed = f.confirmed /\ ui'.inventory = f.inventory
  BY <1>3 DEF Fits, Signals
<1>8. Links(ui') /\ Waits(ui') /\ Consents(ui', ticked)
  BY <1>4, <1>7, ConstantsAssumption DEF Fits, Links, Waits, Consents, Services
<1>9. Matches(ui', call')
  <2> SUFFICES ASSUME NEW d \in Calls PROVE Match(ui', d, call'[d])
    BY DEF Matches
  <2>1. Match(f, d, call'[d])
    BY <1>2 DEF Fits, Matches
  <2>2. QED
    BY <1>2, <1>4, <1>7, <2>1 DEF Match, Services
<1>10. Fits(ui', call', ticked') /\ backend' \in Sessions /\ ticked' \in [risk : Nat, device : Nat]
  BY <1>6, <1>8, <1>9, Types DEF Fits, Inv
<1>11. QED
  BY <1>1, <1>10, Concluded

LEMMA FailInv ==
  ASSUME Inv, NEW c \in Calls, NEW f, Fits(f, call, ticked), Free(f, c), NEW error, NEW then,
         Fail(c, f, error, then), UNCHANGED <<backend, ticked>>
  PROVE  Inv'
BY ReconcileInv, DoneInv DEF Fail

\* The machine is searched: everything selected is given up.
LEMMA StartDiscoveryInv ==
  ASSUME Inv, NEW c \in Calls, NEW f, Fits(f, call, ticked), Free(f, c),
         NEW then \in {"handle", "stop"},
         StartDiscovery(c, f, then), UNCHANGED <<backend, ticked>>
  PROVE  Inv'
<1>1. PICK r \in Functions :
        /\ call' = [call EXCEPT ![c] = r] /\ Purposeful(r)
        /\ r.op = "discover"
  BY Asks DEF StartDiscovery, Ops, Purposes
<1>2. PICK g : g = WithoutAdb(f)
  OBVIOUS
<1>3. Fits(g, call, ticked) /\ Free(g, c) /\ g.adb.state = "none" /\ g.awaited.adb = NoCall
  BY <1>2, WithoutAdbFits, WithoutAdbEffect DEF Fits
<1>4. Fits(g, call', ticked) /\ call'[c].op = "discover"
  BY <1>1, <1>3, Turned
<1> DEFINE a == [g.awaited EXCEPT !.discovery = c]
           x == [None EXCEPT !.state = "resolving"]
<1>5. ui' = [g EXCEPT !.awaited = a, !.discovery = x]
  BY <1>2, <1>3 DEF StartDiscovery, Fits, Signals
<1>6. a \in Waitings /\ a.discovery = c /\ \A s \in Services \ {"discovery"} : a[s] = g.awaited[s]
  BY <1>3 DEF Fits, Signals, Waitings, Services
<1>7. x \in Resources /\ x.state = "resolving"
  BY DEF None, Resources, States
<1> HIDE DEF a, x
<1>8. ui' \in Signals
  BY <1>3, <1>5, <1>6, <1>7 DEF Fits, Signals
<1>9. /\ ui'.discovery = x /\ ui'.context = g.context /\ ui'.adb = g.adb /\ ui'.awaited = a
      /\ ui'.enumeration = g.enumeration /\ ui'.device = g.device /\ ui'.diagnosis = g.diagnosis
      /\ ui'.preview = g.preview /\ ui'.plan = g.plan /\ ui'.execution = g.execution
      /\ ui'.risk = g.risk /\ ui'.confirmed = g.confirmed /\ ui'.inventory = g.inventory
  BY <1>3, <1>5 DEF Fits, Signals
<1>10. Links(ui') /\ Waits(ui') /\ Consents(ui', ticked)
  BY <1>3, <1>6, <1>7, <1>9, ConstantsAssumption DEF Fits, Links, Waits, Consents, Services, Underway
<1>11. Matches(ui', call')
  <2> SUFFICES ASSUME NEW d \in Calls PROVE Match(ui', d, call'[d])
    BY DEF Matches
  <2>1. Match(g, d, call'[d])
    BY <1>4 DEF Fits, Matches
  <2>2. QED
    BY <1>4, <1>6, <1>9, <2>1 DEF Match, Services
<1>12. Fits(ui', call', ticked') /\ backend' \in Sessions /\ ticked' \in [risk : Nat, device : Nat]
  BY <1>8, <1>10, <1>11, Types DEF Fits, Inv
<1>13. QED
  BY <1>1, <1>12, Concluded

\* An adb is selected; nothing depends on one yet, and nothing is searched.
LEMMA StartSelectionInv ==
  ASSUME Inv, NEW c \in Calls, NEW f, Fits(f, call, ticked), Free(f, c),
         ~Underway(f.adb), f.discovery.state # "resolving",
         NEW then \in Purposes, then \notin {"restore", "execute"},
         StartSelection(c, f, then), UNCHANGED <<backend, ticked>>
  PROVE  Inv'
<1>0. f.discovery.id \in Nat
  BY DEF Fits, Signals, Resources
<1>1. PICK r \in Functions :
        /\ call' = [call EXCEPT ![c] = r] /\ Purposeful(r)
        /\ r.op = "select"
  BY <1>0, Asks DEF StartSelection, Ops
<1>2. Fits(f, call', ticked) /\ call'[c].op = "select"
  BY <1>1, Turned
<1> DEFINE a == [f.awaited EXCEPT !.adb = c]
           x == [NoAdb EXCEPT !.state = "resolving", !.parent = f.discovery.id]
<1>3. ui' = [f EXCEPT !.awaited = a, !.adb = x]
  BY DEF StartSelection, Fits, Signals
<1>4. a \in Waitings /\ a.adb = c /\ \A s \in Services \ {"adb"} : a[s] = f.awaited[s]
  BY DEF Fits, Signals, Waitings, Services
<1>5. x \in Selections /\ x.state = "resolving"
  BY <1>0 DEF NoAdb, Selections, States
<1> HIDE DEF a, x
<1>6. ui' \in Signals
  BY <1>3, <1>4, <1>5 DEF Fits, Signals
<1>7. /\ ui'.discovery = f.discovery /\ ui'.context = f.context /\ ui'.adb = x /\ ui'.awaited = a
      /\ ui'.enumeration = f.enumeration /\ ui'.device = f.device /\ ui'.diagnosis = f.diagnosis
      /\ ui'.preview = f.preview /\ ui'.plan = f.plan /\ ui'.execution = f.execution
      /\ ui'.risk = f.risk /\ ui'.confirmed = f.confirmed /\ ui'.inventory = f.inventory
  BY <1>3 DEF Fits, Signals
<1>8. Links(ui') /\ Waits(ui') /\ Consents(ui', ticked)
  BY <1>4, <1>5, <1>7, ConstantsAssumption DEF Fits, Links, Waits, Consents, Services, Underway
<1>9. Matches(ui', call')
  <2> SUFFICES ASSUME NEW d \in Calls PROVE Match(ui', d, call'[d])
    BY DEF Matches
  <2>1. Match(f, d, call'[d])
    BY <1>2 DEF Fits, Matches
  <2>2. QED
    BY <1>2, <1>4, <1>5, <1>7, <2>1 DEF Match, Services
<1>10. Fits(ui', call', ticked') /\ backend' \in Sessions /\ ticked' \in [risk : Nat, device : Nat]
  BY <1>6, <1>8, <1>9, Types DEF Fits, Inv
<1>11. QED
  BY <1>1, <1>10, Concluded

\* The devices of the selected adb are listed.
LEMMA StartListingInv ==
  ASSUME Inv, NEW c \in Calls, NEW f, Fits(f, call, ticked), Free(f, c),
         NEW then \in {"handle", "stop"},
         StartListing(c, f, then), UNCHANGED <<backend, ticked>>
  PROVE  Inv'
<1>0. SUFFICES ASSUME f.adb.state = "resolved" PROVE Inv'
  BY FailInv DEF StartListing
<1>1. f.adb.id \in Nat
  BY DEF Fits, Signals, Selections
<1>2. PICK r \in Functions :
        /\ call' = [call EXCEPT ![c] = r] /\ Purposeful(r)
        /\ r.op = "list" /\ r.on = f.adb.id
  BY <1>0, <1>1, Asks DEF StartListing, Ops, Purposes
<1>3. PICK g : g = WithoutDevice(f)
  OBVIOUS
<1>4. /\ Fits(g, call, ticked) /\ Free(g, c) /\ SameAdb(g, f) /\ g.device = NoDevice
      /\ NoResult(g) /\ NoChange(g) /\ NoExecution(g, f, TRUE)
  BY <1>3, WithoutDeviceFits, WithoutDeviceEffect DEF Fits
<1>5. Fits(g, call', ticked) /\ call'[c].op = "list" /\ call'[c].on = f.adb.id
  BY <1>2, <1>4, Turned
<1> DEFINE a == [g.awaited EXCEPT !.enumeration = c]
           x == [state |-> "resolving", id |-> 0, parent |-> f.adb.id]
<1>6. ui' = [g EXCEPT !.awaited = a, !.enumeration = x]
  BY <1>0, <1>3, <1>4 DEF StartListing, Fits, Signals
<1>7. a \in Waitings /\ a.enumeration = c
      /\ \A s \in Services \ {"enumeration"} : a[s] = g.awaited[s]
  BY <1>4 DEF Fits, Signals, Waitings, Services
<1>8. x \in Resources /\ x.state = "resolving" /\ x.parent = f.adb.id
  BY <1>1 DEF Resources, States
<1> HIDE DEF a, x
<1>9. ui' \in Signals
  BY <1>4, <1>6, <1>7, <1>8 DEF Fits, Signals
<1>10. /\ ui'.discovery = g.discovery /\ ui'.context = g.context /\ ui'.adb = f.adb
       /\ ui'.awaited = a /\ ui'.enumeration = x /\ ui'.device = NoDevice
       /\ ui'.diagnosis = g.diagnosis /\ ui'.preview = g.preview /\ ui'.plan = g.plan
       /\ ui'.execution = g.execution /\ ui'.inventory = g.inventory
       /\ ui'.risk = g.risk /\ ui'.confirmed = g.confirmed
  BY <1>4, <1>6 DEF Fits, Signals, SameAdb
<1>11. ui'.diagnosis.state = "none" /\ ui'.preview.state = "none" /\ ui'.plan.state = "none"
       /\ ui'.execution.state # "resolving"
  BY <1>4, <1>10, Constants DEF NoResult, NoChange, NoPlan, NoExecution
<1>12. Links(ui')
  BY <1>0, <1>8, <1>10, <1>11 DEF Links, Underway
<1>13. Waits(ui') /\ Consents(ui', ticked)
  BY <1>0, <1>4, <1>7, <1>8, <1>10, ConstantsAssumption DEF Fits, Waits, Consents, Services, SameAdb
<1>14. Matches(ui', call')
  <2> SUFFICES ASSUME NEW d \in Calls PROVE Match(ui', d, call'[d])
    BY DEF Matches
  <2>1. Match(g, d, call'[d])
    BY <1>5 DEF Fits, Matches
  <2>2. QED
    BY <1>4, <1>5, <1>7, <1>8, <1>10, <2>1 DEF Match, Services, SameAdb
<1>15. Fits(ui', call', ticked') /\ backend' \in Sessions /\ ticked' \in [risk : Nat, device : Nat]
  BY <1>9, <1>12, <1>13, <1>14, Types DEF Fits, Inv
<1>16. QED
  BY <1>2, <1>15, Concluded

\* The device is diagnosed: what came of the last diagnosis is given up.
LEMMA StartDiagnosisInv ==
  ASSUME Inv, NEW c \in Calls, NEW f, Fits(f, call, ticked), Free(f, c),
         NEW then \in {"handle", "stop", "restore"},
         StartDiagnosis(c, f, then), UNCHANGED <<backend, ticked>>
  PROVE  Inv'
<1>0. SUFFICES ASSUME f.device # NoDevice PROVE Inv'
  BY FailInv DEF StartDiagnosis
<1>1. f.device \in SelectedDevices
  BY DEF Fits, Signals
<1>2. PICK r : r = [Idle EXCEPT !.op = "diagnose", !.of = f.device, !.then = then,
                                !.phase = "asked"]
  OBVIOUS
<1>3. /\ r \in Functions /\ r.op = "diagnose" /\ r.of = f.device
      /\ call' = [call EXCEPT ![c] = r]
  BY <1>0, <1>1, <1>2, Constants DEF StartDiagnosis, Functions, Ops, Purposes
<1>4. Purposeful(r)
  BY <1>2, <1>3, Constants DEF Purposeful, Functions
<1>5. PICK g : g = WithoutDiagnosis(f)
  OBVIOUS
<1>6. /\ Fits(g, call, ticked) /\ Free(g, c) /\ g.device = f.device
      /\ NoResult(g) /\ NoChange(g) /\ NoExecution(g, f, TRUE)
  BY <1>5, WithoutDiagnosisFits, WithoutDiagnosisEffect DEF Fits
<1>7. Fits(g, call', ticked) /\ call'[c].op = "diagnose" /\ call'[c].of = f.device
  BY <1>3, <1>6, Turned
<1> DEFINE a == [g.awaited EXCEPT !.diagnosis = c]
           x == [state |-> "resolving", id |-> 0, parent |-> f.device]
<1>8. ui' = [g EXCEPT !.awaited = a, !.diagnosis = x]
  BY <1>0, <1>5, <1>6 DEF StartDiagnosis, Fits, Signals
<1>9. a \in Waitings /\ a.diagnosis = c
      /\ \A s \in Services \ {"diagnosis"} : a[s] = g.awaited[s]
  BY <1>6 DEF Fits, Signals, Waitings, Services
<1>10. x \in Diagnoses /\ x.state = "resolving" /\ x.parent = f.device
  BY <1>1 DEF Diagnoses, States
<1> HIDE DEF a, x
<1>11. ui' \in Signals
  BY <1>6, <1>8, <1>9, <1>10 DEF Fits, Signals
<1>12. /\ ui'.discovery = g.discovery /\ ui'.context = g.context /\ ui'.adb = g.adb
       /\ ui'.awaited = a /\ ui'.enumeration = g.enumeration /\ ui'.device = f.device
       /\ ui'.diagnosis = x /\ ui'.preview = g.preview /\ ui'.plan = g.plan
       /\ ui'.execution = g.execution /\ ui'.inventory = g.inventory
       /\ ui'.risk = g.risk /\ ui'.confirmed = g.confirmed
  BY <1>6, <1>8 DEF Fits, Signals
<1>13. ui'.preview.state = "none" /\ ui'.plan.state = "none"
       /\ ui'.execution.state # "resolving"
  BY <1>6, <1>12, Constants DEF NoChange, NoPlan, NoExecution
<1>14. Links(ui')
  BY <1>0, <1>6, <1>10, <1>12, <1>13 DEF Fits, Links, Underway
<1>15. Waits(ui') /\ Consents(ui', ticked)
  BY <1>6, <1>9, <1>10, <1>12, ConstantsAssumption DEF Fits, Waits, Consents, Services
<1>16. Matches(ui', call')
  <2> SUFFICES ASSUME NEW d \in Calls PROVE Match(ui', d, call'[d])
    BY DEF Matches
  <2>1. Match(g, d, call'[d])
    BY <1>7 DEF Fits, Matches
  <2>2. QED
    BY <1>6, <1>7, <1>9, <1>10, <1>12, <2>1 DEF Match, Services
<1>17. Fits(ui', call', ticked') /\ backend' \in Sessions /\ ticked' \in [risk : Nat, device : Nat]
  BY <1>11, <1>14, <1>15, <1>16, Types DEF Fits, Inv
<1>18. QED
  BY <1>3, <1>4, <1>17, Concluded

\* A change is previewed for the diagnosis at hand.
LEMMA StartPreviewInv ==
  ASSUME Inv, NEW c \in Calls, NEW f, Fits(f, call, ticked), Free(f, c),
         f.diagnosis.state = "resolved",
         StartPreview(c, f), UNCHANGED <<backend, ticked>>
  PROVE  Inv'
<1>1. f.diagnosis.id \in Nat
  BY DEF Fits, Signals, Diagnoses
<1>2. PICK r \in Functions :
        /\ call' = [call EXCEPT ![c] = r] /\ Purposeful(r)
        /\ r.op = "prepare" /\ r.on = f.diagnosis.id
  BY <1>1, Asks DEF StartPreview, Ops, Purposes
<1>3. PICK g : g = WithoutPreview(f, FALSE)
  OBVIOUS
<1>4. /\ Fits(g, call, ticked) /\ Free(g, c) /\ SameDiagnosis(g, f)
      /\ NoChange(g) /\ NoExecution(g, f, FALSE)
  BY <1>3, WithoutPreviewFits, WithoutPreviewEffect DEF Fits
<1>5. Fits(g, call', ticked) /\ call'[c].op = "prepare" /\ call'[c].on = f.diagnosis.id
  BY <1>2, <1>4, Turned
<1> DEFINE a == [g.awaited EXCEPT !.preview = c]
           x == [NoPreview EXCEPT !.state = "resolving", !.parent = f.diagnosis.id]
<1>6. ui' = [g EXCEPT !.awaited = a, !.preview = x]
  BY <1>3, <1>4 DEF StartPreview, Fits, Signals
<1>7. a \in Waitings /\ a.preview = c
      /\ \A s \in Services \ {"preview"} : a[s] = g.awaited[s]
  BY <1>4 DEF Fits, Signals, Waitings, Services
<1>8. x \in Previews /\ x.state = "resolving" /\ x.parent = f.diagnosis.id
  BY <1>1 DEF NoPreview, Previews, States
<1> HIDE DEF a, x
<1>9. ui' \in Signals
  BY <1>4, <1>6, <1>7, <1>8 DEF Fits, Signals
<1>10. /\ ui'.discovery = g.discovery /\ ui'.context = g.context /\ ui'.adb = g.adb
       /\ ui'.awaited = a /\ ui'.enumeration = g.enumeration /\ ui'.device = g.device
       /\ ui'.diagnosis = f.diagnosis /\ ui'.preview = x /\ ui'.plan = g.plan
       /\ ui'.execution = g.execution /\ ui'.inventory = g.inventory
       /\ ui'.risk = FALSE /\ ui'.confirmed = FALSE
  BY <1>4, <1>6 DEF Fits, Signals, SameDiagnosis, NoChange
<1>11. ui'.plan.state = "none" /\ a.plan = NoCall /\ ui'.execution.state # "resolving"
  BY <1>4, <1>7, <1>10, Constants DEF NoChange, NoPlan, NoExecution, Services
<1>12. Links(ui')
  BY <1>4, <1>8, <1>10, <1>11 DEF Fits, Links, Underway, SameDiagnosis
<1>13. Waits(ui') /\ Consents(ui', ticked)
  BY <1>4, <1>7, <1>8, <1>10, <1>11, ConstantsAssumption
     DEF Fits, Waits, Consents, Services, SameDiagnosis
<1>14. Matches(ui', call')
  <2> SUFFICES ASSUME NEW d \in Calls PROVE Match(ui', d, call'[d])
    BY DEF Matches
  <2>1. Match(g, d, call'[d]) /\ d # NoCall
    BY <1>5, ConstantsAssumption DEF Fits, Matches
  <2>2. QED
    BY <1>4, <1>5, <1>7, <1>8, <1>10, <1>11, <2>1 DEF Match, Services, SameDiagnosis
<1>15. Fits(ui', call', ticked') /\ backend' \in Sessions /\ ticked' \in [risk : Nat, device : Nat]
  BY <1>9, <1>12, <1>13, <1>14, Types DEF Fits, Inv
<1>16. QED
  BY <1>2, <1>15, Concluded

\* The result is good.
LEMMA SucceedInv ==
  ASSUME Inv, NEW c \in Calls, NEW f, Fits(f, call, ticked), Free(f, c), NEW then,
         Succeed(c, f, then), UNCHANGED <<backend, ticked>>
  PROVE  Inv'
<1>1. CASE then = "restore" /\ f.diagnosis.state = "resolved"
  BY <1>1, StartPreviewInv DEF Succeed
<1>2. CASE then = "execute"
  <2>1. ui' = WithoutDiagnosis(f) /\ Done(c)
    BY <1>2 DEF Succeed
  <2>2. QED
    BY <2>1, WithoutDiagnosisFits, DoneInv
<1>3. CASE ~(then = "restore" /\ f.diagnosis.state = "resolved") /\ then # "execute"
  <2>1. ui' = f /\ Done(c)
    BY <1>3 DEF Succeed
  <2>2. QED
    BY <2>1, DoneInv
<1>4. QED
  BY <1>1, <1>2, <1>3

----------------------------------------------------------------------------
(* The user.                                                               *)

LEMMA Views ==
  /\ View \in {"adb", "devices", "confirmation", "diagnosisError", "result", "preview", "plan",
               "outcome", "snapshots", "diagnosing", "applying"}
  /\ View = "applying" <=> ui.plan.state = "resolved" /\ ui.execution.state = "resolving"
  /\ View = "plan" <=> ui.plan.state = "resolved" /\ ui.execution.state # "resolving"
  /\ View = "preview" => ui.plan.state # "resolved" /\ ui.preview.state = "resolved"
  /\ View = "result" => ui.diagnosis.state = "resolved"
  /\ View = "devices" => ui.enumeration.state = "resolved"
BY DEF View

LEMMA OfferedIn ==
  ASSUME NEW intent, Offered(intent)
  PROVE  /\ View \notin {"diagnosing", "applying"}
         /\ intent \in {"selectAdb", "chooseAdb"} =>
              ui.adb.state # "resolving" /\ ui.discovery.state # "resolving"
         /\ intent = "selectDevice" => View = "devices"
         /\ intent = "pin" => View = "result"
         /\ intent = "tickRisk" => View = "preview"
         /\ intent = "createPlan" =>
              View = "preview" /\ ui.risk /\ ui.plan.state # "resolving"
         /\ intent = "tickDevice" => View = "plan"
         /\ intent = "executePlan" => View = "plan" /\ ui.confirmed
<1>1. ~Busy => /\ ui.adb.state # "resolving" /\ ui.discovery.state # "resolving"
               /\ ui.plan.state # "resolving"
  BY DEF Busy, Services
<1>2. CASE View = "adb"
  BY <1>1, <1>2 DEF Offered, AdbView
<1>3. CASE View = "devices"
  BY <1>3 DEF Offered, DeviceView
<1>4. CASE View = "confirmation"
  BY <1>4 DEF Offered, ConfirmationView
<1>5. CASE View = "diagnosisError"
  BY <1>5 DEF Offered, DiagnosisErrorView
<1>6. CASE View = "result"
  BY <1>6 DEF Offered, DiagnosisView
<1>7. CASE View = "preview"
  BY <1>1, <1>7 DEF Offered, ChangePreviewView
<1>8. CASE View = "plan"
  BY <1>8 DEF Offered, PlanView
<1>9. CASE View = "outcome"
  BY <1>9 DEF Offered, OutcomeView
<1>10. CASE View = "snapshots"
  BY <1>10 DEF Offered, SnapshotsView
<1>11. CASE View \in {"diagnosing", "applying"}
  BY <1>11 DEF Offered
<1>12. QED
  BY <1>2, <1>3, <1>4, <1>5, <1>6, <1>7, <1>8, <1>9, <1>10, <1>11, Views

\* A click finds everything in order, and a free slot is one no service waits for.
LEMMA Clicked ==
  ASSUME Inv
  PROVE  /\ Fits(ui, call, ticked)
         /\ \A c \in Calls : call[c] = Idle => Free(ui, c)
<1>1. Fits(ui, call, ticked)
  BY Types DEF Inv, Fits
<1>2. ASSUME NEW c \in Calls, call[c] = Idle PROVE Free(ui, c)
  <2>1. Match(ui, c, call[c]) /\ call[c].op = "none" /\ ui.awaited.recovery = ui.awaited.context
    BY <1>1, <1>2 DEF Fits, Matches, Idle, Waits
  <2>2. QED
    BY <2>1 DEF Match, Free, Services
<1>3. QED
  BY <1>1, <1>2

\* A click that only changes what is on screen.
LEMMA NavigatedInv ==
  ASSUME Inv, Fits(ui', call, ticked'), ticked' \in [risk : Nat, device : Nat],
         UNCHANGED <<call, backend>>
  PROVE  Inv'
BY Types DEF Inv, Fits, TypeOK, Signals, Resources, SelectedDevices, Selections, Diagnoses,
   Previews, Contexts, Waitings, Functions, Purposes, Answers, Sessions

LEMMA SelectDeviceInv ==
  ASSUME Inv, SelectDevice
  PROVE  Inv'
<1>1. PICK d \in Devices :
        ui' = [WithoutDevice(ui) EXCEPT !.device = [enumeration |-> ui.enumeration.id,
                                                    device |-> d]]
  BY DEF SelectDevice
<1>2. ui.enumeration.state = "resolved" /\ UNCHANGED <<call, backend, ticked>>
  BY OfferedIn, Views DEF SelectDevice, Navigates, Clicks
<1>3. PICK g : g = WithoutDevice(ui)
  OBVIOUS
<1>4. /\ Fits(g, call, ticked) /\ SameEnumeration(g, ui) /\ NoResult(g) /\ NoChange(g)
      /\ NoExecution(g, ui, TRUE)
  BY <1>3, Clicked, WithoutDeviceFits, WithoutDeviceEffect DEF Fits
<1> DEFINE x == [enumeration |-> ui.enumeration.id, device |-> d]
<1>5. x \in SelectedDevices
  BY Clicked DEF Fits, Signals, Resources, SelectedDevices
<1>6. ui' = [g EXCEPT !.device = x]
  BY <1>1, <1>3
<1>7. x.enumeration = ui.enumeration.id
  OBVIOUS
<1> HIDE DEF x
<1>8. ui' \in Signals
  BY <1>4, <1>5, <1>6 DEF Fits, Signals
<1>9. /\ ui'.discovery = g.discovery /\ ui'.context = g.context /\ ui'.adb = g.adb
      /\ ui'.awaited = g.awaited /\ ui'.enumeration = g.enumeration /\ ui'.device = x
      /\ ui'.diagnosis = g.diagnosis /\ ui'.preview = g.preview /\ ui'.plan = g.plan
      /\ ui'.execution = g.execution /\ ui'.inventory = g.inventory
      /\ ui'.risk = g.risk /\ ui'.confirmed = g.confirmed
  BY <1>4, <1>6 DEF Fits, Signals
<1>10. g.diagnosis.state = "none"
  BY <1>4, Constants DEF NoResult
<1>11. Links(ui')
  BY <1>2, <1>4, <1>7, <1>9, <1>10 DEF Fits, Links, Underway, SameEnumeration
<1>12. Waits(ui') /\ Consents(ui', ticked) /\ Matches(ui', call)
  BY <1>4, <1>9 DEF Fits, Waits, Consents, Matches, Match
<1>13. ticked \in [risk : Nat, device : Nat]
  BY Types DEF Inv
<1>14. QED
  BY <1>2, <1>8, <1>11, <1>12, <1>13, NavigatedInv DEF Fits

LEMMA TickRiskInv ==
  ASSUME Inv, TickRisk
  PROVE  Inv'
<1>1. /\ ui' = [ui EXCEPT !.risk = ~ui.risk]
      /\ ticked' = [ticked EXCEPT !.risk = ui.preview.id]
      /\ UNCHANGED <<call, backend>>
      /\ ui.preview.state = "resolved" /\ ui.plan.state # "resolved"
  BY OfferedIn, Views DEF TickRisk, Navigates, Clicks
<1>2. Fits(ui, call, ticked) /\ ticked \in [risk : Nat, device : Nat] /\ ui.preview.id \in Nat
  BY Clicked, Types DEF Inv, Signals, Previews
<1>3. /\ ticked' \in [risk : Nat, device : Nat]
      /\ ticked'.risk = ui.preview.id /\ ticked'.device = ticked.device
  BY <1>1, <1>2
<1>4. ui' \in Signals
  BY <1>1, <1>2 DEF Fits, Signals
<1>5. /\ ui'.discovery = ui.discovery /\ ui'.context = ui.context /\ ui'.adb = ui.adb
      /\ ui'.awaited = ui.awaited /\ ui'.enumeration = ui.enumeration /\ ui'.device = ui.device
      /\ ui'.diagnosis = ui.diagnosis /\ ui'.preview = ui.preview /\ ui'.plan = ui.plan
      /\ ui'.execution = ui.execution /\ ui'.inventory = ui.inventory
      /\ ui'.confirmed = ui.confirmed
  BY <1>1, <1>2 DEF Fits, Signals
<1>6. Links(ui') /\ Waits(ui') /\ Matches(ui', call)
  BY <1>2, <1>5 DEF Fits, Links, Waits, Matches, Match
<1>7. Consents(ui', ticked')
  BY <1>1, <1>2, <1>3, <1>5 DEF Fits, Consents
<1>8. QED
  BY <1>1, <1>3, <1>4, <1>6, <1>7, NavigatedInv DEF Fits

LEMMA TickDeviceInv ==
  ASSUME Inv, TickDevice
  PROVE  Inv'
<1>1. /\ ui' = [ui EXCEPT !.confirmed = ~ui.confirmed]
      /\ ticked' = [ticked EXCEPT !.device = IF ui.confirmed THEN 0 ELSE ui.plan.id]
      /\ UNCHANGED <<call, backend>>
      /\ ui.plan.state = "resolved"
  BY OfferedIn, Views DEF TickDevice, Navigates, Clicks
<1>2. Fits(ui, call, ticked) /\ ticked \in [risk : Nat, device : Nat] /\ ui.plan.id \in Nat
  BY Clicked, Types DEF Inv, Signals, Resources
<1>3. /\ ticked' \in [risk : Nat, device : Nat]
      /\ ~ui.confirmed => ticked'.device = ui.plan.id
      /\ ticked'.risk = ticked.risk
  BY <1>1, <1>2
<1>4. ui' \in Signals /\ ui'.confirmed = ~ui.confirmed
  BY <1>1, <1>2 DEF Fits, Signals
<1>5. /\ ui'.discovery = ui.discovery /\ ui'.context = ui.context /\ ui'.adb = ui.adb
      /\ ui'.awaited = ui.awaited /\ ui'.enumeration = ui.enumeration /\ ui'.device = ui.device
      /\ ui'.diagnosis = ui.diagnosis /\ ui'.preview = ui.preview /\ ui'.plan = ui.plan
      /\ ui'.execution = ui.execution /\ ui'.inventory = ui.inventory
      /\ ui'.risk = ui.risk
  BY <1>1, <1>2 DEF Fits, Signals
<1>6. Links(ui') /\ Waits(ui') /\ Matches(ui', call)
  BY <1>2, <1>5 DEF Fits, Links, Waits, Matches, Match
<1>7. Consents(ui', ticked')
  BY <1>1, <1>2, <1>3, <1>4, <1>5 DEF Fits, Consents
<1>8. QED
  BY <1>1, <1>3, <1>4, <1>6, <1>7, NavigatedInv DEF Fits

LEMMA TickUnparsedInv ==
  ASSUME Inv, TickUnparsed
  PROVE  Inv'
<1>1. ui' = [ui EXCEPT !.allow = ~ui.allow] /\ UNCHANGED <<call, backend, ticked>>
  BY DEF TickUnparsed, Navigates, Clicks
<1>2. Fits(ui, call, ticked) /\ ticked \in [risk : Nat, device : Nat]
  BY Clicked, Types DEF Inv
<1>3. ui' \in Signals
  BY <1>1, <1>2 DEF Fits, Signals
<1>4. /\ ui'.discovery = ui.discovery /\ ui'.context = ui.context /\ ui'.adb = ui.adb
      /\ ui'.awaited = ui.awaited /\ ui'.enumeration = ui.enumeration /\ ui'.device = ui.device
      /\ ui'.diagnosis = ui.diagnosis /\ ui'.preview = ui.preview /\ ui'.plan = ui.plan
      /\ ui'.execution = ui.execution /\ ui'.inventory = ui.inventory
      /\ ui'.risk = ui.risk /\ ui'.confirmed = ui.confirmed
  BY <1>1, <1>2 DEF Fits, Signals
<1>5. Links(ui') /\ Waits(ui') /\ Matches(ui', call) /\ Consents(ui', ticked)
  BY <1>2, <1>4 DEF Fits, Links, Waits, Matches, Match, Consents
<1>6. QED
  BY <1>1, <1>2, <1>3, <1>5, NavigatedInv DEF Fits

LEMMA NavigateInv ==
  ASSUME Inv, Navigate
  PROVE  Inv'
<1>1. Fits(ui, call, ticked) /\ ticked \in [risk : Nat, device : Nat]
  BY Clicked, Types DEF Inv
<1>2. CASE BackToAdb
  BY <1>1, <1>2, WithoutEnumerationFits, NavigatedInv DEF BackToAdb, Navigates, Clicks
<1>3. CASE BackToDevices
  BY <1>1, <1>3, WithoutDeviceFits, NavigatedInv DEF BackToDevices, Navigates, Clicks
<1>4. CASE CloseSnapshots
  BY <1>1, <1>4, WithoutInventoryFits, NavigatedInv DEF CloseSnapshots, Navigates, Clicks
<1>5. CASE ClosePreview
  BY <1>1, <1>5, WithoutPreviewFits, NavigatedInv DEF ClosePreview, Navigates, Clicks
<1>6. QED
  BY <1>2, <1>3, <1>4, <1>5, SelectDeviceInv, TickRiskInv, TickUnparsedInv, TickDeviceInv
     DEF Navigate

\* A click that starts a function.
LEMMA Started ==
  ASSUME Inv, NEW c \in Calls, NEW intent, Starts(c, intent)
  PROVE  /\ Fits(ui, call, ticked) /\ Free(ui, c) /\ Offered(intent)
         /\ UNCHANGED <<backend, ticked>>
         /\ backend' \in Sessions /\ ticked' \in [risk : Nat, device : Nat]
BY Clicked, Types DEF Inv, Starts, Clicks

LEMMA SelectAdbInv ==
  ASSUME Inv, NEW c \in Calls, SelectAdb(c)
  PROVE  Inv'
<1>1. /\ Fits(ui, call, ticked) /\ Free(ui, c) /\ UNCHANGED <<backend, ticked>>
      /\ ui.discovery.state # "resolving" /\ StartSelection(c, WithoutAdb(ui), "handle")
  BY Started, OfferedIn DEF SelectAdb
<1>2. PICK g : g = WithoutAdb(ui)
  OBVIOUS
<1>3. /\ Fits(g, call, ticked) /\ Free(g, c) /\ ~Underway(g.adb)
      /\ g.discovery.state # "resolving"
  BY <1>1, <1>2, WithoutAdbFits, WithoutAdbEffect DEF Fits, Apart, Underway
<1>4. QED
  BY <1>1, <1>2, <1>3, StartSelectionInv DEF Purposes

LEMMA ChooseAdbInv ==
  ASSUME Inv, NEW c \in Calls, ChooseAdb(c)
  PROVE  Inv'
<1>1. /\ Fits(ui, call, ticked) /\ Free(ui, c) /\ UNCHANGED <<backend, ticked>>
      /\ ui.discovery.state # "resolving" /\ ui.adb.state # "resolving"
      /\ Ask(c, "choose", 0, "handle")
      /\ backend' \in Sessions /\ ticked' \in [risk : Nat, device : Nat]
  BY Started, OfferedIn DEF ChooseAdb
<1>2. PICK r \in Functions :
        /\ call' = [call EXCEPT ![c] = r] /\ Purposeful(r)
        /\ r.op = "choose"
  BY <1>1, Asks DEF Ops, Purposes
<1>3. Fits(ui, call', ticked) /\ call'[c].op = "choose"
  BY <1>1, <1>2, Turned
<1> DEFINE a == [ui.awaited EXCEPT !.adb = c]
<1>4. ui' = [ui EXCEPT !.awaited = a]
  BY <1>1 DEF ChooseAdb, Fits, Signals
<1>5. a \in Waitings /\ a.adb = c /\ \A s \in Services \ {"adb"} : a[s] = ui.awaited[s]
  BY <1>1 DEF Fits, Signals, Waitings, Services
<1> HIDE DEF a
<1>6. ui' \in Signals
  BY <1>1, <1>4, <1>5 DEF Fits, Signals
<1>7. /\ ui'.discovery = ui.discovery /\ ui'.context = ui.context /\ ui'.adb = ui.adb
      /\ ui'.awaited = a /\ ui'.enumeration = ui.enumeration /\ ui'.device = ui.device
      /\ ui'.diagnosis = ui.diagnosis /\ ui'.preview = ui.preview /\ ui'.plan = ui.plan
      /\ ui'.execution = ui.execution /\ ui'.inventory = ui.inventory
      /\ ui'.risk = ui.risk /\ ui'.confirmed = ui.confirmed
  BY <1>1, <1>4 DEF Fits, Signals
<1>8. Links(ui') /\ Waits(ui') /\ Consents(ui', ticked)
  BY <1>1, <1>5, <1>7 DEF Fits, Links, Waits, Consents, Services
<1>9. Matches(ui', call')
  <2> SUFFICES ASSUME NEW d \in Calls PROVE Match(ui', d, call'[d])
    BY DEF Matches
  <2>1. Match(ui, d, call'[d])
    BY <1>3 DEF Fits, Matches
  <2>2. QED
    BY <1>1, <1>3, <1>5, <1>7, <2>1 DEF Match, Services
<1>10. Fits(ui', call', ticked')
  BY <1>1, <1>6, <1>8, <1>9 DEF Fits
<1>11. QED
  BY <1>1, <1>2, <1>10, Concluded

LEMMA OpenSnapshotsInv ==
  ASSUME Inv, NEW c \in Calls, OpenSnapshots(c)
  PROVE  Inv'
<1>1. /\ Fits(ui, call, ticked) /\ Free(ui, c) /\ UNCHANGED <<backend, ticked>>
      /\ Ask(c, "snapshots", 0, "handle")
      /\ backend' \in Sessions /\ ticked' \in [risk : Nat, device : Nat]
  BY Started DEF OpenSnapshots
<1>2. PICK r \in Functions :
        /\ call' = [call EXCEPT ![c] = r] /\ Purposeful(r)
        /\ r.op = "snapshots"
  BY <1>1, Asks DEF Ops, Purposes
<1>3. PICK g : g = WithoutExecution(ui, FALSE)
  OBVIOUS
<1>4. Fits(g, call, ticked) /\ Free(g, c)
  BY <1>1, <1>3, WithoutExecutionFits
<1>5. Fits(g, call', ticked) /\ call'[c].op = "snapshots"
  BY <1>2, <1>4, Turned
<1> DEFINE a == [g.awaited EXCEPT !.inventory = c]
<1>6. ui' = [g EXCEPT !.awaited = a, !.inventory = "resolving"]
  BY <1>3, <1>4 DEF OpenSnapshots, Fits, Signals
<1>7. a \in Waitings /\ a.inventory = c
      /\ \A s \in Services \ {"inventory"} : a[s] = g.awaited[s]
  BY <1>4 DEF Fits, Signals, Waitings, Services
<1> HIDE DEF a
<1>8. ui' \in Signals
  BY <1>4, <1>6, <1>7 DEF Fits, Signals, States
<1>9. /\ ui'.discovery = g.discovery /\ ui'.context = g.context /\ ui'.adb = g.adb
      /\ ui'.awaited = a /\ ui'.enumeration = g.enumeration /\ ui'.device = g.device
      /\ ui'.diagnosis = g.diagnosis /\ ui'.preview = g.preview /\ ui'.plan = g.plan
      /\ ui'.execution = g.execution /\ ui'.inventory = "resolving"
      /\ ui'.risk = g.risk /\ ui'.confirmed = g.confirmed
  BY <1>4, <1>6 DEF Fits, Signals
<1>10. Links(ui') /\ Waits(ui') /\ Consents(ui', ticked)
  BY <1>4, <1>7, <1>9, ConstantsAssumption DEF Fits, Links, Waits, Consents, Services
<1>11. Matches(ui', call')
  <2> SUFFICES ASSUME NEW d \in Calls PROVE Match(ui', d, call'[d])
    BY DEF Matches
  <2>1. Match(g, d, call'[d])
    BY <1>5 DEF Fits, Matches
  <2>2. QED
    BY <1>5, <1>7, <1>9, <2>1 DEF Match, Services
<1>12. Fits(ui', call', ticked')
  BY <1>1, <1>8, <1>10, <1>11 DEF Fits
<1>13. QED
  BY <1>1, <1>2, <1>12, Concluded

\* The plan is made of the preview on screen, whose risk is ticked.
LEMMA CreatePlanInv ==
  ASSUME Inv, NEW c \in Calls, CreatePlan(c)
  PROVE  Inv'
<1>1. /\ Fits(ui, call, ticked) /\ Free(ui, c) /\ UNCHANGED <<backend, ticked>>
      /\ ui.preview.state = "resolved" /\ ui.risk
      /\ ui.plan.state \notin {"resolving", "resolved"}
      /\ backend' \in Sessions /\ ticked' \in [risk : Nat, device : Nat]
  BY Started, OfferedIn, Views DEF CreatePlan
<1>2. CASE ui.preview.parent # ui.diagnosis.id
  <2>1. Fail(c, ui, "diagnosis", "handle")
    BY <1>2 DEF CreatePlan
  <2>2. QED
    BY <1>1, <2>1, FailInv
<1>3. CASE ui.preview.parent = ui.diagnosis.id
  <2> DEFINE op == IF ui.preview.unparsed THEN "authorize" ELSE "create"
             a == [ui.awaited EXCEPT !.plan = c]
             x == [state |-> "resolving", id |-> 0, parent |-> ui.preview.parent]
  <2>1. /\ ui' = [ui EXCEPT !.awaited.plan = c, !.plan = x]
        /\ Ask(c, op, ui.preview.id, "handle")
    BY <1>3 DEF CreatePlan
  <2>2. op \in {"authorize", "create"} /\ op \in Ops
    BY DEF Ops
  <2>3. ui.preview.id \in Nat /\ ui.preview.parent \in Nat
    BY <1>1 DEF Fits, Signals, Previews
  <2> HIDE DEF op
  <2>4. PICK r \in Functions :
          /\ call' = [call EXCEPT ![c] = r] /\ Purposeful(r)
          /\ r.op = op /\ r.on = ui.preview.id
    BY <2>1, <2>2, <2>3, Asks DEF Purposes
  <2>5. /\ Fits(ui, call', ticked)
        /\ call'[c].op \in {"authorize", "create"} /\ call'[c].on = ui.preview.id
    BY <1>1, <2>2, <2>4, Turned
  <2>6. ui' = [ui EXCEPT !.awaited = a, !.plan = x]
    BY <1>1, <2>1 DEF Fits, Signals
  <2>7. a \in Waitings /\ a.plan = c /\ \A s \in Services \ {"plan"} : a[s] = ui.awaited[s]
    BY <1>1 DEF Fits, Signals, Waitings, Services
  <2>8. x \in Resources /\ x.state = "resolving" /\ x.parent = ui.preview.parent
    BY <2>3 DEF Resources, States
  <2> HIDE DEF a, x
  <2>9. ui' \in Signals
    BY <1>1, <2>6, <2>7, <2>8 DEF Fits, Signals
  <2>10. /\ ui'.discovery = ui.discovery /\ ui'.context = ui.context /\ ui'.adb = ui.adb
         /\ ui'.awaited = a /\ ui'.enumeration = ui.enumeration /\ ui'.device = ui.device
         /\ ui'.diagnosis = ui.diagnosis /\ ui'.preview = ui.preview /\ ui'.plan = x
         /\ ui'.execution = ui.execution /\ ui'.inventory = ui.inventory
         /\ ui'.risk = ui.risk /\ ui'.confirmed = ui.confirmed
    BY <1>1, <2>6 DEF Fits, Signals
  <2>11. Links(ui')
    BY <1>1, <2>8, <2>10 DEF Fits, Links, Underway
  <2>12. Waits(ui')
    BY <1>1, <2>7, <2>8, <2>10, ConstantsAssumption DEF Fits, Waits, Services
  <2>13. Consents(ui', ticked)
    BY <1>1, <2>8, <2>10 DEF Fits, Consents, Underway
  <2>14. Matches(ui', call')
    <3> SUFFICES ASSUME NEW d \in Calls PROVE Match(ui', d, call'[d])
      BY DEF Matches
    <3>1. Match(ui, d, call'[d])
      BY <2>5 DEF Fits, Matches
    <3>2. QED
      BY <2>5, <2>7, <2>10, <3>1 DEF Match, Services
  <2>15. Fits(ui', call', ticked')
    BY <1>1, <2>9, <2>11, <2>12, <2>13, <2>14 DEF Fits
  <2>16. QED
    BY <1>1, <2>4, <2>15, Concluded
<1>4. QED
  BY <1>2, <1>3

\* The plan on screen is executed.
LEMMA ExecutePlanInv ==
  ASSUME Inv, NEW c \in Calls, ExecutePlan(c)
  PROVE  Inv'
<1>1. /\ Fits(ui, call, ticked) /\ Free(ui, c) /\ UNCHANGED <<backend, ticked>>
      /\ ui.plan.state = "resolved"
      /\ backend' \in Sessions /\ ticked' \in [risk : Nat, device : Nat]
  BY Started, OfferedIn, Views DEF ExecutePlan
<1>2. ui.plan.id \in Nat /\ ui.plan.parent \in Nat
  BY <1>1 DEF Fits, Signals, Resources
<1>3. PICK r \in Functions :
        /\ call' = [call EXCEPT ![c] = r] /\ Purposeful(r)
        /\ r.op = "execute" /\ r.on = ui.plan.id
  BY <1>1, <1>2, Asks DEF ExecutePlan, Ops, Purposes
<1>4. Fits(ui, call', ticked) /\ call'[c].op = "execute" /\ call'[c].on = ui.plan.id
  BY <1>1, <1>3, Turned
<1> DEFINE a == [ui.awaited EXCEPT !.execution = c]
           x == [state |-> "resolving", id |-> ui.plan.id, parent |-> ui.plan.parent]
<1>5. ui' = [ui EXCEPT !.awaited = a, !.execution = x]
  BY <1>1 DEF ExecutePlan, Fits, Signals
<1>6. a \in Waitings /\ a.execution = c
      /\ \A s \in Services \ {"execution"} : a[s] = ui.awaited[s]
  BY <1>1 DEF Fits, Signals, Waitings, Services
<1>7. x \in Resources /\ x.state = "resolving" /\ x.id = ui.plan.id
  BY <1>2 DEF Resources, States
<1> HIDE DEF a, x
<1>8. ui' \in Signals
  BY <1>1, <1>5, <1>6, <1>7 DEF Fits, Signals
<1>9. /\ ui'.discovery = ui.discovery /\ ui'.context = ui.context /\ ui'.adb = ui.adb
      /\ ui'.awaited = a /\ ui'.enumeration = ui.enumeration /\ ui'.device = ui.device
      /\ ui'.diagnosis = ui.diagnosis /\ ui'.preview = ui.preview /\ ui'.plan = ui.plan
      /\ ui'.execution = x /\ ui'.inventory = ui.inventory
      /\ ui'.risk = ui.risk /\ ui'.confirmed = ui.confirmed
  BY <1>1, <1>5 DEF Fits, Signals
<1>10. Links(ui') /\ Consents(ui', ticked)
  BY <1>1, <1>7, <1>9 DEF Fits, Links, Consents
<1>11. Waits(ui')
  BY <1>1, <1>6, <1>7, <1>9, ConstantsAssumption DEF Fits, Waits, Services
<1>12. Matches(ui', call')
  <2> SUFFICES ASSUME NEW d \in Calls PROVE Match(ui', d, call'[d])
    BY DEF Matches
  <2>1. Match(ui, d, call'[d])
    BY <1>4 DEF Fits, Matches
  <2>2. QED
    BY <1>4, <1>6, <1>7, <1>9, <2>1 DEF Match, Services
<1>13. Fits(ui', call', ticked')
  BY <1>1, <1>8, <1>10, <1>11, <1>12 DEF Fits
<1>14. QED
  BY <1>1, <1>3, <1>13, Concluded

LEMMA ActInv ==
  ASSUME Inv, NEW c \in Calls, Act(c)
  PROVE  Inv'
<1>1. CASE RefreshAdb(c)
  BY <1>1, Started, StartDiscoveryInv DEF RefreshAdb
<1>2. CASE ContinueToDevices(c)
  BY <1>2, Started, StartListingInv DEF ContinueToDevices
<1>3. CASE RunDiagnosis(c)
  BY <1>3, Started, StartDiagnosisInv DEF RunDiagnosis
<1>4. CASE PreparePin(c)
  BY <1>4, Started, OfferedIn, Views, StartPreviewInv DEF PreparePin
<1>5. CASE PrepareRestore(c)
  <2>1. Fits(ui, call, ticked) /\ Free(ui, c) /\ UNCHANGED <<backend, ticked>>
    BY <1>5, Started DEF PrepareRestore
  <2>2. CASE ui.diagnosis.state = "resolved"
    BY <1>5, <2>1, <2>2, StartPreviewInv DEF PrepareRestore
  <2>3. CASE ui.diagnosis.state # "resolved"
    BY <1>5, <2>1, <2>3, StartDiagnosisInv DEF PrepareRestore
  <2>4. QED
    BY <2>2, <2>3
<1>6. CASE CancelPlan(c)
  <2>1. /\ Fits(ui, call, ticked) /\ Free(ui, c) /\ UNCHANGED <<backend, ticked, ui>>
        /\ backend' \in Sessions /\ ticked' \in [risk : Nat, device : Nat]
        /\ Ask(c, "cancel", ui.plan.id, "handle")
    BY <1>6, Started DEF CancelPlan
  <2>2. ui.plan.id \in Nat
    BY <2>1 DEF Fits, Signals, Resources
  <2>3. PICK r \in Functions : call' = [call EXCEPT ![c] = r] /\ Purposeful(r)
    BY <2>1, <2>2, Asks DEF Ops, Purposes
  <2>4. Fits(ui, call', ticked)
    BY <2>1, <2>3, Turned
  <2>5. QED
    BY <2>1, <2>3, <2>4, Concluded
<1>7. CASE FinishAndDiagnoseAgain(c)
  <2>1. Fits(ui, call, ticked) /\ Free(ui, c) /\ UNCHANGED <<backend, ticked>>
    BY <1>7, Started DEF FinishAndDiagnoseAgain
  <2>2. Fits(WithoutInventory(ui), call, ticked) /\ Free(WithoutInventory(ui), c)
    BY <2>1, WithoutInventoryFits
  <2>3. PICK g : g = WithoutExecution(WithoutInventory(ui), FALSE)
    OBVIOUS
  <2>4. Fits(g, call, ticked) /\ Free(g, c)
    BY <2>2, <2>3, WithoutExecutionFits
  <2>5. StartDiagnosis(c, g, "handle")
    BY <1>7, <2>3 DEF FinishAndDiagnoseAgain
  <2>6. QED
    BY <2>1, <2>4, <2>5, StartDiagnosisInv
<1>8. QED
  BY <1>1, <1>2, <1>3, <1>4, <1>5, <1>6, <1>7, SelectAdbInv, ChooseAdbInv, OpenSnapshotsInv,
     CreatePlanInv, ExecutePlanInv DEF Act

----------------------------------------------------------------------------
(* The backend, which leaves the frontend as it is.                        *)

\* The function goes on with the same request.
LEMMA Continued ==
  ASSUME Inv, NEW c \in Calls, NEW r \in Functions, call' = [call EXCEPT ![c] = r],
         r.op = call[c].op, r.on = call[c].on, r.of = call[c].of, Purposeful(r),
         UNCHANGED <<ui, ticked>>, backend' \in Sessions
  PROVE  Inv'
<1>1. Fits(ui, call, ticked) /\ ticked \in [risk : Nat, device : Nat]
  BY Types DEF Inv, Fits
<1>2. \A d \in Calls :
        call'[d].op = call[d].op /\ call'[d].on = call[d].on /\ call'[d].of = call[d].of
  BY Types DEF Inv
<1>3. Matches(ui, call')
  BY <1>1, <1>2 DEF Fits, Matches, Match
<1>4. Fits(ui', call', ticked')
  BY <1>1, <1>3 DEF Fits
<1>5. QED
  BY <1>1, <1>4, Concluded

LEMMA AnswerInv ==
  ASSUME Inv, NEW c \in Calls, NEW b \in Sessions, NEW kind \in Failures \union {"entity"},
         NEW id \in Nat, Answer(c, b, kind, id), UNCHANGED <<ui, ticked>>,
         call[c].op = "create" /\ kind = "entity" => id = call[c].on
  PROVE  Inv'
<1> DEFINE x == [kind |-> kind, id |-> id, revision |-> b.revision, latest |-> b.latest,
                 unparsed |-> b.preview.unparsed]
           r == [call[c] EXCEPT !.phase = "answered", !.answer = x]
<1>1. call \in [Calls -> Functions] /\ Purposeful(call[c])
  BY Types DEF Inv
<1>2. x \in Answers /\ x.id = id /\ x.kind = kind
  BY DEF Answers, Sessions
<1>3. backend' = b /\ call' = [call EXCEPT ![c].phase = "answered", ![c].answer = x]
  BY DEF Answer
<1> HIDE DEF x
<1>4. call' = [call EXCEPT ![c] = r]
  BY <1>1, <1>3 DEF Functions
<1>5. /\ r \in Functions /\ r.op = call[c].op /\ r.on = call[c].on /\ r.of = call[c].of
      /\ r.then = call[c].then /\ r.answer = x
  BY <1>1, <1>2 DEF Functions
<1> HIDE DEF r
<1>6. Purposeful(r)
  BY <1>1, <1>2, <1>5 DEF Purposeful
<1>7. QED
  BY <1>3, <1>4, <1>5, <1>6, Continued

LEMMA RefuseInv ==
  ASSUME Inv, NEW c \in Calls, NEW kinds \in SUBSET (Failures \union {"entity"}),
         call[c].op = "create" => "entity" \notin kinds,
         Refuse(c, kinds), UNCHANGED <<ui, ticked>>
  PROVE  Inv'
<1>1. PICK kind \in kinds : Answer(c, backend, kind, 0)
  BY DEF Refuse
<1>2. backend \in Sessions
  BY Types DEF Inv
<1>3. QED
  BY <1>1, <1>2, AnswerInv

\* What the backend may become.
LEMMA SessionTypes ==
  ASSUME Inv
  PROVE  /\ backend \in Sessions /\ Superseded \in Sessions /\ Superseded.revision \in Nat
         /\ Selected \in Sessions /\ Selected.revision \in Nat
         /\ backend.revision + 1 \in Nat /\ backend.previews + 1 \in Nat
<1>1. backend \in Sessions
  BY Types DEF Inv
<1> DEFINE next == backend.revision + 1
           none == {}
           empty == [id |-> 0, unparsed |-> FALSE]
<1>2. /\ next \in Nat /\ backend.previews + 1 \in Nat
      /\ none \in SUBSET [id : Nat, diagnosis : Nat] /\ empty \in [id : Nat, unparsed : BOOLEAN]
  BY <1>1 DEF Sessions
<1>3. Superseded = [backend EXCEPT !.revision = next, !.latest = 0, !.plans = none,
                                   !.preview = empty]
  BY DEF Superseded
<1> HIDE DEF next, none, empty
<1>4. Superseded \in Sessions /\ Superseded.revision = next
  BY <1>1, <1>2, <1>3 DEF Sessions
<1>5. Selected \in Sessions /\ Selected.revision \in Nat
  BY <1>2, <1>4 DEF Selected, Sessions, next
<1>6. QED
  BY <1>1, <1>2, <1>4, <1>5 DEF next

LEMMA AdvanceInv ==
  ASSUME Inv, NEW c \in Calls, NEW b \in Sessions, NEW kinds \in SUBSET Failures,
         Advance(c, b, kinds), UNCHANGED <<ui, ticked>>, call[c].op # "create"
  PROVE  Inv'
<1>1. b.revision \in Nat
  BY DEF Sessions
<1>2. CASE Answer(c, b, "entity", b.revision)
  BY <1>1, <1>2, AnswerInv
<1>3. CASE \E kind \in kinds \intersect Errors : Answer(c, Superseded, kind, 0)
  BY <1>3, SessionTypes, AnswerInv
<1>4. QED
  BY <1>2, <1>3 DEF Advance

LEMMA ServeExecuteInv ==
  ASSUME Inv, NEW c \in Calls, ServeExecute(c)
  PROVE  Inv'
<1>1. UNCHANGED <<ui, ticked>> /\ call[c].op = "execute"
  BY DEF ServeExecute, Asked
<1>2. backend \in Sessions /\ call \in [Calls -> Functions] /\ Purposeful(call[c])
  BY Types DEF Inv
<1>3. ASSUME NEW p \in backend.plans, p.id = call[c].on,
             NEW taken, taken = [backend EXCEPT !.plans = backend.plans \ {p}],
             \/ \E kind \in {"entity"} \union ({"other"} \intersect Errors) :
                  Answer(c, taken, kind, p.id)
             \/ /\ backend' = [taken EXCEPT !.writing = taken.writing \union {p.id}]
                /\ call' = [call EXCEPT ![c].phase = "writing"]
      PROVE  Inv'
  <2>1. taken \in Sessions /\ p.id \in Nat
    BY <1>2, <1>3 DEF Sessions
  <2>2. CASE \E kind \in {"entity"} \union ({"other"} \intersect Errors) :
               Answer(c, taken, kind, p.id)
    BY <1>1, <1>3, <2>1, <2>2, AnswerInv DEF Failures
  <2>3. CASE /\ backend' = [taken EXCEPT !.writing = taken.writing \union {p.id}]
             /\ call' = [call EXCEPT ![c].phase = "writing"]
    <3> DEFINE r == [call[c] EXCEPT !.phase = "writing"]
    <3>1. backend' \in Sessions
      BY <2>1, <2>3 DEF Sessions
    <3>2. call' = [call EXCEPT ![c] = r]
      BY <1>2, <2>3 DEF Functions
    <3>3. /\ r \in Functions /\ r.op = call[c].op /\ r.on = call[c].on /\ r.of = call[c].of
          /\ r.then = call[c].then /\ r.phase = "writing" /\ r.answer = call[c].answer
      BY <1>2 DEF Functions
    <3> HIDE DEF r
    <3>4. Purposeful(r)
      BY <1>2, <3>3 DEF Purposeful
    <3>5. QED
      BY <1>1, <3>1, <3>2, <3>3, <3>4, Continued
  <2>4. QED
    BY <1>3, <2>2, <2>3
<1>4. ASSUME NEW kinds \in SUBSET Failures, Refuse(c, kinds)
      PROVE  Inv'
  BY <1>1, <1>4, RefuseInv
<1>5. QED
  BY <1>3, <1>4 DEF ServeExecute, Failures, Levels

LEMMA ServeInv ==
  ASSUME Inv, NEW c \in Calls, Serve(c)
  PROVE  Inv'
<1>1. ASSUME NEW op, Asked(c, op), op # "create",
             NEW kinds \in SUBSET (Failures \union {"entity"}), Refuse(c, kinds)
      PROVE  Inv'
  BY <1>1, RefuseInv DEF Asked
<1>2. ASSUME NEW op, Asked(c, op), op # "create",
             NEW b \in Sessions, NEW kind \in Failures \union {"entity"}, NEW id \in Nat,
             Answer(c, b, kind, id)
      PROVE  Inv'
  BY <1>2, AnswerInv DEF Asked
<1>3. {"adb"} \in SUBSET Failures /\ {"device"} \in SUBSET Failures
      /\ {"diagnosis"} \in SUBSET Failures /\ {"other"} \intersect Errors \in SUBSET Failures
      /\ {"adb", "other"} \in SUBSET Failures /\ {"device", "other"} \in SUBSET Failures
  BY DEF Failures, Levels
<1>4. CASE ServeDiscover(c)
  <2> DEFINE begun == [Superseded EXCEPT !.selection = 0, !.enumeration = 0]
  <2>1. begun \in Sessions /\ begun.revision \in Nat
    BY SessionTypes DEF Sessions
  <2> DEFINE found == [begun EXCEPT !.discovery = begun.revision]
  <2>2. found \in Sessions
    BY <2>1 DEF Sessions
  <2>3. /\ Asked(c, "discover")
        /\ \/ Answer(c, found, "entity", begun.revision)
           \/ \E kind \in {"adb", "other"} \intersect Errors : Answer(c, begun, kind, 0)
    BY <1>4 DEF ServeDiscover
  <2> HIDE DEF begun, found
  <2>4. QED
    BY <1>2, <1>3, <2>1, <2>2, <2>3
<1>5. CASE ServeSelect(c)
  BY <1>1, <1>2, <1>3, <1>5, SessionTypes DEF ServeSelect
<1>6. CASE ServeChoose(c)
  BY <1>1, <1>2, <1>3, <1>6, SessionTypes DEF ServeChoose
<1>7. CASE ServeList(c)
  <2>1. [Superseded EXCEPT !.enumeration = backend.revision + 1] \in Sessions
    BY SessionTypes DEF Sessions
  <2>2. QED
    BY <1>1, <1>3, <1>7, <2>1, AdvanceInv DEF ServeList, Asked
<1>8. CASE ServeDiagnose(c)
  <2>1. [Superseded EXCEPT !.latest = backend.revision + 1] \in Sessions
    BY SessionTypes DEF Sessions
  <2>2. QED
    BY <1>1, <1>3, <1>8, <2>1, AdvanceInv DEF ServeDiagnose, Asked
<1>9. CASE ServePrepare(c)
  <2>1. ASSUME NEW unparsed \in BOOLEAN
        PROVE  [backend EXCEPT !.previews = @ + 1,
                  !.preview = [id |-> backend.previews + 1, unparsed |-> unparsed]] \in Sessions
    BY SessionTypes DEF Sessions
  <2>2. QED
    BY <1>1, <1>2, <1>3, <1>9, <2>1, SessionTypes DEF ServePrepare
<1>10. CASE ServeAuthorize(c)
  <2>1. [backend EXCEPT !.preview.unparsed = FALSE] \in Sessions /\ call[c].on \in Nat
    BY SessionTypes, Types DEF Sessions, Inv, Functions
  <2>2. QED
    BY <1>1, <1>2, <1>3, <1>10, <2>1 DEF ServeAuthorize
<1>11. CASE ServeCreate(c)
  <2>1. call[c].on \in Nat
    BY Types DEF Inv, Functions
  <2> DEFINE empty == [id |-> 0, unparsed |-> FALSE]
             plan == [id |-> call[c].on, diagnosis |-> backend.latest]
             b == [backend EXCEPT !.preview = empty, !.plans = @ \union {plan}]
  <2>2. b \in Sessions
    <3>1. plan \in [id : Nat, diagnosis : Nat] /\ empty \in [id : Nat, unparsed : BOOLEAN]
      BY <2>1, SessionTypes DEF Sessions
    <3> HIDE DEF plan, empty
    <3>2. QED
      BY <3>1, SessionTypes DEF Sessions
  <2> HIDE DEF b
  <2>3. CASE Answer(c, b, "entity", call[c].on)
    BY <1>11, <2>1, <2>2, <2>3, AnswerInv DEF ServeCreate, Asked
  <2>4. CASE Refuse(c, {"diagnosis"}) \/ Refuse(c, {"other"} \intersect Errors)
    BY <1>3, <1>11, <2>4, RefuseInv DEF ServeCreate, Asked
  <2>5. QED
    BY <1>11, <2>3, <2>4 DEF ServeCreate, b
<1>12. CASE FinishExecution(c)
  <2> DEFINE b == [backend EXCEPT !.writing = @ \ {call[c].on}, !.revision = @ + 1, !.latest = 0,
                                  !.preview = [id |-> 0, unparsed |-> FALSE]]
  <2>1. b \in Sessions /\ call[c].on \in Nat
    BY SessionTypes, Types DEF Sessions, Inv, Functions
  <2> HIDE DEF b
  <2>2. Answer(c, b, "entity", call[c].on) /\ UNCHANGED <<ui, ticked>>
    BY <1>12 DEF FinishExecution, b
  <2>3. QED
    BY <2>1, <2>2, AnswerInv
<1>13. CASE ServeCancel(c)
  <2>1. ASSUME NEW p \in backend.plans
        PROVE  [backend EXCEPT !.plans = @ \ {p}] \in Sessions /\ p.id \in Nat
    BY SessionTypes DEF Sessions
  <2>2. QED
    BY <1>1, <1>2, <1>3, <1>13, <2>1 DEF ServeCancel
<1>14. CASE ServeRead(c)
  <2>1. {"entity"} \union ({"other"} \intersect Errors) \in SUBSET (Failures \union {"entity"})
    BY <1>3
  <2>2. QED
    BY <1>1, <1>2, <1>14, <2>1, SessionTypes DEF ServeRead
<1>15. QED
  BY <1>4, <1>5, <1>6, <1>7, <1>8, <1>9, <1>10, <1>11, <1>12, <1>13, <1>14, ServeExecuteInv
     DEF Serve

----------------------------------------------------------------------------
(* The answers.                                                            *)

\* The requests of each service.
Requests ==
  [discovery |-> {"discover"}, adb |-> {"select", "choose"}, enumeration |-> {"list"},
   diagnosis |-> {"diagnose"}, preview |-> {"prepare"}, plan |-> {"authorize", "create"},
   execution |-> {"execute"}, inventory |-> {"snapshots"}, context |-> {"reconcile"},
   recovery |-> {"reconcile"}]

LEMMA Requested ==
  ASSUME Inv, NEW c \in Calls, NEW s \in Services, ui.awaited[s] = c
  PROVE  call[c].op \in Requests[s]
<1>1. Match(ui, c, call[c]) /\ ui.awaited.recovery = ui.awaited.context
  BY DEF Inv, Matches, Waits
<1>2. QED
  BY <1>1 DEF Match, Services, Requests

\* Services other than the recovery have no request in common.
LEMMA NoneInCommon ==
  ASSUME NEW s \in Services \ {"context", "recovery"}, NEW z \in Services \ {s}, NEW op,
         op \in Requests[s]
  PROVE  op \notin Requests[z]
BY DEF Services, Requests

\* Once its service does not wait for c any more, no service does.
LEMMA Settles ==
  ASSUME Inv, NEW c \in Calls, NEW s \in Services \ {"context", "recovery"},
         call[c].op \in Requests[s], NEW f, f.awaited[s] # c,
         \A z \in Services \ {s} : f.awaited[z] \in {ui.awaited[z], NoCall}
  PROVE  Free(f, c)
<1>1. \A z \in Services \ {s} : ui.awaited[z] # c
  BY Requested, NoneInCommon
<1>2. QED
  BY <1>1, ConstantsAssumption DEF Free

LEMMA LateInv ==
  ASSUME Inv, NEW c \in Calls, NEW s \in Services \ {"context", "recovery"},
         call[c].op \in Requests[s], Late(c, s), UNCHANGED <<backend, ticked>>
  PROVE  Inv'
<1>1. Free(ui, c) /\ Fits(ui, call, ticked)
  BY Settles, Clicked DEF Late, Awaited
<1>2. QED
  BY <1>1, SucceedInv, FailInv DEF Late

LEMMA Delivered ==
  ASSUME Inv, NEW c \in Calls, NEW op, Answered(c, op)
  PROVE  /\ Fits(ui, call, ticked) /\ Match(ui, c, call[c]) /\ Purposeful(call[c])
         /\ call[c].op = op /\ call[c] \in Functions /\ call[c].answer \in Answers
         /\ call[c].on \in Nat /\ call[c].of \in SelectedDevices
         /\ call[c].phase = "answered" /\ c # NoCall
         /\ UNCHANGED <<backend, ticked>>
         /\ backend' \in Sessions /\ ticked' \in [risk : Nat, device : Nat]
BY Clicked, Types, ConstantsAssumption DEF Inv, Matches, Answered, Functions

\* The resource of a request that is awaited has failed: nothing depends on it.
LEMMA FailedInv ==
  ASSUME Inv, NEW c \in Calls,
         NEW s \in {"discovery", "adb", "enumeration", "diagnosis", "preview"},
         call[c].op \in Requests[s], call[c].op # "choose",
         Failed(c, s), UNCHANGED <<backend, ticked>>
  PROVE  Inv'
<1> DEFINE f == [ui EXCEPT ![s].state = "failed", !.awaited[s] = NoCall]
           a == [ui.awaited EXCEPT ![s] = NoCall]
<1>1. Fits(ui, call, ticked) /\ c # NoCall /\ Match(ui, c, call[c])
  BY Clicked, ConstantsAssumption DEF Inv, Matches
<1>2. ui.awaited[s] = c /\ Fail(c, f, call[c].answer.kind, call[c].then)
  BY DEF Failed, Awaited
<1>3. a \in Waitings /\ a[s] = NoCall /\ \A z \in Services \ {s} : a[z] = ui.awaited[z]
  BY <1>1 DEF Fits, Signals, Waitings, Services
<1>4. Fits(f, call, ticked) /\ f.awaited = a
  <2>1. CASE s = "discovery"
    <3> DEFINE x == [ui.discovery EXCEPT !.state = "failed"]
    <3>1. f = [ui EXCEPT !.awaited = a, !.discovery = x]
      BY <1>1, <2>1 DEF Fits, Signals
    <3>2. x \in Resources /\ x.state = "failed"
      BY <1>1 DEF Fits, Signals, Resources, States
    <3> HIDE DEF a, x, f
    <3>3. f \in Signals
      BY <1>1, <1>3, <3>1, <3>2 DEF Fits, Signals
    <3>4. /\ f.discovery = x /\ f.context = ui.context /\ f.adb = ui.adb /\ f.awaited = a
          /\ f.enumeration = ui.enumeration /\ f.device = ui.device /\ f.diagnosis = ui.diagnosis
          /\ f.preview = ui.preview /\ f.plan = ui.plan /\ f.execution = ui.execution
          /\ f.inventory = ui.inventory /\ f.risk = ui.risk /\ f.confirmed = ui.confirmed
      BY <1>1, <3>1 DEF Fits, Signals
    <3>5. Links(f) /\ Waits(f) /\ Consents(f, ticked)
      BY <1>1, <1>2, <1>3, <2>1, <3>2, <3>4 DEF Fits, Links, Waits, Consents, Services
    <3>6. ASSUME NEW d \in Calls PROVE Match(f, d, call[d])
      <4>1. Match(ui, d, call[d]) /\ d # NoCall
        BY <1>1, ConstantsAssumption DEF Fits, Matches
      <4>2. QED
        BY <1>3, <2>1, <3>4, <4>1 DEF Match, Services
    <3>7. QED
      BY <3>3, <3>4, <3>5, <3>6 DEF Fits, Matches
  <2>2. CASE s = "adb"
    <3> DEFINE x == [ui.adb EXCEPT !.state = "failed"]
    <3>1. f = [ui EXCEPT !.awaited = a, !.adb = x]
      BY <1>1, <2>2 DEF Fits, Signals
    <3>2. x \in Selections /\ x.state = "failed"
      BY <1>1 DEF Fits, Signals, Selections, States
    <3> HIDE DEF a, x, f
    <3>3. f \in Signals
      BY <1>1, <1>3, <3>1, <3>2 DEF Fits, Signals
    <3>4. /\ f.discovery = ui.discovery /\ f.context = ui.context /\ f.adb = x /\ f.awaited = a
          /\ f.enumeration = ui.enumeration /\ f.device = ui.device /\ f.diagnosis = ui.diagnosis
          /\ f.preview = ui.preview /\ f.plan = ui.plan /\ f.execution = ui.execution
          /\ f.inventory = ui.inventory /\ f.risk = ui.risk /\ f.confirmed = ui.confirmed
      BY <1>1, <3>1 DEF Fits, Signals
    <3>5. ui.adb.state = "resolving"
      BY <1>1, <1>2, <2>2 DEF Match
    <3>6. Links(f) /\ Waits(f) /\ Consents(f, ticked)
      BY <1>1, <1>2, <1>3, <2>2, <3>2, <3>4, <3>5
         DEF Fits, Links, Waits, Consents, Services, Underway
    <3>7. ASSUME NEW d \in Calls PROVE Match(f, d, call[d])
      <4>1. Match(ui, d, call[d]) /\ d # NoCall
        BY <1>1, ConstantsAssumption DEF Fits, Matches
      <4>2. QED
        BY <1>3, <2>2, <3>4, <4>1 DEF Match, Services
    <3>8. QED
      BY <3>3, <3>4, <3>6, <3>7 DEF Fits, Matches
  <2>3. CASE s = "enumeration"
    <3> DEFINE x == [ui.enumeration EXCEPT !.state = "failed"]
    <3>1. f = [ui EXCEPT !.awaited = a, !.enumeration = x]
      BY <1>1, <2>3 DEF Fits, Signals
    <3>2. x \in Resources /\ x.state = "failed"
      BY <1>1 DEF Fits, Signals, Resources, States
    <3> HIDE DEF a, x, f
    <3>3. f \in Signals
      BY <1>1, <1>3, <3>1, <3>2 DEF Fits, Signals
    <3>4. /\ f.discovery = ui.discovery /\ f.context = ui.context /\ f.adb = ui.adb
          /\ f.awaited = a /\ f.enumeration = x /\ f.device = ui.device
          /\ f.diagnosis = ui.diagnosis /\ f.preview = ui.preview /\ f.plan = ui.plan
          /\ f.execution = ui.execution /\ f.inventory = ui.inventory
          /\ f.risk = ui.risk /\ f.confirmed = ui.confirmed
      BY <1>1, <3>1 DEF Fits, Signals
    <3>5. ui.enumeration.state = "resolving"
      BY <1>1, <1>2, <2>3 DEF Fits, Waits
    <3>6. Links(f) /\ Waits(f) /\ Consents(f, ticked)
      BY <1>1, <1>2, <1>3, <2>3, <3>2, <3>4, <3>5
         DEF Fits, Links, Waits, Consents, Services, Underway
    <3>7. ASSUME NEW d \in Calls PROVE Match(f, d, call[d])
      <4>1. Match(ui, d, call[d]) /\ d # NoCall
        BY <1>1, ConstantsAssumption DEF Fits, Matches
      <4>2. QED
        BY <1>3, <2>3, <3>4, <4>1 DEF Match, Services
    <3>8. QED
      BY <3>3, <3>4, <3>6, <3>7 DEF Fits, Matches
  <2>4. CASE s = "diagnosis"
    <3> DEFINE x == [ui.diagnosis EXCEPT !.state = "failed"]
    <3>1. f = [ui EXCEPT !.awaited = a, !.diagnosis = x]
      BY <1>1, <2>4 DEF Fits, Signals
    <3>2. x \in Diagnoses /\ x.state = "failed"
      BY <1>1 DEF Fits, Signals, Diagnoses, States
    <3> HIDE DEF a, x, f
    <3>3. f \in Signals
      BY <1>1, <1>3, <3>1, <3>2 DEF Fits, Signals
    <3>4. /\ f.discovery = ui.discovery /\ f.context = ui.context /\ f.adb = ui.adb
          /\ f.awaited = a /\ f.enumeration = ui.enumeration /\ f.device = ui.device
          /\ f.diagnosis = x /\ f.preview = ui.preview /\ f.plan = ui.plan
          /\ f.execution = ui.execution /\ f.inventory = ui.inventory
          /\ f.risk = ui.risk /\ f.confirmed = ui.confirmed
      BY <1>1, <3>1 DEF Fits, Signals
    <3>5. ui.diagnosis.state = "resolving"
      BY <1>1, <1>2, <2>4 DEF Fits, Waits
    <3>6. Links(f) /\ Waits(f) /\ Consents(f, ticked)
      BY <1>1, <1>2, <1>3, <2>4, <3>2, <3>4, <3>5
         DEF Fits, Links, Waits, Consents, Services, Underway
    <3>7. ASSUME NEW d \in Calls PROVE Match(f, d, call[d])
      <4>1. Match(ui, d, call[d]) /\ d # NoCall
        BY <1>1, ConstantsAssumption DEF Fits, Matches
      <4>2. QED
        BY <1>3, <2>4, <3>4, <4>1 DEF Match, Services
    <3>8. QED
      BY <3>3, <3>4, <3>6, <3>7 DEF Fits, Matches
  <2>5. CASE s = "preview"
    <3> DEFINE x == [ui.preview EXCEPT !.state = "failed"]
    <3>1. f = [ui EXCEPT !.awaited = a, !.preview = x]
      BY <1>1, <2>5 DEF Fits, Signals
    <3>2. x \in Previews /\ x.state = "failed"
      BY <1>1 DEF Fits, Signals, Previews, States
    <3> HIDE DEF a, x, f
    <3>3. f \in Signals
      BY <1>1, <1>3, <3>1, <3>2 DEF Fits, Signals
    <3>4. /\ f.discovery = ui.discovery /\ f.context = ui.context /\ f.adb = ui.adb
          /\ f.awaited = a /\ f.enumeration = ui.enumeration /\ f.device = ui.device
          /\ f.diagnosis = ui.diagnosis /\ f.preview = x /\ f.plan = ui.plan
          /\ f.execution = ui.execution /\ f.inventory = ui.inventory
          /\ f.risk = ui.risk /\ f.confirmed = ui.confirmed
      BY <1>1, <3>1 DEF Fits, Signals
    <3>5. ui.preview.state = "resolving" /\ ui.awaited.plan = NoCall
      BY <1>1, <1>2, <2>5 DEF Fits, Waits, Consents
    <3>6. Links(f) /\ Waits(f) /\ Consents(f, ticked)
      BY <1>1, <1>2, <1>3, <2>5, <3>2, <3>4, <3>5
         DEF Fits, Links, Waits, Consents, Services, Underway
    <3>7. ASSUME NEW d \in Calls PROVE Match(f, d, call[d])
      <4>1. Match(ui, d, call[d]) /\ d # NoCall
        BY <1>1, ConstantsAssumption DEF Fits, Matches
      <4>2. QED
        BY <1>3, <2>5, <3>4, <3>5, <4>1 DEF Match, Services
    <3>8. QED
      BY <3>3, <3>4, <3>6, <3>7 DEF Fits, Matches
  <2>6. QED
    BY <2>1, <2>2, <2>3, <2>4, <2>5
<1>5. Free(f, c)
  <2>1. s \in Services \ {"context", "recovery"}
    BY DEF Services
  <2>2. f.awaited[s] # c /\ \A z \in Services \ {s} : f.awaited[z] \in {ui.awaited[z], NoCall}
    BY <1>1, <1>3, <1>4
  <2> HIDE DEF f, a
  <2>3. QED
    BY <2>1, <2>2, Settles
<1> HIDE DEF f, a
<1>6. QED
  BY <1>2, <1>4, <1>5, FailInv

LEMMA DeliverDiscoveryInv ==
  ASSUME Inv, NEW c \in Calls, DeliverDiscovery(c)
  PROVE  Inv'
<1>1. Answered(c, "discover")
  BY DEF DeliverDiscovery
<1>2. CASE Late(c, "discovery")
  BY <1>1, <1>2, Delivered, LateInv DEF Services, Requests
<1>3. CASE Failed(c, "discovery")
  BY <1>1, <1>3, Delivered, FailedInv DEF Requests
<1>4. ASSUME InTime(c, "discovery") PROVE Inv'
  <2> DEFINE a == [ui.awaited EXCEPT !.discovery = NoCall]
             x == [state |-> "resolved", id |-> call[c].answer.id, parent |-> 0]
             e == [ui EXCEPT !.awaited = a, !.discovery = x]
             revision == call[c].answer.revision
             latest == ui.context.latest
             f == Observed(e, revision, latest)
  <2>1. Fits(ui, call, ticked) /\ ui.awaited.discovery = c /\ c # NoCall
    BY <1>1, <1>4, Delivered DEF InTime, Awaited
  <2>2. /\ call[c].answer.id \in Nat /\ revision \in Nat /\ latest \in Nat
        /\ UNCHANGED <<backend, ticked>>
    BY <1>1, <2>1, Delivered DEF Answers, Fits, Signals, Contexts
  <2>3. /\ a \in Waitings /\ a.discovery = NoCall
        /\ \A z \in Services \ {"discovery"} : a[z] = ui.awaited[z]
    BY <2>1 DEF Fits, Signals, Waitings, Services
  <2>4. x \in Resources /\ x.state = "resolved"
    BY <2>2 DEF Resources, States
  <2>5. [ui EXCEPT !.awaited.discovery = NoCall,
                   !.discovery = [state |-> "resolved", id |-> call[c].answer.id,
                                  parent |-> 0]] = e
    BY <2>1 DEF Fits, Signals
  <2>6. \/ StartSelection(c, f, call[c].then)
        \/ Succeed(c, f, call[c].then)
    BY <1>4, <2>5 DEF DeliverDiscovery, InTime, Late, Failed
  <2> HIDE DEF a, x
  <2>7. e \in Signals
    BY <2>1, <2>3, <2>4 DEF Fits, Signals
  <2>8. /\ e.discovery = x /\ e.context = ui.context /\ e.adb = ui.adb /\ e.awaited = a
        /\ e.enumeration = ui.enumeration /\ e.device = ui.device /\ e.diagnosis = ui.diagnosis
        /\ e.preview = ui.preview /\ e.plan = ui.plan /\ e.execution = ui.execution
        /\ e.inventory = ui.inventory /\ e.risk = ui.risk /\ e.confirmed = ui.confirmed
    BY <2>1 DEF Fits, Signals
  <2> HIDE DEF e
  <2>9. Links(e) /\ Waits(e) /\ Consents(e, ticked)
    BY <2>1, <2>3, <2>4, <2>8 DEF Fits, Links, Waits, Consents, Services
  <2>10. ASSUME NEW d \in Calls PROVE Match(e, d, call[d])
    <3>1. Match(ui, d, call[d]) /\ d # NoCall
      BY <2>1, ConstantsAssumption DEF Fits, Matches
    <3>2. QED
      BY <2>3, <2>8, <3>1 DEF Match, Services
  <2>11. Fits(e, call, ticked)
    BY <2>7, <2>9, <2>10 DEF Fits, Matches
  <2>12. Free(e, c)
    <3>1. "discovery" \in Services \ {"context", "recovery"} /\ call[c].op \in Requests["discovery"]
      BY <1>1, Delivered DEF Services, Requests
    <3>2. QED
      BY <2>1, <2>3, <2>8, <3>1, Settles
  <2> HIDE DEF revision, latest
  <2>13. Fits(f, call, ticked) /\ Free(f, c) /\ f.adb = ui.adb /\ f.discovery = x
    <3>1. Fits(e, call, ticked) /\ revision \in Nat /\ latest \in Nat
      BY <2>2, <2>11
    <3>2. PICK h : h = Observed(e, revision, latest)
      OBVIOUS
    <3>3. /\ Fits(h, call, ticked) /\ \A d \in Calls : Free(e, d) => Free(h, d)
          /\ h.adb = e.adb /\ h.discovery = e.discovery
      BY ONLY <3>1, <3>2, ObservedFits
    <3>4. f = h
      BY <3>2
    <3> HIDE DEF f
    <3>5. QED
      BY <2>8, <2>12, <3>3, <3>4
  <2> HIDE DEF f
  <2>14. ~Underway(f.adb) /\ f.discovery.state # "resolving"
    BY <2>1, <2>4, <2>13 DEF Fits, Waits
  <2>15. call[c].then \in Purposes /\ call[c].then \notin {"restore", "execute"}
    BY <1>1, Delivered DEF Purposeful, Functions
  <2>16. QED
    BY <2>2, <2>6, <2>13, <2>14, <2>15, StartSelectionInv, SucceedInv
<1>5. QED
  BY <1>2, <1>3, <1>4 DEF DeliverDiscovery

\* What is selected is published while nothing depends on an adb.
LEMMA WithSelectionFits ==
  ASSUME Inv, NEW c \in Calls, call[c].op \in {"select", "choose"}, call[c].answer \in Answers,
         NEW f, Fits(f, call, ticked), ~Underway(f.enumeration),
         f.discovery.state # "resolving",
         \A s \in Services \ {"adb"} : f.awaited[s] \in {ui.awaited[s], NoCall},
         NEW discovery \in Nat
  PROVE  LET g == WithSelection(c, f, discovery) IN
         Fits(g, call, ticked) /\ Free(g, c)
<1> DEFINE a == [f.awaited EXCEPT !.adb = NoCall]
           x == [state |-> "resolved", id |-> call[c].answer.id, parent |-> discovery,
                 last |-> TRUE]
           e == [f EXCEPT !.awaited = a, !.adb = x]
           revision == call[c].answer.revision
           latest == ui.context.latest
           g == WithoutEnumeration(Observed(e, revision, latest))
<1>1. call[c].answer.id \in Nat /\ revision \in Nat /\ latest \in Nat
  BY Clicked DEF Answers, Fits, Signals, Contexts
<1>2. /\ a \in Waitings /\ a.adb = NoCall
      /\ \A z \in Services \ {"adb"} : a[z] = f.awaited[z]
  BY DEF Fits, Signals, Waitings, Services
<1>3. x \in Selections /\ x.state = "resolved"
  BY <1>1 DEF Selections, States
<1>4. WithSelection(c, f, discovery) = g
  BY DEF WithSelection, Fits, Signals
<1> HIDE DEF a, x
<1>5. e \in Signals
  BY <1>2, <1>3 DEF Fits, Signals
<1>6. /\ e.discovery = f.discovery /\ e.context = f.context /\ e.adb = x /\ e.awaited = a
      /\ e.enumeration = f.enumeration /\ e.device = f.device /\ e.diagnosis = f.diagnosis
      /\ e.preview = f.preview /\ e.plan = f.plan /\ e.execution = f.execution
      /\ e.inventory = f.inventory /\ e.risk = f.risk /\ e.confirmed = f.confirmed
  BY DEF Fits, Signals
<1> HIDE DEF e
<1>7. Links(e) /\ Waits(e) /\ Consents(e, ticked)
  BY <1>2, <1>3, <1>6 DEF Fits, Links, Waits, Consents, Services
<1>8. ASSUME NEW d \in Calls PROVE Match(e, d, call[d])
  <2>1. Match(f, d, call[d]) /\ d # NoCall
    BY ConstantsAssumption DEF Fits, Matches
  <2>2. QED
    BY <1>2, <1>6, <2>1 DEF Match, Services
<1>9. Fits(e, call, ticked)
  BY <1>5, <1>7, <1>8 DEF Fits, Matches
<1>10. Free(e, c)
  <2>1. "adb" \in Services \ {"context", "recovery"} /\ call[c].op \in Requests["adb"]
    BY DEF Services, Requests
  <2>2. QED
    BY <1>2, <1>6, <2>1, ConstantsAssumption, Settles
<1>11. Fits(Observed(e, revision, latest), call, ticked) /\ Free(Observed(e, revision, latest), c)
  BY <1>1, <1>9, <1>10, ObservedFits
<1>12. QED
  BY <1>4, <1>11, WithoutEnumerationFits

LEMMA DeliverSelectionInv ==
  ASSUME Inv, NEW c \in Calls, DeliverSelection(c)
  PROVE  Inv'
<1>1. Answered(c, "select")
  BY DEF DeliverSelection
<1>2. CASE Late(c, "adb")
  BY <1>1, <1>2, Delivered, LateInv DEF Services, Requests
<1>3. CASE Failed(c, "adb")
  BY <1>1, <1>3, Delivered, FailedInv DEF Requests
<1>4. ASSUME InTime(c, "adb"), Succeed(c, WithSelection(c, ui, call[c].on), call[c].then)
      PROVE Inv'
  <2>1. /\ Fits(ui, call, ticked) /\ Match(ui, c, call[c]) /\ call[c].op = "select"
        /\ call[c].answer \in Answers /\ call[c].on \in Nat /\ UNCHANGED <<backend, ticked>>
        /\ ui.awaited.adb = c /\ c # NoCall
    BY <1>1, <1>4, Delivered DEF InTime, Awaited
  <2>2. ~Underway(ui.enumeration) /\ ui.discovery.state # "resolving"
    BY <2>1 DEF Fits, Links, Waits, Match
  <2>3. PICK g : g = WithSelection(c, ui, call[c].on)
    OBVIOUS
  <2>4. Fits(g, call, ticked) /\ Free(g, c)
    BY <2>1, <2>2, <2>3, WithSelectionFits
  <2>5. QED
    BY <1>4, <2>1, <2>3, <2>4, SucceedInv
<1>5. QED
  BY <1>2, <1>3, <1>4 DEF DeliverSelection

LEMMA DeliverChoiceInv ==
  ASSUME Inv, NEW c \in Calls, DeliverChoice(c)
  PROVE  Inv'
<1>1. Answered(c, "choose")
  BY DEF DeliverChoice
<1>2. CASE Late(c, "adb")
  BY <1>1, <1>2, Delivered, LateInv DEF Services, Requests
<1>3. ASSUME Awaited(c, "adb") PROVE Inv'
  <2> DEFINE a == [ui.awaited EXCEPT !.adb = NoCall]
             f == [ui EXCEPT !.awaited = a]
  <2>1. /\ Fits(ui, call, ticked) /\ Match(ui, c, call[c]) /\ call[c].op = "choose"
        /\ call[c].answer \in Answers /\ UNCHANGED <<backend, ticked>>
        /\ ui.awaited.adb = c /\ c # NoCall
    BY <1>1, <1>3, Delivered DEF Awaited
  <2>2. [ui EXCEPT !.awaited.adb = NoCall] = f
    BY <2>1 DEF Fits, Signals
  <2>3. a \in Waitings /\ a.adb = NoCall /\ \A z \in Services \ {"adb"} : a[z] = ui.awaited[z]
    BY <2>1 DEF Fits, Signals, Waitings, Services
  <2>4. \/ Fail(c, f, call[c].answer.kind, "handle")
        \/ Succeed(c, f, "handle")
        \/ Succeed(c, WithSelection(c, WithoutAdb(ui), 0), "handle")
    BY <1>3, <2>2 DEF DeliverChoice, Late, InTime
  <2> HIDE DEF a
  <2>5. Fits(f, call, ticked) /\ Free(f, c)
    <3>1. f \in Signals
      BY <2>1, <2>3 DEF Fits, Signals
    <3>2. /\ f.discovery = ui.discovery /\ f.context = ui.context /\ f.adb = ui.adb
          /\ f.awaited = a /\ f.enumeration = ui.enumeration /\ f.device = ui.device
          /\ f.diagnosis = ui.diagnosis /\ f.preview = ui.preview /\ f.plan = ui.plan
          /\ f.execution = ui.execution /\ f.inventory = ui.inventory
          /\ f.risk = ui.risk /\ f.confirmed = ui.confirmed
      BY <2>1 DEF Fits, Signals
    <3> HIDE DEF f
    <3>3. ui.adb.state # "resolving"
      BY <2>1 DEF Match
    <3>4. Links(f) /\ Waits(f) /\ Consents(f, ticked)
      BY <2>1, <2>3, <3>2, <3>3 DEF Fits, Links, Waits, Consents, Services
    <3>5. ASSUME NEW d \in Calls PROVE Match(f, d, call[d])
      <4>1. Match(ui, d, call[d]) /\ d # NoCall
        BY <2>1, ConstantsAssumption DEF Fits, Matches
      <4>2. QED
        BY <2>3, <3>2, <4>1 DEF Match, Services
    <3>6. "adb" \in Services \ {"context", "recovery"} /\ call[c].op \in Requests["adb"]
      BY <2>1 DEF Services, Requests
    <3>7. Free(f, c)
      BY <2>1, <2>3, <3>2, <3>6, Settles
    <3>8. QED
      BY <3>1, <3>4, <3>5, <3>7 DEF Fits, Matches
  <2> HIDE DEF f
  <2>6. ASSUME Succeed(c, WithSelection(c, WithoutAdb(ui), 0), "handle") PROVE Inv'
    <3>1. PICK h : h = WithoutAdb(ui)
      OBVIOUS
    <3>2. /\ Fits(h, call, ticked) /\ Apart(h, ui) /\ NoList(h) /\ NoResult(h) /\ NoChange(h)
          /\ NoExecution(h, ui, TRUE)
      BY <2>1, <3>1, WithoutAdbFits, WithoutAdbEffect DEF Fits
    <3>3. \A s \in Services \ {"adb"} : h.awaited[s] \in {ui.awaited[s], NoCall}
      BY <3>2 DEF Services, Apart, NoList, NoResult, NoChange, NoPlan, NoExecution
    <3>4. ~Underway(h.enumeration) /\ h.discovery.state # "resolving"
      BY <2>1, <3>2, Constants DEF Fits, Waits, Apart, NoList, Underway
    <3>5. PICK g : g = WithSelection(c, h, 0)
      OBVIOUS
    <3>6. Fits(g, call, ticked) /\ Free(g, c)
      BY <2>1, <3>2, <3>3, <3>4, <3>5, WithSelectionFits
    <3>7. QED
      BY <2>1, <2>6, <3>1, <3>5, <3>6, SucceedInv
  <2>7. QED
    BY <2>1, <2>4, <2>5, <2>6, SucceedInv, FailInv
<1>4. QED
  BY <1>2, <1>3 DEF DeliverChoice, InTime

LEMMA DeliverEnumerationInv ==
  ASSUME Inv, NEW c \in Calls, DeliverEnumeration(c)
  PROVE  Inv'
<1>1. Answered(c, "list")
  BY DEF DeliverEnumeration
<1>2. CASE Late(c, "enumeration")
  BY <1>1, <1>2, Delivered, LateInv DEF Services, Requests
<1>3. CASE Failed(c, "enumeration")
  BY <1>1, <1>3, Delivered, FailedInv DEF Requests
<1>4. ASSUME InTime(c, "enumeration") PROVE Inv'
  <2> DEFINE a == [ui.awaited EXCEPT !.enumeration = NoCall]
             x == [state |-> "resolved", id |-> call[c].answer.id, parent |-> call[c].on]
             e == [ui EXCEPT !.awaited = a, !.enumeration = x]
             revision == call[c].answer.revision
             latest == ui.context.latest
             f == Observed(e, revision, latest)
  <2>1. /\ Fits(ui, call, ticked) /\ ui.awaited.enumeration = c /\ c # NoCall
        /\ ui.enumeration.state = "resolving" /\ call[c].on = ui.enumeration.parent
    BY <1>1, <1>4, Delivered DEF InTime, Awaited, Fits, Waits, Match
  <2>2. /\ call[c].answer.id \in Nat /\ revision \in Nat /\ latest \in Nat /\ call[c].on \in Nat
        /\ UNCHANGED <<backend, ticked>>
    BY <1>1, <2>1, Delivered DEF Answers, Fits, Signals, Contexts
  <2>3. /\ a \in Waitings /\ a.enumeration = NoCall
        /\ \A z \in Services \ {"enumeration"} : a[z] = ui.awaited[z]
    BY <2>1 DEF Fits, Signals, Waitings, Services
  <2>4. x \in Resources /\ x.state = "resolved" /\ x.parent = ui.enumeration.parent
    BY <2>1, <2>2 DEF Resources, States
  <2>5. [ui EXCEPT !.awaited.enumeration = NoCall,
                   !.enumeration = [state |-> "resolved", id |-> call[c].answer.id,
                                    parent |-> call[c].on]] = e
    BY <2>1 DEF Fits, Signals
  <2>6. Succeed(c, WithoutDiagnosis(f), call[c].then)
    BY <1>4, <2>5 DEF DeliverEnumeration, InTime, Late, Failed
  <2> HIDE DEF a, x
  <2>7. e \in Signals
    BY <2>1, <2>3, <2>4 DEF Fits, Signals
  <2>8. /\ e.discovery = ui.discovery /\ e.context = ui.context /\ e.adb = ui.adb
        /\ e.awaited = a /\ e.enumeration = x /\ e.device = ui.device
        /\ e.diagnosis = ui.diagnosis /\ e.preview = ui.preview /\ e.plan = ui.plan
        /\ e.execution = ui.execution /\ e.inventory = ui.inventory
        /\ e.risk = ui.risk /\ e.confirmed = ui.confirmed
    BY <2>1 DEF Fits, Signals
  <2> HIDE DEF e
  <2>9. Links(e) /\ Waits(e) /\ Consents(e, ticked)
    BY <2>1, <2>3, <2>4, <2>8 DEF Fits, Links, Waits, Consents, Services, Underway
  <2>10. ASSUME NEW d \in Calls PROVE Match(e, d, call[d])
    <3>1. Match(ui, d, call[d]) /\ d # NoCall
      BY <2>1, ConstantsAssumption DEF Fits, Matches
    <3>2. QED
      BY <2>3, <2>8, <3>1 DEF Match, Services
  <2>11. Fits(e, call, ticked)
    BY <2>7, <2>9, <2>10 DEF Fits, Matches
  <2>12. Free(e, c)
    <3>1. /\ "enumeration" \in Services \ {"context", "recovery"}
          /\ call[c].op \in Requests["enumeration"]
      BY <1>1, Delivered DEF Services, Requests
    <3>2. QED
      BY <2>1, <2>3, <2>8, <3>1, Settles
  <2> HIDE DEF revision, latest
  <2>13. Fits(f, call, ticked) /\ Free(f, c)
    BY <2>2, <2>11, <2>12, ObservedFits
  <2> HIDE DEF f
  <2>14. Fits(WithoutDiagnosis(f), call, ticked) /\ Free(WithoutDiagnosis(f), c)
    BY <2>13, WithoutDiagnosisFits
  <2>15. QED
    BY <2>2, <2>6, <2>14, SucceedInv
<1>5. QED
  BY <1>2, <1>3, <1>4 DEF DeliverEnumeration

LEMMA DeliverDiagnosisInv ==
  ASSUME Inv, NEW c \in Calls, DeliverDiagnosis(c)
  PROVE  Inv'
<1>1. Answered(c, "diagnose")
  BY DEF DeliverDiagnosis
<1>2. CASE Late(c, "diagnosis")
  BY <1>1, <1>2, Delivered, LateInv DEF Services, Requests
<1>3. CASE Failed(c, "diagnosis")
  BY <1>1, <1>3, Delivered, FailedInv DEF Requests
<1>4. ASSUME InTime(c, "diagnosis") PROVE Inv'
  <2> DEFINE a == [ui.awaited EXCEPT !.diagnosis = NoCall]
             x == [state |-> "resolved", id |-> call[c].answer.id, parent |-> call[c].of]
             e == [ui EXCEPT !.awaited = a, !.diagnosis = x]
             revision == call[c].answer.revision
             latest == call[c].answer.id
             f == Observed(e, revision, latest)
  <2>1. /\ Fits(ui, call, ticked) /\ ui.awaited.diagnosis = c /\ c # NoCall
        /\ ui.diagnosis.state = "resolving" /\ call[c].of = ui.diagnosis.parent
    BY <1>1, <1>4, Delivered DEF InTime, Awaited, Fits, Waits, Match
  <2>2. /\ revision \in Nat /\ latest \in Nat /\ call[c].of \in SelectedDevices
        /\ UNCHANGED <<backend, ticked>>
    BY <1>1, Delivered DEF Answers
  <2>3. /\ a \in Waitings /\ a.diagnosis = NoCall
        /\ \A z \in Services \ {"diagnosis"} : a[z] = ui.awaited[z]
    BY <2>1 DEF Fits, Signals, Waitings, Services
  <2>4. x \in Diagnoses /\ x.state = "resolved" /\ x.parent = ui.diagnosis.parent
    BY <2>1, <2>2 DEF Diagnoses, States
  <2>5. [ui EXCEPT !.awaited.diagnosis = NoCall,
                   !.diagnosis = [state |-> "resolved", id |-> call[c].answer.id,
                                  parent |-> call[c].of]] = e
    BY <2>1 DEF Fits, Signals
  <2>6. Succeed(c, f, call[c].then)
    BY <1>4, <2>5 DEF DeliverDiagnosis, InTime, Late, Failed
  <2> HIDE DEF a, x
  <2>7. e \in Signals
    BY <2>1, <2>3, <2>4 DEF Fits, Signals
  <2>8. /\ e.discovery = ui.discovery /\ e.context = ui.context /\ e.adb = ui.adb
        /\ e.awaited = a /\ e.enumeration = ui.enumeration /\ e.device = ui.device
        /\ e.diagnosis = x /\ e.preview = ui.preview /\ e.plan = ui.plan
        /\ e.execution = ui.execution /\ e.inventory = ui.inventory
        /\ e.risk = ui.risk /\ e.confirmed = ui.confirmed
    BY <2>1 DEF Fits, Signals
  <2> HIDE DEF e
  <2>9. Links(e) /\ Waits(e) /\ Consents(e, ticked)
    BY <2>1, <2>3, <2>4, <2>8 DEF Fits, Links, Waits, Consents, Services, Underway
  <2>10. ASSUME NEW d \in Calls PROVE Match(e, d, call[d])
    <3>1. Match(ui, d, call[d]) /\ d # NoCall
      BY <2>1, ConstantsAssumption DEF Fits, Matches
    <3>2. QED
      BY <2>3, <2>8, <3>1 DEF Match, Services
  <2>11. Fits(e, call, ticked)
    BY <2>7, <2>9, <2>10 DEF Fits, Matches
  <2>12. Free(e, c)
    <3>1. /\ "diagnosis" \in Services \ {"context", "recovery"}
          /\ call[c].op \in Requests["diagnosis"]
      BY <1>1, Delivered DEF Services, Requests
    <3>2. QED
      BY <2>1, <2>3, <2>8, <3>1, Settles
  <2> HIDE DEF revision, latest
  <2>13. Fits(f, call, ticked) /\ Free(f, c)
    BY <2>2, <2>11, <2>12, ObservedFits
  <2> HIDE DEF f
  <2>14. QED
    BY <2>2, <2>6, <2>13, SucceedInv
<1>5. QED
  BY <1>2, <1>3, <1>4 DEF DeliverDiagnosis

LEMMA DeliverPreviewInv ==
  ASSUME Inv, NEW c \in Calls, DeliverPreview(c)
  PROVE  Inv'
<1>1. Answered(c, "prepare")
  BY DEF DeliverPreview
<1>2. CASE Late(c, "preview")
  BY <1>1, <1>2, Delivered, LateInv DEF Services, Requests
<1>3. CASE Failed(c, "preview")
  BY <1>1, <1>3, Delivered, FailedInv DEF Requests
<1>4. ASSUME InTime(c, "preview") PROVE Inv'
  <2> DEFINE a == [ui.awaited EXCEPT !.preview = NoCall]
             x == [state |-> "resolved", id |-> call[c].answer.id, parent |-> call[c].on,
                   unparsed |-> call[c].answer.unparsed]
             f == [ui EXCEPT !.awaited = a, !.preview = x]
  <2>1. /\ Fits(ui, call, ticked) /\ ui.awaited.preview = c /\ c # NoCall
        /\ ui.preview.state = "resolving" /\ call[c].on = ui.preview.parent
    BY <1>1, <1>4, Delivered DEF InTime, Awaited, Fits, Waits, Match
  <2>2. /\ call[c].answer.id \in Nat /\ call[c].answer.unparsed \in BOOLEAN /\ call[c].on \in Nat
        /\ UNCHANGED <<backend, ticked>>
    BY <1>1, Delivered DEF Answers
  <2>3. /\ a \in Waitings /\ a.preview = NoCall
        /\ \A z \in Services \ {"preview"} : a[z] = ui.awaited[z]
    BY <2>1 DEF Fits, Signals, Waitings, Services
  <2>4. x \in Previews /\ x.state = "resolved" /\ x.parent = ui.preview.parent
    BY <2>1, <2>2 DEF Previews, States
  <2>5. [ui EXCEPT !.awaited.preview = NoCall,
                   !.preview = [state |-> "resolved", id |-> call[c].answer.id,
                                parent |-> call[c].on,
                                unparsed |-> call[c].answer.unparsed]] = f
    BY <2>1 DEF Fits, Signals
  <2>6. Succeed(c, f, "handle")
    BY <1>4, <2>5 DEF DeliverPreview, InTime, Late, Failed
  <2> HIDE DEF a, x
  <2>7. f \in Signals
    BY <2>1, <2>3, <2>4 DEF Fits, Signals
  <2>8. /\ f.discovery = ui.discovery /\ f.context = ui.context /\ f.adb = ui.adb
        /\ f.awaited = a /\ f.enumeration = ui.enumeration /\ f.device = ui.device
        /\ f.diagnosis = ui.diagnosis /\ f.preview = x /\ f.plan = ui.plan
        /\ f.execution = ui.execution /\ f.inventory = ui.inventory
        /\ f.risk = ui.risk /\ f.confirmed = ui.confirmed
    BY <2>1 DEF Fits, Signals
  <2> HIDE DEF f
  <2>9. ~Underway(ui.plan) /\ ui.awaited.plan = NoCall /\ ~ui.risk /\ ~ui.confirmed
    BY <2>1 DEF Fits, Waits, Consents, Underway
  <2>10. Links(f) /\ Waits(f) /\ Consents(f, ticked)
    BY <2>1, <2>3, <2>4, <2>8, <2>9 DEF Fits, Links, Waits, Consents, Services, Underway
  <2>11. ASSUME NEW d \in Calls PROVE Match(f, d, call[d])
    <3>1. Match(ui, d, call[d]) /\ d # NoCall
      BY <2>1, ConstantsAssumption DEF Fits, Matches
    <3>2. QED
      BY <2>3, <2>8, <2>9, <3>1 DEF Match, Services
  <2>12. Fits(f, call, ticked)
    BY <2>7, <2>10, <2>11 DEF Fits, Matches
  <2>13. Free(f, c)
    <3>1. /\ "preview" \in Services \ {"context", "recovery"}
          /\ call[c].op \in Requests["preview"]
      BY <1>1, Delivered DEF Services, Requests
    <3>2. QED
      BY <2>1, <2>3, <2>8, <3>1, Settles
  <2>14. QED
    BY <2>2, <2>6, <2>12, <2>13, SucceedInv
<1>5. QED
  BY <1>2, <1>3, <1>4 DEF DeliverPreview

\* A plan that fails takes its preview with it.
LEMMA PlanFailedInv ==
  ASSUME Inv, NEW c \in Calls, call[c].op \in {"authorize", "create"}, PlanFailed(c),
         UNCHANGED <<backend, ticked>>
  PROVE  Inv'
<1>1. PICK g : g = WithoutPreview(ui, FALSE)
  OBVIOUS
<1>2. /\ Fits(g, call, ticked) /\ Apart(g, ui) /\ SameAdb(g, ui) /\ SameEnumeration(g, ui)
      /\ SameDiagnosis(g, ui) /\ NoChange(g) /\ NoExecution(g, ui, FALSE)
  BY <1>1, Clicked, WithoutPreviewFits, WithoutPreviewEffect DEF Fits
<1>3. \A s \in Services : g.awaited[s] \in {ui.awaited[s], NoCall}
  BY <1>2 DEF Services, Apart, SameAdb, SameEnumeration, SameDiagnosis, NoChange, NoPlan,
     NoExecution
<1>4. /\ "plan" \in Services \ {"context", "recovery"} /\ call[c].op \in Requests["plan"]
      /\ g.awaited.plan # c
  BY <1>2, ConstantsAssumption DEF Services, Requests, NoChange, NoPlan
<1>5. Free(g, c)
  BY <1>3, <1>4, Settles
<1>6. QED
  BY <1>1, <1>2, <1>5, FailInv DEF PlanFailed

\* What is authorized is planned next; the plan is awaited all along.
LEMMA DeliverAuthorizationInv ==
  ASSUME Inv, NEW c \in Calls, DeliverAuthorization(c)
  PROVE  Inv'
<1>1. Answered(c, "authorize")
  BY DEF DeliverAuthorization
<1>2. CASE Late(c, "plan")
  BY <1>1, <1>2, Delivered, LateInv DEF Services, Requests
<1>3. CASE PlanFailed(c)
  BY <1>1, <1>3, Delivered, PlanFailedInv
<1>4. ASSUME InTime(c, "plan"), ui' = [ui EXCEPT !.preview.unparsed = FALSE],
             Ask(c, "create", call[c].on, "handle")
      PROVE  Inv'
  <2> DEFINE x == [ui.preview EXCEPT !.unparsed = FALSE]
  <2>1. /\ Fits(ui, call, ticked) /\ Match(ui, c, call[c]) /\ call[c].op = "authorize"
        /\ call[c].on \in Nat /\ UNCHANGED <<backend, ticked>>
        /\ backend' \in Sessions /\ ticked' \in [risk : Nat, device : Nat]
    BY <1>1, Delivered
  <2>2. PICK r \in Functions :
          /\ call' = [call EXCEPT ![c] = r] /\ Purposeful(r)
          /\ r.op = "create" /\ r.on = call[c].on
    BY <1>4, <2>1, Asks DEF Ops, Purposes
  <2>3. call'[c] = r /\ \A d \in Calls \ {c} : call'[d] = call[d]
    BY <2>2, Types DEF Inv
  <2>4. ui' = [ui EXCEPT !.preview = x]
    BY <1>4, <2>1 DEF Fits, Signals
  <2>5. /\ x \in Previews /\ x.state = ui.preview.state /\ x.id = ui.preview.id
        /\ x.parent = ui.preview.parent
    BY <2>1 DEF Fits, Signals, Previews
  <2> HIDE DEF x
  <2>6. ui' \in Signals
    BY <2>1, <2>4, <2>5 DEF Fits, Signals
  <2>7. /\ ui'.discovery = ui.discovery /\ ui'.context = ui.context /\ ui'.adb = ui.adb
        /\ ui'.awaited = ui.awaited /\ ui'.enumeration = ui.enumeration
        /\ ui'.device = ui.device /\ ui'.diagnosis = ui.diagnosis /\ ui'.preview = x
        /\ ui'.plan = ui.plan /\ ui'.execution = ui.execution /\ ui'.inventory = ui.inventory
        /\ ui'.risk = ui.risk /\ ui'.confirmed = ui.confirmed
    BY <2>1, <2>4 DEF Fits, Signals
  <2>8. Links(ui') /\ Waits(ui') /\ Consents(ui', ticked)
    BY <2>1, <2>5, <2>7 DEF Fits, Links, Waits, Consents, Underway
  <2>9. ASSUME NEW d \in Calls PROVE Match(ui', d, call'[d])
    <3>1. Match(ui, d, call[d])
      BY <2>1 DEF Fits, Matches
    <3>2. CASE d = c
      BY <2>1, <2>2, <2>3, <2>5, <2>7, <3>1, <3>2 DEF Match
    <3>3. CASE d # c
      BY <2>3, <2>5, <2>7, <3>1, <3>3 DEF Match
    <3>4. QED
      BY <3>2, <3>3
  <2>10. Fits(ui', call', ticked')
    BY <2>1, <2>6, <2>8, <2>9 DEF Fits, Matches
  <2>11. QED
    BY <2>1, <2>2, <2>10, Concluded
<1>5. QED
  BY <1>2, <1>3, <1>4 DEF DeliverAuthorization

\* The plan is there, its preview consumed.
LEMMA DeliverPlanInv ==
  ASSUME Inv, NEW c \in Calls, DeliverPlan(c)
  PROVE  Inv'
<1>1. Answered(c, "create")
  BY DEF DeliverPlan
<1>2. CASE Late(c, "plan")
  BY <1>1, <1>2, Delivered, LateInv DEF Services, Requests
<1>3. CASE PlanFailed(c)
  BY <1>1, <1>3, Delivered, PlanFailedInv
<1>4. ASSUME InTime(c, "plan") PROVE Inv'
  <2> DEFINE a == [ui.awaited EXCEPT !.plan = NoCall, !.preview = NoCall]
             x == [ui.plan EXCEPT !.state = "resolved", !.id = call[c].answer.id]
             f == [ui EXCEPT !.awaited = a, !.plan = x, !.preview = NoPreview,
                             !.risk = FALSE, !.allow = FALSE]
  <2>1. /\ Fits(ui, call, ticked) /\ ui.awaited.plan = c /\ c # NoCall
        /\ ui.plan.state = "resolving" /\ call[c].on = ui.preview.id
        /\ call[c].answer.id = call[c].on
    BY <1>1, <1>4, Delivered DEF InTime, Good, Awaited, Fits, Waits, Match, Purposeful
  <2>2. call[c].answer.id \in Nat /\ UNCHANGED <<backend, ticked>>
    BY <1>1, Delivered DEF Answers
  <2>3. /\ a \in Waitings /\ a.plan = NoCall /\ a.preview = NoCall
        /\ \A z \in Services \ {"plan", "preview"} : a[z] = ui.awaited[z]
    BY <2>1 DEF Fits, Signals, Waitings, Services
  <2>4. /\ x \in Resources /\ x.state = "resolved" /\ x.parent = ui.plan.parent
        /\ x.id = ui.preview.id
    BY <2>1, <2>2 DEF Fits, Signals, Resources, States
  <2>5. ConsumedPreview([ui EXCEPT !.awaited.plan = NoCall,
                                   !.plan = [@ EXCEPT !.state = "resolved",
                                                      !.id = call[c].answer.id]]) = f
    BY <2>1 DEF ConsumedPreview, Fits, Signals
  <2>6. Succeed(c, f, "handle")
    BY <1>4, <2>5 DEF DeliverPlan, InTime, Late, PlanFailed
  <2> HIDE DEF a, x
  <2>7. f \in Signals
    BY <2>1, <2>3, <2>4, Constants DEF Fits, Signals
  <2>8. /\ f.discovery = ui.discovery /\ f.context = ui.context /\ f.adb = ui.adb
        /\ f.awaited = a /\ f.enumeration = ui.enumeration /\ f.device = ui.device
        /\ f.diagnosis = ui.diagnosis /\ f.preview = NoPreview /\ f.plan = x
        /\ f.execution = ui.execution /\ f.inventory = ui.inventory
        /\ f.risk = FALSE /\ f.confirmed = ui.confirmed
    BY <2>1 DEF Fits, Signals
  <2> HIDE DEF f
  <2>9. /\ ui.preview.state = "resolved" /\ ui.awaited.preview = NoCall
        /\ ticked.risk = ui.preview.id /\ ~ui.confirmed
        /\ ui.execution.state # "resolving"
    BY <2>1 DEF Fits, Links, Waits, Consents, Underway
  <2>10. Links(f) /\ Waits(f) /\ Consents(f, ticked)
    BY <2>1, <2>3, <2>4, <2>8, <2>9, Constants
       DEF Fits, Links, Waits, Consents, Services, Underway
  <2>11. ASSUME NEW d \in Calls PROVE Match(f, d, call[d])
    <3>1. Match(ui, d, call[d]) /\ d # NoCall
      BY <2>1, ConstantsAssumption DEF Fits, Matches
    <3>2. QED
      BY <2>3, <2>8, <2>9, <3>1 DEF Match, Services
  <2>12. Fits(f, call, ticked)
    BY <2>7, <2>10, <2>11 DEF Fits, Matches
  <2>13. Free(f, c)
    <3>1. "plan" \in Services \ {"context", "recovery"} /\ call[c].op \in Requests["plan"]
      BY <1>1, Delivered DEF Services, Requests
    <3>2. \A z \in Services \ {"plan"} : f.awaited[z] \in {ui.awaited[z], NoCall}
      BY <2>3, <2>8
    <3>3. QED
      BY <2>1, <2>3, <2>8, <3>1, <3>2, Settles
  <2>14. QED
    BY <2>2, <2>6, <2>12, <2>13, SucceedInv
<1>5. QED
  BY <1>2, <1>3, <1>4 DEF DeliverPlan

\* The plan is finished, whatever came of its execution.
LEMMA DeliverExecutionInv ==
  ASSUME Inv, NEW c \in Calls, DeliverExecution(c)
  PROVE  Inv'
<1>1. Answered(c, "execute")
  BY DEF DeliverExecution
<1>2. CASE Late(c, "execution")
  BY <1>1, <1>2, Delivered, LateInv DEF Services, Requests
<1>3. ASSUME Awaited(c, "execution"), NEW state \in {"resolved", "failed"},
             NEW f, f = FinishedPlan([ui EXCEPT !.awaited.execution = NoCall,
                                               !.execution.state = state]),
             \/ Succeed(c, f, "execute")
             \/ Fail(c, f, call[c].answer.kind, "execute")
      PROVE  Inv'
  <2> DEFINE a == [ui.awaited EXCEPT !.execution = NoCall, !.plan = NoCall]
             x == [ui.execution EXCEPT !.state = state]
  <2>1. /\ Fits(ui, call, ticked) /\ ui.awaited.execution = c /\ c # NoCall
        /\ ui.execution.state = "resolving" /\ UNCHANGED <<backend, ticked>>
    BY <1>1, <1>3, Delivered DEF Awaited, Fits, Waits
  <2>2. /\ a \in Waitings /\ a.execution = NoCall /\ a.plan = NoCall
        /\ \A z \in Services \ {"execution", "plan"} : a[z] = ui.awaited[z]
    BY <2>1 DEF Fits, Signals, Waitings, Services
  <2>3. x \in Resources /\ x.state = state
    BY <1>3, <2>1 DEF Fits, Signals, Resources, States
  <2>4. f = [ui EXCEPT !.awaited = a, !.execution = x, !.plan = None]
    BY <1>3, <2>1 DEF FinishedPlan, Fits, Signals
  <2> HIDE DEF a, x
  <2>5. f \in Signals
    BY <2>1, <2>2, <2>3, <2>4, Constants DEF Fits, Signals
  <2>6. /\ f.discovery = ui.discovery /\ f.context = ui.context /\ f.adb = ui.adb
        /\ f.awaited = a /\ f.enumeration = ui.enumeration /\ f.device = ui.device
        /\ f.diagnosis = ui.diagnosis /\ f.preview = ui.preview /\ f.plan = None
        /\ f.execution = x /\ f.inventory = ui.inventory
        /\ f.risk = ui.risk /\ f.confirmed = ui.confirmed
    BY <2>1, <2>4 DEF Fits, Signals
  <2>7. Links(f) /\ Waits(f) /\ Consents(f, ticked)
    BY <1>3, <2>1, <2>2, <2>3, <2>6, Constants
       DEF Fits, Links, Waits, Consents, Services, Underway
  <2>8. ASSUME NEW d \in Calls PROVE Match(f, d, call[d])
    <3>1. Match(ui, d, call[d]) /\ d # NoCall
      BY <2>1, ConstantsAssumption DEF Fits, Matches
    <3>2. QED
      BY <2>2, <2>6, <3>1 DEF Match, Services
  <2>9. Fits(f, call, ticked)
    BY <2>5, <2>7, <2>8 DEF Fits, Matches
  <2>10. Free(f, c)
    <3>1. /\ "execution" \in Services \ {"context", "recovery"}
          /\ call[c].op \in Requests["execution"]
      BY <1>1, Delivered DEF Services, Requests
    <3>2. \A z \in Services \ {"execution"} : f.awaited[z] \in {ui.awaited[z], NoCall}
      BY <2>2, <2>6
    <3>3. QED
      BY <2>1, <2>2, <2>6, <3>1, <3>2, Settles
  <2>11. QED
    BY <1>3, <2>1, <2>9, <2>10, SucceedInv, FailInv
<1>4. QED
  BY <1>2, <1>3 DEF DeliverExecution

\* The cancelled plan, or what is on screen by now, goes.
LEMMA DeliverCancellationInv ==
  ASSUME Inv, NEW c \in Calls, DeliverCancellation(c)
  PROVE  Inv'
<1>1. /\ Fits(ui, call, ticked) /\ call[c].op = "cancel" /\ UNCHANGED <<backend, ticked>>
  BY Delivered DEF DeliverCancellation
<1>2. Free(ui, c)
  BY <1>1, Requested DEF Free, Services, Requests
<1>3. PICK g : g = WithoutPreview(ui, FALSE)
  OBVIOUS
<1>4. Fits(g, call, ticked) /\ Free(g, c)
  BY <1>1, <1>2, <1>3, WithoutPreviewFits
<1>5. QED
  BY <1>1, <1>3, <1>4, SucceedInv, FailInv DEF DeliverCancellation

LEMMA DeliverInventoryInv ==
  ASSUME Inv, NEW c \in Calls, DeliverInventory(c)
  PROVE  Inv'
<1>1. Answered(c, "snapshots")
  BY DEF DeliverInventory
<1>2. CASE Late(c, "inventory")
  BY <1>1, <1>2, Delivered, LateInv DEF Services, Requests
<1>3. ASSUME Awaited(c, "inventory") PROVE Inv'
  <2> DEFINE a == [ui.awaited EXCEPT !.inventory = NoCall]
             x == IF Good(c) THEN "resolved" ELSE "failed"
             f == [ui EXCEPT !.awaited = a, !.inventory = x]
  <2>1. /\ Fits(ui, call, ticked) /\ ui.awaited.inventory = c /\ c # NoCall
        /\ UNCHANGED <<backend, ticked>>
    BY <1>1, <1>3, Delivered DEF Awaited
  <2>2. /\ a \in Waitings /\ a.inventory = NoCall
        /\ \A z \in Services \ {"inventory"} : a[z] = ui.awaited[z]
    BY <2>1 DEF Fits, Signals, Waitings, Services
  <2>3. [ui EXCEPT !.awaited.inventory = NoCall, !.inventory = x] = f
    BY <2>1 DEF Fits, Signals
  <2>4. \/ Succeed(c, f, "handle")
        \/ Fail(c, f, call[c].answer.kind, "handle")
    BY <1>3, <2>3 DEF DeliverInventory, Late
  <2>5. x \in States /\ x # "resolving"
    BY DEF States
  <2> HIDE DEF a, x
  <2>6. f \in Signals
    BY <2>1, <2>2, <2>5 DEF Fits, Signals
  <2>7. /\ f.discovery = ui.discovery /\ f.context = ui.context /\ f.adb = ui.adb
        /\ f.awaited = a /\ f.enumeration = ui.enumeration /\ f.device = ui.device
        /\ f.diagnosis = ui.diagnosis /\ f.preview = ui.preview /\ f.plan = ui.plan
        /\ f.execution = ui.execution /\ f.inventory = x
        /\ f.risk = ui.risk /\ f.confirmed = ui.confirmed
    BY <2>1 DEF Fits, Signals
  <2> HIDE DEF f
  <2>8. Links(f) /\ Waits(f) /\ Consents(f, ticked)
    BY <2>1, <2>2, <2>5, <2>7 DEF Fits, Links, Waits, Consents, Services
  <2>9. ASSUME NEW d \in Calls PROVE Match(f, d, call[d])
    <3>1. Match(ui, d, call[d]) /\ d # NoCall
      BY <2>1, ConstantsAssumption DEF Fits, Matches
    <3>2. QED
      BY <2>2, <2>7, <3>1 DEF Match, Services
  <2>10. Fits(f, call, ticked)
    BY <2>6, <2>8, <2>9 DEF Fits, Matches
  <2>11. Free(f, c)
    <3>1. /\ "inventory" \in Services \ {"context", "recovery"}
          /\ call[c].op \in Requests["inventory"]
      BY <1>1, Delivered DEF Services, Requests
    <3>2. QED
      BY <2>1, <2>2, <2>7, <3>1, Settles
  <2>12. QED
    BY <2>1, <2>4, <2>10, <2>11, SucceedInv, FailInv
<1>4. QED
  BY <1>2, <1>3 DEF DeliverInventory

\* What the backend has is known: a diagnosis that is not the latest goes, and
\* the recovery begins at its level.
LEMMA DeliverContextInv ==
  ASSUME Inv, NEW c \in Calls, DeliverContext(c)
  PROVE  Inv'
<1>1. /\ Fits(ui, call, ticked) /\ c # NoCall /\ call[c].op = "reconcile"
      /\ call[c].answer \in Answers /\ Purposeful(call[c]) /\ UNCHANGED <<backend, ticked>>
      /\ ui.awaited.recovery = ui.awaited.context
  BY Delivered DEF DeliverContext, Fits, Waits
<1>2. ASSUME ui.awaited.context # c PROVE Inv'
  <2>1. Free(ui, c)
    BY <1>1, <1>2, Requested DEF Free, Services, Requests
  <2>2. ui' = ui /\ Done(c)
    BY <1>1, <1>2 DEF DeliverContext, Awaited
  <2>3. QED
    BY <1>1, <2>1, <2>2, DoneInv
<1>3. ASSUME ui.awaited.context = c PROVE Inv'
  <2> DEFINE context == [state |-> "resolved", revision |-> call[c].answer.revision,
                         latest |-> call[c].answer.latest]
             b == [ui.awaited EXCEPT !.context = NoCall]
             a == [ui.awaited EXCEPT !.context = NoCall, !.recovery = NoCall]
             known == [ui EXCEPT !.awaited = b, !.context = context]
             k == [ui EXCEPT !.awaited = a, !.context = context]
  <2>1. context \in Contexts /\ context.state = "resolved"
    BY <1>1 DEF Contexts, Answers, States
  <2>2. /\ a \in Waitings /\ a.context = NoCall /\ a.recovery = NoCall
        /\ \A z \in Services \ {"context", "recovery"} : a[z] = ui.awaited[z]
        /\ b \in Waitings /\ b.context = NoCall
        /\ \A z \in Services \ {"context"} : b[z] = ui.awaited[z]
        /\ [b EXCEPT !.recovery = NoCall] = a
    BY <1>1 DEF Fits, Signals, Waitings, Services
  <2>3. [ui EXCEPT !.awaited.context = NoCall, !.context = context] = known
    BY <1>1 DEF Fits, Signals
  <2> DEFINE f == IF ui.diagnosis.state = "resolved" /\ ui.diagnosis.id # call[c].answer.latest
                    THEN WithoutDiagnosis(known) ELSE known
             g == [f EXCEPT !.awaited.recovery = NoCall]
  <2>4. \/ StartDiscovery(c, g, "stop")
        \/ StartListing(c, g, "stop")
        \/ StartDiagnosis(c, g, "stop")
    BY <1>1, <1>3, <2>3 DEF DeliverContext, Awaited, Purposeful, Levels
  <2> HIDE DEF a, b, context
  <2>5. known \in Signals /\ k \in Signals
    BY <1>1, <2>1, <2>2 DEF Fits, Signals
  <2>6. /\ k.discovery = ui.discovery /\ k.context = context /\ k.adb = ui.adb
        /\ k.awaited = a /\ k.enumeration = ui.enumeration /\ k.device = ui.device
        /\ k.diagnosis = ui.diagnosis /\ k.preview = ui.preview /\ k.plan = ui.plan
        /\ k.execution = ui.execution /\ k.inventory = ui.inventory
        /\ k.risk = ui.risk /\ k.confirmed = ui.confirmed
    BY <1>1 DEF Fits, Signals
  <2>7. /\ known.discovery = k.discovery /\ known.context = k.context /\ known.adb = k.adb
        /\ known.awaited = b /\ known.enumeration = k.enumeration /\ known.device = k.device
        /\ known.execution = k.execution /\ known.inventory = k.inventory
        /\ k = [known EXCEPT !.awaited = a]
    BY <1>1 DEF Fits, Signals
  <2> HIDE DEF known, k
  <2>8. Links(k) /\ Waits(k) /\ Consents(k, ticked)
    BY <1>1, <2>1, <2>2, <2>6 DEF Fits, Links, Waits, Consents, Services
  <2>9. ASSUME NEW d \in Calls PROVE Match(k, d, call[d])
    <3>1. Match(ui, d, call[d]) /\ d # NoCall
      BY <1>1, ConstantsAssumption DEF Fits, Matches
    <3>2. QED
      BY <2>2, <2>6, <3>1 DEF Match, Services
  <2>10. Fits(k, call, ticked)
    BY <2>5, <2>8, <2>9 DEF Fits, Matches
  <2>11. Free(k, c)
    BY <1>1, <2>2, <2>6, Requested DEF Free, Services, Requests
  <2>12. Fits(g, call, ticked) /\ Free(g, c)
    <3>1. CASE f = known
      <4>1. g = k
        BY <2>2, <2>5, <2>7, <3>1 DEF Signals
      <4>2. QED
        BY <2>10, <2>11, <4>1
    <3>2. CASE f = WithoutDiagnosis(known)
      <4>1. PICK h : h = WithoutDiagnosis(known)
        OBVIOUS
      <4>2. /\ h \in Signals
            /\ Apart(h, known) /\ SameAdb(h, known) /\ SameEnumeration(h, known)
            /\ h.device = known.device /\ NoResult(h) /\ NoChange(h)
            /\ NoExecution(h, known, TRUE)
        BY <2>5, <4>1, WithoutDiagnosisEffect
      <4> DEFINE w == [h.awaited EXCEPT !.recovery = NoCall]
      <4>3. g = [h EXCEPT !.awaited = w]
        BY <3>2, <4>1, <4>2 DEF Signals
      <4>4. w \in Waitings /\ w.recovery = NoCall
            /\ \A z \in Services \ {"recovery"} : w[z] = h.awaited[z]
        BY <4>2 DEF Signals, Waitings, Services
      <4> HIDE DEF w, f, g
      <4>5. /\ g \in Signals /\ g.awaited = w
            /\ g.discovery = h.discovery /\ g.context = h.context /\ g.adb = h.adb
            /\ g.enumeration = h.enumeration /\ g.device = h.device
            /\ g.diagnosis = h.diagnosis /\ g.preview = h.preview /\ g.plan = h.plan
            /\ g.execution = h.execution /\ g.inventory = h.inventory
            /\ g.risk = h.risk /\ g.allow = h.allow /\ g.confirmed = h.confirmed
        BY <4>2, <4>3, <4>4 DEF Signals
      <4>6. /\ Apart(g, k) /\ SameAdb(g, k) /\ SameEnumeration(g, k) /\ g.device = k.device
            /\ NoResult(g) /\ NoChange(g)
        BY <2>2, <2>6, <2>7, <4>2, <4>4, <4>5
           DEF Apart, SameAdb, SameEnumeration, NoResult, NoChange, NoPlan, Services
      <4>7. NoExecution(g, k, TRUE)
        BY <2>7, <4>2, <4>4, <4>5 DEF NoExecution, Services
      <4>8. QED
        BY <2>10, <2>11, <4>5, <4>6, <4>7, NoChangeFits
    <3>3. QED
      BY <3>1, <3>2
  <2> HIDE DEF f, g
  <2>13. QED
    BY <1>1, <2>4, <2>12, StartDiscoveryInv, StartListingInv, StartDiagnosisInv
<1>4. QED
  BY <1>2, <1>3

LEMMA DeliverInv ==
  ASSUME Inv, NEW c \in Calls, Deliver(c)
  PROVE  Inv'
BY DeliverDiscoveryInv, DeliverSelectionInv, DeliverChoiceInv, DeliverEnumerationInv,
   DeliverDiagnosisInv, DeliverPreviewInv, DeliverAuthorizationInv, DeliverPlanInv,
   DeliverExecutionInv, DeliverCancellationInv, DeliverInventoryInv, DeliverContextInv
   DEF Deliver

----------------------------------------------------------------------------
(* The theorems.                                                           *)

LEMMA InitInv == Init => Inv
<1> SUFFICES ASSUME Init PROVE Inv
  OBVIOUS
<1>1. /\ ui.discovery = [state |-> "resolved", id |-> 1, parent |-> 0]
      /\ ui.adb = [state |-> "resolved", id |-> 2, parent |-> 1, last |-> TRUE]
      /\ ui.enumeration = None /\ ui.device = NoDevice /\ ui.diagnosis = NoDiagnosis
      /\ ui.preview = NoPreview /\ ui.plan = None /\ ui.execution = None
      /\ ui.inventory = "none" /\ ui.context = [state |-> "resolved", revision |-> 2, latest |-> 0]
      /\ ~ui.risk /\ ~ui.confirmed
      /\ ui.awaited = [s \in Services |-> NoCall]
  BY DEF Init
<1>2. ui \in Signals
  <2>1. [s \in Services |-> NoCall] \in Waitings
    BY DEF Waitings
  <2>2. /\ [state |-> "resolved", id |-> 1, parent |-> 0] \in Resources
        /\ [state |-> "resolved", id |-> 2, parent |-> 1, last |-> TRUE] \in Selections
        /\ [state |-> "resolved", revision |-> 2, latest |-> 0] \in Contexts
    BY DEF Resources, Selections, Contexts, States
  <2>3. QED
    BY <2>1, <2>2, Constants DEF Init, Signals, States
<1>3. call \in [Calls -> Functions] /\ \A c \in Calls : call[c] = Idle
  BY Constants DEF Init
<1>4. backend \in Sessions /\ ticked \in [risk : Nat, device : Nat]
  BY DEF Init, Sessions
<1>5. Links(ui) /\ Waits(ui) /\ Consents(ui, ticked)
  BY <1>1, Constants DEF Links, Waits, Consents, Services, Underway
<1>6. Matches(ui, call)
  BY <1>1, ConstantsAssumption DEF Matches, Match, Services
<1>7. \A c \in Calls : Purposeful(call[c])
  <2>1. Purposeful(Idle)
    BY Constants DEF Purposeful, Idle
  <2>2. QED
    BY <1>3, <2>1
<1>8. QED
  BY <1>2, <1>3, <1>4, <1>5, <1>6, <1>7, Types DEF Inv

LEMMA NextInv == Inv /\ [Next]_vars => Inv'
<1> SUFFICES ASSUME Inv, [Next]_vars PROVE Inv'
  OBVIOUS
<1>1. CASE UNCHANGED vars
  <2>1. Fits(ui', call', ticked') /\ ticked' \in [risk : Nat, device : Nat]
    BY <1>1, Clicked, Types DEF Inv, vars
  <2>2. QED
    BY <1>1, <2>1, NavigatedInv DEF vars
<1>2. CASE Next
  BY <1>2, NavigateInv, ActInv, ServeInv, DeliverInv DEF Next
<1>3. QED
  BY <1>1, <1>2

\* The signals of the services, the requests they wait for, the functions that
\* make them and what is ticked stay in step, whatever the user does and in
\* whatever order the answers come (apps/tauri-app/src/domain/*.ts).
THEOREM Invariance == Spec => []Inv
BY InitInv, NextInv, PTL DEF Spec

\* TypeOK is an invariant, for any functions under way and any devices.
THEOREM TypeCorrect == Spec => []TypeOK
<1>1. Inv => TypeOK
  BY DEF Inv
<1>2. QED
  BY <1>1, Invariance, PTL

\* Whatever is given up while requests are under way, every entity on the
\* frontend belongs to the one it was derived from that is there now: the
\* generations and the invalidated events of the services see to it.
THEOREM CurrentParents == Spec => []ParentsAreCurrent
<1>1. Inv => ParentsAreCurrent
  BY DEF Inv, Links, ParentsAreCurrent
<1>2. QED
  BY <1>1, Invariance, PTL

\* No resource is left resolving without the request its service waits for, so
\* no button stays disabled for ever.
THEOREM AwaitedResources == Spec => []ResolvingIsAwaited
<1>1. Inv => ResolvingIsAwaited
  <2> SUFFICES ASSUME Inv, NEW s \in Services \ {"recovery"},
                      (IF s = "inventory" THEN ui.inventory ELSE ui[s].state) = "resolving"
               PROVE  \E c \in Calls : ui.awaited[s] = c /\ call[c] # Idle
    BY DEF ResolvingIsAwaited
  <2>1. ui.awaited[s] # NoCall
    BY DEF Inv, Waits, Services
  <2>2. ui.awaited[s] \in Calls
    BY <2>1, Clicked DEF Fits, Signals, Waitings
  <2>3. call[ui.awaited[s]].op \in Requests[s]
    BY <2>2, Requested
  <2>4. Idle.op \notin Requests[s]
    BY DEF Idle, Requests, Services
  <2>5. QED
    BY <2>2, <2>3, <2>4
<1>2. QED
  BY <1>1, Invariance, PTL

\* A step of a function that has answered, or of a click, other than to execute
\* a plan: it is its own, and neither an execution nor an answer.
Own(c) ==
  /\ \A d \in Calls \ {c} : call'[d] = call[d]
  /\ call'[c].op # "execute" /\ call'[c].phase # "answered"

LEMMA AskOwn ==
  ASSUME Inv, NEW c \in Calls, NEW op, NEW on, NEW then, op # "execute", Ask(c, op, on, then)
  PROVE  Own(c)
<1>1. call \in [Calls -> Functions]
  BY Types DEF Inv
<1>2. QED
  BY <1>1 DEF Ask, Own, Idle

LEMMA DoneOwn ==
  ASSUME Inv, NEW c \in Calls, Done(c)
  PROVE  Own(c)
<1>1. call \in [Calls -> Functions]
  BY Types DEF Inv
<1>2. QED
  BY <1>1 DEF Done, Own, Idle

LEMMA StartsOwn ==
  ASSUME Inv, NEW c \in Calls, NEW f, NEW then
  PROVE  /\ \A error : Fail(c, f, error, then) => Own(c)
         /\ StartDiscovery(c, f, then) => Own(c)
         /\ StartSelection(c, f, then) => Own(c)
         /\ StartListing(c, f, then) => Own(c)
         /\ StartDiagnosis(c, f, then) => Own(c)
         /\ StartPreview(c, f) => Own(c)
         /\ Succeed(c, f, then) => Own(c)
<1>1. ASSUME NEW error, Fail(c, f, error, then) PROVE Own(c)
  BY <1>1, AskOwn, DoneOwn DEF Fail, Reconcile
<1>2. ASSUME StartDiscovery(c, f, then) PROVE Own(c)
  BY <1>2, AskOwn DEF StartDiscovery
<1>3. ASSUME StartSelection(c, f, then) PROVE Own(c)
  BY <1>3, AskOwn DEF StartSelection
<1>4. ASSUME StartListing(c, f, then) PROVE Own(c)
  BY <1>1, <1>4, AskOwn DEF StartListing
<1>5. ASSUME StartDiagnosis(c, f, then) PROVE Own(c)
  <2>1. CASE f.device # NoDevice
    <3>1. call \in [Calls -> Functions]
      BY Types DEF Inv
    <3>2. call' = [call EXCEPT ![c] = [Idle EXCEPT !.op = "diagnose", !.of = f.device,
                                                   !.then = then, !.phase = "asked"]]
      BY <1>5, <2>1 DEF StartDiagnosis
    <3>3. QED
      BY <3>1, <3>2 DEF Own, Idle
  <2>2. CASE f.device = NoDevice
    BY <1>1, <1>5, <2>2 DEF StartDiagnosis
  <2>3. QED
    BY <2>1, <2>2
<1>6. ASSUME StartPreview(c, f) PROVE Own(c)
  BY <1>6, AskOwn DEF StartPreview
<1>7. ASSUME Succeed(c, f, then) PROVE Own(c)
  <2>1. CASE then = "restore" /\ f.diagnosis.state = "resolved"
    BY <1>6, <1>7, <2>1 DEF Succeed
  <2>2. CASE then = "execute"
    BY <1>7, <2>2, DoneOwn DEF Succeed
  <2>3. CASE ~(then = "restore" /\ f.diagnosis.state = "resolved") /\ then # "execute"
    BY <1>7, <2>3, DoneOwn DEF Succeed
  <2>4. QED
    BY <2>1, <2>2, <2>3
<1>8. QED
  BY <1>1, <1>2, <1>3, <1>4, <1>5, <1>6, <1>7

LEMMA DeliverOwn ==
  ASSUME Inv, NEW c \in Calls, Deliver(c)
  PROVE  Own(c) /\ call[c].phase = "answered"
<1>1. ASSUME NEW s, Late(c, s) PROVE Own(c)
  BY <1>1, StartsOwn DEF Late
<1>2. ASSUME NEW s, Failed(c, s) PROVE Own(c)
  BY <1>2, StartsOwn DEF Failed
<1>3. ASSUME PlanFailed(c) PROVE Own(c)
  BY <1>3, StartsOwn DEF PlanFailed
<1>4. CASE DeliverDiscovery(c)
  BY <1>1, <1>2, <1>4, StartsOwn DEF DeliverDiscovery, Answered
<1>5. CASE DeliverSelection(c)
  BY <1>1, <1>2, <1>5, StartsOwn DEF DeliverSelection, Answered
<1>6. CASE DeliverChoice(c)
  BY <1>1, <1>2, <1>6, StartsOwn DEF DeliverChoice, Answered
<1>7. CASE DeliverEnumeration(c)
  BY <1>1, <1>2, <1>7, StartsOwn DEF DeliverEnumeration, Answered
<1>8. CASE DeliverDiagnosis(c)
  BY <1>1, <1>2, <1>8, StartsOwn DEF DeliverDiagnosis, Answered
<1>9. CASE DeliverPreview(c)
  BY <1>1, <1>2, <1>9, StartsOwn DEF DeliverPreview, Answered
<1>10. CASE DeliverAuthorization(c)
  BY <1>1, <1>3, <1>10, AskOwn DEF DeliverAuthorization, Answered
<1>11. CASE DeliverPlan(c)
  BY <1>1, <1>3, <1>11, StartsOwn DEF DeliverPlan, Answered
<1>12. CASE DeliverExecution(c)
  BY <1>1, <1>12, StartsOwn DEF DeliverExecution, Answered
<1>13. CASE DeliverCancellation(c)
  BY <1>13, StartsOwn DEF DeliverCancellation, Answered
<1>14. CASE DeliverInventory(c)
  BY <1>1, <1>14, StartsOwn DEF DeliverInventory, Answered
<1>15. CASE DeliverContext(c)
  <2>1. Purposeful(call[c]) /\ call[c].op = "reconcile" /\ call[c].phase = "answered"
    BY <1>15, Delivered DEF DeliverContext
  <2>2. CASE ~Awaited(c, "recovery")
    BY <1>15, <2>1, <2>2, DoneOwn DEF DeliverContext
  <2>3. CASE Awaited(c, "recovery")
    BY <1>15, <2>1, <2>3, StartsOwn DEF DeliverContext, Purposeful, Levels
  <2>4. QED
    BY <2>1, <2>2, <2>3
<1>16. QED
  BY <1>4, <1>5, <1>6, <1>7, <1>8, <1>9, <1>10, <1>11, <1>12, <1>13, <1>14, <1>15 DEF Deliver

LEMMA ActOwn ==
  ASSUME Inv, NEW c \in Calls, Act(c), ~ExecutePlan(c)
  PROVE  Own(c)
<1>1. CASE SelectAdb(c)
  BY <1>1, StartsOwn DEF SelectAdb
<1>2. CASE RefreshAdb(c)
  BY <1>2, StartsOwn DEF RefreshAdb
<1>3. CASE ContinueToDevices(c)
  BY <1>3, StartsOwn DEF ContinueToDevices
<1>4. CASE ChooseAdb(c) \/ OpenSnapshots(c) \/ CancelPlan(c)
  BY <1>4, AskOwn DEF ChooseAdb, OpenSnapshots, CancelPlan
<1>5. CASE RunDiagnosis(c) \/ FinishAndDiagnoseAgain(c)
  BY <1>5, StartsOwn DEF RunDiagnosis, FinishAndDiagnoseAgain
<1>6. CASE PreparePin(c) \/ PrepareRestore(c)
  BY <1>6, StartsOwn DEF PreparePin, PrepareRestore
<1>7. CASE CreatePlan(c)
  <2>1. \/ \E op \in {"authorize", "create"} : Ask(c, op, ui.preview.id, "handle")
        \/ Fail(c, ui, "diagnosis", "handle")
    BY <1>7 DEF CreatePlan
  <2>2. QED
    BY <2>1, AskOwn, StartsOwn
<1>8. QED
  BY <1>1, <1>2, <1>3, <1>4, <1>5, <1>6, <1>7 DEF Act

\* The backend asks nothing and leaves the frontend as it is.
LEMMA ServeOwn ==
  ASSUME Inv, NEW c \in Calls, Serve(c)
  PROVE  /\ \A d \in Calls \ {c} : call'[d] = call[d]
         /\ call'[c].op = call[c].op /\ call[c].phase # "answered"
         /\ UNCHANGED ui
<1>1. call \in [Calls -> Functions]
  BY Types DEF Inv
<1> DEFINE Kept == \A d \in Calls \ {c} : call'[d] = call[d]
           Served == Kept /\ call'[c].op = call[c].op
<1>2. ASSUME NEW b, NEW kind, NEW id, Answer(c, b, kind, id) PROVE Served
  <2>1. PICK x : call' = [call EXCEPT ![c].phase = "answered", ![c].answer = x]
    BY <1>2 DEF Answer
  <2>2. QED
    BY <1>1, <2>1 DEF Functions
<1>3. ASSUME call' = [call EXCEPT ![c].phase = "writing"] PROVE Served
  BY <1>1, <1>3 DEF Functions
<1> HIDE DEF Served
<1>4. ASSUME NEW kinds, Refuse(c, kinds) PROVE Served
  BY <1>2, <1>4 DEF Refuse
<1>5. ASSUME NEW b, NEW kinds, Advance(c, b, kinds) PROVE Served
  BY <1>2, <1>5 DEF Advance
<1>6. Served
  <2>1. CASE ServeDiscover(c) \/ ServeSelect(c) \/ ServeChoose(c)
    BY <1>2, <1>4, <2>1 DEF ServeDiscover, ServeSelect, ServeChoose
  <2>2. CASE ServeList(c) \/ ServeDiagnose(c)
    BY <1>4, <1>5, <2>2 DEF ServeList, ServeDiagnose
  <2>3. CASE ServePrepare(c) \/ ServeAuthorize(c) \/ ServeCreate(c)
    BY <1>2, <1>4, <2>3 DEF ServePrepare, ServeAuthorize, ServeCreate
  <2>4. CASE ServeExecute(c)
    BY <1>2, <1>3, <1>4, <2>4 DEF ServeExecute
  <2>5. CASE FinishExecution(c) \/ ServeCancel(c) \/ ServeRead(c)
    BY <1>2, <1>4, <2>5 DEF FinishExecution, ServeCancel, ServeRead
  <2>6. QED
    BY <2>1, <2>2, <2>3, <2>4, <2>5 DEF Serve
<1>7. UNCHANGED ui /\ call[c].phase # "answered"
  BY DEF Serve, ServeDiscover, ServeSelect, ServeChoose, ServeList, ServeDiagnose, ServePrepare,
     ServeAuthorize, ServeCreate, ServeExecute, FinishExecution, ServeCancel, ServeRead, Asked
<1>8. QED
  BY <1>6, <1>7 DEF Served

LEMMA ExecutionIsConfirmed ==
  ASSUME Inv, Next, NEW c \in Calls, call[c].op # "execute", call'[c].op = "execute"
  PROVE  ticked = [risk |-> call'[c].on, device |-> call'[c].on]
<1>1. CASE Navigate
  BY <1>1 DEF Navigate, SelectDevice, BackToAdb, BackToDevices, CloseSnapshots, ClosePreview,
     TickRisk, TickUnparsed, TickDevice, Navigates
<1>2. ASSUME NEW d \in Calls, Serve(d) PROVE FALSE
  BY <1>2, ServeOwn
<1>3. ASSUME NEW d \in Calls, Deliver(d) PROVE FALSE
  BY <1>3, DeliverOwn DEF Own
<1>4. ASSUME NEW d \in Calls, Act(d), ~ExecutePlan(d) PROVE FALSE
  BY <1>4, ActOwn DEF Own
<1>5. ASSUME NEW d \in Calls, ExecutePlan(d)
      PROVE  ticked = [risk |-> call'[c].on, device |-> call'[c].on]
  <2>1. Ask(d, "execute", ui.plan.id, "execute") /\ ui.plan.state = "resolved" /\ ui.confirmed
    BY <1>5, Started, OfferedIn, Views DEF ExecutePlan
  <2>2. call'[c].on = ui.plan.id
    <3>1. call \in [Calls -> Functions]
      BY Types DEF Inv
    <3>2. QED
      BY <2>1, <3>1 DEF Ask, Idle
  <2>3. ticked.risk = ui.plan.id /\ ticked.device = ui.plan.id
    BY <2>1 DEF Inv, Consents, Underway
  <2>4. ticked \in [risk : Nat, device : Nat]
    BY Types DEF Inv
  <2>5. QED
    BY <2>2, <2>3, <2>4
<1>6. QED
  BY <1>1, <1>2, <1>3, <1>4, <1>5 DEF Next

\* "A write requires two GUI confirmations": execute is only called for a plan
\* whose risk and whose device the user has confirmed, however answers of
\* earlier requests came in between (ChangePreviewView, PlanView, workflow.ts).
THEOREM ConfirmedTwice == Spec => TwoConfirmations
<1>1. Inv /\ [Next]_vars =>
        [\A c \in Calls :
           call[c].op # "execute" /\ call'[c].op = "execute" =>
             ticked = [risk |-> call'[c].on, device |-> call'[c].on]]_vars
  BY ExecutionIsConfirmed
<1>2. QED
  BY <1>1, Invariance, PTL DEF Spec, TwoConfirmations

\* The step in which a function that has answered goes on.
LEMMA GoesOn ==
  ASSUME Inv, Next, NEW c \in Calls, call[c].phase = "answered", call'[c] # call[c]
  PROVE  Deliver(c)
<1>1. ~Navigate
  BY DEF Navigate, SelectDevice, BackToAdb, BackToDevices, CloseSnapshots, ClosePreview,
     TickRisk, TickUnparsed, TickDevice, Navigates
<1>2. ASSUME NEW d \in Calls, Serve(d) PROVE FALSE
  BY <1>2, ServeOwn
<1>3. ASSUME NEW d \in Calls, Act(d) PROVE FALSE
  <2>1. call[d] = Idle
    BY <1>3 DEF Act, RefreshAdb, SelectAdb, ChooseAdb, ContinueToDevices, RunDiagnosis, PreparePin,
       OpenSnapshots, PrepareRestore, CreatePlan, ExecutePlan, CancelPlan,
       FinishAndDiagnoseAgain, Starts
  <2>2. d # c
    BY <2>1 DEF Idle
  <2>3. CASE ExecutePlan(d)
    BY <2>2, <2>3, Types DEF ExecutePlan, Ask, Inv
  <2>4. CASE ~ExecutePlan(d)
    BY <1>3, <2>2, <2>4, ActOwn DEF Own
  <2>5. QED
    BY <2>3, <2>4
<1>4. ASSUME NEW d \in Calls, Deliver(d), d # c PROVE FALSE
  BY <1>4, DeliverOwn DEF Own
<1>5. QED
  BY <1>1, <1>2, <1>3, <1>4 DEF Next

LEMMA OutcomeFollows ==
  ASSUME Inv, Next, NEW c \in Calls, View = "applying", Awaited(c, "execution"), Good(c),
         call[c].phase = "answered", call'[c] # call[c]
  PROVE  View' = "outcome" /\ ui'.execution.id = call[c].on /\ ui'.diagnosis.state = "none"
<1>1. Deliver(c)
  BY GoesOn
<1>2. call[c].op = "execute" /\ call[c].on = ui.execution.id /\ Fits(ui, call, ticked)
  BY Clicked DEF Awaited, Fits, Matches, Match
<1>3. DeliverExecution(c)
  BY <1>1, <1>2 DEF Deliver, DeliverDiscovery, DeliverSelection, DeliverChoice,
     DeliverEnumeration, DeliverDiagnosis, DeliverPreview, DeliverAuthorization, DeliverPlan,
     DeliverCancellation, DeliverInventory, DeliverContext, Answered
<1> DEFINE a == [ui.awaited EXCEPT !.execution = NoCall, !.plan = NoCall]
           x == [ui.execution EXCEPT !.state = "resolved"]
           f == [ui EXCEPT !.awaited = a, !.execution = x, !.plan = None]
<1>4. FinishedPlan([ui EXCEPT !.awaited.execution = NoCall, !.execution.state = "resolved"]) = f
  BY <1>2 DEF FinishedPlan, Fits, Signals
<1>5. Succeed(c, f, "execute")
  BY <1>3, <1>4 DEF DeliverExecution, Late
<1>6. ui' = WithoutDiagnosis(f)
  BY <1>5 DEF Succeed
<1>7. /\ a \in Waitings /\ x \in Resources
      /\ x.state = "resolved" /\ x.id = ui.execution.id
  BY <1>2 DEF Fits, Signals, Waitings, Resources, States, Services
<1> HIDE DEF a, x
<1>8. f \in Signals /\ f.execution = x
  BY <1>2, <1>7, Constants DEF Fits, Signals
<1> HIDE DEF f
<1>9. NoExecution(ui', f, TRUE) /\ NoResult(ui') /\ NoChange(ui')
  BY <1>6, <1>8, WithoutDiagnosisEffect
<1>10. /\ ui'.execution = x /\ ui'.diagnosis.state = "none" /\ ui'.plan.state = "none"
       /\ ui'.preview.state = "none"
  BY <1>7, <1>8, <1>9, Constants DEF NoExecution, NoResult, NoChange, NoPlan
<1>11. View' = "outcome"
  BY <1>7, <1>10 DEF View
<1>12. QED
  BY <1>2, <1>7, <1>10, <1>11

\* Whatever else is under way, an execution that ends in view leaves the user
\* with its outcome, without the plan and without the diagnosis it came from.
THEOREM ShownOutcome == Spec => OutcomeIsShown
<1>1. Inv /\ [Next]_vars =>
        [\A c \in Calls :
           /\ View = "applying" /\ Awaited(c, "execution") /\ Good(c)
           /\ call[c].phase = "answered" /\ call'[c] # call[c]
           => /\ View' = "outcome" /\ ui'.execution.id = call[c].on
              /\ ui'.diagnosis.state = "none"]_vars
  BY OutcomeFollows
<1>2. QED
  BY <1>1, Invariance, PTL DEF Spec, OutcomeIsShown

\* While a plan is applied the services above it wait for nothing.
LEMMA NothingAbove ==
  ASSUME Inv, View = "applying", NEW c \in Calls
  PROVE  /\ Fits(ui, call, ticked)
         /\ \A s \in {"discovery", "enumeration", "diagnosis", "preview", "plan"} :
              ~Awaited(c, s)
         /\ Awaited(c, "adb") => call[c].op = "choose"
<1>1. Fits(ui, call, ticked) /\ c # NoCall /\ Match(ui, c, call[c])
  BY Clicked, ConstantsAssumption DEF Fits, Matches
<1>2. ui.plan.state = "resolved"
  BY Views
<1>3. /\ ui.diagnosis.state = "resolved" /\ ui.enumeration.state = "resolved"
      /\ ui.adb.state = "resolved" /\ ~Underway(ui.preview)
  BY <1>1, <1>2 DEF Fits, Links, Consents, Underway
<1>4. QED
  BY <1>1, <1>2, <1>3 DEF Fits, Waits, Match, Awaited, Underway

\* What leaves the plan and its execution as they are does not end the view.
LEMMA ShownStill ==
  ASSUME NEW f \in Signals, NEW c, NEW error, NEW then,
         f.plan.state = "resolved", f.execution.state = "resolving",
         \/ then \notin {"restore", "execute"} /\ Succeed(c, f, then)
         \/ Fail(c, f, error, then)
  PROVE  View' = "applying"
<1>1. ui'.plan = f.plan /\ ui'.execution = f.execution
  <2>1. CASE ui' = f
    BY <2>1
  <2>2. CASE Reconcile(c, f, error)
    <3>1. PICK a, x : ui' = [f EXCEPT !.awaited = a, !.context = x]
      BY <2>2 DEF Reconcile, Signals
    <3>2. QED
      BY <3>1 DEF Signals
  <2>3. QED
    BY <2>1, <2>2 DEF Succeed, Fail
<1>2. QED
  BY <1>1 DEF View

LEMMA ViewIsHeld ==
  ASSUME Inv, Next, View = "applying", View' # "applying"
  PROVE  \E c \in Calls :
           /\ call'[c] # call[c]
           /\ call[c].phase = "answered"
           /\ \/ call[c].op \in {"execute", "cancel"}
              \/ call[c].op = "choose" /\ Awaited(c, "adb")
              \/ call[c].op = "reconcile" /\ Awaited(c, "recovery")
              \/ call[c].then = "restore" /\ ~Awaited(c, "diagnosis")
<1>1. ui \in Signals /\ ui.plan.state = "resolved" /\ ui.execution.state = "resolving"
  BY Clicked, Views DEF Fits
<1>2. \A intent : ~Offered(intent)
  BY OfferedIn
<1>3. ~Navigate
  BY <1>2 DEF Navigate, SelectDevice, BackToAdb, BackToDevices, CloseSnapshots, ClosePreview,
     TickRisk, TickUnparsed, TickDevice, Navigates, Clicks
<1>4. \A c \in Calls : ~Act(c)
  BY <1>2 DEF Act, RefreshAdb, SelectAdb, ChooseAdb, ContinueToDevices, RunDiagnosis, PreparePin,
     OpenSnapshots, PrepareRestore, CreatePlan, ExecutePlan, CancelPlan,
     FinishAndDiagnoseAgain, Starts, Clicks
<1>5. \A c \in Calls : ~Serve(c)
  <2>1. ASSUME NEW c \in Calls, Serve(c) PROVE FALSE
    <3>1. ui' = ui
      BY <2>1, ServeOwn
    <3>2. View' = View
      BY <3>1 DEF View, Outdated
    <3>3. QED
      BY <3>2
  <2>2. QED
    BY <2>1
<1>6. PICK c \in Calls : Deliver(c)
  BY <1>3, <1>4, <1>5 DEF Next
<1>7. call'[c] # call[c] /\ call[c].phase = "answered"
  BY <1>6, DeliverOwn DEF Own
<1>8. SUFFICES ASSUME call[c].op \notin {"execute", "cancel"},
                      ~(call[c].op = "choose" /\ Awaited(c, "adb")),
                      ~(call[c].op = "reconcile" /\ Awaited(c, "recovery")),
                      ~(call[c].then = "restore" /\ ~Awaited(c, "diagnosis"))
               PROVE  FALSE
  BY <1>7
<1>9. /\ \A s \in {"discovery", "adb", "enumeration", "diagnosis", "preview", "plan"} :
            ~Awaited(c, s)
      /\ Purposeful(call[c])
  BY <1>8, NothingAbove DEF Inv
<1>10. call[c].then \notin {"restore", "execute"}
  BY <1>8, <1>9 DEF Purposeful
<1>11. ASSUME NEW s, Late(c, s) PROVE FALSE
  BY <1>1, <1>10, <1>11, ShownStill DEF Late
<1>12. CASE DeliverInventory(c) /\ Awaited(c, "inventory")
  <2>1. PICK a, x : [ui EXCEPT !.awaited.inventory = NoCall,
                               !.inventory = IF Good(c) THEN "resolved" ELSE "failed"]
                    = [ui EXCEPT !.awaited = a, !.inventory = x]
                    /\ a \in Waitings /\ x \in States
    <3> DEFINE a == [ui.awaited EXCEPT !.inventory = NoCall]
               x == IF Good(c) THEN "resolved" ELSE "failed"
    <3>1. [ui EXCEPT !.awaited.inventory = NoCall, !.inventory = x]
          = [ui EXCEPT !.awaited = a, !.inventory = x]
      BY <1>1 DEF Signals
    <3>2. a \in Waitings /\ x \in States
      BY <1>1 DEF Signals, Waitings, States
    <3>3. QED
      BY <3>1, <3>2
  <2>2. PICK f : f = [ui EXCEPT !.awaited = a, !.inventory = x]
    OBVIOUS
  <2>3. f \in Signals /\ f.plan = ui.plan /\ f.execution = ui.execution
    BY <1>1, <2>1, <2>2 DEF Signals
  <2>4. Succeed(c, f, "handle") \/ Fail(c, f, call[c].answer.kind, "handle")
    BY <1>12, <2>1, <2>2 DEF DeliverInventory, Late
  <2>5. QED
    BY <1>1, <2>3, <2>4, ShownStill
<1>13. CASE DeliverContext(c)
  <2>1. ~Awaited(c, "recovery") /\ ~Awaited(c, "context")
    BY <1>8, <1>13 DEF DeliverContext, Answered, Inv, Waits, Awaited
  <2>2. ui' = ui
    BY <1>13, <2>1 DEF DeliverContext
  <2>3. View' = View
    BY <2>2 DEF View, Outdated
  <2>4. QED
    BY <2>3
<1>14. CASE DeliverDiscovery(c) \/ DeliverSelection(c) \/ DeliverChoice(c) \/ DeliverEnumeration(c)
  BY <1>9, <1>11, <1>14 DEF DeliverDiscovery, DeliverSelection, DeliverChoice, DeliverEnumeration,
     Failed, InTime
<1>15. CASE DeliverDiagnosis(c) \/ DeliverPreview(c) \/ DeliverAuthorization(c) \/ DeliverPlan(c)
  BY <1>9, <1>11, <1>15 DEF DeliverDiagnosis, DeliverPreview, DeliverAuthorization, DeliverPlan,
     Failed, InTime, PlanFailed
<1>16. CASE DeliverExecution(c) \/ DeliverCancellation(c)
  BY <1>8, <1>16 DEF DeliverExecution, DeliverCancellation, Answered
<1>17. CASE DeliverInventory(c) /\ ~Awaited(c, "inventory")
  BY <1>11, <1>17 DEF DeliverInventory
<1>18. QED
  BY <1>6, <1>12, <1>13, <1>14, <1>15, <1>16, <1>17 DEF Deliver

\* While a plan is applied no click and no late answer ends the view, other
\* than the answers the code takes past it: of execute, of cancelPlan, of the
\* file dialog, of a recovery, and of a diagnosis made for a restore that was
\* given up.
THEOREM HeldView == Spec => ApplyingIsHeld
<1>1. Inv /\ [Next]_vars =>
        [View = "applying" /\ View' # "applying" =>
           \E c \in Calls :
             /\ call'[c] # call[c]
             /\ call[c].phase = "answered"
             /\ \/ call[c].op \in {"execute", "cancel"}
                \/ call[c].op = "choose" /\ Awaited(c, "adb")
                \/ call[c].op = "reconcile" /\ Awaited(c, "recovery")
                \/ call[c].then = "restore" /\ ~Awaited(c, "diagnosis")]_vars
  BY ViewIsHeld
<1>2. QED
  BY <1>1, Invariance, PTL DEF Spec, ApplyingIsHeld
=============================================================================
