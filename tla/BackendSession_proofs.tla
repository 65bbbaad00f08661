----------------------- MODULE BackendSession_proofs -----------------------
(***************************************************************************)
(* Proofs about BackendSession, for any number of commands under way, any  *)
(* plans, any way the store may fail, and with the application restarted   *)
(* at any moment.  The inductive invariants: who holds a plan (Owned),     *)
(* what became of a preview (Used), what a revision stands for (Dated),    *)
(* and, with some of the failures left out, what an execution reports of   *)
(* its source (Accounted) and who closes a planned record (Held).          *)
(***************************************************************************)
EXTENDS BackendSession, TLAPS

OpRecords ==
  [pc : PCs, next : PCs, rev : Nat, parent : Nat, seen : Nat,
   plan : Plans \union {NoPlan}, source : Plans \union {NoPlan},
   todo : SUBSET Plans, status : Statuses, warned : BOOLEAN]

\* Where a command has a plan in hand: before execute_change, and since.
Unstarted == {"savePlanned", "commitPlan", "saveDropped", "saveCancelled", "saveUnused",
              "saveExecuting", "reinsert", "record"}
Started == {"writing", "saveOutcome", "restoreSource", "finish"}
Waiting == {"discovering", "listing", "diagnosing"}

\* h has plan p in hand.
Holds(h, p) == op[h].plan = p \/ p \in op[h].todo

\* A command's own state.
HandlerOK(h) ==
  /\ op[h].plan \in Plans <=> op[h].pc \in Unstarted \union Started
  /\ op[h].todo # {} => op[h].pc = "invalidate"
  /\ op[h].pc = "invalidate" => op[h].next \in Waiting \union {"idle"}
  /\ op[h].pc \in Unstarted => begun[op[h].plan] = 0
  /\ op[h].pc \in Started => begun[op[h].plan] = 1
  /\ op[h].plan \in ended => op[h].pc \in {"record", "restoreSource", "finish"}
  /\ \A p \in op[h].todo : begun[p] = 0 /\ p \notin ended
  /\ op[h].pc = "saveUnused" => op[h].status \in {"expired", "invalidated"}
  /\ op[h].pc = "saveOutcome" /\ op[h].status = "restored" => plan[op[h].plan].source \in Plans
  /\ op[h].pc = "restoreSource" => plan[op[h].plan].source \in Plans
  /\ op[h].pc \in {"writing", "saveOutcome"} =>
       disk[op[h].plan] = [rev |-> 2, status |-> "executing"]

\* A plan's own state.
PlanOK(p) ==
  /\ plan[p] = NotCreated =>
       /\ begun[p] = 0 /\ p \notin ended /\ p \notin plans
       /\ \A h \in Handlers : ~Holds(h, p)
  /\ begun[p] \in {0, 1}
  /\ begun[p] = 0 => disk[p].rev <= 2 /\ disk[p].status # "applied"
  /\ p \in plans => begun[p] = 0 /\ p \notin ended

\* A plan is in one hand: that of the session or that of one command.
OneHand ==
  /\ \A h \in Handlers : \A p \in plans : ~Holds(h, p)
  /\ \A h, g \in Handlers : \A p \in Plans : Holds(h, p) /\ Holds(g, p) => h = g

\* A preview has a number, which its plan keeps.
Named ==
  /\ preview # NoPreview => preview.id > 0
  /\ \A p \in Plans : plan[p] # NotCreated => plan[p].preview > 0

Owned ==
  /\ TypeOK
  /\ \A h \in Handlers : HandlerOK(h)
  /\ \A p \in Plans : PlanOK(p)
  /\ OneHand

-----------------------------------------------------------------------------
(* What the helpers do.                                                    *)

\* The record of one handler is replaced.
LEMMA OpBecomes ==
  ASSUME TypeOK, NEW h \in Handlers, NEW record \in OpRecords, op' = [op EXCEPT ![h] = record]
  PROVE  /\ op' \in [Handlers -> OpRecords]
         /\ op'[h] = record
         /\ \A g \in Handlers \ {h} : op'[g] = op[g]
BY DEF TypeOK, OpRecords

LEMMA IdleType == Idle \in OpRecords
BY DEF Idle, OpRecords, PCs, Statuses

\* A handler goes on, and all else about it stays.
LEMMA GotoOp ==
  ASSUME TypeOK, NEW h \in Handlers, NEW pc \in PCs, Goto(h, pc)
  PROVE  /\ op' \in [Handlers -> OpRecords]
         /\ op'[h] = [op[h] EXCEPT !.pc = pc]
         /\ \A g \in Handlers \ {h} : op'[g] = op[g]
<1>1. op[h] \in OpRecords
  BY DEF TypeOK, OpRecords
<1>2. [op[h] EXCEPT !.pc = pc] \in OpRecords
  BY <1>1 DEF OpRecords
<1>3. op' = [op EXCEPT ![h] = [op[h] EXCEPT !.pc = pc]]
  BY DEF Goto
<1>4. QED
  BY <1>2, <1>3, OpBecomes

LEMMA DoneOp ==
  ASSUME TypeOK, NEW h \in Handlers, Done(h)
  PROVE  /\ op' \in [Handlers -> OpRecords]
         /\ op'[h] = Idle
         /\ \A g \in Handlers \ {h} : op'[g] = op[g]
BY IdleType, OpBecomes DEF Done

\* A save, whether it succeeds or not, writes the record of one plan: the new
\* one, or, when the revision is old or the save is lost, the one that is there.
LEMMA SaveDisk ==
  ASSUME TypeOK, NEW p \in Plans, NEW rev \in Nat, NEW status \in Statuses,
         Saves(p, rev, status) \/ FailsToSave(p, rev, status)
  PROVE  /\ disk' \in [Plans -> [rev : Nat, status : Statuses]]
         /\ \A q \in Plans \ {p} : disk'[q] = disk[q]
         /\ disk'[p] \in {disk[p], [rev |-> rev, status |-> status]}
         /\ Saves(p, rev, status) /\ rev >= disk[p].rev => disk'[p] = [rev |-> rev, status |-> status]
<1>1. disk[p] \in [rev : Nat, status : Statuses]
  BY DEF TypeOK
<1>2. WithRecord(p, rev, status) \in [Plans -> [rev : Nat, status : Statuses]]
  BY <1>1 DEF WithRecord, TypeOK
<1>3. /\ \A q \in Plans \ {p} : WithRecord(p, rev, status)[q] = disk[q]
      /\ WithRecord(p, rev, status)[p] = IF rev >= disk[p].rev THEN [rev |-> rev, status |-> status] ELSE disk[p]
  BY DEF WithRecord, TypeOK
<1>4. QED
  BY <1>1, <1>2, <1>3 DEF Saves, FailsToSave, TypeOK

\* ended grows by a plan only when its end was saved without an error.
LEMMA SaveEnded ==
  ASSUME TypeOK, NEW p \in Plans, NEW rev, NEW status
  PROVE  /\ Saves(p, rev, status) => ended' = IF status \in Ends THEN ended \union {p} ELSE ended
         /\ FailsToSave(p, rev, status) => ended' = ended
BY DEF Saves, FailsToSave

\* What a step has to show for Owned: it is one handler's, and S are the plans
\* whose state it changes, of which no other handler has one in hand.
LEMMA Footprint ==
  ASSUME Owned, TypeOK', NEW h \in Handlers, NEW S \in SUBSET Plans,
         \A g \in Handlers \ {h} : op'[g] = op[g],
         \A p \in Plans \ S :
           /\ disk'[p] = disk[p] /\ begun'[p] = begun[p] /\ plan'[p] = plan[p]
           /\ (p \in ended' <=> p \in ended) /\ (p \in plans' <=> p \in plans)
           /\ Holds(h, p)' => Holds(h, p),
         \A p \in S : \A g \in Handlers \ {h} : ~Holds(g, p),
         \A p \in S : PlanOK(p)' /\ (Holds(h, p)' => p \notin plans'),
         HandlerOK(h)'
  PROVE  Owned'
<1>1. \A g \in Handlers : op[g] \in OpRecords /\ HandlerOK(g)
  BY DEF Owned, TypeOK, OpRecords
<1>2. \A g \in Handlers \ {h} : \A p \in Plans : Holds(g, p)' <=> Holds(g, p)
  BY DEF Holds
<1>3. ASSUME NEW g \in Handlers \ {h} PROVE HandlerOK(g)'
  <2>1. op'[g] = op[g] /\ HandlerOK(g) /\ op[g].todo \subseteq Plans
    BY <1>1 DEF OpRecords
  <2>2. \A p \in op[g].todo : begun'[p] = 0 /\ p \notin ended'
    BY <2>1 DEF HandlerOK, Holds
  <2>3. CASE op[g].plan \in Plans
    <3>1. op[g].plan \notin S
      BY <2>3 DEF Holds
    <3>2. /\ disk'[op[g].plan] = disk[op[g].plan] /\ begun'[op[g].plan] = begun[op[g].plan]
          /\ plan'[op[g].plan] = plan[op[g].plan] /\ (op[g].plan \in ended' <=> op[g].plan \in ended)
      BY <2>3, <3>1
    <3>3. QED
      BY <2>1, <2>2, <3>2 DEF HandlerOK
  <2>4. CASE op[g].plan \notin Plans
    <3>1. op[g].plan \notin ended'
      BY <2>4 DEF TypeOK
    <3>2. op[g].pc \notin Unstarted \union Started
      BY <2>1, <2>4 DEF HandlerOK
    <3>3. QED
      BY <2>1, <2>2, <2>4, <3>1, <3>2 DEF HandlerOK, Unstarted, Started
  <2>5. QED
    BY <2>3, <2>4
<1>4. ASSUME NEW p \in Plans \ S PROVE PlanOK(p)'
  <2>1. PlanOK(p)
    BY DEF Owned
  <2>2. \A g \in Handlers : Holds(g, p)' => Holds(g, p)
    BY <1>2
  <2>3. QED
    BY <2>1, <2>2 DEF PlanOK
<1>5. OneHand'
  <2>1. ASSUME NEW g \in Handlers, NEW p \in Plans, p \in plans', Holds(g, p)' PROVE FALSE
    <3>1. CASE p \in S
      BY <1>2, <2>1, <3>1
    <3>2. CASE p \notin S
      BY <1>2, <2>1, <3>2 DEF Owned, OneHand
    <3>3. QED
      BY <3>1, <3>2
  <2>2. ASSUME NEW f \in Handlers, NEW g \in Handlers, NEW p \in Plans, Holds(f, p)', Holds(g, p)'
        PROVE  f = g
    <3>1. CASE p \in S
      BY <1>2, <2>2, <3>1
    <3>2. CASE p \notin S
      BY <1>2, <2>2, <3>2 DEF Owned, OneHand
    <3>3. QED
      BY <3>1, <3>2
  <2>3. QED
    BY <2>1, <2>2 DEF OneHand, TypeOK
<1>6. QED
  BY <1>3, <1>4, <1>5 DEF Owned

\* A handler without a command, or with one that is over, holds nothing.
LEMMA IdleOK ==
  ASSUME Owned, TypeOK', NEW h \in Handlers, op'[h] = Idle
  PROVE  HandlerOK(h)' /\ \A p \in Plans : ~Holds(h, p)'
BY ConstantsAssumption DEF HandlerOK, Holds, Idle, Unstarted, Started, TypeOK

LEMMA FreeHandler ==
  ASSUME Owned, NEW h \in Handlers, op[h].pc \notin Unstarted \union Started \union {"invalidate"}
  PROVE  op[h].plan \notin Plans /\ op[h].todo = {} /\ \A p \in Plans : ~Holds(h, p)
BY DEF Owned, HandlerOK, Holds

\* A step that leaves the plans alone.
LEMMA Bystander ==
  ASSUME Owned, TypeOK', NEW h \in Handlers, \A g \in Handlers \ {h} : op'[g] = op[g],
         UNCHANGED <<plan, plans, disk, begun, ended>>,
         \A p \in Plans : Holds(h, p)' => Holds(h, p),
         HandlerOK(h)'
  PROVE  Owned'
<1>1. {} \in SUBSET Plans
  OBVIOUS
<1>2. \A p \in Plans \ {} :
        /\ disk'[p] = disk[p] /\ begun'[p] = begun[p] /\ plan'[p] = plan[p]
        /\ (p \in ended' <=> p \in ended) /\ (p \in plans' <=> p \in plans)
        /\ Holds(h, p)' => Holds(h, p)
  OBVIOUS
<1>3. QED
  BY <1>1, <1>2, Footprint

\* A step that changes the state of one plan.
LEMMA OnePlan ==
  ASSUME Owned, TypeOK', NEW h \in Handlers, NEW p \in Plans,
         \A g \in Handlers \ {h} : op'[g] = op[g] /\ ~Holds(g, p),
         \A q \in Plans \ {p} :
           /\ disk'[q] = disk[q] /\ begun'[q] = begun[q] /\ plan'[q] = plan[q]
           /\ (q \in ended' <=> q \in ended) /\ (q \in plans' <=> q \in plans)
           /\ Holds(h, q)' => Holds(h, q),
         PlanOK(p)', Holds(h, p)' => p \notin plans',
         HandlerOK(h)'
  PROVE  Owned'
<1>1. PICK S \in SUBSET Plans : S = {p}
  OBVIOUS
<1>2. QED
  BY <1>1, Footprint

\* record_execution keeps the type of the executions.
LEMMA ExecutionType ==
  ASSUME TypeOK, NEW p \in Plans, NEW status \in Statuses, NEW warned \in BOOLEAN,
         executions' = executions \union {[plan |-> p, status |-> status, warned |-> warned]}
  PROVE  executions' \subseteq [plan : Plans, status : Statuses, warned : BOOLEAN]
<1>1. [plan |-> p, status |-> status, warned |-> warned]
        \in [plan : Plans, status : Statuses, warned : BOOLEAN]
  OBVIOUS
<1>2. executions \subseteq [plan : Plans, status : Statuses, warned : BOOLEAN]
  BY DEF TypeOK
<1>3. QED
  BY <1>1, <1>2

\* A command ends without having touched a plan.
LEMMA EndsQuietly ==
  ASSUME Owned, TypeOK', NEW h \in Handlers, Done(h), UNCHANGED <<plan, plans, disk, begun, ended>>
  PROVE  Owned'
BY DoneOp, IdleOK, Bystander DEF Owned

\* The types that a step of the context has to keep.
LEMMA TypeFrame ==
  ASSUME TypeOK, op' \in [Handlers -> OpRecords],
         revision' \in Nat, discovery' \in Nat, selection' \in [id : Nat, discovery : Nat],
         enumeration' \in [id : Nat, selection : Nat], latest' \in Nat,
         diagnoses' \subseteq [id : Nat, enumeration : Nat],
         preview' \in [id : Nat, diagnosis : Nat, source : Plans \union {NoPlan},
                       rev : Nat, status : {"ready", "consumed"}, unparsed : BOOLEAN],
         previewCount' \in Nat,
         plan' \in [Plans -> [diagnosis : Nat, preview : Nat, source : Plans \union {NoPlan}]],
         plans' \subseteq Plans,
         executions' \subseteq [plan : Plans, status : Statuses, warned : BOOLEAN],
         disk' \in [Plans -> [rev : Nat, status : Statuses]],
         begun' \in [Plans -> Nat], ended' \subseteq Plans
  PROVE  TypeOK'
BY DEF TypeOK, OpRecords

-----------------------------------------------------------------------------
(* The commands that change the context.                                   *)

LEMMA PublishOwned ==
  ASSUME Owned, NEW h \in Handlers,
         PublishStartup(h) \/ PublishDiscovery(h) \/ PublishEnumeration(h) \/ PublishDiagnosis(h)
  PROVE  Owned'
<1>1. TypeOK /\ op[h] \in OpRecords
  BY DEF Owned, TypeOK, OpRecords
<1>2. Done(h) /\ UNCHANGED <<plan, plans, disk, begun, ended>>
  BY DEF PublishStartup, PublishDiscovery, PublishEnumeration, PublishDiagnosis, entities, history
<1>3. op' \in [Handlers -> OpRecords]
  BY <1>1, <1>2, DoneOp
<1>4. TypeOK'
  <2>1. CASE PublishStartup(h)
    BY <1>1, <1>3, <2>1, TypeFrame DEF PublishStartup, TypeOK, entities, history
  <2>2. CASE PublishDiscovery(h)
    BY <1>1, <1>3, <2>2, TypeFrame DEF PublishDiscovery, TypeOK, OpRecords, entities, history
  <2>3. CASE PublishEnumeration(h)
    BY <1>1, <1>3, <2>3, TypeFrame DEF PublishEnumeration, TypeOK, OpRecords, entities, history
  <2>4. CASE PublishDiagnosis(h)
    <3>1. latest' \in Nat /\ diagnoses' \subseteq [id : Nat, enumeration : Nat]
      BY <1>1, <2>4 DEF PublishDiagnosis, TypeOK, OpRecords, Retained
    <3>2. QED
      BY <1>1, <1>3, <2>4, <3>1, TypeFrame DEF PublishDiagnosis, TypeOK, context, history
  <2>5. QED
    BY <2>1, <2>2, <2>3, <2>4
<1>5. QED
  BY <1>2, <1>4, EndsQuietly

LEMMA ValidationOwned == ASSUME Owned, NEW h \in Handlers, StartValidation(h) PROVE Owned'
<1>1. TypeOK /\ op[h] \in OpRecords
  BY DEF Owned, TypeOK, OpRecords
<1>2. op[h].pc = "idle" /\ Goto(h, "validating") /\ UNCHANGED <<context, entities, disk, history>>
  BY DEF StartValidation, Calls
<1>3. /\ op' \in [Handlers -> OpRecords]
      /\ op'[h] = [op[h] EXCEPT !.pc = "validating"]
      /\ \A g \in Handlers \ {h} : op'[g] = op[g]
  BY <1>1, <1>2, GotoOp DEF PCs
<1>4. TypeOK'
  BY <1>1, <1>2, <1>3, TypeFrame DEF TypeOK, context, entities, history
<1>5. op'[h].pc = "validating" /\ op'[h].plan = op[h].plan /\ op'[h].todo = op[h].todo
  BY <1>1, <1>3 DEF OpRecords
<1>6. op[h].plan \notin Plans /\ op[h].todo = {}
  BY <1>2, FreeHandler DEF Unstarted, Started
<1>7. HandlerOK(h)' /\ \A p \in Plans : ~Holds(h, p)'
  BY <1>4, <1>5, <1>6 DEF HandlerOK, Holds, Unstarted, Started, TypeOK
<1>8. QED
  BY <1>2, <1>3, <1>4, <1>7, Bystander DEF entities, history

\* A command that advances takes the plans of the session over, to invalidate them.
LEMMA SupersedeOwned ==
  ASSUME Owned, NEW h \in Handlers, NEW next \in Waiting \union {"idle"}, NEW parent \in Nat,
         op[h].pc = "idle", Supersede(h, next, parent),
         discovery' \in Nat, selection' \in [id : Nat, discovery : Nat],
         enumeration' \in [id : Nat, selection : Nat]
  PROVE  Owned'
<1>1. TypeOK /\ op[h] \in OpRecords
  BY DEF Owned, TypeOK, OpRecords
<1> DEFINE pc == IF plans = {} THEN next ELSE "invalidate"
           record == [Idle EXCEPT !.pc = pc, !.next = next, !.rev = revision + 1,
                                  !.parent = parent, !.todo = plans]
<1>2. pc \in PCs /\ next \in PCs /\ revision + 1 \in Nat /\ plans \in SUBSET Plans
  BY <1>1 DEF PCs, Waiting, TypeOK
<1>3. record \in OpRecords
  BY <1>2, IdleType DEF OpRecords
<1>4. op' = [op EXCEPT ![h] = record]
  BY DEF Supersede
<1>5. op' \in [Handlers -> OpRecords] /\ op'[h] = record /\ \A g \in Handlers \ {h} : op'[g] = op[g]
  BY <1>1, <1>3, <1>4, OpBecomes
<1>6. TypeOK'
  <2>1. preview' \in [id : Nat, diagnosis : Nat, source : Plans \union {NoPlan},
                      rev : Nat, status : {"ready", "consumed"}, unparsed : BOOLEAN]
    BY DEF Supersede, NoPreview
  <2>2. /\ revision' \in Nat /\ latest' \in Nat /\ diagnoses' = {} /\ executions' = {} /\ plans' = {}
        /\ UNCHANGED <<previewCount, plan, disk, begun, ended>>
    BY <1>2 DEF Supersede, history
  <2>3. QED
    BY <1>1, <1>5, <2>1, <2>2, TypeFrame DEF TypeOK
<1>7. /\ plans' = {} /\ UNCHANGED <<plan, disk, begun, ended>>
  BY DEF Supersede, history
<1>8. /\ op'[h].pc = pc /\ op'[h].next = next /\ op'[h].plan = NoPlan /\ op'[h].todo = plans
  BY <1>5 DEF Idle
<1>9. plans \in SUBSET Plans
  BY <1>1 DEF TypeOK
<1>10. \A p \in Plans : Holds(h, p)' <=> p \in plans
  BY <1>8, ConstantsAssumption DEF Holds
<1>11. HandlerOK(h)'
  <2>1. \A p \in op'[h].todo : begun'[p] = 0 /\ p \notin ended'
    BY <1>7, <1>8, <1>9 DEF Owned, PlanOK
  <2>2. op'[h].plan \notin Plans /\ op'[h].plan \notin ended'
    BY <1>6, <1>8, ConstantsAssumption DEF TypeOK
  <2>3. QED
    BY <1>8, <2>1, <2>2 DEF HandlerOK, Unstarted, Started, Waiting
<1>12. \A p \in plans : PlanOK(p)'
  BY <1>7, <1>9 DEF Owned, PlanOK
<1>13. QED
  BY <1>5, <1>6, <1>7, <1>9, <1>10, <1>11, <1>12, Footprint DEF Owned, OneHand

LEMMA ContextOwned ==
  ASSUME Owned, NEW h \in Handlers,
         StartDiscovery(h) \/ SelectAdb(h) \/ StartListing(h) \/ StartDiagnosis(h)
  PROVE  Owned'
<1>1. TypeOK
  BY DEF Owned
<1>2. CASE StartDiscovery(h)
  BY <1>1, <1>2, SupersedeOwned DEF StartDiscovery, Calls, TypeOK, NoSelection, NoEnumeration, Waiting
<1>3. CASE SelectAdb(h)
  BY <1>1, <1>3, SupersedeOwned DEF SelectAdb, Calls, TypeOK, NoEnumeration, Waiting
<1>4. CASE StartListing(h)
  BY <1>1, <1>4, SupersedeOwned DEF StartListing, Calls, TypeOK, Waiting
<1>5. CASE StartDiagnosis(h)
  BY <1>1, <1>5, SupersedeOwned DEF StartDiagnosis, Calls, TypeOK, Waiting
<1>6. QED
  BY <1>2, <1>3, <1>4, <1>5

-----------------------------------------------------------------------------
(* Previews and plans.                                                     *)

LEMMA StorePreviewType ==
  ASSUME TypeOK, NEW source \in Plans \union {NoPlan}, NEW unparsed \in BOOLEAN,
         StorePreview(source, unparsed), op' \in [Handlers -> OpRecords]
  PROVE  TypeOK' /\ UNCHANGED <<plan, plans, disk, begun, ended>>
<1>1. /\ previewCount' \in Nat
      /\ preview' \in [id : Nat, diagnosis : Nat, source : Plans \union {NoPlan},
                       rev : Nat, status : {"ready", "consumed"}, unparsed : BOOLEAN]
  BY DEF StorePreview, TypeOK
<1>2. UNCHANGED <<context, latest, diagnoses, plan, plans, executions, disk, history>>
  BY DEF StorePreview
<1>3. QED
  BY <1>1, <1>2, TypeFrame DEF TypeOK, context, history

LEMMA PreviewOwned ==
  ASSUME Owned, NEW h \in Handlers,
         PreparePin(h) \/ LoadSource(h) \/ PrepareRestore(h) \/ AuthorizePreview(h)
  PROVE  Owned'
<1>1. TypeOK /\ op[h] \in OpRecords /\ op \in [Handlers -> OpRecords] /\ HandlerOK(h)
  BY DEF Owned, TypeOK, OpRecords
<1>2. CASE PreparePin(h)
  <2>1. PICK unparsed \in BOOLEAN : StorePreview(NoPlan, unparsed) /\ op' = op
    BY <1>2 DEF PreparePin
  <2>2. TypeOK' /\ UNCHANGED <<plan, plans, disk, begun, ended>>
    BY <1>1, <2>1, StorePreviewType
  <2>3. HandlerOK(h)'
    BY <1>1, <2>1, <2>2 DEF HandlerOK
  <2>4. QED
    BY <2>1, <2>2, <2>3, Bystander DEF Holds
<1>3. CASE LoadSource(h)
  <2>1. PICK p \in Plans : op' = [op EXCEPT ![h] = [Idle EXCEPT !.pc = "loaded", !.source = p, !.parent = latest]]
    BY <1>3 DEF LoadSource
  <2> DEFINE record == [Idle EXCEPT !.pc = "loaded", !.source = p, !.parent = latest]
  <2>2. record \in OpRecords
    BY <1>1, IdleType DEF OpRecords, PCs, TypeOK
  <2>3. op' \in [Handlers -> OpRecords] /\ op'[h] = record /\ \A g \in Handlers \ {h} : op'[g] = op[g]
    BY <1>1, <2>1, <2>2, OpBecomes
  <2>4. UNCHANGED <<context, entities, disk, history>>
    BY <1>3 DEF LoadSource
  <2>5. TypeOK'
    BY <1>1, <2>3, <2>4, TypeFrame DEF TypeOK, context, entities, history
  <2>6. op'[h].pc = "loaded" /\ op'[h].plan = NoPlan /\ op'[h].todo = {}
    BY <2>3 DEF Idle
  <2>7. HandlerOK(h)' /\ \A p1 \in Plans : ~Holds(h, p1)'
    BY <2>5, <2>6, ConstantsAssumption DEF HandlerOK, Holds, Unstarted, Started, TypeOK
  <2>8. QED
    BY <2>3, <2>4, <2>5, <2>7, Bystander DEF entities, history
<1>4. CASE PrepareRestore(h)
  <2>1. Done(h) /\ op' \in [Handlers -> OpRecords]
    BY <1>1, <1>4, DoneOp DEF PrepareRestore
  <2>2. CASE StorePreview(op[h].source, FALSE)
    BY <1>1, <2>1, <2>2, StorePreviewType, EndsQuietly DEF OpRecords
  <2>3. CASE UNCHANGED <<context, entities, disk, history>>
    <3>1. TypeOK'
      BY <1>1, <2>1, <2>3, TypeFrame DEF TypeOK, context, entities, history
    <3>2. QED
      BY <2>1, <2>3, <3>1, EndsQuietly DEF entities, history
  <2>4. QED
    BY <1>4, <2>2, <2>3 DEF PrepareRestore
<1>5. CASE AuthorizePreview(h)
  <2>1. op' = op /\ UNCHANGED <<context, latest, diagnoses, previewCount, plan, plans, executions, disk, history>>
    BY <1>5 DEF AuthorizePreview
  <2>2. preview' \in [id : Nat, diagnosis : Nat, source : Plans \union {NoPlan},
                      rev : Nat, status : {"ready", "consumed"}, unparsed : BOOLEAN]
    <3>1. preview \in [id : Nat, diagnosis : Nat, source : Plans \union {NoPlan},
                       rev : Nat, status : {"ready", "consumed"}, unparsed : BOOLEAN]
      BY <1>1 DEF TypeOK
    <3>2. preview' = [preview EXCEPT !.unparsed = FALSE, !.rev = preview.rev + 1]
      BY <1>5 DEF AuthorizePreview
    <3>3. preview.rev + 1 \in Nat
      BY <3>1
    <3>4. QED
      BY <3>1, <3>2, <3>3, Zenon
  <2>3. TypeOK'
    BY <1>1, <2>1, <2>2, TypeFrame DEF TypeOK, context, history
  <2>4. HandlerOK(h)'
    BY <1>1, <2>1 DEF HandlerOK, history
  <2>5. QED
    BY <2>1, <2>3, <2>4, Bystander DEF Holds, history
<1>6. QED
  BY <1>2, <1>3, <1>4, <1>5

\* A plan gets an identifier that was never given out.
LEMMA CopyOwned == ASSUME Owned, Named, NEW h \in Handlers, CopyPreview(h) PROVE Owned'
<1>1. TypeOK /\ op[h] \in OpRecords /\ preview # NoPreview
  BY DEF Owned, TypeOK, OpRecords, CopyPreview
<1>2. PICK p \in Fresh :
        /\ plan' = [plan EXCEPT ![p] = [diagnosis |-> preview.diagnosis,
                                        preview |-> preview.id, source |-> preview.source]]
        /\ op' = [op EXCEPT ![h] = [Idle EXCEPT !.pc = "savePlanned", !.plan = p,
                                      !.rev = revision, !.seen = preview.rev]]
  BY DEF CopyPreview
<1>3. p \in Plans /\ plan[p] = NotCreated
  BY <1>2 DEF Fresh
<1> DEFINE record == [Idle EXCEPT !.pc = "savePlanned", !.plan = p, !.rev = revision, !.seen = preview.rev]
<1>4. record \in OpRecords
  BY <1>1, <1>3, IdleType DEF OpRecords, PCs, TypeOK
<1>5. op' \in [Handlers -> OpRecords] /\ op'[h] = record /\ \A g \in Handlers \ {h} : op'[g] = op[g]
  BY <1>1, <1>2, <1>4, OpBecomes
<1>6. op'[h].pc = "savePlanned" /\ op'[h].plan = p /\ op'[h].todo = {}
  BY <1>5 DEF Idle
<1>7. UNCHANGED <<context, latest, diagnoses, preview, previewCount, plans, executions, disk, history>>
  BY DEF CopyPreview
<1>8. plan' \in [Plans -> [diagnosis : Nat, preview : Nat, source : Plans \union {NoPlan}]]
  BY <1>1, <1>2, <1>3 DEF TypeOK
<1>9. TypeOK'
  BY <1>1, <1>5, <1>7, <1>8, TypeFrame DEF TypeOK, context, history
<1>10. /\ begun[p] = 0 /\ p \notin ended /\ p \notin plans
       /\ \A g \in Handlers : ~Holds(g, p)
       /\ disk[p].rev <= 2 /\ disk[p].status # "applied"
  BY <1>3 DEF Owned, PlanOK
<1>11. HandlerOK(h)'
  BY <1>6, <1>7, <1>10, <1>3 DEF HandlerOK, Unstarted, Started, history
<1>12. plan'[p] # NotCreated
  BY <1>1, <1>2, <1>3 DEF Named, NotCreated, TypeOK
<1>13. PlanOK(p)'
  BY <1>7, <1>10, <1>12 DEF PlanOK, history
<1>14. \A q \in Plans \ {p} : plan'[q] = plan[q] /\ ~Holds(h, q)'
  BY <1>1, <1>2, <1>6 DEF Holds, TypeOK
<1>15. QED
  BY <1>3, <1>5, <1>7, <1>9, <1>10, <1>11, <1>13, <1>14, OnePlan DEF history

-----------------------------------------------------------------------------
(* Saves of the plan in hand.                                              *)

\* What is known of the plan a command has in hand.
LEMMA InHand ==
  ASSUME Owned, NEW h \in Handlers, op[h].pc \in Unstarted \union Started
  PROVE  /\ op[h].plan \in Plans /\ op[h].plan \notin plans /\ plan[op[h].plan] # NotCreated
         /\ op[h].todo = {}
         /\ \A g \in Handlers \ {h} : ~Holds(g, op[h].plan)
         /\ \A q \in Plans : Holds(h, q) => q = op[h].plan
         /\ op[h].pc \in Unstarted => begun[op[h].plan] = 0
         /\ op[h].pc \in Started => begun[op[h].plan] = 1
         /\ op[h].plan \in ended => op[h].pc \in {"record", "restoreSource", "finish"}
<1>1. op[h].plan \in Plans /\ op[h].todo = {}
  BY DEF Owned, HandlerOK, Unstarted, Started
<1>2. Holds(h, op[h].plan)
  BY DEF Holds
<1>3. QED
  BY <1>1, <1>2 DEF Owned, OneHand, HandlerOK, PlanOK, Holds

\* A save of the plan in hand, whatever came of it.
LEMMA SaveOwned ==
  ASSUME Owned, NEW h \in Handlers, op[h].pc \in Unstarted \union Started,
         NEW p \in Plans, p = op[h].plan, NEW rev \in Nat, NEW status \in Statuses,
         Saves(p, rev, status) \/ FailsToSave(p, rev, status),
         UNCHANGED <<context, entities>>,
         op' \in [Handlers -> OpRecords], \A g \in Handlers \ {h} : op'[g] = op[g],
         op'[h].plan \in {p, NoPlan}, op'[h].todo = {},
         NEW count \in {0, 1}, begun' = [begun EXCEPT ![p] = count],
         count = 0 => rev <= 2 /\ status # "applied",
         begun[p] \in {0, count},
         HandlerOK(h)'
  PROVE  Owned'
<1>1. TypeOK /\ PlanOK(p)
  BY DEF Owned
<1>2. /\ disk' \in [Plans -> [rev : Nat, status : Statuses]]
      /\ \A q \in Plans \ {p} : disk'[q] = disk[q]
      /\ disk'[p] \in {disk[p], [rev |-> rev, status |-> status]}
  BY <1>1, SaveDisk
<1>3. ended' = ended \/ ended' = ended \union {p}
  BY <1>1, SaveEnded
<1>4. TypeOK'
  BY <1>1, <1>2, <1>3, TypeFrame DEF TypeOK, context, entities
<1>5. p \notin plans' /\ plan'[p] # NotCreated
  BY InHand DEF entities
<1>6. begun'[p] = count
  BY <1>1 DEF TypeOK
<1>7. (disk[p].rev <= 2 /\ disk[p].status # "applied") \/ count = 1
  BY <1>1, <1>6 DEF PlanOK
<1>8. count = 0 => disk'[p].rev <= 2 /\ disk'[p].status # "applied"
  BY <1>2, <1>7
<1>9. PlanOK(p)'
  BY <1>5, <1>6, <1>8 DEF PlanOK
<1>10. \A q \in Plans \ {p} : Holds(h, q)' => Holds(h, q)
  BY ConstantsAssumption DEF Holds
<1>11. \A g \in Handlers \ {h} : ~Holds(g, p)
  BY InHand
<1>12. \A q \in Plans \ {p} :
         /\ disk'[q] = disk[q] /\ begun'[q] = begun[q] /\ plan'[q] = plan[q]
         /\ (q \in ended' <=> q \in ended) /\ (q \in plans' <=> q \in plans)
         /\ Holds(h, q)' => Holds(h, q)
  BY <1>1, <1>2, <1>3, <1>10 DEF entities, TypeOK
<1>13. QED
  BY <1>4, <1>5, <1>9, <1>11, <1>12, OnePlan

\* A handler goes on with the plan it has in hand, which is not ended by then or
\* only has to be recorded.
LEMMA GoesOn ==
  ASSUME Owned, NEW h \in Handlers, op[h].pc \in Unstarted \union Started,
         NEW pc \in Unstarted \union Started, Goto(h, pc),
         plan' = plan, ended' \subseteq Plans,
         pc \in Unstarted => begun'[op[h].plan] = 0,
         pc \in Started => begun'[op[h].plan] = 1,
         op[h].plan \in ended' => pc \in {"record", "restoreSource", "finish"},
         pc \notin {"saveUnused", "saveOutcome", "restoreSource"},
         pc = "writing" => disk'[op[h].plan] = [rev |-> 2, status |-> "executing"]
  PROVE  /\ op' \in [Handlers -> OpRecords] /\ \A g \in Handlers \ {h} : op'[g] = op[g]
         /\ op'[h].plan = op[h].plan /\ op'[h].todo = {} /\ HandlerOK(h)'
<1>1. TypeOK /\ op[h] \in OpRecords
  BY DEF Owned, TypeOK, OpRecords
<1>2. pc \in PCs
  BY DEF PCs, Unstarted, Started
<1>3. /\ op' \in [Handlers -> OpRecords]
      /\ op'[h] = [op[h] EXCEPT !.pc = pc]
      /\ \A g \in Handlers \ {h} : op'[g] = op[g]
  BY <1>1, <1>2, GotoOp
<1>4. op'[h].pc = pc /\ op'[h].plan = op[h].plan /\ op'[h].todo = op[h].todo
  BY <1>1, <1>3 DEF OpRecords
<1>5. op[h].plan \in Plans /\ op[h].todo = {}
  BY InHand
<1>6. HandlerOK(h)'
  BY <1>4, <1>5 DEF HandlerOK, Unstarted, Started
<1>7. QED
  BY <1>3, <1>4, <1>5, <1>6

\* A handler is done with the plan it has in hand.
LEMMA LetsGo ==
  ASSUME Owned, NEW h \in Handlers, Done(h), ended' \subseteq Plans
  PROVE  /\ op' \in [Handlers -> OpRecords] /\ \A g \in Handlers \ {h} : op'[g] = op[g]
         /\ op'[h].plan = NoPlan /\ op'[h].todo = {} /\ HandlerOK(h)'
<1>1. op' \in [Handlers -> OpRecords] /\ op'[h] = Idle /\ \A g \in Handlers \ {h} : op'[g] = op[g]
  BY DoneOp DEF Owned
<1>2. op'[h].pc = "idle" /\ op'[h].plan = NoPlan /\ op'[h].todo = {}
  BY <1>1 DEF Idle
<1>3. HandlerOK(h)'
  BY <1>2, ConstantsAssumption DEF HandlerOK, Unstarted, Started
<1>4. QED
  BY <1>1, <1>2, <1>3

LEMMA SavesBeforeOwned ==
  ASSUME Owned, NEW h \in Handlers,
         SavePlanned(h) \/ SaveDropped(h) \/ SaveCancelled(h) \/ SaveUnused(h)
  PROVE  Owned'
<1> DEFINE p == op[h].plan
<1>1. TypeOK /\ op[h] \in OpRecords /\ HandlerOK(h)
  BY DEF Owned, TypeOK, OpRecords
<1>2. UNCHANGED <<context, entities, begun>> /\ plan' = plan /\ op[h].pc \in Unstarted
  BY DEF SavePlanned, SaveDropped, SaveCancelled, SaveUnused, entities, Unstarted
<1>3. (p \in Plans /\ begun[p] = 0 /\ p \notin ended) \/ op[h].pc = "record"
  BY <1>2, InHand DEF Unstarted
<1>4. begun' = [begun EXCEPT ![p] = 0]
  BY <1>1, <1>2, InHand DEF TypeOK
<1>5. ASSUME NEW rev \in {1, 2}, NEW status \in Statuses \ {"applied"}, op[h].pc # "record",
             Saves(p, rev, status) \/ FailsToSave(p, rev, status),
             \/ Done(h)
             \/ Goto(h, "commitPlan") /\ status = "planned"
             \/ Goto(h, "record")
             \/ Goto(h, "reinsert") /\ FailsToSave(p, rev, status)
      PROVE  Owned'
  <2>1. /\ Saves(p, rev, status) => ended' = IF status \in Ends THEN ended \union {p} ELSE ended
        /\ FailsToSave(p, rev, status) => ended' = ended
        /\ ended' \subseteq Plans /\ p \in Plans /\ p \notin ended
    BY <1>1, <1>3, <1>5, SaveEnded DEF TypeOK
  <2>2. /\ op' \in [Handlers -> OpRecords] /\ \A g \in Handlers \ {h} : op'[g] = op[g]
        /\ op'[h].plan \in {p, NoPlan} /\ op'[h].todo = {} /\ HandlerOK(h)'
    <3>1. CASE Done(h)
      BY <2>1, <3>1, LetsGo
    <3>2. CASE Goto(h, "commitPlan") /\ status = "planned"
      BY <1>2, <1>3, <1>5, <2>1, <3>2, GoesOn DEF Unstarted, Started, Ends, Outcomes
    <3>3. CASE Goto(h, "record")
      BY <1>2, <1>3, <1>5, <2>1, <3>3, GoesOn DEF Unstarted, Started
    <3>4. CASE Goto(h, "reinsert") /\ FailsToSave(p, rev, status)
      BY <1>2, <1>3, <1>5, <2>1, <3>4, GoesOn DEF Unstarted, Started
    <3>5. QED
      BY <1>5, <3>1, <3>2, <3>3, <3>4
  <2>3. /\ p \in Plans /\ rev \in Nat /\ status \in Statuses /\ begun[p] \in {0, 0}
        /\ rev <= 2 /\ status # "applied" /\ UNCHANGED <<context, entities>>
    BY <1>2, <1>3, <1>5, <2>1
  <2>4. Saves(p, rev, status) \/ FailsToSave(p, rev, status)
    BY <1>5
  <2>5. QED
    BY <1>2, <1>4, <2>2, <2>3, <2>4, SaveOwned
<1>6. CASE SavePlanned(h)
  BY <1>5, <1>6 DEF SavePlanned, Statuses
<1>7. CASE SaveDropped(h)
  BY <1>5, <1>7 DEF SaveDropped, Statuses, Ends, Outcomes
<1>8. CASE SaveCancelled(h)
  BY <1>5, <1>8 DEF SaveCancelled, Statuses, Ends, Outcomes
<1>9. CASE SaveUnused(h)
  <2>1. op[h].status \in {"expired", "invalidated"}
    BY <1>1, <1>9 DEF SaveUnused, HandlerOK
  <2>2. QED
    BY <1>5, <1>9, <2>1 DEF SaveUnused, Statuses, Ends, Outcomes
<1>10. QED
  BY <1>6, <1>7, <1>8, <1>9

-----------------------------------------------------------------------------
(* Plans that are taken up, given back, or committed.                      *)

LEMMA TakeOwned ==
  ASSUME Owned, NEW h \in Handlers, op[h].pc = "idle", NEW p \in Plans,
         NEW pc \in {"saveCancelled", "saveUnused", "saveExecuting"}, NEW status \in Statuses,
         pc = "saveUnused" => status \in {"expired", "invalidated"},
         TakePlan(h, p, pc, status)
  PROVE  Owned'
<1>1. TypeOK /\ PlanOK(p) /\ p \in plans
  BY DEF Owned, TakePlan
<1> DEFINE record == [Idle EXCEPT !.pc = pc, !.plan = p, !.status = status]
<1>2. record \in OpRecords
  BY IdleType DEF OpRecords, PCs
<1>3. op' = [op EXCEPT ![h] = record]
  BY DEF TakePlan
<1>4. op' \in [Handlers -> OpRecords] /\ op'[h] = record /\ \A g \in Handlers \ {h} : op'[g] = op[g]
  BY <1>1, <1>2, <1>3, OpBecomes
<1>5. op'[h].pc = pc /\ op'[h].plan = p /\ op'[h].status = status /\ op'[h].todo = {}
  BY <1>4 DEF Idle
<1>6. plans' = plans \ {p} /\ UNCHANGED <<context, latest, diagnoses, preview, previewCount, plan, executions, disk, history>>
  BY DEF TakePlan, Taken
<1>7. TypeOK'
  BY <1>1, <1>4, <1>6, TypeFrame DEF TypeOK, context, history
<1>8. begun[p] = 0 /\ p \notin ended /\ plan[p] # NotCreated
  BY <1>1 DEF PlanOK
<1>9. PlanOK(p)'
  BY <1>1, <1>6, <1>8 DEF PlanOK, history
<1>10. HandlerOK(h)'
  BY <1>5, <1>6, <1>8 DEF HandlerOK, Unstarted, Started, history
<1>11. \A g \in Handlers \ {h} : ~Holds(g, p)
  BY <1>1 DEF Owned, OneHand
<1>12. \A q \in Plans \ {p} :
         /\ disk'[q] = disk[q] /\ begun'[q] = begun[q] /\ plan'[q] = plan[q]
         /\ (q \in ended' <=> q \in ended) /\ (q \in plans' <=> q \in plans)
         /\ Holds(h, q)' => Holds(h, q)
  BY <1>5, <1>6 DEF Holds, history
<1>13. QED
  BY <1>4, <1>6, <1>7, <1>9, <1>10, <1>11, <1>12, OnePlan

LEMMA TakesOwned ==
  ASSUME Owned, NEW h \in Handlers, TakeToCancel(h) \/ TakeToExecute(h) \/ TakeWrongKind(h)
  PROVE  Owned'
<1>1. TypeOK /\ plans \subseteq Plans /\ op[h].pc = "idle"
  BY DEF Owned, TypeOK, TakeToCancel, TakeToExecute, TakeWrongKind, Calls
<1>2. CASE TakeToCancel(h)
  BY <1>1, <1>2, TakeOwned DEF TakeToCancel, Statuses, Ends
<1>3. CASE TakeToExecute(h)
  BY <1>1, <1>3, TakeOwned DEF TakeToExecute, Statuses, Ends, Outcomes
<1>4. CASE TakeWrongKind(h)
  <2>1. PICK p \in plans : plans' = plans \ {p}
    BY <1>4 DEF TakeWrongKind, Taken
  <2>2. UNCHANGED <<context, latest, diagnoses, preview, previewCount, plan, executions, op, disk, history>>
    BY <1>4 DEF TakeWrongKind
  <2>3. op' \in [Handlers -> OpRecords]
    BY <1>1, <2>2 DEF TypeOK, OpRecords
  <2>4. TypeOK'
    BY <1>1, <2>1, <2>2, <2>3, TypeFrame DEF TypeOK, context, history
  <2>5. p \in Plans /\ PlanOK(p) /\ HandlerOK(h) /\ \A g \in Handlers : ~Holds(g, p)
    BY <1>1, <2>1 DEF Owned, OneHand
  <2>6. PlanOK(p)' /\ HandlerOK(h)'
    BY <2>1, <2>2, <2>5 DEF PlanOK, HandlerOK, Holds, history
  <2>7. \A q \in Plans \ {p} :
          /\ disk'[q] = disk[q] /\ begun'[q] = begun[q] /\ plan'[q] = plan[q]
          /\ (q \in ended' <=> q \in ended) /\ (q \in plans' <=> q \in plans)
          /\ Holds(h, q)' => Holds(h, q)
    BY <2>1, <2>2 DEF Holds, history
  <2>8. QED
    BY <2>1, <2>2, <2>4, <2>5, <2>6, <2>7, OnePlan
<1>5. QED
  BY <1>2, <1>3, <1>4

\* A command gives the plan in hand to the session.
LEMMA GivesToSession ==
  ASSUME Owned, NEW h \in Handlers, op[h].pc \in {"commitPlan", "reinsert"}, TypeOK', Done(h),
         plans' = plans \union {op[h].plan}, UNCHANGED <<plan, disk, begun, ended>>
  PROVE  Owned'
<1>1. op[h].pc \in Unstarted /\ TypeOK
  BY DEF Owned, Unstarted
<1>2. PICK p \in Plans : p = op[h].plan
  BY <1>1, InHand
<1>3. /\ plan[p] # NotCreated /\ begun[p] = 0 /\ p \notin ended /\ PlanOK(p)
      /\ \A g \in Handlers \ {h} : ~Holds(g, p)
  BY <1>1, <1>2, InHand DEF Owned
<1>4. op'[h] = Idle /\ \A g \in Handlers \ {h} : op'[g] = op[g]
  BY <1>1, DoneOp
<1>5. HandlerOK(h)' /\ \A q \in Plans : ~Holds(h, q)'
  BY <1>4, IdleOK
<1>6. PlanOK(p)'
  BY <1>3 DEF PlanOK
<1>7. \A q \in Plans \ {p} :
        /\ disk'[q] = disk[q] /\ begun'[q] = begun[q] /\ plan'[q] = plan[q]
        /\ (q \in ended' <=> q \in ended) /\ (q \in plans' <=> q \in plans)
        /\ Holds(h, q)' => Holds(h, q)
  BY <1>2, <1>5
<1>8. QED
  BY <1>3, <1>4, <1>5, <1>6, <1>7, OnePlan

LEMMA CommitOwned ==
  ASSUME Owned, NEW h \in Handlers, CommitPlan(h) \/ Reinsert(h) \/ RecordExecution(h)
  PROVE  Owned'
<1>1. TypeOK /\ op[h] \in OpRecords /\ op[h].pc \in Unstarted
  BY DEF Owned, TypeOK, OpRecords, CommitPlan, Reinsert, RecordExecution, Unstarted
<1>2. op[h].plan \in Plans
  BY <1>1, InHand
<1>3. CASE CommitPlan(h) /\ PreviewUnchanged(h)
  <2>1. /\ Done(h) /\ plans' = plans \union {op[h].plan} /\ op[h].pc = "commitPlan"
        /\ preview' = [preview EXCEPT !.status = "consumed", !.rev = preview.rev + 1]
        /\ UNCHANGED <<context, latest, diagnoses, previewCount, plan, executions, disk, history>>
    BY <1>3 DEF CommitPlan
  <2>2. preview' \in [id : Nat, diagnosis : Nat, source : Plans \union {NoPlan},
                      rev : Nat, status : {"ready", "consumed"}, unparsed : BOOLEAN]
    <3>1. preview \in [id : Nat, diagnosis : Nat, source : Plans \union {NoPlan},
                       rev : Nat, status : {"ready", "consumed"}, unparsed : BOOLEAN]
      BY <1>1 DEF TypeOK
    <3>2. preview.rev + 1 \in Nat
      BY <3>1
    <3>3. QED
      BY <2>1, <3>1, <3>2, Zenon
  <2>3. TypeOK'
    BY <1>1, <1>2, <2>1, <2>2, DoneOp, TypeFrame DEF TypeOK, context, history
  <2>4. QED
    BY <2>1, <2>3, GivesToSession DEF history
<1>4. CASE CommitPlan(h) /\ ~PreviewUnchanged(h)
  <2>1. /\ Goto(h, "saveDropped") /\ UNCHANGED <<preview, plans>>
        /\ UNCHANGED <<context, latest, diagnoses, previewCount, plan, executions, disk, history>>
        /\ op[h].pc = "commitPlan"
    BY <1>4 DEF CommitPlan
  <2>2. begun[op[h].plan] = 0 /\ op[h].plan \notin ended /\ ended \subseteq Plans
    BY <1>1, <2>1, InHand DEF TypeOK
  <2>3. /\ op' \in [Handlers -> OpRecords] /\ \A g \in Handlers \ {h} : op'[g] = op[g]
        /\ op'[h].plan = op[h].plan /\ op'[h].todo = {} /\ HandlerOK(h)'
    BY <1>1, <2>1, <2>2, GoesOn DEF Unstarted, Started, history
  <2>4. TypeOK'
    BY <1>1, <2>1, <2>3, TypeFrame DEF TypeOK, context, history
  <2>5. QED
    BY <2>1, <2>3, <2>4, Bystander DEF Holds, history
<1>5. CASE Reinsert(h)
  <2>1. /\ Done(h) /\ plans' = plans \union {op[h].plan} /\ op[h].pc = "reinsert"
        /\ UNCHANGED <<context, latest, diagnoses, preview, previewCount, plan, executions, disk, history>>
    BY <1>5 DEF Reinsert
  <2>2. TypeOK'
    BY <1>1, <1>2, <2>1, DoneOp, TypeFrame DEF TypeOK, context, history
  <2>3. QED
    BY <2>1, <2>2, GivesToSession DEF history
<1>6. CASE RecordExecution(h)
  <2>1. /\ Done(h)
        /\ executions' = executions \union {[plan |-> op[h].plan, status |-> op[h].status, warned |-> FALSE]}
        /\ UNCHANGED <<context, latest, diagnoses, preview, previewCount, plan, plans, disk, history>>
    BY <1>6 DEF RecordExecution
  <2>2. executions' \subseteq [plan : Plans, status : Statuses, warned : BOOLEAN]
    <3>1. op[h].status \in Statuses /\ FALSE \in BOOLEAN
      BY <1>1 DEF OpRecords
    <3>2. QED
      BY <1>1, <1>2, <2>1, <3>1, ExecutionType
  <2>3. TypeOK'
    BY <1>1, <2>1, <2>2, DoneOp, TypeFrame DEF TypeOK, context, history
  <2>4. QED
    BY <2>1, <2>3, EndsQuietly DEF history
<1>7. QED
  BY <1>3, <1>4, <1>5, <1>6

-----------------------------------------------------------------------------
(* An execution, from its first record to its last.                        *)

LEMMA SaveExecutingOwned == ASSUME Owned, NEW h \in Handlers, SaveExecuting(h) PROVE Owned'
<1>1. TypeOK /\ op[h] \in OpRecords /\ op[h].pc = "saveExecuting" /\ op[h].pc \in Unstarted
  BY DEF Owned, TypeOK, OpRecords, SaveExecuting, Unstarted
<1>2. PICK p \in Plans : p = op[h].plan
  BY <1>1, InHand
<1>3. begun[p] = 0 /\ p \notin ended /\ PlanOK(p) /\ ended \subseteq Plans
  BY <1>1, <1>2, InHand DEF Owned, TypeOK
<1>4. UNCHANGED <<context, entities>> /\ plan' = plan
  BY DEF SaveExecuting, entities
<1>5. CASE Saves(p, 2, "executing") /\ Goto(h, "writing") /\ begun' = [begun EXCEPT ![p] = @ + 1]
  <2>1. begun' = [begun EXCEPT ![p] = 1] /\ begun'[p] = 1
    BY <1>1, <1>3, <1>5 DEF TypeOK
  <2>2. ended' = ended
    BY <1>1, <1>5, SaveEnded DEF Ends, Outcomes
  <2>3. disk'[p] = [rev |-> 2, status |-> "executing"]
    <3>1. disk[p].rev \in Nat /\ disk[p].rev <= 2
      BY <1>1, <1>3 DEF PlanOK, TypeOK
    <3>2. QED
      BY <1>1, <1>5, <3>1, SaveDisk DEF Statuses
  <2>4. /\ op' \in [Handlers -> OpRecords] /\ \A g \in Handlers \ {h} : op'[g] = op[g]
        /\ op'[h].plan = p /\ op'[h].todo = {} /\ HandlerOK(h)'
    BY <1>1, <1>2, <1>3, <1>4, <1>5, <2>1, <2>2, <2>3, GoesOn DEF Unstarted, Started
  <2>5. Saves(p, 2, "executing") /\ "executing" \in Statuses /\ begun[p] \in {0, 1}
    BY <1>3, <1>5 DEF Statuses
  <2>6. op'[h].plan \in {p, NoPlan} /\ 1 \in {0, 1} /\ 2 \in Nat /\ 1 # 0
    BY <2>4
  <2>7. op[h].pc \in Unstarted \union Started /\ begun' = [begun EXCEPT ![p] = 1]
    BY <1>1, <2>1
  <2>8. QED
    BY <1>2, <1>4, <2>4, <2>5, <2>6, <2>7, SaveOwned
<1>6. CASE FailsToSave(p, 2, "executing") /\ Goto(h, "reinsert") /\ begun' = begun
  <2>1. begun' = [begun EXCEPT ![p] = 0] /\ begun'[p] = 0
    BY <1>1, <1>3, <1>6 DEF TypeOK
  <2>2. ended' = ended
    BY <1>1, <1>6, SaveEnded
  <2>3. /\ op' \in [Handlers -> OpRecords] /\ \A g \in Handlers \ {h} : op'[g] = op[g]
        /\ op'[h].plan = p /\ op'[h].todo = {} /\ HandlerOK(h)'
    BY <1>1, <1>2, <1>3, <1>4, <1>6, <2>1, <2>2, GoesOn DEF Unstarted, Started
  <2>4. FailsToSave(p, 2, "executing") /\ "executing" \in Statuses /\ begun[p] \in {0, 0}
    BY <1>3, <1>6 DEF Statuses
  <2>5. op'[h].plan \in {p, NoPlan} /\ 0 \in {0, 1} /\ 2 \in Nat /\ 2 <= 2 /\ "executing" # "applied"
    BY <2>3
  <2>6. op[h].pc \in Unstarted \union Started /\ begun' = [begun EXCEPT ![p] = 0]
    BY <1>1, <2>1
  <2>7. QED
    BY <1>2, <1>4, <2>3, <2>4, <2>5, <2>6, SaveOwned
<1>7. QED
  BY <1>2, <1>5, <1>6 DEF SaveExecuting

LEMMA EndOfWritingOwned == ASSUME Owned, NEW h \in Handlers, EndOfWriting(h) PROVE Owned'
<1>1. TypeOK /\ op[h] \in OpRecords /\ HandlerOK(h) /\ op[h].pc = "writing" /\ op[h].pc \in Started
  BY DEF Owned, TypeOK, OpRecords, EndOfWriting, Started
<1>2. PICK v \in Verdicts(op[h].plan) :
        op' = [op EXCEPT ![h].pc = "saveOutcome", ![h].status = v]
  BY DEF EndOfWriting
<1>3. UNCHANGED <<context, entities, disk, history>>
  BY DEF EndOfWriting
<1> DEFINE record == [op[h] EXCEPT !.pc = "saveOutcome", !.status = v]
<1>4. v \in Statuses
  BY <1>2 DEF Verdicts, Statuses, Ends, Outcomes
<1>5. "saveOutcome" \in PCs
  BY DEF PCs
<1>6. record \in OpRecords
  BY <1>1, <1>4, <1>5 DEF OpRecords
<1>7. op' = [op EXCEPT ![h] = record]
  BY <1>2
<1>8. op' \in [Handlers -> OpRecords] /\ op'[h] = record /\ \A g \in Handlers \ {h} : op'[g] = op[g]
  BY <1>1, <1>6, <1>7, OpBecomes
<1>9. /\ op'[h].pc = "saveOutcome" /\ op'[h].status = v /\ op'[h].plan = op[h].plan
      /\ op'[h].todo = op[h].todo
  BY <1>1, <1>8 DEF OpRecords
<1>10. TypeOK'
  BY <1>1, <1>3, <1>8, TypeFrame DEF TypeOK, context, entities, history
<1>11. /\ op[h].plan \in Plans /\ op[h].todo = {} /\ begun[op[h].plan] = 1
       /\ op[h].plan \notin ended
  BY <1>1, InHand
<1>12. v = "restored" => plan[op[h].plan].source \in Plans
  BY <1>1, <1>2, <1>11 DEF Verdicts, TypeOK
<1>13. HandlerOK(h)'
  BY <1>1, <1>3, <1>9, <1>11, <1>12 DEF HandlerOK, Unstarted, Started, entities, history
<1>14. QED
  BY <1>3, <1>8, <1>9, <1>10, <1>13, Bystander DEF Holds, entities, history

LEMMA SaveOutcomeOwned == ASSUME Owned, NEW h \in Handlers, SaveOutcome(h) PROVE Owned'
<1>1. TypeOK /\ op[h] \in OpRecords /\ HandlerOK(h) /\ op[h].pc = "saveOutcome" /\ op[h].pc \in Started
  BY DEF Owned, TypeOK, OpRecords, SaveOutcome, Started
<1>2. PICK p \in Plans : p = op[h].plan
  BY <1>1, InHand
<1> DEFINE pc == IF op[h].status = "restored" THEN "restoreSource" ELSE "finish"
<1>3. PICK failed \in BOOLEAN :
        /\ IF failed THEN FailsToSave(p, 3, op[h].status) ELSE Saves(p, 3, op[h].status)
        /\ op' = [op EXCEPT ![h].pc = pc, ![h].warned = failed]
  BY <1>2 DEF SaveOutcome
<1>4. UNCHANGED <<context, entities, begun>> /\ plan' = plan
  BY DEF SaveOutcome, entities
<1> DEFINE record == [op[h] EXCEPT !.pc = pc, !.warned = failed]
<1>5. pc \in PCs /\ failed \in BOOLEAN
  BY <1>3 DEF PCs
<1>6. record \in OpRecords
  BY <1>1, <1>5 DEF OpRecords
<1>7. op' = [op EXCEPT ![h] = record]
  BY <1>3
<1>8. op' \in [Handlers -> OpRecords] /\ op'[h] = record /\ \A g \in Handlers \ {h} : op'[g] = op[g]
  BY <1>1, <1>6, <1>7, OpBecomes
<1>9. /\ op'[h].pc = pc /\ op'[h].status = op[h].status /\ op'[h].plan = p
      /\ op'[h].todo = op[h].todo
  BY <1>1, <1>2, <1>8 DEF OpRecords
<1>10. op[h].todo = {} /\ begun[p] = 1
  BY <1>1, <1>2, InHand
<1>11. op[h].status = "restored" => plan[p].source \in Plans
  BY <1>1, <1>2 DEF HandlerOK
<1>12. HandlerOK(h)'
  BY <1>2, <1>4, <1>9, <1>10, <1>11 DEF HandlerOK, Unstarted, Started
<1>13. begun' = [begun EXCEPT ![p] = 1]
  BY <1>1, <1>4, <1>10 DEF TypeOK
<1>14. Saves(p, 3, op[h].status) \/ FailsToSave(p, 3, op[h].status)
  BY <1>3
<1>15. op[h].status \in Statuses /\ begun[p] \in {0, 1}
  BY <1>1, <1>10 DEF OpRecords
<1>16. /\ op'[h].plan \in {p, NoPlan} /\ op'[h].todo = {} /\ 1 \in {0, 1} /\ 3 \in Nat /\ 1 # 0
       /\ op[h].pc \in Unstarted \union Started
  BY <1>1, <1>9, <1>10
<1>17. op' \in [Handlers -> OpRecords] /\ \A g \in Handlers \ {h} : op'[g] = op[g]
  BY <1>8
<1>18. UNCHANGED <<context, entities>>
  BY <1>4
<1>19. QED
  BY <1>2, <1>12, <1>13, <1>14, <1>15, <1>16, <1>17, <1>18, SaveOwned

\* The source of a restore may be in the hand of another command, which by then
\* has only to restore its own source or to finish.
LEMMA RestoreSourceOwned == ASSUME Owned, NEW h \in Handlers, RestoreSource(h) PROVE Owned'
<1>1. TypeOK /\ op[h] \in OpRecords /\ HandlerOK(h) /\ op[h].pc = "restoreSource" /\ op[h].pc \in Started
  BY DEF Owned, TypeOK, OpRecords, RestoreSource, Started
<1>2. PICK s \in Plans : s = plan[op[h].plan].source
  BY <1>1 DEF HandlerOK
<1>3. UNCHANGED <<context, entities, begun>> /\ UNCHANGED <<plan, plans>>
  BY DEF RestoreSource, entities
<1>4. PICK warned \in BOOLEAN : op' = [op EXCEPT ![h] = [op[h] EXCEPT !.pc = "finish", !.warned = warned]]
  <2>1. CASE Goto(h, "finish")
    <3>1. op[h].warned \in BOOLEAN
      BY <1>1 DEF OpRecords
    <3>2. [op[h] EXCEPT !.pc = "finish"] = [op[h] EXCEPT !.pc = "finish", !.warned = op[h].warned]
      BY <1>1 DEF OpRecords
    <3>3. QED
      BY <2>1, <3>1, <3>2 DEF Goto
  <2>2. CASE op' = [op EXCEPT ![h].pc = "finish", ![h].warned = TRUE]
    BY <2>2
  <2>3. QED
    BY <2>1, <2>2 DEF RestoreSource
<1>5. \/ UNCHANGED <<disk, ended>>
      \/ /\ disk[s].status = "applied"
         /\ \/ Saves(s, disk[s].rev + 1, "restored")
            \/ FailsToSave(s, disk[s].rev + 1, "restored")
  BY <1>2 DEF RestoreSource
<1> DEFINE record == [op[h] EXCEPT !.pc = "finish", !.warned = warned]
<1>6. "finish" \in PCs
  BY DEF PCs
<1>7. record \in OpRecords
  BY <1>1, <1>6 DEF OpRecords
<1>8. op' \in [Handlers -> OpRecords] /\ op'[h] = record /\ \A g \in Handlers \ {h} : op'[g] = op[g]
  BY <1>1, <1>4, <1>7, OpBecomes
<1>9. /\ op'[h].pc = "finish" /\ op'[h].plan = op[h].plan /\ op'[h].todo = op[h].todo
  BY <1>1, <1>8 DEF OpRecords
<1>10. op[h].plan \in Plans /\ op[h].todo = {} /\ begun[op[h].plan] = 1
  BY <1>1, InHand
<1>11. HandlerOK(h)'
  BY <1>3, <1>9, <1>10 DEF HandlerOK, Unstarted, Started
<1>12. CASE UNCHANGED <<disk, ended>>
  <2>1. TypeOK'
    BY <1>1, <1>3, <1>8, <1>12, TypeFrame DEF TypeOK, context, entities
  <2>2. QED
    BY <1>3, <1>8, <1>9, <1>11, <1>12, <2>1, Bystander DEF Holds
<1>13. CASE /\ disk[s].status = "applied"
            /\ \/ Saves(s, disk[s].rev + 1, "restored")
               \/ FailsToSave(s, disk[s].rev + 1, "restored")
  <2>1. disk[s].rev + 1 \in Nat /\ "restored" \in Statuses
    BY <1>1 DEF TypeOK, Statuses, Ends, Outcomes
  <2>2. /\ disk' \in [Plans -> [rev : Nat, status : Statuses]]
        /\ \A q \in Plans \ {s} : disk'[q] = disk[q]
    BY <1>1, <1>13, <2>1, SaveDisk
  <2>3. ended' = ended \/ ended' = ended \union {s}
    BY <1>1, <1>13, SaveEnded
  <2>4. TypeOK'
    BY <1>1, <1>3, <1>8, <2>2, <2>3, TypeFrame DEF TypeOK, context, entities
  <2>5. begun[s] = 1 /\ PlanOK(s)
    BY <1>13 DEF Owned, PlanOK
  <2>6. ASSUME NEW g \in Handlers \ {h} PROVE HandlerOK(g)'
    <3>1. op'[g] = op[g] /\ HandlerOK(g) /\ begun' = begun /\ plan' = plan
      BY <1>3, <1>8 DEF Owned
    <3>2. op[g].plan \in Plans /\ op[g].pc \in {"writing", "saveOutcome"} => op[g].plan # s
      BY <1>13, <3>1 DEF HandlerOK
    <3>3. op[g].pc \in {"writing", "saveOutcome"} => op[g].plan \in Plans
      BY <3>1 DEF HandlerOK, Started
    <3>4. op[g].plan = s => op[g].pc \in {"restoreSource", "finish"}
      BY <2>5, <3>1, <3>2 DEF HandlerOK, Unstarted, Started
    <3>5. s \notin op[g].todo
      BY <2>5, <3>1 DEF HandlerOK
    <3>6. op[g].plan \in ended' => op[g].pc \in {"record", "restoreSource", "finish"}
      BY <2>3, <3>1, <3>4 DEF HandlerOK
    <3>7. \A p \in op[g].todo : begun'[p] = 0 /\ p \notin ended'
      BY <2>3, <3>1, <3>5 DEF HandlerOK
    <3>8. op[g].pc \in {"writing", "saveOutcome"} => disk'[op[g].plan] = [rev |-> 2, status |-> "executing"]
      BY <2>2, <3>1, <3>2, <3>3 DEF HandlerOK
    <3>9. QED
      BY <3>1, <3>6, <3>7, <3>8 DEF HandlerOK
  <2>7. \A g \in Handlers : \A p \in Plans : Holds(g, p)' <=> Holds(g, p)
    BY <1>8, <1>9 DEF Holds
  <2>8. ASSUME NEW p \in Plans PROVE PlanOK(p)'
    <3>1. PlanOK(p)
      BY DEF Owned
    <3>2. CASE p = s
      BY <1>3, <2>5, <3>2 DEF PlanOK
    <3>3. CASE p # s
      BY <1>3, <2>2, <2>3, <2>7, <3>1, <3>3 DEF PlanOK
    <3>4. QED
      BY <3>2, <3>3
  <2>9. OneHand'
    BY <1>1, <1>3, <2>7 DEF Owned, OneHand, TypeOK
  <2>10. QED
    BY <1>11, <2>4, <2>6, <2>8, <2>9 DEF Owned
<1>14. QED
  BY <1>5, <1>12, <1>13

LEMMA FinishOwned == ASSUME Owned, NEW h \in Handlers, FinishExecution(h) PROVE Owned'
<1>1. TypeOK /\ op[h] \in OpRecords /\ op[h].pc \in Started
  BY DEF Owned, TypeOK, OpRecords, FinishExecution, Started
<1>2. op[h].plan \in Plans /\ op[h].status \in Statuses /\ op[h].warned \in BOOLEAN
  BY <1>1, InHand DEF OpRecords
<1>3. /\ Done(h) /\ UNCHANGED <<discovery, selection, enumeration, previewCount, plan, plans, disk, history>>
      /\ revision' = revision + 1 /\ latest' = 0 /\ preview' = NoPreview
      /\ executions' = executions \union
           {[plan |-> op[h].plan, status |-> op[h].status, warned |-> op[h].warned]}
      /\ diagnoses' = Retained(diagnoses, 0, NoPreview, plans, executions')
  BY DEF FinishExecution
<1>4. executions' \subseteq [plan : Plans, status : Statuses, warned : BOOLEAN]
  BY <1>1, <1>2, <1>3, ExecutionType
<1>5. diagnoses' \subseteq [id : Nat, enumeration : Nat]
  BY <1>1, <1>3 DEF Retained, TypeOK
<1>6. preview' \in [id : Nat, diagnosis : Nat, source : Plans \union {NoPlan},
                    rev : Nat, status : {"ready", "consumed"}, unparsed : BOOLEAN]
  BY <1>3 DEF NoPreview
<1>7. op' \in [Handlers -> OpRecords] /\ revision' \in Nat
  BY <1>1, <1>3, DoneOp DEF TypeOK
<1>8. TypeOK'
  BY <1>1, <1>3, <1>4, <1>5, <1>6, <1>7, TypeFrame DEF TypeOK, history
<1>9. QED
  BY <1>3, <1>8, EndsQuietly DEF history

\* One round of invalidate_plans.
LEMMA InvalidateOwned == ASSUME Owned, NEW h \in Handlers, InvalidatePlan(h) PROVE Owned'
<1>1. TypeOK /\ op[h] \in OpRecords /\ HandlerOK(h) /\ op[h].pc = "invalidate"
  BY DEF Owned, TypeOK, OpRecords, InvalidatePlan
<1>2. PICK p \in op[h].todo :
        \/ /\ Saves(p, 2, "invalidated")
           /\ op' = [op EXCEPT
                       ![h] = IF op[h].todo # {p}
                                THEN [op[h] EXCEPT !.todo = @ \ {p}]
                                ELSE IF op[h].next = "idle" THEN Idle
                                ELSE [op[h] EXCEPT !.todo = {}, !.pc = op[h].next]]
        \/ FailsToSave(p, 2, "invalidated") /\ Done(h)
  BY DEF InvalidatePlan
<1>3. UNCHANGED <<context, entities, begun>> /\ UNCHANGED <<plan, plans>>
  BY DEF InvalidatePlan, entities
<1>4. p \in Plans /\ Holds(h, p) /\ op[h].next \in Waiting \union {"idle"}
  BY <1>1, <1>2 DEF OpRecords, Holds, HandlerOK
<1>5. /\ p \notin plans /\ begun[p] = 0 /\ p \notin ended /\ PlanOK(p) /\ plan[p] # NotCreated
      /\ \A g \in Handlers \ {h} : ~Holds(g, p)
  BY <1>1, <1>2, <1>4 DEF Owned, OneHand, HandlerOK, PlanOK
<1>6. /\ disk' \in [Plans -> [rev : Nat, status : Statuses]]
      /\ \A q \in Plans \ {p} : disk'[q] = disk[q]
      /\ disk'[p] \in {disk[p], [rev |-> 2, status |-> "invalidated"]}
  BY <1>1, <1>2, <1>4, SaveDisk DEF Statuses, Ends, Outcomes
<1>7. (ended' = ended \/ ended' = ended \union {p}) /\ op[h].plan \notin Plans /\ ended \subseteq Plans
  BY <1>1, <1>2, SaveEnded, <1>4 DEF HandlerOK, Unstarted, Started, TypeOK
<1>8. PlanOK(p)'
  BY <1>3, <1>5, <1>6 DEF PlanOK
<1>9. /\ op' \in [Handlers -> OpRecords] /\ \A g \in Handlers \ {h} : op'[g] = op[g]
      /\ op'[h].plan \notin Plans /\ op'[h].todo \subseteq op[h].todo \ {p}
      /\ op'[h].todo # {} => op'[h].pc = "invalidate"
      /\ op'[h].pc \in Waiting \union {"idle", "invalidate"}
      /\ op'[h].pc = "invalidate" => op'[h].next \in Waiting \union {"idle"}
  <2>1. CASE op' = [op EXCEPT ![h] = [op[h] EXCEPT !.todo = @ \ {p}]]
    <3>1. [op[h] EXCEPT !.todo = @ \ {p}] \in OpRecords
      BY <1>1 DEF OpRecords
    <3>2. /\ op' \in [Handlers -> OpRecords] /\ op'[h] = [op[h] EXCEPT !.todo = @ \ {p}]
          /\ \A g \in Handlers \ {h} : op'[g] = op[g]
      BY <1>1, <2>1, <3>1, OpBecomes
    <3>3. /\ op'[h].plan = op[h].plan /\ op'[h].todo = op[h].todo \ {p} /\ op'[h].pc = op[h].pc
          /\ op'[h].next = op[h].next
      BY <1>1, <3>2 DEF OpRecords
    <3>4. QED
      BY <1>1, <1>4, <1>7, <3>2, <3>3
  <2>2. CASE op' = [op EXCEPT ![h] = Idle]
    <3>1. op' \in [Handlers -> OpRecords] /\ op'[h] = Idle /\ \A g \in Handlers \ {h} : op'[g] = op[g]
      BY <1>1, <2>2, IdleType, OpBecomes
    <3>2. op'[h].plan = NoPlan /\ op'[h].todo = {} /\ op'[h].pc = "idle"
      BY <3>1 DEF Idle
    <3>3. QED
      BY <3>1, <3>2, ConstantsAssumption
  <2>3. CASE op' = [op EXCEPT ![h] = [op[h] EXCEPT !.todo = {}, !.pc = op[h].next]]
    <3>1. [op[h] EXCEPT !.todo = {}, !.pc = op[h].next] \in OpRecords
      BY <1>1 DEF OpRecords
    <3>2. /\ op' \in [Handlers -> OpRecords] /\ op'[h] = [op[h] EXCEPT !.todo = {}, !.pc = op[h].next]
          /\ \A g \in Handlers \ {h} : op'[g] = op[g]
      BY <1>1, <2>3, <3>1, OpBecomes
    <3>3. op'[h].plan = op[h].plan /\ op'[h].todo = {} /\ op'[h].pc = op[h].next
      BY <1>1, <3>2 DEF OpRecords
    <3>4. QED
      BY <1>4, <1>7, <3>2, <3>3 DEF Waiting
  <2>4. QED
    BY <1>2, <2>1, <2>2, <2>3 DEF Done
<1>10. TypeOK'
  BY <1>1, <1>3, <1>4, <1>6, <1>7, <1>9, TypeFrame DEF TypeOK, context, entities
<1>11. HandlerOK(h)'
  <2>1. \A q \in op'[h].todo : begun'[q] = 0 /\ q \notin ended'
    BY <1>1, <1>3, <1>7, <1>9 DEF HandlerOK
  <2>2. op'[h].plan \notin ended'
    BY <1>9, <1>10 DEF TypeOK
  <2>3. QED
    BY <1>9, <2>1, <2>2 DEF HandlerOK, Unstarted, Started, Waiting
<1>12. \A q \in Plans \ {p} :
         /\ disk'[q] = disk[q] /\ begun'[q] = begun[q] /\ plan'[q] = plan[q]
         /\ (q \in ended' <=> q \in ended) /\ (q \in plans' <=> q \in plans)
         /\ Holds(h, q)' => Holds(h, q)
  BY <1>3, <1>6, <1>7, <1>9 DEF Holds
<1>13. p \notin plans'
  BY <1>3, <1>5
<1>14. QED
  BY <1>4, <1>5, <1>8, <1>9, <1>10, <1>11, <1>12, <1>13, OnePlan

\* The application ends: what the commands had in hand is in no hand.
LEMMA RestartOwned == ASSUME Owned, Restart PROVE Owned'
<1>1. TypeOK
  BY DEF Owned
<1>2. /\ op' = [h \in Handlers |-> Idle] /\ plans' = {}
      /\ UNCHANGED <<previewCount, plan, disk, begun, ended>>
  BY DEF Restart, history
<1>3. op' \in [Handlers -> OpRecords] /\ \A h \in Handlers : op'[h] = Idle
  BY <1>2, IdleType
<1>4. preview' \in [id : Nat, diagnosis : Nat, source : Plans \union {NoPlan},
                    rev : Nat, status : {"ready", "consumed"}, unparsed : BOOLEAN]
  BY DEF Restart, NoPreview
<1>5. /\ selection' \in [id : Nat, discovery : Nat] /\ enumeration' \in [id : Nat, selection : Nat]
      /\ revision' \in Nat /\ discovery' \in Nat /\ latest' \in Nat /\ diagnoses' = {} /\ executions' = {}
  BY DEF Restart, NoSelection, NoEnumeration
<1>6. TypeOK'
  BY <1>1, <1>2, <1>3, <1>4, <1>5, TypeFrame DEF TypeOK
<1>7. \A h \in Handlers : HandlerOK(h)' /\ \A p \in Plans : ~Holds(h, p)'
  BY <1>3, <1>6, IdleOK
<1>8. \A p \in Plans : PlanOK(p)'
  BY <1>2, <1>7 DEF Owned, PlanOK
<1>9. OneHand'
  BY <1>2, <1>7 DEF OneHand
<1>10. QED
  BY <1>6, <1>7, <1>8, <1>9 DEF Owned

-----------------------------------------------------------------------------
(* Owned is an invariant.                                                  *)

LEMMA InitOwned == Init => Owned /\ Named
<1> SUFFICES ASSUME Init PROVE Owned /\ Named
  OBVIOUS
<1>1. op \in [Handlers -> OpRecords] /\ \A h \in Handlers : op[h] = Idle
  BY IdleType DEF Init
<1>2. TypeOK
  BY <1>1 DEF Init, TypeOK, OpRecords, NoSelection, NoEnumeration, NoPreview, NotCreated, NoRecord,
              Statuses, Ends, Outcomes
<1>3. \A h \in Handlers : HandlerOK(h) /\ \A p \in Plans : ~Holds(h, p)
  BY <1>1, ConstantsAssumption DEF Init, HandlerOK, Holds, Idle, Unstarted, Started
<1>4. \A p \in Plans : PlanOK(p)
  BY <1>3 DEF Init, PlanOK, NoRecord
<1>5. OneHand
  BY <1>3 DEF Init, OneHand
<1>6. QED
  BY <1>2, <1>3, <1>4, <1>5 DEF Owned, Named, Init

\* A new preview takes the next number, and one that is changed keeps its own.
LEMMA NamedStep == ASSUME Owned, Named, [Next]_vars PROVE Named'
<1>1. TypeOK
  BY DEF Owned
<1>2. CASE UNCHANGED vars
  BY <1>2 DEF vars, Named
<1>3. CASE Restart
  BY <1>3 DEF Restart, Named
<1>4. ASSUME NEW h \in Handlers, Call(h) \/ Proceed(h) PROVE Named'
  <2>1. CASE StartDiscovery(h) \/ SelectAdb(h) \/ StartListing(h) \/ StartDiagnosis(h)
    BY <2>1 DEF StartDiscovery, SelectAdb, StartListing, StartDiagnosis, Supersede, Named
  <2>2. CASE \/ StartValidation(h) \/ LoadSource(h) \/ InvalidatePlan(h) \/ PublishStartup(h)
             \/ PublishDiscovery(h) \/ PublishEnumeration(h) \/ PublishDiagnosis(h)
    BY <2>2 DEF StartValidation, LoadSource, InvalidatePlan, PublishStartup, PublishDiscovery,
                PublishEnumeration, PublishDiagnosis, entities, Named
  <2>3. CASE TakeToCancel(h) \/ TakeWrongKind(h) \/ TakeToExecute(h)
    BY <2>3 DEF TakeToCancel, TakeWrongKind, TakeToExecute, TakePlan, Named
  <2>4. CASE \/ SavePlanned(h) \/ SaveDropped(h) \/ SaveCancelled(h) \/ SaveUnused(h)
             \/ SaveExecuting(h) \/ SaveOutcome(h) \/ RestoreSource(h)
    BY <2>4 DEF SavePlanned, SaveDropped, SaveCancelled, SaveUnused, SaveExecuting, SaveOutcome,
                RestoreSource, entities, Named
  <2>5. CASE EndOfWriting(h) \/ RecordExecution(h) \/ Reinsert(h) \/ FinishExecution(h)
    BY <2>5 DEF EndOfWriting, RecordExecution, Reinsert, FinishExecution, entities, Named
  <2>6. CASE CopyPreview(h)
    <3>1. preview' = preview /\ preview.id > 0
      BY <2>6 DEF CopyPreview, Named
    <3>2. PICK p \in Fresh : plan' = [plan EXCEPT ![p] = [diagnosis |-> preview.diagnosis,
                                         preview |-> preview.id, source |-> preview.source]]
      BY <2>6 DEF CopyPreview
    <3>3. \A q \in Plans : plan'[q] = plan[q] \/ plan'[q].preview > 0
      BY <1>1, <3>1, <3>2 DEF TypeOK
    <3>4. QED
      BY <3>1, <3>3 DEF Named
  <2>7. CASE PreparePin(h) \/ PrepareRestore(h)
    <3>1. plan' = plan /\ (preview' = preview \/ preview'.id = previewCount + 1)
      BY <2>7 DEF PreparePin, PrepareRestore, StorePreview, entities
    <3>2. previewCount \in Nat
      BY <1>1 DEF TypeOK
    <3>3. QED
      BY <3>1, <3>2 DEF Named
  <2>8. CASE AuthorizePreview(h)
    <3>1. plan' = plan /\ preview'.id = preview.id /\ preview.id > 0
      BY <1>1, <2>8 DEF AuthorizePreview, Named, TypeOK
    <3>2. QED
      BY <3>1 DEF Named
  <2>9. CASE CommitPlan(h)
    <3>1. plan' = plan /\ (preview' = preview \/ (preview'.id = preview.id /\ PreviewUnchanged(h)))
      BY <1>1, <2>9 DEF CommitPlan, TypeOK
    <3>2. op[h].plan \in Plans /\ plan[op[h].plan] # NotCreated
      BY <2>9, InHand DEF CommitPlan, Unstarted
    <3>3. QED
      BY <3>1, <3>2 DEF Named, PreviewUnchanged
  <2>10. QED
    BY <1>4, <2>1, <2>2, <2>3, <2>4, <2>5, <2>6, <2>7, <2>8, <2>9 DEF Call, Proceed
<1>5. QED
  BY <1>2, <1>3, <1>4 DEF Next

LEMMA OwnedStep == ASSUME Owned, Named, [Next]_vars PROVE Owned'
<1>1. CASE UNCHANGED vars
  BY <1>1 DEF vars, Owned, TypeOK, HandlerOK, PlanOK, OneHand, Holds
<1>2. CASE Restart
  BY <1>2, RestartOwned
<1>3. ASSUME NEW h \in Handlers, Call(h) PROVE Owned'
  BY <1>3, ValidationOwned, ContextOwned, PreviewOwned, CopyOwned, TakesOwned DEF Call
<1>4. ASSUME NEW h \in Handlers, Proceed(h) PROVE Owned'
  BY <1>4, InvalidateOwned, PublishOwned, PreviewOwned, SavesBeforeOwned, CommitOwned,
     SaveExecutingOwned, EndOfWritingOwned, SaveOutcomeOwned, RestoreSourceOwned, FinishOwned
     DEF Proceed
<1>5. QED
  BY <1>1, <1>2, <1>3, <1>4 DEF Next

\* Whatever the session does, every handler, plan and record has the state of
\* its kind, and a plan is in one hand.
THEOREM Invariance == Spec => [](Owned /\ Named)
<1>1. Init => Owned /\ Named
  BY InitOwned
<1>2. (Owned /\ Named) /\ [Next]_vars => (Owned /\ Named)'
  BY OwnedStep, NamedStep
<1>3. QED
  BY <1>1, <1>2, PTL DEF Spec

\* The session, the commands under way, the plans and their records have their
\* types, however commands interleave, saves fail and the application restarts.
THEOREM TypeCorrect == Spec => []TypeOK
<1>1. Owned /\ Named => TypeOK
  BY DEF Owned
<1>2. QED
  BY <1>1, Invariance, PTL

\* No write to the device begins before the record that says so is on disk, and
\* none ends after it: what can be lost by a crash is accounted for.
THEOREM RecordBeforeWrite == Spec => []RecordedWhileWriting
<1>1. Owned /\ Named => RecordedWhileWriting
  BY DEF Owned, HandlerOK, RecordedWhileWriting
<1>2. QED
  BY <1>1, Invariance, PTL

-----------------------------------------------------------------------------
(* The end of a plan is final.                                             *)

\* The steps that write a record.
LEMMA WhoWrites ==
  ASSUME NEW h \in Handlers, Call(h) \/ Proceed(h)
  PROVE  \/ disk' = disk
         \/ InvalidatePlan(h) \/ RestoreSource(h)
         \/ SavePlanned(h) \/ SaveDropped(h) \/ SaveCancelled(h) \/ SaveUnused(h)
         \/ SaveExecuting(h) \/ SaveOutcome(h)
<1>1. CASE Call(h)
  BY <1>1 DEF Call, StartValidation, StartDiscovery, SelectAdb, StartListing, StartDiagnosis, Supersede,
              PreparePin, StorePreview, LoadSource, AuthorizePreview, CopyPreview, TakeToCancel,
              TakeWrongKind, TakeToExecute, TakePlan
<1>2. CASE \/ PublishStartup(h) \/ PublishDiscovery(h) \/ PublishEnumeration(h) \/ PublishDiagnosis(h)
           \/ PrepareRestore(h) \/ CommitPlan(h) \/ RecordExecution(h) \/ Reinsert(h)
           \/ EndOfWriting(h) \/ FinishExecution(h)
  BY <1>2 DEF PublishStartup, PublishDiscovery, PublishEnumeration, PublishDiagnosis, PrepareRestore,
              StorePreview, CommitPlan, RecordExecution, Reinsert, EndOfWriting, FinishExecution
<1>3. QED
  BY <1>1, <1>2 DEF Proceed

LEMMA EndedStep ==
  ASSUME Owned, [Next]_vars, NEW p \in ended
  PROVE  \/ disk'[p] = disk[p]
         \/ disk[p].status = "applied" /\ disk'[p].status = "restored"
<1>1. TypeOK /\ p \in Plans
  BY DEF Owned, TypeOK
<1>2. CASE disk' = disk
  BY <1>2
<1>3. ASSUME NEW h \in Handlers, InvalidatePlan(h) PROVE disk'[p] = disk[p]
  <2>1. PICK q \in op[h].todo : Saves(q, 2, "invalidated") \/ FailsToSave(q, 2, "invalidated")
    BY <1>3 DEF InvalidatePlan
  <2>2. q \in Plans /\ q # p
    BY <1>1, <2>1 DEF Owned, HandlerOK, TypeOK
  <2>3. QED
    BY <1>1, <2>1, <2>2, SaveDisk DEF Statuses, Ends, Outcomes
<1>4. ASSUME NEW h \in Handlers,
             \/ SavePlanned(h) \/ SaveDropped(h) \/ SaveCancelled(h) \/ SaveUnused(h)
             \/ SaveExecuting(h) \/ SaveOutcome(h)
      PROVE  disk'[p] = disk[p]
  <2>1. PICK rev \in {1, 2, 3}, status \in {"planned", "invalidated", "cancelled", "executing", op[h].status} :
          Saves(op[h].plan, rev, status) \/ FailsToSave(op[h].plan, rev, status)
    BY <1>4 DEF SavePlanned, SaveDropped, SaveCancelled, SaveUnused, SaveExecuting, SaveOutcome
  <2>2. op[h].plan \in Plans /\ op[h].plan # p
    BY <1>4, InHand DEF SavePlanned, SaveDropped, SaveCancelled, SaveUnused, SaveExecuting,
                        SaveOutcome, Unstarted, Started
  <2>3. rev \in Nat /\ status \in Statuses
    BY <1>1, <2>1 DEF TypeOK, Statuses, Ends, Outcomes
  <2>4. QED
    BY <1>1, <2>1, <2>2, <2>3, SaveDisk
<1>5. ASSUME NEW h \in Handlers, RestoreSource(h)
      PROVE  \/ disk'[p] = disk[p]
             \/ disk[p].status = "applied" /\ disk'[p].status = "restored"
  <2>1. PICK s \in Plans : s = plan[op[h].plan].source
    BY <1>5 DEF RestoreSource, Owned, HandlerOK
  <2>2. \/ disk' = disk
        \/ /\ disk[s].status = "applied"
           /\ \/ Saves(s, disk[s].rev + 1, "restored")
              \/ FailsToSave(s, disk[s].rev + 1, "restored")
    BY <1>5, <2>1 DEF RestoreSource
  <2>3. disk[s].rev + 1 \in Nat /\ "restored" \in Statuses
    BY <1>1 DEF TypeOK, Statuses, Ends, Outcomes
  <2>4. CASE disk' = disk
    BY <2>4
  <2>5. CASE /\ disk[s].status = "applied"
             /\ \/ Saves(s, disk[s].rev + 1, "restored")
                \/ FailsToSave(s, disk[s].rev + 1, "restored")
    <3>1. /\ \A q \in Plans \ {s} : disk'[q] = disk[q]
          /\ disk'[s] \in {disk[s], [rev |-> disk[s].rev + 1, status |-> "restored"]}
      BY <1>1, <2>3, <2>5, SaveDisk
    <3>2. CASE p = s
      BY <2>5, <3>1, <3>2
    <3>3. CASE p # s
      BY <1>1, <3>1, <3>3
    <3>4. QED
      BY <3>2, <3>3
  <2>6. QED
    BY <2>2, <2>4, <2>5
<1>6. CASE Restart \/ UNCHANGED vars
  BY <1>2, <1>6 DEF Restart, vars
<1>7. QED
  BY <1>2, <1>3, <1>4, <1>5, <1>6, WhoWrites DEF Next

\* The record of a plan whose end was saved is never written again, by no
\* command that comes late and after no restart, but for one that was applied
\* and is restored.
THEOREM EndsStay == Spec => EndIsFinal
<1>1. Owned /\ Named /\ [Next]_vars =>
        [\A p \in ended :
           \/ disk'[p] = disk[p]
           \/ disk[p].status = "applied" /\ disk'[p].status = "restored"]_vars
  BY EndedStep
<1>2. QED
  BY <1>1, Invariance, PTL DEF Spec, EndIsFinal

-----------------------------------------------------------------------------
(* What a revision stands for.                                             *)

\* A command that advanced the session and has yet to publish its answer.
Pending(h) == op[h].pc \in Waiting \union {"invalidate"}

\* The command that advanced last is the only one of the current revision, and
\* until it has answered there is no diagnosis; a diagnosis is of the current
\* enumeration, and a preview is of that diagnosis.
Dated ==
  /\ \A h \in Handlers : Pending(h) =>
       op[h].rev <= revision /\ (op[h].rev = revision => latest = 0)
  /\ \A h, g \in Handlers : Pending(h) /\ Pending(g) /\ op[h].rev = op[g].rev => h = g
  /\ preview # NoPreview => latest # 0
  /\ PreviewFitsDiagnosis
  /\ DiagnosisFitsContext

\* A step is one handler's.
LEMMA OneHandler ==
  ASSUME TypeOK, NEW h \in Handlers, Call(h) \/ Proceed(h)
  PROVE  \A g \in Handlers \ {h} : op'[g] = op[g]
<1>1. CASE Call(h)
  BY <1>1 DEF Call, StartValidation, StartDiscovery, SelectAdb, StartListing, StartDiagnosis, Supersede,
              PreparePin, LoadSource, AuthorizePreview, CopyPreview, TakeToCancel, TakeWrongKind,
              TakeToExecute, TakePlan, Goto, TypeOK
<1>2. CASE \/ InvalidatePlan(h) \/ PublishStartup(h) \/ PublishDiscovery(h) \/ PublishEnumeration(h)
           \/ PublishDiagnosis(h) \/ PrepareRestore(h) \/ CommitPlan(h) \/ RecordExecution(h)
           \/ Reinsert(h) \/ FinishExecution(h)
  BY <1>2 DEF InvalidatePlan, PublishStartup, PublishDiscovery, PublishEnumeration, PublishDiagnosis,
              PrepareRestore, CommitPlan, RecordExecution, Reinsert, FinishExecution, Goto, Done, TypeOK
<1>3. CASE SavePlanned(h) \/ SaveDropped(h) \/ SaveCancelled(h) \/ SaveUnused(h) \/ SaveExecuting(h)
  BY <1>3 DEF SavePlanned, SaveDropped, SaveCancelled, SaveUnused, SaveExecuting, Goto, Done, TypeOK
<1>4. CASE EndOfWriting(h) \/ SaveOutcome(h) \/ RestoreSource(h)
  BY <1>4 DEF EndOfWriting, SaveOutcome, RestoreSource, Goto, TypeOK
<1>5. QED
  BY <1>1, <1>2, <1>3, <1>4 DEF Proceed

\* Where an execution goes.
LEMMA ExecutionGoes ==
  ASSUME TypeOK, NEW h \in Handlers, EndOfWriting(h) \/ SaveOutcome(h) \/ RestoreSource(h)
  PROVE  op'[h].pc \in {"saveOutcome", "restoreSource", "finish"}
<1>1. op[h] \in OpRecords
  BY DEF TypeOK, OpRecords
<1>2. CASE EndOfWriting(h)
  <2>1. PICK v \in Verdicts(op[h].plan) :
          op' = [op EXCEPT ![h] = [op[h] EXCEPT !.pc = "saveOutcome", !.status = v]]
    BY <1>2 DEF EndOfWriting
  <2>2. op'[h] = [op[h] EXCEPT !.pc = "saveOutcome", !.status = v]
    BY <2>1 DEF TypeOK
  <2>3. QED
    BY <1>1, <2>2 DEF OpRecords
<1>3. CASE SaveOutcome(h)
  <2>1. PICK pc \in {"restoreSource", "finish"}, w \in BOOLEAN :
          op' = [op EXCEPT ![h] = [op[h] EXCEPT !.pc = pc, !.warned = w]]
    BY <1>3 DEF SaveOutcome
  <2>2. op'[h] = [op[h] EXCEPT !.pc = pc, !.warned = w]
    BY <2>1 DEF TypeOK
  <2>3. QED
    BY <1>1, <2>2 DEF OpRecords
<1>4. CASE RestoreSource(h)
  <2>1. CASE op' = [op EXCEPT ![h] = [op[h] EXCEPT !.pc = "finish"]]
    <3>1. op'[h] = [op[h] EXCEPT !.pc = "finish"]
      BY <2>1 DEF TypeOK
    <3>2. QED
      BY <1>1, <3>1 DEF OpRecords
  <2>2. CASE op' = [op EXCEPT ![h] = [op[h] EXCEPT !.pc = "finish", !.warned = TRUE]]
    <3>1. op'[h] = [op[h] EXCEPT !.pc = "finish", !.warned = TRUE]
      BY <2>2 DEF TypeOK
    <3>2. QED
      BY <1>1, <3>1 DEF OpRecords
  <2>3. QED
    BY <1>4, <2>1, <2>2 DEF RestoreSource, Goto
<1>5. QED
  BY <1>2, <1>3, <1>4

\* Of the handler that moves, only a command that changes the context is pending.
LEMMA NotPending ==
  ASSUME TypeOK, NEW h \in Handlers,
         \/ StartValidation(h) \/ LoadSource(h) \/ PrepareRestore(h) \/ CopyPreview(h)
         \/ TakeToCancel(h) \/ TakeToExecute(h) \/ SavePlanned(h) \/ CommitPlan(h) \/ SaveDropped(h)
         \/ SaveCancelled(h) \/ SaveUnused(h) \/ RecordExecution(h) \/ Reinsert(h)
         \/ SaveExecuting(h) \/ EndOfWriting(h) \/ SaveOutcome(h) \/ RestoreSource(h)
         \/ FinishExecution(h) \/ PublishStartup(h) \/ PublishDiscovery(h)
         \/ PublishEnumeration(h) \/ PublishDiagnosis(h)
  PROVE  ~Pending(h)'
<1>1. op[h] \in OpRecords
  BY DEF TypeOK, OpRecords
<1>2. PICK pc \in PCs \ (Waiting \union {"invalidate"}) : op'[h].pc = pc
  <2>1. ASSUME NEW pc \in PCs \ (Waiting \union {"invalidate"}), Goto(h, pc) PROVE op'[h].pc = pc
    <3>1. op'[h] = [op[h] EXCEPT !.pc = pc]
      BY <2>1, GotoOp
    <3>2. QED
      BY <1>1, <3>1 DEF OpRecords
  <2>2. CASE Done(h)
    BY <2>2, DoneOp DEF Idle, PCs, Waiting
  <2>3. CASE StartValidation(h) \/ SavePlanned(h) \/ CommitPlan(h) \/ SaveDropped(h) \/ SaveCancelled(h)
             \/ SaveUnused(h) \/ SaveExecuting(h)
    BY <2>1, <2>2, <2>3 DEF StartValidation, SavePlanned, CommitPlan, SaveDropped, SaveCancelled,
                            SaveUnused, SaveExecuting, PCs, Waiting
  <2>4. CASE RecordExecution(h) \/ Reinsert(h) \/ FinishExecution(h) \/ PublishStartup(h)
             \/ PublishDiscovery(h) \/ PublishEnumeration(h) \/ PublishDiagnosis(h) \/ PrepareRestore(h)
    BY <2>2, <2>4 DEF RecordExecution, Reinsert, FinishExecution, PublishStartup, PublishDiscovery,
                      PublishEnumeration, PublishDiagnosis, PrepareRestore
  <2>5. CASE LoadSource(h) \/ CopyPreview(h) \/ TakeToCancel(h) \/ TakeToExecute(h)
    <3>1. CASE LoadSource(h)
      <4>1. PICK p \in Plans : op' = [op EXCEPT ![h] = [Idle EXCEPT !.pc = "loaded", !.source = p, !.parent = latest]]
        BY <3>1 DEF LoadSource
      <4>2. op'[h] = [Idle EXCEPT !.pc = "loaded", !.source = p, !.parent = latest]
        BY <4>1 DEF TypeOK
      <4>3. QED
        BY <4>2 DEF Idle, PCs, Waiting
    <3>2. CASE CopyPreview(h)
      <4>1. PICK p \in Fresh :
              op' = [op EXCEPT ![h] = [Idle EXCEPT !.pc = "savePlanned", !.plan = p,
                                         !.rev = revision, !.seen = preview.rev]]
        BY <3>2 DEF CopyPreview
      <4>2. op'[h] = [Idle EXCEPT !.pc = "savePlanned", !.plan = p, !.rev = revision, !.seen = preview.rev]
        BY <4>1 DEF TypeOK
      <4>3. QED
        BY <4>2 DEF Idle, PCs, Waiting
    <3>3. CASE TakeToCancel(h) \/ TakeToExecute(h)
      <4>1. PICK p \in plans, pc \in {"saveCancelled", "saveUnused", "saveExecuting"}, status \in Statuses :
              op' = [op EXCEPT ![h] = [Idle EXCEPT !.pc = pc, !.plan = p, !.status = status]]
        BY <3>3 DEF TakeToCancel, TakeToExecute, TakePlan, Statuses, Ends, Outcomes
      <4>2. op'[h] = [Idle EXCEPT !.pc = pc, !.plan = p, !.status = status]
        BY <4>1 DEF TypeOK
      <4>3. QED
        BY <4>2 DEF Idle, PCs, Waiting
    <3>4. QED
      BY <2>5, <3>1, <3>2, <3>3
  <2>6. CASE EndOfWriting(h) \/ SaveOutcome(h) \/ RestoreSource(h)
    BY <2>6, ExecutionGoes DEF PCs, Waiting
  <2>7. QED
    BY <2>3, <2>4, <2>5, <2>6
<1>3. QED
  BY <1>2 DEF Pending

LEMMA InitDated == Init => Dated
BY DEF Init, Dated, Pending, Idle, Waiting, PreviewFitsDiagnosis, DiagnosisFitsContext

\* A step after which no command is pending that was not.
LEMMA DatedKept ==
  ASSUME TypeOK, Dated, NEW h \in Handlers, \A g \in Handlers \ {h} : op'[g] = op[g],
         Pending(h)' => Pending(h) /\ op'[h].rev = op[h].rev,
         \/ revision' = revision /\ (latest' = latest \/ latest' = 0)
         \/ revision' = revision + 1,
         preview' # NoPreview => latest' # 0,
         PreviewFitsDiagnosis', DiagnosisFitsContext'
  PROVE  Dated'
<1>1. revision \in Nat /\ \A g \in Handlers : op[g].rev \in Nat
  BY DEF TypeOK
<1>2. \A g \in Handlers : Pending(g)' => Pending(g) /\ op'[g].rev = op[g].rev
  BY DEF Pending
<1>3. QED
  BY <1>1, <1>2 DEF Dated

LEMMA SupersedeDated ==
  ASSUME TypeOK, Dated, NEW h \in Handlers, NEW next, NEW parent, Supersede(h, next, parent)
  PROVE  Dated'
<1>1. op'[h].rev = revision + 1 /\ \A g \in Handlers \ {h} : op'[g] = op[g]
  BY DEF Supersede, Idle, TypeOK
<1>2. revision' = revision + 1 /\ latest' = 0 /\ preview' = NoPreview
  BY DEF Supersede
<1>3. revision \in Nat /\ \A g \in Handlers : op[g].rev \in Nat
  BY DEF TypeOK
<1>4. \A g \in Handlers \ {h} : Pending(g)' => Pending(g) /\ op'[g].rev = op[g].rev /\ op[g].rev <= revision
  BY <1>1 DEF Pending, Dated
<1>5. QED
  BY <1>1, <1>2, <1>3, <1>4 DEF Dated, PreviewFitsDiagnosis, DiagnosisFitsContext

LEMMA DatedStep == ASSUME Owned, Named, Dated, [Next]_vars PROVE Dated'
<1>1. TypeOK
  BY DEF Owned
<1>2. CASE UNCHANGED vars
  BY <1>2 DEF vars, Dated, Pending, PreviewFitsDiagnosis, DiagnosisFitsContext
<1>3. CASE Restart
  BY <1>3 DEF Restart, Dated, Pending, Idle, Waiting, PreviewFitsDiagnosis, DiagnosisFitsContext
<1>4. ASSUME NEW h \in Handlers, Call(h) \/ Proceed(h) PROVE Dated'
  <2>1. \A g \in Handlers \ {h} : op'[g] = op[g]
    BY <1>1, <1>4, OneHandler
  <2>2. CASE StartDiscovery(h) \/ SelectAdb(h) \/ StartListing(h) \/ StartDiagnosis(h)
    BY <1>1, <2>2, SupersedeDated DEF StartDiscovery, SelectAdb, StartListing, StartDiagnosis
  <2>3. CASE InvalidatePlan(h)
    <3>1. Pending(h)' => Pending(h) /\ op'[h].rev = op[h].rev
      <4>1. Pending(h) /\ op[h] \in OpRecords
        BY <1>1, <2>3 DEF InvalidatePlan, Pending, TypeOK, OpRecords
      <4>2. PICK todo :
              \/ op' = [op EXCEPT ![h] = [op[h] EXCEPT !.todo = todo]]
              \/ op' = [op EXCEPT ![h] = Idle]
              \/ op' = [op EXCEPT ![h] = [op[h] EXCEPT !.todo = todo, !.pc = op[h].next]]
        BY <2>3 DEF InvalidatePlan, Done
      <4>3. \/ op'[h] = [op[h] EXCEPT !.todo = todo]
            \/ op'[h] = Idle
            \/ op'[h] = [op[h] EXCEPT !.todo = todo, !.pc = op[h].next]
        BY <1>1, <4>2 DEF TypeOK
      <4>4. op'[h] = Idle \/ op'[h].rev = op[h].rev
        BY <4>1, <4>3 DEF OpRecords
      <4>5. QED
        BY <4>1, <4>4 DEF Pending, Idle, Waiting
    <3>2. UNCHANGED <<revision, latest, preview, diagnoses, enumeration>>
      BY <2>3 DEF InvalidatePlan, context, entities
    <3>3. QED
      BY <1>1, <2>1, <3>1, <3>2, DatedKept DEF Dated, PreviewFitsDiagnosis, DiagnosisFitsContext
  <2>4. CASE PublishStartup(h) \/ PublishDiscovery(h)
    <3>1. /\ UNCHANGED <<latest, preview, diagnoses, enumeration>>
          /\ revision' = revision \/ revision' = revision + 1
      BY <2>4 DEF PublishStartup, PublishDiscovery, entities
    <3>2. QED
      BY <1>1, <2>1, <2>4, <3>1, NotPending, DatedKept DEF Dated, PreviewFitsDiagnosis, DiagnosisFitsContext
  <2>5. CASE PublishEnumeration(h)
    <3>1. UNCHANGED <<revision, latest, preview, diagnoses>>
      BY <2>5 DEF PublishEnumeration, entities
    <3>2. enumeration' = enumeration \/ latest = 0
      BY <2>5 DEF PublishEnumeration, ListingCurrent, Dated, Pending, Waiting
    <3>3. QED
      BY <1>1, <2>1, <2>5, <3>1, <3>2, NotPending, DatedKept DEF Dated, PreviewFitsDiagnosis, DiagnosisFitsContext
  <2>6. CASE PublishDiagnosis(h)
    <3>1. UNCHANGED <<revision, enumeration, preview>>
      BY <2>6 DEF PublishDiagnosis, context
    <3>2. CASE UNCHANGED <<latest, diagnoses>>
      BY <1>1, <2>1, <2>6, <3>1, <3>2, NotPending, DatedKept DEF Dated, PreviewFitsDiagnosis, DiagnosisFitsContext
    <3>3. CASE /\ revision = op[h].rev /\ enumeration.id = op[h].parent /\ latest' = op[h].rev
               /\ diagnoses' = Retained(diagnoses \union {[id |-> op[h].rev, enumeration |-> op[h].parent]},
                                        op[h].rev, preview, plans, executions)
      <4>1. Pending(h) /\ latest = 0 /\ preview = NoPreview
        BY <2>6, <3>3 DEF PublishDiagnosis, Dated, Pending, Waiting
      <4>2. \A g \in Handlers : Pending(g)' => g # h /\ Pending(g) /\ op'[g] = op[g]
        BY <1>1, <2>1, <2>6, NotPending DEF Pending
      <4>3. \A g \in Handlers : Pending(g)' => op'[g].rev <= revision /\ op'[g].rev # revision
        BY <3>3, <4>1, <4>2 DEF Dated
      <4>4. DiagnosisFitsContext'
        <5>1. [id |-> op[h].rev, enumeration |-> op[h].parent] \in diagnoses'
          BY <3>3 DEF Retained
        <5>2. QED
          BY <3>1, <3>3, <5>1 DEF DiagnosisFitsContext
      <4>5. QED
        BY <3>1, <4>1, <4>2, <4>3, <4>4 DEF Dated, PreviewFitsDiagnosis
    <3>4. QED
      BY <2>6, <3>2, <3>3 DEF PublishDiagnosis
  <2>7. CASE PreparePin(h) \/ PrepareRestore(h)
    <3>1. Pending(h)' => Pending(h) /\ op'[h].rev = op[h].rev
      BY <1>1, <2>7, NotPending DEF PreparePin, Pending
    <3>2. /\ UNCHANGED <<revision, latest, diagnoses, enumeration>>
          /\ preview' = preview \/ (latest # 0 /\ preview'.diagnosis = latest)
      BY <2>7 DEF PreparePin, PrepareRestore, StorePreview, context, entities
    <3>3. QED
      BY <1>1, <2>1, <3>1, <3>2, DatedKept DEF Dated, PreviewFitsDiagnosis, DiagnosisFitsContext
  <2>8. CASE AuthorizePreview(h)
    <3>1. op' = op /\ UNCHANGED <<revision, latest, diagnoses, enumeration>> /\ preview # NoPreview
      BY <2>8 DEF AuthorizePreview, context
    <3>2. preview'.diagnosis = preview.diagnosis
      BY <1>1, <2>8 DEF AuthorizePreview, TypeOK
    <3>3. QED
      BY <1>1, <2>1, <3>1, <3>2, DatedKept DEF Dated, Pending, PreviewFitsDiagnosis, DiagnosisFitsContext
  <2>9. CASE CommitPlan(h)
    <3>1. UNCHANGED <<revision, latest, diagnoses, enumeration>>
      BY <2>9 DEF CommitPlan, context
    <3>2. preview' = preview \/ (preview'.diagnosis = preview.diagnosis /\ PreviewUnchanged(h))
      BY <1>1, <2>9 DEF CommitPlan, TypeOK
    <3>3. op[h].plan \in Plans /\ plan[op[h].plan] # NotCreated
      BY <2>9, InHand DEF CommitPlan, Unstarted
    <3>4. preview' = preview \/ (preview'.diagnosis = preview.diagnosis /\ preview # NoPreview)
      BY <3>2, <3>3 DEF PreviewUnchanged, Named, NoPreview
    <3>5. QED
      BY <1>1, <2>1, <2>9, <3>1, <3>4, NotPending, DatedKept DEF Dated, PreviewFitsDiagnosis, DiagnosisFitsContext
  <2>10. CASE FinishExecution(h)
    <3>1. revision' = revision + 1 /\ latest' = 0 /\ preview' = NoPreview
      BY <2>10 DEF FinishExecution
    <3>2. QED
      BY <1>1, <2>1, <2>10, <3>1, NotPending, DatedKept DEF PreviewFitsDiagnosis, DiagnosisFitsContext
  <2>11. CASE TakeWrongKind(h)
    <3>1. op' = op /\ UNCHANGED <<revision, latest, preview, diagnoses, enumeration>>
      BY <2>11 DEF TakeWrongKind, context
    <3>2. QED
      BY <3>1 DEF Dated, Pending, PreviewFitsDiagnosis, DiagnosisFitsContext
  <2>12. CASE \/ StartValidation(h) \/ LoadSource(h) \/ CopyPreview(h) \/ TakeToCancel(h)
              \/ TakeToExecute(h) \/ SavePlanned(h) \/ SaveDropped(h) \/ SaveCancelled(h)
              \/ SaveUnused(h) \/ RecordExecution(h) \/ Reinsert(h) \/ SaveExecuting(h)
              \/ EndOfWriting(h) \/ SaveOutcome(h) \/ RestoreSource(h)
    <3>1. UNCHANGED <<revision, latest, preview, diagnoses, enumeration>>
      BY <2>12 DEF StartValidation, LoadSource, CopyPreview, TakeToCancel, TakeToExecute, TakePlan,
                   SavePlanned, SaveDropped, SaveCancelled, SaveUnused, RecordExecution, Reinsert,
                   SaveExecuting, EndOfWriting, SaveOutcome, RestoreSource, context, entities
    <3>2. QED
      BY <1>1, <2>1, <2>12, <3>1, NotPending, DatedKept DEF Dated, PreviewFitsDiagnosis, DiagnosisFitsContext
  <2>13. QED
    BY <1>4, <2>2, <2>3, <2>4, <2>5, <2>6, <2>7, <2>8, <2>9, <2>10, <2>11, <2>12 DEF Call, Proceed
<1>5. QED
  BY <1>2, <1>3, <1>4 DEF Next

LEMMA DatedInvariance == Spec => []Dated
<1>1. Init => Dated
  BY InitDated
<1>2. Dated /\ (Owned /\ Named) /\ [Next]_vars => Dated'
  BY DatedStep
<1>3. QED
  BY <1>1, <1>2, Invariance, PTL DEF Spec

\* A late diagnosis, listing or start-up answer cannot replace a newer device
\* context: the latest diagnosis was made for the devices on offer.
THEOREM DiagnosisIsCurrent == Spec => []DiagnosisFitsContext
<1>1. Dated => DiagnosisFitsContext
  BY DEF Dated
<1>2. QED
  BY <1>1, DatedInvariance, PTL

\* A change is only ever confirmed for what the latest diagnosis found.
THEOREM PreviewIsCurrent == Spec => []PreviewFitsDiagnosis
<1>1. Dated => PreviewFitsDiagnosis
  BY DEF Dated
<1>2. QED
  BY <1>1, DatedInvariance, PTL

-----------------------------------------------------------------------------
(* What became of a preview.                                               *)

\* h copied the stored preview, or an older one, and has yet to commit.
Copied(h) == op[h].pc \in {"savePlanned", "commitPlan"}

\* p was committed, and is used or may yet be.
Live(p) ==
  \/ p \in plans
  \/ begun[p] > 0
  \/ \E h \in Handlers :
       op[h].plan = p /\ op[h].pc \in {"saveCancelled", "saveExecuting", "reinsert"}

\* What was copied is not newer than the preview, and is still ready when it is
\* as new; a preview that is ready has no live plan, and no other has two.
Used ==
  /\ preview.id <= previewCount
  /\ \A p \in Plans : plan[p].preview <= previewCount
  /\ \A h \in Handlers : Copied(h) /\ preview.id = plan[op[h].plan].preview =>
       op[h].seen <= preview.rev /\ (op[h].seen = preview.rev => preview.status = "ready")
  /\ preview # NoPreview /\ preview.status = "ready" =>
       \A p \in Plans : Live(p) => plan[p].preview # preview.id
  /\ \A p, q \in Plans : Live(p) /\ Live(q) /\ plan[p].preview = plan[q].preview => p = q

LEMMA InitUsed == Init => Used
<1> SUFFICES ASSUME Init PROVE Used
  OBVIOUS
<1>1. \A p \in Plans : ~Live(p)
  BY DEF Init, Live, Idle
<1>2. \A h \in Handlers : ~Copied(h)
  BY DEF Init, Copied, Idle
<1>3. QED
  BY <1>1, <1>2 DEF Init, Used, NoPreview, NotCreated

\* A live plan was created, with the number of a preview.
LEMMA LiveCreated ==
  ASSUME Owned, Named, NEW p \in Plans, Live(p) PROVE plan[p] # NotCreated /\ plan[p].preview > 0
BY DEF Owned, PlanOK, Live, Holds, Named

\* A step that leaves the previews alone, copies none and brings no plan to life.
LEMMA UsedKept ==
  ASSUME Used, UNCHANGED <<preview, previewCount, plan>>,
         \A g \in Handlers : Copied(g)' =>
           Copied(g) /\ op'[g].plan = op[g].plan /\ op'[g].seen = op[g].seen,
         \A p \in Plans : Live(p)' => Live(p)
  PROVE  Used'
BY DEF Used

\* A step that drops the preview.
LEMMA UsedWithout ==
  ASSUME Owned, Named, Used, Owned', Named', preview' = NoPreview, UNCHANGED <<previewCount, plan>>,
         \A p \in Plans : Live(p)' => Live(p)
  PROVE  Used'
<1>1. \A h \in Handlers : Copied(h)' => op'[h].plan \in Plans /\ plan'[op'[h].plan] # NotCreated
  BY DEF Owned, HandlerOK, PlanOK, Holds, Copied, Unstarted
<1>2. \A h \in Handlers : Copied(h)' => preview'.id # plan'[op'[h].plan].preview
  BY <1>1 DEF Named, NoPreview
<1>3. preview'.id <= previewCount'
  BY DEF NoPreview, Owned, TypeOK
<1>4. QED
  BY <1>2, <1>3 DEF Used

\* A handler that moves without a plan to give brings none to life.
LEMMA NoneComesAlive ==
  ASSUME NEW h \in Handlers, \A g \in Handlers \ {h} : op'[g] = op[g],
         plans' \subseteq plans, begun' = begun,
         op'[h].pc \notin {"saveCancelled", "saveExecuting", "reinsert"}
  PROVE  \A p \in Plans : Live(p)' => Live(p)
<1>1. ASSUME NEW p \in Plans, Live(p)' PROVE Live(p)
  <2>1. CASE p \in plans' \/ begun'[p] > 0
    BY <2>1 DEF Live
  <2>2. CASE \E g \in Handlers :
               op'[g].plan = p /\ op'[g].pc \in {"saveCancelled", "saveExecuting", "reinsert"}
    BY <2>2 DEF Live
  <2>3. QED
    BY <1>1, <2>1, <2>2 DEF Live
<1>2. QED
  BY <1>1

\* Where the steps lead that leave no plan in a hand that may still use it.
LEMMA WhereTo ==
  ASSUME TypeOK, NEW h \in Handlers
  PROVE  /\ \A pc \in PCs : Goto(h, pc) => /\ op'[h].pc = pc /\ op'[h].plan = op[h].plan
                                           /\ op'[h].seen = op[h].seen
         /\ Done(h) => op'[h].pc = "idle"
<1>1. op[h] \in OpRecords
  BY DEF TypeOK, OpRecords
<1>2. ASSUME NEW pc \in PCs, Goto(h, pc)
      PROVE  op'[h].pc = pc /\ op'[h].plan = op[h].plan /\ op'[h].seen = op[h].seen
  <2>1. op'[h] = [op[h] EXCEPT !.pc = pc]
    BY <1>2, GotoOp
  <2>2. QED
    BY <1>1, <2>1 DEF OpRecords
<1>3. ASSUME Done(h) PROVE op'[h].pc = "idle"
  BY <1>3, DoneOp DEF Idle
<1>4. QED
  BY <1>2, <1>3

\* A step of h after which it has no live plan and no copy in hand.
LEMMA UsedQuiet ==
  ASSUME Used, NEW h \in Handlers, \A g \in Handlers \ {h} : op'[g] = op[g],
         UNCHANGED <<preview, previewCount, plan, begun>>, plans' \subseteq plans,
         op'[h].pc \notin {"saveCancelled", "saveExecuting", "reinsert", "savePlanned", "commitPlan"}
  PROVE  Used'
<1>1. \A p \in Plans : Live(p)' => Live(p)
  BY NoneComesAlive
<1>2. \A g \in Handlers : Copied(g)' =>
        Copied(g) /\ op'[g].plan = op[g].plan /\ op'[g].seen = op[g].seen
  BY DEF Copied
<1>3. QED
  BY <1>1, <1>2, UsedKept

LEMMA SupersedeUsed ==
  ASSUME Owned, Named, Used, Owned', Named', NEW h \in Handlers,
         NEW next \in Waiting \union {"idle"}, NEW parent, Supersede(h, next, parent)
  PROVE  Used'
<1>1. preview' = NoPreview /\ plans' = {} /\ UNCHANGED <<previewCount, plan, begun>>
  BY DEF Supersede, history
<1>2. /\ op'[h] = [Idle EXCEPT !.pc = IF plans = {} THEN next ELSE "invalidate", !.next = next,
                               !.rev = revision + 1, !.parent = parent, !.todo = plans]
      /\ \A g \in Handlers \ {h} : op'[g] = op[g]
  BY DEF Supersede, Owned, TypeOK
<1>3. op'[h].pc \in Waiting \union {"idle", "invalidate"}
  BY <1>2 DEF Idle
<1>4. \A p \in Plans : Live(p)' => Live(p)
  BY <1>1, <1>2, <1>3, NoneComesAlive DEF Waiting
<1>5. QED
  BY <1>1, <1>4, UsedWithout

\* A new preview has a number that no plan has.
LEMMA StoreUsed ==
  ASSUME Owned, Named, Used, Owned', NEW h \in Handlers, \A g \in Handlers \ {h} : op'[g] = op[g],
         NEW source, NEW unparsed, StorePreview(source, unparsed), op'[h] = op[h] \/ op'[h] = Idle
  PROVE  Used'
<1>1. /\ preview'.id = previewCount + 1 /\ previewCount' = previewCount + 1 /\ previewCount \in Nat
      /\ UNCHANGED <<plan, plans, begun>>
  BY DEF StorePreview, history, Owned, TypeOK
<1>2. \A g \in Handlers : op'[g] = op[g] \/ op'[g] = Idle
  OBVIOUS
<1>3. \A p \in Plans : Live(p)' => Live(p)
  BY <1>1, <1>2 DEF Live, Idle
<1>4. \A p \in Plans : plan'[p].preview <= previewCount /\ plan'[p].preview \in Nat
  BY <1>1 DEF Used, Owned, TypeOK
<1>5. \A g \in Handlers : Copied(g)' => op'[g].plan \in Plans
  BY DEF Owned, HandlerOK, Copied, Unstarted
<1>6. QED
  BY <1>1, <1>3, <1>4, <1>5 DEF Used

LEMMA CopyUsed ==
  ASSUME Owned, Named, Used, Owned', Named', NEW h \in Handlers, CopyPreview(h) PROVE Used'
<1>1. TypeOK /\ op[h] \in OpRecords
  BY DEF Owned, TypeOK, OpRecords
<1>2. PICK p \in Fresh :
        /\ plan' = [plan EXCEPT ![p] = [diagnosis |-> preview.diagnosis,
                                        preview |-> preview.id, source |-> preview.source]]
        /\ op' = [op EXCEPT ![h] = [Idle EXCEPT !.pc = "savePlanned", !.plan = p,
                                      !.rev = revision, !.seen = preview.rev]]
  BY DEF CopyPreview
<1>3. p \in Plans /\ plan[p] = NotCreated /\ ~Live(p)
  BY <1>2, LiveCreated DEF Fresh
<1>4. /\ op'[h] = [Idle EXCEPT !.pc = "savePlanned", !.plan = p, !.rev = revision, !.seen = preview.rev]
      /\ \A g \in Handlers \ {h} : op'[g] = op[g]
  BY <1>1, <1>2 DEF TypeOK
<1>5. op'[h].pc = "savePlanned" /\ op'[h].plan = p /\ op'[h].seen = preview.rev
  BY <1>4 DEF Idle
<1>6. UNCHANGED <<preview, previewCount, plans, begun>> /\ preview.status = "ready"
  BY DEF CopyPreview, history
<1>7. plan'[p].preview = preview.id /\ \A q \in Plans \ {p} : plan'[q] = plan[q]
  BY <1>1, <1>2, <1>3 DEF TypeOK
<1>8. \A q \in Plans : Live(q)' => Live(q)
  BY <1>4, <1>5, <1>6, NoneComesAlive
<1>9. \A g \in Handlers \ {h} : Copied(g) => op[g].plan \in Plans /\ op[g].plan # p
  BY <1>3 DEF Owned, HandlerOK, PlanOK, Holds, Copied, Unstarted
<1>10. \A g \in Handlers \ {h} : Copied(g)' =>
         Copied(g) /\ op'[g] = op[g] /\ plan'[op'[g].plan] = plan[op[g].plan]
  BY <1>4, <1>7, <1>9 DEF Copied
<1>11. preview.rev \in Nat
  BY <1>1 DEF TypeOK
<1>12. \A g \in Handlers : Copied(g)' /\ preview'.id = plan'[op'[g].plan].preview =>
         op'[g].seen <= preview'.rev /\ (op'[g].seen = preview'.rev => preview'.status = "ready")
  <2>1. CASE Copied(h)'
    BY <1>5, <1>6, <1>10, <1>11 DEF Used
  <2>2. CASE ~Copied(h)'
    BY <1>6, <1>10, <2>2 DEF Used
  <2>3. QED
    BY <2>1, <2>2
<1>13. \A q \in Plans : Live(q)' => Live(q) /\ q # p /\ plan'[q] = plan[q]
  BY <1>3, <1>7, <1>8
<1>14. \A q \in Plans : plan'[q].preview <= previewCount'
  BY <1>6, <1>7 DEF Used
<1>15. QED
  BY <1>6, <1>12, <1>13, <1>14 DEF Used

\* The caller may confirm more, which makes older copies worthless.
LEMMA AuthorizeUsed ==
  ASSUME Owned, Named, Used, NEW h \in Handlers, AuthorizePreview(h) PROVE Used'
<1>1. /\ preview'.id = preview.id /\ preview'.status = preview.status /\ preview'.rev = preview.rev + 1
      /\ preview.rev \in Nat /\ preview # NoPreview /\ preview.status = "ready"
  BY DEF AuthorizePreview, Owned, TypeOK
<1>2. UNCHANGED <<previewCount, plan, plans, begun, op>>
  BY DEF AuthorizePreview, history
<1>3. \A p \in Plans : Live(p)' <=> Live(p)
  BY <1>2 DEF Live
<1>4. \A g \in Handlers : op[g].seen \in Nat
  BY DEF Owned, TypeOK
<1>5. QED
  BY <1>1, <1>2, <1>3, <1>4 DEF Used, Copied

\* Of two commands that copied one preview the second finds it consumed.
LEMMA CommitUsed ==
  ASSUME Owned, Named, Used, NEW h \in Handlers, CommitPlan(h) PROVE Used'
<1>1. TypeOK /\ op[h].pc = "commitPlan" /\ \A g \in Handlers \ {h} : op'[g] = op[g]
  BY OneHandler DEF Owned, CommitPlan, Proceed
<1>2. CASE ~PreviewUnchanged(h)
  <2>1. Goto(h, "saveDropped") /\ UNCHANGED <<preview, plans, previewCount, plan, begun>>
    BY <1>2 DEF CommitPlan, history
  <2>2. op'[h].pc = "saveDropped"
    BY <1>1, <2>1, WhereTo DEF PCs
  <2>3. QED
    BY <1>1, <2>1, <2>2, UsedQuiet
<1>3. CASE PreviewUnchanged(h)
  <2>1. PICK p \in Plans : p = op[h].plan
    BY <1>1, InHand DEF Unstarted
  <2>2. plan[p] # NotCreated /\ plan[p].preview > 0
    BY <1>1, <2>1, InHand DEF Unstarted, Named
  <2>3. /\ preview.id = plan[p].preview /\ preview.rev = op[h].seen /\ preview # NoPreview
        /\ preview.status = "ready"
    BY <1>1, <1>3, <2>1, <2>2 DEF PreviewUnchanged, Used, Copied, NoPreview
  <2>4. /\ Done(h) /\ plans' = plans \union {p} /\ UNCHANGED <<previewCount, plan, begun>>
        /\ preview' = [preview EXCEPT !.status = "consumed", !.rev = preview.rev + 1]
    BY <1>3, <2>1 DEF CommitPlan, history
  <2>5. preview'.id = preview.id /\ preview'.status = "consumed" /\ preview'.rev = preview.rev + 1
    BY <1>1, <2>4 DEF TypeOK
  <2>6. op'[h].pc = "idle"
    BY <1>1, <2>4, WhereTo
  <2>7. \A g \in Handlers : Copied(g)' => Copied(g) /\ op'[g] = op[g]
    BY <1>1, <2>6 DEF Copied
  <2>8. \A q \in Plans \ {p} : Live(q)' => Live(q)
    BY <1>1, <2>4, <2>6 DEF Live
  <2>9. \A q \in Plans : Live(q) => plan[q].preview # plan[p].preview
    BY <2>3 DEF Used
  <2>10. preview.rev \in Nat /\ \A g \in Handlers : op[g].seen \in Nat
    BY <1>1 DEF TypeOK
  <2>11. \A q \in Plans : Live(q)' => q = p \/ (Live(q) /\ plan[q].preview # plan[p].preview)
    BY <2>8, <2>9
  <2>12. \A q, r \in Plans : Live(q)' /\ Live(r)' /\ plan'[q].preview = plan'[r].preview => q = r
    BY <2>4, <2>11 DEF Used
  <2>13. QED
    BY <2>4, <2>5, <2>7, <2>10, <2>12 DEF Used
<1>4. QED
  BY <1>2, <1>3

\* A plan passes from the session to a command or back, or is executed.
LEMMA HandoverUsed ==
  ASSUME Owned, Used, NEW h \in Handlers, \A g \in Handlers \ {h} : op'[g] = op[g],
         UNCHANGED <<preview, previewCount, plan>>, NEW p \in Plans, Live(p), ~Copied(h)',
         plans' \subseteq plans \union {p},
         \A q \in Plans \ {p} : begun'[q] = begun[q],
         op'[h].pc \in {"saveCancelled", "saveExecuting", "reinsert"} => op'[h].plan = p
  PROVE  Used'
<1>1. \A q \in Plans : Live(q)' => Live(q)
  <2>1. ASSUME NEW q \in Plans \ {p}, Live(q)' PROVE Live(q)
    <3>1. CASE q \in plans' \/ begun'[q] > 0
      BY <3>1 DEF Live
    <3>2. CASE \E g \in Handlers :
                 op'[g].plan = q /\ op'[g].pc \in {"saveCancelled", "saveExecuting", "reinsert"}
      BY <3>2 DEF Live
    <3>3. QED
      BY <2>1, <3>1, <3>2 DEF Live
  <2>2. QED
    BY <2>1
<1>2. \A g \in Handlers : Copied(g)' =>
        Copied(g) /\ op'[g].plan = op[g].plan /\ op'[g].seen = op[g].seen
  BY DEF Copied
<1>3. QED
  BY <1>1, <1>2, UsedKept

LEMMA UsedStep == ASSUME Owned, Named, Used, Owned', Named', [Next]_vars PROVE Used'
<1>1. TypeOK
  BY DEF Owned
<1>2. CASE UNCHANGED vars
  BY <1>2 DEF vars, Used, Copied, Live
<1>3. CASE Restart
  <2>1. /\ preview' = NoPreview /\ UNCHANGED <<previewCount, plan, begun>> /\ plans' = {}
        /\ op' = [h \in Handlers |-> Idle]
    BY <1>3 DEF Restart, history
  <2>2. \A p \in Plans : Live(p)' => Live(p)
    BY <2>1 DEF Live, Idle
  <2>3. QED
    BY <2>1, <2>2, UsedWithout
<1>4. ASSUME NEW h \in Handlers, Call(h) \/ Proceed(h) PROVE Used'
  <2>1. \A g \in Handlers \ {h} : op'[g] = op[g]
    BY <1>1, <1>4, OneHandler
  <2>2. CASE StartDiscovery(h) \/ SelectAdb(h) \/ StartListing(h) \/ StartDiagnosis(h)
    BY <2>2, SupersedeUsed DEF StartDiscovery, SelectAdb, StartListing, StartDiagnosis, Waiting
  <2>3. CASE \/ StartValidation(h) \/ PublishStartup(h) \/ PublishDiscovery(h)
             \/ PublishEnumeration(h) \/ PublishDiagnosis(h) \/ RecordExecution(h)
             \/ SaveDropped(h) \/ SaveUnused(h)
    <3>1. UNCHANGED <<preview, previewCount, plan, begun, plans>>
      BY <2>3 DEF StartValidation, PublishStartup, PublishDiscovery, PublishEnumeration,
                  PublishDiagnosis, RecordExecution, SaveDropped, SaveUnused, entities, history
    <3>2. Goto(h, "validating") \/ Goto(h, "record") \/ Done(h)
      BY <2>3 DEF StartValidation, PublishStartup, PublishDiscovery, PublishEnumeration,
                  PublishDiagnosis, RecordExecution, SaveDropped, SaveUnused
    <3>3. op'[h].pc \in {"validating", "record", "idle"}
      BY <1>1, <3>2, WhereTo DEF PCs
    <3>4. QED
      BY <2>1, <3>1, <3>3, UsedQuiet
  <2>4. CASE InvalidatePlan(h)
    <3>1. UNCHANGED <<preview, previewCount, plan, begun, plans>>
      BY <2>4 DEF InvalidatePlan, entities
    <3>2. op'[h].pc \in Waiting \union {"idle", "invalidate"}
      <4>1. op[h] \in OpRecords /\ op[h].pc = "invalidate" /\ op[h].next \in Waiting \union {"idle"}
        BY <1>1, <2>4 DEF InvalidatePlan, TypeOK, OpRecords, Owned, HandlerOK
      <4>2. PICK todo :
              \/ op' = [op EXCEPT ![h] = [op[h] EXCEPT !.todo = todo]]
              \/ op' = [op EXCEPT ![h] = Idle]
              \/ op' = [op EXCEPT ![h] = [op[h] EXCEPT !.todo = todo, !.pc = op[h].next]]
        BY <2>4 DEF InvalidatePlan, Done
      <4>3. \/ op'[h] = [op[h] EXCEPT !.todo = todo]
            \/ op'[h] = Idle
            \/ op'[h] = [op[h] EXCEPT !.todo = todo, !.pc = op[h].next]
        BY <1>1, <4>2 DEF TypeOK
      <4>4. CASE op'[h] = [op[h] EXCEPT !.todo = todo]
        BY <4>1, <4>4 DEF OpRecords
      <4>5. CASE op'[h] = Idle
        BY <4>5 DEF Idle
      <4>6. CASE op'[h] = [op[h] EXCEPT !.todo = todo, !.pc = op[h].next]
        BY <4>1, <4>6 DEF OpRecords
      <4>7. QED
        BY <4>3, <4>4, <4>5, <4>6
    <3>3. QED
      BY <2>1, <3>1, <3>2, UsedQuiet DEF Waiting
  <2>5. CASE LoadSource(h)
    <3>1. PICK p \in Plans : op' = [op EXCEPT ![h] = [Idle EXCEPT !.pc = "loaded", !.source = p, !.parent = latest]]
      BY <2>5 DEF LoadSource
    <3>2. op'[h] = [Idle EXCEPT !.pc = "loaded", !.source = p, !.parent = latest]
      BY <1>1, <3>1 DEF TypeOK
    <3>3. op'[h].pc = "loaded"
      BY <3>2 DEF Idle
    <3>4. UNCHANGED <<preview, previewCount, plan, begun, plans>>
      BY <2>5 DEF LoadSource, entities, history
    <3>5. QED
      BY <2>1, <3>3, <3>4, UsedQuiet
  <2>6. CASE PreparePin(h)
    BY <2>1, <2>6, StoreUsed DEF PreparePin
  <2>7. CASE PrepareRestore(h)
    <3>1. op'[h] = Idle
      BY <1>1, <2>7, DoneOp DEF PrepareRestore
    <3>2. CASE StorePreview(op[h].source, FALSE)
      BY <2>1, <3>1, <3>2, StoreUsed
    <3>3. CASE UNCHANGED <<context, entities, disk, history>>
      BY <2>1, <3>1, <3>3, UsedQuiet DEF Idle, entities, history
    <3>4. QED
      BY <2>7, <3>2, <3>3 DEF PrepareRestore
  <2>8. CASE TakeWrongKind(h)
    <3>1. op' = op /\ plans' \subseteq plans /\ UNCHANGED <<preview, previewCount, plan, begun>>
      BY <2>8 DEF TakeWrongKind, Taken, history
    <3>2. QED
      BY <3>1, UsedKept DEF Copied, Live
  <2>9. CASE TakeToCancel(h) \/ TakeToExecute(h)
    <3>1. PICK p \in plans, pc \in {"saveCancelled", "saveUnused", "saveExecuting"}, status \in Statuses :
            TakePlan(h, p, pc, status)
      BY <2>9 DEF TakeToCancel, TakeToExecute, Statuses, Ends, Outcomes
    <3>2. op'[h] = [Idle EXCEPT !.pc = pc, !.plan = p, !.status = status]
      BY <1>1, <3>1 DEF TakePlan, TypeOK
    <3>3. op'[h].pc = pc /\ op'[h].plan = p
      BY <3>2 DEF Idle
    <3>4. p \in Plans /\ Live(p) /\ ~Copied(h)'
      BY <1>1, <3>3 DEF Live, TypeOK, Copied
    <3>5. UNCHANGED <<preview, previewCount, plan, begun>> /\ plans' \subseteq plans
      BY <3>1 DEF TakePlan, Taken, history
    <3>6. QED
      BY <2>1, <3>3, <3>4, <3>5, HandoverUsed
  <2>10. CASE SaveCancelled(h) \/ SaveExecuting(h) \/ Reinsert(h)
    <3>1. PICK p \in Plans : p = op[h].plan
      BY <2>10, InHand DEF SaveCancelled, SaveExecuting, Reinsert, Unstarted
    <3>2. Live(p)
      BY <2>10, <3>1 DEF SaveCancelled, SaveExecuting, Reinsert, Live
    <3>3. /\ UNCHANGED <<preview, previewCount, plan>> /\ plans' \subseteq plans \union {p}
          /\ \A q \in Plans \ {p} : begun'[q] = begun[q]
      BY <1>1, <2>10, <3>1 DEF SaveCancelled, SaveExecuting, Reinsert, entities, history, TypeOK
    <3>4. Done(h) \/ Goto(h, "record") \/ Goto(h, "reinsert") \/ Goto(h, "writing")
      BY <2>10 DEF SaveCancelled, SaveExecuting, Reinsert
    <3>5. \/ op'[h].pc \in {"idle", "record", "writing"}
          \/ op'[h].pc = "reinsert" /\ op'[h].plan = p
      BY <1>1, <3>1, <3>4, WhereTo DEF PCs
    <3>6. QED
      BY <2>1, <3>2, <3>3, <3>5, HandoverUsed DEF Copied
  <2>11. CASE SavePlanned(h)
    <3>1. UNCHANGED <<preview, previewCount, plan, begun, plans>>
      BY <2>11 DEF SavePlanned, entities
    <3>2. CASE Done(h)
      BY <1>1, <2>1, <3>1, <3>2, WhereTo, UsedQuiet
    <3>3. CASE Goto(h, "commitPlan")
      <4>1. op'[h].pc = "commitPlan" /\ op'[h].plan = op[h].plan /\ op'[h].seen = op[h].seen
        BY <1>1, <3>3, WhereTo DEF PCs
      <4>2. \A p \in Plans : Live(p)' => Live(p)
        BY <2>1, <3>1, <4>1, NoneComesAlive
      <4>3. \A g \in Handlers : Copied(g)' =>
              Copied(g) /\ op'[g].plan = op[g].plan /\ op'[g].seen = op[g].seen
        BY <2>1, <2>11, <4>1 DEF SavePlanned, Copied
      <4>4. QED
        BY <3>1, <4>2, <4>3, UsedKept
    <3>4. QED
      BY <2>11, <3>2, <3>3 DEF SavePlanned
  <2>12. CASE EndOfWriting(h) \/ SaveOutcome(h) \/ RestoreSource(h)
    <3>1. UNCHANGED <<preview, previewCount, plan, begun, plans>>
      BY <2>12 DEF EndOfWriting, SaveOutcome, RestoreSource, entities, history
    <3>2. op'[h].pc \in {"saveOutcome", "restoreSource", "finish"}
      BY <1>1, <2>12, ExecutionGoes
    <3>3. QED
      BY <2>1, <3>1, <3>2, UsedQuiet
  <2>13. CASE FinishExecution(h)
    <3>1. Done(h) /\ preview' = NoPreview /\ UNCHANGED <<previewCount, plan, begun, plans>>
      BY <2>13 DEF FinishExecution, history
    <3>2. \A p \in Plans : Live(p)' => Live(p)
      BY <1>1, <2>1, <3>1, WhereTo, NoneComesAlive
    <3>3. QED
      BY <3>1, <3>2, UsedWithout
  <2>14. QED
    BY <1>4, <2>2, <2>3, <2>4, <2>5, <2>6, <2>7, <2>8, <2>9, <2>10, <2>11, <2>12, <2>13,
       CopyUsed, AuthorizeUsed, CommitUsed DEF Call, Proceed
<1>5. QED
  BY <1>2, <1>3, <1>4 DEF Next

LEMMA UsedInvariance == Spec => []Used
<1>1. Init => Used
  BY InitUsed
<1>2. Used /\ (Owned /\ Named) /\ (Owned /\ Named)' /\ [Next]_vars => Used'
  BY UsedStep
<1>3. QED
  BY <1>1, <1>2, Invariance, PTL DEF Spec

\* What was confirmed once is used once: no plan is executed twice, and of the
\* plans made from one preview at most one was ever committed, however many
\* commands copied it at once and whatever saves failed.
THEOREM UsedOnce == Spec => []OneUse
<1>1. (Owned /\ Named) /\ Used => OneUse
  <2> SUFFICES ASSUME Owned, Used PROVE OneUse
    OBVIOUS
  <2>1. \A p \in Plans : begun[p] <= 1
    BY DEF Owned, PlanOK
  <2>2. \A p \in Plans : Committed(p) => Live(p)
    BY DEF Committed, Live
  <2>3. QED
    BY <2>1, <2>2 DEF Used, OneUse
<1>2. QED
  BY <1>1, Invariance, UsedInvariance, PTL

-----------------------------------------------------------------------------
(* What an execution reports of its source.                                *)

\* The source of p is restored on disk.
SourceRestored(p) == plan[p].source \in Plans /\ disk[plan[p].source].status = "restored"

\* A record that says restored is of a plan that was executed.  A command that
\* is about to report a restore without a warning, and an execution that did,
\* have the source restored.
Accounted ==
  /\ \A p \in Plans : disk[p].status = "restored" => begun[p] = 1
  /\ \A h \in Handlers :
       /\ op[h].pc \in {"saveCancelled", "record"} => op[h].status # "restored"
       /\ op[h].pc = "finish" /\ op[h].status = "restored" /\ ~op[h].warned =>
            SourceRestored(op[h].plan)
  /\ \A e \in executions : e.status = "restored" /\ ~e.warned => SourceRestored(e.plan)

LEMMA InitAccounted == Init => Accounted
BY DEF Init, Accounted, NoRecord, Idle

\* A plan that was begun stays so.
LEMMA BegunStays ==
  ASSUME Owned, [Next]_vars, NEW p \in Plans, begun[p] = 1
  PROVE  begun'[p] = 1
<1>1. TypeOK
  BY DEF Owned
<1>2. CASE begun' = begun
  BY <1>2
<1>3. ASSUME NEW h \in Handlers, SaveExecuting(h) PROVE begun'[p] = 1
  <2>1. op[h].plan # p
    BY <1>3, InHand DEF SaveExecuting, Unstarted
  <2>2. QED
    BY <1>1, <1>3, <2>1 DEF SaveExecuting, TypeOK
<1>4. ASSUME NEW h \in Handlers, Call(h) PROVE begun' = begun
  BY <1>4 DEF Call, StartValidation, StartDiscovery, SelectAdb, StartListing, StartDiagnosis, Supersede,
              PreparePin, StorePreview, LoadSource, AuthorizePreview, CopyPreview, TakeToCancel,
              TakeWrongKind, TakeToExecute, TakePlan, history
<1>5. ASSUME NEW h \in Handlers, Proceed(h), ~SaveExecuting(h) PROVE begun' = begun
  <2>1. CASE \/ PublishStartup(h) \/ PublishDiscovery(h) \/ PublishEnumeration(h) \/ PublishDiagnosis(h)
             \/ PrepareRestore(h) \/ CommitPlan(h) \/ RecordExecution(h) \/ Reinsert(h)
             \/ EndOfWriting(h) \/ FinishExecution(h)
    BY <2>1 DEF PublishStartup, PublishDiscovery, PublishEnumeration, PublishDiagnosis, PrepareRestore,
                StorePreview, CommitPlan, RecordExecution, Reinsert, EndOfWriting, FinishExecution, history
  <2>2. CASE \/ InvalidatePlan(h) \/ SavePlanned(h) \/ SaveDropped(h) \/ SaveCancelled(h)
             \/ SaveUnused(h) \/ SaveOutcome(h) \/ RestoreSource(h)
    BY <2>2 DEF InvalidatePlan, SavePlanned, SaveDropped, SaveCancelled, SaveUnused, SaveOutcome,
                RestoreSource
  <2>3. QED
    BY <1>5, <2>1, <2>2 DEF Proceed
<1>6. CASE Restart \/ UNCHANGED vars
  BY <1>2, <1>6 DEF Restart, vars, history
<1>7. QED
  BY <1>2, <1>3, <1>4, <1>5, <1>6 DEF Next

\* A record that says restored is left as it is, and none says so that was not
\* executed.
LEMMA RestoredStays ==
  ASSUME Owned, Accounted, [Next]_vars, NEW p \in Plans
  PROVE  /\ disk[p].status = "restored" => disk'[p].status = "restored"
         /\ disk'[p].status = "restored" => begun'[p] = 1
<1>1. TypeOK
  BY DEF Owned
<1>2. CASE disk'[p] = disk[p]
  BY <1>2, BegunStays DEF Accounted
<1>3. ASSUME NEW q \in Plans, begun[q] = 0, NEW rev \in Nat, NEW status \in Statuses \ {"restored"},
             Saves(q, rev, status) \/ FailsToSave(q, rev, status)
      PROVE  disk'[p] = disk[p] \/ (disk'[p].status # "restored" /\ disk[p].status # "restored")
  <2>1. /\ \A r \in Plans \ {q} : disk'[r] = disk[r]
        /\ disk'[q] \in {disk[q], [rev |-> rev, status |-> status]}
    BY <1>1, <1>3, SaveDisk
  <2>2. disk[q].status # "restored"
    BY <1>3 DEF Accounted
  <2>3. QED
    BY <1>3, <2>1, <2>2
<1>4. ASSUME NEW h \in Handlers, InvalidatePlan(h)
      PROVE  disk'[p] = disk[p] \/ (disk'[p].status # "restored" /\ disk[p].status # "restored")
  <2>1. PICK q \in op[h].todo : Saves(q, 2, "invalidated") \/ FailsToSave(q, 2, "invalidated")
    BY <1>4 DEF InvalidatePlan
  <2>2. q \in Plans /\ begun[q] = 0
    BY <1>1, <2>1 DEF Owned, HandlerOK, TypeOK
  <2>3. QED
    BY <1>3, <2>1, <2>2 DEF Statuses, Ends, Outcomes
<1>5. ASSUME NEW h \in Handlers,
             SavePlanned(h) \/ SaveDropped(h) \/ SaveCancelled(h) \/ SaveUnused(h) \/ SaveExecuting(h)
      PROVE  disk'[p] = disk[p] \/ (disk'[p].status # "restored" /\ disk[p].status # "restored")
  <2>1. PICK rev \in {1, 2}, status \in {"planned", "invalidated", "cancelled", "expired", "executing"} :
          Saves(op[h].plan, rev, status) \/ FailsToSave(op[h].plan, rev, status)
    <3>1. SaveUnused(h) => op[h].status \in {"expired", "invalidated"}
      BY DEF SaveUnused, Owned, HandlerOK
    <3>2. QED
      BY <1>5, <3>1 DEF SavePlanned, SaveDropped, SaveCancelled, SaveUnused, SaveExecuting
  <2>2. op[h].plan \in Plans /\ begun[op[h].plan] = 0
    BY <1>5, InHand DEF SavePlanned, SaveDropped, SaveCancelled, SaveUnused, SaveExecuting, Unstarted
  <2>3. rev \in Nat /\ status \in Statuses \ {"restored"}
    BY <2>1 DEF Statuses, Ends, Outcomes
  <2>4. QED
    BY <1>3, <2>1, <2>2, <2>3
<1>6. ASSUME NEW h \in Handlers, SaveOutcome(h), disk'[p] # disk[p]
      PROVE  disk[p].status # "restored" /\ begun[p] = 1
  <2>1. Saves(op[h].plan, 3, op[h].status) \/ FailsToSave(op[h].plan, 3, op[h].status)
    BY <1>6 DEF SaveOutcome
  <2>2. op[h].plan \in Plans /\ begun[op[h].plan] = 1 /\ disk[op[h].plan].status = "executing"
    BY <1>6, InHand DEF SaveOutcome, Started, Owned, HandlerOK
  <2>3. op[h].status \in Statuses
    BY <1>1 DEF TypeOK
  <2>4. p = op[h].plan
    BY <1>1, <1>6, <2>1, <2>2, <2>3, SaveDisk
  <2>5. QED
    BY <2>2, <2>4
<1>7. ASSUME NEW h \in Handlers, RestoreSource(h), disk'[p] # disk[p]
      PROVE  disk[p].status = "applied" /\ disk'[p].status = "restored" /\ begun[p] = 1
  <2>1. PICK s \in Plans : s = plan[op[h].plan].source
    BY <1>7 DEF RestoreSource, Owned, HandlerOK
  <2>2. /\ disk[s].status = "applied"
        /\ Saves(s, disk[s].rev + 1, "restored") \/ FailsToSave(s, disk[s].rev + 1, "restored")
    BY <1>7, <2>1 DEF RestoreSource
  <2>3. disk[s].rev + 1 \in Nat /\ "restored" \in Statuses
    BY <1>1 DEF TypeOK, Statuses, Ends, Outcomes
  <2>4. /\ \A q \in Plans \ {s} : disk'[q] = disk[q]
        /\ disk'[s] \in {disk[s], [rev |-> disk[s].rev + 1, status |-> "restored"]}
    BY <1>1, <2>2, <2>3, SaveDisk
  <2>5. begun[s] = 1
    BY <2>2 DEF Owned, PlanOK
  <2>6. QED
    BY <1>7, <2>2, <2>4, <2>5
<1>8. ASSUME NEW h \in Handlers, Call(h) \/ Proceed(h), disk'[p] # disk[p]
      PROVE  \/ disk'[p].status # "restored" /\ disk[p].status # "restored"
             \/ disk[p].status # "restored" /\ begun[p] = 1
  BY <1>4, <1>5, <1>6, <1>7, <1>8, WhoWrites
<1>9. CASE Restart \/ UNCHANGED vars
  BY <1>2, <1>9 DEF Restart, vars
<1>10. QED
  BY <1>2, <1>8, <1>9, BegunStays DEF Next

\* Once restored, a source stays so.
LEMMA SourceStays ==
  ASSUME Owned, Accounted, [Next]_vars, NEW p \in Plans, SourceRestored(p)
  PROVE  plan'[p].source \in Plans /\ disk'[plan'[p].source].status = "restored"
<1>1. TypeOK /\ plan[p] # NotCreated
  BY ConstantsAssumption DEF Owned, SourceRestored, NotCreated
<1>2. plan'[p] = plan[p]
  <2>1. CASE plan' = plan
    BY <2>1
  <2>2. ASSUME NEW h \in Handlers, CopyPreview(h) PROVE plan'[p] = plan[p]
    BY <1>1, <2>2 DEF CopyPreview, Fresh, TypeOK
  <2>3. ASSUME NEW h \in Handlers, Call(h), ~CopyPreview(h) PROVE plan' = plan
    BY <2>3 DEF Call, StartValidation, StartDiscovery, SelectAdb, StartListing, StartDiagnosis, Supersede,
                PreparePin, StorePreview, LoadSource, AuthorizePreview, TakeToCancel,
                TakeWrongKind, TakeToExecute, TakePlan, entities
  <2>4. ASSUME NEW h \in Handlers, Proceed(h) PROVE plan' = plan
    <3>1. CASE \/ PublishStartup(h) \/ PublishDiscovery(h) \/ PublishEnumeration(h) \/ PublishDiagnosis(h)
               \/ PrepareRestore(h) \/ CommitPlan(h) \/ RecordExecution(h) \/ Reinsert(h)
               \/ EndOfWriting(h) \/ FinishExecution(h)
      BY <3>1 DEF PublishStartup, PublishDiscovery, PublishEnumeration, PublishDiagnosis, PrepareRestore,
                  StorePreview, CommitPlan, RecordExecution, Reinsert, EndOfWriting, FinishExecution, entities
    <3>2. CASE \/ InvalidatePlan(h) \/ SavePlanned(h) \/ SaveDropped(h) \/ SaveCancelled(h)
               \/ SaveUnused(h) \/ SaveExecuting(h) \/ SaveOutcome(h) \/ RestoreSource(h)
      BY <3>2 DEF InvalidatePlan, SavePlanned, SaveDropped, SaveCancelled, SaveUnused, SaveExecuting,
                  SaveOutcome, RestoreSource, entities
    <3>3. QED
      BY <2>4, <3>1, <3>2 DEF Proceed
  <2>5. CASE Restart \/ UNCHANGED vars
    BY <2>1, <2>5 DEF Restart, vars
  <2>6. QED
    BY <2>1, <2>2, <2>3, <2>4, <2>5 DEF Next
<1>3. QED
  BY <1>2, RestoredStays DEF SourceRestored

\* Where the steps lead after which there is nothing to report.
LEMMA NothingToReport ==
  ASSUME Owned, NEW h \in Handlers, Call(h) \/ Proceed(h),
         ~(SaveCancelled(h) \/ SaveUnused(h) \/ SaveOutcome(h) \/ RestoreSource(h) \/ TakeToCancel(h))
  PROVE  op'[h] = op[h] \/ op'[h].pc \notin {"saveCancelled", "record", "finish"}
<1>1. TypeOK /\ op[h] \in OpRecords
  BY DEF Owned, TypeOK, OpRecords
<1>2. CASE op' = op
  BY <1>2
<1>3. CASE \/ Done(h) \/ Goto(h, "validating") \/ Goto(h, "commitPlan") \/ Goto(h, "saveDropped")
           \/ Goto(h, "reinsert") \/ Goto(h, "writing")
  <2>1. op'[h].pc \in {"idle", "validating", "commitPlan", "saveDropped", "reinsert", "writing"}
    BY <1>1, <1>3, WhereTo DEF PCs
  <2>2. QED
    BY <2>1
<1>4. CASE StartDiscovery(h) \/ SelectAdb(h) \/ StartListing(h) \/ StartDiagnosis(h)
  <2>1. PICK next \in Waiting \union {"idle"}, parent \in Nat : Supersede(h, next, parent)
    BY <1>1, <1>4 DEF StartDiscovery, SelectAdb, StartListing, StartDiagnosis, Waiting, TypeOK
  <2>2. op'[h] = [Idle EXCEPT !.pc = IF plans = {} THEN next ELSE "invalidate", !.next = next,
                              !.rev = revision + 1, !.parent = parent, !.todo = plans]
    BY <1>1, <2>1 DEF Supersede, TypeOK
  <2>3. op'[h].pc \in Waiting \union {"idle", "invalidate"}
    BY <2>2 DEF Idle
  <2>4. QED
    BY <2>3 DEF Waiting
<1>5. CASE LoadSource(h) \/ CopyPreview(h) \/ TakeToExecute(h)
  <2>1. CASE LoadSource(h)
    <3>1. PICK p \in Plans : op' = [op EXCEPT ![h] = [Idle EXCEPT !.pc = "loaded", !.source = p, !.parent = latest]]
      BY <2>1 DEF LoadSource
    <3>2. op'[h] = [Idle EXCEPT !.pc = "loaded", !.source = p, !.parent = latest]
      BY <1>1, <3>1 DEF TypeOK
    <3>3. QED
      BY <3>2 DEF Idle
  <2>2. CASE CopyPreview(h)
    <3>1. PICK p \in Fresh :
            op' = [op EXCEPT ![h] = [Idle EXCEPT !.pc = "savePlanned", !.plan = p,
                                       !.rev = revision, !.seen = preview.rev]]
      BY <2>2 DEF CopyPreview
    <3>2. op'[h] = [Idle EXCEPT !.pc = "savePlanned", !.plan = p, !.rev = revision, !.seen = preview.rev]
      BY <1>1, <3>1 DEF TypeOK
    <3>3. QED
      BY <3>2 DEF Idle
  <2>3. CASE TakeToExecute(h)
    <3>1. PICK p \in plans, pc \in {"saveUnused", "saveExecuting"}, status \in Statuses :
            op' = [op EXCEPT ![h] = [Idle EXCEPT !.pc = pc, !.plan = p, !.status = status]]
      BY <2>3 DEF TakeToExecute, TakePlan, Statuses, Ends, Outcomes
    <3>2. op'[h] = [Idle EXCEPT !.pc = pc, !.plan = p, !.status = status]
      BY <1>1, <3>1 DEF TypeOK
    <3>3. QED
      BY <3>2 DEF Idle
  <2>4. QED
    BY <1>5, <2>1, <2>2, <2>3
<1>6. CASE InvalidatePlan(h)
  <2>1. op[h].pc = "invalidate" /\ op[h].next \in Waiting \union {"idle"}
    BY <1>6 DEF InvalidatePlan, Owned, HandlerOK
  <2>2. PICK todo :
          \/ op' = [op EXCEPT ![h] = [op[h] EXCEPT !.todo = todo]]
          \/ op' = [op EXCEPT ![h] = Idle]
          \/ op' = [op EXCEPT ![h] = [op[h] EXCEPT !.todo = todo, !.pc = op[h].next]]
    BY <1>6 DEF InvalidatePlan, Done
  <2>3. \/ op'[h] = [op[h] EXCEPT !.todo = todo]
        \/ op'[h] = Idle
        \/ op'[h] = [op[h] EXCEPT !.todo = todo, !.pc = op[h].next]
    BY <1>1, <2>2 DEF TypeOK
  <2>4. op'[h].pc \in Waiting \union {"idle", "invalidate"}
    <3>1. CASE op'[h] = Idle
      BY <3>1 DEF Idle
    <3>2. QED
      BY <1>1, <2>1, <2>3, <3>1 DEF OpRecords
  <2>5. QED
    BY <2>4 DEF Waiting
<1>7. CASE EndOfWriting(h)
  <2>1. PICK v \in Verdicts(op[h].plan) :
          op' = [op EXCEPT ![h] = [op[h] EXCEPT !.pc = "saveOutcome", !.status = v]]
    BY <1>7 DEF EndOfWriting
  <2>2. op'[h] = [op[h] EXCEPT !.pc = "saveOutcome", !.status = v]
    BY <1>1, <2>1 DEF TypeOK
  <2>3. op'[h].pc = "saveOutcome"
    BY <1>1, <2>2 DEF OpRecords
  <2>4. QED
    BY <2>3
<1>8. CASE Call(h)
  BY <1>2, <1>3, <1>4, <1>5, <1>8
     DEF Call, StartValidation, PreparePin, AuthorizePreview, TakeWrongKind
<1>9. CASE Proceed(h)
  BY <1>3, <1>6, <1>7, <1>9
     DEF Proceed, PublishStartup, PublishDiscovery, PublishEnumeration, PublishDiagnosis, PrepareRestore,
         SavePlanned, CommitPlan, SaveDropped, RecordExecution, Reinsert, SaveExecuting, FinishExecution
<1>10. QED
  BY <1>8, <1>9

\* The status and the warning of a command that goes on.
LEMMA GotoKeeps ==
  ASSUME TypeOK, NEW h \in Handlers, NEW pc \in PCs, Goto(h, pc)
  PROVE  /\ op'[h].pc = pc /\ op'[h].plan = op[h].plan /\ op'[h].todo = op[h].todo
         /\ op'[h].status = op[h].status /\ op'[h].warned = op[h].warned
<1>1. op[h] \in OpRecords
  BY DEF TypeOK, OpRecords
<1>2. op'[h] = [op[h] EXCEPT !.pc = pc]
  BY GotoOp
<1>3. QED
  BY <1>1, <1>2 DEF OpRecords

\* What the handler that moves reports.
LEMMA MoverAccounted ==
  ASSUME Owned, Accounted, "load" \notin StoreFaults, NEW h \in Handlers, Call(h) \/ Proceed(h), Next
  PROVE  /\ op'[h].pc \in {"saveCancelled", "record"} => op'[h].status # "restored"
         /\ op'[h].pc = "finish" /\ op'[h].status = "restored" /\ ~op'[h].warned =>
              plan'[op'[h].plan].source \in Plans /\ disk'[plan'[op'[h].plan].source].status = "restored"
<1>1. TypeOK /\ op[h] \in OpRecords /\ HandlerOK(h)
  BY DEF Owned, TypeOK, OpRecords
<1>2. CASE op'[h] = op[h]
  <2>1. op[h].pc = "finish" => op[h].plan \in Plans
    BY <1>1 DEF HandlerOK, Started
  <2>2. \A p \in Plans : SourceRestored(p) =>
          plan'[p].source \in Plans /\ disk'[plan'[p].source].status = "restored"
    BY SourceStays
  <2>3. QED
    BY <1>2, <2>1, <2>2 DEF Accounted
<1>3. CASE op'[h].pc \notin {"saveCancelled", "record", "finish"}
  BY <1>3
<1>4. CASE TakeToCancel(h)
  <2>1. PICK p \in plans : op' = [op EXCEPT ![h] = [Idle EXCEPT !.pc = "saveCancelled", !.plan = p, !.status = "cancelled"]]
    BY <1>4 DEF TakeToCancel, TakePlan
  <2>2. op'[h] = [Idle EXCEPT !.pc = "saveCancelled", !.plan = p, !.status = "cancelled"]
    BY <1>1, <2>1 DEF TypeOK
  <2>3. op'[h].pc = "saveCancelled" /\ op'[h].status = "cancelled"
    BY <2>2 DEF Idle
  <2>4. QED
    BY <2>3
<1>5. CASE SaveCancelled(h) \/ SaveUnused(h)
  <2>1. op[h].status # "restored"
    BY <1>1, <1>5 DEF SaveCancelled, SaveUnused, Accounted, HandlerOK
  <2>2. CASE Done(h)
    BY <1>1, <2>2, WhereTo
  <2>3. ASSUME NEW pc \in {"record", "reinsert"}, Goto(h, pc)
        PROVE  op'[h].status # "restored" /\ op'[h].pc = pc
    BY <1>1, <2>1, <2>3, GotoKeeps DEF PCs
  <2>4. QED
    BY <1>5, <2>2, <2>3 DEF SaveCancelled, SaveUnused
<1>6. CASE SaveOutcome(h)
  <2>1. PICK w \in BOOLEAN :
          op' = [op EXCEPT ![h] = [op[h] EXCEPT
                   !.pc = IF op[h].status = "restored" THEN "restoreSource" ELSE "finish", !.warned = w]]
    BY <1>6 DEF SaveOutcome
  <2>2. op'[h] = [op[h] EXCEPT
                   !.pc = IF op[h].status = "restored" THEN "restoreSource" ELSE "finish", !.warned = w]
    BY <1>1, <2>1 DEF TypeOK
  <2>3. /\ op'[h].pc = IF op[h].status = "restored" THEN "restoreSource" ELSE "finish"
        /\ op'[h].status = op[h].status
    BY <1>1, <2>2 DEF OpRecords
  <2>4. QED
    BY <2>3
<1>7. CASE RestoreSource(h)
  <2> DEFINE s == plan[op[h].plan].source
  <2>1. s \in Plans /\ UNCHANGED plan
    BY <1>1, <1>7 DEF RestoreSource, HandlerOK, entities
  <2>2. CASE /\ disk[s].status = "applied" /\ Saves(s, disk[s].rev + 1, "restored")
             /\ Goto(h, "finish")
    <3>1. disk[s].rev \in Nat /\ "restored" \in Statuses
      BY <1>1, <2>1 DEF TypeOK, Statuses, Ends, Outcomes
    <3>2. disk[s].rev + 1 \in Nat /\ disk[s].rev + 1 >= disk[s].rev
      BY <3>1
    <3>3. disk'[s] = [rev |-> disk[s].rev + 1, status |-> "restored"]
      <4> HIDE DEF s
      <4>1. QED
        BY <1>1, <2>1, <2>2, <3>1, <3>2, SaveDisk
    <3>4. op'[h].plan = op[h].plan /\ op'[h].pc = "finish"
      BY <1>1, <2>2, GotoKeeps DEF PCs
    <3>5. QED
      BY <2>1, <3>3, <3>4
  <2>3. CASE op' = [op EXCEPT ![h].pc = "finish", ![h].warned = TRUE]
    <3>1. op'[h] = [op[h] EXCEPT !.pc = "finish", !.warned = TRUE]
      BY <1>1, <2>3 DEF TypeOK
    <3>2. op'[h].warned /\ op'[h].pc = "finish"
      BY <1>1, <3>1 DEF OpRecords
    <3>3. QED
      BY <3>2
  <2>4. QED
    BY <1>7, <2>2, <2>3 DEF RestoreSource
<1>8. QED
  BY <1>2, <1>3, <1>4, <1>5, <1>6, <1>7, NothingToReport

LEMMA AccountedStep ==
  ASSUME Owned, Accounted, "load" \notin StoreFaults, [Next]_vars
  PROVE  Accounted'
<1>1. TypeOK
  BY DEF Owned
<1>2. \A p \in Plans : disk'[p].status = "restored" => begun'[p] = 1
  BY RestoredStays
<1>3. CASE UNCHANGED vars
  BY <1>3 DEF vars, Accounted, SourceRestored
<1>4. CASE Restart
  <2>1. executions' = {} /\ \A h \in Handlers : op'[h] = Idle
    BY <1>4 DEF Restart
  <2>2. \A h \in Handlers : op'[h].pc = "idle"
    BY <2>1 DEF Idle
  <2>3. QED
    BY <1>2, <2>1, <2>2 DEF Accounted
<1>5. ASSUME NEW h \in Handlers, Call(h) \/ Proceed(h) PROVE Accounted'
  <2>1. Next
    BY <1>5 DEF Next
  <2>2. ASSUME NEW g \in Handlers \ {h}
        PROVE  /\ op'[g].pc \in {"saveCancelled", "record"} => op'[g].status # "restored"
               /\ op'[g].pc = "finish" /\ op'[g].status = "restored" /\ ~op'[g].warned =>
                    plan'[op'[g].plan].source \in Plans /\ disk'[plan'[op'[g].plan].source].status = "restored"
    <3>1. op'[g] = op[g]
      BY <1>1, <1>5, OneHandler
    <3>2. op[g].pc = "finish" => op[g].plan \in Plans
      BY DEF Owned, HandlerOK, Started
    <3>3. \A p \in Plans : SourceRestored(p) =>
            plan'[p].source \in Plans /\ disk'[plan'[p].source].status = "restored"
      BY <2>1, SourceStays
    <3>4. QED
      BY <3>1, <3>2, <3>3 DEF Accounted
  <2>3. ASSUME NEW e \in executions, e.status = "restored", ~e.warned
        PROVE  plan'[e.plan].source \in Plans /\ disk'[plan'[e.plan].source].status = "restored"
    <3>1. e.plan \in Plans
      BY <1>1 DEF TypeOK
    <3>2. SourceRestored(e.plan)
      BY <2>3 DEF Accounted
    <3>3. QED
      BY <2>1, <3>1, <3>2, SourceStays
  <2>4. ASSUME NEW e \in executions', e.status = "restored", ~e.warned, e \notin executions
        PROVE  plan'[e.plan].source \in Plans /\ disk'[plan'[e.plan].source].status = "restored"
    <3>1. \/ /\ RecordExecution(h)
             /\ e = [plan |-> op[h].plan, status |-> op[h].status, warned |-> FALSE]
          \/ /\ FinishExecution(h)
             /\ e = [plan |-> op[h].plan, status |-> op[h].status, warned |-> op[h].warned]
      <4>1. CASE RecordExecution(h)
        BY <2>4, <4>1 DEF RecordExecution
      <4>2. CASE FinishExecution(h)
        BY <2>4, <4>2 DEF FinishExecution
      <4>3. CASE Call(h)
        BY <2>4, <4>3 DEF Call, StartValidation, StartDiscovery, SelectAdb, StartListing, StartDiagnosis,
                Supersede, PreparePin, StorePreview, LoadSource, AuthorizePreview, CopyPreview,
                TakeToCancel, TakeWrongKind, TakeToExecute, TakePlan, entities
      <4>4. CASE \/ PublishStartup(h) \/ PublishDiscovery(h) \/ PublishEnumeration(h) \/ PublishDiagnosis(h)
                 \/ PrepareRestore(h) \/ CommitPlan(h) \/ Reinsert(h) \/ EndOfWriting(h)
        BY <2>4, <4>4 DEF PublishStartup, PublishDiscovery, PublishEnumeration, PublishDiagnosis,
                PrepareRestore, StorePreview, CommitPlan, Reinsert, EndOfWriting, entities
      <4>5. CASE \/ InvalidatePlan(h) \/ SavePlanned(h) \/ SaveDropped(h) \/ SaveCancelled(h)
                 \/ SaveUnused(h) \/ SaveExecuting(h) \/ SaveOutcome(h) \/ RestoreSource(h)
        BY <2>4, <4>5 DEF InvalidatePlan, SavePlanned, SaveDropped, SaveCancelled, SaveUnused,
                SaveExecuting, SaveOutcome, RestoreSource, entities
      <4>6. QED
        BY <1>5, <4>1, <4>2, <4>3, <4>4, <4>5 DEF Proceed
    <3>2. ~RecordExecution(h)
      BY <2>4, <3>1 DEF RecordExecution, Accounted
    <3>3. op[h].pc = "finish" /\ op[h].status = "restored" /\ ~op[h].warned /\ e.plan = op[h].plan
      BY <2>4, <3>1, <3>2 DEF FinishExecution
    <3>4. op[h].plan \in Plans
      BY <3>3 DEF Owned, HandlerOK, Started
    <3>5. SourceRestored(e.plan) /\ e.plan \in Plans
      BY <3>3, <3>4 DEF Accounted
    <3>6. QED
      BY <2>1, <3>5, SourceStays
  <2>5. QED
    BY <1>2, <1>5, <2>1, <2>2, <2>3, <2>4, MoverAccounted DEF Accounted, SourceRestored
<1>6. QED
  BY <1>3, <1>4, <1>5 DEF Next

\* A restore that is reported without a warning has left its source restored on
\* disk, and nothing changes that, however saves fail: all that is passed over
\* is a source that cannot be loaded, so loads are taken to work.
THEOREM RestoresAccounted == "load" \notin StoreFaults => (Spec => []RestoreIsAccounted)
<1> SUFFICES ASSUME "load" \notin StoreFaults PROVE Spec => []RestoreIsAccounted
  OBVIOUS
<1>1. Init => Accounted
  BY InitAccounted
<1>2. Accounted /\ (Owned /\ Named) /\ [Next]_vars => Accounted'
  BY AccountedStep
<1>3. Accounted => RestoreIsAccounted
  BY DEF Accounted, SourceRestored, RestoreIsAccounted
<1>4. QED
  BY <1>1, <1>2, <1>3, Invariance, PTL DEF Spec

-----------------------------------------------------------------------------
(* Who closes the record of a planned change.                              *)

\* A record that says planned belongs to a plan in some hand, and not to one
\* whose execution began or that is about to be reported.
Held ==
  /\ \A p \in Plans : disk[p].status = "planned" =>
       p \in plans \/ \E h \in Handlers : Holds(h, p)
  /\ \A h \in Handlers :
       /\ op[h].pc \in Started \union {"record"} => disk[op[h].plan].status # "planned"
       /\ op[h].pc = "saveOutcome" => op[h].status # "planned"

LEMMA InitHeld == Init => Held
BY DEF Init, Held, NoRecord, Idle, Started

\* What a step of h has to show for Held: it writes planned into a record only
\* when it has the plan in hand, and does not lose a plan that is planned.
LEMMA HeldKept ==
  ASSUME Owned, Held, NEW h \in Handlers, \A g \in Handlers \ {h} : op'[g] = op[g],
         \A p \in Plans : disk'[p].status = "planned" => disk[p].status = "planned" \/ Holds(h, p),
         \A p \in Plans : disk'[p].status = "planned" /\ (p \in plans \/ Holds(h, p)) =>
           p \in plans' \/ Holds(h, p)',
         op'[h].pc \in Started \union {"record"} => disk'[op'[h].plan].status # "planned",
         op'[h].pc = "saveOutcome" => op'[h].status # "planned"
  PROVE  Held'
<1>1. \A g \in Handlers \ {h} : \A p \in Plans : Holds(g, p)' <=> Holds(g, p)
  BY DEF Holds
<1>2. ASSUME NEW p \in Plans, disk'[p].status = "planned"
      PROVE  p \in plans' \/ \E g \in Handlers : Holds(g, p)'
  <2>1. CASE p \in plans \/ Holds(h, p)
    BY <1>2, <2>1
  <2>2. CASE ~(p \in plans \/ Holds(h, p))
    <3>1. PICK g \in Handlers : Holds(g, p)
      BY <1>2, <2>2 DEF Held
    <3>2. g # h
      BY <2>2, <3>1
    <3>3. QED
      BY <1>1, <3>1, <3>2
  <2>3. QED
    BY <2>1, <2>2
<1>3. ASSUME NEW g \in Handlers \ {h}, op'[g].pc \in Started \union {"record"}
      PROVE  disk'[op'[g].plan].status # "planned"
  <2>1. op[g].pc \in Started \union {"record"} /\ op'[g].plan = op[g].plan
    BY <1>3
  <2>2. PICK p \in Plans : p = op[g].plan
    BY <2>1, InHand DEF Unstarted
  <2>3. disk[p].status # "planned" /\ ~Holds(h, p)
    BY <2>1, <2>2, InHand DEF Held, Unstarted
  <2>4. QED
    BY <2>1, <2>2, <2>3
<1>4. \A g \in Handlers \ {h} : op'[g].pc = "saveOutcome" => op'[g].status # "planned"
  BY DEF Held
<1>5. \A g \in Handlers :
        /\ op'[g].pc \in Started \union {"record"} => disk'[op'[g].plan].status # "planned"
        /\ op'[g].pc = "saveOutcome" => op'[g].status # "planned"
  BY <1>3, <1>4
<1>6. QED
  BY <1>2, <1>5 DEF Held

\* A step that writes no record, and after which h has nothing to report.
LEMMA HeldQuiet ==
  ASSUME Owned, Held, NEW h \in Handlers, \A g \in Handlers \ {h} : op'[g] = op[g], disk' = disk,
         op'[h].pc \notin Started \union {"record"},
         \A p \in Plans : disk[p].status = "planned" /\ (p \in plans \/ Holds(h, p)) =>
           p \in plans' \/ Holds(h, p)'
  PROVE  Held'
BY HeldKept DEF Started

\* A step of a command that has no plan in hand, and leaves the plans to the session.
LEMMA HeldFree ==
  ASSUME Owned, Held, NEW h \in Handlers, \A g \in Handlers \ {h} : op'[g] = op[g], disk' = disk,
         op[h].pc \notin Unstarted \union Started \union {"invalidate"},
         op'[h].pc \notin Started \union {"record"}, plans' = plans
  PROVE  Held'
<1>1. \A p \in Plans : ~Holds(h, p)
  BY FreeHandler
<1>2. QED
  BY <1>1, HeldQuiet

\* A command saves the record of the plan in its hand, as no longer planned.
LEMMA HeldSaved ==
  ASSUME Owned, Held, NEW h \in Handlers, \A g \in Handlers \ {h} : op'[g] = op[g],
         op[h].pc \in Unstarted \union Started, plans' = plans,
         NEW rev \in Nat, NEW status \in Statuses \ {"planned"},
         Saves(op[h].plan, rev, status), rev >= disk[op[h].plan].rev,
         op'[h].pc \in Started \union {"record"} => op'[h].plan = op[h].plan,
         op'[h].pc # "saveOutcome"
  PROVE  Held'
<1>1. PICK p \in Plans : p = op[h].plan
  BY InHand
<1>2. \A q \in Plans : Holds(h, q) => q = p
  BY <1>1, InHand
<1>3. p \notin plans
  BY <1>1, InHand
<1>4. TypeOK
  BY DEF Owned
<1>5. Saves(p, rev, status) /\ rev >= disk[p].rev
  BY <1>1
<1>6. disk'[p] = [rev |-> rev, status |-> status] /\ \A q \in Plans \ {p} : disk'[q] = disk[q]
  BY <1>4, <1>5, SaveDisk
<1>7. disk'[p].status # "planned"
  BY <1>6
<1>8. QED
  BY <1>1, <1>2, <1>3, <1>6, <1>7, HeldKept

\* A store that works does not fail a save.
LEMMA SavesWork ==
  ASSUME "lost" \notin StoreFaults, "durable" \notin StoreFaults, NEW p, NEW rev, NEW status
  PROVE  ~FailsToSave(p, rev, status)
BY DEF FailsToSave

LEMMA HeldInvalidate ==
  ASSUME Owned, Held, "lost" \notin StoreFaults, "durable" \notin StoreFaults,
         NEW h \in Handlers, InvalidatePlan(h), \A g \in Handlers \ {h} : op'[g] = op[g]
  PROVE  Held'
<1>1. TypeOK /\ op[h] \in OpRecords /\ HandlerOK(h)
  BY DEF Owned, TypeOK, OpRecords
<1>2. PICK p \in op[h].todo :
        /\ Saves(p, 2, "invalidated")
        /\ op' = [op EXCEPT ![h] = IF op[h].todo # {p}
                                     THEN [op[h] EXCEPT !.todo = op[h].todo \ {p}]
                                     ELSE IF op[h].next = "idle" THEN Idle
                                     ELSE [op[h] EXCEPT !.todo = {}, !.pc = op[h].next]]
  BY SavesWork DEF InvalidatePlan
<1>3. /\ op[h].pc = "invalidate" /\ op[h].next \in Waiting \union {"idle"}
      /\ op[h].plan \notin Plans /\ UNCHANGED plans
  BY <1>1 DEF InvalidatePlan, HandlerOK, Unstarted, Started, entities
<1>4. p \in Plans /\ p \notin plans /\ disk[p].rev \in Nat /\ disk[p].rev <= 2
  <2>1. p \in Plans /\ begun[p] = 0
    BY <1>1, <1>2 DEF OpRecords, HandlerOK
  <2>2. QED
    BY <1>1, <1>2, <2>1 DEF Owned, PlanOK, OneHand, Holds, TypeOK
<1>5. /\ disk'[p] = [rev |-> 2, status |-> "invalidated"]
      /\ \A q \in Plans \ {p} : disk'[q] = disk[q]
  <2>1. "invalidated" \in Statuses /\ 2 \in Nat /\ 2 >= disk[p].rev
    BY <1>4 DEF Statuses, Ends, Outcomes
  <2>2. QED
    BY <1>1, <1>2, <1>4, <2>1, SaveDisk
<1>6. op'[h] = IF op[h].todo # {p}
                 THEN [op[h] EXCEPT !.todo = op[h].todo \ {p}]
                 ELSE IF op[h].next = "idle" THEN Idle
                 ELSE [op[h] EXCEPT !.todo = {}, !.pc = op[h].next]
  BY <1>1, <1>2 DEF TypeOK
<1>7. op'[h].pc \in Waiting \union {"idle", "invalidate"}
  BY <1>1, <1>3, <1>6 DEF OpRecords, Idle
<1>8. op[h].todo # {p} => op'[h].todo = op[h].todo \ {p}
  BY <1>1, <1>6 DEF OpRecords
<1>9. \A q \in Plans : disk'[q].status = "planned" => q # p /\ disk[q].status = "planned"
  BY <1>5
<1>10. \A q \in Plans : q # p /\ Holds(h, q) => Holds(h, q)'
  BY <1>2, <1>3, <1>8 DEF Holds
<1>11. QED
  BY <1>3, <1>7, <1>9, <1>10, HeldKept DEF Waiting, Started

\* A command that advances takes over the plans of the session.
LEMMA HeldSupersede ==
  ASSUME Owned, Held, NEW h \in Handlers, NEW next \in Waiting \union {"idle"}, NEW parent \in Nat,
         op[h].pc = "idle", Supersede(h, next, parent), \A g \in Handlers \ {h} : op'[g] = op[g]
  PROVE  Held'
<1>1. TypeOK
  BY DEF Owned
<1>2. op'[h] = [Idle EXCEPT !.pc = IF plans = {} THEN next ELSE "invalidate", !.next = next,
                            !.rev = revision + 1, !.parent = parent, !.todo = plans]
  BY <1>1 DEF Supersede, TypeOK
<1>3. op'[h].pc \in Waiting \union {"idle", "invalidate"} /\ op'[h].todo = plans
  BY <1>2 DEF Idle
<1>4. \A p \in Plans : ~Holds(h, p)
  BY FreeHandler DEF Unstarted, Started
<1>5. disk' = disk
  BY DEF Supersede
<1>6. \A p \in Plans : p \in plans => Holds(h, p)'
  BY <1>3 DEF Holds
<1>7. op'[h].pc \notin Started \union {"record"}
  BY <1>3 DEF Waiting, Started
<1>8. QED
  BY <1>4, <1>5, <1>6, <1>7, HeldQuiet

\* Taking a plan from the session, putting one into it.
LEMMA HeldHandover ==
  ASSUME Owned, Held, NEW h \in Handlers, \A g \in Handlers \ {h} : op'[g] = op[g],
         \/ TakeToCancel(h) \/ TakeToExecute(h) \/ CommitPlan(h) \/ Reinsert(h)
  PROVE  Held'
<1>1. TypeOK
  BY DEF Owned
<1>2. CASE TakeToCancel(h) \/ TakeToExecute(h)
  <2>1. PICK p \in plans, pc \in {"saveCancelled", "saveUnused", "saveExecuting"}, status \in Statuses :
          TakePlan(h, p, pc, status)
    BY <1>2 DEF TakeToCancel, TakeToExecute, Statuses, Ends, Outcomes
  <2>2. op'[h] = [Idle EXCEPT !.pc = pc, !.plan = p, !.status = status]
    BY <1>1, <2>1 DEF TakePlan, TypeOK
  <2>3. op'[h].pc = pc /\ op'[h].plan = p
    BY <2>2 DEF Idle
  <2>4. op[h].pc = "idle" /\ disk' = disk /\ plans' = plans \ {p}
    BY <1>2, <2>1 DEF TakeToCancel, TakeToExecute, Calls, TakePlan, Taken
  <2>5. \A q \in Plans : ~Holds(h, q)
    BY <2>4, FreeHandler DEF Unstarted, Started
  <2>6. \A q \in Plans : q \in plans => q \in plans' \/ Holds(h, q)'
    BY <2>3, <2>4 DEF Holds
  <2>7. QED
    BY <2>3, <2>4, <2>5, <2>6, HeldQuiet DEF Started
<1>3. CASE CommitPlan(h) \/ Reinsert(h)
  <2>1. op[h].pc \in {"commitPlan", "reinsert"} /\ disk' = disk
    BY <1>3 DEF CommitPlan, Reinsert, history
  <2>2. \A q \in Plans : Holds(h, q) => q = op[h].plan
    BY <2>1, InHand DEF Unstarted
  <2>3. CASE plans' = plans \union {op[h].plan} /\ Done(h)
    <3>1. op'[h].pc = "idle"
      BY <1>1, <2>3, WhereTo
    <3>2. \A q \in Plans : q \in plans \/ Holds(h, q) => q \in plans'
      BY <2>2, <2>3
    <3>3. QED
      BY <2>1, <3>1, <3>2, HeldQuiet DEF Started
  <2>4. CASE plans' = plans /\ Goto(h, "saveDropped")
    <3>1. op'[h].pc = "saveDropped" /\ op'[h].plan = op[h].plan
      BY <1>1, <2>4, WhereTo DEF PCs
    <3>2. \A q \in Plans : q \in plans \/ Holds(h, q) => q \in plans' \/ Holds(h, q)'
      BY <2>2, <2>4, <3>1 DEF Holds
    <3>3. QED
      BY <2>1, <3>1, <3>2, HeldQuiet DEF Started
  <2>5. QED
    BY <1>3, <2>3, <2>4 DEF CommitPlan, Reinsert
<1>4. QED
  BY <1>2, <1>3

\* The saves of create_plan, cancel_change_plan and execute_plan.
LEMMA HeldSaves ==
  ASSUME Owned, Held, "lost" \notin StoreFaults, "durable" \notin StoreFaults,
         NEW h \in Handlers, \A g \in Handlers \ {h} : op'[g] = op[g],
         \/ SavePlanned(h) \/ SaveDropped(h) \/ SaveCancelled(h) \/ SaveUnused(h)
         \/ SaveExecuting(h) \/ SaveOutcome(h)
  PROVE  Held'
<1>1. TypeOK /\ op[h] \in OpRecords /\ HandlerOK(h)
  BY DEF Owned, TypeOK, OpRecords
<1>2. PICK p \in Plans : p = op[h].plan
  BY InHand DEF SavePlanned, SaveDropped, SaveCancelled, SaveUnused, SaveExecuting, SaveOutcome,
                Unstarted, Started
<1>3. plans' = plans /\ disk[p].rev \in Nat
  BY <1>1 DEF SavePlanned, SaveDropped, SaveCancelled, SaveUnused, SaveExecuting, SaveOutcome,
              entities, TypeOK
<1>4. CASE SavePlanned(h)
  <2>1. Saves(p, 1, "planned") /\ Goto(h, "commitPlan") /\ op[h].pc = "savePlanned"
    BY <1>2, <1>4, SavesWork DEF SavePlanned
  <2>2. op'[h].pc = "commitPlan" /\ op'[h].plan = p
    BY <1>1, <1>2, <2>1, WhereTo DEF PCs
  <2>3. \A q \in Plans \ {p} : disk'[q] = disk[q]
    BY <1>1, <2>1, SaveDisk DEF Statuses, Ends, Outcomes
  <2>4. Holds(h, p) /\ Holds(h, p)'
    BY <1>2, <2>2 DEF Holds
  <2>5. \A q \in Plans : Holds(h, q) => q = p
    BY <1>2, <2>1, InHand DEF Unstarted
  <2>6. \A q \in Plans : disk'[q].status = "planned" => disk[q].status = "planned" \/ Holds(h, q)
    BY <2>3, <2>4
  <2>7. \A q \in Plans : q \in plans \/ Holds(h, q) => q \in plans' \/ Holds(h, q)'
    BY <1>3, <2>4, <2>5
  <2>8. op'[h].pc \notin Started \union {"record"} /\ op'[h].pc # "saveOutcome"
    BY <2>2 DEF Started
  <2>9. QED
    BY <2>6, <2>7, <2>8, HeldKept
<1>5. CASE SaveDropped(h) \/ SaveCancelled(h) \/ SaveUnused(h) \/ SaveExecuting(h)
  <2>1. PICK status \in {"invalidated", "cancelled", "expired", "executing"} :
          Saves(op[h].plan, 2, status)
    BY <1>1, <1>5, SavesWork DEF SaveDropped, SaveCancelled, SaveUnused, SaveExecuting, HandlerOK
  <2>2. Done(h) \/ Goto(h, "record") \/ Goto(h, "writing")
    BY <1>5, SavesWork DEF SaveDropped, SaveCancelled, SaveUnused, SaveExecuting
  <2>3. op[h].pc \in Unstarted
    BY <1>5 DEF SaveDropped, SaveCancelled, SaveUnused, SaveExecuting, Unstarted
  <2>4. disk[op[h].plan].rev <= 2
    BY <1>2, <2>3, InHand DEF Owned, PlanOK
  <2>5. /\ op'[h].pc \in {"idle", "record", "writing"}
        /\ op'[h].pc \in {"record", "writing"} => op'[h].plan = op[h].plan
    BY <1>1, <2>2, WhereTo DEF PCs
  <2>6. status \in Statuses \ {"planned"} /\ 2 \in Nat /\ 2 >= disk[op[h].plan].rev
    BY <1>2, <1>3, <2>1, <2>4 DEF Statuses, Ends, Outcomes
  <2>7. op'[h].pc \in Started \union {"record"} => op'[h].plan = op[h].plan
    BY <2>5 DEF Started
  <2>8. QED
    BY <1>3, <2>1, <2>3, <2>5, <2>6, <2>7, HeldSaved
<1>6. CASE SaveOutcome(h)
  <2>1. PICK w \in BOOLEAN :
          /\ Saves(op[h].plan, 3, op[h].status)
          /\ op' = [op EXCEPT ![h] = [op[h] EXCEPT
                   !.pc = IF op[h].status = "restored" THEN "restoreSource" ELSE "finish", !.warned = w]]
    BY <1>6, SavesWork DEF SaveOutcome
  <2>2. op'[h] = [op[h] EXCEPT
                   !.pc = IF op[h].status = "restored" THEN "restoreSource" ELSE "finish", !.warned = w]
    BY <1>1, <2>1 DEF TypeOK
  <2>3. op'[h].pc \in {"restoreSource", "finish"} /\ op'[h].plan = op[h].plan
    BY <1>1, <2>2 DEF OpRecords
  <2>4. op[h].pc = "saveOutcome" /\ op[h].status \in Statuses \ {"planned"} /\ disk[op[h].plan].rev = 2
    BY <1>1, <1>6 DEF SaveOutcome, Held, HandlerOK, OpRecords
  <2>5. QED
    BY <1>3, <2>1, <2>3, <2>4, HeldSaved DEF Started
<1>7. QED
  BY <1>4, <1>5, <1>6

\* An execution comes to its verdict, marks its source, and is reported.
LEMMA HeldReports ==
  ASSUME Owned, Held, NEW h \in Handlers, \A g \in Handlers \ {h} : op'[g] = op[g],
         EndOfWriting(h) \/ RestoreSource(h) \/ RecordExecution(h) \/ FinishExecution(h)
  PROVE  Held'
<1>1. TypeOK /\ op[h] \in OpRecords /\ HandlerOK(h)
  BY DEF Owned, TypeOK, OpRecords
<1>2. op[h].pc \in Started \union {"record"} /\ plans' = plans
  BY DEF EndOfWriting, RestoreSource, RecordExecution, FinishExecution, entities, Started
<1>3. PICK p \in Plans : p = op[h].plan
  BY <1>2, InHand DEF Unstarted
<1>4. disk[p].status # "planned" /\ \A q \in Plans : Holds(h, q) => q = p
  BY <1>2, <1>3, InHand DEF Held, Unstarted
<1>5. CASE RecordExecution(h) \/ FinishExecution(h)
  <2>1. Done(h) /\ disk' = disk
    BY <1>5 DEF RecordExecution, FinishExecution, history
  <2>2. op'[h].pc = "idle"
    BY <1>1, <2>1, WhereTo
  <2>3. \A q \in Plans : disk[q].status = "planned" /\ (q \in plans \/ Holds(h, q)) => q \in plans'
    BY <1>2, <1>4
  <2>4. QED
    BY <2>1, <2>2, <2>3, HeldQuiet DEF Started
<1>6. CASE EndOfWriting(h)
  <2>1. disk' = disk
    BY <1>6 DEF EndOfWriting
  <2>2. PICK v \in Verdicts(op[h].plan) :
          op' = [op EXCEPT ![h] = [op[h] EXCEPT !.pc = "saveOutcome", !.status = v]]
    BY <1>6 DEF EndOfWriting
  <2>3. v # "planned"
    BY <2>2 DEF Verdicts
  <2>4. op'[h] = [op[h] EXCEPT !.pc = "saveOutcome", !.status = v]
    BY <1>1, <2>2 DEF TypeOK
  <2>5. op'[h].pc = "saveOutcome" /\ op'[h].status = v /\ op'[h].plan = p
    BY <1>1, <1>3, <2>4 DEF OpRecords
  <2>6. \A q \in Plans : disk[q].status = "planned" /\ (q \in plans \/ Holds(h, q)) => q \in plans'
    BY <1>2, <1>4
  <2>7. QED
    BY <1>4, <2>1, <2>3, <2>5, <2>6, HeldKept
<1>7. CASE RestoreSource(h)
  <2>1. PICK s \in Plans : s = plan[op[h].plan].source
    BY <1>1, <1>7 DEF RestoreSource, HandlerOK
  <2>2. \/ disk' = disk
        \/ Saves(s, disk[s].rev + 1, "restored") \/ FailsToSave(s, disk[s].rev + 1, "restored")
    BY <1>7, <2>1 DEF RestoreSource
  <2>3. disk[s].rev + 1 \in Nat /\ "restored" \in Statuses
    BY <1>1 DEF TypeOK, Statuses, Ends, Outcomes
  <2>4. \A q \in Plans : disk'[q] = disk[q] \/ disk'[q].status = "restored"
    <3>1. CASE disk' = disk
      BY <3>1
    <3>2. CASE Saves(s, disk[s].rev + 1, "restored") \/ FailsToSave(s, disk[s].rev + 1, "restored")
      <4>1. /\ \A q \in Plans \ {s} : disk'[q] = disk[q]
            /\ disk'[s] \in {disk[s], [rev |-> disk[s].rev + 1, status |-> "restored"]}
        BY <1>1, <2>3, <3>2, SaveDisk
      <4>2. QED
        BY <4>1
    <3>3. QED
      BY <2>2, <3>1, <3>2
  <2>5. \A q \in Plans : disk'[q].status = "planned" => disk[q].status = "planned"
    BY <2>4
  <2>6. op'[h].pc = "finish" /\ op'[h].plan = p
    <3>1. CASE Goto(h, "finish")
      BY <1>1, <1>3, <3>1, WhereTo DEF PCs
    <3>2. CASE op' = [op EXCEPT ![h].pc = "finish", ![h].warned = TRUE]
      <4>1. op'[h] = [op[h] EXCEPT !.pc = "finish", !.warned = TRUE]
        BY <1>1, <3>2 DEF TypeOK
      <4>2. QED
        BY <1>1, <1>3, <4>1 DEF OpRecords
    <3>3. QED
      BY <1>7, <3>1, <3>2 DEF RestoreSource
  <2>7. \A q \in Plans : disk'[q].status = "planned" /\ (q \in plans \/ Holds(h, q)) => q \in plans'
    BY <1>2, <1>4, <2>5
  <2>8. disk'[op'[h].plan].status # "planned" /\ op'[h].pc # "saveOutcome"
    BY <1>4, <2>5, <2>6
  <2>9. QED
    BY <2>5, <2>7, <2>8, HeldKept
<1>8. QED
  BY <1>5, <1>6, <1>7

LEMMA HeldStep ==
  ASSUME Owned, Held, "lost" \notin StoreFaults, "durable" \notin StoreFaults,
         "mismatch" \notin Commands, ~MayRestart, [Next]_vars
  PROVE  Held'
<1>1. TypeOK
  BY DEF Owned
<1>2. CASE UNCHANGED vars
  BY <1>2 DEF vars, Held, Holds
<1>3. ASSUME NEW h \in Handlers, Call(h) \/ Proceed(h) PROVE Held'
  <2>1. \A g \in Handlers \ {h} : op'[g] = op[g]
    BY <1>1, <1>3, OneHandler
  <2>2. CASE StartDiscovery(h) \/ SelectAdb(h) \/ StartListing(h) \/ StartDiagnosis(h)
    <3>1. PICK next \in Waiting \union {"idle"}, parent \in Nat : Supersede(h, next, parent)
      BY <1>1, <2>2 DEF StartDiscovery, SelectAdb, StartListing, StartDiagnosis, Waiting, TypeOK
    <3>2. op[h].pc = "idle"
      BY <2>2 DEF StartDiscovery, SelectAdb, StartListing, StartDiagnosis, Calls
    <3>3. QED
      BY <2>1, <3>1, <3>2, HeldSupersede
  <2>3. CASE PreparePin(h) \/ AuthorizePreview(h)
    <3>1. UNCHANGED <<op, disk, plans>>
      BY <2>3 DEF PreparePin, AuthorizePreview, StorePreview
    <3>2. QED
      BY <3>1 DEF Held, Holds
  <2>4. CASE \/ StartValidation(h) \/ PublishStartup(h) \/ PublishDiscovery(h)
             \/ PublishEnumeration(h) \/ PublishDiagnosis(h) \/ PrepareRestore(h)
    <3>1. disk' = disk /\ plans' = plans
      BY <2>4 DEF StartValidation, PublishStartup, PublishDiscovery, PublishEnumeration,
                  PublishDiagnosis, PrepareRestore, StorePreview, entities
    <3>2. Goto(h, "validating") \/ Done(h)
      BY <2>4 DEF StartValidation, PublishStartup, PublishDiscovery, PublishEnumeration,
                  PublishDiagnosis, PrepareRestore
    <3>3. op'[h].pc \in {"validating", "idle"}
      BY <1>1, <3>2, WhereTo DEF PCs
    <3>4. op[h].pc \in Waiting \union {"idle", "validating", "loaded"}
      BY <2>4 DEF StartValidation, Calls, PublishStartup, PublishDiscovery, PublishEnumeration,
                  PublishDiagnosis, PrepareRestore, Waiting
    <3>5. QED
      BY <2>1, <3>1, <3>3, <3>4, HeldFree DEF Waiting, Unstarted, Started
  <2>5. CASE LoadSource(h) \/ CopyPreview(h)
    <3>1. op[h].pc = "idle" /\ disk' = disk /\ plans' = plans
      BY <2>5 DEF LoadSource, CopyPreview, Calls, entities
    <3>2. op'[h].pc \in {"loaded", "savePlanned"}
      <4>1. CASE LoadSource(h)
        <5>1. PICK p \in Plans :
                op' = [op EXCEPT ![h] = [Idle EXCEPT !.pc = "loaded", !.source = p, !.parent = latest]]
          BY <4>1 DEF LoadSource
        <5>2. op'[h] = [Idle EXCEPT !.pc = "loaded", !.source = p, !.parent = latest]
          BY <1>1, <5>1 DEF TypeOK
        <5>3. QED
          BY <5>2 DEF Idle
      <4>2. CASE CopyPreview(h)
        <5>1. PICK p \in Fresh :
                op' = [op EXCEPT ![h] = [Idle EXCEPT !.pc = "savePlanned", !.plan = p,
                                           !.rev = revision, !.seen = preview.rev]]
          BY <4>2 DEF CopyPreview
        <5>2. op'[h] = [Idle EXCEPT !.pc = "savePlanned", !.plan = p, !.rev = revision, !.seen = preview.rev]
          BY <1>1, <5>1 DEF TypeOK
        <5>3. QED
          BY <5>2 DEF Idle
      <4>3. QED
        BY <2>5, <4>1, <4>2
    <3>3. QED
      BY <2>1, <3>1, <3>2, HeldFree DEF Unstarted, Started
  <2>6. ~TakeWrongKind(h)
    BY DEF TakeWrongKind, Calls
  <2>7. QED
    BY <1>3, <2>1, <2>2, <2>3, <2>4, <2>5, <2>6, HeldInvalidate, HeldHandover, HeldSaves, HeldReports
       DEF Call, Proceed
<1>4. QED
  BY <1>2, <1>3 DEF Next, Restart

\* While the store saves, no plan is called by the wrong command and the
\* application keeps running, the record of a planned change nobody can execute
\* any more is closed, whatever commands overtake each other: create_plan closes
\* the one it cannot commit, a command that advances those of the session.
THEOREM PlannedHeld ==
  /\ "lost" \notin StoreFaults /\ "durable" \notin StoreFaults
  /\ "mismatch" \notin Commands
  /\ ~MayRestart
  => (Spec => []PlannedIsHeld)
<1> SUFFICES ASSUME "lost" \notin StoreFaults, "durable" \notin StoreFaults,
                    "mismatch" \notin Commands, ~MayRestart
             PROVE  Spec => []PlannedIsHeld
  OBVIOUS
<1>1. Init => Held
  BY InitHeld
<1>2. Held /\ (Owned /\ Named) /\ [Next]_vars => Held'
  BY HeldStep
<1>3. Held => PlannedIsHeld
  BY DEF Held, Holds, PlannedIsHeld
<1>4. QED
  BY <1>1, <1>2, <1>3, Invariance, PTL DEF Spec
=============================================================================
