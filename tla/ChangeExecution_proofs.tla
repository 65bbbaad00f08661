----------------------- MODULE ChangeExecution_proofs -----------------------
(***************************************************************************)
(* Proofs about ChangeExecution, for every set of values a managed setting *)
(* can hold.  All of them rest on one inductive invariant, Inv: where the  *)
(* call is determines what it has checked, what it has written and, as     *)
(* long as nobody else writes, what the device holds.                      *)
(***************************************************************************)
EXTENDS ChangeExecution, TLAPS

Reading == {"start", "context", "readEnabled", "readPrimary", "verify"}
Observing == {"observeEnabled", "observePrimary"}

\* The verdict is open until the call returns; before the check nothing has
\* happened, after it the check has succeeded.
Progress ==
  /\ verdict = "open" <=> pc # "done"
  /\ pc = "start" => ~disturbed
  /\ pc \in Reading => /\ ~touched
                       /\ phase = "apply"
                       /\ step = 1
                       /\ stepsOk
                       /\ undone = {}
  /\ pc \in {"write", "confirm"} \union Observing => contextSeen /\ seen = plan.before
  /\ touched => contextSeen /\ seen = plan.before
  /\ pc = "confirm" => touched
  /\ phase = "recover" => touched
  /\ phase = "apply" => stepsOk /\ undone = {}
  /\ pc \in Observing => phase = "recover"
  /\ pc = "write" /\ phase = "apply" /\ step = 2 => touched
  /\ verdict = "rejected" => ~touched
  /\ verdict = "applied" => phase = "apply"
  /\ verdict = "recovered" => phase = "recover" /\ stepsOk
  /\ verdict = "recoveryFailed" => phase = "recover"

\* Recovery goes through its two keys in order and leaves none out.
Undoing ==
  phase = "recover" =>
    /\ step = 1 => pc \in {"write", "confirm"}
    /\ step = 1 /\ pc = "confirm" => "primary" \in undone
    /\ step = 2 => "primary" \in undone
    /\ pc \in Observing \union {"done"} => undone = Keys
    /\ pc = "confirm" /\ step = 2 => undone = Keys

\* What the device holds while nobody else writes: what was read, then the
\* keys that were confirmed.
Holds ==
  ~disturbed =>
    /\ pc \in {"readPrimary", "verify"} =>
         seen["enabled"] \in {managed["enabled"], Unavailable}
    /\ pc = "verify" => seen["primary"] \in {managed["primary"], Unavailable}
    /\ phase = "apply" /\ step = 1 /\ pc = "write" => managed = plan.before
    /\ phase = "apply" /\ step = 1 /\ pc = "confirm" /\ plan.kind = "pin" =>
         managed["primary"] = plan.before["primary"]
    /\ phase = "apply" /\ step = 2 /\ pc \in {"write", "confirm"} =>
         managed[ApplyOrder(plan.kind)[1]] = plan.after[ApplyOrder(plan.kind)[1]]
    /\ verdict = "applied" => managed = plan.after
    /\ phase = "recover" /\ plan.kind = "pin" /\ step = 1 =>
         \/ managed["primary"] = plan.before["primary"]
         \/ managed["enabled"] = plan.after["enabled"]
    /\ phase = "recover" /\ stepsOk /\ step = 2 =>
         managed["primary"] = plan.before["primary"]
    /\ phase = "recover" /\ stepsOk /\ pc \in Observing \union {"done"} =>
         managed = plan.before
    /\ phase = "recover" /\ stepsOk /\ pc \in {"observePrimary", "done"} =>
         observed["enabled"] = plan.before["enabled"]
    /\ phase = "recover" /\ stepsOk /\ pc = "done" =>
         observed["primary"] = plan.before["primary"]

Inv == TypeOK /\ Progress /\ Undoing /\ Holds

-----------------------------------------------------------------------------
(* Lemmas on the order of the writes.                                      *)

\* Which key comes first, for each kind of plan and for recovery.
LEMMA OrderOfKeys ==
  /\ ApplyOrder("pin")[1] = "enabled" /\ ApplyOrder("pin")[2] = "primary"
  /\ ApplyOrder("restore")[1] = "primary" /\ ApplyOrder("restore")[2] = "enabled"
  /\ RecoveryOrder[1] = "primary" /\ RecoveryOrder[2] = "enabled"
BY DEF ApplyOrder, RecoveryOrder

\* The parts of a plan.
LEMMA PlanParts ==
  ASSUME plan \in Plans
  PROVE  /\ plan.kind \in {"pin", "restore"}
         /\ plan.before \in States
         /\ plan.after \in States
BY DEF Plans

\* The step writes one of the two keys, to a value of the planned states.
LEMMA CurrentKeyType ==
  ASSUME TypeOK
  PROVE  CurrentKey \in Keys /\ Desired \in Values
<1>1. plan.kind \in {"pin", "restore"} /\ plan.before \in States /\ plan.after \in States
  BY PlanParts DEF TypeOK
<1>2. step = 1 \/ step = 2
  BY DEF TypeOK
<1>3. CurrentKey \in Keys
  BY <1>1, <1>2, OrderOfKeys DEF TypeOK, CurrentKey, Keys
<1>4. QED
  BY <1>1, <1>3 DEF TypeOK, Desired, States

-----------------------------------------------------------------------------
(* Type correctness.                                                       *)

LEMMA InitTypeOK == Init => TypeOK
<1>1. SUFFICES ASSUME Init PROVE TypeOK
  OBVIOUS
<1>2. plan.before \in States
  BY <1>1, PlanParts DEF Init
<1>3. seen \in [Keys -> Values \union {Unavailable}] /\ undone \in SUBSET Keys
  BY <1>1 DEF Init
<1>4. touched \in BOOLEAN /\ disturbed \in BOOLEAN /\ contextSeen \in BOOLEAN
      /\ stepsOk \in BOOLEAN /\ context \in BOOLEAN
  BY <1>1 DEF Init
<1>5. QED
  BY <1>1, <1>2, <1>3, <1>4 DEF Init, TypeOK, PCs, Verdicts

\* A step that failed or succeeded leaves the position of the call well-typed.
LEMMA StepTypes ==
  ASSUME TypeOK, StepFailed \/ StepSucceeded
  PROVE  /\ pc' \in PCs
         /\ phase' \in {"apply", "recover"}
         /\ step' \in 1..2
         /\ stepsOk' \in BOOLEAN
         /\ observed' \in States
         /\ verdict' \in Verdicts
<1>1. plan.after \in States
  BY PlanParts DEF TypeOK
<1>2. CASE StepFailed
  <2>1. CASE phase = "apply"
    BY <1>2, <2>1 DEF StepFailed, TypeOK, PCs
  <2>2. CASE phase = "recover"
    <3>1. pc' \in PCs /\ step' \in 1..2
      BY <1>2, <2>2 DEF StepFailed, NextRecoveryStep, PCs
    <3>2. stepsOk' = FALSE /\ UNCHANGED <<phase, observed, verdict>>
      BY <1>2, <2>2 DEF StepFailed, NextRecoveryStep
    <3>3. QED
      BY <3>1, <3>2 DEF TypeOK
  <2>3. QED
    BY <2>1, <2>2 DEF TypeOK
<1>3. CASE StepSucceeded
  BY <1>1, <1>3 DEF StepSucceeded, NextRecoveryStep, Return, TypeOK, PCs, Verdicts
<1>4. QED
  BY <1>2, <1>3

LEMMA StepTypeOK == TypeOK /\ [Next]_vars => TypeOK'
<1>1. SUFFICES ASSUME TypeOK, [Next]_vars PROVE TypeOK'
  OBVIOUS
<1> USE <1>1
<1>2. plan.before \in States /\ plan.after \in States
  BY PlanParts DEF TypeOK
<1>3. ASSUME Reject PROVE TypeOK'
  BY <1>3 DEF Reject, Return, TypeOK, device, history, PCs, Verdicts
<1>4. CASE CheckExpiry
  BY <1>3, <1>4 DEF CheckExpiry, TypeOK, device, history, PCs
<1>5. CASE ReadContext
  BY <1>3, <1>5 DEF ReadContext, TypeOK, device, history, PCs
<1>6. ASSUME NEW k \in Keys, NEW here, NEW next \in PCs, ReadSetting(k, here, next)
      PROVE  TypeOK'
  BY <1>6 DEF ReadSetting, TypeOK, States, device, history, PCs
<1>7. CASE VerifyPlanState
  BY <1>3, <1>7 DEF VerifyPlanState, TypeOK, device, history, PCs
<1>8. CASE Write
  <2>1. managed' \in States
    BY <1>8, CurrentKeyType DEF Write, TypeOK, States
  <2>2. touched' \in BOOLEAN /\ undone' \in SUBSET Keys
    BY <1>8, CurrentKeyType DEF Write, Issued, TypeOK
  <2>3. /\ pc' \in PCs /\ phase' \in {"apply", "recover"} /\ step' \in 1..2
        /\ stepsOk' \in BOOLEAN /\ observed' \in States /\ verdict' \in Verdicts
    BY <1>8, StepTypes DEF Write, TypeOK, PCs
  <2>4. QED
    BY <1>8, <2>1, <2>2, <2>3 DEF Write, TypeOK
<1>9. CASE Confirm
  BY <1>9, StepTypes DEF Confirm, TypeOK, device, history
<1>10. CASE ObserveEnabled
  BY <1>2, <1>10 DEF ObserveEnabled, Observe, TypeOK, States, Keys, device, history, PCs
<1>11. CASE ObservePrimary
  BY <1>2, <1>11
  DEF ObservePrimary, Observe, Return, TypeOK, States, Keys, device, history, PCs, Verdicts
<1>12. CASE Drift
  BY <1>12 DEF Drift, TypeOK, States
<1>13. CASE ContextDrift
  BY <1>13 DEF ContextDrift, TypeOK, history
<1>14. CASE UNCHANGED vars
  BY <1>14 DEF vars, TypeOK
<1>15. QED
  BY <1>4, <1>5, <1>6, <1>7, <1>8, <1>9, <1>10, <1>11, <1>12, <1>13, <1>14
  DEF Next, Call, Keys, PCs

\* Every variable keeps its type: in particular a plan never changes and the
\* list of steps is never left at a position it does not have.
THEOREM TypeCorrect == Spec => []TypeOK
<1>1. Init => TypeOK
  BY InitTypeOK
<1>2. TypeOK /\ [Next]_vars => TypeOK'
  BY StepTypeOK
<1>3. QED
  BY <1>1, <1>2, PTL DEF Spec

-----------------------------------------------------------------------------
(* The inductive invariant.                                                *)

LEMMA InitInv == Init => Inv
<1>1. SUFFICES ASSUME Init PROVE Inv
  OBVIOUS
<1>2. TypeOK
  BY <1>1, InitTypeOK
<1>3. Progress
  BY <1>1 DEF Init, Progress, Reading, Observing
<1>4. Undoing /\ Holds
  BY <1>1 DEF Init, Undoing, Holds
<1>5. QED
  BY <1>2, <1>3, <1>4 DEF Inv

LEMMA StepProgress == Inv /\ [Next]_vars => Progress'
<1>1. SUFFICES ASSUME Inv, [Next]_vars PROVE Progress'
  OBVIOUS
<1> USE <1>1
<1>2. TypeOK /\ Progress
  BY DEF Inv
<1>3. ASSUME Reject, pc \in Reading PROVE Progress'
  BY <1>2, <1>3 DEF Reject, Return, Progress, Reading, Observing, device, history
<1>4. CASE CheckExpiry
  <2>1. CASE Reject
    BY <1>3, <1>4, <2>1 DEF CheckExpiry, Reading
  <2>2. CASE ~Reject
    <3>1. /\ pc = "start" /\ pc' = "context"
          /\ UNCHANGED <<plan, phase, step, contextSeen, seen, stepsOk, verdict,
                         touched, disturbed, undone>>
      BY <1>4, <2>2 DEF CheckExpiry, history
    <3>2. QED
      BY <1>2, <3>1 DEF Progress, Reading, Observing
  <2>3. QED
    BY <2>1, <2>2
<1>5. CASE ReadContext
  <2>1. CASE Reject
    BY <1>3, <1>5, <2>1 DEF ReadContext, Reading
  <2>2. CASE ~Reject
    <3>1. /\ pc = "context" /\ pc' = "readEnabled"
          /\ UNCHANGED <<plan, phase, step, seen, stepsOk, verdict,
                         touched, disturbed, undone>>
      BY <1>5, <2>2 DEF ReadContext, history
    <3>2. QED
      BY <1>2, <3>1 DEF Progress, Reading, Observing
  <2>3. QED
    BY <2>1, <2>2
<1>6. CASE ReadSetting("enabled", "readEnabled", "readPrimary")
  BY <1>2, <1>6 DEF ReadSetting, Progress, Reading, Observing, device, history
<1>7. CASE ReadSetting("primary", "readPrimary", "verify")
  BY <1>2, <1>7 DEF ReadSetting, Progress, Reading, Observing, device, history
<1>8. CASE VerifyPlanState
  <2>1. CASE Reject
    BY <1>3, <1>8, <2>1 DEF VerifyPlanState, Reading
  <2>2. CASE ~Reject
    <3>1. /\ pc = "verify" /\ pc' = "write" /\ contextSeen /\ seen = plan.before
          /\ UNCHANGED <<plan, phase, step, contextSeen, seen, stepsOk, verdict,
                         touched, disturbed, undone>>
      BY <1>8, <2>2 DEF VerifyPlanState, PlanStateHolds, history
    <3>2. QED
      BY <1>2, <3>1 DEF Progress, Reading, Observing
  <2>3. QED
    BY <2>1, <2>2
<1>9. CASE Write
  <2>1. pc = "write" /\ touched' = TRUE /\ UNCHANGED <<plan, contextSeen, seen, disturbed>>
    BY <1>9 DEF Write, Issued
  <2>2. CASE pc' = "confirm" /\ UNCHANGED <<phase, step, stepsOk, observed, verdict>>
    BY <1>2, <1>9, <2>1, <2>2 DEF Write, Issued, Progress, Reading, Observing
  <2>3. CASE StepFailed
    BY <1>2, <1>9, <2>1, <2>3
    DEF StepFailed, NextRecoveryStep, Write, Issued, Progress, Reading, Observing, TypeOK
  <2>4. QED
    BY <1>9, <2>2, <2>3 DEF Write
<1>10. CASE Confirm
  <2>1. pc = "confirm" /\ UNCHANGED <<plan, contextSeen, seen, touched, disturbed, undone>>
    BY <1>10 DEF Confirm, history
  <2>2. CASE StepSucceeded
    BY <1>2, <2>1, <2>2
    DEF StepSucceeded, NextRecoveryStep, Return, Progress, Reading, Observing, TypeOK
  <2>3. CASE StepFailed
    BY <1>2, <2>1, <2>3
    DEF StepFailed, NextRecoveryStep, Progress, Reading, Observing, TypeOK
  <2>4. QED
    BY <1>10, <2>2, <2>3 DEF Confirm
<1>11. CASE ObserveEnabled
  BY <1>2, <1>11 DEF ObserveEnabled, Observe, Progress, Reading, Observing, device, history
<1>12. CASE ObservePrimary
  BY <1>2, <1>12
  DEF ObservePrimary, Observe, Return, Progress, Reading, Observing, device, history
<1>13. CASE Drift
  BY <1>2, <1>13 DEF Drift, Progress, Reading, Observing
<1>14. CASE ContextDrift
  BY <1>2, <1>14 DEF ContextDrift, Progress, Reading, Observing, history
<1>15. CASE UNCHANGED vars
  BY <1>2, <1>15 DEF vars, Progress, Reading, Observing
<1>16. QED
  BY <1>4, <1>5, <1>6, <1>7, <1>8, <1>9, <1>10, <1>11, <1>12, <1>13, <1>14, <1>15
  DEF Next, Call

LEMMA StepUndoing == Inv /\ [Next]_vars => Undoing'
<1>1. SUFFICES ASSUME Inv, [Next]_vars PROVE Undoing'
  OBVIOUS
<1> USE <1>1
<1>2. TypeOK /\ Progress /\ Undoing
  BY DEF Inv
<1>3. ASSUME pc \in Reading, phase' = phase PROVE Undoing'
  BY <1>2, <1>3 DEF Undoing, Progress
<1>4. CASE CheckExpiry \/ ReadContext \/ VerifyPlanState
  BY <1>3, <1>4 DEF CheckExpiry, ReadContext, VerifyPlanState, Reject, Reading
<1>5. CASE \/ ReadSetting("enabled", "readEnabled", "readPrimary")
           \/ ReadSetting("primary", "readPrimary", "verify")
  BY <1>3, <1>5 DEF ReadSetting, Reading
<1>6. CASE Write
  <2>1. CASE phase = "apply"
    BY <1>2, <1>6, <2>1 DEF Write, StepFailed, Undoing, Observing
  <2>2. CASE phase = "recover"
    <3>1. undone' = undone \union {CurrentKey} /\ undone \subseteq Keys
      BY <1>2, <1>6, <2>2 DEF Write, Issued, TypeOK
    <3>2. CurrentKey = IF step = 1 THEN "primary" ELSE "enabled"
      BY <1>2, <2>2, OrderOfKeys DEF TypeOK, CurrentKey
    <3>3. step = 2 => undone' = Keys
      <4>1. ASSUME step = 2 PROVE "primary" \in undone' /\ "enabled" \in undone'
        BY <1>2, <2>2, <3>1, <3>2, <4>1 DEF Undoing
      <4>2. undone' \subseteq Keys
        BY <1>2, <3>1, CurrentKeyType
      <4>3. QED
        BY <4>1, <4>2 DEF Keys
    <3>4. step = 1 => "primary" \in undone'
      BY <3>1, <3>2
    <3>5. QED
      BY <1>2, <1>6, <2>2, <3>3, <3>4
      DEF Write, StepFailed, NextRecoveryStep, Undoing, Observing, Keys, TypeOK
  <2>3. QED
    BY <1>2, <2>1, <2>2 DEF TypeOK
<1>7. CASE Confirm
  <2>1. pc = "confirm" /\ undone' = undone
    BY <1>7 DEF Confirm, history
  <2>2. CASE StepSucceeded
    BY <1>2, <2>1, <2>2
    DEF StepSucceeded, NextRecoveryStep, Return, Undoing, Observing, Progress, TypeOK, Keys
  <2>3. CASE StepFailed
    BY <1>2, <2>1, <2>3
    DEF StepFailed, NextRecoveryStep, Undoing, Observing, Progress, TypeOK, Keys
  <2>4. QED
    BY <1>7, <2>2, <2>3 DEF Confirm
<1>8. CASE ObserveEnabled
  BY <1>2, <1>8 DEF ObserveEnabled, Observe, Undoing, Observing, history
<1>9. CASE ObservePrimary
  BY <1>2, <1>9 DEF ObservePrimary, Observe, Return, Undoing, Observing, history
<1>10. CASE Drift
  BY <1>2, <1>10 DEF Drift, Undoing
<1>11. CASE ContextDrift
  BY <1>2, <1>11 DEF ContextDrift, Undoing, history
<1>12. CASE UNCHANGED vars
  BY <1>2, <1>12 DEF vars, Undoing
<1>13. QED
  BY <1>4, <1>5, <1>6, <1>7, <1>8, <1>9, <1>10, <1>11, <1>12 DEF Next, Call

\* The device after a writing command of a pin or a restore: the other key is
\* as before, and the written one is as before or as desired.
LEMMA WriteEffect ==
  ASSUME TypeOK, Write
  PROVE  /\ managed' \in States
         /\ \A k \in Keys \ {CurrentKey} : managed'[k] = managed[k]
         /\ managed'[CurrentKey] \in {managed[CurrentKey], Desired}
BY CurrentKeyType DEF Write, TypeOK, States

\* Two states of the settings are equal when they agree on both keys.
LEMMA SameState ==
  ASSUME NEW s \in States, NEW t \in States,
         s["enabled"] = t["enabled"], s["primary"] = t["primary"]
  PROVE  s = t
BY DEF States, Keys

LEMMA StepHolds == Inv /\ [Next]_vars => Holds'
<1>1. SUFFICES ASSUME Inv, [Next]_vars, ~disturbed' PROVE Holds'
  BY DEF Holds
<1> USE <1>1
<1>2. TypeOK /\ Progress /\ Undoing /\ Holds /\ TypeOK'
  BY StepTypeOK DEF Inv
<1>3. /\ plan.kind \in {"pin", "restore"} /\ plan.before \in States /\ plan.after \in States
      /\ managed \in States
  BY <1>2, PlanParts DEF TypeOK
<1>4. CASE CheckExpiry \/ ReadContext
  BY <1>2, <1>4
  DEF CheckExpiry, ReadContext, Reject, Return, Holds, Progress, Reading, Observing, device, history
<1>5. CASE ReadSetting("enabled", "readEnabled", "readPrimary")
  BY <1>2, <1>5 DEF ReadSetting, Holds, Progress, Reading, Observing, TypeOK, Keys, device, history
<1>6. CASE ReadSetting("primary", "readPrimary", "verify")
  BY <1>2, <1>6 DEF ReadSetting, Holds, Progress, Reading, Observing, TypeOK, Keys, device, history
<1>7. CASE VerifyPlanState
  <2>1. pc = "verify" /\ UNCHANGED <<managed, plan, phase, step, disturbed, stepsOk>>
    BY <1>7 DEF VerifyPlanState, Reject, device, history
  <2>2. CASE PlanStateHolds
    <3>1. managed = plan.before
      BY <1>2, <1>3, <2>1, <2>2, SameState, UnavailableAssumption
      DEF PlanStateHolds, Holds, States, Keys
    <3>2. QED
      BY <1>2, <1>7, <2>1, <2>2, <3>1
      DEF VerifyPlanState, Reject, Holds, Progress, Reading, Observing
  <2>3. CASE ~PlanStateHolds
    BY <1>2, <1>7, <2>1, <2>3
    DEF VerifyPlanState, Reject, Return, Holds, Progress, Reading, Observing
  <2>4. QED
    BY <2>2, <2>3
<1>8. CASE Write
  <2>1. /\ pc = "write" /\ UNCHANGED <<plan, seen, disturbed>> /\ ~disturbed
        /\ \/ pc' = "confirm" /\ UNCHANGED <<phase, step, stepsOk, observed, verdict>>
           \/ StepFailed
    BY <1>8 DEF Write
  <2>2. /\ \A k \in Keys \ {CurrentKey} : managed'[k] = managed[k]
        /\ managed'[CurrentKey] \in {managed[CurrentKey], Desired}
    BY <1>2, <1>8, WriteEffect
  <2>3. CASE phase = "apply" /\ step = 1
    <3>1. plan.kind = "pin" => managed'["primary"] = plan.before["primary"]
      BY <1>2, <2>1, <2>2, <2>3, OrderOfKeys DEF Holds, CurrentKey, Keys
    <3>2. QED
      <4>1. CASE pc' = "confirm" /\ UNCHANGED <<phase, step, stepsOk, observed, verdict>>
        BY <1>2, <2>1, <2>3, <3>1, <4>1 DEF Holds, Progress, Observing
      <4>2. CASE StepFailed
        BY <1>2, <2>1, <2>3, <3>1, <4>2 DEF Holds, StepFailed, Progress, Observing
      <4>3. QED
        BY <2>1, <4>1, <4>2
  <2>4. CASE phase = "apply" /\ step = 2
    <3>1. managed'[ApplyOrder(plan.kind)[1]] = plan.after[ApplyOrder(plan.kind)[1]]
      BY <1>2, <1>3, <2>1, <2>2, <2>4, OrderOfKeys DEF Holds, CurrentKey, Keys
    <3>2. plan.kind = "pin" => managed'["enabled"] = plan.after["enabled"]
      BY <3>1, OrderOfKeys
    <3>3. QED
      <4>1. CASE pc' = "confirm" /\ UNCHANGED <<phase, step, stepsOk, observed, verdict>>
        BY <1>2, <2>1, <2>4, <3>1, <4>1 DEF Holds, Progress, Observing
      <4>2. CASE StepFailed
        BY <1>2, <2>1, <2>4, <3>2, <4>2 DEF Holds, StepFailed, Progress, Observing
      <4>3. QED
        BY <2>1, <4>1, <4>2
  <2>5. CASE phase = "recover" /\ step = 1
    <3>1. CurrentKey = "primary" /\ Desired = plan.before["primary"]
      BY <2>5, OrderOfKeys DEF CurrentKey, Desired
    <3>2. plan.kind = "pin" => \/ managed'["primary"] = plan.before["primary"]
                               \/ managed'["enabled"] = plan.after["enabled"]
      BY <1>2, <2>1, <2>2, <2>5, <3>1 DEF Holds, Keys
    <3>3. QED
      BY <1>2, <2>1, <2>5, <3>2
      DEF Holds, StepFailed, NextRecoveryStep, Progress, Reading, Observing
  <2>6. CASE phase = "recover" /\ step = 2
    <3>1. CurrentKey = "enabled"
      BY <2>6, OrderOfKeys DEF CurrentKey
    <3>2. stepsOk => managed'["primary"] = plan.before["primary"]
      BY <1>2, <2>1, <2>2, <2>6, <3>1 DEF Holds, Keys
    <3>3. QED
      BY <1>2, <2>1, <2>6, <3>2
      DEF Holds, StepFailed, NextRecoveryStep, Progress, Reading, Observing
  <2>7. QED
    BY <1>2, <2>3, <2>4, <2>5, <2>6 DEF TypeOK
<1>9. CASE Confirm
  <2>1. /\ pc = "confirm" /\ UNCHANGED <<managed, plan, seen, disturbed>> /\ ~disturbed
        /\ \/ managed[CurrentKey] = Desired /\ StepSucceeded
           \/ StepFailed
    BY <1>9 DEF Confirm, device, history
  <2>2. CASE StepFailed
    <3>1. CASE phase = "apply"
      <4>1. plan.kind = "pin" => \/ managed["primary"] = plan.before["primary"]
                                 \/ managed["enabled"] = plan.after["enabled"]
        BY <1>2, <2>1, <3>1, OrderOfKeys DEF Holds, TypeOK
      <4>2. QED
        BY <1>2, <2>1, <2>2, <3>1, <4>1 DEF Holds, StepFailed, Progress, Observing
    <3>2. CASE phase = "recover"
      BY <1>2, <2>1, <2>2, <3>2 DEF Holds, StepFailed, NextRecoveryStep, Progress, Observing
    <3>3. QED
      BY <1>2, <3>1, <3>2 DEF TypeOK
  <2>3. CASE managed[CurrentKey] = Desired /\ StepSucceeded
    <3>1. CASE phase = "apply" /\ step = 1
      <4>1. managed[ApplyOrder(plan.kind)[1]] = plan.after[ApplyOrder(plan.kind)[1]]
        BY <2>3, <3>1 DEF CurrentKey, Desired
      <4>2. QED
        BY <1>2, <2>1, <2>3, <3>1, <4>1 DEF Holds, StepSucceeded, Progress, Observing
    <3>2. CASE phase = "apply" /\ step = 2
      <4>1. /\ managed[ApplyOrder(plan.kind)[1]] = plan.after[ApplyOrder(plan.kind)[1]]
            /\ managed[ApplyOrder(plan.kind)[2]] = plan.after[ApplyOrder(plan.kind)[2]]
        BY <1>2, <2>1, <2>3, <3>2 DEF Holds, CurrentKey, Desired
      <4>2. managed = plan.after
        BY <1>3, <4>1, OrderOfKeys, SameState
      <4>3. QED
        BY <1>2, <2>1, <2>3, <3>2, <4>2
        DEF Holds, StepSucceeded, Return, Progress, Observing
    <3>3. CASE phase = "recover" /\ step = 1
      <4>1. managed["primary"] = plan.before["primary"]
        BY <2>3, <3>3, OrderOfKeys DEF CurrentKey, Desired
      <4>2. QED
        BY <1>2, <2>1, <2>3, <3>3, <4>1
        DEF Holds, StepSucceeded, NextRecoveryStep, Progress, Observing
    <3>4. CASE phase = "recover" /\ step = 2
      <4>1. managed["enabled"] = plan.before["enabled"]
        BY <2>3, <3>4, OrderOfKeys DEF CurrentKey, Desired
      <4>2. stepsOk => managed = plan.before
        BY <1>2, <1>3, <2>1, <3>4, <4>1, SameState DEF Holds
      <4>3. QED
        BY <1>2, <2>1, <2>3, <3>4, <4>2
        DEF Holds, StepSucceeded, NextRecoveryStep, Progress, Observing
    <3>5. QED
      BY <1>2, <3>1, <3>2, <3>3, <3>4 DEF TypeOK
  <2>4. QED
    BY <2>1, <2>2, <2>3
<1>10. CASE ObserveEnabled
  <2>1. /\ pc = "observeEnabled" /\ pc' = "observePrimary" /\ phase = "recover"
        /\ UNCHANGED <<managed, plan, phase, step, seen, stepsOk, disturbed, verdict>>
    BY <1>2, <1>10 DEF ObserveEnabled, Observe, Progress, Observing, device, history
  <2>2. stepsOk => observed'["enabled"] = plan.before["enabled"]
    BY <1>2, <1>10, <2>1
    DEF ObserveEnabled, Observe, Holds, Observing, TypeOK, States, Keys
  <2>3. QED
    BY <1>2, <2>1, <2>2 DEF Holds, Progress, Observing
<1>11. CASE ObservePrimary
  <2>1. /\ pc = "observePrimary" /\ pc' = "done" /\ phase = "recover"
        /\ UNCHANGED <<managed, plan, phase, step, seen, stepsOk, disturbed>>
        /\ verdict' = IF stepsOk THEN "recovered" ELSE "recoveryFailed"
    BY <1>2, <1>11 DEF ObservePrimary, Observe, Return, Progress, Observing, device, history
  <2>2. stepsOk => /\ observed'["enabled"] = plan.before["enabled"]
                   /\ observed'["primary"] = plan.before["primary"]
    BY <1>2, <1>11, <2>1
    DEF ObservePrimary, Observe, Holds, Observing, TypeOK, States, Keys
  <2>3. QED
    BY <1>2, <2>1, <2>2 DEF Holds, Progress, Observing
<1>12. CASE Drift
  BY <1>2, <1>12 DEF Drift, Holds, Progress, Reading, Observing
<1>13. CASE ContextDrift
  BY <1>2, <1>13 DEF ContextDrift, Holds, history
<1>14. CASE UNCHANGED vars
  BY <1>2, <1>14 DEF vars, Holds
<1>15. QED
  BY <1>4, <1>5, <1>6, <1>7, <1>8, <1>9, <1>10, <1>11, <1>12, <1>13, <1>14 DEF Next, Call

\* Inv holds in every state a call can be in.
THEOREM Invariance == Spec => []Inv
<1>1. Init => Inv
  BY InitInv
<1>2. Inv /\ [Next]_vars => Inv'
  BY StepTypeOK, StepProgress, StepUndoing, StepHolds DEF Inv
<1>3. QED
  BY <1>1, <1>2, PTL DEF Spec

-----------------------------------------------------------------------------
(* What follows from the invariant.                                        *)

\* A write is never issued unless the device was found in the planned state.
THEOREM ChecksBeforeTouching == Spec => []VerifiedBeforeTouch
<1>1. Inv => VerifiedBeforeTouch
  BY DEF Inv, Progress, VerifiedBeforeTouch
<1>2. QED
  BY <1>1, Invariance, PTL

LEMMA InvPrimary == Inv => PrimaryStaysEnabled
<1>1. SUFFICES ASSUME Inv, plan.kind = "pin", touched, ~disturbed, stepsOk
               PROVE  \/ managed["primary"] = plan.before["primary"]
                      \/ managed["enabled"] = plan.after["enabled"]
  BY DEF PrimaryStaysEnabled
<1> USE <1>1
<1>2. TypeOK /\ Progress /\ Holds
  BY DEF Inv
<1>3. pc \in {"write", "confirm", "observeEnabled", "observePrimary", "done"}
  BY <1>2 DEF TypeOK, PCs, Progress, Reading
<1>4. CASE phase = "recover"
  BY <1>2, <1>4 DEF TypeOK, Holds
<1>5. CASE phase = "apply" /\ pc = "done"
  <2>1. verdict = "applied"
    BY <1>2, <1>5 DEF TypeOK, Verdicts, Progress
  <2>2. QED
    BY <1>2, <2>1 DEF Holds
<1>6. CASE phase = "apply" /\ step = 1 /\ pc \in {"write", "confirm"}
  BY <1>2, <1>6 DEF Holds
<1>7. CASE phase = "apply" /\ step = 2 /\ pc \in {"write", "confirm"}
  BY <1>2, <1>7, OrderOfKeys DEF Holds
<1>8. QED
  BY <1>2, <1>3, <1>4, <1>5, <1>6, <1>7 DEF TypeOK, Progress, Observing

\* A pin never leaves its target primary without being enabled, between any two
\* commands, for every before-state and target.
THEOREM PrimaryIsEnabled == Spec => []PrimaryStaysEnabled
BY InvPrimary, Invariance, PTL

\* A call that ends in recovery has tried to put back both keys.
THEOREM RecoversBothKeys == Spec => []RecoveryCoversBothKeys
<1>1. ASSUME Inv, verdict \in {"recovered", "recoveryFailed"} PROVE undone = Keys
  BY <1>1 DEF Inv, Progress, Undoing
<1>2. Inv => RecoveryCoversBothKeys
  BY <1>1 DEF RecoveryCoversBothKeys
<1>3. QED
  BY <1>2, Invariance, PTL

\* A recovered call that nobody disturbed reports the values the device holds.
THEOREM ReportsWhatIsThere == Spec => []RecoveredObservationIsTrue
<1>1. ASSUME Inv, verdict = "recovered", ~disturbed PROVE observed = managed
  <2>1. pc = "done" /\ phase = "recover" /\ stepsOk
    BY <1>1 DEF Inv, Progress
  <2>2. /\ managed = plan.before
        /\ observed["enabled"] = plan.before["enabled"]
        /\ observed["primary"] = plan.before["primary"]
    BY <1>1, <2>1 DEF Inv, Holds
  <2>3. observed \in States /\ plan.before \in States
    BY <1>1, PlanParts DEF Inv, TypeOK
  <2>4. QED
    BY <2>2, <2>3, SameState
<1>2. Inv => RecoveredObservationIsTrue
  BY <1>1 DEF RecoveredObservationIsTrue
<1>3. QED
  BY <1>2, Invariance, PTL

-----------------------------------------------------------------------------
(* The call implements its promise.  Both modules have the same variables, *)
(* so the refinement mapping is the identity.                              *)

LEMMA PromiseInit == Init => Promise!Init
<1>1. SUFFICES ASSUME Init PROVE Promise!Init
  OBVIOUS
<1>2. TypeOK
  BY <1>1, InitTypeOK
<1>3. /\ managed \in States /\ plan.before \in States /\ plan.after \in States
      /\ verdict \in Verdicts
  BY <1>2, PlanParts DEF TypeOK
<1>4. Promise!TypeOK
  BY <1>2, <1>3 DEF TypeOK, Promise!TypeOK, States, Promise!States, Verdicts, Promise!Verdicts
<1>5. QED
  BY <1>1, <1>4 DEF Init, Promise!Init

LEMMA PromiseStep == Inv /\ Inv' /\ [Next]_vars => [Promise!Next]_Promise!vars
<1>1. SUFFICES ASSUME Inv, Inv', [Next]_vars PROVE [Promise!Next]_Promise!vars
  OBVIOUS
<1> USE <1>1
<1>2. TypeOK /\ Progress /\ Holds /\ TypeOK' /\ Progress' /\ Holds'
  BY DEF Inv
<1>3. ASSUME UNCHANGED <<managed, plan, touched, disturbed, verdict>>
      PROVE  [Promise!Next]_Promise!vars
  BY <1>3 DEF Promise!vars
<1>4. ASSUME Reject, pc \in Reading PROVE Promise!Reject
  BY <1>2, <1>4 DEF Reject, Return, Promise!Reject, Progress, Reading, device, history
<1>5. CASE CheckExpiry
  <2>1. CASE Reject
    BY <1>4, <1>5, <2>1 DEF CheckExpiry, Reading, Promise!Next
  <2>2. CASE ~Reject
    BY <1>3, <1>5, <2>2 DEF CheckExpiry, device, history
  <2>3. QED
    BY <2>1, <2>2
<1>6. CASE ReadContext
  <2>1. CASE Reject
    BY <1>4, <1>6, <2>1 DEF ReadContext, Reading, Promise!Next
  <2>2. CASE ~Reject
    BY <1>3, <1>6, <2>2 DEF ReadContext, device, history
  <2>3. QED
    BY <2>1, <2>2
<1>7. CASE \/ ReadSetting("enabled", "readEnabled", "readPrimary")
           \/ ReadSetting("primary", "readPrimary", "verify")
  BY <1>3, <1>7 DEF ReadSetting, device, history
<1>8. CASE VerifyPlanState
  <2>1. CASE Reject
    BY <1>4, <1>8, <2>1 DEF VerifyPlanState, Reading, Promise!Next
  <2>2. CASE ~Reject
    BY <1>3, <1>8, <2>2 DEF VerifyPlanState, device, history
  <2>3. QED
    BY <2>1, <2>2
<1>9. CASE Write
  <2>1. /\ touched' = TRUE /\ UNCHANGED <<plan, disturbed>> /\ verdict = "open"
        /\ managed' \in {managed, [managed EXCEPT ![CurrentKey] = Desired]}
    BY <1>2, <1>9 DEF Write, Issued, Progress
  <2>2. verdict' = verdict
    BY <1>9 DEF Write, StepFailed, NextRecoveryStep
  <2>3. CurrentKey \in Keys /\ Desired \in {plan.before[CurrentKey], plan.after[CurrentKey]}
    BY <1>2, CurrentKeyType DEF Desired
  <2>4. Promise!Touch
    BY <2>1, <2>2, <2>3 DEF Promise!Touch
  <2>5. QED
    BY <2>4 DEF Promise!Next
<1>10. CASE Confirm
  <2>1. pc = "confirm" /\ touched /\ verdict = "open"
        /\ UNCHANGED <<managed, plan, touched, disturbed>>
    BY <1>2, <1>10 DEF Confirm, Progress, device, history
  <2>2. verdict' = verdict \/ verdict' = "applied"
    BY <1>10 DEF Confirm, StepFailed, StepSucceeded, NextRecoveryStep, Return
  <2>3. CASE verdict' = verdict
    BY <1>3, <2>1, <2>3
  <2>4. CASE verdict' = "applied"
    <3>1. disturbed \/ managed = plan.after
      BY <1>2, <2>1, <2>4 DEF Holds
    <3>2. QED
      BY <2>1, <2>4, <3>1 DEF Promise!Apply, Promise!Next
  <2>5. QED
    BY <2>2, <2>3, <2>4
<1>11. CASE ObserveEnabled
  BY <1>3, <1>11 DEF ObserveEnabled, Observe, device, history
<1>12. CASE ObservePrimary
  <2>1. pc = "observePrimary" /\ touched /\ verdict = "open"
        /\ UNCHANGED <<managed, plan, touched, disturbed>>
        /\ pc' = "done" /\ phase' = "recover" /\ stepsOk' = stepsOk
        /\ verdict' = IF stepsOk THEN "recovered" ELSE "recoveryFailed"
    BY <1>2, <1>12
    DEF ObservePrimary, Observe, Return, Progress, Observing, device, history
  <2>2. CASE stepsOk
    <3>1. disturbed \/ managed = plan.before
      BY <1>2, <2>1, <2>2 DEF Holds
    <3>2. QED
      BY <2>1, <2>2, <3>1 DEF Promise!Recover, Promise!Next
  <2>3. CASE ~stepsOk
    BY <2>1, <2>3 DEF Promise!FailRecovery, Promise!Next
  <2>4. QED
    BY <2>2, <2>3
<1>13. CASE Drift
  <2>1. managed' \in States /\ UNCHANGED <<plan, touched, verdict>>
        /\ disturbed' = (pc # "start")
    BY <1>2, <1>13 DEF Drift, TypeOK
  <2>2. managed' \in Promise!States
    BY <2>1 DEF States, Promise!States
  <2>3. CASE pc = "start"
    <3>1. ~touched /\ disturbed' = disturbed /\ verdict = "open"
      BY <1>2, <2>1, <2>3 DEF Progress, Reading, TypeOK
    <3>2. QED
      BY <2>1, <2>2, <3>1 DEF Promise!Foreign, Promise!Next
  <2>4. CASE pc # "start"
    BY <2>1, <2>2, <2>4 DEF Promise!Foreign, Promise!Next
  <2>5. QED
    BY <2>3, <2>4
<1>14. CASE ContextDrift
  BY <1>3, <1>14 DEF ContextDrift, history
<1>15. CASE UNCHANGED vars
  BY <1>3, <1>15 DEF vars
<1>16. QED
  BY <1>5, <1>6, <1>7, <1>8, <1>9, <1>10, <1>11, <1>12, <1>13, <1>14, <1>15 DEF Next, Call

\* execute_change keeps its promise for every set of values: Err means untouched,
\* Applied and Restored mean the after-state, Recovered means the before-state.
THEOREM Refinement == Spec => KeepsPromise
<1>1. Init => Promise!Init
  BY PromiseInit
<1>2. Inv /\ Inv' /\ [Next]_vars => [Promise!Next]_Promise!vars
  BY PromiseStep
<1>3. QED
  BY <1>1, <1>2, Invariance, PTL DEF Spec, KeepsPromise, Promise!Spec
=============================================================================
