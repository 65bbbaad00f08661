-------------------------- MODULE ChangeExecution --------------------------
(***************************************************************************)
(* One call of execute_change (packages/core/src/changes.rs): read the     *)
(* device again, compare it with the plan, write the two managed settings  *)
(* one at a time with a read-back after each, and on the first step that   *)
(* fails put both settings back.  Every ADB command is one step; between   *)
(* two commands the owner of the device, another process or a command that *)
(* was given up as timed out but still runs on the device may write too    *)
(* (Drift), and the device, its user or its registered providers may       *)
(* change (ContextDrift).                                                  *)
(*                                                                         *)
(* Abstractions: a setting holds a member of Values, which stands for      *)
(* ManagedSettingValue (missing, empty or a raw text), so `settings delete`*)
(* and `settings put` are both "the key now holds that value"; the device, *)
(* user and provider-set comparisons of verify_plan_state are one Boolean. *)
(***************************************************************************)
EXTENDS Naturals, Sequences

CONSTANTS
  Values,          \* the values a managed setting can hold
  Unavailable      \* what a read that failed yields

ASSUME UnavailableAssumption == Unavailable \notin Values

Keys == {"enabled", "primary"}   \* credential_service, credential_service_primary

States == [Keys -> Values]

VARIABLES
  managed,      \* the managed settings on the device
  context,      \* device, user and providers are the ones the plan is bound to
  plan,         \* [kind, before, after], fixed when the plan was created
  pc,           \* where the call is
  phase,        \* "apply" or "recover": which list of steps it works through
  step,         \* position in that list
  contextSeen,  \* the context read at the start of the call
  seen,         \* the managed settings read at the start of the call
  stepsOk,      \* every recovery step so far succeeded
  observed,     \* ChangeOutcome.observed
  verdict,      \* outcome status; "rejected" is an Err return
  touched,      \* history: a writing command was issued
  disturbed,    \* history: somebody else wrote during the call
  undone        \* history: the keys a recovery command was issued for

device == <<managed, context>>
history == <<touched, disturbed, undone>>
vars == <<managed, context, plan, pc, phase, step, contextSeen, seen, stepsOk,
          observed, verdict, touched, disturbed, undone>>

PCs == {"start", "context", "readEnabled", "readPrimary", "verify", "write",
        "confirm", "observeEnabled", "observePrimary", "done"}

Verdicts == {"open", "rejected", "applied", "recovered", "recoveryFailed"}

\* Fault: one order of writes for both kinds.
PrimaryFirst(kind) == <<"primary", "enabled">>

\* Pin writes the enabled list first; a restore writes the primary first.
ApplyOrder(kind) ==
  IF kind = "pin" THEN <<"enabled", "primary">> ELSE <<"primary", "enabled">>

\* recover_before always starts with the primary.
RecoveryOrder == <<"primary", "enabled">>

CurrentKey ==
  IF phase = "apply" THEN ApplyOrder(plan.kind)[step] ELSE RecoveryOrder[step]

Desired ==
  IF phase = "apply" THEN plan.after[CurrentKey] ELSE plan.before[CurrentKey]

\* Every plan changes something.  A pin sets both keys to its target, and a
\* restore starts from the after-state of the pin it undoes.
Plans ==
  { p \in [kind : {"pin", "restore"}, before : States, after : States] :
      /\ p.before # p.after
      /\ p.kind = "pin" => p.after["enabled"] = p.after["primary"]
      /\ p.kind = "restore" => p.before["enabled"] = p.before["primary"] }

TypeOK ==
  /\ managed \in States
  /\ context \in BOOLEAN
  /\ plan \in Plans
  /\ pc \in PCs
  /\ phase \in {"apply", "recover"}
  /\ step \in 1..2
  /\ contextSeen \in BOOLEAN
  /\ seen \in [Keys -> Values \union {Unavailable}]
  /\ stepsOk \in BOOLEAN
  /\ observed \in States
  /\ verdict \in Verdicts
  /\ touched \in BOOLEAN
  /\ disturbed \in BOOLEAN
  /\ undone \in SUBSET Keys

Init ==
  /\ plan \in Plans
  /\ managed = plan.before       \* as diagnosed; Drift may change it at once
  /\ context = TRUE
  /\ pc = "start"
  /\ phase = "apply"
  /\ step = 1
  /\ contextSeen = FALSE
  /\ seen = [k \in Keys |-> Unavailable]
  /\ stepsOk = TRUE
  /\ observed = plan.before
  /\ verdict = "open"
  /\ touched = FALSE
  /\ disturbed = FALSE
  /\ undone = {}

-----------------------------------------------------------------------------
(* The environment.                                                        *)

\* Somebody else writes a managed setting.
Drift ==
  /\ \E k \in Keys : \E v \in Values \ {managed[k]} :
       managed' = [managed EXCEPT ![k] = v]
  /\ disturbed' = (pc # "start")
  /\ UNCHANGED <<context, plan, pc, phase, step, contextSeen, seen, stepsOk,
                 observed, verdict, touched, undone>>

\* Another device, user or provider set than the plan is bound to.
ContextDrift ==
  /\ context' = ~context
  /\ UNCHANGED <<managed, plan, pc, phase, step, contextSeen, seen, stepsOk,
                 observed, verdict, history>>

-----------------------------------------------------------------------------
(* The call: the checks before the first write.                            *)

Return(v) ==
  /\ pc' = "done"
  /\ verdict' = v

Reject ==
  /\ Return("rejected")
  /\ UNCHANGED <<device, plan, phase, step, contextSeen, seen, stepsOk,
                 observed, history>>

\* The plan is older than its five minutes, or the call goes on to diagnose.
CheckExpiry ==
  /\ pc = "start"
  /\ \/ Reject
     \/ /\ pc' = "context"
        /\ UNCHANGED <<device, plan, phase, step, contextSeen, seen, stepsOk,
                       observed, verdict, history>>

\* diagnose_device up to the providers: any of its commands may fail.
ReadContext ==
  /\ pc = "context"
  /\ \/ Reject
     \/ /\ contextSeen' = context
        /\ pc' = "readEnabled"
        /\ UNCHANGED <<device, plan, phase, step, seen, stepsOk, observed,
                       verdict, history>>

ReadSetting(k, here, next) ==
  /\ pc = here
  /\ \E v \in {managed[k], Unavailable} : seen' = [seen EXCEPT ![k] = v]
  /\ pc' = next
  /\ UNCHANGED <<device, plan, phase, step, contextSeen, stepsOk, observed,
                 verdict, history>>

\* Fault: the comparison forgets the values.
PlanStateIgnoresValues == contextSeen

\* verify_plan_state: an unavailable setting is an error, so it never matches.
PlanStateHolds == contextSeen /\ seen = plan.before

VerifyPlanState ==
  /\ pc = "verify"
  /\ \/ ~PlanStateHolds /\ Reject
     \/ /\ PlanStateHolds
        /\ pc' = "write"
        /\ UNCHANGED <<device, plan, phase, step, contextSeen, seen, stepsOk,
                       observed, verdict, history>>

-----------------------------------------------------------------------------
(* mutate_setting: a writing command, then a read-back.                    *)

\* Fault: the error of a step leaves the call at once.
StepFailedReturnsError ==
  /\ pc' = "done"
  /\ verdict' = IF phase = "apply" THEN "rejected" ELSE "recoveryFailed"
  /\ UNCHANGED <<phase, step, stepsOk, observed>>

\* Fault: recovery gives up at its first failing step.
StepFailedStopsRecovery ==
  IF phase = "apply"
    THEN /\ phase' = "recover"
         /\ step' = 1
         /\ pc' = "write"
         /\ UNCHANGED <<stepsOk, observed, verdict>>
    ELSE /\ stepsOk' = FALSE
         /\ pc' = "observeEnabled"
         /\ UNCHANGED <<phase, step, observed, verdict>>

\* Fault: recovery tries a failing step again until it succeeds.
StepFailedRetriesForever ==
  /\ phase' = "recover"
  /\ step' = IF phase = "apply" THEN 1 ELSE step
  /\ pc' = "write"
  /\ UNCHANGED <<stepsOk, observed, verdict>>

\* Fault: the list of recovery steps is left one position too late.
RecoveryRunsOff ==
  /\ step' = step + 1
  /\ pc' = IF step = 2 THEN "observeEnabled" ELSE "write"
  /\ UNCHANGED <<phase, observed, verdict>>

\* The step after a recovery step, whether that one succeeded or not.
NextRecoveryStep ==
  /\ \/ step = 1 /\ step' = 2 /\ pc' = "write"
     \/ step = 2 /\ step' = 2 /\ pc' = "observeEnabled"
  /\ UNCHANGED <<phase, observed, verdict>>

\* A failing step of the change starts recovery; a failing step of recovery
\* is remembered and recovery goes on.
StepFailed ==
  \/ /\ phase = "apply"
     /\ phase' = "recover"
     /\ step' = 1
     /\ pc' = "write"
     /\ UNCHANGED <<stepsOk, observed, verdict>>
  \/ /\ phase = "recover"
     /\ stepsOk' = FALSE
     /\ NextRecoveryStep

StepSucceeded ==
  \/ /\ phase = "apply"
     /\ \/ /\ step = 1 /\ step' = 2 /\ pc' = "write"
           /\ UNCHANGED <<observed, verdict>>
        \/ /\ step = 2 /\ step' = 2 /\ observed' = plan.after
           /\ Return("applied")
     /\ UNCHANGED <<phase, stepsOk>>
  \/ /\ phase = "recover"
     /\ NextRecoveryStep
     /\ UNCHANGED stepsOk

\* The history a writing command leaves.
Issued ==
  /\ touched' = TRUE
  /\ undone' = IF phase = "recover" THEN undone \union {CurrentKey} ELSE undone

\* The command has its effect or not, and it reports success or not: a timeout
\* may hide an effect, and the device may ignore a write it acknowledges.
Write ==
  /\ pc = "write"
  /\ Issued
  /\ managed' \in {managed, [managed EXCEPT ![CurrentKey] = Desired]}
  /\ \/ pc' = "confirm" /\ UNCHANGED <<phase, step, stepsOk, observed, verdict>>
     \/ StepFailed
  /\ UNCHANGED <<context, plan, contextSeen, seen, disturbed>>

\* The read-back must find exactly the desired value; an unavailable one does not.
Confirm ==
  /\ pc = "confirm"
  /\ \/ managed[CurrentKey] = Desired /\ StepSucceeded
     \/ StepFailed      \* another value is there, or the read failed
  /\ UNCHANGED <<device, plan, contextSeen, seen, history>>

\* Fault: a setting that cannot be read is taken to hold what was last written.
ObserveAssumesAfter(k, here) ==
  /\ pc = here
  /\ \E v \in {managed[k], plan.after[k]} : observed' = [observed EXCEPT ![k] = v]
  /\ UNCHANGED <<device, plan, phase, step, contextSeen, seen, stepsOk, history>>

\* observe_managed: a setting that cannot be read is recorded as plan.before.
Observe(k, here) ==
  /\ pc = here
  /\ \E v \in {managed[k], plan.before[k]} : observed' = [observed EXCEPT ![k] = v]
  /\ UNCHANGED <<device, plan, phase, step, contextSeen, seen, stepsOk, history>>

ObserveEnabled ==
  /\ Observe("enabled", "observeEnabled")
  /\ pc' = "observePrimary"
  /\ UNCHANGED verdict

ObservePrimary ==
  /\ Observe("primary", "observePrimary")
  /\ Return(IF stepsOk THEN "recovered" ELSE "recoveryFailed")

-----------------------------------------------------------------------------
Call ==
  \/ CheckExpiry
  \/ ReadContext
  \/ ReadSetting("enabled", "readEnabled", "readPrimary")
  \/ ReadSetting("primary", "readPrimary", "verify")
  \/ VerifyPlanState
  \/ Write
  \/ Confirm
  \/ ObserveEnabled
  \/ ObservePrimary

Next == Call \/ Drift \/ ContextDrift

Spec == Init /\ [][Next]_vars

\* Every command of a call returns: the runners bound it by a timeout, and the
\* pipes of a command that has ended are closed.
FairSpec == Spec /\ WF_vars(Call)

-----------------------------------------------------------------------------
(* Properties.                                                             *)

\* The call keeps the promise of ChangePromise: an Err return means that the
\* device was not touched, Applied and Restored that it holds the after-state
\* and Recovered that it holds the before-state, unless somebody else wrote.
Promise == INSTANCE ChangePromise
KeepsPromise == Promise!Spec

\* "Execution aborts on drift": no writing command before both settings, the
\* device, the user and the providers were read and found to be the planned ones.
VerifiedBeforeTouch == touched => contextSeen /\ seen = plan.before

\* From the first writing command of a pin to its return, in every state between
\* two commands, the target is primary only while it is also the enabled
\* provider, unless somebody else writes or putting back a setting fails.
PrimaryStaysEnabled ==
  plan.kind = "pin" /\ touched /\ ~disturbed /\ stepsOk =>
    \/ managed["primary"] # plan.after["primary"]
    \/ managed["primary"] = plan.before["primary"]
    \/ managed["enabled"] = plan.after["enabled"]

\* "restores both managed fields after any partial failure": a call that ends
\* in recovery has issued the restoring command for both keys, also when the
\* first of the two failed.
RecoveryCoversBothKeys == verdict \in {"recovered", "recoveryFailed"} => undone = Keys

\* What a recovered call records as last observed is what the device holds,
\* although the recorded value may stand in for a read that failed.
RecoveredObservationIsTrue ==
  verdict = "recovered" /\ ~disturbed => observed = managed

\* A call ends, whatever fails on the way: there is no retry loop.
Returns == <>(pc = "done")
=============================================================================
