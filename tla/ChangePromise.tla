--------------------------- MODULE ChangePromise ---------------------------
(***************************************************************************)
(* What one call of execute_change promises the caller that holds the      *)
(* plan, whatever the order in which it talks to the device: a rejected    *)
(* change never touched the device, an applied (or restored) one left the  *)
(* planned after-state, a recovered one left the planned before-state, and *)
(* a failed recovery promises nothing.  The promise is void once somebody  *)
(* else has written a managed setting during the call.                     *)
(***************************************************************************)

CONSTANTS
  Keys,        \* the managed settings
  Values       \* what a managed setting can hold

VARIABLES
  managed,     \* the managed settings as they are on the device
  plan,        \* [before, after]: the states the plan was created for
  touched,     \* the call has issued a command that may have written
  disturbed,   \* somebody else wrote a managed setting during the call
  verdict      \* what the caller is told, "open" until the call returns

vars == <<managed, plan, touched, disturbed, verdict>>

States == [Keys -> Values]

Verdicts == {"open", "rejected", "applied", "recovered", "recoveryFailed"}

TypeOK ==
  /\ managed \in States
  /\ plan.before \in States
  /\ plan.after \in States
  /\ touched \in BOOLEAN
  /\ disturbed \in BOOLEAN
  /\ verdict \in Verdicts

Init ==
  /\ TypeOK
  /\ ~touched
  /\ ~disturbed
  /\ verdict = "open"

\* The call writes one key, to a value of one of the two planned states.
Touch ==
  /\ verdict = "open"
  /\ touched' = TRUE
  /\ \E k \in Keys :
       managed' \in { managed,
                      [managed EXCEPT ![k] = plan.before[k]],
                      [managed EXCEPT ![k] = plan.after[k]] }
  /\ UNCHANGED <<plan, disturbed, verdict>>

\* Somebody else writes; before the call has started this disturbs nothing.
Foreign ==
  /\ managed' \in States
  /\ disturbed' \in {disturbed, TRUE}
  /\ disturbed \/ disturbed' \/ ~touched
  /\ verdict # "open" => disturbed'
  /\ UNCHANGED <<plan, touched, verdict>>

Reject ==
  /\ verdict = "open"
  /\ ~touched
  /\ verdict' = "rejected"
  /\ UNCHANGED <<managed, plan, touched, disturbed>>

Apply ==
  /\ verdict = "open"
  /\ touched
  /\ disturbed \/ managed = plan.after
  /\ verdict' = "applied"
  /\ UNCHANGED <<managed, plan, touched, disturbed>>

Recover ==
  /\ verdict = "open"
  /\ touched
  /\ disturbed \/ managed = plan.before
  /\ verdict' = "recovered"
  /\ UNCHANGED <<managed, plan, touched, disturbed>>

FailRecovery ==
  /\ verdict = "open"
  /\ touched
  /\ verdict' = "recoveryFailed"
  /\ UNCHANGED <<managed, plan, touched, disturbed>>

Next == Touch \/ Foreign \/ Reject \/ Apply \/ Recover \/ FailRecovery

Spec == Init /\ [][Next]_vars
=============================================================================
