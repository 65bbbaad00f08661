-------------------------- MODULE MCBackendSession --------------------------
(* BackendSession with two commands under way at once; handlers and plans  *)
(* are interchangeable.  The sets of commands pick what a run is about.    *)
EXTENDS BackendSession, TLC

CONSTANTS h1, h2, p1, p2

MCHandlers == {h1, h2}
MCPlans == {p1, p2}
Symmetric == Permutations(MCHandlers) \union Permutations(MCPlans)

ContextCommands == {"startup", "discover", "select", "choose", "list", "diagnose"}
ChangeCommands == {"pin", "restore", "authorize", "create", "cancel", "execute", "mismatch"}
EveryCommand == ContextCommands \union ChangeCommands

\* The shortest way to a diagnosis and every change.
ChangeRun == {"choose", "list", "diagnose"} \union ChangeCommands

\* Without the call that names the wrong kind of plan: no caller makes it, and
\* execute_plan answers it by dropping the plan with its record.
SettlingRun == ChangeRun \ {"mismatch"}

\* Startup and the context commands alone.
StartupRun == ContextCommands
=============================================================================
