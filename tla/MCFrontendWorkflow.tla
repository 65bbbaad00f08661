------------------------- MODULE MCFrontendWorkflow -------------------------
(* FrontendWorkflow with two functions of WorkflowService under way at     *)
(* once and two devices on offer; the intents pick what a run is about.    *)
EXTENDS FrontendWorkflow, TLC

CONSTANTS c1, c2, d1, d2

MCCalls == {c1, c2}
MCDevices == {d1, d2}
Symmetric == Permutations(MCCalls) \union Permutations(MCDevices)

EveryIntent == {"refreshAdb", "selectAdb", "chooseAdb", "continue", "selectDevice",
                "backToAdb", "backToDevices", "diagnose", "pin", "snapshots",
                "closeSnapshots", "restore", "closePreview", "tickRisk", "tickUnparsed",
                "createPlan", "tickDevice", "executePlan", "cancelPlan", "finish"}

\* The shortest way to a plan that is cancelled and executed.
CancelRun == {"continue", "selectDevice", "diagnose", "pin", "tickRisk", "tickUnparsed",
              "createPlan", "tickDevice", "executePlan", "cancelPlan"}
=============================================================================
