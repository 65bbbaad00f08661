--------------------------- MODULE ReleasePromise ---------------------------
(***************************************************************************)
(* What the release automation promises to those who download: a version   *)
(* is published once, whole, from one build of one commit whose tests      *)
(* passed, a stable version only from a signed build that was approved,    *)
(* and what is published never changes (docs/en/001-ARCHITECTURE.md:53).   *)
(***************************************************************************)
EXTENDS Naturals

CONSTANTS Commits, Versions, Version, Stable, Builds, Files, Nothing

VARIABLES
  tested,     \* commits whose tests have passed
  approved,   \* builds somebody has approved
  published   \* what each version offers: its commit and the content of its files

vars == <<tested, approved, published>>

Init ==
  /\ tested = {}
  /\ approved = {}
  /\ published = [v \in Versions |-> Nothing]

Test(c) == tested' = tested \cup {c} /\ UNCHANGED <<approved, published>>

Approve(b) == approved' = approved \cup {b} /\ UNCHANGED <<tested, published>>

Publish(c, b, signed) ==
  /\ published[Version[c]] = Nothing
  /\ c \in tested
  /\ Version[c] \in Stable => b \in approved /\ signed
  /\ published' = [published EXCEPT ![Version[c]] =
       [commit |-> c, files |-> [f \in Files |-> [build |-> b, commit |-> c, signed |-> signed]]]]
  /\ UNCHANGED <<tested, approved>>

Next ==
  \/ \E c \in Commits : Test(c)
  \/ \E b \in Builds : Approve(b)
  \/ \E c \in Commits, b \in Builds, signed \in BOOLEAN : Publish(c, b, signed)

Spec == Init /\ [][Next]_vars
=============================================================================
