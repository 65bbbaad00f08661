----------------------------- MODULE MCAppShell -----------------------------
(* AppShell with three sessions, enough for a live one, a demo that replaces *)
(* it and a demo that replaces that one, while an earlier tour may linger.   *)
EXTENDS AppShell
=============================================================================
