---------------------------- MODULE MCAndroidDev ----------------------------
(* AndroidDev with one device, which may be chosen by name or at the prompt, *)
(* be lost, and come back as another connection; with edits enough for two   *)
(* during one deployment and one during the next.                            *)
EXTENDS AndroidDev

MCUsers == {"owner", "guest"}
=============================================================================
