--------------------------- MODULE MCWebAuthnPage ---------------------------
(* WebAuthnPage with a name, a name of blanks and no name, and with       *)
(* ceremonies enough for a second test after a verified one.               *)
EXTENDS WebAuthnPage

MCLabels == {"", " ", "label"}
=============================================================================
