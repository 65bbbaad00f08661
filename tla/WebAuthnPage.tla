---------------------------- MODULE WebAuthnPage ----------------------------
(***************************************************************************)
(* The WebAuthn diagnosis page (apps/webauthn-web): one DiagnosisService   *)
(* and the view that drives it.  A test registers a credential with the    *)
(* browser's authenticator and then verifies it; both ceremonies are       *)
(* awaited, and until one ends the user can clear the test.                *)
(*                                                                         *)
(* The browser and the authenticator are the environment: they answer a    *)
(* ceremony at any time, with anything that verifyRegistration and         *)
(* verifyAuthentication tell apart, or refuse it.  An aborted ceremony     *)
(* may have been answered already, so cancelCeremony promises nothing.     *)
(***************************************************************************)
EXTENDS Naturals

CONSTANTS
  Labels,         \* what the user may type as a name, none and blanks included
  MaxCeremonies,  \* bound on the ceremonies begun
  MaxGeneration   \* bound on the service's generation

NoName == ""
Blanks == " "

ASSUME LabelsAssumption == {NoName, Blanks} \subseteq Labels
ASSUME BoundsAssumption == MaxCeremonies \in Nat /\ MaxGeneration \in Nat

VARIABLES
  supported,   \* requireSupport and relyingParty accept this browser and origin
  state,       \* [kind, canVerify]: the service's state signal
  mode,        \* "explore" or "guided"
  username,    \* the username signal
  consent,     \* the view's consent signal
  generation, credential, userId, name,   \* the service's private fields
  ceremonies,  \* the ceremonies that are awaited
  issued,      \* ceremonies begun so far; numbers challenges and user ids
  discarded,   \* history: users whose test was cleared, edited or begun anew
  earned       \* history: the ceremony the last result was taken from

service == <<generation, credential, userId, name>>
history == <<discarded, earned>>
vars == <<supported, state, mode, username, consent, service, ceremonies, issued, history>>

----------------------------------------------------------------------------
Nobody == 0
NoCredential == [user |-> Nobody, name |-> NoName, counter |-> 0]
NoAnswer == [user |-> Nobody, handle |-> Nobody, sound |-> FALSE]
NoCeremony == [challenge |-> 0]
Kinds == {"ready", "cleared", "creating", "verifying", "registered", "success", "failed"}
\* Fault: the kind alone.
KindOnly(kind) == [kind |-> kind]

Shown(kind) == [kind |-> kind, canVerify |-> FALSE]
Failed(canVerify) == [kind |-> "failed", canVerify |-> canVerify]

Generated == "WebAuthn test"      \* the name of a guided test
Trim(label) == IF label = Blanks THEN NoName ELSE label
Stranger == MaxCeremonies + 1     \* a user or credential of some other test

Busy == state.kind \in {"creating", "verifying"}
Explore == mode = "explore"
CanAuthenticate == ~Busy /\ credential # NoCredential
CanVerify == state.kind = "registered" \/ (state.kind = "failed" /\ state.canVerify)

\* Create and its consent are on screen.
CreateIsShown == Explore \/ (~CanVerify /\ state.kind # "success")
VerifyIsShown == Explore \/ CanVerify \/ state.kind = "verifying"

Init ==
  /\ supported \in BOOLEAN
  /\ state = Shown("ready")
  /\ mode \in {"explore", "guided"}
  /\ username = NoName
  /\ consent = FALSE
  /\ generation = 0 /\ credential = NoCredential /\ userId = Nobody /\ name = NoName
  /\ ceremonies = {}
  /\ issued = 0
  /\ discarded = {} /\ earned = NoCeremony

----------------------------------------------------------------------------
\* What reset() forgets; its callers set the state and the username after it.
Reset ==
  /\ generation < MaxGeneration
  /\ generation' = generation + 1
  /\ credential' = NoCredential
  /\ discarded' = discarded \cup ({userId} \ {Nobody})
  /\ UNCHANGED <<supported, earned>>

SetMode ==
  /\ ~Busy
  /\ mode' \in {"explore", "guided"} \ {mode}
  /\ UNCHANGED <<supported, state, username, consent, service, ceremonies, issued, history>>

SetUsername(label) ==
  /\ Explore /\ ~Busy /\ label # username
  /\ Reset
  /\ userId' = Nobody /\ name' = NoName
  /\ username' = label
  /\ state' = Shown("ready")
  /\ UNCHANGED <<mode, consent, ceremonies, issued>>

TickConsent ==
  /\ CreateIsShown /\ ~Busy
  /\ consent' = ~consent
  /\ UNCHANGED <<supported, state, mode, username, service, ceremonies, issued, history>>

Clear ==
  /\ Reset
  /\ userId' = Nobody /\ name' = NoName /\ username' = NoName
  /\ state' = Shown("cleared")
  /\ consent' = FALSE
  /\ UNCHANGED <<mode, ceremonies, issued>>

----------------------------------------------------------------------------
(* The ceremonies.  A ceremony keeps what its function has captured.       *)

Begin(kind, token, user, label, used) ==
  /\ issued < MaxCeremonies
  /\ issued' = issued + 1
  /\ ceremonies' = ceremonies \cup
       {[kind |-> kind, token |-> token, challenge |-> issued + 1, user |-> user,
         name |-> label, credential |-> used, answer |-> NoAnswer, late |-> FALSE]}

Register ==
  /\ CreateIsShown /\ consent /\ ~Busy
  /\ Explore => Trim(username) # NoName
  /\ Reset
  /\ IF supported
     THEN LET label == IF Trim(username) = NoName THEN Generated ELSE Trim(username)
          IN /\ userId' = issued + 1
             /\ name' = label /\ username' = label
             /\ state' = Shown("creating")
             /\ Begin("creating", generation + 1, issued + 1, label, NoCredential)
     ELSE /\ userId' = Nobody /\ name' = NoName /\ username' = Trim(username)
          /\ state' = Failed(FALSE)
          /\ UNCHANGED <<ceremonies, issued>>
  /\ UNCHANGED <<mode, consent>>

Authenticate ==
  /\ VerifyIsShown /\ CanAuthenticate /\ userId # Nobody
  /\ generation < MaxGeneration
  /\ generation' = generation + 1
  /\ state' = Shown("verifying")
  /\ Begin("verifying", generation + 1, userId, name, credential)
  /\ UNCHANGED <<supported, mode, username, consent, credential, userId, name, history>>

\* Fault: no generation check.
AlwaysCurrent(c) == TRUE

Current(c) == c.token = generation
Ends(c) == ceremonies' = ceremonies \ {c}

\* fail(error, token)
Fail(c) ==
  /\ Ends(c)
  /\ state' = IF Current(c) THEN Failed(credential # NoCredential) ELSE state
  /\ UNCHANGED <<supported, mode, username, consent, service, issued, history>>

\* The clock passes the deadline the function has set.
Expire(c) ==
  /\ ~c.late
  /\ ceremonies' = (ceremonies \ {c}) \cup {[c EXCEPT !.late = TRUE]}
  /\ UNCHANGED <<supported, state, mode, username, consent, service, issued, history>>

\* What an authenticator may return for c: whose credential, which user it
\* names, and whether origin, attestation and signature are in order.
Answers(c) ==
  [user : IF c.kind = "creating" THEN {c.user} ELSE {c.user, Stranger},
   handle : {Nobody, c.user, Stranger}, sound : BOOLEAN]

Refuse(c) == c.answer = NoAnswer /\ Fail(c)

Answer(c) ==
  /\ c.answer = NoAnswer
  /\ IF Current(c)
     THEN \E a \in Answers(c) : ceremonies' = (ceremonies \ {c}) \cup {[c EXCEPT !.answer = a]}
     ELSE Ends(c)
  /\ UNCHANGED <<supported, state, mode, username, consent, service, issued, history>>

\* Fault: the user an answer names is not compared.
VerifiesCredential(c) == c.answer.sound /\ (c.kind = "verifying" => c.answer.user = c.credential.user)

\* verifyRegistration and verifyAuthentication
Verifies(c) ==
  /\ c.answer.sound
  /\ c.kind = "verifying" =>
       /\ c.answer.user = c.credential.user
       /\ c.answer.handle \in {Nobody, c.user}

InTime(c) == ~c.late

\* Fault: an answer after the deadline is neither taken nor refused.
RejectUnsound(c) == c.answer # NoAnswer /\ ~Verifies(c) /\ Fail(c)

\* An answer that is unsound, late, or nobody's any more.
Reject(c) == c.answer # NoAnswer /\ (~Verifies(c) \/ (Current(c) => ~InTime(c))) /\ Fail(c)

Accept(c) ==
  /\ c.answer # NoAnswer /\ Verifies(c) /\ Current(c) /\ InTime(c)
  /\ Ends(c)
  /\ earned' = c
  /\ IF c.kind = "creating"
     THEN /\ credential' = [user |-> c.user, name |-> c.name, counter |-> 0]
          /\ state' = Shown("registered")
     ELSE /\ credential' = [c.credential EXCEPT !.counter = c.challenge]
          /\ state' = Shown("success")
  /\ UNCHANGED <<supported, mode, username, consent, generation, userId, name, issued, discarded>>

Settle(c) == Refuse(c) \/ Answer(c) \/ Reject(c) \/ Accept(c)

Next ==
  \/ SetMode \/ TickConsent \/ Clear \/ Register \/ Authenticate
  \/ \E label \in Labels : SetUsername(label)
  \/ \E c \in ceremonies : Expire(c) \/ Settle(c)

Spec == Init /\ [][Next]_vars

\* The browser ends every ceremony it began, by its own timeout at the latest.
FairSpec ==
  Spec /\ \A n \in 1 .. MaxCeremonies :
            WF_vars(\E c \in ceremonies : c.challenge = n /\ Settle(c))

----------------------------------------------------------------------------
\* The signals and fields of the page have their types.
TypeOK ==
  /\ supported \in BOOLEAN /\ consent \in BOOLEAN
  /\ state \in [kind : Kinds, canVerify : BOOLEAN]
  /\ mode \in {"explore", "guided"}
  /\ username \in Labels \cup {Generated} /\ name \in Labels \cup {Generated}
  /\ generation \in 0 .. MaxGeneration
  /\ issued \in 0 .. MaxCeremonies /\ userId \in 0 .. MaxCeremonies
  /\ credential.user \in 0 .. MaxCeremonies
  /\ \A c \in ceremonies : c.challenge \in 1 .. issued /\ c.token \in 1 .. generation

\* A credential is bound to its original user, never to an edited label: the
\* one the page holds was created for the user and under the name it shows, and
\* of a test that was cleared, edited or begun anew no answer that was still
\* under way brings it back (setUsername, register and the generation checks).
CredentialIsOfTheShownUser ==
  credential # NoCredential =>
    /\ credential.user = userId /\ credential.name = name /\ username = name
    /\ credential.user \notin discarded

\* "Registered" and "success" are the result of the ceremony begun last, which
\* was answered in time, by that user's credential and in order, and the
\* counter is the one verified last (register and authenticate).
ResultIsEarned ==
  state.kind \in {"registered", "success"} =>
    /\ earned.challenge = issued
    /\ ~earned.late /\ earned.answer.sound
    /\ credential.user = earned.answer.user
    /\ state.kind = "success" =>
         earned.answer.handle # Stranger /\ credential.counter = issued

\* A ceremony that was begun ends and the page hears of it: it does not stay
\* busy, with every control but Clear disabled, for ever (isBusy, fail).
Settles == Busy ~> ~Busy
=============================================================================
