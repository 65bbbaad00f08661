------------------------ MODULE WebAuthnPage_proofs ------------------------
(***************************************************************************)
(* Proofs about WebAuthnPage, for any names the user may type, any number  *)
(* of ceremonies, and whatever the browser and the authenticator answer.   *)
(***************************************************************************)
EXTENDS WebAuthnPage, TLAPS

Names == Labels \cup {Generated}
Modes == {"explore", "guided"}
Credentials == [user : 0 .. MaxCeremonies, name : Names, counter : 0 .. MaxCeremonies]
AllAnswers == [user : Nat, handle : Nat, sound : BOOLEAN]
Ceremonies ==
  [kind : {"creating", "verifying"}, token : Nat, challenge : Nat, user : Nat, name : Names,
   credential : Credentials, answer : AllAnswers, late : BOOLEAN]

\* TypeOK, with all there is to say of a credential and of a ceremony.
Typed ==
  /\ TypeOK
  /\ credential \in Credentials
  /\ userId <= issued
  /\ discarded \subseteq 1 .. issued
  /\ ceremonies \subseteq Ceremonies
  /\ \A c \in ceremonies :
       /\ c.challenge \in 1 .. issued /\ c.token \in 1 .. generation /\ c.user \in 1 .. issued
       /\ c.kind = "creating" /\ c.answer # NoAnswer => c.answer.user = c.user
  /\ \A c, d \in ceremonies : c.challenge = d.challenge => c = d

\* The test on screen: its user, its name and its credential belong together.
\* A ceremony of the present generation is the one begun last, for that test.
Bound ==
  /\ userId # Nobody => username = name /\ userId \notin discarded
  /\ credential # NoCredential =>
       userId # Nobody /\ credential.user = userId /\ credential.name = name
  /\ \A c \in ceremonies : Current(c) =>
       /\ c.challenge = issued
       /\ c.user = userId /\ c.name = name
       /\ c.kind = "verifying" => credential # NoCredential /\ c.credential = credential

Inv == Typed /\ Bound /\ ResultIsEarned

----------------------------------------------------------------------------
\* What the page may show.
LEMMA ShownType ==
  ASSUME NEW kind \in Kinds PROVE Shown(kind) \in [kind : Kinds, canVerify : BOOLEAN] /\ Shown(kind).kind = kind
BY DEF Shown

LEMMA FailedType ==
  ASSUME NEW canVerify \in BOOLEAN
  PROVE  Failed(canVerify) \in [kind : Kinds \ {"registered", "success"}, canVerify : BOOLEAN]
BY DEF Failed, Kinds

LEMMA NoCredentialType == NoCredential \in Credentials /\ NoName \in Names
BY LabelsAssumption, BoundsAssumption DEF NoCredential, Credentials, Names, Nobody

LEMMA InitInv == Init => Inv
<1> SUFFICES ASSUME Init PROVE Inv
  OBVIOUS
<1>1. state \in [kind : Kinds, canVerify : BOOLEAN] /\ state.kind = "ready"
  BY ShownType DEF Init, Kinds
<1>2. Typed
  <2>1. credential \in Credentials /\ credential.user \in 0 .. MaxCeremonies
    BY NoCredentialType DEF Init, Credentials
  <2>2. username \in Names /\ name \in Names
    BY NoCredentialType DEF Init
  <2>3. generation \in 0 .. MaxGeneration /\ issued \in 0 .. MaxCeremonies /\ userId \in 0 .. MaxCeremonies
        /\ userId <= issued
    BY BoundsAssumption DEF Init, Nobody
  <2>4. supported \in BOOLEAN /\ consent \in BOOLEAN /\ mode \in {"explore", "guided"}
        /\ ceremonies = {} /\ discarded = {}
    BY DEF Init
  <2>5. QED
    BY <1>1, <2>1, <2>2, <2>3, <2>4 DEF Typed, TypeOK, Names
<1>3. Bound /\ ResultIsEarned
  BY <1>1 DEF Init, Bound, ResultIsEarned
<1>4. QED
  BY <1>2, <1>3 DEF Inv

\* A name that is left of one that was typed can be typed as well.
LEMMA TrimType == ASSUME NEW label \in Names PROVE Trim(label) \in Names
BY LabelsAssumption DEF Trim, Names

\* Forgetting a test, or beginning anew: no ceremony stays current.
LEMMA ResetInv ==
  ASSUME Inv, Reset, UNCHANGED mode, consent' \in BOOLEAN, username' \in Names,
         userId' = Nobody, name' = NoName, UNCHANGED <<ceremonies, issued>>,
         state' \in [kind : Kinds \ {"registered", "success"}, canVerify : BOOLEAN]
  PROVE  Inv'
<1>1. /\ generation' = generation + 1 /\ generation < MaxGeneration
      /\ credential' = NoCredential /\ supported' = supported
      /\ discarded' = discarded \cup ({userId} \ {Nobody})
  BY DEF Reset
<1>2. TypeOK'
  BY <1>1, LabelsAssumption, BoundsAssumption
     DEF Inv, Typed, TypeOK, NoCredential, Nobody, Names, Kinds
<1>3. Typed'
  <2>1. credential' \in Credentials /\ userId' <= issued'
    BY <1>1, <1>2, LabelsAssumption, BoundsAssumption
       DEF Inv, Typed, TypeOK, Credentials, NoCredential, Nobody, Names
  <2>2. discarded' \subseteq 1 .. issued'
    BY <1>1 DEF Inv, Typed, TypeOK, Nobody
  <2>3. QED
    BY <1>1, <1>2, <2>1, <2>2, BoundsAssumption DEF Inv, Typed, TypeOK, NoAnswer, Nobody
<1>4. Bound'
  BY <1>1 DEF Inv, Typed, TypeOK, Bound, Current
<1>5. ResultIsEarned'
  BY DEF ResultIsEarned
<1>6. QED
  BY <1>3, <1>4, <1>5 DEF Inv

LEMMA SetUsernameInv ==
  ASSUME Inv, NEW label \in Labels, SetUsername(label) PROVE Inv'
BY ResetInv DEF SetUsername, Inv, Typed, TypeOK, Names, Shown, Kinds

LEMMA ClearInv == ASSUME Inv, Clear PROVE Inv'
BY ResetInv, LabelsAssumption DEF Clear, Inv, Typed, TypeOK, Names, Shown, Kinds

\* A ceremony begins as the only current one.
LEMMA BeginType ==
  ASSUME Inv, NEW kind \in {"creating", "verifying"}, NEW user \in 1 .. issued + 1,
         NEW label \in Names, NEW used \in Credentials,
         generation' = generation + 1, generation < MaxGeneration,
         Begin(kind, generation + 1, user, label, used)
  PROVE  /\ issued' = issued + 1 /\ issued' \in 1 .. MaxCeremonies
         /\ ceremonies' \subseteq Ceremonies
         /\ \A c \in ceremonies' :
              /\ c.challenge \in 1 .. issued' /\ c.token \in 1 .. generation'
              /\ c.user \in 1 .. issued'
              /\ c.kind = "creating" /\ c.answer # NoAnswer => c.answer.user = c.user
         /\ \A c, d \in ceremonies' : c.challenge = d.challenge => c = d
         /\ \A c \in ceremonies' : c.token = generation' =>
              /\ c.challenge = issued' /\ c.user = user /\ c.name = label
              /\ c.kind = kind /\ c.credential = used
<1> DEFINE new == [kind |-> kind, token |-> generation + 1, challenge |-> issued + 1, user |-> user,
                   name |-> label, credential |-> used, answer |-> NoAnswer, late |-> FALSE]
<1>1. /\ issued \in Nat /\ issued < MaxCeremonies /\ issued' = issued + 1
      /\ generation \in Nat /\ ceremonies' = ceremonies \cup {new}
  BY BoundsAssumption DEF Begin, Inv, Typed, TypeOK
<1>2. NoAnswer \in AllAnswers
  BY DEF NoAnswer, AllAnswers, Nobody
<1>3. new \in Ceremonies
  BY <1>1, <1>2 DEF Ceremonies
<1>4. \A c \in ceremonies : c.token \in 1 .. generation /\ c.token # generation + 1
  BY <1>1 DEF Inv, Typed
<1>5. /\ new.kind = kind /\ new.token = generation + 1 /\ new.challenge = issued + 1
      /\ new.user = user /\ new.name = label /\ new.credential = used /\ new.answer = NoAnswer
  OBVIOUS
<1> HIDE DEF new
<1>6. issued' \in 1 .. MaxCeremonies
  BY <1>1, BoundsAssumption
<1>7. ceremonies' \subseteq Ceremonies
  BY <1>1, <1>3 DEF Inv, Typed
<1>8. \A c \in ceremonies' :
        /\ c.challenge \in 1 .. issued' /\ c.token \in 1 .. generation'
        /\ c.user \in 1 .. issued'
        /\ c.kind = "creating" /\ c.answer # NoAnswer => c.answer.user = c.user
  BY <1>1, <1>5 DEF Inv, Typed
<1>9. \A c \in ceremonies' : c.token = generation' =>
        /\ c.challenge = issued' /\ c.user = user /\ c.name = label
        /\ c.kind = kind /\ c.credential = used
  BY <1>1, <1>4, <1>5
<1>10. \A c, d \in ceremonies' : c.challenge = d.challenge => c = d
  BY <1>1, <1>5 DEF Inv, Typed
<1>11. QED
  BY <1>1, <1>6, <1>7, <1>8, <1>9, <1>10

LEMMA RegisterInv == ASSUME Inv, Register PROVE Inv'
<1>1. /\ generation' = generation + 1 /\ generation < MaxGeneration /\ generation \in Nat
      /\ credential' = NoCredential /\ supported' = supported
      /\ discarded' = discarded \cup ({userId} \ {Nobody})
      /\ mode' = mode /\ consent' = consent /\ earned' = earned
  BY BoundsAssumption DEF Register, Reset, Inv, Typed, TypeOK
<1>2. Trim(username) \in Names
  BY TrimType DEF Inv, Typed, TypeOK, Names
<1>3. CASE ~supported
  <2>1. state' \in [kind : Kinds \ {"registered", "success"}, canVerify : BOOLEAN]
    BY <1>3, FailedType DEF Register
  <2>2. /\ Reset /\ consent' \in BOOLEAN /\ username' \in Names /\ userId' = Nobody
        /\ name' = NoName /\ UNCHANGED <<ceremonies, issued>> /\ UNCHANGED mode
    BY <1>1, <1>2, <1>3 DEF Register, Inv, Typed, TypeOK
  <2>3. QED
    BY <2>1, <2>2, ResetInv
<1>4. CASE supported
  <2> DEFINE label == IF Trim(username) = NoName THEN Generated ELSE Trim(username)
  <2>1. label \in Names
    BY <1>2 DEF Names
  <2>2. /\ userId' = issued + 1 /\ name' = label /\ username' = label
        /\ state' = Shown("creating")
        /\ Begin("creating", generation + 1, issued + 1, label, NoCredential)
    BY <1>4 DEF Register
  <2> HIDE DEF label
  <2>3. NoCredential \in Credentials
    BY LabelsAssumption, BoundsAssumption DEF NoCredential, Credentials, Names, Nobody
  <2>4. issued \in Nat /\ issued + 1 \in 1 .. issued + 1
    BY BoundsAssumption DEF Inv, Typed, TypeOK
  <2>5. /\ issued' = issued + 1 /\ issued' \in 1 .. MaxCeremonies
        /\ ceremonies' \subseteq Ceremonies
        /\ \A c \in ceremonies' :
             /\ c.challenge \in 1 .. issued' /\ c.token \in 1 .. generation'
             /\ c.user \in 1 .. issued'
             /\ c.kind = "creating" /\ c.answer # NoAnswer => c.answer.user = c.user
        /\ \A c, d \in ceremonies' : c.challenge = d.challenge => c = d
        /\ \A c \in ceremonies' : c.token = generation' =>
             /\ c.challenge = issued' /\ c.user = issued + 1 /\ c.name = label
             /\ c.kind = "creating" /\ c.credential = NoCredential
    BY <1>1, <2>1, <2>2, <2>3, <2>4, BeginType
  <2>6. discarded' \subseteq 1 .. issued /\ userId' \notin discarded'
    BY <1>1, <2>2, <2>4 DEF Inv, Typed, TypeOK, Nobody
  <2>7. TypeOK'
    BY <1>1, <2>1, <2>2, <2>3, <2>5, BoundsAssumption
       DEF Inv, Typed, TypeOK, Shown, Kinds, Names, Credentials
  <2>8. Typed'
    BY <1>1, <2>2, <2>3, <2>4, <2>5, <2>6, <2>7 DEF Typed
  <2>9. Bound'
    BY <1>1, <2>2, <2>4, <2>5, <2>6 DEF Bound, Current, Nobody
  <2>10. ResultIsEarned'
    BY <2>2 DEF ResultIsEarned, Shown
  <2>11. QED
    BY <2>8, <2>9, <2>10 DEF Inv
<1>5. QED
  BY <1>3, <1>4

LEMMA AuthenticateInv == ASSUME Inv, Authenticate PROVE Inv'
<1>1. /\ generation' = generation + 1 /\ generation < MaxGeneration /\ generation \in Nat
      /\ Begin("verifying", generation + 1, userId, name, credential)
      /\ state' = Shown("verifying") /\ credential # NoCredential /\ userId # Nobody
      /\ UNCHANGED <<supported, mode, username, consent, credential, userId, name, discarded>>
  BY DEF Authenticate, CanAuthenticate, Inv, Typed, TypeOK, history
<1>2. userId \in 1 .. issued + 1 /\ name \in Names /\ credential \in Credentials /\ issued \in Nat
  BY <1>1 DEF Inv, Typed, TypeOK, Names, Nobody
<1>3. /\ issued' = issued + 1 /\ issued' \in 1 .. MaxCeremonies
      /\ ceremonies' \subseteq Ceremonies
      /\ \A c \in ceremonies' :
           /\ c.challenge \in 1 .. issued' /\ c.token \in 1 .. generation'
           /\ c.user \in 1 .. issued'
           /\ c.kind = "creating" /\ c.answer # NoAnswer => c.answer.user = c.user
      /\ \A c, d \in ceremonies' : c.challenge = d.challenge => c = d
      /\ \A c \in ceremonies' : c.token = generation' =>
           /\ c.challenge = issued' /\ c.user = userId /\ c.name = name
           /\ c.kind = "verifying" /\ c.credential = credential
  BY <1>1, <1>2, BeginType
<1>4. TypeOK'
  BY <1>1, <1>2, <1>3, BoundsAssumption DEF Inv, Typed, TypeOK, Shown, Kinds
<1>5. Typed'
  BY <1>1, <1>2, <1>3, <1>4 DEF Inv, Typed, TypeOK
<1>6. Bound'
  BY <1>1, <1>3 DEF Inv, Bound, Current
<1>7. ResultIsEarned'
  BY <1>1 DEF ResultIsEarned, Shown
<1>8. QED
  BY <1>5, <1>6, <1>7 DEF Inv

\* A ceremony ends, or goes on with an answer or without time.
LEMMA CeremonyInv ==
  ASSUME Inv, NEW c \in ceremonies, Expire(c) \/ Refuse(c) \/ Answer(c) \/ Reject(c)
  PROVE  Inv'
<1>1. /\ UNCHANGED <<supported, mode, username, consent, generation, credential, userId, name>>
      /\ UNCHANGED <<issued, discarded, earned>>
  BY DEF Expire, Refuse, Answer, Reject, Fail, service, history
<1>2. state' = state \/ state' \in [kind : Kinds \ {"registered", "success"}, canVerify : BOOLEAN]
  <2>1. state' = state \/ state' = Failed(credential # NoCredential)
    BY DEF Expire, Refuse, Answer, Reject, Fail
  <2>2. (credential # NoCredential) \in BOOLEAN
    OBVIOUS
  <2>3. QED
    BY <2>1, <2>2, FailedType
<1>3. ASSUME NEW d \in ceremonies'
      PROVE  \/ d \in ceremonies
             \/ d = [c EXCEPT !.late = TRUE]
             \/ \E a \in Answers(c) : d = [c EXCEPT !.answer = a]
  BY <1>3 DEF Expire, Refuse, Answer, Reject, Fail, Ends
<1>4. c \in Ceremonies
  BY DEF Inv, Typed
<1>5. ASSUME NEW a \in Answers(c)
      PROVE  a \in AllAnswers /\ (c.kind = "creating" => a.user = c.user)
  BY <1>4, <1>5, BoundsAssumption DEF Answers, AllAnswers, Ceremonies, Stranger, Nobody
<1>6. ASSUME NEW d \in ceremonies'
      PROVE  /\ d \in Ceremonies
             /\ d.kind = "creating" /\ d.answer # NoAnswer => d.answer.user = d.user
             /\ \E e \in ceremonies :
                  /\ d.kind = e.kind /\ d.token = e.token /\ d.challenge = e.challenge
                  /\ d.user = e.user /\ d.name = e.name /\ d.credential = e.credential
  <2>1. CASE d \in ceremonies
    BY <2>1 DEF Inv, Typed
  <2>2. CASE d = [c EXCEPT !.late = TRUE]
    BY <1>4, <2>2 DEF Inv, Typed, Ceremonies
  <2>3. CASE \E a \in Answers(c) : d = [c EXCEPT !.answer = a]
    BY <1>4, <1>5, <2>3 DEF Ceremonies
  <2>4. QED
    BY <1>3, <1>6, <2>1, <2>2, <2>3
<1>7. ASSUME NEW d \in ceremonies', NEW e \in ceremonies', d.challenge = e.challenge
      PROVE  d = e
  <2>1. \A f \in ceremonies' : f \in ceremonies \ {c} \/ f.challenge = c.challenge
    BY <1>3, <1>4 DEF Expire, Refuse, Answer, Reject, Fail, Ends, Ceremonies
  <2>2. \A f, g \in ceremonies' : f \notin ceremonies \ {c} /\ g \notin ceremonies \ {c} => f = g
    BY DEF Expire, Refuse, Answer, Reject, Fail, Ends
  <2>3. QED
    BY <1>7, <2>1, <2>2 DEF Inv, Typed
<1>8. Typed'
  BY <1>2, <1>1, <1>6, <1>7 DEF Inv, Typed, TypeOK, Kinds
<1>9. Bound'
  BY <1>1, <1>6 DEF Inv, Bound, Current
<1>10. ResultIsEarned'
  BY <1>2, <1>1 DEF Inv, ResultIsEarned
<1>11. QED
  BY <1>8, <1>9, <1>10 DEF Inv

LEMMA AcceptInv == ASSUME Inv, NEW c \in ceremonies, Accept(c) PROVE Inv'
<1>1. /\ c \in Ceremonies /\ c.challenge = issued /\ c.user = userId /\ c.name = name
      /\ c.user \in 1 .. issued /\ issued \in 1 .. MaxCeremonies
      /\ c.kind = "verifying" => credential # NoCredential /\ c.credential = credential
  BY BoundsAssumption DEF Accept, Inv, Typed, TypeOK, Bound
<1>2. /\ c.answer # NoAnswer /\ Verifies(c) /\ ~c.late
      /\ ceremonies' \subseteq ceremonies /\ earned' = c
      /\ UNCHANGED <<supported, mode, username, consent, generation, userId, name, issued, discarded>>
  BY DEF Accept, Ends, InTime
<1>3. /\ credential' \in Credentials /\ credential' # NoCredential
      /\ credential'.user = userId /\ credential'.name = name
  <2>1. CASE c.kind = "creating"
    <3>1. credential' = [user |-> c.user, name |-> c.name, counter |-> 0]
      BY <2>1 DEF Accept
    <3>2. QED
      BY <1>1, <3>1, BoundsAssumption DEF Credentials, Ceremonies, NoCredential, Nobody
  <2>2. CASE c.kind = "verifying"
    <3>1. credential' = [credential EXCEPT !.counter = issued]
      BY <1>1, <2>2 DEF Accept
    <3>2. credential.user = userId /\ credential.name = name /\ userId # Nobody
      BY <1>1, <2>2 DEF Inv, Bound
    <3>3. QED
      BY <1>1, <3>1, <3>2 DEF Inv, Typed, Credentials, NoCredential
  <2>3. QED
    BY <1>1, <2>1, <2>2 DEF Ceremonies
<1>4. state' \in [kind : Kinds, canVerify : BOOLEAN]
  <2>1. state' \in {Shown("registered"), Shown("success")}
    BY DEF Accept
  <2>2. QED
    BY <2>1, ShownType DEF Kinds
<1>5. Typed'
  BY <1>1, <1>2, <1>3, <1>4 DEF Inv, Typed, TypeOK, Credentials
<1>6. \A d \in ceremonies' : ~Current(d)'
  <2> SUFFICES ASSUME NEW d \in ceremonies', Current(d) PROVE FALSE
    BY <1>2 DEF Current
  <2>1. d.challenge = issued /\ d \in ceremonies
    BY <1>2 DEF Inv, Bound
  <2>2. d = c
    BY <1>1, <2>1 DEF Inv, Typed
  <2>3. QED
    BY <2>2 DEF Accept, Ends
<1>7. Bound'
  BY <1>1, <1>2, <1>3, <1>6 DEF Inv, Bound, Nobody
<1>8. ResultIsEarned'
  <2>1. c.answer.sound /\ (c.kind = "verifying" => /\ c.answer.user = credential.user
                                                 /\ c.answer.handle \in {Nobody, c.user})
    BY <1>1, <1>2 DEF Verifies
  <2>2. c.answer.user = userId
    BY <1>1, <1>2, <2>1 DEF Inv, Typed, Bound, Ceremonies
  <2>3. state'.kind = "success" => credential'.counter = issued /\ c.answer.handle # Stranger
    <3>1. CASE c.kind = "creating"
      BY <3>1 DEF Accept, Shown
    <3>2. CASE c.kind = "verifying"
      <4>1. credential' = [credential EXCEPT !.counter = issued]
        BY <1>1, <3>2 DEF Accept
      <4>2. credential'.counter = issued
        BY <4>1 DEF Inv, Typed, Credentials
      <4>3. c.answer.handle # Stranger
        BY <1>1, <2>1, <3>2, BoundsAssumption DEF Stranger, Nobody
      <4>4. QED
        BY <4>2, <4>3
    <3>3. QED
      BY <1>1, <3>1, <3>2 DEF Ceremonies
  <2>4. QED
    BY <1>1, <1>2, <1>3, <2>1, <2>2, <2>3 DEF ResultIsEarned
<1>9. QED
  BY <1>5, <1>7, <1>8 DEF Inv

LEMMA NextInv == ASSUME Inv, [Next]_vars PROVE Inv'
<1>1. CASE UNCHANGED vars
  BY <1>1 DEF vars, service, history, Inv, Typed, TypeOK, Bound, Current, ResultIsEarned
<1>2. CASE SetMode
  BY <1>2 DEF SetMode, service, history, Inv, Typed, TypeOK, Bound, Current, ResultIsEarned
<1>3. CASE TickConsent
  BY <1>3 DEF TickConsent, service, history, Inv, Typed, TypeOK, Bound, Current, ResultIsEarned
<1>4. QED
  BY <1>1, <1>2, <1>3, ClearInv, RegisterInv, AuthenticateInv, SetUsernameInv, CeremonyInv,
     AcceptInv DEF Next, Settle

\* The inductive invariant: a ceremony of the present generation is the one
\* begun last, for the test on screen, and no other ceremony matters.
THEOREM Invariance == Spec => []Inv
<1>1. Init => Inv
  BY InitInv
<1>2. Inv /\ [Next]_vars => Inv'
  BY NextInv
<1>3. QED
  BY <1>1, <1>2, PTL DEF Spec

\* The signals and fields of the page have their types.
THEOREM TypeCorrect == Spec => []TypeOK
<1>1. Inv => TypeOK
  BY DEF Inv, Typed
<1>2. QED
  BY <1>1, Invariance, PTL

\* The credential of the page is that of the user and the name it shows, and no
\* answer brings back the one of a test that was cleared or edited.
THEOREM CredentialIsBound == Spec => []CredentialIsOfTheShownUser
<1>1. Inv => CredentialIsOfTheShownUser
  BY DEF Inv, Bound, CredentialIsOfTheShownUser
<1>2. QED
  BY <1>1, Invariance, PTL

\* A result on screen was earned by the ceremony begun last, in time and in order.
THEOREM NoResultForFree == Spec => []ResultIsEarned
<1>1. Inv => ResultIsEarned
  BY DEF Inv
<1>2. QED
  BY <1>1, Invariance, PTL
=============================================================================
