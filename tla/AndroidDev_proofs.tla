------------------------- MODULE AndroidDev_proofs -------------------------
(***************************************************************************)
(* Proofs about AndroidDev, for any devices, users, options, failures and  *)
(* edits, and for devices that come and go.                                *)
(***************************************************************************)
EXTENDS AndroidDev, TLAPS

Connections == [state : States, transport : Transports]
Steps == {"idle", "list", "user", "build", "install", "start"}

\* Each command belongs to one check of the context, or to any.
CheckOf(step) ==
  CASE step = "idle" -> {0}
    [] step = "build" -> {1}
    [] step = "install" -> {2}
    [] step = "start" -> {3}
    [] OTHER -> 1 .. 3

\* The pinned device is still connected as it was when it was chosen.
Connected == connected[device.serial].transport = device.transport

\* The pinned user is always the one of the first check, if there was one.
\* A device is chosen before anything is deployed, and its number only grows.
\* One that was gone by the end of the build is gone for good, so that only a
\* build that ended with the device there passes the checks that follow it.
Inv ==
  /\ TypeOK
  /\ user = firstUser
  /\ work.check \in CheckOf(work.step)
  /\ \A s \in Serials : listed[s].transport <= connected[s].transport
  /\ work # Idle \/ timer \/ Watched \/ main = "once" => device.serial \in Serials
  /\ device.serial \in Serials => device.transport <= connected[device.serial].transport
  /\ work.step \in {"build", "install", "start"} \/ work.check \in {2, 3} => user # Nobody
  /\ work.step = "list" /\ work.check = 2 => built \/ ~Connected
  /\ work.step \in {"user", "install"} /\ work.check = 2 => built
  /\ work.check = 3 => built
  /\ main \in {"adb", "listing", "choosing"} => work = Idle /\ ~timer

LEMMA InitInv == Init => Inv
<1> SUFFICES ASSUME Init PROVE Inv
  OBVIOUS
<1>1. 1 \in Transports /\ 0 \in 0 .. MaxEdits
  BY BoundsAssumption DEF Transports
<1>2. listed \in [Serials -> Connections] /\ connected \in [Serials -> Connections]
      /\ \A s \in Serials : listed[s].transport <= connected[s].transport
  BY <1>1 DEF Init, Unlisted, Connections, States
<1>3. Idle \in [step : Steps, check : 0 .. 3] /\ Idle.check \in CheckOf(Idle.step)
      /\ Idle.step = "idle" /\ Idle.check = 0
  BY DEF Idle, Steps, CheckOf
<1>4. queue \in [running : BOOLEAN, pending : BOOLEAN, stopped : BOOLEAN]
  BY DEF Init
<1>5. device \in [serial : Serials \union {Nobody}, transport : Transports \union {0}]
      /\ device.serial \notin Serials
  BY NobodyAssumption DEF Init, NoDevice
<1>6. TypeOK
  <2>1. options \in [device : Serials \union {Nobody}, interactive : BOOLEAN, watch : BOOLEAN]
    BY DEF Init
  <2>2. edits \in 0 .. MaxEdits /\ covered \in 0 .. edits
    BY <1>1 DEF Init
  <2>3. main = "adb" /\ user = Nobody /\ firstUser = Nobody /\ foreground \in Users /\ timer = FALSE /\ aborted = FALSE
        /\ built = FALSE /\ work = Idle
    BY DEF Init
  <2>4. QED
    BY <1>2, <1>3, <1>4, <1>5, <2>1, <2>2, <2>3 DEF TypeOK, Connections, Steps
<1>7. QED
  BY <1>2, <1>3, <1>4, <1>5, <1>6 DEF Init, Inv, Watched

\* Before a device is chosen.
LEMMA ChoiceInv == ASSUME Inv, FindAdb \/ List \/ SelectFails PROVE Inv'
<1>1. UNCHANGED <<options, device, user, work, queue, timer, aborted, environment, covered, built, firstUser>>
      /\ main' \in {"listing", "choosing", "ended"} /\ main \in {"adb", "listing", "choosing"}
      /\ listed' \in {listed, connected}
  BY DEF FindAdb, List, SelectFails, pinned
<1>2. \A s \in Serials : listed'[s].transport <= connected'[s].transport
  BY <1>1, BoundsAssumption DEF Inv, TypeOK, environment, Transports
<1>3. TypeOK'
  BY <1>1 DEF Inv, TypeOK, environment
<1>4. QED
  BY <1>1, <1>2, <1>3 DEF Inv, environment, Connected, Watched

LEMMA SelectInv == ASSUME Inv, Select PROVE Inv'
<1>1. PICK s \in Serials : device' = [serial |-> s, transport |-> listed[s].transport]
  BY DEF Select, Selectable
<1>2. /\ UNCHANGED <<options, user, timer, aborted, environment, built, firstUser>>
      /\ listed' = Unlisted /\ work' = [step |-> "list", check |-> 1] /\ covered' = edits
      /\ main' \in {"first", "once"}
      /\ queue' \in {queue, [queue EXCEPT !.running = TRUE]}
  BY DEF Select, BeginDeploy
<1>3. listed[s] \in Connections /\ connected[s] \in Connections
      /\ listed[s].transport <= connected[s].transport
  BY DEF Inv, TypeOK, Connections
<1>4. device'.serial = s /\ device'.transport = listed[s].transport
  BY <1>1
<1>5. work'.step = "list" /\ work'.check = 1
  BY <1>2
<1>6. \A t \in Serials : listed'[t] = [state |-> "gone", transport |-> 1]
  BY <1>2 DEF Unlisted
<1>7. \A t \in Serials : listed'[t].transport <= connected'[t].transport
  BY <1>2, <1>6, BoundsAssumption DEF Inv, TypeOK, environment, Transports
<1>8. listed' \in [Serials -> Connections]
  BY <1>2, BoundsAssumption DEF Unlisted, Connections, States, Transports
<1>9. TypeOK'
  <2>1. device' \in [serial : Serials \union {Nobody}, transport : Transports \union {0}]
    BY <1>1, <1>3 DEF Connections
  <2>2. queue' \in [running : BOOLEAN, pending : BOOLEAN, stopped : BOOLEAN]
    BY <1>2 DEF Inv, TypeOK
  <2>3. work' \in [step : Steps, check : 0 .. 3] /\ covered' \in 0 .. edits'
    BY <1>2, BoundsAssumption DEF Inv, TypeOK, Steps, environment
  <2>4. QED
    BY <1>2, <1>8, <2>1, <2>2, <2>3 DEF Inv, TypeOK, environment, Connections, Steps
<1>10. work'.check \in CheckOf(work'.step)
  BY <1>5 DEF CheckOf
<1>11. device'.transport <= connected'[device'.serial].transport
  BY <1>2, <1>3, <1>4 DEF environment
<1>12. QED
  BY <1>2, <1>4, <1>5, <1>7, <1>9, <1>10, <1>11 DEF Inv

\* The next command of a deployment.
LEMMA AwaitInv ==
  ASSUME Inv, work.step # "idle", NEW step \in Steps \ {"idle"}, NEW check \in 1 .. 3,
         Await(step, check), check \in CheckOf(step),
         UNCHANGED <<pinned, main, queue, timer, aborted, environment, covered>>,
         user' \in Users \union {Nobody}, user' = firstUser', built' \in BOOLEAN,
         step \in {"build", "install", "start"} \/ check \in {2, 3} => user' # Nobody,
         step = "list" /\ check = 2 => built' \/ ~Connected,
         step \in {"user", "install"} /\ check = 2 => built',
         check = 3 => built'
  PROVE  Inv'
<1>1. work'.step = step /\ work'.check = check /\ work' \in [step : Steps, check : 0 .. 3]
  BY DEF Await
<1>2. work # Idle
  BY DEF Idle
<1>3. TypeOK'
  BY <1>1 DEF Inv, TypeOK, pinned, environment, Steps
<1>4. Connected' = Connected
  BY DEF Connected, pinned, environment
<1>5. main \notin {"adb", "listing", "choosing"}
  BY <1>2 DEF Inv
<1>6. QED
  BY <1>1, <1>2, <1>3, <1>4, <1>5 DEF Inv, pinned, environment, Watched
LEMMA CheckedInv ==
  ASSUME Inv, DeviceChecked \/ UserChecked \/ Built \/ Installed PROVE Inv'
<1>1. /\ UNCHANGED <<pinned, main, queue, timer, aborted, environment, covered>>
      /\ work \in [step : Steps, check : 0 .. 3] /\ work.check \in CheckOf(work.step)
      /\ user \in Users \union {Nobody} /\ foreground \in Users /\ built \in BOOLEAN
      /\ user = firstUser
  BY DEF DeviceChecked, UserChecked, Built, Installed, Inv, TypeOK, Steps
<1>2. CASE DeviceChecked
  <2>1. /\ work.step = "list" /\ Await("user", work.check) /\ user' = user /\ built' = built
       /\ firstUser' = firstUser
        /\ connected[device.serial] = [state |-> "device", transport |-> device.transport]
    BY <1>2 DEF DeviceChecked
  <2>2. work.check \in 1 .. 3
    BY <1>1, <2>1 DEF CheckOf
  <2>3. work.check \in CheckOf("user")
    BY <2>2 DEF CheckOf
  <2>4. Connected
    BY <2>1 DEF Connected
  <2>5. /\ work.check = 2 => built
        /\ work.check = 3 => built
        /\ work.check \in {2, 3} => user # Nobody
    BY <2>1, <2>4 DEF Inv
  <2>6. QED
    BY <1>1, <2>1, <2>2, <2>3, <2>5, AwaitInv DEF Steps
<1>3. CASE UserChecked
  <2>1. /\ work.step = "user" /\ user' = foreground /\ built' = built
        /\ user \in {Nobody, foreground}
        /\ firstUser' = IF firstUser = Nobody THEN foreground ELSE firstUser
    BY <1>3 DEF UserChecked
  <2>2. work.check \in 1 .. 3
    BY <1>1, <2>1 DEF CheckOf
  <2>3. user' # Nobody /\ user' = firstUser'
    BY <1>1, <2>1, NobodyAssumption
  <2>4. work.check \in {2, 3} => built
    BY <2>1 DEF Inv
  <2>5. CASE work.check = 1 /\ Await("build", 1)
    <3>1. 1 \in CheckOf("build")
      BY DEF CheckOf
    <3>2. QED
      BY <1>1, <2>1, <2>3, <2>5, <3>1, AwaitInv DEF Steps
  <2>6. CASE work.check = 2 /\ Await("install", 2)
    <3>1. 2 \in CheckOf("install")
      BY DEF CheckOf
    <3>2. QED
      BY <1>1, <2>1, <2>3, <2>4, <2>6, <3>1, AwaitInv DEF Steps
  <2>7. CASE work.check = 3 /\ Await("start", 3)
    <3>1. 3 \in CheckOf("start")
      BY DEF CheckOf
    <3>2. QED
      BY <1>1, <2>1, <2>3, <2>4, <2>7, <3>1, AwaitInv DEF Steps
  <2>8. QED
    BY <1>3, <2>2, <2>5, <2>6, <2>7 DEF UserChecked
<1>4. CASE Built
  <2>1. work.step = "build" /\ Await("list", 2) /\ user' = user /\ built' = Connected
        /\ firstUser' = firstUser
    BY <1>4 DEF Built, Connected
  <2>2. 2 \in CheckOf("list")
    BY DEF CheckOf
  <2>3. built' \in BOOLEAN /\ (built' \/ ~Connected)
    BY <2>1 DEF Connected
  <2>4. user # Nobody
    BY <2>1 DEF Inv
  <2>5. QED
    BY <1>1, <2>1, <2>2, <2>3, <2>4, AwaitInv DEF Steps
<1>5. CASE Installed
  <2>1. work.step = "install" /\ Await("list", 3) /\ user' = user /\ built' = built
        /\ firstUser' = firstUser
    BY <1>5 DEF Installed
  <2>2. work.check = 2 /\ 3 \in CheckOf("list")
    BY <1>1, <2>1 DEF CheckOf
  <2>3. built /\ user # Nobody
    BY <2>1, <2>2 DEF Inv
  <2>4. QED
    BY <1>1, <2>1, <2>2, <2>3, AwaitInv DEF Steps
<1>6. QED
  BY <1>2, <1>3, <1>4, <1>5

\* A deployment begins, or there is none.
LEMMA WorkInv ==
  ASSUME Inv, BeginDeploy \/ (work' = Idle /\ UNCHANGED covered),
         UNCHANGED <<pinned, user, aborted, environment, built, firstUser>>,
         queue' \in [running : BOOLEAN, pending : BOOLEAN, stopped : BOOLEAN],
         timer' \in BOOLEAN, timer' => timer,
         main' = main \/ main' \in {"ended", "waiting"},
         device.serial \in Serials, main \notin {"adb", "listing", "choosing"}
  PROVE  Inv'
<1>1. \/ work' = [step |-> "list", check |-> 1]
      \/ work' = [step |-> "idle", check |-> 0]
  BY DEF BeginDeploy, Idle
<1>2. work' \in [step : Steps, check : 0 .. 3] /\ work'.check \in {0, 1}
      /\ work'.step \in {"idle", "list"}
  BY <1>1 DEF Steps
<1>3. work'.check \in CheckOf(work'.step)
  BY <1>1 DEF CheckOf
<1>4. covered' \in 0 .. edits'
  BY BoundsAssumption DEF Inv, TypeOK, BeginDeploy, environment
<1>5. TypeOK'
  BY <1>2, <1>4 DEF Inv, TypeOK, pinned, environment, Steps
<1>6. QED
  BY <1>2, <1>3, <1>5 DEF Inv, pinned, environment

LEMMA EndInv == ASSUME Inv, Started \/ Rejected PROVE Inv'
<1>1. work # Idle /\ DeployEnds /\ UNCHANGED <<pinned, user, timer, aborted, environment, built, firstUser>>
  BY DEF Started, Rejected, Idle
<1>2. device.serial \in Serials /\ main \notin {"adb", "listing", "choosing"}
  BY <1>1 DEF Inv
<1>3. queue' \in [running : BOOLEAN, pending : BOOLEAN, stopped : BOOLEAN]
  BY <1>1 DEF DeployEnds, Inv, TypeOK
<1>4. main' = main \/ main' \in {"ended", "waiting"}
  BY <1>1 DEF DeployEnds
<1>5. BeginDeploy \/ (work' = Idle /\ UNCHANGED covered)
  BY <1>1 DEF DeployEnds
<1>6. QED
  BY <1>1, <1>2, <1>3, <1>4, <1>5, WorkInv DEF Inv, TypeOK

LEMMA RequestInv == ASSUME Inv, Request PROVE Inv'
<1>1. /\ timer /\ timer' = FALSE /\ UNCHANGED <<pinned, main, user, aborted, environment, built, firstUser>>
      /\ UNCHANGED <<work, covered>> \/ BeginDeploy
      /\ queue' \in {queue, [queue EXCEPT !.pending = TRUE], [queue EXCEPT !.running = TRUE]}
  BY DEF Request
<1>2. device.serial \in Serials /\ main \notin {"adb", "listing", "choosing"}
  BY <1>1 DEF Inv
<1>3. queue' \in [running : BOOLEAN, pending : BOOLEAN, stopped : BOOLEAN]
  BY <1>1 DEF Inv, TypeOK
<1>4. CASE UNCHANGED <<work, covered>>
  <2>1. TypeOK'
    <3>1. /\ UNCHANGED <<options, listed, device, main, user, aborted, connected, foreground, edits>>
          /\ UNCHANGED <<work, covered, built, firstUser>>
      BY <1>1, <1>4 DEF pinned, environment
    <3>2. timer' \in BOOLEAN
      BY <1>1
    <3>3. QED
      BY <1>3, <3>1, <3>2 DEF Inv, TypeOK
  <2>2. QED
    BY <1>1, <1>2, <1>4, <2>1 DEF Inv, pinned, environment, Watched, Connected
<1>5. CASE BeginDeploy
  BY <1>1, <1>2, <1>3, <1>5, WorkInv
<1>6. QED
  BY <1>1, <1>4, <1>5

\* The environment, and what stops the program.
LEMMA OtherInv ==
  ASSUME Inv, Edit \/ Abort \/ Stopped \/ SwitchUser \/ \E s \in Serials : Reconnect(s)
  PROVE  Inv'
<1>1. CASE Edit
  <2>1. /\ edits' = edits + 1 /\ edits < MaxEdits /\ timer' = (timer \/ Watched)
        /\ UNCHANGED <<pinned, main, user, work, queue, aborted, connected, foreground, covered, built, firstUser>>
    BY <1>1 DEF Edit
  <2>2. edits' \in 0 .. MaxEdits /\ covered' \in 0 .. edits'
    BY <2>1, BoundsAssumption DEF Inv, TypeOK
  <2>3. TypeOK'
    BY <2>1, <2>2 DEF Inv, TypeOK, pinned, Watched
  <2>4. QED
    BY <2>1, <2>3 DEF Inv, pinned, Watched, Connected
<1>2. CASE Abort
  <2>1. TypeOK'
    BY <1>2 DEF Abort, Inv, TypeOK, pinned, environment
  <2>2. QED
    BY <1>2, <2>1 DEF Abort, Inv, pinned, environment, Watched, Connected
<1>3. CASE Stopped
  <2>1. /\ main \in {"adb", "listing", "waiting"} /\ main' = "ended" /\ timer' = FALSE
        /\ queue' = [queue EXCEPT !.stopped = TRUE, !.pending = FALSE]
        /\ UNCHANGED <<options, listed, device, user, work, aborted, connected, foreground, edits,
                       covered, built, firstUser>>
    BY <1>3 DEF Stopped, pinned, environment
  <2>2. TypeOK /\ queue' \in [running : BOOLEAN, pending : BOOLEAN, stopped : BOOLEAN]
    BY <2>1 DEF Inv, TypeOK
  <2>3. TypeOK'
    <3>1. /\ main' \in {"adb", "listing", "choosing", "once", "first", "waiting", "ended"}
          /\ timer' \in BOOLEAN
      BY <2>1
    <3>2. QED
      BY <2>1, <2>2, <3>1 DEF TypeOK
  <2>4. QED
    BY <2>1, <2>3 DEF Inv, Watched, Connected
<1>4. CASE SwitchUser
  <2>1. TypeOK'
    BY <1>4 DEF SwitchUser, Inv, TypeOK, pinned
  <2>2. QED
    BY <1>4, <2>1 DEF SwitchUser, Inv, pinned, Watched, Connected
<1>5. ASSUME NEW s \in Serials, Reconnect(s) PROVE Inv'
  <2>1. UNCHANGED <<options, listed, device, main, user, work, queue, timer, aborted, foreground, edits,
                    covered, built, firstUser>>
    BY <1>5 DEF Reconnect, pinned
  <2>2. \A t \in Serials : connected[t] \in Connections /\ connected[t].transport \in Nat
    BY BoundsAssumption DEF Inv, TypeOK, Connections, Transports
  <2>3. /\ connected' \in [Serials -> Connections]
        /\ \A t \in Serials : connected'[t].transport >= connected[t].transport
    <3>1. CASE connected' = [connected EXCEPT ![s].state = "gone"]
      BY <2>2, <3>1 DEF Inv, TypeOK, Connections, States
    <3>2. CASE connected' = [connected EXCEPT ![s].state = IF @ = "device" THEN "offline" ELSE "device"]
      BY <2>2, <3>2 DEF Inv, TypeOK, Connections, States
    <3>3. CASE /\ connected[s].transport < MaxTransport
               /\ connected' = [connected EXCEPT ![s] = [state |-> "device", transport |-> @.transport + 1]]
      <4>1. [state |-> "device", transport |-> connected[s].transport + 1] \in Connections
        BY <2>2, <3>3, BoundsAssumption DEF Connections, States, Transports
      <4>2. QED
        BY <2>2, <3>3, <4>1 DEF Inv, TypeOK, Connections
    <3>4. QED
      BY <1>5, <3>1, <3>2, <3>3 DEF Reconnect
  <2>4. \A t \in Serials : listed[t].transport \in Nat /\ connected'[t].transport \in Nat
    BY <2>3, BoundsAssumption DEF Inv, TypeOK, Connections, Transports
  <2>5. device.transport \in Nat
    BY BoundsAssumption DEF Inv, TypeOK, Transports
  <2>6. TypeOK'
    <3>1. TypeOK
      BY DEF Inv
    <3>2. QED
      BY <2>1, <2>3, <3>1 DEF TypeOK, Connections
  <2>7. \A t \in Serials : listed'[t].transport <= connected'[t].transport
    BY <2>1, <2>2, <2>3, <2>4 DEF Inv
  <2>8. device.serial \in Serials =>
          /\ device.transport <= connected'[device.serial].transport
          /\ ~Connected => ~Connected'
    <3>1. device.serial \in Serials => device.transport <= connected[device.serial].transport
      BY DEF Inv
    <3>2. device.serial \in Serials =>
            /\ connected[device.serial].transport \in Nat /\ connected'[device.serial].transport \in Nat
            /\ connected'[device.serial].transport >= connected[device.serial].transport
      BY <2>2, <2>3, <2>4
    <3>3. device' = device
      BY <2>1
    <3>4. QED
      BY <2>5, <3>1, <3>2, <3>3 DEF Connected
  <2>9. QED
    BY <2>1, <2>6, <2>7, <2>8 DEF Inv, Watched, Idle
<1>6. QED
  BY <1>1, <1>2, <1>3, <1>4, <1>5

LEMMA NextInv == ASSUME Inv, [Next]_vars PROVE Inv'
<1>1. CASE UNCHANGED vars
  <2>1. TypeOK'
    BY <1>1 DEF vars, Inv, TypeOK, pinned, environment
  <2>2. QED
    BY <1>1, <2>1 DEF vars, Inv, pinned, environment, Watched, Connected
<1>2. QED
  BY <1>1, ChoiceInv, SelectInv, CheckedInv, EndInv, RequestInv, OtherInv DEF Next, Deployment

\* The inductive invariant: what the present check has seen, and that a device
\* that was gone when the build ended stays gone.
THEOREM Invariance == Spec => []Inv
<1>1. Init => Inv
  BY InitInv
<1>2. Inv /\ [Next]_vars => Inv'
  BY NextInv
<1>3. QED
  BY <1>1, <1>2, PTL DEF Spec

\* Every variable has its type.
THEOREM TypeCorrect == Spec => []TypeOK
<1>1. Inv => TypeOK
  BY DEF Inv
<1>2. QED
  BY <1>1, Invariance, PTL

\* What is built is installed and started on the connection it was built for
\* and for the user that the first check of all found, whatever the device does
\* and whoever its foreground user is meanwhile.
THEOREM ChecksBeforeInstalling == Spec => []InstallIsChecked
<1>1. Inv => InstallIsChecked
  <2> SUFFICES ASSUME Inv PROVE InstallIsChecked
    OBVIOUS
  <2>1. /\ work.step = "install" => work.check = 2
        /\ work.step = "start" => work.check = 3
    BY DEF Inv, CheckOf
  <2>2. work.step \in {"install", "start"} => user \in Users
    BY DEF Inv, TypeOK
  <2>3. QED
    BY <2>1, <2>2 DEF Inv, InstallIsChecked
<1>2. QED
  BY <1>1, Invariance, PTL
=============================================================================
