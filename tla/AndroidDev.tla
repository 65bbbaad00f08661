----------------------------- MODULE AndroidDev -----------------------------
(***************************************************************************)
(* just dev-android (scripts/lib/android-dev.mts): builds, installs and    *)
(* starts the debug application on one device, once or after every edit.   *)
(* The device and its foreground user are chosen once and stay pinned: a   *)
(* deployment looks at both before the build, before the installation and  *)
(* before the start, since a build takes minutes and the device is         *)
(* somebody's.  Edits are watched, gathered by a timer, and gathered again *)
(* by a queue while a deployment runs.                                     *)
(*                                                                         *)
(* Every command is run with the abort signal: a step that waits for one   *)
(* either gets its answer or is rejected (a failure, a bad answer, the     *)
(* timeout), and after the abort all of them are rejected.                 *)
(***************************************************************************)
EXTENDS Naturals

CONSTANTS
  Serials, Users,
  Nobody,         \* no user, and no device
  MaxTransport,   \* bound on the times a device is connected anew
  MaxEdits        \* bound on the edits of the sources

ASSUME NobodyAssumption == Nobody \notin Serials \union Users
ASSUME BoundsAssumption == MaxTransport \in Nat \ {0} /\ MaxEdits \in Nat

VARIABLES
  options,   \* parseDevOptions: [device, interactive, watch]
  main,      \* where runAndroidDev stands
  listed,    \* the devices as they were listed, until one is chosen
  device,    \* the pinned device and its transport
  user,      \* the pinned user of AndroidDevSession
  work,      \* the deployment: the command it awaits, and which check of the context
  queue,     \* DevRebuildQueue: [running, pending, stopped]
  timer,     \* whether the timer of the watchers is set
  aborted,   \* abort.signal.aborted
  connected, \* the environment: the state and transport of each device
  foreground,\* the environment: the foreground user
  edits,     \* the edits so far of the files isAndroidInput names
  covered,   \* history: the edits before the last deployment began
  built,     \* history: the pinned device was still connected when the build ended
  firstUser  \* history: the user that the first check of all found

environment == <<connected, foreground, edits>>
pinned == <<options, listed, device>>
vars == <<pinned, main, user, work, queue, timer, aborted, environment, covered, built, firstUser>>

----------------------------------------------------------------------------
States == {"device", "offline", "gone"}
Transports == 1 .. MaxTransport
NoDevice == [serial |-> Nobody, transport |-> 0]
Unlisted == [s \in Serials |-> [state |-> "gone", transport |-> 1]]
Idle == [step |-> "idle", check |-> 0]

Watched == main \in {"first", "waiting"}

Init ==
  /\ options \in [device : Serials \union {Nobody}, interactive : BOOLEAN, watch : BOOLEAN]
  /\ main = "adb" /\ listed = Unlisted /\ device = NoDevice /\ user = Nobody
  /\ work = Idle /\ queue = [running |-> FALSE, pending |-> FALSE, stopped |-> FALSE]
  /\ timer = FALSE /\ aborted = FALSE
  /\ connected \in [Serials -> [state : States, transport : {1}]] /\ foreground \in Users
  /\ edits = 0 /\ covered = 0 /\ built = FALSE /\ firstUser = Nobody

----------------------------------------------------------------------------
(* The choice of the device. *)

\* validateAdb: the first candidate that names its version, if there is one
FindAdb ==
  /\ main = "adb" /\ ~aborted
  /\ main' \in {"listing", "ended"}
  /\ UNCHANGED <<pinned, user, work, queue, timer, aborted, environment, covered, built, firstUser>>

\* parseDevices, which also refuses an output it does not understand
List ==
  /\ main = "listing" /\ ~aborted
  /\ \/ /\ main' = "choosing"
        /\ listed' = connected
     \/ main' = "ended" /\ UNCHANGED listed
  /\ UNCHANGED <<options, device, user, work, queue, timer, aborted, environment,
                 covered, built, firstUser>>

\* The list is as old as the prompt that shows it.
Selectable ==
  {s \in Serials : options.device \in {s, Nobody} /\ listed[s].state = "device"}

BeginDeploy == work' = [step |-> "list", check |-> 1] /\ covered' = edits

\* selectDevice, and the first deployment; an answer that names no device, or
\* one that is not ready, ends the program.
Select ==
  /\ main = "choosing" /\ ~aborted
  /\ options.device # Nobody \/ options.interactive
  /\ \E s \in Selectable : device' = [serial |-> s, transport |-> listed[s].transport]
  /\ listed' = Unlisted
  /\ BeginDeploy
  /\ IF options.watch
       THEN main' = "first" /\ queue' = [queue EXCEPT !.running = TRUE]
       ELSE main' = "once" /\ UNCHANGED queue
  /\ UNCHANGED <<options, user, timer, aborted, environment, built, firstUser>>

SelectFails ==
  /\ main = "choosing"
  /\ main' = "ended"
  /\ UNCHANGED <<pinned, user, work, queue, timer, aborted, environment, covered, built, firstUser>>

----------------------------------------------------------------------------
(* A deployment. *)

Await(step, check) == work' = [step |-> step, check |-> check]

\* checkContext: first the device, and then its foreground user
DeviceChecked ==
  /\ work.step = "list" /\ ~aborted
  /\ connected[device.serial] = [state |-> "device", transport |-> device.transport]
  /\ Await("user", work.check)
  /\ UNCHANGED <<pinned, main, user, queue, timer, aborted, environment, covered, built, firstUser>>

\* Fault: a check takes the user it finds, whoever was there before.
UserFollowed ==
  /\ work.step = "user" /\ ~aborted
  /\ user' = foreground
  /\ firstUser' = IF firstUser = Nobody THEN foreground ELSE firstUser
  /\ Await(CASE work.check = 1 -> "build"
             [] work.check = 2 -> "install"
             [] work.check = 3 -> "start", work.check)
  /\ UNCHANGED <<pinned, main, queue, timer, aborted, environment, covered, built>>

UserChecked ==
  /\ work.step = "user" /\ ~aborted
  /\ user \in {Nobody, foreground}
  /\ user' = foreground
  /\ firstUser' = IF firstUser = Nobody THEN foreground ELSE firstUser
  /\ Await(CASE work.check = 1 -> "build"
             [] work.check = 2 -> "install"
             [] work.check = 3 -> "start", work.check)
  /\ UNCHANGED <<pinned, main, queue, timer, aborted, environment, covered, built>>

\* Fault: the build is followed by the installation, on the check before it.
BuiltUnchecked ==
  /\ work.step = "build" /\ ~aborted
  /\ built' = (connected[device.serial].transport = device.transport)
  /\ Await("install", 2)
  /\ UNCHANGED <<pinned, main, user, queue, timer, aborted, environment, covered, firstUser>>

Built ==
  /\ work.step = "build" /\ ~aborted
  /\ built' = (connected[device.serial].transport = device.transport)
  /\ Await("list", 2)
  /\ UNCHANGED <<pinned, main, user, queue, timer, aborted, environment, covered, firstUser>>

Installed ==
  /\ work.step = "install" /\ ~aborted
  /\ Await("list", 3)
  /\ UNCHANGED <<pinned, main, user, queue, timer, aborted, environment, covered, built, firstUser>>

\* The loop of request: what was asked for meanwhile is one more deployment.
DeployEnds ==
  IF queue.running /\ queue.pending /\ ~queue.stopped
    THEN /\ queue' = [queue EXCEPT !.pending = FALSE]
         /\ BeginDeploy
         /\ UNCHANGED main
    ELSE /\ queue' = [queue EXCEPT !.running = FALSE]
         /\ work' = Idle /\ UNCHANGED covered
         /\ main' = CASE main = "once" -> "ended"
                      [] main = "first" -> "waiting"
                      [] OTHER -> main

Started ==
  /\ work.step = "start" /\ ~aborted
  /\ DeployEnds
  /\ UNCHANGED <<pinned, user, timer, aborted, environment, built, firstUser>>

\* A command fails, is answered badly, or runs out of time.
Rejected ==
  /\ work.step # "idle"
  /\ DeployEnds
  /\ UNCHANGED <<pinned, user, timer, aborted, environment, built, firstUser>>

----------------------------------------------------------------------------
(* The watchers and the queue. *)

\* A watcher tells the edit of an input by its name; every edit sets the timer anew.
Edit ==
  /\ edits < MaxEdits
  /\ edits' = edits + 1
  /\ timer' = (timer \/ Watched)
  /\ UNCHANGED <<pinned, main, user, work, queue, aborted, connected, foreground,
                 covered, built, firstUser>>

\* Fault: what is asked for during a deployment is forgotten.
RequestUnlessRunning ==
  /\ timer
  /\ timer' = FALSE
  /\ IF queue.stopped \/ queue.running
       THEN UNCHANGED <<queue, work, covered>>
       ELSE queue' = [queue EXCEPT !.running = TRUE] /\ BeginDeploy
  /\ UNCHANGED <<pinned, main, user, aborted, environment, built, firstUser>>

\* The timer fires: request
Request ==
  /\ timer
  /\ timer' = FALSE
  /\ IF queue.stopped
       THEN UNCHANGED <<queue, work, covered>>
       ELSE IF queue.running
         THEN queue' = [queue EXCEPT !.pending = TRUE] /\ UNCHANGED <<work, covered>>
         ELSE queue' = [queue EXCEPT !.running = TRUE] /\ BeginDeploy
  /\ UNCHANGED <<pinned, main, user, aborted, environment, built, firstUser>>

\* SIGINT, SIGTERM, or an error of a watcher
Abort ==
  /\ ~aborted /\ main # "ended"
  /\ aborted' = TRUE
  /\ UNCHANGED <<pinned, main, user, work, queue, timer, environment, covered, built, firstUser>>

\* The finally of the watch: the timer is cleared and the queue disposed.
Stopped ==
  /\ aborted /\ main \in {"adb", "listing", "waiting"}
  /\ main' = "ended"
  /\ timer' = FALSE
  /\ queue' = [queue EXCEPT !.stopped = TRUE, !.pending = FALSE]
  /\ UNCHANGED <<pinned, user, work, aborted, environment, covered, built, firstUser>>

----------------------------------------------------------------------------
(* The environment. *)

Reconnect(s) ==
  /\ \/ connected' = [connected EXCEPT ![s].state = "gone"]
     \/ /\ connected[s].state # "gone"
        /\ connected' = [connected EXCEPT ![s].state =
                                     IF @ = "device" THEN "offline" ELSE "device"]
     \/ /\ connected[s].transport < MaxTransport
        /\ connected' = [connected EXCEPT ![s] = [state |-> "device", transport |-> @.transport + 1]]
  /\ UNCHANGED <<pinned, main, user, work, queue, timer, aborted, foreground, edits,
                 covered, built, firstUser>>

SwitchUser ==
  /\ foreground' \in Users
  /\ UNCHANGED <<pinned, main, user, work, queue, timer, aborted, connected, edits,
                 covered, built, firstUser>>

Deployment == DeviceChecked \/ UserChecked \/ Built \/ Installed \/ Started \/ Rejected

Next ==
  \/ FindAdb \/ List \/ Select \/ SelectFails \/ Deployment
  \/ Edit \/ Request \/ Abort \/ Stopped \/ SwitchUser
  \/ \E s \in Serials : Reconnect(s)

Spec == Init /\ [][Next]_vars

\* Commands have timeouts and timers fire; edits, signals and devices are free.
FairSpec == Spec /\ WF_vars(Deployment) /\ WF_vars(Request)

----------------------------------------------------------------------------
(* Properties. *)

\* Every variable has its type.
TypeOK ==
  LET Connection == [state : States, transport : Transports] IN
  /\ options \in [device : Serials \union {Nobody}, interactive : BOOLEAN, watch : BOOLEAN]
  /\ main \in {"adb", "listing", "choosing", "once", "first", "waiting", "ended"}
  /\ listed \in [Serials -> Connection] /\ connected \in [Serials -> Connection]
  /\ device \in [serial : Serials \union {Nobody}, transport : Transports \union {0}]
  /\ user \in Users \union {Nobody} /\ firstUser \in Users \union {Nobody} /\ foreground \in Users
  /\ work \in [step : {"idle", "list", "user", "build", "install", "start"}, check : 0 .. 3]
  /\ queue \in [running : BOOLEAN, pending : BOOLEAN, stopped : BOOLEAN]
  /\ timer \in BOOLEAN /\ aborted \in BOOLEAN /\ built \in BOOLEAN
  /\ edits \in 0 .. MaxEdits /\ covered \in 0 .. edits

\* What a build is installed on, and started on, is the connection that was
\* chosen: one that was lost while the build ran, by a device that came back or
\* another that took its serial, gets nothing (the second checkContext of
\* deploy).  The user it is installed and started for is the one that the first
\* check of the first deployment found, however often the foreground user
\* changed since, during a build or between two deployments.
InstallIsChecked ==
  /\ work.step \in {"install", "start"} =>
       built /\ user \in Users /\ user = firstUser
  /\ work.check = 3 => built

\* While the sources are watched every edit is followed by a deployment that
\* began after it, unless the program is stopped: an edit during a deployment,
\* or between the end of one and the next, is not forgotten (DevRebuildQueue).
EveryEditIsDeployed ==
  \A n \in 1 .. MaxEdits :
    (Watched /\ edits >= n) ~> (covered >= n \/ aborted)
=============================================================================
