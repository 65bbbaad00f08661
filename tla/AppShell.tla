------------------------------ MODULE AppShell ------------------------------
(***************************************************************************)
(* The shell of the desktop application (App.tsx): the session that is     *)
(* shown, the switch to another one, and the guided tour of a demo         *)
(* session (tutorial-service.ts, tutorial.ts).  A session is a scope of    *)
(* services; what happens inside it is FrontendWorkflow's subject, and     *)
(* here its view is only whether a plan is shown or being applied.         *)
(*                                                                         *)
(* startDemo and startLive are functions with awaits: transition says      *)
(* where the one that runs stands.  Everything that can happen at an       *)
(* await (a click, an answer, a frame, a timer) is an action.  Controls    *)
(* behind a dialog stay reachable, since no dialog traps the focus.        *)
(***************************************************************************)
EXTENDS Naturals, Sequences, FiniteSets

CONSTANTS
  MaxScopes,   \* bound on the sessions created
  MaxSkips     \* bound on the clicks on the onboarding dialog's skip

ASSUME BoundsAssumption == MaxScopes \in Nat /\ MaxSkips \in Nat

VARIABLES
  resource,    \* AppService.resource: "loading", "ready" or "failed"
  onboarding,  \* resource.startup.onboardingStatus, "none" for null
  requests,    \* the calls of setOnboarding: [by, status, phase]
  scope,       \* the session scopes: [kind, alive, view]
  shown,       \* the scope signal; home is shown exactly when there is none
  demo,        \* the demo signal
  transition,  \* sessionTransitioning and the locals of the function that set it
  prompt,      \* the tutorialLaunchPrompt signal, as whether it is set
  tour,        \* the TutorialService of a scope and its one driver
  driver       \* activeDriver: the scope whose tour it is

tutorial == <<tour, driver, requests>>
vars == <<resource, onboarding, scope, shown, demo, transition, prompt, tutorial>>

----------------------------------------------------------------------------
Scopes == 1 .. MaxScopes
Nowhere == 0
Skipping == 0       \* the dialog, as the one that settles the onboarding

NoTour == [phase |-> "none", active |-> FALSE, current |-> FALSE, settled |-> FALSE]
Unused == [kind |-> "none", alive |-> FALSE, view |-> "other"]
Still == [phase |-> "none", guided |-> FALSE, next |-> Nowhere]

Home == shown = Nowhere
Transitioning == transition.phase # "none"
SwitchBlocked == ~Home /\ scope[shown].view = "applying"
TutorialActive == ~Home /\ tour[shown].active
SessionIsOnScreen == resource = "ready" /\ ~Home
Created == Cardinality({s \in Scopes : scope[s].kind # "none"})

Init ==
  /\ resource = "loading" /\ onboarding = "none" /\ requests = <<>>
  /\ scope = [s \in Scopes |-> Unused] /\ shown = Nowhere /\ demo = FALSE
  /\ transition = Still /\ prompt = FALSE
  /\ tour = [s \in Scopes |-> NoTour] /\ driver = Nowhere

----------------------------------------------------------------------------
(* The tour.  These operators map a record [tour, driver, requests] to the *)
(* one after a call, so that a call inside a call composes.                *)

Tutorial == [tour |-> tour, driver |-> driver, requests |-> requests]
Becomes(w) == tour' = w.tour /\ driver' = w.driver /\ requests' = w.requests

\* setOnboarding, up to its await
SetOnboarding(w, by, status) ==
  [w EXCEPT !.requests = Append(@, [by |-> by, status |-> status, phase |-> "asked"])]

\* completed and dismissed: nothing of a service that has moved on
Ended(w, s, status) ==
  IF w.tour[s].current
    THEN SetOnboarding([w EXCEPT !.tour[s].active = FALSE], s, status)
    ELSE w

\* onDestroyed
Destroyed(w, s) ==
  LET told == IF w.tour[s].settled THEN w ELSE Ended(w, s, "skipped") IN
  [told EXCEPT !.tour[s].phase = "over",
               !.driver = IF @ = s THEN Nowhere ELSE @]

\* destroy of driver.js: a tour that was never driven has nothing to destroy.
Destroy(w, s) == IF w.tour[s].phase = "driving" THEN Destroyed(w, s) ELSE w

\* stopTutorial stops whichever tour is the active one.
StopTutorial(w) ==
  [(IF w.driver = Nowhere THEN w ELSE Destroy(w, w.driver)) EXCEPT !.driver = Nowhere]

\* stop: the service moves on first, and a wait for the targets ends.
Stop(w, s) ==
  LET stopped == StopTutorial(
        [w EXCEPT !.tour[s].current = FALSE,
                  !.tour[s].phase = IF @ = "waiting" THEN "over" ELSE @]) IN
  [stopped EXCEPT !.tour[s].active = FALSE]

\* dismiss: the tour is destroyed first, so that its callback still counts.
Dismiss(s) ==
  /\ SessionIsOnScreen /\ s = shown
  /\ tour[s].active /\ tour[s].phase \in {"queued", "driving"}
  /\ Becomes([StopTutorial(Tutorial) EXCEPT !.tour[s].current = FALSE,
                                            !.tour[s].active = FALSE])
  /\ UNCHANGED <<resource, onboarding, scope, shown, demo, transition, prompt>>

\* start, from its targets to its return
TargetsReady(s) ==
  /\ tour[s].phase = "waiting" /\ resource = "ready"
  /\ shown = s /\ scope[s].view = "other"
  /\ Becomes([StopTutorial(Tutorial) EXCEPT !.tour[s].phase = "queued", !.driver = s])
  /\ UNCHANGED <<resource, onboarding, scope, shown, demo, transition, prompt>>

\* Fault: the wait has no timer.
NeverMissing(s) == FALSE /\ s = shown /\ UNCHANGED vars

TargetsMissing(s) ==
  /\ tour[s].phase = "waiting"
  /\ Becomes([Tutorial EXCEPT !.tour[s].phase = "over", !.tour[s].active = FALSE])
  /\ UNCHANGED <<resource, onboarding, scope, shown, demo, transition, prompt>>

\* The animation frame comes also to a tour that was stopped before it.
Drive(s) ==
  /\ tour[s].phase = "queued"
  /\ tour' = [tour EXCEPT ![s].phase = "driving"]
  /\ UNCHANGED <<resource, onboarding, requests, scope, shown, demo, transition,
                 prompt, driver>>

\* Fault: destroy is taken for a dismissal after the answer.
EndsTwice(s, status) ==
  /\ tour[s].phase = "driving"
  /\ Becomes(Destroyed(Ended(Tutorial, s, status), s))
  /\ UNCHANGED <<resource, onboarding, scope, shown, demo, transition, prompt>>

\* onDoneClick and onCloseClick
End(s, status) ==
  /\ tour[s].phase = "driving"
  /\ Becomes(Destroy(Ended([Tutorial EXCEPT !.tour[s].settled = TRUE], s, status), s))
  /\ UNCHANGED <<resource, onboarding, scope, shown, demo, transition, prompt>>

----------------------------------------------------------------------------
(* Sessions. *)

\* Fault: the view of a disposed session is one the shell does not know.
DisposedAsGone(f, s) == [f EXCEPT ![s].alive = FALSE, ![s].view = "gone"]

\* Disposing a scope stops its tour, and its services answer no more.
Disposed(f, s) == [f EXCEPT ![s].alive = FALSE, ![s].view = "other"]

\* createSessionScope
Create(kind) == [scope EXCEPT ![Created + 1] = [kind |-> kind, alive |-> TRUE, view |-> "other"]]

\* finally: a session that was not adopted is disposed; f are the scopes then.
Finally(f) ==
  /\ transition' = Still
  /\ IF transition.next = Nowhere
       THEN scope' = f /\ UNCHANGED tutorial
       ELSE /\ scope' = Disposed(f, transition.next)
            /\ Becomes(Stop(Tutorial, transition.next))

\* Fault: the session that was shown goes on.
LeftRunning(f, w) ==
  /\ shown' = transition.next
  /\ scope' = f
  /\ Becomes(w)

\* replaceScope, with the tour as it is then
ReplaceScope(f, w) ==
  /\ shown' = transition.next
  /\ scope' = IF Home THEN f ELSE Disposed(f, shown)
  /\ Becomes(IF Home THEN w ELSE Stop(w, shown))

StartLive ==
  /\ resource = "ready" /\ Home /\ ~Transitioning
  /\ Created < MaxScopes
  /\ scope' = Create("live")
  /\ transition' = [phase |-> "starting", guided |-> FALSE, next |-> Created + 1]
  /\ UNCHANGED <<resource, onboarding, shown, demo, prompt, tutorial>>

LiveStarts ==
  /\ transition.phase = "starting"
  /\ demo' = FALSE
  /\ ReplaceScope(scope, Tutorial)
  /\ transition' = Still
  /\ UNCHANGED <<resource, onboarding, prompt>>

StartDemo(guided) ==
  /\ ~Transitioning /\ ~SwitchBlocked
  /\ Created < MaxScopes
  /\ transition' = [phase |-> "fixture", guided |-> guided, next |-> Nowhere]
  /\ UNCHANGED <<resource, onboarding, scope, shown, demo, tutorial>>

FixtureLoaded ==
  /\ transition.phase = "fixture"
  /\ scope' = Create("demo")
  /\ transition' = [transition EXCEPT !.phase = "selecting", !.next = Created + 1]
  /\ UNCHANGED <<resource, onboarding, shown, demo, prompt, tutorial>>

StartFails ==
  /\ transition.phase \in {"starting", "fixture", "selecting"}
  /\ Finally(scope)
  /\ UNCHANGED <<resource, onboarding, shown, demo, prompt>>

\* start of the tutorial service, up to its wait
TourOf(w, s) ==
  [w EXCEPT !.tour[s] = [NoTour EXCEPT !.phase = "waiting", !.active = TRUE, !.current = TRUE]]

\* From setDemo on; f are the scopes at that point.
Adopt(f) ==
  /\ demo' = TRUE
  /\ IF transition.guided
       THEN /\ ReplaceScope(f, TourOf(Tutorial, transition.next))
            /\ transition' = [transition EXCEPT !.phase = "touring", !.next = Nowhere]
       ELSE /\ ReplaceScope(f, Tutorial)
            /\ transition' = Still

\* Fault: what is shown was looked at before the awaits.
AdoptOrCancelOnly ==
  /\ transition.phase = "selecting"
  /\ IF ~Home /\ scope[shown].view = "plan"
       THEN /\ transition' = [transition EXCEPT !.phase = "cancelling"]
            /\ UNCHANGED <<scope, shown, demo, tutorial>>
       ELSE Adopt(scope)
  /\ UNCHANGED <<resource, onboarding, prompt>>

\* The demo session has its ADB: a plan that is shown is cancelled first, and
\* one that is being applied meanwhile keeps its session.
DemoSelected ==
  /\ transition.phase = "selecting"
  /\ IF ~Home /\ scope[shown].view = "plan"
       THEN /\ transition' = [transition EXCEPT !.phase = "cancelling"]
            /\ UNCHANGED <<scope, shown, demo, tutorial>>
       ELSE IF SwitchBlocked
              THEN Finally(scope) /\ UNCHANGED <<shown, demo>>
              ELSE Adopt(scope)
  /\ UNCHANGED <<resource, onboarding, prompt>>

\* cancelPlan drops the plan either way; a session that was left has none.
PlanDropped == IF Home THEN scope ELSE [scope EXCEPT ![shown].view = "other"]

PlanCancelled ==
  /\ transition.phase = "cancelling"
  /\ Adopt(PlanDropped)
  /\ UNCHANGED <<resource, onboarding, prompt>>

CancellationFails ==
  /\ transition.phase = "cancelling"
  /\ Finally(PlanDropped)
  /\ UNCHANGED <<resource, onboarding, shown, demo, prompt>>

\* tutorial.start has returned.
TourStarted ==
  /\ transition.phase = "touring"
  /\ \A s \in Scopes : tour[s].phase # "waiting"
  /\ Finally(scope)
  /\ UNCHANGED <<resource, onboarding, shown, demo, prompt>>

----------------------------------------------------------------------------
(* The user. *)

\* The buttons of the welcome view and of the onboarding dialog
OpenDemo ==
  /\ resource = "ready" /\ Home
  /\ StartDemo(FALSE) /\ UNCHANGED prompt

OnboardingAsked == resource = "ready" /\ onboarding = "none" /\ Home

LearnWithDemo == OnboardingAsked /\ StartDemo(TRUE) /\ UNCHANGED prompt

Skip ==
  /\ OnboardingAsked
  /\ Cardinality({i \in DOMAIN requests : requests[i].by = Skipping}) < MaxSkips
  /\ Becomes(SetOnboarding(Tutorial, Skipping, "skipped"))
  /\ UNCHANGED <<resource, onboarding, scope, shown, demo, transition, prompt>>

RequestTutorial ==
  /\ ~Transitioning /\ ~TutorialActive /\ ~SwitchBlocked
  /\ \/ Home /\ StartDemo(TRUE) /\ UNCHANGED prompt
     \/ /\ ~Home
        /\ prompt' = TRUE
        /\ UNCHANGED <<resource, onboarding, scope, shown, demo, transition, tutorial>>

ConfirmTutorialLaunch ==
  /\ prompt
  /\ prompt' = FALSE
  /\ \/ StartDemo(TRUE)
     \/ /\ Transitioning \/ SwitchBlocked
        /\ UNCHANGED <<resource, onboarding, scope, shown, demo, transition, tutorial>>

CancelTutorialLaunch ==
  /\ prompt
  /\ prompt' = FALSE
  /\ UNCHANGED <<resource, onboarding, scope, shown, demo, transition, tutorial>>

\* The banner of a demo session; it works during a switch too.
ExitSession ==
  /\ SessionIsOnScreen /\ demo
  /\ scope' = Disposed(scope, shown)
  /\ Becomes(Stop(Tutorial, shown))
  /\ shown' = Nowhere /\ demo' = FALSE
  /\ UNCHANGED <<resource, onboarding, transition, prompt>>

\* What the workflow of the session does, the user's part and the answers
Work ==
  /\ SessionIsOnScreen
  /\ \E step \in {<<"other", "plan">>, <<"plan", "other">>,
                  <<"plan", "applying">>, <<"applying", "other">>} :
       /\ scope[shown].view = step[1]
       /\ scope' = [scope EXCEPT ![shown].view = step[2]]
  /\ UNCHANGED <<resource, onboarding, shown, demo, transition, prompt, tutorial>>

\* initialize
Initialize ==
  /\ resource = "loading"
  /\ \/ resource' = "ready" /\ onboarding' \in {"none", "skipped", "completed"}
     \/ resource' = "failed" /\ UNCHANGED onboarding
  /\ UNCHANGED <<scope, shown, demo, transition, prompt, tutorial>>

\* setOnboarding, after its await; answers may overtake one another.
OnboardingAnswered(i) ==
  /\ requests[i].phase = "asked"
  /\ requests' = [requests EXCEPT ![i].phase = "done"]
  /\ \/ resource = "ready" /\ onboarding' = requests[i].status
     \/ UNCHANGED onboarding
  /\ UNCHANGED <<resource, scope, shown, demo, transition, prompt, tour, driver>>

Next ==
  \/ Initialize \/ StartLive \/ LiveStarts \/ FixtureLoaded \/ StartFails
  \/ DemoSelected \/ PlanCancelled \/ CancellationFails \/ TourStarted
  \/ OpenDemo \/ LearnWithDemo \/ Skip \/ ExitSession \/ Work
  \/ RequestTutorial \/ ConfirmTutorialLaunch \/ CancelTutorialLaunch
  \/ \E s \in Scopes :
       \/ TargetsReady(s) \/ TargetsMissing(s) \/ Drive(s) \/ Dismiss(s)
       \/ \E status \in {"completed", "skipped"} : End(s, status)
  \/ \E i \in DOMAIN requests : OnboardingAnswered(i)

Spec == Init /\ [][Next]_vars

\* The backend and the demo gateway answer, and the timer of a wait fires.
FairSpec ==
  /\ Spec
  /\ WF_vars(LiveStarts \/ FixtureLoaded \/ DemoSelected \/ StartFails)
  /\ WF_vars(PlanCancelled \/ CancellationFails)
  /\ WF_vars(\E s \in Scopes : TargetsMissing(s)) /\ WF_vars(TourStarted)

----------------------------------------------------------------------------
(* Properties. *)

\* Every variable has its type.
TypeOK ==
  /\ resource \in {"loading", "ready", "failed"}
  /\ onboarding \in {"none", "skipped", "completed"}
  /\ requests \in Seq([by : Scopes \union {Skipping}, status : {"skipped", "completed"},
                       phase : {"asked", "done"}])
  /\ scope \in [Scopes -> [kind : {"none", "live", "demo"}, alive : BOOLEAN,
                           view : {"other", "plan", "applying"}]]
  /\ shown \in Scopes \union {Nowhere} /\ demo \in BOOLEAN /\ prompt \in BOOLEAN
  /\ transition \in
       [phase : {"none", "starting", "fixture", "selecting", "cancelling", "touring"},
        guided : BOOLEAN, next : Scopes \union {Nowhere}]
  /\ tour \in [Scopes -> [phase : {"none", "waiting", "queued", "driving", "over"},
                          active : BOOLEAN, current : BOOLEAN, settled : BOOLEAN]]
  /\ driver \in Scopes \union {Nowhere}

\* At most the session that is shown, and the one a switch is preparing, are
\* alive: no session is left behind with its subscriptions and its generations
\* (replaceScope, exitSession and the finally of a switch).  The banner of a
\* simulation is up exactly over a demo session.  A tour that is active is that
\* of the session that is shown, and there is something that will end it: the
\* function that waits for its targets, or a driver whose callbacks count.
OneSession ==
  /\ \A s \in Scopes : scope[s].alive => s \in {shown, transition.next}
  /\ ~Home => scope[shown].alive
  /\ demo <=> ~Home /\ scope[shown].kind = "demo"
  /\ \A s \in Scopes : tour[s].active =>
       /\ s = shown /\ tour[s].current
       /\ \/ tour[s].phase = "waiting" /\ transition.phase = "touring"
          \/ tour[s].phase \in {"queued", "driving"}

\* A session of a real device that shows a change being applied is not disposed
\* by a switch, except when the backend has just answered that it cancelled the
\* plan (the checks before the awaits of startDemo and after them).
WriteIsKept ==
  [][\A s \in Scopes :
       scope[s].kind = "live" /\ scope[s].view = "applying" =>
         scope'[s].alive \/ transition.phase = "cancelling"]_vars

\* A tour settles the onboarding once, by its first end, and only while its
\* session is shown: a done tour is not also skipped when its driver is
\* destroyed, and one whose session went away says nothing (the settled and the
\* lifecycleGeneration of tutorial.ts and tutorial-service.ts).
SettlesOnce ==
  [][\A i \in DOMAIN requests' \ DOMAIN requests :
       LET by == requests'[i].by IN
       by # Skipping =>
         /\ by = shown
         /\ \A j \in DOMAIN requests' \ {i} : requests'[j].by # by]_vars

\* A switch ends, however the gateway answers and whether or not the tour finds
\* its targets: the controls that sessionTransitioning disables come back.
TransitionEnds == Transitioning ~> ~Transitioning
=============================================================================
