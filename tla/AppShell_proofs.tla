-------------------------- MODULE AppShell_proofs --------------------------
(***************************************************************************)
(* Proofs about AppShell, for any number of sessions, switches, tours and  *)
(* clicks, whatever the gateway answers and in whatever order frames and   *)
(* timers come.                                                            *)
(***************************************************************************)
EXTENDS AppShell, FiniteSetTheorems, TLAPS

Tours == [phase : {"none", "waiting", "queued", "driving", "over"},
          active : BOOLEAN, current : BOOLEAN, settled : BOOLEAN]
Requests == [by : Scopes \union {Skipping}, status : {"skipped", "completed"},
             phase : {"asked", "done"}]
Tutorials == [tour : [Scopes -> Tours], driver : Scopes \union {Nowhere}, requests : Seq(Requests)]

Asked(by, status) == [by |-> by, status |-> status, phase |-> "asked"]

----------------------------------------------------------------------------
(* What the calls of the tutorial service do to the tours.                 *)

\* Of two records with the same tours but for s.
SameBut(v, w, S) == \A t \in Scopes \ S : v.tour[t] = w.tour[t]

\* A tour, and the driver with it, are replaced in the record.
Replace(w, s, t, d) == [w EXCEPT !.tour[s] = t, !.driver = d]

LEMMA Replaced ==
  ASSUME NEW w \in Tutorials, NEW s \in Scopes, NEW t \in Tours, NEW d \in Scopes \union {Nowhere}
  PROVE  LET v == Replace(w, s, t, d) IN
         /\ v \in Tutorials /\ v.driver = d /\ v.requests = w.requests
         /\ v.tour[s] = t /\ SameBut(v, w, {s})
<1>1. PICK v : v = [w EXCEPT !.tour[s] = t, !.driver = d]
  OBVIOUS
<1>2. v.tour = [w.tour EXCEPT ![s] = t] /\ v.driver = d /\ v.requests = w.requests
      /\ v = [tour |-> v.tour, driver |-> v.driver, requests |-> v.requests]
  BY <1>1 DEF Tutorials
<1>3. v.tour \in [Scopes -> Tours] /\ w.requests \in Seq(Requests)
  BY <1>2 DEF Tutorials
<1>4. v.tour[s] = t /\ SameBut(v, w, {s})
  BY <1>2 DEF Tutorials, SameBut
<1>5. v \in Tutorials
  BY <1>2, <1>3 DEF Tutorials
<1>6. v = Replace(w, s, t, d)
  BY <1>1 DEF Replace
<1>7. QED
  BY <1>2, <1>4, <1>5, <1>6

\* The pieces the calls are made of.
Deactivate(w, s) == [w EXCEPT !.tour[s].active = FALSE]
MoveOn(w, s) ==
  [w EXCEPT !.tour[s].current = FALSE, !.tour[s].phase = IF @ = "waiting" THEN "over" ELSE @]
Close(w, s) == [w EXCEPT !.tour[s].phase = "over", !.driver = IF @ = s THEN Nowhere ELSE @]

LEMMA DeactivateEffect ==
  ASSUME NEW w \in Tutorials, NEW s \in Scopes
  PROVE  LET v == Deactivate(w, s) IN
         /\ v \in Tutorials /\ v.driver = w.driver /\ v.requests = w.requests
         /\ v.tour[s] = [w.tour[s] EXCEPT !.active = FALSE] /\ SameBut(v, w, {s})
         /\ v.tour[s].active = FALSE /\ v.tour[s].phase = w.tour[s].phase
         /\ v.tour[s].current = w.tour[s].current /\ v.tour[s].settled = w.tour[s].settled
<1>1. PICK t : t = [w.tour[s] EXCEPT !.active = FALSE]
  OBVIOUS
<1>2. t \in Tours
  BY <1>1 DEF Tutorials, Tours
<1>3. /\ t.active = FALSE /\ t.phase = w.tour[s].phase
      /\ t.current = w.tour[s].current /\ t.settled = w.tour[s].settled
  BY <1>1 DEF Tutorials, Tours
<1>4. PICK d : d = w.driver /\ d \in Scopes \union {Nowhere}
  BY DEF Tutorials
<1>5. PICK v : v = Replace(w, s, t, d)
  OBVIOUS
<1>6. v = Deactivate(w, s)
  BY <1>1, <1>4, <1>5 DEF Deactivate, Replace, Tutorials
<1>7. /\ v \in Tutorials /\ v.driver = d /\ v.requests = w.requests
      /\ v.tour[s] = t /\ SameBut(v, w, {s})
  BY <1>2, <1>4, <1>5, Replaced
<1>8. QED
  BY <1>1, <1>3, <1>4, <1>6, <1>7

LEMMA MoveOnEffect ==
  ASSUME NEW w \in Tutorials, NEW s \in Scopes
  PROVE  LET v == MoveOn(w, s) IN
         /\ v \in Tutorials /\ v.driver = w.driver /\ v.requests = w.requests
         /\ v.tour[s] = [w.tour[s] EXCEPT !.current = FALSE,
                                          !.phase = IF @ = "waiting" THEN "over" ELSE @]
         /\ SameBut(v, w, {s})
         /\ v.tour[s].current = FALSE /\ v.tour[s].active = w.tour[s].active
         /\ v.tour[s].settled = w.tour[s].settled
         /\ v.tour[s].phase = IF w.tour[s].phase = "waiting" THEN "over" ELSE w.tour[s].phase
<1>1. PICK t : t = [w.tour[s] EXCEPT !.current = FALSE,
                                     !.phase = IF @ = "waiting" THEN "over" ELSE @]
  OBVIOUS
<1>2. t \in Tours
  BY <1>1 DEF Tutorials, Tours
<1>3. /\ t.current = FALSE /\ t.active = w.tour[s].active /\ t.settled = w.tour[s].settled
      /\ t.phase = IF w.tour[s].phase = "waiting" THEN "over" ELSE w.tour[s].phase
  BY <1>1 DEF Tutorials, Tours
<1>4. PICK d : d = w.driver /\ d \in Scopes \union {Nowhere}
  BY DEF Tutorials
<1>5. PICK v : v = Replace(w, s, t, d)
  OBVIOUS
<1>6. v = MoveOn(w, s)
  BY <1>1, <1>4, <1>5 DEF MoveOn, Replace, Tutorials
<1>7. /\ v \in Tutorials /\ v.driver = d /\ v.requests = w.requests
      /\ v.tour[s] = t /\ SameBut(v, w, {s})
  BY <1>2, <1>4, <1>5, Replaced
<1>8. QED
  BY <1>1, <1>3, <1>4, <1>6, <1>7

LEMMA CloseEffect ==
  ASSUME NEW w \in Tutorials, NEW s \in Scopes
  PROVE  LET v == Close(w, s) IN
         /\ v \in Tutorials /\ v.driver = (IF w.driver = s THEN Nowhere ELSE w.driver)
         /\ v.requests = w.requests /\ SameBut(v, w, {s})
         /\ v.tour[s].phase = "over" /\ v.tour[s].active = w.tour[s].active
         /\ v.tour[s].current = w.tour[s].current /\ v.tour[s].settled = w.tour[s].settled
<1>1. PICK t : t = [w.tour[s] EXCEPT !.phase = "over"]
  OBVIOUS
<1>2. PICK d : d = IF w.driver = s THEN Nowhere ELSE w.driver
  OBVIOUS
<1>3. /\ t \in Tours /\ d \in Scopes \union {Nowhere}
      /\ t.phase = "over" /\ t.active = w.tour[s].active
      /\ t.current = w.tour[s].current /\ t.settled = w.tour[s].settled
  BY <1>1, <1>2 DEF Tutorials, Tours
<1>4. PICK v : v = Replace(w, s, t, d)
  OBVIOUS
<1>5. v = Close(w, s)
  BY <1>1, <1>2, <1>4 DEF Close, Replace, Tutorials
<1>6. /\ v \in Tutorials /\ v.driver = d /\ v.requests = w.requests
      /\ v.tour[s] = t /\ SameBut(v, w, {s})
  BY <1>3, <1>4, Replaced
<1>7. QED
  BY <1>2, <1>3, <1>5, <1>6

LEMMA SetOnboardingEffect ==
  ASSUME NEW w \in Tutorials, NEW by \in Scopes \union {Skipping},
         NEW status \in {"skipped", "completed"}
  PROVE  LET v == SetOnboarding(w, by, status) IN
         /\ v \in Tutorials /\ v.tour = w.tour /\ v.driver = w.driver
         /\ v.requests = Append(w.requests, Asked(by, status))
<1>1. Asked(by, status) \in Requests
  BY DEF Asked, Requests
<1>2. Append(w.requests, Asked(by, status)) \in Seq(Requests)
  BY <1>1 DEF Tutorials
<1>3. QED
  BY <1>2 DEF SetOnboarding, Asked, Tutorials

LEMMA EndedEffect ==
  ASSUME NEW w \in Tutorials, NEW s \in Scopes, NEW status \in {"skipped", "completed"}
  PROVE  LET v == Ended(w, s, status) IN
         /\ v \in Tutorials /\ v.driver = w.driver /\ SameBut(v, w, {s})
         /\ v.tour[s].phase = w.tour[s].phase /\ v.tour[s].current = w.tour[s].current
         /\ v.tour[s].settled = w.tour[s].settled
         /\ v.tour[s].active => w.tour[s].active /\ ~w.tour[s].current
         /\ v.requests = IF w.tour[s].current THEN Append(w.requests, Asked(s, status)) ELSE w.requests
<1> DEFINE u == Deactivate(w, s)
<1>1. /\ u \in Tutorials /\ u.driver = w.driver /\ u.requests = w.requests /\ SameBut(u, w, {s})
      /\ u.tour[s].active = FALSE /\ u.tour[s].phase = w.tour[s].phase
      /\ u.tour[s].current = w.tour[s].current /\ u.tour[s].settled = w.tour[s].settled
  BY DeactivateEffect
<1>2. w.tour[s].current => Ended(w, s, status) = SetOnboarding(u, s, status)
  BY DEF Ended, Deactivate
<1> HIDE DEF u
<1>3. LET v == SetOnboarding(u, s, status) IN
      /\ v \in Tutorials /\ v.tour = u.tour /\ v.driver = u.driver
      /\ v.requests = Append(u.requests, Asked(s, status))
  BY <1>1, SetOnboardingEffect
<1>4. CASE w.tour[s].current
  BY <1>1, <1>2, <1>3, <1>4 DEF SameBut
<1>5. CASE ~w.tour[s].current
  BY <1>5 DEF Ended, SameBut
<1>6. QED
  BY <1>4, <1>5

LEMMA DestroyedEffect ==
  ASSUME NEW w \in Tutorials, NEW s \in Scopes
  PROVE  LET v == Destroyed(w, s) IN
         /\ v \in Tutorials /\ SameBut(v, w, {s})
         /\ v.driver = IF w.driver = s THEN Nowhere ELSE w.driver
         /\ v.tour[s].phase = "over" /\ v.tour[s].current = w.tour[s].current
         /\ v.tour[s].settled = w.tour[s].settled
         /\ v.tour[s].active => w.tour[s].active /\ (w.tour[s].settled \/ ~w.tour[s].current)
         /\ v.requests = IF w.tour[s].current /\ ~w.tour[s].settled
                           THEN Append(w.requests, Asked(s, "skipped")) ELSE w.requests
<1> DEFINE told == IF w.tour[s].settled THEN w ELSE Ended(w, s, "skipped")
           v == Close(told, s)
<1>1. /\ told \in Tutorials /\ told.driver = w.driver /\ SameBut(told, w, {s})
      /\ told.tour[s].current = w.tour[s].current /\ told.tour[s].settled = w.tour[s].settled
      /\ told.tour[s].active => w.tour[s].active /\ (w.tour[s].settled \/ ~w.tour[s].current)
      /\ told.requests = IF w.tour[s].current /\ ~w.tour[s].settled
                           THEN Append(w.requests, Asked(s, "skipped")) ELSE w.requests
  <2>1. CASE w.tour[s].settled
    BY <2>1 DEF SameBut
  <2>2. CASE ~w.tour[s].settled
    BY <2>2, EndedEffect
  <2>3. QED
    BY <2>1, <2>2
<1>2. Destroyed(w, s) = v
  BY DEF Destroyed, Close
<1> HIDE DEF told
<1>3. /\ v \in Tutorials /\ v.driver = (IF told.driver = s THEN Nowhere ELSE told.driver)
      /\ v.requests = told.requests /\ SameBut(v, told, {s})
      /\ v.tour[s].phase = "over" /\ v.tour[s].active = told.tour[s].active
      /\ v.tour[s].current = told.tour[s].current /\ v.tour[s].settled = told.tour[s].settled
  BY <1>1, CloseEffect
<1> HIDE DEF v
<1>4. SameBut(v, w, {s})
  BY <1>1, <1>3 DEF SameBut
<1>5. QED
  BY <1>1, <1>2, <1>3, <1>4

\* What is said when the tour of d is destroyed.
Says(v, w, d) ==
  \/ v.requests = w.requests
  \/ /\ d \in Scopes /\ w.tour[d].phase = "driving" /\ w.tour[d].current /\ ~w.tour[d].settled
     /\ v.requests = Append(w.requests, Asked(d, "skipped"))

LEMMA StopTutorialEffect ==
  ASSUME NEW w \in Tutorials
  PROVE  LET v == StopTutorial(w)
             d == w.driver IN
         /\ v \in Tutorials /\ v.driver = Nowhere /\ SameBut(v, w, {d}) /\ Says(v, w, d)
         /\ d # Nowhere =>
              /\ v.tour[d].current = w.tour[d].current /\ v.tour[d].settled = w.tour[d].settled
              /\ v.tour[d].phase = IF w.tour[d].phase = "driving" THEN "over" ELSE w.tour[d].phase
              /\ v.tour[d].active =>
                   /\ w.tour[d].active
                   /\ w.tour[d].phase = "driving" => w.tour[d].settled \/ ~w.tour[d].current
<1> DEFINE u == IF w.driver = Nowhere THEN w ELSE Destroy(w, w.driver)
<1>1. w.driver \in Scopes \union {Nowhere} /\ Nowhere \notin Scopes
  BY DEF Tutorials, Nowhere, Scopes
<1>2. /\ u \in Tutorials /\ SameBut(u, w, {w.driver}) /\ Says(u, w, w.driver)
      /\ w.driver # Nowhere =>
           /\ u.tour[w.driver].current = w.tour[w.driver].current
           /\ u.tour[w.driver].settled = w.tour[w.driver].settled
           /\ u.tour[w.driver].phase =
                IF w.tour[w.driver].phase = "driving" THEN "over" ELSE w.tour[w.driver].phase
           /\ u.tour[w.driver].active =>
                /\ w.tour[w.driver].active
                /\ w.tour[w.driver].phase = "driving" =>
                     w.tour[w.driver].settled \/ ~w.tour[w.driver].current
  <2>1. CASE w.driver = Nowhere
    BY <2>1 DEF SameBut, Says
  <2>2. CASE w.driver # Nowhere /\ w.tour[w.driver].phase # "driving"
    BY <1>1, <2>2 DEF Destroy, SameBut, Says
  <2>3. CASE w.driver # Nowhere /\ w.tour[w.driver].phase = "driving"
    <3>1. u = Destroyed(w, w.driver)
      BY <2>3 DEF Destroy
    <3>2. w.driver \in Scopes
      BY <1>1, <2>3
    <3> HIDE DEF u
    <3>3. QED
      BY <2>3, <3>1, <3>2, DestroyedEffect DEF Says
  <2>4. QED
    BY <2>1, <2>2, <2>3
<1> DEFINE v == [u EXCEPT !.driver = Nowhere]
<1>3. StopTutorial(w) = v
  BY DEF StopTutorial
<1> HIDE DEF u
<1>4. v \in Tutorials /\ v.driver = Nowhere /\ v.tour = u.tour /\ v.requests = u.requests
  BY <1>2 DEF Tutorials
<1> HIDE DEF v
<1>5. QED
  BY <1>2, <1>3, <1>4 DEF SameBut, Says

LEMMA NoTourByFields ==
  ASSUME NEW t \in Tours, t.phase = "none", t.active = FALSE, t.current = FALSE, t.settled = FALSE
  PROVE  t = NoTour
BY DEF Tours, NoTour

LEMMA StopEffect ==
  ASSUME NEW w \in Tutorials, NEW s \in Scopes,
         NEW v, v = Stop(w, s), NEW d, d = w.driver
  PROVE  /\ v \in Tutorials /\ v.driver = Nowhere /\ SameBut(v, w, {d, s})
         /\ d # s => Says(v, w, d)
         /\ d = s => v.requests = w.requests
         /\ ~v.tour[s].current /\ ~v.tour[s].active /\ v.tour[s].settled = w.tour[s].settled
         /\ v.tour[s].phase # "waiting"
         /\ v.tour[s].phase \in {w.tour[s].phase, "over"}
         /\ w.tour[s] = NoTour /\ d # s => v.tour[s] = NoTour
         /\ d \notin {Nowhere, s} =>
              /\ v.tour[d].current = w.tour[d].current /\ v.tour[d].settled = w.tour[d].settled
              /\ v.tour[d].phase = IF w.tour[d].phase = "driving" THEN "over" ELSE w.tour[d].phase
              /\ v.tour[d].active =>
                   /\ w.tour[d].active
                   /\ w.tour[d].phase = "driving" => w.tour[d].settled \/ ~w.tour[d].current
<1> DEFINE u == MoveOn(w, s)
           x == StopTutorial(u)
           y == Deactivate(x, s)
<1>1. v = y
  BY DEF Stop, MoveOn, Deactivate
<1>2. /\ u \in Tutorials /\ u.driver = w.driver /\ u.requests = w.requests
      /\ u.tour[s] = [w.tour[s] EXCEPT !.current = FALSE,
                                       !.phase = IF @ = "waiting" THEN "over" ELSE @]
      /\ SameBut(u, w, {s})
      /\ u.tour[s].current = FALSE /\ u.tour[s].active = w.tour[s].active
      /\ u.tour[s].settled = w.tour[s].settled
      /\ u.tour[s].phase = IF w.tour[s].phase = "waiting" THEN "over" ELSE w.tour[s].phase
  BY MoveOnEffect
<1> HIDE DEF u
<1>3. d \in Scopes \union {Nowhere}
  BY DEF Tutorials
<1>4. /\ x \in Tutorials /\ x.driver = Nowhere /\ SameBut(x, u, {d}) /\ Says(x, u, d)
      /\ d # Nowhere =>
           /\ x.tour[d].current = u.tour[d].current
           /\ x.tour[d].settled = u.tour[d].settled
           /\ x.tour[d].phase =
                IF u.tour[d].phase = "driving" THEN "over" ELSE u.tour[d].phase
           /\ x.tour[d].active =>
                /\ u.tour[d].active
                /\ u.tour[d].phase = "driving" =>
                     u.tour[d].settled \/ ~u.tour[d].current
  BY <1>2, <1>3, StopTutorialEffect
<1> HIDE DEF x
<1>5. /\ v \in Tutorials /\ v.driver = x.driver /\ v.requests = x.requests
      /\ v.tour[s] = [x.tour[s] EXCEPT !.active = FALSE] /\ SameBut(v, x, {s})
      /\ v.tour[s].active = FALSE /\ v.tour[s].phase = x.tour[s].phase
      /\ v.tour[s].current = x.tour[s].current /\ v.tour[s].settled = x.tour[s].settled
  <2>1. /\ y \in Tutorials /\ y.driver = x.driver /\ y.requests = x.requests
        /\ y.tour[s] = [x.tour[s] EXCEPT !.active = FALSE] /\ SameBut(y, x, {s})
        /\ y.tour[s].active = FALSE /\ y.tour[s].phase = x.tour[s].phase
        /\ y.tour[s].current = x.tour[s].current /\ y.tour[s].settled = x.tour[s].settled
    BY <1>4, DeactivateEffect
  <2> HIDE DEF y
  <2>2. QED
    BY <1>1, <2>1
<1> HIDE DEF y
<1>6. /\ x.tour[s].current = FALSE /\ x.tour[s].settled = u.tour[s].settled
      /\ x.tour[s].phase \in {u.tour[s].phase, "over"}
      /\ d # s => x.tour[s] = u.tour[s]
  <2>1. s # Nowhere
    BY DEF Nowhere, Scopes
  <2>2. CASE d = s
    BY <1>2, <1>4, <2>1, <2>2
  <2>3. CASE d # s
    <3>1. x.tour[s] = u.tour[s]
      BY <1>4, <2>3 DEF SameBut
    <3>2. QED
      BY <1>2, <2>3, <3>1
  <2>4. QED
    BY <2>2, <2>3
<1>7. w.tour[s] = NoTour /\ d # s => v.tour[s] = NoTour
  <2> SUFFICES ASSUME w.tour[s] = NoTour, d # s PROVE v.tour[s] = NoTour
    OBVIOUS
  <2>1. /\ w.tour[s].phase = "none" /\ w.tour[s].active = FALSE
        /\ w.tour[s].current = FALSE /\ w.tour[s].settled = FALSE
    BY DEF NoTour
  <2>2. /\ u.tour[s].phase = "none" /\ u.tour[s].active = FALSE
        /\ u.tour[s].current = FALSE /\ u.tour[s].settled = FALSE
    BY <1>2, <2>1
  <2>3. v.tour[s].phase = "none" /\ v.tour[s].current = FALSE /\ v.tour[s].settled = FALSE
    BY <1>5, <1>6, <2>2
  <2>4. v.tour[s] \in Tours
    BY <1>5 DEF Tutorials
  <2>5. QED
    BY <1>5, <2>3, <2>4, NoTourByFields
<1>8. /\ SameBut(v, w, {d, s})
      /\ d # s => Says(v, w, d)
      /\ d = s => v.requests = w.requests
  <2>1. SameBut(v, w, {d, s})
    BY <1>2, <1>4, <1>5 DEF SameBut
  <2>2. ASSUME d \in Scopes PROVE u.tour[d] = w.tour[d] \/ d = s
    BY <1>2, <2>2 DEF SameBut
  <2>3. d # s => Says(v, w, d)
    BY <1>2, <1>4, <1>5, <2>2 DEF Says
  <2>4. d = s => v.requests = w.requests
    BY <1>2, <1>4, <1>5 DEF Says
  <2>5. QED
    BY <2>1, <2>3, <2>4
<1>9. d \notin {Nowhere, s} => d \in Scopes \ {s}
  BY <1>3
<1>10. d \notin {Nowhere, s} =>
         v.tour[d] = x.tour[d] /\ u.tour[d] = w.tour[d]
  BY <1>2, <1>5, <1>9 DEF SameBut
<1>11. d \notin {Nowhere, s} =>
         /\ v.tour[d].current = w.tour[d].current /\ v.tour[d].settled = w.tour[d].settled
         /\ v.tour[d].phase = IF w.tour[d].phase = "driving" THEN "over" ELSE w.tour[d].phase
         /\ v.tour[d].active =>
              /\ w.tour[d].active
              /\ w.tour[d].phase = "driving" => w.tour[d].settled \/ ~w.tour[d].current
  BY <1>4, <1>10
<1>12. /\ ~v.tour[s].current /\ ~v.tour[s].active /\ v.tour[s].settled = w.tour[s].settled
       /\ v.tour[s].phase # "waiting"
       /\ v.tour[s].phase \in {w.tour[s].phase, "over"}
  BY <1>2, <1>5, <1>6
<1>13. v \in Tutorials /\ v.driver = Nowhere
  BY <1>4, <1>5
<1>14. QED
  BY <1>7, <1>8, <1>11, <1>12, <1>13

----------------------------------------------------------------------------
(* The invariant.                                                          *)

\* An active tour has something that ends it; only one that is over has spoken.
ToursInOrder(w) ==
  /\ w \in Tutorials
  /\ w.driver # Nowhere => w.tour[w.driver].phase \in {"queued", "driving"}
  /\ \A s \in Scopes :
       /\ w.tour[s].active =>
            w.tour[s].current /\ w.tour[s].phase \in {"waiting", "queued", "driving"}
       /\ w.tour[s].phase = "waiting" => w.tour[s].active
       /\ w.tour[s].settled => w.tour[s].phase = "over"
  /\ \A i \in DOMAIN w.requests :
       w.requests[i].by # Skipping => w.tour[w.requests[i].by].phase = "over"

\* Sessions are created in the order of their numbers, and a switch that loads
\* its fixture has one to create.
Numbered ==
  \E n \in 0 .. MaxScopes :
    /\ {s \in Scopes : scope[s].kind # "none"} = 1 .. n
    /\ transition.phase = "fixture" => n < MaxScopes

\* Which sessions there are, and what the one a switch prepares is like.
SessionsInOrder ==
  /\ \A s \in Scopes :
       /\ scope[s].kind = "none" =>
            scope[s] = Unused /\ tour[s] = NoTour /\ s \notin {shown, transition.next}
       /\ scope[s].alive => s \in {shown, transition.next}
       /\ scope[s].view # "other" => s = shown
       /\ tour[s].current => s = shown
       /\ tour[s].phase = "waiting" => transition.phase = "touring"
  /\ ~Home => scope[shown].alive
  /\ demo <=> ~Home /\ scope[shown].kind = "demo"
  /\ transition.next # Nowhere <=> transition.phase \in {"starting", "selecting", "cancelling"}
  /\ transition.next # Nowhere =>
       /\ transition.next # shown
       /\ scope[transition.next] = [kind |-> IF transition.phase = "starting" THEN "live" ELSE "demo",
                                    alive |-> TRUE, view |-> "other"]
       /\ tour[transition.next] = NoTour
  /\ transition.phase = "starting" => Home

Inv == TypeOK /\ ToursInOrder(Tutorial) /\ Numbered /\ SessionsInOrder

----------------------------------------------------------------------------
(* The calls keep the tours in order.                                      *)

LEMMA Appended ==
  ASSUME NEW q \in Seq(Requests), NEW r \in Requests, NEW i \in DOMAIN Append(q, r)
  PROVE  \/ i \in DOMAIN q /\ Append(q, r)[i] = q[i]
         \/ i = Len(q) + 1 /\ Append(q, r)[i] = r
OBVIOUS

\* A request is made by a tour that is over, or in the dialog.
SaysMore(v, w) ==
  \/ v.requests = w.requests
  \/ \E by \in Scopes \union {Skipping}, status \in {"skipped", "completed"} :
       /\ v.requests = Append(w.requests, Asked(by, status))
       /\ by # Skipping => v.tour[by].phase = "over"

LEMMA RequestsInOrder ==
  ASSUME NEW w, ToursInOrder(w), NEW v \in Tutorials, SaysMore(v, w),
         \A t \in Scopes : w.tour[t].phase = "over" => v.tour[t].phase = "over"
  PROVE  \A i \in DOMAIN v.requests :
           v.requests[i].by # Skipping => v.tour[v.requests[i].by].phase = "over"
<1> SUFFICES ASSUME NEW i \in DOMAIN v.requests, v.requests[i].by # Skipping
             PROVE  v.tour[v.requests[i].by].phase = "over"
  OBVIOUS
<1>1. w.requests \in Seq(Requests) /\ \A j \in DOMAIN w.requests : w.requests[j].by \in Scopes \union {Skipping}
  <2>1. w.requests \in Seq(Requests)
    BY DEF ToursInOrder, Tutorials
  <2>2. \A j \in DOMAIN w.requests : w.requests[j] \in Requests
    BY <2>1
  <2>3. \A r \in Requests : r.by \in Scopes \union {Skipping}
    BY DEF Requests
  <2>4. QED
    BY <2>1, <2>2, <2>3
<1>2. \A j \in DOMAIN w.requests :
        w.requests[j].by # Skipping => v.tour[w.requests[j].by].phase = "over"
  BY <1>1 DEF ToursInOrder
<1>3. CASE v.requests = w.requests
  BY <1>2, <1>3
<1>4. ASSUME NEW by \in Scopes \union {Skipping}, NEW status \in {"skipped", "completed"},
             v.requests = Append(w.requests, Asked(by, status)),
             by # Skipping => v.tour[by].phase = "over"
      PROVE  v.tour[v.requests[i].by].phase = "over"
  <2>1. Asked(by, status) \in Requests /\ Asked(by, status).by = by
    BY DEF Asked, Requests
  <2>2. \/ i \in DOMAIN w.requests /\ v.requests[i] = w.requests[i]
        \/ v.requests[i] = Asked(by, status)
    BY <1>1, <1>4, <2>1, Appended
  <2>3. QED
    BY <1>2, <1>4, <2>1, <2>2
<1>5. QED
  BY <1>3, <1>4 DEF SaysMore

\* What stopping a tour leaves of the others, in an order that is kept.
Calmed(v, w) ==
  \A t \in Scopes :
    /\ v.tour[t].current => w.tour[t].current
    /\ v.tour[t].active => w.tour[t].active
    /\ v.tour[t].phase = "waiting" => w.tour[t].phase = "waiting"
    /\ v.tour[t].phase \in {w.tour[t].phase, "over"}
    /\ w.tour[t] = NoTour => v.tour[t] = NoTour

LEMMA StopTutorialInOrder ==
  ASSUME NEW w, ToursInOrder(w)
  PROVE  LET v == StopTutorial(w) IN
         /\ ToursInOrder(v) /\ Calmed(v, w) /\ SaysMore(v, w) /\ v.driver = Nowhere
         /\ \A t \in Scopes : w.tour[t].phase = "waiting" => v.tour[t] = w.tour[t]
<1>1. w \in Tutorials /\ Nowhere \notin Scopes
  BY DEF ToursInOrder, Nowhere, Scopes
<1>2. PICK d : d = w.driver /\ d \in Scopes \union {Nowhere}
  BY <1>1 DEF Tutorials
<1>3. PICK v : v = StopTutorial(w)
  OBVIOUS
<1>4. /\ v \in Tutorials /\ v.driver = Nowhere /\ SameBut(v, w, {d}) /\ Says(v, w, d)
      /\ d # Nowhere =>
           /\ v.tour[d].current = w.tour[d].current /\ v.tour[d].settled = w.tour[d].settled
           /\ v.tour[d].phase = IF w.tour[d].phase = "driving" THEN "over" ELSE w.tour[d].phase
           /\ v.tour[d].active =>
                /\ w.tour[d].active
                /\ w.tour[d].phase = "driving" => w.tour[d].settled \/ ~w.tour[d].current
  BY <1>1, <1>2, <1>3, StopTutorialEffect
<1>5. d # Nowhere => w.tour[d].phase \in {"queued", "driving"}
  BY <1>2 DEF ToursInOrder
<1>6. \A t \in Scopes : t = d \/ v.tour[t] = w.tour[t]
  BY <1>4 DEF SameBut
<1>7. d \in Scopes => (v.tour[d].active =>
        /\ v.tour[d].current /\ v.tour[d].phase \in {"waiting", "queued", "driving"})
  BY <1>1, <1>4, <1>5 DEF ToursInOrder
<1>8. Calmed(v, w)
  <2> SUFFICES ASSUME NEW t \in Scopes
               PROVE  /\ v.tour[t].current => w.tour[t].current
                      /\ v.tour[t].active => w.tour[t].active
                      /\ v.tour[t].phase = "waiting" => w.tour[t].phase = "waiting"
                      /\ v.tour[t].phase \in {w.tour[t].phase, "over"}
                      /\ w.tour[t] = NoTour => v.tour[t] = NoTour
    BY DEF Calmed
  <2>1. CASE t = d
    BY <1>1, <1>4, <1>5, <2>1 DEF NoTour
  <2>2. CASE t # d
    BY <1>6, <2>2
  <2>3. QED
    BY <2>1, <2>2
<1>9. SaysMore(v, w)
  <2>1. CASE v.requests = w.requests
    BY <2>1 DEF SaysMore
  <2>2. CASE d \in Scopes /\ w.tour[d].phase = "driving" /\ v.requests = Append(w.requests, Asked(d, "skipped"))
    BY <1>1, <1>4, <2>2 DEF SaysMore
  <2>3. QED
    BY <1>4, <2>1, <2>2 DEF Says
<1>10. \A t \in Scopes : w.tour[t].phase = "over" => v.tour[t].phase = "over"
  BY <1>8 DEF Calmed
<1>11. \A i \in DOMAIN v.requests :
         v.requests[i].by # Skipping => v.tour[v.requests[i].by].phase = "over"
  BY <1>4, <1>9, <1>10, RequestsInOrder
<1>12. \A t \in Scopes :
         /\ v.tour[t].active =>
              v.tour[t].current /\ v.tour[t].phase \in {"waiting", "queued", "driving"}
         /\ v.tour[t].phase = "waiting" => v.tour[t].active
         /\ v.tour[t].settled => v.tour[t].phase = "over"
  <2> SUFFICES ASSUME NEW t \in Scopes
               PROVE  /\ v.tour[t].active =>
                           v.tour[t].current /\ v.tour[t].phase \in {"waiting", "queued", "driving"}
                      /\ v.tour[t].phase = "waiting" => v.tour[t].active
                      /\ v.tour[t].settled => v.tour[t].phase = "over"
    OBVIOUS
  <2>1. CASE t = d
    <3>1. v.tour[d].phase = "waiting" => FALSE
      BY <1>1, <1>4, <1>5, <2>1
    <3>2. v.tour[d].settled => v.tour[d].phase = "over"
      BY <1>1, <1>4, <1>5, <2>1 DEF ToursInOrder
    <3>3. QED
      BY <1>7, <2>1, <3>1, <3>2
  <2>2. CASE t # d
    BY <1>6, <2>2 DEF ToursInOrder
  <2>3. QED
    BY <2>1, <2>2
<1>13. ToursInOrder(v)
  BY <1>4, <1>11, <1>12 DEF ToursInOrder
<1>14. \A t \in Scopes : w.tour[t].phase = "waiting" => v.tour[t] = w.tour[t]
  BY <1>1, <1>5, <1>6
<1>15. QED
  BY <1>3, <1>4, <1>8, <1>9, <1>13, <1>14

\* At most one request more, by the dialog or by a tour that is driving.
Speaks(v, w) ==
  \/ v.requests = w.requests
  \/ \E by \in Scopes \union {Skipping}, status \in {"skipped", "completed"} :
       /\ v.requests = Append(w.requests, Asked(by, status))
       /\ by # Skipping => w.tour[by].current /\ w.tour[by].phase = "driving"

LEMMA SaysSpeaks ==
  ASSUME NEW v, NEW w, NEW d, Says(v, w, d)
  PROVE  Speaks(v, w)
BY DEF Says, Speaks

LEMMA StopInOrder ==
  ASSUME NEW w, ToursInOrder(w), NEW s \in Scopes
  PROVE  LET v == Stop(w, s) IN
         /\ ToursInOrder(v) /\ Calmed(v, w) /\ SaysMore(v, w) /\ Speaks(v, w) /\ v.driver = Nowhere
         /\ ~v.tour[s].current /\ ~v.tour[s].active /\ v.tour[s].phase # "waiting"
         /\ \A t \in Scopes \ {s} : w.tour[t].phase = "waiting" => v.tour[t] = w.tour[t]
<1>1. w \in Tutorials /\ Nowhere \notin Scopes
  BY DEF ToursInOrder, Nowhere, Scopes
<1>2. PICK d : d = w.driver /\ d \in Scopes \union {Nowhere}
  BY <1>1 DEF Tutorials
<1>3. PICK v : v = Stop(w, s)
  OBVIOUS
<1>4. /\ v \in Tutorials /\ v.driver = Nowhere /\ SameBut(v, w, {d, s})
      /\ d # s => Says(v, w, d)
      /\ d = s => v.requests = w.requests
      /\ ~v.tour[s].current /\ ~v.tour[s].active /\ v.tour[s].settled = w.tour[s].settled
      /\ v.tour[s].phase # "waiting"
      /\ v.tour[s].phase \in {w.tour[s].phase, "over"}
      /\ w.tour[s] = NoTour /\ d # s => v.tour[s] = NoTour
      /\ d \notin {Nowhere, s} =>
           /\ v.tour[d].current = w.tour[d].current /\ v.tour[d].settled = w.tour[d].settled
           /\ v.tour[d].phase = IF w.tour[d].phase = "driving" THEN "over" ELSE w.tour[d].phase
           /\ v.tour[d].active =>
                /\ w.tour[d].active
                /\ w.tour[d].phase = "driving" => w.tour[d].settled \/ ~w.tour[d].current
  BY <1>1, <1>2, <1>3, StopEffect
<1>5. d # Nowhere => w.tour[d].phase \in {"queued", "driving"}
  BY <1>2 DEF ToursInOrder
<1>6. \A t \in Scopes : t = d \/ t = s \/ v.tour[t] = w.tour[t]
  BY <1>4 DEF SameBut
<1>7. d \in Scopes \ {s} => (v.tour[d].active =>
        /\ v.tour[d].current /\ v.tour[d].phase \in {"waiting", "queued", "driving"})
  BY <1>1, <1>4, <1>5 DEF ToursInOrder
<1>8. Calmed(v, w)
  <2> SUFFICES ASSUME NEW t \in Scopes
               PROVE  /\ v.tour[t].current => w.tour[t].current
                      /\ v.tour[t].active => w.tour[t].active
                      /\ v.tour[t].phase = "waiting" => w.tour[t].phase = "waiting"
                      /\ v.tour[t].phase \in {w.tour[t].phase, "over"}
                      /\ w.tour[t] = NoTour => v.tour[t] = NoTour
    BY DEF Calmed
  <2>1. CASE t = s
    BY <1>4, <1>5, <1>1, <2>1 DEF NoTour
  <2>2. CASE t = d /\ t # s
    BY <1>1, <1>4, <1>5, <2>2 DEF NoTour
  <2>3. CASE t # d /\ t # s
    BY <1>6, <2>3
  <2>4. QED
    BY <2>1, <2>2, <2>3
<1>9. SaysMore(v, w)
  <2>1. CASE v.requests = w.requests
    BY <2>1 DEF SaysMore
  <2>2. CASE /\ d \in Scopes /\ d # s /\ w.tour[d].phase = "driving"
             /\ v.requests = Append(w.requests, Asked(d, "skipped"))
    BY <1>1, <1>4, <2>2 DEF SaysMore
  <2>3. QED
    BY <1>4, <2>1, <2>2 DEF Says
<1>10. \A t \in Scopes : w.tour[t].phase = "over" => v.tour[t].phase = "over"
  BY <1>8 DEF Calmed
<1>11. \A i \in DOMAIN v.requests :
         v.requests[i].by # Skipping => v.tour[v.requests[i].by].phase = "over"
  BY <1>4, <1>9, <1>10, RequestsInOrder
<1>12. \A t \in Scopes :
         /\ v.tour[t].active =>
              v.tour[t].current /\ v.tour[t].phase \in {"waiting", "queued", "driving"}
         /\ v.tour[t].phase = "waiting" => v.tour[t].active
         /\ v.tour[t].settled => v.tour[t].phase = "over"
  <2> SUFFICES ASSUME NEW t \in Scopes
               PROVE  /\ v.tour[t].active =>
                           v.tour[t].current /\ v.tour[t].phase \in {"waiting", "queued", "driving"}
                      /\ v.tour[t].phase = "waiting" => v.tour[t].active
                      /\ v.tour[t].settled => v.tour[t].phase = "over"
    OBVIOUS
  <2>1. CASE t = s
    BY <1>4, <1>10, <2>1 DEF ToursInOrder
  <2>2. CASE t = d /\ t # s
    <3>1. v.tour[d].phase = "waiting" => FALSE
      BY <1>1, <1>4, <1>5, <2>2
    <3>2. v.tour[d].settled => v.tour[d].phase = "over"
      BY <1>1, <1>4, <1>5, <2>2 DEF ToursInOrder
    <3>3. QED
      BY <1>7, <2>2, <3>1, <3>2
  <2>3. CASE t # d /\ t # s
    BY <1>6, <2>3 DEF ToursInOrder
  <2>4. QED
    BY <2>1, <2>2, <2>3
<1>13. ToursInOrder(v)
  BY <1>4, <1>11, <1>12 DEF ToursInOrder
<1>14. \A t \in Scopes \ {s} : w.tour[t].phase = "waiting" => v.tour[t] = w.tour[t]
  BY <1>1, <1>5, <1>6
<1>15. Speaks(v, w)
  BY <1>4, SaysSpeaks DEF Speaks
<1>16. QED
  BY <1>3, <1>4, <1>8, <1>9, <1>13, <1>14, <1>15
----------------------------------------------------------------------------
(* The steps.                                                              *)

\* The record the operators work on is what the variables hold.
LEMMA TutorialType ==
  /\ TypeOK => Tutorial \in Tutorials
  /\ Tutorial.tour = tour /\ Tutorial.driver = driver /\ Tutorial.requests = requests
BY DEF TypeOK, Tutorial, Tutorials, Tours, Requests

LEMMA BecomesEffect ==
  ASSUME NEW v \in Tutorials, Becomes(v)
  PROVE  /\ Tutorial' = v /\ tour' = v.tour /\ driver' = v.driver /\ requests' = v.requests
         /\ tour' \in [Scopes -> Tours] /\ driver' \in Scopes \union {Nowhere}
         /\ requests' \in Seq(Requests)
BY DEF Becomes, Tutorial, Tutorials

\* TypeOK, with the names of this module.
LEMMA Types ==
  TypeOK <=>
    /\ resource \in {"loading", "ready", "failed"}
    /\ onboarding \in {"none", "skipped", "completed"}
    /\ requests \in Seq(Requests)
    /\ scope \in [Scopes -> [kind : {"none", "live", "demo"}, alive : BOOLEAN,
                             view : {"other", "plan", "applying"}]]
    /\ shown \in Scopes \union {Nowhere} /\ demo \in BOOLEAN /\ prompt \in BOOLEAN
    /\ transition \in
         [phase : {"none", "starting", "fixture", "selecting", "cancelling", "touring"},
          guided : BOOLEAN, next : Scopes \union {Nowhere}]
    /\ tour \in [Scopes -> Tours]
    /\ driver \in Scopes \union {Nowhere}
BY DEF TypeOK, Requests, Tours

Sessions == [kind : {"none", "live", "demo"}, alive : BOOLEAN, view : {"other", "plan", "applying"}]

LEMMA CreatedCount ==
  ASSUME NEW m \in 0 .. MaxScopes, {s \in Scopes : scope[s].kind # "none"} = 1 .. m
  PROVE  Created = m
<1>1. m \in Nat
  BY BoundsAssumption
<1>2. Cardinality(1 .. m) = m
  BY <1>1, FS_Interval
<1>3. Created = Cardinality(1 .. m)
  BY DEF Created
<1>4. QED
  BY <1>2, <1>3

\* The first session not yet created, and the sessions once it is.
LEMMA CreateEffect ==
  ASSUME Inv, Created < MaxScopes, NEW kind \in {"live", "demo"}
  PROVE  LET n == Created + 1
             g == Create(kind) IN
         /\ n \in Scopes /\ scope[n].kind = "none"
         /\ g \in [Scopes -> Sessions]
         /\ g[n] = [kind |-> kind, alive |-> TRUE, view |-> "other"]
         /\ \A s \in Scopes \ {n} : g[s] = scope[s]
         /\ \E m \in 0 .. MaxScopes : {s \in Scopes : g[s].kind # "none"} = 1 .. m
<1>1. PICK m \in 0 .. MaxScopes : {s \in Scopes : scope[s].kind # "none"} = 1 .. m
  BY DEF Inv, Numbered
<1>2. m \in Nat /\ MaxScopes \in Nat
  BY BoundsAssumption
<1>3. Created = m
  BY <1>1, CreatedCount
<1>4. m + 1 \in Scopes /\ m + 1 \in 0 .. MaxScopes
  BY <1>2, <1>3 DEF Scopes
<1>5. scope[m + 1].kind = "none"
  <2>1. m + 1 \notin 1 .. m
    BY <1>2
  <2>2. QED
    BY <1>1, <1>4, <2>1
<1>6. PICK g : g = Create(kind)
  OBVIOUS
<1>7. g = [scope EXCEPT ![m + 1] = [kind |-> kind, alive |-> TRUE, view |-> "other"]]
  BY <1>3, <1>6 DEF Create
<1>8. scope \in [Scopes -> Sessions]
  BY Types DEF Inv, Sessions
<1>9. [kind |-> kind, alive |-> TRUE, view |-> "other"] \in Sessions
  BY DEF Sessions
<1>10. /\ g \in [Scopes -> Sessions]
       /\ g[m + 1] = [kind |-> kind, alive |-> TRUE, view |-> "other"]
       /\ \A s \in Scopes \ {m + 1} : g[s] = scope[s]
  BY <1>4, <1>7, <1>8, <1>9
<1>11. {s \in Scopes : g[s].kind # "none"} = 1 .. (m + 1)
  <2>1. {s \in Scopes : g[s].kind # "none"} = {s \in Scopes : scope[s].kind # "none"} \union {m + 1}
    BY <1>4, <1>10
  <2>2. (1 .. m) \union {m + 1} = 1 .. (m + 1)
    BY <1>2
  <2>3. QED
    BY <1>1, <2>1, <2>2
<1>12. QED
  BY <1>3, <1>4, <1>5, <1>6, <1>10, <1>11

\* The scopes f, at the end of a switch: a plan may have been dropped.
AsBefore(f) ==
  /\ f \in [Scopes -> Sessions]
  /\ \A s \in Scopes :
       /\ f[s].kind = scope[s].kind /\ f[s].alive = scope[s].alive
       /\ f[s].view # "other" => scope[s].view # "other"
       /\ s # shown => f[s] = scope[s]

LEMMA AsBeforeHolds ==
  ASSUME Inv
  PROVE  AsBefore(scope) /\ AsBefore(PlanDropped)
<1>1. scope \in [Scopes -> Sessions] /\ shown \in Scopes \union {Nowhere}
  BY Types DEF Inv, Sessions
<1>2. AsBefore(scope)
  BY <1>1 DEF AsBefore
<1>3. CASE Home
  BY <1>2, <1>3 DEF PlanDropped
<1>4. CASE ~Home
  <2>1. PICK f : f = [scope EXCEPT ![shown].view = "other"]
    OBVIOUS
  <2>2. shown \in Scopes
    BY <1>1, <1>4 DEF Home
  <2>3. PICK r : r = [scope[shown] EXCEPT !.view = "other"]
    OBVIOUS
  <2>4. r \in Sessions /\ r.kind = scope[shown].kind /\ r.alive = scope[shown].alive /\ r.view = "other"
    BY <1>1, <2>2, <2>3 DEF Sessions
  <2>5. f = [scope EXCEPT ![shown] = r]
    BY <1>1, <2>1, <2>3
  <2>6. f \in [Scopes -> Sessions] /\ f[shown] = r /\ \A s \in Scopes \ {shown} : f[s] = scope[s]
    BY <1>1, <2>2, <2>4, <2>5
  <2>7. AsBefore(f)
    BY <2>4, <2>6 DEF AsBefore
  <2>8. f = PlanDropped
    BY <1>4, <2>1 DEF PlanDropped
  <2>9. QED
    BY <1>2, <2>7, <2>8
<1>5. QED
  BY <1>2, <1>3, <1>4

LEMMA DisposedEffect ==
  ASSUME NEW f \in [Scopes -> Sessions], NEW s \in Scopes
  PROVE  LET g == Disposed(f, s) IN
         /\ g \in [Scopes -> Sessions]
         /\ ~g[s].alive /\ g[s].view = "other" /\ g[s].kind = f[s].kind
         /\ \A t \in Scopes \ {s} : g[t] = f[t]
<1>1. PICK g : g = Disposed(f, s)
  OBVIOUS
<1>2. PICK r : r = [f[s] EXCEPT !.alive = FALSE, !.view = "other"]
  OBVIOUS
<1>3. r \in Sessions /\ ~r.alive /\ r.view = "other" /\ r.kind = f[s].kind
  BY <1>2 DEF Sessions
<1>4. g = [f EXCEPT ![s] = r]
  BY <1>1, <1>2 DEF Disposed
<1>5. QED
  BY <1>1, <1>3, <1>4

\* A session is created or not; none ceases to have been.
LEMMA NumberedKept ==
  ASSUME Inv, \A s \in Scopes : scope'[s].kind = scope[s].kind,
         transition'.phase = "fixture" => transition.phase = "fixture"
  PROVE  Numbered'
<1>1. {s \in Scopes : scope'[s].kind # "none"} = {s \in Scopes : scope[s].kind # "none"}
  OBVIOUS
<1>2. QED
  BY <1>1 DEF Inv, Numbered

\* A call that starts no tour.
Quiet(v, w) ==
  \A t \in Scopes :
    /\ v.tour[t].current => w.tour[t].current
    /\ v.tour[t].phase = "waiting" => w.tour[t].phase = "waiting"
    /\ w.tour[t] = NoTour => v.tour[t] = NoTour

LEMMA TourStep ==
  ASSUME Inv, NEW v, ToursInOrder(v), Quiet(v, Tutorial), Becomes(v), TypeOK',
         UNCHANGED <<scope, shown, demo, transition>>
  PROVE  Inv'
<1>1. Tutorial' = v /\ tour' = v.tour
  BY BecomesEffect DEF ToursInOrder
<1>2. Numbered'
  BY NumberedKept
<1>3. \A t \in Scopes :
        /\ tour'[t].current => tour[t].current
        /\ tour'[t].phase = "waiting" => tour[t].phase = "waiting"
        /\ tour[t] = NoTour => tour'[t] = NoTour
  BY <1>1, TutorialType DEF Quiet
<1>4. transition.next # Nowhere => transition.next \in Scopes
  BY DEF Inv, TypeOK
<1>5. SessionsInOrder'
  BY <1>3, <1>4 DEF Inv, SessionsInOrder, Home
<1>6. QED
  BY <1>1, <1>2, <1>5 DEF Inv

\* The type of the variables, from those that a step of the tours changes.
LEMMA TourTypes ==
  ASSUME Inv, NEW v \in Tutorials, Becomes(v),
         UNCHANGED <<resource, onboarding, scope, shown, demo, transition, prompt>>
  PROVE  TypeOK'
<1>1. /\ tour' \in [Scopes -> Tours] /\ driver' \in Scopes \union {Nowhere}
      /\ requests' \in Seq(Requests)
  BY BecomesEffect
<1>2. QED
  BY <1>1, Types DEF Inv, TypeOK, Tours, Requests

\* The session that was prepared is shown, and the one that was is gone.
LEMMA ReplaceInOrder ==
  ASSUME Inv, transition.next # Nowhere,
         NEW f, AsBefore(f), NEW w, ToursInOrder(w),
         \A t \in Scopes \ {transition.next} : w.tour[t] = tour[t],
         w.tour[transition.next].phase = "waiting" => transition'.phase = "touring",
         ReplaceScope(f, w), UNCHANGED <<resource, onboarding, prompt>>,
         demo' \in BOOLEAN, demo' <=> scope[transition.next].kind = "demo",
         transition' \in [phase : {"none", "touring"}, guided : BOOLEAN, next : {Nowhere}]
  PROVE  Inv' /\ (~Home => ~scope'[shown].alive)
<1>1. PICK n : n = transition.next
  OBVIOUS
<1>2. n \in Scopes /\ n # shown /\ shown' = n /\ Nowhere \notin Scopes /\ ~Home'
  BY <1>1 DEF Inv, TypeOK, SessionsInOrder, ReplaceScope, Nowhere, Scopes, Home
<1>3. shown \in Scopes \union {Nowhere} /\ transition'.next = Nowhere
      /\ transition'.phase \in {"none", "touring"}
  BY DEF Inv, TypeOK
<1>4. /\ scope[n].alive /\ scope[n].view = "other" /\ scope[n].kind \in {"live", "demo"}
      /\ f[n] = scope[n]
  BY <1>1, <1>2 DEF Inv, SessionsInOrder, AsBefore
<1>5. \A s \in Scopes :
        /\ f[s].alive => s \in {shown, n}
        /\ f[s].view # "other" => s = shown
        /\ scope[s].kind = "none" => f[s] = Unused /\ s \notin {shown, n}
  BY <1>1 DEF Inv, SessionsInOrder, AsBefore
<1>6. /\ scope' \in [Scopes -> Sessions]
      /\ \A s \in Scopes :
           /\ scope'[s].kind = scope[s].kind /\ (scope'[s].alive => s = n)
           /\ scope'[s].view = "other"
           /\ scope[s].kind = "none" => scope'[s] = Unused
      /\ scope'[n] = scope[n]
      /\ ~Home => ~scope'[shown].alive
  <2>1. CASE Home
    BY <1>2, <1>4, <1>5, <2>1 DEF AsBefore, ReplaceScope, Home
  <2>2. CASE ~Home
    <3>1. shown \in Scopes /\ f \in [Scopes -> Sessions]
      BY <1>3, <2>2 DEF Home, AsBefore
    <3>2. PICK g : g = Disposed(f, shown)
      OBVIOUS
    <3>3. /\ g \in [Scopes -> Sessions]
          /\ ~g[shown].alive /\ g[shown].view = "other" /\ g[shown].kind = f[shown].kind
          /\ \A t \in Scopes \ {shown} : g[t] = f[t]
      BY <3>1, <3>2, DisposedEffect
    <3>4. scope' = g
      BY <2>2, <3>2 DEF ReplaceScope
    <3>5. \A s \in Scopes : f[s].kind = scope[s].kind
      BY DEF AsBefore
    <3>6. QED
      BY <1>2, <1>4, <1>5, <3>1, <3>3, <3>4, <3>5
  <2>3. QED
    BY <2>1, <2>2
<1>7. PICK x : x = IF Home THEN w ELSE Stop(w, shown)
  OBVIOUS
<1>8. /\ ToursInOrder(x)
      /\ \A s \in Scopes :
           /\ x.tour[s].current => w.tour[s].current /\ s # shown
           /\ x.tour[s].phase = "waiting" => w.tour[s].phase = "waiting"
           /\ w.tour[s] = NoTour => x.tour[s] = NoTour
  <2>1. CASE Home
    BY <1>2, <1>7, <2>1 DEF Home
  <2>2. CASE ~Home
    <3>1. shown \in Scopes
      BY <1>3, <2>2 DEF Home
    <3>2. x = Stop(w, shown)
      BY <1>7, <2>2
    <3>3. ToursInOrder(x) /\ Calmed(x, w) /\ ~x.tour[shown].current
      BY <3>1, <3>2, StopInOrder
    <3>4. QED
      BY <3>3 DEF Calmed
  <2>3. QED
    BY <2>1, <2>2
<1>9. Becomes(x)
  BY <1>7 DEF ReplaceScope
<1>10. x \in Tutorials
  BY <1>8 DEF ToursInOrder
<1>11. /\ Tutorial' = x /\ tour' = x.tour
       /\ tour' \in [Scopes -> Tours] /\ driver' \in Scopes \union {Nowhere}
       /\ requests' \in Seq(Requests)
  BY <1>9, <1>10, BecomesEffect
<1>12. \A s \in Scopes :
         /\ tour'[s].current => s = n
         /\ tour'[s].phase = "waiting" => transition'.phase = "touring"
         /\ scope[s].kind = "none" => tour'[s] = NoTour
  <2> SUFFICES ASSUME NEW s \in Scopes
               PROVE  /\ tour'[s].current => s = n
                      /\ tour'[s].phase = "waiting" => transition'.phase = "touring"
                      /\ scope[s].kind = "none" => tour'[s] = NoTour
    OBVIOUS
  <2>1. CASE s = n
    BY <1>1, <1>4, <1>8, <1>11, <2>1
  <2>2. CASE s # n
    <3>1. w.tour[s] = tour[s]
      BY <1>1, <2>2
    <3>2. tour[s].phase # "waiting"
      BY <1>1 DEF Inv, SessionsInOrder
    <3>3. tour[s].current => s = shown
      BY DEF Inv, SessionsInOrder
    <3>4. scope[s].kind = "none" => tour[s] = NoTour
      BY DEF Inv, SessionsInOrder
    <3>5. QED
      BY <1>8, <1>11, <3>1, <3>2, <3>3, <3>4
  <2>3. QED
    BY <2>1, <2>2
<1>13. TypeOK'
  BY <1>2, <1>3, <1>6, <1>11, Types DEF Inv, TypeOK, Sessions, Tours, Requests
<1>14. Numbered'
  BY <1>3, <1>6, NumberedKept
<1>15. SessionsInOrder'
  <2>1. \A s \in Scopes :
          /\ scope'[s].kind = "none" =>
               scope'[s] = Unused /\ tour'[s] = NoTour /\ s \notin {shown', transition'.next}
          /\ scope'[s].alive => s \in {shown', transition'.next}
          /\ scope'[s].view # "other" => s = shown'
          /\ tour'[s].current => s = shown'
          /\ tour'[s].phase = "waiting" => transition'.phase = "touring"
    BY <1>2, <1>3, <1>4, <1>6, <1>12
  <2>2. scope'[shown'].alive /\ (demo' <=> scope'[shown'].kind = "demo")
    BY <1>1, <1>2, <1>4, <1>6
  <2>3. QED
    BY <1>2, <1>3, <2>1, <2>2 DEF SessionsInOrder
<1>16. QED
  BY <1>6, <1>8, <1>11, <1>13, <1>14, <1>15 DEF Inv

\* A session goes: s, the one that is shown, or the one that was prepared.
LEMMA GoneInOrder ==
  ASSUME Inv, NEW s \in Scopes, s \in {shown, transition.next},
         NEW f, AsBefore(f),
         scope' = Disposed(f, s), Becomes(Stop(Tutorial, s)),
         UNCHANGED <<resource, onboarding, prompt>>,
         shown' = (IF s = shown THEN Nowhere ELSE shown),
         demo' = (IF s = shown THEN FALSE ELSE demo),
         IF s = shown THEN transition' = transition ELSE transition' = Still,
         s # shown => \A t \in Scopes : tour[t].phase # "waiting"
  PROVE  Inv' /\ \A t \in Scopes \ {s} : scope'[t].alive <=> scope[t].alive
<1>1. Nowhere \notin Scopes /\ ToursInOrder(Tutorial) /\ demo \in BOOLEAN
      /\ shown \in Scopes \union {Nowhere}
  BY DEF Inv, TypeOK, Nowhere, Scopes
<1>2. PICK g : g = Disposed(f, s)
  OBVIOUS
<1>3. /\ g \in [Scopes -> Sessions]
      /\ ~g[s].alive /\ g[s].view = "other" /\ g[s].kind = f[s].kind
      /\ \A t \in Scopes \ {s} : g[t] = f[t]
  BY <1>2, DisposedEffect DEF AsBefore
<1>4. /\ scope' = g
      /\ \A t \in Scopes :
           /\ g[t].kind = scope[t].kind
           /\ t # s => (g[t].alive <=> scope[t].alive)
           /\ g[t].view # "other" => t # s /\ scope[t].view # "other"
           /\ t # s /\ t # shown => g[t] = scope[t]
  BY <1>2, <1>3 DEF AsBefore
<1>5. PICK x : x = Stop(Tutorial, s)
  OBVIOUS
<1>6. ToursInOrder(x) /\ Calmed(x, Tutorial) /\ ~x.tour[s].current /\ x.tour[s].phase # "waiting"
  BY <1>1, <1>5, StopInOrder
<1>7. x \in Tutorials /\ Becomes(x)
  BY <1>5, <1>6 DEF ToursInOrder
<1>8. /\ Tutorial' = x /\ tour' = x.tour
      /\ tour' \in [Scopes -> Tours] /\ driver' \in Scopes \union {Nowhere}
      /\ requests' \in Seq(Requests)
  BY <1>7, BecomesEffect
<1>9. \A t \in Scopes :
        /\ tour'[t].current => tour[t].current /\ t # s
        /\ tour'[t].phase = "waiting" => tour[t].phase = "waiting"
        /\ tour[t] = NoTour => tour'[t] = NoTour
  BY <1>6, <1>8, TutorialType DEF Calmed
<1>10. transition' \in
         [phase : {"none", "starting", "fixture", "selecting", "cancelling", "touring"},
          guided : BOOLEAN, next : Scopes \union {Nowhere}]
  <2>1. transition \in
         [phase : {"none", "starting", "fixture", "selecting", "cancelling", "touring"},
          guided : BOOLEAN, next : Scopes \union {Nowhere}]
    BY DEF Inv, TypeOK
  <2>2. transition' = transition \/ transition' = Still
    OBVIOUS
  <2>3. Still \in
         [phase : {"none", "starting", "fixture", "selecting", "cancelling", "touring"},
          guided : BOOLEAN, next : Scopes \union {Nowhere}]
    BY DEF Still
  <2>4. CASE transition' = transition
    BY <2>1, <2>4
  <2>5. CASE transition' = Still
    BY <2>3, <2>5
  <2>6. QED
    BY <2>2, <2>4, <2>5
<1>11. shown' \in Scopes \union {Nowhere} /\ demo' \in BOOLEAN
  BY <1>1
<1>12. resource' \in {"loading", "ready", "failed"} /\ onboarding' \in {"none", "skipped", "completed"}
       /\ prompt' \in BOOLEAN
  BY DEF Inv, TypeOK
<1>13. scope' \in [Scopes -> Sessions]
  BY <1>3, <1>4
<1>14. TypeOK'
  BY <1>8, <1>10, <1>11, <1>12, <1>13 DEF TypeOK, Sessions, Tours, Requests
<1>15. Numbered'
  BY <1>4, NumberedKept DEF Still
<1>16. scope[s].kind # "none"
  BY DEF Inv, SessionsInOrder
<1>17. SessionsInOrder'
  <2>1. CASE s = shown
    <3>1. transition' = transition /\ shown' = Nowhere /\ ~demo' /\ s # transition.next
      BY <1>1, <2>1 DEF Inv, SessionsInOrder
    <3>2. \A t \in Scopes :
            /\ scope'[t].kind = "none" =>
                 scope'[t] = Unused /\ tour'[t] = NoTour /\ t \notin {shown', transition'.next}
            /\ scope'[t].alive => t \in {shown', transition'.next}
            /\ scope'[t].view # "other" => t = shown'
            /\ tour'[t].current => t = shown'
            /\ tour'[t].phase = "waiting" => transition'.phase = "touring"
      BY <1>1, <1>3, <1>4, <1>9, <1>16, <2>1, <3>1 DEF Inv, SessionsInOrder
    <3>3. transition.next # Nowhere =>
            /\ transition.next # shown'
            /\ scope'[transition.next] = scope[transition.next]
            /\ tour'[transition.next] = NoTour
      BY <1>1, <1>4, <1>9, <2>1, <3>1 DEF Inv, TypeOK, SessionsInOrder
    <3>4. Home'
      BY <3>1 DEF Home
    <3>5. QED
      BY <3>1, <3>2, <3>3, <3>4 DEF Inv, SessionsInOrder
  <2>2. CASE s # shown
    <3>1. transition'.next = Nowhere /\ transition'.phase = "none" /\ shown' = shown
          /\ demo' = demo /\ s = transition.next
      BY <2>2 DEF Still
    <3>2. \A t \in Scopes :
            /\ scope'[t].kind = "none" =>
                 scope'[t] = Unused /\ tour'[t] = NoTour /\ t \notin {shown', transition'.next}
            /\ scope'[t].alive => t \in {shown', transition'.next}
            /\ scope'[t].view # "other" => t = shown'
            /\ tour'[t].current => t = shown'
            /\ tour'[t].phase # "waiting"
      BY <1>1, <1>3, <1>4, <1>9, <1>16, <2>2, <3>1 DEF Inv, SessionsInOrder
    <3>3. ~Home => shown \in Scopes \ {s} /\ scope'[shown].alive
                   /\ scope'[shown].kind = scope[shown].kind
      BY <1>1, <1>4, <2>2 DEF Inv, SessionsInOrder, Home
    <3>4. Home' = Home
      BY <3>1 DEF Home
    <3>5. QED
      BY <3>1, <3>2, <3>3, <3>4 DEF Inv, SessionsInOrder
  <2>3. QED
    BY <2>1, <2>2
<1>18. QED
  BY <1>4, <1>6, <1>8, <1>14, <1>15, <1>17 DEF Inv

\* A switch ends, with what it prepared.
LEMMA FinallyInOrder ==
  ASSUME Inv, NEW f, AsBefore(f), \A t \in Scopes : tour[t].phase # "waiting",
         Finally(f), UNCHANGED <<resource, onboarding, shown, demo, prompt>>,
         f = scope \/ transition.next # Nowhere
  PROVE  Inv' /\ \A t \in Scopes \ {transition.next} : scope'[t].alive <=> scope[t].alive
<1>1. Nowhere \notin Scopes /\ transition.next \in Scopes \union {Nowhere}
  BY DEF Inv, TypeOK, Nowhere, Scopes
<1>2. CASE transition.next = Nowhere
  <2>1. scope' = scope /\ UNCHANGED tutorial
    BY <1>2 DEF Finally
  <2>2. transition' = Still
    BY DEF Finally
  <2>3. TypeOK'
    BY <2>1, <2>2 DEF Inv, TypeOK, tutorial, Still
  <2>4. Tutorial' = Tutorial
    BY <2>1 DEF tutorial, Tutorial
  <2>5. ToursInOrder(Tutorial)'
    BY <2>4 DEF Inv
  <2>6. SessionsInOrder'
    BY <1>2, <2>1, <2>2 DEF Inv, SessionsInOrder, Still, tutorial, Home
  <2>7. Numbered'
    BY <2>1, <2>2, NumberedKept DEF Still
  <2>8. QED
    BY <2>1, <2>3, <2>5, <2>6, <2>7 DEF Inv
<1>3. CASE transition.next # Nowhere
  <2>1. /\ scope' = Disposed(f, transition.next) /\ Becomes(Stop(Tutorial, transition.next))
        /\ transition' = Still
    BY <1>3 DEF Finally
  <2>2. transition.next # shown
    BY <1>3 DEF Inv, SessionsInOrder
  <2>3. PICK n \in Scopes : n = transition.next
    BY <1>1, <1>3
  <2>4. QED
    BY <2>1, <2>2, <2>3, GoneInOrder
<1>4. QED
  BY <1>2, <1>3

LEMMA InitInv == Init => Inv
<1> SUFFICES ASSUME Init PROVE Inv
  OBVIOUS
<1>1. Nowhere \notin Scopes /\ MaxScopes \in Nat
  BY BoundsAssumption DEF Nowhere, Scopes
<1>2. NoTour \in Tours /\ Unused \in Sessions /\ requests \in Seq(Requests) /\ DOMAIN requests = {}
  BY DEF Init, NoTour, Tours, Unused, Sessions
<1>3. TypeOK
  BY <1>2, Types DEF Init, Sessions, Still
<1>4. Tutorial \in Tutorials
  BY <1>3, TutorialType
<1>5. ToursInOrder(Tutorial)
  BY <1>2, <1>4, TutorialType DEF ToursInOrder, Init, NoTour
<1>6. Numbered
  <2>1. {s \in Scopes : scope[s].kind # "none"} = {}
    BY DEF Init, Unused
  <2>2. 1 .. 0 = {} /\ 0 \in 0 .. MaxScopes
    BY <1>1
  <2>3. QED
    BY <2>1, <2>2 DEF Numbered, Init, Still
<1>7. SessionsInOrder
  BY <1>1 DEF SessionsInOrder, Init, Home, Unused, NoTour, Still
<1>8. QED
  BY <1>3, <1>5, <1>6, <1>7 DEF Inv

\* A step of the shell alone
LEMMA StillTours ==
  ASSUME Inv, UNCHANGED tutorial
  PROVE  ToursInOrder(Tutorial)'
<1>1. Tutorial' = Tutorial
  BY DEF tutorial, Tutorial
<1>2. QED
  BY <1>1 DEF Inv

LEMMA StartDemoInv ==
  ASSUME Inv, NEW guided \in BOOLEAN, StartDemo(guided), prompt' \in BOOLEAN
  PROVE  Inv'
<1>1. transition' = [phase |-> "fixture", guided |-> guided, next |-> Nowhere]
      /\ transition.phase = "none"
      /\ UNCHANGED <<resource, onboarding, scope, shown, demo, tutorial>>
  BY DEF StartDemo, Transitioning
<1>2. TypeOK'
  BY <1>1 DEF Inv, TypeOK, tutorial
<1>3. Numbered'
  <2>1. PICK m \in 0 .. MaxScopes : {s \in Scopes : scope[s].kind # "none"} = 1 .. m
    BY DEF Inv, Numbered
  <2>2. m < MaxScopes
    BY <2>1, CreatedCount DEF StartDemo
  <2>3. QED
    BY <1>1, <2>1, <2>2 DEF Numbered
<1>4. SessionsInOrder'
  BY <1>1 DEF Inv, SessionsInOrder, tutorial, Home
<1>5. QED
  BY <1>1, <1>2, <1>3, <1>4, StillTours DEF Inv

LEMMA PromptInv ==
  ASSUME Inv, prompt' \in BOOLEAN, resource' \in {"loading", "ready", "failed"},
         onboarding' \in {"none", "skipped", "completed"},
         UNCHANGED <<scope, shown, demo, transition, tutorial>>
  PROVE  Inv'
<1>1. TypeOK'
  BY DEF Inv, TypeOK, tutorial
<1>2. Numbered'
  BY NumberedKept
<1>3. SessionsInOrder'
  BY DEF Inv, SessionsInOrder, tutorial, Home
<1>4. QED
  BY <1>1, <1>2, <1>3, StillTours DEF Inv

\* What createSessionScope gives takes its place in a switch.
LEMMA PreparedInv ==
  ASSUME Inv, Created < MaxScopes, NEW kind \in {"live", "demo"},
         scope' = Create(kind), transition.next = Nowhere,
         NEW phase \in {"starting", "selecting"}, NEW guided \in BOOLEAN,
         transition.phase # "touring",
         transition' = [phase |-> phase, guided |-> guided, next |-> Created + 1],
         kind = IF phase = "starting" THEN "live" ELSE "demo",
         phase = "starting" => Home,
         UNCHANGED <<resource, onboarding, shown, demo, prompt, tutorial>>
  PROVE  Inv' /\ \A t \in Scopes : scope[t].alive => scope'[t].alive
<1>1. PICK n : n = Created + 1
  OBVIOUS
<1>2. /\ n \in Scopes /\ scope[n].kind = "none"
      /\ scope' \in [Scopes -> Sessions]
      /\ scope'[n] = [kind |-> kind, alive |-> TRUE, view |-> "other"]
      /\ \A s \in Scopes \ {n} : scope'[s] = scope[s]
      /\ \E m \in 0 .. MaxScopes : {s \in Scopes : scope'[s].kind # "none"} = 1 .. m
  BY <1>1, CreateEffect
<1>3. Nowhere \notin Scopes /\ shown \in Scopes \union {Nowhere}
  BY DEF Inv, TypeOK, Nowhere, Scopes
<1>4. tour[n] = NoTour /\ n # shown /\ ~scope[n].alive
  BY <1>2 DEF Inv, SessionsInOrder, Unused
<1>5. /\ transition'.phase = phase /\ transition'.next = n
      /\ transition' \in
           [phase : {"none", "starting", "fixture", "selecting", "cancelling", "touring"},
            guided : BOOLEAN, next : Scopes \union {Nowhere}]
  BY <1>1, <1>2
<1>6. TypeOK'
  BY <1>2, <1>5 DEF Inv, TypeOK, tutorial, Sessions
<1>7. Numbered'
  BY <1>2, <1>5 DEF Numbered
<1>8. SessionsInOrder'
  <2>1. UNCHANGED <<shown, demo, tour>> /\ Home' = Home
    BY DEF tutorial, Home
  <2>2. \A s \in Scopes :
          /\ scope'[s].kind = "none" =>
               scope'[s] = Unused /\ tour'[s] = NoTour /\ s \notin {shown', transition'.next}
          /\ scope'[s].alive => s \in {shown', transition'.next}
          /\ scope'[s].view # "other" => s = shown'
          /\ tour'[s].current => s = shown'
          /\ tour'[s].phase # "waiting"
    <3> SUFFICES ASSUME NEW s \in Scopes
                 PROVE  /\ scope'[s].kind = "none" =>
                             scope'[s] = Unused /\ tour'[s] = NoTour /\ s \notin {shown', transition'.next}
                        /\ scope'[s].alive => s \in {shown', transition'.next}
                        /\ scope'[s].view # "other" => s = shown'
                        /\ tour'[s].current => s = shown'
                        /\ tour'[s].phase # "waiting"
      OBVIOUS
    <3>1. CASE s = n
      BY <1>2, <1>4, <1>5, <2>1, <3>1 DEF NoTour
    <3>2. CASE s # n
      BY <1>2, <1>3, <1>5, <2>1, <3>2 DEF Inv, SessionsInOrder
    <3>3. QED
      BY <3>1, <3>2
  <2>3. ~Home => scope'[shown] = scope[shown]
    BY <1>2, <1>3, <1>4 DEF Home
  <2>4. QED
    BY <1>2, <1>3, <1>4, <1>5, <2>1, <2>2, <2>3 DEF Inv, SessionsInOrder
<1>9. QED
  BY <1>2, <1>4, <1>6, <1>7, <1>8, StillTours DEF Inv

\* The records whose tours are in order, when one tour is replaced.
Fits(w, s, t, d) ==
  /\ t.active => t.current /\ t.phase \in {"waiting", "queued", "driving"}
  /\ t.phase = "waiting" => t.active
  /\ t.settled => t.phase = "over"
  /\ w.tour[s].phase = "over" => t.phase = "over"
  /\ d = s => t.phase \in {"queued", "driving"}
  /\ d # s /\ d # Nowhere => d = w.driver

LEMMA ReplacedInOrder ==
  ASSUME NEW w \in Tutorials, ToursInOrder(w), NEW s \in Scopes, NEW t \in Tours,
         NEW d \in Scopes \union {Nowhere}, Fits(w, s, t, d)
  PROVE  LET v == Replace(w, s, t, d) IN
         ToursInOrder(v) /\ v.tour[s] = t /\ SameBut(v, w, {s}) /\ v.requests = w.requests
<1>1. s # Nowhere
  BY DEF Nowhere, Scopes
<1>2. PICK v : v = Replace(w, s, t, d)
  OBVIOUS
<1>3. /\ v \in Tutorials /\ v.driver = d /\ v.requests = w.requests
      /\ v.tour[s] = t /\ SameBut(v, w, {s})
  BY <1>2, Replaced
<1>4. \A a \in Scopes : a = s \/ v.tour[a] = w.tour[a]
  BY <1>3 DEF SameBut
<1>5. \A a \in Scopes : w.tour[a].phase = "over" => v.tour[a].phase = "over"
  BY <1>3, <1>4 DEF Fits
<1>6. \A i \in DOMAIN v.requests :
        v.requests[i].by # Skipping => v.tour[v.requests[i].by].phase = "over"
  BY <1>3, <1>5, RequestsInOrder DEF SaysMore
<1>7. \A a \in Scopes :
        /\ v.tour[a].active =>
             v.tour[a].current /\ v.tour[a].phase \in {"waiting", "queued", "driving"}
        /\ v.tour[a].phase = "waiting" => v.tour[a].active
        /\ v.tour[a].settled => v.tour[a].phase = "over"
  BY <1>3, <1>4 DEF ToursInOrder, Fits
<1>8. v.driver # Nowhere => v.tour[v.driver].phase \in {"queued", "driving"}
  <2>1. CASE d = s
    BY <1>3, <2>1 DEF Fits
  <2>2. CASE d # s
    BY <1>1, <1>3, <1>4, <2>2 DEF ToursInOrder, Fits
  <2>3. QED
    BY <2>1, <2>2
<1>9. QED
  BY <1>2, <1>3, <1>6, <1>7, <1>8 DEF ToursInOrder

LEMMA TourOfInOrder ==
  ASSUME NEW w, ToursInOrder(w), NEW s \in Scopes, w.tour[s] = NoTour
  PROVE  LET v == TourOf(w, s) IN
         ToursInOrder(v) /\ v.tour[s].phase = "waiting" /\ SameBut(v, w, {s})
         /\ v.requests = w.requests
<1>1. w \in Tutorials /\ s # Nowhere
  BY DEF ToursInOrder, Nowhere, Scopes
<1>2. PICK t : t = [NoTour EXCEPT !.phase = "waiting", !.active = TRUE, !.current = TRUE]
  OBVIOUS
<1>3. t \in Tours /\ t.phase = "waiting" /\ t.active /\ t.current /\ ~t.settled
  BY <1>2 DEF Tours, NoTour
<1>4. PICK d : d = w.driver /\ d \in Scopes \union {Nowhere}
  BY <1>1 DEF Tutorials
<1>5. PICK v : v = Replace(w, s, t, d)
  OBVIOUS
<1>6. v = TourOf(w, s)
  BY <1>1, <1>2, <1>4, <1>5 DEF TourOf, Replace, Tutorials
<1>7. w.tour[s].phase = "none"
  BY DEF NoTour
<1>8. d # s
  BY <1>1, <1>4, <1>7 DEF ToursInOrder
<1>9. Fits(w, s, t, d)
  BY <1>3, <1>4, <1>7, <1>8 DEF Fits
<1>10. ToursInOrder(v) /\ v.tour[s] = t /\ SameBut(v, w, {s}) /\ v.requests = w.requests
  <2>1. w \in Tutorials /\ t \in Tours /\ d \in Scopes \union {Nowhere}
    BY <1>1, <1>3, <1>4
  <2>2. QED
    BY <1>5, <1>9, <2>1, ReplacedInOrder
<1>11. QED
  BY <1>3, <1>6, <1>10

\* No tour is waited for but by the switch that started it.
LEMMA NobodyWaits ==
  ASSUME Inv, transition.phase # "touring"
  PROVE  \A t \in Scopes : tour[t].phase # "waiting"
BY DEF Inv, SessionsInOrder

LEMMA AdoptInv ==
  ASSUME Inv, transition.phase \in {"selecting", "cancelling"},
         NEW f, AsBefore(f), Adopt(f), UNCHANGED <<resource, onboarding, prompt>>
  PROVE  Inv'
<1>1. PICK n : n = transition.next
  OBVIOUS
<1>2. /\ n \in Scopes /\ scope[n].kind = "demo" /\ tour[n] = NoTour /\ n # Nowhere
  BY <1>1 DEF Inv, TypeOK, SessionsInOrder
<1>3. transition.guided \in BOOLEAN
  BY DEF Inv, TypeOK
<1>4. Tutorial.tour = tour /\ ToursInOrder(Tutorial)
  BY TutorialType DEF Inv
<1>5. PICK w : w = TourOf(Tutorial, n)
  OBVIOUS
<1>6. ToursInOrder(w) /\ \A t \in Scopes \ {n} : w.tour[t] = tour[t]
  BY <1>2, <1>4, <1>5, TourOfInOrder DEF SameBut
<1>7. PICK e : e = [transition EXCEPT !.phase = "touring", !.next = Nowhere]
  OBVIOUS
<1>8. e = [phase |-> "touring", guided |-> transition.guided, next |-> Nowhere]
  BY <1>7 DEF Inv, TypeOK
<1>9. CASE transition.guided
  <2>1. transition' = e /\ ReplaceScope(f, w) /\ demo'
    BY <1>1, <1>5, <1>7, <1>9 DEF Adopt
  <2>2. e.phase = "touring"
        /\ e \in [phase : {"none", "touring"}, guided : BOOLEAN, next : {Nowhere}]
    BY <1>3, <1>8
  <2>3. demo' \in BOOLEAN
    BY DEF Adopt
  <2>4. QED
    BY <1>1, <1>2, <1>6, <2>1, <2>2, <2>3, ReplaceInOrder
<1>10. CASE ~transition.guided
  <2>1. transition' = Still /\ ReplaceScope(f, Tutorial) /\ demo' = TRUE
    BY <1>10 DEF Adopt
  <2>2. Still \in [phase : {"none", "touring"}, guided : BOOLEAN, next : {Nowhere}]
    BY DEF Still
  <2>3. tour[n].phase # "waiting"
    BY <1>2 DEF NoTour
  <2>4. QED
    BY <1>1, <1>2, <1>4, <2>1, <2>2, <2>3, ReplaceInOrder
<1>11. QED
  BY <1>9, <1>10

LEMMA LiveStartsInv ==
  ASSUME Inv, LiveStarts
  PROVE  Inv'
<1>1. PICK n : n = transition.next
  OBVIOUS
<1>2. /\ n \in Scopes /\ scope[n].kind = "live" /\ tour[n] = NoTour /\ n # Nowhere
  BY <1>1 DEF Inv, TypeOK, SessionsInOrder, LiveStarts
<1>3. transition' = Still /\ ReplaceScope(scope, Tutorial) /\ demo' = FALSE
      /\ UNCHANGED <<resource, onboarding, prompt>>
  BY DEF LiveStarts
<1>4. Still \in [phase : {"none", "touring"}, guided : BOOLEAN, next : {Nowhere}]
  BY DEF Still
<1>5. tour[n].phase # "waiting"
  BY <1>2 DEF NoTour
<1>6. Tutorial.tour = tour /\ ToursInOrder(Tutorial) /\ AsBefore(scope)
  BY TutorialType, AsBeforeHolds DEF Inv
<1>7. demo' \in BOOLEAN
  BY <1>3
<1>8. QED
  BY <1>1, <1>2, <1>3, <1>4, <1>5, <1>6, <1>7, ReplaceInOrder

LEMMA TargetsReadyInv ==
  ASSUME Inv, NEW s \in Scopes, TargetsReady(s)
  PROVE  Inv'
<1>1. ToursInOrder(Tutorial) /\ Tutorial.tour = tour /\ tour[s].phase = "waiting"
      /\ UNCHANGED <<resource, onboarding, scope, shown, demo, transition, prompt>>
      /\ s # Nowhere
  BY TutorialType DEF Inv, TargetsReady, Nowhere, Scopes
<1>2. PICK x : x = StopTutorial(Tutorial)
  OBVIOUS
<1>3. ToursInOrder(x) /\ Calmed(x, Tutorial) /\ x.tour[s] = tour[s]
  BY <1>1, <1>2, StopTutorialInOrder
<1>4. PICK t : t = [x.tour[s] EXCEPT !.phase = "queued"]
  OBVIOUS
<1>5. x.tour[s] \in Tours /\ x \in Tutorials
  BY <1>3 DEF ToursInOrder, Tutorials
<1>6. /\ t \in Tours /\ t.phase = "queued" /\ t.active = x.tour[s].active
      /\ t.current = x.tour[s].current /\ t.settled = x.tour[s].settled
  BY <1>4, <1>5 DEF Tours
<1>7. PICK v : v = Replace(x, s, t, s)
  OBVIOUS
<1>8. Becomes(v)
  <2>1. v = [x EXCEPT !.tour[s].phase = "queued", !.driver = s]
    BY <1>4, <1>5, <1>7 DEF Replace, Tutorials
  <2>2. QED
    BY <1>2, <2>1 DEF TargetsReady
<1>9. x.tour[s].phase = "waiting" /\ (x.tour[s].active => x.tour[s].current)
  BY <1>1, <1>3 DEF ToursInOrder
<1>10. ~x.tour[s].settled
  BY <1>1, <1>3 DEF ToursInOrder
<1>11. Fits(x, s, t, s)
  BY <1>1, <1>6, <1>9, <1>10 DEF Fits
<1>12. ToursInOrder(v) /\ v.tour[s] = t /\ SameBut(v, x, {s})
  BY <1>3, <1>5, <1>6, <1>7, <1>11, ReplacedInOrder
<1>13. \A a \in Scopes : a = s \/ v.tour[a] = x.tour[a]
  BY <1>12 DEF SameBut
<1>14. tour[s] # NoTour
  BY <1>1 DEF NoTour
<1>15. Quiet(v, Tutorial)
  BY <1>1, <1>3, <1>6, <1>12, <1>13, <1>14 DEF Quiet, Calmed
<1>16. TypeOK'
  BY <1>1, <1>8, <1>12, TourTypes DEF ToursInOrder
<1>17. QED
  BY <1>1, <1>8, <1>12, <1>15, <1>16, TourStep

LEMMA TargetsMissingInv ==
  ASSUME Inv, NEW s \in Scopes, TargetsMissing(s)
  PROVE  Inv'
<1>1. ToursInOrder(Tutorial) /\ Tutorial.tour = tour /\ tour[s].phase = "waiting"
      /\ UNCHANGED <<resource, onboarding, scope, shown, demo, transition, prompt>>
      /\ s # Nowhere
  BY TutorialType DEF Inv, TargetsMissing, Nowhere, Scopes
<1>2. PICK x : x = Tutorial
  OBVIOUS
<1>3. ToursInOrder(x) /\ x.tour = tour
  BY <1>1, <1>2
<1>4. PICK t : t = [x.tour[s] EXCEPT !.phase = "over", !.active = FALSE]
  OBVIOUS
<1>5. x.tour[s] \in Tours /\ x \in Tutorials
  BY <1>3 DEF ToursInOrder, Tutorials
<1>6. t \in Tours /\ t.phase = "over" /\ t.active = FALSE /\ t.current = x.tour[s].current
  BY <1>4, <1>5 DEF Tours
<1>7. PICK d : d = x.driver /\ d \in Scopes \union {Nowhere}
  BY <1>5 DEF Tutorials
<1>8. PICK v : v = Replace(x, s, t, d)
  OBVIOUS
<1>9. Becomes(v)
  <2>1. v = [x EXCEPT !.tour[s].phase = "over", !.tour[s].active = FALSE]
    BY <1>4, <1>5, <1>7, <1>8 DEF Replace, Tutorials
  <2>2. QED
    BY <1>2, <2>1 DEF TargetsMissing
<1>10. d # s
  BY <1>1, <1>3, <1>7 DEF ToursInOrder
<1>11. Fits(x, s, t, d)
  BY <1>6, <1>7, <1>10 DEF Fits
<1>12. ToursInOrder(v) /\ v.tour[s] = t /\ SameBut(v, x, {s})
  <2>1. x \in Tutorials /\ t \in Tours /\ d \in Scopes \union {Nowhere}
    BY <1>5, <1>6, <1>7
  <2>2. QED
    BY <1>3, <1>8, <1>11, <2>1, ReplacedInOrder
<1>13. \A a \in Scopes : a = s \/ v.tour[a] = x.tour[a]
  BY <1>12 DEF SameBut
<1>14. tour[s] # NoTour
  BY <1>1 DEF NoTour
<1>15. Quiet(v, Tutorial)
  BY <1>1, <1>3, <1>6, <1>12, <1>13, <1>14 DEF Quiet
<1>16. TypeOK'
  BY <1>1, <1>9, <1>12, TourTypes DEF ToursInOrder
<1>17. QED
  BY <1>1, <1>9, <1>12, <1>15, <1>16, TourStep

LEMMA DriveInv ==
  ASSUME Inv, NEW s \in Scopes, Drive(s)
  PROVE  Inv'
<1>1. ToursInOrder(Tutorial) /\ Tutorial.tour = tour /\ tour[s].phase = "queued"
      /\ UNCHANGED <<resource, onboarding, scope, shown, demo, transition, prompt>>
  BY TutorialType DEF Inv, Drive
<1>2. PICK x : x = Tutorial
  OBVIOUS
<1>3. ToursInOrder(x) /\ x.tour = tour
  BY <1>1, <1>2
<1>4. PICK t : t = [x.tour[s] EXCEPT !.phase = "driving"]
  OBVIOUS
<1>5. x.tour[s] \in Tours /\ x \in Tutorials
  BY <1>3 DEF ToursInOrder, Tutorials
<1>6. /\ t \in Tours /\ t.phase = "driving" /\ t.active = x.tour[s].active
      /\ t.current = x.tour[s].current /\ t.settled = x.tour[s].settled
  BY <1>4, <1>5 DEF Tours
<1>7. PICK d : d = x.driver /\ d \in Scopes \union {Nowhere}
  BY <1>5 DEF Tutorials
<1>8. PICK v : v = Replace(x, s, t, d)
  OBVIOUS
<1>9. Becomes(v)
  <2>1. v = [x EXCEPT !.tour[s].phase = "driving"]
    BY <1>4, <1>5, <1>7, <1>8 DEF Replace, Tutorials
  <2>2. v.tour = [x.tour EXCEPT ![s].phase = "driving"] /\ v.driver = x.driver
        /\ v.requests = x.requests
    BY <1>5, <2>1 DEF Tutorials
  <2>3. x.requests = requests /\ x.driver = driver
    BY <1>2, TutorialType
  <2>4. QED
    BY <1>3, <2>2, <2>3 DEF Drive, Becomes
<1>10. /\ x.tour[s].active => x.tour[s].current
       /\ ~x.tour[s].settled
  BY <1>1, <1>3 DEF ToursInOrder
<1>11. Fits(x, s, t, d)
  BY <1>1, <1>3, <1>6, <1>7, <1>10 DEF Fits
<1>12. ToursInOrder(v) /\ v.tour[s] = t /\ SameBut(v, x, {s})
  BY <1>3, <1>5, <1>6, <1>7, <1>8, <1>11, ReplacedInOrder
<1>13. \A a \in Scopes : a = s \/ v.tour[a] = x.tour[a]
  BY <1>12 DEF SameBut
<1>14. tour[s] # NoTour
  BY <1>1 DEF NoTour
<1>15. Quiet(v, Tutorial)
  BY <1>1, <1>3, <1>6, <1>12, <1>13, <1>14 DEF Quiet
<1>16. TypeOK'
  BY <1>1, <1>9, <1>12, TourTypes DEF ToursInOrder
<1>17. QED
  BY <1>1, <1>9, <1>12, <1>15, <1>16, TourStep

LEMMA DismissInv ==
  ASSUME Inv, NEW s \in Scopes, Dismiss(s)
  PROVE  Inv'
<1>1. ToursInOrder(Tutorial) /\ Tutorial.tour = tour /\ tour[s].phase \in {"queued", "driving"}
      /\ UNCHANGED <<resource, onboarding, scope, shown, demo, transition, prompt>>
      /\ s # Nowhere
  BY TutorialType DEF Inv, Dismiss, Nowhere, Scopes
<1>2. PICK x : x = StopTutorial(Tutorial)
  OBVIOUS
<1>3. ToursInOrder(x) /\ Calmed(x, Tutorial) /\ x.driver = Nowhere
  BY <1>1, <1>2, StopTutorialInOrder
<1>4. PICK t : t = [x.tour[s] EXCEPT !.current = FALSE, !.active = FALSE]
  OBVIOUS
<1>5. x.tour[s] \in Tours /\ x \in Tutorials
  BY <1>3 DEF ToursInOrder, Tutorials
<1>6. /\ t \in Tours /\ t.phase = x.tour[s].phase /\ t.active = FALSE
      /\ t.current = FALSE /\ t.settled = x.tour[s].settled
  BY <1>4, <1>5 DEF Tours
<1>7. PICK v : v = Replace(x, s, t, Nowhere)
  OBVIOUS
<1>8. Becomes(v)
  <2>1. v = [x EXCEPT !.tour[s].current = FALSE, !.tour[s].active = FALSE]
    BY <1>3, <1>4, <1>5, <1>7 DEF Replace, Tutorials
  <2>2. QED
    BY <1>2, <2>1 DEF Dismiss
<1>9. x.tour[s].phase # "waiting" /\ (x.tour[s].settled => x.tour[s].phase = "over")
  BY <1>1, <1>3 DEF ToursInOrder, Calmed
<1>10. Fits(x, s, t, Nowhere)
  BY <1>1, <1>3, <1>6, <1>9 DEF Fits
<1>11. ToursInOrder(v) /\ v.tour[s] = t /\ SameBut(v, x, {s})
  BY <1>3, <1>5, <1>6, <1>7, <1>10, ReplacedInOrder
<1>12. \A a \in Scopes : a = s \/ v.tour[a] = x.tour[a]
  BY <1>11 DEF SameBut
<1>13. tour[s] # NoTour
  BY <1>1 DEF NoTour
<1>14. Quiet(v, Tutorial)
  BY <1>1, <1>3, <1>6, <1>9, <1>11, <1>12, <1>13 DEF Quiet, Calmed
<1>15. TypeOK'
  BY <1>1, <1>8, <1>11, TourTypes DEF ToursInOrder
<1>16. QED
  BY <1>1, <1>8, <1>11, <1>14, <1>15, TourStep

\* The end of a tour: the answer, and then the destruction of its driver.
LEMMA EndEffect ==
  ASSUME Inv, NEW s \in Scopes, NEW status \in {"completed", "skipped"}, End(s, status)
  PROVE  /\ Tutorial' \in Tutorials /\ SameBut(Tutorial', Tutorial, {s})
         /\ driver' = IF driver = s THEN Nowhere ELSE driver
         /\ tour'[s].phase = "over" /\ ~tour'[s].active
         /\ tour'[s].current = tour[s].current
         /\ requests' = IF tour[s].current THEN Append(requests, Asked(s, status)) ELSE requests
         /\ Becomes(Tutorial')
<1>1. /\ Tutorial \in Tutorials /\ Tutorial.tour = tour /\ Tutorial.driver = driver
      /\ Tutorial.requests = requests /\ tour[s].phase = "driving" /\ tour \in [Scopes -> Tours]
  BY TutorialType, Types DEF Inv, End
<1>2. PICK t : t = [tour[s] EXCEPT !.settled = TRUE]
  OBVIOUS
<1>3. /\ t \in Tours /\ t.settled = TRUE /\ t.phase = "driving"
      /\ t.active = tour[s].active /\ t.current = tour[s].current
  BY <1>1, <1>2 DEF Tours
<1>4. PICK d : d = driver /\ d \in Scopes \union {Nowhere}
  BY <1>1 DEF Tutorials
<1>5. PICK w : w = Replace(Tutorial, s, t, d)
  OBVIOUS
<1>6. w = [Tutorial EXCEPT !.tour[s].settled = TRUE]
  BY <1>1, <1>2, <1>4, <1>5 DEF Replace, Tutorials
<1>7. /\ w \in Tutorials /\ w.driver = d /\ w.requests = requests
      /\ w.tour[s] = t /\ SameBut(w, Tutorial, {s})
  <2>1. Tutorial \in Tutorials /\ t \in Tours /\ d \in Scopes \union {Nowhere}
    BY <1>1, <1>3, <1>4
  <2>2. /\ w \in Tutorials /\ w.driver = d /\ w.requests = Tutorial.requests
        /\ w.tour[s] = t /\ SameBut(w, Tutorial, {s})
    BY <1>5, <2>1, Replaced
  <2>3. QED
    BY <1>1, <2>2
<1>8. PICK u : u = Ended(w, s, status)
  OBVIOUS
<1>9. /\ u \in Tutorials /\ u.driver = w.driver /\ SameBut(u, w, {s})
      /\ u.tour[s].phase = w.tour[s].phase /\ u.tour[s].current = w.tour[s].current
      /\ u.tour[s].settled = w.tour[s].settled
      /\ u.tour[s].active => w.tour[s].active /\ ~w.tour[s].current
      /\ u.requests = IF w.tour[s].current THEN Append(w.requests, Asked(s, status)) ELSE w.requests
  <2>1. w \in Tutorials
    BY <1>7
  <2>2. QED
    BY <1>8, <2>1, EndedEffect
<1>10. PICK v : v = Destroyed(u, s)
  OBVIOUS
<1>11. /\ v \in Tutorials /\ SameBut(v, u, {s})
       /\ v.driver = IF u.driver = s THEN Nowhere ELSE u.driver
       /\ v.tour[s].phase = "over" /\ v.tour[s].current = u.tour[s].current
       /\ v.tour[s].active => u.tour[s].active
       /\ u.tour[s].settled => v.requests = u.requests
  <2>1. u \in Tutorials
    BY <1>9
  <2>2. QED
    BY <1>10, <2>1, DestroyedEffect
<1>12. u.tour[s].phase = "driving" /\ u.tour[s].settled
  BY <1>3, <1>7, <1>9
<1>13. Becomes(v)
  <2>1. Destroy(u, s) = v
    BY <1>10, <1>12 DEF Destroy
  <2>2. QED
    BY <1>6, <1>8, <2>1 DEF End
<1>14. Tutorial' = v /\ tour' = v.tour /\ driver' = v.driver /\ requests' = v.requests
  BY <1>11, <1>13, BecomesEffect
<1>15. tour[s].active => tour[s].current
  BY <1>1 DEF Inv, ToursInOrder
<1>16. SameBut(v, Tutorial, {s})
  BY <1>7, <1>9, <1>11 DEF SameBut
<1>17. ~v.tour[s].active
  BY <1>3, <1>7, <1>9, <1>11, <1>15
<1>18. v.requests = IF tour[s].current THEN Append(requests, Asked(s, status)) ELSE requests
  BY <1>3, <1>7, <1>9, <1>11, <1>12
<1>19. v.tour[s].current = tour[s].current /\ v.driver = IF driver = s THEN Nowhere ELSE driver
  BY <1>3, <1>4, <1>7, <1>9, <1>11
<1>20. QED
  BY <1>11, <1>13, <1>14, <1>16, <1>17, <1>18, <1>19

LEMMA EndInv ==
  ASSUME Inv, NEW s \in Scopes, NEW status \in {"completed", "skipped"}, End(s, status)
  PROVE  Inv'
<1>1. PICK v : v = Tutorial'
  OBVIOUS
<1>2. /\ v \in Tutorials /\ SameBut(v, Tutorial, {s}) /\ Becomes(v)
      /\ v.driver = IF driver = s THEN Nowhere ELSE driver
      /\ v.tour[s].phase = "over" /\ ~v.tour[s].active
      /\ v.tour[s].current = tour[s].current
      /\ v.requests = IF tour[s].current THEN Append(requests, Asked(s, status)) ELSE requests
  <2>1. v.tour = tour' /\ v.driver = driver' /\ v.requests = requests'
    BY <1>1 DEF Tutorial
  <2>2. QED
    BY <1>1, <2>1, EndEffect
<1>3. /\ ToursInOrder(Tutorial) /\ Tutorial.tour = tour /\ Tutorial.driver = driver
      /\ Tutorial.requests = requests /\ tour[s].phase = "driving" /\ s # Nowhere
      /\ UNCHANGED <<resource, onboarding, scope, shown, demo, transition, prompt>>
  BY TutorialType DEF Inv, End, Nowhere, Scopes
<1>4. \A a \in Scopes : a = s \/ v.tour[a] = tour[a]
  BY <1>2, <1>3 DEF SameBut
<1>5. SaysMore(v, Tutorial)
  <2>1. CASE tour[s].current
    BY <1>2, <1>3, <2>1 DEF SaysMore
  <2>2. CASE ~tour[s].current
    BY <1>2, <1>3, <2>2 DEF SaysMore
  <2>3. QED
    BY <2>1, <2>2
<1>6. \A a \in Scopes : Tutorial.tour[a].phase = "over" => v.tour[a].phase = "over"
  BY <1>2, <1>3, <1>4
<1>7. \A i \in DOMAIN v.requests :
        v.requests[i].by # Skipping => v.tour[v.requests[i].by].phase = "over"
  <2>1. v \in Tutorials /\ ToursInOrder(Tutorial)
    BY <1>2, <1>3
  <2>2. QED
    BY <1>5, <1>6, <2>1, RequestsInOrder
<1>8. \A a \in Scopes :
        /\ v.tour[a].active =>
             v.tour[a].current /\ v.tour[a].phase \in {"waiting", "queued", "driving"}
        /\ v.tour[a].phase = "waiting" => v.tour[a].active
        /\ v.tour[a].settled => v.tour[a].phase = "over"
  BY <1>2, <1>3, <1>4 DEF ToursInOrder
<1>9. v.driver # Nowhere => v.tour[v.driver].phase \in {"queued", "driving"}
  <2>1. v.driver # Nowhere => driver \in Scopes \ {s} /\ v.driver = driver
    BY <1>2, <1>3 DEF ToursInOrder, Tutorials
  <2>2. QED
    BY <1>3, <1>4, <2>1 DEF ToursInOrder
<1>10. ToursInOrder(v)
  BY <1>2, <1>7, <1>8, <1>9 DEF ToursInOrder
<1>11. tour[s] # NoTour
  BY <1>3 DEF NoTour
<1>12. Quiet(v, Tutorial)
  BY <1>2, <1>3, <1>4, <1>11 DEF Quiet
<1>13. TypeOK'
  BY <1>2, <1>3, TourTypes
<1>14. QED
  BY <1>2, <1>3, <1>10, <1>12, <1>13, TourStep

LEMMA SkipInv ==
  ASSUME Inv, Skip
  PROVE  Inv'
<1>1. PICK v : v = SetOnboarding(Tutorial, Skipping, "skipped")
  OBVIOUS
<1>2. /\ ToursInOrder(Tutorial) /\ Tutorial \in Tutorials /\ Becomes(v)
      /\ UNCHANGED <<resource, onboarding, scope, shown, demo, transition, prompt>>
  BY <1>1, TutorialType DEF Inv, Skip
<1>3. /\ v \in Tutorials /\ v.tour = Tutorial.tour /\ v.driver = Tutorial.driver
      /\ v.requests = Append(Tutorial.requests, Asked(Skipping, "skipped"))
  BY <1>1, <1>2, SetOnboardingEffect
<1>4. SaysMore(v, Tutorial)
  BY <1>3 DEF SaysMore
<1>5. \A i \in DOMAIN v.requests :
        v.requests[i].by # Skipping => v.tour[v.requests[i].by].phase = "over"
  BY <1>2, <1>3, <1>4, RequestsInOrder
<1>6. ToursInOrder(v)
  BY <1>2, <1>3, <1>5 DEF ToursInOrder
<1>7. Quiet(v, Tutorial)
  BY <1>3 DEF Quiet
<1>8. TypeOK'
  BY <1>2, <1>3, TourTypes
<1>9. QED
  BY <1>2, <1>6, <1>7, <1>8, TourStep

LEMMA OnboardingAnsweredInv ==
  ASSUME Inv, NEW i \in DOMAIN requests, OnboardingAnswered(i)
  PROVE  /\ Inv' /\ DOMAIN requests' = DOMAIN requests
         /\ \A j \in DOMAIN requests : requests'[j].by = requests[j].by
<1>1. /\ requests \in Seq(Requests) /\ requests[i] \in Requests
      /\ ToursInOrder(Tutorial) /\ Tutorial.tour = tour /\ Tutorial.driver = driver
      /\ Tutorial.requests = requests
  <2>1. requests \in Seq(Requests)
    BY Types DEF Inv
  <2>2. QED
    BY <2>1, TutorialType DEF Inv
<1>2. PICK r : r = [requests[i] EXCEPT !.phase = "done"]
  OBVIOUS
<1>3. r \in Requests /\ r.by = requests[i].by
  BY <1>1, <1>2 DEF Requests
<1>4. requests' = [requests EXCEPT ![i] = r]
  BY <1>2 DEF OnboardingAnswered
<1>5. requests' \in Seq(Requests) /\ DOMAIN requests' = DOMAIN requests
      /\ \A j \in DOMAIN requests : requests'[j].by = requests[j].by
  BY <1>1, <1>3, <1>4
<1>6. UNCHANGED <<resource, scope, shown, demo, transition, prompt, tour, driver>>
      /\ requests[i].status \in {"skipped", "completed"}
  BY <1>1 DEF OnboardingAnswered, Requests
<1>7. onboarding' \in {"none", "skipped", "completed"}
  BY <1>6, Types DEF Inv, OnboardingAnswered
<1>8. PICK v : v = Tutorial'
  OBVIOUS
<1>9. v.tour = tour /\ v.driver = driver /\ v.requests = requests' /\ Becomes(v)
  BY <1>6, <1>8 DEF Tutorial, Becomes
<1>10. v \in Tutorials
  BY <1>1, <1>5, <1>6, <1>8 DEF ToursInOrder, Tutorial, Tutorials
<1>11. \A j \in DOMAIN v.requests :
         v.requests[j].by # Skipping => v.tour[v.requests[j].by].phase = "over"
  BY <1>1, <1>5, <1>9 DEF ToursInOrder
<1>12. ToursInOrder(v)
  BY <1>1, <1>9, <1>10, <1>11 DEF ToursInOrder
<1>13. Quiet(v, Tutorial)
  BY <1>1, <1>9 DEF Quiet
<1>14. TypeOK'
  BY <1>5, <1>6, <1>7, Types DEF Inv, TypeOK, Requests
<1>15. QED
  BY <1>5, <1>6, <1>9, <1>12, <1>13, <1>14, TourStep

LEMMA WorkInv ==
  ASSUME Inv, Work
  PROVE  /\ Inv' /\ \A t \in Scopes : scope'[t].alive = scope[t].alive
<1>1. PICK view \in {"other", "plan", "applying"} : scope' = [scope EXCEPT ![shown].view = view]
  <2>1. PICK step \in {<<"other", "plan">>, <<"plan", "other">>,
                       <<"plan", "applying">>, <<"applying", "other">>} :
          scope' = [scope EXCEPT ![shown].view = step[2]]
    BY DEF Work
  <2>2. PICK view : view = step[2]
    OBVIOUS
  <2>3. view \in {"other", "plan", "applying"}
    BY <2>2
  <2>4. QED
    BY <2>1, <2>2, <2>3
<1>2. /\ shown \in Scopes /\ scope \in [Scopes -> Sessions]
      /\ UNCHANGED <<resource, onboarding, shown, demo, transition, prompt, tutorial>>
  BY Types DEF Inv, Work, SessionIsOnScreen, Home, Sessions
<1>3. PICK r : r = [scope[shown] EXCEPT !.view = view]
  OBVIOUS
<1>4. r \in Sessions /\ r.kind = scope[shown].kind /\ r.alive = scope[shown].alive
  BY <1>2, <1>3 DEF Sessions
<1>5. scope' = [scope EXCEPT ![shown] = r]
  BY <1>1, <1>2, <1>3
<1>6. /\ scope' \in [Scopes -> Sessions]
      /\ \A t \in Scopes :
           /\ scope'[t].kind = scope[t].kind /\ scope'[t].alive = scope[t].alive
           /\ t # shown => scope'[t] = scope[t]
  BY <1>2, <1>4, <1>5
<1>7. TypeOK'
  BY <1>2, <1>6 DEF Inv, TypeOK, Sessions, tutorial
<1>8. Numbered'
  BY <1>2, <1>6, NumberedKept
<1>9. UNCHANGED <<shown, demo, tour, transition>> /\ Home' = Home
  BY <1>2 DEF tutorial, Home
<1>10. SessionsInOrder'
  <2>1. transition.next # Nowhere => scope'[transition.next] = scope[transition.next]
    BY <1>6 DEF Inv, TypeOK, SessionsInOrder
  <2>2. \A s \in Scopes :
          /\ scope'[s].kind = "none" =>
               scope'[s] = Unused /\ tour'[s] = NoTour /\ s \notin {shown', transition'.next}
          /\ scope'[s].alive => s \in {shown', transition'.next}
          /\ scope'[s].view # "other" => s = shown'
          /\ tour'[s].current => s = shown'
          /\ tour'[s].phase = "waiting" => transition'.phase = "touring"
    BY <1>6, <1>9 DEF Inv, SessionsInOrder
  <2>3. QED
    BY <1>2, <1>6, <1>9, <2>1, <2>2 DEF Inv, SessionsInOrder
<1>11. QED
  BY <1>2, <1>6, <1>7, <1>8, <1>10, StillTours DEF Inv

\* The switch turns to the plan that is shown.
LEMMA CancellingInv ==
  ASSUME Inv, transition.phase = "selecting",
         transition' = [transition EXCEPT !.phase = "cancelling"],
         UNCHANGED <<resource, onboarding, scope, shown, demo, prompt, tutorial>>
  PROVE  Inv'
<1>1. transition' = [phase |-> "cancelling", guided |-> transition.guided, next |-> transition.next]
  BY DEF Inv, TypeOK
<1>2. TypeOK'
  BY <1>1 DEF Inv, TypeOK, tutorial
<1>3. Numbered'
  BY <1>1, NumberedKept
<1>4. SessionsInOrder'
  BY <1>1 DEF Inv, SessionsInOrder, tutorial, Home
<1>5. QED
  BY <1>2, <1>3, <1>4, StillTours DEF Inv

LEMMA StartLiveInv ==
  ASSUME Inv, StartLive
  PROVE  Inv' /\ \A t \in Scopes : scope[t].alive => scope'[t].alive
<1>1. /\ transition.phase = "none" /\ transition.next = Nowhere /\ Home /\ Created < MaxScopes
      /\ scope' = Create("live")
      /\ transition' = [phase |-> "starting", guided |-> FALSE, next |-> Created + 1]
      /\ UNCHANGED <<resource, onboarding, shown, demo, prompt, tutorial>>
  BY DEF Inv, SessionsInOrder, StartLive, Transitioning
<1>2. QED
  BY <1>1, PreparedInv

LEMMA FixtureLoadedInv ==
  ASSUME Inv, FixtureLoaded
  PROVE  Inv' /\ \A t \in Scopes : scope[t].alive => scope'[t].alive
<1>1. /\ transition.phase = "fixture" /\ transition.next = Nowhere
      /\ scope' = Create("demo")
      /\ UNCHANGED <<resource, onboarding, shown, demo, prompt, tutorial>>
  BY DEF Inv, SessionsInOrder, FixtureLoaded
<1>2. Created < MaxScopes
  <2>1. PICK m \in 0 .. MaxScopes : {s \in Scopes : scope[s].kind # "none"} = 1 .. m /\ m < MaxScopes
    BY <1>1 DEF Inv, Numbered
  <2>2. QED
    BY <2>1, CreatedCount
<1>3. PICK guided \in BOOLEAN : guided = transition.guided
  BY DEF Inv, TypeOK
<1>4. transition' = [phase |-> "selecting", guided |-> guided, next |-> Created + 1]
  BY <1>3 DEF Inv, TypeOK, FixtureLoaded
<1>5. QED
  BY <1>1, <1>2, <1>3, <1>4, PreparedInv

\* The ways a switch ends with nothing adopted
LEMMA AbandonedInv ==
  ASSUME Inv, \/ Finally(scope)
              \/ Finally(PlanDropped) /\ transition.phase = "cancelling",
         transition.phase # "touring" \/ \A t \in Scopes : tour[t].phase # "waiting",
         UNCHANGED <<resource, onboarding, shown, demo, prompt>>
  PROVE  Inv' /\ \A t \in Scopes \ {transition.next} : scope'[t].alive <=> scope[t].alive
<1>1. \A t \in Scopes : tour[t].phase # "waiting"
  BY NobodyWaits
<1>2. AsBefore(scope) /\ AsBefore(PlanDropped)
  BY AsBeforeHolds
<1>3. CASE Finally(scope)
  <2>1. PICK f : f = scope
    OBVIOUS
  <2>2. AsBefore(f) /\ Finally(f)
    BY <1>2, <1>3, <2>1
  <2>3. QED
    BY <1>1, <2>1, <2>2, FinallyInOrder
<1>4. CASE Finally(PlanDropped) /\ transition.phase = "cancelling"
  <2>1. transition.next # Nowhere
    BY <1>4 DEF Inv, SessionsInOrder
  <2>2. QED
    BY <1>1, <1>2, <1>4, <2>1, FinallyInOrder
<1>5. QED
  BY <1>3, <1>4

LEMMA DemoSelectedInv ==
  ASSUME Inv, DemoSelected
  PROVE  Inv'
<1>1. transition.phase = "selecting" /\ UNCHANGED <<resource, onboarding, prompt>>
  BY DEF DemoSelected
<1>2. CASE /\ transition' = [transition EXCEPT !.phase = "cancelling"]
           /\ UNCHANGED <<scope, shown, demo, tutorial>>
  BY <1>1, <1>2, CancellingInv
<1>3. CASE Finally(scope) /\ UNCHANGED <<shown, demo>>
  BY <1>1, <1>3, AbandonedInv
<1>4. CASE Adopt(scope)
  BY <1>1, <1>4, AsBeforeHolds, AdoptInv
<1>5. QED
  BY <1>2, <1>3, <1>4 DEF DemoSelected

LEMMA ExitSessionInv ==
  ASSUME Inv, ExitSession
  PROVE  Inv' /\ \A t \in Scopes \ {shown} : scope'[t].alive <=> scope[t].alive
<1>1. /\ shown \in Scopes
      /\ scope' = Disposed(scope, shown) /\ Becomes(Stop(Tutorial, shown))
      /\ shown' = Nowhere /\ demo' = FALSE
      /\ UNCHANGED <<resource, onboarding, transition, prompt>>
  BY DEF Inv, TypeOK, ExitSession, SessionIsOnScreen, Home
<1>2. PICK s \in Scopes : s = shown
  BY <1>1
<1>3. QED
  BY <1>1, <1>2, AsBeforeHolds, GoneInOrder

----------------------------------------------------------------------------
(* The theorems.                                                           *)

LEMMA StepInv == Inv /\ [Next]_vars => Inv'
<1> SUFFICES ASSUME Inv, [Next]_vars PROVE Inv'
  OBVIOUS
<1>1. CASE Initialize
  <2>1. /\ resource' \in {"loading", "ready", "failed"} /\ prompt' \in BOOLEAN
        /\ onboarding' \in {"none", "skipped", "completed"}
    BY <1>1 DEF Initialize, Inv, TypeOK
  <2>2. QED
    BY <1>1, <2>1, PromptInv DEF Initialize
<1>2. CASE StartLive
  BY <1>2, StartLiveInv
<1>3. CASE LiveStarts
  BY <1>3, LiveStartsInv
<1>4. CASE FixtureLoaded
  BY <1>4, FixtureLoadedInv
<1>5. CASE StartFails
  BY <1>5, AbandonedInv DEF StartFails
<1>6. CASE DemoSelected
  BY <1>6, DemoSelectedInv
<1>7. CASE PlanCancelled
  BY <1>7, AsBeforeHolds, AdoptInv DEF PlanCancelled
<1>8. CASE CancellationFails
  BY <1>8, AbandonedInv DEF CancellationFails
<1>9. CASE TourStarted
  BY <1>9, AbandonedInv DEF TourStarted
<1>10. CASE OpenDemo
  <2>1. StartDemo(FALSE) /\ prompt' \in BOOLEAN
    BY <1>10 DEF OpenDemo, Inv, TypeOK
  <2>2. QED
    BY <2>1, StartDemoInv
<1>11. CASE LearnWithDemo
  <2>1. StartDemo(TRUE) /\ prompt' \in BOOLEAN
    BY <1>11 DEF LearnWithDemo, Inv, TypeOK
  <2>2. QED
    BY <2>1, StartDemoInv
<1>12. CASE Skip
  BY <1>12, SkipInv
<1>13. CASE ExitSession
  BY <1>13, ExitSessionInv
<1>14. CASE Work
  BY <1>14, WorkInv
<1>15. CASE RequestTutorial \/ ConfirmTutorialLaunch \/ CancelTutorialLaunch
  <2>1. /\ prompt' \in BOOLEAN
        /\ \/ StartDemo(TRUE)
           \/ UNCHANGED <<resource, onboarding, scope, shown, demo, transition, tutorial>>
    BY <1>15 DEF RequestTutorial, ConfirmTutorialLaunch, CancelTutorialLaunch, Inv, TypeOK
  <2>2. CASE StartDemo(TRUE)
    BY <2>1, <2>2, StartDemoInv
  <2>3. CASE UNCHANGED <<resource, onboarding, scope, shown, demo, transition, tutorial>>
    BY <2>1, <2>3, PromptInv DEF Inv, TypeOK
  <2>4. QED
    BY <2>1, <2>2, <2>3
<1>16. ASSUME NEW s \in Scopes,
              \/ TargetsReady(s) \/ TargetsMissing(s) \/ Drive(s) \/ Dismiss(s)
              \/ \E status \in {"completed", "skipped"} : End(s, status)
       PROVE  Inv'
  BY <1>16, TargetsReadyInv, TargetsMissingInv, DriveInv, DismissInv, EndInv
<1>17. ASSUME NEW i \in DOMAIN requests, OnboardingAnswered(i)
       PROVE  Inv'
  BY <1>17, OnboardingAnsweredInv
<1>18. CASE UNCHANGED vars
  BY <1>18, PromptInv DEF vars, Inv, TypeOK
<1>19. QED
  BY <1>1, <1>2, <1>3, <1>4, <1>5, <1>6, <1>7, <1>8, <1>9, <1>10, <1>11, <1>12, <1>13,
     <1>14, <1>15, <1>16, <1>17, <1>18 DEF Next

\* Inv is an invariant: the tours and the sessions are in order.
THEOREM Invariance == Spec => []Inv
BY InitInv, StepInv, PTL DEF Spec

\* Every variable has its type, however many sessions, tours and clicks.
THEOREM TypeCorrect == Spec => []TypeOK
<1>1. Inv => TypeOK
  BY DEF Inv
<1>2. QED
  BY <1>1, Invariance, PTL

\* No session is left behind, the banner tells the truth, and what is an active
\* tour will end (replaceScope, exitSession and finally of App.tsx).
THEOREM NothingLeftBehind == Spec => []OneSession
<1>1. Inv => OneSession
  <2> SUFFICES ASSUME Inv PROVE OneSession
    OBVIOUS
  <2>1. Tutorial.tour = tour /\ ToursInOrder(Tutorial)
    BY TutorialType DEF Inv
  <2>2. ASSUME NEW s \in Scopes, tour[s].active
        PROVE  /\ s = shown /\ tour[s].current
               /\ \/ tour[s].phase = "waiting" /\ transition.phase = "touring"
                  \/ tour[s].phase \in {"queued", "driving"}
    <3>1. tour[s].current /\ tour[s].phase \in {"waiting", "queued", "driving"}
      BY <2>1, <2>2 DEF ToursInOrder
    <3>2. QED
      BY <3>1 DEF Inv, SessionsInOrder
  <2>3. QED
    BY <2>2 DEF Inv, SessionsInOrder, OneSession
<1>2. QED
  BY <1>1, Invariance, PTL

\* A session that shows a change being applied, of a real device, is the one
\* that is shown, and no switch is adopted while it is.
THEOREM WritesAreKept == Spec => WriteIsKept
<1> DEFINE Kept == \A s \in Scopes :
                     scope[s].kind = "live" /\ scope[s].view = "applying" =>
                       scope'[s].alive \/ transition.phase = "cancelling"
<1>1. Inv /\ [Next]_vars => [Kept]_vars
  <2> SUFFICES ASSUME Inv, Next, NEW s \in Scopes,
                      scope[s].kind = "live", scope[s].view = "applying",
                      transition.phase # "cancelling"
               PROVE  scope'[s].alive
    OBVIOUS
  <2>1. /\ s = shown /\ scope[s].alive /\ ~demo /\ ~Home /\ s # transition.next
        /\ transition.phase # "starting" /\ SwitchBlocked
    <3>1. s = shown /\ s # Nowhere
      BY DEF Inv, SessionsInOrder, Nowhere, Scopes
    <3>2. ~Home /\ SwitchBlocked
      BY <3>1 DEF Home, SwitchBlocked
    <3>3. QED
      BY <3>1, <3>2 DEF Inv, SessionsInOrder
  <2>2. CASE scope' = scope
    BY <2>1, <2>2
  <2>3. CASE StartLive
    BY <2>1, <2>3 DEF StartLive
  <2>4. CASE LiveStarts
    BY <2>1, <2>4 DEF LiveStarts
  <2>5. CASE FixtureLoaded
    BY <2>1, <2>5, FixtureLoadedInv
  <2>6. CASE StartFails
    BY <2>1, <2>6, AbandonedInv DEF StartFails
  <2>7. CASE DemoSelected
    <3>1. Finally(scope) /\ transition.phase = "selecting"
          /\ UNCHANGED <<resource, onboarding, shown, demo, prompt>>
      BY <2>1, <2>7 DEF DemoSelected
    <3>2. QED
      BY <2>1, <3>1, AbandonedInv
  <2>8. CASE PlanCancelled \/ CancellationFails
    BY <2>8 DEF PlanCancelled, CancellationFails
  <2>9. CASE TourStarted
    BY <2>1, <2>9, AbandonedInv DEF TourStarted
  <2>10. CASE ExitSession
    BY <2>1, <2>10 DEF ExitSession
  <2>11. CASE Work
    BY <2>1, <2>11, WorkInv
  <2>12. CASE \/ Initialize \/ OpenDemo \/ LearnWithDemo \/ Skip
              \/ RequestTutorial \/ ConfirmTutorialLaunch \/ CancelTutorialLaunch
    BY <2>2, <2>12 DEF Initialize, OpenDemo, LearnWithDemo, Skip, RequestTutorial,
       ConfirmTutorialLaunch, CancelTutorialLaunch, StartDemo
  <2>13. ASSUME NEW t \in Scopes,
                \/ TargetsReady(t) \/ TargetsMissing(t) \/ Drive(t) \/ Dismiss(t)
                \/ \E status \in {"completed", "skipped"} : End(t, status)
         PROVE  scope' = scope
    BY <2>13 DEF TargetsReady, TargetsMissing, Drive, Dismiss, End
  <2>14. ASSUME NEW i \in DOMAIN requests, OnboardingAnswered(i)
         PROVE  scope' = scope
    BY <2>14 DEF OnboardingAnswered
  <2>15. QED
    BY <2>2, <2>3, <2>4, <2>5, <2>6, <2>7, <2>8, <2>9, <2>10, <2>11, <2>12, <2>13, <2>14 DEF Next
<1>2. QED
  BY <1>1, Invariance, PTL DEF Spec, WriteIsKept

----------------------------------------------------------------------------
(* What a tour says.                                                       *)

LEMMA StopSpeaks ==
  ASSUME NEW w \in Tutorials, ToursInOrder(w), NEW s \in Scopes
  PROVE  Speaks(Stop(w, s), w)
<1>1. PICK v : v = Stop(w, s)
  OBVIOUS
<1>2. Speaks(v, w)
  BY <1>1, StopInOrder
<1>3. QED
  BY <1>1, <1>2

LEMMA StopTutorialSpeaks ==
  ASSUME NEW w \in Tutorials
  PROVE  Speaks(StopTutorial(w), w)
<1>1. PICK v : v = StopTutorial(w)
  OBVIOUS
<1>2. PICK d : d = w.driver
  OBVIOUS
<1>3. Says(v, w, d)
  BY <1>1, <1>2, StopTutorialEffect
<1>4. QED
  BY <1>1, <1>3, SaysSpeaks

\* The action of SettlesOnce
SettledOnce ==
  \A i \in DOMAIN requests' \ DOMAIN requests :
    LET by == requests'[i].by IN
    by # Skipping =>
      /\ by = shown
      /\ \A j \in DOMAIN requests' \ {i} : requests'[j].by # by

LEMMA SpeaksOnce ==
  ASSUME Inv, NEW v, Becomes(v), Speaks(v, Tutorial)
  PROVE  SettledOnce
<1>1. /\ requests' = v.requests /\ requests \in Seq(Requests) /\ ToursInOrder(Tutorial)
      /\ Tutorial.requests = requests /\ Tutorial.tour = tour
  BY TutorialType, Types DEF Inv, Becomes
<1>2. CASE requests' = requests
  BY <1>2 DEF SettledOnce
<1>3. ASSUME NEW by \in Scopes \union {Skipping}, NEW status \in {"skipped", "completed"},
             requests' = Append(requests, Asked(by, status)),
             by # Skipping => tour[by].current /\ tour[by].phase = "driving"
      PROVE  SettledOnce
  <2>1. Asked(by, status) \in Requests /\ Asked(by, status).by = by
    BY DEF Asked, Requests
  <2>2. /\ DOMAIN requests' = 1 .. Len(requests) + 1 /\ DOMAIN requests = 1 .. Len(requests)
        /\ requests'[Len(requests) + 1] = Asked(by, status)
        /\ \A j \in 1 .. Len(requests) : requests'[j] = requests[j]
        /\ Len(requests) \in Nat
    BY <1>1, <1>3, <2>1
  <2>3. SUFFICES ASSUME NEW i \in DOMAIN requests' \ DOMAIN requests, by # Skipping
                 PROVE  /\ requests'[i].by = by /\ by = shown
                        /\ \A j \in DOMAIN requests' \ {i} : requests'[j].by # by
    <3>1. \A i \in DOMAIN requests' \ DOMAIN requests : requests'[i].by = by
      BY <2>1, <2>2
    <3>2. QED
      BY <2>3, <3>1 DEF SettledOnce
  <2>4. i = Len(requests) + 1 /\ requests'[i].by = by
    BY <2>1, <2>2
  <2>5. by = shown
    BY <1>3, <2>3 DEF Inv, SessionsInOrder
  <2>6. ASSUME NEW j \in DOMAIN requests' \ {i}, requests'[j].by = by
        PROVE  FALSE
    <3>1. j \in DOMAIN requests /\ requests[j].by = by
      BY <2>2, <2>4, <2>6
    <3>2. tour[by].phase = "over"
      BY <1>1, <2>3, <3>1 DEF ToursInOrder
    <3>3. QED
      BY <1>3, <2>3, <3>2
  <2>7. QED
    BY <2>4, <2>5, <2>6
<1>4. QED
  BY <1>1, <1>2, <1>3 DEF Speaks

LEMMA FinallySpeaks ==
  ASSUME Inv, NEW f, Finally(f)
  PROVE  SettledOnce
<1>1. CASE transition.next = Nowhere
  BY <1>1 DEF Finally, tutorial, SettledOnce
<1>2. CASE transition.next # Nowhere
  <2>1. PICK n \in Scopes : n = transition.next
    BY <1>2 DEF Inv, TypeOK
  <2>2. PICK v : v = Stop(Tutorial, n)
    OBVIOUS
  <2>3. Becomes(v) /\ Tutorial \in Tutorials /\ ToursInOrder(Tutorial)
    BY <1>2, <2>1, <2>2, TutorialType DEF Finally, Inv
  <2>4. Speaks(v, Tutorial)
    BY <2>2, <2>3, StopSpeaks
  <2>5. QED
    BY <2>3, <2>4, SpeaksOnce
<1>3. QED
  BY <1>1, <1>2

LEMMA ReplaceSpeaks ==
  ASSUME Inv, NEW f, NEW w \in Tutorials, ToursInOrder(w), ReplaceScope(f, w),
         w.requests = requests,
         \A t \in Scopes : w.tour[t].phase = "driving" => w.tour[t] = tour[t]
  PROVE  SettledOnce
<1>1. Tutorial.requests = requests /\ Tutorial.tour = tour
  BY TutorialType
<1>2. CASE Home
  <2>1. Becomes(w) /\ Speaks(w, Tutorial)
    BY <1>1, <1>2 DEF ReplaceScope, Speaks
  <2>2. QED
    BY <2>1, SpeaksOnce
<1>3. CASE ~Home
  <2>1. PICK s \in Scopes : s = shown
    BY <1>3 DEF Inv, TypeOK, Home
  <2>2. PICK v : v = Stop(w, s)
    OBVIOUS
  <2>3. Becomes(v)
    BY <1>3, <2>1, <2>2 DEF ReplaceScope
  <2>4. Speaks(v, w)
    BY <2>2, StopSpeaks
  <2>5. Nowhere \notin Scopes /\ Skipping \notin Scopes
    BY DEF Nowhere, Skipping, Scopes
  <2>6. Speaks(v, Tutorial)
    BY <1>1, <2>4, <2>5 DEF Speaks
  <2>7. QED
    BY <2>3, <2>6, SpeaksOnce
<1>4. QED
  BY <1>2, <1>3

LEMMA AdoptSpeaks ==
  ASSUME Inv, transition.phase \in {"selecting", "cancelling"}, NEW f, Adopt(f)
  PROVE  SettledOnce
<1>1. PICK n \in Scopes : n = transition.next /\ tour[n] = NoTour
  BY DEF Inv, TypeOK, SessionsInOrder
<1>2. Tutorial \in Tutorials /\ Tutorial.requests = requests /\ Tutorial.tour = tour
      /\ ToursInOrder(Tutorial)
  BY TutorialType DEF Inv
<1>3. CASE ~transition.guided
  BY <1>2, <1>3, ReplaceSpeaks DEF Adopt
<1>4. CASE transition.guided
  <2>1. PICK w : w = TourOf(Tutorial, n)
    OBVIOUS
  <2>2. /\ ToursInOrder(w) /\ w.tour[n].phase = "waiting" /\ SameBut(w, Tutorial, {n})
        /\ w.requests = requests
    BY <1>1, <1>2, <2>1, TourOfInOrder
  <2>3. w \in Tutorials /\ \A t \in Scopes : w.tour[t].phase = "driving" => w.tour[t] = tour[t]
    BY <1>2, <2>2 DEF SameBut, ToursInOrder
  <2>4. ReplaceScope(f, w)
    BY <1>1, <1>4, <2>1 DEF Adopt
  <2>5. QED
    BY <2>2, <2>3, <2>4, ReplaceSpeaks
<1>5. QED
  BY <1>3, <1>4

\* What a step says, by the case it is
LEMMA StepSettles == Inv /\ [Next]_vars => SettledOnce
<1> SUFFICES ASSUME Inv, [Next]_vars PROVE SettledOnce
  OBVIOUS
<1>1. Tutorial \in Tutorials /\ Tutorial.requests = requests /\ Tutorial.tour = tour
      /\ ToursInOrder(Tutorial)
  BY TutorialType DEF Inv
<1>2. CASE requests' = requests
  BY <1>2 DEF SettledOnce
<1>3. CASE StartFails \/ CancellationFails \/ TourStarted
  BY <1>3, FinallySpeaks DEF StartFails, CancellationFails, TourStarted
<1>4. CASE LiveStarts
  BY <1>1, <1>4, ReplaceSpeaks DEF LiveStarts
<1>5. CASE DemoSelected
  <2>1. CASE UNCHANGED tutorial
    BY <1>2, <2>1 DEF tutorial
  <2>2. CASE Finally(scope)
    BY <2>2, FinallySpeaks
  <2>3. CASE Adopt(scope)
    BY <1>5, <2>3, AdoptSpeaks DEF DemoSelected
  <2>4. QED
    BY <1>5, <2>1, <2>2, <2>3 DEF DemoSelected
<1>6. CASE PlanCancelled
  BY <1>6, AdoptSpeaks DEF PlanCancelled
<1>7. CASE ExitSession
  <2>1. PICK s \in Scopes : s = shown
    BY <1>7 DEF ExitSession, SessionIsOnScreen, Home, Inv, TypeOK
  <2>2. PICK v : v = Stop(Tutorial, s)
    OBVIOUS
  <2>3. Becomes(v) /\ Speaks(v, Tutorial)
    BY <1>1, <1>7, <2>1, <2>2, StopSpeaks DEF ExitSession
  <2>4. QED
    BY <2>3, SpeaksOnce
<1>8. CASE Skip
  <2>1. PICK v : v = SetOnboarding(Tutorial, Skipping, "skipped")
    OBVIOUS
  <2>2. Becomes(v)
    BY <1>8, <2>1 DEF Skip
  <2>3. v.requests = Append(requests, Asked(Skipping, "skipped"))
    BY <1>1, <2>1, SetOnboardingEffect
  <2>4. Speaks(v, Tutorial)
    BY <1>1, <2>3 DEF Speaks
  <2>5. QED
    BY <2>2, <2>4, SpeaksOnce
<1>9. ASSUME NEW s \in Scopes, TargetsReady(s) \/ Dismiss(s)
      PROVE  SettledOnce
  <2>1. PICK x : x = StopTutorial(Tutorial)
    OBVIOUS
  <2>2. Speaks(x, Tutorial) /\ x \in Tutorials
    BY <1>1, <2>1, StopTutorialSpeaks, StopTutorialInOrder DEF ToursInOrder
  <2>3. PICK v : Becomes(v) /\ v.requests = x.requests
    <3>1. CASE TargetsReady(s)
      <4>1. PICK v : v = [x EXCEPT !.tour[s].phase = "queued", !.driver = s]
        OBVIOUS
      <4>2. Becomes(v)
        BY <2>1, <3>1, <4>1 DEF TargetsReady
      <4>3. v.requests = x.requests
        BY <2>2, <4>1 DEF Tutorials
      <4>4. QED
        BY <4>2, <4>3
    <3>2. CASE Dismiss(s)
      <4>1. PICK v : v = [x EXCEPT !.tour[s].current = FALSE, !.tour[s].active = FALSE]
        OBVIOUS
      <4>2. Becomes(v)
        BY <2>1, <3>2, <4>1 DEF Dismiss
      <4>3. v.requests = x.requests
        BY <2>2, <4>1 DEF Tutorials
      <4>4. QED
        BY <4>2, <4>3
    <3>3. QED
      BY <1>9, <3>1, <3>2
  <2>4. Speaks(v, Tutorial)
    BY <2>2, <2>3 DEF Speaks
  <2>5. QED
    BY <2>3, <2>4, SpeaksOnce
<1>10. ASSUME NEW s \in Scopes, TargetsMissing(s) \/ Drive(s)
       PROVE  SettledOnce
  <2>1. CASE TargetsMissing(s)
    <3>1. PICK v : v = [Tutorial EXCEPT !.tour[s].phase = "over", !.tour[s].active = FALSE]
      OBVIOUS
    <3>2. Becomes(v)
      BY <2>1, <3>1 DEF TargetsMissing
    <3>3. v.requests = Tutorial.requests
      BY <1>1, <3>1 DEF Tutorials
    <3>4. QED
      BY <1>1, <1>2, <3>2, <3>3 DEF Becomes
  <2>2. CASE Drive(s)
    BY <1>2, <2>2 DEF Drive
  <2>3. QED
    BY <1>10, <2>1, <2>2
<1>11. ASSUME NEW s \in Scopes, NEW status \in {"completed", "skipped"}, End(s, status)
       PROVE  SettledOnce
  <2>1. PICK v : v = Tutorial'
    OBVIOUS
  <2>2. /\ Becomes(v) /\ v.requests = requests'
        /\ requests' = IF tour[s].current THEN Append(requests, Asked(s, status)) ELSE requests
    BY <1>11, <2>1, EndEffect DEF Tutorial
  <2>3. tour[s].phase = "driving"
    BY <1>11 DEF End
  <2>4. Speaks(v, Tutorial)
    BY <1>1, <2>2, <2>3 DEF Speaks
  <2>5. QED
    BY <2>2, <2>4, SpeaksOnce
<1>12. ASSUME NEW i \in DOMAIN requests, OnboardingAnswered(i)
       PROVE  SettledOnce
  BY <1>12, OnboardingAnsweredInv DEF SettledOnce
<1>13. CASE \/ Initialize \/ StartLive \/ FixtureLoaded \/ OpenDemo \/ LearnWithDemo \/ Work
            \/ RequestTutorial \/ ConfirmTutorialLaunch \/ CancelTutorialLaunch
            \/ UNCHANGED vars
  BY <1>2, <1>13 DEF Initialize, StartLive, FixtureLoaded, OpenDemo, LearnWithDemo, Work,
     RequestTutorial, ConfirmTutorialLaunch, CancelTutorialLaunch, StartDemo, vars, tutorial
<1>14. QED
  BY <1>3, <1>4, <1>5, <1>6, <1>7, <1>8, <1>9, <1>10, <1>11, <1>12, <1>13 DEF Next

\* A tour settles the onboarding by its first end only, while its session is
\* shown: whoever has spoken is over, and a tour that drives is the shown one's.
THEOREM TourSettlesOnce == Spec => SettlesOnce
<1>1. Inv /\ [Next]_vars => [SettledOnce]_vars
  BY StepSettles
<1>2. QED
  BY <1>1, Invariance, PTL DEF Spec, SettlesOnce, SettledOnce
=============================================================================
