------------------------- MODULE VrmManager_proofs -------------------------
(***************************************************************************)
(* What the manager guarantees for every set of workflows, every wish of   *)
(* the clients and every hierarchy: what is called Finished has run, what  *)
(* waits is never dropped from the polls, and the hierarchy that is built  *)
(* is sound.  All of it holds without fairness; a resource manager may     *)
(* change the state of a task between any two reads of a pass.             *)
(***************************************************************************)
EXTENDS VrmManager, TLAPS

Known == Submitted \union Tasks

\* In the middle of a submission there is something to submit; the polls begin
\* without the links.
Course ==
  /\ at = "Commit" => queue # <<>>
  /\ at \in {"Scan", "Visit"} => open \intersect Links = {}

\* What a task has been set to by a resource manager it has been given to.
FinishedIsDone == \A t \in Tasks : state[t] = "Finished" => t \in done

\* What the loop over the exit tasks has seen so far.
Judged == current # None /\ isFinished => Exit(current) \ exits \subseteq done

\* What a pass is about to sweep away is over and stays over, unless it is a
\* task that a resource manager may still write to.
EndedIsOver ==
  /\ at \notin {"Visit", "Dead"} => ended = {}
  /\ \A w \in Submitted : w \in ended => state[w] # "Committed"
  /\ \A t \in Tasks \ started : t \in ended /\ proceeding[t] = "Commit" => state[t] \in Terminal

\* Components are built on components.
BuiltOnBuilt ==
  /\ \A m \in Adcs \intersect spawned : children[m] \subseteq spawned
  /\ \A S \in (SUBSET (Adcs \intersect spawned)) \ {{}} : \E m \in S : children[m] \intersect S = {}
  /\ at \notin {"Boot", "Unbuilt"} => Adcs \subseteq spawned

-----------------------------------------------------------------------------
(* SetStates *)

LEMMA SetStatesSets ==
  ASSUME state \in [Known -> ReservationState],
         NEW D, NEW f \in [D -> ReservationState], SetStates(f)
  PROVE  /\ state' \in [Known -> ReservationState]
         /\ \A r \in Known : state'[r] = IF r \in D THEN f[r] ELSE state[r]
BY DEF SetStates

LEMMA OneState ==
  ASSUME state \in [Known -> ReservationState],
         NEW r \in Known, NEW s \in ReservationState,
         SetStates([q \in {r} |-> s])
  PROVE  /\ state' \in [Known -> ReservationState]
         /\ state'[r] = s
         /\ \A q \in Known : q # r => state'[q] = state[q]
<1> DEFINE f == [q \in {r} |-> s]
<1>1. f \in [{r} -> ReservationState] /\ f[r] = s
  OBVIOUS
<1> HIDE DEF f
<1>2. SetStates(f)
  BY DEF f
<1> QED  BY <1>1, <1>2, SetStatesSets

\* The whole workflow gets the state s.
LEMMA WorkflowState ==
  ASSUME state \in [Known -> ReservationState],
         NEW w \in Submitted, NEW s \in ReservationState,
         SetStates([r \in {w} \union TasksOf(w) |-> s])
  PROVE  /\ state' \in [Known -> ReservationState]
         /\ \A r \in Known : state'[r] = IF r = w \/ r \in TasksOf(w) THEN s ELSE state[r]
<1> DEFINE D == {w} \union TasksOf(w)
           f == [r \in D |-> s]
<1>1. f \in [D -> ReservationState] /\ \A r \in D : f[r] = s
  OBVIOUS
<1>2. \A r : r \in D <=> r = w \/ r \in TasksOf(w)
  OBVIOUS
<1>3. SetStates(f)
  OBVIOUS
<1> HIDE DEF f, D
<1> QED  BY <1>1, <1>2, <1>3, SetStatesSets

LEMMA StatesAre ==
  /\ "Rejected" \in ReservationState /\ "Deleted" \in ReservationState
  /\ "Open" \in ReservationState /\ "ReserveAnswer" \in ReservationState
  /\ "Committed" \in ReservationState /\ "Finished" \in ReservationState
BY DEF ReservationState

LEMMA NextIsSubmitted ==
  ASSUME queue \in Seq(Submitted), queue # <<>>
  PROVE  Next1 \in Submitted /\ Tail(queue) \in Seq(Submitted)
BY DEF Next1

-----------------------------------------------------------------------------
(* Types *)

LEMMA InitTyped == Init => TypeOK /\ Course
<1> SUFFICES ASSUME Init PROVE TypeOK /\ Course
  OBVIOUS
<1>1. /\ children \in [Adcs -> SUBSET (Acis \union Adcs \union Absent)]
      /\ queue \in Seq(Submitted)
      /\ proceeding \in [Submitted \union Tasks -> Proceedings]
  BY ManagerAssumption DEF Init
<1>2. state \in [Submitted \union Tasks -> ReservationState]
  BY StatesAre DEF Init
<1> QED  BY <1>1, <1>2 DEF Init, TypeOK, Course, Places

\* The answer of the ADC to a reserve.
LEMMA AnswerTyped ==
  ASSUME TypeOK, NEW w \in Submitted, AdcReserves(w) \/ AdcRejects(w)
  PROVE  /\ state' \in [Known -> ReservationState]
         /\ \A r \in Known : r = w \/ r \in TasksOf(w) \/ state'[r] = state[r]
         /\ \/ \A r \in Known : r = w \/ r \in TasksOf(w) => state'[r] = "ReserveAnswer"
            \/ \A r \in Known : r = w \/ r \in TasksOf(w) => state'[r] = "Rejected"
         /\ booked' \in SUBSET Tasks
<1>1. state \in [Known -> ReservationState] /\ booked \in SUBSET Tasks
  BY DEF TypeOK, Known
<1>2. CASE AdcReserves(w)
  BY <1>1, <1>2, WorkflowState, StatesAre DEF AdcReserves, TasksOf
<1>3. CASE AdcRejects(w)
  BY <1>1, <1>3, WorkflowState, StatesAre DEF AdcRejects
<1> QED  BY <1>2, <1>3

\* The commits of some tasks, and of their workflow.
LEMMA CommitEntriesSets ==
  ASSUME TypeOK, Course, CommitEntries
  PROVE  LET w == Next1
             waiting == {t \in Entry(w) : state[t] = "ReserveAnswer"}
         IN  /\ w \in Submitted /\ Tail(queue) \in Seq(Submitted)
             /\ state' \in [Known -> ReservationState]
             /\ state'[w] = "Committed"
             /\ \A r \in Known : r = w \/ r \in waiting \/ state'[r] = state[r]
             /\ \A t \in waiting : state'[t] = "Finished" => t \in done'
             /\ started' = started \union waiting
             /\ done \subseteq done' /\ done' \subseteq done \union waiting
             /\ open' = open \union Watched(w)
             /\ UNCHANGED booked
<1> DEFINE w == Next1
           waiting == {t \in Entry(w) : state[t] = "ReserveAnswer"}
<1>1. w \in Submitted /\ Tail(queue) \in Seq(Submitted)
  BY NextIsSubmitted DEF TypeOK, Course, CommitEntries
<1>2. PICK f \in [waiting -> CommitAnswers] :
        /\ SetStates([r \in {w} \union waiting |-> IF r = w THEN "Committed" ELSE f[r]])
        /\ AdcCommits(waiting, f)
        /\ open' = open \union Watched(w)
  BY DEF CommitEntries
<1> DEFINE D == {w} \union waiting
           g == [r \in D |-> IF r = w THEN "Committed" ELSE f[r]]
<1>3. waiting \subseteq Tasks /\ w \notin waiting
  BY <1>1, ManagerAssumption DEF Entry, TasksOf
<1>4. \A t \in waiting : f[t] \in {"Committed", "Finished"}
  BY ManagerAssumption
<1>5. /\ g \in [D -> ReservationState]
      /\ g[w] = "Committed" /\ \A t \in waiting : g[t] = f[t]
  BY <1>3, <1>4, StatesAre
<1>6. SetStates(g)
  BY <1>2
<1>7. D \subseteq Known /\ w \in D /\ waiting \subseteq D
      /\ \A r : r \in D => r = w \/ r \in waiting
  BY <1>1, <1>3 DEF Known
<1>8. state \in [Known -> ReservationState]
  BY DEF TypeOK, Known
<1>9. /\ started' = started \union waiting /\ UNCHANGED booked
      /\ done' = done \union {t \in waiting : f[t] = "Finished"}
  BY <1>2 DEF AdcCommits
<1> HIDE DEF g, D, waiting, w
<1>10. /\ state' \in [Known -> ReservationState]
       /\ \A r \in Known : state'[r] = IF r \in D THEN g[r] ELSE state[r]
  BY <1>5, <1>6, <1>8, SetStatesSets
<1>11. state'[w] = "Committed" /\ \A t \in waiting : state'[t] = f[t]
  BY <1>5, <1>7, <1>10
<1>12. \A r \in Known : r = w \/ r \in waiting \/ state'[r] = state[r]
  BY <1>7, <1>10
<1>13. \A t \in waiting : state'[t] = "Finished" => t \in done'
  BY <1>9, <1>11
<1>14. done \subseteq done' /\ done' \subseteq done \union waiting
  BY <1>9
<1> QED  BY <1>1, <1>2, <1>9, <1>10, <1>11, <1>12, <1>13, <1>14 DEF w, waiting

\* The commit of a task by the poll
LEMMA CommitTaskSets ==
  ASSUME TypeOK, NEW t \in Tasks, CommitTask(t)
  PROVE  /\ state' \in [Known -> ReservationState]
         /\ state'[t] \in {"Committed", "Finished"}
         /\ \A r \in Known : r # t => state'[r] = state[r]
         /\ state'[t] = "Finished" => t \in done'
         /\ started' = started \union {t}
         /\ done \subseteq done' /\ done' \subseteq done \union {t}
         /\ UNCHANGED booked
<1>1. PICK answer \in CommitAnswers :
        /\ SetStates([r \in {t} |-> answer])
        /\ AdcCommits({t}, [r \in {t} |-> answer])
  BY DEF CommitTask
<1>2. answer \in {"Committed", "Finished"} /\ answer \in ReservationState
  BY ManagerAssumption, StatesAre
<1>3. t \in Known /\ state \in [Known -> ReservationState]
  BY DEF TypeOK, Known
<1>4. /\ state' \in [Known -> ReservationState] /\ state'[t] = answer
      /\ \A r \in Known : r # t => state'[r] = state[r]
  BY <1>1, <1>2, <1>3, OneState
<1>5. /\ started' = started \union {t} /\ UNCHANGED booked
      /\ done' = done \union (IF answer = "Finished" THEN {t} ELSE {})
  BY <1>1 DEF AdcCommits
<1> QED  BY <1>2, <1>4, <1>5

\* What a resource manager or a schedule does to a task
LEMMA TaskSet ==
  ASSUME TypeOK, NEW t \in Tasks, NEW s \in ReservationState, RmsSets(t, s)
  PROVE  /\ state' \in [Known -> ReservationState]
         /\ state'[t] = s
         /\ \A r \in Known : r # t => state'[r] = state[r]
BY OneState DEF TypeOK, Known, RmsSets

\* The verdict on a workflow
LEMMA CheckExitSets ==
  ASSUME TypeOK, NEW e \in Tasks, CheckExit(e)
  PROVE  /\ current \in Submitted
         /\ state' \in [Known -> ReservationState]
         /\ state'[current] = state[current] \/ state'[current] = "Rejected"
         /\ \A r \in Known : r # current => state'[r] = state[r]
<1>1. current \in Submitted /\ current \in Known /\ state \in [Known -> ReservationState]
  BY DEF TypeOK, Known, CheckExit
<1>2. CASE state[e] \in {"Deleted", "Rejected"}
  <2>1. SetStates([r \in {current} |-> "Rejected"])
    BY <1>2 DEF CheckExit
  <2> QED  BY <1>1, <2>1, OneState, StatesAre
<1>3. CASE state[e] \notin {"Deleted", "Rejected"}
  BY <1>1, <1>3 DEF CheckExit
<1> QED  BY <1>2, <1>3

LEMMA ConcludeSets ==
  ASSUME TypeOK, Conclude
  PROVE  /\ current \in Submitted
         /\ state' \in [Known -> ReservationState]
         /\ state'[current] = IF isFinished THEN "Finished" ELSE state[current]
         /\ \A r \in Known : r # current => state'[r] = state[r]
<1>1. current \in Submitted /\ current \in Known /\ state \in [Known -> ReservationState]
  BY DEF TypeOK, Known, Conclude
<1>2. CASE isFinished
  <2>1. SetStates([r \in {current} |-> "Finished"])
    BY <1>2 DEF Conclude
  <2> QED  BY <1>1, <1>2, <2>1, OneState, StatesAre
<1>3. CASE ~ isFinished
  BY <1>1, <1>3 DEF Conclude
<1> QED  BY <1>2, <1>3

LEMMA StepTyped ==
  ASSUME TypeOK, Course, [Next]_vars
  PROVE  TypeOK' /\ Course'
<1> USE DEF TypeOK, Course, Places, boot, rms, pass
<1>1. CASE UNCHANGED vars
  BY <1>1 DEF vars
<1>2. ASSUME NEW m \in Adcs, Spawn(m) PROVE TypeOK' /\ Course'
  BY <1>2 DEF Spawn
<1>3. CASE NotBuilt \/ Built
  BY <1>3 DEF NotBuilt, Built
<1>4. CASE Pass
  BY <1>4, NextIsSubmitted DEF Pass, Asks
<1>5. CASE ReserveOnly \/ DeleteUnknown
  <2>1. Next1 \in Submitted /\ Tail(queue) \in Seq(Submitted)
    BY <1>5, NextIsSubmitted DEF ReserveOnly, DeleteUnknown, Asks
  <2>2. AdcReserves(Next1) \/ AdcRejects(Next1)
    BY <1>5 DEF ReserveOnly, DeleteUnknown
  <2>3. state' \in [Submitted \union Tasks -> ReservationState] /\ booked' \in SUBSET Tasks
    BY <2>1, <2>2, AnswerTyped DEF Known
  <2>4. at = "Submit"
    BY <1>5 DEF ReserveOnly, DeleteUnknown, Asks
  <2> QED  BY <1>5, <2>1, <2>3, <2>4 DEF ReserveOnly, DeleteUnknown
<1>6. CASE ReserveToCommit
  <2>1. Next1 \in Submitted /\ Tail(queue) \in Seq(Submitted) /\ queue # <<>> /\ at = "Submit"
    BY <1>6, NextIsSubmitted DEF ReserveToCommit, Asks
  <2>2. AdcReserves(Next1) \/ AdcRejects(Next1)
    BY <1>6 DEF ReserveToCommit
  <2>3. state' \in [Submitted \union Tasks -> ReservationState] /\ booked' \in SUBSET Tasks
    BY <2>1, <2>2, AnswerTyped DEF Known
  <2>4. \/ at' = "Commit" /\ UNCHANGED queue
        \/ at' = "Submit" /\ queue' = Tail(queue)
    BY <1>6, <2>1 DEF ReserveToCommit
  <2> QED  BY <1>6, <2>1, <2>3, <2>4 DEF ReserveToCommit
<1>7. CASE CommitEntries
  <2> DEFINE waiting == {t \in Entry(Next1) : state[t] = "ReserveAnswer"}
  <2>1. /\ Next1 \in Submitted /\ Tail(queue) \in Seq(Submitted)
        /\ state' \in [Submitted \union Tasks -> ReservationState]
        /\ started' = started \union waiting
        /\ done' \subseteq done \union waiting
        /\ open' = open \union Watched(Next1)
        /\ UNCHANGED booked
    BY <1>7, CommitEntriesSets DEF Known
  <2>2. waiting \subseteq Tasks /\ Watched(Next1) \subseteq Submitted \union Tasks \union Links
    BY <2>1 DEF Entry, TasksOf, Watched, Parts
  <2>3. at' = "Submit" /\ queue' = Tail(queue) /\ UNCHANGED <<boot, proceeding, pass>>
    BY <1>7 DEF CommitEntries
  <2> HIDE DEF waiting
  <2> QED  BY <2>1, <2>2, <2>3
<1>8. CASE Close \/ StartPass \/ Finish \/ Sweep
  <2>1. CASE Close
    BY <2>1 DEF Close
  <2>2. CASE StartPass
    <3>1. open \subseteq Submitted \union Tasks
      BY <2>2 DEF StartPass
    <3> QED  BY <2>2, <3>1 DEF StartPass
  <2>3. CASE Finish \/ Sweep
    BY <2>3 DEF Finish, Sweep
  <2> QED  BY <1>8, <2>1, <2>2, <2>3
<1>9. CASE Conclude
  <2>1. state' \in [Submitted \union Tasks -> ReservationState]
    BY <1>9, ConcludeSets DEF Known
  <2> QED  BY <1>9, <2>1 DEF Conclude
<1>10. ASSUME NEW t \in Tasks, VisitTask(t) PROVE TypeOK' /\ Course'
  BY <1>10 DEF VisitTask, Visit
<1>11. ASSUME NEW t \in Tasks, CommitTask(t) PROVE TypeOK' /\ Course'
  <2>1. /\ state' \in [Submitted \union Tasks -> ReservationState]
        /\ started' = started \union {t}
        /\ done' \subseteq done \union {t}
        /\ UNCHANGED booked
    BY <1>11, CommitTaskSets DEF Known
  <2>2. open' = open \union {t} /\ t \notin Links
    BY <1>11, ManagerAssumption DEF CommitTask
  <2> QED  BY <1>11, <2>1, <2>2 DEF CommitTask, Visit
<1>12. ASSUME NEW e \in Tasks, CheckExit(e) PROVE TypeOK' /\ Course'
  <2>1. state' \in [Submitted \union Tasks -> ReservationState]
    BY <1>12, CheckExitSets DEF Known
  <2>2. isFinished' \in BOOLEAN
    BY <1>12 DEF CheckExit
  <2>3. /\ exits' = exits \ {e}
        /\ UNCHANGED <<boot, at, queue, open, proceeding, rms, todo, ended, current>>
    BY <1>12 DEF CheckExit
  <2> QED  BY <2>1, <2>2, <2>3
<1>13. ASSUME NEW w \in Submitted, VisitWorkflow(w) PROVE TypeOK' /\ Course'
  BY <1>13 DEF VisitWorkflow, Visit, Exit, TasksOf
<1>14. CASE AdcDies
  BY <1>14 DEF AdcDies
<1>15. ASSUME NEW t \in Tasks, Complete(t) \/ Fail(t) \/ Relist(t) \/ Expire(t)
       PROVE  TypeOK' /\ Course'
  <2>1. \E s \in ReservationState : RmsSets(t, s)
    BY <1>15, StatesAre, ManagerAssumption DEF Complete, Fail, Relist, Expire
  <2>2. state' \in [Submitted \union Tasks -> ReservationState]
    BY <2>1, TaskSet DEF Known
  <2> QED  BY <1>15, <2>2 DEF Complete, Fail, Relist, Expire
<1> QED
  BY <1>1, <1>2, <1>3, <1>4, <1>5, <1>6, <1>7, <1>8, <1>9, <1>10, <1>11, <1>12, <1>13,
     <1>14, <1>15 DEF Next, Manager

-----------------------------------------------------------------------------
(* What is called Finished has run *)

Run == FinishedIsDone /\ Judged /\ FinishedMeansRun

\* Most steps finish no workflow and leave the verdict alone.
LEMMA RunFrame ==
  ASSUME Run, done \subseteq done',
         \A t \in started' : t \in started \/ Pred(t) \subseteq done,
         \A t \in Tasks : state'[t] = "Finished" => t \in done',
         \A w \in Submitted : state'[w] = "Finished" => state[w] = "Finished",
         UNCHANGED <<current, exits, isFinished>>
  PROVE  Run'
<1>1. FinishedIsDone'
  BY DEF FinishedIsDone
<1>2. Judged'
  BY DEF Run, Judged, Exit, TasksOf
<1>3. \A w \in Submitted : state'[w] = "Finished" => Exit(w) \subseteq done'
  BY DEF Run, FinishedMeansRun
<1>4. \A t \in started' : Pred(t) \subseteq done'
  BY DEF Run, FinishedMeansRun
<1> QED  BY <1>1, <1>2, <1>3, <1>4 DEF Run, FinishedMeansRun

LEMMA SubmittedIsKnown ==
  /\ Submitted \subseteq Known /\ Tasks \subseteq Known
  /\ \A w \in Submitted, t \in Tasks : w # t
BY ManagerAssumption DEF Known

LEMMA StepRun ==
  ASSUME TypeOK, Course, Run, [Next]_vars
  PROVE  Run'
<1> USE SubmittedIsKnown
<1>1. CASE UNCHANGED <<state, rms, current, exits, isFinished>>
  BY <1>1, RunFrame DEF rms, Run, FinishedIsDone
<1>2. CASE ReserveOnly \/ ReserveToCommit \/ DeleteUnknown
  <2>1. Next1 \in Submitted
    BY <1>2, NextIsSubmitted DEF TypeOK, ReserveOnly, ReserveToCommit, DeleteUnknown, Asks
  <2>2. AdcReserves(Next1) \/ AdcRejects(Next1)
    BY <1>2 DEF ReserveOnly, ReserveToCommit, DeleteUnknown
  <2>3. \A r \in Known : state'[r] = "Finished" => state[r] = "Finished"
    BY <2>1, <2>2, AnswerTyped
  <2>4. UNCHANGED <<started, done, current, exits, isFinished>>
    BY <1>2 DEF ReserveOnly, ReserveToCommit, DeleteUnknown, pass
  <2>5. \A t \in Tasks : state'[t] = "Finished" => t \in done'
    BY <2>3, <2>4 DEF Run, FinishedIsDone
  <2> QED  BY <2>3, <2>4, <2>5, RunFrame
<1>3. CASE CommitEntries
  <2> DEFINE w == Next1
             waiting == {t \in Entry(w) : state[t] = "ReserveAnswer"}
  <2>1. /\ w \in Submitted /\ state'[w] = "Committed"
        /\ \A r \in Known : r = w \/ r \in waiting \/ state'[r] = state[r]
        /\ \A t \in waiting : state'[t] = "Finished" => t \in done'
        /\ started' = started \union waiting /\ done \subseteq done'
    BY <1>3, CommitEntriesSets
  <2>2. /\ waiting \subseteq Tasks
        /\ \A t \in waiting : Pred(t) = {}
    BY DEF Entry, TasksOf, Pred
  <2>3. UNCHANGED <<current, exits, isFinished>>
    BY <1>3 DEF CommitEntries, pass
  <2> HIDE DEF w, waiting
  <2>4. \A t \in Tasks : state'[t] = "Finished" => t \in done'
    BY <2>1 DEF Run, FinishedIsDone
  <2>5. \A v \in Submitted : state'[v] = "Finished" => state[v] = "Finished"
    BY <2>1, <2>2
  <2>6. \A t \in started' : t \in started \/ Pred(t) \subseteq done
    BY <2>1, <2>2
  <2> QED  BY <2>1, <2>3, <2>4, <2>5, <2>6, RunFrame
<1>4. ASSUME NEW t \in Tasks, CommitTask(t) PROVE Run'
  <2>1. /\ \A r \in Known : r # t => state'[r] = state[r]
        /\ state'[t] = "Finished" => t \in done'
        /\ started' = started \union {t} /\ done \subseteq done'
    BY <1>4, CommitTaskSets
  <2>2. Pred(t) \subseteq done
    BY <1>4 DEF CommitTask, CommitReady, Run, FinishedIsDone, Pred
  <2>3. UNCHANGED <<current, exits, isFinished>>
    BY <1>4 DEF CommitTask, Visit
  <2>4. \A s \in Tasks : state'[s] = "Finished" => s \in done'
    BY <2>1 DEF Run, FinishedIsDone
  <2>5. \A v \in Submitted : state'[v] = "Finished" => state[v] = "Finished"
    BY <2>1
  <2>6. \A s \in started' : s \in started \/ Pred(s) \subseteq done
    BY <2>1, <2>2
  <2> QED  BY <2>1, <2>3, <2>4, <2>5, <2>6, RunFrame
<1>5. ASSUME NEW w \in Submitted, VisitWorkflow(w) PROVE Run'
  <2>1. /\ UNCHANGED <<state, booked, started, done>>
        /\ current' = w /\ exits' = Exit(w)
    BY <1>5 DEF VisitWorkflow, rms
  <2>2. Judged'
    BY <2>1 DEF Judged, Exit, TasksOf
  <2> QED  BY <2>1, <2>2 DEF Run, FinishedIsDone, FinishedMeansRun
<1>6. ASSUME NEW e \in Tasks, CheckExit(e) PROVE Run'
  <2>1. /\ current \in Submitted
        /\ state'[current] = state[current] \/ state'[current] = "Rejected"
        /\ \A r \in Known : r # current => state'[r] = state[r]
    BY <1>6, CheckExitSets
  <2>2. /\ exits' = exits \ {e} /\ isFinished' = (isFinished /\ state[e] = "Finished")
        /\ UNCHANGED <<started, done, current>>
    BY <1>6 DEF CheckExit, rms
  <2>3. Judged'
    <3> SUFFICES ASSUME current # None, isFinished' PROVE Exit(current) \ exits' \subseteq done
      BY <2>2 DEF Judged, Exit, TasksOf
    <3>1. isFinished /\ state[e] = "Finished"
      BY <2>2
    <3>2. e \in done
      BY <3>1 DEF Run, FinishedIsDone
    <3>3. Exit(current) \ exits \subseteq done
      BY <3>1 DEF Run, Judged
    <3> QED  BY <2>2, <3>2, <3>3
  <2>4. FinishedIsDone'
    BY <2>1, <2>2 DEF Run, FinishedIsDone
  <2>5. \A v \in Submitted : state'[v] = "Finished" => state[v] = "Finished"
    BY <2>1
  <2>6. FinishedMeansRun'
    BY <2>2, <2>5 DEF Run, FinishedMeansRun
  <2> QED  BY <2>3, <2>4, <2>6 DEF Run
<1>7. CASE Conclude
  <2>1. /\ current \in Submitted
        /\ state'[current] = IF isFinished THEN "Finished" ELSE state[current]
        /\ \A r \in Known : r # current => state'[r] = state[r]
    BY <1>7, ConcludeSets
  <2>2. /\ current # None /\ exits = {} /\ current' = None
        /\ UNCHANGED <<started, done>>
    BY <1>7 DEF Conclude, rms
  <2>3. Judged'
    BY <2>2 DEF Judged
  <2>4. FinishedIsDone'
    BY <2>1, <2>2 DEF Run, FinishedIsDone
  <2>5. isFinished => Exit(current) \subseteq done
    BY <2>2 DEF Run, Judged
  <2>6. \A v \in Submitted : state'[v] = "Finished" => Exit(v) \subseteq done
    BY <2>1, <2>5 DEF Run, FinishedMeansRun
  <2>7. FinishedMeansRun'
    BY <2>2, <2>6 DEF Run, FinishedMeansRun
  <2> QED  BY <2>3, <2>4, <2>7 DEF Run
<1>8. ASSUME NEW t \in Tasks, Complete(t) \/ Fail(t) \/ Relist(t) \/ Expire(t) PROVE Run'
  <2>1. PICK s \in ReservationState :
          /\ RmsSets(t, s)
          /\ s = "Finished" => t \in done'
    BY <1>8, StatesAre, ManagerAssumption DEF Complete, Fail, Relist, Expire
  <2>2. /\ state'[t] = s
        /\ \A r \in Known : r # t => state'[r] = state[r]
    BY <2>1, TaskSet
  <2>3. done \subseteq done' /\ UNCHANGED <<started, current, exits, isFinished>>
    BY <1>8 DEF Complete, Fail, Relist, Expire, rms, pass
  <2>4. \A q \in Tasks : state'[q] = "Finished" => q \in done'
    BY <2>1, <2>2, <2>3 DEF Run, FinishedIsDone
  <2>5. \A v \in Submitted : state'[v] = "Finished" => state[v] = "Finished"
    BY <2>2
  <2> QED  BY <2>3, <2>4, <2>5, RunFrame
<1>9. CASE Manager
  <2>1. CASE \/ \E m \in Adcs : Spawn(m)
             \/ NotBuilt \/ Built \/ Pass \/ Close \/ StartPass \/ Finish \/ Sweep
             \/ \E t \in Tasks : VisitTask(t)
    <3>1. UNCHANGED <<state, rms, current, exits, isFinished>>
      BY <2>1 DEF Spawn, NotBuilt, Built, Pass, Close, StartPass, Finish, Sweep, VisitTask,
                  boot, rms, pass
    <3> QED  BY <1>1, <3>1
  <2> QED  BY <1>2, <1>3, <1>4, <1>5, <1>6, <1>7, <1>9, <2>1 DEF Manager
<1>10. CASE AdcDies \/ UNCHANGED vars
  <2>1. UNCHANGED <<state, rms, current, exits, isFinished>>
    BY <1>10 DEF AdcDies, vars, pass, rms
  <2> QED  BY <1>1, <2>1
<1> QED  BY <1>8, <1>9, <1>10 DEF Next

-----------------------------------------------------------------------------
(* Nothing that waits is forgotten *)

Polled == EndedIsOver /\ WaitingIsPolled

\* Most steps commit no workflow, revive no task that waits and drop nothing.
LEMMA PolledFrame ==
  ASSUME Polled, UNCHANGED <<proceeding, ended>>, open \subseteq open',
         at' \notin {"Visit", "Dead"} => ended = {},
         \A w \in Submitted : state'[w] = "Committed" => state[w] = "Committed",
         started \subseteq started',
         \A t \in Tasks \ started : state[t] \in Terminal => state'[t] \in Terminal
  PROVE  Polled'
<1>1. EndedIsOver'
  BY DEF Polled, EndedIsOver
<1>2. WaitingIsPolled'
  <2> SUFFICES ASSUME NEW w \in Submitted, state'[w] = "Committed"
               PROVE  /\ w \in open'
                      /\ \A t \in TasksOf(w) \ started' :
                            state'[t] \notin Terminal /\ proceeding[t] = "Commit" => t \in open'
    BY DEF WaitingIsPolled, TasksOf
  <2>1. state[w] = "Committed"
    OBVIOUS
  <2>2. w \in open /\ \A t \in TasksOf(w) \ started :
                        state[t] \notin Terminal /\ proceeding[t] = "Commit" => t \in open
    BY <2>1 DEF Polled, WaitingIsPolled
  <2>3. TasksOf(w) \subseteq Tasks
    BY DEF TasksOf
  <2> QED  BY <2>2, <2>3
<1> QED  BY <1>1, <1>2 DEF Polled

\* The answer to a reserve concerns one workflow, which is then not Committed.
LEMMA PolledAnswer ==
  ASSUME TypeOK, Polled, NEW w \in Submitted, AdcReserves(w) \/ AdcRejects(w),
         ended = {}, UNCHANGED <<open, proceeding, ended, started>>
  PROVE  Polled'
<1> USE SubmittedIsKnown
<1>1. /\ \A r \in Known : r = w \/ r \in TasksOf(w) \/ state'[r] = state[r]
      /\ state'[w] # "Committed"
  BY AnswerTyped
<1>2. EndedIsOver'
  BY DEF EndedIsOver
<1>3. WaitingIsPolled'
  <2> SUFFICES ASSUME NEW v \in Submitted, state'[v] = "Committed"
               PROVE  /\ v \in open
                      /\ \A t \in TasksOf(v) \ started :
                            state'[t] \notin Terminal /\ proceeding[t] = "Commit" => t \in open
    BY DEF WaitingIsPolled, TasksOf
  <2>1. v # w /\ v \notin TasksOf(w)
    BY <1>1 DEF TasksOf
  <2>2. state[v] = "Committed"
    BY <1>1, <2>1
  <2>3. \A t \in TasksOf(v) : state'[t] = state[t]
    BY <1>1, <2>1 DEF TasksOf
  <2> QED  BY <2>2, <2>3 DEF Polled, WaitingIsPolled
<1> QED  BY <1>2, <1>3 DEF Polled

\* What a visit adds to the sweep is over.
LEMMA VisitEnds ==
  ASSUME TypeOK, Polled, NEW r, Visit(r), r \in Submitted \/ r \in Tasks
  PROVE  /\ \A w \in Submitted : w \in ended' => state[w] # "Committed"
         /\ \A t \in Tasks \ started :
               t \in ended' /\ proceeding[t] = "Commit" => state[t] \in Terminal
<1>1. AtCycleEnd(r) /\ proceeding[r] = "Commit" => state[r] \in Terminal
  BY DEF AtCycleEnd
<1>2. AtCycleEnd(r) => state[r] # "Committed"
  <2>1. proceeding[r] \in {"Probe", "Reserve", "Commit", "Delete", "Ignore"}
    BY DEF TypeOK, Proceedings
  <2> QED  BY <2>1 DEF AtCycleEnd, Terminal
<1>3. \A q \in ended' : q \in ended \/ (q = r /\ AtCycleEnd(r))
  BY DEF Visit
<1> QED  BY <1>1, <1>2, <1>3 DEF Polled, EndedIsOver

LEMMA StepPolled ==
  ASSUME TypeOK, Course, Polled, [Next]_vars
  PROVE  Polled'
<1> USE SubmittedIsKnown DEF boot, rms, pass
<1>1. CASE UNCHANGED vars
  BY <1>1 DEF vars, Polled, EndedIsOver, WaitingIsPolled, TasksOf
<1>2. CASE \/ \E m \in Adcs : Spawn(m)
           \/ NotBuilt \/ Built \/ Pass \/ Finish \/ AdcDies
  <2>1. UNCHANGED <<state, proceeding, ended, open, started>>
    BY <1>2 DEF Spawn, NotBuilt, Built, Pass, Finish, AdcDies
  <2>2. at' \notin {"Visit", "Dead"} => at \notin {"Visit", "Dead"}
    BY <1>2 DEF Spawn, NotBuilt, Built, Pass, Asks, Finish, AdcDies
  <2> QED  BY <2>1, <2>2, PolledFrame DEF Polled, EndedIsOver
<1>3. CASE ReserveOnly \/ ReserveToCommit \/ DeleteUnknown
  <2>1. Next1 \in Submitted /\ at = "Submit"
    BY <1>3, NextIsSubmitted DEF TypeOK, ReserveOnly, ReserveToCommit, DeleteUnknown, Asks
  <2>2. AdcReserves(Next1) \/ AdcRejects(Next1)
    BY <1>3 DEF ReserveOnly, ReserveToCommit, DeleteUnknown
  <2>3. UNCHANGED <<open, proceeding, ended, started>>
    BY <1>3 DEF ReserveOnly, ReserveToCommit, DeleteUnknown
  <2>4. ended = {}
    BY <2>1 DEF Polled, EndedIsOver
  <2> QED  BY <2>1, <2>2, <2>3, <2>4, PolledAnswer
<1>4. CASE CommitEntries
  <2> DEFINE w == Next1
             waiting == {t \in Entry(w) : state[t] = "ReserveAnswer"}
  <2>1. /\ w \in Submitted
        /\ \A r \in Known : r = w \/ r \in waiting \/ state'[r] = state[r]
        /\ open' = open \union Watched(w)
        /\ started' = started \union waiting
    BY <1>4, CommitEntriesSets
  <2>2. UNCHANGED <<proceeding, ended>> /\ ended = {}
    BY <1>4 DEF CommitEntries, Polled, EndedIsOver
  <2>3. waiting \subseteq TasksOf(w) /\ TasksOf(w) \subseteq Watched(w) /\ w \in Watched(w)
    BY DEF Entry, Watched, Parts, TasksOf
  <2>4. \A v \in Submitted : v # w => v \notin waiting /\ TasksOf(v) \intersect waiting = {}
    BY <2>3 DEF TasksOf
  <2> HIDE DEF w, waiting
  <2>5. EndedIsOver'
    BY <2>2 DEF EndedIsOver
  <2>6. WaitingIsPolled'
    <3> SUFFICES ASSUME NEW v \in Submitted, state'[v] = "Committed"
                 PROVE  /\ v \in open'
                        /\ \A t \in TasksOf(v) \ started' :
                              state'[t] \notin Terminal /\ proceeding[t] = "Commit" => t \in open'
      BY <2>2 DEF WaitingIsPolled, TasksOf
    <3>1. CASE v = w
      BY <2>1, <2>3, <3>1
    <3>2. CASE v # w
      <4>1. state[v] = "Committed"
        BY <2>1, <2>4, <3>2
      <4>2. \A t \in TasksOf(v) : t # w /\ t \in Known
        BY <2>1 DEF TasksOf
      <4>3. \A t \in TasksOf(v) : state'[t] = state[t]
        BY <2>1, <2>4, <3>2, <4>2
      <4> QED  BY <2>1, <4>1, <4>3 DEF Polled, WaitingIsPolled
    <3> QED  BY <3>1, <3>2
  <2> QED  BY <2>5, <2>6 DEF Polled
<1>5. CASE Close \/ StartPass
  <2>1. UNCHANGED <<state, proceeding, started>> /\ ended' = {}
    BY <1>5 DEF Close, StartPass, Polled, EndedIsOver
  <2>2. \A r \in Known : r \in open => r \in open'
    BY <1>5, ManagerAssumption DEF Close, StartPass, Known
  <2>3. EndedIsOver'
    BY <2>1 DEF EndedIsOver
  <2>4. WaitingIsPolled'
    BY <2>1, <2>2 DEF Polled, WaitingIsPolled, TasksOf
  <2> QED  BY <2>3, <2>4 DEF Polled
<1>6. CASE Sweep
  <2>1. UNCHANGED <<state, proceeding, started>> /\ ended' = {} /\ open' = open \ ended
    BY <1>6 DEF Sweep
  <2>2. EndedIsOver'
    BY <2>1 DEF EndedIsOver
  <2>3. WaitingIsPolled'
    BY <2>1 DEF Polled, EndedIsOver, WaitingIsPolled, TasksOf
  <2> QED  BY <2>2, <2>3 DEF Polled
<1>7. ASSUME NEW r, Visit(r), r \in Submitted \/ r \in Tasks,
             UNCHANGED <<at, open, proceeding, state, started>>
      PROVE  Polled'
  <2>1. /\ \A w \in Submitted : w \in ended' => state[w] # "Committed"
        /\ \A t \in Tasks \ started :
              t \in ended' /\ proceeding[t] = "Commit" => state[t] \in Terminal
    BY <1>7, VisitEnds
  <2>2. at = "Visit"
    BY <1>7 DEF Visit
  <2>3. EndedIsOver'
    BY <1>7, <2>1, <2>2 DEF EndedIsOver
  <2>4. WaitingIsPolled'
    BY <1>7 DEF Polled, WaitingIsPolled, TasksOf
  <2> QED  BY <2>3, <2>4 DEF Polled
<1>8. ASSUME NEW t \in Tasks, CommitTask(t) PROVE Polled'
  <2>1. /\ \A r \in Known : r # t => state'[r] = state[r]
        /\ started' = started \union {t}
    BY <1>8, CommitTaskSets
  <2>2. /\ at = "Visit" /\ Visit(t) /\ proceeding[t] = "Commit" /\ state[t] \notin Terminal
        /\ open' = open \union {t} /\ UNCHANGED <<at, proceeding>>
    BY <1>8 DEF CommitTask, CommitReady, Visit, Terminal
  <2>3. /\ \A w \in Submitted : w \in ended' => state[w] # "Committed"
        /\ \A s \in Tasks \ started :
              s \in ended' /\ proceeding[s] = "Commit" => state[s] \in Terminal
    BY <2>2, VisitEnds
  <2>4. EndedIsOver'
    <3>1. \A w \in Submitted : w \in ended' => state'[w] # "Committed"
      BY <2>1, <2>3
    <3>2. \A s \in Tasks \ started' :
             s \in ended' /\ proceeding[s] = "Commit" => state'[s] \in Terminal
      BY <2>1, <2>3
    <3> QED  BY <2>2, <3>1, <3>2 DEF EndedIsOver
  <2>5. WaitingIsPolled'
    <3> SUFFICES ASSUME NEW w \in Submitted, state'[w] = "Committed"
                 PROVE  /\ w \in open'
                        /\ \A s \in TasksOf(w) \ started' :
                              state'[s] \notin Terminal /\ proceeding[s] = "Commit" => s \in open'
      BY <2>2 DEF WaitingIsPolled, TasksOf
    <3>1. state[w] = "Committed" /\ TasksOf(w) \subseteq Tasks
      BY <2>1 DEF TasksOf
    <3>2. w \in open /\ \A s \in TasksOf(w) \ started :
                            state[s] \notin Terminal /\ proceeding[s] = "Commit" => s \in open
      BY <3>1 DEF Polled, WaitingIsPolled
    <3>3. \A s \in TasksOf(w) : s # t => state'[s] = state[s]
      BY <2>1, <3>1
    <3> QED  BY <2>1, <2>2, <3>2, <3>3
  <2> QED  BY <2>4, <2>5 DEF Polled
<1>9. ASSUME NEW e \in Tasks, CheckExit(e) PROVE Polled'
  <2>1. /\ current \in Submitted
        /\ state'[current] = state[current] \/ state'[current] = "Rejected"
        /\ \A r \in Known : r # current => state'[r] = state[r]
    BY <1>9, CheckExitSets
  <2>2. UNCHANGED <<at, open, proceeding, ended, started>>
    BY <1>9 DEF CheckExit
  <2>3. \A w \in Submitted : state'[w] = "Committed" => state[w] = "Committed"
    BY <2>1
  <2> QED  BY <2>1, <2>2, <2>3, PolledFrame DEF Polled, EndedIsOver
<1>10. CASE Conclude
  <2>1. /\ current \in Submitted
        /\ state'[current] = IF isFinished THEN "Finished" ELSE state[current]
        /\ \A r \in Known : r # current => state'[r] = state[r]
    BY <1>10, ConcludeSets
  <2>2. UNCHANGED <<at, open, proceeding, ended, started>>
    BY <1>10 DEF Conclude
  <2>3. \A w \in Submitted : state'[w] = "Committed" => state[w] = "Committed"
    BY <2>1
  <2> QED  BY <2>1, <2>2, <2>3, PolledFrame DEF Polled, EndedIsOver
<1>11. ASSUME NEW t \in Tasks, Complete(t) \/ Fail(t) \/ Relist(t) \/ Expire(t) PROVE Polled'
  <2>1. PICK s \in ReservationState : RmsSets(t, s) /\ (s \in Terminal \/ t \in started)
    BY <1>11, StatesAre, ManagerAssumption DEF Complete, Fail, Relist, Expire, Terminal
  <2>2. /\ state'[t] = s
        /\ \A r \in Known : r # t => state'[r] = state[r]
    BY <2>1, TaskSet
  <2>3. UNCHANGED <<at, open, proceeding, ended, started>>
    BY <1>11 DEF Complete, Fail, Relist, Expire
  <2>4. \A q \in Tasks \ started : state[q] \in Terminal => state'[q] \in Terminal
    BY <2>1, <2>2
  <2>5. \A w \in Submitted : state'[w] = "Committed" => state[w] = "Committed"
    BY <2>2
  <2> QED  BY <2>3, <2>4, <2>5, PolledFrame DEF Polled, EndedIsOver
<1>12. ASSUME NEW t \in Tasks, VisitTask(t) PROVE Polled'
  BY <1>7, <1>12 DEF VisitTask
<1>13. ASSUME NEW w \in Submitted, VisitWorkflow(w) PROVE Polled'
  BY <1>7, <1>13 DEF VisitWorkflow
<1> QED
  BY <1>1, <1>2, <1>3, <1>4, <1>5, <1>6, <1>8, <1>9, <1>10, <1>11, <1>12, <1>13 DEF Next, Manager

-----------------------------------------------------------------------------
(* The hierarchy *)

LEMMA SpawnBuilds ==
  ASSUME BuiltOnBuilt, NEW m \in Adcs, Spawn(m)
  PROVE  BuiltOnBuilt'
<1>1. /\ at = "Boot" /\ m \notin spawned /\ children[m] \subseteq spawned
      /\ spawned' = spawned \union {m} /\ UNCHANGED <<children, at>>
  BY DEF Spawn, Pending, Ready
<1>2. \A n \in Adcs \intersect spawned' : children'[n] \subseteq spawned'
  BY <1>1 DEF BuiltOnBuilt
<1>3. ASSUME NEW S \in (SUBSET (Adcs \intersect spawned')) \ {{}}
      PROVE  \E n \in S : children[n] \intersect S = {}
  <2> DEFINE T == S \ {m}
  <2>1. CASE T = {}
    <3>1. S = {m}
      BY <2>1
    <3> QED  BY <1>1, <3>1
  <2>2. CASE T # {}
    <3>1. T \in (SUBSET (Adcs \intersect spawned)) \ {{}}
      BY <1>1, <2>2
    <3>2. PICK n \in T : children[n] \intersect T = {}
      BY <3>1 DEF BuiltOnBuilt
    <3>3. m \notin children[n]
      BY <1>1, <3>1, <3>2 DEF BuiltOnBuilt
    <3> QED  BY <3>2, <3>3
  <2> QED  BY <2>1, <2>2
<1>4. \A S \in (SUBSET (Adcs \intersect spawned')) \ {{}} : \E n \in S : children'[n] \intersect S = {}
  BY <1>1, <1>3
<1> QED  BY <1>1, <1>2, <1>4 DEF BuiltOnBuilt

LEMMA StepBuilt ==
  ASSUME BuiltOnBuilt, [Next]_vars
  PROVE  BuiltOnBuilt'
<1>1. ASSUME UNCHANGED boot, at' \notin {"Boot", "Unbuilt"} => Adcs \subseteq spawned
      PROVE  BuiltOnBuilt'
  BY <1>1 DEF BuiltOnBuilt, boot
<1>2. ASSUME UNCHANGED boot, at \notin {"Boot", "Unbuilt"} \/ at' = at
      PROVE  BuiltOnBuilt'
  BY <1>1, <1>2 DEF BuiltOnBuilt
<1>3. CASE NotBuilt \/ Built
  BY <1>1, <1>3 DEF NotBuilt, Built, Pending
<1>4. CASE Pass \/ ReserveOnly \/ ReserveToCommit \/ CommitEntries \/ DeleteUnknown \/ Close
  BY <1>2, <1>4 DEF Pass, ReserveOnly, ReserveToCommit, CommitEntries, DeleteUnknown, Close, Asks
<1>5. CASE StartPass \/ Finish \/ Conclude \/ Sweep
  BY <1>2, <1>5 DEF StartPass, Finish, Conclude, Sweep
<1>6. CASE \E t \in Tasks : VisitTask(t) \/ CommitTask(t) \/ CheckExit(t)
  BY <1>2, <1>6 DEF VisitTask, CommitTask, CheckExit
<1>7. CASE \E w \in Submitted : VisitWorkflow(w)
  BY <1>2, <1>7 DEF VisitWorkflow
<1>8. CASE AdcDies
  BY <1>2, <1>8 DEF AdcDies, Asks
<1>9. CASE \E t \in Tasks : Complete(t) \/ Fail(t) \/ Relist(t) \/ Expire(t)
  BY <1>2, <1>9 DEF Complete, Fail, Relist, Expire
<1>10. CASE UNCHANGED vars
  BY <1>2, <1>10 DEF vars, boot
<1> QED
  BY <1>3, <1>4, <1>5, <1>6, <1>7, <1>8, <1>9, <1>10, SpawnBuilds DEF Next, Manager

-----------------------------------------------------------------------------
(* The theorems *)

IInv == TypeOK /\ Course /\ Run /\ Polled /\ BuiltOnBuilt

LEMMA InitIInv == Init => IInv
<1> SUFFICES ASSUME Init PROVE IInv
  OBVIOUS
<1>1. \A r \in Known : state[r] = "Open"
  BY DEF Init, Known
<1>2. Run
  BY <1>1, SubmittedIsKnown DEF Init, Run, FinishedIsDone, Judged, FinishedMeansRun
<1>3. Polled
  BY <1>1, SubmittedIsKnown DEF Init, Polled, EndedIsOver, WaitingIsPolled
<1>4. Adcs \intersect spawned = {} /\ at = "Boot"
  BY ManagerAssumption DEF Init
<1>5. BuiltOnBuilt
  BY <1>4 DEF BuiltOnBuilt
<1> QED  BY <1>2, <1>3, <1>5, InitTyped DEF IInv

LEMMA StepIInv == IInv /\ [Next]_vars => IInv'
<1> SUFFICES ASSUME IInv, [Next]_vars PROVE IInv'
  OBVIOUS
<1>1. TypeOK' /\ Course'
  BY StepTyped DEF IInv
<1>2. Run'
  BY StepRun DEF IInv
<1>3. Polled'
  BY StepPolled DEF IInv
<1>4. BuiltOnBuilt'
  BY StepBuilt DEF IInv
<1> QED  BY <1>1, <1>2, <1>3, <1>4 DEF IInv

LEMMA Invariance == Spec => []IInv
BY InitIInv, StepIInv, PTL DEF Spec

\* The manager's variables keep their types (vrm_manager.rs).
THEOREM ManagerTyped == Spec => []TypeOK
<1>1. IInv => TypeOK
  BY DEF IInv
<1> QED  BY <1>1, Invariance, PTL

\* Whatever the workflows, the wishes of the clients and the order of the
\* events: a workflow is set to Finished only after its exit tasks have run,
\* and no task is given to a resource manager before all tasks it takes data
\* from have run (run_vrm, is_res_commit_ready).
THEOREM FinishedHasRun == Spec => []FinishedMeansRun
<1>1. IInv => FinishedMeansRun
  BY DEF IInv, Run
<1> QED  BY <1>1, Invariance, PTL

\* A committed workflow and those of its tasks that wait to be committed stay
\* among the polled reservations, although each pass works on a copy, tasks are
\* reopened by their resource managers, and the sweep at the end of a pass
\* removes what was found at the end of its cycle while the pass ran (run_vrm).
THEOREM NothingWaitingIsForgotten == Spec => []WaitingIsPolled
<1>1. IInv => WaitingIsPolled
  BY DEF IInv, Polled
<1> QED  BY <1>1, Invariance, PTL

\* The loop that builds every component whose children exist ends in a
\* hierarchy without cycles and without missing children, or builds none
\* (init_vrm_system).
THEOREM HierarchiesAreSound == Spec => []HierarchyIsSound
<1>1. IInv => HierarchyIsSound
  <2> SUFFICES ASSUME BuiltOnBuilt, at \notin {"Boot", "Unbuilt"}
               PROVE  /\ \A m \in Adcs : children[m] \subseteq spawned
                      /\ \A S \in (SUBSET Adcs) \ {{}} : \E m \in S : children[m] \intersect S = {}
    BY DEF IInv, HierarchyIsSound
  <2>1. Adcs \intersect spawned = Adcs
    BY DEF BuiltOnBuilt
  <2> QED  BY <2>1 DEF BuiltOnBuilt
<1> QED  BY <1>1, Invariance, PTL

=============================================================================
