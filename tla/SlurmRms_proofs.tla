-------------------------- MODULE SlurmRms_proofs --------------------------
(***************************************************************************)
(* Proofs about SlurmRms for every set of reservations, imports, jobs and  *)
(* nodes.  The invariant has one part per structure the tasks share; every *)
(* part is kept by every step of every task.                               *)
(***************************************************************************)
EXTENDS SlurmRms, TLAPS

\* The synchronisation books the import it is working on.
TypeInv == TypeOK /\ (sync.phase = "booking" => sync.current \in Externals)

\* A job has an owner only once it exists, what a task remembers of a job
\* stays true, and everything known as a job exists.
OwnerInv ==
    /\ \A j \in Jobs : jobState[j] = "none" =>
          /\ jobOwner[j] = Local
          /\ sync.tasks[j] = "none"
          /\ j \notin sync.imports
    /\ \A p \in taskMapping : jobState[p[2]] # "none"
    /\ \A r \in Reservations :
          /\ request[r].phase \in {"accepted", "mapped"} =>
                request[r].job \in Jobs /\ jobOwner[request[r].job] = r
          /\ deletion[r].phase # "idle" =>
                deletion[r].job \in Jobs /\ jobOwner[deletion[r].job] = r

\* A deletion begins with a mapped reservation, whose commit has its mapping
\* behind it; none of its reservation's pairs outlives the answer.
UnmapInv ==
    /\ \A r \in Reservations, j \in Jobs :
          <<r, j>> \in taskMapping => request[r].phase \in {"mapped", "done"}
    /\ \A r \in Reservations :
          deletion[r].phase # "idle" => request[r].phase \in {"mapped", "done"}
    /\ \A r \in Reservations, j \in Jobs :
          deletion[r].phase # "idle" /\ <<r, j>> \in taskMapping => j = deletion[r].job
    /\ UnmappedForGood

\* Only reservations with a job are about to be set to Committed.
CommitInv ==
    /\ CommittedWasAccepted
    /\ \A u \in sync.update :
          u[1] \in Reservations /\ u[2] = "Committed" => \E j \in Jobs : jobOwner[j] = u[1]

\* What the synchronisation is about to do to a local job is still right.
SyncInv ==
    /\ sync.phase = "fetched" =>
          \A p \in taskMapping : jobOwner[p[2]] = Local => sync.tasks[p[2]] # "none"
    /\ \A j \in Jobs : sync.tasks[j] = "purged" => jobState[j] = "purged"
    /\ \A p \in sync.finish : jobOwner[p[2]] = Local => jobState[p[2]] = "purged"
    /\ \A j \in sync.imports : jobOwner[j] = Local => \A p \in taskMapping : p[2] # j

\* A step does not drop a mapping of a local job that Slurm lists.
KeepsLocal ==
    \A p \in taskMapping :
        jobOwner[p[2]] = Local /\ jobState[p[2]] \in Visible => p \in taskMapping'

\* Inductive: what the tasks remember makes up for what each lock leaves open.
IInv ==
    /\ TypeInv
    /\ OwnerInv
    /\ MappingIsFaithful
    /\ UnmapInv
    /\ CommitInv
    /\ SyncInv

-----------------------------------------------------------------------------
\* An insert keeps the mapping a relation between ids and jobs.
LEMMA MapInsertType ==
  ASSUME taskMapping \subseteq Ids \X Jobs, NEW i \in Ids, NEW j \in Jobs
  PROVE  MapInsert(i, j) \subseteq Ids \X Jobs
  BY DEF MapInsert

\* A state that is set is a state of the store.
LEMMA SetStateType ==
  ASSUME state \in [Ids -> StoreState], NEW i, NEW new \in StoreState, SetState(i, new)
  PROVE  state' \in [Ids -> StoreState]
<1>1. PICK old : state' = [state EXCEPT ![i] = IF state[i] = "absent" THEN state[i] ELSE new]
  BY DEF SetState
<1> QED BY <1>1

\* The types of the requests and of the deletions.
Requests == [Reservations -> [phase: RequestPhase, job: Jobs \union {NoJob}]]
Deletions == [Reservations -> [phase: DeletionPhase, job: Jobs \union {NoJob}]]

\* A phase or a whole entry of a request or of a deletion may change.
LEMMA EntryType ==
  /\ \A r \in Reservations, new \in RequestPhase, j \in Jobs \union {NoJob} :
        request \in Requests =>
           /\ [request EXCEPT ![r].phase = new] \in Requests
           /\ [request EXCEPT ![r] = [phase |-> new, job |-> j]] \in Requests
  /\ \A r \in Reservations, new \in DeletionPhase, j \in Jobs \union {NoJob} :
        deletion \in Deletions =>
           /\ [deletion EXCEPT ![r].phase = new] \in Deletions
           /\ [deletion EXCEPT ![r] = [phase |-> new, job |-> j]] \in Deletions
  BY DEF Requests, Deletions

\* What TypeInv says of them.
LEMMA EntriesTyped ==
  ASSUME TypeInv PROVE request \in Requests /\ deletion \in Deletions
  BY DEF TypeInv, TypeOK, Requests, Deletions

\* A step keeps the types.
LEMMA TypeStep ==
  ASSUME TypeInv, OwnerInv, [Next]_vars
  PROVE  TypeInv'
<1> USE IdsAssumption DEF TypeInv, TypeOK, SyncType, Ids, cluster, nodes, StoreState, RequestPhase, DeletionPhase, SyncPhase, JobState, Visible
<1>1. ASSUME NEW r \in Reservations, Reserve(r) PROVE TypeInv'
  <2>1. state' \in [Ids -> StoreState]
    BY <1>1, SetStateType DEF Reserve
  <2>2. booked' \subseteq Ids
    BY <1>1 DEF Reserve
  <2> QED BY <1>1, <2>1, <2>2 DEF Reserve
<1>2. ASSUME NEW r \in Reservations, Commit(r) PROVE TypeInv'
  <2>1. CASE r \in links
    <3>1. state' \in [Ids -> StoreState]
      BY <1>2, <2>1, SetStateType DEF Commit
    <3>2. request' = [request EXCEPT ![r] = [phase |-> "done", job |-> NoJob]]
      BY <1>2, <2>1 DEF Commit, Ended
    <3>3. request' \in Requests
      BY <3>2, EntriesTyped, EntryType
    <3> QED BY <1>2, <2>1, <3>1, <3>3 DEF Commit, Requests
  <2>2. CASE r \notin links
    <3>1. request' = [request EXCEPT ![r].phase = "sent"]
      BY <1>2, <2>2 DEF Commit
    <3>2. request' \in Requests
      BY <3>1, EntriesTyped, EntryType
    <3> QED BY <1>2, <2>2, <3>2 DEF Commit, Requests
  <2> QED BY <2>1, <2>2
<1>3. ASSUME NEW r \in Reservations, DeleteTask(r) PROVE TypeInv'
  <2>1. state' \in [Ids -> StoreState]
    BY <1>3, SetStateType DEF DeleteTask, ScheduleDelete
  <2>2. booked' \subseteq Ids
    BY <1>3 DEF DeleteTask, ScheduleDelete
  <2>3. CASE deletion' = deletion
    BY <1>3, <2>1, <2>2, <2>3 DEF DeleteTask
  <2>4. CASE deletion' # deletion
    <3>1. PICK j \in Jobs : deletion' = [deletion EXCEPT ![r] = [phase |-> "sent", job |-> j]]
      BY <1>3, <2>4 DEF DeleteTask
    <3>2. deletion' \in Deletions
      BY <3>1, EntriesTyped, EntryType
    <3> QED BY <1>3, <2>1, <2>2, <3>2 DEF DeleteTask, Deletions
  <2> QED BY <2>3, <2>4
<1>4. ASSUME NEW r \in Reservations, CommitMapped(r) PROVE TypeInv'
  <2>1. taskMapping' \subseteq Ids \X Jobs
    BY <1>4, MapInsertType DEF CommitMapped, OwnerInv
  <2> QED BY <1>4, <2>1 DEF CommitMapped
<1>5. ASSUME NEW r \in Reservations, CommitDone(r) PROVE TypeInv'
  BY <1>5 DEF CommitDone, SetState, Ended
<1>6. ASSUME NEW r \in Reservations, CommitRefused(r) PROVE TypeInv'
  BY <1>6 DEF CommitRefused, SetState, Ended
<1>7. ASSUME NEW r \in Reservations, CommitTimeout(r) PROVE TypeInv'
  BY <1>7 DEF CommitTimeout, SetState, AfterTimeout
<1>8. ASSUME NEW r \in Reservations, DeleteUnmap(r) PROVE TypeInv'
  BY <1>8 DEF DeleteUnmap, Unmapped
<1>9. ASSUME NEW r \in Reservations, DeleteRelease(r) PROVE TypeInv'
  <2>1. state' \in [Ids -> StoreState]
    BY <1>9, SetStateType DEF DeleteRelease, ScheduleDelete
  <2>2. booked' \subseteq Ids
    BY <1>9 DEF DeleteRelease, ScheduleDelete
  <2>3. deletion' \in Deletions
    BY <1>9, EntriesTyped, EntryType DEF DeleteRelease
  <2> QED BY <1>9, <2>1, <2>2, <2>3 DEF DeleteRelease, Deletions
<1>10. ASSUME NEW r \in Reservations, DeleteCheck(r) PROVE TypeInv'
  BY <1>10 DEF DeleteCheck, SetState, Idle
<1>11. ASSUME NEW r \in Reservations, DeleteFailed(r) PROVE TypeInv'
  BY <1>11 DEF DeleteFailed, SetState, Idle
<1>12. ASSUME NEW r \in Reservations, SubmitRefused(r) PROVE TypeInv'
  BY <1>12 DEF SubmitRefused
<1>13. ASSUME NEW r \in Reservations, DeleteServed(r) PROVE TypeInv'
  <2>1. deletion' = [deletion EXCEPT ![r].phase = "answered"]
    BY <1>13 DEF DeleteServed
  <2>2. deletion' \in Deletions
    BY <2>1, EntriesTyped, EntryType
  <2>3. jobState' \in [Jobs -> JobState]
    BY <1>13 DEF DeleteServed
  <2> QED BY <1>13, <2>2, <2>3 DEF DeleteServed, Deletions
<1>14. ASSUME NEW r \in Reservations, NEW j \in Jobs, SubmitAccepted(r, j) PROVE TypeInv'
  BY <1>14 DEF SubmitAccepted, Ended
<1>15. ASSUME NEW j \in Jobs, LocalSubmit(j) PROVE TypeInv'
  BY <1>15 DEF LocalSubmit
<1>16. ASSUME NEW j \in Jobs, JobEnds(j) PROVE TypeInv'
  BY <1>16 DEF JobEnds
<1>17. ASSUME NEW j \in Jobs, Purge(j) PROVE TypeInv'
  BY <1>17 DEF Purge, Visible
<1>18. ASSUME NodesChange PROVE TypeInv'
  BY <1>18 DEF NodesChange
<1>19. ASSUME NEW id \in Ids, Expire(id) PROVE TypeInv'
  BY <1>19 DEF Expire, SetState
<1>20. ASSUME FetchTasks PROVE TypeInv'
  BY <1>20 DEF FetchTasks
<1>21. ASSUME CollectUpdates PROVE TypeInv'
  <2> DEFINE Done == {p \in taskMapping : p[2] \notin ActiveSlurmIds(sync.tasks)}
             Changed(clear) == {<<p[1], FromSlurm(sync.tasks[p[2]])>> :
                                  p \in {q \in taskMapping :
                                     /\ q[2] \in clear
                                     /\ state[q[1]] # FromSlurm(sync.tasks[q[2]])}}
             New == Listed(sync.tasks) \ MappedJobs
  <2>1. PICK clear \in SUBSET Listed(sync.tasks) :
           sync' = [sync EXCEPT !.phase = "collected", !.tasks = NoTasks, !.finish = Done,
                                !.update = Changed(clear), !.imports = New]
    BY <1>21 DEF CollectUpdates
  <2>2. Done \subseteq Ids \X Jobs
    OBVIOUS
  <2>3. New \subseteq Jobs
    BY DEF Listed
  <2>4. \A p \in taskMapping : p[2] \in clear => sync.tasks[p[2]] \in Visible
    BY DEF Listed
  <2>5. Changed(clear) \subseteq Ids \X {"Committed", "Finished", "Deleted", "Rejected"}
    BY <2>4 DEF FromSlurm
  <2>6. NoTasks \in [Jobs -> JobState]
    BY DEF NoTasks
  <2> HIDE DEF Done, Changed, New
  <2>7. sync' \in SyncType /\ sync'.phase = "collected"
    BY <2>1, <2>2, <2>3, <2>5, <2>6
  <2> QED BY <1>21, <2>7 DEF CollectUpdates
<1>22. ASSUME UnmapFinished PROVE TypeInv'
  BY <1>22 DEF UnmapFinished, Unmapped
<1>23. ASSUME FinishTask PROVE TypeInv'
  BY <1>23 DEF FinishTask, SetState
<1>24. ASSUME UpdateTask PROVE TypeInv'
  BY <1>24 DEF UpdateTask, SetState
<1>25. ASSUME NEW e \in Externals, ImportTask(e) PROVE TypeInv'
  <2>1. PICK j \in sync.imports :
           /\ taskMapping' = MapInsert(e, j)
           /\ sync' = [sync EXCEPT !.phase = "booking", !.current = e, !.imports = @ \ {j}]
    BY <1>25 DEF ImportTask
  <2>2. taskMapping' \subseteq Ids \X Jobs
    BY <2>1, MapInsertType
  <2>3. state' \in [Ids -> StoreState]
    BY <1>25 DEF ImportTask
  <2>4. sync' \in SyncType /\ (sync'.phase = "booking" => sync'.current \in Externals)
    BY <2>1
  <2> QED BY <1>25, <2>2, <2>3, <2>4 DEF ImportTask
<1>26. ASSUME ReserveTask PROVE TypeInv'
  BY <1>26 DEF ReserveTask, SetState
<1>27. ASSUME SyncDone PROVE TypeInv'
  BY <1>27 DEF SyncDone
<1>28. ASSUME UNCHANGED vars PROVE TypeInv'
  BY <1>28 DEF vars
<1> QED
  BY <1>1, <1>2, <1>3, <1>4, <1>5, <1>6, <1>7, <1>8, <1>9, <1>10, <1>11, <1>12, <1>13, <1>14, <1>15, <1>16, <1>17, <1>18, <1>19, <1>20, <1>21, <1>22, <1>23, <1>24, <1>25, <1>26, <1>27, <1>28 DEF Next, CommitTask, DeletionTask, Slurm, Sync

\* What the comparison leaves in the synchronisation.
LEMMA Collected ==
  ASSUME TypeInv, CollectUpdates
  PROVE  /\ sync'.phase = "collected"
         /\ sync'.tasks = NoTasks
         /\ sync'.finish = {p \in taskMapping : p[2] \notin Listed(sync.tasks)}
         /\ \A u \in sync'.update : \E p \in taskMapping : u[1] = p[1]
         /\ sync'.imports = Listed(sync.tasks) \ MappedJobs
<1> DEFINE Done == {p \in taskMapping : p[2] \notin Listed(sync.tasks)}
           Changed(clear) == {<<p[1], FromSlurm(sync.tasks[p[2]])>> :
                                p \in {q \in taskMapping :
                                   /\ q[2] \in clear
                                   /\ state[q[1]] # FromSlurm(sync.tasks[q[2]])}}
           New == Listed(sync.tasks) \ MappedJobs
<1>1. PICK clear \in SUBSET Listed(sync.tasks) :
         sync' = [sync EXCEPT !.phase = "collected", !.tasks = NoTasks, !.finish = Done,
                              !.update = Changed(clear), !.imports = New]
  BY DEF CollectUpdates, ActiveSlurmIds
<1>2. \A u \in Changed(clear) : \E p \in taskMapping : u[1] = p[1]
  OBVIOUS
<1>3. sync \in SyncType
  BY DEF TypeInv, TypeOK
<1> HIDE DEF Done, Changed, New
<1>4. /\ sync'.phase = "collected" /\ sync'.tasks = NoTasks /\ sync'.finish = Done
      /\ sync'.update = Changed(clear) /\ sync'.imports = New
  BY <1>1, <1>3 DEF SyncType
<1> QED BY <1>2, <1>4 DEF Done, New

\* An insert keeps the mapping one-to-one.
LEMMA MapInsertOneToOne ==
  ASSUME NEW i, NEW j, \A p, q \in taskMapping : p[1] = q[1] <=> p[2] = q[2]
  PROVE  \A p, q \in MapInsert(i, j) : p[1] = q[1] <=> p[2] = q[2]
  BY DEF MapInsert

\* A step keeps what is remembered of jobs true.
LEMMA OwnerStep ==
  ASSUME TypeInv, OwnerInv, MappingIsFaithful, [Next]_vars
  PROVE  OwnerInv'
<1> USE IdsAssumption DEF TypeInv, TypeOK, SyncType, Ids, cluster, nodes, OwnerInv
<1>1. ASSUME NEW r \in Reservations, Reserve(r) PROVE OwnerInv'
  BY <1>1 DEF Reserve, SetState
<1>2. ASSUME NEW r \in Reservations, Commit(r) PROVE OwnerInv'
  BY <1>2 DEF Commit, SetState, Ended
<1>3. ASSUME NEW r \in Reservations, DeleteTask(r) PROVE OwnerInv'
  <2>1. CASE deletion' = deletion
    BY <1>3, <2>1 DEF DeleteTask
  <2>2. CASE deletion' # deletion
    <3>1. PICK j \in Jobs :
             <<r, j>> \in taskMapping /\ deletion' = [deletion EXCEPT ![r] = [phase |-> "sent", job |-> j]]
      BY <1>3, <2>2 DEF DeleteTask
    <3>2. jobOwner[j] = r
      BY <3>1 DEF MappingIsFaithful
    <3>3. \A q \in Reservations :
             deletion'[q] = IF q = r THEN [phase |-> "sent", job |-> j] ELSE deletion[q]
      BY <3>1
    <3> QED BY <1>3, <3>2, <3>3 DEF DeleteTask
  <2> QED BY <2>1, <2>2
<1>4. ASSUME NEW r \in Reservations, CommitMapped(r) PROVE OwnerInv'
  BY <1>4 DEF CommitMapped, MapInsert
<1>5. ASSUME NEW r \in Reservations, CommitDone(r) PROVE OwnerInv'
  BY <1>5 DEF CommitDone, SetState, Ended
<1>6. ASSUME NEW r \in Reservations, CommitRefused(r) PROVE OwnerInv'
  BY <1>6 DEF CommitRefused, SetState, Ended
<1>7. ASSUME NEW r \in Reservations, CommitTimeout(r) PROVE OwnerInv'
  BY <1>7 DEF CommitTimeout, SetState, AfterTimeout
<1>8. ASSUME NEW r \in Reservations, DeleteUnmap(r) PROVE OwnerInv'
  BY <1>8 DEF DeleteUnmap, Unmapped
<1>9. ASSUME NEW r \in Reservations, DeleteRelease(r) PROVE OwnerInv'
  BY <1>9 DEF DeleteRelease, ScheduleDelete, SetState
<1>10. ASSUME NEW r \in Reservations, DeleteCheck(r) PROVE OwnerInv'
  BY <1>10 DEF DeleteCheck, SetState, Idle
<1>11. ASSUME NEW r \in Reservations, DeleteFailed(r) PROVE OwnerInv'
  BY <1>11 DEF DeleteFailed, SetState, Idle
<1>12. ASSUME NEW r \in Reservations, SubmitRefused(r) PROVE OwnerInv'
  BY <1>12 DEF SubmitRefused
<1>13. ASSUME NEW r \in Reservations, DeleteServed(r) PROVE OwnerInv'
  <2>1. /\ deletion' = [deletion EXCEPT ![r].phase = "answered"]
        /\ \/ jobState' = jobState
           \/ jobState' = [jobState EXCEPT ![deletion[r].job] = "CANCELLED"]
    BY <1>13 DEF DeleteServed
  <2>2. deletion[r].job \in Jobs /\ jobState[deletion[r].job] # "none"
    BY <1>13 DEF DeleteServed
  <2>3. \A q \in Reservations :
           /\ deletion'[q].job = deletion[q].job
           /\ deletion'[q].phase = IF q = r THEN "answered" ELSE deletion[q].phase
    BY <2>1
  <2>4. \A j \in Jobs : jobState'[j] = "none" <=> jobState[j] = "none"
    BY <2>1, <2>2
  <2> QED BY <1>13, <2>3, <2>4 DEF DeleteServed
<1>14. ASSUME NEW r \in Reservations, NEW j \in Jobs, SubmitAccepted(r, j) PROVE OwnerInv'
  BY <1>14 DEF SubmitAccepted, Ended
<1>15. ASSUME NEW j \in Jobs, LocalSubmit(j) PROVE OwnerInv'
  BY <1>15 DEF LocalSubmit
<1>16. ASSUME NEW j \in Jobs, JobEnds(j) PROVE OwnerInv'
  BY <1>16 DEF JobEnds
<1>17. ASSUME NEW j \in Jobs, Purge(j) PROVE OwnerInv'
  BY <1>17 DEF Purge, Visible
<1>18. ASSUME NodesChange PROVE OwnerInv'
  BY <1>18 DEF NodesChange
<1>19. ASSUME NEW id \in Ids, Expire(id) PROVE OwnerInv'
  BY <1>19 DEF Expire, SetState
<1>20. ASSUME FetchTasks PROVE OwnerInv'
  BY <1>20 DEF FetchTasks
<1>21. ASSUME CollectUpdates PROVE OwnerInv'
  BY <1>21 DEF CollectUpdates, NoTasks, ActiveSlurmIds, Listed, FromSlurm, MappedJobs, Visible
<1>22. ASSUME UnmapFinished PROVE OwnerInv'
  BY <1>22 DEF UnmapFinished, Unmapped
<1>23. ASSUME FinishTask PROVE OwnerInv'
  BY <1>23 DEF FinishTask, SetState
<1>24. ASSUME UpdateTask PROVE OwnerInv'
  BY <1>24 DEF UpdateTask, SetState
<1>25. ASSUME NEW e \in Externals, ImportTask(e) PROVE OwnerInv'
  BY <1>25 DEF ImportTask, MapInsert
<1>26. ASSUME ReserveTask PROVE OwnerInv'
  BY <1>26 DEF ReserveTask, SetState
<1>27. ASSUME SyncDone PROVE OwnerInv'
  BY <1>27 DEF SyncDone
<1>28. ASSUME UNCHANGED vars PROVE OwnerInv'
  BY <1>28 DEF vars
<1> QED
  BY <1>1, <1>2, <1>3, <1>4, <1>5, <1>6, <1>7, <1>8, <1>9, <1>10, <1>11, <1>12, <1>13, <1>14, <1>15, <1>16, <1>17, <1>18, <1>19, <1>20, <1>21, <1>22, <1>23, <1>24, <1>25, <1>26, <1>27, <1>28 DEF Next, CommitTask, DeletionTask, Slurm, Sync

\* A step keeps the mapping faithful.
LEMMA MappingStep ==
  ASSUME TypeInv, OwnerInv, MappingIsFaithful, [Next]_vars
  PROVE  MappingIsFaithful'
<1> USE IdsAssumption DEF TypeInv, TypeOK, SyncType, Ids, cluster, nodes, MappingIsFaithful
<1>1. ASSUME NEW r \in Reservations, Reserve(r) PROVE MappingIsFaithful'
  BY <1>1 DEF Reserve, SetState
<1>2. ASSUME NEW r \in Reservations, Commit(r) PROVE MappingIsFaithful'
  BY <1>2 DEF Commit, SetState, Ended
<1>3. ASSUME NEW r \in Reservations, DeleteTask(r) PROVE MappingIsFaithful'
  BY <1>3 DEF DeleteTask, ScheduleDelete, SetState
<1>4. ASSUME NEW r \in Reservations, CommitMapped(r) PROVE MappingIsFaithful'
  <2>1. taskMapping' = MapInsert(r, request[r].job)
    BY <1>4 DEF CommitMapped
  <2>2. \A p, q \in taskMapping' : p[1] = q[1] <=> p[2] = q[2]
    BY <2>1, MapInsertOneToOne
  <2>3. jobOwner[request[r].job] = r
    BY <1>4 DEF CommitMapped, OwnerInv
  <2>4. \A p \in taskMapping' : p[1] \in Reservations => jobOwner[p[2]] = p[1]
    BY <2>1, <2>3 DEF MapInsert
  <2> QED BY <1>4, <2>2, <2>4 DEF CommitMapped
<1>5. ASSUME NEW r \in Reservations, CommitDone(r) PROVE MappingIsFaithful'
  BY <1>5 DEF CommitDone, SetState, Ended
<1>6. ASSUME NEW r \in Reservations, CommitRefused(r) PROVE MappingIsFaithful'
  BY <1>6 DEF CommitRefused, SetState, Ended
<1>7. ASSUME NEW r \in Reservations, CommitTimeout(r) PROVE MappingIsFaithful'
  BY <1>7 DEF CommitTimeout, SetState, AfterTimeout
<1>8. ASSUME NEW r \in Reservations, DeleteUnmap(r) PROVE MappingIsFaithful'
  BY <1>8 DEF DeleteUnmap, Unmapped
<1>9. ASSUME NEW r \in Reservations, DeleteRelease(r) PROVE MappingIsFaithful'
  BY <1>9 DEF DeleteRelease, ScheduleDelete, SetState
<1>10. ASSUME NEW r \in Reservations, DeleteCheck(r) PROVE MappingIsFaithful'
  BY <1>10 DEF DeleteCheck, SetState, Idle
<1>11. ASSUME NEW r \in Reservations, DeleteFailed(r) PROVE MappingIsFaithful'
  BY <1>11 DEF DeleteFailed, SetState, Idle
<1>12. ASSUME NEW r \in Reservations, SubmitRefused(r) PROVE MappingIsFaithful'
  BY <1>12 DEF SubmitRefused
<1>13. ASSUME NEW r \in Reservations, DeleteServed(r) PROVE MappingIsFaithful'
  BY <1>13 DEF DeleteServed
<1>14. ASSUME NEW r \in Reservations, NEW j \in Jobs, SubmitAccepted(r, j) PROVE MappingIsFaithful'
  <2>1. \A p \in taskMapping : jobOwner'[p[2]] = jobOwner[p[2]]
    BY <1>14 DEF SubmitAccepted, OwnerInv
  <2> QED BY <1>14, <2>1 DEF SubmitAccepted
<1>15. ASSUME NEW j \in Jobs, LocalSubmit(j) PROVE MappingIsFaithful'
  BY <1>15 DEF LocalSubmit
<1>16. ASSUME NEW j \in Jobs, JobEnds(j) PROVE MappingIsFaithful'
  BY <1>16 DEF JobEnds
<1>17. ASSUME NEW j \in Jobs, Purge(j) PROVE MappingIsFaithful'
  BY <1>17 DEF Purge, Visible
<1>18. ASSUME NodesChange PROVE MappingIsFaithful'
  BY <1>18 DEF NodesChange
<1>19. ASSUME NEW id \in Ids, Expire(id) PROVE MappingIsFaithful'
  BY <1>19 DEF Expire, SetState
<1>20. ASSUME FetchTasks PROVE MappingIsFaithful'
  BY <1>20 DEF FetchTasks
<1>21. ASSUME CollectUpdates PROVE MappingIsFaithful'
  BY <1>21 DEF CollectUpdates, NoTasks, ActiveSlurmIds, Listed, FromSlurm, MappedJobs, Visible
<1>22. ASSUME UnmapFinished PROVE MappingIsFaithful'
  BY <1>22 DEF UnmapFinished, Unmapped
<1>23. ASSUME FinishTask PROVE MappingIsFaithful'
  BY <1>23 DEF FinishTask, SetState
<1>24. ASSUME UpdateTask PROVE MappingIsFaithful'
  BY <1>24 DEF UpdateTask, SetState
<1>25. ASSUME NEW e \in Externals, ImportTask(e) PROVE MappingIsFaithful'
  BY <1>25 DEF ImportTask, MapInsert
<1>26. ASSUME ReserveTask PROVE MappingIsFaithful'
  BY <1>26 DEF ReserveTask, SetState
<1>27. ASSUME SyncDone PROVE MappingIsFaithful'
  BY <1>27 DEF SyncDone
<1>28. ASSUME UNCHANGED vars PROVE MappingIsFaithful'
  BY <1>28 DEF vars
<1> QED
  BY <1>1, <1>2, <1>3, <1>4, <1>5, <1>6, <1>7, <1>8, <1>9, <1>10, <1>11, <1>12, <1>13, <1>14, <1>15, <1>16, <1>17, <1>18, <1>19, <1>20, <1>21, <1>22, <1>23, <1>24, <1>25, <1>26, <1>27, <1>28 DEF Next, CommitTask, DeletionTask, Slurm, Sync

\* A step keeps the pairs of a deleted reservation out of the mapping.
LEMMA UnmapStep ==
  ASSUME TypeInv, OwnerInv, MappingIsFaithful, UnmapInv, [Next]_vars
  PROVE  UnmapInv'
<1> USE IdsAssumption DEF TypeInv, TypeOK, SyncType, Ids, cluster, nodes, UnmapInv, UnmappedForGood
<1>1. ASSUME NEW r \in Reservations, Reserve(r) PROVE UnmapInv'
  BY <1>1 DEF Reserve, SetState
<1>2. ASSUME NEW r \in Reservations, Commit(r) PROVE UnmapInv'
  BY <1>2 DEF Commit, SetState, Ended
<1>3. ASSUME NEW r \in Reservations, DeleteTask(r) PROVE UnmapInv'
  <2>1. CASE deletion' = deletion
    BY <1>3, <2>1 DEF DeleteTask
  <2>2. CASE deletion' # deletion
    <3>1. PICK j \in Jobs :
             <<r, j>> \in taskMapping /\ deletion' = [deletion EXCEPT ![r] = [phase |-> "sent", job |-> j]]
      BY <1>3, <2>2 DEF DeleteTask
    <3>2. \A i \in Jobs : <<r, i>> \in taskMapping => i = j
      BY <3>1 DEF MappingIsFaithful
    <3>3. \A q \in Reservations :
             deletion'[q] = IF q = r THEN [phase |-> "sent", job |-> j] ELSE deletion[q]
      BY <3>1
    <3> QED BY <1>3, <3>1, <3>2, <3>3 DEF DeleteTask
  <2> QED BY <2>1, <2>2
<1>4. ASSUME NEW r \in Reservations, CommitMapped(r) PROVE UnmapInv'
  <2>1. \A p \in taskMapping' : p \in taskMapping \/ p[1] = r
    BY <1>4 DEF CommitMapped, MapInsert
  <2>2. deletion[r].phase = "idle"
    BY <1>4 DEF CommitMapped
  <2>3. \A q \in Reservations :
           request'[q].phase = IF q = r THEN "mapped" ELSE request[q].phase
    BY <1>4 DEF CommitMapped
  <2> QED BY <1>4, <2>1, <2>2, <2>3 DEF CommitMapped
<1>5. ASSUME NEW r \in Reservations, CommitDone(r) PROVE UnmapInv'
  BY <1>5 DEF CommitDone, SetState, Ended
<1>6. ASSUME NEW r \in Reservations, CommitRefused(r) PROVE UnmapInv'
  BY <1>6 DEF CommitRefused, SetState, Ended
<1>7. ASSUME NEW r \in Reservations, CommitTimeout(r) PROVE UnmapInv'
  BY <1>7 DEF CommitTimeout, SetState, AfterTimeout
<1>8. ASSUME NEW r \in Reservations, DeleteUnmap(r) PROVE UnmapInv'
  BY <1>8 DEF DeleteUnmap, Unmapped
<1>9. ASSUME NEW r \in Reservations, DeleteRelease(r) PROVE UnmapInv'
  BY <1>9 DEF DeleteRelease, ScheduleDelete, SetState
<1>10. ASSUME NEW r \in Reservations, DeleteCheck(r) PROVE UnmapInv'
  BY <1>10 DEF DeleteCheck, SetState, Idle
<1>11. ASSUME NEW r \in Reservations, DeleteFailed(r) PROVE UnmapInv'
  BY <1>11 DEF DeleteFailed, SetState, Idle
<1>12. ASSUME NEW r \in Reservations, SubmitRefused(r) PROVE UnmapInv'
  BY <1>12 DEF SubmitRefused
<1>13. ASSUME NEW r \in Reservations, DeleteServed(r) PROVE UnmapInv'
  BY <1>13 DEF DeleteServed
<1>14. ASSUME NEW r \in Reservations, NEW j \in Jobs, SubmitAccepted(r, j) PROVE UnmapInv'
  BY <1>14 DEF SubmitAccepted, Ended
<1>15. ASSUME NEW j \in Jobs, LocalSubmit(j) PROVE UnmapInv'
  BY <1>15 DEF LocalSubmit
<1>16. ASSUME NEW j \in Jobs, JobEnds(j) PROVE UnmapInv'
  BY <1>16 DEF JobEnds
<1>17. ASSUME NEW j \in Jobs, Purge(j) PROVE UnmapInv'
  BY <1>17 DEF Purge, Visible
<1>18. ASSUME NodesChange PROVE UnmapInv'
  BY <1>18 DEF NodesChange
<1>19. ASSUME NEW id \in Ids, Expire(id) PROVE UnmapInv'
  BY <1>19 DEF Expire, SetState
<1>20. ASSUME FetchTasks PROVE UnmapInv'
  BY <1>20 DEF FetchTasks
<1>21. ASSUME CollectUpdates PROVE UnmapInv'
  BY <1>21 DEF CollectUpdates, NoTasks, ActiveSlurmIds, Listed, FromSlurm, MappedJobs, Visible
<1>22. ASSUME UnmapFinished PROVE UnmapInv'
  BY <1>22 DEF UnmapFinished, Unmapped
<1>23. ASSUME FinishTask PROVE UnmapInv'
  BY <1>23 DEF FinishTask, SetState
<1>24. ASSUME UpdateTask PROVE UnmapInv'
  BY <1>24 DEF UpdateTask, SetState
<1>25. ASSUME NEW e \in Externals, ImportTask(e) PROVE UnmapInv'
  BY <1>25 DEF ImportTask, MapInsert
<1>26. ASSUME ReserveTask PROVE UnmapInv'
  BY <1>26 DEF ReserveTask, SetState
<1>27. ASSUME SyncDone PROVE UnmapInv'
  BY <1>27 DEF SyncDone
<1>28. ASSUME UNCHANGED vars PROVE UnmapInv'
  BY <1>28 DEF vars
<1> QED
  BY <1>1, <1>2, <1>3, <1>4, <1>5, <1>6, <1>7, <1>8, <1>9, <1>10, <1>11, <1>12, <1>13, <1>14, <1>15, <1>16, <1>17, <1>18, <1>19, <1>20, <1>21, <1>22, <1>23, <1>24, <1>25, <1>26, <1>27, <1>28 DEF Next, CommitTask, DeletionTask, Slurm, Sync

\* A step commits only reservations with a job.
LEMMA CommitStep ==
  ASSUME TypeInv, OwnerInv, MappingIsFaithful, CommitInv, [Next]_vars
  PROVE  CommitInv'
<1> USE IdsAssumption DEF TypeInv, TypeOK, SyncType, Ids, cluster, nodes, CommitInv, CommittedWasAccepted
<1>1. ASSUME NEW r \in Reservations, Reserve(r) PROVE CommitInv'
  BY <1>1 DEF Reserve, SetState
<1>2. ASSUME NEW r \in Reservations, Commit(r) PROVE CommitInv'
  BY <1>2 DEF Commit, SetState, Ended
<1>3. ASSUME NEW r \in Reservations, DeleteTask(r) PROVE CommitInv'
  BY <1>3 DEF DeleteTask, ScheduleDelete, SetState
<1>4. ASSUME NEW r \in Reservations, CommitMapped(r) PROVE CommitInv'
  BY <1>4 DEF CommitMapped, MapInsert
<1>5. ASSUME NEW r \in Reservations, CommitDone(r) PROVE CommitInv'
  <2>1. \E j \in Jobs : jobOwner[j] = r
    BY <1>5 DEF CommitDone, OwnerInv
  <2> QED BY <1>5, <2>1 DEF CommitDone, SetState
<1>6. ASSUME NEW r \in Reservations, CommitRefused(r) PROVE CommitInv'
  BY <1>6 DEF CommitRefused, SetState, Ended
<1>7. ASSUME NEW r \in Reservations, CommitTimeout(r) PROVE CommitInv'
  BY <1>7 DEF CommitTimeout, SetState, AfterTimeout
<1>8. ASSUME NEW r \in Reservations, DeleteUnmap(r) PROVE CommitInv'
  BY <1>8 DEF DeleteUnmap, Unmapped
<1>9. ASSUME NEW r \in Reservations, DeleteRelease(r) PROVE CommitInv'
  BY <1>9 DEF DeleteRelease, ScheduleDelete, SetState
<1>10. ASSUME NEW r \in Reservations, DeleteCheck(r) PROVE CommitInv'
  BY <1>10 DEF DeleteCheck, SetState, Idle
<1>11. ASSUME NEW r \in Reservations, DeleteFailed(r) PROVE CommitInv'
  BY <1>11 DEF DeleteFailed, SetState, Idle
<1>12. ASSUME NEW r \in Reservations, SubmitRefused(r) PROVE CommitInv'
  BY <1>12 DEF SubmitRefused
<1>13. ASSUME NEW r \in Reservations, DeleteServed(r) PROVE CommitInv'
  BY <1>13 DEF DeleteServed
<1>14. ASSUME NEW r \in Reservations, NEW j \in Jobs, SubmitAccepted(r, j) PROVE CommitInv'
  <2>1. \A q \in Reservations, i \in Jobs : jobOwner[i] = q => jobOwner'[i] = q
    BY <1>14 DEF SubmitAccepted, OwnerInv
  <2> QED BY <1>14, <2>1 DEF SubmitAccepted
<1>15. ASSUME NEW j \in Jobs, LocalSubmit(j) PROVE CommitInv'
  BY <1>15 DEF LocalSubmit
<1>16. ASSUME NEW j \in Jobs, JobEnds(j) PROVE CommitInv'
  BY <1>16 DEF JobEnds
<1>17. ASSUME NEW j \in Jobs, Purge(j) PROVE CommitInv'
  BY <1>17 DEF Purge, Visible
<1>18. ASSUME NodesChange PROVE CommitInv'
  BY <1>18 DEF NodesChange
<1>19. ASSUME NEW id \in Ids, Expire(id) PROVE CommitInv'
  BY <1>19 DEF Expire, SetState
<1>20. ASSUME FetchTasks PROVE CommitInv'
  BY <1>20 DEF FetchTasks
<1>21. ASSUME CollectUpdates PROVE CommitInv'
  <2>1. UNCHANGED <<state, jobOwner>>
    BY <1>21 DEF CollectUpdates
  <2>2. \A u \in sync'.update : u[1] \in Reservations => \E j \in Jobs : jobOwner[j] = u[1]
    BY <1>21, Collected DEF MappingIsFaithful
  <2> QED BY <2>1, <2>2
<1>22. ASSUME UnmapFinished PROVE CommitInv'
  BY <1>22 DEF UnmapFinished, Unmapped
<1>23. ASSUME FinishTask PROVE CommitInv'
  BY <1>23 DEF FinishTask, SetState
<1>24. ASSUME UpdateTask PROVE CommitInv'
  BY <1>24 DEF UpdateTask, SetState
<1>25. ASSUME NEW e \in Externals, ImportTask(e) PROVE CommitInv'
  BY <1>25 DEF ImportTask, MapInsert
<1>26. ASSUME ReserveTask PROVE CommitInv'
  BY <1>26 DEF ReserveTask, SetState
<1>27. ASSUME SyncDone PROVE CommitInv'
  BY <1>27 DEF SyncDone
<1>28. ASSUME UNCHANGED vars PROVE CommitInv'
  BY <1>28 DEF vars
<1> QED
  BY <1>1, <1>2, <1>3, <1>4, <1>5, <1>6, <1>7, <1>8, <1>9, <1>10, <1>11, <1>12, <1>13, <1>14, <1>15, <1>16, <1>17, <1>18, <1>19, <1>20, <1>21, <1>22, <1>23, <1>24, <1>25, <1>26, <1>27, <1>28 DEF Next, CommitTask, DeletionTask, Slurm, Sync

\* A step keeps what the synchronisation is about to do right.
LEMMA SyncStep ==
  ASSUME TypeInv, OwnerInv, MappingIsFaithful, SyncInv, [Next]_vars
  PROVE  SyncInv'
<1> USE IdsAssumption DEF TypeInv, TypeOK, SyncType, Ids, cluster, nodes, SyncInv
<1>1. ASSUME NEW r \in Reservations, Reserve(r) PROVE SyncInv'
  BY <1>1 DEF Reserve, SetState
<1>2. ASSUME NEW r \in Reservations, Commit(r) PROVE SyncInv'
  BY <1>2 DEF Commit, SetState, Ended
<1>3. ASSUME NEW r \in Reservations, DeleteTask(r) PROVE SyncInv'
  BY <1>3 DEF DeleteTask, ScheduleDelete, SetState
<1>4. ASSUME NEW r \in Reservations, CommitMapped(r) PROVE SyncInv'
  <2>1. jobOwner[request[r].job] # Local
    BY <1>4 DEF CommitMapped, OwnerInv
  <2>2. \A p \in taskMapping' : p \in taskMapping \/ p = <<r, request[r].job>>
    BY <1>4 DEF CommitMapped, MapInsert
  <2> QED BY <1>4, <2>1, <2>2 DEF CommitMapped
<1>5. ASSUME NEW r \in Reservations, CommitDone(r) PROVE SyncInv'
  BY <1>5 DEF CommitDone, SetState, Ended
<1>6. ASSUME NEW r \in Reservations, CommitRefused(r) PROVE SyncInv'
  BY <1>6 DEF CommitRefused, SetState, Ended
<1>7. ASSUME NEW r \in Reservations, CommitTimeout(r) PROVE SyncInv'
  BY <1>7 DEF CommitTimeout, SetState, AfterTimeout
<1>8. ASSUME NEW r \in Reservations, DeleteUnmap(r) PROVE SyncInv'
  BY <1>8 DEF DeleteUnmap, Unmapped
<1>9. ASSUME NEW r \in Reservations, DeleteRelease(r) PROVE SyncInv'
  BY <1>9 DEF DeleteRelease, ScheduleDelete, SetState
<1>10. ASSUME NEW r \in Reservations, DeleteCheck(r) PROVE SyncInv'
  BY <1>10 DEF DeleteCheck, SetState, Idle
<1>11. ASSUME NEW r \in Reservations, DeleteFailed(r) PROVE SyncInv'
  BY <1>11 DEF DeleteFailed, SetState, Idle
<1>12. ASSUME NEW r \in Reservations, SubmitRefused(r) PROVE SyncInv'
  BY <1>12 DEF SubmitRefused
<1>13. ASSUME NEW r \in Reservations, DeleteServed(r) PROVE SyncInv'
  BY <1>13 DEF DeleteServed
<1>14. ASSUME NEW r \in Reservations, NEW j \in Jobs, SubmitAccepted(r, j) PROVE SyncInv'
  BY <1>14 DEF SubmitAccepted, Ended
<1>15. ASSUME NEW j \in Jobs, LocalSubmit(j) PROVE SyncInv'
  BY <1>15 DEF LocalSubmit
<1>16. ASSUME NEW j \in Jobs, JobEnds(j) PROVE SyncInv'
  BY <1>16 DEF JobEnds
<1>17. ASSUME NEW j \in Jobs, Purge(j) PROVE SyncInv'
  BY <1>17 DEF Purge, Visible
<1>18. ASSUME NodesChange PROVE SyncInv'
  BY <1>18 DEF NodesChange
<1>19. ASSUME NEW id \in Ids, Expire(id) PROVE SyncInv'
  BY <1>19 DEF Expire, SetState
<1>20. ASSUME FetchTasks PROVE SyncInv'
  <2>1. sync'.tasks = jobState /\ sync'.finish = sync.finish /\ sync'.imports = sync.imports
    BY <1>20 DEF FetchTasks
  <2>2. \A p \in taskMapping : jobState[p[2]] # "none"
    BY DEF OwnerInv
  <2> QED BY <1>20, <2>1, <2>2 DEF FetchTasks
<1>21. ASSUME CollectUpdates PROVE SyncInv'
  <2>1. UNCHANGED <<taskMapping, jobState, jobOwner>>
    BY <1>21 DEF CollectUpdates
  <2>2. sync.phase = "fetched"
    BY <1>21 DEF CollectUpdates
  <2>3. \A p \in sync'.finish : jobOwner[p[2]] = Local => jobState[p[2]] = "purged"
    <3>1. ASSUME NEW p \in taskMapping, p[2] \notin Listed(sync.tasks), jobOwner[p[2]] = Local
          PROVE  jobState[p[2]] = "purged"
      <4>1. p[2] \in Jobs /\ sync.tasks[p[2]] # "none"
        BY <2>2, <3>1
      <4>2. sync.tasks[p[2]] \in JobState /\ sync.tasks[p[2]] \notin Visible
        BY <3>1, <4>1 DEF Listed
      <4> QED BY <4>1, <4>2 DEF JobState
    <3> QED BY <1>21, <3>1, Collected
  <2>4. \A j \in sync'.imports : \A p \in taskMapping : p[2] # j
    BY <1>21, Collected DEF MappedJobs
  <2>5. sync'.phase = "collected" /\ \A j \in Jobs : sync'.tasks[j] = "none"
    BY <1>21, Collected DEF NoTasks
  <2> QED BY <2>1, <2>3, <2>4, <2>5
<1>22. ASSUME UnmapFinished PROVE SyncInv'
  BY <1>22 DEF UnmapFinished, Unmapped
<1>23. ASSUME FinishTask PROVE SyncInv'
  BY <1>23 DEF FinishTask, SetState
<1>24. ASSUME UpdateTask PROVE SyncInv'
  BY <1>24 DEF UpdateTask, SetState
<1>25. ASSUME NEW e \in Externals, ImportTask(e) PROVE SyncInv'
  BY <1>25 DEF ImportTask, MapInsert
<1>26. ASSUME ReserveTask PROVE SyncInv'
  BY <1>26 DEF ReserveTask, SetState
<1>27. ASSUME SyncDone PROVE SyncInv'
  BY <1>27 DEF SyncDone
<1>28. ASSUME UNCHANGED vars PROVE SyncInv'
  BY <1>28 DEF vars
<1> QED
  BY <1>1, <1>2, <1>3, <1>4, <1>5, <1>6, <1>7, <1>8, <1>9, <1>10, <1>11, <1>12, <1>13, <1>14, <1>15, <1>16, <1>17, <1>18, <1>19, <1>20, <1>21, <1>22, <1>23, <1>24, <1>25, <1>26, <1>27, <1>28 DEF Next, CommitTask, DeletionTask, Slurm, Sync

\* A step keeps the mapping of a local job that Slurm lists.
LEMMA KeptStep ==
  ASSUME TypeInv, OwnerInv, MappingIsFaithful, SyncInv, [Next]_vars
  PROVE  KeepsLocal
<1> USE IdsAssumption DEF TypeInv, TypeOK, SyncType, Ids, cluster, nodes, KeepsLocal, OwnerInv
<1>1. ASSUME NEW r \in Reservations, Reserve(r) PROVE KeepsLocal
  BY <1>1 DEF Reserve, SetState
<1>2. ASSUME NEW r \in Reservations, Commit(r) PROVE KeepsLocal
  BY <1>2 DEF Commit, SetState, Ended
<1>3. ASSUME NEW r \in Reservations, DeleteTask(r) PROVE KeepsLocal
  BY <1>3 DEF DeleteTask, ScheduleDelete, SetState
<1>4. ASSUME NEW r \in Reservations, CommitMapped(r) PROVE KeepsLocal
  <2>1. jobOwner[request[r].job] = r
    BY <1>4 DEF CommitMapped
  <2>2. \A p \in taskMapping : jobOwner[p[2]] = Local => p[1] # r /\ p[2] # request[r].job
    BY <2>1 DEF MappingIsFaithful
  <2> QED BY <1>4, <2>2 DEF CommitMapped, MapInsert
<1>5. ASSUME NEW r \in Reservations, CommitDone(r) PROVE KeepsLocal
  BY <1>5 DEF CommitDone, SetState, Ended
<1>6. ASSUME NEW r \in Reservations, CommitRefused(r) PROVE KeepsLocal
  BY <1>6 DEF CommitRefused, SetState, Ended
<1>7. ASSUME NEW r \in Reservations, CommitTimeout(r) PROVE KeepsLocal
  BY <1>7 DEF CommitTimeout, SetState, AfterTimeout
<1>8. ASSUME NEW r \in Reservations, DeleteUnmap(r) PROVE KeepsLocal
  BY <1>8 DEF DeleteUnmap, Unmapped
<1>9. ASSUME NEW r \in Reservations, DeleteRelease(r) PROVE KeepsLocal
  BY <1>9 DEF DeleteRelease, ScheduleDelete, SetState
<1>10. ASSUME NEW r \in Reservations, DeleteCheck(r) PROVE KeepsLocal
  BY <1>10 DEF DeleteCheck, SetState, Idle
<1>11. ASSUME NEW r \in Reservations, DeleteFailed(r) PROVE KeepsLocal
  BY <1>11 DEF DeleteFailed, SetState, Idle
<1>12. ASSUME NEW r \in Reservations, SubmitRefused(r) PROVE KeepsLocal
  BY <1>12 DEF SubmitRefused
<1>13. ASSUME NEW r \in Reservations, DeleteServed(r) PROVE KeepsLocal
  BY <1>13 DEF DeleteServed
<1>14. ASSUME NEW r \in Reservations, NEW j \in Jobs, SubmitAccepted(r, j) PROVE KeepsLocal
  BY <1>14 DEF SubmitAccepted, Ended
<1>15. ASSUME NEW j \in Jobs, LocalSubmit(j) PROVE KeepsLocal
  BY <1>15 DEF LocalSubmit
<1>16. ASSUME NEW j \in Jobs, JobEnds(j) PROVE KeepsLocal
  BY <1>16 DEF JobEnds
<1>17. ASSUME NEW j \in Jobs, Purge(j) PROVE KeepsLocal
  BY <1>17 DEF Purge, Visible
<1>18. ASSUME NodesChange PROVE KeepsLocal
  BY <1>18 DEF NodesChange
<1>19. ASSUME NEW id \in Ids, Expire(id) PROVE KeepsLocal
  BY <1>19 DEF Expire, SetState
<1>20. ASSUME FetchTasks PROVE KeepsLocal
  BY <1>20 DEF FetchTasks
<1>21. ASSUME CollectUpdates PROVE KeepsLocal
  BY <1>21 DEF CollectUpdates, NoTasks, ActiveSlurmIds, Listed, FromSlurm, MappedJobs, Visible
<1>22. ASSUME UnmapFinished PROVE KeepsLocal
  <2>1. \A p \in sync.finish : jobOwner[p[2]] = Local => jobState[p[2]] \notin Visible
    BY DEF SyncInv, Visible
  <2> QED BY <1>22, <2>1 DEF UnmapFinished, Unmapped
<1>23. ASSUME FinishTask PROVE KeepsLocal
  BY <1>23 DEF FinishTask, SetState
<1>24. ASSUME UpdateTask PROVE KeepsLocal
  BY <1>24 DEF UpdateTask, SetState
<1>25. ASSUME NEW e \in Externals, ImportTask(e) PROVE KeepsLocal
  <2>1. PICK j \in sync.imports : taskMapping' = MapInsert(e, j)
    BY <1>25 DEF ImportTask
  <2>2. \A p \in taskMapping : jobOwner[p[2]] = Local => p[1] # e /\ p[2] # j
    <3>1. \A p \in taskMapping : p[1] # e
      BY <1>25 DEF ImportTask
    <3>2. ASSUME NEW p \in taskMapping, jobOwner[p[2]] = Local PROVE p[2] # j
      BY <3>2 DEF SyncInv
    <3> QED BY <3>1, <3>2
  <2> QED BY <2>1, <2>2 DEF MapInsert
<1>26. ASSUME ReserveTask PROVE KeepsLocal
  BY <1>26 DEF ReserveTask, SetState
<1>27. ASSUME SyncDone PROVE KeepsLocal
  BY <1>27 DEF SyncDone
<1>28. ASSUME UNCHANGED vars PROVE KeepsLocal
  BY <1>28 DEF vars
<1> QED
  BY <1>1, <1>2, <1>3, <1>4, <1>5, <1>6, <1>7, <1>8, <1>9, <1>10, <1>11, <1>12, <1>13, <1>14, <1>15, <1>16, <1>17, <1>18, <1>19, <1>20, <1>21, <1>22, <1>23, <1>24, <1>25, <1>26, <1>27, <1>28 DEF Next, CommitTask, DeletionTask, Slurm, Sync

-----------------------------------------------------------------------------
(* The theorems.                                                           *)

\* The invariant holds initially.
LEMMA InitInv == Init => IInv
<1> SUFFICES ASSUME Init PROVE IInv
  OBVIOUS
<1> USE IdsAssumption DEF Init
<1>1. TypeInv
  BY DEF TypeInv, TypeOK, SyncType, SyncPhase, JobState, Visible, StoreState, RequestPhase,
         DeletionPhase, NoTasks, Idle, Ids
<1>2. OwnerInv
  BY DEF OwnerInv, NoTasks, Idle
<1>3. MappingIsFaithful /\ UnmapInv
  BY DEF MappingIsFaithful, UnmapInv, UnmappedForGood, Idle
<1>4. CommitInv
  BY DEF CommitInv, CommittedWasAccepted, Ids
<1>5. SyncInv
  BY DEF SyncInv, NoTasks
<1> QED BY <1>1, <1>2, <1>3, <1>4, <1>5 DEF IInv

\* Every step keeps the invariant.
LEMMA NextInv == IInv /\ [Next]_vars => IInv'
<1> SUFFICES ASSUME IInv, [Next]_vars PROVE IInv'
  OBVIOUS
<1> USE DEF IInv
<1>1. TypeInv' BY TypeStep
<1>2. OwnerInv' BY OwnerStep
<1>3. MappingIsFaithful' BY MappingStep
<1>4. UnmapInv' BY UnmapStep
<1>5. CommitInv' BY CommitStep
<1>6. SyncInv' BY SyncStep
<1> QED BY <1>1, <1>2, <1>3, <1>4, <1>5, <1>6

\* The invariant of the adapter.
LEMMA AdapterInv == Spec => []IInv
  BY InitInv, NextInv, PTL DEF Spec

\* Every state of the adapter is well-typed: the tasks never store a state or
\* a phase that the code does not know.
THEOREM AdapterTyped == Spec => []TypeOK
<1>1. IInv => TypeOK BY DEF IInv, TypeInv
<1> QED BY <1>1, AdapterInv, PTL

\* For any number of jobs and reservations, the mapping between them stays
\* one-to-one and maps a reservation of the VRM only to its own job, whatever
\* the commits, the deletions and the synchronisation do at the same time.
THEOREM MappingStaysFaithful == Spec => []MappingIsFaithful
<1>1. IInv => MappingIsFaithful BY DEF IInv
<1> QED BY <1>1, AdapterInv, PTL

\* No reservation is Committed unless Slurm accepted a job for it.
THEOREM CommitsAreAccepted == Spec => []CommittedWasAccepted
<1>1. IInv => CommittedWasAccepted BY DEF IInv, CommitInv
<1> QED BY <1>1, AdapterInv, PTL

\* For any number of tasks at work, no commit and no synchronisation maps a
\* reservation again while its deletion is settled.
THEOREM DeletedStaysUnmapped == Spec => []UnmappedForGood
<1>1. IInv => UnmappedForGood BY DEF IInv, UnmapInv
<1> QED BY <1>1, AdapterInv, PTL

\* A job submitted past the VRM stays mapped as long as Slurm lists it,
\* although the lists the synchronisation works on are out of date.
THEOREM LocalJobsStayMapped == Spec => LocalStaysMapped
<1>1. IInv /\ [Next]_vars => [KeepsLocal]_vars
  BY KeptStep DEF IInv
<1>2. [KeepsLocal]_vars => [\A p \in taskMapping :
          jobOwner[p[2]] = Local /\ jobState[p[2]] \in Visible => p \in taskMapping']_vars
  BY DEF KeepsLocal
<1> QED BY <1>1, <1>2, AdapterInv, PTL DEF Spec, LocalStaysMapped

=============================================================================
