--------------------------- MODULE WorkflowGraph ---------------------------
(***************************************************************************)
(* How a submitted workflow becomes the list the scheduler works off:      *)
(* Workflow::create_form_dto (workflow.rs) connects the ports of the tasks *)
(* to dependencies, merges the tasks joined by synchronous dependencies    *)
(* into co-allocations and draws the graph between the co-allocations;     *)
(* Workflow::calculate_upward_rank then walks that graph with an explicit  *)
(* stack and sorts the co-allocations by rank.                             *)
(*                                                                         *)
(* The maps of the code are hash maps: wherever it iterates over one, the  *)
(* order is a nondeterministic choice here. The tasks of a DTO are a list, *)
(* 1 .. N, and are visited in that order.                                  *)
(***************************************************************************)
EXTENDS Integers, Sequences, FiniteSets

CONSTANTS Tasks,      \* the tasks of the workflow, 1 .. N
          Ghost,      \* a task name that dependencies use and no task has
          Workflows,  \* the DTOs that may be submitted
          Speed,      \* avg_net_speed, the average speed of the links
          MaxStack    \* bound of the model on the stack of the ranking

ASSUME TasksAssumption ==
  Tasks \subseteq Nat /\ IsFiniteSet(Tasks) /\ Ghost \notin Tasks
ASSUME WorkflowsAssumption ==
  \A w \in Workflows :
     /\ w.dur \in [Tasks -> Nat]
     /\ IsFiniteSet(w.outs) /\ \A o \in w.outs : o.size \in Nat
     /\ IsFiniteSet(w.data)
     /\ \A in \in w.ins : in.task \in Tasks
ASSUME SpeedAssumption == Speed \in Nat \ {0}

VARIABLES dto,        \* the submitted workflow
          phase,      \* how far the construction or the ranking is
          dangling,   \* data_out ports no data_in has taken yet
          inputs,     \* data_in entries not yet looked up
          data,       \* Workflow.data_dependencies
          sync,       \* Workflow.sync_dependencies
          rep,        \* the disjoint sets: the root of every task
          todo,       \* sync dependencies not yet merged into rep
          gdur,       \* duration of every co-allocation
          queue,      \* the stack of calculate_upward_rank
          rank,       \* rank_upward of every co-allocation
          pathLen,    \* number_of_nodes_critical_path_upwards
          finished,   \* finished_node_keys: the processed ones, in order
          ranked      \* the list that is returned

graphVars == <<dto, dangling, inputs, data, sync, rep, todo, gdur>>
rankVars == <<queue, rank, pathLen, finished, ranked>>
vars == <<graphVars, phase, rankVars>>

-----------------------------------------------------------------------------
(* The co-allocation graph.                                                *)

Elements(s) == {s[i] : i \in DOMAIN s}
Orders(S) == {q \in [1 .. Cardinality(S) -> S] : Elements(q) = S}

Groups == {rep[t] : t \in Tasks}
Members(g) == {t \in Tasks : rep[t] = g}

\* The data dependencies that become edges between co-allocations: both ends
\* are tasks, and the tasks are in different groups.
GroupDeps == {d \in data : /\ d.src \in Tasks
                           /\ d.dst \in Tasks
                           /\ rep[d.src] # rep[d.dst]}
OutDeps(g) == {d \in GroupDeps : rep[d.src] = g}
EntryGroups == {g \in Groups : \A d \in GroupDeps : rep[d.dst] # g}

\* find_entry_exit_points, on the tasks: a task named by any dependency as its
\* target is no entry, whether the source of the dependency exists or not.
EntryNodes == {t \in Tasks : \A d \in data \cup sync : d.dst # t}
ExitNodes == {t \in Tasks : \A d \in data \cup sync : d.src # t}

\* What the reservation of a task is told to wait for.
DataInputs(t) == {d.src : d \in {e \in data : e.dst = t /\ e.src \in Tasks}}

processed == Elements(finished)
TransferTime(d) == d.size \div Speed

\* get_co_allocation_duration: the longest member.
IsDuration(f) ==
  \A g \in Groups : /\ \A t \in Members(g) : dto.dur[t] <= f[g]
                    /\ \E t \in Members(g) : dto.dur[t] = f[g]

-----------------------------------------------------------------------------
(* Building the graph.                                                     *)

\* Every data_out with a size is a file to transfer, one with a bandwidth a
\* stream; one with neither is dropped.
Init ==
  /\ dto \in Workflows
  /\ phase = "connect"
  /\ dangling = {o \in dto.outs : o.kind \in {"data", "sync"}}
  /\ inputs = dto.ins
  /\ data = {} /\ sync = {}
  /\ rep = [t \in Tasks |-> t]
  /\ todo = {}
  /\ gdur = [t \in Tasks |-> 0]
  /\ queue = <<>> /\ finished = <<>> /\ ranked = <<>>
  /\ rank = [t \in Tasks |-> 0]
  /\ pathLen = [t \in Tasks |-> 0]

\* A data_in takes the port it names out of the dangling ones: a port is used
\* up by the first task that reads it.
ConnectInput(in) ==
  /\ phase = "connect"
  /\ in \in inputs
  /\ \A other \in inputs : in.task <= other.task
  /\ inputs' = inputs \ {in}
  /\ LET matched == {o \in dangling : o.task = in.from /\ o.port = in.port}
         Dep(o) == [src |-> o.task, dst |-> in.task, size |-> o.size]
     IN  /\ dangling' = dangling \ matched
         /\ data' = data \cup {Dep(o) : o \in {m \in matched : m.kind = "data"}}
         /\ sync' = sync \cup {Dep(o) : o \in {m \in matched : m.kind = "sync"}}
  /\ UNCHANGED <<dto, phase, rep, todo, gdur, rankVars>>

\* Mutant: a dependency without a payload gets a size that marks it.
AddImplicitMarked ==
  /\ phase = "connect"
  /\ inputs = {}
  /\ LET Dep(e) == [src |-> e[1], dst |-> e[2], size |-> -1]
     IN  /\ data' = data \cup {Dep(e) : e \in dto.data}
         /\ sync' = sync \cup {Dep(e) : e \in dto.sync}
  /\ todo' = sync'
  /\ phase' = "merge"
  /\ UNCHANGED <<dto, dangling, inputs, rep, gdur, rankVars>>

\* The dependencies that name a task instead of a port carry no payload. Their
\* source is taken as it is written, whether such a task exists or not.
AddImplicit ==
  /\ phase = "connect"
  /\ inputs = {}
  /\ LET Dep(e) == [src |-> e[1], dst |-> e[2], size |-> 0]
     IN  /\ data' = data \cup {Dep(e) : e \in dto.data}
         /\ sync' = sync \cup {Dep(e) : e \in dto.sync}
  /\ todo' = sync'
  /\ phase' = "merge"
  /\ UNCHANGED <<dto, dangling, inputs, rep, gdur, rankVars>>

\* Mutant: the source of the stream changes groups alone.
MergeAlone(d) ==
  /\ phase = "merge"
  /\ d \in todo
  /\ todo' = todo \ {d}
  /\ IF {d.src, d.dst} \subseteq Tasks
       THEN rep' = [rep EXCEPT ![d.src] = rep[d.dst]]
       ELSE UNCHANGED rep
  /\ UNCHANGED <<dto, phase, dangling, inputs, data, sync, gdur, rankVars>>

\* One union of the disjoint sets; which of the two roots survives is decided
\* inside the union_find crate.
Merge(d) ==
  /\ phase = "merge"
  /\ d \in todo
  /\ todo' = todo \ {d}
  /\ IF {d.src, d.dst} \subseteq Tasks
       THEN \E root \in {rep[d.src], rep[d.dst]} :
               rep' = [t \in Tasks |-> IF rep[t] \in {rep[d.src], rep[d.dst]}
                                         THEN root ELSE rep[t]]
       ELSE UNCHANGED rep
  /\ UNCHANGED <<dto, phase, dangling, inputs, data, sync, gdur, rankVars>>

\* A stream whose source is no task has no co-allocation to be listed in, and
\* the builder panics.
Panic ==
  /\ phase = "merge"
  /\ todo = {}
  /\ \E d \in sync : d.src \notin Tasks
  /\ phase' = "panic"
  /\ UNCHANGED <<graphVars, rankVars>>

\* The groups are final; the entry groups go on the stack in any order.
BuildGroups ==
  /\ phase = "merge"
  /\ todo = {}
  /\ \A d \in sync : d.src \in Tasks
  /\ gdur' \in {f \in [Groups -> {dto.dur[t] : t \in Tasks}] : IsDuration(f)}
  /\ queue' \in Orders(EntryGroups)
  /\ phase' = "rank"
  /\ UNCHANGED <<dto, dangling, inputs, data, sync, rep, todo,
                 rank, pathLen, finished, ranked>>

-----------------------------------------------------------------------------
(* calculate_upward_rank: one action per branch of the loop body.          *)

top == queue[Len(queue)]
Unprocessed == {d \in OutDeps(top) : rep[d.dst] \notin processed}

\* Mutant: the loop continues without the pop.
PopProcessedForgotten ==
  /\ phase = "rank"
  /\ queue # <<>>
  /\ top \in processed
  /\ UNCHANGED vars

\* A group that was pushed more than once is popped when it comes up again.
PopProcessed ==
  /\ phase = "rank"
  /\ queue # <<>>
  /\ top \in processed
  /\ queue' = SubSeq(queue, 1, Len(queue) - 1)
  /\ UNCHANGED <<graphVars, phase, rank, pathLen, finished, ranked>>

\* Every successor without a rank is pushed, once per dependency, and the group
\* stays below them.
PushSuccessors ==
  /\ phase = "rank"
  /\ queue # <<>>
  /\ top \notin processed
  /\ Unprocessed # {}
  /\ Len(queue) < MaxStack
  /\ \E order \in Orders(Unprocessed) :
        queue' = queue \o [i \in DOMAIN order |-> rep[order[i].dst]]
  /\ UNCHANGED <<graphVars, phase, rank, pathLen, finished, ranked>>

\* Mutant: the transfer is forgotten.
RankOverNoTransfer(d) == gdur[rep[d.src]] + rank[rep[d.dst]]

\* The length of the path that starts at the group and goes on over d.
RankOver(d) == gdur[rep[d.src]] + TransferTime(d) + rank[rep[d.dst]]

\* Mutant: the group is finished again when it comes up a second time.
FinishTopAgain ==
  /\ phase = "rank"
  /\ queue # <<>>
  /\ Unprocessed = {}
  /\ rank' = [rank EXCEPT ![top] = gdur[top]]
  /\ pathLen' = [pathLen EXCEPT ![top] = 1]
  /\ finished' = Append(finished, top)
  /\ queue' = SubSeq(queue, 1, Len(queue) - 1)
  /\ UNCHANGED <<graphVars, phase, ranked>>

\* All successors have a rank: the group gets the longest path, and the number
\* of groups on it. A successor that does not make the path longer than the
\* group's own duration is not counted.
FinishTop ==
  /\ phase = "rank"
  /\ queue # <<>>
  /\ top \notin processed
  /\ Unprocessed = {}
  /\ LET longer == {d \in OutDeps(top) : RankOver(d) > gdur[top]}
     IN  \/ /\ longer = {}
            /\ rank' = [rank EXCEPT ![top] = gdur[top]]
            /\ pathLen' = [pathLen EXCEPT ![top] = 1]
         \/ \E d \in longer :
              /\ \A e \in longer : RankOver(e) <= RankOver(d)
              /\ rank' = [rank EXCEPT ![top] = RankOver(d)]
              /\ pathLen' = [pathLen EXCEPT ![top] = pathLen[rep[d.dst]] + 1]
  /\ finished' = Append(finished, top)
  /\ queue' = SubSeq(queue, 1, Len(queue) - 1)
  /\ UNCHANGED <<graphVars, phase, ranked>>

\* Mutant: ascending.
SortedAscending(s, t) ==
  \E from \in [DOMAIN s -> DOMAIN s] :
     /\ \A i \in DOMAIN s : t[i] = s[from[i]]
     /\ \A i, j \in DOMAIN s :
          i < j <=> \/ rank[s[from[i]]] < rank[s[from[j]]]
                    \/ rank[s[from[i]]] = rank[s[from[j]]] /\ from[i] < from[j]

\* sort_by on the rank, descending; the sort is stable. from[i] is the place in
\* s of what comes to stand at place i.
Sorted(s, t) ==
  \E from \in [DOMAIN s -> DOMAIN s] :
     /\ \A i \in DOMAIN s : t[i] = s[from[i]]
     /\ \A i, j \in DOMAIN s :
          i < j <=> \/ rank[s[from[i]]] > rank[s[from[j]]]
                    \/ rank[s[from[i]]] = rank[s[from[j]]] /\ from[i] < from[j]

SortByRank ==
  /\ phase = "rank"
  /\ queue = <<>>
  /\ ranked' \in {t \in [DOMAIN finished -> processed] : Sorted(finished, t)}
  /\ phase' = "ranked"
  /\ UNCHANGED <<graphVars, queue, rank, pathLen, finished>>

-----------------------------------------------------------------------------
Next ==
  \/ \E in \in inputs : ConnectInput(in)
  \/ AddImplicit
  \/ \E d \in todo : Merge(d)
  \/ Panic
  \/ BuildGroups
  \/ PopProcessed
  \/ PushSuccessors
  \/ FinishTop
  \/ SortByRank

Spec == Init /\ [][Next]_vars

\* The builder and the ranking run to their end in the calling thread.
FairSpec == Spec /\ WF_vars(Next)

-----------------------------------------------------------------------------
(* Properties.                                                             *)

\* The state is of the types the code declares.
TypeOK ==
  /\ dto \in Workflows
  /\ phase \in {"connect", "merge", "panic", "rank", "ranked"}
  /\ rep \in [Tasks -> Tasks]
  /\ \A d \in data \cup sync : d.size \in Nat
  /\ phase \in {"rank", "ranked"} => gdur \in [Groups -> Nat]
  /\ queue \in Seq(Tasks) /\ finished \in Seq(Tasks)
  /\ rank \in [Tasks -> Nat]
  /\ ranked \in Seq(Tasks)

\* Whatever the order of the unions, two tasks are in one co-allocation exactly
\* when streams join them, directly or over other tasks: every set of tasks that
\* no stream enters or leaves has both or neither (build_co_allocations).
Closed(C, deps) ==
  \A d \in deps : {d.src, d.dst} \subseteq Tasks => (d.src \in C <=> d.dst \in C)
Joined(s, t, deps) == \A C \in SUBSET Tasks : s \in C /\ Closed(C, deps) => t \in C
CoAllocationsAreComponents ==
  phase = "rank" /\ finished = <<>> =>
     \A s, t \in Tasks : rep[s] = rep[t] <=> Joined(s, t, sync)

\* The rank of a group is the length of the longest path from it, by the
\* definition in co_allocation.rs:39, however often and in which order the
\* stack visits the groups.
LongestPath ==
  LET R[g \in processed] ==
        LET over == {gdur[g] + TransferTime(d) + R[rep[d.dst]] : d \in OutDeps(g)}
        IN  CHOOSE m \in over \cup {gdur[g]} :
               \A n \in over \cup {gdur[g]} : n <= m
  IN  R
RankIsLongestPath ==
  phase = "ranked" => \A g \in processed : rank[g] = LongestPath[g]

\* As long as every task takes some time, a group stands before everything that
\* waits for its data in the list the scheduler books from: HEFT reads the
\* assigned end of the predecessors when it comes to a group.
PositiveDurations == \A t \in Tasks : dto.dur[t] > 0
RankedBeforeSuccessors ==
  phase = "ranked" /\ PositiveDurations =>
     \A i, j \in DOMAIN ranked :
        (\E d \in GroupDeps : rep[d.src] = ranked[i] /\ rep[d.dst] = ranked[j])
           => i < j

\* A processed group is finished with: all its successors have their rank, its
\* own is longer than each of theirs by its duration and the transfer.
RankDominates ==
  phase \in {"rank", "ranked"} =>
     \A d \in GroupDeps : rep[d.src] \in processed =>
        /\ rep[d.dst] \in processed
        /\ rank[rep[d.src]] >= RankOver(d)

\* Without a cycle among the co-allocations the list holds every one of them,
\* once (workflow.rs:714, "the representative node for every CoAllocation in
\* the workflow").  Streams can close a cycle where the tasks have none: one
\* that hangs off an entry is never ranked, since its groups push each other
\* for ever (workflow.rs:736).  A group reaches what is in every set of groups
\* that holds its successors and their successors.
Successors(g) == {rep[d.dst] : d \in OutDeps(g)}
Reaches(g, h) ==
  \A C \in SUBSET Groups :
     Successors(g) \subseteq C /\ (\A c \in C : Successors(c) \subseteq C) => h \in C
GroupsAcyclic == \A g \in Groups : ~Reaches(g, g)
EveryGroupRanked ==
  phase = "ranked" =>
     /\ ~\E e \in EntryGroups, g \in Groups : Reaches(e, g) /\ Reaches(g, g)
     /\ GroupsAcyclic => Elements(ranked) = Groups /\ Len(ranked) = Cardinality(Groups)

\* And without a cycle the ranking comes to its end, after any number of
\* repeated pushes.
RankTerminates ==
  (phase = "rank" /\ GroupsAcyclic) ~> (phase = "ranked")
=============================================================================
