------------------------ MODULE WorkflowGraph_proofs ------------------------
(***************************************************************************)
(* What grouping and ranking guarantee to the scheduler, for every         *)
(* workflow, every average speed and every order of the unions and of the  *)
(* stack.  That a ranked co-allocation outranks what waits for it needs    *)
(* only that a group is finished after its successors (IInv). That the     *)
(* ranks are those of the longest paths and that nobody is left out also   *)
(* needs that each group is finished once and that every entry is finished *)
(* or waits on the stack (WalkInv).                                        *)
(***************************************************************************)
EXTENDS WorkflowGraph, SumTheorems, TLAPS

Sizes == \A d \in data \cup sync : d.size \in Nat
Finite == IsFiniteSet(data)
Queued == queue \in Seq(Groups)

Typed ==
  /\ dto \in Workflows
  /\ phase \in {"connect", "merge", "panic", "rank", "ranked"}
  /\ dangling \subseteq dto.outs
  /\ Sizes /\ Finite
  /\ rep \in [Tasks -> Tasks]
  /\ phase \in {"connect", "merge", "panic"} => queue = <<>> /\ finished = <<>>
  /\ phase \in {"rank", "ranked"} => gdur \in [Groups -> Nat] /\ IsDuration(gdur)
  /\ Queued
  /\ finished \in Seq(Groups)
  /\ rank \in [Tasks -> Nat]
  /\ ranked \in Seq(Tasks)

\* The list stands in the order of the ranks.
ListSorted ==
  phase = "ranked" =>
     /\ \A i \in DOMAIN ranked : ranked[i] \in processed
     /\ \A i, j \in DOMAIN ranked : rank[ranked[i]] > rank[ranked[j]] => i < j

LEMMA ElementsAppend ==
  ASSUME NEW S, NEW s \in Seq(S), NEW x \in S
  PROVE  Elements(Append(s, x)) = Elements(s) \cup {x}
<1>1. /\ DOMAIN Append(s, x) = DOMAIN s \cup {Len(s) + 1}
      /\ \A i \in DOMAIN s : Append(s, x)[i] = s[i]
      /\ Append(s, x)[Len(s) + 1] = x
  OBVIOUS
<1> QED  BY <1>1, Zenon DEF Elements

LEMMA ElementsEmpty == Elements(<<>>) = {}
BY DEF Elements

\* A popped stack is a stack.
LEMMA Popped ==
  ASSUME NEW S, NEW q \in Seq(S), q # <<>>
  PROVE  /\ q[Len(q)] \in S
         /\ SubSeq(q, 1, Len(q) - 1) \in Seq(S)
OBVIOUS

LEMMA GroupsAreTasks ==
  ASSUME rep \in [Tasks -> Tasks]
  PROVE  Groups \subseteq Tasks
BY DEF Groups

LEMMA TransferIsNat ==
  ASSUME NEW d, d.size \in Nat
  PROVE  TransferTime(d) \in Nat
BY SpeedAssumption DEF TransferTime

LEMMA InitTyped == Init => Typed /\ ListSorted
<1> SUFFICES ASSUME Init PROVE Typed /\ ListSorted
  OBVIOUS
<1>1. rank \in [Tasks -> Nat] /\ rep \in [Tasks -> Tasks]
  BY DEF Init
<1>3. IsFiniteSet(data)
  BY FS_EmptySet DEF Init
<1>2. dangling \subseteq dto.outs
  BY DEF Init
<1> QED  BY <1>1, <1>2, <1>3 DEF Init, Typed, Sizes, Finite, Queued, ListSorted

LEMMA ConnectInputTyped ==
  ASSUME Typed, NEW in \in inputs, ConnectInput(in)
  PROVE  Typed'
<1> DEFINE matched == {o \in dangling : o.task = in.from /\ o.port = in.port}
           Dep(o) == [src |-> o.task, dst |-> in.task, size |-> o.size]
<1>1. \A o \in matched : Dep(o).size \in Nat
  BY WorkflowsAssumption DEF Typed
<1>2. /\ data' = data \cup {Dep(o) : o \in {m \in matched : m.kind = "data"}}
      /\ sync' = sync \cup {Dep(o) : o \in {m \in matched : m.kind = "sync"}}
      /\ dangling' = dangling \ matched
  BY DEF ConnectInput
<1> HIDE DEF matched, Dep
<1>3. Sizes'
  BY <1>1, <1>2 DEF Typed, Sizes
<1>4. dangling' \subseteq dto'.outs
  BY <1>2 DEF Typed, ConnectInput
<1>5. Finite'
  <2>1. IsFiniteSet(matched)
    BY WorkflowsAssumption, FS_Subset DEF Typed, matched
  <2>2. IsFiniteSet({m \in matched : m.kind = "data"})
    BY <2>1, FS_Subset
  <2> DEFINE files == {m \in matched : m.kind = "data"}
             f == [o \in files |-> Dep(o)]
  <2>4. f \in Surjection(files, {Dep(o) : o \in files})
    BY DEF Surjection
  <2>3. IsFiniteSet({Dep(o) : o \in files})
    BY <2>2, <2>4, FS_Surjection
  <2> QED  BY <1>2, <2>3, FS_Union DEF Typed, Finite
<1> QED  BY <1>3, <1>4, <1>5 DEF Typed, ConnectInput, rankVars, Queued, Groups, IsDuration

LEMMA AddImplicitTyped ==
  ASSUME Typed, AddImplicit
  PROVE  Typed'
<1>1. Sizes'
  BY DEF Typed, Sizes, AddImplicit
<1>2. Finite'
  <2> DEFINE Dep(e) == [src |-> e[1], dst |-> e[2], size |-> 0]
  <2>1. IsFiniteSet({Dep(e) : e \in dto.data})
    <3>1. IsFiniteSet(dto.data)
      BY WorkflowsAssumption DEF Typed
    <3> DEFINE f == [e \in dto.data |-> Dep(e)]
    <3>2. f \in Surjection(dto.data, {Dep(e) : e \in dto.data})
      BY DEF Surjection
    <3> QED  BY <3>1, <3>2, FS_Surjection
  <2> QED  BY <2>1, FS_Union DEF Typed, Finite, AddImplicit
<1> QED  BY <1>1, <1>2 DEF Typed, AddImplicit, rankVars, Queued, Groups

LEMMA MergeTyped ==
  ASSUME Typed, NEW d \in todo, Merge(d)
  PROVE  Typed'
<1>1. rep' \in [Tasks -> Tasks]
  <2>1. CASE {d.src, d.dst} \subseteq Tasks
    <3>1. PICK root \in {rep[d.src], rep[d.dst]} :
             rep' = [t \in Tasks |-> IF rep[t] \in {rep[d.src], rep[d.dst]}
                                       THEN root ELSE rep[t]]
      BY <2>1 DEF Merge
    <3> QED  BY <2>1, <3>1 DEF Typed
  <2> QED  BY <2>1 DEF Typed, Merge
<1>2. queue' = <<>> /\ finished' = <<>> /\ phase' = "merge"
  BY DEF Typed, Merge, rankVars
<1> QED  BY <1>1, <1>2 DEF Typed, Merge, rankVars, Queued, Sizes, Finite

LEMMA BuildGroupsTyped ==
  ASSUME Typed, BuildGroups
  PROVE  Typed'
<1>1. gdur' \in [Groups -> Nat] /\ IsDuration(gdur)' /\ UNCHANGED rep
  <2>1. dto.dur \in [Tasks -> Nat]
    BY WorkflowsAssumption DEF Typed
  <2>2. /\ gdur' \in [Groups -> {dto.dur[t] : t \in Tasks}]
        /\ IsDuration(gdur')
        /\ UNCHANGED <<rep, dto>>
    BY DEF BuildGroups
  <2> QED  BY <2>1, <2>2 DEF IsDuration, Groups, Members
<1>2. queue' \in Seq(Groups)
  <2>1. EntryGroups \subseteq Groups
    BY DEF EntryGroups
  <2>2. queue' \in [1 .. Cardinality(EntryGroups) -> EntryGroups]
    BY DEF BuildGroups, Orders
  <2>3. Cardinality(EntryGroups) \in Nat
    BY <2>1, GroupsAreTasks, TasksAssumption, FS_Subset, FS_CardinalityType
       DEF Typed
  <2> QED  BY <2>1, <2>2, <2>3
<1> QED  BY <1>1, <1>2 DEF Typed, BuildGroups, Queued, Sizes, Finite, Groups

LEMMA PanicTyped ==
  ASSUME Typed, Panic
  PROVE  Typed'
<1>1. queue = <<>> /\ finished = <<>>
  BY DEF Typed, Panic
<1> QED  BY <1>1 DEF Typed, Panic, graphVars, rankVars, Sizes, Finite, Queued,
                     Groups, IsDuration

LEMMA PopProcessedTyped ==
  ASSUME Typed, PopProcessed
  PROVE  Typed'
<1>1. SubSeq(queue, 1, Len(queue) - 1) \in Seq(Groups)
  BY Popped DEF Typed, Queued, PopProcessed
<1>2. UNCHANGED <<rep, data, sync, gdur, dto>>
  BY DEF PopProcessed, graphVars
<1> QED  BY <1>1, <1>2 DEF Typed, PopProcessed, graphVars, Sizes, Finite, Queued,
                           Groups, Members, IsDuration

\* What is pushed are groups.
LEMMA PushSuccessorsGroups ==
  ASSUME Typed, PushSuccessors
  PROVE  \E pushed \in Seq(Groups) : queue' = queue \o pushed
<1>1. PICK order \in Orders(Unprocessed) :
         queue' = queue \o [i \in DOMAIN order |-> rep[order[i].dst]]
  BY DEF PushSuccessors
<1>2. Cardinality(Unprocessed) \in Nat
  <2>1. Unprocessed \subseteq data
    BY DEF Unprocessed, OutDeps, GroupDeps
  <2> QED  BY <2>1, FS_Subset, FS_CardinalityType DEF Typed, Finite
<1>3. order \in Seq(Unprocessed)
  BY <1>2 DEF Orders
<1>4. \A d \in Unprocessed : rep[d.dst] \in Groups
  BY DEF Unprocessed, OutDeps, GroupDeps, Groups
<1>5. [i \in DOMAIN order |-> rep[order[i].dst]] \in Seq(Groups)
  BY <1>3, <1>4
<1> QED  BY <1>1, <1>5

LEMMA PushSuccessorsTyped ==
  ASSUME Typed, PushSuccessors
  PROVE  Typed'
<1>1. queue' \in Seq(Groups)
  <2>1. PICK pushed \in Seq(Groups) : queue' = queue \o pushed
    BY PushSuccessorsGroups
  <2> QED  BY <2>1 DEF Typed, Queued
<1>2. UNCHANGED <<rep, data, sync, gdur, dto>>
  BY DEF PushSuccessors, graphVars
<1> QED  BY <1>1, <1>2 DEF Typed, PushSuccessors, graphVars, Sizes, Finite, Queued,
                           Groups, Members, IsDuration

LEMMA FinishTopTyped ==
  ASSUME Typed, FinishTop
  PROVE  /\ Typed'
         /\ top \in Groups
         /\ \A t \in Tasks \ {top} : rank'[t] = rank[t]
         /\ rank'[top] >= gdur[top]
         /\ \A d \in OutDeps(top) : rank'[top] >= RankOver(d)
         /\ Elements(finished') = processed \cup {top}
<1>1. top \in Groups /\ SubSeq(queue, 1, Len(queue) - 1) \in Seq(Groups)
  BY Popped DEF Typed, Queued, FinishTop, top
<1> DEFINE longer == {d \in OutDeps(top) : RankOver(d) > gdur[top]}
<1>2. top \in Tasks /\ gdur[top] \in Nat
  BY <1>1, GroupsAreTasks DEF Typed, FinishTop
<1>3. \A d \in OutDeps(top) : RankOver(d) \in Nat
  <2> SUFFICES ASSUME NEW d \in OutDeps(top) PROVE RankOver(d) \in Nat
    OBVIOUS
  <2>1. rep[d.src] = top /\ d \in data /\ d.dst \in Tasks
    BY DEF OutDeps, GroupDeps
  <2>2. TransferTime(d) \in Nat
    BY <2>1, TransferIsNat DEF Typed, Sizes
  <2>3. rank[rep[d.dst]] \in Nat
    BY <2>1 DEF Typed
  <2> QED  BY <1>2, <2>1, <2>2, <2>3 DEF RankOver
<1>4. PICK r \in Nat : /\ rank' = [rank EXCEPT ![top] = r]
                       /\ r >= gdur[top]
                       /\ \A d \in OutDeps(top) : r >= RankOver(d)
  <2>1. ASSUME longer = {}, rank' = [rank EXCEPT ![top] = gdur[top]]
        PROVE  \E r \in Nat : /\ rank' = [rank EXCEPT ![top] = r]
                              /\ r >= gdur[top]
                              /\ \A d \in OutDeps(top) : r >= RankOver(d)
    <3>1. \A d \in OutDeps(top) : gdur[top] >= RankOver(d)
      BY <1>2, <1>3, <2>1
    <3>2. gdur[top] >= gdur[top]
      BY <1>2
    <3> QED  BY <1>2, <2>1, <3>1, <3>2, Zenon
  <2>2. ASSUME NEW d \in longer,
               \A e \in longer : RankOver(e) <= RankOver(d),
               rank' = [rank EXCEPT ![top] = RankOver(d)]
        PROVE  \E r \in Nat : /\ rank' = [rank EXCEPT ![top] = r]
                              /\ r >= gdur[top]
                              /\ \A e \in OutDeps(top) : r >= RankOver(e)
    <3>1. RankOver(d) \in Nat /\ RankOver(d) >= gdur[top]
      BY <1>2, <1>3
    <3>2. \A e \in OutDeps(top) : RankOver(d) >= RankOver(e)
      BY <1>2, <1>3, <2>2, <3>1
    <3> QED  BY <2>2, <3>1, <3>2
  <2> QED  BY <2>1, <2>2 DEF FinishTop
<1>5. rank' \in [Tasks -> Nat]
  BY <1>2, <1>4 DEF Typed
<1>6. finished' = Append(finished, top) /\ finished' \in Seq(Groups)
  BY <1>1 DEF Typed, FinishTop
<1>7. /\ UNCHANGED <<rep, data, sync, gdur, dto, dangling, phase, ranked>>
      /\ phase = "rank"
      /\ queue' \in Seq(Groups)
  BY <1>1 DEF FinishTop, graphVars
<1>8. Typed'
  BY <1>5, <1>6, <1>7 DEF Typed, Sizes, Finite, Queued, Groups, Members, IsDuration
<1>9. Elements(finished') = processed \cup {top}
  BY <1>1, <1>6, ElementsAppend DEF Typed, processed
<1>10. \A t \in Tasks \ {top} : rank'[t] = rank[t]
  BY <1>4 DEF Typed
<1>11. rank'[top] >= gdur[top]
  BY <1>2, <1>4 DEF Typed
<1>12. \A d \in OutDeps(top) : rank'[top] >= RankOver(d)
  BY <1>2, <1>4 DEF Typed
<1> QED  BY <1>1, <1>8, <1>9, <1>10, <1>11, <1>12

LEMMA SortByRankTyped ==
  ASSUME Typed, SortByRank
  PROVE  Typed' /\ ListSorted'
<1>1. ranked' \in [DOMAIN finished -> processed] /\ Sorted(finished, ranked')
  BY DEF SortByRank
<1>2. processed \subseteq Tasks
  BY GroupsAreTasks DEF Typed, processed, Elements
<1>3. ranked' \in Seq(Tasks)
  BY <1>1, <1>2 DEF Typed
<1>4. UNCHANGED <<rep, data, sync, gdur, dto, dangling, queue, rank, finished>>
  BY DEF SortByRank, graphVars
<1>5. \A i, j \in DOMAIN ranked' : rank[ranked'[i]] > rank[ranked'[j]] => i < j
  BY <1>1 DEF Sorted
<1>6. Typed'
  BY <1>3, <1>4 DEF Typed, SortByRank, Sizes, Finite, Queued, Groups, Members,
                    IsDuration
<1>7. ListSorted'
  BY <1>1, <1>4, <1>5 DEF ListSorted, processed, Elements
<1> QED  BY <1>6, <1>7

\* What RankDominates says of one dependency.
Dominated(d) ==
  rep[d.src] \in processed =>
     /\ rep[d.dst] \in processed
     /\ rank[rep[d.src]] >= RankOver(d)

LEMMA FinishTopDominates ==
  ASSUME Typed, RankDominates, FinishTop
  PROVE  RankDominates'
<1>1. /\ top \in Groups
      /\ \A t \in Tasks \ {top} : rank'[t] = rank[t]
      /\ \A d \in OutDeps(top) : rank'[top] >= RankOver(d)
      /\ Elements(finished') = processed \cup {top}
  BY FinishTopTyped
<1>2. /\ UNCHANGED <<rep, data, gdur, dto>> /\ phase = "rank"
      /\ top \notin processed /\ Unprocessed = {}
  BY DEF FinishTop, graphVars
<1>3. GroupDeps' = GroupDeps /\ processed' = processed \cup {top}
  BY <1>1, <1>2 DEF GroupDeps, processed
<1> SUFFICES ASSUME NEW d \in GroupDeps, rep[d.src] \in processed \cup {top}
             PROVE  /\ rep[d.dst] \in processed \cup {top}
                    /\ rank'[rep[d.src]] >= RankOver(d)'
  BY <1>2, <1>3 DEF RankDominates
<1>4. rep[d.src] \in Tasks /\ rep[d.dst] \in Tasks
  BY DEF GroupDeps, Typed
<1>5. rep[d.dst] \in processed
  <2>1. CASE rep[d.src] = top
    BY <1>2, <2>1 DEF Unprocessed, OutDeps
  <2>2. CASE rep[d.src] \in processed
    BY <1>2, <2>2 DEF RankDominates
  <2> QED  BY <2>1, <2>2
<1>6. RankOver(d)' = RankOver(d)
  BY <1>1, <1>2, <1>4, <1>5 DEF RankOver, TransferTime
<1>7. rank'[rep[d.src]] >= RankOver(d)
  <2>1. CASE rep[d.src] = top
    BY <1>1, <2>1 DEF OutDeps
  <2>2. CASE rep[d.src] # top
    <3>1. rep[d.src] \in processed
      BY <2>2
    <3> QED  BY <1>1, <1>2, <1>4, <2>2, <3>1 DEF RankDominates
  <2> QED  BY <2>1, <2>2
<1> QED  BY <1>5, <1>6, <1>7

IInv == Typed /\ RankDominates /\ ListSorted

LEMMA InitIInv == Init => IInv
<1>1. Init => RankDominates
  BY DEF Init, RankDominates
<1> QED  BY <1>1, InitTyped DEF IInv

LEMMA StepIInv == IInv /\ [Next]_vars => IInv'
<1> SUFFICES ASSUME IInv, [Next]_vars PROVE IInv'
  OBVIOUS
<1> USE DEF IInv
<1>0. ASSUME phase' \in {"connect", "merge", "panic"}
      PROVE  RankDominates' /\ ListSorted'
  BY <1>0 DEF RankDominates, ListSorted
<1>a. ASSUME UNCHANGED <<graphVars, phase, rank, finished, ranked>>
      PROVE  RankDominates' /\ ListSorted'
  BY <1>a DEF graphVars, RankDominates, ListSorted, GroupDeps, RankOver,
              TransferTime, processed
<1>1. ASSUME NEW in \in inputs, ConnectInput(in) PROVE IInv'
  BY <1>0, <1>1, ConnectInputTyped DEF ConnectInput
<1>2. CASE AddImplicit
  BY <1>0, <1>2, AddImplicitTyped DEF AddImplicit
<1>3. ASSUME NEW d \in todo, Merge(d) PROVE IInv'
  BY <1>0, <1>3, MergeTyped DEF Merge
<1>4. CASE Panic
  BY <1>0, <1>4, PanicTyped DEF Panic
<1>5. CASE BuildGroups
  <2>1. finished' = <<>> /\ phase' = "rank"
    BY <1>5 DEF BuildGroups, Typed
  <2>2. processed' = {}
    BY <2>1, ElementsEmpty DEF processed
  <2>3. RankDominates' /\ ListSorted'
    BY <2>1, <2>2 DEF RankDominates, ListSorted
  <2> QED  BY <1>5, <2>3, BuildGroupsTyped
<1>6. CASE PopProcessed
  BY <1>a, <1>6, PopProcessedTyped DEF PopProcessed
<1>7. CASE PushSuccessors
  BY <1>a, <1>7, PushSuccessorsTyped DEF PushSuccessors
<1>8. CASE FinishTop
  <2>1. phase' = "rank"
    BY <1>8 DEF FinishTop
  <2> QED  BY <1>8, <2>1, FinishTopTyped, FinishTopDominates DEF ListSorted
<1>9. CASE SortByRank
  <2>1. UNCHANGED <<graphVars, rank, finished>> /\ phase = "rank"
    BY <1>9 DEF SortByRank
  <2>2. RankDominates'
    BY <2>1 DEF graphVars, RankDominates, GroupDeps, RankOver, TransferTime, processed
  <2> QED  BY <1>9, <2>2, SortByRankTyped
<1>10. CASE UNCHANGED vars
  <2>1. UNCHANGED <<graphVars, phase, rank, finished, ranked, queue>>
    BY <1>10 DEF vars, rankVars
  <2>2. UNCHANGED <<dto, dangling, data, sync, rep, gdur>>
    BY <2>1 DEF graphVars
  <2>3. /\ Groups' = Groups /\ (\A g : Members(g)' = Members(g))
        /\ Sizes' = Sizes /\ Finite' = Finite
    BY <2>2 DEF Groups, Members, Sizes, Finite
  <2>4. IsDuration(gdur)' = IsDuration(gdur)
    BY <2>2, <2>3 DEF IsDuration
  <2>5. Typed'
    BY <2>1, <2>2, <2>3, <2>4 DEF Typed, Queued
  <2> QED  BY <1>a, <2>1, <2>5
<1> QED  BY <1>1, <1>2, <1>3, <1>4, <1>5, <1>6, <1>7, <1>8, <1>9, <1>10 DEF Next

\* The graph and the ranking stay of their types, for every set of workflows.
THEOREM TypeCorrect == Spec => []TypeOK
<1>1. ASSUME IInv PROVE TypeOK
  <2>1. Groups \subseteq Tasks
    BY <1>1, GroupsAreTasks DEF IInv, Typed
  <2>2. queue \in Seq(Tasks) /\ finished \in Seq(Tasks)
    BY <1>1, <2>1 DEF IInv, Typed, Queued
  <2> QED  BY <1>1, <2>2 DEF IInv, Typed, Sizes, TypeOK
<1> QED  BY <1>1, InitIInv, StepIInv, PTL DEF Spec

\* A co-allocation with a rank has only successors with a rank, and is further
\* from the end than each of them by its duration and the transfer.
THEOREM RanksDominate == Spec => []RankDominates
BY InitIInv, StepIInv, PTL DEF Spec, IInv

\* If every task takes time, the scheduler comes to a co-allocation before it
\* comes to what waits for its data.
THEOREM PredecessorsFirst == Spec => []RankedBeforeSuccessors
<1>1. IInv => RankedBeforeSuccessors
  <2> SUFFICES ASSUME IInv, phase = "ranked", PositiveDurations,
                      NEW i \in DOMAIN ranked, NEW j \in DOMAIN ranked,
                      NEW d \in GroupDeps,
                      rep[d.src] = ranked[i], rep[d.dst] = ranked[j]
               PROVE  i < j
    BY DEF RankedBeforeSuccessors
  <2>1. rank[ranked[i]] >= gdur[ranked[i]] + TransferTime(d) + rank[ranked[j]]
    BY DEF IInv, ListSorted, RankDominates, RankOver
  <2>2. TransferTime(d) \in Nat
    BY TransferIsNat DEF IInv, Typed, Sizes, GroupDeps
  <2>3. ranked[i] \in Groups /\ ranked[j] \in Tasks
    BY GroupsAreTasks DEF Groups, GroupDeps, IInv, Typed
  <2>7. \A t \in Tasks : dto.dur[t] > 0
    BY DEF PositiveDurations
  <2>4. gdur[ranked[i]] \in Nat /\ gdur[ranked[i]] > 0
    BY <2>3, <2>7 DEF IInv, Typed, IsDuration, Members
  <2>5. rank[ranked[i]] \in Nat /\ rank[ranked[j]] \in Nat
    BY <2>3, GroupsAreTasks DEF IInv, Typed
  <2>6. rank[ranked[i]] > rank[ranked[j]]
    BY <2>1, <2>2, <2>4, <2>5
  <2> QED  BY <2>6 DEF IInv, ListSorted
<1> QED  BY <1>1, InitIInv, StepIInv, PTL DEF Spec

-----------------------------------------------------------------------------
(* The co-allocations are the components of the streams.                   *)

\* Two tasks have one root exactly when the streams deps join them.
Partition(f, deps) == \A s, t \in Tasks : f[s] = f[t] <=> Joined(s, t, deps)

\* Merged so far: the groups are the components of the streams taken out of
\* todo.
Merged ==
  /\ phase = "connect" => rep = [t \in Tasks |-> t]
  /\ phase = "merge" => todo \subseteq sync
  /\ phase = "rank" => todo = {}
  /\ phase \in {"merge", "rank"} => Partition(rep, sync \ todo)

\* Without a stream every task is alone.
LEMMA JoinedByNothing ==
  ASSUME NEW s \in Tasks, NEW t \in Tasks
  PROVE  Joined(s, t, {}) <=> s = t
<1>1. Closed({s}, {})
  BY DEF Closed
<1> QED  BY <1>1 DEF Joined

\* One union makes one more stream count, whichever root survives.
LEMMA UnionJoins ==
  ASSUME NEW deps, NEW d, d.src \in Tasks, d.dst \in Tasks,
         NEW f, Partition(f, deps), NEW root \in {f[d.src], f[d.dst]}
  PROVE  Partition([t \in Tasks |-> IF f[t] \in {f[d.src], f[d.dst]} THEN root ELSE f[t]],
                   deps \cup {d})
<1> DEFINE both == {f[d.src], f[d.dst]}
           g == [t \in Tasks |-> IF f[t] \in both THEN root ELSE f[t]]
<1>0. \A s, t \in Tasks : f[s] = f[t] <=> Joined(s, t, deps)
  BY DEF Partition
<1>1. \A s, t \in Tasks : g[s] = g[t] <=> f[s] = f[t] \/ {f[s], f[t]} \subseteq both
  OBVIOUS
<1> HIDE DEF g
<1>2. ASSUME NEW s \in Tasks, NEW t \in Tasks, g[s] = g[t]
      PROVE  Joined(s, t, deps \cup {d})
  <2> SUFFICES ASSUME NEW C \in SUBSET Tasks, s \in C, Closed(C, deps \cup {d})
               PROVE  t \in C
    BY DEF Joined
  <2>1. Closed(C, deps) /\ (d.src \in C <=> d.dst \in C)
    BY DEF Closed
  <2>2. \A u, v \in Tasks : f[u] = f[v] /\ u \in C => v \in C
    BY <1>0, <2>1 DEF Joined
  <2>3. CASE f[s] = f[t]
    BY <2>2, <2>3
  <2>4. CASE {f[s], f[t]} \subseteq both
    BY <2>1, <2>2, <2>4
  <2> QED  BY <1>1, <1>2, <2>3, <2>4
<1>3. ASSUME NEW s \in Tasks, NEW t \in Tasks, Joined(s, t, deps \cup {d})
      PROVE  g[s] = g[t]
  <2> DEFINE C == {u \in Tasks : g[u] = g[s]}
  <2>1. ASSUME NEW e \in deps \cup {d}, {e.src, e.dst} \subseteq Tasks
        PROVE  g[e.src] = g[e.dst]
    <3>1. CASE e \in deps
      <4>1. Joined(e.src, e.dst, deps)
        BY <2>1, <3>1 DEF Joined, Closed
      <4> QED  BY <1>0, <1>1, <2>1, <4>1
    <3>2. CASE e = d
      BY <1>1, <2>1, <3>2
    <3> QED  BY <2>1, <3>1, <3>2
  <2>2. Closed(C, deps \cup {d})
    BY <2>1 DEF Closed
  <2>3. C \in SUBSET Tasks /\ s \in C
    OBVIOUS
  <2>4. t \in C
    BY <1>3, <2>2, <2>3 DEF Joined
  <2> QED  BY <2>4
<1> QED  BY <1>2, <1>3 DEF g, Partition

\* A stream that names a task that does not exist joins nothing.
LEMMA GhostJoinsNothing ==
  ASSUME NEW deps, NEW d, ~ {d.src, d.dst} \subseteq Tasks,
         NEW f, Partition(f, deps)
  PROVE  Partition(f, deps \cup {d})
<1>1. \A C : Closed(C, deps \cup {d}) <=> Closed(C, deps)
  BY DEF Closed
<1>2. ASSUME NEW s \in Tasks, NEW t \in Tasks
      PROVE  Joined(s, t, deps \cup {d}) <=> Joined(s, t, deps)
  BY <1>1, Zenon DEF Joined
<1> QED  BY <1>2 DEF Partition

LEMMA MergedStep ==
  ASSUME Typed, Merged, [Next]_vars
  PROVE  Merged'
<1>a. ASSUME UNCHANGED <<phase, rep, sync, todo>> PROVE Merged'
  BY <1>a DEF Merged, Partition, Joined, Closed
<1>1. ASSUME NEW in \in inputs, ConnectInput(in) PROVE Merged'
  BY <1>1 DEF Merged, ConnectInput
<1>2. CASE AddImplicit
  <2>1. /\ phase' = "merge" /\ todo' = sync' /\ rep' = [t \in Tasks |-> t]
    BY <1>2 DEF AddImplicit, Merged
  <2>2. sync' \ todo' = {}
    BY <2>1
  <2>3. Partition(rep', {})
    BY <2>1, JoinedByNothing DEF Partition
  <2> QED  BY <2>1, <2>2, <2>3 DEF Merged
<1>3. ASSUME NEW d \in todo, Merge(d) PROVE Merged'
  <2>1. /\ phase = "merge" /\ phase' = "merge" /\ sync' = sync
        /\ todo' = todo \ {d} /\ todo \subseteq sync
        /\ Partition(rep, sync \ todo)
    BY <1>3 DEF Merge, Merged
  <2>2. sync' \ todo' = (sync \ todo) \cup {d}
    BY <2>1, d \in todo
  <2>3. Partition(rep', (sync \ todo) \cup {d})
    <3>1. CASE {d.src, d.dst} \subseteq Tasks
      <4>1. PICK root \in {rep[d.src], rep[d.dst]} :
               rep' = [t \in Tasks |-> IF rep[t] \in {rep[d.src], rep[d.dst]}
                                         THEN root ELSE rep[t]]
        BY <1>3, <3>1 DEF Merge
      <4>2. d.src \in Tasks /\ d.dst \in Tasks
        BY <3>1
      <4>3. Partition([t \in Tasks |-> IF rep[t] \in {rep[d.src], rep[d.dst]}
                                         THEN root ELSE rep[t]], (sync \ todo) \cup {d})
        BY <2>1, <4>2, UnionJoins
      <4> QED  BY <4>1, <4>3
    <3>2. CASE ~ {d.src, d.dst} \subseteq Tasks
      <4>1. rep' = rep
        BY <1>3, <3>2 DEF Merge
      <4> QED  BY <2>1, <3>2, <4>1, GhostJoinsNothing
    <3> QED  BY <3>1, <3>2
  <2>4. Partition(rep', sync' \ todo')
    BY <2>2, <2>3
  <2>5. todo' \subseteq sync'
    BY <2>1
  <2> QED  BY <2>1, <2>4, <2>5 DEF Merged, Partition
<1>4. CASE Panic
  BY <1>4 DEF Panic, Merged
<1>5. CASE BuildGroups
  <2>1. phase = "merge" /\ phase' = "rank" /\ todo = {}
    BY <1>5 DEF BuildGroups
  <2>2. UNCHANGED <<sync, rep, todo>>
    BY <1>5 DEF BuildGroups
  <2> QED  BY <2>1, <2>2 DEF Merged, Partition
<1>6. CASE PopProcessed \/ PushSuccessors \/ FinishTop \/ UNCHANGED vars
  BY <1>a, <1>6 DEF PopProcessed, PushSuccessors, FinishTop, vars, graphVars
<1>7. CASE SortByRank
  BY <1>7 DEF SortByRank, Merged
<1> QED  BY <1>1, <1>2, <1>3, <1>4, <1>5, <1>6, <1>7 DEF Next

\* The groups the scheduler books are the components of the streams, whichever
\* order the unions come in and whichever root each of them leaves.
THEOREM GroupsAreComponents == Spec => []CoAllocationsAreComponents
<1> DEFINE Inv == IInv /\ Merged
<1>1. Init => Inv
  BY InitIInv DEF Init, Merged
<1>2. Inv /\ [Next]_vars => Inv'
  BY StepIInv, MergedStep DEF IInv
<1>3. Inv => CoAllocationsAreComponents
  <2> SUFFICES ASSUME Inv, phase = "rank"
               PROVE  Partition(rep, sync)
    BY DEF CoAllocationsAreComponents, Partition
  <2>1. sync \ todo = sync
    BY DEF Merged
  <2>2. Partition(rep, sync \ todo)
    BY DEF Merged
  <2> QED  BY <2>1, <2>2
<1> QED  BY <1>1, <1>2, <1>3, PTL DEF Spec

-----------------------------------------------------------------------------
(* The walk: what the stack has done to the groups that are finished.      *)

EntriesSeen == EntryGroups \subseteq processed \cup Elements(queue)
FinishedOnce == \A i, j \in DOMAIN finished : finished[i] = finished[j] => i = j
SuccessorsEarlier ==
  \A i \in DOMAIN finished : \A h \in Successors(finished[i]) :
     \E j \in DOMAIN finished : j < i /\ finished[j] = h

\* r is the rank of g as RankOver finds it: the duration of g or the length of
\* a path over one of its dependencies.
Attained(g, r) == r = gdur[g] \/ \E d \in OutDeps(g) : r = RankOver(d)
RankAttained == \A g \in processed : rank[g] >= gdur[g] /\ Attained(g, rank[g])

Walk ==
  phase \in {"rank", "ranked"} =>
     EntriesSeen /\ FinishedOnce /\ SuccessorsEarlier /\ RankAttained

\* The list is the finished groups in another order.
ListComplete ==
  phase = "ranked" =>
     /\ queue = <<>>
     /\ Elements(ranked) = processed
     /\ \A i, j \in DOMAIN ranked : ranked[i] = ranked[j] => i = j

LEMMA ElementsConcat ==
  ASSUME NEW S, NEW q \in Seq(S), NEW r \in Seq(S)
  PROVE  Elements(q) \subseteq Elements(q \o r)
<1>1. \A i \in DOMAIN q : i \in DOMAIN (q \o r) /\ (q \o r)[i] = q[i]
  OBVIOUS
<1> QED  BY <1>1, Zenon DEF Elements

LEMMA ElementsPopped ==
  ASSUME NEW S, NEW q \in Seq(S), q # <<>>
  PROVE  Elements(q) \subseteq Elements(SubSeq(q, 1, Len(q) - 1)) \cup {q[Len(q)]}
<1> DEFINE n == Len(q) - 1
           rest == SubSeq(q, 1, n)
<1>1. n \in 0 .. Len(q) /\ DOMAIN q = 1 .. n + 1 /\ n + 1 = Len(q)
  OBVIOUS
<1> HIDE DEF n
<1>2. rest \in Seq(S) /\ Len(rest) = n /\ \A i \in 1 .. n : rest[i] = q[i]
  BY <1>1
<1> HIDE DEF rest
<1>3. \A i \in DOMAIN q : (i \in DOMAIN rest /\ rest[i] = q[i]) \/ i = Len(q)
  BY <1>1, <1>2
<1>4. Elements(q) \subseteq Elements(rest) \cup {q[Len(q)]}
  BY <1>3, Zenon DEF Elements
<1> QED  BY <1>4 DEF rest, n

\* While the graph, the stack's order and the ranks stay, so does the walk.
LEMMA WalkKept ==
  ASSUME Walk, UNCHANGED <<graphVars, rank, finished>>, phase \in {"rank", "ranked"},
         Elements(queue) \subseteq Elements(queue') \cup processed
  PROVE  Walk'
<1>1. UNCHANGED <<data, rep, gdur>>
  BY DEF graphVars
<1>2. EntryGroups' = EntryGroups /\ processed' = processed
  BY <1>1 DEF EntryGroups, Groups, GroupDeps, processed
<1>3. EntriesSeen'
  BY <1>2 DEF Walk, EntriesSeen
<1>4. \A g : OutDeps(g)' = OutDeps(g) /\ Successors(g)' = Successors(g)
  BY <1>1 DEF OutDeps, Successors, GroupDeps
<1>5. \A d : RankOver(d)' = RankOver(d)
  BY <1>1 DEF RankOver, TransferTime
<1>6. RankAttained'
  BY <1>1, <1>2, <1>4, <1>5 DEF Walk, RankAttained, Attained
<1>7. FinishedOnce' /\ SuccessorsEarlier'
  BY <1>4 DEF Walk, FinishedOnce, SuccessorsEarlier
<1> QED  BY <1>3, <1>6, <1>7 DEF Walk

LEMMA BuildGroupsWalk ==
  ASSUME Typed, BuildGroups
  PROVE  Walk' /\ ListComplete'
<1>1. finished' = <<>> /\ phase' = "rank" /\ UNCHANGED <<data, rep>>
  BY DEF BuildGroups, Typed
<1>2. processed' = {}
  BY <1>1, ElementsEmpty DEF processed
<1>3. EntryGroups' = EntryGroups
  BY <1>1 DEF EntryGroups, Groups, GroupDeps
<1>4. Elements(queue') = EntryGroups
  BY DEF BuildGroups, Orders
<1> QED  BY <1>1, <1>2, <1>3, <1>4
   DEF Walk, EntriesSeen, FinishedOnce, SuccessorsEarlier, RankAttained, ListComplete

LEMMA FinishTopWalk ==
  ASSUME Typed, RankDominates, Walk, FinishTop
  PROVE  Walk'
<1>1. /\ top \in Groups
      /\ \A t \in Tasks \ {top} : rank'[t] = rank[t]
      /\ rank'[top] >= gdur[top]
      /\ Elements(finished') = processed \cup {top}
  BY FinishTopTyped
<1>2. /\ UNCHANGED <<rep, data, gdur, dto>> /\ phase = "rank" /\ phase' = "rank"
      /\ top \notin processed /\ Unprocessed = {}
      /\ queue # <<>> /\ queue' = SubSeq(queue, 1, Len(queue) - 1)
      /\ finished' = Append(finished, top)
  BY DEF FinishTop, graphVars
<1>3. /\ GroupDeps' = GroupDeps /\ processed' = processed \cup {top}
      /\ EntryGroups' = EntryGroups
      /\ \A g : OutDeps(g)' = OutDeps(g) /\ Successors(g)' = Successors(g)
  BY <1>1, <1>2 DEF GroupDeps, processed, EntryGroups, Groups, OutDeps, Successors
<1>4. EntriesSeen'
  <2>1. Elements(queue) \subseteq Elements(queue') \cup {top}
    BY <1>2, ElementsPopped DEF Typed, Queued, top
  <2> QED  BY <1>2, <1>3, <2>1 DEF Walk, EntriesSeen
<1>5. /\ DOMAIN finished' = DOMAIN finished \cup {Len(finished) + 1}
      /\ \A i \in DOMAIN finished : finished'[i] = finished[i] /\ i <= Len(finished)
      /\ \A i \in DOMAIN finished : i \in Nat
      /\ finished'[Len(finished) + 1] = top
      /\ Len(finished) \in Nat
  BY <1>1, <1>2 DEF Typed
<1>6. \A i \in DOMAIN finished : finished[i] # top
  BY <1>2 DEF processed, Elements
<1>7. FinishedOnce'
  BY <1>2, <1>5, <1>6 DEF Walk, FinishedOnce
<1>8. ASSUME NEW i \in DOMAIN finished', NEW h \in Successors(finished'[i])
      PROVE  \E j \in DOMAIN finished' : j < i /\ finished'[j] = h
  <2>1. CASE i \in DOMAIN finished
    <3>1. PICK j \in DOMAIN finished : j < i /\ finished[j] = h
      BY <1>2, <1>5, <1>8, <2>1 DEF Walk, SuccessorsEarlier
    <3> QED  BY <1>5, <3>1
  <2>2. CASE i = Len(finished) + 1
    <3>1. PICK d \in OutDeps(top) : h = rep[d.dst]
      BY <1>5, <1>8, <2>2 DEF Successors
    <3>2. h \in processed
      BY <1>2, <3>1 DEF Unprocessed
    <3>3. PICK j \in DOMAIN finished : finished[j] = h
      BY <3>2 DEF processed, Elements
    <3>4. j < i
      BY <1>5, <2>2, <3>3
    <3> QED  BY <1>5, <3>3, <3>4
  <2> QED  BY <1>5, <2>1, <2>2
<1>9. SuccessorsEarlier'
  BY <1>3, <1>8 DEF SuccessorsEarlier
<1>10. \A d \in GroupDeps : rep[d.src] \in processed \cup {top} => rep[d.dst] \in processed
  BY <1>2 DEF RankDominates, Unprocessed, OutDeps
<1>11. \A g \in processed \cup {top} : \A d \in OutDeps(g) : RankOver(d)' = RankOver(d)
  <2> SUFFICES ASSUME NEW g \in processed \cup {top}, NEW d \in OutDeps(g)
               PROVE  RankOver(d)' = RankOver(d)
    OBVIOUS
  <2>1. rep[d.dst] \in processed /\ rep[d.dst] \in Tasks
    BY <1>10 DEF OutDeps, GroupDeps, Typed
  <2> QED  BY <1>1, <1>2, <2>1 DEF RankOver, TransferTime
<1>12. Attained(top, rank'[top])
  <2>1. top \in DOMAIN rank
    BY <1>1, GroupsAreTasks DEF Typed
  <2>2. CASE rank' = [rank EXCEPT ![top] = gdur[top]]
    BY <2>1, <2>2 DEF Attained
  <2>3. ASSUME NEW d \in OutDeps(top), rank' = [rank EXCEPT ![top] = RankOver(d)]
        PROVE  Attained(top, rank'[top])
    BY <2>1, <2>3 DEF Attained
  <2> QED  BY <2>2, <2>3 DEF FinishTop
<1>13. ASSUME NEW g \in processed \cup {top}
       PROVE  rank'[g] >= gdur[g] /\ Attained(g, rank'[g])
  <2>1. CASE g = top
    BY <1>1, <1>12, <2>1
  <2>2. CASE g \in processed
    <3>1. g \in Tasks \ {top}
      BY <1>2, <2>2, GroupsAreTasks DEF Typed, processed, Elements
    <3>2. rank[g] >= gdur[g] /\ Attained(g, rank[g])
      BY <1>2, <2>2 DEF Walk, RankAttained
    <3> QED  BY <1>1, <3>1, <3>2
  <2> QED  BY <2>1, <2>2
<1>14. \A g \in processed \cup {top} : Attained(g, rank'[g]) => Attained(g, rank[g])'
  BY <1>2, <1>3, <1>11 DEF Attained
<1>15. RankAttained'
  BY <1>2, <1>3, <1>13, <1>14 DEF RankAttained
<1> QED  BY <1>4, <1>7, <1>9, <1>15 DEF Walk

LEMMA SortByRankWalk ==
  ASSUME Typed, Walk, SortByRank
  PROVE  Walk' /\ ListComplete'
<1>1. /\ UNCHANGED <<graphVars, queue, rank, finished>>
      /\ phase = "rank" /\ queue = <<>>
      /\ ranked' \in [DOMAIN finished -> processed] /\ Sorted(finished, ranked')
  BY DEF SortByRank
<1>2. Walk'
  BY <1>1, WalkKept
<1>3. PICK from \in [DOMAIN finished -> DOMAIN finished] :
         /\ \A i \in DOMAIN finished : ranked'[i] = finished[from[i]]
         /\ \A i, j \in DOMAIN finished :
              i < j <=> \/ rank[finished[from[i]]] > rank[finished[from[j]]]
                        \/ /\ rank[finished[from[i]]] = rank[finished[from[j]]]
                           /\ from[i] < from[j]
  BY <1>1 DEF Sorted
<1>4. /\ \A i \in DOMAIN finished : i \in Nat /\ rank[finished[i]] \in Nat
      /\ IsFiniteSet(DOMAIN finished)
  <2>1. DOMAIN finished = 1 .. Len(finished) /\ Len(finished) \in Nat
    BY DEF Typed
  <2>2. \A i \in DOMAIN finished : finished[i] \in Tasks
    BY GroupsAreTasks DEF Typed
  <2>3. IsFiniteSet(1 .. Len(finished))
    BY <2>1, FS_Interval
  <2> QED  BY <2>1, <2>2, <2>3 DEF Typed
<1>5. \A i, j \in DOMAIN finished : from[i] = from[j] => i = j
  BY <1>3, <1>4
<1>6. from \in Injection(DOMAIN finished, DOMAIN finished)
  BY <1>5 DEF Injection, IsInjective
<1>7. from \in Surjection(DOMAIN finished, DOMAIN finished)
  BY <1>4, <1>6, FS_Injection
<1>8. \A k \in DOMAIN finished : \E i \in DOMAIN finished : from[i] = k
  BY <1>7 DEF Surjection
<1>9. DOMAIN ranked' = DOMAIN finished
  BY <1>1
<1>10. processed' = processed
  BY <1>1 DEF processed
<1>11. Elements(ranked') = processed
  BY <1>3, <1>8, <1>9 DEF processed, Elements
<1>12. \A i, j \in DOMAIN ranked' : ranked'[i] = ranked'[j] => i = j
  BY <1>1, <1>3, <1>5, <1>9 DEF Walk, FinishedOnce
<1> QED  BY <1>1, <1>2, <1>10, <1>11, <1>12 DEF ListComplete

LEMMA WalkStep ==
  ASSUME IInv, Walk, ListComplete, [Next]_vars
  PROVE  Walk' /\ ListComplete'
<1> USE DEF IInv
<1>0. ASSUME phase' \notin {"rank", "ranked"} PROVE Walk' /\ ListComplete'
  BY <1>0 DEF Walk, ListComplete
<1>1. CASE (\E in \in inputs : ConnectInput(in)) \/ AddImplicit \/ (\E d \in todo : Merge(d))
           \/ Panic
  BY <1>0, <1>1 DEF ConnectInput, AddImplicit, Merge, Panic
<1>2. CASE BuildGroups
  BY <1>2, BuildGroupsWalk
<1>3. CASE PopProcessed
  <2>1. Elements(queue) \subseteq Elements(queue') \cup {top}
    BY <1>3, ElementsPopped DEF PopProcessed, Typed, Queued, top
  <2>2. /\ top \in processed /\ UNCHANGED <<graphVars, rank, finished>>
        /\ phase = "rank" /\ phase' = "rank"
    BY <1>3 DEF PopProcessed
  <2> QED  BY <2>1, <2>2, WalkKept DEF ListComplete
<1>4. CASE PushSuccessors
  <2>1. /\ UNCHANGED <<graphVars, rank, finished>>
        /\ phase = "rank" /\ phase' = "rank"
    BY <1>4 DEF PushSuccessors
  <2>2. Elements(queue) \subseteq Elements(queue')
    BY <1>4, PushSuccessorsGroups, ElementsConcat DEF Typed, Queued
  <2> QED  BY <2>1, <2>2, WalkKept DEF ListComplete
<1>5. CASE FinishTop
  <2>1. phase' = "rank"
    BY <1>5 DEF FinishTop
  <2> QED  BY <1>5, <2>1, FinishTopWalk DEF ListComplete
<1>6. CASE SortByRank
  BY <1>6, SortByRankWalk
<1>7. CASE UNCHANGED vars
  <2>1. UNCHANGED <<graphVars, phase, queue, rank, finished, ranked>>
    BY <1>7 DEF vars, rankVars
  <2>2. ListComplete'
    BY <2>1 DEF ListComplete, processed
  <2>3. Walk'
    BY <1>0, <2>1, WalkKept
  <2> QED  BY <2>2, <2>3
<1> QED  BY <1>1, <1>2, <1>3, <1>4, <1>5, <1>6, <1>7 DEF Next

LEMMA InitWalk == Init => Walk /\ ListComplete
BY DEF Init, Walk, ListComplete

LEMMA ProcessedAreGroups ==
  ASSUME Typed
  PROVE  /\ processed \subseteq Groups
         /\ \A i \in DOMAIN finished : i \in Nat
BY DEF Typed, processed, Elements

-----------------------------------------------------------------------------
(* The rank is the longest path.                                           *)

\* What LongestPath takes the maximum of, R being the lengths of the paths
\* from the processed groups.
Lengths(R, g) ==
  {gdur[g] + TransferTime(d) + R[rep[d.dst]] : d \in OutDeps(g)} \cup {gdur[g]}
Greatest(S) == CHOOSE m \in S : \A n \in S : n <= m
ArePaths(R) == R = [g \in processed |-> Greatest(Lengths(R, g))]

LEMMA GreatestIs ==
  ASSUME NEW S, S \subseteq Int, NEW m \in S, \A n \in S : n <= m
  PROVE  Greatest(S) = m
<1>1. Greatest(S) \in S /\ \A n \in S : n <= Greatest(S)
  BY DEF Greatest
<1>2. Greatest(S) <= m /\ m <= Greatest(S) /\ Greatest(S) \in Int /\ m \in Int
  BY <1>1
<1> QED  BY <1>2

LEMMA LongestPathChosen == LongestPath = CHOOSE R : ArePaths(R)
BY DEF LongestPath, ArePaths, Greatest, Lengths

\* Two functions that solve the recursion agree on every processed group: the
\* first one to be finished with different lengths would have a successor that
\* differs and was finished before.
LEMMA PathsAreUnique ==
  ASSUME Typed, SuccessorsEarlier, NEW Q, NEW R, ArePaths(Q), ArePaths(R),
         NEW g \in processed
  PROVE  Q[g] = R[g]
<1> DEFINE Bad == {i \in DOMAIN finished : Q[finished[i]] # R[finished[i]]}
<1> SUFFICES ASSUME Bad # {} PROVE FALSE
  BY DEF processed, Elements
<1>1. PICK i \in Bad : \A j \in Bad : i <= j
  <2>1. Bad \subseteq Nat
    BY ProcessedAreGroups
  <2> HIDE DEF Bad
  <2> QED  BY <2>1, LeastNatural
<1> DEFINE h == finished[i]
<1>2. h \in processed
  BY <1>1 DEF processed, Elements
<1>3. ASSUME NEW d \in OutDeps(h) PROVE Q[rep[d.dst]] = R[rep[d.dst]]
  <2>1. PICK j \in DOMAIN finished : j < i /\ finished[j] = rep[d.dst]
    BY <1>1 DEF SuccessorsEarlier, Successors
  <2>2. ~ (i <= j)
    BY <1>1, <2>1, ProcessedAreGroups
  <2>3. j \notin Bad
    BY <1>1, <2>2
  <2> QED  BY <2>1, <2>3
<1>4. Lengths(Q, h) = Lengths(R, h)
  BY <1>3 DEF Lengths
<1>5. Q[h] = Greatest(Lengths(Q, h)) /\ R[h] = Greatest(Lengths(R, h))
  <2> HIDE DEF h
  <2> QED  BY <1>2 DEF ArePaths
<1>6. Q[h] = R[h]
  BY <1>4, <1>5
<1> QED  BY <1>1, <1>6

\* The ranks solve the recursion.
LEMMA RanksArePaths ==
  ASSUME Typed, RankDominates, Walk, phase \in {"rank", "ranked"}
  PROVE  ArePaths([g \in processed |-> rank[g]])
<1> DEFINE R == [g \in processed |-> rank[g]]
<1>1. ASSUME NEW g \in processed PROVE Greatest(Lengths(R, g)) = rank[g]
  <2>1. g \in Groups /\ g \in Tasks /\ gdur[g] \in Nat /\ rank[g] \in Nat
    BY ProcessedAreGroups, GroupsAreTasks DEF Typed
  <2>2. \A d \in OutDeps(g) : rep[d.src] = g /\ rep[d.dst] \in processed
    BY DEF RankDominates, OutDeps
  <2>3. \A d \in OutDeps(g) :
           gdur[g] + TransferTime(d) + R[rep[d.dst]] = RankOver(d)
    BY <2>2 DEF RankOver
  <2>4. Lengths(R, g) = {RankOver(d) : d \in OutDeps(g)} \cup {gdur[g]}
    <3> HIDE DEF R
    <3> QED  BY <2>3 DEF Lengths
  <2>5. \A d \in OutDeps(g) : RankOver(d) <= rank[g]
    BY <2>2 DEF RankDominates, OutDeps
  <2>6. \A d \in OutDeps(g) : RankOver(d) \in Int
    <3> SUFFICES ASSUME NEW d \in OutDeps(g) PROVE RankOver(d) \in Int
      OBVIOUS
    <3>1. TransferTime(d) \in Nat
      BY TransferIsNat DEF Typed, Sizes, OutDeps, GroupDeps
    <3>2. rank[rep[d.dst]] \in Nat
      BY DEF Typed, OutDeps, GroupDeps
    <3> QED  BY <2>1, <2>2, <3>1, <3>2 DEF RankOver
  <2>7. rank[g] >= gdur[g] /\ Attained(g, rank[g])
    BY DEF Walk, RankAttained
  <2>8. rank[g] \in Lengths(R, g)
    BY <2>4, <2>7 DEF Attained
  <2>9. \A n \in Lengths(R, g) : n <= rank[g]
    BY <2>1, <2>4, <2>5, <2>7
  <2>10. Lengths(R, g) \subseteq Int
    BY <2>1, <2>4, <2>6
  <2> QED  BY <2>8, <2>9, <2>10, GreatestIs
<1> QED  BY <1>1 DEF ArePaths

WalkInv == IInv /\ Walk /\ ListComplete

LEMMA SpecWalkInv == Spec => []WalkInv
<1>1. Init => WalkInv
  BY InitIInv, InitWalk DEF WalkInv
<1>2. WalkInv /\ [Next]_vars => WalkInv'
  BY StepIInv, WalkStep DEF WalkInv
<1> QED  BY <1>1, <1>2, PTL DEF Spec

\* The rank of every co-allocation is the length of the longest path from it,
\* for every order in which the stack visits them.
THEOREM RanksAreLongestPaths == Spec => []RankIsLongestPath
<1>1. WalkInv => RankIsLongestPath
  <2> SUFFICES ASSUME WalkInv, phase = "ranked", NEW g \in processed
               PROVE  rank[g] = LongestPath[g]
    BY DEF RankIsLongestPath
  <2> DEFINE R == [h \in processed |-> rank[h]]
  <2>1. ArePaths(R)
    BY RanksArePaths DEF WalkInv, IInv
  <2>2. R[g] = rank[g]
    OBVIOUS
  <2> HIDE DEF R
  <2>3. ArePaths(LongestPath)
    BY <2>1, LongestPathChosen
  <2>4. SuccessorsEarlier
    BY DEF WalkInv, Walk
  <2>5. R[g] = LongestPath[g]
    BY <2>1, <2>3, <2>4, PathsAreUnique DEF WalkInv, IInv
  <2> QED  BY <2>2, <2>5
<1> QED  BY <1>1, SpecWalkInv, PTL

-----------------------------------------------------------------------------
(* Every group is ranked.                                                  *)

\* Nothing that is finished lies on a cycle: what was finished before it holds
\* its successors and theirs, and not the group itself.
LEMMA FinishedIsOffCycles ==
  ASSUME Typed, FinishedOnce, SuccessorsEarlier, NEW g \in processed
  PROVE  ~ Reaches(g, g)
<1>1. PICK i \in DOMAIN finished : finished[i] = g
  BY DEF processed, Elements
<1> DEFINE C == {finished[j] : j \in {k \in DOMAIN finished : k < i}}
<1>2. C \in SUBSET Groups
  BY DEF Typed
<1>3. Successors(g) \subseteq C
  BY <1>1 DEF SuccessorsEarlier
<1>4. \A c \in C : Successors(c) \subseteq C
  <2> SUFFICES ASSUME NEW j \in DOMAIN finished, j < i, NEW h \in Successors(finished[j])
               PROVE  h \in C
    OBVIOUS
  <2>1. PICK k \in DOMAIN finished : k < j /\ finished[k] = h
    BY DEF SuccessorsEarlier
  <2>2. k < i
    BY <2>1, ProcessedAreGroups
  <2> QED  BY <2>1, <2>2
<1>5. g \notin C
  <2>1. \A j \in DOMAIN finished : j < i => j # i
    BY ProcessedAreGroups
  <2> QED  BY <1>1, <2>1 DEF FinishedOnce
<1> QED  BY <1>2, <1>3, <1>4, <1>5 DEF Reaches

LEMMA ProcessedIsClosed ==
  ASSUME Typed, SuccessorsEarlier, NEW g \in processed
  PROVE  Successors(g) \subseteq processed
BY DEF SuccessorsEarlier, processed, Elements

LEMMA ReachesOverOne ==
  ASSUME NEW g, NEW v \in Groups, NEW u \in Successors(v)
  PROVE  Reaches(v, u) /\ (Reaches(g, v) => Reaches(g, u))
BY DEF Reaches

\* Without a cycle nothing is left over: of the groups left over take one that
\* the fewest groups reach. A group left over precedes it, and is reached by no
\* fewer only if it reaches itself.
LEMMA NothingIsLeft ==
  ASSUME Typed, SuccessorsEarlier, EntryGroups \subseteq processed, GroupsAcyclic
  PROVE  processed = Groups
<1> DEFINE Left == Groups \ processed
           Before(u) == {h \in Groups : Reaches(h, u)}
           Family == {Before(u) : u \in Left}
<1> SUFFICES ASSUME Left # {} PROVE FALSE
  BY ProcessedAreGroups
<1>1. IsFiniteSet(Groups)
  BY GroupsAreTasks, TasksAssumption, FS_Subset DEF Typed
<1>2. HasMinimal(Family)
  <2>1. Family \subseteq SUBSET Groups /\ Family # {}
    OBVIOUS
  <2> HIDE DEF Family
  <2> QED  BY <1>1, <2>1, MinimalSubset
<1>3. PICK u \in Left : \A v \in Left : Before(v) \subseteq Before(u) => Before(v) = Before(u)
  <2>1. PICK T \in Family : \A U \in Family : U \subseteq T => U = T
    BY <1>2 DEF HasMinimal
  <2>2. PICK u \in Left : T = Before(u)
    BY <2>1
  <2>3. \A v \in Left : Before(v) \in Family
    OBVIOUS
  <2> HIDE DEF Family, Before, Left
  <2> QED  BY <2>1, <2>2, <2>3
<1>4. PICK d \in GroupDeps : rep[d.dst] = u
  BY <1>3 DEF EntryGroups
<1> DEFINE v == rep[d.src]
<1>5. v \in Groups /\ u \in Successors(v)
  BY <1>4 DEF GroupDeps, Groups, Successors, OutDeps
<1> HIDE DEF v
<1>6. v \in Left
  BY <1>3, <1>5, ProcessedIsClosed
<1>7. Before(v) \subseteq Before(u) /\ v \in Before(u)
  BY <1>5, ReachesOverOne
<1>8. v \in Before(v)
  BY <1>3, <1>6, <1>7
<1> QED  BY <1>8 DEF GroupsAcyclic

\* A ranking that comes to its end has met no cycle; and without one the list
\* the scheduler gets holds every co-allocation, once.
THEOREM ListIsComplete == Spec => []EveryGroupRanked
<1>1. WalkInv => EveryGroupRanked
  <2> SUFFICES ASSUME WalkInv, phase = "ranked"
               PROVE  /\ ~\E e \in EntryGroups, g \in Groups : Reaches(e, g) /\ Reaches(g, g)
                      /\ GroupsAcyclic => /\ Elements(ranked) = Groups
                                         /\ Len(ranked) = Cardinality(Groups)
    BY DEF EveryGroupRanked
  <2>1. Typed /\ FinishedOnce /\ SuccessorsEarlier /\ queue = <<>>
    BY DEF WalkInv, IInv, Walk, ListComplete
  <2>2. EntryGroups \subseteq processed
    BY <2>1, ElementsEmpty DEF WalkInv, Walk, EntriesSeen
  <2>3. ASSUME NEW e \in EntryGroups, NEW g \in Groups, Reaches(e, g)
        PROVE  ~ Reaches(g, g)
    <3>1. processed \in SUBSET Groups
      BY <2>1, ProcessedAreGroups
    <3>2. Successors(e) \subseteq processed /\ \A c \in processed : Successors(c) \subseteq processed
      BY <2>1, <2>2, ProcessedIsClosed
    <3>3. g \in processed
      BY <2>3, <3>1, <3>2 DEF Reaches
    <3> QED  BY <2>1, <3>3, FinishedIsOffCycles
  <2>4. ASSUME GroupsAcyclic
        PROVE  Elements(ranked) = Groups /\ Len(ranked) = Cardinality(Groups)
    <3>1. Elements(ranked) = Groups
      BY <2>1, <2>2, <2>4, NothingIsLeft DEF WalkInv, ListComplete
    <3>2. ranked \in Seq(Tasks) /\ \A i, j \in DOMAIN ranked : ranked[i] = ranked[j] => i = j
      BY <2>1 DEF WalkInv, ListComplete, Typed
    <3>3. Len(ranked) \in Nat /\ DOMAIN ranked = 1 .. Len(ranked)
      BY <3>2
    <3>4. ranked \in [1 .. Len(ranked) -> Groups]
      BY <3>1, <3>2 DEF Elements
    <3>5. \A g \in Groups : \E i \in 1 .. Len(ranked) : ranked[i] = g
      BY <3>1, <3>3 DEF Elements
    <3>6. ranked \in Bijection(1 .. Len(ranked), Groups)
      BY <3>2, <3>3, <3>4, <3>5 DEF Bijection, Injection, IsInjective, Surjection
    <3>7. ExistsBijection(1 .. Len(ranked), Groups)
      BY <3>6 DEF ExistsBijection
    <3> QED  BY <3>1, <3>3, <3>7, FS_CountingElements
  <2> QED  BY <2>3, <2>4
<1> QED  BY <1>1, SpecWalkInv, PTL
=============================================================================
