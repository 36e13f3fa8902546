----------------------- MODULE NetworkSchedule_proofs -----------------------
(***************************************************************************)
(* Proofs about NetworkSchedule for every topology, every K, every set of  *)
(* requests and every window.                                              *)
(*                                                                         *)
(* The search (SearchInv): every loop-free path that is not found yet has  *)
(* a beginning in the queue, the paths of the queue have at most two       *)
(* lengths, the shorter first, and nothing is found or queued twice.  A    *)
(* search that ends has found them all, or the K first, which are the      *)
(* shortest.                                                               *)
(*                                                                         *)
(* The bookings (BookInv): what slots hold of a rigid reservation lies in  *)
(* its interval, which is exactly as long as was asked for (Exact), so the *)
(* slide of the window never takes a live booking out of its slots, and a  *)
(* second reserve finds the same interval, or what is left of it, and      *)
(* empties it; and a link takes a reservation only where it has room.  A   *)
(* rigid request                                                           *)
(* fits a slot when the best of its paths has left exactly what is asked   *)
(* for: then that path is free, and so there is a first free one.          *)
(***************************************************************************)
EXTENDS NetworkSchedule, SumTheorems, TLAPS

-----------------------------------------------------------------------------
(* Sequences and finite sets *)

LEMMA LastOf ==
    ASSUME NEW S, NEW p \in Seq(S), p # <<>>
    PROVE  /\ Len(p) \in Nat \ {0} /\ DOMAIN p = 1 .. Len(p)
           /\ Last(p) = p[Len(p)] /\ Last(p) \in S
<1>1. Len(p) \in Nat \ {0} /\ DOMAIN p = 1 .. Len(p) /\ p[Len(p)] \in S
  OBVIOUS
<1>2. Last(p) = p[Len(p)]
  BY DEF Last
<1> QED BY <1>1, <1>2

LEMMA TailOf ==
    ASSUME NEW S, NEW s \in Seq(S), s # <<>>
    PROVE  /\ Tail(s) \in Seq(S) /\ Len(Tail(s)) = Len(s) - 1 /\ Len(s) \in Nat \ {0}
           /\ Head(s) \in S /\ Head(s) = s[1] /\ 1 \in DOMAIN s
           /\ \A i \in DOMAIN Tail(s) : i + 1 \in DOMAIN s /\ Tail(s)[i] = s[i + 1]
           /\ \A i \in DOMAIN s : i # 1 => i - 1 \in DOMAIN Tail(s)
OBVIOUS

LEMMA ConcatOf ==
    ASSUME NEW S, NEW s \in Seq(S), NEW t \in Seq(S)
    PROVE  /\ s \o t \in Seq(S) /\ DOMAIN (s \o t) = 1 .. Len(s) + Len(t)
           /\ \A i \in 1 .. Len(s) : (s \o t)[i] = s[i]
           /\ \A i \in Len(s) + 1 .. Len(s) + Len(t) : (s \o t)[i] = t[i - Len(s)]
<1>1. s \o t \in Seq(S)
  OBVIOUS
<1>2. Len(s \o t) = Len(s) + Len(t) /\ Len(s) \in Nat /\ Len(t) \in Nat
  OBVIOUS
<1>3. DOMAIN (s \o t) = 1 .. Len(s \o t)
  BY <1>1
<1>4. \A i \in 1 .. Len(s) : (s \o t)[i] = s[i]
  OBVIOUS
<1>5. \A i \in Len(s) + 1 .. Len(s) + Len(t) : (s \o t)[i] = t[i - Len(s)]
  OBVIOUS
<1> QED BY <1>1, <1>2, <1>3, <1>4, <1>5

LEMMA ElementsTyped ==
    ASSUME NEW S, NEW s \in Seq(S)
    PROVE  \A x \in ToSet(s) : x \in S
<1>1. \A i \in DOMAIN s : s[i] \in S
  OBVIOUS
<1> QED BY <1>1 DEF ToSet

\* The greatest and the least element are there.
LEMMA MaxIs ==
    ASSUME NEW S, S \subseteq Int, IsFiniteSet(S), S # {}
    PROVE  Max(S) \in S /\ \A n \in S : n <= Max(S)
<1>1. PICK m \in S : \A n \in S : n <= m
  BY GreatestInteger
<1>2. \A n \in S : m >= n
  BY <1>1
<1>3. Max(S) \in S /\ \A n \in S : Max(S) >= n
  BY <1>2, Zenon DEF Max
<1> QED BY <1>3

LEMMA MinIs ==
    ASSUME NEW S, S \subseteq Int, IsFiniteSet(S), S # {}
    PROVE  Min(S) \in S /\ \A n \in S : Min(S) <= n
<1>1. PICK m \in S : \A n \in S : m <= n
  BY LeastInteger
<1> QED BY <1>1, Zenon DEF Min

LEMMA MinNatIs ==
    ASSUME NEW S, S \subseteq Nat, S # {}
    PROVE  Min(S) \in S /\ \A n \in S : Min(S) <= n
<1>1. PICK m \in S : \A n \in S : m <= n
  BY LeastNatural
<1> QED BY <1>1, Zenon DEF Min

\* The orders of a finite set list each of its elements once.
LEMMA OrderOf ==
    ASSUME NEW S, IsFiniteSet(S), NEW o \in SetToSeqs(S)
    PROVE  /\ o \in Seq(S)
           /\ \A x \in S : \E i \in DOMAIN o : o[i] = x
           /\ \A i, j \in DOMAIN o : o[i] = o[j] => i = j
<1> DEFINE n == Cardinality(S)
<1>1. n \in Nat
  BY FS_CardinalityType
<1>2. o \in [1 .. n -> S] /\ \A i, j \in 1 .. n : i # j => o[i] # o[j]
  BY DEF SetToSeqs
<1>3. o \in Injection(1 .. n, S)
  BY <1>2 DEF Injection, IsInjective
<1>4. Cardinality(1 .. n) = n
  BY <1>1, FS_Interval
<1>5. o \in Surjection(1 .. n, S)
  <2> HIDE DEF n
  <2>1. Cardinality(S) = n BY DEF n
  <2> QED BY <1>3, <1>4, <2>1, FS_Injection
<1>6. \A x \in S : \E i \in 1 .. n : o[i] = x
  BY <1>5 DEF Surjection
<1> HIDE DEF n
<1> QED BY <1>1, <1>2, <1>6

-----------------------------------------------------------------------------
(* Paths *)

Paths == {p \in Seq(Links) : p # <<>>}

\* p is the beginning of w, or all of it.
Leads(p, w) == Len(p) <= Len(w) /\ \A i \in 1 .. Len(p) : p[i] = w[i]

\* A loop-free path that begins at the router from.
Onward(p, from) ==
    /\ Source[p[1]] = from
    /\ \A i \in 1 .. Len(p) - 1 : Target[p[i]] = Source[p[i + 1]]
    /\ VisitsNoRouterTwice(p)

LEMMA PathTyped ==
    ASSUME NEW p \in Paths
    PROVE  /\ p \in Seq(Links) /\ Len(p) \in Nat \ {0} /\ DOMAIN p = 1 .. Len(p)
           /\ Last(p) = p[Len(p)] /\ Last(p) \in Links
           /\ \A i \in 1 .. Len(p) : p[i] \in Links
BY LastOf DEF Paths

LEMMA AppendOf ==
    ASSUME NEW p \in Paths, NEW l \in Links
    PROVE  /\ Append(p, l) \in Paths
           /\ Len(Append(p, l)) = Len(p) + 1
           /\ \A i \in 1 .. Len(p) : Append(p, l)[i] = p[i]
           /\ Append(p, l)[Len(p) + 1] = l
           /\ Last(Append(p, l)) = l
<1>1. /\ Append(p, l) \in Seq(Links) /\ Append(p, l) # <<>>
      /\ Len(Append(p, l)) = Len(p) + 1
      /\ \A i \in 1 .. Len(p) : Append(p, l)[i] = p[i]
      /\ Append(p, l)[Len(p) + 1] = l
  BY DEF Paths
<1> QED BY <1>1 DEF Paths, Last

\* Two paths of one length of which one leads to the other are one path.
LEMMA LeadsEqual ==
    ASSUME NEW p \in Paths, NEW w \in Paths, Leads(p, w), Len(w) <= Len(p)
    PROVE  p = w
BY PathTyped DEF Leads, Paths

LEMMA LeadsSelf ==
    ASSUME NEW p \in Paths
    PROVE  Leads(p, p)
BY PathTyped DEF Leads

\* What an extended path leads to or is led to by, its origin is on the way.
LEMMA LeadsAppend ==
    ASSUME NEW p \in Paths, NEW l \in Links, NEW w \in Paths
    PROVE  /\ Leads(Append(p, l), w) => Leads(p, w)
           /\ Leads(w, Append(p, l)) => Leads(w, p) \/ Leads(p, w)
<1> DEFINE a == Append(p, l)
<1>1. /\ a \in Paths /\ Len(a) = Len(p) + 1 /\ Len(p) \in Nat /\ Len(w) \in Nat
      /\ \A i \in 1 .. Len(p) : a[i] = p[i]
  BY AppendOf, PathTyped
<1> HIDE DEF a
<1>2. Leads(a, w) => Leads(p, w)
  BY <1>1 DEF Leads
<1>3. ASSUME Leads(w, a), Len(w) <= Len(p) PROVE Leads(w, p)
  BY <1>1, <1>3 DEF Leads
<1>4. ASSUME Leads(w, a), Len(p) < Len(w) PROVE Leads(p, w)
  BY <1>1, <1>4 DEF Leads
<1> QED BY <1>1, <1>2, <1>3, <1>4 DEF a

LEMMA AppendsDiffer ==
    ASSUME NEW p \in Paths, NEW l \in Links, NEW m \in Links, Leads(Append(p, l), Append(p, m))
    PROVE  l = m
<1>1. Len(p) + 1 \in 1 .. Len(Append(p, l))
  BY AppendOf, PathTyped
<1> QED BY <1>1, AppendOf DEF Leads

\* A loop-free path is no longer than there are routers.
LEMMA SimplePathsAre ==
    ASSUME NEW q \in AllPairs, NEW p
    PROVE  p \in SimplePaths[q] <=> p \in Paths /\ IsPath(p, q) /\ VisitsNoRouterTwice(p)
<1> DEFINE Bounded == UNION {[1 .. n -> Links] : n \in 1 .. Cardinality(Routers) - 1}
<1>1. p \in SimplePaths[q] <=> p \in Bounded /\ IsPath(p, q) /\ VisitsNoRouterTwice(p)
  BY DEF SimplePaths, Loopfree
<1>2. IsFiniteSet(Routers) /\ Cardinality(Routers) \in Nat
  BY TopologyAssumption, FS_CardinalityType
<1>3. ASSUME p \in Bounded PROVE p \in Paths
  <2>1. PICK n \in 1 .. Cardinality(Routers) - 1 : p \in [1 .. n -> Links]
    BY <1>3
  <2>2. n \in Nat /\ n > 0
    BY <1>2, <2>1
  <2> QED BY <2>1, <2>2 DEF Paths
<1>4. ASSUME p \in Paths, VisitsNoRouterTwice(p) PROVE p \in Bounded
  <2> DEFINE n == Len(p)
             visited == [i \in 1 .. n + 1 |-> IF i <= n THEN Source[p[i]] ELSE Target[Last(p)]]
  <2>1. n \in Nat \ {0} /\ DOMAIN p = 1 .. n /\ p \in [1 .. n -> Links] /\ Last(p) \in Links
    BY <1>4, PathTyped DEF Paths
  <2>2. \A i \in 1 .. n + 1 : visited[i] \in Routers
    <3>1. \A l \in Links : Source[l] \in Routers /\ Target[l] \in Routers
      BY TopologyAssumption
    <3>2. \A i \in 1 .. n + 1 : i <= n => p[i] \in Links
      BY <2>1
    <3> HIDE DEF n
    <3> QED BY <2>1, <3>1, <3>2
  <2>3. \A i, j \in 1 .. n + 1 : visited[i] = visited[j] => i = j
    BY <1>4, <2>1 DEF VisitsNoRouterTwice
  <2>4. visited \in Injection(1 .. n + 1, Routers)
    BY <2>2, <2>3 DEF Injection, IsInjective
  <2>5. Cardinality(1 .. n + 1) = n + 1
    BY <2>1, FS_Interval
  <2>6. n + 1 <= Cardinality(Routers)
    <3> HIDE DEF n, visited
    <3> QED BY <1>2, <2>4, <2>5, FS_Injection
  <2>7. n \in 1 .. Cardinality(Routers) - 1
    BY <1>2, <2>1, <2>6
  <2> HIDE DEF n
  <2> QED BY <2>1, <2>7
<1> QED BY <1>1, <1>3, <1>4

LEMMA OnwardExtended ==
    ASSUME NEW p \in Paths, NEW from, Onward(p, from), NEW l \in Extensions(p)
    PROVE  Onward(Append(p, l), from)
<1> DEFINE a == Append(p, l)
           n == Len(p)
<1>1. /\ n \in Nat \ {0} /\ DOMAIN p = 1 .. n /\ Last(p) = p[n]
      /\ \A i \in 1 .. n : p[i] \in Links
  BY PathTyped
<1>2. /\ l \in Links /\ Source[l] = Target[p[n]]
      /\ \A i \in 1 .. n : Source[p[i]] # Target[l]
      /\ Source[l] # Target[l]
  BY <1>1, TopologyAssumption DEF Extensions, Adjacency
<1>3. /\ a \in Paths /\ Len(a) = n + 1 /\ \A i \in 1 .. n : a[i] = p[i]
      /\ a[n + 1] = l /\ Last(a) = l /\ DOMAIN a = 1 .. n + 1
  BY <1>2, AppendOf, PathTyped
<1>4. /\ Source[p[1]] = from
      /\ \A i \in 1 .. n - 1 : Target[p[i]] = Source[p[i + 1]]
      /\ \A i, j \in 1 .. n : Source[p[i]] = Source[p[j]] => i = j
      /\ \A i \in 1 .. n : Source[p[i]] # Target[p[n]]
  BY <1>1 DEF Onward, VisitsNoRouterTwice
<1> HIDE DEF a, n
<1>5. Source[a[1]] = from
  BY <1>1, <1>3, <1>4
<1>6. \A i \in 1 .. n : Target[a[i]] = Source[a[i + 1]]
  BY <1>1, <1>2, <1>3, <1>4
<1>7. \A i, j \in 1 .. n + 1 : Source[a[i]] = Source[a[j]] => i = j
  BY <1>1, <1>2, <1>3, <1>4
<1>8. \A i \in 1 .. n + 1 : Source[a[i]] # Target[l]
  BY <1>1, <1>2, <1>3
<1>9. Onward(a, from)
  BY <1>1, <1>3, <1>5, <1>6, <1>7, <1>8 DEF Onward, VisitsNoRouterTwice
<1> QED BY <1>9 DEF a

\* A path that has arrived leads to no other.
LEMMA ArrivedIsAll ==
    ASSUME NEW q \in AllPairs, NEW w \in SimplePaths[q], NEW p \in Paths, Leads(p, w),
           Target[Last(p)] = q[2]
    PROVE  p = w
<1>1. w \in Paths /\ IsPath(w, q) /\ VisitsNoRouterTwice(w)
  BY SimplePathsAre
<1>2. /\ Len(p) \in Nat \ {0} /\ Last(p) = w[Len(p)]
      /\ Len(w) \in Nat \ {0} /\ DOMAIN w = 1 .. Len(w)
  BY <1>1, PathTyped DEF Leads
<1>3. ASSUME Len(p) < Len(w) PROVE FALSE
  <2>1. Source[w[Len(p) + 1]] = Target[Last(w)]
    BY <1>1, <1>2, <1>3 DEF IsPath
  <2> QED BY <1>1, <1>2, <1>3, <2>1 DEF VisitsNoRouterTwice
<1> QED BY <1>1, <1>2, <1>3, LeadsEqual

\* A path that has not arrived can be extended towards where it leads.
LEMMA NextLink ==
    ASSUME NEW q \in AllPairs, NEW w \in SimplePaths[q], NEW p \in Paths, Leads(p, w),
           Target[Last(p)] # q[2]
    PROVE  \E l \in Extensions(p) : Leads(Append(p, l), w)
<1> DEFINE n == Len(p)
           m == Len(w)
           l == w[n + 1]
<1>1. w \in Paths /\ IsPath(w, q) /\ VisitsNoRouterTwice(w)
  BY SimplePathsAre
<1>2. /\ n \in Nat \ {0} /\ m \in Nat \ {0} /\ DOMAIN w = 1 .. m /\ DOMAIN p = 1 .. n
      /\ n <= m /\ \A i \in 1 .. n : p[i] = w[i]
      /\ Last(p) = w[n] /\ Last(w) = w[m] /\ \A i \in 1 .. m : w[i] \in Links
  BY <1>1, PathTyped DEF Leads
<1>3. /\ Target[w[m]] = q[2]
      /\ \A i \in 1 .. m - 1 : Target[w[i]] = Source[w[i + 1]]
      /\ \A i, j \in 1 .. m : Source[w[i]] = Source[w[j]] => i = j
      /\ \A i \in 1 .. m : Source[w[i]] # Target[w[m]]
  BY <1>1, <1>2 DEF IsPath, VisitsNoRouterTwice
<1>4. n < m
  BY <1>2, <1>3
<1>5. l \in Links /\ Source[l] = Target[Last(p)]
  BY <1>2, <1>3, <1>4
<1>6. \A i \in 1 .. n : Source[w[i]] # Target[l]
  <2> SUFFICES ASSUME NEW i \in 1 .. n, Source[w[i]] = Target[w[n + 1]] PROVE FALSE
    OBVIOUS
  <2> HIDE DEF n, m
  <2>1. i \in 1 .. m /\ i # n + 2 /\ n + 1 \in 1 .. m
    BY <1>2, <1>4
  <2>2. n + 1 # m
    BY <1>3, <2>1
  <2>3. n + 1 \in 1 .. m - 1 /\ (n + 1) + 1 = n + 2 /\ n + 2 \in 1 .. m
    BY <1>2, <2>1, <2>2
  <2>4. Source[w[i]] = Source[w[n + 2]]
    BY <1>3, <2>3
  <2> QED BY <1>3, <2>1, <2>3, <2>4
<1>7. l \in Extensions(p)
  BY <1>2, <1>5, <1>6 DEF Extensions, Adjacency
<1>8. /\ Len(Append(p, l)) = n + 1 /\ \A i \in 1 .. n : Append(p, l)[i] = p[i]
      /\ Append(p, l)[n + 1] = l
  BY <1>5, AppendOf
<1>9. Leads(Append(p, l), w)
  BY <1>2, <1>4, <1>8 DEF Leads
<1> QED BY <1>7, <1>9

-----------------------------------------------------------------------------
(* The search *)

SearchTyped ==
    /\ pairs \subseteq AllPairs /\ pair \in AllPairs \union {NoPair}
    /\ queue \in Seq(Paths) /\ found \in Seq(Paths)
    /\ pathCache \in [AllPairs -> Seq(Paths)]
    /\ maxBandwidth \in Nat \union {Unused}

\* The queue holds loop-free paths from the source of the pair, and what is
\* found are ways.
Grown ==
    /\ \A i \in DOMAIN queue : Onward(queue[i], pair[1])
    /\ \A i \in DOMAIN found : found[i] \in SimplePaths[pair]

\* Every way is found, or the queue has a path that leads to it.
NoneMissed ==
    \A w \in SimplePaths[pair] :
        \/ \E i \in DOMAIN found : found[i] = w
        \/ \E i \in DOMAIN queue : Leads(queue[i], w)

\* No two paths of the queue differ by more than one link; none is shorter than
\* a way that is found.
ShortestFirst ==
    /\ \A i, j \in DOMAIN queue : /\ i < j => Len(queue[i]) <= Len(queue[j])
                                 /\ Len(queue[j]) <= Len(queue[i]) + 1
    /\ \A i, j \in DOMAIN found : i < j => Len(found[i]) <= Len(found[j])
    /\ \A i \in DOMAIN found, j \in DOMAIN queue : Len(found[i]) <= Len(queue[j])

\* No path leads to another one.
Apart ==
    /\ \A i, j \in DOMAIN queue : Leads(queue[i], queue[j]) => i = j
    /\ \A i \in DOMAIN queue, j \in DOMAIN found : ~ Leads(queue[i], found[j])
    /\ \A i, j \in DOMAIN found : found[i] = found[j] => i = j

Search ==
    pair # NoPair => Grown /\ NoneMissed /\ ShortestFirst /\ Apart /\ Len(found) <= K

LEMMA PairTyped ==
    ASSUME NEW q \in AllPairs
    PROVE  q # NoPair /\ q[1] \in Routers /\ q[2] \in Routers
<1>1. PICK a, b \in AccessPoints : q = <<a, b>>
  BY DEF AllPairs
<1>2. q[1] \in Routers /\ q[2] \in Routers
  BY <1>1, TopologyAssumption
<1>3. Len(<<a, b>>) = 2 /\ Len(<<>>) = 0
  OBVIOUS
<1>4. <<a, b>> # <<>>
  BY <1>3
<1> QED BY <1>1, <1>2, <1>4 DEF NoPair

LEMMA BeginSearch ==
    ASSUME SearchTyped, Begin
    PROVE  SearchTyped' /\ Search'
<1>1. PICK q \in pairs :
          /\ pair' = q /\ pairs' = pairs \ {q} /\ found' = <<>>
          /\ UNCHANGED <<pathCache, maxBandwidth>>
          /\ \E o \in SetToSeqs(Adjacency(q[1])) : queue' = [i \in DOMAIN o |-> <<o[i]>>]
  BY DEF Begin
<1>2. PICK o \in SetToSeqs(Adjacency(q[1])) : queue' = [i \in DOMAIN o |-> <<o[i]>>]
  BY <1>1
<1>3. IsFiniteSet(Adjacency(q[1]))
  BY TopologyAssumption, FS_Subset DEF Adjacency
<1>4. /\ o \in Seq(Adjacency(q[1]))
      /\ \A l \in Adjacency(q[1]) : \E i \in DOMAIN o : o[i] = l
      /\ \A i, j \in DOMAIN o : o[i] = o[j] => i = j
  BY <1>3, OrderOf
<1>5. DOMAIN queue' = DOMAIN o /\ \A i \in DOMAIN o : queue'[i] = <<o[i]>>
  BY <1>2
<1>6. \A i \in DOMAIN o : o[i] \in Links /\ Source[o[i]] = q[1]
  BY <1>4 DEF Adjacency
<1>7. \A l \in Links : <<l>> \in Paths /\ Len(<<l>>) = 1 /\ <<l>>[1] = l /\ Last(<<l>>) = l
  BY DEF Paths, Last
<1>8. queue' \in Seq(Paths)
  <2>1. \A i \in DOMAIN o : <<o[i]>> \in Paths
    BY <1>6, <1>7
  <2> QED BY <1>2, <1>4, <2>1
<1>9. SearchTyped'
  BY <1>1, <1>8 DEF SearchTyped
<1>10. Grown'
  <2>1. ASSUME NEW i \in DOMAIN o PROVE Onward(<<o[i]>>, q[1])
    <3>1. Source[o[i]] # Target[o[i]]
      BY <1>6, TopologyAssumption
    <3> QED BY <1>6, <1>7, <3>1 DEF Onward, VisitsNoRouterTwice
  <2>2. \A i \in DOMAIN queue' : Onward(queue'[i], q[1])
    BY <1>5, <2>1
  <2>3. DOMAIN found' = {}
    BY <1>1
  <2> QED BY <1>1, <2>2, <2>3 DEF Grown
<1>11. NoneMissed'
  <2> SUFFICES ASSUME NEW w \in SimplePaths[q]
               PROVE  \E i \in DOMAIN queue' : Leads(queue'[i], w)
    BY <1>1 DEF NoneMissed
  <2>1. w \in Paths /\ Source[w[1]] = q[1]
    BY <1>1, SimplePathsAre DEF SearchTyped, IsPath
  <2>2. w[1] \in Adjacency(q[1]) /\ Len(w) >= 1
    BY <2>1, PathTyped DEF Adjacency
  <2>3. PICK i \in DOMAIN o : o[i] = w[1]
    BY <1>4, <2>2
  <2>4. Leads(<<w[1]>>, w)
    BY <2>2, <1>7 DEF Leads, Adjacency
  <2> QED BY <1>5, <2>3, <2>4
<1>12. ShortestFirst'
  BY <1>1, <1>5, <1>6, <1>7 DEF ShortestFirst
<1>13. Apart'
  BY <1>1, <1>4, <1>5, <1>6, <1>7 DEF Apart, Leads
<1>14. Len(found') <= K
  BY <1>1, TopologyAssumption
<1> QED BY <1>9, <1>10, <1>11, <1>12, <1>13, <1>14 DEF Search

LEMMA PathFoundSearch ==
    ASSUME SearchTyped, Search, PathFound
    PROVE  SearchTyped' /\ Search'
<1> DEFINE h == Head(queue)
<1>1. /\ pair # NoPair /\ queue # <<>> /\ Len(found) < K
      /\ Target[Last(h)] = pair[2]
      /\ found' = Append(found, h) /\ queue' = Tail(queue)
      /\ UNCHANGED <<pairs, pair, pathCache, maxBandwidth>>
  BY DEF PathFound, Searching, Arrived
<1>2. /\ queue' \in Seq(Paths) /\ h \in Paths /\ h = queue[1] /\ 1 \in DOMAIN queue
      /\ \A i \in DOMAIN queue' : i + 1 \in DOMAIN queue /\ queue'[i] = queue[i + 1] /\ i \in Nat \ {0}
      /\ \A i \in DOMAIN queue : i # 1 => i - 1 \in DOMAIN queue'
      /\ \A i \in DOMAIN queue : i \in Nat \ {0} /\ queue[i] \in Paths
  BY <1>1, TailOf DEF SearchTyped
<1> HIDE DEF h
<1>3. /\ found' \in Seq(Paths) /\ Len(found') = Len(found) + 1 /\ Len(found) \in Nat
      /\ DOMAIN found = 1 .. Len(found) /\ DOMAIN found' = 1 .. Len(found) + 1
      /\ \A i \in DOMAIN found : found'[i] = found[i] /\ found[i] \in Paths
      /\ found'[Len(found) + 1] = h
  BY <1>1, <1>2 DEF SearchTyped
<1>4. Grown /\ NoneMissed /\ ShortestFirst /\ Apart /\ pair \in AllPairs
  BY <1>1 DEF Search, SearchTyped
<1>5. SearchTyped'
  BY <1>1, <1>2, <1>3 DEF SearchTyped
<1>6. h \in SimplePaths[pair]
  <2>1. Onward(h, pair[1])
    BY <1>2, <1>4 DEF Grown
  <2> QED BY <1>1, <1>2, <1>4, <2>1, SimplePathsAre, PathTyped DEF Onward, IsPath
<1>7. Grown'
  BY <1>1, <1>2, <1>3, <1>4, <1>6 DEF Grown
<1>8. NoneMissed'
  <2> SUFFICES ASSUME NEW w \in SimplePaths[pair]
               PROVE  \/ \E i \in DOMAIN found' : found'[i] = w
                      \/ \E i \in DOMAIN queue' : Leads(queue'[i], w)
    BY <1>1 DEF NoneMissed
  <2>1. CASE \E i \in DOMAIN found : found[i] = w
    BY <1>3, <2>1
  <2>2. ASSUME NEW i \in DOMAIN queue, Leads(queue[i], w)
        PROVE  \/ \E j \in DOMAIN found' : found'[j] = w
               \/ \E j \in DOMAIN queue' : Leads(queue'[j], w)
    <3>1. CASE i = 1
      <4>1. h = w
        BY <1>1, <1>2, <1>4, <2>2, <3>1, ArrivedIsAll
      <4> QED BY <1>3, <4>1
    <3>2. CASE i # 1
      <4>1. i - 1 \in DOMAIN queue' /\ (i - 1) + 1 = i
        BY <1>2, <3>2
      <4>2. queue'[i - 1] = queue[i]
        BY <1>2, <4>1
      <4> QED BY <2>2, <4>1, <4>2
    <3> QED BY <3>1, <3>2
  <2> QED BY <1>4, <2>1, <2>2 DEF NoneMissed
<1>9. \A i \in DOMAIN queue : Len(queue[i]) \in Nat
  BY <1>2, PathTyped
<1>10. ShortestFirst'
  <2>1. ASSUME NEW i \in DOMAIN queue', NEW j \in DOMAIN queue'
        PROVE  /\ i < j => Len(queue'[i]) <= Len(queue'[j])
               /\ Len(queue'[j]) <= Len(queue'[i]) + 1
    BY <1>2, <1>4, <2>1 DEF ShortestFirst
  <2>2. ASSUME NEW i \in DOMAIN found', NEW j \in DOMAIN queue
        PROVE  Len(found'[i]) <= Len(queue[j])
    <3>1. CASE i \in DOMAIN found
      BY <1>3, <1>4, <3>1 DEF ShortestFirst
    <3>2. CASE i = Len(found) + 1
      <4>1. j = 1 \/ 1 < j
        BY <1>2
      <4> QED BY <1>2, <1>3, <1>4, <1>9, <3>2, <4>1 DEF ShortestFirst
    <3> QED BY <1>3, <3>1, <3>2
  <2>3. ASSUME NEW i \in DOMAIN found', NEW j \in DOMAIN found', i < j
        PROVE  Len(found'[i]) <= Len(found'[j])
    <3>1. CASE j \in DOMAIN found
      BY <1>3, <1>4, <2>3, <3>1 DEF ShortestFirst
    <3>2. CASE j = Len(found) + 1
      BY <1>2, <1>3, <2>2, <3>2
    <3> QED BY <1>3, <3>1, <3>2
  <2>4. \A i \in DOMAIN found', j \in DOMAIN queue' : Len(found'[i]) <= Len(queue'[j])
    BY <1>2, <2>2
  <2> QED BY <2>1, <2>3, <2>4 DEF ShortestFirst
<1>11. \A i \in DOMAIN queue' : ~ Leads(queue'[i], h)
  BY <1>2, <1>4 DEF Apart
<1>12. \A i \in DOMAIN found : found[i] # h
  BY <1>2, <1>4, LeadsSelf DEF Apart
<1>13. Apart'
  <2>1. \A i, j \in DOMAIN queue' : Leads(queue'[i], queue'[j]) => i = j
    <3> SUFFICES ASSUME NEW i \in DOMAIN queue', NEW j \in DOMAIN queue',
                        Leads(queue'[i], queue'[j])
                 PROVE  i = j
      OBVIOUS
    <3>1. i + 1 = j + 1
      BY <1>2, <1>4 DEF Apart
    <3> QED BY <1>2, <3>1
  <2>2. \A i \in DOMAIN queue', j \in DOMAIN found' : ~ Leads(queue'[i], found'[j])
    <3> SUFFICES ASSUME NEW i \in DOMAIN queue', NEW j \in DOMAIN found'
                 PROVE  ~ Leads(queue'[i], found'[j])
      OBVIOUS
    <3>1. CASE j \in DOMAIN found
      BY <1>2, <1>3, <1>4, <3>1 DEF Apart
    <3>2. CASE j = Len(found) + 1
      BY <1>3, <1>11, <3>2
    <3> QED BY <1>3, <3>1, <3>2
  <2>3. \A i, j \in DOMAIN found' : found'[i] = found'[j] => i = j
    BY <1>3, <1>4, <1>12 DEF Apart
  <2> QED BY <2>1, <2>2, <2>3 DEF Apart
<1>14. Len(found') <= K
  BY <1>1, <1>3, TopologyAssumption
<1> QED BY <1>1, <1>5, <1>7, <1>8, <1>10, <1>13, <1>14 DEF Search

\* What an extension leaves in the queue: what stood behind the head, and after
\* it the ways on from the head.
LEMMA ExtendedQueue ==
    ASSUME SearchTyped, Extend, NEW h, h = Head(queue), NEW n, n = Len(queue) - 1
    PROVE  /\ h \in Paths /\ h = queue[1] /\ 1 \in DOMAIN queue /\ n \in Nat
           /\ queue' \in Seq(Paths)
           /\ \A k \in DOMAIN queue' : k \in Nat
           /\ \A k \in DOMAIN queue' : k <= n => k + 1 \in DOMAIN queue /\ queue'[k] = queue[k + 1]
           /\ \A k \in DOMAIN queue' : n < k => \E l \in Extensions(h) : queue'[k] = Append(h, l)
           /\ \A k \in DOMAIN queue : k \in Nat
           /\ \A k \in DOMAIN queue : k # 1 => \E i \in DOMAIN queue' : queue'[i] = queue[k]
           /\ \A l \in Extensions(h) : \E i \in DOMAIN queue' : queue'[i] = Append(h, l)
           /\ \A i, j \in DOMAIN queue' : n < i /\ n < j /\ queue'[i] = queue'[j] => i = j
<1>1. /\ queue # <<>>
      /\ \E o \in SetToSeqs(Extensions(h)) :
            queue' = Tail(queue) \o [i \in DOMAIN o |-> Append(h, o[i])]
  BY DEF Extend, Searching
<1>2. PICK o \in SetToSeqs(Extensions(h)) :
         queue' = Tail(queue) \o [i \in DOMAIN o |-> Append(h, o[i])]
  BY <1>1
<1>3. IsFiniteSet(Extensions(h))
  <2>1. IsFiniteSet(Links) BY TopologyAssumption
  <2> QED BY <2>1, FS_Subset DEF Extensions, Adjacency
<1>4. /\ o \in Seq(Extensions(h))
      /\ \A l \in Extensions(h) : \E i \in DOMAIN o : o[i] = l
      /\ \A i, j \in DOMAIN o : o[i] = o[j] => i = j
  BY <1>3, OrderOf
<1>5. /\ Tail(queue) \in Seq(Paths) /\ Len(Tail(queue)) = n /\ n \in Nat
      /\ h \in Paths /\ h = queue[1] /\ 1 \in DOMAIN queue
      /\ \A i \in DOMAIN Tail(queue) : i + 1 \in DOMAIN queue /\ Tail(queue)[i] = queue[i + 1]
      /\ \A i \in DOMAIN queue : i \in Nat /\ (i # 1 => i - 1 \in DOMAIN Tail(queue))
      /\ DOMAIN Tail(queue) = 1 .. n
  BY <1>1, TailOf DEF SearchTyped
<1>6. \A l \in Extensions(h) : l \in Links /\ Append(h, l) \in Paths
  BY <1>5, AppendOf DEF Extensions, Adjacency
<1> DEFINE new == [i \in DOMAIN o |-> Append(h, o[i])]
<1>7. DOMAIN o = 1 .. Len(o) /\ Len(o) \in Nat
  BY <1>4
<1>8. \A i \in 1 .. Len(o) : new[i] = Append(h, o[i]) /\ new[i] \in Paths
  <2>1. \A i \in DOMAIN o : o[i] \in Extensions(h)
    BY <1>4
  <2> QED BY <1>6, <1>7, <2>1
<1>9. /\ queue' \in Seq(Paths) /\ DOMAIN queue' = 1 .. n + Len(o)
      /\ \A k \in 1 .. n : queue'[k] = Tail(queue)[k]
      /\ \A k \in n + 1 .. n + Len(o) : queue'[k] = new[k - n]
  <2> DEFINE rest == Tail(queue)
  <2>1. queue' = rest \o new
    BY <1>2
  <2>2. new = [i \in 1 .. Len(o) |-> new[i]]
    BY <1>7
  <2> HIDE DEF new
  <2>3. new \in Seq(Paths) /\ Len(new) = Len(o)
    BY <1>7, <1>8, <2>2
  <2>4. rest \in Seq(Paths) /\ Len(rest) = n
    BY <1>5
  <2> HIDE DEF rest
  <2>5. /\ queue' \in Seq(Paths) /\ DOMAIN queue' = 1 .. n + Len(o)
        /\ \A k \in 1 .. n : queue'[k] = rest[k]
        /\ \A k \in n + 1 .. n + Len(o) : queue'[k] = new[k - n]
    BY <2>1, <2>3, <2>4, ConcatOf
  <2> QED BY <2>5 DEF rest
<1> HIDE DEF new
<1>10. ASSUME NEW k \in DOMAIN queue'
       PROVE  /\ k \in Nat
              /\ k <= n => k + 1 \in DOMAIN queue /\ queue'[k] = queue[k + 1]
              /\ n < k => \E l \in Extensions(h) : queue'[k] = Append(h, l)
  <2>1. k \in Nat /\ (k <= n => k \in 1 .. n)
    BY <1>5, <1>7, <1>9
  <2>2. ASSUME n < k PROVE \E l \in Extensions(h) : queue'[k] = Append(h, l)
    <3>1. k - n \in DOMAIN o /\ queue'[k] = new[k - n]
      BY <1>5, <1>7, <1>9, <2>2
    <3>2. o[k - n] \in Extensions(h)
      BY <1>4, <3>1
    <3> QED BY <1>7, <1>8, <3>1, <3>2
  <2> QED BY <1>5, <1>9, <2>1, <2>2
<1>11. ASSUME NEW k \in DOMAIN queue, k # 1
       PROVE  \E i \in DOMAIN queue' : queue'[i] = queue[k]
  <2>1. k - 1 \in 1 .. n /\ (k - 1) + 1 = k
    BY <1>5, <1>11
  <2>2. k - 1 \in DOMAIN queue'
    BY <1>5, <1>7, <1>9, <2>1
  <2>3. queue'[k - 1] = queue[k]
    BY <1>5, <1>9, <2>1
  <2> QED BY <2>2, <2>3
<1>12. ASSUME NEW l \in Extensions(h)
       PROVE  \E i \in DOMAIN queue' : queue'[i] = Append(h, l)
  <2>1. PICK i \in DOMAIN o : o[i] = l
    BY <1>4
  <2>2. n + i \in n + 1 .. n + Len(o) /\ (n + i) - n = i
    BY <1>5, <1>7
  <2>3. queue'[n + i] = Append(h, l)
    BY <1>7, <1>8, <1>9, <2>1, <2>2
  <2>4. n + i \in DOMAIN queue'
    BY <1>5, <1>7, <1>9, <2>2
  <2> QED BY <2>3, <2>4
<1>13. ASSUME NEW i \in DOMAIN queue', NEW j \in DOMAIN queue', n < i, n < j,
              queue'[i] = queue'[j]
       PROVE  i = j
  <2>1. i \in n + 1 .. n + Len(o) /\ j \in n + 1 .. n + Len(o)
    BY <1>5, <1>7, <1>9, <1>13
  <2>2. i - n \in DOMAIN o /\ j - n \in DOMAIN o /\ new[i - n] = new[j - n]
    BY <1>5, <1>7, <1>9, <1>13, <2>1
  <2>3. o[i - n] \in Extensions(h) /\ o[j - n] \in Extensions(h)
    BY <1>4, <2>2
  <2>4. o[i - n] = o[j - n]
    <3>1. Append(h, o[i - n]) = Append(h, o[j - n])
      BY <1>7, <1>8, <2>2
    <3>2. Leads(Append(h, o[i - n]), Append(h, o[j - n]))
      BY <1>6, <2>3, <3>1, LeadsSelf
    <3> QED BY <1>5, <1>6, <2>3, <3>2, AppendsDiffer
  <2>5. i - n = j - n
    BY <1>4, <2>2, <2>4
  <2> QED BY <1>5, <2>1, <2>5
<1> QED BY <1>5, <1>9, <1>10, <1>11, <1>12, <1>13

LEMMA ExtendSearch ==
    ASSUME SearchTyped, Search, Extend
    PROVE  SearchTyped' /\ Search'
<1> DEFINE h == Head(queue)
           n == Len(queue) - 1
<1>1. /\ pair # NoPair /\ Target[Last(h)] # pair[2]
      /\ UNCHANGED <<pairs, pair, found, pathCache, maxBandwidth>>
  BY DEF Extend, Searching, Arrived
<1>2. /\ h \in Paths /\ h = queue[1] /\ 1 \in DOMAIN queue /\ n \in Nat
      /\ queue' \in Seq(Paths)
      /\ \A k \in DOMAIN queue' : k \in Nat
      /\ \A k \in DOMAIN queue' : k <= n => k + 1 \in DOMAIN queue /\ queue'[k] = queue[k + 1]
      /\ \A k \in DOMAIN queue' : n < k => \E l \in Extensions(h) : queue'[k] = Append(h, l)
      /\ \A k \in DOMAIN queue : k \in Nat
      /\ \A k \in DOMAIN queue : k # 1 => \E i \in DOMAIN queue' : queue'[i] = queue[k]
      /\ \A l \in Extensions(h) : \E i \in DOMAIN queue' : queue'[i] = Append(h, l)
      /\ \A i, j \in DOMAIN queue' : n < i /\ n < j /\ queue'[i] = queue'[j] => i = j
  <2> HIDE DEF h, n
  <2>1. h = Head(queue) /\ n = Len(queue) - 1
    BY DEF h, n
  <2> QED BY <2>1, ExtendedQueue
<1> HIDE DEF h, n
<1>3. Grown /\ NoneMissed /\ ShortestFirst /\ Apart /\ pair \in AllPairs /\ Len(found) <= K
  BY <1>1 DEF Search, SearchTyped
<1>4. /\ \A k \in DOMAIN queue : k >= 1 /\ queue[k] \in Paths /\ Len(queue[k]) \in Nat
      /\ \A k \in DOMAIN found : found[k] \in Paths /\ Len(found[k]) \in Nat
      /\ \A l \in Extensions(h) : /\ l \in Links /\ Append(h, l) \in Paths
                                 /\ Len(Append(h, l)) = Len(h) + 1
  <2>1. \A k \in DOMAIN queue : k >= 1 /\ queue[k] \in Paths
    BY DEF SearchTyped
  <2>2. \A k \in DOMAIN found : found[k] \in Paths
    BY DEF SearchTyped
  <2>3. \A l \in Extensions(h) : l \in Links
    BY DEF Extensions, Adjacency
  <2> QED BY <1>2, <2>1, <2>2, <2>3, AppendOf, PathTyped
<1>5. SearchTyped'
  BY <1>1, <1>2 DEF SearchTyped
<1>6. Grown'
  <2>1. \A l \in Extensions(h) : Onward(Append(h, l), pair[1])
    BY <1>2, <1>3, OnwardExtended DEF Grown
  <2>2. ASSUME NEW k \in DOMAIN queue' PROVE Onward(queue'[k], pair[1])
    <3>1. CASE k <= n
      BY <1>2, <1>3, <3>1 DEF Grown
    <3>2. CASE n < k
      BY <1>2, <2>1, <3>2
    <3> QED BY <1>2, <3>1, <3>2
  <2> QED BY <1>1, <1>3, <2>2 DEF Grown
<1>7. NoneMissed'
  <2> SUFFICES ASSUME NEW w \in SimplePaths[pair], NEW i \in DOMAIN queue, Leads(queue[i], w)
               PROVE  \E j \in DOMAIN queue' : Leads(queue'[j], w)
    BY <1>1, <1>3 DEF NoneMissed
  <2>1. CASE i = 1
    <3>1. PICK l \in Extensions(h) : Leads(Append(h, l), w)
      BY <1>1, <1>2, <1>3, <2>1, NextLink
    <3> QED BY <1>2, <3>1
  <2>2. CASE i # 1
    BY <1>2, <2>2
  <2> QED BY <2>1, <2>2
<1>8. ShortestFirst'
  <2>1. \A k \in DOMAIN queue : Len(h) <= Len(queue[k]) /\ Len(queue[k]) <= Len(h) + 1
    <3> SUFFICES ASSUME NEW k \in DOMAIN queue
                 PROVE  Len(h) <= Len(queue[k]) /\ Len(queue[k]) <= Len(h) + 1
      OBVIOUS
    <3>1. k = 1 \/ 1 < k
      BY <1>2, <1>4
    <3> QED BY <1>2, <1>3, <1>4, <3>1 DEF ShortestFirst
  <2>2. \A k \in DOMAIN queue' : /\ Len(queue'[k]) \in Nat
                                 /\ Len(h) <= Len(queue'[k]) /\ Len(queue'[k]) <= Len(h) + 1
                                 /\ n < k => Len(queue'[k]) = Len(h) + 1
    BY <1>2, <1>4, <2>1
  <2>3. ASSUME NEW i \in DOMAIN queue', NEW j \in DOMAIN queue', i < j
        PROVE  Len(queue'[i]) <= Len(queue'[j])
    <3>1. CASE n < j
      BY <2>2, <3>1
    <3>2. CASE j <= n
      <4>1. /\ i + 1 \in DOMAIN queue /\ queue'[i] = queue[i + 1]
            /\ j + 1 \in DOMAIN queue /\ queue'[j] = queue[j + 1] /\ i + 1 < j + 1
        BY <1>2, <2>3, <3>2
      <4> QED BY <1>3, <4>1 DEF ShortestFirst
    <3> QED BY <1>2, <3>1, <3>2
  <2>4. \A i, j \in DOMAIN queue' : Len(queue'[j]) <= Len(queue'[i]) + 1
    BY <1>2, <2>2, PathTyped
  <2>5. \A i \in DOMAIN found : Len(found[i]) <= Len(h)
    BY <1>2, <1>3 DEF ShortestFirst
  <2>6. \A i \in DOMAIN found, j \in DOMAIN queue' : Len(found[i]) <= Len(queue'[j])
    BY <1>2, <1>4, <2>2, <2>5
  <2> QED BY <1>1, <1>3, <2>3, <2>4, <2>6 DEF ShortestFirst
<1>9. Apart'
  <2>1. ASSUME NEW i \in DOMAIN queue', NEW j \in DOMAIN queue', Leads(queue'[i], queue'[j])
        PROVE  i = j
    <3>1. CASE i <= n /\ j <= n
      <4>1. i + 1 = j + 1
        BY <1>2, <1>3, <2>1, <3>1 DEF Apart
      <4> QED BY <1>2, <4>1
    <3>2. CASE n < i /\ j <= n
      <4>1. PICK l \in Extensions(h) : queue'[i] = Append(h, l)
        BY <1>2, <3>2
      <4>2. j + 1 \in DOMAIN queue /\ queue'[j] = queue[j + 1] /\ j + 1 # 1
        BY <1>2, <3>2, <1>4
      <4>3. Leads(h, queue[j + 1])
        BY <1>2, <1>4, <2>1, <4>1, <4>2, LeadsAppend
      <4> QED BY <1>2, <1>3, <4>2, <4>3 DEF Apart
    <3>3. CASE i <= n /\ n < j
      <4>1. PICK l \in Extensions(h) : queue'[j] = Append(h, l)
        BY <1>2, <3>3
      <4>2. i + 1 \in DOMAIN queue /\ queue'[i] = queue[i + 1] /\ i + 1 # 1
        BY <1>2, <3>3, <1>4
      <4>3. Leads(queue[i + 1], h) \/ Leads(h, queue[i + 1])
        BY <1>2, <1>4, <2>1, <4>1, <4>2, LeadsAppend
      <4> QED BY <1>2, <1>3, <4>2, <4>3 DEF Apart
    <3>4. CASE n < i /\ n < j
      <4>1. PICK l \in Extensions(h) : queue'[i] = Append(h, l)
        BY <1>2, <3>4
      <4>2. PICK m \in Extensions(h) : queue'[j] = Append(h, m)
        BY <1>2, <3>4
      <4>3. l = m
        BY <1>2, <1>4, <2>1, <4>1, <4>2, AppendsDiffer
      <4> QED BY <1>2, <3>4, <4>1, <4>2, <4>3
    <3> QED BY <1>2, <3>1, <3>2, <3>3, <3>4
  <2>2. ASSUME NEW i \in DOMAIN queue', NEW j \in DOMAIN found, Leads(queue'[i], found[j])
        PROVE  FALSE
    <3>1. CASE i <= n
      BY <1>2, <1>3, <2>2, <3>1 DEF Apart
    <3>2. CASE n < i
      <4>1. PICK l \in Extensions(h) : queue'[i] = Append(h, l)
        BY <1>2, <3>2
      <4>2. Leads(h, found[j])
        BY <1>2, <1>4, <2>2, <4>1, LeadsAppend
      <4> QED BY <1>2, <1>3, <4>2 DEF Apart
    <3> QED BY <1>2, <3>1, <3>2
  <2> QED BY <1>1, <1>3, <2>1, <2>2 DEF Apart
<1> QED BY <1>1, <1>3, <1>5, <1>6, <1>7, <1>8, <1>9 DEF Search

-----------------------------------------------------------------------------
(* What the search leaves in the cache *)

LEMMA FunctionsFinite ==
    ASSUME NEW S, IsFiniteSet(S)
    PROVE  \A n \in Nat : IsFiniteSet([1 .. n -> S])
<1> DEFINE Bad == {n \in Nat : ~ IsFiniteSet([1 .. n -> S])}
<1> SUFFICES ASSUME Bad # {} PROVE FALSE
  OBVIOUS
<1>1. PICK n \in Bad : \A m \in Bad : n <= m
  <2>1. Bad \subseteq Nat
    OBVIOUS
  <2> HIDE DEF Bad
  <2> QED BY <2>1, LeastNatural
<1>2. CASE n = 0
  <2> DEFINE none == [i \in {} |-> i]
  <2>1. \A f \in [1 .. 0 -> S] : f = none
    OBVIOUS
  <2>2. [1 .. 0 -> S] \in SUBSET {none}
    BY <2>1
  <2> HIDE DEF none
  <2>3. IsFiniteSet({none})
    BY FS_Singleton
  <2>4. IsFiniteSet([1 .. 0 -> S])
    BY <2>2, <2>3, FS_Subset
  <2> QED BY <1>1, <1>2, <2>4
<1>3. CASE n # 0
  <2> DEFINE F == [1 .. n -> S]
             G == [1 .. n - 1 -> S]
             split == [f \in F |-> <<[i \in 1 .. n - 1 |-> f[i]], f[n]>>]
  <2>1. n - 1 \in Nat /\ n \in Nat /\ n - 1 \notin Bad
    BY <1>1, <1>3
  <2>2. IsFiniteSet(G \X S)
    BY <2>1, FS_Product
  <2>3. \A f \in F : split[f] \in G \X S
    BY <2>1, <1>3
  <2>4. ASSUME NEW f \in F, NEW g \in F, split[f] = split[g] PROVE f = g
    <3>1. [i \in 1 .. n - 1 |-> f[i]] = [i \in 1 .. n - 1 |-> g[i]] /\ f[n] = g[n]
      BY <2>4
    <3>2. \A i \in 1 .. n - 1 : f[i] = g[i]
      BY <3>1
    <3>3. \A i \in 1 .. n : f[i] = g[i]
      BY <2>1, <3>1, <3>2
    <3> QED BY <3>3
  <2>5. split \in Injection(F, G \X S)
    <3>1. split \in [F -> G \X S]
      BY <2>3
    <3> QED BY <2>4, <3>1 DEF Injection, IsInjective
  <2>6. IsFiniteSet(F)
    <3> HIDE DEF F, G, split
    <3> QED BY <2>2, <2>5, FS_Injection
  <2> QED BY <1>1, <2>6
<1> QED BY <1>2, <1>3

LEMMA SimplePathsFinite ==
    ASSUME NEW q \in AllPairs
    PROVE  IsFiniteSet(SimplePaths[q]) /\ Cardinality(SimplePaths[q]) \in Nat
<1> DEFINE N == 1 .. Cardinality(Routers) - 1
           lists == [n \in N |-> [1 .. n -> Links]]
           all == {lists[n] : n \in N}
<1>1. Cardinality(Routers) \in Nat
  BY TopologyAssumption, FS_CardinalityType
<1>2. IsFiniteSet(N) /\ \A n \in N : n \in Nat
  BY <1>1, FS_Interval
<1>3. \A n \in N : IsFiniteSet(lists[n])
  BY <1>2, FunctionsFinite, TopologyAssumption
<1>4. UNION {[1 .. n -> Links] : n \in N} = UNION all
  OBVIOUS
<1>5. SimplePaths[q] \in SUBSET UNION all
  BY <1>4 DEF SimplePaths, Loopfree
<1> HIDE DEF N, lists
<1>6. IsFiniteSet(all)
  BY <1>2, FiniteImage
<1>7. IsFiniteSet(UNION all)
  BY <1>3, <1>6, FS_UNION
<1> HIDE DEF all
<1>8. IsFiniteSet(SimplePaths[q])
  BY <1>5, <1>7, FS_Subset
<1> QED BY <1>8, FS_CardinalityType

\* What KShortest says of the paths of one pair.
Best(q, paths) ==
    LET cached == ToSet(paths)
    IN  /\ cached \subseteq SimplePaths[q]
        /\ Cardinality(cached) = Len(paths)
        /\ Len(paths) = Min({K, Cardinality(SimplePaths[q])})
        /\ \A p \in SimplePaths[q] \ cached, c \in cached : Len(c) <= Len(p)
        /\ \A i, j \in DOMAIN paths : i < j => Len(paths[i]) <= Len(paths[j])

LEMMA LesserOfTwo ==
    ASSUME NEW m \in Nat, NEW n \in Nat, m <= n
    PROVE  Min({m, n}) = m /\ Min({n, m}) = m
<1>1. \A S : S = {m, n} => Min(S) = m
  BY MinNatIs
<1>2. {m, n} = {n, m}
  OBVIOUS
<1> QED BY <1>1, <1>2

LEMMA SearchEnds ==
    ASSUME SearchTyped, Search, pair # NoPair, ~ Searching
    PROVE  Best(pair, found)
<1> DEFINE cached == ToSet(found)
           ways == SimplePaths[pair]
<1>1. /\ Grown /\ NoneMissed /\ ShortestFirst /\ Apart /\ Len(found) <= K
      /\ pair \in AllPairs
      /\ queue = <<>> \/ Len(found) >= K
  <2>1. Len(found) \in Nat /\ K \in Nat
    BY TopologyAssumption DEF SearchTyped
  <2> QED BY <2>1 DEF Search, SearchTyped, Searching
<1>2. /\ Len(found) \in Nat /\ DOMAIN found = 1 .. Len(found)
      /\ \A i \in DOMAIN queue : queue[i] \in Paths
  BY DEF SearchTyped
<1>3. cached \subseteq ways
  BY <1>1 DEF Grown, ToSet
<1>4. Cardinality(cached) = Len(found)
  <2>1. found \in [1 .. Len(found) -> cached]
    <3>1. \A i \in 1 .. Len(found) : found[i] \in cached
      BY <1>2 DEF ToSet
    <3>2. found = [i \in 1 .. Len(found) |-> found[i]]
      BY <1>2 DEF SearchTyped
    <3> HIDE DEF cached
    <3> QED BY <3>1, <3>2
  <2>2. \A c \in cached : \E i \in 1 .. Len(found) : found[i] = c
    BY <1>2 DEF ToSet
  <2>3. \A i, j \in 1 .. Len(found) : found[i] = found[j] => i = j
    BY <1>1, <1>2 DEF Apart
  <2> HIDE DEF cached
  <2>4. found \in Bijection(1 .. Len(found), cached)
    BY <1>2, <2>1, <2>2, <2>3 DEF Bijection, Injection, IsInjective, Surjection
  <2>5. ExistsBijection(1 .. Len(found), cached)
    BY <2>4 DEF ExistsBijection
  <2> QED BY <1>2, <2>5, FS_CountingElements
<1>5. IsFiniteSet(ways) /\ Cardinality(ways) \in Nat /\ K \in Nat
  BY <1>1, SimplePathsFinite, TopologyAssumption
<1>6. Len(found) = Min({K, Cardinality(ways)})
  <2>1. CASE queue = <<>>
    <3>1. \A w \in ways : w \in cached
      BY <1>1, <2>1 DEF NoneMissed, ToSet
    <3>2. cached = ways
      BY <1>3, <3>1
    <3>3. Cardinality(ways) = Len(found)
      BY <1>4, <3>2
    <3> HIDE DEF ways, cached
    <3> QED BY <1>1, <1>2, <1>5, <3>3, LesserOfTwo
  <2>2. CASE Len(found) >= K
    <3>1. Cardinality(cached) <= Cardinality(ways)
      <4> HIDE DEF cached, ways
      <4>1. cached \in SUBSET ways
        BY <1>3
      <4> QED BY <1>5, <4>1, FS_Subset
    <3> HIDE DEF ways, cached
    <3>2. Len(found) \in Nat /\ K \in Nat /\ Len(found) <= K
      BY <1>1, <1>2, <1>5
    <3>3. Len(found) = K
      BY <2>2, <3>2
    <3> QED BY <1>4, <1>5, <3>1, <3>3, LesserOfTwo
  <2> QED BY <1>1, <2>1, <2>2
<1>7. ASSUME NEW w \in ways \ cached, NEW c \in cached PROVE Len(c) <= Len(w)
  <2>1. PICK i \in DOMAIN queue : Leads(queue[i], w)
    BY <1>1, <1>7 DEF NoneMissed, ToSet
  <2>2. PICK j \in DOMAIN found : found[j] = c
    BY <1>7 DEF ToSet
  <2>3. w \in Paths /\ c \in Paths
    BY <1>1, <1>3, SimplePathsAre
  <2>4. Len(w) \in Nat /\ Len(c) \in Nat /\ Len(queue[i]) \in Nat
    BY <1>2, <2>3, PathTyped
  <2>5. Len(c) <= Len(queue[i])
    BY <1>1, <2>2 DEF ShortestFirst
  <2> QED BY <2>1, <2>4, <2>5 DEF Leads
<1>8. \A i, j \in DOMAIN found : i < j => Len(found[i]) <= Len(found[j])
  BY <1>1 DEF ShortestFirst
<1> HIDE DEF cached, ways
<1>9. /\ cached \subseteq ways
      /\ Cardinality(cached) = Len(found)
      /\ Len(found) = Min({K, Cardinality(ways)})
      /\ \A p \in ways \ cached, c \in cached : Len(c) <= Len(p)
      /\ \A i, j \in DOMAIN found : i < j => Len(found[i]) <= Len(found[j])
  BY <1>3, <1>4, <1>6, <1>7, <1>8
<1> QED BY <1>9, Zenon DEF Best, cached, ways

LEMMA BottleneckTyped ==
    ASSUME NEW p \in Paths
    PROVE  Bottleneck(p) \in Nat
<1> DEFINE S == {Bandwidth[p[i]] : i \in DOMAIN p}
<1>1. S \subseteq Nat /\ S # {}
  <2>1. \A i \in DOMAIN p : Bandwidth[p[i]] \in Nat
    BY PathTyped, TopologyAssumption
  <2>2. 1 \in DOMAIN p
    BY PathTyped
  <2> QED BY <2>1, <2>2
<1> HIDE DEF S
<1>2. Min(S) \in Nat
  BY <1>1, MinNatIs
<1> QED BY <1>2 DEF Bottleneck, S

LEMMA CacheSearch ==
    ASSUME SearchTyped, Search, Cache
    PROVE  /\ SearchTyped' /\ Search'
           /\ pair \in AllPairs /\ Best(pair, found)
           /\ \A q \in AllPairs : pathCache'[q] = IF q = pair THEN found ELSE pathCache[q]
<1>1. /\ pair \in AllPairs /\ ~ Searching /\ pair # NoPair
      /\ pathCache' = [pathCache EXCEPT ![pair] = found]
      /\ pair' = NoPair /\ queue' = <<>> /\ found' = <<>> /\ pairs' = pairs
      /\ maxBandwidth' = Max({maxBandwidth} \union {Bottleneck(found[i]) : i \in DOMAIN found})
  BY DEF Cache, SearchTyped
<1>2. maxBandwidth' \in Nat \union {Unused}
  <2> DEFINE width == [i \in DOMAIN found |-> Bottleneck(found[i])]
             S == {width[i] : i \in DOMAIN found}
             T == {maxBandwidth} \union S
  <2>1. \A i \in DOMAIN found : width[i] \in Nat
    BY BottleneckTyped DEF SearchTyped
  <2>2. IsFiniteSet(DOMAIN found)
    BY FS_Interval DEF SearchTyped
  <2>3. {Bottleneck(found[i]) : i \in DOMAIN found} = S
    OBVIOUS
  <2>4. IsFiniteSet(S)
    <3> HIDE DEF width
    <3> QED BY <2>2, FiniteImage
  <2>5. T \subseteq Nat \union {Unused} /\ T # {}
    BY <2>1 DEF SearchTyped
  <2>6. IsFiniteSet(T)
    <3> HIDE DEF S
    <3>1. T = S \union {maxBandwidth}
      OBVIOUS
    <3> QED BY <2>4, <3>1, FS_AddElement
  <2>7. maxBandwidth' = Max(T)
    BY <1>1, <2>3
  <2> HIDE DEF T
  <2>8. T \subseteq Int
    BY <2>5 DEF Unused
  <2> QED BY <2>5, <2>6, <2>7, <2>8, MaxIs
<1>3. SearchTyped'
  BY <1>1, <1>2 DEF SearchTyped
<1>4. Best(pair, found)
  BY <1>1, SearchEnds
<1> QED BY <1>1, <1>3, <1>4 DEF Search, SearchTyped

SearchInv == SearchTyped /\ Search /\ KShortest

LEMMA KShortestIs ==
    KShortest <=> \A q \in AllPairs \ (pairs \union {pair}) : Best(q, pathCache[q])
BY DEF KShortest, Best

LEMMA InitSearch == Init => SearchInv
<1> SUFFICES ASSUME Init PROVE SearchInv
  OBVIOUS
<1>1. SearchTyped
  BY DEF Init, SearchTyped
<1>2. KShortest
  BY KShortestIs DEF Init
<1> QED BY <1>1, <1>2 DEF Init, Search, SearchInv

LEMMA StepSearch == SearchInv /\ [Next]_vars => SearchInv'
<1> SUFFICES ASSUME SearchInv, [Next]_vars PROVE SearchInv'
  OBVIOUS
<1> USE DEF SearchInv
<1>k. KShortest' <=> \A q \in AllPairs \ (pairs' \union {pair'}) : Best(q, pathCache'[q])
  BY DEF KShortest, Best
<1>1. CASE Begin
  <2>1. /\ SearchTyped' /\ Search'
    BY <1>1, BeginSearch
  <2>2. /\ pair = NoPair /\ pathCache' = pathCache
        /\ pair' \in pairs /\ pairs' = pairs \ {pair'}
    BY <1>1 DEF Begin
  <2>3. KShortest'
    BY <1>k, <2>2, KShortestIs, PairTyped
  <2> QED BY <2>1, <2>3
<1>2. CASE PathFound
  <2>1. UNCHANGED <<pairs, pair, pathCache>>
    BY <1>2 DEF PathFound
  <2>2. KShortest'
    BY <1>k, <2>1, KShortestIs
  <2> QED BY <1>2, <2>2, PathFoundSearch
<1>3. CASE Extend
  <2>1. UNCHANGED <<pairs, pair, pathCache>>
    BY <1>3 DEF Extend
  <2>2. KShortest'
    BY <1>k, <2>1, KShortestIs
  <2> QED BY <1>3, <2>2, ExtendSearch
<1>4. CASE Cache
  <2>1. pairs' = pairs
    BY <1>4 DEF Cache
  <2>2. KShortest'
    BY <1>k, <1>4, <2>1, KShortestIs, CacheSearch
  <2> QED BY <1>4, <2>2, CacheSearch
<1>5. ASSUME UNCHANGED topology PROVE SearchInv'
  <2>1. UNCHANGED <<pairs, pair, queue, found, pathCache, maxBandwidth>>
    BY <1>5 DEF topology
  <2>2. KShortest'
    BY <1>k, <2>1, KShortestIs
  <2>3. SearchTyped'
    BY <2>1 DEF SearchTyped
  <2>4. Search'
    BY <2>1 DEF Search, Grown, NoneMissed, ShortestFirst, Apart
  <2> QED BY <2>2, <2>3, <2>4
<1>6. CASE Tick \/ Update \/ UNCHANGED vars
  BY <1>5, <1>6 DEF Tick, Update, vars
<1>7. ASSUME NEW r \in Reservations,
             Reserve(r) \/ Infeasible(r) \/ ReserveFails(r) \/ Delete(r) \/ DeleteUnknown(r)
      PROVE  SearchInv'
  BY <1>5, <1>7 DEF Reserve, Infeasible, ReserveFails, Delete, DeleteUnknown
<1> QED BY <1>1, <1>2, <1>3, <1>4, <1>6, <1>7 DEF Next

\* The paths that are cached for two access points are the K shortest loop-free
\* ones, or all there are, in every topology and whatever order the links of a
\* router are read in.
THEOREM ShortestPathsCached == Spec => []KShortest
<1>1. SearchInv => KShortest
  BY DEF SearchInv
<1> QED BY <1>1, InitSearch, StepSearch, PTL DEF Spec

-----------------------------------------------------------------------------
(* The bookings *)

BookTyped ==
    /\ clock \in 0 .. MaxTime /\ start \in 0 .. clock
    /\ active \subseteq Reservations
    /\ res \in [Reservations -> ReservationType]
    /\ held \in [Slots -> SUBSET Reservations]
    /\ carried \in [Links -> [Slots -> SUBSET Reservations]]
    /\ reservedPaths \in [Reservations -> [Slots -> Seq(Links)]]
    /\ rebooked \subseteq active

\* What is booked of a rigid reservation is as long as it is.
Exact ==
    \A r \in active :
        ~ res[r].ask.moldable => res[r].end = res[r].begin + res[r].ask.duration

CarriedFits ==
    \A l \in Links, s \in Slots :
        IsFiniteSet(carried[l][s]) /\ Load(l, s) <= Bandwidth[l]

\* What RigidIsRouted says of one slot.
Routed(r, s) ==
    LET p == reservedPaths[r][s]
    IN  /\ r \in held[s]
        /\ p # <<>> /\ IsPath(p, <<res[r].ask.from, res[r].ask.to>>)
        /\ \A i \in DOMAIN p : r \in carried[p[i]][s]

BookInv == BookTyped /\ Exact /\ CarriedFits /\ RigidIsRouted /\ HeldIsBooked

LEMMA RigidIsRoutedIs ==
    RigidIsRouted <=>
        \A r \in active \ rebooked : ~ res[r].ask.moldable =>
            \A s \in Slots : start <= s /\ s \in Booked(r) => Routed(r, s)
BY DEF RigidIsRouted, Routed

LEMMA AskTyped ==
    ASSUME BookTyped, NEW r \in Reservations
    PROVE  /\ res[r] \in ReservationType
           /\ res[r].ask \in Requests
           /\ res[r].ask.start \in Nat /\ res[r].ask.end \in Nat
           /\ res[r].ask.duration \in Nat \ {0} /\ res[r].ask.capacity \in Nat \ {0}
           /\ res[r].ask.moldable \in BOOLEAN
           /\ res[r].begin \in Int /\ res[r].end \in Int
<1>1. res[r] \in ReservationType
  BY DEF BookTyped
<1>2. res[r].ask \in Requests /\ res[r].begin \in Int /\ res[r].end \in Int
  BY <1>1 DEF ReservationType
<1>3. res[r].ask \in RequestType
  BY <1>2, RequestsAssumption
<1> QED BY <1>1, <1>2, <1>3 DEF RequestType

LEMMA SlotsTyped ==
    ASSUME BookTyped
    PROVE  /\ clock \in Nat /\ start \in Nat /\ start <= clock
           /\ \A s \in Slots : s \in Nat
           /\ Max(Window) = clock + NumberOfSlots - 1
           /\ Max(Window) \in Nat
<1>1. clock \in Nat /\ start \in Nat /\ start <= clock /\ NumberOfSlots \in Nat \ {0}
  BY RequestsAssumption DEF BookTyped
<1> DEFINE last == clock + NumberOfSlots - 1
<1>2. last \in Nat /\ clock <= last
  BY <1>1
<1>3. \A s \in Slots : s \in Nat
  BY RequestsAssumption DEF Slots
<1>4. Window = clock .. last
  BY DEF Window
<1> HIDE DEF last
<1>5. Window \subseteq Int /\ IsFiniteSet(Window) /\ last \in Window
  BY <1>1, <1>2, <1>4, FS_Interval
<1>6. Max(Window) \in Window /\ last <= Max(Window)
  BY <1>5, MaxIs
<1>7. Max(Window) = last
  BY <1>1, <1>2, <1>4, <1>6
<1> QED BY <1>1, <1>2, <1>3, <1>7 DEF last

\* What stays in a slot when the window slides is in its interval still.
LEMMA SlideKeeps ==
    ASSUME BookTyped, HeldIsBooked, NEW s \in Slots
    PROVE  /\ SlidHeld[s] \subseteq held[s]
           /\ clock <= s => SlidHeld[s] = held[s]
           /\ \A r \in SlidHeld[s] : ~ res[r].ask.moldable =>
                  r \in SlidActive \ SlidRebooked /\ clock <= s /\ s \in Booked(r)
<1>1. /\ SlidHeld[s] = IF s \in Leaving THEN {} ELSE held[s]
      /\ s \in Leaving <=> start <= s /\ s < clock
  BY DEF SlidHeld, Leaving
<1>2. s \in Nat /\ clock \in Nat
  BY SlotsTyped
<1>3. ASSUME NEW r \in SlidHeld[s], ~ res[r].ask.moldable
      PROVE  r \in SlidActive \ SlidRebooked /\ clock <= s /\ s \in Booked(r)
  <2>1. s \notin Leaving /\ r \in held[s]
    BY <1>1, <1>3
  <2>2. start <= s /\ s \in Booked(r) /\ r \in active \ rebooked
    BY <1>3, <2>1 DEF HeldIsBooked
  <2>3. clock <= s
    BY <1>1, <1>2, <2>1, <2>2
  <2>4. r \in Reservations /\ res[r].end \in Int /\ res[r].begin \in Int
    BY <2>2, AskTyped DEF BookTyped
  <2>5. ~ (res[r].end - 1 < clock)
    BY <1>2, <2>2, <2>3, <2>4 DEF Booked
  <2>6. r \notin Expired
    BY <2>5 DEF Expired, LastSlot, Leaving
  <2> QED BY <2>2, <2>3, <2>6 DEF SlidActive, SlidRebooked
<1>4. clock <= s => s \notin Leaving
  BY <1>1, <1>2
<1> QED BY <1>1, <1>3, <1>4

LEMMA SlidResIs ==
    ASSUME BookTyped
    PROVE  /\ SlidRes \in [Reservations -> ReservationType]
           /\ \A x \in Reservations : /\ SlidRes[x].ask = res[x].ask
                                      /\ SlidRes[x].begin = res[x].begin
                                      /\ SlidRes[x].end = res[x].end
                                      /\ x \notin Expired => SlidRes[x] = res[x]
<1>1. ASSUME NEW x \in Reservations
      PROVE  /\ SlidRes[x] \in ReservationType
             /\ SlidRes[x].ask = res[x].ask
             /\ SlidRes[x].begin = res[x].begin
             /\ SlidRes[x].end = res[x].end
             /\ x \notin Expired => SlidRes[x] = res[x]
  <2>1. res[x] \in ReservationType
    BY AskTyped
  <2>2. SlidRes[x] = IF x \in Expired THEN [res[x] EXCEPT !.state = "Deleted"] ELSE res[x]
    BY DEF SlidRes
  <2>3. CASE x \in Expired
    BY <2>1, <2>2, <2>3 DEF ReservationType
  <2>4. CASE x \notin Expired
    BY <2>1, <2>2, <2>4
  <2> QED BY <2>3, <2>4
<1>2. SlidRes = [x \in Reservations |-> SlidRes[x]]
  BY DEF SlidRes
<1>3. SlidRes \in [Reservations -> ReservationType]
  <2> HIDE DEF SlidRes
  <2> QED BY <1>1, <1>2
<1> QED BY <1>1, <1>3

\* What every reservation asks for, which never changes.
Asked == [r \in Reservations |-> res[r].ask.capacity]

LEMMA LoadIs ==
    ASSUME BookTyped
    PROVE  /\ \A r \in Reservations : Asked[r] \in Int
           /\ \A l, s : Load(l, s) = SumFunctionOnSet(Asked, carried[l][s])
<1>1. \A r \in Reservations : Asked[r] \in Int
  BY AskTyped DEF Asked
<1> QED BY <1>1 DEF Load, Asked

LEMMA LeftTyped ==
    ASSUME BookTyped, CarriedFits, NEW l \in Links, NEW s \in Slots
    PROVE  Left(l, s) \in Int /\ Load(l, s) \in Int /\ Bandwidth[l] \in Nat
<1>1. IsFiniteSet(carried[l][s]) /\ carried[l][s] \subseteq Reservations
  BY DEF CarriedFits, BookTyped
<1>2. Load(l, s) \in Int
  BY <1>1, LoadIs, SumType
<1>3. Bandwidth[l] \in Nat
  BY TopologyAssumption
<1> QED BY <1>2, <1>3 DEF Left

\* Nothing is asked for anew, and no link carries more: what the links carry
\* fits as before.
LEMMA CarriedKept ==
    ASSUME BookTyped, CarriedFits,
           \A r \in Reservations : res'[r].ask = res[r].ask,
           UNCHANGED carried
    PROVE  CarriedFits'
<1>1. Asked' = Asked
  BY DEF Asked
<1>2. \A l, s : Load(l, s)' = SumFunctionOnSet(Asked', carried'[l][s])
  BY DEF Load, Asked
<1>3. \A l, s : Load(l, s)' = Load(l, s)
  BY <1>1, <1>2, LoadIs
<1> QED BY <1>3 DEF CarriedFits

\* An operation that slides the window and may end a booking, and books none.
LEMMA SlideStep ==
    ASSUME BookInv,
           start' = clock, clock' = clock,
           active' \subseteq SlidActive, rebooked' = rebooked \intersect active',
           res' \in [Reservations -> ReservationType],
           \A x \in Reservations : /\ res'[x].ask = res[x].ask
                                  /\ res'[x].begin = res[x].begin
                                  /\ res'[x].end = res[x].end,
           held' = [s \in Slots |-> held'[s]],
           \A s \in Slots : /\ held'[s] \subseteq SlidHeld[s]
                            /\ \A x \in SlidHeld[s] : x \in active' => x \in held'[s]
                            /\ \A x \in held'[s] : ~ res[x].ask.moldable => x \in active',
           UNCHANGED <<carried, reservedPaths>>
    PROVE  BookInv'
<1> USE DEF BookInv
<1>1. active' \subseteq active \ Expired /\ active' \subseteq Reservations
  BY DEF SlidActive, BookTyped
<1>2. ASSUME NEW x \in Reservations PROVE Booked(x)' = Booked(x)
  BY <1>2 DEF Booked
<1>3. BookTyped'
  <2>1. start' \in 0 .. clock' /\ clock' \in 0 .. MaxTime
    BY SlotsTyped DEF BookTyped
  <2>2. \A s \in Slots : held'[s] \subseteq Reservations
    BY SlideKeeps DEF BookTyped
  <2>3. held' \in [Slots -> SUBSET Reservations]
    BY <2>2
  <2> QED BY <1>1, <2>1, <2>3 DEF BookTyped
<1>4. Exact'
  BY <1>1 DEF Exact
<1>5. CarriedFits'
  BY CarriedKept
<1>6. RigidIsRouted'
  <2> SUFFICES ASSUME NEW r \in active' \ rebooked', ~ res'[r].ask.moldable,
                      NEW s \in Slots, start' <= s, s \in Booked(r)'
               PROVE  Routed(r, s)'
    BY DEF RigidIsRouted, Routed
  <2>1. r \in active \ rebooked /\ r \in Reservations
    BY <1>1
  <2>2. clock \in Nat /\ start \in Nat /\ start <= clock /\ s \in Nat
    BY SlotsTyped
  <2>3. Routed(r, s)
    BY <1>2, <2>1, <2>2, RigidIsRoutedIs
  <2>4. r \in held'[s]
    BY <2>2, <2>3, SlideKeeps DEF Routed
  <2> QED BY <2>1, <2>3, <2>4 DEF Routed
<1>7. HeldIsBooked'
  <2> SUFFICES ASSUME NEW s \in Slots, NEW x \in held'[s], ~ res'[x].ask.moldable
               PROVE  x \in active' \ rebooked' /\ start' <= s /\ s \in Booked(x)'
    BY DEF HeldIsBooked
  <2>1. x \in SlidHeld[s] /\ x \in Reservations
    BY SlideKeeps DEF BookTyped
  <2>2. ~ res[x].ask.moldable
    BY <2>1
  <2>3. x \in SlidActive \ SlidRebooked /\ clock <= s /\ s \in Booked(x)
    BY <2>1, <2>2, SlideKeeps
  <2>4. x \notin rebooked
    BY <2>3 DEF SlidActive, SlidRebooked
  <2>5. x \in active'
    BY <2>2
  <2> QED BY <1>2, <2>1, <2>3, <2>4, <2>5
<1> QED BY <1>3, <1>4, <1>5, <1>6, <1>7

\* The slide alone.
LEMMA SlidIs ==
    ASSUME BookInv
    PROVE  /\ SlidHeld = [s \in Slots |-> SlidHeld[s]]
           /\ SlidRebooked = rebooked \intersect SlidActive
           /\ \A s \in Slots : \A x \in SlidHeld[s] : ~ res[x].ask.moldable => x \in SlidActive
<1>1. SlidHeld = [s \in Slots |-> SlidHeld[s]]
  BY DEF SlidHeld
<1>2. SlidRebooked = rebooked \intersect SlidActive
  BY DEF SlidRebooked, SlidActive, BookInv, BookTyped
<1> QED BY <1>1, <1>2, SlideKeeps DEF BookInv

LEMMA UpdateBook ==
    ASSUME BookInv, Update
    PROVE  BookInv'
<1>1. /\ start' = clock /\ clock' = clock /\ active' = SlidActive /\ rebooked' = SlidRebooked
      /\ res' = SlidRes /\ held' = SlidHeld /\ UNCHANGED <<carried, reservedPaths>>
  BY DEF Update, Slide
<1>2. /\ res' \in [Reservations -> ReservationType]
      /\ \A x \in Reservations : /\ res'[x].ask = res[x].ask
                                 /\ res'[x].begin = res[x].begin
                                 /\ res'[x].end = res[x].end
  BY <1>1, SlidResIs DEF BookInv
<1> QED BY <1>1, <1>2, SlidIs, SlideStep

\* Only the state of r changes.
LEMMA StateOnly ==
    ASSUME NEW f \in [Reservations -> ReservationType], NEW r \in Reservations
    PROVE  LET g == [f EXCEPT ![r].state = "Rejected"]
           IN  /\ g \in [Reservations -> ReservationType]
               /\ \A x \in Reservations : /\ g[x].ask = f[x].ask
                                          /\ g[x].begin = f[x].begin
                                          /\ g[x].end = f[x].end
<1> DEFINE g == [f EXCEPT ![r].state = "Rejected"]
<1>1. f[r] \in ReservationType /\ g[r] = [f[r] EXCEPT !.state = "Rejected"]
  OBVIOUS
<1>2. /\ g[r] \in ReservationType
      /\ g[r].ask = f[r].ask /\ g[r].begin = f[r].begin /\ g[r].end = f[r].end
  BY <1>1 DEF ReservationType
<1>3. \A x \in Reservations : x # r => g[x] = f[x]
  OBVIOUS
<1>4. g \in [Reservations -> ReservationType]
  BY <1>2, <1>3
<1> QED BY <1>2, <1>3, <1>4

LEMMA ReserveFailsBook ==
    ASSUME BookInv, NEW r \in Reservations, ReserveFails(r)
    PROVE  BookInv'
<1>1. /\ start' = clock /\ clock' = clock /\ active' = SlidActive /\ rebooked' = SlidRebooked
      /\ res' = [SlidRes EXCEPT ![r].state = "Rejected"] /\ held' = SlidHeld
      /\ UNCHANGED <<carried, reservedPaths>>
  BY DEF ReserveFails, Slide
<1>2. SlidRes \in [Reservations -> ReservationType]
  BY SlidResIs DEF BookInv
<1>3. /\ res' \in [Reservations -> ReservationType]
      /\ \A x \in Reservations : /\ res'[x].ask = SlidRes[x].ask
                                 /\ res'[x].begin = SlidRes[x].begin
                                 /\ res'[x].end = SlidRes[x].end
  BY <1>1, <1>2, StateOnly
<1>4. \A x \in Reservations : /\ res'[x].ask = res[x].ask
                              /\ res'[x].begin = res[x].begin
                              /\ res'[x].end = res[x].end
  BY <1>3, SlidResIs DEF BookInv
<1> QED BY <1>1, <1>3, <1>4, SlidIs, SlideStep

LEMMA DeleteBook ==
    ASSUME BookInv, NEW r \in Reservations, Delete(r)
    PROVE  BookInv'
<1> DEFINE gone == IF res[r].end <= clock THEN {} ELSE {r}
<1>1. /\ start' = clock /\ clock' = clock
      /\ active' = SlidActive \ gone /\ rebooked' = SlidRebooked \ gone
      /\ res' = [x \in Reservations |->
            IF x \in gone THEN [res[x] EXCEPT !.state = "Deleted"] ELSE SlidRes[x]]
      /\ held' = [s \in Slots |->
            IF s \in Booked(r) THEN SlidHeld[s] \ gone ELSE SlidHeld[s]]
      /\ UNCHANGED <<carried, reservedPaths>>
      /\ gone \subseteq {r}
  BY DEF Delete
<1> HIDE DEF gone
<1>2. ASSUME NEW s \in Slots
      PROVE  /\ held'[s] \subseteq SlidHeld[s]
             /\ \A x \in SlidHeld[s] : x \in active' => x \in held'[s]
             /\ \A x \in held'[s] : ~ res[x].ask.moldable => x \in active'
  <2>1. held'[s] = IF s \in Booked(r) THEN SlidHeld[s] \ gone ELSE SlidHeld[s]
    BY <1>1
  <2>2. ASSUME NEW x \in held'[s], ~ res[x].ask.moldable PROVE x \in active'
    <3>1. x \in SlidHeld[s]
      BY <2>1
    <3>2. x \in SlidActive /\ s \in Booked(x)
      BY <2>2, <3>1, SlideKeeps DEF BookInv
    <3>3. x \notin gone
      BY <1>1, <2>1, <3>2
    <3> QED BY <1>1, <3>2, <3>3
  <2> QED BY <1>1, <2>1, <2>2
<1>3. ASSUME NEW x \in Reservations
      PROVE  /\ res'[x] \in ReservationType
             /\ res'[x].ask = res[x].ask
             /\ res'[x].begin = res[x].begin
             /\ res'[x].end = res[x].end
  <2>1. res[x] \in ReservationType
    BY AskTyped DEF BookInv
  <2>2. CASE x \in gone
    <3>1. res'[x] = [res[x] EXCEPT !.state = "Deleted"]
      BY <1>1, <2>2
    <3> QED BY <2>1, <3>1 DEF ReservationType
  <2>3. CASE x \notin gone
    <3>1. res'[x] = SlidRes[x]
      BY <1>1, <2>3
    <3> QED BY <3>1, SlidResIs DEF BookInv
  <2> QED BY <2>2, <2>3
<1>4. res' \in [Reservations -> ReservationType]
  <2>1. res' = [x \in Reservations |-> res'[x]]
    BY <1>1
  <2> QED BY <1>3, <2>1
<1>5. active' \subseteq SlidActive /\ rebooked' = rebooked \intersect active'
  BY <1>1, SlidIs
<1>6. held' = [s \in Slots |-> held'[s]]
  BY <1>1
<1> QED BY <1>1, <1>2, <1>3, <1>4, <1>5, <1>6, SlideStep

\* A request that is answered without the schedule.
LEMMA RejectedBook ==
    ASSUME BookInv, NEW r \in Reservations, Infeasible(r) \/ DeleteUnknown(r)
    PROVE  BookInv'
<1> USE DEF BookInv
<1>1. /\ res' = [res EXCEPT ![r].state = "Rejected"]
      /\ UNCHANGED <<clock, start, active, held, carried, reservedPaths, rebooked>>
  BY DEF Infeasible, DeleteUnknown
<1>2. res \in [Reservations -> ReservationType]
  BY DEF BookTyped
<1>3. /\ res' \in [Reservations -> ReservationType]
      /\ \A x \in Reservations : /\ res'[x].ask = res[x].ask
                                 /\ res'[x].begin = res[x].begin
                                 /\ res'[x].end = res[x].end
  BY <1>1, <1>2, StateOnly
<1>4. \A x \in Reservations : Booked(x)' = Booked(x)
  BY <1>3 DEF Booked
<1>5. BookTyped'
  BY <1>1, <1>3 DEF BookTyped
<1>6. Exact'
  BY <1>1, <1>3 DEF Exact, BookTyped
<1>7. CarriedFits'
  BY <1>1, <1>3, CarriedKept
<1>8. RigidIsRouted'
  BY <1>1, <1>3, <1>4 DEF RigidIsRouted, BookTyped
<1>9. HeldIsBooked'
  BY <1>1, <1>3, <1>4 DEF HeldIsBooked, BookTyped
<1> QED BY <1>5, <1>6, <1>7, <1>8, <1>9

LEMMA TickBook ==
    ASSUME BookInv, Tick
    PROVE  BookInv'
<1>1. /\ clock < MaxTime /\ clock' = clock + 1
      /\ UNCHANGED <<start, active, res, held, carried, reservedPaths, rebooked>>
  BY DEF Tick, schedule
<1>2. BookTyped'
  BY <1>1, RequestsAssumption DEF BookInv, BookTyped
<1>3. CarriedFits'
  BY <1>1, CarriedKept DEF BookInv
<1> QED BY <1>1, <1>2, <1>3 DEF BookInv, Exact, RigidIsRouted, HeldIsBooked, Booked

-----------------------------------------------------------------------------
(* Reserve *)

LEMMA NearestTyped ==
    ASSUME BookTyped, NEW n \in Int
    PROVE  Nearest(n) \in Int /\ clock <= Nearest(n)
<1>1. clock \in Nat /\ Max(Window) = clock + NumberOfSlots - 1 /\ NumberOfSlots \in Nat \ {0}
  BY SlotsTyped, RequestsAssumption
<1> QED BY <1>1 DEF Nearest

\* The intervals that a request may be given; a rigid one that is booked is
\* given what is left of its interval.
LEMMA CandidateIs ==
    ASSUME BookTyped, NEW r \in Reservations, NEW c \in Candidates(r)
    PROVE  /\ c.begin \in Int /\ c.end \in Int /\ clock <= c.begin
           /\ ~ res[r].ask.moldable =>
                 /\ c.end = c.begin + res[r].ask.duration
                 /\ \A s \in Slots : s \in c.begin .. c.end - 1 =>
                       Available(r, s) = res[r].ask.capacity
                 /\ res[r].end = res[r].begin + res[r].ask.duration =>
                       \A s \in Booked(r) : clock <= s => s \in c.begin .. c.end - 1
<1> DEFINE q == res[r].ask
           b == res[r].begin
           l == res[r].end - q.duration
<1>1. /\ b \in Int /\ res[r].end \in Int /\ q.duration \in Nat \ {0} /\ q.moldable \in BOOLEAN
      /\ l \in Int
  BY AskTyped
<1>2. PICK s \in Nearest(b) .. Nearest(l) :
         \E e \in Ends(r, s) : c = [begin |-> Later(s, b), end |-> e]
  BY DEF Candidates
<1>3. PICK e \in Ends(r, s) : c = [begin |-> Later(s, b), end |-> e]
  BY <1>2
<1>4. s \in Int /\ clock <= s
  <2>1. Nearest(b) \in Int /\ clock <= Nearest(b) /\ Nearest(l) \in Int
    BY <1>1, NearestTyped
  <2> HIDE DEF q, b, l
  <2> QED BY <2>1, SlotsTyped
<1>5. Later(s, b) \in Int /\ s <= Later(s, b) /\ clock <= Later(s, b)
  <2> HIDE DEF q, b, l
  <2>1. clock \in Nat /\ b \in Int
    BY <1>1, SlotsTyped
  <2> QED BY <1>4, <2>1 DEF Later
<1>6. CASE q.moldable
  <2>1. e \in MoldableEnds(r, s)
    BY <1>3, <1>6 DEF Ends
  <2>2. Window \subseteq Int
    BY SlotsTyped, RequestsAssumption DEF Window
  <2>3. e \in Int
    BY <2>1, <2>2 DEF MoldableEnds
  <2> QED BY <1>3, <1>5, <1>6, <2>3
<1>7. CASE ~ q.moldable
  <2>1. RigidFits(r, s) /\ e = Later(s, b) + q.duration
    BY <1>3, <1>7 DEF Ends
  <2>2. c.begin = Later(s, b) /\ c.end = Later(s, b) + q.duration
    BY <1>3, <2>1
  <2>3. ASSUME NEW t \in Slots, t \in c.begin .. c.end - 1
        PROVE  Available(r, t) = q.capacity
    <3>1. t \in s .. Later(s, b) + q.duration - 1
      BY <1>1, <1>4, <1>5, <2>2, <2>3, SlotsTyped
    <3> QED BY <2>1, <3>1 DEF RigidFits
  <2>4. ASSUME res[r].end = b + q.duration, NEW t \in Booked(r), clock <= t
        PROVE  t \in c.begin .. c.end - 1
    <3>1. l = b
      BY <1>1, <2>4
    <3>2. s = Nearest(b)
      <4>1. s \in Nearest(b) .. Nearest(b)
        BY <1>2, <3>1
      <4>2. Nearest(b) \in Int
        BY <1>1, NearestTyped
      <4> HIDE DEF b, l, q
      <4> QED BY <4>1, <4>2
    <3>3. t \in Int /\ b <= t /\ t < b + q.duration
      BY <1>1, <2>4 DEF Booked
    <3>4. clock \in Nat /\ Max(Window) \in Nat
      BY SlotsTyped
    <3>5. Later(s, b) = IF b < clock THEN clock ELSE b
      <4> HIDE DEF b, l, q
      <4>1. clock <= Max(Window)
        BY SlotsTyped, RequestsAssumption
      <4> QED BY <1>1, <3>2, <3>4, <4>1 DEF Later, Nearest
    <3> HIDE DEF b, l, q
    <3> QED BY <1>1, <2>2, <2>4, <3>3, <3>4, <3>5
  <2> QED BY <1>1, <1>5, <2>2, <2>3, <2>4
<1> QED BY <1>6, <1>7

\* The path that a slot is booked on is one of those that are cached for the
\* request, and every link of it has room.
LEMMA ChosenIs ==
    ASSUME SearchInv, Built, BookTyped, NEW r \in Reservations, NEW s \in Slots,
           ChosenPath(r, s) # <<>>
    PROVE  /\ ChosenPath(r, s) \in Paths
           /\ IsPath(ChosenPath(r, s), <<res[r].ask.from, res[r].ask.to>>)
           /\ Free(ChosenPath(r, s), r, s)
<1> DEFINE q == <<res[r].ask.from, res[r].ask.to>>
           free == {i \in DOMAIN pathCache[q] : Free(pathCache[q][i], r, s)}
<1>1. q \in AllPairs /\ free # {} /\ ChosenPath(r, s) = pathCache[q][Min(free)]
  BY DEF ChosenPath
<1> HIDE DEF q
<1>2. pathCache[q] \in Seq(Paths)
  BY <1>1 DEF SearchInv, SearchTyped
<1>3. free \subseteq Nat
  BY <1>2
<1>4. Min(free) \in free
  <2> HIDE DEF free
  <2> QED BY <1>1, <1>3, MinNatIs
<1>5. Best(q, pathCache[q])
  BY <1>1, KShortestIs, PairTyped DEF SearchInv, Built
<1>6. ChosenPath(r, s) \in ToSet(pathCache[q])
  BY <1>1, <1>4 DEF ToSet
<1>7. ChosenPath(r, s) \in SimplePaths[q]
  BY <1>5, <1>6 DEF Best
<1>8. Free(ChosenPath(r, s), r, s)
  BY <1>1, <1>4
<1> QED BY <1>1, <1>7, <1>8, SimplePathsAre DEF q

\* Where the search saw exactly the capacity of a rigid request, a path is free:
\* what is available is what the best path has left on each of its links.
LEMMA RigidFindsPath ==
    ASSUME SearchInv, Built, BookTyped, CarriedFits, NEW r \in Reservations, NEW s \in Slots,
           Available(r, s) = res[r].ask.capacity
    PROVE  ChosenPath(r, s) # <<>>
<1> DEFINE q == <<res[r].ask.from, res[r].ask.to>>
           Lefts(p) == {maxBandwidth} \union {Left(p[i], s) : i \in DOMAIN p}
           least == [p \in PathsOf(r) |-> Min(Lefts(p))]
           all == {0} \union {least[p] : p \in PathsOf(r)}
<1>1. res[r].ask.capacity \in Nat \ {0}
  BY AskTyped
<1>2. q \in AllPairs => pathCache[q] \in Seq(Paths)
  BY DEF SearchInv, SearchTyped
<1>3. ASSUME NEW p \in PathsOf(r)
      PROVE  p \in Paths /\ q \in AllPairs /\ \E i \in DOMAIN pathCache[q] : pathCache[q][i] = p
  <2>1. q \in AllPairs /\ p \in ToSet(pathCache[q])
    BY <1>3 DEF PathsOf
  <2> HIDE DEF q
  <2> QED BY <1>2, <2>1, ElementsTyped DEF ToSet
<1>4. IsFiniteSet(PathsOf(r))
  <2>1. CASE q \in AllPairs
    <3>1. PathsOf(r) = {pathCache[q][i] : i \in DOMAIN pathCache[q]}
      BY <2>1 DEF PathsOf, ToSet
    <3> HIDE DEF q
    <3>2. DOMAIN pathCache[q] = 1 .. Len(pathCache[q]) /\ Len(pathCache[q]) \in Nat
      BY <1>2, <2>1
    <3>3. IsFiniteSet(1 .. Len(pathCache[q]))
      <4> DEFINE n == Len(pathCache[q])
      <4>1. n \in Int
        BY <3>2
      <4> HIDE DEF n
      <4>2. IsFiniteSet(1 .. n)
        BY <4>1, FS_Interval
      <4> QED BY <4>2 DEF n
    <3> QED BY <3>1, <3>2, <3>3, FiniteImage
  <2>2. CASE q \notin AllPairs
    BY <2>2, FS_EmptySet DEF PathsOf
  <2> QED BY <2>1, <2>2
<1> HIDE DEF q
<1>5. ASSUME NEW p \in Paths
      PROVE  Min(Lefts(p)) \in Int /\ \A i \in DOMAIN p : Min(Lefts(p)) <= Left(p[i], s)
  <2> DEFINE left == [i \in DOMAIN p |-> Left(p[i], s)]
             S == {left[i] : i \in DOMAIN p}
  <2>1. \A i \in DOMAIN p : left[i] \in Int /\ left[i] = Left(p[i], s)
    BY PathTyped, LeftTyped
  <2>2. IsFiniteSet(DOMAIN p)
    BY PathTyped, FS_Interval
  <2>3. Lefts(p) = S \union {maxBandwidth}
    OBVIOUS
  <2> HIDE DEF left, Lefts
  <2>4. IsFiniteSet(S)
    BY <2>2, FiniteImage
  <2>5. S \subseteq Int
    BY <2>1
  <2> HIDE DEF S
  <2>6. IsFiniteSet(Lefts(p)) /\ Lefts(p) \subseteq Int /\ Lefts(p) # {}
    <3>1. maxBandwidth \in Int
      BY DEF SearchInv, SearchTyped, Unused
    <3>2. IsFiniteSet(S \union {maxBandwidth})
      BY <2>4, FS_AddElement
    <3> QED BY <2>3, <2>5, <3>1, <3>2
  <2>7. Min(Lefts(p)) \in Lefts(p) /\ \A n \in Lefts(p) : Min(Lefts(p)) <= n
    BY <2>6, MinIs
  <2> QED BY <2>1, <2>3, <2>6, <2>7 DEF S
<1>6. Available(r, s) = Max(all)
  <2>1. {Min({maxBandwidth} \union {Left(p[i], s) : i \in DOMAIN p}) : p \in PathsOf(r)}
           = {least[p] : p \in PathsOf(r)}
    OBVIOUS
  <2> QED BY <2>1 DEF Available
<1> HIDE DEF Lefts
<1>7. \A p \in PathsOf(r) : least[p] \in Int /\ least[p] = Min(Lefts(p))
  BY <1>3, <1>5
<1> HIDE DEF least
<1>8. Max(all) \in all
  <2> DEFINE S == {least[p] : p \in PathsOf(r)}
  <2>1. IsFiniteSet(S)
    BY <1>4, FiniteImage
  <2>2. all = S \union {0} /\ S \subseteq Int
    BY <1>7
  <2> HIDE DEF S, all
  <2>3. IsFiniteSet(all) /\ all \subseteq Int /\ all # {}
    BY <2>1, <2>2, FS_AddElement
  <2> QED BY <2>3, MaxIs
<1>9. PICK p \in PathsOf(r) : least[p] = res[r].ask.capacity
  BY <1>1, <1>6, <1>8
<1>10. PICK i \in DOMAIN pathCache[q] : pathCache[q][i] = p
  BY <1>3
<1>11. Free(p, r, s)
  BY <1>3, <1>5, <1>7, <1>9 DEF Free
<1>12. q \in AllPairs /\ p \in Paths
  BY <1>3
<1> DEFINE free == {j \in DOMAIN pathCache[q] : Free(pathCache[q][j], r, s)}
<1>13. i \in free
  BY <1>10, <1>11
<1>14. ChosenPath(r, s) = pathCache[q][Min(free)]
  BY <1>12, <1>13 DEF ChosenPath, q
<1>15. Min(free) \in DOMAIN pathCache[q] /\ pathCache[q] \in Seq(Paths)
  <2>1. free \subseteq Nat /\ free # {}
    BY <1>2, <1>12, <1>13
  <2>2. Min(free) \in free
    <3> HIDE DEF free
    <3> QED BY <2>1, MinNatIs
  <2> QED BY <1>2, <1>12, <2>2
<1>16. pathCache[q][Min(free)] \in Paths
  <2> HIDE DEF free
  <2> QED BY <1>15
<1> QED BY <1>14, <1>16 DEF Paths

\* A link takes r only where it has room for it.
LEMMA CarriedMore ==
    ASSUME BookTyped, CarriedFits, NEW r \in Reservations,
           NEW l \in Links, NEW s \in Slots,
           r \in carried[l][s] \/ res[r].ask.capacity <= Left(l, s)
    PROVE  LET more == carried[l][s] \union {r}
           IN  IsFiniteSet(more) /\ SumFunctionOnSet(Asked, more) <= Bandwidth[l]
<1>1. /\ IsFiniteSet(carried[l][s]) /\ carried[l][s] \subseteq Reservations
      /\ Load(l, s) <= Bandwidth[l] /\ Load(l, s) = SumFunctionOnSet(Asked, carried[l][s])
  BY LoadIs DEF CarriedFits, BookTyped
<1>2. CASE r \in carried[l][s]
  <2>1. carried[l][s] \union {r} = carried[l][s]
    BY <1>2
  <2> QED BY <1>1, <2>1, Zenon
<1>3. CASE r \notin carried[l][s]
  <2>1. /\ res[r].ask.capacity \in Nat \ {0} /\ Asked[r] = res[r].ask.capacity
        /\ res[r].ask.capacity <= Left(l, s)
        /\ Load(l, s) \in Int /\ Bandwidth[l] \in Nat
    BY <1>3, AskTyped, LeftTyped DEF Asked
  <2>2. Left(l, s) = Bandwidth[l] - Load(l, s)
    BY <2>1 DEF Left
  <2>3. \A x \in carried[l][s] \union {r} : Asked[x] \in Int
    BY <1>1, LoadIs
  <2>4. SumFunctionOnSet(Asked, carried[l][s] \union {r})
           = Asked[r] + SumFunctionOnSet(Asked, carried[l][s])
    BY <1>1, <1>3, <2>3, SumAdd
  <2>5. IsFiniteSet(carried[l][s] \union {r})
    BY <1>1, FS_AddElement
  <2>6. Load(l, s) + res[r].ask.capacity <= Bandwidth[l]
    BY <2>1, <2>2
  <2> QED BY <1>1, <2>1, <2>4, <2>5, <2>6
<1> QED BY <1>2, <1>3

LEMMA ReserveBook ==
    ASSUME SearchInv, BookInv, NEW r \in Reservations, Reserve(r)
    PROVE  BookInv'
<1> USE DEF BookInv
<1>1. PICK c \in Candidates(r) :
        LET span == c.begin .. c.end - 1
            path == [s \in Slots |-> IF s \in span THEN ChosenPath(r, s) ELSE <<>>]
        IN  /\ reservedPaths' = [reservedPaths EXCEPT ![r] =
                   [s \in Slots |-> IF path[s] # <<>> THEN path[s] ELSE @[s]]]
            /\ carried' = [l \in Links |-> [s \in Slots |->
                   IF \E i \in DOMAIN path[s] : path[s][i] = l
                   THEN Loaded(l, r, s) ELSE carried[l][s]]]
            /\ held' = [s \in Slots |->
                   IF r \in SlidActive /\ s \in span THEN SlidHeld[s] \ {r}
                   ELSE IF path[s] # <<>> THEN SlidHeld[s] \union {r}
                   ELSE SlidHeld[s]]
            /\ res' = [SlidRes EXCEPT ![r] =
                   [@ EXCEPT !.state = "ReserveAnswer", !.begin = c.begin, !.end = c.end]]
  BY DEF Reserve
<1> DEFINE span == c.begin .. c.end - 1
           path == [s \in Slots |-> IF s \in span THEN ChosenPath(r, s) ELSE <<>>]
           paths == [s \in Slots |-> IF path[s] # <<>> THEN path[s] ELSE reservedPaths[r][s]]
<1>2. /\ reservedPaths' = [reservedPaths EXCEPT ![r] = paths]
      /\ carried' = [l \in Links |-> [s \in Slots |->
             IF \E i \in DOMAIN path[s] : path[s][i] = l
             THEN Loaded(l, r, s) ELSE carried[l][s]]]
      /\ held' = [s \in Slots |->
             IF r \in SlidActive /\ s \in span THEN SlidHeld[s] \ {r}
             ELSE IF path[s] # <<>> THEN SlidHeld[s] \union {r}
             ELSE SlidHeld[s]]
      /\ res' = [SlidRes EXCEPT ![r] =
             [@ EXCEPT !.state = "ReserveAnswer", !.begin = c.begin, !.end = c.end]]
  BY <1>1 DEF BookTyped
<1>3. /\ Built /\ start' = clock /\ clock' = clock
      /\ active' = SlidActive \union {r}
      /\ rebooked' = SlidRebooked \union ({r} \intersect SlidActive)
  BY DEF Reserve
<1>4. \A s \in Slots : path[s] # <<>> =>
          s \in span /\ path[s] = ChosenPath(r, s) /\ ChosenPath(r, s) # <<>>
  OBVIOUS
<1>5. \A s \in Slots : s \in span => path[s] = ChosenPath(r, s)
  OBVIOUS
<1>6. paths = [s \in Slots |-> paths[s]] /\ DOMAIN paths = Slots
  OBVIOUS
<1>7. \A s \in Slots : paths[s] = IF path[s] # <<>> THEN path[s] ELSE reservedPaths[r][s]
  OBVIOUS
<1> HIDE DEF path, paths
<1>8. ASSUME NEW s \in Slots, path[s] # <<>>
      PROVE  /\ path[s] \in Paths
             /\ IsPath(path[s], <<res[r].ask.from, res[r].ask.to>>)
             /\ Free(path[s], r, s)
  BY <1>3, <1>4, <1>8, ChosenIs
<1>9. c.begin \in Int /\ c.end \in Int /\ clock <= c.begin
  BY CandidateIs
<1>10. \A s \in Slots : s \in span <=> c.begin <= s /\ s < c.end
  BY <1>9, SlotsTyped
<1>11. /\ res' \in [Reservations -> ReservationType]
       /\ res'[r].begin = c.begin /\ res'[r].end = c.end
       /\ \A x \in Reservations : res'[x].ask = res[x].ask
       /\ \A x \in Reservations : x # r => res'[x].begin = res[x].begin /\ res'[x].end = res[x].end
  <2>1. SlidRes \in [Reservations -> ReservationType] /\ SlidRes[r] \in ReservationType
    BY SlidResIs
  <2>2. res'[r] = [SlidRes[r] EXCEPT !.state = "ReserveAnswer", !.begin = c.begin, !.end = c.end]
    BY <1>2, <2>1
  <2>3. /\ res'[r] \in ReservationType /\ res'[r].ask = SlidRes[r].ask
        /\ res'[r].begin = c.begin /\ res'[r].end = c.end
    BY <1>9, <2>1, <2>2 DEF ReservationType
  <2>4. \A x \in Reservations : x # r => res'[x] = SlidRes[x]
    BY <1>2, <2>1
  <2>5. res' \in [Reservations -> ReservationType]
    BY <1>2, <2>1, <2>3, <2>4
  <2> QED BY <2>3, <2>4, <2>5, SlidResIs
<1>12. /\ Booked(r)' = span
       /\ \A x \in Reservations : x # r => Booked(x)' = Booked(x)
  <2>1. Booked(r)' = res'[r].begin .. res'[r].end - 1
    BY DEF Booked
  <2>2. \A x \in Reservations : x # r => Booked(x)' = Booked(x)
    BY <1>11 DEF Booked
  <2> QED BY <1>11, <2>1, <2>2
<1>13. ASSUME NEW s \in Slots
       PROVE  /\ held'[s] = IF r \in SlidActive /\ s \in span THEN SlidHeld[s] \ {r}
                            ELSE IF path[s] # <<>> THEN SlidHeld[s] \union {r}
                            ELSE SlidHeld[s]
              /\ \A x \in Reservations : x # r => (x \in held'[s] <=> x \in SlidHeld[s])
  <2>1. held'[s] = IF r \in SlidActive /\ s \in span THEN SlidHeld[s] \ {r}
                   ELSE IF path[s] # <<>> THEN SlidHeld[s] \union {r}
                   ELSE SlidHeld[s]
    BY <1>2
  <2> QED BY <2>1
<1>14. ASSUME NEW l \in Links, NEW s \in Slots
       PROVE  /\ carried'[l][s] = IF \E i \in DOMAIN path[s] : path[s][i] = l
                                  THEN Loaded(l, r, s) ELSE carried[l][s]
              /\ carried'[l][s] \subseteq Reservations
              /\ carried[l][s] \subseteq carried'[l][s]
  <2>1. carried'[l][s] = IF \E i \in DOMAIN path[s] : path[s][i] = l
                         THEN Loaded(l, r, s) ELSE carried[l][s]
    BY <1>2
  <2>2. carried[l][s] \subseteq Reservations
    BY DEF BookTyped
  <2> QED BY <2>1, <2>2 DEF Loaded
<1>15. SlidRebooked \subseteq SlidActive /\ SlidActive \subseteq Reservations /\ SlidActive \subseteq active
  BY DEF SlidRebooked, SlidActive, BookTyped
<1>16. BookTyped'
  <2>1. start' \in 0 .. clock' /\ clock' \in 0 .. MaxTime
    BY <1>3, SlotsTyped DEF BookTyped
  <2>2. active' \subseteq Reservations /\ rebooked' \subseteq active'
    BY <1>3, <1>15
  <2>3. held' \in [Slots -> SUBSET Reservations]
    <3>1. held' = [s \in Slots |-> held'[s]]
      BY <1>2
    <3>2. \A s \in Slots : SlidHeld[s] \subseteq Reservations
      BY SlideKeeps DEF BookTyped
    <3>3. \A s \in Slots : held'[s] \subseteq Reservations
      BY <1>13, <3>2
    <3> QED BY <3>1, <3>3
  <2>4. carried' \in [Links -> [Slots -> SUBSET Reservations]]
    <3>1. \A l \in Links : carried'[l] = [s \in Slots |-> carried'[l][s]]
      BY <1>2
    <3>2. \A l \in Links : carried'[l] \in [Slots -> SUBSET Reservations]
      BY <1>14, <3>1
    <3>3. carried' = [l \in Links |-> carried'[l]]
      BY <1>2
    <3> QED BY <3>2, <3>3
  <2>5. reservedPaths' \in [Reservations -> [Slots -> Seq(Links)]]
    <3>1. \A s \in Slots : paths[s] \in Seq(Links)
      BY <1>7, <1>8 DEF BookTyped, Paths
    <3>2. paths \in [Slots -> Seq(Links)]
      BY <1>6, <3>1
    <3> QED BY <1>2, <3>2 DEF BookTyped
  <2> QED BY <1>11, <2>1, <2>2, <2>3, <2>4, <2>5 DEF BookTyped
<1>17. Exact'
  <2> SUFFICES ASSUME NEW x \in active', ~ res'[x].ask.moldable
               PROVE  res'[x].end = res'[x].begin + res'[x].ask.duration
    BY DEF Exact
  <2>1. CASE x = r
    BY <1>11, <2>1, CandidateIs
  <2>2. CASE x # r
    BY <1>3, <1>11, <1>15, <2>2 DEF Exact
  <2> QED BY <2>1, <2>2
<1>18. CarriedFits'
  <2>1. Asked' = Asked
    BY <1>11 DEF Asked
  <2>2. \A l, s : Load(l, s)' = SumFunctionOnSet(Asked', carried'[l][s])
    BY DEF Load, Asked
  <2> SUFFICES ASSUME NEW l \in Links, NEW s \in Slots
               PROVE  IsFiniteSet(carried'[l][s]) /\ Load(l, s)' <= Bandwidth[l]
    BY DEF CarriedFits
  <2>3. CASE carried'[l][s] = carried[l][s] \union {r} /\ res[r].ask.capacity <= Left(l, s)
    <3>1. IsFiniteSet(carried'[l][s]) /\ SumFunctionOnSet(Asked, carried'[l][s]) <= Bandwidth[l]
      BY <2>3, CarriedMore
    <3> QED BY <2>1, <2>2, <3>1
  <2>4. CASE carried'[l][s] = carried[l][s]
    <3>1. Load(l, s)' = Load(l, s)
      BY <2>1, <2>2, <2>4, LoadIs
    <3> QED BY <2>4, <3>1 DEF CarriedFits
  <2> QED BY <1>14, <2>3, <2>4 DEF Loaded
<1>19. RigidIsRouted'
  <2> SUFFICES ASSUME NEW x \in active' \ rebooked', ~ res'[x].ask.moldable,
                      NEW s \in Slots, start' <= s, s \in Booked(x)'
               PROVE  Routed(x, s)'
    BY DEF RigidIsRouted, Routed
  <2>1. CASE x = r
    <3>1. s \in span /\ ~ res[r].ask.moldable /\ r \notin SlidActive
      BY <1>3, <1>11, <1>12, <2>1
    <3>2. Available(r, s) = res[r].ask.capacity
      BY <3>1, CandidateIs
    <3>3. path[s] # <<>>
      BY <1>3, <1>5, <3>1, <3>2, RigidFindsPath
    <3>4. r \in held'[s]
      BY <1>13, <3>1, <3>3
    <3>5. reservedPaths'[r][s] = path[s]
      BY <1>2, <1>7, <3>3 DEF BookTyped
    <3>6. /\ IsPath(path[s], <<res'[r].ask.from, res'[r].ask.to>>)
          /\ path[s] \in Paths /\ Free(path[s], r, s)
      BY <1>8, <1>11, <3>3
    <3>7. ASSUME NEW i \in DOMAIN path[s] PROVE r \in carried'[path[s][i]][s]
      <4>1. path[s][i] \in Links /\ res[r].ask.capacity <= Left(path[s][i], s)
        BY <3>6, PathTyped DEF Free
      <4>2. \E j \in DOMAIN path[s] : path[s][j] = path[s][i]
        OBVIOUS
      <4>3. carried'[path[s][i]][s] = Loaded(path[s][i], r, s)
        BY <1>14, <4>1, <4>2
      <4> QED BY <4>1, <4>3 DEF Loaded
    <3>8. LET p == path[s]
          IN  /\ r \in held'[s]
              /\ p # <<>> /\ IsPath(p, <<res'[r].ask.from, res'[r].ask.to>>)
              /\ \A i \in DOMAIN p : r \in carried'[p[i]][s]
      BY <3>3, <3>4, <3>6, <3>7
    <3> QED BY <2>1, <3>5, <3>8 DEF Routed
  <2>2. CASE x # r
    <3>1. x \in active \ rebooked /\ x \in Reservations
      BY <1>3, <1>15, <2>2 DEF SlidActive, SlidRebooked
    <3>2. res'[x].ask = res[x].ask /\ Booked(x)' = Booked(x)
      BY <1>11, <1>12, <2>2, <3>1
    <3>3. clock \in Nat /\ start \in Nat /\ start <= clock /\ s \in Nat /\ clock <= s
      BY <1>3, SlotsTyped
    <3>4. Routed(x, s)
      BY <3>1, <3>2, <3>3, RigidIsRoutedIs
    <3>5. x \in held'[s]
      BY <1>13, <2>2, <3>1, <3>3, <3>4, SlideKeeps DEF Routed
    <3>6. reservedPaths'[x][s] = reservedPaths[x][s]
      BY <1>2, <2>2, <3>1 DEF BookTyped
    <3>7. reservedPaths[x][s] \in Paths
      BY <3>1, <3>4 DEF BookTyped, Routed, Paths
    <3>8. ASSUME NEW i \in DOMAIN reservedPaths[x][s]
          PROVE  x \in carried'[reservedPaths[x][s][i]][s]
      <4>1. reservedPaths[x][s][i] \in Links
        BY <3>7, PathTyped
      <4>2. x \in carried[reservedPaths[x][s][i]][s]
        BY <3>4 DEF Routed
      <4> QED BY <1>14, <4>1, <4>2
    <3> QED BY <3>2, <3>4, <3>5, <3>6, <3>8 DEF Routed
  <2> QED BY <2>1, <2>2
<1>20. HeldIsBooked'
  <2> SUFFICES ASSUME NEW s \in Slots, NEW x \in held'[s], ~ res'[x].ask.moldable
               PROVE  x \in active' \ rebooked' /\ start' <= s /\ s \in Booked(x)'
    BY DEF HeldIsBooked
  <2>1. x \in Reservations /\ ~ res[x].ask.moldable
    BY <1>11, <1>16 DEF BookTyped
  <2>2. CASE x # r
    <3>1. x \in SlidHeld[s]
      BY <1>13, <2>1, <2>2
    <3>2. x \in SlidActive \ SlidRebooked /\ clock <= s /\ s \in Booked(x)
      BY <2>1, <3>1, SlideKeeps
    <3> QED BY <1>3, <1>12, <2>1, <2>2, <3>2
  <2>3. CASE x = r /\ r \in SlidActive
    <3>1. r \in SlidHeld[s] /\ s \notin span
      BY <1>4, <1>13, <2>3
    <3>2. clock <= s /\ s \in Booked(r) /\ r \in active
      BY <1>15, <2>1, <2>3, <3>1, SlideKeeps
    <3>3. res[r].end = res[r].begin + res[r].ask.duration
      BY <2>1, <2>3, <3>2 DEF Exact
    <3>4. s \in span
      BY <2>1, <2>3, <3>2, <3>3, CandidateIs
    <3> QED BY <3>1, <3>4
  <2>4. CASE x = r /\ r \notin SlidActive
    <3>1. r \notin SlidHeld[s]
      BY <2>1, <2>4, SlideKeeps
    <3>2. path[s] # <<>>
      BY <1>13, <2>4, <3>1
    <3>3. s \in span
      BY <1>4, <3>2
    <3>4. clock <= s
      BY <1>9, <1>10, <3>3, SlotsTyped
    <3> QED BY <1>3, <1>12, <1>15, <2>4, <3>3, <3>4
  <2> QED BY <2>2, <2>3, <2>4
<1> QED BY <1>16, <1>17, <1>18, <1>19, <1>20

-----------------------------------------------------------------------------
(* The specification *)

LEMMA InitBook == Init => BookInv
<1> SUFFICES ASSUME Init PROVE BookInv
  OBVIOUS
<1> USE DEF Init
<1>1. \A q \in Requests : [ask |-> q, state |-> "Open", begin |-> q.start, end |-> q.end] \in ReservationType
  BY RequestsAssumption DEF ReservationType, RequestType
<1>2. BookTyped
  <2>1. res \in [Reservations -> ReservationType]
    BY <1>1
  <2>2. /\ clock \in 0 .. MaxTime /\ start \in 0 .. clock /\ active \subseteq Reservations
    BY RequestsAssumption
  <2>3. reservedPaths \in [Reservations -> [Slots -> Seq(Links)]]
    OBVIOUS
  <2>4. rebooked = {}
    OBVIOUS
  <2> QED BY <2>1, <2>2, <2>3, <2>4 DEF BookTyped
<1>3. CarriedFits
  <2> SUFFICES ASSUME NEW l \in Links, NEW s \in Slots
               PROVE  IsFiniteSet(carried[l][s]) /\ Load(l, s) <= Bandwidth[l]
    BY DEF CarriedFits
  <2>1. carried[l][s] = {}
    OBVIOUS
  <2>2. Load(l, s) = 0
    BY <2>1, SumEmpty DEF Load
  <2> QED BY <2>1, <2>2, FS_EmptySet, TopologyAssumption
<1> QED BY <1>2, <1>3 DEF BookInv, Exact, RigidIsRouted, HeldIsBooked

LEMMA StepBook == SearchInv /\ BookInv /\ [Next]_vars => BookInv'
<1> SUFFICES ASSUME SearchInv, BookInv, [Next]_vars PROVE BookInv'
  OBVIOUS
<1>1. ASSUME UNCHANGED <<clock, schedule>> PROVE BookInv'
  <2>1. UNCHANGED <<clock, start, active, res, held, carried, reservedPaths, rebooked>>
    BY <1>1 DEF schedule
  <2>2. CarriedFits'
    BY <2>1, CarriedKept DEF BookInv
  <2>3. RigidIsRouted'
    BY <2>1 DEF BookInv, RigidIsRouted, Booked
  <2>4. BookTyped' /\ Exact' /\ HeldIsBooked'
    BY <2>1 DEF BookInv, BookTyped, Exact, HeldIsBooked, Booked
  <2> QED BY <2>2, <2>3, <2>4 DEF BookInv
<1>2. CASE Begin \/ PathFound \/ Extend \/ Cache \/ UNCHANGED vars
  BY <1>1, <1>2 DEF Begin, PathFound, Extend, Cache, vars
<1>3. CASE Tick
  BY <1>3, TickBook
<1>4. CASE Update
  BY <1>4, UpdateBook
<1>5. ASSUME NEW r \in Reservations, Reserve(r) PROVE BookInv'
  BY <1>5, ReserveBook
<1>6. ASSUME NEW r \in Reservations, Infeasible(r) \/ DeleteUnknown(r) PROVE BookInv'
  BY <1>6, RejectedBook
<1>7. ASSUME NEW r \in Reservations, ReserveFails(r) PROVE BookInv'
  BY <1>7, ReserveFailsBook
<1>8. ASSUME NEW r \in Reservations, Delete(r) PROVE BookInv'
  BY <1>8, DeleteBook
<1> QED BY <1>2, <1>3, <1>4, <1>5, <1>6, <1>7, <1>8 DEF Next

\* Both parts of the state keep to their types: what is searched and what is
\* cached are sequences of links.
THEOREM NetworkTyped == Spec => []TypeOK
<1>1. SearchInv /\ BookInv => TypeOK
  <2>1. ASSUME NEW s \in Seq(Paths) PROVE s \in Seq(Seq(Links))
    <3>1. \A i \in 1 .. Len(s) : s[i] \in Seq(Links)
      BY <2>1 DEF Paths
    <3>2. s \in [1 .. Len(s) -> Seq(Links)] /\ Len(s) \in Nat
      BY <2>1, <3>1
    <3> QED BY <3>2
  <2> QED BY <2>1 DEF SearchInv, SearchTyped, BookInv, BookTyped, TypeOK
<1> QED BY <1>1, InitSearch, StepSearch, InitBook, StepBook, PTL DEF Spec

\* No link carries more in a slot than its bandwidth, whatever paths share it
\* and however often the slots were slid, filled and emptied between: every slot
\* is booked on a path that was asked link by link what it has left.
THEOREM LinksNotOverbooked == Spec => []NoLinkOverbooked
<1>1. BookInv => NoLinkOverbooked
  BY DEF BookInv, CarriedFits, NoLinkOverbooked, Load
<1> QED BY <1>1, InitSearch, StepSearch, InitBook, StepBook, PTL DEF Spec

\* A rigid reservation that is booked once is routed in every slot of its interval
\* that is still to come, on one path between its ends whose links all carry it.
THEOREM RigidReservationsRouted == Spec => []RigidIsRouted
<1>1. BookInv => RigidIsRouted
  BY DEF BookInv
<1> QED BY <1>1, InitSearch, StepSearch, InitBook, StepBook, PTL DEF Spec

\* What a slot holds of rigid reservations is active, booked once, and inside
\* its interval, whatever was deleted, has expired or was reserved again.
THEOREM NothingStaleIsHeld == Spec => []HeldIsBooked
<1>1. BookInv => HeldIsBooked
  BY DEF BookInv
<1> QED BY <1>1, InitSearch, StepSearch, InitBook, StepBook, PTL DEF Spec

=============================================================================
