--------------------------- MODULE LlcaListProofs ---------------------------
(***************************************************************************)
(* Proofs about LlcaList, for every finite memory, every set of integers   *)
(* and every set of requests.                                              *)
(*                                                                         *)
(* The types hold for any number of workers.  That the list stays one      *)
(* ascending chain of allocated nodes is a fact about one worker and the   *)
(* main thread (OneWorker), the pool the source configures                 *)
(* (CA_THREAD_COUNT 1, redpar.cpp:14): of two inserts that link behind one *)
(* node, one would lose its own.  ListInv names the chain, and where in it *)
(* the worker and the traversal of the main thread stand; SaveInv adds the *)
(* nodes the traversal has written.  Counting the nodes that hold a value  *)
(* relates the list to the bag of integers it implements.                  *)
(*                                                                         *)
(* The chain itself is a recursive function along next.  The first part of *)
(* the module shows that it exists, that it is what next says, and that a  *)
(* list of distinct nodes linked by next is that chain.                    *)
(***************************************************************************)
EXTENDS LlcaList, FiniteSetTheorems, SequenceTheorems, WellFoundedInduction, TLAPS

N == Cardinality(Nodes)

NodesOrNull == Nodes \cup {Null}

\* A set of positions that is not empty has a least one: the smallest of the
\* intervals that end in it.
LEMMA LeastPosition ==
    ASSUME NEW m \in Nat, NEW S \in SUBSET (0..m), S # {}
    PROVE  \E i \in S : \A j \in S : i <= j
<1> DEFINE T == {0..i : i \in S}
           R == StrictSubsetOrdering(0..m)
<1>1. IsFiniteSet(0..m)
  BY FS_Interval
<1>2. IsWellFoundedOn(R, SUBSET (0..m))
  BY <1>1, FS_StrictSubsetOrderingWellFounded, FS_FiniteSubsetsOfFinite
<1>3. T \subseteq SUBSET (0..m) /\ T # {}
  <2>1. \A i \in S : 0..i \in SUBSET (0..m)
    OBVIOUS
  <2>2. QED
    BY <2>1, Zenon
<1> HIDE DEF R, T
<1>4. PICK x \in T : \A y \in T : ~(<<y, x>> \in R)
  BY <1>2, <1>3, WFMin
<1>5. PICK i \in S : x = 0..i
  BY DEF T
<1>6. ASSUME NEW j \in S, j < i PROVE FALSE
  <2>1. 0..j \in T /\ 0..j \subseteq x /\ 0..j # x
    BY <1>5, <1>6 DEF T
  <2>2. <<0..j, x>> \in R
    BY <1>3, <2>1 DEF R, StrictSubsetOrdering
  <2>3. QED
    BY <1>4, <2>1, <2>2
<1>7. QED
  BY <1>6

LEMMA NodeCount == N \in Nat
BY NodesAssumption, FS_CardinalityType DEF N

-----------------------------------------------------------------------------
(* The recursive function that follows next.                               *)

\* One step of the chain from n: what f has at i, if it follows next.
Follows(f, n, i) ==
    IF i = 0 THEN n ELSE IF f[i-1] = Null THEN Null ELSE next[f[i-1]]

Path(f, n, m) == \A i \in 0..m : f[i] = Follows(f, n, i)

\* There is such a function, as far as one likes: a shortest one that could not
\* be extended can be.
LEMMA StepsExist ==
    ASSUME next \in [Nodes -> NodesOrNull], NEW n \in NodesOrNull, NEW m \in Nat
    PROVE  \E f \in [0..m -> NodesOrNull] : Path(f, n, m)
<1> DEFINE Short == {j \in 0..m : ~ \E f \in [0..j -> NodesOrNull] : Path(f, n, j)}
<1>1. SUFFICES ASSUME Short # {} PROVE FALSE
  <2>1. m \in 0..m
    OBVIOUS
  <2>2. QED
    BY <2>1, <1>1
<1>2. PICK j \in Short : \A l \in Short : j <= l
  <2>1. Short \in SUBSET (0..m)
    OBVIOUS
  <2> HIDE DEF Short
  <2>2. QED
    BY <1>1, <2>1, LeastPosition
<1>3. CASE j = 0
  <2> DEFINE f == [i \in 0..0 |-> n]
  <2>1. f \in [0..j -> NodesOrNull] /\ Path(f, n, j)
    BY <1>3 DEF Follows, Path
  <2>2. QED
    BY <2>1
<1>4. CASE j # 0
  <2>1. j - 1 \in 0..m /\ j - 1 \notin Short
    BY <1>2, <1>4
  <2>2. PICK g \in [0..j-1 -> NodesOrNull] : Path(g, n, j - 1)
    BY <2>1
  <2>3. Follows(g, n, j) \in NodesOrNull
    BY <1>4 DEF Follows, NodesOrNull
  <2> DEFINE f == [i \in 0..j |-> IF i = j THEN Follows(g, n, j) ELSE g[i]]
  <2>4. f \in [0..j -> NodesOrNull]
    BY <2>3
  <2>5. ASSUME NEW i \in 0..j PROVE f[i] = Follows(f, n, i)
    <3>1. i # 0 => f[i-1] = g[i-1]
      OBVIOUS
    <3>2. Follows(f, n, i) = Follows(g, n, i)
      BY <3>1 DEF Follows
    <3>3. i # j => g[i] = Follows(g, n, i)
      BY <2>2 DEF Path
    <3>4. QED
      BY <3>2, <3>3
  <2>6. QED
    BY <1>2, <2>4, <2>5 DEF Path
<1>5. QED
  BY <1>3, <1>4

\* Two functions that follow next from the same node agree.
LEMMA StepsUnique ==
    ASSUME NEW m \in Nat, NEW n, NEW f, NEW g, Path(f, n, m), Path(g, n, m)
    PROVE  \A i \in 0..m : f[i] = g[i]
<1> DEFINE Differ == {i \in 0..m : f[i] # g[i]}
<1>1. SUFFICES ASSUME Differ # {} PROVE FALSE
  OBVIOUS
<1>2. PICK i \in Differ : \A j \in Differ : i <= j
  <2>1. Differ \in SUBSET (0..m)
    OBVIOUS
  <2> HIDE DEF Differ
  <2>2. QED
    BY <1>1, <2>1, LeastPosition
<1>3. i # 0 => f[i-1] = g[i-1]
  BY <1>2
<1>4. Follows(f, n, i) = Follows(g, n, i)
  BY <1>3 DEF Follows
<1>5. QED
  BY <1>2, <1>4 DEF Path

\* Steps is that function.
LEMMA StepsFollow ==
    ASSUME next \in [Nodes -> NodesOrNull], NEW n \in NodesOrNull
    PROVE  Steps(n) \in [0..N -> NodesOrNull] /\ Path(Steps(n), n, N)
<1> DEFINE Defines(f) == f = [i \in 0..N |-> Follows(f, n, i)]
<1>1. PICK f \in [0..N -> NodesOrNull] : Path(f, n, N)
  BY NodeCount, StepsExist
<1>2. Defines(f)
  BY <1>1 DEF Path
<1>3. Steps(n) = CHOOSE g : Defines(g)
  BY DEF Steps, Follows, N
<1>4. Defines(Steps(n))
  <2> HIDE DEF Defines
  <2>1. QED
    BY <1>2, <1>3
<1>5. Path(Steps(n), n, N)
  BY <1>4 DEF Path
<1>6. \A i \in 0..N : Steps(n)[i] = f[i]
  BY <1>1, <1>5, NodeCount, StepsUnique
<1>7. QED
  BY <1>1, <1>4, <1>5, <1>6

\* Once the list has ended, it has ended.
LEMMA StepsEnd ==
    ASSUME next \in [Nodes -> NodesOrNull], NEW n \in NodesOrNull,
           NEW i \in 0..N, Steps(n)[i] = Null
    PROVE  \A j \in i..N : Steps(n)[j] = Null
<1> DEFINE Alive == {j \in i..N : Steps(n)[j] # Null}
<1>1. SUFFICES ASSUME Alive # {} PROVE FALSE
  OBVIOUS
<1>2. PICK j \in Alive : \A l \in Alive : j <= l
  <2>1. Alive \in SUBSET (0..N)
    BY NodeCount
  <2> HIDE DEF Alive
  <2>2. QED
    BY <1>1, <2>1, NodeCount, LeastPosition
<1>3. j \in 0..N /\ j # 0 /\ j - 1 \in i..N /\ Steps(n)[j-1] = Null
  BY <1>2, NodeCount
<1>4. Steps(n)[j] = Follows(Steps(n), n, j)
  BY <1>3, StepsFollow DEF Path
<1>5. QED
  BY <1>2, <1>3, <1>4 DEF Follows

\* The steps that are nodes come first: their number is the length of the chain.
LEMMA ChainLength ==
    ASSUME next \in [Nodes -> NodesOrNull], NEW n \in NodesOrNull
    PROVE  \E k \in 0..N + 1 :
              /\ {i \in 0..N : Steps(n)[i] # Null} = 0..k - 1
              /\ ChainFrom(n) = [i \in 1..k |-> Steps(n)[i-1]]
<1> DEFINE Alive == {i \in 0..N : Steps(n)[i] # Null}
           Ended == {i \in 0..N : Steps(n)[i] = Null}
<1>1. \E k \in 0..N + 1 : Alive = 0..k - 1
  <2>1. CASE Ended = {}
    <3>1. Alive = 0..(N + 1) - 1
      BY <2>1, NodeCount
    <3>2. QED
      BY <3>1, NodeCount
  <2>2. CASE Ended # {}
    <3>1. PICK k \in Ended : \A j \in Ended : k <= j
      <4>1. Ended \in SUBSET (0..N)
        OBVIOUS
      <4> HIDE DEF Ended
      <4>2. QED
        BY <2>2, <4>1, NodeCount, LeastPosition
    <3>2. \A j \in k..N : Steps(n)[j] = Null
      BY <3>1, StepsEnd
    <3>3. \A j \in 0..N : j \in Alive <=> j < k
      BY <3>1, <3>2, NodeCount
    <3>4. Alive = 0..k - 1
      BY <3>1, <3>3, NodeCount
    <3>5. QED
      BY <3>1, <3>4, NodeCount
  <2>3. QED
    BY <2>1, <2>2
<1>2. PICK k \in 0..N + 1 : Alive = 0..k - 1
  BY <1>1
<1>3. Cardinality(0..k - 1) = k
  BY NodeCount, FS_Interval
<1>4. ChainFrom(n) = [i \in 1..Cardinality(Alive) |-> Steps(n)[i-1]]
  BY DEF ChainFrom, N
<1>5. QED
  BY <1>2, <1>3, <1>4

\* The chain from n starts there and goes where next leads; where it is not
\* longer than there are nodes, its last node has no next.
LEMMA ChainShape ==
    ASSUME next \in [Nodes -> NodesOrNull], NEW n \in NodesOrNull
    PROVE  \E k \in 0..N + 1 :
              /\ ChainFrom(n) \in [1..k -> Nodes]
              /\ k = 0 <=> n = Null
              /\ k # 0 => ChainFrom(n)[1] = n
              /\ \A i \in 1..k - 1 : next[ChainFrom(n)[i]] = ChainFrom(n)[i+1]
              /\ k \in 1..N => next[ChainFrom(n)[k]] = Null
<1>1. PICK k \in 0..N + 1 :
              /\ {i \in 0..N : Steps(n)[i] # Null} = 0..k - 1
              /\ ChainFrom(n) = [i \in 1..k |-> Steps(n)[i-1]]
  BY ChainLength
<1>2. /\ Steps(n) \in [0..N -> NodesOrNull]
      /\ \A i \in 0..N : Steps(n)[i] = Follows(Steps(n), n, i)
  BY StepsFollow DEF Path
<1>3. \A i \in 0..N : Steps(n)[i] # Null <=> i < k
  BY <1>1, NodeCount
<1>4. Steps(n)[0] = n
  BY <1>2, NodeCount DEF Follows
<1>5. ASSUME NEW i \in 1..k PROVE i - 1 \in 0..N /\ Steps(n)[i-1] \in Nodes
  BY <1>2, <1>3, <1>5, NodeCount DEF NodesOrNull
<1>6. ChainFrom(n) \in [1..k -> Nodes]
  BY <1>1, <1>5
<1>7. k = 0 <=> n = Null
  BY <1>3, <1>4, NodeCount
<1>8. k # 0 => ChainFrom(n)[1] = n
  BY <1>1, <1>4, NodeCount
<1>9. ASSUME NEW i \in 1..k, i \in 0..N PROVE next[Steps(n)[i-1]] = Steps(n)[i]
  <2>1. Steps(n)[i] = Follows(Steps(n), n, i) /\ Steps(n)[i-1] # Null /\ i # 0
    BY <1>2, <1>3, <1>5, <1>9
  <2>2. QED
    BY <2>1 DEF Follows
<1>10. \A i \in 1..k - 1 : next[ChainFrom(n)[i]] = ChainFrom(n)[i+1]
  BY <1>1, <1>9, NodeCount
<1>11. k \in 1..N => next[ChainFrom(n)[k]] = Null
  BY <1>1, <1>3, <1>9, NodeCount
<1>12. QED
  BY <1>6, <1>7, <1>8, <1>10, <1>11

\* A list of at most as many nodes as there are, linked by next and ended by
\* Null, is the chain from its first.
LEMMA ChainIs ==
    ASSUME next \in [Nodes -> NodesOrNull], NEW k \in 0..N, NEW c \in [1..k -> Nodes],
           \A i \in 1..k : next[c[i]] = IF i < k THEN c[i+1] ELSE Null
    PROVE  ChainFrom(IF k = 0 THEN Null ELSE c[1]) = c
<1> DEFINE n == IF k = 0 THEN Null ELSE c[1]
           f == [i \in 0..N |-> IF i < k THEN c[i+1] ELSE Null]
<1>1. n \in NodesOrNull
  BY DEF NodesOrNull
<1>2. Path(f, n, N)
  <2> SUFFICES ASSUME NEW i \in 0..N PROVE f[i] = Follows(f, n, i)
    BY DEF Path
  <2>1. CASE i = 0
    BY <2>1 DEF Follows
  <2>2. CASE i # 0 /\ i - 1 < k
    <3>1. i \in 1..k /\ f[i-1] = c[i] /\ c[i] # Null
      BY <2>2, NodeCount, NullAssumption
    <3>2. Follows(f, n, i) = next[c[i]]
      BY <2>2, <3>1 DEF Follows
    <3>3. QED
      BY <3>1, <3>2
  <2>3. CASE i # 0 /\ ~(i - 1 < k)
    <3>1. f[i-1] = Null /\ f[i] = Null
      BY <2>3, NodeCount
    <3>2. QED
      BY <2>3, <3>1 DEF Follows
  <2>4. QED
    BY <2>1, <2>2, <2>3
<1> HIDE DEF n
<1>3. Path(Steps(n), n, N) /\ Steps(n) \in [0..N -> NodesOrNull]
  BY <1>1, StepsFollow
<1>4. \A i \in 0..N : Steps(n)[i] = f[i]
  <2> HIDE DEF f
  <2>1. QED
    BY <1>2, <1>3, NodeCount, StepsUnique
<1>5. PICK l \in 0..N + 1 : /\ {i \in 0..N : Steps(n)[i] # Null} = 0..l - 1
                            /\ ChainFrom(n) = [i \in 1..l |-> Steps(n)[i-1]]
  BY <1>1, ChainLength
<1>6. \A i \in 0..N : i < l <=> i < k
  <2>1. \A i \in 0..N : Steps(n)[i] # Null <=> i < k
    <3> SUFFICES ASSUME NEW i \in 0..N PROVE Steps(n)[i] # Null <=> i < k
      OBVIOUS
    <3>1. i < k => i + 1 \in 1..k /\ c[i+1] \in Nodes /\ f[i] = c[i+1]
      BY NodeCount
    <3>2. ~(i < k) => f[i] = Null
      OBVIOUS
    <3>3. f[i] # Null <=> i < k
      BY <3>1, <3>2, NullAssumption
    <3>4. QED
      BY <1>4, <3>3
  <2>2. \A i \in 0..N : Steps(n)[i] # Null <=> i < l
    <3>1. \A i \in 0..N : i \in 0..l - 1 <=> i < l
      BY NodeCount
    <3>2. QED
      BY <1>5, <3>1
  <2>3. QED
    BY <2>1, <2>2
<1>7. l = k
  <2>1. k \in 0..N /\ l \in 0..N + 1 /\ N \in Nat
    BY NodeCount
  <2>2. ~(l < k)
    BY <1>6, <2>1
  <2>3. ~(k < l)
    BY <1>6, <2>1
  <2>4. QED
    BY <2>1, <2>2, <2>3
<1>8. \A i \in 1..k : Steps(n)[i-1] = c[i]
  BY <1>4, NodeCount
<1>9. QED
  BY <1>5, <1>7, <1>8 DEF n

\* Distinct nodes are no more than there are.
LEMMA DistinctNodes ==
    ASSUME NEW k \in Nat, NEW c \in [1..k -> Nodes],
           \A i, j \in 1..k : c[i] = c[j] => i = j
    PROVE  k \in 0..N
<1>1. IsFiniteSet(1..k) /\ Cardinality(1..k) = k
  BY FS_Interval
<1>2. c \in Injection(1..k, Nodes)
  BY DEF Injection, IsInjective
<1>3. k <= N
  BY <1>1, <1>2, NodesAssumption, FS_Injection DEF N
<1>4. QED
  BY <1>3, NodeCount

-----------------------------------------------------------------------------
(***************************************************************************)
(* Types, for any number of workers.                                       *)
(***************************************************************************)

Stages == {"idle", "head", "search", "link", "count", "first", "free", "return"}

Types ==
    /\ head \in NodesOrNull
    /\ len \in Nat
    /\ value \in [Nodes -> Values \cup {Null}]
    /\ next \in [Nodes -> NodesOrNull]
    /\ heap \in SUBSET Nodes
    /\ pc \in [Workers -> Stages]
    /\ req \in [Workers -> Requests \cup {Null}]
    /\ cur \in [Workers -> NodesOrNull]
    /\ prev \in [Workers -> NodesOrNull]
    /\ out \in [Workers -> BOOLEAN \cup {Null}]
    /\ at \in NodesOrNull
    /\ image \in [count : Nat, values : Seq(Values)] \cup {Null}
    /\ before \in Seq(Values)
    /\ intact \in BOOLEAN

\* What worker w has in its hands.
Hands(w) ==
    /\ out[w] # Null <=> pc[w] = "return"
    /\ IF pc[w] = "idle" THEN req[w] = Null ELSE req[w] \in Requests
    /\ pc[w] \in {"link", "first", "free"} => cur[w] # Null
    /\ pc[w] = "search" /\ Op(w) = "remove" => cur[w] # Null /\ prev[w] # Null

\* A pointer that is not Null points to a node that was once allocated: its
\* value is an integer, and stays one when the node is freed.
Made ==
    /\ \A m \in Nodes : next[m] # Null => value[next[m]] # Null
    /\ head # Null => value[head] # Null
    /\ at # Null => value[at] # Null /\ image # Null
    /\ \A w \in Workers : cur[w] # Null => value[cur[w]] # Null
    /\ \A w \in Workers : prev[w] # Null => value[prev[w]] # Null

TypeInv == Types /\ Made /\ \A w \in Workers : Hands(w)

LEMMA RequestTypes ==
    ASSUME NEW r \in Requests
    PROVE  r.op \in {"insert", "remove", "contains"} /\ r.val \in Values /\ r # Null
BY RequestsAssumption, NullAssumption

\* The chain from such a node holds integers.
LEMMA ValuesTyped ==
    ASSUME Types, NEW n \in NodesOrNull, n # Null => value[n] # Null,
           \A m \in Nodes : next[m] # Null => value[next[m]] # Null
    PROVE  ValuesFrom(n) \in Seq(Values)
<1>1. PICK k \in 0..N + 1 :
              /\ ChainFrom(n) \in [1..k -> Nodes]
              /\ k = 0 <=> n = Null
              /\ k # 0 => ChainFrom(n)[1] = n
              /\ \A i \in 1..k - 1 : next[ChainFrom(n)[i]] = ChainFrom(n)[i+1]
  BY ChainShape DEF Types
<1>2. k \in Nat
  BY NodeCount
<1>3. ASSUME NEW i \in 1..k PROVE value[ChainFrom(n)[i]] # Null
  <2>1. CASE i = 1
    BY <1>1, <1>2, <2>1
  <2>2. CASE i # 1
    <3>1. i - 1 \in 1..k - 1 /\ ChainFrom(n)[i-1] \in Nodes /\ ChainFrom(n)[i] \in Nodes
      BY <1>1, <1>2, <2>2
    <3>2. next[ChainFrom(n)[i-1]] = ChainFrom(n)[i]
      BY <1>1, <3>1
    <3>3. QED
      BY <3>1, <3>2, NullAssumption
  <2>3. QED
    BY <2>1, <2>2
<1>4. \A i \in 1..k : value[ChainFrom(n)[i]] \in Values
  BY <1>1, <1>3 DEF Types
<1>5. ValuesFrom(n) = [i \in 1..k |-> value[ChainFrom(n)[i]]]
  BY <1>1 DEF ValuesFrom
<1>6. QED
  BY <1>2, <1>4, <1>5

LEMMA TypeInvInit == Init => TypeInv
BY MaxLenAssumption DEF Init, TypeInv, Types, Made, Hands, NodesOrNull, Stages

\* A step that does no more than answer.
LEMMA AnswerStep ==
    ASSUME TypeInv, NEW w \in Workers, NEW a \in BOOLEAN,
           pc' = [pc EXCEPT ![w] = "return"], out' = [out EXCEPT ![w] = a],
           pc[w] # "idle", len' \in Nat,
           UNCHANGED <<head, fields, heap, req, cur, prev, saving>>
    PROVE  TypeInv'
<1>1. out' \in [Workers -> BOOLEAN \cup {Null}] /\ out'[w] # Null
  BY NullAssumption DEF TypeInv, Types
<1>2. Types'
  BY <1>1 DEF TypeInv, Types, Stages, fields, saving, traversal
<1>3. Made'
  BY DEF TypeInv, Made, fields, saving, traversal
<1>4. ASSUME NEW v \in Workers PROVE Hands(v)'
  BY <1>1 DEF TypeInv, Types, Hands, Op
<1>5. QED
  BY <1>2, <1>3, <1>4 DEF TypeInv

\* Every step keeps the types, whatever the other workers do to the list.
LEMMA TypeInvStep == TypeInv /\ [Next]_vars => TypeInv'
<1> SUFFICES ASSUME TypeInv, [Next]_vars PROVE TypeInv'
  OBVIOUS
<1> USE NullAssumption DEF TypeInv, Types, Hands, Made, NodesOrNull, Stages, Goto, Op, Val,
        Answer, Advance, fields, traversal, saving
<1>1. ASSUME NEW w \in Workers, Call(w) PROVE TypeInv'
  BY <1>1 DEF Call
<1>2. ASSUME NEW w \in Workers, Return(w) PROVE TypeInv'
  BY <1>2 DEF Return
<1>3. ASSUME NEW w \in Workers, InsertHead(w) PROVE TypeInv'
  BY <1>3 DEF InsertHead
<1>4. ASSUME NEW w \in Workers, InsertAdvance(w) PROVE TypeInv'
  BY <1>4 DEF InsertAdvance, Smaller
<1>5. ASSUME NEW w \in Workers, InsertAlloc(w) PROVE TypeInv'
  <2>1. PICK n \in Nodes : /\ heap' = heap \cup {n}
                            /\ value' = [value EXCEPT ![n] = Val(w)]
                            /\ next' = [next EXCEPT ![n] = cur[w]]
                            /\ cur' = [cur EXCEPT ![w] = n]
    BY <1>5 DEF InsertAlloc
  <2>2. /\ Goto(w, "search", "link") /\ Op(w) = "insert"
        /\ UNCHANGED <<head, len, req, prev, out, at, image, before, intact>>
    BY <1>5 DEF InsertAlloc
  <2>3. Val(w) \in Values
    <3>1. req[w] \in Requests
      BY <2>2
    <3>2. QED
      BY <3>1, RequestTypes
  <2>4. /\ \A m \in Nodes : value[m] # Null => value'[m] # Null
        /\ value'[n] # Null
        /\ \A m \in Nodes : m # n => next'[m] = next[m]
        /\ next'[n] = cur[w]
    BY <2>1, <2>3
  <2>5. Types'
    BY <2>1, <2>2, <2>3
  <2>6. Made'
    <3>1. \A m \in Nodes : next'[m] # Null => value'[next'[m]] # Null
      BY <2>4
    <3>2. /\ head # Null => value'[head] # Null
          /\ at # Null => value'[at] # Null /\ image # Null
          /\ \A v \in Workers : prev[v] # Null => value'[prev[v]] # Null
      BY <2>4
    <3>3. \A v \in Workers : cur'[v] # Null => value'[cur'[v]] # Null
      BY <2>1, <2>4
    <3>4. QED
      BY <2>2, <3>1, <3>2, <3>3
  <2>7. \A v \in Workers : Hands(v)'
    BY <2>1, <2>2
  <2>8. QED
    BY <2>5, <2>6, <2>7
<1>6. ASSUME NEW w \in Workers, InsertLink(w) PROVE TypeInv'
  BY <1>6 DEF InsertLink
<1>7. ASSUME NEW w \in Workers, InsertCount(w) PROVE TypeInv'
  <2>1. /\ pc' = [pc EXCEPT ![w] = "return"] /\ out' = [out EXCEPT ![w] = TRUE]
        /\ pc[w] # "idle" /\ len' \in Nat
        /\ UNCHANGED <<head, fields, heap, req, cur, prev, saving>>
    BY <1>7 DEF InsertCount
  <2>2. QED
    BY <2>1, AnswerStep
<1>8. ASSUME NEW w \in Workers, RemoveEmpty(w) \/ RemoveMiss(w) PROVE TypeInv'
  <2>1. /\ pc' = [pc EXCEPT ![w] = "return"] /\ out' = [out EXCEPT ![w] = FALSE]
        /\ pc[w] # "idle" /\ len' \in Nat
        /\ UNCHANGED <<head, fields, heap, req, cur, prev, saving>>
    BY <1>8 DEF RemoveEmpty, RemoveMiss
  <2>2. QED
    BY <2>1, AnswerStep
<1>9. ASSUME NEW w \in Workers, RemoveHead(w) PROVE TypeInv'
  BY <1>9 DEF RemoveHead
<1>10. ASSUME NEW w \in Workers, RemoveFirstNode(w) PROVE TypeInv'
  BY <1>10 DEF RemoveFirstNode
<1>11. ASSUME NEW w \in Workers, RemoveAdvance(w) PROVE TypeInv'
  BY <1>11 DEF RemoveAdvance
<1>12. ASSUME NEW w \in Workers, RemoveFound(w) PROVE TypeInv'
  BY <1>12 DEF RemoveFound
<1>13. ASSUME NEW w \in Workers, RemoveFree(w) PROVE TypeInv'
  BY <1>13 DEF RemoveFree
<1>14. ASSUME NEW w \in Workers, ContainsHead(w) PROVE TypeInv'
  BY <1>14 DEF ContainsHead
<1>15. ASSUME NEW w \in Workers, ContainsAdvance(w) PROVE TypeInv'
  BY <1>15 DEF ContainsAdvance
<1>16. ASSUME NEW w \in Workers, ContainsAnswer(w) PROVE TypeInv'
  BY <1>16 DEF ContainsAnswer
<1>17. CASE SaveCount
  <2>1. before' \in Seq(Values)
    BY <1>17, ValuesTyped DEF SaveCount
  <2>2. image' \in [count : Nat, values : Seq(Values)]
    BY <1>17 DEF SaveCount
  <2>3. Types' /\ image' # Null
    BY <1>17, <2>1, <2>2 DEF SaveCount
  <2>4. Made' /\ \A w \in Workers : Hands(w)'
    BY <1>17, <2>3 DEF SaveCount
  <2>5. QED
    BY <2>3, <2>4
<1>18. CASE SaveNode
  <2>1. image \in [count : Nat, values : Seq(Values)] /\ value[at] \in Values /\ at \in Nodes
    BY <1>18 DEF SaveNode
  <2>2. image' = [image EXCEPT !.values = Append(image.values, value[at])]
    BY <1>18 DEF SaveNode
  <2>3. Append(image.values, value[at]) \in Seq(Values)
    BY <2>1
  <2>4. image' \in [count : Nat, values : Seq(Values)]
    BY <2>1, <2>2, <2>3
  <2>5. Types' /\ image' # Null
    BY <1>18, <2>1, <2>4 DEF SaveNode
  <2>6. Made' /\ \A w \in Workers : Hands(w)'
    BY <1>18, <2>1, <2>5 DEF SaveNode
  <2>7. QED
    BY <2>5, <2>6
<1>19. CASE SaveEnd
  BY <1>19 DEF SaveEnd
<1>20. CASE UNCHANGED vars
  BY <1>20 DEF vars
<1>21. QED
  BY <1>1, <1>2, <1>3, <1>4, <1>5, <1>6, <1>7, <1>8, <1>9, <1>10, <1>11, <1>12, <1>13,
     <1>14, <1>15, <1>16, <1>17, <1>18, <1>19, <1>20 DEF Next, Insert, RemoveOne, ContainsOne

\* Types, and exactly one answer on every path of every operation, however
\* many workers share the list.
THEOREM TypeOKTheorem == Spec => []TypeOK
<1>1. TypeInv => TypeOK
  BY DEF TypeInv, Types, Hands, Stages, NodesOrNull, TypeOK
<1>2. QED
  BY TypeInvInit, TypeInvStep, <1>1, PTL DEF Spec

-----------------------------------------------------------------------------
(***************************************************************************)
(* The list, for one worker and the main thread.                           *)
(***************************************************************************)

OneWorker == \A u, v \in Workers : u = v

\* The i-th of the k nodes of c; Null before the first and after the last.
Nth(k, c, i) == IF i \in 1..k THEN c[i] ELSE Null

\* The nodes of c, linked from the head to the end.
Linked(k, c) ==
    /\ head = Nth(k, c, 1)
    /\ \A i \in 1..k : next[c[i]] = Nth(k, c, i + 1)

Distinct(k, c) == \A i, j \in 1..k : c[i] = c[j] => i = j

Ascending(k, c) == \A i, j \in 1..k : i <= j => value[c[i]] <= value[c[j]]

Listed(k, c, n) == \E i \in 1..k : c[i] = n

\* Memory: what is allocated is in c, or held by an insert before it links it or
\* by a remove before it frees it.
Holds(w, n) == pc[w] \in {"link", "free"} /\ cur[w] = n

Owned(k, c) ==
    /\ \A i \in 1..k : c[i] \in heap
    /\ \A n \in heap : value[n] \in Values
    /\ \A n \in heap : Listed(k, c, n) \/ \E w \in Workers : Holds(w, n)

\* The main thread is in the list, unless a remove unlinked a node meanwhile.
Traversed(k, c) ==
    /\ intact => at = Null \/ Listed(k, c, at)
    /\ image = Null => intact

\* A search that has passed p nodes.  The remove starts at the first node, with
\* prev on it as well, once it has seen that it is not the one.
SearchAt(w, k, c, p) ==
    /\ cur[w] = Nth(k, c, p + 1)
    /\ Op(w) = "remove" => p < k
    /\ IF Op(w) = "remove" /\ p = 0
       THEN prev[w] = c[1] /\ value[c[1]] # Val(w)
       ELSE prev[w] = Nth(k, c, p)
    /\ \A i \in 1..k : i <= p => IF Op(w) = "insert" THEN value[c[i]] < Val(w)
                                 ELSE value[c[i]] # Val(w)

\* A new node that belongs after the first p.
LinkAt(w, k, c, p) ==
    /\ value[cur[w]] = Val(w)
    /\ prev[w] = Nth(k, c, p)
    /\ next[cur[w]] = Nth(k, c, p + 1)
    /\ \A i \in 1..k : i <= p <=> value[c[i]] < Val(w)

Stands(w, k, c) ==
    /\ pc[w] \in {"idle", "head"} => prev[w] = Null
    /\ pc[w] = "search" => \E p \in 0..k : SearchAt(w, k, c, p)
    /\ pc[w] \in {"link", "free"} => cur[w] \in heap /\ ~Listed(k, c, cur[w])
    /\ pc[w] = "link" => Op(w) = "insert" /\ \E p \in 0..k : LinkAt(w, k, c, p)
    /\ pc[w] = "first" => /\ Op(w) = "remove"
                          /\ k # 0 /\ cur[w] = c[1] /\ prev[w] = c[1]
                          /\ value[c[1]] = Val(w)
    /\ pc[w] = "free" => prev[w] \in heap

IsList(k, c) ==
    /\ Linked(k, c)
    /\ Distinct(k, c)
    /\ Ascending(k, c)
    /\ Owned(k, c)
    /\ Traversed(k, c)
    /\ \A w \in Workers : Stands(w, k, c)

ListInv == \E k \in Nat : \E c \in [1..k -> Nodes] : IsList(k, c)

LEMMA ListInvInit == Init => ListInv
<1> SUFFICES ASSUME Init PROVE ListInv
  OBVIOUS
<1> DEFINE c == [i \in 1..0 |-> Null]
<1>1. c \in [1..0 -> Nodes]
  OBVIOUS
<1>2. Linked(0, c) /\ Distinct(0, c) /\ Ascending(0, c)
  BY DEF Init, Linked, Distinct, Ascending, Nth
<1>3. Owned(0, c) /\ Traversed(0, c)
  BY DEF Init, Owned, Traversed
<1>4. \A w \in Workers : Stands(w, 0, c)
  BY DEF Init, Stands
<1>5. QED
  BY <1>1, <1>2, <1>3, <1>4 DEF ListInv, IsList

\* A step that neither writes the list nor takes or frees a node: what is left
\* to show is where the worker stands.
LEMMA QuietStep ==
    ASSUME OneWorker, NEW w \in Workers, NEW k \in Nat, NEW c \in [1..k -> Nodes],
           IsList(k, c), pc[w] \notin {"link", "free"},
           UNCHANGED <<head, fields, heap, saving>>, Stands(w, k, c)'
    PROVE  IsList(k, c)'
<1>1. Linked(k, c)' /\ Distinct(k, c)' /\ Ascending(k, c)'
  BY DEF IsList, Linked, Distinct, Ascending, Nth, fields
<1>2. \A v \in Workers : v = w
  BY DEF OneWorker
<1>3. Owned(k, c)'
  BY <1>2 DEF IsList, Owned, Listed, Holds, fields
<1>4. Traversed(k, c)'
  BY DEF IsList, Traversed, Listed, saving, traversal
<1>5. \A v \in Workers : Stands(v, k, c)'
  BY <1>2
<1>6. QED
  BY <1>1, <1>3, <1>4, <1>5 DEF IsList

\* A step of the main thread changes nothing but where the traversal is.
LEMMA SaveStep ==
    ASSUME NEW k \in Nat, NEW c \in [1..k -> Nodes], IsList(k, c),
           UNCHANGED <<head, fields, heap, pc, req, cur, prev>>, Traversed(k, c)'
    PROVE  IsList(k, c)'
<1>1. Linked(k, c)' /\ Distinct(k, c)' /\ Ascending(k, c)'
  BY DEF IsList, Linked, Distinct, Ascending, Nth, fields
<1>2. Owned(k, c)'
  BY DEF IsList, Owned, Listed, Holds, fields
<1>3. ASSUME NEW w \in Workers PROVE Stands(w, k, c)'
  <2>1. Stands(w, k, c)
    BY DEF IsList
  <2>2. \A p \in 0..k : SearchAt(w, k, c, p) => SearchAt(w, k, c, p)'
    BY DEF SearchAt, Nth, Op, Val, fields
  <2>3. \A p \in 0..k : LinkAt(w, k, c, p) => LinkAt(w, k, c, p)'
    BY DEF LinkAt, Nth, Val, fields
  <2>4. QED
    BY <2>1, <2>2, <2>3 DEF Stands, Listed, Op, Val, fields
<1>4. QED
  BY <1>1, <1>2, <1>3 DEF IsList

\* The nodes after the p-th, and what is known of the one the search is at.
LEMMA Nths ==
    ASSUME NEW k \in Nat, NEW c \in [1..k -> Nodes]
    PROVE  /\ \A p \in Int : Nth(k, c, p) # Null <=> p \in 1..k
           /\ \A p \in 1..k : Nth(k, c, p) = c[p] /\ c[p] \in Nodes
           /\ Nth(k, c, 0) = Null /\ Nth(k, c, k + 1) = Null
<1>1. ASSUME NEW p \in 1..k PROVE Nth(k, c, p) = c[p] /\ c[p] \in Nodes
  BY DEF Nth
<1>2. \A p \in Int : Nth(k, c, p) # Null <=> p \in 1..k
  BY <1>1, NullAssumption DEF Nth
<1>3. Nth(k, c, 0) = Null /\ Nth(k, c, k + 1) = Null
  BY DEF Nth
<1>4. QED
  BY <1>1, <1>2, <1>3

\* The values of the nodes of the list are integers.
LEMMA ListValues ==
    ASSUME NEW k \in Nat, NEW c \in [1..k -> Nodes], IsList(k, c)
    PROVE  \A i \in 1..k : value[c[i]] \in Values /\ value[c[i]] \in Int
BY ValuesAssumption DEF IsList, Owned

\* A search that moves on has passed one node more.
LEMMA SearchMoves ==
    ASSUME NEW w \in Workers, NEW k \in Nat, NEW c \in [1..k -> Nodes], NEW p \in 0..k,
           TypeInv, IsList(k, c), pc[w] = "search", SearchAt(w, k, c, p), cur[w] # Null,
           Op(w) = "remove" => next[cur[w]] # Null,
           IF Op(w) = "insert" THEN value[cur[w]] < Val(w) ELSE value[cur[w]] # Val(w),
           Advance(w), UNCHANGED <<fields, pc, req>>
    PROVE  Stands(w, k, c)'
<1>1. p + 1 \in 1..k /\ cur[w] = c[p+1]
  BY Nths DEF SearchAt
<1>2. next[c[p+1]] = Nth(k, c, p + 2)
  BY <1>1 DEF IsList, Linked
<1>3. cur'[w] = Nth(k, c, p + 2) /\ prev'[w] = c[p+1]
  BY <1>1, <1>2 DEF Advance, TypeInv, Types
<1>4. Op(w) = "remove" => p + 1 < k
  BY <1>1, <1>2, Nths
<1>5. \A i \in 1..k : i <= p + 1 => IF Op(w) = "insert" THEN value[c[i]] < Val(w)
                                     ELSE value[c[i]] # Val(w)
  <2>1. \A i \in 1..k : i <= p + 1 => i <= p \/ i = p + 1
    OBVIOUS
  <2>2. QED
    BY <1>1, <2>1 DEF SearchAt
<1>6. SearchAt(w, k, c, p + 1)'
  <2>1. cur'[w] = Nth(k, c, (p + 1) + 1)' /\ prev'[w] = Nth(k, c, p + 1)'
    BY <1>1, <1>3 DEF Nth
  <2>2. p + 1 # 0 /\ Op(w)' = Op(w) /\ Val(w)' = Val(w) /\ value' = value
    BY DEF Op, Val, fields
  <2>3. QED
    BY <1>4, <1>5, <2>1, <2>2 DEF SearchAt
<1>7. pc'[w] = "search" /\ p + 1 \in 0..k
  BY <1>1
<1>8. QED
  BY <1>6, <1>7 DEF Stands

\* A step to where there is nothing in the worker's hands.
LEMMA RestStep ==
    ASSUME NEW w \in Workers, NEW k, NEW c, pc'[w] = "return"
    PROVE  Stands(w, k, c)'
BY DEF Stands

LEMMA CallStep ==
    ASSUME OneWorker, TypeInv, NEW w \in Workers, NEW k \in Nat, NEW c \in [1..k -> Nodes],
           IsList(k, c), Call(w) \/ Return(w)
    PROVE  IsList(k, c)'
<1>1. /\ pc[w] \in {"idle", "return"} /\ pc'[w] \in {"idle", "head"} /\ prev'[w] = Null
      /\ UNCHANGED <<head, fields, heap, saving>>
  BY DEF Call, Return, Goto, TypeInv, Types, IsList, Stands
<1>2. Stands(w, k, c)'
  BY <1>1 DEF Stands
<1>3. QED
  BY <1>1, <1>2, QuietStep

LEMMA ReturnStep ==
    ASSUME OneWorker, TypeInv, NEW w \in Workers, NEW k \in Nat, NEW c \in [1..k -> Nodes],
           IsList(k, c),
           InsertCount(w) \/ RemoveEmpty(w) \/ RemoveMiss(w) \/ ContainsAnswer(w)
    PROVE  IsList(k, c)'
<1>1. /\ pc[w] \in {"count", "head", "search"} /\ pc'[w] = "return"
      /\ UNCHANGED <<head, fields, heap, saving>>
  BY DEF InsertCount, RemoveEmpty, RemoveMiss, ContainsAnswer, Goto, TypeInv, Types
<1>2. QED
  BY <1>1, RestStep, QuietStep

\* A search begins before the first node, the one of remove on it.
LEMMA HeadStep ==
    ASSUME OneWorker, TypeInv, NEW w \in Workers, NEW k \in Nat, NEW c \in [1..k -> Nodes],
           IsList(k, c), InsertHead(w) \/ RemoveHead(w) \/ ContainsHead(w)
    PROVE  IsList(k, c)'
<1>1. /\ pc[w] = "head" /\ UNCHANGED <<head, fields, heap, req, saving>>
      /\ cur'[w] = head /\ head = Nth(k, c, 1)
  BY DEF InsertHead, RemoveHead, ContainsHead, Goto, TypeInv, Types, IsList, Linked
<1>2. CASE InsertHead(w) \/ ContainsHead(w)
  <2>1. pc'[w] = "search" /\ prev'[w] = Null /\ Op(w) # "remove"
    BY <1>2 DEF InsertHead, ContainsHead, Goto, TypeInv, Types, IsList, Stands
  <2>2. SearchAt(w, k, c, 0)'
    BY <1>1, <2>1, Nths DEF SearchAt, Op, Nth
  <2>3. Stands(w, k, c)'
    BY <2>1, <2>2 DEF Stands
  <2>4. QED
    BY <1>1, <2>3, QuietStep
<1>3. CASE RemoveHead(w)
  <2>1. /\ head # Null /\ prev'[w] = head /\ Op(w) = "remove"
        /\ pc'[w] = IF value[head] = Val(w) THEN "first" ELSE "search"
    BY <1>3 DEF RemoveHead, TypeInv, Types
  <2>2. k # 0 /\ head = c[1]
    BY <1>1, <2>1, Nths
  <2>3. CASE value[head] = Val(w)
    <3>1. Op(w)' = Op(w) /\ Val(w)' = Val(w) /\ value' = value
      BY <1>1 DEF Op, Val, fields
    <3>2. Stands(w, k, c)'
      BY <1>1, <2>1, <2>2, <2>3, <3>1 DEF Stands
    <3>3. QED
      BY <1>1, <3>2, QuietStep
  <2>4. CASE value[head] # Val(w)
    <3>1. Op(w)' = Op(w) /\ Val(w)' = Val(w) /\ value' = value
      BY <1>1 DEF Op, Val, fields
    <3>2. SearchAt(w, k, c, 0)'
      BY <1>1, <2>1, <2>2, <2>4, <3>1 DEF SearchAt, Nth
    <3>3. Stands(w, k, c)'
      BY <2>1, <2>4, <3>2 DEF Stands
    <3>4. QED
      BY <1>1, <3>3, QuietStep
  <2>5. QED
    BY <2>3, <2>4
<1>4. QED
  BY <1>2, <1>3

LEMMA AdvanceStep ==
    ASSUME OneWorker, TypeInv, NEW w \in Workers, NEW k \in Nat, NEW c \in [1..k -> Nodes],
           IsList(k, c), InsertAdvance(w) \/ RemoveAdvance(w) \/ ContainsAdvance(w)
    PROVE  IsList(k, c)'
<1>1. /\ pc[w] = "search" /\ Advance(w)
      /\ UNCHANGED <<head, fields, heap, pc, req, saving>>
      /\ Op(w) = "remove" => next[cur[w]] # Null
      /\ IF Op(w) = "insert" THEN value[cur[w]] < Val(w) ELSE value[cur[w]] # Val(w)
  BY DEF InsertAdvance, RemoveAdvance, ContainsAdvance, Smaller
<1>2. cur[w] # Null
  BY DEF InsertAdvance, RemoveAdvance, ContainsAdvance, Smaller, TypeInv, Hands
<1>3. PICK p \in 0..k : SearchAt(w, k, c, p)
  BY <1>1 DEF IsList, Stands
<1>4. Stands(w, k, c)'
  BY <1>1, <1>2, <1>3, SearchMoves
<1>5. QED
  BY <1>1, <1>4, QuietStep

\* The traversal starts at the first node and goes where the list goes.
LEMMA TraversalStep ==
    ASSUME TypeInv, NEW k \in Nat, NEW c \in [1..k -> Nodes], IsList(k, c),
           SaveCount \/ SaveNode \/ SaveEnd
    PROVE  IsList(k, c)'
<1>1. UNCHANGED <<head, fields, heap, pc, req, cur, prev>>
  BY DEF SaveCount, SaveNode, SaveEnd
<1>2. CASE SaveCount
  <2>1. at' = Null \/ Listed(k, c, at')
    BY <1>2, Nths DEF SaveCount, IsList, Linked, Listed
  <2>2. image' # Null
    <3>1. image' \in [count : Nat, values : Seq(Values)]
      BY <1>2 DEF SaveCount, TypeInv, Types
    <3>2. QED
      BY <3>1, NullAssumption
  <2>3. Traversed(k, c)'
    BY <2>1, <2>2 DEF Traversed, Listed
  <2>4. QED
    BY <1>1, <2>3, SaveStep
<1>3. CASE SaveNode
  <2>1. /\ at # Null /\ at' = next[at] /\ intact' = intact
        /\ image # Null /\ image' = [image EXCEPT !.values = Append(@, value[at])]
    BY <1>3 DEF SaveNode, TypeInv, Made
  <2>2. image' # Null
    <3>1. image \in [count : Nat, values : Seq(Values)] /\ value[at] \in Values
      BY <2>1 DEF TypeInv, Types, Made, NodesOrNull
    <3>2. image' = [image EXCEPT !.values = Append(image.values, value[at])]
      BY <2>1
    <3>3. Append(image.values, value[at]) \in Seq(Values)
      BY <3>1
    <3>4. image' \in [count : Nat, values : Seq(Values)]
      BY <3>1, <3>2, <3>3
    <3>5. QED
      BY <3>4, NullAssumption
  <2>3. intact => at' = Null \/ Listed(k, c, at')
    <3>1. SUFFICES ASSUME intact PROVE at' = Null \/ Listed(k, c, at')
      OBVIOUS
    <3>2. PICK i \in 1..k : c[i] = at
      BY <2>1, <3>1 DEF IsList, Traversed, Listed
    <3>3. at' = Nth(k, c, i + 1)
      BY <2>1, <3>2 DEF IsList, Linked
    <3>4. QED
      BY <3>3 DEF Nth, Listed
  <2>4. Traversed(k, c)'
    BY <2>1, <2>2, <2>3 DEF Traversed, Listed
  <2>5. QED
    BY <1>1, <2>4, SaveStep
<1>4. CASE SaveEnd
  <2>1. at' = Null /\ intact'
    BY <1>4 DEF SaveEnd
  <2>2. Traversed(k, c)'
    BY <2>1 DEF Traversed
  <2>3. QED
    BY <1>1, <2>2, SaveStep
<1>5. QED
  BY <1>2, <1>3, <1>4

\* The new node is nobody's yet; it belongs where the search has stopped.
LEMMA AllocStep ==
    ASSUME OneWorker, TypeInv, NEW w \in Workers, NEW k \in Nat, NEW c \in [1..k -> Nodes],
           IsList(k, c), InsertAlloc(w)
    PROVE  IsList(k, c)'
<1>1. PICK n \in Nodes \ heap : /\ heap' = heap \cup {n}
                                /\ value' = [value EXCEPT ![n] = Val(w)]
                                /\ next' = [next EXCEPT ![n] = cur[w]]
                                /\ cur' = [cur EXCEPT ![w] = n]
  BY DEF InsertAlloc
<1>2. /\ pc[w] = "search" /\ pc'[w] = "link" /\ Op(w) = "insert" /\ ~Smaller(w)
      /\ UNCHANGED <<head, req, prev, at, image, intact>>
  BY DEF InsertAlloc, Goto, TypeInv, Types, saving, traversal
<1>3. PICK p \in 0..k : SearchAt(w, k, c, p)
  BY <1>2 DEF IsList, Stands
<1>4. Val(w) \in Values
  <2>1. req[w] \in Requests
    BY <1>2 DEF TypeInv, Hands
  <2>2. QED
    BY <2>1, RequestTypes DEF Val
<1>5. \A i \in 1..k : c[i] \in heap /\ c[i] # n
  BY <1>1 DEF IsList, Owned
<1>6. /\ value'[n] = Val(w) /\ next'[n] = cur[w] /\ cur'[w] = n
      /\ \A m \in Nodes : m # n => value'[m] = value[m] /\ next'[m] = next[m]
  BY <1>1 DEF TypeInv, Types
<1>7. \A i \in 1..k : value'[c[i]] = value[c[i]] /\ next'[c[i]] = next[c[i]]
  BY <1>5, <1>6
<1>8. Linked(k, c)' /\ Distinct(k, c)' /\ Ascending(k, c)'
  BY <1>2, <1>7 DEF IsList, Linked, Distinct, Ascending, Nth
<1>9. \A v \in Workers : v = w
  BY DEF OneWorker
<1>10. Owned(k, c)'
  <2>1. \A i \in 1..k : c[i] \in heap'
    BY <1>1, <1>5
  <2>2. \A m \in heap' : value'[m] \in Values
    BY <1>1, <1>4, <1>6 DEF IsList, Owned, TypeInv, Types
  <2>3. ASSUME NEW m \in heap' PROVE Listed(k, c, m) \/ \E v \in Workers : Holds(v, m)'
    <3>1. CASE m = n
      BY <1>2, <1>6, <3>1 DEF Holds
    <3>2. CASE m # n
      BY <1>1, <1>2, <1>9, <3>2 DEF IsList, Owned, Holds
    <3>3. QED
      BY <3>1, <3>2
  <2>4. QED
    BY <2>1, <2>2, <2>3 DEF Owned, Listed
<1>11. Traversed(k, c)'
  BY <1>2 DEF IsList, Traversed, Listed
<1>12. \A i \in 1..k : i <= p <=> value[c[i]] < Val(w)
  <2>1. \A i \in 1..k : i <= p => value[c[i]] < Val(w)
    BY <1>2, <1>3 DEF SearchAt
  <2>2. ASSUME NEW i \in 1..k, i > p PROVE ~(value[c[i]] < Val(w))
    <3>1. p + 1 \in 1..k /\ p + 1 <= i
      BY <2>2
    <3>2. cur[w] = c[p+1] /\ cur[w] # Null
      BY <1>3, <3>1, Nths DEF SearchAt
    <3>3. ~(value[c[p+1]] < Val(w))
      BY <1>2, <3>2 DEF Smaller
    <3>4. value[c[p+1]] <= value[c[i]]
      BY <3>1 DEF IsList, Ascending
    <3>5. value[c[p+1]] \in Int /\ value[c[i]] \in Int /\ Val(w) \in Int
      BY <3>1, <1>4, ListValues, ValuesAssumption
    <3>6. QED
      BY <3>3, <3>4, <3>5
  <2>3. QED
    BY <2>1, <2>2
<1>13. LinkAt(w, k, c, p)'
  <2>1. Val(w)' = Val(w)
    BY <1>2 DEF Val
  <2>2. prev[w] = Nth(k, c, p) /\ cur[w] = Nth(k, c, p + 1)
    BY <1>2, <1>3 DEF SearchAt
  <2>3. \A i \in 1..k : i <= p <=> value'[c[i]] < Val(w)
    BY <1>7, <1>12
  <2>4. QED
    BY <1>2, <1>6, <2>1, <2>2, <2>3 DEF LinkAt, Nth
<1>14. Stands(w, k, c)'
  <2>1. cur'[w] \in heap' /\ ~Listed(k, c, cur'[w])
    BY <1>1, <1>5, <1>6 DEF Listed
  <2>2. QED
    BY <1>2, <1>13, <2>1 DEF Stands, Listed, Op
<1>15. QED
  BY <1>8, <1>9, <1>10, <1>11, <1>14 DEF IsList

\* The freed node is not in the list, and the traversal not on it.
LEMMA FreeStep ==
    ASSUME OneWorker, TypeInv, NEW w \in Workers, NEW k \in Nat, NEW c \in [1..k -> Nodes],
           IsList(k, c), RemoveFree(w)
    PROVE  IsList(k, c)'
<1>1. /\ pc[w] = "free" /\ pc'[w] = "return" /\ heap' = heap \ {cur[w]}
      /\ UNCHANGED <<head, fields, req, cur, prev, at, image, intact>>
  BY DEF RemoveFree, Goto, TypeInv, Types, saving, traversal
<1>2. \A v \in Workers : v = w
  BY DEF OneWorker
<1>3. ~Listed(k, c, cur[w])
  BY <1>1 DEF IsList, Stands
<1>4. Linked(k, c)' /\ Distinct(k, c)' /\ Ascending(k, c)'
  BY <1>1 DEF IsList, Linked, Distinct, Ascending, Nth, fields
<1>5. Owned(k, c)'
  <2>1. \A i \in 1..k : c[i] \in heap'
    BY <1>1, <1>3 DEF IsList, Owned, Listed
  <2>2. \A m \in heap' : value'[m] \in Values
    BY <1>1 DEF IsList, Owned, fields
  <2>3. \A m \in heap' : Listed(k, c, m)
    BY <1>1, <1>2 DEF IsList, Owned, Holds
  <2>4. QED
    BY <2>1, <2>2, <2>3 DEF Owned, Listed
<1>6. Traversed(k, c)'
  BY <1>1 DEF IsList, Traversed, Listed
<1>7. \A v \in Workers : Stands(v, k, c)'
  BY <1>1, <1>2, RestStep
<1>8. QED
  BY <1>4, <1>5, <1>6, <1>7 DEF IsList

\* The list with n after its first p nodes, and the list without its p-th node.
With(k, c, p, n) ==
    [i \in 1..k + 1 |-> IF i <= p THEN c[i] ELSE IF i = p + 1 THEN n ELSE c[i-1]]
Without(k, c, p) == [i \in 1..k - 1 |-> IF i < p THEN c[i] ELSE c[i+1]]

\* d is c with the node n besides, and without it.
Grown(k, c, e, d, n) ==
    ~Listed(k, c, n) /\ \A m \in Nodes : Listed(e, d, m) <=> m = n \/ Listed(k, c, m)
Shrunk(k, c, e, d, n) ==
    Listed(k, c, n) /\ \A m \in Nodes : Listed(e, d, m) <=> m # n /\ Listed(k, c, m)

LEMMA WithShape ==
    ASSUME NEW k \in Nat, NEW c \in [1..k -> Nodes], NEW p \in 0..k, NEW n \in Nodes
    PROVE  /\ With(k, c, p, n) \in [1..k + 1 -> Nodes]
           /\ \A i \in 1..k : i <= p => With(k, c, p, n)[i] = c[i]
           /\ With(k, c, p, n)[p+1] = n
           /\ \A i \in 1..k : i > p => With(k, c, p, n)[i+1] = c[i]
           /\ \A m : Listed(k + 1, With(k, c, p, n), m) <=> m = n \/ Listed(k, c, m)
<1> DEFINE d == With(k, c, p, n)
<1>1. d \in [1..k + 1 -> Nodes]
  BY DEF With
<1>2. \A i \in 1..k : i <= p => d[i] = c[i]
  BY DEF With
<1>3. d[p+1] = n
  BY DEF With
<1>4. \A i \in 1..k : i > p => d[i+1] = c[i]
  BY DEF With
<1> HIDE DEF d
<1>5. ASSUME NEW m PROVE Listed(k + 1, d, m) <=> m = n \/ Listed(k, c, m)
  <2>1. ASSUME NEW i \in 1..k + 1 PROVE d[i] = n \/ Listed(k, c, d[i])
    <3>1. CASE i <= p
      BY <1>2, <3>1 DEF Listed
    <3>2. CASE i = p + 1
      BY <1>3, <3>2
    <3>3. CASE i > p + 1
      <4>1. i - 1 \in 1..k /\ i - 1 > p /\ (i - 1) + 1 = i
        BY <3>3
      <4>2. d[i] = c[i-1]
        BY <1>4, <4>1
      <4>3. QED
        BY <4>1, <4>2 DEF Listed
    <3>4. QED
      BY <3>1, <3>2, <3>3
  <2>2. ASSUME NEW i \in 1..k PROVE Listed(k + 1, d, c[i])
    <3>1. i \in 1..k + 1 /\ i + 1 \in 1..k + 1 /\ (i <= p \/ i > p)
      OBVIOUS
    <3>2. QED
      BY <1>2, <1>4, <3>1 DEF Listed
  <2>3. p + 1 \in 1..k + 1
    OBVIOUS
  <2>4. QED
    BY <1>3, <2>1, <2>2, <2>3 DEF Listed
<1>6. QED
  BY <1>1, <1>2, <1>3, <1>4, <1>5 DEF d

LEMMA WithoutShape ==
    ASSUME NEW k \in Nat, NEW c \in [1..k -> Nodes], NEW p \in 1..k, Distinct(k, c)
    PROVE  /\ k - 1 \in Nat
           /\ Without(k, c, p) \in [1..k - 1 -> Nodes]
           /\ \A i \in 1..k - 1 : Without(k, c, p)[i] = IF i < p THEN c[i] ELSE c[i+1]
           /\ \A m : Listed(k - 1, Without(k, c, p), m) <=> m # c[p] /\ Listed(k, c, m)
<1> DEFINE d == Without(k, c, p)
<1>1. k - 1 \in Nat
  OBVIOUS
<1>2. d \in [1..k - 1 -> Nodes]
  BY DEF Without
<1>3. \A i \in 1..k - 1 : d[i] = IF i < p THEN c[i] ELSE c[i+1]
  BY DEF Without
<1> HIDE DEF d
<1>4. ASSUME NEW m PROVE Listed(k - 1, d, m) <=> m # c[p] /\ Listed(k, c, m)
  <2>1. ASSUME NEW i \in 1..k - 1 PROVE d[i] # c[p] /\ Listed(k, c, d[i])
    <3>1. i \in 1..k /\ i + 1 \in 1..k /\ (i < p => i # p) /\ (~(i < p) => i + 1 # p)
      OBVIOUS
    <3>2. CASE i < p
      BY <1>3, <3>1, <3>2 DEF Distinct, Listed
    <3>3. CASE ~(i < p)
      BY <1>3, <3>1, <3>3 DEF Distinct, Listed
    <3>4. QED
      BY <3>2, <3>3
  <2>2. ASSUME NEW i \in 1..k, c[i] # c[p] PROVE Listed(k - 1, d, c[i])
    <3>1. CASE i < p
      <4>1. i \in 1..k - 1
        BY <3>1
      <4>2. d[i] = c[i]
        BY <1>3, <3>1, <4>1
      <4>3. QED
        BY <4>1, <4>2 DEF Listed
    <3>2. CASE i > p
      <4>1. i - 1 \in 1..k - 1 /\ ~(i - 1 < p) /\ (i - 1) + 1 = i
        BY <3>2
      <4>2. d[i-1] = c[i]
        BY <1>3, <4>1
      <4>3. QED
        BY <4>1, <4>2 DEF Listed
    <3>3. QED
      BY <2>2, <3>1, <3>2
  <2>3. QED
    BY <2>1, <2>2 DEF Listed
<1>5. QED
  BY <1>1, <1>2, <1>3, <1>4 DEF d

\* The new node is linked where it belongs.
LEMMA LinkStep ==
    ASSUME OneWorker, TypeInv, NEW w \in Workers, NEW k \in Nat, NEW c \in [1..k -> Nodes],
           IsList(k, c), InsertLink(w)
    PROVE  \E n \in Nodes, p \in 0..k : \E d \in [1..k + 1 -> Nodes] :
               /\ d = With(k, c, p, n) /\ IsList(k + 1, d)'
               /\ n = cur[w] /\ Grown(k, c, k + 1, d, n)
<1>0. PICK n \in Nodes : n = cur[w]
  BY DEF InsertLink, Goto, TypeInv, Types, IsList, Stands
<1>1. /\ pc[w] = "link" /\ pc'[w] = "count"
      /\ UNCHANGED <<value, heap, req, cur, prev, at, image, intact>>
      /\ n \in heap /\ ~Listed(k, c, n)
  BY <1>0 DEF InsertLink, Goto, TypeInv, Types, saving, traversal, IsList, Stands
<1>2. PICK p \in 0..k : LinkAt(w, k, c, p)
  BY <1>1 DEF IsList, Stands
<1> DEFINE d == With(k, c, p, n)
<1>3. /\ d \in [1..k + 1 -> Nodes]
      /\ \A i \in 1..k : i <= p => d[i] = c[i]
      /\ d[p+1] = n
      /\ \A i \in 1..k : i > p => d[i+1] = c[i]
      /\ \A m : Listed(k + 1, d, m) <=> m = n \/ Listed(k, c, m)
  BY <1>1, WithShape
<1>4. \A i \in 1..k : c[i] # n /\ c[i] \in Nodes
  BY <1>1 DEF Listed
<1>5. /\ p = 0 => head' = n /\ next' = next
      /\ p # 0 => head' = head /\ next' = [next EXCEPT ![c[p]] = n]
  <2>1. prev[w] = Nth(k, c, p)
    BY <1>2 DEF LinkAt
  <2>2. p = 0 => prev[w] = Null
    BY <2>1, Nths
  <2>3. p # 0 => p \in 1..k /\ prev[w] = c[p] /\ prev[w] # Null
    BY <2>1, Nths
  <2>4. QED
    BY <1>0, <2>2, <2>3 DEF InsertLink
<1>6. /\ next'[n] = Nth(k, c, p + 1)
      /\ \A i \in 1..k : next'[c[i]] = IF i = p THEN n ELSE Nth(k, c, i + 1)
  <2>1. next[n] = Nth(k, c, p + 1) /\ \A i \in 1..k : next[c[i]] = Nth(k, c, i + 1)
    BY <1>0, <1>2 DEF LinkAt, IsList, Linked
  <2>2. CASE p = 0
    BY <1>5, <2>1, <2>2
  <2>3. CASE p # 0
    <3>1. p \in 1..k /\ next' = [next EXCEPT ![c[p]] = n] /\ next \in [Nodes -> NodesOrNull]
      BY <1>5, <2>3 DEF TypeInv, Types
    <3>2. \A m \in Nodes : next'[m] = IF m = c[p] THEN n ELSE next[m]
      BY <3>1
    <3>3. \A i \in 1..k : c[i] = c[p] <=> i = p
      BY <3>1 DEF IsList, Distinct
    <3>4. QED
      BY <1>1, <1>4, <2>1, <3>1, <3>2, <3>3
  <2>4. QED
    BY <2>2, <2>3
<1> HIDE DEF d
<1>7. ASSUME NEW i \in 1..k + 1
      PROVE  \/ i \in 1..k /\ i <= p /\ d[i] = c[i]
             \/ i = p + 1 /\ d[i] = n
             \/ i - 1 \in 1..k /\ i - 1 > p /\ d[i] = c[i-1]
  <2>1. CASE i <= p
    BY <1>3, <2>1
  <2>2. CASE i = p + 1
    BY <1>3, <2>2
  <2>3. CASE i > p + 1
    <3>1. i - 1 \in 1..k /\ i - 1 > p /\ (i - 1) + 1 = i
      BY <2>3
    <3>2. QED
      BY <1>3, <3>1
  <2>4. QED
    BY <2>1, <2>2, <2>3
<1>8. Linked(k + 1, d)'
  <2>1. head' = d[1]
    <3>1. CASE p = 0
      BY <1>3, <1>5, <3>1
    <3>2. CASE p # 0
      <4>1. 1 \in 1..k /\ 1 <= p /\ head = c[1]
        BY <3>2 DEF IsList, Linked, Nth
      <4>2. QED
        BY <1>3, <1>5, <3>2, <4>1
    <3>3. QED
      BY <3>1, <3>2
  <2>2. ASSUME NEW i \in 1..k + 1
        PROVE  next'[d[i]] = IF i + 1 \in 1..k + 1 THEN d[i+1] ELSE Null
    <3>1. CASE i \in 1..k /\ i <= p /\ d[i] = c[i]
      <4>1. i = p => next'[d[i]] = d[i+1] /\ i + 1 \in 1..k + 1
        BY <1>3, <1>6, <3>1
      <4>2. i # p => i + 1 \in 1..k /\ i + 1 <= p
        BY <3>1
      <4>3. i # p => next'[d[i]] = c[i+1] /\ d[i+1] = c[i+1] /\ i + 1 \in 1..k + 1
        BY <1>3, <1>6, <3>1, <4>2 DEF Nth
      <4>4. QED
        BY <4>1, <4>3
    <3>2. CASE i = p + 1 /\ d[i] = n
      <4>1. next'[d[i]] = Nth(k, c, i)
        BY <1>6, <3>2
      <4>2. CASE i \in 1..k
        BY <1>3, <3>2, <4>1, <4>2 DEF Nth
      <4>3. CASE i \notin 1..k
        BY <4>1, <4>3 DEF Nth
      <4>4. QED
        BY <4>2, <4>3
    <3>3. CASE i - 1 \in 1..k /\ i - 1 > p /\ d[i] = c[i-1]
      <4>1. next'[d[i]] = Nth(k, c, i)
        BY <1>6, <3>3
      <4>2. CASE i \in 1..k
        BY <1>3, <3>3, <4>1, <4>2 DEF Nth
      <4>3. CASE i \notin 1..k
        BY <4>1, <4>3 DEF Nth
      <4>4. QED
        BY <4>2, <4>3
    <3>4. QED
      BY <1>7, <3>1, <3>2, <3>3
  <2>3. QED
    BY <2>1, <2>2 DEF Linked, Nth
<1>9. Distinct(k + 1, d)'
  <2>1. \A i, j \in 1..k + 1 : d[i] = d[j] => i = j
    BY <1>4, <1>7 DEF IsList, Distinct
  <2>2. QED
    BY <2>1 DEF Distinct
<1>10. Ascending(k + 1, d)'
  <2>1. \A i \in 1..k : value[c[i]] \in Int
    BY ListValues
  <2>2. value[n] \in Int /\ \A i \in 1..k : i <= p <=> value[c[i]] < value[n]
    <3>1. value[n] \in Int
      BY <1>1, ValuesAssumption DEF IsList, Owned
    <3>2. QED
      BY <1>0, <1>2, <3>1 DEF LinkAt
  <2>3. \A i, j \in 1..k + 1 : i <= j => value[d[i]] <= value[d[j]]
    <3>1. SUFFICES ASSUME NEW i \in 1..k + 1, NEW j \in 1..k + 1, i <= j
                   PROVE  value[d[i]] <= value[d[j]]
      OBVIOUS
    <3>2. \A a, b \in 1..k : a <= b => value[c[a]] <= value[c[b]]
      BY DEF IsList, Ascending
    <3>3. CASE i = p + 1 /\ d[i] = n
      BY <1>7, <2>1, <2>2, <3>1, <3>3
    <3>4. CASE j = p + 1 /\ d[j] = n
      BY <1>7, <2>1, <2>2, <3>1, <3>4
    <3>5. CASE i # p + 1 /\ j # p + 1
      BY <1>7, <2>1, <3>1, <3>2, <3>5
    <3>6. QED
      BY <1>3, <3>3, <3>4, <3>5
  <2>4. QED
    BY <1>1, <2>3 DEF Ascending
<1>11. \A v \in Workers : v = w
  BY DEF OneWorker
<1>12. Owned(k + 1, d)'
  <2>1. \A i \in 1..k + 1 : d[i] \in heap'
    BY <1>1, <1>7 DEF IsList, Owned
  <2>2. \A m \in heap' : value'[m] \in Values
    BY <1>1 DEF IsList, Owned
  <2>3. \A m \in heap' : Listed(k + 1, d, m)
    BY <1>0, <1>1, <1>3, <1>11 DEF IsList, Owned, Holds
  <2>4. QED
    BY <2>1, <2>2, <2>3 DEF Owned, Listed
<1>13. Traversed(k + 1, d)'
  <2>1. intact' => at' = Null \/ Listed(k + 1, d, at')
    BY <1>1, <1>3 DEF IsList, Traversed
  <2>2. QED
    BY <1>1, <2>1 DEF IsList, Traversed, Listed
<1>14. \A v \in Workers : Stands(v, k + 1, d)'
  BY <1>1, <1>11 DEF Stands
<1>15. IsList(k + 1, d)'
  BY <1>8, <1>9, <1>10, <1>12, <1>13, <1>14 DEF IsList
<1>16. d = With(k, c, p, n) /\ Grown(k, c, k + 1, d, n)
  BY <1>1, <1>3 DEF d, Grown
<1>17. QED
  BY <1>0, <1>3, <1>15, <1>16

\* The node found, first or not, is unlinked and still to be freed.  A traversal
\* that is under way is no longer known to be in the list.
LEMMA UnlinkStep ==
    ASSUME OneWorker, TypeInv, NEW w \in Workers, NEW k \in Nat, NEW c \in [1..k -> Nodes],
           IsList(k, c), RemoveFirstNode(w) \/ RemoveFound(w)
    PROVE  \E e \in Nat : \E d \in [1..e -> Nodes] :
               IsList(e, d)' /\ Shrunk(k, c, e, d, cur[w])
<1>1. /\ pc'[w] = "free"
      /\ UNCHANGED <<value, heap, req, cur, prev, at, image>>
      /\ intact' = (image = Null)
  BY DEF RemoveFirstNode, RemoveFound, Goto, TypeInv, Types, traversal, fields
<1>2. PICK p \in 1..k : /\ cur[w] = c[p]
                        /\ p = 1 => head' = next[c[p]] /\ next' = next /\ prev[w] = c[1]
                        /\ p # 1 => /\ head' = head /\ prev[w] = c[p-1]
                                    /\ next' = [next EXCEPT ![c[p-1]] = next[c[p]]]
  <2>1. CASE RemoveFirstNode(w)
    <3>1. pc[w] = "first" /\ head' = next[cur[w]] /\ next' = next
      BY <2>1 DEF RemoveFirstNode, Goto, fields
    <3>2. k # 0 /\ cur[w] = c[1] /\ prev[w] = c[1]
      BY <3>1 DEF IsList, Stands
    <3>3. 1 \in 1..k
      BY <3>2
    <3>4. QED
      BY <3>1, <3>2, <3>3
  <2>2. CASE RemoveFound(w)
    <3>1. /\ pc[w] = "search" /\ Op(w) = "remove" /\ value[cur[w]] = Val(w)
          /\ head' = head /\ next' = [next EXCEPT ![prev[w]] = next[cur[w]]]
      BY <2>2 DEF RemoveFound, Goto
    <3>2. PICK q \in 0..k : SearchAt(w, k, c, q)
      BY <3>1 DEF IsList, Stands
    <3>3. q + 1 \in 1..k /\ cur[w] = c[q+1]
      BY <3>1, <3>2 DEF SearchAt, Nth
    <3>4. q # 0
      BY <3>1, <3>2, <3>3 DEF SearchAt
    <3>5. q \in 1..k /\ prev[w] = c[q] /\ (q + 1) - 1 = q /\ q + 1 # 1
      BY <3>1, <3>2, <3>4 DEF SearchAt, Nth
    <3>6. QED
      BY <3>1, <3>3, <3>5
  <2>3. QED
    BY <2>1, <2>2
<1> DEFINE d == Without(k, c, p)
<1>3. /\ k - 1 \in Nat
      /\ d \in [1..k - 1 -> Nodes]
      /\ \A i \in 1..k - 1 : d[i] = IF i < p THEN c[i] ELSE c[i+1]
      /\ \A m : Listed(k - 1, d, m) <=> m # c[p] /\ Listed(k, c, m)
  BY WithoutShape DEF IsList
<1> HIDE DEF d
<1>4. \A i \in 1..k : next[c[i]] = IF i < k THEN c[i+1] ELSE Null
  BY DEF IsList, Linked, Nth
<1>5. \A i, j \in 1..k : c[i] = c[j] => i = j
  BY DEF IsList, Distinct
<1>6. \A i \in 1..k : next'[c[i]] = IF i = p - 1 THEN next[c[p]] ELSE next[c[i]]
  <2>1. CASE p = 1
    BY <1>2, <2>1
  <2>2. CASE p # 1
    <3>1. p - 1 \in 1..k /\ next' = [next EXCEPT ![c[p-1]] = next[c[p]]]
      BY <1>2, <2>2
    <3>2. \A m \in Nodes : next'[m] = IF m = c[p-1] THEN next[c[p]] ELSE next[m]
      BY <3>1 DEF TypeInv, Types
    <3>3. \A i \in 1..k : c[i] = c[p-1] <=> i = p - 1
      BY <1>5, <3>1
    <3>4. QED
      BY <3>2, <3>3
  <2>3. QED
    BY <2>1, <2>2
<1>7. Linked(k - 1, d)'
  <2>1. head' = IF k - 1 = 0 THEN Null ELSE d[1]
    <3>1. CASE p = 1
      BY <1>2, <1>3, <1>4, <3>1
    <3>2. CASE p # 1
      BY <1>2, <1>3, <3>2 DEF IsList, Linked, Nth
    <3>3. QED
      BY <3>1, <3>2
  <2>2. ASSUME NEW i \in 1..k - 1 PROVE next'[d[i]] = IF i < k - 1 THEN d[i+1] ELSE Null
    <3>1. CASE i < p - 1
      <4>1. i \in 1..k /\ i < k - 1 /\ i < k /\ i # p - 1 /\ i < p
        BY <3>1
      <4>2. i + 1 \in 1..k - 1 /\ i + 1 < p
        BY <3>1
      <4>3. d[i] = c[i] /\ d[i+1] = c[i+1]
        BY <1>3, <4>1, <4>2
      <4>4. QED
        BY <1>4, <1>6, <4>1, <4>3
    <3>2. CASE i = p - 1
      <4>1. i \in 1..k /\ i < p /\ d[i] = c[i] /\ next'[c[i]] = next[c[p]]
        BY <1>3, <1>6, <3>2
      <4>2. i < k - 1 <=> p < k
        BY <3>2
      <4>3. i < k - 1 => i + 1 \in 1..k - 1 /\ i + 1 = p /\ d[i+1] = c[p+1]
        BY <1>3, <3>2
      <4>4. QED
        BY <1>4, <4>1, <4>2, <4>3
    <3>3. CASE i > p - 1
      <4>1. i + 1 \in 1..k /\ i + 1 # p - 1 /\ (i < k - 1 <=> i + 1 < k)
        BY <3>3
      <4>2. d[i] = c[i+1]
        BY <1>3, <3>3
      <4>3. i < k - 1 => i + 1 \in 1..k - 1 /\ d[i+1] = c[(i+1)+1]
        BY <1>3, <3>3
      <4>4. QED
        BY <1>4, <1>6, <4>1, <4>2, <4>3
    <3>4. QED
      BY <3>1, <3>2, <3>3
  <2>3. QED
    BY <1>3, <2>1, <2>2 DEF Linked, Nth
<1>8. ASSUME NEW i \in 1..k - 1 PROVE i \in 1..k /\ i + 1 \in 1..k
  OBVIOUS
<1>9. Distinct(k - 1, d)'
  <2>1. \A i, j \in 1..k - 1 : d[i] = d[j] => i = j
    BY <1>3, <1>5, <1>8
  <2>2. QED
    BY <2>1 DEF Distinct
<1>10. Ascending(k - 1, d)'
  <2>1. \A i, j \in 1..k : i <= j => value[c[i]] <= value[c[j]]
    BY DEF IsList, Ascending
  <2>2. \A i, j \in 1..k - 1 : i <= j => value[d[i]] <= value[d[j]]
    BY <1>3, <1>8, <2>1
  <2>3. QED
    BY <1>1, <2>2 DEF Ascending
<1>11. \A v \in Workers : v = w
  BY DEF OneWorker
<1>12. \A i \in 1..k : c[i] \in heap
  BY DEF IsList, Owned
<1>13. Owned(k - 1, d)'
  <2>1. \A i \in 1..k - 1 : d[i] \in heap'
    BY <1>1, <1>3, <1>8, <1>12
  <2>2. \A m \in heap' : value'[m] \in Values
    BY <1>1 DEF IsList, Owned
  <2>3. pc[w] \notin {"link", "free"}
    BY DEF RemoveFirstNode, RemoveFound, Goto
  <2>4. \A m \in heap : Listed(k, c, m)
    BY <1>11, <2>3 DEF IsList, Owned, Holds
  <2>5. \A m \in heap' : Listed(k - 1, d, m) \/ (pc'[w] = "free" /\ cur'[w] = m)
    BY <1>1, <1>2, <1>3, <2>4
  <2>6. QED
    BY <2>1, <2>2, <2>5 DEF Owned, Listed, Holds
<1>14. Traversed(k - 1, d)'
  BY <1>1 DEF TypeInv, Made, Traversed
<1>15. Stands(w, k - 1, d)'
  <2>1. cur'[w] \in heap' /\ ~Listed(k - 1, d, cur'[w])
    BY <1>1, <1>2, <1>3, <1>12
  <2>2. prev'[w] \in heap'
    <3>1. p # 1 => p - 1 \in 1..k
      OBVIOUS
    <3>2. 1 \in 1..k
      OBVIOUS
    <3>3. QED
      BY <1>1, <1>2, <1>12, <3>1, <3>2
  <2>3. QED
    BY <1>1, <2>1, <2>2 DEF Stands, Listed
<1>16. IsList(k - 1, d)'
  BY <1>7, <1>9, <1>10, <1>11, <1>13, <1>14, <1>15 DEF IsList
<1>17. Shrunk(k, c, k - 1, d, cur[w])
  BY <1>2, <1>3 DEF Shrunk, Listed
<1>18. PICK e \in Nat : e = k - 1
  BY <1>3
<1>19. d \in [1..e -> Nodes] /\ IsList(e, d)' /\ Shrunk(k, c, e, d, cur[w])
  BY <1>3, <1>16, <1>17, <1>18
<1>20. QED
  BY <1>19

LEMMA ListInvStep ==
    ASSUME OneWorker, TypeInv, ListInv, [Next]_vars
    PROVE  ListInv'
<1>0. PICK k \in Nat : \E c \in [1..k -> Nodes] : IsList(k, c)
  BY DEF ListInv
<1>1. PICK c \in [1..k -> Nodes] : IsList(k, c)
  BY <1>0
<1>2. CASE IsList(k, c)'
  BY <1>2 DEF ListInv
<1>3. ASSUME NEW w \in Workers, Call(w) \/ Insert(w) \/ RemoveOne(w) \/ ContainsOne(w) \/ Return(w)
      PROVE  ListInv'
  <2>1. CASE Call(w) \/ Return(w)
    BY <1>1, <1>2, <2>1, CallStep
  <2>2. CASE InsertCount(w) \/ RemoveEmpty(w) \/ RemoveMiss(w) \/ ContainsAnswer(w)
    BY <1>1, <1>2, <2>2, ReturnStep
  <2>3. CASE InsertHead(w) \/ RemoveHead(w) \/ ContainsHead(w)
    BY <1>1, <1>2, <2>3, HeadStep
  <2>4. CASE InsertAdvance(w) \/ RemoveAdvance(w) \/ ContainsAdvance(w)
    BY <1>1, <1>2, <2>4, AdvanceStep
  <2>5. CASE InsertAlloc(w)
    BY <1>1, <1>2, <2>5, AllocStep
  <2>6. CASE InsertLink(w)
    <3>1. PICK d \in [1..k + 1 -> Nodes] : IsList(k + 1, d)'
      BY <1>1, <2>6, LinkStep
    <3>2. k + 1 \in Nat
      OBVIOUS
    <3>3. QED
      BY <3>1, <3>2 DEF ListInv
  <2>7. CASE RemoveFirstNode(w) \/ RemoveFound(w)
    <3>1. PICK e \in Nat : \E d \in [1..e -> Nodes] : IsList(e, d)'
      BY <1>1, <2>7, UnlinkStep
    <3>2. QED
      BY <3>1 DEF ListInv
  <2>8. CASE RemoveFree(w)
    BY <1>1, <1>2, <2>8, FreeStep
  <2>9. QED
    BY <1>3, <2>1, <2>2, <2>3, <2>4, <2>5, <2>6, <2>7, <2>8
    DEF Insert, RemoveOne, ContainsOne
<1>4. CASE SaveCount \/ SaveNode \/ SaveEnd
  BY <1>1, <1>2, <1>4, TraversalStep
<1>5. CASE UNCHANGED vars
  <2>1. UNCHANGED <<head, fields, heap, pc, req, cur, prev>> /\ Traversed(k, c)'
    BY <1>1, <1>5 DEF vars, IsList, Traversed, Listed, saving, traversal
  <2>2. QED
    BY <1>1, <1>2, <2>1, SaveStep
<1>6. QED
  BY <1>3, <1>4, <1>5 DEF Next

\* The list of the invariant is the chain from the head.
LEMMA HeadChain ==
    ASSUME TypeInv, NEW k \in Nat, NEW c \in [1..k -> Nodes], IsList(k, c)
    PROVE  ChainFrom(head) = c /\ k \in 0..N
<1>1. k \in 0..N
  BY DistinctNodes DEF IsList, Distinct
<1>2. head = IF k = 0 THEN Null ELSE c[1]
  BY DEF IsList, Linked, Nth
<1>3. \A i \in 1..k : next[c[i]] = IF i < k THEN c[i+1] ELSE Null
  BY DEF IsList, Linked, Nth
<1>4. next \in [Nodes -> NodesOrNull]
  BY DEF TypeInv, Types
<1>5. QED
  BY <1>1, <1>2, <1>3, <1>4, ChainIs

LEMMA ListedValues ==
    ASSUME TypeInv, NEW k \in Nat, NEW c \in [1..k -> Nodes], IsList(k, c)
    PROVE  /\ ValuesFrom(head) = [i \in 1..k |-> value[c[i]]]
           /\ Len(ChainFrom(head)) = k /\ Len(ValuesFrom(head)) = k
           /\ ToSet(ChainFrom(head)) = {c[i] : i \in 1..k}
<1>1. ChainFrom(head) = c
  BY HeadChain
<1>2. c \in Seq(Nodes) /\ Len(c) = k
  OBVIOUS
<1>3. ValuesFrom(head) = [i \in 1..k |-> value[c[i]]]
  BY <1>1 DEF ValuesFrom
<1>4. Len([i \in 1..k |-> value[c[i]]]) = k
  <2>1. [i \in 1..k |-> value[c[i]]] \in Seq(Values)
    BY ListValues
  <2>2. QED
    BY <2>1
<1>5. ToSet(c) = {c[i] : i \in 1..k}
  BY DEF ToSet
<1>6. QED
  BY <1>1, <1>2, <1>3, <1>4, <1>5

LEMMA ListInvSorted == TypeInv /\ ListInv => ForkSeesSortedList
<1> SUFFICES ASSUME TypeInv, ListInv PROVE ForkSeesSortedList
  OBVIOUS
<1>0. PICK k \in Nat : \E c \in [1..k -> Nodes] : IsList(k, c)
  BY DEF ListInv
<1>1. PICK c \in [1..k -> Nodes] : IsList(k, c)
  BY <1>0
<1>2. /\ ValuesFrom(head) = [i \in 1..k |-> value[c[i]]]
      /\ Len(ChainFrom(head)) = k /\ Len(ValuesFrom(head)) = k
      /\ ToSet(ChainFrom(head)) = {c[i] : i \in 1..k}
  BY <1>1, ListedValues
<1>3. Len(ChainFrom(head)) <= Cardinality(Nodes)
  BY <1>1, <1>2, HeadChain, NodeCount DEF N
<1>4. ToSet(ChainFrom(head)) \subseteq heap
  BY <1>1, <1>2 DEF IsList, Owned
<1>5. IsSorted(ValuesFrom(head), <=)
  BY <1>1, <1>2 DEF IsList, Ascending, IsSorted
<1>6. QED
  BY <1>3, <1>4, <1>5, Zenon DEF ForkSeesSortedList

LEMMA ListInvOwned == TypeInv /\ ListInv => NoNodeLost
<1> SUFFICES ASSUME TypeInv, ListInv PROVE NoNodeLost
  OBVIOUS
<1>0. PICK k \in Nat : \E c \in [1..k -> Nodes] : IsList(k, c)
  BY DEF ListInv
<1>1. PICK c \in [1..k -> Nodes] : IsList(k, c)
  BY <1>0
<1>2. ToSet(ChainFrom(head)) = {c[i] : i \in 1..k}
  BY <1>1, ListedValues
<1>3. \A n \in heap : Listed(k, c, n) \/ \E w \in Workers : Holds(w, n)
  BY <1>1 DEF IsList, Owned
<1>4. \A i \in 1..k : c[i] \in heap
  BY <1>1 DEF IsList, Owned
<1>5. \A w \in Workers : pc[w] \in {"link", "free"} => cur[w] \in heap
  BY <1>1 DEF IsList, Stands
<1>6. QED
  BY <1>2, <1>3, <1>4, <1>5 DEF NoNodeLost, Listed, Holds

LEMMA ListInvLive == TypeInv /\ ListInv => OnLiveNodes
<1> SUFFICES ASSUME TypeInv, ListInv PROVE OnLiveNodes
  OBVIOUS
<1>0. PICK k \in Nat : \E c \in [1..k -> Nodes] : IsList(k, c)
  BY DEF ListInv
<1>1. PICK c \in [1..k -> Nodes] : IsList(k, c)
  BY <1>0
<1>2. \A i \in 1..k : c[i] \in heap
  BY <1>1 DEF IsList, Owned
<1>3. \A p \in Int : Nth(k, c, p) \in heap \cup {Null}
  BY <1>2 DEF Nth
<1>4. intact => at \in heap \cup {Null}
  BY <1>1, <1>2 DEF IsList, Traversed, Listed
<1>5. ASSUME NEW w \in Workers, pc[w] \in {"search", "link", "first", "free"}
      PROVE  cur[w] \in heap \cup {Null} /\ prev[w] \in heap \cup {Null}
  <2>1. Stands(w, k, c)
    BY <1>1 DEF IsList
  <2>2. CASE pc[w] = "search"
    <3>1. PICK p \in 0..k : SearchAt(w, k, c, p)
      BY <2>1, <2>2 DEF Stands
    <3>2. p \in Int /\ p + 1 \in Int /\ (p < k => 1 \in 1..k)
      OBVIOUS
    <3>3. QED
      BY <1>2, <1>3, <3>1, <3>2 DEF SearchAt
  <2>3. CASE pc[w] = "link"
    <3>1. PICK p \in 0..k : LinkAt(w, k, c, p)
      BY <2>1, <2>3 DEF Stands
    <3>2. p \in Int
      OBVIOUS
    <3>3. QED
      BY <1>3, <2>1, <2>3, <3>1, <3>2 DEF LinkAt, Stands
  <2>4. CASE pc[w] = "first"
    BY <1>2, <2>1, <2>4 DEF Stands
  <2>5. CASE pc[w] = "free"
    BY <2>1, <2>5 DEF Stands
  <2>6. QED
    BY <1>5, <2>2, <2>3, <2>4, <2>5
<1>6. QED
  BY <1>4, <1>5 DEF OnLiveNodes

\* With one worker, the list is a list at every instant.
LEMMA ListInvInvariant ==
    ASSUME OneWorker
    PROVE  Spec => [](TypeInv /\ ListInv)
<1>1. TypeInv /\ ListInv /\ [Next]_vars => (TypeInv /\ ListInv)'
  BY TypeInvStep, ListInvStep
<1>2. QED
  BY TypeInvInit, ListInvInit, <1>1, PTL DEF Spec

\* The fork of BGSAVE or BGREWRITEAOF may come between any two accesses of
\* llca_insert or llca_remove: the list it takes with it is complete.
THEOREM ForkSeesSortedListTheorem ==
    ASSUME OneWorker
    PROVE  Spec => []ForkSeesSortedList
BY ListInvInvariant, ListInvSorted, PTL

\* llca_remove frees the one node it unlinks, llca_insert links the one node it
\* makes: nothing is leaked, at any instant.
THEOREM NoNodeLostTheorem ==
    ASSUME OneWorker
    PROVE  Spec => []NoNodeLost
BY ListInvInvariant, ListInvOwned, PTL

\* No access of the worker is to a node that was freed, nor is one of the
\* traversals of the main thread, as long as no remove gets in its way.
THEOREM OnLiveNodesTheorem ==
    ASSUME OneWorker
    PROVE  Spec => []OnLiveNodes
BY ListInvInvariant, ListInvLive, PTL

-----------------------------------------------------------------------------
(***************************************************************************)
(* What a traversal writes, for one worker.  The integers repeat, so the   *)
(* argument is about the nodes they come from, which do not: b are those   *)
(* of the list when the traversal began, r those that are written, and q   *)
(* counts the nodes of the list, new ones included, that are behind it.    *)
(***************************************************************************)

ValuesOf(k, c) == [i \in 1..k |-> value[c[i]]]

\* A node among the first q of the list, or after them.
Behind(k, c, q, n) == \E j \in 1..k : j <= q /\ c[j] = n
Ahead(k, c, q, n) == \E j \in 1..k : j > q /\ c[j] = n

Written(k, c, q, l, r, m, b) ==
    /\ at = Nth(k, c, q + 1)
    /\ image.values = ValuesOf(l, r)
    /\ before = ValuesOf(m, b)
    /\ Distinct(l, r) /\ Ascending(l, r) /\ Distinct(m, b)
    /\ \A i \in 1..l : Behind(k, c, q, r[i])
    /\ \A i \in 1..m : Listed(l, r, b[i]) \/ Ahead(k, c, q, b[i])

Saves(k, c) ==
    image # Null /\ intact =>
        \E q \in 0..k, l \in Nat, m \in Nat :
            \E r \in [1..l -> Nodes], b \in [1..m -> Nodes] : Written(k, c, q, l, r, m, b)

SaveInv == \E k \in Nat : \E c \in [1..k -> Nodes] : IsList(k, c) /\ Saves(k, c)

\* The values of distinct nodes, as a bag, are among those of more nodes.
LEMMA BagOfNodes ==
    ASSUME NEW m \in Nat, NEW b \in [1..m -> Nodes], Distinct(m, b),
           NEW l \in Nat, NEW s \in [1..l -> Nodes],
           \A i \in 1..m : Listed(l, s, b[i])
    PROVE  ToBag(ValuesOf(m, b)) \sqsubseteq ToBag(ValuesOf(l, s))
<1> DEFINE B == ValuesOf(m, b)
           S == ValuesOf(l, s)
           In(e) == {i \in 1..m : B[i] = e}
           Out(e) == {i \in 1..l : S[i] = e}
<1>1. /\ DOMAIN B = 1..m /\ DOMAIN S = 1..l
      /\ \A i \in 1..m : B[i] = value[b[i]]
      /\ \A i \in 1..l : S[i] = value[s[i]]
  BY DEF ValuesOf
<1>2. /\ ToBag(B) = [e \in {B[i] : i \in 1..m} |-> Cardinality(In(e))]
      /\ ToBag(S) = [e \in {S[i] : i \in 1..l} |-> Cardinality(Out(e))]
  BY <1>1 DEF ToBag, Range
<1> HIDE DEF B, S
<1>3. {B[i] : i \in 1..m} \subseteq {S[i] : i \in 1..l}
  <2> SUFFICES ASSUME NEW i \in 1..m PROVE B[i] \in {S[j] : j \in 1..l}
    OBVIOUS
  <2>1. PICK j \in 1..l : s[j] = b[i]
    BY DEF Listed
  <2>2. B[i] = S[j]
    BY <1>1, <2>1
  <2>3. QED
    BY <2>2
<1>4. ASSUME NEW e PROVE Cardinality(In(e)) <= Cardinality(Out(e))
  <2> DEFINE f == [i \in In(e) |-> CHOOSE j \in 1..l : s[j] = b[i]]
  <2>1. ASSUME NEW i \in In(e) PROVE f[i] \in 1..l /\ s[f[i]] = b[i]
    <3>1. \E j \in 1..l : s[j] = b[i]
      BY DEF Listed
    <3>2. QED
      BY <3>1
  <2>2. \A i \in In(e) : f[i] \in Out(e)
    BY <1>1, <2>1
  <2>3. f \in [In(e) -> Out(e)]
    BY <2>2
  <2> HIDE DEF f
  <2>4. \A i, j \in In(e) : f[i] = f[j] => i = j
    BY <2>1 DEF Distinct
  <2>5. f \in Injection(In(e), Out(e))
    BY <2>3, <2>4 DEF Injection, IsInjective
  <2>6. IsFiniteSet(Out(e))
    BY FS_Interval, FS_Subset
  <2> HIDE DEF In, Out
  <2>7. QED
    BY <2>5, <2>6, FS_Injection
<1> HIDE DEF In, Out
<1>5. QED
  BY <1>2, <1>3, <1>4 DEF \sqsubseteq, B, S

\* What is still to be written: the list after its first q nodes.
LEMMA TailChain ==
    ASSUME TypeInv, NEW k \in Nat, NEW c \in [1..k -> Nodes], IsList(k, c), NEW q \in 0..k
    PROVE  ValuesFrom(Nth(k, c, q + 1)) = [i \in 1..k - q |-> value[c[q+i]]]
<1> DEFINE t == [i \in 1..k - q |-> c[q+i]]
<1>1. k \in 0..N
  BY HeadChain
<1>2. k - q \in 0..N /\ t \in [1..k - q -> Nodes]
  BY <1>1, NodeCount
<1>3. ASSUME NEW i \in 1..k - q PROVE next[t[i]] = IF i < k - q THEN t[i+1] ELSE Null
  <2>1. q + i \in 1..k /\ (i < k - q <=> q + i < k) /\ (i < k - q => i + 1 \in 1..k - q)
    OBVIOUS
  <2>2. next[c[q+i]] = IF q + i < k THEN c[(q+i)+1] ELSE Null
    BY <2>1 DEF IsList, Linked, Nth
  <2>3. i < k - q => t[i+1] = c[(q+i)+1]
    BY <2>1
  <2>4. QED
    BY <2>1, <2>2, <2>3
<1>4. Nth(k, c, q + 1) = IF k - q = 0 THEN Null ELSE t[1]
  BY DEF Nth
<1>5. next \in [Nodes -> NodesOrNull]
  BY DEF TypeInv, Types
<1> HIDE DEF t
<1>6. ChainFrom(Nth(k, c, q + 1)) = t
  BY <1>2, <1>3, <1>4, <1>5, ChainIs
<1>7. QED
  BY <1>2, <1>6 DEF ValuesFrom, t

\* V is R, of length l, and then T, of length d.
Joined(S, V, R, l, T, d) ==
    /\ l \in Nat /\ d \in Nat
    /\ R \in [1..l -> S] /\ T \in [1..d -> S] /\ V \in [1..l + d -> S]
    /\ \A i \in 1..l + d : V[i] = IF i <= l THEN R[i] ELSE T[i - l]

LEMMA Concatenated ==
    ASSUME NEW S, NEW V, NEW R, NEW l, NEW T, NEW d, Joined(S, V, R, l, T, d)
    PROVE  R \o T = V
<1>0. l + d \in Nat
  BY DEF Joined
<1>1. R \in Seq(S) /\ T \in Seq(S) /\ Len(R) = l /\ Len(T) = d
  BY DEF Joined
<1>2. /\ R \o T \in Seq(S) /\ Len(R \o T) = l + d
      /\ \A i \in 1..l + d : (R \o T)[i] = IF i <= l THEN R[i] ELSE T[i - l]
  BY <1>1, ConcatProperties
<1>3. V \in Seq(S) /\ Len(V) = l + d
  <2>1. \A n \in Nat : V \in [1..n -> S] => V \in Seq(S) /\ Len(V) = n
    OBVIOUS
  <2>2. QED
    BY <1>0, <2>1 DEF Joined
<1>4. QED
  BY <1>2, <1>3, SeqEqual DEF Joined

LEMMA SavesFaithful == TypeInv /\ SaveInv => SaveFaithful
<1> SUFFICES ASSUME TypeInv, SaveInv, image # Null, intact
             PROVE  LET written == image.values \o ValuesFrom(at) IN
                    /\ IsSorted(written, <=)
                    /\ ToBag(before) \sqsubseteq ToBag(written)
                    /\ ToBag(written) \sqsubseteq ToBag(ValuesFrom(head))
  BY DEF SaveFaithful
<1>1. PICK k \in Nat : \E c \in [1..k -> Nodes] : IsList(k, c) /\ Saves(k, c)
  BY DEF SaveInv
<1>2. PICK c \in [1..k -> Nodes] : IsList(k, c) /\ Saves(k, c)
  BY <1>1
<1>3. PICK q \in 0..k, l \in Nat, m \in Nat :
            \E r \in [1..l -> Nodes], b \in [1..m -> Nodes] : Written(k, c, q, l, r, m, b)
  BY <1>2 DEF Saves
<1>4. PICK r \in [1..l -> Nodes], b \in [1..m -> Nodes] : Written(k, c, q, l, r, m, b)
  BY <1>3
<1> DEFINE z == l + (k - q)
           s == [i \in 1..z |-> IF i <= l THEN r[i] ELSE c[q + (i - l)]]
<1>5. /\ z \in Nat
      /\ s \in [1..z -> Nodes]
      /\ \A i \in 1..l : i \in 1..z /\ s[i] = r[i]
      /\ \A i \in 1..z : i > l => i - l \in 1..k - q /\ q + (i - l) \in 1..k
                                  /\ q + (i - l) > q /\ s[i] = c[q + (i - l)]
  OBVIOUS
<1>6. \A j \in 1..k : j > q => l + (j - q) \in 1..z /\ s[l + (j - q)] = c[j]
  <2> SUFFICES ASSUME NEW j \in 1..k, j > q PROVE l + (j - q) \in 1..z /\ s[l + (j - q)] = c[j]
    OBVIOUS
  <2>1. l + (j - q) \in 1..z /\ l + (j - q) > l /\ q + ((l + (j - q)) - l) = j
    OBVIOUS
  <2> HIDE DEF s
  <2>2. QED
    BY <1>5, <2>1
<1>7. image.values \o ValuesFrom(at) = ValuesOf(z, s)
  <2> DEFINE d == k - q
             R == [i \in 1..l |-> value[r[i]]]
             T == [i \in 1..d |-> value[c[q+i]]]
  <2>1. image.values = R /\ ValuesFrom(at) = T
    BY <1>2, <1>4, TailChain DEF Written, ValuesOf
  <2>2. \A n \in Nodes : value[n] \in Values \cup {Null}
    BY DEF TypeInv, Types
  <2>3. R \in [1..l -> Values \cup {Null}]
    BY <2>2
  <2>4. T \in [1..d -> Values \cup {Null}]
    <3>1. \A i \in 1..d : c[q+i] \in Nodes
      OBVIOUS
    <3>2. QED
      BY <2>2, <3>1
  <2>5. \A i \in 1..z : value[s[i]] = IF i <= l THEN R[i] ELSE T[i - l]
    <3>1. \A i \in 1..l : R[i] = value[r[i]]
      OBVIOUS
    <3>2. \A i \in 1..d : T[i] = value[c[q+i]]
      OBVIOUS
    <3> HIDE DEF R, T, s, d
    <3>3. \A i \in 1..z : i <= l => value[s[i]] = R[i]
      BY <1>5, <3>1
    <3>4. \A i \in 1..z : i > l => value[s[i]] = T[i - l]
      BY <1>5, <3>2 DEF d
    <3>5. QED
      BY <3>3, <3>4
  <2>6. d \in Nat /\ z = l + d
    OBVIOUS
  <2> DEFINE V == [i \in 1..z |-> value[s[i]]]
  <2>7. /\ V \in [1..z -> Values \cup {Null}] /\ V = ValuesOf(z, s)
        /\ \A i \in 1..z : V[i] = value[s[i]]
    BY <1>5, <2>2 DEF ValuesOf
  <2> HIDE DEF R, T, s, d, z, V
  <2>8. Joined(Values \cup {Null}, V, R, l, T, d)
    BY <2>3, <2>4, <2>5, <2>6, <2>7 DEF Joined
  <2>9. R \o T = V
    BY <2>8, Concatenated
  <2>10. QED
    BY <2>1, <2>7, <2>9
<1> HIDE DEF z, s
<1>8. /\ \A i \in 1..l : \E j \in 1..k : j <= q /\ c[j] = r[i]
      /\ \A i, j \in 1..l : r[i] = r[j] => i = j
      /\ \A i, j \in 1..l : i <= j => value[r[i]] <= value[r[j]]
      /\ \A i, j \in 1..k : c[i] = c[j] => i = j
      /\ \A i, j \in 1..k : i <= j => value[c[i]] <= value[c[j]]
  BY <1>2, <1>4 DEF Written, Behind, IsList, Distinct, Ascending
<1>9. Distinct(z, s)
  <2> SUFFICES ASSUME NEW i \in 1..z, NEW j \in 1..z, s[i] = s[j] PROVE i = j
    BY DEF Distinct
  <2>1. ASSUME NEW u \in 1..z, NEW v \in 1..z, u <= l, v > l, s[u] = s[v] PROVE FALSE
    <3>1. PICK a \in 1..k : a <= q /\ c[a] = s[u]
      BY <1>5, <1>8, <2>1
    <3>2. q + (v - l) \in 1..k /\ q + (v - l) > q /\ s[v] = c[q + (v - l)]
      BY <1>5, <2>1
    <3>3. QED
      BY <1>8, <2>1, <3>1, <3>2
  <2>2. CASE i <= l /\ j <= l
    BY <1>5, <1>8, <2>2
  <2>3. CASE i > l /\ j > l
    <3>1. q + (i - l) = q + (j - l)
      BY <1>5, <1>8, <2>3
    <3>2. QED
      BY <2>3, <3>1
  <2>4. i <= l <=> j <= l
    BY <2>1
  <2>5. QED
    BY <2>2, <2>3, <2>4
<1>10. \A i, j \in 1..z : i <= j => value[s[i]] <= value[s[j]]
  <2> SUFFICES ASSUME NEW i \in 1..z, NEW j \in 1..z, i <= j PROVE value[s[i]] <= value[s[j]]
    OBVIOUS
  <2>1. CASE j <= l
    BY <1>5, <1>8, <2>1
  <2>2. CASE i > l
    BY <1>5, <1>8, <2>2
  <2>3. CASE i <= l /\ j > l
    <3>1. PICK a \in 1..k : a <= q /\ c[a] = s[i]
      BY <1>5, <1>8, <2>3
    <3>2. q + (j - l) \in 1..k /\ q + (j - l) > q /\ s[j] = c[q + (j - l)]
      BY <1>5, <2>3
    <3>3. QED
      BY <1>8, <3>1, <3>2
  <2>4. QED
    BY <2>1, <2>2, <2>3
<1>11. \A i \in 1..z : Listed(k, c, s[i])
  BY <1>5, <1>8 DEF Listed
<1>12. \A i \in 1..m : Listed(z, s, b[i])
  <2>1. SUFFICES ASSUME NEW i \in 1..m PROVE Listed(z, s, b[i])
    OBVIOUS
  <2>2. CASE Listed(l, r, b[i])
    BY <1>5, <2>2 DEF Listed
  <2>3. CASE Ahead(k, c, q, b[i])
    <3>1. PICK j \in 1..k : j > q /\ c[j] = b[i]
      BY <2>3 DEF Ahead
    <3>2. QED
      BY <1>6, <3>1 DEF Listed
  <2>4. QED
    BY <1>4, <2>2, <2>3 DEF Written
<1>13. ToBag(ValuesOf(m, b)) \sqsubseteq ToBag(ValuesOf(z, s))
  BY <1>4, <1>5, <1>12, BagOfNodes DEF Written
<1>14. ToBag(ValuesOf(z, s)) \sqsubseteq ToBag(ValuesOf(k, c))
  BY <1>2, <1>5, <1>9, <1>11, BagOfNodes DEF IsList
<1>15. ValuesFrom(head) = ValuesOf(k, c)
  BY <1>2, ListedValues DEF ValuesOf
<1>16. IsSorted(ValuesOf(z, s), <=)
  <2>1. Len(ValuesOf(z, s)) = z
    <3>1. \A i \in 1..z : value[s[i]] \in Values \cup {Null}
      BY <1>5 DEF TypeInv, Types
    <3>2. ValuesOf(z, s) \in [1..z -> Values \cup {Null}]
      BY <3>1 DEF ValuesOf
    <3>3. QED
      BY <1>5, <3>2
  <2>2. \A i \in 1..z : ValuesOf(z, s)[i] = value[s[i]]
    BY DEF ValuesOf
  <2>3. QED
    BY <1>10, <2>1, <2>2 DEF IsSorted
<1>17. before = ValuesOf(m, b)
  BY <1>4 DEF Written
<1>18. QED
  BY <1>7, <1>13, <1>14, <1>15, <1>16, <1>17, Zenon

\* The first q nodes of c are among the first q2 of c2, the others after them.
Carried(k, c, q, k2, c2, q2) ==
    \A n \in Nodes : /\ Behind(k, c, q, n) => Behind(k2, c2, q2, n)
                     /\ Ahead(k, c, q, n) => Ahead(k2, c2, q2, n)

\* The nodes of the list keep their values.
Untouched(k, c) == \A n \in Nodes : Listed(k, c, n) => value'[n] = value[n]

\* A step that leaves the traversal where it is, among the nodes behind and
\* ahead of it, and the values of the nodes as they are.
LEMMA TraversalRests ==
    ASSUME NEW k \in Nat, NEW c \in [1..k -> Nodes], NEW q \in 0..k, NEW l \in Nat, NEW m \in Nat,
           NEW r \in [1..l -> Nodes], NEW b \in [1..m -> Nodes], Written(k, c, q, l, r, m, b),
           Untouched(k, c), UNCHANGED <<at, image, before>>,
           NEW k2 \in Nat, NEW c2 \in [1..k2 -> Nodes], NEW q2 \in 0..k2,
           Nth(k2, c2, q2 + 1) = Nth(k, c, q + 1), Carried(k, c, q, k2, c2, q2)
    PROVE  Written(k2, c2, q2, l, r, m, b)'
<1>0. (\A i \in 1..l : r[i] \in Nodes) /\ (\A i \in 1..m : b[i] \in Nodes)
  OBVIOUS
<1>1. \A i \in 1..l : Behind(k, c, q, r[i])
  BY DEF Written
<1>2. \A i \in 1..m : Listed(l, r, b[i]) \/ Ahead(k, c, q, b[i])
  BY DEF Written
<1>3. ASSUME NEW i \in 1..l PROVE value'[r[i]] = value[r[i]]
  <2>1. Listed(k, c, r[i])
    BY <1>1 DEF Behind, Listed
  <2>2. QED
    BY <1>0, <2>1 DEF Untouched
<1>4. ASSUME NEW i \in 1..m PROVE value'[b[i]] = value[b[i]]
  <2>1. CASE Listed(l, r, b[i])
    BY <1>3, <2>1 DEF Listed
  <2>2. CASE Ahead(k, c, q, b[i])
    <3>1. Listed(k, c, b[i])
      BY <2>2 DEF Ahead, Listed
    <3>2. QED
      BY <1>0, <3>1 DEF Untouched
  <2>3. QED
    BY <1>2, <2>1, <2>2
<1>5. ValuesOf(l, r)' = ValuesOf(l, r) /\ ValuesOf(m, b)' = ValuesOf(m, b)
  BY <1>3, <1>4 DEF ValuesOf
<1>6. at' = Nth(k2, c2, q2 + 1)'
  <2>1. Nth(k2, c2, q2 + 1)' = Nth(k2, c2, q2 + 1)
    BY DEF Nth
  <2>2. QED
    BY <2>1 DEF Written
<1>7. image'.values = ValuesOf(l, r)' /\ before' = ValuesOf(m, b)'
  BY <1>5 DEF Written
<1>8. Distinct(l, r)' /\ Ascending(l, r)' /\ Distinct(m, b)'
  BY <1>3 DEF Written, Distinct, Ascending
<1>9. \A i \in 1..l : Behind(k2, c2, q2, r[i])'
  <2>1. \A i \in 1..l : Behind(k2, c2, q2, r[i])
    BY <1>0, <1>1 DEF Carried, Behind
  <2>2. QED
    BY <2>1 DEF Behind
<1>10. \A i \in 1..m : Listed(l, r, b[i])' \/ Ahead(k2, c2, q2, b[i])'
  <2>1. \A i \in 1..m : Listed(l, r, b[i]) \/ Ahead(k2, c2, q2, b[i])
    BY <1>0, <1>2 DEF Carried, Ahead
  <2>2. QED
    BY <2>1 DEF Ahead, Listed
<1>11. QED
  BY <1>6, <1>7, <1>8, <1>9, <1>10 DEF Written

\* A step that does not touch the traversal, nor unlink a node.
LEMMA SavesStay ==
    ASSUME NEW k \in Nat, NEW c \in [1..k -> Nodes], Saves(k, c),
           Untouched(k, c),
           UNCHANGED <<at, image, before, intact>>
    PROVE  Saves(k, c)'
<1> SUFFICES ASSUME image # Null, intact
             PROVE  \E q \in 0..k, l \in Nat, m \in Nat :
                      \E r \in [1..l -> Nodes], b \in [1..m -> Nodes] :
                          Written(k, c, q, l, r, m, b)'
  BY DEF Saves
<1>1. PICK q \in 0..k, l \in Nat, m \in Nat :
            \E r \in [1..l -> Nodes], b \in [1..m -> Nodes] : Written(k, c, q, l, r, m, b)
  BY DEF Saves
<1>2. PICK r \in [1..l -> Nodes], b \in [1..m -> Nodes] : Written(k, c, q, l, r, m, b)
  BY <1>1
<1>3. Carried(k, c, q, k, c, q)
  BY DEF Carried
<1>4. Written(k, c, q, l, r, m, b)'
  BY <1>2, <1>3, TraversalRests
<1>5. QED
  BY <1>4

\* An insert, behind the traversal or ahead of it; a node that is linked right
\* before the one the traversal is at is behind it, and not written.
LEMMA SavesInsert ==
    ASSUME NEW k \in Nat, NEW c \in [1..k -> Nodes], Saves(k, c),
           NEW n \in Nodes, NEW p \in 0..k,
           NEW e \in Nat, e = k + 1,
           NEW d \in [1..e -> Nodes], d = With(k, c, p, n),
           UNCHANGED <<value, at, image, before, intact>>
    PROVE  Saves(e, d)'
<1> SUFFICES ASSUME image # Null, intact
             PROVE  \E q \in 0..e, l \in Nat, m \in Nat :
                      \E r \in [1..l -> Nodes], b \in [1..m -> Nodes] :
                          Written(e, d, q, l, r, m, b)'
  BY DEF Saves
<1>1. PICK q \in 0..k, l \in Nat, m \in Nat :
            \E r \in [1..l -> Nodes], b \in [1..m -> Nodes] : Written(k, c, q, l, r, m, b)
  BY DEF Saves
<1>2. PICK r \in [1..l -> Nodes], b \in [1..m -> Nodes] : Written(k, c, q, l, r, m, b)
  BY <1>1
<1>3. /\ \A i \in 1..k : i <= p => d[i] = c[i]
      /\ \A i \in 1..k : i > p => d[i+1] = c[i]
  BY DEF With
<1>4. PICK q2 \in 0..e : q2 = IF p <= q THEN q + 1 ELSE q
  OBVIOUS
<1>5. Nth(e, d, q2 + 1) = Nth(k, c, q + 1)
  <2>1. CASE p <= q
    <3>1. q2 + 1 \in 1..e <=> q + 1 \in 1..k
      BY <1>4, <2>1
    <3>2. q + 1 \in 1..k => q + 1 > p /\ d[q2+1] = c[q+1]
      BY <1>3, <1>4, <2>1
    <3>3. QED
      BY <3>1, <3>2 DEF Nth
  <2>2. CASE q < p
    <3>1. q + 1 \in 1..k /\ q + 1 <= p /\ q2 = q /\ q + 1 \in 1..e
      BY <1>4, <2>2
    <3>2. QED
      BY <1>3, <3>1 DEF Nth
  <2>3. QED
    BY <2>1, <2>2
<1>6. \A j \in 1..k : \E i \in 1..e : d[i] = c[j] /\ (j <= q <=> i <= q2)
  <2> SUFFICES ASSUME NEW j \in 1..k
               PROVE  \E i \in 1..e : d[i] = c[j] /\ (j <= q <=> i <= q2)
    OBVIOUS
  <2>1. CASE j <= p
    <3>1. j \in 1..e /\ d[j] = c[j] /\ (j <= q <=> j <= q2)
      BY <1>3, <1>4, <2>1
    <3>2. QED
      BY <3>1
  <2>2. CASE j > p
    <3>1. j + 1 \in 1..e /\ d[j+1] = c[j] /\ (j <= q <=> j + 1 <= q2)
      BY <1>3, <1>4, <2>2
    <3>2. QED
      BY <3>1
  <2>3. QED
    BY <2>1, <2>2
<1>7. \A a \in Nodes : Behind(k, c, q, a) => Behind(e, d, q2, a)
  BY <1>6 DEF Behind
<1>8. \A a \in Nodes : Ahead(k, c, q, a) => Ahead(e, d, q2, a)
  <2>1. \A j \in 1..k : \E i \in 1..e : d[i] = c[j] /\ (j > q => i > q2)
    BY <1>6
  <2>2. QED
    BY <2>1 DEF Ahead
<1>9. Carried(k, c, q, e, d, q2)
  BY <1>7, <1>8 DEF Carried
<1>10. Untouched(k, c)
  BY DEF Untouched
<1>11. Written(e, d, q2, l, r, m, b)'
  BY <1>2, <1>5, <1>9, <1>10, TraversalRests
<1>12. QED
  BY <1>11

\* The traversal begins with the whole list ahead of it.
LEMMA SavesCount ==
    ASSUME TypeInv, NEW k \in Nat, NEW c \in [1..k -> Nodes], IsList(k, c), SaveCount
    PROVE  Saves(k, c)'
<1>1. /\ at' = head /\ before' = ValuesFrom(head) /\ image'.values = <<>> /\ value' = value
  BY DEF SaveCount, fields
<1> DEFINE r == [i \in 1..0 |-> Null]
<1>2. r \in [1..0 -> Nodes] /\ 0 \in 0..k
  OBVIOUS
<1>3. at' = Nth(k, c, 0 + 1)'
  BY <1>1 DEF IsList, Linked, Nth
<1>4. image'.values = ValuesOf(0, r)'
  BY <1>1 DEF ValuesOf
<1>5. before' = ValuesOf(k, c)'
  BY <1>1, ListedValues DEF ValuesOf
<1>6. Distinct(0, r)' /\ Ascending(0, r)' /\ Distinct(k, c)'
  BY DEF Distinct, Ascending, IsList
<1>7. \A i \in 1..k : Listed(0, r, c[i])' \/ Ahead(k, c, 0, c[i])'
  BY DEF Ahead
<1>8. \A i \in 1..0 : Behind(k, c, 0, r[i])'
  OBVIOUS
<1> HIDE DEF r
<1>9. Written(k, c, 0, 0, r, k, c)'
  BY <1>3, <1>4, <1>5, <1>6, <1>7, <1>8 DEF Written
<1>10. \E q \in 0..k, l \in Nat, m \in Nat :
         \E g \in [1..l -> Nodes], b \in [1..m -> Nodes] : Written(k, c, q, l, g, m, b)'
  BY <1>2, <1>9
<1>11. QED
  BY <1>10 DEF Saves

\* It writes the node it is at, which is then behind it.
LEMMA SavesNode ==
    ASSUME TypeInv, NEW k \in Nat, NEW c \in [1..k -> Nodes], IsList(k, c), Saves(k, c), SaveNode
    PROVE  Saves(k, c)'
<1>1. /\ at # Null /\ image # Null /\ at' = next[at]
      /\ UNCHANGED <<before, intact, value>>
  BY DEF SaveNode, TypeInv, Made, fields
<1> SUFFICES ASSUME intact
             PROVE  \E q \in 0..k, l \in Nat, m \in Nat :
                      \E r \in [1..l -> Nodes], b \in [1..m -> Nodes] :
                          Written(k, c, q, l, r, m, b)'
  BY <1>1 DEF Saves
<1>2. PICK q \in 0..k, l \in Nat, m \in Nat :
            \E r \in [1..l -> Nodes], b \in [1..m -> Nodes] : Written(k, c, q, l, r, m, b)
  BY <1>1 DEF Saves
<1>3. PICK r \in [1..l -> Nodes], b \in [1..m -> Nodes] : Written(k, c, q, l, r, m, b)
  BY <1>2
<1>4. q + 1 \in 1..k /\ at = c[q+1] /\ c[q+1] \in Nodes
  BY <1>1, <1>3 DEF Written, Nth
<1>5. PICK a \in Nodes : a = c[q+1]
  BY <1>4
<1>6. PICK e \in Nat : e = l + 1
  OBVIOUS
<1> DEFINE s == [i \in 1..e |-> IF i = e THEN a ELSE r[i]]
<1>7. /\ s \in [1..e -> Nodes] /\ s[e] = a /\ e \in 1..e
      /\ \A i \in 1..l : i \in 1..e /\ i # e /\ s[i] = r[i]
      /\ \A i \in 1..e : i # e => i \in 1..l
  BY <1>6
<1>8. at' = Nth(k, c, (q + 1) + 1)'
  <2>1. next[c[q+1]] = Nth(k, c, (q + 1) + 1)
    BY <1>4 DEF IsList, Linked
  <2>2. QED
    BY <1>1, <1>4, <2>1 DEF Nth
<1>9. image'.values = ValuesOf(e, s)'
  <2>1. image.values = ValuesOf(l, r) /\ image \in [count : Nat, values : Seq(Values)]
    BY <1>1, <1>3 DEF Written, TypeInv, Types
  <2>2. image' = [image EXCEPT !.values = Append(image.values, value[at])]
    BY DEF SaveNode
  <2>3. image'.values = Append(ValuesOf(l, r), value[a])
    BY <1>4, <1>5, <2>1, <2>2
  <2>4. ValuesOf(l, r) \in Seq(Values) /\ Len(ValuesOf(l, r)) = l
    <3>1. ValuesOf(l, r) \in Seq(Values)
      BY <2>1
    <3>2. DOMAIN ValuesOf(l, r) = 1..l
      BY DEF ValuesOf
    <3>3. QED
      BY <3>1, <3>2
  <2>5. \A i \in 1..l : ValuesOf(l, r)[i] = value[r[i]]
    BY DEF ValuesOf
  <2> HIDE DEF s
  <2>6. Append(ValuesOf(l, r), value[a]) = [i \in 1..e |-> value[s[i]]]
    BY <1>6, <1>7, <2>4, <2>5
  <2>7. QED
    BY <1>1, <2>3, <2>6 DEF ValuesOf
<1> HIDE DEF s
<1>10. /\ \A i, j \in 1..l : r[i] = r[j] => i = j
       /\ \A i, j \in 1..l : i <= j => value[r[i]] <= value[r[j]]
       /\ \A i \in 1..l : \E j \in 1..k : j <= q /\ c[j] = r[i]
  BY <1>3 DEF Written, Distinct, Ascending, Behind
<1>11. \A i \in 1..l : r[i] # a /\ value[r[i]] <= value[a]
  <2> SUFFICES ASSUME NEW i \in 1..l PROVE r[i] # a /\ value[r[i]] <= value[a]
    OBVIOUS
  <2>1. PICK j \in 1..k : j <= q /\ c[j] = r[i]
    BY <1>10
  <2>2. j # q + 1 /\ j <= q + 1
    BY <2>1
  <2>3. QED
    BY <1>4, <1>5, <2>1, <2>2 DEF IsList, Distinct, Ascending
<1>12. value[a] <= value[a]
  BY <1>4, <1>5, ListValues
<1>13. \A i, j \in 1..e : s[i] = s[j] => i = j
  BY <1>7, <1>10, <1>11
<1>14. \A i, j \in 1..e : i <= j => value[s[i]] <= value[s[j]]
  BY <1>6, <1>7, <1>10, <1>11, <1>12
<1>15. Distinct(e, s)' /\ Ascending(e, s)' /\ Distinct(m, b)'
  BY <1>1, <1>3, <1>13, <1>14 DEF Written, Distinct, Ascending
<1>16. \A i \in 1..e : Behind(k, c, q + 1, s[i])'
  <2> SUFFICES ASSUME NEW i \in 1..e PROVE \E j \in 1..k : j <= q + 1 /\ c[j] = s[i]
    BY DEF Behind
  <2>1. CASE i = e
    BY <1>4, <1>5, <1>7, <2>1
  <2>2. CASE i # e
    <3>1. PICK j \in 1..k : j <= q /\ c[j] = r[i]
      BY <1>7, <1>10, <2>2
    <3>2. s[i] = r[i]
      BY <1>7, <2>2
    <3>3. j <= q + 1
      BY <3>1
    <3>4. QED
      BY <3>1, <3>2, <3>3
  <2>3. QED
    BY <2>1, <2>2
<1>17. \A i \in 1..m : Listed(e, s, b[i])' \/ Ahead(k, c, q + 1, b[i])'
  <2> SUFFICES ASSUME NEW i \in 1..m PROVE Listed(e, s, b[i]) \/ Ahead(k, c, q + 1, b[i])
    BY DEF Listed, Ahead
  <2>1. CASE Listed(l, r, b[i])
    BY <1>7, <2>1 DEF Listed
  <2>2. CASE Ahead(k, c, q, b[i])
    <3>1. PICK j \in 1..k : j > q /\ c[j] = b[i]
      BY <2>2 DEF Ahead
    <3>2. CASE j = q + 1
      BY <1>5, <1>7, <3>1, <3>2 DEF Listed
    <3>3. CASE j > q + 1
      BY <3>1, <3>3 DEF Ahead
    <3>4. QED
      BY <3>1, <3>2, <3>3
  <2>3. QED
    BY <1>3, <2>1, <2>2 DEF Written
<1>18. before' = ValuesOf(m, b)'
  BY <1>1, <1>3 DEF Written, ValuesOf
<1>19. Written(k, c, q + 1, e, s, m, b)'
  BY <1>8, <1>9, <1>15, <1>16, <1>17, <1>18 DEF Written
<1>20. q + 1 \in 0..k
  BY <1>4
<1>21. QED
  BY <1>7, <1>19, <1>20

LEMMA SaveInvInit == Init => SaveInv
<1> SUFFICES ASSUME Init PROVE SaveInv
  OBVIOUS
<1>1. PICK k \in Nat : \E c \in [1..k -> Nodes] : IsList(k, c)
  BY ListInvInit DEF ListInv
<1>2. PICK c \in [1..k -> Nodes] : IsList(k, c)
  BY <1>1
<1>3. Saves(k, c)
  BY DEF Init, Saves
<1>4. QED
  BY <1>2, <1>3 DEF SaveInv

LEMMA SaveInvStep ==
    ASSUME OneWorker, TypeInv, SaveInv, [Next]_vars
    PROVE  SaveInv'
<1>0. PICK k \in Nat : \E c \in [1..k -> Nodes] : IsList(k, c) /\ Saves(k, c)
  BY DEF SaveInv
<1>1. PICK c \in [1..k -> Nodes] : IsList(k, c) /\ Saves(k, c)
  BY <1>0
<1>2. CASE IsList(k, c)' /\ Saves(k, c)'
  BY <1>2 DEF SaveInv
<1>3. Untouched(k, c) /\ UNCHANGED <<at, image, before, intact>> => Saves(k, c)'
  BY <1>1, SavesStay
<1>4. UNCHANGED <<value, saving>> => Saves(k, c)'
  BY <1>3 DEF Untouched, saving, traversal
<1>5. ASSUME NEW w \in Workers, Call(w) \/ Insert(w) \/ RemoveOne(w) \/ ContainsOne(w) \/ Return(w)
      PROVE  SaveInv'
  <2>1. CASE Call(w) \/ Return(w)
    BY <1>1, <1>2, <1>4, <2>1, CallStep DEF Call, Return, fields
  <2>2. CASE InsertCount(w) \/ RemoveEmpty(w) \/ RemoveMiss(w) \/ ContainsAnswer(w)
    BY <1>1, <1>2, <1>4, <2>2, ReturnStep
    DEF InsertCount, RemoveEmpty, RemoveMiss, ContainsAnswer, fields
  <2>3. CASE InsertHead(w) \/ RemoveHead(w) \/ ContainsHead(w)
    BY <1>1, <1>2, <1>4, <2>3, HeadStep DEF InsertHead, RemoveHead, ContainsHead, fields
  <2>4. CASE InsertAdvance(w) \/ RemoveAdvance(w) \/ ContainsAdvance(w)
    BY <1>1, <1>2, <1>4, <2>4, AdvanceStep
    DEF InsertAdvance, RemoveAdvance, ContainsAdvance, fields
  <2>5. CASE InsertAlloc(w)
    <3>1. UNCHANGED saving /\ \E n \in Nodes \ heap : value' = [value EXCEPT ![n] = Val(w)]
      BY <2>5 DEF InsertAlloc
    <3>2. \A n \in Nodes : n \in heap => value'[n] = value[n]
      BY <3>1 DEF TypeInv, Types
    <3>3. Untouched(k, c)
      BY <1>1, <3>2 DEF Untouched, Listed, IsList, Owned
    <3>4. QED
      BY <1>1, <1>2, <1>3, <2>5, <3>1, <3>3, AllocStep DEF saving, traversal
  <2>6. CASE InsertLink(w)
    <3>1. PICK n \in Nodes, p \in 0..k : \E d \in [1..k + 1 -> Nodes] :
               d = With(k, c, p, n) /\ IsList(k + 1, d)'
      BY <1>1, <2>6, LinkStep
    <3>2. PICK d \in [1..k + 1 -> Nodes] : d = With(k, c, p, n) /\ IsList(k + 1, d)'
      BY <3>1
    <3>3. PICK e \in Nat : e = k + 1
      OBVIOUS
    <3>4. d \in [1..e -> Nodes] /\ IsList(e, d)'
      BY <3>2, <3>3
    <3>5. UNCHANGED <<value, at, image, before, intact>>
      BY <2>6 DEF InsertLink, saving, traversal
    <3>6. Saves(e, d)'
      BY <1>1, <3>2, <3>3, <3>4, <3>5, SavesInsert
    <3>7. QED
      BY <3>4, <3>6 DEF SaveInv
  <2>7. CASE RemoveFirstNode(w) \/ RemoveFound(w)
    <3>0. PICK e \in Nat : \E d \in [1..e -> Nodes] : IsList(e, d)'
      BY <1>1, <2>7, UnlinkStep
    <3>1. PICK d \in [1..e -> Nodes] : IsList(e, d)'
      BY <3>0
    <3>2. ~(image' # Null /\ intact')
      BY <2>7 DEF RemoveFirstNode, RemoveFound, traversal
    <3>3. Saves(e, d)'
      BY <3>2 DEF Saves
    <3>4. QED
      BY <3>1, <3>3 DEF SaveInv
  <2>8. CASE RemoveFree(w)
    BY <1>1, <1>2, <1>4, <2>8, FreeStep DEF RemoveFree, fields
  <2>9. QED
    BY <1>5, <2>1, <2>2, <2>3, <2>4, <2>5, <2>6, <2>7, <2>8
    DEF Insert, RemoveOne, ContainsOne
<1>6. CASE SaveCount
  BY <1>1, <1>2, <1>6, TraversalStep, SavesCount
<1>7. CASE SaveNode
  BY <1>1, <1>2, <1>7, TraversalStep, SavesNode
<1>8. CASE SaveEnd
  <2>1. Saves(k, c)'
    BY <1>8 DEF SaveEnd, Saves
  <2>2. QED
    BY <1>1, <1>2, <1>8, <2>1, TraversalStep
<1>9. CASE UNCHANGED vars
  <2>1. UNCHANGED <<head, fields, heap, pc, req, cur, prev>> /\ Traversed(k, c)'
    BY <1>1, <1>9 DEF vars, IsList, Traversed, Listed, saving, traversal
  <2>2. QED
    BY <1>1, <1>2, <1>4, <1>9, <2>1, SaveStep DEF vars, fields
<1>10. QED
  BY <1>5, <1>6, <1>7, <1>8, <1>9 DEF Next

\* llca_rdb_save writes what was in the list when it began, in order, and
\* nothing that is not in it, whatever llca_insert does meanwhile and wherever;
\* only a remove can make it do otherwise.
THEOREM SaveFaithfulTheorem ==
    ASSUME OneWorker
    PROVE  Spec => []SaveFaithful
<1>1. TypeInv /\ SaveInv /\ [Next]_vars => (TypeInv /\ SaveInv)'
  BY TypeInvStep, SaveInvStep
<1>2. QED
  BY TypeInvInit, SaveInvInit, <1>1, SavesFaithful, PTL DEF Spec

-----------------------------------------------------------------------------
(***************************************************************************)
(* The bag the list stands for, for one worker.  How often an integer is   *)
(* in it is how many of the nodes hold it, and the nodes are a set.        *)
(***************************************************************************)

NodesWith(k, c, x) == {n \in Nodes : Listed(k, c, n) /\ value[n] = x}

BagOf(k, c) == ToBag(ValuesOf(k, c))

LEMMA BagCounts ==
    ASSUME NEW k \in Nat, NEW c \in [1..k -> Nodes], Distinct(k, c)
    PROVE  /\ DOMAIN BagOf(k, c) = {value[c[i]] : i \in 1..k}
           /\ \A x \in DOMAIN BagOf(k, c) : BagOf(k, c)[x] = Cardinality(NodesWith(k, c, x))
           /\ \A x : x \in DOMAIN BagOf(k, c) <=> NodesWith(k, c, x) # {}
           /\ BagOf(k, c) = [x \in DOMAIN BagOf(k, c) |-> BagOf(k, c)[x]]
<1> DEFINE V == ValuesOf(k, c)
           At(x) == {i \in 1..k : V[i] = x}
<1>1. DOMAIN V = 1..k /\ \A i \in 1..k : V[i] = value[c[i]]
  BY DEF ValuesOf
<1> HIDE DEF V
<1>2. ToBag(V) = [x \in {V[i] : i \in 1..k} |-> Cardinality(At(x))]
  BY <1>1 DEF ToBag, Range
<1>3. {V[i] : i \in 1..k} = {value[c[i]] : i \in 1..k}
  BY <1>1
<1>4. ASSUME NEW x PROVE Cardinality(At(x)) = Cardinality(NodesWith(k, c, x))
  <2> DEFINE f == [i \in At(x) |-> c[i]]
             T == NodesWith(k, c, x)
  <2>1. \A i \in At(x) : c[i] \in T
    BY <1>1 DEF NodesWith, Listed
  <2>2. f \in [At(x) -> T]
    BY <2>1
  <2>3. \A i, j \in At(x) : f[i] = f[j] => i = j
    BY DEF Distinct
  <2>4. \A n \in T : \E i \in At(x) : f[i] = n
    BY <1>1 DEF NodesWith, Listed
  <2>5. f \in Bijection(At(x), T)
    BY <2>2, <2>3, <2>4 DEF Bijection, Injection, Surjection, IsInjective
  <2>6. IsFiniteSet(At(x))
    BY FS_Interval, FS_Subset
  <2> HIDE DEF f, T, At
  <2>7. ExistsBijection(At(x), T)
    BY <2>5 DEF ExistsBijection
  <2>8. QED
    BY <2>6, <2>7, FS_Bijection DEF T
<1> HIDE DEF At
<1>5. BagOf(k, c) = [x \in {value[c[i]] : i \in 1..k} |-> Cardinality(At(x))]
  BY <1>2, <1>3 DEF BagOf, V
<1>6. ASSUME NEW x PROVE x \in {value[c[i]] : i \in 1..k} <=> NodesWith(k, c, x) # {}
  BY DEF NodesWith, Listed
<1>7. QED
  BY <1>4, <1>5, <1>6

LEMMA NodesWithFinite ==
    ASSUME NEW k, NEW c, NEW x
    PROVE  /\ IsFiniteSet(NodesWith(k, c, x)) /\ Cardinality(NodesWith(k, c, x)) \in Nat
           /\ Cardinality(NodesWith(k, c, x)) = 0 <=> NodesWith(k, c, x) = {}
<1>1. NodesWith(k, c, x) \in SUBSET Nodes
  BY DEF NodesWith
<1>2. IsFiniteSet(NodesWith(k, c, x))
  BY <1>1, NodesAssumption, FS_Subset
<1>3. QED
  BY <1>2, FS_CardinalityType, FS_EmptySet

\* Two bags with as much of everything in them are the same.
LEMMA SameBag ==
    ASSUME NEW A, NEW B, A = [x \in DOMAIN A |-> A[x]], B = [x \in DOMAIN B |-> B[x]],
           DOMAIN A = DOMAIN B, \A x \in DOMAIN A : A[x] = B[x]
    PROVE  A = B
OBVIOUS

\* A node more: its value is added.
LEMMA BagGrown ==
    ASSUME NEW k \in Nat, NEW c \in [1..k -> Nodes], Distinct(k, c),
           NEW e \in Nat, NEW d \in [1..e -> Nodes], Distinct(e, d),
           NEW n \in Nodes, Grown(k, c, e, d, n)
    PROVE  BagOf(e, d) = Abstract!BagAdd(BagOf(k, c), value[n])
<1> DEFINE A == BagOf(e, d)
           B == BagOf(k, c)
           v == value[n]
           C == Abstract!BagAdd(B, v)
<1>1. \A x : NodesWith(e, d, x) = IF x = v THEN NodesWith(k, c, x) \cup {n}
                                  ELSE NodesWith(k, c, x)
  BY DEF Grown, NodesWith
<1>2. n \notin NodesWith(k, c, v)
  BY DEF Grown, NodesWith
<1>3. /\ \A x \in DOMAIN A : A[x] = Cardinality(NodesWith(e, d, x))
      /\ \A x : x \in DOMAIN A <=> NodesWith(e, d, x) # {}
      /\ A = [x \in DOMAIN A |-> A[x]]
  BY BagCounts
<1>4. /\ \A x \in DOMAIN B : B[x] = Cardinality(NodesWith(k, c, x))
      /\ \A x : x \in DOMAIN B <=> NodesWith(k, c, x) # {}
  BY BagCounts
<1>5. Cardinality(NodesWith(e, d, v)) = Cardinality(NodesWith(k, c, v)) + 1
  BY <1>1, <1>2, NodesWithFinite, FS_AddElement
<1>6. Cardinality(NodesWith(k, c, v)) = 0 <=> NodesWith(k, c, v) = {}
  BY NodesWithFinite
<1> HIDE DEF A, B, v
<1>7. /\ DOMAIN C = DOMAIN B \cup {v} /\ C = [x \in DOMAIN C |-> C[x]]
      /\ \A x \in DOMAIN C : C[x] = IF x = v THEN (IF v \in DOMAIN B THEN B[v] + 1 ELSE 1)
                                    ELSE B[x]
  <2>1. CASE v \in DOMAIN B
    BY <2>1 DEF Abstract!BagAdd
  <2>2. CASE v \notin DOMAIN B
    BY <2>2 DEF Abstract!BagAdd
  <2>3. QED
    BY <2>1, <2>2
<1> HIDE DEF C
<1>8. DOMAIN A = DOMAIN C
  <2>1. ASSUME NEW x PROVE x \in DOMAIN A <=> x \in DOMAIN B \cup {v}
    <3>1. CASE x = v
      BY <1>1, <1>3, <3>1
    <3>2. CASE x # v
      BY <1>1, <1>3, <1>4, <3>2
    <3>3. QED
      BY <3>1, <3>2
  <2>2. QED
    BY <1>7, <2>1
<1>9. ASSUME NEW x \in DOMAIN A PROVE A[x] = C[x]
  <2>1. CASE x = v
    BY <1>3, <1>4, <1>5, <1>6, <1>7, <1>8, <2>1
  <2>2. CASE x # v
    BY <1>1, <1>3, <1>4, <1>7, <1>8, <2>2
  <2>3. QED
    BY <2>1, <2>2
<1>10. A = C
  BY <1>3, <1>7, <1>8, <1>9, SameBag
<1>11. QED
  BY <1>10 DEF A, B, C, v

\* A node less: its value is taken away once.
LEMMA BagShrunk ==
    ASSUME NEW k \in Nat, NEW c \in [1..k -> Nodes], Distinct(k, c),
           NEW e \in Nat, NEW d \in [1..e -> Nodes], Distinct(e, d),
           NEW n \in Nodes, Shrunk(k, c, e, d, n)
    PROVE  /\ BagOf(e, d) = Abstract!BagRemove(BagOf(k, c), value[n])
           /\ value[n] \in DOMAIN BagOf(k, c)
<1> DEFINE A == BagOf(e, d)
           B == BagOf(k, c)
           v == value[n]
           C == Abstract!BagRemove(B, v)
<1>1. \A x : NodesWith(e, d, x) = IF x = v THEN NodesWith(k, c, x) \ {n}
                                  ELSE NodesWith(k, c, x)
  BY DEF Shrunk, NodesWith
<1>2. n \in NodesWith(k, c, v)
  BY DEF Shrunk, NodesWith
<1>3. /\ \A x \in DOMAIN A : A[x] = Cardinality(NodesWith(e, d, x))
      /\ \A x : x \in DOMAIN A <=> NodesWith(e, d, x) # {}
      /\ A = [x \in DOMAIN A |-> A[x]]
  BY BagCounts
<1>4. /\ \A x \in DOMAIN B : B[x] = Cardinality(NodesWith(k, c, x))
      /\ \A x : x \in DOMAIN B <=> NodesWith(k, c, x) # {}
  BY BagCounts
<1>5. /\ Cardinality(NodesWith(k, c, v)) \in Nat
      /\ Cardinality(NodesWith(e, d, v)) = Cardinality(NodesWith(k, c, v)) - 1
      /\ Cardinality(NodesWith(e, d, v)) = 0 <=> NodesWith(e, d, v) = {}
  BY <1>1, <1>2, NodesWithFinite, FS_RemoveElement
<1> HIDE DEF A, B, v
<1>6. v \in DOMAIN B /\ B[v] = Cardinality(NodesWith(k, c, v))
  BY <1>2, <1>4
<1>7. v \in DOMAIN A <=> B[v] # 1
  BY <1>3, <1>5, <1>6
<1>8. /\ DOMAIN C = IF B[v] = 1 THEN DOMAIN B \ {v} ELSE DOMAIN B
      /\ C = [x \in DOMAIN C |-> C[x]]
      /\ \A x \in DOMAIN C : C[x] = IF x = v THEN B[v] - 1 ELSE B[x]
  <2>1. CASE B[v] = 1
    BY <1>6, <2>1 DEF Abstract!BagRemove
  <2>2. CASE B[v] # 1
    BY <1>6, <2>2 DEF Abstract!BagRemove
  <2>3. QED
    BY <2>1, <2>2
<1> HIDE DEF C
<1>9. \A x : x \in DOMAIN A <=> x \in DOMAIN C
  <2> SUFFICES ASSUME NEW x PROVE x \in DOMAIN A <=> x \in DOMAIN C
    OBVIOUS
  <2>1. CASE x = v
    BY <1>6, <1>7, <1>8, <2>1
  <2>2. CASE x # v
    BY <1>1, <1>3, <1>4, <1>8, <2>2
  <2>3. QED
    BY <2>1, <2>2
<1>10. ASSUME NEW x \in DOMAIN A PROVE A[x] = C[x]
  <2>1. CASE x = v
    BY <1>3, <1>5, <1>6, <1>8, <1>9, <2>1
  <2>2. CASE x # v
    BY <1>1, <1>3, <1>4, <1>8, <1>9, <2>2
  <2>3. QED
    BY <2>1, <2>2
<1>11. A = C
  <2>1. DOMAIN A = DOMAIN C
    BY <1>9
  <2>2. QED
    BY <1>3, <1>8, <1>10, <2>1, SameBag
<1>12. QED
  BY <1>6, <1>11 DEF A, B, C, v

-----------------------------------------------------------------------------
(***************************************************************************)
(* Every step of the list is a step of the bag or none of its own.         *)
(***************************************************************************)

Bag == ToBag(ValuesFrom(head))
AnswerOf(w) == IF pc[w] \in {"count", "free"} THEN TRUE ELSE out[w]

BagIs == \A k \in Nat : \A c \in [1..k -> Nodes] : TypeInv /\ IsList(k, c) => Bag = BagOf(k, c)

LEMMA BagIsAlways == BagIs
BY ListedValues DEF BagIs, Bag, BagOf, ValuesOf

LEMMA BagIsNext == BagIs'
BY BagIsAlways, PTL

\* The list after a step, and the bag.
LEMMA BagNext ==
    ASSUME TypeInv', NEW e \in Nat, NEW d \in [1..e -> Nodes], IsList(e, d)',
           \A n \in Nodes : Listed(e, d, n) => value'[n] = value[n]
    PROVE  Bag' = BagOf(e, d) /\ Distinct(e, d)
<1>1. \A i \in 1..e : value'[d[i]] = value[d[i]]
  BY DEF Listed
<1>2. ValuesOf(e, d)' = ValuesOf(e, d)
  BY <1>1 DEF ValuesOf
<1>3. Bag' = BagOf(e, d)'
  BY BagIsNext DEF BagIs
<1>4. Distinct(e, d)
  BY DEF IsList, Distinct
<1>5. QED
  BY <1>2, <1>3, <1>4 DEF BagOf

\* The same list, and the same bag.
LEMMA BagStays ==
    ASSUME TypeInv, TypeInv', NEW k \in Nat, NEW c \in [1..k -> Nodes], IsList(k, c),
           IsList(k, c)', Untouched(k, c)
    PROVE  Bag' = Bag
<1>1. Bag' = BagOf(k, c)
  BY BagNext DEF Untouched
<1>2. Bag = BagOf(k, c)
  BY BagIsAlways DEF BagIs
<1>3. QED
  BY <1>1, <1>2

LEMMA Stutters ==
    ASSUME Bag' = Bag, req' = req, \A w \in Workers : AnswerOf(w)' = AnswerOf(w)
    PROVE  UNCHANGED Abstract!bvars
BY DEF Abstract!bvars, Bag, AnswerOf

\* One thread acts: what it answers is what the bag says.
LEMMA Acts ==
    ASSUME OneWorker, NEW w \in Workers, req[w] # Null, out[w] = Null,
           pc[w] \notin {"count", "free"}, req' = req,
           Bag' = CASE Op(w) = "insert" -> Abstract!BagAdd(Bag, Val(w))
                    [] Op(w) = "remove" -> Abstract!BagRemove(Bag, Val(w))
                    [] OTHER            -> Bag,
           NEW a \in BOOLEAN, AnswerOf(w)' = a,
           a <=> Op(w) = "insert" \/ Val(w) \in DOMAIN Bag
    PROVE  Abstract!Act(w)
<1>1. \A v \in Workers : v = w
  BY DEF OneWorker
<1>2. a = (Op(w) = "insert" \/ Val(w) \in DOMAIN Bag)
  OBVIOUS
<1>3. [v \in Workers |-> AnswerOf(v)]'
        = [[v \in Workers |-> AnswerOf(v)] EXCEPT
             ![w] = Op(w) = "insert" \/ Val(w) \in DOMAIN Bag]
  BY <1>1, <1>2
<1>4. AnswerOf(w) = Null
  BY DEF AnswerOf
<1>5. Bag' = Abstract!Change(req[w])
  BY DEF Abstract!Change, Op, Val, Bag
<1>6. [v \in Workers |-> AnswerOf(v)][w] = Null
  BY <1>4
<1>7. Bag' = Abstract!Change(req[w])
  BY <1>5
<1>8. QED
  BY <1>3, <1>6, <1>7 DEF Abstract!Act, Bag, AnswerOf, Op, Val

\* What the list does before and after it acts, the bag does not see.
LEMMA BagUnseen ==
    ASSUME OneWorker, TypeInv, TypeInv', NEW w \in Workers, NEW k \in Nat,
           NEW c \in [1..k -> Nodes], IsList(k, c),
           \/ InsertHead(w) \/ RemoveHead(w) \/ ContainsHead(w)
           \/ InsertAdvance(w) \/ RemoveAdvance(w) \/ ContainsAdvance(w)
           \/ InsertAlloc(w) \/ InsertCount(w) \/ RemoveFree(w)
    PROVE  UNCHANGED Abstract!bvars
<1>1. IsList(k, c)' /\ Untouched(k, c)
  <2>1. CASE InsertHead(w) \/ RemoveHead(w) \/ ContainsHead(w)
    BY <2>1, HeadStep DEF InsertHead, RemoveHead, ContainsHead, Untouched, fields
  <2>2. CASE InsertAdvance(w) \/ RemoveAdvance(w) \/ ContainsAdvance(w)
    BY <2>2, AdvanceStep DEF InsertAdvance, RemoveAdvance, ContainsAdvance, Untouched, fields
  <2>3. CASE InsertAlloc(w)
    <3>1. PICK n \in Nodes \ heap : value' = [value EXCEPT ![n] = Val(w)]
      BY <2>3 DEF InsertAlloc
    <3>2. \A m \in Nodes : Listed(k, c, m) => m \in heap
      BY DEF IsList, Owned, Listed
    <3>3. Untouched(k, c)
      BY <3>1, <3>2 DEF Untouched, TypeInv, Types
    <3>4. QED
      BY <2>3, <3>3, AllocStep
  <2>4. CASE InsertCount(w)
    BY <2>4, ReturnStep DEF InsertCount, Untouched, fields
  <2>5. CASE RemoveFree(w)
    BY <2>5, FreeStep DEF RemoveFree, Untouched, fields
  <2>6. QED
    BY <2>1, <2>2, <2>3, <2>4, <2>5
<1>2. Bag' = Bag
  BY <1>1, BagStays
<1>3. req' = req
  BY DEF InsertHead, RemoveHead, ContainsHead, InsertAdvance, RemoveAdvance, ContainsAdvance,
         InsertAlloc, InsertCount, RemoveFree
<1>4. ASSUME NEW v \in Workers PROVE AnswerOf(v)' = AnswerOf(v)
  <2>1. v = w
    BY DEF OneWorker
  <2>2. CASE InsertCount(w) \/ RemoveFree(w)
    <3>1. pc[w] \in {"count", "free"} /\ pc'[w] = "return" /\ out'[w] = TRUE
      BY <2>2 DEF InsertCount, RemoveFree, Goto, Answer, TypeInv, Types
    <3>2. QED
      BY <2>1, <3>1 DEF AnswerOf
  <2>3. CASE ~(InsertCount(w) \/ RemoveFree(w))
    <3>1. /\ pc[w] \in {"head", "search"} /\ pc'[w] \in {"search", "link", "first"}
          /\ out' = out
      BY <2>3 DEF InsertHead, RemoveHead, ContainsHead, InsertAdvance, RemoveAdvance,
                  ContainsAdvance, InsertAlloc, Goto, TypeInv, Types
    <3>2. QED
      BY <2>1, <3>1 DEF AnswerOf
  <2>4. QED
    BY <2>2, <2>3
<1>5. QED
  BY <1>2, <1>3, <1>4, Stutters

LEMMA BagUnsaved ==
    ASSUME TypeInv, TypeInv', NEW k \in Nat, NEW c \in [1..k -> Nodes], IsList(k, c),
           SaveCount \/ SaveNode \/ SaveEnd
    PROVE  UNCHANGED Abstract!bvars
<1>1. IsList(k, c)' /\ Untouched(k, c)
  BY TraversalStep DEF SaveCount, SaveNode, SaveEnd, Untouched, fields
<1>2. Bag' = Bag
  BY <1>1, BagStays
<1>3. req' = req /\ pc' = pc /\ out' = out
  BY DEF SaveCount, SaveNode, SaveEnd
<1>4. QED
  BY <1>2, <1>3, Stutters DEF AnswerOf

\* A call and a return.
LEMMA BagCalled ==
    ASSUME OneWorker, TypeInv, TypeInv', NEW w \in Workers, NEW k \in Nat,
           NEW c \in [1..k -> Nodes], IsList(k, c), Call(w)
    PROVE  Abstract!Call(w)
<1>1. Bag' = Bag
  BY CallStep, BagStays DEF Call, Untouched, fields
<1>2. req[w] = Null /\ \E r \in Requests : req' = [req EXCEPT ![w] = r]
  BY DEF Call, Goto, TypeInv, Hands
<1>3. \A v \in Workers : AnswerOf(v)' = AnswerOf(v)
  <2>1. pc[w] = "idle" /\ pc'[w] = "head" /\ out' = out
    BY DEF Call, Goto, TypeInv, Types
  <2>2. QED
    BY <2>1 DEF OneWorker, AnswerOf
<1>4. [v \in Workers |-> AnswerOf(v)]' = [v \in Workers |-> AnswerOf(v)]
  BY <1>3
<1>5. QED
  BY <1>1, <1>2, <1>4 DEF Abstract!Call, Bag, AnswerOf

LEMMA BagReturned ==
    ASSUME OneWorker, TypeInv, TypeInv', NEW w \in Workers, NEW k \in Nat,
           NEW c \in [1..k -> Nodes], IsList(k, c), Return(w)
    PROVE  Abstract!Return(w)
<1>1. Bag' = Bag
  BY CallStep, BagStays DEF Return, Untouched, fields
<1>2. /\ pc[w] = "return" /\ pc'[w] = "idle" /\ out'[w] = Null /\ out[w] # Null
      /\ req' = [req EXCEPT ![w] = Null]
  BY DEF Return, Goto, Answer, TypeInv, Types, Hands
<1>3. AnswerOf(w) # Null /\ AnswerOf(w)' = Null
  BY <1>2 DEF AnswerOf
<1>4. [v \in Workers |-> AnswerOf(v)]' = [[v \in Workers |-> AnswerOf(v)] EXCEPT ![w] = Null]
  BY <1>3 DEF OneWorker
<1>5. [v \in Workers |-> AnswerOf(v)][w] # Null
  BY <1>3
<1>6. QED
  BY <1>1, <1>2, <1>4, <1>5 DEF Abstract!Return, Bag, AnswerOf

\* A worker in the middle of an operation.
LEMMA Working ==
    ASSUME TypeInv, NEW w \in Workers, pc[w] \in {"head", "search", "link", "first"}
    PROVE  req[w] # Null /\ out[w] = Null /\ pc[w] \notin {"count", "free"}
BY NullAssumption DEF TypeInv, Hands

\* An insert acts when its node is linked.
LEMMA InsertActs ==
    ASSUME OneWorker, TypeInv, TypeInv', NEW w \in Workers, NEW k \in Nat,
           NEW c \in [1..k -> Nodes], IsList(k, c), InsertLink(w)
    PROVE  Abstract!Act(w)
<1>0. PICK e \in Nat : e = k + 1
  OBVIOUS
<1>1. PICK n \in Nodes : \E d \in [1..e -> Nodes] :
          IsList(e, d)' /\ n = cur[w] /\ Grown(k, c, e, d, n)
  BY <1>0, LinkStep
<1>2. PICK d \in [1..e -> Nodes] : IsList(e, d)' /\ Grown(k, c, e, d, n)
  BY <1>1
<1>3. /\ pc[w] = "link" /\ pc'[w] = "count" /\ UNCHANGED <<value, req, out>>
  BY DEF InsertLink, Goto, TypeInv, Types
<1>4. Op(w) = "insert" /\ value[n] = Val(w)
  BY <1>1, <1>3 DEF IsList, Stands, LinkAt
<1>5. Bag' = BagOf(e, d) /\ Distinct(e, d)
  BY <1>2, <1>3, BagNext
<1>6. Bag = BagOf(k, c)
  BY BagIsAlways DEF BagIs
<1>7. BagOf(e, d) = Abstract!BagAdd(BagOf(k, c), value[n])
  BY <1>2, <1>5, BagGrown DEF IsList
<1>8. Bag' = Abstract!BagAdd(Bag, Val(w))
  BY <1>4, <1>5, <1>6, <1>7
<1>9. Bag' = CASE Op(w) = "insert" -> Abstract!BagAdd(Bag, Val(w))
               [] Op(w) = "remove" -> Abstract!BagRemove(Bag, Val(w))
               [] OTHER            -> Bag
  BY <1>4, <1>8
<1>10. AnswerOf(w)' = TRUE
  BY <1>3 DEF AnswerOf
<1>11. TRUE <=> Op(w) = "insert" \/ Val(w) \in DOMAIN Bag
  BY <1>4
<1>12. QED
  BY <1>3, <1>9, <1>10, <1>11, Working, Acts

\* A remove that finds its value acts when the node is unlinked.
LEMMA RemoveActs ==
    ASSUME OneWorker, TypeInv, TypeInv', NEW w \in Workers, NEW k \in Nat,
           NEW c \in [1..k -> Nodes], IsList(k, c), RemoveFirstNode(w) \/ RemoveFound(w)
    PROVE  Abstract!Act(w)
<1>1. PICK e \in Nat : \E d \in [1..e -> Nodes] : IsList(e, d)' /\ Shrunk(k, c, e, d, cur[w])
  BY UnlinkStep
<1>2. PICK d \in [1..e -> Nodes] : IsList(e, d)' /\ Shrunk(k, c, e, d, cur[w])
  BY <1>1
<1>3. /\ pc[w] \in {"first", "search"} /\ pc'[w] = "free" /\ UNCHANGED <<value, req, out>>
  BY DEF RemoveFirstNode, RemoveFound, Goto, TypeInv, Types, fields
<1>4. Op(w) = "remove" /\ value[cur[w]] = Val(w) /\ cur[w] \in Nodes
  <2>1. CASE RemoveFirstNode(w)
    BY <2>1 DEF RemoveFirstNode, Goto, IsList, Stands, TypeInv, Types, Hands, NodesOrNull
  <2>2. CASE RemoveFound(w)
    BY <2>2 DEF RemoveFound, Goto, TypeInv, Types, Hands, NodesOrNull
  <2>3. QED
    BY <2>1, <2>2
<1>5. Bag' = BagOf(e, d) /\ Distinct(e, d)
  BY <1>2, <1>3, BagNext
<1>6. Bag = BagOf(k, c)
  BY BagIsAlways DEF BagIs
<1>7. /\ BagOf(e, d) = Abstract!BagRemove(BagOf(k, c), value[cur[w]])
      /\ value[cur[w]] \in DOMAIN BagOf(k, c)
  BY <1>2, <1>4, <1>5, BagShrunk DEF IsList
<1>8. Bag' = Abstract!BagRemove(Bag, Val(w)) /\ Val(w) \in DOMAIN Bag
  BY <1>4, <1>5, <1>6, <1>7
<1>9. Bag' = CASE Op(w) = "insert" -> Abstract!BagAdd(Bag, Val(w))
               [] Op(w) = "remove" -> Abstract!BagRemove(Bag, Val(w))
               [] OTHER            -> Bag
  BY <1>4, <1>8
<1>10. AnswerOf(w)' = TRUE
  BY <1>3 DEF AnswerOf
<1>11. TRUE <=> Op(w) = "insert" \/ Val(w) \in DOMAIN Bag
  BY <1>8
<1>12. QED
  BY <1>3, <1>9, <1>10, <1>11, Working, Acts

\* A value is in the bag when a node of the list holds it.
LEMMA InBag ==
    ASSUME TypeInv, NEW k \in Nat, NEW c \in [1..k -> Nodes], IsList(k, c), NEW x
    PROVE  x \in DOMAIN Bag <=> \E i \in 1..k : value[c[i]] = x
<1>1. Bag = BagOf(k, c)
  BY BagIsAlways DEF BagIs
<1>2. x \in DOMAIN Bag <=> NodesWith(k, c, x) # {}
  BY <1>1, BagCounts DEF IsList
<1>3. QED
  BY <1>2 DEF NodesWith, Listed

\* A remove that finds nothing, and a contains, act when they answer.
LEMMA AnswerActs ==
    ASSUME OneWorker, TypeInv, TypeInv', NEW w \in Workers, NEW k \in Nat,
           NEW c \in [1..k -> Nodes], IsList(k, c),
           RemoveEmpty(w) \/ RemoveMiss(w) \/ ContainsAnswer(w)
    PROVE  Abstract!Act(w)
<1>1. /\ pc[w] \in {"head", "search"} /\ pc'[w] = "return" /\ req' = req
      /\ Op(w) \in {"remove", "contains"}
  BY DEF RemoveEmpty, RemoveMiss, ContainsAnswer, Goto, TypeInv, Types
<1>2. Bag' = Bag
  BY ReturnStep, BagStays DEF RemoveEmpty, RemoveMiss, ContainsAnswer, Untouched, fields
<1>3. CASE RemoveEmpty(w) \/ RemoveMiss(w)
  <2>1. Op(w) = "remove" /\ AnswerOf(w)' = FALSE
    BY <1>1, <1>3 DEF RemoveEmpty, RemoveMiss, Answer, AnswerOf, TypeInv, Types
  <2>2. \A i \in 1..k : value[c[i]] # Val(w)
    <3>1. CASE RemoveEmpty(w)
      <4>1. Nth(k, c, 1) = Null
        BY <3>1 DEF RemoveEmpty, IsList, Linked
      <4>2. k = 0
        BY <4>1, Nths
      <4>3. QED
        BY <4>2
    <3>2. CASE RemoveMiss(w)
      <4>1. pc[w] = "search" /\ next[cur[w]] = Null /\ value[cur[w]] # Val(w)
        BY <3>2 DEF RemoveMiss, Goto
      <4>2. PICK p \in 0..k : SearchAt(w, k, c, p)
        BY <4>1 DEF IsList, Stands
      <4>3. p + 1 \in 1..k /\ cur[w] = c[p+1]
        BY <2>1, <4>2, Nths DEF SearchAt
      <4>4. Nth(k, c, p + 2) = Null
        BY <4>1, <4>3 DEF IsList, Linked
      <4>5. p + 1 = k
        BY <4>3, <4>4, Nths
      <4>6. \A i \in 1..k : i <= p => value[c[i]] # Val(w)
        BY <2>1, <4>2 DEF SearchAt
      <4>7. QED
        BY <4>1, <4>3, <4>5, <4>6
    <3>3. QED
      BY <1>3, <3>1, <3>2
  <2>3. Val(w) \notin DOMAIN Bag
    BY <2>2, InBag
  <2>4. Bag' = Abstract!BagRemove(Bag, Val(w))
    BY <1>2, <2>3 DEF Abstract!BagRemove
  <2>5. Bag' = CASE Op(w) = "insert" -> Abstract!BagAdd(Bag, Val(w))
                 [] Op(w) = "remove" -> Abstract!BagRemove(Bag, Val(w))
                 [] OTHER            -> Bag
    BY <2>1, <2>4
  <2>6. FALSE <=> Op(w) = "insert" \/ Val(w) \in DOMAIN Bag
    BY <2>1, <2>3
  <2>7. QED
    BY <1>1, <2>1, <2>5, <2>6, Working, Acts
<1>4. CASE ContainsAnswer(w)
  <2>1. PICK a \in BOOLEAN : a = (cur[w] # Null)
    OBVIOUS
  <2>2. /\ Op(w) = "contains" /\ pc[w] = "search" /\ out' = [out EXCEPT ![w] = a]
        /\ cur[w] # Null => value[cur[w]] = Val(w)
    BY <1>4, <2>1 DEF ContainsAnswer, Goto, Answer
  <2>3. AnswerOf(w)' = a
    BY <1>1, <2>2 DEF AnswerOf, TypeInv, Types
  <2>4. PICK p \in 0..k : SearchAt(w, k, c, p)
    BY <2>2 DEF IsList, Stands
  <2>5. cur[w] # Null => \E i \in 1..k : value[c[i]] = Val(w)
    <3>1. cur[w] # Null => p + 1 \in 1..k /\ cur[w] = c[p+1]
      BY <2>4, Nths DEF SearchAt
    <3>2. QED
      BY <2>2, <3>1
  <2>6. cur[w] = Null => \A i \in 1..k : value[c[i]] # Val(w)
    <3>1. cur[w] = Null => p = k
      BY <2>4, Nths DEF SearchAt
    <3>2. \A i \in 1..k : i <= p => value[c[i]] # Val(w)
      BY <2>2, <2>4 DEF SearchAt
    <3>3. QED
      BY <3>1, <3>2
  <2>7. cur[w] # Null <=> Val(w) \in DOMAIN Bag
    BY <2>5, <2>6, InBag
  <2>8. a <=> Op(w) = "insert" \/ Val(w) \in DOMAIN Bag
    BY <2>1, <2>2, <2>7
  <2>9. Bag' = CASE Op(w) = "insert" -> Abstract!BagAdd(Bag, Val(w))
                 [] Op(w) = "remove" -> Abstract!BagRemove(Bag, Val(w))
                 [] OTHER            -> Bag
    BY <1>2, <2>2
  <2>10. QED
    BY <1>1, <2>3, <2>8, <2>9, Working, Acts
<1>5. QED
  BY <1>3, <1>4

LEMMA BagStep ==
    ASSUME OneWorker, TypeInv, TypeInv', ListInv, [Next]_vars
    PROVE  [Abstract!BNext]_(Abstract!bvars)
<1>0. PICK k \in Nat : \E c \in [1..k -> Nodes] : IsList(k, c)
  BY DEF ListInv
<1>1. PICK c \in [1..k -> Nodes] : IsList(k, c)
  BY <1>0
<1>2. ASSUME NEW w \in Workers, Call(w) \/ Insert(w) \/ RemoveOne(w) \/ ContainsOne(w) \/ Return(w)
      PROVE  [Abstract!BNext]_(Abstract!bvars)
  <2>1. CASE Call(w)
    BY <1>1, <2>1, BagCalled DEF Abstract!BNext
  <2>2. CASE Return(w)
    BY <1>1, <2>2, BagReturned DEF Abstract!BNext
  <2>3. CASE \/ InsertHead(w) \/ RemoveHead(w) \/ ContainsHead(w)
             \/ InsertAdvance(w) \/ RemoveAdvance(w) \/ ContainsAdvance(w)
             \/ InsertAlloc(w) \/ InsertCount(w) \/ RemoveFree(w)
    BY <1>1, <2>3, BagUnseen
  <2>4. CASE InsertLink(w)
    BY <1>1, <2>4, InsertActs DEF Abstract!BNext
  <2>5. CASE RemoveFirstNode(w) \/ RemoveFound(w)
    BY <1>1, <2>5, RemoveActs DEF Abstract!BNext
  <2>6. CASE RemoveEmpty(w) \/ RemoveMiss(w) \/ ContainsAnswer(w)
    BY <1>1, <2>6, AnswerActs DEF Abstract!BNext
  <2>7. QED
    BY <1>2, <2>1, <2>2, <2>3, <2>4, <2>5, <2>6 DEF Insert, RemoveOne, ContainsOne
<1>3. CASE SaveCount \/ SaveNode \/ SaveEnd
  BY <1>1, <1>3, BagUnsaved
<1>4. CASE UNCHANGED vars
  <2>1. UNCHANGED <<head, fields, heap, pc, req, cur, prev, out>> /\ Traversed(k, c)'
    BY <1>1, <1>4 DEF vars, IsList, Traversed, Listed, saving, traversal
  <2>2. IsList(k, c)' /\ Untouched(k, c)
    BY <1>1, <2>1, SaveStep DEF Untouched, fields
  <2>3. QED
    BY <1>1, <2>1, <2>2, BagStays, Stutters DEF AnswerOf
<1>5. QED
  BY <1>2, <1>3, <1>4 DEF Next

\* The list is a bag of integers.  Each operation acts on it at one instant: an
\* insert when its node is linked, a remove when it is unlinked, and the others
\* when they answer.
THEOREM ImplementsBagTheorem == ASSUME OneWorker PROVE Spec => ImplementsBag
<1>1. Init => Abstract!BInit
  <2> SUFFICES ASSUME Init PROVE Abstract!BInit
    OBVIOUS
  <2>1. TypeInv /\ ListInv
    BY TypeInvInit, ListInvInit
  <2>2. PICK k \in Nat : \E c \in [1..k -> Nodes] : IsList(k, c)
    BY <2>1 DEF ListInv
  <2>3. PICK c \in [1..k -> Nodes] : IsList(k, c)
    BY <2>2
  <2>4. k = 0
    <3>1. Nth(k, c, 1) = Null
      BY <2>3 DEF Init, IsList, Linked
    <3>2. QED
      BY <3>1, Nths
  <2>5. DOMAIN Bag = {}
    <3>1. ASSUME NEW x, x \in DOMAIN Bag PROVE FALSE
      <4>1. \E i \in 1..k : value[c[i]] = x
        BY <2>1, <2>3, <3>1, InBag
      <4>2. QED
        BY <2>4, <4>1
    <3>2. QED
      BY <3>1
  <2>6. Bag = BagOf(k, c) /\ BagOf(k, c) = [x \in DOMAIN BagOf(k, c) |-> BagOf(k, c)[x]]
    BY <2>1, <2>3, BagIsAlways, BagCounts DEF BagIs, IsList
  <2>7. Bag = [x \in {} |-> 0]
    BY <2>5, <2>6
  <2>8. req = [w \in Workers |-> Null] /\ \A w \in Workers : AnswerOf(w) = Null
    BY DEF Init, AnswerOf
  <2>9. QED
    BY <2>7, <2>8 DEF Abstract!BInit, Bag, AnswerOf
<1>2. TypeInv /\ TypeInv' /\ ListInv /\ [Next]_vars => [Abstract!BNext]_(Abstract!bvars)
  BY BagStep
<1>3. Spec => []TypeInv
  BY TypeInvInit, TypeInvStep, PTL DEF Spec
<1>4. Spec => []ListInv
  BY ListInvInvariant
<1>5. QED
  BY <1>1, <1>2, <1>3, <1>4, PTL DEF Spec, ImplementsBag, Abstract!BSpec

=============================================================================
