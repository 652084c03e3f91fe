------------------------------ MODULE LlcaList ------------------------------
(***************************************************************************)
(* The sorted linked list behind llca_type, node by node: llca_insert,     *)
(* llca_remove and llca_contains on one list, executed by the workers, and *)
(* the traversal of llca_rdb_save, llca_digest and llca_aof_rewrite,       *)
(* executed by Redis's main thread.  Nothing locks the list: the command   *)
(* handlers release the global lock once the key is open.                  *)
(*                                                                         *)
(* One action is one access to the nodes, between which the other thread   *)
(* may run.  Nodes bounds the memory, and with it the length of the list.  *)
(***************************************************************************)
EXTENDS Integers, SequencesExt

CONSTANTS Workers,    \* threads of the pool
          Nodes,      \* addresses of llca_node
          Values,     \* integers
          Requests,   \* operations the workers are sent
          MaxLen,     \* bound on len, which remove never decrements
          Null        \* nullptr, nothing

ASSUME ValuesAssumption == Values \subseteq Int
ASSUME RequestsAssumption ==
    Requests \subseteq [op : {"insert", "remove", "contains"}, val : Values]
ASSUME NodesAssumption == IsFiniteSet(Nodes)
ASSUME MaxLenAssumption == MaxLen \in Nat
ASSUME NullAssumption ==
    /\ Null \notin Nodes \cup Values \cup Requests \cup BOOLEAN
    /\ Null \notin [count : Nat, values : Seq(Values)]

VARIABLES
    head, len,     \* the fields of llca_obj
    value, next,   \* the fields of each llca_node
    heap,          \* nodes that are allocated
    pc,            \* where each worker is
    req,           \* its operation
    cur, prev,     \* its pointers into the list
    out,           \* its answer, or Null
    at,            \* where the traversal of the main thread is, or Null
    image,         \* what it has written: the count and the values so far, or Null
    before,        \* (History) the list when the traversal began
    intact         \* (History) whether no node was unlinked since then

fields == <<value, next>>
traversal == <<at, image, before>>
saving == <<traversal, intact>>
vars == <<head, len, fields, heap, pc, req, cur, prev, out, saving>>

\* Where next leads from n, step by step; Null once the list has ended.
Steps(n) ==
    LET step[i \in 0..Cardinality(Nodes)] ==
            IF i = 0 THEN n
            ELSE IF step[i-1] = Null THEN Null ELSE next[step[i-1]]
    IN  step

\* The nodes from n on; more than there are, if the list has no end.
ChainFrom(n) ==
    LET k == Cardinality({i \in 0..Cardinality(Nodes) : Steps(n)[i] # Null})
    IN  [i \in 1..k |-> Steps(n)[i-1]]

ValuesFrom(n) == LET chain == ChainFrom(n) IN [i \in DOMAIN chain |-> value[chain[i]]]

Op(w) == req[w].op
Val(w) == req[w].val

Goto(w, from, to) ==
    /\ pc[w] = from
    /\ pc' = [pc EXCEPT ![w] = to]

Answer(w, a) == out' = [out EXCEPT ![w] = a]

\* createLLCAObject; nobody has called anything yet.
Init ==
    /\ head = Null
    /\ len = 0
    /\ value = [n \in Nodes |-> Null]
    /\ next = [n \in Nodes |-> Null]
    /\ heap = {}
    /\ pc = [w \in Workers |-> "idle"]
    /\ req = [w \in Workers |-> Null]
    /\ cur = [w \in Workers |-> Null]
    /\ prev = [w \in Workers |-> Null]
    /\ out = [w \in Workers |-> Null]
    /\ at = Null
    /\ image = Null
    /\ before = <<>>
    /\ intact = TRUE

\* The bounds: an insert needs a node left for it, and len stays below MaxLen.
Room ==
    LET begun == {u \in Workers : pc[u] \in {"head", "search"} /\ Op(u) = "insert"}
        linked == {u \in Workers : pc[u] \in {"link", "count"}}
    IN  /\ Cardinality(Nodes \ heap) > Cardinality(begun)
        /\ len + Cardinality(begun) + Cardinality(linked) < MaxLen

\* A worker calls an operation.
Call(w) ==
    /\ Goto(w, "idle", "head")
    /\ \E r \in Requests :
        /\ r.op = "insert" => Room
        /\ req' = [req EXCEPT ![w] = r]
    /\ UNCHANGED <<head, len, fields, heap, cur, prev, out, saving>>

Return(w) ==
    /\ Goto(w, "return", "idle")
    /\ req' = [req EXCEPT ![w] = Null]
    /\ cur' = [cur EXCEPT ![w] = Null]
    /\ prev' = [prev EXCEPT ![w] = Null]
    /\ Answer(w, Null)
    /\ UNCHANGED <<head, len, fields, heap, saving>>

Advance(w) ==
    /\ prev' = [prev EXCEPT ![w] = cur[w]]
    /\ cur' = [cur EXCEPT ![w] = next[cur[w]]]

-----------------------------------------------------------------------------
(* llca_insert: cur is the code's next.                                    *)

InsertHead(w) ==
    /\ Goto(w, "head", "search")
    /\ Op(w) = "insert"
    /\ cur' = [cur EXCEPT ![w] = head]
    /\ UNCHANGED <<head, len, fields, heap, req, prev, out, saving>>

\* (Mutant) the comparison is the wrong way round.
SmallerReversed(w) == cur[w] # Null /\ value[cur[w]] > Val(w)

Smaller(w) == cur[w] # Null /\ value[cur[w]] < Val(w)

InsertAdvance(w) ==
    /\ pc[w] = "search" /\ Op(w) = "insert"
    /\ Smaller(w)
    /\ Advance(w)
    /\ UNCHANGED <<head, len, fields, heap, pc, req, out, saving>>

\* (Mutant) the new node does not point to the rest of the list.
InsertAllocEnd(w) ==
    /\ Goto(w, "search", "link")
    /\ Op(w) = "insert"
    /\ ~Smaller(w)
    /\ \E n \in Nodes \ heap :
        /\ heap' = heap \cup {n}
        /\ value' = [value EXCEPT ![n] = Val(w)]
        /\ next' = [next EXCEPT ![n] = Null]
        /\ cur' = [cur EXCEPT ![w] = n]
    /\ UNCHANGED <<head, len, req, prev, out, saving>>

\* The new node, its fields set; nothing points to it yet.
InsertAlloc(w) ==
    /\ Goto(w, "search", "link")
    /\ Op(w) = "insert"
    /\ ~Smaller(w)
    /\ \E n \in Nodes \ heap :
        /\ heap' = heap \cup {n}
        /\ value' = [value EXCEPT ![n] = Val(w)]
        /\ next' = [next EXCEPT ![n] = cur[w]]
        /\ cur' = [cur EXCEPT ![w] = n]
    /\ UNCHANGED <<head, len, req, prev, out, saving>>

InsertLink(w) ==
    /\ Goto(w, "link", "count")
    /\ \/ /\ prev[w] # Null
          /\ next' = [next EXCEPT ![prev[w]] = cur[w]]
          /\ UNCHANGED head
       \/ /\ prev[w] = Null
          /\ head' = cur[w]
          /\ UNCHANGED next
    /\ UNCHANGED <<len, value, heap, req, cur, prev, out, saving>>

InsertCount(w) ==
    /\ Goto(w, "count", "return")
    /\ len' = len + 1
    /\ Answer(w, TRUE)
    /\ UNCHANGED <<head, fields, heap, req, cur, prev, saving>>

-----------------------------------------------------------------------------
(* llca_remove, which leaves len as it is.                                 *)

\* (Mutant) an empty list returns without an answer.
RemoveEmptySilent(w) ==
    /\ Goto(w, "head", "return")
    /\ Op(w) = "remove"
    /\ head = Null
    /\ UNCHANGED <<head, len, fields, heap, req, cur, prev, out, saving>>

RemoveEmpty(w) ==
    /\ Goto(w, "head", "return")
    /\ Op(w) = "remove"
    /\ head = Null
    /\ Answer(w, FALSE)
    /\ UNCHANGED <<head, len, fields, heap, req, cur, prev, saving>>

RemoveHead(w) ==
    /\ pc[w] = "head" /\ Op(w) = "remove"
    /\ head # Null
    /\ pc' = [pc EXCEPT ![w] = IF value[head] = Val(w) THEN "first" ELSE "search"]
    /\ cur' = [cur EXCEPT ![w] = head]
    /\ prev' = [prev EXCEPT ![w] = head]
    /\ UNCHANGED <<head, len, fields, heap, req, out, saving>>

\* (Mutant) the first node is unlinked and not freed.
RemoveFirstLeaks(w) ==
    /\ Goto(w, "first", "return")
    /\ head' = next[cur[w]]
    /\ intact' = (image = Null)
    /\ Answer(w, TRUE)
    /\ UNCHANGED <<len, fields, heap, req, cur, prev, traversal>>

RemoveFirstNode(w) ==
    /\ Goto(w, "first", "free")
    /\ head' = next[cur[w]]
    /\ intact' = (image = Null)
    /\ UNCHANGED <<len, fields, heap, req, cur, prev, out, traversal>>

RemoveAdvance(w) ==
    /\ pc[w] = "search" /\ Op(w) = "remove"
    /\ next[cur[w]] # Null /\ value[cur[w]] # Val(w)
    /\ Advance(w)
    /\ UNCHANGED <<head, len, fields, heap, pc, req, out, saving>>

\* (Mutant) the last node is not compared.
RemoveMissLast(w) ==
    /\ Goto(w, "search", "return")
    /\ Op(w) = "remove"
    /\ next[cur[w]] = Null
    /\ Answer(w, FALSE)
    /\ UNCHANGED <<head, len, fields, heap, req, cur, prev, saving>>

RemoveMiss(w) ==
    /\ Goto(w, "search", "return")
    /\ Op(w) = "remove"
    /\ next[cur[w]] = Null /\ value[cur[w]] # Val(w)
    /\ Answer(w, FALSE)
    /\ UNCHANGED <<head, len, fields, heap, req, cur, prev, saving>>

\* (Mutant) a node is freed before it is unlinked.
RemoveFoundFrees(w) ==
    /\ pc[w] = "search" /\ Op(w) = "remove"
    /\ value[cur[w]] = Val(w)
    /\ \/ cur[w] \in heap /\ heap' = heap \ {cur[w]} /\ UNCHANGED <<next, pc, out, intact>>
       \/ /\ cur[w] \notin heap
          /\ next' = [next EXCEPT ![prev[w]] = next[cur[w]]]
          /\ Goto(w, "search", "return")
          /\ intact' = (image = Null)
          /\ Answer(w, TRUE)
          /\ UNCHANGED heap
    /\ UNCHANGED <<head, len, value, req, cur, prev, traversal>>

RemoveFound(w) ==
    /\ Goto(w, "search", "free")
    /\ Op(w) = "remove"
    /\ value[cur[w]] = Val(w)
    /\ next' = [next EXCEPT ![prev[w]] = next[cur[w]]]
    /\ intact' = (image = Null)
    /\ UNCHANGED <<head, len, value, heap, req, cur, prev, out, traversal>>

RemoveFree(w) ==
    /\ Goto(w, "free", "return")
    /\ heap' = heap \ {cur[w]}
    /\ Answer(w, TRUE)
    /\ UNCHANGED <<head, len, fields, req, cur, prev, saving>>

-----------------------------------------------------------------------------
(* llca_contains.                                                          *)

ContainsHead(w) ==
    /\ Goto(w, "head", "search")
    /\ Op(w) = "contains"
    /\ cur' = [cur EXCEPT ![w] = head]
    /\ UNCHANGED <<head, len, fields, heap, req, prev, out, saving>>

ContainsAdvance(w) ==
    /\ pc[w] = "search" /\ Op(w) = "contains"
    /\ cur[w] # Null /\ value[cur[w]] # Val(w)
    /\ Advance(w)
    /\ UNCHANGED <<head, len, fields, heap, pc, req, out, saving>>

ContainsAnswer(w) ==
    /\ Goto(w, "search", "return")
    /\ Op(w) = "contains"
    /\ cur[w] # Null => value[cur[w]] = Val(w)
    /\ Answer(w, cur[w] # Null)
    /\ UNCHANGED <<head, len, fields, heap, req, cur, prev, saving>>

-----------------------------------------------------------------------------
(* The main thread's traversal.  It reads the nodes the workers write.     *)

SaveCount ==
    /\ image = Null
    /\ image' = [count |-> len, values |-> <<>>]
    /\ before' = ValuesFrom(head)
    /\ at' = head
    /\ UNCHANGED <<intact, head, len, fields, heap, pc, req, cur, prev, out>>

SaveNode ==
    /\ at # Null
    /\ image' = [image EXCEPT !.values = Append(@, value[at])]
    /\ at' = next[at]
    /\ UNCHANGED <<before, intact, head, len, fields, heap, pc, req, cur, prev, out>>

SaveEnd ==
    /\ image # Null /\ at = Null
    /\ image' = Null
    /\ before' = <<>>
    /\ intact' = TRUE
    /\ UNCHANGED <<at, head, len, fields, heap, pc, req, cur, prev, out>>

-----------------------------------------------------------------------------
Insert(w) ==
    InsertHead(w) \/ InsertAdvance(w) \/ InsertAlloc(w) \/ InsertLink(w) \/ InsertCount(w)

RemoveOne(w) ==
    \/ RemoveEmpty(w) \/ RemoveHead(w) \/ RemoveFirstNode(w)
    \/ RemoveAdvance(w) \/ RemoveMiss(w) \/ RemoveFound(w) \/ RemoveFree(w)

ContainsOne(w) == ContainsHead(w) \/ ContainsAdvance(w) \/ ContainsAnswer(w)

Next ==
    \/ \E w \in Workers : Call(w) \/ Insert(w) \/ RemoveOne(w) \/ ContainsOne(w) \/ Return(w)
    \/ SaveCount \/ SaveNode \/ SaveEnd

Spec == Init /\ [][Next]_vars

-----------------------------------------------------------------------------
(***************************************************************************)
(* Properties.                                                             *)
(***************************************************************************)

\* Types; a worker has an answer exactly when it is about to return.
TypeOK ==
    /\ head \in Nodes \cup {Null}
    /\ len \in Nat
    /\ value \in [Nodes -> Values \cup {Null}]
    /\ next \in [Nodes -> Nodes \cup {Null}]
    /\ heap \in SUBSET Nodes
    /\ pc \in [Workers -> {"idle", "head", "search", "link", "count", "first", "free", "return"}]
    /\ req \in [Workers -> Requests \cup {Null}]
    /\ {cur, prev} \subseteq [Workers -> Nodes \cup {Null}]
    /\ out \in [Workers -> BOOLEAN \cup {Null}]
    /\ \A w \in Workers : out[w] # Null <=> pc[w] = "return"
    /\ at \in Nodes \cup {Null}
    /\ image \in [count : Nat, values : Seq(Values)] \cup {Null}
    /\ before \in Seq(Values)
    /\ intact \in BOOLEAN

\* At every instant, between any two accesses of a worker, the chain from the
\* head ends, runs through allocated nodes only and is ascending.  It is what
\* a child forked at that instant (BGSAVE, BGREWRITEAOF) walks through.
ForkSeesSortedList ==
    /\ Len(ChainFrom(head)) <= Cardinality(Nodes)
    /\ ToSet(ChainFrom(head)) \subseteq heap
    /\ IsSorted(ValuesFrom(head), <=)

\* An allocated node is in the list, or in the hands of the insert that is
\* about to link it or of the remove that is about to free it: none is leaked.
NoNodeLost ==
    heap = ToSet(ChainFrom(head)) \cup {cur[w] : w \in {u \in Workers : pc[u] \in {"link", "free"}}}

\* No worker stands on a node that was freed, and neither does the traversal of
\* the main thread as long as no remove unlinked a node after it began.  When
\* one did, it may: nothing in the code holds llca_remove back.
OnLiveNodes ==
    /\ intact => at \in heap \cup {Null}
    /\ \A w \in Workers : pc[w] \in {"search", "link", "first", "free"} =>
            {cur[w], prev[w]} \subseteq heap \cup {Null}

\* As long as no remove unlinked a node after it began, a traversal writes an
\* ascending sequence that holds everything that was in the list at that time,
\* and nothing that is not in the list by now, whatever is inserted meanwhile.
SaveFaithful ==
    image # Null /\ intact =>
        LET written == image.values \o ValuesFrom(at) IN
        /\ IsSorted(written, <=)
        /\ ToBag(before) \sqsubseteq ToBag(written)
        /\ ToBag(written) \sqsubseteq ToBag(ValuesFrom(head))

\* An insert has acted once its node is linked, a remove once it is unlinked.
Abstract == INSTANCE IntegerBag WITH
    Threads <- Workers,
    Idle    <- Null,
    bag     <- ToBag(ValuesFrom(head)),
    pending <- req,
    answer  <- [w \in Workers |-> IF pc[w] \in {"count", "free"} THEN TRUE ELSE out[w]]

\* The operations are those of a bag of integers, duplicates included.
ImplementsBag == Abstract!BSpec

=============================================================================
