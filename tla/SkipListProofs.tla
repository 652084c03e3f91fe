--------------------------- MODULE SkipListProofs ---------------------------
(***************************************************************************)
(* Proofs about SkipListCommands, for every set of workers, keys, values,  *)
(* objects and requests.                                                   *)
(*                                                                         *)
(* TypeInv (types, and what a thread has in its hands at each place) holds *)
(* of every instance.  What the global lock achieves is proved of the      *)
(* commands for which the code takes it: LockInv and OwnInv assume that    *)
(* workers are sent create and delete only (LifeCycleOnly).  The main      *)
(* thread may execute anything, and clients may use DEL.  There the        *)
(* commands implement KeyedSets: Kept adds what the mapping relies on, and *)
(* the lemmas of each step use no more of it than ViewInv.                 *)
(*                                                                         *)
(* The last part is about the pool the source configures: one worker that  *)
(* executes all five commands (Lone).  Its searches may see anything; the  *)
(* keys and the skip lists stay whole.                                     *)
(***************************************************************************)
EXTENDS SkipListCommands, TLAPS

Stages == {"idle", "del", "args", "open", "check", "link", "destroy", "unlink", "apply",
           "finish"}

Types ==
    /\ dict \in [Keys -> Objects \cup {None, Foreign}]
    /\ life \in [Objects -> {"unused", "live", "freed"}]
    /\ content \in [Objects -> SUBSET Values]
    /\ leaked \in SUBSET Objects
    /\ gil \in Threads \cup {None}
    /\ pc \in [Threads -> Stages]
    /\ req \in [Threads -> ConcRequests \cup SeqRequests \cup {None}]
    /\ obj \in [Threads -> Objects \cup {None, Foreign}]
    /\ out \in [Threads -> Answers]

\* What thread t has in its hands.
Hands(t) ==
    /\ out[t] # "none" <=> pc[t] = "finish"
    /\ pc[t] = "del" => t = MainThread
    /\ pc[t] \notin {"idle", "del"} =>
          req[t] \in IF t = MainThread THEN SeqRequests ELSE ConcRequests
    /\ pc[t] \notin {"idle", "del", "args", "finish"} => Val(t) # Malformed
    /\ pc[t] \in {"link", "destroy", "unlink", "apply"} => obj[t] \in Objects
    /\ pc[t] = "link" => Op(t) = "create"
    /\ pc[t] \in {"destroy", "unlink"} => Op(t) = "delete"
    /\ pc[t] = "apply" => Op(t) \in {"insert", "remove", "contains"}

TypeInv == Types /\ \A t \in Threads : Hands(t)

\* A request names an operation, a key and a value.
LEMMA RequestTypes ==
    ASSUME NEW r \in ConcRequests \cup SeqRequests
    PROVE  /\ r.op \in Ops /\ r.key \in Keys /\ r.val \in Values \cup {Malformed}
           /\ r # None
BY RequestsAssumption, DistinctAssumption DEF Requests

LEMMA TypeInvInit == Init => TypeInv
BY DEF Init, TypeInv, Types, Hands, Stages, Answers, Threads

\* Every step keeps the types and the hands of every thread.
LEMMA TypeInvStep == TypeInv /\ [Next]_vars => TypeInv'
<1> SUFFICES ASSUME TypeInv, [Next]_vars PROVE TypeInv'
  OBVIOUS
<1> USE ThreadsAssumption DEF TypeInv, Types, Hands, Stages, Answers, Goto, Op, Key, Val,
        Decide, objectVars, Threads
<1>1. ASSUME NEW w \in Workers, ConcCommand(w) PROVE TypeInv'
  BY <1>1 DEF ConcCommand
<1>2. CASE SeqCommand
  BY <1>2 DEF SeqCommand
<1>3. ASSUME NEW k \in DelKeys, Del(k) PROVE TypeInv'
  BY <1>3, DelAssumption DEF Del
<1>enter. CASE DelEnter
  BY <1>enter DEF DelEnter
<1>open. ASSUME NEW t \in Threads, OpenKey(t) PROVE TypeInv'
  <2>1. Key(t) \in Keys
    BY <1>open, RequestTypes DEF OpenKey
  <2>2. Found(t) \subseteq Objects \cup {None, Foreign}
    BY <2>1 DEF Found
  <2>3. QED
    BY <1>open, <2>2 DEF OpenKey
<1>4. ASSUME NEW t \in Threads, BadArguments(t) PROVE TypeInv'
  BY <1>4 DEF BadArguments
<1>5. ASSUME NEW t \in Threads, Lock(t) PROVE TypeInv'
  BY <1>5 DEF Lock
<1>6. ASSUME NEW t \in Threads, Lookup(t) PROVE TypeInv'
  BY <1>6 DEF Lookup
<1>7. ASSUME NEW t \in Threads, CreateExists(t) PROVE TypeInv'
  BY <1>7 DEF CreateExists
<1>8. ASSUME NEW t \in Threads, CreateObject(t) PROVE TypeInv'
  BY <1>8 DEF CreateObject
<1>9. ASSUME NEW t \in Threads, Link(t) PROVE TypeInv'
  <2>1. Key(t) \in Keys
    BY <1>9, RequestTypes DEF Link
  <2>2. QED
    BY <1>9, <2>1 DEF Link
<1>10. ASSUME NEW t \in Threads, OpenFails(t) PROVE TypeInv'
  BY <1>10 DEF OpenFails
<1>11. ASSUME NEW t \in Threads, OpenObject(t) PROVE TypeInv'
  BY <1>11 DEF OpenObject
<1>12. ASSUME NEW t \in Threads, Destroy(t) PROVE TypeInv'
  BY <1>12 DEF Destroy
<1>13. ASSUME NEW t \in Threads, Unlink(t) PROVE TypeInv'
  BY <1>13 DEF Unlink
<1>14. ASSUME NEW t \in Threads, Apply(t) PROVE TypeInv'
  <2>1. Val(t) \in Values
    BY <1>14, RequestTypes DEF Apply
  <2>2. obj[t] \in Objects /\ Op(t) \in {"insert", "remove", "contains"}
    BY <1>14 DEF Apply
  <2>3. Changed(t) \in SUBSET Values
    BY <2>1, <2>2 DEF Changed
  <2>4. Result(t) \in Answers \ {"none"}
    BY DEF Result
  <2>5. content' \in [Objects -> SUBSET Values]
    BY <1>14, <2>3 DEF Apply
  <2>6. out'[t] \in Answers \ {"none"} /\ out' \in [Threads -> Answers]
    BY <1>14, <2>4 DEF Apply
  <2>7. QED
    BY <1>14, <2>5, <2>6 DEF Apply
<1>15. ASSUME NEW t \in Threads, Finish(t) PROVE TypeInv'
  BY <1>15 DEF Finish
<1>16. CASE UNCHANGED vars
  BY <1>16 DEF vars
<1>17. QED
  BY <1>1, <1>2, <1>3, <1>4, <1>5, <1>6, <1>7, <1>8, <1>9, <1>10, <1>11, <1>12,
     <1>13, <1>14, <1>15, <1>16, <1>enter, <1>open DEF Next, Execute, Create, Delete

\* Types; a command that returns has exactly one answer, whatever it found and
\* whatever the others did, the unlocked searches included.
THEOREM TypeOKTheorem == Spec => []TypeOK
<1>1. TypeInv => TypeOK
  BY DEF TypeInv, Types, Hands, Stages, TypeOK
<1>2. QED
  BY TypeInvInit, TypeInvStep, <1>1, PTL DEF Spec

-----------------------------------------------------------------------------
(***************************************************************************)
(* The global lock.                                                        *)
(***************************************************************************)

\* Workers are sent only the commands that take the lock.
LifeCycleOnly == \A r \in ConcRequests : r.op \in {"create", "delete"}

\* Between the lock and the reply.
Inside(t) == pc[t] \in {"open", "check", "link", "destroy", "unlink", "apply"}

Locks ==
    /\ gil = MainThread <=> pc[MainThread] # "idle"
    /\ \A w \in Workers : Inside(w) => gil = w
    /\ \A w \in Workers : gil = w => Inside(w) \/ pc[w] = "finish"

LockInv == TypeInv /\ Locks

\* A thread inside holds the lock, and so does the main thread while it
\* executes a command.
LEMMA InsideHolds ==
    ASSUME LockInv, NEW t \in Threads, Inside(t)
    PROVE  gil = t
BY DEF LockInv, Locks, Inside, Threads

\* Whoever is in the keyspace holds it, Redis's DEL included.
LEMMA InKeyspaceHolds ==
    ASSUME LockInv, NEW t \in Threads, InKeyspace(t)
    PROVE  gil = t
<1>1. CASE pc[t] = "del"
  BY <1>1 DEF LockInv, Locks, TypeInv, Hands
<1>2. CASE Inside(t)
  BY <1>2, InsideHolds
<1>3. QED
  BY <1>1, <1>2 DEF InKeyspace, Inside

LEMMA LockInvInit == Init => LockInv
BY TypeInvInit, DistinctAssumption DEF Init, LockInv, Locks, Inside, Threads

\* Locks survive every step, if no worker is sent a search.
LEMMA LockInvStep ==
    ASSUME LifeCycleOnly
    PROVE  LockInv /\ [Next]_vars => LockInv'
<1> SUFFICES ASSUME LockInv, [Next]_vars PROVE Locks'
  BY TypeInvStep DEF LockInv
<1> USE ThreadsAssumption, DistinctAssumption
    DEF LockInv, TypeInv, Types, Hands, Stages, Locks, Inside, Goto, Op, Decide,
        objectVars, Threads
<1>1. ASSUME NEW w \in Workers, ConcCommand(w) PROVE Locks'
  BY <1>1 DEF ConcCommand
<1>2. CASE SeqCommand
  BY <1>2 DEF SeqCommand
<1>3. ASSUME NEW k \in DelKeys, Del(k) PROVE Locks'
  BY <1>3 DEF Del
<1>enter. CASE DelEnter
  BY <1>enter DEF DelEnter
<1>open. ASSUME NEW t \in Threads, OpenKey(t) PROVE Locks'
  BY <1>open DEF OpenKey
<1>4. ASSUME NEW t \in Threads, BadArguments(t) PROVE Locks'
  BY <1>4 DEF BadArguments
<1>5. ASSUME NEW t \in Threads, Lock(t) PROVE Locks'
  BY <1>5 DEF Lock
<1>6. ASSUME NEW t \in Threads, Lookup(t) PROVE Locks'
  <2>1. t = MainThread
    BY <1>6, RequestTypes DEF Lookup, LifeCycleOnly
  <2>2. QED
    BY <1>6, <2>1 DEF Lookup
<1>7. ASSUME NEW t \in Threads, CreateExists(t) PROVE Locks'
  BY <1>7 DEF CreateExists
<1>8. ASSUME NEW t \in Threads, CreateObject(t) PROVE Locks'
  BY <1>8 DEF CreateObject
<1>9. ASSUME NEW t \in Threads, Link(t) PROVE Locks'
  BY <1>9 DEF Link
<1>10. ASSUME NEW t \in Threads, OpenFails(t) PROVE Locks'
  BY <1>10 DEF OpenFails
<1>11. ASSUME NEW t \in Threads, OpenObject(t) PROVE Locks'
  BY <1>11 DEF OpenObject
<1>12. ASSUME NEW t \in Threads, Destroy(t) PROVE Locks'
  BY <1>12 DEF Destroy
<1>13. ASSUME NEW t \in Threads, Unlink(t) PROVE Locks'
  BY <1>13 DEF Unlink
<1>14. ASSUME NEW t \in Threads, Apply(t) PROVE Locks'
  BY <1>14 DEF Apply
<1>15. ASSUME NEW t \in Threads, Finish(t) PROVE Locks'
  BY <1>15 DEF Finish
<1>16. CASE UNCHANGED vars
  BY <1>16 DEF vars
<1>17. QED
  BY <1>1, <1>2, <1>3, <1>4, <1>5, <1>6, <1>7, <1>8, <1>9, <1>10, <1>11, <1>12,
     <1>13, <1>14, <1>15, <1>16, <1>enter, <1>open DEF Next, Execute, Create, Delete

\* With the lock that create and delete take, and the one the main thread
\* always has, no two threads are inside the keyspace together.
THEOREM KeyspaceExclusiveTheorem ==
    ASSUME LifeCycleOnly
    PROVE  Spec => []KeyspaceExclusive
<1>1. LockInv => KeyspaceExclusive
  BY InKeyspaceHolds DEF KeyspaceExclusive
<1>2. QED
  BY LockInvInit, LockInvStep, <1>1, PTL DEF Spec

-----------------------------------------------------------------------------
(***************************************************************************)
(* Who owns the skip lists.                                                *)
(***************************************************************************)

\* What thread t knows of the keyspace where it stands.
Knows(t) ==
    /\ pc[t] = "check" => obj[t] = dict[Key(t)]
    /\ pc[t] = "link" => /\ life[obj[t]] = "live"
                         /\ dict[Key(t)] = None
                         /\ \A k \in Keys : dict[k] # obj[t]
    /\ pc[t] \in {"destroy", "apply"} => dict[Key(t)] = obj[t] /\ life[obj[t]] = "live"
    /\ pc[t] = "unlink" => dict[Key(t)] = obj[t] /\ life[obj[t]] = "freed"

OwnInv == KeysHoldLive /\ ObjectsOwned /\ \A t \in Threads : Knows(t)

\* A search with the lock held finds what is there.
LEMMA FoundExact ==
    ASSUME LockInv, NEW t \in Threads, Inside(t)
    PROVE  Found(t) = {dict[Key(t)]}
<1>1. \A u \in Threads : u # t => ~InKeyspace(u)
  BY InsideHolds, InKeyspaceHolds
<1>2. QED
  BY <1>1 DEF Found

\* And what it opened is what it then sees.
LEMMA SeenExact ==
    ASSUME OwnInv, NEW t \in Threads, pc[t] = "check"
    PROVE  Seen(t) = {dict[Key(t)]}
BY DEF OwnInv, Knows, Seen

\* A thread inside is there alone.
LEMMA Alone ==
    ASSUME LockInv, NEW t \in Threads, gil = t \/ gil = None, NEW u \in Threads, u # t
    PROVE  ~Inside(u)
BY InsideHolds, DistinctAssumption DEF Threads

\* A step of a thread that neither owns nor obtains an object, and leaves the
\* keyspace as it is, changes nothing.
LEMMA QuietStep ==
    ASSUME LockInv, LockInv', OwnInv, NEW t \in Threads,
           UNCHANGED <<dict, life, leaked>>,
           pc[t] \notin {"link", "unlink"},
           pc'[t] \notin {"check", "link", "destroy", "unlink", "apply"},
           \A u \in Threads \ {t} : pc'[u] = pc[u] /\ req'[u] = req[u] /\ obj'[u] = obj[u]
    PROVE  OwnInv'
<1>1. \A u \in Threads : Knows(u)'
  BY DEF OwnInv, Knows, Key
<1>2. ObjectsOwned'
  BY DEF OwnInv, ObjectsOwned
<1>3. KeysHoldLive'
  <2>1. ASSUME NEW k \in Keys, dict[k] \in Objects, life[dict[k]] # "live"
        PROVE  \E u \in Threads : gil' = u /\ pc'[u] = "unlink" /\ Key(u)' = k
    <3>1. PICK u \in Threads : pc[u] = "unlink" /\ Key(u) = k
      BY <2>1 DEF OwnInv, KeysHoldLive
    <3>2. u # t /\ pc'[u] = "unlink" /\ Key(u)' = k
      BY <3>1 DEF Key
    <3>3. gil' = u
      BY <3>2 DEF LockInv, Locks, Inside, Threads
    <3>4. QED
      BY <3>2, <3>3
  <2>2. QED
    BY <2>1 DEF OwnInv, KeysHoldLive
<1>4. QED
  BY <1>1, <1>2, <1>3 DEF OwnInv

LEMMA OwnInvInit == Init => OwnInv
BY DistinctAssumption DEF Init, OwnInv, KeysHoldLive, ObjectsOwned, Knows

LEMMA DelOwns ==
    ASSUME LockInv, OwnInv, NEW k \in DelKeys, Del(k)
    PROVE  OwnInv'
<1> USE DEF Del, Goto, LockInv, TypeInv, Types
<1>1. \A u \in Threads : ~Inside(u) /\ ~Inside(u)'
  <2>1. gil = MainThread /\ ~Inside(MainThread)
    BY DEF Locks, Inside, Threads
  <2>2. \A u \in Threads : ~Inside(u)
    BY <2>1, InsideHolds
  <2>3. QED
    BY <2>2 DEF Inside, Threads
<1>2. \A u \in Threads : Knows(u)'
  BY <1>1 DEF Knows, Inside
<1>3. \A l \in Keys : dict'[l] \in Objects => dict'[l] = dict[l] /\ l # k
  BY DelAssumption, DistinctAssumption
<1>4. KeysHoldLive'
  BY <1>1, <1>3, DelAssumption, DistinctAssumption DEF OwnInv, KeysHoldLive, Inside
<1>5. ObjectsOwned'
  <2>1. ASSUME NEW o \in Objects, life[o] = "live"
        PROVE  o \in leaked' \/ \E l \in Keys : dict'[l] = o
    <3>1. o \in leaked \/ \E l \in Keys : dict[l] = o
      BY <2>1, <1>1 DEF OwnInv, ObjectsOwned, Inside
    <3>2. QED
      BY <3>1
  <2>2. QED
    BY <2>1 DEF ObjectsOwned
<1>6. QED
  BY <1>2, <1>4, <1>5 DEF OwnInv

\* create: the new object is at no key, because every object at a key is live
\* or about to be removed from there by the one thread inside.
LEMMA CreateObjectOwns ==
    ASSUME LockInv, LockInv', OwnInv, NEW t \in Threads, CreateObject(t)
    PROVE  OwnInv'
<1> USE DEF CreateObject, Goto, LockInv, TypeInv, Types
<1>1. Inside(t) /\ gil = t
  BY InsideHolds DEF Inside
<1>2. PICK o \in Objects : /\ life[o] = "unused"
                           /\ life' = [life EXCEPT ![o] = "live"]
                           /\ obj' = [obj EXCEPT ![t] = o]
  OBVIOUS
<1>3. \A u \in Threads : u # t => ~Inside(u)
  BY <1>1, Alone
<1>4. \A k \in Keys : dict[k] \in Objects => life[dict[k]] = "live"
  BY <1>1, <1>3 DEF OwnInv, KeysHoldLive, Inside
<1>5. \A k \in Keys : dict[k] # o
  BY <1>2, <1>4
<1>6. dict[Key(t)] = None
  BY SeenExact
<1>7. Knows(t)'
  BY <1>2, <1>5, <1>6 DEF Knows, Key
<1>8. \A u \in Threads : Knows(u)'
  BY <1>3, <1>7 DEF Knows, Inside
<1>9. KeysHoldLive'
  BY <1>2, <1>4, <1>5 DEF OwnInv, KeysHoldLive
<1>10. ObjectsOwned'
  BY <1>2, <1>3 DEF OwnInv, ObjectsOwned, Inside
<1>11. QED
  BY <1>8, <1>9, <1>10 DEF OwnInv

LEMMA LinkOwns ==
    ASSUME LockInv, LockInv', OwnInv, NEW t \in Threads, Link(t)
    PROVE  OwnInv'
<1> USE DEF Link, Goto, LockInv, TypeInv, Types, objectVars
<1>1. Inside(t) /\ gil = t
  BY InsideHolds DEF Inside
<1>2. \A u \in Threads : u # t => ~Inside(u)
  BY <1>1, Alone
<1>3. /\ obj[t] \in Objects /\ Key(t) \in Keys
      /\ life[obj[t]] = "live" /\ dict[Key(t)] = None
      /\ \A k \in Keys : dict[k] # obj[t]
  BY RequestTypes DEF OwnInv, Knows, Hands, Key
<1>4. \A u \in Threads : Knows(u)'
  BY <1>2 DEF Knows, Inside
<1>5. \A k \in Keys : dict'[k] = IF k = Key(t) THEN obj[t] ELSE dict[k]
  BY <1>3
<1>6. KeysHoldLive'
  BY <1>1, <1>2, <1>3, <1>5 DEF OwnInv, KeysHoldLive, Inside
<1>7. ObjectsOwned'
  <2>1. ASSUME NEW o \in Objects, life[o] = "live"
        PROVE  o \in leaked \/ \E k \in Keys : dict'[k] = o
    <3>1. o \in leaked \/ (\E k \in Keys : dict[k] = o) \/ o = obj[t]
      BY <2>1, <1>2 DEF OwnInv, ObjectsOwned, Inside
    <3>2. QED
      BY <3>1, <1>3, <1>5, DistinctAssumption
  <2>2. QED
    BY <2>1 DEF ObjectsOwned
<1>8. QED
  BY <1>4, <1>6, <1>7 DEF OwnInv

LEMMA OpenKeyOwns ==
    ASSUME LockInv, LockInv', OwnInv, NEW t \in Threads, OpenKey(t)
    PROVE  OwnInv'
<1> USE DEF OpenKey, Goto, LockInv, TypeInv, Types, objectVars
<1>1. Inside(t) /\ gil = t
  BY InsideHolds DEF Inside
<1>2. obj' = [obj EXCEPT ![t] = dict[Key(t)]]
  <2>1. Found(t) = {dict[Key(t)]}
    BY <1>1, FoundExact
  <2>2. QED
    BY <2>1
<1>3. \A u \in Threads : Knows(u)'
  BY <1>2 DEF OwnInv, Knows, Key
<1>4. KeysHoldLive'
  BY <1>1, Alone DEF OwnInv, KeysHoldLive, Inside
<1>5. ObjectsOwned'
  BY DEF OwnInv, ObjectsOwned
<1>6. QED
  BY <1>3, <1>4, <1>5 DEF OwnInv

LEMMA OpenObjectOwns ==
    ASSUME LockInv, LockInv', OwnInv, NEW t \in Threads, OpenObject(t)
    PROVE  OwnInv'
<1> USE DEF OpenObject, Goto, LockInv, TypeInv, Types, objectVars
<1>1. Inside(t) /\ gil = t
  BY InsideHolds DEF Inside
<1>2. \A u \in Threads : u # t => ~Inside(u)
  BY <1>1, Alone
<1>3. /\ dict[Key(t)] \in Objects
      /\ obj' = [obj EXCEPT ![t] = dict[Key(t)]]
  <2>1. PICK o \in Seen(t) \cap Objects : obj' = [obj EXCEPT ![t] = o]
    OBVIOUS
  <2>2. o = dict[Key(t)]
    BY <2>1, SeenExact
  <2>3. QED
    BY <2>1, <2>2
<1>4. Key(t) \in Keys
  BY RequestTypes DEF Hands, Key
<1>5. \A k \in Keys : dict[k] \in Objects => life[dict[k]] = "live"
  BY <1>1, <1>2 DEF OwnInv, KeysHoldLive, Inside
<1>6. Knows(t)'
  BY <1>3, <1>4, <1>5 DEF Knows, Key
<1>7. \A u \in Threads : Knows(u)'
  BY <1>2, <1>6 DEF Knows, Inside
<1>8. KeysHoldLive'
  BY <1>5 DEF OwnInv, KeysHoldLive
<1>9. ObjectsOwned'
  BY <1>2 DEF OwnInv, ObjectsOwned, Inside
<1>10. QED
  BY <1>7, <1>8, <1>9 DEF OwnInv

\* delete: the object is freed while its key still leads to it, and the lock
\* keeps everyone else away until the key is gone.
LEMMA DestroyOwns ==
    ASSUME LockInv, LockInv', OwnInv, NEW t \in Threads, Destroy(t)
    PROVE  OwnInv'
<1> USE DEF Destroy, Goto, LockInv, TypeInv, Types
<1>1. Inside(t) /\ gil = t
  BY InsideHolds DEF Inside
<1>2. \A u \in Threads : u # t => ~Inside(u)
  BY <1>1, Alone
<1>3. /\ obj[t] \in Objects /\ Key(t) \in Keys
      /\ dict[Key(t)] = obj[t]
  BY RequestTypes DEF OwnInv, Knows, Hands, Key
<1>4. Knows(t)'
  BY <1>3 DEF Knows, Key
<1>5. \A u \in Threads : Knows(u)'
  BY <1>2, <1>4 DEF Knows, Inside
<1>6. KeysHoldLive'
  <2>1. ASSUME NEW k \in Keys, k # Key(t), dict[k] \in Objects
        PROVE  life'[dict[k]] = "live"
    BY <2>1, <1>1, <1>2, <1>3 DEF OwnInv, KeysHoldLive, Inside
  <2>2. gil' = t /\ pc'[t] = "unlink" /\ Key(t)' = Key(t)
    BY <1>1 DEF Key
  <2>3. QED
    BY <2>1, <2>2 DEF OwnInv, KeysHoldLive
<1>7. ObjectsOwned'
  BY <1>2, <1>3 DEF OwnInv, ObjectsOwned, Inside
<1>8. QED
  BY <1>5, <1>6, <1>7 DEF OwnInv

LEMMA UnlinkOwns ==
    ASSUME LockInv, LockInv', OwnInv, NEW t \in Threads, Unlink(t)
    PROVE  OwnInv'
<1> USE DEF Unlink, Goto, LockInv, TypeInv, Types, objectVars
<1>1. Inside(t) /\ gil = t
  BY InsideHolds DEF Inside
<1>2. \A u \in Threads : u # t => ~Inside(u)
  BY <1>1, Alone
<1>3. /\ obj[t] \in Objects /\ Key(t) \in Keys
      /\ dict[Key(t)] = obj[t] /\ life[obj[t]] = "freed"
  BY RequestTypes DEF OwnInv, Knows, Hands, Key
<1>4. \A u \in Threads : Knows(u)'
  BY <1>2 DEF Knows, Inside
<1>5. \A k \in Keys : dict'[k] = IF k = Key(t) THEN None ELSE dict[k]
  OBVIOUS
<1>6. KeysHoldLive'
  BY <1>1, <1>2, <1>5, DistinctAssumption DEF OwnInv, KeysHoldLive, Inside
<1>7. ObjectsOwned'
  <2>1. ASSUME NEW o \in Objects, life[o] = "live"
        PROVE  o \in leaked \/ \E k \in Keys : dict'[k] = o
    <3>1. o \in leaked \/ \E k \in Keys : dict[k] = o
      BY <2>1, <1>2 DEF OwnInv, ObjectsOwned, Inside
    <3>2. QED
      BY <2>1, <3>1, <1>3, <1>5
  <2>2. QED
    BY <2>1 DEF ObjectsOwned
<1>8. QED
  BY <1>4, <1>6, <1>7 DEF OwnInv

\* Ownership survives every step, if no worker is sent a search.
LEMMA OwnInvStep ==
    ASSUME LifeCycleOnly
    PROVE  LockInv /\ OwnInv /\ [Next]_vars => OwnInv'
<1> SUFFICES ASSUME LockInv, OwnInv, [Next]_vars PROVE OwnInv'
  OBVIOUS
<1> LockInv'
  BY LockInvStep
<1>1. ASSUME NEW w \in Workers, ConcCommand(w) PROVE OwnInv'
  BY <1>1, QuietStep DEF ConcCommand, Goto, LockInv, TypeInv, Types, objectVars, Threads
<1>2. CASE SeqCommand
  BY <1>2, QuietStep DEF SeqCommand, Goto, LockInv, TypeInv, Types, objectVars, Threads
<1>3. ASSUME NEW k \in DelKeys, Del(k) PROVE OwnInv'
  BY <1>3, DelOwns
<1>enter. CASE DelEnter
  BY <1>enter, QuietStep DEF DelEnter, Goto, LockInv, TypeInv, Types, objectVars, Threads
<1>open. ASSUME NEW t \in Threads, OpenKey(t) PROVE OwnInv'
  BY <1>open, OpenKeyOwns
<1>4. ASSUME NEW t \in Threads, BadArguments(t) PROVE OwnInv'
  BY <1>4, QuietStep DEF BadArguments, Goto, LockInv, TypeInv, Types, objectVars
<1>5. ASSUME NEW t \in Threads, Lock(t) PROVE OwnInv'
  BY <1>5, QuietStep DEF Lock, Goto, LockInv, TypeInv, Types, objectVars
<1>6. ASSUME NEW t \in Threads, Lookup(t) PROVE OwnInv'
  BY <1>6, QuietStep DEF Lookup, Goto, LockInv, TypeInv, Types, objectVars
<1>7. ASSUME NEW t \in Threads, CreateExists(t) PROVE OwnInv'
  BY <1>7, QuietStep DEF CreateExists, Goto, LockInv, TypeInv, Types, objectVars
<1>8. ASSUME NEW t \in Threads, CreateObject(t) PROVE OwnInv'
  BY <1>8, CreateObjectOwns
<1>9. ASSUME NEW t \in Threads, Link(t) PROVE OwnInv'
  BY <1>9, LinkOwns
<1>10. ASSUME NEW t \in Threads, OpenFails(t) PROVE OwnInv'
  BY <1>10, QuietStep DEF OpenFails, Goto, LockInv, TypeInv, Types, objectVars
<1>11. ASSUME NEW t \in Threads, OpenObject(t) PROVE OwnInv'
  BY <1>11, OpenObjectOwns
<1>12. ASSUME NEW t \in Threads, Destroy(t) PROVE OwnInv'
  BY <1>12, DestroyOwns
<1>13. ASSUME NEW t \in Threads, Unlink(t) PROVE OwnInv'
  BY <1>13, UnlinkOwns
<1>14. ASSUME NEW t \in Threads, Apply(t) PROVE OwnInv'
  BY <1>14, QuietStep DEF Apply, Goto, LockInv, TypeInv, Types
<1>15. ASSUME NEW t \in Threads, Finish(t) PROVE OwnInv'
  BY <1>15, QuietStep DEF Finish, Goto, LockInv, TypeInv, Types, objectVars
<1>16. CASE UNCHANGED vars
  BY <1>16 DEF vars, OwnInv, KeysHoldLive, ObjectsOwned, Knows, Key
<1>17. QED
  BY <1>1, <1>2, <1>3, <1>4, <1>5, <1>6, <1>7, <1>8, <1>9, <1>10, <1>11, <1>12,
     <1>13, <1>14, <1>15, <1>16, <1>enter, <1>open DEF Next, Execute, Create, Delete

OwnedInv == LockInv /\ OwnInv

LEMMA OwnedInvariant ==
    ASSUME LifeCycleOnly
    PROVE  Spec => []OwnedInv
<1>1. Init => OwnedInv
  BY LockInvInit, OwnInvInit DEF OwnedInv
<1>2. OwnedInv /\ [Next]_vars => OwnedInv'
  BY LockInvStep, OwnInvStep DEF OwnedInv
<1>3. QED
  BY <1>1, <1>2, PTL DEF Spec

\* A key holds a skip list that is alive, except inside the delete that has
\* just destroyed it and holds the lock; no skip list is at two keys.
THEOREM KeysHoldLiveTheorem ==
    ASSUME LifeCycleOnly
    PROVE  Spec => []KeysHoldLive
<1>1. OwnedInv => KeysHoldLive
  BY DEF OwnedInv, OwnInv
<1>2. QED
  BY OwnedInvariant, <1>1, PTL

\* No skip list is lost by any interleaving of create and delete: it is at a
\* key, in the hands of its create, or was dropped by DEL.
THEOREM ObjectsOwnedTheorem ==
    ASSUME LifeCycleOnly
    PROVE  Spec => []ObjectsOwned
<1>1. OwnedInv => ObjectsOwned
  BY DEF OwnedInv, OwnInv
<1>2. QED
  BY OwnedInvariant, <1>1, PTL

\* No thread destroys or works on a skip list that another has destroyed.
THEOREM NoUseAfterFreeTheorem ==
    ASSUME LifeCycleOnly
    PROVE  Spec => []NoUseAfterFree
<1>1. OwnedInv => NoUseAfterFree
  BY DEF OwnedInv, OwnInv, Knows, NoUseAfterFree
<1>2. QED
  BY OwnedInvariant, <1>1, PTL

\* Nobody frees the value behind a key that another thread has opened: the lock
\* is held from OpenKey to the last read.
THEOREM HandlesHeldTheorem ==
    ASSUME LifeCycleOnly
    PROVE  Spec => []HandlesHeld
<1>1. OwnedInv => HandlesHeld
  BY DEF OwnedInv, OwnInv, Knows, HandlesHeld
<1>2. QED
  BY OwnedInvariant, <1>1, PTL

-----------------------------------------------------------------------------
(***************************************************************************)
(* The commands implement KeyedSets where the code takes the global lock   *)
(* (LifeCycleOnly): there the commands of the workers, those of the main   *)
(* thread and DEL act on sets of integers, one at a time.                  *)
(***************************************************************************)

\* What the mapping relies on besides who owns the skip lists: a thread at rest
\* has no command, a skip list is empty until it is at a key, and DEL dropped
\* nothing that a key still leads to.
Kept ==
    /\ \A t \in Threads : pc[t] \in {"idle", "del"} => req[t] = None
    /\ \A o \in Objects : life[o] = "unused" => content[o] = {} /\ o \notin leaked
    /\ \A t \in Threads : pc[t] = "link" => content[obj[t]] = {} /\ obj[t] \notin leaked
    /\ \A o \in leaked : \A k \in Keys : dict[k] # o

KeptInv == OwnedInv /\ Kept

-----------------------------------------------------------------------------
LEMMA KeptInit == Init => Kept
BY DistinctAssumption DEF Init, Kept

\* A step that leaves the keyspace, the objects and what other threads do.
LEMMA KeptQuiet ==
    ASSUME OwnedInv, Kept, NEW t \in Threads,
           UNCHANGED <<dict, life, leaked, content>>,
           pc'[t] \in {"idle", "del"} => req'[t] = None,
           pc'[t] # "link",
           \A u \in Threads \ {t} : pc'[u] = pc[u] /\ req'[u] = req[u] /\ obj'[u] = obj[u]
    PROVE  Kept'
BY DEF Kept

LEMMA KeptStep ==
    ASSUME LifeCycleOnly
    PROVE  OwnedInv /\ Kept /\ [Next]_vars => Kept'
<1> SUFFICES ASSUME OwnedInv, Kept, [Next]_vars PROVE Kept'
  OBVIOUS
<1> USE DEF OwnedInv, LockInv, TypeInv, Types, Goto, objectVars
<1>1. ASSUME NEW w \in Workers, ConcCommand(w) PROVE Kept'
  BY <1>1, KeptQuiet DEF ConcCommand, Threads
<1>2. CASE SeqCommand
  BY <1>2, KeptQuiet DEF SeqCommand, Threads
<1>3. ASSUME NEW k \in DelKeys, Del(k) PROVE Kept'
  <2>1. \A u \in Threads : ~Inside(u)
    <3>1. gil = MainThread /\ ~Inside(MainThread)
      BY <1>3 DEF Del, Locks, Inside, Threads
    <3>2. QED
      BY <3>1, InsideHolds
  <2>2. dict' = [dict EXCEPT ![k] = None] /\ k \in Keys
    BY <1>3, DelAssumption DEF Del
  <2>3. ASSUME NEW o \in leaked', NEW l \in Keys PROVE dict'[l] # o
    BY <1>3, <2>2, <2>3, DistinctAssumption DEF Del, Kept, OwnInv, KeysHoldLive
  <2>4. ASSUME NEW o \in Objects, life[o] = "unused" PROVE content[o] = {} /\ o \notin leaked'
    <3>1. dict[k] # o
      BY <2>1, <2>2, <2>4 DEF OwnInv, KeysHoldLive, Inside
    <3>2. QED
      BY <1>3, <2>4, <3>1 DEF Del, Kept
  <2>5. \A t \in Threads : pc'[t] # "link" /\ (pc'[t] \in {"idle", "del"} => req'[t] = None)
    BY <1>3, <2>1 DEF Del, Inside, Kept
  <2>6. QED
    BY <1>3, <2>3, <2>4, <2>5 DEF Del, Kept
<1>enter. CASE DelEnter
  BY <1>enter, KeptQuiet DEF DelEnter, Kept, Threads
<1>4. ASSUME NEW t \in Threads,
             \/ BadArguments(t) \/ Lock(t) \/ Lookup(t) \/ OpenKey(t)
             \/ CreateExists(t) \/ OpenFails(t)
      PROVE  Kept'
  BY <1>4, KeptQuiet DEF BadArguments, Lock, Lookup, OpenKey, CreateExists, OpenFails
<1>5. ASSUME NEW t \in Threads, OpenObject(t) PROVE Kept'
  BY <1>5, KeptQuiet DEF OpenObject
<1>6. ASSUME NEW t \in Threads, CreateObject(t) PROVE Kept'
  <2>1. PICK o \in Objects : /\ life[o] = "unused"
                             /\ life' = [life EXCEPT ![o] = "live"]
                             /\ content' = [content EXCEPT ![o] = {}]
                             /\ obj' = [obj EXCEPT ![t] = o]
    BY <1>6 DEF CreateObject
  <2>2. /\ UNCHANGED <<dict, leaked, req>>
        /\ pc' = [pc EXCEPT ![t] = "link"]
    BY <1>6 DEF CreateObject
  <2>3. content[o] = {} /\ o \notin leaked
    BY <2>1 DEF Kept
  <2>4. QED
    BY <2>1, <2>2, <2>3 DEF Kept
<1>7. ASSUME NEW t \in Threads, Link(t) PROVE Kept'
  <2>1. /\ UNCHANGED <<content, leaked, life, req, obj>>
        /\ pc' = [pc EXCEPT ![t] = "finish"] /\ obj[t] \notin leaked
        /\ dict' = [dict EXCEPT ![Key(t)] = obj[t]]
    BY <1>7 DEF Link, Kept
  <2>2. \A o \in leaked : \A k \in Keys : dict'[k] # o
    BY <2>1 DEF Kept
  <2>3. QED
    BY <2>1, <2>2 DEF Kept
<1>8. ASSUME NEW t \in Threads, Destroy(t) PROVE Kept'
  BY <1>8 DEF Destroy, Kept
<1>9. ASSUME NEW t \in Threads, Unlink(t) PROVE Kept'
  <2>1. /\ UNCHANGED <<content, leaked, life, req, obj>>
        /\ pc' = [pc EXCEPT ![t] = "finish"]
        /\ dict' = [dict EXCEPT ![Key(t)] = None]
    BY <1>9 DEF Unlink
  <2>2. \A o \in leaked : \A k \in Keys : dict'[k] # o
    BY <2>1, DistinctAssumption DEF Kept
  <2>3. QED
    BY <2>1, <2>2 DEF Kept
<1>10. ASSUME NEW t \in Threads, Apply(t) PROVE Kept'
  <2>1. /\ UNCHANGED <<dict, leaked, life, req, obj>>
        /\ pc' = [pc EXCEPT ![t] = "finish"]
        /\ content' = [content EXCEPT ![obj[t]] = Changed(t)]
        /\ life[obj[t]] = "live" /\ Inside(t)
    BY <1>10 DEF Apply, OwnInv, Knows, Inside
  <2>2. \A u \in Threads : pc'[u] # "link"
    BY <2>1, InsideHolds DEF Inside
  <2>3. QED
    BY <2>1, <2>2 DEF Kept
<1>11. ASSUME NEW t \in Threads, Finish(t) PROVE Kept'
  BY <1>11, KeptQuiet DEF Finish
<1>12. CASE UNCHANGED vars
  BY <1>12 DEF vars, Kept
<1>13. QED
  BY <1>1, <1>2, <1>3, <1>4, <1>5, <1>6, <1>7, <1>8, <1>9, <1>10, <1>11, <1>12,
     <1>enter DEF Next, Execute, Create, Delete

LEMMA KeptInvariant ==
    ASSUME LifeCycleOnly
    PROVE  Spec => []KeptInv
<1>1. OwnedInv /\ Kept <=> KeptInv
  BY DEF KeptInv
<1>2. QED
  BY OwnedInvariant, KeptInit, KeptStep, <1>1, PTL DEF Spec

-----------------------------------------------------------------------------
(* The mapping.                                                            *)

\* What the mapping needs to know: a command sees what is there, and a skip
\* list it works on is at its key.
ViewInv ==
    /\ TypeInv
    /\ \A t \in Threads : Knows(t)
    /\ \A k, l \in Keys : k # l /\ dict[k] \in Objects => dict[k] # dict[l]
    /\ Kept

LEMMA KeptView == KeptInv => ViewInv
BY DEF KeptInv, OwnedInv, LockInv, OwnInv, KeysHoldLive, ViewInv

LEMMA KeptViewNext == (KeptInv => ViewInv)'
BY KeptView, PTL

\* A step inside a command, before it takes effect, does not show.
LEMMA Stutters ==
    ASSUME ViewInv, ViewInv', UNCHANGED <<dict, content, req, out>>
    PROVE  UNCHANGED Abstract!kvars
<1>1. Answered' = Answered
  BY DEF Answered
<1>2. QED
  BY <1>1 DEF KeySets, Abstract!kvars

\* What thread t answers when it acts on what its key holds.
LEMMA ActsOnce ==
    ASSUME ViewInv, ViewInv', NEW t \in Threads,
           req[t] # None, Key(t) \in Keys, pc[t] # "finish", UNCHANGED req,
           NEW a \in Answers \ {"none"}, out' = [out EXCEPT ![t] = a],
           a = Abstract!Answer(req[t], KeySets[Key(t)]),
           KeySets' = [KeySets EXCEPT ![Key(t)] = Abstract!After(req[t], KeySets[Key(t)])]
    PROVE  Abstract!Act(t)
<1>1. out \in [Threads -> Answers] /\ out[t] = "none"
  BY DEF ViewInv, TypeInv, Types, Hands
<1>2. Answered[t] = None
  BY <1>1 DEF Answered
<1>3. Answered' = [Answered EXCEPT ![t] = a]
  BY <1>1 DEF Answered
<1>4. QED
  BY <1>2, <1>3 DEF Abstract!Act, Key

AllRequests == ConcRequests \cup SeqRequests

\* What a thread that is executing a command has.
LEMMA InHand ==
    ASSUME ViewInv, NEW t \in Threads, pc[t] \notin {"idle", "del"}
    PROVE  /\ req[t] \in AllRequests /\ req[t] # None
           /\ Key(t) \in Keys /\ Val(t) \in Values \cup {Malformed}
           /\ pc[t] \notin {"args", "finish"} => Val(t) # Malformed
<1>1. req[t] \in AllRequests
  BY DEF ViewInv, TypeInv, Hands, AllRequests
<1>2. pc[t] \notin {"args", "finish"} => Val(t) # Malformed
  BY DEF ViewInv, TypeInv, Hands
<1>3. QED
  BY <1>1, <1>2, RequestTypes DEF Key, Val, AllRequests

\* A thread inside finds exactly what is at its key: no value, a value of
\* another type or the set of the skip list there.
LEMMA FindsSet ==
    ASSUME ViewInv, NEW t \in Threads, Inside(t)
    PROVE  /\ pc[t] = "check" => Seen(t) = {dict[Key(t)]}
           /\ KeySets[Key(t)] = IF dict[Key(t)] \in Objects THEN content[dict[Key(t)]]
                                ELSE dict[Key(t)]
           /\ dict[Key(t)] \in Objects \cup {None, Foreign}
           /\ dict[Key(t)] \in Objects =>
                /\ KeySets[Key(t)] \in SUBSET Values
                /\ KeySets[Key(t)] # None /\ KeySets[Key(t)] # Foreign
<1>1. Key(t) \in Keys
  BY InHand DEF Inside
<1>2. dict[Key(t)] \in Objects => content[dict[Key(t)]] \in SUBSET Values
  BY DEF ViewInv, TypeInv, Types
<1>3. dict[Key(t)] \in Objects \cup {None, Foreign}
  BY <1>1 DEF ViewInv, TypeInv, Types
<1>4. pc[t] = "check" => Seen(t) = {dict[Key(t)]}
  BY DEF ViewInv, Knows, Seen
<1>5. QED
  BY <1>1, <1>2, <1>3, <1>4, MarkersAssumption DEF KeySets

LEMMA BadArgumentsMaps ==
    ASSUME ViewInv, ViewInv', NEW t \in Threads, BadArguments(t)
    PROVE  Abstract!Act(t)
<1>1. /\ pc[t] = "args" /\ req[t].val = Malformed /\ out' = [out EXCEPT ![t] = "malformed"]
      /\ UNCHANGED <<dict, content, req>>
  BY DEF BadArguments, Goto, Val, Decide, objectVars
<1>2. Abstract!Answer(req[t], KeySets[Key(t)]) = "malformed"
  BY <1>1 DEF Abstract!Answer
<1>3. KeySets' = [KeySets EXCEPT ![Key(t)] = Abstract!After(req[t], KeySets[Key(t)])]
  BY <1>1, <1>2 DEF Abstract!After, KeySets
<1>4. QED
  BY <1>1, <1>2, <1>3, InHand, ActsOnce DEF Answers

LEMMA CreateExistsMaps ==
    ASSUME ViewInv, ViewInv', NEW t \in Threads, CreateExists(t)
    PROVE  Abstract!Act(t)
<1>1. /\ pc[t] = "check" /\ req[t].op = "create" /\ out' = [out EXCEPT ![t] = "exists"]
      /\ UNCHANGED <<dict, content, req>> /\ \E v \in Seen(t) : v # None
  BY DEF CreateExists, Goto, Op, Decide, objectVars
<1>2. KeySets[Key(t)] # None
  BY <1>1, FindsSet DEF Inside
<1>3. Abstract!Answer(req[t], KeySets[Key(t)]) = "exists"
  BY <1>1, <1>2, InHand DEF Abstract!Answer, Val
<1>4. KeySets' = [KeySets EXCEPT ![Key(t)] = Abstract!After(req[t], KeySets[Key(t)])]
  BY <1>1, <1>3 DEF Abstract!After, KeySets
<1>5. QED
  BY <1>1, <1>3, <1>4, InHand, ActsOnce DEF Answers

LEMMA OpenFailsMaps ==
    ASSUME ViewInv, ViewInv', NEW t \in Threads, OpenFails(t)
    PROVE  Abstract!Act(t)
<1>1. /\ pc[t] = "check" /\ req[t].op # "create" /\ UNCHANGED <<dict, content, req>>
      /\ \/ None \in Seen(t) /\ out' = [out EXCEPT ![t] = "missing"]
         \/ Foreign \in Seen(t) /\ out' = [out EXCEPT ![t] = "wrongtype"]
  BY DEF OpenFails, Goto, Op, Decide, objectVars
<1>2. \/ KeySets[Key(t)] = None /\ out' = [out EXCEPT ![t] = "missing"]
      \/ KeySets[Key(t)] = Foreign /\ out' = [out EXCEPT ![t] = "wrongtype"]
  BY <1>1, FindsSet, DistinctAssumption DEF Inside
<1> DEFINE a == IF KeySets[Key(t)] = None THEN "missing" ELSE "wrongtype"
<1>3. a \in Answers \ {"none"} /\ out' = [out EXCEPT ![t] = a]
  BY <1>2, DistinctAssumption DEF Answers
<1>4. a = Abstract!Answer(req[t], KeySets[Key(t)])
  BY <1>1, <1>2, InHand, DistinctAssumption DEF Abstract!Answer, Val
<1>5. KeySets' = [KeySets EXCEPT ![Key(t)] = Abstract!After(req[t], KeySets[Key(t)])]
  BY <1>1, <1>4 DEF Abstract!After, KeySets
<1> HIDE DEF a
<1>6. QED
  BY <1>1, <1>3, <1>4, <1>5, InHand, ActsOnce

LEMMA LinkMaps ==
    ASSUME ViewInv, ViewInv', NEW t \in Threads, Link(t)
    PROVE  Abstract!Act(t)
<1>1. /\ pc[t] = "link" /\ out' = [out EXCEPT ![t] = "ok"]
      /\ dict' = [dict EXCEPT ![Key(t)] = obj[t]] /\ UNCHANGED <<content, req>>
  BY DEF Link, Goto, Decide, objectVars
<1>2. /\ req[t].op = "create" /\ obj[t] \in Objects /\ dict[Key(t)] = None
      /\ content[obj[t]] = {} /\ Key(t) \in Keys
  BY <1>1, InHand DEF ViewInv, TypeInv, Hands, Op, Knows, Kept
<1>3. KeySets[Key(t)] = None
  BY <1>2, DistinctAssumption DEF KeySets
<1>4. Abstract!Answer(req[t], KeySets[Key(t)]) = "ok"
  BY <1>1, <1>2, <1>3, InHand DEF Abstract!Answer, Val
<1>5. Abstract!After(req[t], KeySets[Key(t)]) = {}
  BY <1>2, <1>4 DEF Abstract!After
<1>6. KeySets' = [KeySets EXCEPT ![Key(t)] = {}]
  BY <1>1, <1>2 DEF KeySets, ViewInv, TypeInv, Types
<1>7. QED
  BY <1>1, <1>4, <1>5, <1>6, InHand, ActsOnce DEF Answers

LEMMA UnlinkMaps ==
    ASSUME ViewInv, ViewInv', NEW t \in Threads, Unlink(t)
    PROVE  Abstract!Act(t)
<1>1. /\ pc[t] = "unlink" /\ out' = [out EXCEPT ![t] = "ok"]
      /\ dict' = [dict EXCEPT ![Key(t)] = None] /\ UNCHANGED <<content, req>>
  BY DEF Unlink, Goto, Decide, objectVars
<1>2. /\ req[t].op = "delete" /\ dict[Key(t)] \in Objects /\ Key(t) \in Keys
  BY <1>1, InHand DEF ViewInv, TypeInv, Hands, Op, Knows
<1>3. KeySets[Key(t)] # None /\ KeySets[Key(t)] # Foreign
  BY <1>1, <1>2, FindsSet DEF Inside
<1>4. Abstract!Answer(req[t], KeySets[Key(t)]) = "ok"
  BY <1>1, <1>2, <1>3, InHand DEF Abstract!Answer, Val
<1>5. Abstract!After(req[t], KeySets[Key(t)]) = None
  BY <1>2, <1>4 DEF Abstract!After
<1>6. KeySets' = [KeySets EXCEPT ![Key(t)] = None]
  BY <1>1, <1>2, DistinctAssumption DEF KeySets, ViewInv, TypeInv, Types
<1>7. QED
  BY <1>1, <1>4, <1>5, <1>6, InHand, ActsOnce DEF Answers

\* The operation of the skip list changes what the one key holds that leads to
\* it, and answers by what was there.
LEMMA ApplyMaps ==
    ASSUME ViewInv, ViewInv', NEW t \in Threads, Apply(t)
    PROVE  Abstract!Act(t)
<1> DEFINE s == content[obj[t]]
           v == req[t].val
<1>1. /\ pc[t] = "apply" /\ out' = [out EXCEPT ![t] = Result(t)]
      /\ content' = [content EXCEPT ![obj[t]] = Changed(t)] /\ UNCHANGED <<dict, req>>
  BY DEF Apply, Goto, Decide
<1>2. /\ req[t].op \in {"insert", "remove", "contains"}
      /\ obj[t] \in Objects /\ dict[Key(t)] = obj[t]
      /\ Key(t) \in Keys /\ v # Malformed
  BY <1>1, InHand DEF ViewInv, TypeInv, Hands, Op, Val, Knows
<1>3. KeySets[Key(t)] = s /\ s # None /\ s # Foreign
  BY <1>1, <1>2, FindsSet DEF Inside
<1>4. Result(t) = Abstract!Answer(req[t], s) /\ Result(t) \in Answers \ {"none"}
  <2>1. CASE v \in s
    BY <1>2, <1>3, <2>1 DEF Result, Op, Val, Abstract!Answer, Answers
  <2>2. CASE v \notin s
    BY <1>2, <1>3, <2>2 DEF Result, Op, Val, Abstract!Answer, Answers
  <2>3. QED
    BY <2>1, <2>2
<1>5. Changed(t) = Abstract!After(req[t], s)
  <2>1. CASE req[t].op = "insert"
    <3>1. Changed(t) = s \cup {v}
      BY <2>1 DEF Changed, Op, Val
    <3>2. Abstract!After(req[t], s) = IF v \in s THEN s ELSE s \cup {v}
      BY <1>2, <1>3, <2>1 DEF Abstract!After, Abstract!Answer
    <3>3. QED
      BY <3>1, <3>2
  <2>2. CASE req[t].op = "remove"
    <3>1. Changed(t) = s \ {v}
      BY <2>2 DEF Changed, Op, Val
    <3>2. Abstract!After(req[t], s) = IF v \in s THEN s \ {v} ELSE s
      BY <1>2, <1>3, <2>2 DEF Abstract!After, Abstract!Answer
    <3>3. QED
      BY <3>1, <3>2
  <2>3. CASE req[t].op = "contains"
    BY <1>2, <1>3, <2>3 DEF Changed, Op, Val, Abstract!After, Abstract!Answer
  <2>4. QED
    BY <1>2, <2>1, <2>2, <2>3
<1>6. KeySets' = [KeySets EXCEPT ![Key(t)] = Changed(t)]
  <2>1. \A k \in Keys : dict[k] = obj[t] => k = Key(t)
    BY <1>2 DEF ViewInv
  <2>2. content'[obj[t]] = Changed(t) /\ \A o \in Objects : o # obj[t] => content'[o] = content[o]
    BY <1>1, <1>2 DEF ViewInv, TypeInv, Types
  <2>3. QED
    BY <1>1, <1>2, <2>1, <2>2 DEF KeySets
<1> HIDE DEF s, v
<1>7. QED
  BY <1>1, <1>3, <1>4, <1>5, <1>6, InHand, ActsOnce

\* A command begins.
LEMMA BeginInvokes ==
    ASSUME ViewInv, ViewInv', NEW t \in Threads, pc[t] = "idle",
           NEW r \in AllRequests, req' = [req EXCEPT ![t] = r],
           UNCHANGED <<dict, content, out>>
    PROVE  Abstract!Invoke(t)
<1>1. req[t] = None
  BY DEF ViewInv, Kept
<1>2. Answered' = Answered
  BY DEF Answered
<1>3. KeySets' = KeySets
  BY DEF KeySets
<1>4. QED
  BY <1>1, <1>2, <1>3 DEF Abstract!Invoke, AllRequests

LEMMA FinishReturns ==
    ASSUME ViewInv, ViewInv', NEW t \in Threads, Finish(t)
    PROVE  Abstract!Return(t)
<1>1. /\ pc[t] = "finish" /\ req' = [req EXCEPT ![t] = None]
      /\ out' = [out EXCEPT ![t] = "none"] /\ UNCHANGED <<dict, content>>
  BY DEF Finish, Goto, objectVars
<1>2. out \in [Threads -> Answers] /\ out[t] # "none"
  BY <1>1 DEF ViewInv, TypeInv, Types, Hands
<1>3. Answered[t] # None
  BY <1>2, MarkersAssumption DEF Answered
<1>4. Answered' = [Answered EXCEPT ![t] = None]
  BY <1>1, <1>2 DEF Answered
<1>5. KeySets' = KeySets
  BY <1>1 DEF KeySets
<1>6. QED
  BY <1>1, <1>3, <1>4, <1>5 DEF Abstract!Return

\* DEL takes what the key holds, if it holds anything.
LEMMA DelMaps ==
    ASSUME ViewInv, ViewInv', NEW k \in DelKeys, Del(k)
    PROVE  k \in Keys /\ (Abstract!Vanish(k) \/ UNCHANGED Abstract!kvars)
<1>1. /\ k \in Keys /\ dict' = [dict EXCEPT ![k] = None]
      /\ UNCHANGED <<content, req, out>>
  BY DelAssumption DEF Del
<1>2. KeySets' = [KeySets EXCEPT ![k] = None]
  BY <1>1, DistinctAssumption DEF KeySets, ViewInv, TypeInv, Types
<1>3. Answered' = Answered
  BY <1>1 DEF Answered
<1>4. CASE dict[k] = None
  <2>1. dict' = dict
    BY <1>1, <1>4 DEF ViewInv, TypeInv, Types
  <2>2. QED
    BY <1>1, <2>1, Stutters
<1>5. CASE dict[k] # None
  <2>1. KeySets[k] # None
    BY <1>1, <1>5, MarkersAssumption DEF KeySets, ViewInv, TypeInv, Types
  <2>2. QED
    BY <1>1, <1>2, <1>3, <2>1 DEF Abstract!Vanish
<1>6. QED
  BY <1>1, <1>4, <1>5

\* The new skip list is empty, as the memory it takes was.
LEMMA CreateObjectStutters ==
    ASSUME ViewInv, ViewInv', NEW t \in Threads, CreateObject(t)
    PROVE  UNCHANGED Abstract!kvars
<1>1. PICK o \in Objects : life[o] = "unused" /\ content' = [content EXCEPT ![o] = {}]
  BY DEF CreateObject
<1>2. content' = content
  BY <1>1 DEF ViewInv, TypeInv, Types, Kept
<1>3. UNCHANGED <<dict, content, req, out>>
  BY <1>2 DEF CreateObject
<1>4. QED
  BY <1>3, Stutters

LEMMA StepMaps == ViewInv /\ ViewInv' /\ [Next]_vars => [Abstract!KNext]_(Abstract!kvars)
<1> SUFFICES ASSUME ViewInv, ViewInv', [Next]_vars
             PROVE  Abstract!KNext \/ UNCHANGED Abstract!kvars
  OBVIOUS
<1> USE DEF Goto, objectVars, Abstract!KNext
<1>1. ASSUME NEW w \in Workers, ConcCommand(w) PROVE Abstract!KNext
  BY <1>1, BeginInvokes DEF ConcCommand, Threads, AllRequests
<1>2. ASSUME SeqCommand PROVE Abstract!KNext
  BY <1>2, BeginInvokes DEF SeqCommand, Threads, AllRequests
<1>3. ASSUME NEW k \in DelKeys, Del(k) PROVE Abstract!KNext \/ UNCHANGED Abstract!kvars
  BY <1>3, DelMaps
<1>enter. ASSUME DelEnter PROVE UNCHANGED Abstract!kvars
  BY <1>enter, Stutters DEF DelEnter
<1>4. ASSUME NEW t \in Threads,
             \/ BadArguments(t) \/ CreateExists(t) \/ OpenFails(t)
             \/ Link(t) \/ Unlink(t) \/ Apply(t)
      PROVE  Abstract!KNext
  BY <1>4, BadArgumentsMaps, CreateExistsMaps, OpenFailsMaps, LinkMaps, UnlinkMaps, ApplyMaps
<1>5. ASSUME NEW t \in Threads,
             \/ Lock(t) \/ Lookup(t) \/ OpenKey(t)
             \/ CreateObject(t) \/ OpenObject(t) \/ Destroy(t)
      PROVE  UNCHANGED Abstract!kvars
  <2>1. CASE CreateObject(t)
    BY <2>1, CreateObjectStutters
  <2>2. CASE ~CreateObject(t)
    <3>1. UNCHANGED <<dict, content, req, out>>
      BY <1>5, <2>2 DEF Lock, Lookup, OpenKey, OpenObject, Destroy
    <3>2. QED
      BY <3>1, Stutters
  <2>3. QED
    BY <2>1, <2>2
<1>6. ASSUME NEW t \in Threads, Finish(t) PROVE Abstract!KNext
  BY <1>6, FinishReturns
<1>7. CASE UNCHANGED vars
  BY <1>7, Stutters DEF vars
<1>8. QED
  BY <1>1, <1>2, <1>3, <1>4, <1>5, <1>6, <1>7, <1>enter DEF Next, Execute, Create, Delete

LEMMA InitMaps == Init => Abstract!KInit
BY DistinctAssumption DEF Init, Abstract!KInit, KeySets, Answered

\* Any number of workers that create and delete, the main thread with any
\* command and clients with DEL: each command acts at one instant on a keyspace
\* of sets, between its arrival and its answer, and answers what it found then.
THEOREM ImplementsKeyedSetsTheorem ==
    ASSUME LifeCycleOnly
    PROVE  Spec => ImplementsKeyedSets
BY KeptInvariant, KeptView, InitMaps, StepMaps, PTL DEF Spec, ImplementsKeyedSets, Abstract!KSpec

-----------------------------------------------------------------------------
(* What a step of a thread does to the sets, whoever is told of the answer. *)

LEMMA TakesEffect ==
    ASSUME KeptInv, KeptInv', NEW t \in Threads, Execute(t), out'[t] # "none"
    PROVE  /\ req[t] # None /\ Key(t) \in Keys
           /\ out'[t] = Abstract!Answer(req[t], KeySets[Key(t)])
           /\ KeySets' = [KeySets EXCEPT ![Key(t)] = Abstract!After(req[t], KeySets[Key(t)])]
<1>1. out \in [Threads -> Answers] /\ out' \in [Threads -> Answers]
  BY DEF KeptInv, OwnedInv, LockInv, TypeInv, Types
<1>2. out[t] # "none" <=> pc[t] = "finish"
  BY DEF KeptInv, OwnedInv, LockInv, TypeInv, Hands
<1>3. \/ BadArguments(t) \/ CreateExists(t) \/ OpenFails(t)
      \/ Link(t) \/ Unlink(t) \/ Apply(t)
  BY <1>1, <1>2 DEF Execute, Create, Delete, Lock, Lookup, OpenKey, CreateObject, OpenObject, Destroy,
     Finish, Goto
<1>4. Abstract!Act(t)
  BY <1>3, KeptView, KeptViewNext, BadArgumentsMaps, CreateExistsMaps, OpenFailsMaps, LinkMaps,
     UnlinkMaps, ApplyMaps
<1>5. req[t] # None /\ Key(t) \in Keys
  BY <1>3, KeptView, InHand
  DEF BadArguments, CreateExists, OpenFails, Link, Unlink, Apply, Goto
<1>6. Answered'[t] = out'[t]
  BY DEF Answered
<1>7. Answered'[t] = Abstract!Answer(req[t], KeySets[Key(t)])
  BY <1>4 DEF Abstract!Act, Answered, Key
<1>8. KeySets' = [KeySets EXCEPT ![Key(t)] = Abstract!After(req[t], KeySets[Key(t)])]
  BY <1>4 DEF Abstract!Act, Key
<1>9. QED
  BY <1>5, <1>6, <1>7, <1>8

LEMMA NoEffect ==
    ASSUME KeptInv, NEW t \in Threads, Execute(t), out'[t] = "none"
    PROVE  KeySets' = KeySets
<1>1. UNCHANGED <<dict, content>>
  <2>1. CASE CreateObject(t)
    BY <2>1 DEF CreateObject, KeptInv, OwnedInv, LockInv, TypeInv, Types, Kept
  <2>2. CASE ~CreateObject(t)
    BY <2>2 DEF Execute, BadArguments, Lock, Lookup, OpenKey, Create, CreateExists, Link,
       OpenFails, OpenObject, Delete, Destroy, Unlink, Apply, Result, Finish, Decide, objectVars,
       KeptInv, OwnedInv, LockInv, TypeInv, Types
  <2>3. QED
    BY <2>1, <2>2
<1>2. QED
  BY <1>1 DEF KeySets

-----------------------------------------------------------------------------
(***************************************************************************)
(* The pool the source configures: one worker, which executes everything.  *)
(* insert, remove and contains do not take the lock, and DEL runs beside   *)
(* them: what they see may be wrong, and nothing is said of it here.  What *)
(* is proved is that the keys and the skip lists come to no harm.          *)
(***************************************************************************)

\* CA_THREAD_COUNT 1 (redpar.cpp:14), and clients that send llca_conc.* only.
Lone == SeqRequests = {} /\ \E w : Workers = {w}

\* Inside, and not only to search.
Changes(w) == Inside(w) /\ Op(w) \in {"create", "delete"}

LoneLocks ==
    /\ pc[MainThread] \in {"idle", "del"}
    /\ gil = MainThread <=> pc[MainThread] = "del"
    /\ \A w \in Workers : Changes(w) => gil = w

LoneKnows == \A w \in Workers : Changes(w) => Knows(w)

LoneInv == TypeInv /\ LoneLocks /\ LoneKnows /\ KeysHoldLive /\ ObjectsOwned

\* What the worker knows, what the keys hold and who owns the skip lists, for
\* the step of each action.
LoneWork == LoneKnows /\ KeysHoldLive /\ ObjectsOwned

LEMMA LoneInit == Init => LoneInv
BY TypeInvInit, OwnInvInit, DistinctAssumption
DEF Init, LoneInv, LoneLocks, LoneKnows, OwnInv, Inside, Changes, Threads

LEMMA LoneLocksStep ==
    ASSUME Lone
    PROVE  LoneInv /\ [Next]_vars => LoneLocks'
<1> SUFFICES ASSUME LoneInv, [Next]_vars PROVE LoneLocks'
  OBVIOUS
<1> USE ThreadsAssumption, DistinctAssumption
    DEF LoneInv, LoneLocks, Lone, TypeInv, Types, Stages, Hands, Inside, Changes, Goto, Op,
        Threads, objectVars
<1>1. ASSUME NEW w \in Workers, ConcCommand(w) PROVE LoneLocks'
  BY <1>1 DEF ConcCommand
<1>2. CASE SeqCommand
  BY <1>2 DEF SeqCommand
<1>3. ASSUME NEW k \in DelKeys, Del(k) PROVE LoneLocks'
  BY <1>3 DEF Del
<1>4. CASE DelEnter
  BY <1>4 DEF DelEnter
<1>5. ASSUME NEW t \in Threads, Lock(t) PROVE LoneLocks'
  BY <1>5 DEF Lock
<1>6. ASSUME NEW t \in Threads, Lookup(t) PROVE LoneLocks'
  BY <1>6 DEF Lookup
<1>7. ASSUME NEW t \in Threads, Finish(t) PROVE LoneLocks'
  BY <1>7 DEF Finish
<1>8. ASSUME NEW t \in Threads,
             \/ BadArguments(t) \/ OpenKey(t) \/ Create(t) \/ OpenFails(t) \/ OpenObject(t)
             \/ Delete(t) \/ Apply(t)
      PROVE  LoneLocks'
  BY <1>8 DEF BadArguments, OpenKey, Create, CreateExists, CreateObject, Link, OpenFails,
     OpenObject, Delete, Destroy, Unlink, Apply
<1>9. CASE UNCHANGED vars
  BY <1>9 DEF vars
<1>10. QED
  BY <1>1, <1>2, <1>3, <1>4, <1>5, <1>6, <1>7, <1>8, <1>9 DEF Next, Execute

\* Two threads, and the main thread neither creates nor deletes.
LEMMA LoneAlone ==
    ASSUME Lone, LoneInv, NEW w \in Workers
    PROVE  /\ Threads = {w, MainThread} /\ Workers = {w} /\ w # MainThread
           /\ pc[MainThread] \notin {"link", "unlink"}
BY ThreadsAssumption DEF Lone, LoneInv, LoneLocks, Threads

LEMMA LoneDel ==
    ASSUME Lone, LoneInv, NEW k \in DelKeys, Del(k)
    PROVE  LoneWork'
<1> USE ThreadsAssumption, DistinctAssumption DEF LoneInv, TypeInv, Types
<1>1. /\ pc[MainThread] = "del" /\ pc' = [pc EXCEPT ![MainThread] = "idle"]
      /\ k \in Keys /\ dict' = [dict EXCEPT ![k] = None]
      /\ leaked' = leaked \cup ({dict[k]} \cap Objects)
      /\ UNCHANGED <<life, content, req, obj, out>>
  BY DelAssumption DEF Del, Goto
<1>2. \A w \in Workers : ~Changes(w) /\ pc'[w] = pc[w]
  BY <1>1 DEF LoneLocks, Threads
<1>3. \A t \in Threads : pc[t] \notin {"link", "unlink"} /\ pc'[t] \notin {"link", "unlink"}
  BY <1>1, <1>2 DEF Changes, Inside, Hands, Threads
<1>4. LoneKnows'
  BY <1>1, <1>2 DEF LoneKnows, Changes, Inside, Op
<1>5. KeysHoldLive'
  BY <1>1, <1>3 DEF KeysHoldLive
<1>6. ObjectsOwned'
  <2>1. ASSUME NEW o \in Objects, life[o] = "live"
        PROVE  o \in leaked' \/ \E l \in Keys : dict'[l] = o
    <3>1. o \in leaked \/ \E l \in Keys : dict[l] = o
      BY <2>1, <1>3 DEF ObjectsOwned
    <3>2. QED
      BY <3>1, <1>1
  <2>2. QED
    BY <1>1, <2>1 DEF ObjectsOwned
<1>7. QED
  BY <1>4, <1>5, <1>6 DEF LoneWork

\* A step of the worker that leaves the keyspace and who is alive.
LEMMA LoneQuiet ==
    ASSUME Lone, LoneInv, LoneLocks', NEW w \in Workers,
           UNCHANGED <<dict, life, leaked>>,
           pc[w] \notin {"link", "unlink"}, pc'[w] \notin {"link", "unlink"},
           Changes(w)' => Knows(w)'
    PROVE  LoneWork'
<1>1. Threads = {w, MainThread} /\ Workers = {w} /\ w # MainThread
  BY LoneAlone
<1>2. \A t \in Threads : pc[t] \notin {"link", "unlink"} /\ pc'[t] \notin {"link", "unlink"}
  BY <1>1 DEF LoneInv, LoneLocks
<1>3. LoneKnows'
  BY <1>1 DEF LoneKnows
<1>4. KeysHoldLive' /\ ObjectsOwned'
  BY <1>2 DEF LoneInv, KeysHoldLive, ObjectsOwned
<1>5. QED
  BY <1>3, <1>4 DEF LoneWork

\* create and delete open the key with the lock held, so no DEL is under way.
LEMMA LoneOpenKey ==
    ASSUME Lone, LoneInv, LoneLocks', NEW w \in Workers, OpenKey(w)
    PROVE  LoneWork'
<1> USE ThreadsAssumption, DistinctAssumption DEF LoneInv, TypeInv, Types
<1>1. /\ pc[w] = "open" /\ pc' = [pc EXCEPT ![w] = "check"] /\ w \in Threads
      /\ UNCHANGED <<dict, life, content, leaked, gil, req>>
  BY DEF OpenKey, Goto, objectVars, Threads
<1>2. ASSUME Changes(w)' PROVE Knows(w)'
  <2>1. Changes(w) /\ pc'[w] = "check"
    BY <1>1, <1>2 DEF Changes, Inside, Op
  <2>2. pc[MainThread] = "idle"
    BY <2>1 DEF LoneLocks
  <2>3. Found(w) = {dict[Key(w)]}
    BY <2>2, LoneAlone DEF Found, InKeyspace
  <2>4. obj'[w] = dict[Key(w)]
    BY <1>1, <2>3 DEF OpenKey
  <2>5. QED
    BY <1>1, <2>1, <2>4 DEF Knows, Key
<1>3. pc'[w] = "check"
  BY <1>1
<1>4. QED
  BY <1>1, <1>2, <1>3, LoneQuiet

LEMMA LoneOpenObject ==
    ASSUME Lone, LoneInv, LoneLocks', NEW w \in Workers, OpenObject(w)
    PROVE  LoneWork'
<1> USE ThreadsAssumption, DistinctAssumption DEF LoneInv, TypeInv, Types
<1>1. /\ pc[w] = "check" /\ pc'[w] \in {"destroy", "apply"} /\ w \in Threads
      /\ UNCHANGED <<dict, life, content, leaked, gil, req>>
  BY DEF OpenObject, Goto, objectVars, Threads
<1>2. ASSUME Changes(w)' PROVE Knows(w)'
  <2>1. Changes(w)
    BY <1>1, <1>2 DEF Changes, Inside, Op
  <2>2. obj[w] = dict[Key(w)]
    BY <1>1, <2>1 DEF LoneKnows, Knows
  <2>3. obj'[w] = dict[Key(w)] /\ obj'[w] \in Objects
    BY <1>1, <2>2 DEF OpenObject, Seen
  <2>4. Key(w) \in Keys /\ Key(w)' = Key(w)
    BY <1>1, RequestTypes DEF Hands, Key
  <2>5. \A t \in Threads : pc[t] # "unlink"
    BY <1>1, LoneAlone
  <2>6. life[dict[Key(w)]] = "live"
    BY <2>3, <2>4, <2>5, <1>1 DEF KeysHoldLive
  <2>7. QED
    BY <1>1, <2>3, <2>4, <2>6 DEF Knows
<1>3. QED
  BY <1>1, <1>2, LoneQuiet

LEMMA LoneCreateObject ==
    ASSUME Lone, LoneInv, NEW w \in Workers, CreateObject(w)
    PROVE  LoneWork'
<1> USE ThreadsAssumption, DistinctAssumption DEF LoneInv, TypeInv, Types
<1>1. PICK o \in Objects : /\ life[o] = "unused"
                           /\ life' = [life EXCEPT ![o] = "live"]
                           /\ obj' = [obj EXCEPT ![w] = o]
  BY DEF CreateObject
<1>2. /\ pc[w] = "check" /\ pc' = [pc EXCEPT ![w] = "link"] /\ Op(w) = "create"
      /\ UNCHANGED <<dict, leaked, gil, req, out>>
  BY DEF CreateObject, Goto
<1>3. /\ Threads = {w, MainThread} /\ Workers = {w} /\ w # MainThread
      /\ pc[MainThread] \notin {"link", "unlink"} /\ pc'[MainThread] = pc[MainThread]
  BY <1>2, LoneAlone
<1>4. obj[w] = dict[Key(w)]
  BY <1>2 DEF LoneKnows, Changes, Inside, Knows
<1>5. dict[Key(w)] = None /\ Key(w)' = Key(w) /\ pc'[w] = "link" /\ obj'[w] = o
  BY <1>1, <1>2, <1>3, <1>4 DEF CreateObject, Seen, Key
<1>6. \A k \in Keys : dict[k] \in Objects => life[dict[k]] = "live"
  BY <1>2, <1>3 DEF KeysHoldLive
<1>7. \A k \in Keys : dict[k] # o
  BY <1>1, <1>6
<1>8. LoneKnows'
  BY <1>1, <1>2, <1>3, <1>5, <1>7 DEF LoneKnows, Knows
<1>9. KeysHoldLive'
  BY <1>1, <1>2, <1>6 DEF KeysHoldLive
<1>10. ObjectsOwned'
  BY <1>1, <1>2, <1>3, <1>5 DEF ObjectsOwned
<1>11. QED
  BY <1>8, <1>9, <1>10 DEF LoneWork

LEMMA LoneLink ==
    ASSUME Lone, LoneInv, NEW w \in Workers, Link(w)
    PROVE  LoneWork'
<1> USE ThreadsAssumption, DistinctAssumption DEF LoneInv, TypeInv, Types
<1>1. /\ pc[w] = "link" /\ pc' = [pc EXCEPT ![w] = "finish"]
      /\ dict' = [dict EXCEPT ![Key(w)] = obj[w]]
      /\ UNCHANGED <<life, content, leaked, gil, req, obj>>
  BY DEF Link, Goto, objectVars
<1>2. /\ Threads = {w, MainThread} /\ Workers = {w} /\ w # MainThread
      /\ pc[MainThread] \notin {"link", "unlink"} /\ pc'[MainThread] = pc[MainThread]
      /\ pc'[w] = "finish"
  BY <1>1, LoneAlone
<1>3. Key(w) \in Keys /\ obj[w] \in Objects /\ Changes(w)
  BY <1>1, <1>2, RequestTypes DEF Hands, Key, Changes, Inside
<1>4. /\ life[obj[w]] = "live" /\ dict[Key(w)] = None
      /\ \A k \in Keys : dict[k] # obj[w]
  BY <1>1, <1>3 DEF LoneKnows, Knows
<1>5. LoneKnows'
  BY <1>2 DEF LoneKnows, Changes, Inside
<1>6. KeysHoldLive'
  BY <1>1, <1>2, <1>3, <1>4 DEF KeysHoldLive
<1>7. ObjectsOwned'
  <2>1. ASSUME NEW o \in Objects, life[o] = "live", o \notin leaked
        PROVE  \E k \in Keys : dict'[k] = o
    <3>1. CASE o = obj[w]
      BY <1>1, <1>3, <3>1
    <3>2. CASE o # obj[w]
      <4>1. PICK k \in Keys : dict[k] = o
        BY <1>2, <2>1, <3>2 DEF ObjectsOwned
      <4>2. QED
        BY <1>1, <1>4, <2>1, <4>1
    <3>3. QED
      BY <3>1, <3>2
  <2>2. QED
    BY <1>1, <2>1 DEF ObjectsOwned
<1>8. QED
  BY <1>5, <1>6, <1>7 DEF LoneWork

LEMMA LoneDestroy ==
    ASSUME Lone, LoneInv, NEW w \in Workers, Destroy(w)
    PROVE  LoneWork'
<1> USE ThreadsAssumption, DistinctAssumption DEF LoneInv, TypeInv, Types
<1>1. /\ pc[w] = "destroy" /\ pc' = [pc EXCEPT ![w] = "unlink"]
      /\ life' = [life EXCEPT ![obj[w]] = "freed"]
      /\ UNCHANGED <<dict, content, leaked, gil, req, obj>>
  BY DEF Destroy, Goto
<1>2. /\ Threads = {w, MainThread} /\ Workers = {w} /\ w # MainThread
      /\ pc[MainThread] \notin {"link", "unlink"} /\ pc'[MainThread] = pc[MainThread]
      /\ pc'[w] = "unlink"
  BY <1>1, LoneAlone
<1>3. /\ Key(w) \in Keys /\ Key(w)' = Key(w) /\ obj[w] \in Objects /\ Changes(w)
  BY <1>1, <1>2, RequestTypes DEF Hands, Key, Changes, Inside
<1>4. dict[Key(w)] = obj[w] /\ gil = w
  BY <1>1, <1>3 DEF LoneKnows, Knows, LoneLocks
<1>5. LoneKnows'
  BY <1>1, <1>2, <1>3, <1>4 DEF LoneKnows, Knows
<1>6. KeysHoldLive'
  BY <1>1, <1>2, <1>3, <1>4 DEF KeysHoldLive
<1>7. ObjectsOwned'
  BY <1>1, <1>2 DEF ObjectsOwned
<1>8. QED
  BY <1>5, <1>6, <1>7 DEF LoneWork

LEMMA LoneUnlink ==
    ASSUME Lone, LoneInv, NEW w \in Workers, Unlink(w)
    PROVE  LoneWork'
<1> USE ThreadsAssumption, DistinctAssumption DEF LoneInv, TypeInv, Types
<1>1. /\ pc[w] = "unlink" /\ pc' = [pc EXCEPT ![w] = "finish"]
      /\ dict' = [dict EXCEPT ![Key(w)] = None]
      /\ UNCHANGED <<life, content, leaked, gil, req, obj>>
  BY DEF Unlink, Goto, objectVars
<1>2. /\ Threads = {w, MainThread} /\ Workers = {w} /\ w # MainThread
      /\ pc[MainThread] \notin {"link", "unlink"} /\ pc'[MainThread] = pc[MainThread]
      /\ pc'[w] = "finish"
  BY <1>1, LoneAlone
<1>3. Key(w) \in Keys /\ Changes(w)
  BY <1>1, <1>2, RequestTypes DEF Hands, Key, Changes, Inside
<1>4. dict[Key(w)] = obj[w] /\ life[obj[w]] = "freed"
  BY <1>1, <1>3 DEF LoneKnows, Knows
<1>5. LoneKnows'
  BY <1>2 DEF LoneKnows, Changes, Inside
<1>6. KeysHoldLive'
  BY <1>1, <1>2, <1>3, <1>4 DEF KeysHoldLive
<1>7. ObjectsOwned'
  BY <1>1, <1>2, <1>3, <1>4 DEF ObjectsOwned
<1>8. QED
  BY <1>5, <1>6, <1>7 DEF LoneWork

LEMMA LoneStep ==
    ASSUME Lone
    PROVE  LoneInv /\ [Next]_vars => LoneInv'
<1> SUFFICES ASSUME LoneInv, [Next]_vars PROVE LoneWork'
  BY TypeInvStep, LoneLocksStep DEF LoneInv, LoneWork
<1> LoneLocks'
  BY LoneLocksStep
<1> PICK w \in Workers : Workers = {w}
  BY DEF Lone
<1> Threads = {w, MainThread} /\ w # MainThread
  BY LoneAlone
<1>1. ASSUME NEW t \in Threads, Execute(t) PROVE t = w
  <2>1. pc[t] \notin {"idle", "del"}
    BY <1>1 DEF Execute, BadArguments, Lock, Lookup, OpenKey, Create, CreateExists, CreateObject,
       Link, OpenFails, OpenObject, Delete, Destroy, Unlink, Apply, Finish, Goto
  <2>2. QED
    BY <2>1 DEF LoneInv, LoneLocks
<1>2. ASSUME \/ ConcCommand(w)
             \/ BadArguments(w) \/ Lock(w) \/ Lookup(w) \/ CreateExists(w) \/ OpenFails(w)
             \/ Apply(w) \/ Finish(w)
      PROVE  LoneWork'
  <2>1. /\ UNCHANGED <<dict, life, leaked>>
        /\ pc[w] \in {"idle", "args", "check", "apply", "finish"}
        /\ pc'[w] \in {"idle", "args", "open", "finish"}
    BY <1>2 DEF ConcCommand, BadArguments, Lock, Lookup, CreateExists, OpenFails, Apply, Finish,
       Goto, objectVars, LoneInv, TypeInv, Types
  <2>2. Knows(w)'
    BY <2>1 DEF Knows
  <2>3. QED
    BY <2>1, <2>2, LoneQuiet
<1>enter. CASE DelEnter
  <2>1. /\ UNCHANGED <<dict, life, content, leaked, req, obj>> /\ pc'[w] = pc[w] /\ gil # w
    BY <1>enter, DistinctAssumption DEF DelEnter, Goto, objectVars, LoneInv, TypeInv, Types
  <2>2. ~Changes(w) /\ ~Changes(w)'
    BY <2>1 DEF LoneInv, LoneLocks, Changes, Inside, Op
  <2>3. pc[w] \notin {"link", "unlink"}
    BY <2>2 DEF LoneInv, TypeInv, Hands, Changes, Inside
  <2>4. QED
    BY <2>1, <2>2, <2>3, LoneQuiet
<1>3. CASE SeqCommand
  BY <1>3 DEF SeqCommand, Lone
<1>4. ASSUME NEW k \in DelKeys, Del(k) PROVE LoneWork'
  BY <1>4, LoneDel
<1>5. ASSUME \/ OpenKey(w) \/ CreateObject(w) \/ Link(w) \/ OpenObject(w)
             \/ Destroy(w) \/ Unlink(w)
      PROVE  LoneWork'
  BY <1>5, LoneOpenKey, LoneCreateObject, LoneLink, LoneOpenObject, LoneDestroy, LoneUnlink
<1>6. CASE UNCHANGED vars
  BY <1>6 DEF vars, LoneInv, LoneWork, LoneKnows, Changes, Inside, Op, Knows, Key, KeysHoldLive,
     ObjectsOwned
<1>7. QED
  BY <1>1, <1>2, <1>3, <1>4, <1>5, <1>6, <1>enter DEF Next, Execute, Create, Delete

LEMMA LoneInvariant ==
    ASSUME Lone
    PROVE  Spec => []LoneInv
BY LoneInit, LoneStep, PTL DEF Spec

\* One worker whose searches take no lock still never leaves a key with a skip
\* list it has destroyed.
THEOREM LoneKeysHoldLiveTheorem ==
    ASSUME Lone
    PROVE  Spec => []KeysHoldLive
<1>1. LoneInv => KeysHoldLive
  BY DEF LoneInv
<1>2. QED
  BY LoneInvariant, <1>1, PTL

\* One worker loses no skip list but those that DEL drops.
THEOREM LoneObjectsOwnedTheorem ==
    ASSUME Lone
    PROVE  Spec => []ObjectsOwned
<1>1. LoneInv => ObjectsOwned
  BY DEF LoneInv
<1>2. QED
  BY LoneInvariant, <1>1, PTL

=============================================================================
