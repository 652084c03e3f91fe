------------------------- MODULE LlcaCommandsProofs -------------------------
(***************************************************************************)
(* Proofs about LlcaCommands, for any number of workers and whatever the   *)
(* main thread does to the keys in between.                                *)
(*                                                                         *)
(* In the behaviours in which no two threads are inside the keyspace at    *)
(* once (SerialSpec), which the lock around the setting of a key would     *)
(* ensure and the code does not, every list is at one key or freed,        *)
(* whatever the handlers do with the lock released.  For the one worker    *)
(* the source configures, with nobody else writing the keys (Lone), there  *)
(* are no other behaviours, and the handlers implement KeyedBags: the last *)
(* part.                                                                   *)
(***************************************************************************)
EXTENDS LlcaCommands, TLAPS

Types ==
    /\ dict \in [Keys -> Objects \cup {None, Foreign}]
    /\ life \in [Objects -> {"unused", "live", "freed"}]
    /\ pc \in [Workers -> {"idle", "args", "open", "check", "set", "replace", "apply",
                           "return"}]
    /\ obj \in [Workers -> Objects \cup {None}]
    /\ found \in [Workers -> Objects \cup {None, Foreign, Dangling}]
    /\ \A w \in Workers : pc[w] # "idle" => req[w] \in Requests
    /\ req \in [Workers -> Requests \cup {None}]

Setting(w) == pc[w] \in {"set", "replace"}

\* The list an insert has created is its own until it sets the key.
Created ==
    \A w \in Workers : Setting(w) =>
        /\ obj[w] \in Objects
        /\ life[obj[w]] = "live"
        /\ \A k \in Keys : dict[k] # obj[w]
        /\ \A u \in Workers \ {w} : Setting(u) => obj[u] # obj[w]

\* What it is about to replace is what the key holds.
Searched == \A w \in Workers : pc[w] = "replace" => found[w] = dict[Key(w)]

OwnInv ==
    /\ Types /\ KeyspaceExclusive
    /\ Created /\ Searched
    /\ KeysHoldLive /\ ObjectsOwned

\* A request names a key.
LEMMA RequestKey ==
    ASSUME OwnInv, NEW w \in Workers, pc[w] # "idle"
    PROVE  Key(w) \in Keys
BY RequestsAssumption DEF OwnInv, Types, Key

\* A search finds a value of the keyspace, or nothing ...
LEMMA FoundTypes ==
    ASSUME dict \in [Keys -> Objects \cup {None, Foreign}], NEW t, NEW k \in Keys
    PROVE  Found(t, k) \subseteq Objects \cup {None, Foreign}
BY DEF Found

\* ... and with nobody else inside, what the key holds.
LEMMA FoundExact ==
    ASSUME NEW t, NEW k, Inside \subseteq {t}
    PROVE  Found(t, k) = {dict[k]}
BY DEF Found

\* A step that leaves the keyspace as it is, of a worker that neither had nor
\* has a list in its hands to be set.
LEMMA QuietStep ==
    ASSUME OwnInv, NEW w \in Workers, Types', KeyspaceExclusive',
           UNCHANGED <<dict, life>>,
           ~Setting(w), ~Setting(w)',
           \A u \in Workers \ {w} : /\ pc'[u] = pc[u] /\ obj'[u] = obj[u]
                                    /\ found'[u] = found[u] /\ req'[u] = req[u]
    PROVE  OwnInv'
<1>1. Created'
  BY DEF OwnInv, Created, Setting
<1>2. Searched'
  BY DEF OwnInv, Searched, Setting, Key
<1>3. KeysHoldLive'
  BY DEF OwnInv, KeysHoldLive
<1>4. ObjectsOwned'
  BY DEF OwnInv, ObjectsOwned, Setting
<1>5. QED
  BY <1>1, <1>2, <1>3, <1>4 DEF OwnInv

LEMMA OwnInvInit == Init => OwnInv
BY DistinctAssumption
DEF Init, OwnInv, Types, KeyspaceExclusive, Inside, Created, Searched, Setting, KeysHoldLive,
    ObjectsOwned

\* insert creates a list: its address is at no key and in no other hands,
\* because those are live.
LEMMA CreateListOwns ==
    ASSUME OwnInv, KeyspaceExclusive', NEW w \in Workers, CreateList(w)
    PROVE  OwnInv'
<1> USE DEF CreateList, Goto, OwnInv, Types, Setting
<1>1. PICK o \in Objects : /\ life[o] = "unused"
                           /\ life' = [life EXCEPT ![o] = "live"]
                           /\ obj' = [obj EXCEPT ![w] = o]
  OBVIOUS
<1>2. Types'
  BY <1>1
<1>3. \A k \in Keys : dict[k] # o
  BY <1>1 DEF KeysHoldLive
<1>4. \A u \in Workers \ {w} : Setting(u) => obj[u] # o
  BY <1>1 DEF Created
<1>5. Created'
  BY <1>1, <1>3, <1>4 DEF Created
<1>6. Searched'
  BY DEF Searched, Key
<1>7. KeysHoldLive'
  BY <1>1, <1>3 DEF KeysHoldLive
<1>8. ObjectsOwned'
  BY <1>1 DEF ObjectsOwned
<1>9. QED
  BY <1>2, <1>5, <1>6, <1>7, <1>8

\* The key is searched again with nobody else inside.
LEMMA SetSearchOwns ==
    ASSUME OwnInv, KeyspaceExclusive', NEW w \in Workers, SetSearch(w)
    PROVE  OwnInv'
<1> USE DEF SetSearch, Goto, keyspace, OwnInv, Types, Setting
<1>0. Key(w) \in Keys
  BY RequestKey
<1>1. w \in Inside' /\ Inside \subseteq Inside'
  BY DEF Inside
<1>2. Inside \subseteq {w}
  BY <1>1 DEF KeyspaceExclusive
<1>3. found' = [found EXCEPT ![w] = dict[Key(w)]] /\ Key(w) \in Keys
  <2>1. Found(w, Key(w)) = {dict[Key(w)]}
    BY <1>2, FoundExact
  <2>2. QED
    BY <1>0, <2>1
<1>4. Types'
  BY <1>3
<1>5. Created' /\ KeysHoldLive' /\ ObjectsOwned'
  BY DEF Created, KeysHoldLive, ObjectsOwned
<1>6. Searched'
  BY <1>3 DEF Searched, Key
<1>7. QED
  BY <1>4, <1>5, <1>6

\* What a key held is freed when the key is set or emptied, and nothing else:
\* no other key holds it and no insert is about to set it.
LEMMA FreeOwns ==
    ASSUME OwnInv, NEW k \in Keys, NEW v \in Objects \cup {None, Foreign},
           dict' = [dict EXCEPT ![k] = v], Free(k, dict[k]),
           v \in Objects => life[v] = "live" /\ \A l \in Keys : dict[l] # v
    PROVE  /\ KeysHoldLive'
           /\ dict' \in [Keys -> Objects \cup {None, Foreign}]
           /\ life' \in [Objects -> {"unused", "live", "freed"}]
           /\ found' \in [Workers -> Objects \cup {None, Foreign, Dangling}]
           /\ \A o \in Objects : life'[o] = "live" =>
                    life[o] = "live" /\ dict[k] # o
           /\ \A o \in Objects : life[o] = "live" /\ dict[k] # o => life'[o] = "live"
<1> USE DEF OwnInv, Types, Free
<1>1. \A o \in Objects : life'[o] = IF o = dict[k] THEN "freed" ELSE life[o]
  OBVIOUS
<1>2. \A l \in Keys : dict'[l] = IF l = k THEN v ELSE dict[l]
  OBVIOUS
<1>3. KeysHoldLive'
  BY <1>1, <1>2 DEF KeysHoldLive
<1>4. QED
  BY <1>1, <1>3

LEMMA SetValueOwns ==
    ASSUME OwnInv, KeyspaceExclusive', NEW w \in Workers, SetValue(w)
    PROVE  OwnInv'
<1> USE DEF SetValue, Goto, OwnInv, Setting
<1>1. Key(w) \in Keys
  BY RequestKey
<1>2. /\ obj[w] \in Objects /\ life[obj[w]] = "live"
      /\ \A k \in Keys : dict[k] # obj[w]
  BY DEF Created
<1>3. /\ KeysHoldLive'
      /\ dict' \in [Keys -> Objects \cup {None, Foreign}]
      /\ life' \in [Objects -> {"unused", "live", "freed"}]
      /\ found' \in [Workers -> Objects \cup {None, Foreign, Dangling}]
      /\ \A o \in Objects : life'[o] = "live" => life[o] = "live" /\ dict[Key(w)] # o
      /\ \A o \in Objects : life[o] = "live" /\ dict[Key(w)] # o => life'[o] = "live"
  <2>1. found[w] = dict[Key(w)]
    BY DEF Searched
  <2>2. QED
    BY <1>1, <1>2, <2>1, FreeOwns
<1>4. Types'
  BY <1>3 DEF Types
<1>5. \A k \in Keys : dict'[k] = IF k = Key(w) THEN obj[w] ELSE dict[k]
  BY <1>1 DEF Types
<1>6. \A u \in Workers : pc'[u] # "replace"
  <2>1. Inside \subseteq {w}
    BY DEF KeyspaceExclusive, Inside
  <2>2. QED
    BY <2>1 DEF Inside, Types
<1>7. Created' /\ Searched'
  BY <1>3, <1>5, <1>6 DEF Created, Searched, Types
<1>8. ObjectsOwned'
  <2>1. ASSUME NEW o \in Objects, life'[o] = "live"
        PROVE  \/ \E k \in Keys : dict'[k] = o
               \/ \E u \in Workers : Setting(u)' /\ obj'[u] = o
    <3>1. \/ \E k \in Keys : dict[k] = o
          \/ \E u \in Workers : Setting(u) /\ obj[u] = o
      BY <2>1, <1>3 DEF ObjectsOwned
    <3>2. CASE \E k \in Keys : dict[k] = o
      BY <3>2, <2>1, <1>3, <1>5
    <3>3. CASE o = obj[w]
      BY <3>3, <1>1, <1>5
    <3>4. CASE \E u \in Workers \ {w} : Setting(u) /\ obj[u] = o
      BY <3>4 DEF Types
    <3>5. QED
      BY <3>1, <3>2, <3>3, <3>4
  <2>2. QED
    BY <2>1 DEF ObjectsOwned
<1>9. QED
  BY <1>3, <1>4, <1>7, <1>8

LEMMA OverwriteOwns ==
    ASSUME OwnInv, KeyspaceExclusive', NEW k \in MainKeys, NEW v \in {None, Foreign},
           Overwrite(k, v)
    PROVE  OwnInv'
<1> USE DEF Overwrite, OwnInv
<1>1. k \in Keys
  BY KeysAssumption
<1>2. v \notin Objects
  BY DistinctAssumption
<1>3. Inside \subseteq {MainThread}
  BY DEF KeyspaceExclusive, Inside
<1>4. Free(k, dict[k])
  BY <1>3, FoundExact
<1>5. /\ KeysHoldLive'
      /\ dict' \in [Keys -> Objects \cup {None, Foreign}]
      /\ life' \in [Objects -> {"unused", "live", "freed"}]
      /\ found' \in [Workers -> Objects \cup {None, Foreign, Dangling}]
      /\ \A o \in Objects : life'[o] = "live" => life[o] = "live" /\ dict[k] # o
      /\ \A o \in Objects : life[o] = "live" /\ dict[k] # o => life'[o] = "live"
  BY <1>1, <1>2, <1>4, FreeOwns
<1>6. Types'
  BY <1>5 DEF Types
<1>7. \A l \in Keys : dict'[l] = IF l = k THEN v ELSE dict[l]
  BY <1>1 DEF Types
<1>8. Created'
  BY <1>1, <1>2, <1>5, <1>7 DEF Created, Setting
<1>9. Searched'
  <2>1. \A w \in Workers : pc[w] # "replace"
    BY <1>3, DistinctAssumption DEF Inside
  <2>2. QED
    BY <2>1 DEF Searched
<1>10. ObjectsOwned'
  BY <1>5, <1>7 DEF ObjectsOwned
<1>11. QED
  BY <1>5, <1>6, <1>8, <1>9, <1>10

\* Every step keeps every list at one key, in one pair of hands, or freed.
LEMMA OwnInvStep == OwnInv /\ [SerialNext]_vars => OwnInv'
<1> SUFFICES ASSUME OwnInv, [Next]_vars, KeyspaceExclusive' PROVE OwnInv'
  <2>1. OwnInv /\ UNCHANGED vars => KeyspaceExclusive'
    BY DEF OwnInv, vars, KeyspaceExclusive, Inside
  <2>2. QED
    BY <2>1 DEF SerialNext
<1> USE DEF Setting
<1>1. ASSUME NEW w \in Workers, Command(w) PROVE OwnInv'
  BY <1>1, QuietStep DEF Command, Goto, keyspace, OwnInv, Types
<1>2. ASSUME NEW w \in Workers, BadArity(w) \/ CheckFails(w) \/ ApplyContains(w) PROVE OwnInv'
  <2>1. /\ UNCHANGED <<dict, life, req, found, obj>>
        /\ pc[w] \in {"args", "check", "apply"}
        /\ pc' = [pc EXCEPT ![w] = "return"]
    BY <1>2, Zenon DEF BadArity, CheckFails, ApplyContains, Answer, Goto, keyspace
  <2>2. QED
    BY <2>1, QuietStep DEF OwnInv, Types
<1>3. ASSUME NEW w \in Workers, Lock(w) PROVE OwnInv'
  BY <1>3, QuietStep DEF Lock, Goto, keyspace, OwnInv, Types
<1>4. ASSUME NEW w \in Workers, OpenKey(w) PROVE OwnInv'
  <2>1. Found(w, Key(w)) \subseteq Objects \cup {None, Foreign}
    BY <1>4, RequestKey, FoundTypes DEF OpenKey, Goto, OwnInv, Types
  <2>2. QED
    BY <1>4, <2>1, QuietStep DEF OpenKey, Goto, keyspace, OwnInv, Types
<1>5. ASSUME NEW w \in Workers, UseList(w) PROVE OwnInv'
  BY <1>5, QuietStep DEF UseList, Goto, keyspace, OwnInv, Types
<1>6. ASSUME NEW w \in Workers, CreateList(w) PROVE OwnInv'
  BY <1>6, CreateListOwns
<1>7. ASSUME NEW w \in Workers, SetSearch(w) PROVE OwnInv'
  BY <1>7, SetSearchOwns
<1>8. ASSUME NEW w \in Workers, SetValue(w) PROVE OwnInv'
  BY <1>8, SetValueOwns
<1>9. ASSUME NEW w \in Workers, ApplyInsert(w) PROVE OwnInv'
  BY <1>9, QuietStep DEF ApplyInsert, Answer, Goto, OwnInv, Types
<1>10. ASSUME NEW w \in Workers, ApplyRemove(w) PROVE OwnInv'
  BY <1>10, QuietStep DEF ApplyRemove, Answer, Goto, OwnInv, Types
<1>11. ASSUME NEW w \in Workers, Return(w) PROVE OwnInv'
  BY <1>11, QuietStep DEF Return, Goto, keyspace, OwnInv, Types
<1>12. CASE OverwriteEnter \/ UNCHANGED vars
  <2>1. UNCHANGED <<dict, life, pc, req, found, obj>>
    BY <1>12 DEF OverwriteEnter, keyspace, vars
  <2>2. QED
    BY <2>1 DEF OwnInv, Types, Created, Searched, KeysHoldLive, ObjectsOwned, Key
<1>13. ASSUME NEW k \in MainKeys, NEW v \in {None, Foreign}, Overwrite(k, v) PROVE OwnInv'
  BY <1>13, OverwriteOwns
<1>14. QED
  BY <1>1, <1>2, <1>3, <1>4, <1>5, <1>6, <1>7, <1>8, <1>9, <1>10, <1>11, <1>12, <1>13
  DEF Next, Execute

\* A key never holds a list that was freed, and no list is at two keys: for any
\* pool and any deletions and overwrites, in the behaviours in which no two
\* threads are inside the keyspace at once.
THEOREM KeysHoldLiveTheorem == SerialSpec => []KeysHoldLive
<1>1. OwnInv => KeysHoldLive
  BY DEF OwnInv
<1>2. QED
  BY OwnInvInit, OwnInvStep, <1>1, PTL DEF SerialSpec

\* No list is lost: it is at a key or about to be, or was freed; again where no
\* two threads are inside the keyspace at once.
THEOREM ObjectsOwnedTheorem == SerialSpec => []ObjectsOwned
<1>1. OwnInv => ObjectsOwned
  BY DEF OwnInv
<1>2. QED
  BY OwnInvInit, OwnInvStep, <1>1, PTL DEF SerialSpec

-----------------------------------------------------------------------------
(* Types, which rest on nothing above.                                     *)

Bagged(b) == IsABag(b) /\ BagToSet(b) \subseteq Values

\* Where each worker is tells what it was sent and what it has in its hands.
Hands ==
    /\ \A w \in Workers : pc[w] \notin {"idle", "args", "return"} => Val(w) # WrongArity
    /\ \A w \in Workers : pc[w] \in {"set", "replace", "apply"} =>
            Val(w) # NotInteger /\ obj[w] \in Objects

Sent == \A w \in Workers : IF pc[w] = "idle" THEN req[w] = None ELSE req[w] \in Requests

TypeInv == TypeOK /\ Hands /\ Sent

\* A list operation leaves a bag of integers.
LEMMA OneMore ==
    ASSUME NEW b, Bagged(b), NEW v \in Values
    PROVE  Bagged(BagAdd(b, v))
BY DEF Bagged, IsABag, BagToSet, BagAdd

LEMMA OneLess ==
    ASSUME NEW b, Bagged(b), NEW v \in Values
    PROVE  Bagged(BagRemove(b, v))
BY DEF Bagged, IsABag, BagToSet, BagRemove

LEMMA Operand ==
    ASSUME TypeInv, NEW w \in Workers, pc[w] = "apply"
    PROVE  Val(w) \in Values /\ obj[w] \in Objects
BY RequestsAssumption DEF TypeInv, Hands, Sent, Val

LEMMA TypeInvInit == Init => TypeInv
<1> SUFFICES ASSUME Init PROVE TypeInv
  OBVIOUS
<1>1. Bagged(EmptyBag)
  BY DEF Bagged, IsABag, BagToSet, EmptyBag, SetToBag
<1>2. QED
  BY <1>1, DistinctAssumption DEF Init, TypeInv, TypeOK, Hands, Sent, Bagged

\* A step that answers goes to "return", from where its worker has no business
\* with the lock, the command or the list.
LEMMA AnswerTypes ==
    ASSUME TypeInv, NEW w \in Workers, NEW a \in Answers, Answer(w, a),
           pc[w] \in {"args", "check", "apply"},
           UNCHANGED <<dict, life, gil, req, found, obj>>,
           DOMAIN content' = Objects, \A o \in Objects : Bagged(content'[o])
    PROVE  TypeInv'
<1> USE DistinctAssumption DEF TypeInv, TypeOK, Answer, Goto
<1>1. /\ out' = [out EXCEPT ![w] = a] /\ pc' = [pc EXCEPT ![w] = "return"]
      /\ \A u \in Workers \ {w} : out'[u] = out[u] /\ pc'[u] = pc[u]
      /\ out'[w] = a /\ pc'[w] = "return"
  OBVIOUS
<1>2. TypeOK'
  <2>1. out' \in [Workers -> Answers \cup {None}]
    BY <1>1
  <2>2. \A u \in Workers : out'[u] # None <=> pc'[u] = "return"
    BY <1>1
  <2>3. \A u \in Workers : gil' = u <=> pc'[u] = "open"
    BY <1>1
  <2>4. \A o \in Objects : IsABag(content'[o]) /\ BagToSet(content'[o]) \subseteq Values
    BY DEF Bagged
  <2>5. pc' \in [Workers -> {"idle", "args", "open", "check", "set", "replace", "apply",
                             "return"}]
    BY <1>1
  <2>6. QED
    BY <2>1, <2>2, <2>3, <2>4, <2>5
<1>3. Hands' /\ Sent'
  BY <1>1 DEF Hands, Sent, Val
<1>4. QED
  BY <1>2, <1>3

\* One list changes, and the others are what they were.
LEMMA ContentChanged ==
    ASSUME DOMAIN content = Objects, NEW o \in Objects, NEW b,
           content' = [content EXCEPT ![o] = b],
           Bagged(b), \A p \in Objects : Bagged(content[p])
    PROVE  \A p \in Objects : Bagged(content'[p])
<1>1. \A p \in Objects : content'[p] = IF p = o THEN b ELSE content[p]
  OBVIOUS
<1>2. QED
  BY <1>1

LEMMA TypeInvStep == TypeInv /\ [Next]_vars => TypeInv'
<1> SUFFICES ASSUME TypeInv, [Next]_vars PROVE TypeInv'
  OBVIOUS
<1> USE DistinctAssumption DEF TypeInv, TypeOK, Hands, Sent, Goto, Val, Key, Op, keyspace
<1>1. ASSUME NEW w \in Workers, Command(w) PROVE TypeInv'
  BY <1>1 DEF Command
<1>2. ASSUME NEW w \in Workers, BadArity(w) PROVE TypeInv'
  BY <1>2, AnswerTypes DEF BadArity, Answers, Bagged
<1>3. ASSUME NEW w \in Workers, Lock(w) PROVE TypeInv'
  BY <1>3 DEF Lock
<1>4. ASSUME NEW w \in Workers, OpenKey(w) PROVE TypeInv'
  <2>1. Key(w) \in Keys
    BY <1>4, RequestsAssumption DEF OpenKey
  <2>2. Found(w, Key(w)) \subseteq Objects \cup {None, Foreign}
    BY <2>1, FoundTypes
  <2>3. QED
    BY <1>4, <2>2 DEF OpenKey
<1>5. ASSUME NEW w \in Workers, CheckFails(w) PROVE TypeInv'
  BY <1>5, AnswerTypes DEF CheckFails, Answers, Bagged
<1>6. ASSUME NEW w \in Workers, UseList(w) PROVE TypeInv'
  BY <1>6 DEF UseList
<1>7. ASSUME NEW w \in Workers, CreateList(w) PROVE TypeInv'
  <2>1. PICK o \in Objects : /\ life' = [life EXCEPT ![o] = "live"]
                             /\ content' = [content EXCEPT ![o] = EmptyBag]
                             /\ obj' = [obj EXCEPT ![w] = o]
    BY <1>7 DEF CreateList
  <2>2. IsABag(EmptyBag) /\ BagToSet(EmptyBag) \subseteq Values
    BY DEF IsABag, BagToSet, EmptyBag, SetToBag
  <2>3. /\ DOMAIN content' = Objects
        /\ \A p \in Objects : content'[p] = IF p = o THEN EmptyBag ELSE content[p]
    BY <2>1
  <2>4. \A p \in Objects : IsABag(content'[p]) /\ BagToSet(content'[p]) \subseteq Values
    BY <2>2, <2>3
  <2>5. QED
    BY <1>7, <2>1, <2>3, <2>4 DEF CreateList
<1>8. ASSUME NEW w \in Workers, SetSearch(w) \/ SetValue(w) PROVE TypeInv'
  <2>1. Key(w) \in Keys
    BY <1>8, RequestsAssumption DEF SetSearch, SetValue
  <2>2. CASE SetSearch(w)
    <3>1. Found(w, Key(w)) \subseteq Objects \cup {None, Foreign}
      BY <2>1, FoundTypes
    <3>2. QED
      BY <2>2, <3>1 DEF SetSearch
  <2>3. CASE SetValue(w)
    BY <2>1, <2>3 DEF SetValue, Free
  <2>4. QED
    BY <1>8, <2>2, <2>3
<1>9. ASSUME NEW w \in Workers, ApplyInsert(w) PROVE TypeInv'
  <2>1. /\ Val(w) \in Values /\ obj[w] \in Objects /\ pc[w] = "apply"
        /\ content' = [content EXCEPT ![obj[w]] = BagAdd(@, Val(w))]
        /\ Answer(w, "success") /\ UNCHANGED <<dict, life, gil, req, found, obj>>
    BY <1>9, Operand DEF ApplyInsert
  <2>2. \A o \in Objects : Bagged(content[o])
    BY DEF Bagged
  <2>3. Bagged(BagAdd(content[obj[w]], Val(w)))
    BY <2>1, <2>2, OneMore
  <2>4. \A o \in Objects : Bagged(content'[o])
    BY <2>1, <2>2, <2>3, ContentChanged
  <2>5. QED
    <3>1. DOMAIN content' = Objects
      BY <2>1
    <3>2. QED
      BY <2>1, <2>4, <3>1, AnswerTypes DEF Answers
<1>10. ASSUME NEW w \in Workers, ApplyRemove(w) PROVE TypeInv'
  <2>1. /\ Val(w) \in Values /\ obj[w] \in Objects /\ pc[w] = "apply"
        /\ content' = [content EXCEPT ![obj[w]] = BagRemove(@, Val(w))]
        /\ Answer(w, "success") \/ Answer(w, "failure")
        /\ UNCHANGED <<dict, life, gil, req, found, obj>>
    BY <1>10, Operand DEF ApplyRemove
  <2>2. \A o \in Objects : Bagged(content[o])
    BY DEF Bagged
  <2>3. Bagged(BagRemove(content[obj[w]], Val(w)))
    BY <2>1, <2>2, OneLess
  <2>4. \A o \in Objects : Bagged(content'[o])
    BY <2>1, <2>2, <2>3, ContentChanged
  <2>5. QED
    <3>1. DOMAIN content' = Objects
      BY <2>1
    <3>2. QED
      BY <2>1, <2>4, <3>1, AnswerTypes DEF Answers
<1>11. ASSUME NEW w \in Workers, ApplyContains(w) PROVE TypeInv'
  BY <1>11, AnswerTypes DEF ApplyContains, Answers, Bagged
<1>12. ASSUME NEW w \in Workers, Return(w) PROVE TypeInv'
  BY <1>12 DEF Return
<1>13. ASSUME NEW k \in MainKeys, NEW v \in {None, Foreign}, Overwrite(k, v) PROVE TypeInv'
  BY <1>13, KeysAssumption DEF Overwrite, Free
<1>14. CASE OverwriteEnter \/ UNCHANGED vars
  BY <1>14 DEF OverwriteEnter, vars
<1>15. QED
  BY <1>1, <1>2, <1>3, <1>4, <1>5, <1>6, <1>7, <1>8, <1>9, <1>10, <1>11, <1>12,
     <1>13, <1>14 DEF Next, Execute

\* Type correctness, for any pool and any commands, whoever is inside the
\* keyspace: a worker answers once, and holds the lock around OpenKey and
\* nowhere else.
THEOREM TypeOKTheorem == Spec => []TypeOK
<1>1. TypeInv => TypeOK
  BY DEF TypeInv
<1>2. QED
  BY TypeInvInit, TypeInvStep, <1>1, PTL DEF Spec

-----------------------------------------------------------------------------
(***************************************************************************)
(* One worker, and no other command on its keys: the commands are those of *)
(* a keyspace of bags.                                                     *)
(***************************************************************************)

Lone == (\A u, v \in Workers : u = v) /\ MainKeys = {}

\* What the worker has read of the keyspace is still so, and the list it has
\* created is still empty.
Follows(w) ==
    /\ pc[w] = "check" => found[w] = dict[Key(w)]
    /\ Setting(w) => /\ found[w] = None /\ dict[Key(w)] = None
                     /\ Op(w) = "insert" /\ content[obj[w]] = EmptyBag
    /\ pc[w] = "apply" =>
            /\ dict[Key(w)] = obj[w]
            /\ IF found[w] = None THEN Op(w) = "insert" /\ content[obj[w]] = EmptyBag
               ELSE found[w] = obj[w]

LoneInv == gil # MainThread /\ \A w \in Workers : Follows(w)

LEMMA LoneInvInit == Init => LoneInv
BY DistinctAssumption DEF Init, LoneInv, Follows, Setting

\* Nobody but the worker is ever inside the keyspace.
LEMMA LoneInside ==
    ASSUME Lone, gil # MainThread, NEW w \in Workers
    PROVE  Inside \subseteq {w}
BY DEF Lone, Inside

LEMMA LoneSerial ==
    ASSUME Lone, LoneInv, [Next]_vars
    PROVE  gil' # MainThread /\ [SerialNext]_vars
<1>1. gil' # MainThread
  BY DistinctAssumption
  DEF Lone, LoneInv, Next, Execute, Command, BadArity, Lock, OpenKey, CheckFails, UseList,
      CreateList, SetSearch, SetValue, ApplyInsert, ApplyRemove, ApplyContains, Return,
      OverwriteEnter, vars
<1>2. KeyspaceExclusive'
  BY <1>1 DEF Lone, KeyspaceExclusive, Inside
<1>3. QED
  BY <1>1, <1>2 DEF SerialNext

\* A list operation is on the list of the key, which is no unused one.
LEMMA Operates ==
    ASSUME TypeInv, OwnInv, LoneInv, NEW w \in Workers, pc[w] = "apply"
    PROVE  /\ Key(w) \in Keys /\ dict[Key(w)] = obj[w] /\ obj[w] \in Objects
           /\ life[obj[w]] = "live"
BY RequestKey DEF TypeInv, Hands, LoneInv, Follows, OwnInv, KeysHoldLive

\* Nobody frees what is behind an open key.
LEMMA LoneSees ==
    ASSUME LoneInv, TypeInv, NEW w \in Workers, pc[w] = "check"
    PROVE  Seen(w) = {found[w]}
<1>1. Key(w) \in Keys /\ found[w] = dict[Key(w)]
  BY RequestsAssumption DEF TypeInv, Sent, Key, LoneInv, Follows
<1>2. found[w] # Dangling
  BY <1>1, DistinctAssumption DEF TypeInv, TypeOK
<1>3. QED
  BY <1>2 DEF Seen

LEMMA LoneInvStep ==
    ASSUME Lone, TypeInv, OwnInv, LoneInv, [Next]_vars
    PROVE  LoneInv'
<1> USE LoneSerial DEF TypeInv, TypeOK, Goto, keyspace, Setting
<1>1. ASSUME NEW w \in Workers, Command(w) \/ Lock(w) \/ Return(w) PROVE LoneInv'
  <2>1. /\ UNCHANGED keyspace /\ pc'[w] \notin {"check", "set", "replace", "apply"}
    BY <1>1 DEF Command, Lock, Return
  <2>2. Follows(w)'
    BY <2>1 DEF Follows
  <2>3. QED
    BY <2>1, <2>2 DEF Lone, LoneInv
<1>2. ASSUME NEW w \in Workers, BadArity(w) \/ CheckFails(w) \/ ApplyContains(w) PROVE LoneInv'
  <2>1. /\ UNCHANGED keyspace /\ pc' = [pc EXCEPT ![w] = "return"]
    BY <1>2, Zenon DEF BadArity, CheckFails, ApplyContains, Answer
  <2>2. Follows(w)'
    BY <2>1 DEF Follows
  <2>3. QED
    BY <2>1, <2>2 DEF Lone, LoneInv
<1>3. ASSUME NEW w \in Workers, OpenKey(w) PROVE LoneInv'
  <2>1. /\ UNCHANGED <<keyspace, req>> /\ pc'[w] = "check" /\ found'[w] = dict[Key(w)]
    BY <1>3, LoneInside, FoundExact DEF OpenKey, LoneInv
  <2>2. Follows(w)'
    BY <2>1 DEF Follows, Key
  <2>3. QED
    BY <2>1, <2>2 DEF Lone, LoneInv
<1>4. ASSUME NEW w \in Workers, UseList(w) PROVE LoneInv'
  <2>1. /\ UNCHANGED <<keyspace, req, found>> /\ pc[w] = "check" /\ pc'[w] = "apply"
        /\ obj'[w] = found[w] /\ found[w] \in Objects
    BY <1>4, LoneSees DEF UseList
  <2>2. found[w] # None /\ found[w] = dict[Key(w)]
    BY <2>1, DistinctAssumption DEF LoneInv, Follows
  <2>3. Follows(w)'
    BY <2>1, <2>2 DEF Follows, Key
  <2>4. QED
    BY <2>1, <2>3 DEF Lone, LoneInv
<1>5. ASSUME NEW w \in Workers, CreateList(w) PROVE LoneInv'
  <2>1. PICK o \in Objects : /\ content' = [content EXCEPT ![o] = EmptyBag]
                             /\ obj' = [obj EXCEPT ![w] = o]
    BY <1>5 DEF CreateList
  <2>2. /\ UNCHANGED <<dict, req, found>> /\ pc[w] = "check" /\ pc'[w] = "set"
        /\ found[w] = None /\ Op(w) = "insert" /\ obj'[w] = o
    BY <1>5, <2>1, LoneSees DEF CreateList
  <2>3. dict[Key(w)] = None /\ content'[o] = EmptyBag
    BY <2>1, <2>2 DEF LoneInv, Follows
  <2>4. Follows(w)'
    BY <2>2, <2>3 DEF Follows, Key, Op
  <2>5. QED
    BY <2>4 DEF Lone, LoneInv
<1>6. ASSUME NEW w \in Workers, SetSearch(w) \/ SetValue(w) PROVE LoneInv'
  <2>1. CASE SetSearch(w)
    <3>1. /\ UNCHANGED <<dict, content, req, obj>> /\ pc[w] = "set" /\ pc'[w] = "replace"
          /\ found'[w] = dict[Key(w)]
      BY <2>1, LoneInside, FoundExact DEF SetSearch, LoneInv
    <3>2. Follows(w)'
      BY <3>1 DEF LoneInv, Follows, Key, Op
    <3>3. QED
      BY <3>2 DEF Lone, LoneInv
  <2>2. CASE SetValue(w)
    <3>1. /\ UNCHANGED <<content, req, obj>> /\ pc[w] = "replace" /\ pc'[w] = "apply"
          /\ dict' = [dict EXCEPT ![Key(w)] = obj[w]] /\ found'[w] = found[w]
      BY <2>2 DEF SetValue, Free
    <3>2. dict'[Key(w)] = obj[w]
      BY <3>1, RequestKey
    <3>3. Follows(w)'
      BY <3>1, <3>2 DEF LoneInv, Follows, Key, Op
    <3>4. QED
      BY <3>3 DEF Lone, LoneInv
  <2>3. QED
    BY <1>6, <2>1, <2>2
<1>7. ASSUME NEW w \in Workers, ApplyInsert(w) \/ ApplyRemove(w) PROVE LoneInv'
  <2>1. /\ UNCHANGED life /\ pc[w] = "apply" /\ pc'[w] = "return"
        /\ \A o \in Objects : o # obj[w] => content'[o] = content[o]
    BY <1>7 DEF ApplyInsert, ApplyRemove, Answer
  <2>2. Follows(w)'
    BY <2>1 DEF Follows
  <2>3. QED
    BY <2>2 DEF Lone, LoneInv
<1>8. CASE UNCHANGED vars
  BY <1>8 DEF vars, LoneInv, Follows, Key, Op
<1>9. QED
  BY <1>1, <1>2, <1>3, <1>4, <1>5, <1>6, <1>7, <1>8 DEF Next, Execute, OverwriteEnter, Lone

LEMMA LoneInvariant == ASSUME Lone PROVE Spec => [](TypeInv /\ OwnInv /\ LoneInv)
<1>1. TypeInv /\ OwnInv /\ LoneInv /\ [Next]_vars => (TypeInv /\ OwnInv /\ LoneInv)'
  BY TypeInvStep, OwnInvStep, LoneInvStep, LoneSerial
<1>2. QED
  BY TypeInvInit, OwnInvInit, LoneInvInit, <1>1, PTL DEF Spec

\* The keyspace as clients see it.
BagAt(k) ==
    IF dict[k] \notin Objects THEN dict[k]
    ELSE IF Fresh(dict[k]) THEN None ELSE content[dict[k]]

LEMMA Unseen ==
    ASSUME \A k \in Keys : BagAt(k)' = BagAt(k), UNCHANGED <<req, out>>
    PROVE  UNCHANGED Abstract!kvars
BY DEF Abstract!kvars, BagAt

\* A bag is neither of the two values that stand for something else.
LEMMA BagsApart ==
    ASSUME TypeInv, NEW o \in Objects
    PROVE  content[o] # None /\ content[o] # Foreign
<1>1. /\ content[o] \in [DOMAIN content[o] -> {n \in Nat : n > 0}]
      /\ DOMAIN content[o] \subseteq Values
  BY DEF TypeInv, TypeOK, IsABag, BagToSet
<1>2. content[o] \in [DOMAIN content[o] -> Nat]
  BY <1>1
<1>3. QED
  BY <1>1, <1>2, MarkersAssumption

\* Between operations on its list, what a key holds is what is seen.
LEMMA Visible ==
    ASSUME Lone, NEW w \in Workers, pc[w] # "apply", NEW k \in Keys
    PROVE  BagAt(k) = IF dict[k] \notin Objects THEN dict[k] ELSE content[dict[k]]
BY DEF Lone, BagAt, Fresh

LEMMA VisibleNext ==
    ASSUME Lone, NEW w \in Workers, pc'[w] # "apply", NEW k \in Keys
    PROVE  BagAt(k)' = IF dict'[k] \notin Objects THEN dict'[k] ELSE content'[dict'[k]]
BY DEF Lone, BagAt, Fresh

\* One worker answers, and the key is left with what the command makes of it.
LEMMA Acts ==
    ASSUME NEW w \in Workers, TypeInv, pc[w] \notin {"idle", "return"}, req' = req,
           NEW a, out' = [out EXCEPT ![w] = a],
           a = Abstract!Answer(req[w], BagAt(Key(w))),
           \A k \in Keys : BagAt(k)' = IF k = Key(w) THEN Abstract!After(req[w], BagAt(k))
                                       ELSE BagAt(k)
    PROVE  Abstract!Act(w)
<1>1. req[w] # None /\ out[w] = None /\ Key(w) \in Keys
  BY DistinctAssumption, RequestsAssumption DEF TypeInv, TypeOK, Sent, Key
<1>2. [k \in Keys |-> BagAt(k)]'
        = [[k \in Keys |-> BagAt(k)] EXCEPT ![Key(w)] = Abstract!After(req[w], BagAt(Key(w)))]
  OBVIOUS
<1>3. [k \in Keys |-> BagAt(k)][Key(w)] = BagAt(Key(w))
  BY <1>1
<1>4. [k \in Keys |-> BagAt(k)]'
        = [[k \in Keys |-> BagAt(k)] EXCEPT
             ![Key(w)] = Abstract!After(req[w], [k \in Keys |-> BagAt(k)][Key(w)])]
  BY <1>2, <1>3
<1>5. out' = [out EXCEPT ![w] = Abstract!Answer(req[w], [k \in Keys |-> BagAt(k)][Key(w)])]
  BY <1>3
<1>6. QED
  BY <1>1, <1>4, <1>5 DEF Abstract!Act, BagAt, Key

LEMMA SameOperators ==
    /\ \A b, v : Abstract!BagAdd(b, v) = BagAdd(b, v)
    /\ \A b, v : Abstract!BagRemove(b, v) = BagRemove(b, v)
    /\ Abstract!Empty = EmptyBag
<1>1. \A b, v : Abstract!BagAdd(b, v) = BagAdd(b, v)
  BY DEF Abstract!BagAdd, BagAdd
<1>2. \A b, v : Abstract!BagRemove(b, v) = BagRemove(b, v)
  BY DEF Abstract!BagRemove, BagRemove
<1>3. Abstract!Empty = EmptyBag
  BY DEF Abstract!Empty, EmptyBag, SetToBag
<1>4. QED
  BY <1>1, <1>2, <1>3

\* Up to the list operation nothing is to be seen.
LEMMA StepUnseen ==
    ASSUME Lone, TypeInv, OwnInv, LoneInv, NEW w \in Workers,
           Lock(w) \/ OpenKey(w) \/ UseList(w) \/ CreateList(w) \/ SetSearch(w) \/ SetValue(w)
    PROVE  UNCHANGED Abstract!kvars
<1> USE DEF Goto, keyspace, TypeInv, TypeOK, Setting
<1>1. UNCHANGED <<req, out>> /\ pc[w] # "apply"
  BY DEF Lock, OpenKey, UseList, CreateList, SetSearch, SetValue
<1>2. CASE Lock(w) \/ OpenKey(w) \/ CreateList(w) \/ SetSearch(w)
  <2>1. UNCHANGED dict /\ pc'[w] # "apply"
    BY <1>2 DEF Lock, OpenKey, CreateList, SetSearch
  <2>2. \A k \in Keys : dict[k] \in Objects => content'[dict[k]] = content[dict[k]]
    <3>1. CASE UNCHANGED content
      BY <3>1
    <3>2. CASE CreateList(w)
      BY <3>2 DEF CreateList, OwnInv, KeysHoldLive
    <3>3. QED
      BY <1>2, <3>1, <3>2 DEF Lock, OpenKey, SetSearch
  <2>3. \A k \in Keys : BagAt(k)' = BagAt(k)
    BY <1>1, <2>1, <2>2, Visible, VisibleNext
  <2>4. QED
    BY <1>1, <2>3, Unseen
<1>3. CASE UseList(w)
  <2>1. UNCHANGED <<dict, content, found>> /\ found[w] # None
    BY <1>3, LoneSees, DistinctAssumption DEF UseList
  <2>2. \A o \in Objects : ~Fresh(o)'
    BY <2>1 DEF Lone, Fresh
  <2>3. \A k \in Keys : BagAt(k)' = BagAt(k)
    BY <1>1, <2>1, <2>2, Visible DEF BagAt
  <2>4. QED
    BY <1>1, <2>3, Unseen
<1>4. CASE SetValue(w)
  <2>1. /\ pc[w] = "replace" /\ pc'[w] = "apply" /\ UNCHANGED <<content, obj>>
        /\ dict' = [dict EXCEPT ![Key(w)] = obj[w]] /\ found'[w] = found[w]
    BY <1>4 DEF SetValue, Free
  <2>2. /\ found[w] = None /\ dict[Key(w)] = None /\ Key(w) \in Keys
        /\ obj[w] \in Objects /\ \A k \in Keys : dict[k] # obj[w]
    BY <2>1, RequestKey DEF LoneInv, Follows, OwnInv, Created
  <2>3. \A o \in Objects : Fresh(o)' <=> o = obj[w]
    BY <2>1, <2>2 DEF Lone, Fresh
  <2>4. ASSUME NEW k \in Keys PROVE BagAt(k)' = BagAt(k)
    <3>1. CASE k = Key(w)
      <4>1. dict'[k] = obj[w]
        BY <2>1, <2>2, <3>1
      <4>2. BagAt(k)' = None
        BY <2>2, <2>3, <4>1 DEF BagAt
      <4>3. BagAt(k) = None
        BY <1>1, <2>2, <3>1, DistinctAssumption, Visible
      <4>4. QED
        BY <4>2, <4>3
    <3>2. CASE k # Key(w)
      <4>1. dict'[k] = dict[k] /\ dict[k] # obj[w]
        BY <2>1, <2>2, <3>2
      <4>2. BagAt(k)' = IF dict[k] \notin Objects THEN dict[k] ELSE content[dict[k]]
        BY <2>1, <2>3, <4>1 DEF BagAt
      <4>3. QED
        BY <1>1, <4>2, Visible
    <3>3. QED
      BY <3>1, <3>2
  <2>5. QED
    BY <1>1, <2>4, Unseen
<1>5. QED
  BY <1>2, <1>3, <1>4

LEMMA CommandInvokes ==
    ASSUME Lone, TypeInv, NEW w \in Workers, Command(w)
    PROVE  Abstract!Invoke(w)
<1>1. /\ pc[w] # "apply" /\ pc'[w] # "apply" /\ UNCHANGED <<dict, content, out>>
      /\ req[w] = None /\ \E r \in Requests : req' = [req EXCEPT ![w] = r]
  BY DEF Command, Goto, keyspace, TypeInv, TypeOK, Sent
<1>2. \A k \in Keys : BagAt(k)' = BagAt(k)
  BY <1>1, Visible, VisibleNext
<1>3. QED
  BY <1>1, <1>2 DEF Abstract!Invoke, BagAt

LEMMA ReturnReturns ==
    ASSUME Lone, TypeInv, NEW w \in Workers, Return(w)
    PROVE  Abstract!Return(w)
<1>1. /\ pc[w] = "return" /\ pc'[w] = "idle" /\ UNCHANGED <<dict, content>>
      /\ req' = [req EXCEPT ![w] = None] /\ out' = [out EXCEPT ![w] = None]
  BY DEF Return, Goto, keyspace, TypeInv, TypeOK
<1>2. \A k \in Keys : BagAt(k)' = BagAt(k)
  BY <1>1, Visible, VisibleNext
<1>3. out[w] # None
  BY <1>1 DEF TypeInv, TypeOK
<1>4. QED
  BY <1>1, <1>2, <1>3 DEF Abstract!Return, BagAt

\* A command that is refused acts when it says so.
LEMMA RefusalActs ==
    ASSUME Lone, TypeInv, OwnInv, LoneInv, NEW w \in Workers, BadArity(w) \/ CheckFails(w)
    PROVE  Abstract!Act(w)
<1> DEFINE b == BagAt(Key(w))
<1>0. pc[w] = "check" => Seen(w) = {found[w]}
  BY LoneSees
<1>1. PICK a : /\ Answer(w, a) /\ UNCHANGED <<keyspace, req>>
               /\ \/ pc[w] = "args" /\ Val(w) = WrongArity /\ a = "wrong arity"
                  \/ pc[w] = "check" /\ found[w] = Foreign /\ a = "wrong type"
                  \/ pc[w] = "check" /\ found[w] # Foreign /\ Val(w) = NotInteger /\ a = "wrong int type"
                  \/ /\ pc[w] = "check" /\ found[w] = None /\ Val(w) # NotInteger
                     /\ Op(w) # "insert" /\ a = "List does not exist"
  BY <1>0 DEF BadArity, CheckFails
<1>2. /\ out' = [out EXCEPT ![w] = a] /\ pc'[w] = "return"
      /\ pc[w] \in {"args", "check"} /\ UNCHANGED <<dict, content, req>>
  BY <1>1 DEF Answer, Goto, keyspace, TypeInv, TypeOK
<1>3. \A k \in Keys : BagAt(k)' = BagAt(k)
  BY <1>2, Visible, VisibleNext
<1>4. Key(w) \in Keys
  BY <1>2, RequestKey
<1>5. b = IF dict[Key(w)] \notin Objects THEN dict[Key(w)] ELSE content[dict[Key(w)]]
  BY <1>2, <1>4, Visible
<1>6. pc[w] = "check" => /\ Val(w) # WrongArity /\ (b = Foreign <=> found[w] = Foreign)
                         /\ (found[w] = None => b = None)
  <2>1. pc[w] = "check" => Val(w) # WrongArity /\ found[w] = dict[Key(w)]
    BY DEF TypeInv, Hands, LoneInv, Follows
  <2>2. QED
    BY <1>5, <2>1, BagsApart, DistinctAssumption
<1> HIDE DEF b
<1>7. Abstract!Reject(req[w], b) = a /\ a # "accepted"
  BY <1>1, <1>6, DistinctAssumption DEF Abstract!Reject, Op, Val
<1>8. a = Abstract!Answer(req[w], b) /\ Abstract!After(req[w], b) = b
  BY <1>7 DEF Abstract!Answer, Abstract!After
<1>9. QED
  BY <1>2, <1>3, <1>8, Acts DEF b

\* A list operation acts on the list of its key: the key is seen to hold that
\* list afterwards, and the other keys are seen as before.
LEMMA OperationActs ==
    ASSUME Lone, TypeInv, OwnInv, LoneInv, NEW w \in Workers,
           ApplyInsert(w) \/ ApplyRemove(w) \/ ApplyContains(w)
    PROVE  Abstract!Act(w)
<1> DEFINE b == BagAt(Key(w))
           o == obj[w]
           after == Abstract!After(req[w], b)
<1>1. PICK a : /\ Answer(w, a) /\ UNCHANGED <<dict, req>> /\ pc[w] = "apply"
               /\ a = IF Op(w) = "insert" THEN "success"
                      ELSE IF Op(w) = "remove" THEN (IF Holds(w) THEN "success" ELSE "failure")
                      ELSE (IF Holds(w) THEN "value present" ELSE "value not present")
  <2>1. CASE ApplyInsert(w)
    BY <2>1 DEF ApplyInsert
  <2>2. CASE ApplyRemove(w)
    BY <2>2 DEF ApplyRemove
  <2>3. CASE ApplyContains(w)
    BY <2>3 DEF ApplyContains, keyspace
  <2>4. QED
    BY <2>1, <2>2, <2>3
<1>2. out' = [out EXCEPT ![w] = a] /\ pc'[w] = "return"
  <2>1. out' = [out EXCEPT ![w] = a] /\ pc' = [pc EXCEPT ![w] = "return"]
    BY <1>1, Zenon DEF Answer, Goto
  <2>2. QED
    BY <2>1 DEF TypeInv, TypeOK
<1>3. /\ Key(w) \in Keys /\ dict[Key(w)] = o /\ o \in Objects
      /\ \A k \in Keys : k # Key(w) => dict[k] # o
  <2>1. Key(w) \in Keys /\ dict[Key(w)] = o /\ o \in Objects
    BY <1>1, Operates
  <2>2. \A k, l \in Keys : k # l /\ dict[k] \in Objects => dict[k] # dict[l]
    BY DEF OwnInv, KeysHoldLive
  <2>3. QED
    BY <2>1, <2>2
<1>4. b = IF found[w] = None THEN None ELSE content[o]
  BY <1>1, <1>3 DEF Lone, BagAt, Fresh
<1>5. found[w] = None => Op(w) = "insert" /\ content[o] = EmptyBag
  BY <1>1 DEF LoneInv, Follows
<1>6. Val(w) \notin {WrongArity, NotInteger}
  BY <1>1 DEF TypeInv, Hands
<1>7. b # Foreign /\ (b = None <=> found[w] = None)
  BY <1>3, <1>4, BagsApart, DistinctAssumption
<1>8. Op(w) \in {"insert", "remove", "contains"}
  BY <1>1, RequestsAssumption DEF TypeInv, Sent, Op
<1> HIDE DEF b, o
<1>9. Abstract!Reject(req[w], b) = "accepted"
  BY <1>5, <1>6, <1>7 DEF Abstract!Reject, Op, Val
<1>10. a = Abstract!Answer(req[w], b)
  BY <1>1, <1>4, <1>5, <1>8, <1>9 DEF Abstract!Answer, Op, Val, Holds, o
<1>11. content'[o] = after /\ \A p \in Objects : p # o => content'[p] = content[p]
  <2>1. DOMAIN content = Objects /\ o \in Objects
    BY <1>3 DEF TypeInv, TypeOK
  <2>2. CASE Op(w) = "insert"
    <3>1. content' = [content EXCEPT ![o] = BagAdd(content[o], Val(w))]
      BY <2>2 DEF ApplyInsert, ApplyRemove, ApplyContains, o
    <3>2. content[o] = IF b = None THEN Abstract!Empty ELSE b
      BY <1>4, <1>5, <1>7, SameOperators
    <3>3. after = BagAdd(content[o], Val(w))
      BY <1>9, <2>2, <3>2, SameOperators DEF Abstract!After, Op, Val
    <3>4. QED
      BY <2>1, <3>1, <3>3
  <2>3. CASE Op(w) = "remove"
    <3>1. content' = [content EXCEPT ![o] = BagRemove(content[o], Val(w))]
      BY <2>3 DEF ApplyInsert, ApplyRemove, ApplyContains, o
    <3>2. after = BagRemove(content[o], Val(w))
      BY <1>4, <1>5, <1>9, <2>3, SameOperators DEF Abstract!After, Op, Val
    <3>3. QED
      BY <2>1, <3>1, <3>2
  <2>4. CASE Op(w) = "contains"
    <3>1. content' = content
      BY <2>4 DEF ApplyInsert, ApplyRemove, ApplyContains, keyspace
    <3>2. after = content[o]
      BY <1>4, <1>5, <1>9, <2>4 DEF Abstract!After, Op
    <3>3. QED
      BY <3>1, <3>2
  <2>5. QED
    BY <1>8, <2>2, <2>3, <2>4
<1>12. ASSUME NEW k \in Keys
       PROVE  BagAt(k)' = IF k = Key(w) THEN Abstract!After(req[w], BagAt(k)) ELSE BagAt(k)
  <2>1. BagAt(k)' = IF dict[k] \notin Objects THEN dict[k] ELSE content'[dict[k]]
    BY <1>1, <1>2, VisibleNext
  <2>2. CASE k = Key(w)
    BY <1>3, <1>11, <2>1, <2>2 DEF b
  <2>3. CASE k # Key(w)
    <3>1. ~Fresh(dict[k])
      BY <1>3, <2>3 DEF Lone, Fresh, o
    <3>2. QED
      BY <1>3, <1>11, <2>1, <2>3, <3>1 DEF BagAt
  <2>4. QED
    BY <2>2, <2>3
<1>13. QED
  BY <1>1, <1>2, <1>10, <1>12, Acts DEF b

LEMMA KeyedStep ==
    ASSUME Lone, TypeInv, OwnInv, LoneInv, [Next]_vars
    PROVE  [Abstract!KNext]_(Abstract!kvars)
<1>1. ASSUME NEW w \in Workers, Command(w) PROVE Abstract!KNext
  BY <1>1, CommandInvokes DEF Abstract!KNext
<1>2. ASSUME NEW w \in Workers, BadArity(w) \/ CheckFails(w) PROVE Abstract!KNext
  BY <1>2, RefusalActs DEF Abstract!KNext
<1>3. ASSUME NEW w \in Workers,
             \/ Lock(w) \/ OpenKey(w) \/ UseList(w) \/ CreateList(w)
             \/ SetSearch(w) \/ SetValue(w)
      PROVE  UNCHANGED Abstract!kvars
  BY <1>3, StepUnseen
<1>4. ASSUME NEW w \in Workers, ApplyInsert(w) \/ ApplyRemove(w) \/ ApplyContains(w)
      PROVE  Abstract!KNext
  BY <1>4, OperationActs DEF Abstract!KNext
<1>5. ASSUME NEW w \in Workers, Return(w) PROVE Abstract!KNext
  BY <1>5, ReturnReturns DEF Abstract!KNext
<1>6. CASE UNCHANGED vars
  <2>1. UNCHANGED <<dict, content, pc, req, found, obj, out>>
    BY <1>6 DEF vars
  <2>2. \A k \in Keys : BagAt(k)' = BagAt(k)
    BY <2>1 DEF BagAt, Fresh
  <2>3. QED
    BY <2>1, <2>2, Unseen
<1>7. QED
  BY <1>1, <1>2, <1>3, <1>4, <1>5, <1>6 DEF Next, Execute, OverwriteEnter, Lone

\* The commands of llca_type are those of a keyspace of bags: a refused command
\* acts when it says so, one that is not when it works on the list, and a list
\* that has been created is not seen before it holds its value.
THEOREM ImplementsKeyedBagsTheorem == ASSUME Lone PROVE Spec => ImplementsKeyedBags
<1>1. Init => Abstract!KInit
  BY DistinctAssumption DEF Init, Abstract!KInit
<1>2. TypeInv /\ OwnInv /\ LoneInv /\ [Next]_vars => [Abstract!KNext]_(Abstract!kvars)
  BY KeyedStep
<1>3. QED
  BY <1>1, <1>2, LoneInvariant, PTL DEF Spec, ImplementsKeyedBags, Abstract!KSpec

=============================================================================
