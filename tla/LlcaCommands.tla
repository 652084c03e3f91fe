---------------------------- MODULE LlcaCommands ----------------------------
(***************************************************************************)
(* The commands on the llca_type type: insert, remove and contains, which  *)
(* the workers execute, next to what Redis's main thread does to the same  *)
(* keys with commands of its own (DEL, SET, expiry).                       *)
(*                                                                         *)
(* A handler takes Redis's global lock (the GIL) around OpenKey and no     *)
(* longer: it checks the value, creates the list, sets the key and works   *)
(* on the list without it.  Setting the key is a search of the keyspace    *)
(* and then a change of what it found, and other threads may be inside.    *)
(* llca_insert, llca_remove and llca_contains are one step here; LlcaList  *)
(* takes them apart.                                                       *)
(*                                                                         *)
(* Objects bounds the lists a behaviour may create, MaxCopies the copies   *)
(* of a value in one list.                                                 *)
(***************************************************************************)
EXTENDS Naturals, FiniteSets, Bags, BagsExt

CONSTANTS Workers,     \* threads of the pool
          MainThread,  \* Redis's main thread
          Keys,        \* keys of the Redis keyspace
          Values,      \* integers
          Objects,     \* addresses of llca_obj
          Requests,    \* commands clients send as llca_type.*
          MainKeys,    \* keys that clients delete or overwrite
          MaxCopies,   \* bound on the copies of a value in a list
          WrongArity,  \* in place of a value: the command has none
          NotInteger,  \* in place of a value: it is no integer
          Foreign,     \* a value of another type
          Dangling,    \* what a handle holds whose value Redis has freed
          None         \* nullptr, no key, nobody

ASSUME RequestsAssumption ==
    Requests \subseteq [op  : {"insert", "remove", "contains"},
                        key : Keys,
                        val : Values \cup {WrongArity, NotInteger}]
ASSUME KeysAssumption == MainKeys \subseteq Keys /\ MaxCopies \in Nat

Answers == {"wrong arity", "wrong type", "wrong int type", "List does not exist",
            "success", "failure", "value present", "value not present"}

ASSUME DistinctAssumption ==
    /\ Foreign # None /\ WrongArity # NotInteger
    /\ Objects \cap {Foreign, None} = {}
    /\ Dangling \notin Objects \cup {Foreign, None}
    /\ {WrongArity, NotInteger} \cap Values = {}
    /\ MainThread \notin Workers
    /\ None \notin Workers \cup {MainThread} \cup Requests \cup Answers

\* No key and a value of another type are no lists.
ASSUME MarkersAssumption ==
    \A S \in SUBSET Values : Foreign \notin [S -> Nat] /\ None \notin [S -> Nat]

VARIABLES
    dict,      \* the keyspace: what each key holds
    life,      \* of each object: "unused", "live" or "freed"
    content,   \* the bag of values in each object
    gil,       \* the thread that holds the GIL, or None; the main thread
               \* counts only while it searches and changes the keyspace
    pc,        \* where each worker is
    req,       \* the command it executes, or None
    found,     \* what the search of the keyspace found
    obj,       \* the list it works on, or None
    out        \* its answer, or None

vars == <<dict, life, content, gil, pc, req, found, obj, out>>

keyspace == <<dict, life, content>>

Op(w) == req[w].op
Key(w) == req[w].key
Val(w) == req[w].val

Goto(w, from, to) ==
    /\ pc[w] = from
    /\ pc' = [pc EXCEPT ![w] = to]

Init ==
    /\ dict \in [Keys -> {None, Foreign}]
    /\ life = [o \in Objects |-> "unused"]
    /\ content = [o \in Objects |-> EmptyBag]
    /\ gil = None
    /\ pc = [w \in Workers |-> "idle"]
    /\ req = [w \in Workers |-> None]
    /\ found = [w \in Workers |-> None]
    /\ obj = [w \in Workers |-> None]
    /\ out = [w \in Workers |-> None]

\* The bounds: an insert may need an object, and may add a copy of its value.
Room(r) ==
    /\ Cardinality({o \in Objects : life[o] = "unused"}) >
        Cardinality({w \in Workers : pc[w] \in {"args", "open", "check"} /\ Op(w) = "insert"})
    /\ \A o \in Objects : r.val \in DOMAIN content[o] =>
            content[o][r.val] + Cardinality(Workers) <= MaxCopies

\* A worker has dequeued an event and executes it.
Command(w) ==
    /\ Goto(w, "idle", "args")
    /\ \E r \in Requests : /\ r.op = "insert" => Room(r)
                          /\ req' = [req EXCEPT ![w] = r]
    /\ UNCHANGED <<keyspace, gil, found, obj, out>>

Answer(w, a) ==
    /\ Goto(w, pc[w], "return")
    /\ out' = [out EXCEPT ![w] = a]

BadArity(w) ==
    /\ pc[w] = "args"
    /\ Val(w) = WrongArity
    /\ Answer(w, "wrong arity")
    /\ UNCHANGED <<keyspace, gil, req, found, obj>>

-----------------------------------------------------------------------------
(* RedisModule_OpenKey, the one thing done with the GIL held.              *)

Lock(w) ==
    /\ Goto(w, "args", "open")
    /\ Val(w) # WrongArity
    /\ gil = None
    /\ gil' = w
    /\ UNCHANGED <<keyspace, req, found, obj, out>>

\* The threads that search the keyspace or change it.
Inside == {w \in Workers : pc[w] \in {"open", "replace"}} \cup ({gil} \cap {MainThread})

\* What a search finds.  The keyspace is not made for two threads: a search
\* that runs while another thread is inside can miss a key that is there.
Found(t, k) == {dict[k]} \cup {v \in {None} : Inside \ {t} # {}}

\* (Mutant) the GIL is kept when the value has the wrong type.
OpenKeyLocked(w) ==
    /\ Goto(w, "open", "check")
    /\ \E v \in Found(w, Key(w)) : found' = [found EXCEPT ![w] = v]
    /\ gil' = IF dict[Key(w)] = Foreign THEN w ELSE None
    /\ UNCHANGED <<keyspace, req, obj, out>>

OpenKey(w) ==
    /\ Goto(w, "open", "check")
    /\ \E v \in Found(w, Key(w)) : found' = [found EXCEPT ![w] = v]
    /\ gil' = None
    /\ UNCHANGED <<keyspace, req, obj, out>>

-----------------------------------------------------------------------------
(* The checks, in the order of the code, on the value OpenKey found.       *)

\* What is read through the open key.  A value that Redis has freed meanwhile
\* may look like anything.
Seen(w) == IF found[w] = Dangling THEN Objects \cup {None, Foreign} ELSE {found[w]}

CheckFails(w) ==
    /\ pc[w] = "check"
    /\ \E v \in Seen(w) :
        \/ v = Foreign /\ Answer(w, "wrong type")
        \/ v # Foreign /\ Val(w) = NotInteger /\ Answer(w, "wrong int type")
        \/ /\ v = None /\ Val(w) # NotInteger
           /\ Op(w) # "insert"
           /\ Answer(w, "List does not exist")
    /\ UNCHANGED <<keyspace, gil, req, found, obj>>

UseList(w) ==
    /\ Goto(w, "check", "apply")
    /\ Val(w) # NotInteger
    /\ \E o \in Seen(w) \cap Objects : obj' = [obj EXCEPT ![w] = o]
    /\ UNCHANGED <<keyspace, gil, req, found, out>>

CreateList(w) ==
    /\ Goto(w, "check", "set")
    /\ None \in Seen(w) /\ Val(w) # NotInteger
    /\ Op(w) = "insert"
    /\ \E o \in Objects :
        /\ life[o] = "unused"
        /\ life' = [life EXCEPT ![o] = "live"]
        /\ content' = [content EXCEPT ![o] = EmptyBag]
        /\ obj' = [obj EXCEPT ![w] = o]
    /\ UNCHANGED <<dict, gil, req, found, out>>

-----------------------------------------------------------------------------
(* RedisModule_ModuleTypeSetValue, without the GIL.                        *)

\* Redis looks the key up again, whatever OpenKey found ...
SetSearch(w) ==
    /\ Goto(w, "set", "replace")
    /\ \E v \in Found(w, Key(w)) : found' = [found EXCEPT ![w] = v]
    /\ UNCHANGED <<keyspace, gil, req, obj, out>>

\* Redis frees the value v of key k (a list with llca_free): a handle on it
\* that has still to be read holds nothing.
Free(k, v) ==
    /\ life' = [o \in Objects |-> IF o = v THEN "freed" ELSE life[o]]
    /\ found' = [u \in Workers |->
                    IF pc[u] = "check" /\ Key(u) = k /\ found[u] = v /\ v # None
                    THEN Dangling ELSE found[u]]

\* (Mutant) the value the key holds by now is not freed.
SetValueLeaks(w) ==
    /\ Goto(w, "replace", "apply")
    /\ dict' = [dict EXCEPT ![Key(w)] = obj[w]]
    /\ UNCHANGED <<life, content, gil, req, found, obj, out>>

\* ... adds it or replaces what the lookup found, and frees that.
SetValue(w) ==
    /\ Goto(w, "replace", "apply")
    /\ dict' = [dict EXCEPT ![Key(w)] = obj[w]]
    /\ Free(Key(w), found[w])
    /\ UNCHANGED <<content, gil, req, obj, out>>

-----------------------------------------------------------------------------
(* llca_insert, llca_remove, llca_contains.                                *)

Holds(w) == Val(w) \in DOMAIN content[obj[w]]

\* (Mutant) a value that is there is not inserted again.
ApplyInsertOnce(w) ==
    /\ pc[w] = "apply" /\ Op(w) = "insert"
    /\ content' = [content EXCEPT ![obj[w]] = IF Holds(w) THEN @ ELSE BagAdd(@, Val(w))]
    /\ Answer(w, "success")
    /\ UNCHANGED <<dict, life, gil, req, found, obj>>

ApplyInsert(w) ==
    /\ pc[w] = "apply" /\ Op(w) = "insert"
    /\ content' = [content EXCEPT ![obj[w]] = BagAdd(@, Val(w))]
    /\ Answer(w, "success")
    /\ UNCHANGED <<dict, life, gil, req, found, obj>>

ApplyRemove(w) ==
    /\ pc[w] = "apply" /\ Op(w) = "remove"
    /\ content' = [content EXCEPT ![obj[w]] = BagRemove(@, Val(w))]
    /\ Answer(w, IF Holds(w) THEN "success" ELSE "failure")
    /\ UNCHANGED <<dict, life, gil, req, found, obj>>

ApplyContains(w) ==
    /\ pc[w] = "apply" /\ Op(w) = "contains"
    /\ Answer(w, IF Holds(w) THEN "value present" ELSE "value not present")
    /\ UNCHANGED <<keyspace, gil, req, found, obj>>

\* The reply, and the end of the event.
Return(w) ==
    /\ Goto(w, "return", "idle")
    /\ req' = [req EXCEPT ![w] = None]
    /\ found' = [found EXCEPT ![w] = None]
    /\ obj' = [obj EXCEPT ![w] = None]
    /\ out' = [out EXCEPT ![w] = None]
    /\ UNCHANGED <<keyspace, gil>>

-----------------------------------------------------------------------------
(* The main thread: a command of Redis's own leaves a key empty or with a  *)
(* value of another type, and frees what it held.                          *)

OverwriteEnter ==
    /\ gil = None
    /\ gil' = MainThread
    /\ UNCHANGED <<keyspace, pc, req, found, obj, out>>

\* (Mutant) the free method runs and the key keeps the value.
OverwriteKeeps(k, v) ==
    /\ gil = MainThread
    /\ \E old \in Found(MainThread, k) : Free(k, old)
    /\ gil' = None
    /\ UNCHANGED <<dict, content, pc, req, obj, out>>

Overwrite(k, v) ==
    /\ gil = MainThread
    /\ \E old \in Found(MainThread, k) : Free(k, old)
    /\ dict' = [dict EXCEPT ![k] = v]
    /\ gil' = None
    /\ UNCHANGED <<content, pc, req, obj, out>>

-----------------------------------------------------------------------------
Execute(w) ==
    \/ BadArity(w) \/ Lock(w) \/ OpenKey(w)
    \/ CheckFails(w) \/ UseList(w) \/ CreateList(w)
    \/ SetSearch(w) \/ SetValue(w)
    \/ ApplyInsert(w) \/ ApplyRemove(w) \/ ApplyContains(w)
    \/ Return(w)

Next ==
    \/ \E w \in Workers : Command(w) \/ Execute(w)
    \/ \E k \in MainKeys :
        \/ OverwriteEnter
        \/ \E v \in {None, Foreign} : Overwrite(k, v)

Spec == Init /\ [][Next]_vars

-----------------------------------------------------------------------------
(***************************************************************************)
(* Properties.                                                             *)
(***************************************************************************)

\* Types; of the workers, the one in OpenKey holds the GIL, and no other.
TypeOK ==
    /\ dict \in [Keys -> Objects \cup {None, Foreign}]
    /\ life \in [Objects -> {"unused", "live", "freed"}]
    /\ DOMAIN content = Objects
    /\ \A o \in Objects : IsABag(content[o]) /\ BagToSet(content[o]) \subseteq Values
    /\ gil \in Workers \cup {MainThread, None}
    /\ pc \in [Workers -> {"idle", "args", "open", "check", "set", "replace", "apply",
                           "return"}]
    /\ req \in [Workers -> Requests \cup {None}]
    /\ found \in [Workers -> Objects \cup {None, Foreign, Dangling}]
    /\ obj \in [Workers -> Objects \cup {None}]
    /\ out \in [Workers -> Answers \cup {None}]
    /\ \A w \in Workers : out[w] # None <=> pc[w] = "return"
    /\ \A w \in Workers : gil = w <=> pc[w] = "open"

\* Two threads are never inside the keyspace together: "requiring our module
\* to lock all thread safe contexts before searching the global keyspace for
\* keys" (README.md:4).  insert sets the key without the lock.
KeyspaceExclusive == \A t, u \in Inside : t = u

\* The behaviours in which they never happen to be, as none would be if insert
\* took the lock for setting the key.
SerialNext == Next /\ KeyspaceExclusive'

SerialSpec == Init /\ [][SerialNext]_vars

\* A key never holds a list that was freed, and no list is at two keys.  In
\* SerialSpec: everything else an insert does with the lock released, from its
\* checks to the list it creates, leaves freeing to the keyspace alone.
KeysHoldLive ==
    /\ \A k \in Keys : dict[k] \in Objects => life[dict[k]] = "live"
    /\ \A k, l \in Keys : k # l /\ dict[k] \in Objects => dict[k] # dict[l]

\* A live list is at a key, or in the hands of the insert that is about to set
\* it.  In SerialSpec: when two inserts both found the key empty and both create
\* a list, the one that loses its key is freed.
ObjectsOwned ==
    \A o \in Objects : life[o] = "live" =>
        \/ \E k \in Keys : dict[k] = o
        \/ \E w \in Workers : pc[w] \in {"set", "replace"} /\ obj[w] = o

\* The list an insert has just created is not there until its value is.
Fresh(o) == \E w \in Workers : obj[w] = o /\ found[w] = None /\ pc[w] = "apply"

Abstract == INSTANCE KeyedBags WITH
    Threads <- Workers,
    Missing <- None,
    Idle    <- None,
    bags    <- [k \in Keys |->
                  IF dict[k] \notin Objects THEN dict[k]
                  ELSE IF Fresh(dict[k]) THEN None ELSE content[dict[k]]],
    pending <- req,
    answer  <- out

\* With one worker and no other command on its keys, every command acts at one
\* instant on bags of integers held by the keys.
ImplementsKeyedBags == Abstract!KSpec

=============================================================================
