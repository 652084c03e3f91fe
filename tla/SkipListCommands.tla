-------------------------- MODULE SkipListCommands --------------------------
(***************************************************************************)
(* The commands on the llca_conc type: create, delete, insert, remove and  *)
(* contains, executed by the workers (llca_conc.*, through conc_handler)   *)
(* and by Redis's main thread (llca_seq.*, through seq_handler) on the     *)
(* same keys.                                                              *)
(*                                                                         *)
(* The main thread executes with Redis's global lock (the GIL) held.  A    *)
(* worker takes it for create and delete, and not for the other three: the *)
(* calls in lookup_key are commented out.  Clients may also use Redis's    *)
(* own DEL, which the main thread executes.  The skip list itself is that  *)
(* of libcds, each of whose operations takes effect at one instant.        *)
(*                                                                         *)
(* RedisModule_OpenKey and the reads of the value behind the key it opened *)
(* are steps of their own: OpenKey, then the checks.  Where a thread is in *)
(* the keyspace beside another, or reads a value that Redis has freed, the *)
(* behaviour of the program is undefined; what is left open here is the    *)
(* value it sees.  (Every change of the keyspace holds the GIL.)           *)
(*                                                                         *)
(* Objects bounds the skip lists a behaviour may create.                   *)
(***************************************************************************)
EXTENDS Naturals, FiniteSets

CONSTANTS Workers,       \* threads of the pool
          MainThread,    \* Redis's main thread
          Keys,          \* keys of the Redis keyspace
          Values,        \* integers
          Objects,       \* addresses of llca_conc_obj
          ConcRequests,  \* commands clients send as llca_conc.*
          SeqRequests,   \* commands clients send as llca_seq.*
          DelKeys,       \* keys on which clients use Redis's own DEL
          Malformed,     \* in place of a value: wrong arity, or no integer
          Foreign,       \* a value of another type
          None           \* nullptr, no key, nobody

Ops == {"create", "delete", "insert", "remove", "contains"}

Requests == [op : Ops, key : Keys, val : Values \cup {Malformed}]

ASSUME ThreadsAssumption == MainThread \notin Workers
ASSUME RequestsAssumption == ConcRequests \subseteq Requests /\ SeqRequests \subseteq Requests
ASSUME DelAssumption == DelKeys \subseteq Keys
ASSUME DistinctAssumption ==
    /\ Foreign # None
    /\ Objects \cap {Foreign, None} = {}
    /\ None \notin Workers \cup {MainThread} \cup Requests
    /\ Malformed \notin Values

Threads == Workers \cup {MainThread}

VARIABLES
    dict,      \* the keyspace: what each key holds
    life,      \* of each object: "unused", "live" or "freed"
    content,   \* the set of values in each object's skip list
    leaked,    \* objects that DEL dropped without freeing them
    gil,       \* the thread that holds the GIL, or None
    pc,        \* where each thread is
    req,       \* the command each thread executes, or None
    obj,       \* what the key held when it was opened, then the object
               \* the command works on; or None
    out        \* the answer of the command, or "none"

vars == <<dict, life, content, leaked, gil, pc, req, obj, out>>

objectVars == <<life, content, leaked>>

Goto(t, from, to) ==
    /\ pc[t] = from
    /\ pc' = [pc EXCEPT ![t] = to]

Op(t) == req[t].op
Key(t) == req[t].key
Val(t) == req[t].val

\* The answer is decided; what is left is to reply and return.
Decide(t, answer) == out' = [out EXCEPT ![t] = answer]

Init ==
    /\ dict \in [Keys -> {None, Foreign}]
    /\ life = [o \in Objects |-> "unused"]
    /\ content = [o \in Objects |-> {}]
    /\ leaked = {}
    /\ gil = None
    /\ pc = [t \in Threads |-> "idle"]
    /\ req = [t \in Threads |-> None]
    /\ obj = [t \in Threads |-> None]
    /\ out = [t \in Threads |-> "none"]

-----------------------------------------------------------------------------
(* A command arrives: at a worker that dequeued its event, or at the main  *)
(* thread, which woke up with the GIL.                                     *)

\* The bound: a create command is sent only while an object is left for it.
Room ==
    Cardinality({o \in Objects : life[o] = "unused"}) >
        Cardinality({t \in Threads :
                        pc[t] \in {"args", "open", "check"} /\ Op(t) = "create"})

ConcCommand(w) ==
    /\ Goto(w, "idle", "args")
    /\ \E r \in ConcRequests : /\ r.op = "create" => Room
                              /\ req' = [req EXCEPT ![w] = r]
    /\ UNCHANGED <<dict, objectVars, gil, obj, out>>

SeqCommand ==
    /\ gil = None
    /\ Goto(MainThread, "idle", "args")
    /\ gil' = MainThread
    /\ \E r \in SeqRequests : /\ r.op = "create" => Room
                             /\ req' = [req EXCEPT ![MainThread] = r]
    /\ UNCHANGED <<dict, objectVars, obj, out>>

\* Redis's DEL, on the main thread.
DelEnter ==
    /\ gil = None
    /\ DelKeys # {}
    /\ Goto(MainThread, "idle", "del")
    /\ gil' = MainThread
    /\ UNCHANGED <<dict, objectVars, req, obj, out>>

\* The key and Redis's value behind it are gone; the type's free method, which
\* should destroy the skip list, does nothing.
Del(k) ==
    /\ Goto(MainThread, "del", "idle")
    /\ dict' = [dict EXCEPT ![k] = None]
    /\ leaked' = leaked \cup ({dict[k]} \cap Objects)
    /\ gil' = None
    /\ UNCHANGED <<life, content, req, obj, out>>

-----------------------------------------------------------------------------
(* check_arity and string_to_longlong: an error reply, and nothing else.   *)

BadArguments(t) ==
    /\ Goto(t, "args", "finish")
    /\ Val(t) = Malformed
    /\ Decide(t, "malformed")
    /\ UNCHANGED <<dict, objectVars, gil, req, obj>>

\* (Mutant) delete does not take the lock.
LockNotForDelete(t) ==
    /\ Goto(t, "args", "open")
    /\ Val(t) # Malformed
    /\ Op(t) \in {"create", "delete"}
    /\ \/ t = MainThread /\ UNCHANGED gil
       \/ t \in Workers /\ Op(t) = "create" /\ gil = None /\ gil' = t
       \/ t \in Workers /\ Op(t) = "delete" /\ UNCHANGED gil
    /\ UNCHANGED <<dict, objectVars, req, obj, out>>

\* create and delete take the GIL, unless the event is thread safe.
Lock(t) ==
    /\ Goto(t, "args", "open")
    /\ Val(t) # Malformed
    /\ Op(t) \in {"create", "delete"}
    /\ \/ t = MainThread /\ UNCHANGED gil
       \/ t \in Workers /\ gil = None /\ gil' = t
    /\ UNCHANGED <<dict, objectVars, req, obj, out>>

\* lookup_key does not.
Lookup(t) ==
    /\ Goto(t, "args", "open")
    /\ Val(t) # Malformed
    /\ Op(t) \in {"insert", "remove", "contains"}
    /\ UNCHANGED <<dict, objectVars, gil, req, obj, out>>

-----------------------------------------------------------------------------
(* RedisModule_OpenKey, and the checks on what it found.                   *)

\* Searching Redis's keyspace, or changing it.
InKeyspace(t) == pc[t] \in {"open", "link", "unlink", "del"}

\* What a search finds.  The keyspace is not made for two threads: a search
\* that runs while another thread is inside, and may be moving entries from
\* one hash table to the other, can miss a key that is there.
Found(t) ==
    {dict[Key(t)]} \cup {v \in {None} : \E u \in Threads : u # t /\ InKeyspace(u)}

OpenKey(t) ==
    /\ Goto(t, "open", "check")
    /\ \E v \in Found(t) : obj' = [obj EXCEPT ![t] = v]
    /\ UNCHANGED <<dict, objectVars, gil, req, out>>

\* What KeyType, ModuleTypeGetType and ModuleTypeGetValue say of an opened key.
\* If it has been emptied or given another value since, they read a value that
\* Redis has freed, and may say anything.
Seen(t) ==
    IF obj[t] = None \/ dict[Key(t)] = obj[t] THEN {obj[t]}
    ELSE Objects \cup {None, Foreign}

CreateExists(t) ==
    /\ Goto(t, "check", "finish")
    /\ Op(t) = "create"
    /\ \E v \in Seen(t) : v # None
    /\ Decide(t, "exists")
    /\ UNCHANGED <<dict, objectVars, gil, req, obj>>

\* (Mutant) the lock is released before the value is set.
CreateObjectUnlocked(t) ==
    /\ Goto(t, "check", "link")
    /\ Op(t) = "create"
    /\ None \in Seen(t)
    /\ \E o \in Objects :
        /\ life[o] = "unused"
        /\ life' = [life EXCEPT ![o] = "live"]
        /\ content' = [content EXCEPT ![o] = {}]
        /\ obj' = [obj EXCEPT ![t] = o]
    /\ gil' = IF gil = t THEN None ELSE gil
    /\ UNCHANGED <<dict, leaked, req, out>>

CreateObject(t) ==
    /\ Goto(t, "check", "link")
    /\ Op(t) = "create"
    /\ None \in Seen(t)
    /\ \E o \in Objects :
        /\ life[o] = "unused"
        /\ life' = [life EXCEPT ![o] = "live"]
        /\ content' = [content EXCEPT ![o] = {}]
        /\ obj' = [obj EXCEPT ![t] = o]
    /\ UNCHANGED <<dict, leaked, gil, req, out>>

\* (Mutant) a failed check returns without a reply.
OpenFailsSilent(t) ==
    /\ Goto(t, "check", "finish")
    /\ Op(t) # "create"
    /\ \/ None \in Seen(t) /\ UNCHANGED out
       \/ Foreign \in Seen(t) /\ Decide(t, "wrongtype")
    /\ UNCHANGED <<dict, objectVars, gil, req, obj>>

\* The checks the other four commands share.
OpenFails(t) ==
    /\ Goto(t, "check", "finish")
    /\ Op(t) # "create"
    /\ \/ None \in Seen(t) /\ Decide(t, "missing")
       \/ Foreign \in Seen(t) /\ Decide(t, "wrongtype")
    /\ UNCHANGED <<dict, objectVars, gil, req, obj>>

OpenObject(t) ==
    /\ \/ Goto(t, "check", "destroy") /\ Op(t) = "delete"
       \/ Goto(t, "check", "apply") /\ Op(t) \in {"insert", "remove", "contains"}
    /\ \E o \in Seen(t) \cap Objects : obj' = [obj EXCEPT ![t] = o]
    /\ UNCHANGED <<dict, objectVars, gil, req, out>>

-----------------------------------------------------------------------------
(* RedisModule_ModuleTypeSetValue.                                         *)
Link(t) ==
    /\ Goto(t, "link", "finish")
    /\ dict' = [dict EXCEPT ![Key(t)] = obj[t]]
    /\ Decide(t, "ok")
    /\ UNCHANGED <<objectVars, gil, req, obj>>

\* ~SkipListSet and RedisModule_Free, then RedisModule_DeleteKey.
Destroy(t) ==
    /\ Goto(t, "destroy", "unlink")
    /\ life' = [life EXCEPT ![obj[t]] = "freed"]
    /\ UNCHANGED <<dict, content, leaked, gil, req, obj, out>>

\* (Mutant) the key is left behind.
UnlinkForgotten(t) ==
    /\ Goto(t, "unlink", "finish")
    /\ Decide(t, "ok")
    /\ UNCHANGED <<dict, objectVars, gil, req, obj>>

Unlink(t) ==
    /\ Goto(t, "unlink", "finish")
    /\ dict' = [dict EXCEPT ![Key(t)] = None]
    /\ Decide(t, "ok")
    /\ UNCHANGED <<objectVars, gil, req, obj>>

-----------------------------------------------------------------------------
(* The operation of the skip list, on the object found before.             *)

\* (Mutant) insert does not look at what the skip list says.
ResultIgnored(t) ==
    IF Op(t) = "insert" \/ Val(t) \in content[obj[t]] THEN "ok" ELSE "absent"

\* insert, erase and contains say whether the value was there, and the event
\* replies accordingly.
Result(t) ==
    CASE Val(t) \in content[obj[t]] -> IF Op(t) = "insert" THEN "present" ELSE "ok"
      [] OTHER                      -> IF Op(t) = "insert" THEN "ok" ELSE "absent"

Changed(t) ==
    CASE Op(t) = "insert"   -> content[obj[t]] \cup {Val(t)}
      [] Op(t) = "remove"   -> content[obj[t]] \ {Val(t)}
      [] Op(t) = "contains" -> content[obj[t]]

Apply(t) ==
    /\ Goto(t, "apply", "finish")
    /\ content' = [content EXCEPT ![obj[t]] = Changed(t)]
    /\ Decide(t, Result(t))
    /\ UNCHANGED <<dict, life, leaked, gil, req, obj>>

\* (Mutant) the early return of create keeps the lock.
FinishLocked(t) ==
    /\ Goto(t, "finish", "idle")
    /\ gil' = IF gil = t /\ out[t] # "exists" THEN None ELSE gil
    /\ req' = [req EXCEPT ![t] = None]
    /\ obj' = [obj EXCEPT ![t] = None]
    /\ out' = [out EXCEPT ![t] = "none"]
    /\ UNCHANGED <<dict, objectVars>>

\* Unlock, reply and return; the main thread goes back to its event loop.
Finish(t) ==
    /\ Goto(t, "finish", "idle")
    /\ gil' = IF gil = t THEN None ELSE gil
    /\ req' = [req EXCEPT ![t] = None]
    /\ obj' = [obj EXCEPT ![t] = None]
    /\ out' = [out EXCEPT ![t] = "none"]
    /\ UNCHANGED <<dict, objectVars>>

-----------------------------------------------------------------------------
Create(t) == CreateExists(t) \/ CreateObject(t) \/ Link(t)
Delete(t) == Destroy(t) \/ Unlink(t)

Execute(t) ==
    \/ BadArguments(t) \/ Lock(t) \/ Lookup(t) \/ OpenKey(t)
    \/ Create(t) \/ OpenFails(t) \/ OpenObject(t)
    \/ Delete(t) \/ Apply(t) \/ Finish(t)

Next ==
    \/ \E w \in Workers : ConcCommand(w)
    \/ SeqCommand
    \/ DelEnter
    \/ \E k \in DelKeys : Del(k)
    \/ \E t \in Threads : Execute(t)

\* Every thread keeps running, and a worker that keeps asking for the GIL is
\* granted it.
Fairness ==
    /\ \A t \in Threads : WF_vars(Execute(t))
    /\ WF_vars(\E k \in DelKeys : Del(k))
    /\ \A w \in Workers : SF_vars(Lock(w))

Spec == Init /\ [][Next]_vars

FairSpec == Spec /\ Fairness

-----------------------------------------------------------------------------
(***************************************************************************)
(* Properties.                                                             *)
(***************************************************************************)

Answers == {"none", "malformed", "exists", "missing", "wrongtype", "ok", "present", "absent"}

\* The markers are neither answers nor sets of values.
ASSUME MarkersAssumption ==
    /\ None \notin Answers
    /\ \A s \in SUBSET Values : s # None /\ s # Foreign

\* Types; a command that returns has exactly one answer, on every path.
TypeOK ==
    /\ dict \in [Keys -> Objects \cup {None, Foreign}]
    /\ life \in [Objects -> {"unused", "live", "freed"}]
    /\ content \in [Objects -> SUBSET Values]
    /\ leaked \in SUBSET Objects
    /\ gil \in Threads \cup {None}
    /\ pc \in [Threads -> {"idle", "del", "args", "open", "check", "link", "destroy", "unlink",
                           "apply", "finish"}]
    /\ req \in [Threads -> ConcRequests \cup SeqRequests \cup {None}]
    /\ obj \in [Threads -> Objects \cup {None, Foreign}]
    /\ out \in [Threads -> Answers]
    /\ \A t \in Threads : out[t] # "none" <=> pc[t] = "finish"

\* A key holds an object that was created and not freed, and no object is at
\* two keys; only inside a delete, with the GIL held, does the key outlive its
\* object.  This is what a lookup relies on.
KeysHoldLive ==
    /\ \A k \in Keys : dict[k] \in Objects =>
        \/ life[dict[k]] = "live"
        \/ \E t \in Threads : gil = t /\ pc[t] = "unlink" /\ Key(t) = k
    /\ \A k, l \in Keys : k # l /\ dict[k] \in Objects => dict[k] # dict[l]

\* A skip list is at a key, or in the hands of the create that made it, or DEL
\* dropped it: creating and deleting from several threads neither overwrites
\* one nor loses it.
ObjectsOwned ==
    \A o \in Objects : life[o] = "live" =>
        \/ o \in leaked
        \/ \E k \in Keys : dict[k] = o
        \/ \E t \in Threads : pc[t] = "link" /\ obj[t] = o

\* No thread works on a skip list that another has destroyed since it looked
\* the key up.
NoUseAfterFree ==
    \A t \in Threads : pc[t] \in {"destroy", "apply"} => life[obj[t]] = "live"

\* Between opening a key and the last read of what it held, nobody frees the
\* value behind it: what the checks say is what the key holds.
HandlesHeld ==
    \A t \in Threads : pc[t] = "check" /\ obj[t] # None => dict[Key(t)] = obj[t]

\* Two threads are never inside the keyspace together: "requiring our module
\* to lock all thread safe contexts before searching the global keyspace for
\* keys" (README.md:4).
KeyspaceExclusive ==
    \A t, u \in Threads : t # u => ~(InKeyspace(t) /\ InKeyspace(u))

\* What the keys hold, and what each command is known to answer.
KeySets == [k \in Keys |-> IF dict[k] \in Objects THEN content[dict[k]] ELSE dict[k]]

Answered == [t \in Threads |-> IF out[t] # "none" THEN out[t] ELSE None]

Abstract == INSTANCE KeyedSets WITH
    Requests <- ConcRequests \cup SeqRequests,
    Missing  <- None,
    Idle     <- None,
    sets     <- KeySets,
    pending  <- req,
    answer   <- Answered

\* Every command acts at one instant on sets of integers held by the keys: the
\* answers are those some sequential order would give.
ImplementsKeyedSets == Abstract!KSpec

\* Every command is answered: no path leaves the GIL taken.
EveryCommandReturns == \A t \in Threads : pc[t] # "idle" ~> pc[t] = "idle"

=============================================================================
