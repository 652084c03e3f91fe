# RedPar, specified in TLA+

RedPar is a Redis module that moves the execution of commands from Redis's
main thread to a pool of threads of its own. This directory holds TLA+
specifications of it, the configurations that model-check them with TLC, and
theorems about them proved with TLAPS.

## The system

Paths are relative to `src/src/`. *GIL* is Redis's global lock, the one
`RedisModule_ThreadSafeContextLock` takes: Redis's main thread holds it except
while it polls for input.

| Part | State | Operations | Met by |
|---|---|---|---|
| Event queue (`eventqueue.h`, `eventqueue.cpp`) | `events`, `queue_mutex`; per event `ctx`, `client`, `thread_safe` and a `shared_ptr` count | `conc_handler`, `seq_handler`, `enqueue`, `dequeue`, `event::event`, `event::~event` | main thread, workers |
| Pool and load (`redpar.cpp`) | `thread_pool` of `CA_THREAD_COUNT` (1) threads, libcds's collector, the singleton queue | `RedisModule_OnLoad`, `work`, `getInstance`, the destructors at exit | workers; main thread once |
| `llca_conc` (`skip_list.cpp`) | keyspace entries that hold a libcds skip list | create, delete, insert, remove, contains, each as `llca_conc.*` (worker) and `llca_seq.*` (main thread); type methods, all stubs | both |
| `llca_type` (`llca.cpp`) | keyspace entries that hold a sorted linked list and its count | insert, remove, contains as `llca_type.*` (worker only); `rdb_load`, `rdb_save`, `aof_rewrite`, `mem_usage`, `digest`, `free` (main thread, or a forked child) | both |
| Redis module API (`redis/`) | none of its own | declarations | |
| `benchmark.go`, `Makefile`, `src/deps` | none of the module's | client load, build, vendored libcds and turf | |

How they interact. Redis calls a command handler on the main thread with the GIL
held. `conc_handler` builds an event, which blocks the client and opens a thread
safe context, and pushes it; a worker, polling, dequeues it, executes it and
drops it. The last reference to go runs the destructor, which frees the context
and unblocks the client; that may happen on either thread. `seq_handler`
executes the same event classes at once, on its stack, with the command's own
context. The classes tell the two apart by `thread_safe`, and take the GIL only
when it is false. Redis calls the type methods back: on the main thread with
the GIL held (`free`, `digest`, `mem_usage`, SAVE) or in a forked child (BGSAVE,
BGREWRITEAOF).

What is hard in it:

- three kinds of lifetime cross threads: events (counted), contexts, clients
  and arguments (tied to the event, and to the connection), values in the keyspace (tied to nothing);
- two locks, taken in both contexts, one of them conditionally;
- GIL coverage differs per command: all of create and delete, only `OpenKey` in
  `llca_type.*`, nothing in the lookups of `llca_conc.*`;
- a fork or a traversal by the main thread may fall between any two accesses
  of a worker, and the count of the list is updated after the list;
- the server restarts from files written at such moments;
- the pool starts while the module is still loading, its threads and the first
  handler race for the construction of the queue, and the threads outlive the
  static objects they use when the server exits.

What makes each part correct: an event is alive for as long as a thread can
reach it, its client is let go once and after its answer, the queue is
first-in first-out, no two threads wait for each other; commands act atomically
on what their key holds; a value is at its key exactly as long as it lives; the
list is sorted at every instant a reader may look at it; a file loads back what
was saved; a module that is refused has left nothing running. And of the server as a
whole: each client's command acts once, at one instant between its acceptance
and its answer.

## Modules

| Module | Models | Stated as |
|---|---|---|
| `FifoService` | what the queue promises | abstract specification |
| `EventQueue` | queue, events, workers, main thread, both handlers, connections | implements `FifoService` |
| `KeyedSets` | what the `llca_conc`/`llca_seq` commands promise | abstract specification |
| `SkipListCommands` | those commands on workers and main thread | implements `KeyedSets` |
| `RedParServer` | the two together: clients, queue, threads, commands | implements `EventQueue`, `SkipListCommands` and `KeyedSets` |
| `IntegerBag` | what the linked list promises | abstract specification |
| `LlcaList` | the list node by node, and the main thread's traversal | implements `IntegerBag` |
| `KeyedBags` | what the `llca_type` commands promise | abstract specification |
| `LlcaCommands` | those commands, and deletions and overwrites by other commands | implements `KeyedBags` |
| `LlcaPersistence` | RDB files, crashes and restarts | |
| `ModuleLoad` | registration, start of the pool, the singleton queue, the end of the process | |
| `EventQueueProofs`, `EventQueueRefinement` | `EventQueue`'s invariants; that it implements `FifoService` | theorems |
| `SkipListProofs`, `LlcaListProofs`, `LlcaCommandsProofs` | the invariants of `SkipListCommands`, `LlcaList`, `LlcaCommands`, and what each implements | theorems |
| `LlcaPersistenceProofs`, `ModuleLoadProofs` | the invariants of `LlcaPersistence`, `ModuleLoad` | theorems |
| `RedParServerProofs` | that `RedParServer` implements its components and `KeyedSets` | theorems |
| `MC*` | request sets and symmetries for TLC | |

The modules divide the program by layer. `EventQueue` stands for *which* event a
worker executes *when*, with `execute()` reduced to its locking and its reply;
`SkipListCommands` and `LlcaCommands` open `execute()` up and take the arrival
of a command at a worker as one action; `RedParServer` puts the two together,
action by action, so that neither reduction is taken on trust; `LlcaList` opens up the one step that
`LlcaCommands` makes of a list operation; `LlcaPersistence` takes from
`LlcaList` that a forked child sees an ascending list at any step, and makes a
sequence of it.

### Correspondence

`EventQueue`. `events`, `queue_mutex`, `client`, `ctx` are the fields of those
names; `refs` is the use count of each `shared_ptr`; `pc[t]` is where thread `t`
stands and `cur[t]` the event in its hands. `ConcHandler` is construction and the
two `shared_ptr`s of `conc_handler` (the local `shared_ptr<E>` and the temporary
`shared_ptr<event>` that binds to `enqueue`'s parameter); `EnqueueLock`,
`EnqueuePush`, `EnqueueUnlock`, `DropTemporary` follow, then the drop of the local
reference, which is where the main thread may turn out to be the last owner.
`DequeueLock` to `DequeueUnlock` are `dequeue`, `Exec*` are `execute()`,
`FreeContext` and `Unblock` are the two statements of `~event`. `Construct` is the
constructor, which also keeps the argument vector by pointer: `argv` follows what
Redis does to that memory. `Wake`, `Sleep`, `HandleUnblocked` and `Disconnect` are
Redis's event loop (external); `Disconnect` is a connection that breaks while its
client is blocked, which takes the arguments with it.

`SkipListCommands`. `dict` is the keyspace, `life` and `content` the state of each
`llca_conc_obj`. `Lock`/`Lookup` are the two ways the code goes to `OpenKey` (with
and without the GIL), `CreateExists`, `CreateObject`, `OpenFails`, `OpenObject` are
the outcomes of the checks, `Link`, `Destroy`, `Unlink`, `Apply` the
calls that change something, `Finish` unlock, reply and return. `Found` says what
a search can return: Redis's keyspace is a hash table that may be rehashing, so a
search that overlaps another thread's access may miss a key that is there. That
is a nondeterministic choice, for lack of a defined one. `OpenKey` opens the key, and
`KeyType`, `ModuleTypeGetType` and `ModuleTypeGetValue` (`skip_list.cpp:51` to `:60`) read
through it in a step of their own: `Seen` is what they say, anything at all when
the value behind the handle was freed in between. `DelEnter` and `Del` are Redis's DEL,
which is inside the keyspace like every command, and `llca_conc_free`, which does
nothing. `Result` and `Changed` are what libcds's insert, erase and contains return and
do. In `KeyedSets` that DEL is `Vanish`.

`RedParServer`. `ConcHandler`, `SeqHandler` and `Transport` (everything that happens to an
event while nobody executes it) are actions of `EventQueue`, with the command the
client sends. `execute()` is written out: `TakesLock` says when it locks, and `Begin`,
`LockGil`, `Compute`, `Reply`, `ReplyLocked`, `UnlockReplied`, `Unlock`, `ReplyUnlocked` say, in
the order of each `execute` of `skip_list.cpp`, what happens to the lock, to the
client and to the place in the body (`At`, `SendReply`), and which step of the command
comes with it. That these are steps the queue allows is not built in: it is what
`ImplementsQueue` checks. Conversely, a step on which the body and the command
disagreed would never be taken; `ExecuteGoesOn` checks that there is none. Both components have a variable for the GIL; in `EventQueue` the
main thread holds it whenever it is awake, for the commands it counts only while
one executes, which is what `KeyspaceLock` says.

`LlcaList`. `head` and `len` are the fields of `llca_obj`, `value` and `next` those
of each node, `heap` the allocated nodes. One action is one access: a step of a
search, the allocation with the fields of the new node, the write that links it,
`len++`, the write that unlinks, the free. Freed addresses are allocated again.
`SaveCount`, `SaveNode`, `SaveEnd` are the loop that `llca_rdb_save`,
`llca_aof_rewrite` and `llca_digest` share.

`LlcaCommands`. `found[w]` is the value behind the open key handle: the checks after
`OpenKey` act on it, not on what the key holds by then, and when Redis has freed it
meanwhile it is `Dangling`, and what is read may be anything (`Seen`).
`ModuleTypeSetValue` is two steps, both without the GIL: `SetSearch` looks the key up
again, `SetValue` adds or replaces what that search found and frees it through
`llca_free` (`Free`). `OverwriteEnter` and `Overwrite` are any command of Redis that deletes or
replaces the key. Two threads that replace the same value at once both free it, and
no lock prevents that. `Inside` is who is in the keyspace; `SerialSpec` has the behaviours in
which there is never more than one thread.

`LlcaPersistence`. `list` and `len` as above, `image` the last RDB file.
`InsertLink` and `InsertCount` are the two writes of `llca_insert` between which a
fork may fall. `LoadCount`, `LoadElement`, `LoadDone` are `llca_rdb_load`;
`LoadRefused` is Redis's reaction to a module that reads past the values it wrote
or leaves some unread: it exits. `skip` says whether some key holds a skip list,
`SkipListChange` is its coming and going, and `LoadSkipList` what
`llca_conc_rdb_load`, which returns NULL, makes of such a file.

`ModuleLoad`. The main thread's `pc` walks through `RedisModule_OnLoad`: `ModuleInit`,
one step per registration in `LLCA_OnLoad` and `LLCA_Conc_OnLoad`, then `Initialize`,
`ConstructCollector`, `AttachMain`, `ConstructPool`, `Spawn`. `OnLoadFails` is every
early return; `SpawnFails` is the exception of `std::thread`, which nobody catches.
`statics` are the static objects in the order of their construction, which `Exit`
and `DestroyStatic` undo from the end. `GetInstance` and `ConstructQueue` are the
function-local static of `event_queue::getInstance`, one thread constructing it
and the others waiting. `AttachWorker`, `Dequeue`, `ExecuteDone` are `work()`;
`DequeueDestroyed` is a poll of the queue after its destructor ran.

## Checks

Every passing run has a mutant for each of its properties: a definition next to
the one it replaces, marked `(Mutant)`, that changes it as a plausible bug would.

| Run | Instance | Shows |
|---|---|---|
| `queue` | 2 workers, 2 clients, 3 events | counts, lifetimes, arguments, answers and lock order under every interleaving (`RefsExact`, `NoUseAfterDestroy`, `ArgumentsHeld`, `ReleasedOnlyAnswered`, `NoLockCycle`); the queue is a `FifoService`; every blocked client returns |
| `skiplist_sets` | 2 workers that create and delete, main thread that does everything, DEL, 2 keys, 1 value, 2 objects | under the GIL the commands are those of `KeyedSets`, alone in the keyspace; an open key keeps what it was opened with (`HandlesHeld`), no dangling key, no lost skip list but by DEL, and each command returns |
| `skiplist_search` | 1 worker, main thread | *violated*: the lookup is not covered by the GIL |
| `skiplist_delete` | 1 worker, main thread that deletes | *violated*: a worker uses the skip list that was freed |
| `llca_list` | 1 worker, 3 nodes, 2 values, 4 insertions | the list is an `IntegerBag`; sorted and whole at every instant; traversals |
| `llca_alone` | 1 worker, 2 keys, 2 values | the commands are those of `KeyedBags` |
| `llca_keys` | 2 workers, overwriting main thread, 2 keys, 3 objects, `SerialSpec` | as long as no two threads are in the keyspace at once, every list is at one key or freed, whatever is overwritten |
| `llca_set` | 2 workers, overwriting main thread, 1 key | *violated*: an insert sets its key beside another thread |
| `llca_restart` | 3 values, 4 insertions between restarts | what the count means, what a reload gives, when a file is refused |
| `llca_mem_usage` | 2 values | *violated*: memory is reported for removed nodes |
| `module_load` | 3 workers, at most 2 events wait | a refused module leaves nothing behind, one queue is constructed, threads execute only under a live collector, and all of them get to the queue |
| `server` | 1 worker, 2 clients, 3 events, 3 objects, 1 key, 1 value, DEL | the composition is an `EventQueue` and a `SkipListCommands`, gets stuck on no path (`ExecuteGoesOn`), and is for its clients a `KeyedSets` |

The system may stop in `module_load` (refused, exited or dead) and in the runs of
`LlcaPersistence` (the server refuses its file), and only there is deadlock not an
error. That `server` implements both components means that the safety shown of
either holds of the whole, and that neither component's environment is too
narrow: the queue does present every command as `SkipListCommands` assumes it
arrives, and no path through a command locks, replies or unlocks where
`EventQueue`'s short form of `execute()` does not. Neither would mean much if a path
could simply end: `ExecuteGoesOn` says that a thread inside `execute()` has a next step
unless it waits for a lock that is taken.

### Findings

- `lookup_key` searches the keyspace from a worker without the GIL: its lock calls
  are commented out (`skip_list.cpp:48`, `:50`). `README.md:4` of the repository says
  that Redis requires the module to lock before it searches. This is why
  `skiplist_sets` passes only while the workers' commands are create and delete: a
  search that misses a key answers what no atomic command would, and what is read
  through the open key may be the value of a key that DEL or a delete has emptied
  meanwhile.
- `llca_conc.insert`, `remove` and `contains` keep the object they looked up while
  `llca_seq.delete`, or a worker's delete in a larger pool, destroys it
  (`skip_list.cpp:133`). `README.md:16` presents the type as a concurrent lock free
  skip list.
- `llca_type.insert` sets its key without the GIL (`llca.cpp:218`), which it released at
  `:203`. `ModuleTypeSetValue` searches and changes the keyspace and frees the old
  value, while the main thread or another insert may be doing the same; the run
  `llca_set` shows it. With the larger pool of that run two inserts may also free the
  same list, and with one worker an insert and DEL may.
- `llca_mem_usage` (`llca.cpp:265`) reports the memory of nodes that were freed,
  because `llca_remove` does not decrement `len`.

More weaknesses have no sentence in the repository to be measured against and are
therefore stated in what the passing properties require or allow:

- the same `len` is the count in the RDB file. `CountDrift` says by how much it is
  off, and `CleanSaveRestarts` when a restart is safe: nothing removed since the
  last start, no fork between the link and the count, and no key that holds a skip
  list. That is about files written by a forked child (BGSAVE). SAVE and SHUTDOWN
  write on the main thread, the count first (`llca.cpp:248`), while a worker may insert:
  such a file is safe only if no insert was executed meanwhile. From other files the server may refuse to start; a file with a skip list
  in it always makes it refuse (`skip_list.cpp:64`);
- `OnLiveNodes` and `SaveFaithful` require that no node was unlinked since the
  traversal began; SAVE and DEBUG DIGEST run on the main thread while a worker
  removes, and nothing holds either back. Nor does anything hold back `llca_free`,
  which DEL calls on the main thread and which is not in `LlcaList` at all;
- `ImplementsKeyedBags` is checked without other commands on the keys. With them,
  an insert that found the key empty sets it later, unlocked, over whatever was
  written in between, and an operation may work on a list that DEL has released.
  `KeysHoldLive` and `ObjectsOwned` hold then of every behaviour in which no two
  threads happen to be inside the keyspace at once;
- a skip list that DEL drops is never freed: `llca_conc_free` does nothing
  (`skip_list.cpp:82`), and `ObjectsOwned` exempts those;
- `ArgumentsHeld` allows arguments that are lost with a broken connection: the event
  keeps Redis's vector by pointer and holds no reference to its strings. In MULTI and
  in scripts Redis does not block clients, and no property speaks of those;
- `CollectorInUse` holds at exit because the destructor of the pool, whose threads
  nobody joins, aborts the process before the collector is destroyed. The queue is
  constructed after the pool, is destroyed before it, and is polled on until then;
- no command asks Redis to propagate what it changed, so neither the AOF nor a
  replica learns of a write between two snapshots.

### Bounds

Every cfg is an instance of the module with the constants of the table.
`Events` and `Objects` bound how many events and values a behaviour creates, `Nodes`
the memory of a list, `MaxLen` the insertions (the count never falls, so it has to
be bounded), `MaxCopies` the copies of one value, `MaxQueued` the events that wait. They are enough for the
interesting cases: two workers and the main thread are all the kinds of thread
there are, and each property relates at most two threads, two keys or two
objects, with one more object so that one may be freed while two are in use;
three nodes give a search a first, a middle and a last node, and four insertions
reuse an address; three values give an insertion in front, in between, behind and
next to an equal one; three workers in `module_load`
let one construct the queue, one wait for it and one start late. In `server` a
second worker would multiply the states without a new kind of step: two workers
are in `queue` and `skiplist_sets`; what matters there is a worker, the main thread
and two clients at one key. Symmetry is used only in runs with no liveness property,
over sets whose members the modules treat alike; in `llca_list` the bag that
`ImplementsBag` speaks of does not mention addresses.

### Fairness

`EventQueue` and `SkipListCommands` state it per thread: a thread that can take a
step takes one (weak fairness, what a preemptive scheduler gives), with strong
fairness for lock acquisitions, which the holders release over and over: neither
`std::mutex` nor Redis's mutex promises it, but each holds the lock for a bounded
time and no thread waits for a condition under it. Redis's event loop is taken to
handle the clients it was told to unblock. Clients are under no fairness:
nobody has to send anything and no connection has to break. The workers poll
without sleeping, so an empty queue is not a deadlock. `ModuleLoad` is weakly fair to
the loading thread, to each thread of the pool and to a handler under way, and
not to commands or to the exit. `RedParServer` is checked for safety only.

## Proofs

Every safety property of the passing runs is also a theorem, for every value of
the constants that satisfies the assumptions of the modules, and every refinement
too, with two exceptions, both of `RedParServer`: `ExecuteGoesOn`, which uses ENABLED, and
`ImplementsQueue`, of which the proofs contain the step (`QueueStep`), no more than a
comparison of the two forms of `execute()`. What a theorem assumes beyond that is in its statement and in this table.

| Module | Proved | For |
|---|---|---|
| `EventQueueProofs` | `TypeOK`, `NoLockCycle`, `RefsExact`, `NoUseAfterDestroy`, `ReleasedOnlyAnswered`, `ArgumentsHeld` | any clients, events and workers |
| `EventQueueRefinement` | `ImplementsService` | the same |
| `SkipListProofs` | `TypeOK` | any instance |
| | `KeyspaceExclusive`, `KeysHoldLive`, `ObjectsOwned`, `HandlesHeld`, `NoUseAfterFree`, `ImplementsKeyedSets` | any pool, if workers are sent create and delete only (`LifeCycleOnly`) |
| | `KeysHoldLive`, `ObjectsOwned` | one worker and any requests, if none is sent to the main thread (`Lone`) |
| `RedParServerProofs` | `ImplementsCommands` | any instance |
| | `ImplementsKeyedSets` | any instance with `LifeCycleOnly` |
| `LlcaListProofs` | `TypeOK` | any instance |
| | `ForkSeesSortedList`, `NoNodeLost`, `OnLiveNodes`, `SaveFaithful`, `ImplementsBag` | one worker (`OneWorker`), any memory and integers |
| `LlcaCommandsProofs` | `TypeOK` | any instance |
| | `KeysHoldLive`, `ObjectsOwned` | any pool, whatever overwrites the keys, in behaviours with one thread in the keyspace at a time (`SerialSpec`) |
| | `ImplementsKeyedBags` | one worker, nobody else writing its keys (`Lone`) |
| `LlcaPersistenceProofs` | `TypeOK`, `CountDrift`, `LoadRebuilds`, `CleanSaveRestarts` | any integers, lists of any length |
| `ModuleLoadProofs` | `TypeOK`, `RefusedLeavesNothing`, `OneQueue`, `CollectorInUse` | a pool of any size |

The assumptions the modules make of their constants are: the main thread is no
worker; the pool and a list's memory are finite; markers (`None`, `Null`, `Foreign`,
`Malformed`) are different from what they stand beside; requests are requests; and in
`RedParServer`, that there is an object for each event. That a set of integers is
not the marker of a missing key has to be said (`MarkersAssumption`), because TLA+
is untyped and the maps onto `KeyedSets` and `KeyedBags` put both at a key.

`LifeCycleOnly`, `Lone` and `OneWorker` are where the code needs them. Its lookups do not
lock, and the runs `skiplist_search` and `skiplist_delete` show what happens when a
worker searches beside a main thread that executes commands. `SerialSpec` is of another
kind: it is no choice of an operator but what the code leaves to chance (`llca_set`). One worker is what
`redpar.cpp:14` configures; of two that insert behind the same node of a linked list,
one would lose its node.

### The queue

`EventQueueProofs` stacks four invariants, each inductive together with those
below it:

1. `LockInv`: types, and who holds which lock at which `pc`. `NoLockCycle` follows:
   a thread in the queue's critical section waits for nothing, and a thread that
   executes does not hold the mutex.
2. `RefInv`: the use count equals the number of holders (local and temporary
   reference of the handler, the queue's copy, the workers' hands), no event is
   twice in the queue, or in the queue and in a worker's hands. `RefsExact` alone is
   not inductive: that a drop to zero is the last holder needs the uniqueness of
   the queue's copy.
3. `ClientInv`: a context is open as long as there is a reference, a client is
   blocked as long as its event is alive, and at most one event has it as client;
   an event whose references are gone was answered.
4. `ArgInv`: the arguments of an event are released only when its client has been
   let go, or when the command that made it on the stack returns, so an event
   with references still has them, unless the connection broke.

`EventQueueRefinement` maps push to `Submit`, pop to `Start`, the reply to `Answer` and
unblocking to `Finish`. The abstract service has as many events in service as the
pool has workers, and that is the part no invariant above says. An event in
service is in the hands of a thread (`Owned`), so of a worker, or of the main thread
when it drops the last reference. Counting them gives one too many, unless the
main thread's is not there when a worker starts another: it is the last event
that was pushed (`Latest`), so when it has left the queue there is nothing to start.

### The skip list commands

Under `LifeCycleOnly`, `SkipListProofs` stacks:

1. `TypeInv`: types, and what a thread has in its hands at each `pc`; it carries
   `TypeOK`, and holds of every instance.
2. `LockInv`: a thread between `Lock` and its answer holds the GIL, and the main
   thread holds it exactly while it executes. `KeyspaceExclusive` follows, and with
   it that a search finds what is there (`FoundExact`) and that a thread that changes
   the keyspace is alone there (`Alone`).
3. `OwnInv`: `KeysHoldLive` and `ObjectsOwned`, which are not inductive: a create that
   links its object overwrites what the key holds, and a delete unlinks what it has
   destroyed, so both depend on what was found earlier. `Knows(t)` adds it: at
   `check` the key still holds what was opened (`HandlesHeld`), at `link` it is still
   empty and the object still at no key, at `destroy` and
   `apply` the key still holds the object and it is live, at `unlink` it still holds
   it and it is freed. `NoUseAfterFree` follows from the same facts.
4. `Kept`: a skip list is empty until it is at a key, and none that DEL dropped is
   still at one. Then every step maps to a step of `KeyedSets` or to none. The
   lemmas of the mapping use only `ViewInv`: a command finds what is there, works on
   what is at its key, and no object is at two keys.

Under `Lone`, the search commands run without the lock, beside DEL. What they find, and
what they read through the key they opened, is open, and so are their answers;
nothing is proved of them. What is proved is that they do no harm: create and delete
lock, and so know what `Knows` says (`LoneKnows`), and a search changes nothing but the
content of the object it works on. `KeysHoldLive` and `ObjectsOwned` follow, whatever the
searches see. TLC checks the two properties in `skiplist_sets` only, where every
command has the lock.

### The server

`RedParServerProofs` uses both components' theorems through INSTANCE. A step of
`execute()` is one of the queue's view of it (`ExecuteQueue`). For the commands `WorkInv` is
needed: a thread is in a command only while it is inside `execute()`, or the main
thread in a DEL while its event loop serves (`Working`), so that the event loop never
takes the lock of the commands from under one. With both, what was proved of a
component holds of the server (`QueueStep`, `CommandStep`). `ServerInv` is what neither
component knows: `Requested`, that an event blocks the client that sent it and that
no client has two outstanding; `Undecided`, that an event not yet executed has no
answer; `AtWork`, that a thread executes the command of the event in its hands and
what it finds is the answer kept for that event; `Replied`, that there is an answer
when a reply was sent; and `Ledger`, the types of what is kept. In `View` the CHOOSE of the mapping becomes the one
event a client has outstanding. Then a command that takes effect under `KeptInv`
(`TakesEffect`) is the action of the client whose event it is, its acceptance is the
invocation, and letting the client go is the return.

### The linked list

The chain of the list, `ChainFrom(head)`, is a recursive function along `next`. The
first part of `LlcaListProofs` shows that a list of distinct nodes, each linked to its
successor, is that chain, so that the rest never unfolds the recursion. `ListInv`
says that there is such a list, ascending, whose nodes are the allocated ones but for
the one in the worker's hands, and where in it `cur` and `prev` of the worker stand
at each `pc`: what an insert passed is smaller than its value, what the others
passed is not theirs. `SaveInv` adds
the traversal: the nodes it has written are behind it in the list, and each node
that was there when it began is written or still ahead, as long as nothing is
unlinked. For `ImplementsBag`, the number of copies of an integer in the
bag is the number of nodes that hold it, so linking and unlinking one node is
adding and removing one copy.

`LlcaCommandsProofs` proves `KeysHoldLive` and `ObjectsOwned` for `SerialSpec`. Alone in the
keyspace, the search of `SetSearch` finds what is there, and nobody changes it before
`SetValue` replaces it (`Searched`). The other strengthening is `Created`: between
`CreateList` and `SetValue`, all of it without the lock, a list is live, at no key, and
in no other insert's hands. That an overwritten list is at no other key is what lets
Redis free it at once (`Free`). Nothing here says that a worker does not work on such a
list: it may, see the findings. Under `Lone` it may not: there every behaviour is one of
`SerialSpec` (`LoneSerial`), what the worker found is still at its key when it acts
(`Follows`), and its commands implement `KeyedBags`.

### Persistence, load and exit

`CountDrift` follows from `Counted`, the same equation in every state of the server.
`LoadRebuilds` and `CleanSaveRestarts` need `ImageInv` and `LoadInv`: a list and a saved
list are ascending, a clean file announces as many values as it holds, and while
loading the list is the part of the file already read. The step that carries the
argument is `LoadElement`: an insertion goes before the first value that is not
smaller, so a value that is at least as large as all the others goes to the end or
in front of its equals at the end, which gives the same sequence
(`InsertedLast`). The lemmas before it say what ordered insertion and the removal of a
first occurrence do to an ascending sequence.

The invariant of `ModuleLoadProofs` has five parts: types; `Ordered`, that the collector is the
oldest static object, the pool next and the queue after both; `LoadInv`, how far
the construction has got at each `pc` of the main thread; `PoolInv`, which
threads exist and are attached; and `QueueInv`, that there is a builder exactly
while the queue is not yet constructed and one thread is at it. `TypeOK` adds
`RegisterInv` and `BoundInv`: what is registered is a part of the two lists of names, and
no more events wait than the bound.

### Model-checked only

Liveness: `BlockedClientReturns`, `EveryCommandReturns`, `WorkersReachQueue`. They rest on
fairness, and so on ENABLED, which is beyond the prover; so is `ExecuteGoesOn`.
`ImplementsQueue` is checked by `server`. The four violations are counterexamples, which TLC
finds.

## Not modelled

- The internals of libcds: insert, erase, contains and the destructor are atomic.
  Hazard pointers protect nodes of a skip list, not the object that holds it.
- Replaying an AOF: `llca_aof_rewrite` is the traversal of `LlcaList`, written as
  commands; what Redis's AOF client does with a command that blocks is Redis's.
- The weak memory of the hardware: accesses are sequentially consistent, and a
  fork is a snapshot of one instant.
- `redis/redismodule.h` and its wrapper: declarations of Redis's API. What the module
  needs of Redis behind them is in the external actions.
- The number of hazard pointers libcds is initialised with: the limit is far above
  the pool's size as it is compiled, and how libcds fails beyond it is its own.
- `benchmark.go`, the Makefile, and the texts of replies and logging.

## Plan

Everything the plan listed is done: the components, their composition, and the
proofs. What could still be added:

1. Liveness of `RedParServer`: each client is answered, from the fairness of both
   components. `BlockedClientReturns` and `EveryCommandReturns` cover the two parts.
2. The second type under the queue, as the first is in `RedParServer`. The
   `llca_type` commands use the queue in the same way and no GIL after `OpenKey`.
3. A count in the traversal of `LlcaList`, compared with the values it writes: when a
   file written by SAVE beside an insert announces what it holds.
