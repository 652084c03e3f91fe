----------------------------- MODULE ModuleLoad -----------------------------
(***************************************************************************)
(* Loading the module, starting its threads, and the end of the process.   *)
(*                                                                         *)
(* RedisModule_OnLoad runs on Redis's main thread.  It registers the two   *)
(* types and their commands, any of which Redis may refuse; then it sets   *)
(* libcds up and starts the pool, each thread of which attaches itself to  *)
(* libcds and polls the event queue.  The queue is a function-local static *)
(* that whichever thread asks first constructs.  When the server exits,    *)
(* static objects are destroyed by the main thread, the one constructed    *)
(* last first, while the pool is still running.                            *)
(*                                                                         *)
(* Of the queue only the number of events matters here; MaxQueued bounds   *)
(* it.  EventQueue has the rest.                                           *)
(***************************************************************************)
EXTENDS Integers, Sequences, FiniteSets

CONSTANTS Workers,      \* the pool: CA_THREAD_COUNT threads
          MainThread,   \* Redis's main thread
          None,         \* nobody
          MaxQueued     \* bound on the events that wait

ASSUME ThreadsAssumption ==
    /\ MainThread \notin Workers /\ None \notin Workers \cup {MainThread}
    /\ Workers # {}
ASSUME BoundAssumption == MaxQueued \in Nat

Threads == Workers \cup {MainThread}

\* What LLCA_OnLoad and LLCA_Conc_OnLoad register, types before commands.
LlcaNames == <<"llca_type", "llca_type.insert", "llca_type.contains", "llca_type.remove">>

ConcNames == <<"llca_conc", "llca_conc.insert", "llca_conc.contains", "llca_conc.remove",
               "llca_conc.create", "llca_conc.delete", "llca_seq.insert", "llca_seq.contains",
               "llca_seq.remove", "llca_seq.create", "llca_seq.delete">>

VARIABLES
    status,       \* "loading", "loaded", "refused", "exiting" or "dead"
    registered,   \* the types and commands registered so far
    initialized,  \* cds::Initialize has run
    statics,      \* the static objects constructed, in order
    builder,      \* the thread that constructs the queue, or None
    built,        \* how often the queue has been constructed
    attached,     \* threads attached to libcds
    queued,       \* number of events in the queue
    pc            \* where each thread is

vars == <<status, registered, initialized, statics, builder, built, attached, queued, pc>>

queueVars == <<builder, built, queued>>

Goto(t, from, to) ==
    /\ pc[t] = from
    /\ pc' = [pc EXCEPT ![t] = to]

Constructed(x) == \E i \in 1..Len(statics) : statics[i] = x

Running == status \in {"loading", "loaded", "exiting"}

Init ==
    /\ status = "loading"
    /\ registered = <<>>
    /\ initialized = FALSE
    /\ statics = <<>>
    /\ builder = None
    /\ built = 0
    /\ attached = {}
    /\ queued = 0
    /\ pc = [t \in Threads |-> IF t = MainThread THEN "init" ELSE "unborn"]

-----------------------------------------------------------------------------
(* RedisModule_OnLoad, up to its last early return.                        *)

ModuleInit ==
    /\ Goto(MainThread, "init", "llca")
    /\ UNCHANGED <<status, registered, initialized, statics, queueVars, attached>>

\* Register the next of names, before others having been registered earlier.
Register(names, before, from, to) ==
    LET done == Len(registered) - before IN
    /\ Goto(MainThread, from, IF done + 1 = Len(names) THEN to ELSE from)
    /\ registered' = Append(registered, names[done + 1])
    /\ UNCHANGED <<status, initialized, statics, queueVars, attached>>

LLCA_OnLoad == Register(LlcaNames, 0, "llca", "conc")

LLCA_Conc_OnLoad == Register(ConcNames, Len(LlcaNames), "conc", "cds")

\* Any call to Redis may fail; OnLoad passes the error on at once, and Redis
\* drops the module and unloads the library.
OnLoadFails ==
    /\ pc[MainThread] \in {"init", "llca", "conc"}
    /\ status' = "refused"
    /\ UNCHANGED <<registered, initialized, statics, queueVars, attached, pc>>

-----------------------------------------------------------------------------
(* RedisModule_OnLoad: libcds and the pool.                                *)

Initialize ==
    /\ Goto(MainThread, "cds", "gc")
    /\ initialized' = TRUE
    /\ UNCHANGED <<status, registered, statics, queueVars, attached>>

ConstructCollector ==
    /\ Goto(MainThread, "gc", "attach")
    /\ initialized
    /\ statics' = Append(statics, "hpGC")
    /\ UNCHANGED <<status, registered, initialized, queueVars, attached>>

AttachMain ==
    /\ Goto(MainThread, "attach", "pool")
    /\ attached' = attached \cup {MainThread}
    /\ UNCHANGED <<status, registered, initialized, statics, queueVars>>

ConstructPool ==
    /\ Goto(MainThread, "pool", "spawn")
    /\ statics' = Append(statics, "thread_pool")
    /\ UNCHANGED <<status, registered, initialized, queueVars, attached>>

Unborn == {w \in Workers : pc[w] = "unborn"}

\* thread_pool.emplace_back(work); the thread may run at once.
Spawn ==
    /\ pc[MainThread] = "spawn"
    /\ \E w \in Unborn : Goto(w, "unborn", "attach")
    /\ UNCHANGED <<status, registered, initialized, statics, queueVars, attached>>

\* (Mutant) the exception is caught and reported to Redis.
SpawnFailsCaught ==
    /\ pc[MainThread] = "spawn"
    /\ Unborn # {}
    /\ status' = "refused"
    /\ UNCHANGED <<registered, initialized, statics, queueVars, attached, pc>>

\* No thread can be had: the exception leaves OnLoad, and the process dies.
SpawnFails ==
    /\ pc[MainThread] = "spawn"
    /\ Unborn # {}
    /\ status' = "dead"
    /\ UNCHANGED <<registered, initialized, statics, queueVars, attached, pc>>

\* (Mutant) one thread too few.
OnLoadReturnsEarly ==
    /\ Cardinality(Unborn) <= 1
    /\ Goto(MainThread, "spawn", "serve")
    /\ status' = "loaded"
    /\ UNCHANGED <<registered, initialized, statics, queueVars, attached>>

OnLoadReturns ==
    /\ Unborn = {}
    /\ Goto(MainThread, "spawn", "serve")
    /\ status' = "loaded"
    /\ UNCHANGED <<registered, initialized, statics, queueVars, attached>>

-----------------------------------------------------------------------------
(* event_queue::getInstance: the compiler lets one thread construct the    *)
(* static, and the others wait.                                            *)

\* (Mutant) a check, then a construction, with nothing in between.
GetInstanceUnguarded(t) ==
    /\ pc[t] = "instance"
    /\ \/ ~Constructed("queue") /\ pc' = [pc EXCEPT ![t] = "construct"]
       \/ Constructed("queue") /\ pc' = [pc EXCEPT ![t] = "ready"]
    /\ builder' = t
    /\ UNCHANGED <<status, registered, initialized, statics, built, queued, attached>>

\* Once constructed the object stays as far as getInstance knows, destroyed
\* or not.
GetInstance(t) ==
    /\ pc[t] = "instance"
    /\ builder = None
    /\ \/ built = 0 /\ builder' = t /\ pc' = [pc EXCEPT ![t] = "construct"]
       \/ built > 0 /\ UNCHANGED builder /\ pc' = [pc EXCEPT ![t] = "ready"]
    /\ UNCHANGED <<status, registered, initialized, statics, built, queued, attached>>

ConstructQueue(t) ==
    /\ Goto(t, "construct", "ready")
    /\ statics' = Append(statics, "queue")
    /\ built' = built + 1
    /\ builder' = None
    /\ UNCHANGED <<status, registered, initialized, queued, attached>>

-----------------------------------------------------------------------------
(* work().                                                                 *)

AttachWorker(w) ==
    /\ Goto(w, "attach", "instance")
    /\ attached' = attached \cup {w}
    /\ UNCHANGED <<status, registered, initialized, statics, queueVars>>

\* (Mutant) the queue is not asked whether it is empty.
DequeueUnchecked(w) ==
    /\ Goto(w, "ready", "exec")
    /\ Constructed("queue")
    /\ queued' = queued - 1
    /\ UNCHANGED <<status, registered, initialized, statics, builder, built, attached>>

\* An empty queue is polled again; that is no step.
Dequeue(w) ==
    /\ Goto(w, "ready", "exec")
    /\ Constructed("queue")
    /\ queued > 0
    /\ queued' = queued - 1
    /\ UNCHANGED <<status, registered, initialized, statics, builder, built, attached>>

ExecuteDone(w) ==
    /\ Goto(w, "exec", "ready")
    /\ UNCHANGED <<status, registered, initialized, statics, queueVars, attached>>

-----------------------------------------------------------------------------
(* Commands, on the main thread.                                           *)

ConcHandler ==
    /\ status = "loaded"
    /\ queued < MaxQueued
    /\ Goto(MainThread, "serve", "instance")
    /\ UNCHANGED <<status, registered, initialized, statics, queueVars, attached>>

Enqueue ==
    /\ Goto(MainThread, "ready", "serve")
    /\ queued' = queued + 1
    /\ UNCHANGED <<status, registered, initialized, statics, builder, built, attached>>

SeqHandler ==
    /\ status = "loaded"
    /\ Goto(MainThread, "serve", "exec")
    /\ UNCHANGED <<status, registered, initialized, statics, queueVars, attached>>

SeqReturn ==
    /\ Goto(MainThread, "exec", "serve")
    /\ UNCHANGED <<status, registered, initialized, statics, queueVars, attached>>

-----------------------------------------------------------------------------
(* The end of the process.                                                 *)

\* SHUTDOWN (external): Redis calls exit.
Exit ==
    /\ status = "loaded"
    /\ Goto(MainThread, "serve", "exit")
    /\ status' = "exiting"
    /\ UNCHANGED <<registered, initialized, statics, queueVars, attached>>

Older == SubSeq(statics, 1, Len(statics) - 1)

\* (Mutant) the threads are detached, so the pool can be destroyed.
DestroyStaticDetached ==
    /\ status = "exiting"
    /\ statics # <<>>
    /\ statics' = Older
    /\ UNCHANGED <<status, registered, initialized, queueVars, attached, pc>>

\* The destructor of a std::thread that was not joined ends the process.
DestroyStatic ==
    /\ status = "exiting"
    /\ statics # <<>>
    /\ IF statics[Len(statics)] = "thread_pool"
       THEN status' = "dead" /\ UNCHANGED statics
       ELSE statics' = Older /\ UNCHANGED status
    /\ UNCHANGED <<registered, initialized, queueVars, attached, pc>>

\* A worker polls the destroyed queue: it finds it empty as it was left, or
\* reads the freed memory of its events.
DequeueDestroyed(w) ==
    /\ pc[w] = "ready"
    /\ ~Constructed("queue")
    /\ queued > 0
    /\ status' = "dead"
    /\ UNCHANGED <<registered, initialized, statics, queueVars, attached, pc>>

-----------------------------------------------------------------------------
OnLoad ==
    \/ ModuleInit \/ LLCA_OnLoad \/ LLCA_Conc_OnLoad \/ OnLoadFails
    \/ Initialize \/ ConstructCollector \/ AttachMain \/ ConstructPool
    \/ Spawn \/ SpawnFails \/ OnLoadReturns

Work(w) ==
    \/ AttachWorker(w) \/ GetInstance(w) \/ ConstructQueue(w)
    \/ Dequeue(w) \/ ExecuteDone(w) \/ DequeueDestroyed(w)

Handle == GetInstance(MainThread) \/ ConstructQueue(MainThread) \/ Enqueue \/ SeqReturn

Next ==
    /\ Running
    /\ \/ OnLoad
       \/ \E w \in Workers : Work(w)
       \/ ConcHandler \/ SeqHandler \/ Handle
       \/ Exit \/ DestroyStatic

\* Every thread keeps running; no client has to send a command, and the server
\* need not exit.
Fairness ==
    /\ WF_vars(Running /\ OnLoad)
    /\ WF_vars(Running /\ (Handle \/ DestroyStatic))
    /\ \A w \in Workers : WF_vars(Running /\ Work(w))

Spec == Init /\ [][Next]_vars

FairSpec == Spec /\ Fairness

-----------------------------------------------------------------------------
(***************************************************************************)
(* Properties.                                                             *)
(***************************************************************************)

Stages == {"init", "llca", "conc", "cds", "gc", "attach", "pool", "spawn", "serve",
           "unborn", "instance", "construct", "ready", "exec", "exit"}

TypeOK ==
    /\ status \in {"loading", "loaded", "refused", "exiting", "dead"}
    /\ registered \in Seq({LlcaNames[i] : i \in 1..Len(LlcaNames)} \cup
                          {ConcNames[i] : i \in 1..Len(ConcNames)})
    /\ initialized \in BOOLEAN
    /\ statics \in Seq({"hpGC", "thread_pool", "queue"})
    /\ builder \in Threads \cup {None}
    /\ built \in Nat
    /\ attached \in SUBSET Threads
    /\ queued \in 0..MaxQueued
    /\ pc \in [Threads -> Stages]

\* When Redis refuses the module it unloads the library: no thread of the pool
\* may exist, which would go on running code that is gone, and no static
\* object whose destructor is in it; whichever registration failed.
RefusedLeavesNothing ==
    status = "refused" => statics = <<>> /\ \A w \in Workers : pc[w] = "unborn"

\* "thread safe?" (eventqueue.cpp:20): whatever threads ask for the queue
\* first, handlers and workers get the same one, and none gets it before it is
\* constructed.
OneQueue ==
    /\ built <= 1
    /\ (\E t \in Threads : pc[t] = "ready") => built = 1

\* A thread that executes commands is attached to libcds, whose collector was
\* constructed before and is not destroyed while any thread can execute, not
\* even by the exit of the server: the pool, being younger, is destroyed first,
\* and that ends the process.
CollectorInUse ==
    Running => \A t \in Threads : pc[t] = "exec" =>
        initialized /\ Constructed("hpGC") /\ t \in attached

\* Once loaded, every thread of the pool gets to the queue, or the process is
\* on its way out.
WorkersReachQueue ==
    status = "loaded" ~> \/ \A w \in Workers : pc[w] \in {"ready", "exec"}
                         \/ status \in {"exiting", "dead"}

=============================================================================
