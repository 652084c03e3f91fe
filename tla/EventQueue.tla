----------------------------- MODULE EventQueue -----------------------------
(***************************************************************************)
(* The event queue of RedPar and the threads around it.                    *)
(*                                                                         *)
(* Redis's main thread runs a command of the module either through         *)
(* conc_handler, which builds an event on the heap and pushes it, or       *)
(* through seq_handler, which builds one on its stack and executes it at   *)
(* once.  The threads of the pool run work(): they poll the queue, execute *)
(* the event they dequeued and drop it.  An event is shared by             *)
(* shared_ptr; whichever thread drops the last reference runs ~event(),    *)
(* which frees the thread safe context and unblocks the client.            *)
(*                                                                         *)
(* What a particular execute() does to the keyspace is left to other       *)
(* modules; here it takes Redis's global lock (the GIL) or not, and writes *)
(* one reply.  An element of Events is one event object; each is used for  *)
(* at most one command, so Events bounds the commands of a behaviour.      *)
(***************************************************************************)
EXTENDS Naturals, Sequences, FiniteSets

CONSTANTS Clients,      \* connections to the Redis server
          Events,       \* event objects
          Workers,      \* the pool: CA_THREAD_COUNT threads running work()
          MainThread,   \* Redis's main thread, which runs the handlers
          None          \* nullptr, or nobody

ASSUME ThreadsAssumption == MainThread \notin Workers
ASSUME PoolAssumption == IsFiniteSet(Workers)
ASSUME NoneAssumption == None \notin Clients \cup Events \cup Workers \cup {MainThread}

Threads == Workers \cup {MainThread}

VARIABLES
    events,        \* event_queue::events
    queue_mutex,   \* the thread that holds event_queue::queue_mutex, or None
    client,        \* event::client
    ctx,           \* event::ctx: "none" (no such object), "command" (the context
                   \* of the running command), "open" or "freed" (thread safe)
    refs,          \* use count of the shared_ptr of each event
    replies,       \* number of replies written to the event's context
    argv,          \* event::argv, which belongs to Redis: "none", "held", "lost"
                   \* with the connection, or "released" after the command
    clientState,   \* Redis's view of a client: "ready", "blocked", "unblocking"
    gil,           \* the thread that holds Redis's global lock, or None
    pc,            \* where each thread is
    cur            \* the event each thread works on, or None

vars == <<events, queue_mutex, client, ctx, refs, replies, argv, clientState,
          gil, pc, cur>>

queueVars == <<events, queue_mutex>>
eventVars == <<client, ctx, refs, replies, argv>>

ThreadSafe(e) == ctx[e] = "command"      \* event::thread_safe

Goto(t, from, to) ==
    /\ pc[t] = from
    /\ pc' = [pc EXCEPT ![t] = to]

\* Where a thread continues once it is through with an event.
Home(t) == IF t = MainThread THEN "serve" ELSE "loop"

-----------------------------------------------------------------------------
Init ==
    /\ events = <<>>
    /\ queue_mutex = None
    /\ client = [e \in Events |-> None]
    /\ ctx = [e \in Events |-> "none"]
    /\ refs = [e \in Events |-> 0]
    /\ replies = [e \in Events |-> 0]
    /\ argv = [e \in Events |-> "none"]
    /\ clientState = [c \in Clients |-> "ready"]
    /\ gil = None
    /\ pc = [t \in Threads |-> IF t = MainThread THEN "poll" ELSE "loop"]
    /\ cur = [t \in Threads |-> None]

-----------------------------------------------------------------------------
(* The server's event loop (external): it holds the GIL except while it    *)
(* polls for input, and gives an unblocked client its replies, after which *)
(* it frees the arguments of the command.  When the connection of a        *)
(* blocked client breaks, it frees them at once; whoever connects next is  *)
(* taken to be the same element of Clients, once the command is through.   *)

Wake ==
    /\ gil = None
    /\ gil' = MainThread
    /\ Goto(MainThread, "poll", "serve")
    /\ UNCHANGED <<queueVars, eventVars, clientState, cur>>

Sleep ==
    /\ Goto(MainThread, "serve", "poll")
    /\ gil' = None
    /\ UNCHANGED <<queueVars, eventVars, clientState, cur>>

HandleUnblocked(c) ==
    /\ pc[MainThread] = "serve"
    /\ clientState[c] = "unblocking"
    /\ clientState' = [clientState EXCEPT ![c] = "ready"]
    /\ argv' = [e \in Events |-> IF client[e] = c THEN "released" ELSE argv[e]]
    /\ UNCHANGED <<queueVars, client, ctx, refs, replies, gil, pc, cur>>

Disconnect(c) ==
    /\ pc[MainThread] = "serve"
    /\ clientState[c] = "blocked"
    /\ \E e \in Events :
        /\ client[e] = c /\ argv[e] = "held"
        /\ argv' = [argv EXCEPT ![e] = "lost"]
    /\ UNCHANGED <<queueVars, client, ctx, refs, replies, clientState, gil, pc, cur>>

-----------------------------------------------------------------------------
(* event::event: a stack event has the context of the running command; any *)
(* other blocks its client and has a context of its own.                   *)

Construct(c, e, ts) ==
    /\ ctx[e] = "none"
    /\ argv' = [argv EXCEPT ![e] = "held"]
    /\ \/ /\ ts
          /\ ctx' = [ctx EXCEPT ![e] = "command"]
          /\ UNCHANGED <<client, clientState>>
       \/ /\ ~ts
          /\ client' = [client EXCEPT ![e] = c]
          /\ clientState' = [clientState EXCEPT ![c] = "blocked"]
          /\ ctx' = [ctx EXCEPT ![e] = "open"]

(* conc_handler: construct the event, enqueue it under queue_mutex,        *)
(* release the temporary shared_ptr<event> the call made and then the      *)
(* local shared_ptr<E>.                                                    *)

ConcHandler(c, e) ==
    /\ clientState[c] = "ready"
    /\ Goto(MainThread, "serve", "new")
    /\ Construct(c, e, FALSE)
    /\ refs' = [refs EXCEPT ![e] = 2]
    /\ cur' = [cur EXCEPT ![MainThread] = e]
    /\ UNCHANGED <<queueVars, replies, gil>>

EnqueueLock ==
    /\ queue_mutex = None
    /\ queue_mutex' = MainThread
    /\ Goto(MainThread, "new", "push")
    /\ UNCHANGED <<events, eventVars, clientState, gil, cur>>

\* (Mutant) the queue's copy is not counted.
EnqueuePushUncounted ==
    /\ Goto(MainThread, "push", "pushed")
    /\ events' = Append(events, cur[MainThread])
    /\ UNCHANGED <<queue_mutex, eventVars, clientState, gil, cur>>

EnqueuePush ==
    /\ Goto(MainThread, "push", "pushed")
    /\ events' = Append(events, cur[MainThread])
    /\ refs' = [refs EXCEPT ![cur[MainThread]] = @ + 1]
    /\ UNCHANGED <<queue_mutex, client, ctx, replies, argv, clientState, gil, cur>>

EnqueueUnlock ==
    /\ Goto(MainThread, "pushed", "temp")
    /\ queue_mutex' = None
    /\ UNCHANGED <<events, eventVars, clientState, gil, cur>>

\* (Mutant) the temporary is leaked.
DropTemporaryLeaked ==
    /\ Goto(MainThread, "temp", "done")
    /\ UNCHANGED <<queueVars, eventVars, clientState, gil, cur>>

\* The temporary is never the last reference: the local one outlives it.
DropTemporary ==
    /\ Goto(MainThread, "temp", "done")
    /\ refs' = [refs EXCEPT ![cur[MainThread]] = @ - 1]
    /\ UNCHANGED <<queueVars, client, ctx, replies, argv, clientState, gil, cur>>

\* seq_handler: the event lives on the stack, with the command's own context.
SeqHandler(c, e) ==
    /\ clientState[c] = "ready"
    /\ Goto(MainThread, "serve", "exec")
    /\ Construct(c, e, TRUE)
    /\ cur' = [cur EXCEPT ![MainThread] = e]
    /\ UNCHANGED <<queueVars, refs, replies, gil>>

-----------------------------------------------------------------------------
(* work(): dequeue under queue_mutex; nullptr when the queue was empty.    *)

DequeueLock(w) ==
    /\ queue_mutex = None
    /\ queue_mutex' = w
    /\ Goto(w, "loop", "pop")
    /\ UNCHANGED <<events, eventVars, clientState, gil, cur>>

\* (Mutant) the newest event is taken.
DequeuePopNewest(w) ==
    /\ events # <<>>
    /\ Goto(w, "pop", "popped")
    /\ events' = SubSeq(events, 1, Len(events) - 1)
    /\ cur' = [cur EXCEPT ![w] = events[Len(events)]]
    /\ UNCHANGED <<queue_mutex, eventVars, clientState, gil>>

\* front() copies the shared_ptr and pop() destroys the queue's copy: the use
\* count is what it was.
DequeuePop(w) ==
    /\ events # <<>>
    /\ Goto(w, "pop", "popped")
    /\ events' = Tail(events)
    /\ cur' = [cur EXCEPT ![w] = Head(events)]
    /\ UNCHANGED <<queue_mutex, eventVars, clientState, gil>>

DequeueEmpty(w) ==
    /\ events = <<>>
    /\ Goto(w, "pop", "popped")
    /\ UNCHANGED <<queueVars, eventVars, clientState, gil, cur>>

\* (Mutant) the dequeued pointer is not compared with nullptr.
DequeueUnlockUnchecked(w) ==
    /\ Goto(w, "popped", "exec")
    /\ queue_mutex' = None
    /\ UNCHANGED <<events, eventVars, clientState, gil, cur>>

DequeueUnlock(w) ==
    /\ Goto(w, "popped", IF cur[w] = None THEN "loop" ELSE "exec")
    /\ queue_mutex' = None
    /\ UNCHANGED <<events, eventVars, clientState, gil, cur>>

-----------------------------------------------------------------------------
(* execute(), on a worker or, for seq_handler, on the main thread.  Every  *)
(* body replies exactly once.  It may take the GIL, always guarded by      *)
(* !thread_safe where both handlers share the class, and the reply comes   *)
(* before the unlock on some paths and after it on others.                 *)

\* (Mutant) an early return without a reply.
ExecEnterSilent(t) ==
    /\ \/ Goto(t, "exec", "body") \/ Goto(t, "exec", "done")
       \/ Goto(t, "exec", "wantgil") /\ ~ThreadSafe(cur[t])
    /\ UNCHANGED <<queueVars, eventVars, clientState, gil, cur>>

\* (Mutant) the lock is taken whatever thread_safe says.
ExecEnterUnguarded(t) ==
    /\ Goto(t, "exec", "body") \/ Goto(t, "exec", "wantgil")
    /\ UNCHANGED <<queueVars, eventVars, clientState, gil, cur>>

ExecEnter(t) ==
    /\ \/ Goto(t, "exec", "body")
       \/ Goto(t, "exec", "wantgil") /\ ~ThreadSafe(cur[t])
    /\ UNCHANGED <<queueVars, eventVars, clientState, gil, cur>>

ExecLock(t) ==
    /\ gil = None
    /\ gil' = t
    /\ Goto(t, "wantgil", "locked")
    /\ UNCHANGED <<queueVars, eventVars, clientState, cur>>

ExecUnlock(t) ==
    /\ \/ Goto(t, "locked", "body")
       \/ Goto(t, "lockedReplied", "done")
    /\ gil' = None
    /\ UNCHANGED <<queueVars, eventVars, clientState, cur>>

ExecReply(t) ==
    /\ \/ Goto(t, "body", "done")
       \/ Goto(t, "locked", "lockedReplied")
    /\ replies' = [replies EXCEPT ![cur[t]] = @ + 1]
    /\ UNCHANGED <<queueVars, client, ctx, refs, argv, clientState, gil, cur>>

-----------------------------------------------------------------------------
(* The end of a handler or of an iteration of work(): the local pointer    *)
(* goes out of scope.  A stack event's destructor does nothing.            *)

DropLast(t) ==
    /\ pc[t] = "done"
    /\ ~ThreadSafe(cur[t])
    /\ refs[cur[t]] = 1
    /\ refs' = [refs EXCEPT ![cur[t]] = 0]
    /\ Goto(t, "done", "dtor")
    /\ UNCHANGED <<queueVars, client, ctx, replies, argv, clientState, gil, cur>>

DropShared(t) ==
    /\ pc[t] = "done"
    /\ ~ThreadSafe(cur[t])
    /\ refs[cur[t]] > 1
    /\ refs' = [refs EXCEPT ![cur[t]] = @ - 1]
    /\ Goto(t, "done", Home(t))
    /\ cur' = [cur EXCEPT ![t] = None]
    /\ UNCHANGED <<queueVars, client, ctx, replies, argv, clientState, gil>>

SeqReturn ==
    /\ pc[MainThread] = "done"
    /\ ThreadSafe(cur[MainThread])
    /\ Goto(MainThread, "done", "serve")
    /\ argv' = [argv EXCEPT ![cur[MainThread]] = "released"]
    /\ cur' = [cur EXCEPT ![MainThread] = None]
    /\ UNCHANGED <<queueVars, client, ctx, refs, replies, clientState, gil>>

\* ~event() of an event made by conc_handler.
FreeContext(t) ==
    /\ Goto(t, "dtor", "unblock")
    /\ ctx' = [ctx EXCEPT ![cur[t]] = "freed"]
    /\ UNCHANGED <<queueVars, client, refs, replies, argv, clientState, gil, cur>>

Unblock(t) ==
    /\ Goto(t, "unblock", Home(t))
    /\ clientState' = [clientState EXCEPT ![client[cur[t]]] = "unblocking"]
    /\ cur' = [cur EXCEPT ![t] = None]
    /\ UNCHANGED <<queueVars, eventVars, gil>>

-----------------------------------------------------------------------------
Execute(t) == ExecEnter(t) \/ ExecLock(t) \/ ExecUnlock(t) \/ ExecReply(t)

Drop(t) == DropLast(t) \/ DropShared(t) \/ FreeContext(t) \/ Unblock(t)

Server == Wake \/ Sleep \/ \E c \in Clients : HandleUnblocked(c) \/ Disconnect(c)

Command == \E c \in Clients, e \in Events : ConcHandler(c, e) \/ SeqHandler(c, e)

Enqueue == EnqueueLock \/ EnqueuePush \/ EnqueueUnlock \/ DropTemporary

Dequeue(w) == DequeueLock(w) \/ DequeuePop(w) \/ DequeueEmpty(w) \/ DequeueUnlock(w)

Next ==
    \/ Server
    \/ Command
    \/ Enqueue
    \/ SeqReturn
    \/ \E w \in Workers : Dequeue(w)
    \/ \E t \in Threads : Execute(t) \/ Drop(t)

Work(w) == Dequeue(w) \/ Execute(w) \/ Drop(w)

Handle == Wake \/ Enqueue \/ Execute(MainThread) \/ Drop(MainThread) \/ SeqReturn

(***************************************************************************)
(* Every thread keeps running, a contended lock is eventually granted to   *)
(* each thread that keeps asking for it, and the event loop gets to the    *)
(* unblocked clients.  Each thread is sequential: where one of its actions *)
(* is enabled, Work or Handle can only be that one.  That a client ever    *)
(* sends a command is not assumed.                                         *)
(***************************************************************************)
Fairness ==
    /\ \A w \in Workers : SF_vars(Work(w))
    /\ SF_vars(Handle) /\ WF_vars(Sleep)
    /\ \A c \in Clients : SF_vars(HandleUnblocked(c))

Spec == Init /\ [][Next]_vars

FairSpec == Spec /\ Fairness

-----------------------------------------------------------------------------
(***************************************************************************)
(* Properties.                                                             *)
(***************************************************************************)

Executing == {"exec", "wantgil", "body", "locked", "lockedReplied"}
Handling  == {"new", "push", "pushed", "temp"}
Using     == Executing \cup Handling \cup {"done", "dtor"}
Busy      == Using \cup {"unblock"}

Queued(e) == \E i \in 1..Len(events) : events[i] = e

\* Types; a thread is given an event exactly while it is busy with one, so
\* e->execute() is never called on the nullptr of an empty queue.
TypeOK ==
    /\ events \in Seq(Events)
    /\ queue_mutex \in Threads \cup {None}
    /\ client \in [Events -> Clients \cup {None}]
    /\ ctx \in [Events -> {"none", "command", "open", "freed"}]
    /\ refs \in [Events -> Nat]
    /\ replies \in [Events -> Nat]
    /\ argv \in [Events -> {"none", "held", "lost", "released"}]
    /\ clientState \in [Clients -> {"ready", "blocked", "unblocking"}]
    /\ gil \in Threads \cup {None}
    /\ pc \in [Threads -> Busy \cup {"poll", "serve", "loop", "pop", "popped"}]
    /\ cur \in [Threads -> Events \cup {None}]
    /\ \A t \in Threads : pc[t] \in Busy => cur[t] # None

Bit(b) == IF b THEN 1 ELSE 0

LocalRef(e) == cur[MainThread] = e /\ pc[MainThread] \in Handling \cup {"done"}
TempRef(e) == cur[MainThread] = e /\ pc[MainThread] \in Handling
WorkerRef(e) == \E w \in Workers : cur[w] = e /\ pc[w] \notin {"dtor", "unblock"}

\* The use count of an event made by conc_handler is the number of pointers
\* to it: the handler's local one, the temporary of the enqueue call, the
\* queue's and that of the worker executing it.  Neither side can lose or
\* duplicate a reference while the other copies and destroys its own.
RefsExact ==
    \A e \in Events : ~ThreadSafe(e) =>
        refs[e] = Bit(LocalRef(e)) + Bit(TempRef(e)) + Bit(Queued(e)) + Bit(WorkerRef(e))

\* No event is destroyed while it is queued, while a thread executes it or
\* while the handler that made it still holds it: whichever of the worker and
\* the handler is slower runs ~event().
NoUseAfterDestroy ==
    /\ \A i \in 1..Len(events) : ctx[events[i]] = "open"
    /\ \A t \in Threads : pc[t] \in Using => ctx[cur[t]] \in {"open", "command"}

\* A client that is no longer blocked has been answered exactly once for each
\* command it sent through conc_handler, and those events are destroyed: it is
\* never let go by ~event() before the worker's reply, nor answered twice.
ReleasedOnlyAnswered ==
    \A e \in Events :
        client[e] # None /\ clientState[client[e]] # "blocked" =>
            ctx[e] = "freed" /\ replies[e] = 1

\* Redis frees the arguments of a command after its client was let go, which is
\* after the event was executed: "the server [is told] to save the client
\* information" (eventqueue.h:53).  Only with its connection does a client that
\* was blocked lose them earlier.  (In MULTI and in scripts Redis does not block
\* clients; those are not in this module's environment.)
ArgumentsHeld ==
    \A e \in Events :
        Queued(e) \/ (\E t \in Threads : cur[t] = e /\ pc[t] \in Executing) =>
            argv[e] \in {"held", "lost"}

WantsMutex(t) == pc[t] \in {"new", "loop"}
WantsGil(t) == pc[t] \in {"poll", "wantgil"}

\* queue_mutex and the GIL are never waited for in a cycle: the main thread
\* asks for the mutex while it holds the GIL, so a thread with the mutex must
\* not ask for the GIL, and none asks for a lock it holds (the seq_handler
\* path executes with the GIL held and relies on thread_safe).
NoLockCycle ==
    /\ \A t \in Threads :
        /\ ~(gil = t /\ WantsGil(t))
        /\ ~(queue_mutex = t /\ WantsMutex(t))
    /\ \A t, u \in Threads :
        ~(gil = t /\ WantsMutex(t) /\ queue_mutex = u /\ WantsGil(u))

Building(e) == cur[MainThread] = e /\ pc[MainThread] \in {"new", "push"}
Released(e) == ctx[e] = "freed" /\ \A t \in Threads : ~(pc[t] = "unblock" /\ cur[t] = e)

\* An event is in service from the time it is popped until its client is let go.
InService == {e \in Events : /\ ctx[e] \in {"open", "freed"}
                             /\ ~Building(e) /\ ~Queued(e) /\ ~Released(e)}

Finished == {e \in Events : Released(e)}

\* The answers to events of conc_handler.
Answers == [e \in Events |-> IF ThreadSafe(e) THEN 0 ELSE replies[e]]

Service == INSTANCE FifoService WITH
    Capacity <- Cardinality(Workers),
    waiting  <- events,
    serving  <- InService,
    finished <- Finished,
    answers  <- Answers

\* The queue with its mutex, its shared pointers and its threads implements
\* the first-in first-out service: commands are started in the order the
\* handlers pushed them, at most one per worker is in service at a time, and
\* with a single worker their clients are let go in that order too.
ImplementsService == Service!SSpec

\* Every blocked client is eventually answered and let go, whichever thread
\* turns out to hold the last reference to its event.
BlockedClientReturns ==
    \A c \in Clients : clientState[c] = "blocked" ~> clientState[c] = "ready"

=============================================================================
