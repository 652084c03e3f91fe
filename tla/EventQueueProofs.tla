-------------------------- MODULE EventQueueProofs --------------------------
(***************************************************************************)
(* Proofs about EventQueue, for every set of clients, events and workers.  *)
(*                                                                         *)
(* The invariant is built in layers, each proved on top of those before    *)
(* it: LockInv (who is where, and who holds which lock), RefInv (where the *)
(* pointers to each event are), ClientInv (what a client has been          *)
(* answered) and ArgInv (what has become of the arguments of its command). *)
(***************************************************************************)
EXTENDS EventQueue, SequenceTheorems, TLAPS

MainPC == {"poll", "serve", "exec", "body", "done", "dtor", "unblock"} \cup Handling

WorkerPC == {"loop", "pop", "popped", "done", "dtor", "unblock"} \cup Executing

Types ==
    /\ events \in Seq(Events)
    /\ queue_mutex \in Threads \cup {None}
    /\ client \in [Events -> Clients \cup {None}]
    /\ ctx \in [Events -> {"none", "command", "open", "freed"}]
    /\ refs \in [Events -> Int]
    /\ replies \in [Events -> Nat]
    /\ argv \in [Events -> {"none", "held", "lost", "released"}]
    /\ clientState \in [Clients -> {"ready", "blocked", "unblocking"}]
    /\ gil \in Threads \cup {None}
    /\ pc \in [Threads -> MainPC \cup WorkerPC]
    /\ cur \in [Threads -> Events \cup {None}]

\* Where each thread can be, and when it has an event.
Places ==
    /\ pc[MainThread] \in MainPC
    /\ \A w \in Workers : pc[w] \in WorkerPC
    /\ \A t \in Threads :
        /\ pc[t] \in Busy => cur[t] \in Events
        /\ pc[t] \notin Busy \cup {"popped"} => cur[t] = None

\* The main thread executes only events of seq_handler, the workers only
\* events of conc_handler.
Kinds ==
    /\ \A i \in 1..Len(events) : ctx[events[i]] \in {"open", "freed"}
    /\ \A w \in Workers : cur[w] # None => ctx[cur[w]] \in {"open", "freed"}
    /\ pc[MainThread] \in Handling \cup {"dtor", "unblock"} =>
            ctx[cur[MainThread]] \in {"open", "freed"}
    /\ pc[MainThread] \in {"exec", "body"} => ctx[cur[MainThread]] = "command"
    /\ pc[MainThread] = "done" => ctx[cur[MainThread]] # "none"

Locks ==
    /\ gil = MainThread <=> pc[MainThread] # "poll"
    /\ \A w \in Workers : gil = w <=> pc[w] \in {"locked", "lockedReplied"}
    /\ \A t \in Threads : queue_mutex = t <=> pc[t] \in {"push", "pushed", "pop", "popped"}

LockInv == Types /\ Places /\ Kinds /\ Locks

-----------------------------------------------------------------------------
(* Facts about the queue as a sequence.                                    *)

\* push adds its argument at the back and moves nothing.
LEMMA PushQueue ==
    ASSUME NEW q \in Seq(Events), NEW e \in Events
    PROVE  /\ Append(q, e) \in Seq(Events)
           /\ Len(Append(q, e)) = Len(q) + 1
           /\ \A i \in 1..Len(q) : Append(q, e)[i] = q[i]
           /\ Append(q, e)[Len(q) + 1] = e
BY AppendProperties

\* front and pop take the first element and shift the others.
LEMMA PopQueue ==
    ASSUME NEW q \in Seq(Events), q # <<>>
    PROVE  /\ Head(q) \in Events
           /\ Head(q) = q[1]
           /\ Len(q) \in Nat \ {0}
           /\ Tail(q) \in Seq(Events)
           /\ Len(Tail(q)) = Len(q) - 1
           /\ \A i \in 1..Len(Tail(q)) : Tail(q)[i] = q[i + 1]
BY HeadTailProperties, EmptySeq

-----------------------------------------------------------------------------
LEMMA LockInvInit == Init => LockInv
BY NoneAssumption, ThreadsAssumption
   DEF Init, LockInv, Types, Places, Kinds, Locks, Threads, MainPC, WorkerPC,
       Handling, Executing, Using, Busy

\* Every step keeps track of where threads are and of who holds which lock.
LEMMA LockInvStep == LockInv /\ [Next]_vars => LockInv'
<1> SUFFICES ASSUME LockInv, [Next]_vars PROVE LockInv'
  OBVIOUS
<1> USE NoneAssumption, ThreadsAssumption
    DEF LockInv, Types, Places, Kinds, Locks, Threads, MainPC, WorkerPC,
        Handling, Executing, Using, Busy, ThreadSafe, Goto, Home, queueVars, eventVars
<1>1. CASE Wake
  <2>1. Types' /\ Places'
    BY <1>1 DEF Wake
  <2>2. Kinds'
    BY <1>1 DEF Wake
  <2>3. Locks'
    BY <1>1 DEF Wake
  <2>4. QED
    BY <2>1, <2>2, <2>3
<1>2. CASE Sleep
  <2>1. Types' /\ Places'
    BY <1>2 DEF Sleep
  <2>2. Kinds'
    BY <1>2 DEF Sleep
  <2>3. Locks'
    BY <1>2 DEF Sleep
  <2>4. QED
    BY <2>1, <2>2, <2>3
<1>3. ASSUME NEW c \in Clients, HandleUnblocked(c) \/ Disconnect(c) PROVE LockInv'
  <2>1. CASE HandleUnblocked(c)
    BY <2>1 DEF HandleUnblocked
  <2>2. CASE Disconnect(c)
    <3>1. PICK e \in Events : argv' = [argv EXCEPT ![e] = "lost"]
      BY <2>2 DEF Disconnect
    <3>2. argv' \in [Events -> {"none", "held", "lost", "released"}]
      BY <3>1
    <3>3. QED
      BY <2>2, <3>2 DEF Disconnect
  <2>3. QED
    BY <1>3, <2>1, <2>2
<1>4. ASSUME NEW c \in Clients, NEW e \in Events, ConcHandler(c, e) PROVE LockInv'
  <2>1. /\ argv' = [argv EXCEPT ![e] = "held"] /\ ctx' = [ctx EXCEPT ![e] = "open"]
        /\ client' = [client EXCEPT ![e] = c]
        /\ clientState' = [clientState EXCEPT ![c] = "blocked"]
    BY <1>4 DEF Construct, ConcHandler
  <2>2. Types' /\ Places' /\ Locks'
    BY <1>4, <2>1 DEF ConcHandler
  <2>3. Kinds'
    BY <1>4, <2>1 DEF ConcHandler
  <2>4. QED
    BY <2>2, <2>3
<1>5. ASSUME NEW c \in Clients, NEW e \in Events, SeqHandler(c, e) PROVE LockInv'
  <2>1. /\ argv' = [argv EXCEPT ![e] = "held"] /\ ctx' = [ctx EXCEPT ![e] = "command"]
        /\ UNCHANGED <<client, clientState>> /\ ctx[e] = "none"
    BY <1>5 DEF Construct, SeqHandler
  <2>2. Types' /\ Places' /\ Locks'
    BY <1>5, <2>1 DEF SeqHandler
  <2>3. Kinds'
    BY <1>5, <2>1 DEF SeqHandler
  <2>4. QED
    BY <2>2, <2>3
<1>6. CASE EnqueueLock
  BY <1>6 DEF EnqueueLock
<1>7. CASE EnqueuePush
  BY <1>7, PushQueue DEF EnqueuePush
<1>8. CASE EnqueueUnlock
  BY <1>8 DEF EnqueueUnlock
<1>9. CASE DropTemporary
  BY <1>9 DEF DropTemporary
<1>10. CASE SeqReturn
  BY <1>10 DEF SeqReturn
<1>11. ASSUME NEW w \in Workers, DequeueLock(w) PROVE LockInv'
  <2>1. Types'
    BY <1>11 DEF DequeueLock
  <2>2. Places'
    BY <1>11 DEF DequeueLock
  <2>3. Kinds'
    BY <1>11 DEF DequeueLock
  <2>4. Locks'
    BY <1>11 DEF DequeueLock
  <2>5. QED
    BY <2>1, <2>2, <2>3, <2>4
<1>12. ASSUME NEW w \in Workers, DequeuePop(w) PROVE LockInv'
  <2>1. Types'
    BY <1>12, PopQueue DEF DequeuePop
  <2>2. Places'
    BY <1>12, PopQueue DEF DequeuePop
  <2>3. Kinds'
    BY <1>12, PopQueue DEF DequeuePop
  <2>4. Locks'
    BY <1>12, PopQueue DEF DequeuePop
  <2>5. QED
    BY <2>1, <2>2, <2>3, <2>4
<1>13. ASSUME NEW w \in Workers, DequeueEmpty(w) PROVE LockInv'
  BY <1>13 DEF DequeueEmpty
<1>14. ASSUME NEW w \in Workers, DequeueUnlock(w) PROVE LockInv'
  BY <1>14 DEF DequeueUnlock
<1>15. ASSUME NEW t \in Threads, ExecEnter(t) PROVE LockInv'
  <2>1. CASE Goto(t, "exec", "body")
    BY <1>15, <2>1 DEF ExecEnter
  <2>2. CASE Goto(t, "exec", "wantgil")
    BY <1>15, <2>2 DEF ExecEnter
  <2>3. QED
    BY <1>15, <2>1, <2>2 DEF ExecEnter
<1>16. ASSUME NEW t \in Threads, ExecLock(t) PROVE LockInv'
  BY <1>16 DEF ExecLock
<1>17. ASSUME NEW t \in Threads, ExecUnlock(t) PROVE LockInv'
  <2>1. CASE Goto(t, "locked", "body")
    BY <1>17, <2>1 DEF ExecUnlock
  <2>2. CASE Goto(t, "lockedReplied", "done")
    BY <1>17, <2>2 DEF ExecUnlock
  <2>3. QED
    BY <1>17, <2>1, <2>2 DEF ExecUnlock
<1>18. ASSUME NEW t \in Threads, ExecReply(t) PROVE LockInv'
  <2>1. CASE Goto(t, "body", "done")
    <3>1. CASE t = MainThread
      BY <1>18, <2>1, <3>1 DEF ExecReply
    <3>2. CASE t \in Workers
      BY <1>18, <2>1, <3>2 DEF ExecReply
    <3>3. QED
      BY <3>1, <3>2
  <2>2. CASE Goto(t, "locked", "lockedReplied")
    BY <1>18, <2>2 DEF ExecReply
  <2>3. QED
    BY <1>18, <2>1, <2>2 DEF ExecReply
<1>19. ASSUME NEW t \in Threads, DropLast(t) PROVE LockInv'
  BY <1>19 DEF DropLast
<1>20. ASSUME NEW t \in Threads, DropShared(t) PROVE LockInv'
  BY <1>20 DEF DropShared
<1>21. ASSUME NEW t \in Threads, FreeContext(t) PROVE LockInv'
  BY <1>21 DEF FreeContext
<1>22. ASSUME NEW t \in Threads, Unblock(t) PROVE LockInv'
  <2>1. Types'
    BY <1>22 DEF Unblock
  <2>2. Places'
    BY <1>22 DEF Unblock
  <2>3. Kinds'
    BY <1>22 DEF Unblock
  <2>4. Locks'
    BY <1>22 DEF Unblock
  <2>5. QED
    BY <2>1, <2>2, <2>3, <2>4
<1>23. CASE UNCHANGED vars
  BY <1>23 DEF vars
<1>24. QED
  BY <1>1, <1>2, <1>3, <1>4, <1>5, <1>6, <1>7, <1>8, <1>9, <1>10, <1>11, <1>12,
     <1>13, <1>14, <1>15, <1>16, <1>17, <1>18, <1>19, <1>20, <1>21, <1>22, <1>23
  DEF Next, Server, Command, Enqueue, Dequeue, Execute, Drop

LEMMA LockInvariant == Spec => []LockInv
BY LockInvInit, LockInvStep, PTL DEF Spec

\* The main thread asks for queue_mutex with the GIL held, and no thread that
\* holds queue_mutex ever asks for the GIL: the two locks cannot deadlock.
THEOREM NoLockCycleTheorem == Spec => []NoLockCycle
<1>1. LockInv => NoLockCycle
  BY NoneAssumption, ThreadsAssumption
     DEF LockInv, Types, Places, Locks, Threads, MainPC, WorkerPC, Handling, Executing,
         NoLockCycle, WantsMutex, WantsGil
<1>2. QED
  BY <1>1, LockInvariant, PTL

-----------------------------------------------------------------------------
(* Where the pointers to an event are.                                     *)

\* Apart from the handler that is still on its way out, one place at a time
\* has the event: the queue, one worker or the thread that destroys it.
Sharing ==
    /\ \A i, j \in 1..Len(events) : i # j => events[i] # events[j]
    /\ \A w \in Workers : cur[w] # None => ~Queued(cur[w])
    /\ \A v, w \in Workers : v # w /\ cur[v] # None => cur[v] # cur[w]
    /\ pc[MainThread] \in {"new", "push", "dtor", "unblock"} =>
            /\ ~Queued(cur[MainThread])
            /\ \A w \in Workers : cur[w] # cur[MainThread]
    /\ \A w \in Workers : pc[w] \in {"dtor", "unblock"} => cur[MainThread] # cur[w]

\* A destroyed event is known only to the thread that is destroying it.
Freed ==
    \A e \in Events : ctx[e] = "freed" =>
        /\ ~Queued(e)
        /\ \A t \in Threads : cur[t] = e => pc[t] = "unblock"

StackRefs == \A e \in Events : ThreadSafe(e) => refs[e] = 0

RefInv == Sharing /\ Freed /\ StackRefs /\ RefsExact

-----------------------------------------------------------------------------
(* What clients have been answered.                                        *)

Blocking ==
    /\ \A e \in Events : client[e] # None <=> ctx[e] \in {"open", "freed"}
    /\ \A e \in Events : ctx[e] = "open" => clientState[client[e]] = "blocked"
    /\ \A t \in Threads : pc[t] = "unblock" =>
            /\ ctx[cur[t]] = "freed"
            /\ clientState[client[cur[t]]] = "blocked"
    /\ \A e, f \in Events :
            e # f /\ client[e] # None /\ client[e] = client[f] => Released(e) \/ Released(f)

\* A worker answers the event it dequeued on its way to "done".
Served(w) ==
    /\ cur[w] # None /\ pc[w] \in {"popped", "exec", "wantgil", "body", "locked"} =>
            replies[cur[w]] = 0
    /\ pc[w] \in {"lockedReplied", "done", "dtor", "unblock"} => replies[cur[w]] = 1

\* The main thread pushes an event nobody has answered and destroys one that
\* was answered ...
Fresh ==
    /\ pc[MainThread] \in {"new", "push"} => replies[cur[MainThread]] = 0
    /\ pc[MainThread] \in {"dtor", "unblock"} => replies[cur[MainThread]] = 1

\* ... and in between somebody else has the event, or has answered it.
Pending ==
    pc[MainThread] \in {"pushed", "temp", "done"} /\ ctx[cur[MainThread]] = "open" =>
        \/ Queued(cur[MainThread])
        \/ WorkerRef(cur[MainThread])
        \/ replies[cur[MainThread]] = 1

Answering ==
    /\ \A e \in Events : ctx[e] = "none" => replies[e] = 0
    /\ \A e \in Events : Queued(e) => replies[e] = 0
    /\ \A e \in Events : ctx[e] = "freed" => replies[e] = 1
    /\ \A w \in Workers : Served(w)
    /\ Fresh
    /\ Pending

ClientInv == Blocking /\ Answering

-----------------------------------------------------------------------------
LEMMA RefInvInit == Init => RefInv
BY NoneAssumption, ThreadsAssumption
   DEF Init, RefInv, Sharing, Freed, StackRefs, RefsExact, LocalRef, TempRef, WorkerRef,
       Queued, Bit, Threads, ThreadSafe, Handling

\* No queue and no thread knows an event object that was not constructed.
LEMMA FreshEvent ==
    ASSUME LockInv, NEW e \in Events, ctx[e] = "none", cur[MainThread] = None
    PROVE  ~Queued(e) /\ \A t \in Threads : cur[t] # e
<1>1. ~Queued(e)
  BY DEF LockInv, Kinds, Queued
<1>2. \A w \in Workers : cur[w] # e
  BY NoneAssumption DEF LockInv, Kinds
<1>3. QED
  BY <1>1, <1>2, NoneAssumption DEF Threads

\* An event that nothing points to has a count of zero.
LEMMA Unreferenced ==
    ASSUME RefsExact, NEW e \in Events, ~ThreadSafe(e),
           ~LocalRef(e), ~TempRef(e), ~Queued(e), ~WorkerRef(e)
    PROVE  refs[e] = 0
BY DEF RefsExact, Bit

\* push makes its argument queued, and no other event.
LEMMA QueuedAfterPush ==
    ASSUME NEW e \in Events, events \in Seq(Events), events' = Append(events, e)
    PROVE  \A d \in Events : Queued(d)' <=> Queued(d) \/ d = e
<1>1. /\ \A i \in 1..Len(events) : events'[i] = events[i]
      /\ Len(events') = Len(events) + 1
      /\ events'[Len(events) + 1] = e
      /\ Len(events) \in Nat
  BY PushQueue, LenProperties
<1>2. QED
  BY <1>1 DEF Queued

\* pop makes the first event not queued, and no other: the queue has it once.
LEMMA QueuedAfterPop ==
    ASSUME events \in Seq(Events), events # <<>>, events' = Tail(events),
           \A i, j \in 1..Len(events) : i # j => events[i] # events[j]
    PROVE  \A d \in Events : Queued(d)' <=> Queued(d) /\ d # Head(events)
<1>1. /\ Head(events) = events[1]
      /\ Len(events) \in Nat \ {0}
      /\ Len(events') = Len(events) - 1
      /\ \A i \in 1..Len(events') : events'[i] = events[i + 1]
  BY PopQueue
<1>2. ASSUME NEW d \in Events, Queued(d)' PROVE Queued(d) /\ d # Head(events)
  BY <1>1, <1>2 DEF Queued
<1>3. ASSUME NEW d \in Events, Queued(d), d # Head(events) PROVE Queued(d)'
  <2>1. PICK i \in 1..Len(events) : events[i] = d
    BY <1>3 DEF Queued
  <2>2. i - 1 \in 1..Len(events') /\ events'[i - 1] = d
    BY <1>1, <1>3, <2>1
  <2>3. QED
    BY <2>2 DEF Queued
<1>4. QED
  BY <1>2, <1>3

\* A step that moves no pointer: it touches neither the queue nor a thread's
\* event nor a count, and no thread enters or leaves the part of its code
\* where it has one more or one fewer.
Quiet ==
    /\ UNCHANGED <<events, ctx, refs, cur>>
    /\ \A t \in Threads : /\ pc'[t] = "dtor" <=> pc[t] = "dtor"
                          /\ pc'[t] = "unblock" <=> pc[t] = "unblock"
    /\ pc'[MainThread] \in {"new", "push"} <=> pc[MainThread] \in {"new", "push"}
    /\ pc'[MainThread] \in Handling <=> pc[MainThread] \in Handling
    /\ \/ pc'[MainThread] = "done" <=> pc[MainThread] = "done"
       \/ cur[MainThread] \in Events /\ ThreadSafe(cur[MainThread])

LEMMA RefInvQuiet == LockInv /\ RefInv /\ Quiet => RefInv'
<1> SUFFICES ASSUME LockInv, RefInv, Quiet PROVE RefInv'
  OBVIOUS
<1> USE ThreadsAssumption DEF Quiet, RefInv, Threads
<1>1. Sharing'
  BY DEF Sharing, Queued
<1>2. Freed'
  BY DEF Freed, Queued
<1>3. StackRefs'
  BY DEF StackRefs, ThreadSafe
<1>4. ASSUME NEW e \in Events, ~ThreadSafe(e)'
      PROVE (refs[e] = Bit(LocalRef(e)) + Bit(TempRef(e)) + Bit(Queued(e)) + Bit(WorkerRef(e)))'
  <2>1. ~ThreadSafe(e) /\ refs'[e] = refs[e]
    BY <1>4 DEF ThreadSafe
  <2>2. LocalRef(e)' <=> LocalRef(e)
    BY <2>1 DEF LocalRef
  <2>3. TempRef(e)' <=> TempRef(e)
    BY DEF TempRef
  <2>4. Queued(e)' <=> Queued(e)
    BY DEF Queued
  <2>5. WorkerRef(e)' <=> WorkerRef(e)
    BY DEF WorkerRef
  <2>6. QED
    BY <2>1, <2>2, <2>3, <2>4, <2>5 DEF RefsExact, Bit
<1>5. QED
  BY <1>1, <1>2, <1>3, <1>4 DEF RefsExact

\* A step in which thread t leaves its event, for another iteration of work()
\* or for the next command.
Departs(t) ==
    /\ UNCHANGED <<events, ctx>>
    /\ pc' = [pc EXCEPT ![t] = Home(t)]
    /\ cur' = [cur EXCEPT ![t] = None]

LEMMA DepartStep ==
    ASSUME LockInv, NEW t \in Threads, Departs(t)
    PROVE  /\ cur'[t] = None /\ pc'[t] = Home(t)
           /\ \A u \in Threads \ {t} : cur'[u] = cur[u] /\ pc'[u] = pc[u]
BY DEF LockInv, Types, Departs

LEMMA DepartSharing ==
    ASSUME LockInv, RefInv, NEW t \in Threads, Departs(t) PROVE Sharing' /\ Freed'
<1> USE ThreadsAssumption, DepartStep DEF Threads
<1>1. events' = events /\ ctx' = ctx
  BY DEF Departs
<1>2. \A u \in Threads :
        \/ cur'[u] = cur[u] /\ pc'[u] = pc[u]
        \/ cur'[u] = None /\ pc'[u] \in {"serve", "loop"}
  BY DEF Home
<1>3. \A w \in Workers : cur'[w] # None => ~Queued(cur'[w])
  BY <1>2 DEF RefInv, Sharing
<1>4. \A v, w \in Workers : v # w /\ cur'[v] # None => cur'[v] # cur'[w]
  BY <1>2 DEF RefInv, Sharing
<1>5. pc'[MainThread] \in {"new", "push", "dtor", "unblock"} =>
        /\ pc[MainThread] \in {"new", "push", "dtor", "unblock"}
        /\ cur'[MainThread] = cur[MainThread] /\ cur[MainThread] \in Events
  BY <1>2 DEF LockInv, Places, Busy, Using, Handling
<1>6. pc'[MainThread] \in {"new", "push", "dtor", "unblock"} =>
        /\ ~Queued(cur'[MainThread])
        /\ \A w \in Workers : cur'[w] # cur'[MainThread]
  BY <1>2, <1>5, NoneAssumption DEF RefInv, Sharing
<1>7. \A w \in Workers : pc'[w] \in {"dtor", "unblock"} => cur'[MainThread] # cur'[w]
  <2>1. ASSUME NEW w \in Workers, pc'[w] \in {"dtor", "unblock"} PROVE cur'[MainThread] # cur'[w]
    <3>1. pc[w] \in {"dtor", "unblock"} /\ cur'[w] = cur[w]
      BY <1>2, <2>1
    <3>2. cur[w] \in Events /\ cur[MainThread] # cur[w]
      BY <3>1 DEF LockInv, Places, Busy, Using, RefInv, Sharing
    <3>3. QED
      BY <1>2, <3>1, <3>2, NoneAssumption
  <2>2. QED
    BY <2>1
<1>8. Sharing'
  BY <1>1, <1>3, <1>4, <1>6, <1>7 DEF RefInv, Sharing, Queued
<1>9. Freed'
  <2>1. ASSUME NEW d \in Events, ctx'[d] = "freed", NEW u \in Threads, cur'[u] = d
        PROVE pc'[u] = "unblock"
    BY <1>1, <1>2, <2>1, NoneAssumption DEF RefInv, Freed
  <2>2. ASSUME NEW d \in Events, ctx'[d] = "freed" PROVE ~Queued(d)'
    BY <1>1, <2>2 DEF RefInv, Freed, Queued
  <2>3. QED
    BY <2>1, <2>2 DEF Freed
<1>10. QED
  BY <1>8, <1>9

\* The pointers to the event that t leaves ...
LEMMA DepartLast ==
    ASSUME LockInv, RefInv, NEW t \in Threads, Departs(t), pc[t] = "done", NEW d \in Events, d = cur[t]
    PROVE  /\ TempRef(d)' <=> TempRef(d)
           /\ Queued(d)' <=> Queued(d)
           /\ \/ LocalRef(d) /\ ~LocalRef(d)' /\ (WorkerRef(d)' <=> WorkerRef(d))
              \/ WorkerRef(d) /\ ~WorkerRef(d)' /\ (LocalRef(d)' <=> LocalRef(d))
<1> USE ThreadsAssumption, NoneAssumption, DepartStep DEF Threads
<1>1. Queued(d)' <=> Queued(d)
  BY DEF Departs, Queued
<1>2. CASE t = MainThread
  <2>1. LocalRef(d) /\ ~LocalRef(d)' /\ ~TempRef(d) /\ ~TempRef(d)'
    BY <1>2 DEF LocalRef, TempRef, Handling, Home
  <2>2. WorkerRef(d)' <=> WorkerRef(d)
    BY <1>2 DEF WorkerRef
  <2>3. QED
    BY <1>1, <2>1, <2>2
<1>3. CASE t \in Workers
  <2>1. WorkerRef(d)
    BY <1>3 DEF WorkerRef
  <2>2. ~WorkerRef(d)'
    <3>1. \A w \in Workers \ {t} : cur'[w] # d
      BY <1>3 DEF RefInv, Sharing
    <3>2. cur'[t] # d
      OBVIOUS
    <3>3. QED
      BY <3>1, <3>2 DEF WorkerRef
  <2>3. (LocalRef(d)' <=> LocalRef(d)) /\ (TempRef(d)' <=> TempRef(d))
    BY <1>3 DEF LocalRef, TempRef
  <2>4. QED
    BY <1>1, <2>1, <2>2, <2>3
<1>4. QED
  BY <1>2, <1>3

\* ... and those to the others, or to one that t has destroyed.
LEMMA DepartOther ==
    ASSUME LockInv, RefInv, NEW t \in Threads, Departs(t), NEW d \in Events,
           d # cur[t] \/ pc[t] = "unblock"
    PROVE  /\ LocalRef(d)' <=> LocalRef(d)
           /\ TempRef(d)' <=> TempRef(d)
           /\ Queued(d)' <=> Queued(d)
           /\ WorkerRef(d)' <=> WorkerRef(d)
<1> USE ThreadsAssumption, NoneAssumption, DepartStep DEF Threads
<1>1. Queued(d)' <=> Queued(d)
  BY DEF Departs, Queued
<1>2. (LocalRef(d)' <=> LocalRef(d)) /\ (TempRef(d)' <=> TempRef(d))
  BY DEF LocalRef, TempRef, Handling
<1>3. WorkerRef(d)' <=> WorkerRef(d)
  BY DEF WorkerRef
<1>4. QED
  BY <1>1, <1>2, <1>3

\* Every step moves at most one pointer, and counts it.
LEMMA RefInvStep == LockInv /\ RefInv /\ [Next]_vars => RefInv'
<1> SUFFICES ASSUME LockInv, RefInv, [Next]_vars PROVE RefInv'
  OBVIOUS
<1> USE NoneAssumption, ThreadsAssumption
    DEF LockInv, Types, Places, Kinds, RefInv, Threads, MainPC, WorkerPC,
        Handling, Executing, Using, Busy, ThreadSafe, Goto, Home, queueVars, eventVars
<1>1. CASE Wake
  <2>1. Quiet
    BY <1>1 DEF Wake, Quiet
  <2>2. QED
    BY <2>1, RefInvQuiet
<1>2. CASE Sleep
  <2>1. Quiet
    BY <1>2 DEF Sleep, Quiet
  <2>2. QED
    BY <2>1, RefInvQuiet
<1>3. ASSUME NEW c \in Clients, HandleUnblocked(c) \/ Disconnect(c) PROVE RefInv'
  <2>1. Quiet
    BY <1>3 DEF HandleUnblocked, Disconnect, Quiet
  <2>2. QED
    BY <2>1, RefInvQuiet
<1>4. CASE EnqueueLock
  <2>1. Quiet
    BY <1>4 DEF EnqueueLock, Quiet
  <2>2. QED
    BY <2>1, RefInvQuiet
<1>5. CASE EnqueueUnlock
  <2>1. Quiet
    BY <1>5 DEF EnqueueUnlock, Quiet
  <2>2. QED
    BY <2>1, RefInvQuiet
<1>6. ASSUME NEW w \in Workers, DequeueLock(w) PROVE RefInv'
  <2>1. Quiet
    BY <1>6 DEF DequeueLock, Quiet
  <2>2. QED
    BY <2>1, RefInvQuiet
<1>7. ASSUME NEW w \in Workers, DequeueEmpty(w) PROVE RefInv'
  <2>1. Quiet
    BY <1>7 DEF DequeueEmpty, Quiet
  <2>2. QED
    BY <2>1, RefInvQuiet
<1>8. ASSUME NEW w \in Workers, DequeueUnlock(w) PROVE RefInv'
  <2>1. Quiet
    BY <1>8 DEF DequeueUnlock, Quiet
  <2>2. QED
    BY <2>1, RefInvQuiet
<1>9. ASSUME NEW t \in Threads, ExecEnter(t) PROVE RefInv'
  <2>1. Quiet
    BY <1>9 DEF ExecEnter, Quiet
  <2>2. QED
    BY <2>1, RefInvQuiet
<1>10. ASSUME NEW t \in Threads, ExecLock(t) PROVE RefInv'
  <2>1. Quiet
    BY <1>10 DEF ExecLock, Quiet
  <2>2. QED
    BY <2>1, RefInvQuiet
<1>11. ASSUME NEW t \in Threads, ExecUnlock(t) PROVE RefInv'
  <2>1. Quiet
    BY <1>11 DEF ExecUnlock, Quiet
  <2>2. QED
    BY <2>1, RefInvQuiet
<1>12. ASSUME NEW t \in Threads, ExecReply(t) PROVE RefInv'
  <2>1. Quiet
    BY <1>12 DEF ExecReply, Quiet
  <2>2. QED
    BY <2>1, RefInvQuiet
<1>13. ASSUME NEW c \in Clients, NEW e \in Events, ConcHandler(c, e) PROVE RefInv'
  <2>1. cur[MainThread] = None /\ ctx[e] = "none"
    BY <1>13 DEF Construct, ConcHandler
  <2>2. ~Queued(e) /\ \A t \in Threads : cur[t] # e
    BY <2>1, FreshEvent
  <2>3. Sharing'
    BY <1>13, <2>1, <2>2 DEF Construct, ConcHandler, Sharing, Queued
  <2>4. Freed'
    BY <1>13, <2>1, <2>2 DEF Construct, ConcHandler, Sharing, Freed, Queued
  <2>5. StackRefs'
    BY <1>13 DEF Construct, ConcHandler, StackRefs
  <2>6. ASSUME NEW d \in Events, ~ThreadSafe(d)'
        PROVE (refs[d] = Bit(LocalRef(d)) + Bit(TempRef(d)) + Bit(Queued(d)) + Bit(WorkerRef(d)))'
    <3>1. Queued(d)' <=> Queued(d)
      BY <1>13 DEF Construct, ConcHandler, Queued
    <3>2. WorkerRef(d)' <=> WorkerRef(d)
      BY <1>13 DEF Construct, ConcHandler, WorkerRef
    <3>3. (LocalRef(d)' <=> d = e) /\ (TempRef(d)' <=> d = e)
      BY <1>13 DEF Construct, ConcHandler, LocalRef, TempRef
    <3>4. ~LocalRef(d) /\ ~TempRef(d)
      BY <2>1 DEF LocalRef, TempRef
    <3>5. CASE d = e
      <4>1. ~Queued(d) /\ ~WorkerRef(d) /\ refs'[d] = 2
        BY <1>13, <2>2, <3>5 DEF Construct, ConcHandler, WorkerRef
      <4>2. QED
        BY <3>1, <3>2, <3>3, <3>5, <4>1 DEF Bit
    <3>6. CASE d # e
      <4>1. ctx[d] # "command" /\ refs'[d] = refs[d]
        BY <1>13, <2>6, <3>6 DEF Construct, ConcHandler
      <4>2. QED
        BY <3>1, <3>2, <3>3, <3>4, <3>6, <4>1 DEF RefsExact, Bit
    <3>7. QED
      BY <3>5, <3>6
  <2>7. QED
    BY <2>3, <2>4, <2>5, <2>6 DEF RefsExact
<1>14. ASSUME NEW c \in Clients, NEW e \in Events, SeqHandler(c, e) PROVE RefInv'
  <2>1. cur[MainThread] = None /\ ctx[e] = "none"
    BY <1>14 DEF Construct, SeqHandler
  <2>2. ~Queued(e) /\ \A t \in Threads : cur[t] # e
    BY <2>1, FreshEvent
  <2>3. Sharing'
    BY <1>14, <2>1, <2>2 DEF Construct, SeqHandler, Sharing, Queued
  <2>4. Freed'
    BY <1>14, <2>1, <2>2 DEF Construct, SeqHandler, Freed, Queued
  <2>5. StackRefs'
    <3>1. ~LocalRef(e) /\ ~TempRef(e) /\ ~WorkerRef(e)
      BY <2>2 DEF LocalRef, TempRef, WorkerRef
    <3>2. refs[e] = 0
      BY <2>1, <2>2, <3>1, Unreferenced
    <3>3. QED
      BY <1>14, <3>2 DEF Construct, SeqHandler, StackRefs
  <2>6. ASSUME NEW d \in Events, ~ThreadSafe(d)'
        PROVE (refs[d] = Bit(LocalRef(d)) + Bit(TempRef(d)) + Bit(Queued(d)) + Bit(WorkerRef(d)))'
    <3>1. d # e /\ ctx[d] # "command" /\ refs'[d] = refs[d]
      BY <1>14, <2>6 DEF Construct, SeqHandler
    <3>2. (Queued(d)' <=> Queued(d)) /\ (WorkerRef(d)' <=> WorkerRef(d))
      BY <1>14 DEF Construct, SeqHandler, Queued, WorkerRef
    <3>3. ~LocalRef(d)' /\ ~LocalRef(d) /\ ~TempRef(d)' /\ ~TempRef(d)
      BY <1>14, <2>1, <3>1 DEF Construct, SeqHandler, LocalRef, TempRef
    <3>4. QED
      BY <3>1, <3>2, <3>3 DEF RefsExact, Bit
  <2>7. QED
    BY <2>3, <2>4, <2>5, <2>6 DEF RefsExact
<1>15. CASE EnqueuePush
  <2> DEFINE m == cur[MainThread]
  <2>1. m \in Events /\ ctx[m] # "command" /\ ~Queued(m)
    BY <1>15 DEF EnqueuePush, Sharing
  <2>2. \A d \in Events : Queued(d)' <=> Queued(d) \/ d = m
    BY <1>15, <2>1, QueuedAfterPush DEF EnqueuePush
  <2>3. Sharing'
    BY <1>15, <2>1, PushQueue DEF EnqueuePush, Sharing, Queued
  <2>4. Freed'
    BY <1>15, <2>2 DEF EnqueuePush, Freed
  <2>5. StackRefs'
    BY <1>15, <2>1 DEF EnqueuePush, StackRefs
  <2>6. ASSUME NEW d \in Events, ~ThreadSafe(d)'
        PROVE (refs[d] = Bit(LocalRef(d)) + Bit(TempRef(d)) + Bit(Queued(d)) + Bit(WorkerRef(d)))'
    <3>1. ctx[d] # "command" /\ refs'[d] = IF d = m THEN refs[d] + 1 ELSE refs[d]
      BY <1>15, <2>6 DEF EnqueuePush
    <3>2. (LocalRef(d)' <=> LocalRef(d)) /\ (TempRef(d)' <=> TempRef(d))
      BY <1>15 DEF EnqueuePush, LocalRef, TempRef
    <3>3. WorkerRef(d)' <=> WorkerRef(d)
      BY <1>15 DEF EnqueuePush, WorkerRef
    <3>4. QED
      BY <2>1, <2>2, <3>1, <3>2, <3>3 DEF RefsExact, Bit
  <2>7. QED
    BY <2>3, <2>4, <2>5, <2>6 DEF RefsExact
<1>16. CASE DropTemporary
  <2> DEFINE m == cur[MainThread]
  <2>1. m \in Events /\ ctx[m] # "command"
    BY <1>16 DEF DropTemporary
  <2>2. Sharing'
    BY <1>16 DEF DropTemporary, Sharing, Queued
  <2>3. Freed'
    BY <1>16 DEF DropTemporary, Freed, Queued
  <2>4. StackRefs'
    BY <1>16, <2>1 DEF DropTemporary, StackRefs
  <2>5. ASSUME NEW d \in Events, ~ThreadSafe(d)'
        PROVE (refs[d] = Bit(LocalRef(d)) + Bit(TempRef(d)) + Bit(Queued(d)) + Bit(WorkerRef(d)))'
    <3>1. ctx[d] # "command" /\ refs'[d] = IF d = m THEN refs[d] - 1 ELSE refs[d]
      BY <1>16, <2>5 DEF DropTemporary
    <3>2. (LocalRef(d)' <=> LocalRef(d)) /\ ~TempRef(d)' /\ (TempRef(d) <=> d = m)
      BY <1>16 DEF DropTemporary, LocalRef, TempRef
    <3>3. (Queued(d)' <=> Queued(d)) /\ (WorkerRef(d)' <=> WorkerRef(d))
      BY <1>16 DEF DropTemporary, Queued, WorkerRef
    <3>4. QED
      BY <3>1, <3>2, <3>3 DEF RefsExact, Bit
  <2>6. QED
    BY <2>2, <2>3, <2>4, <2>5 DEF RefsExact
<1>17. CASE SeqReturn
  <2> DEFINE m == cur[MainThread]
  <2>1. m \in Events /\ ctx[m] = "command"
    BY <1>17 DEF SeqReturn
  <2>2. Sharing'
    BY <1>17 DEF SeqReturn, Sharing, Queued
  <2>3. Freed'
    BY <1>17 DEF SeqReturn, Freed, Queued
  <2>4. StackRefs'
    BY <1>17 DEF SeqReturn, StackRefs
  <2>5. ASSUME NEW d \in Events, ~ThreadSafe(d)'
        PROVE (refs[d] = Bit(LocalRef(d)) + Bit(TempRef(d)) + Bit(Queued(d)) + Bit(WorkerRef(d)))'
    <3>1. d # m /\ ctx[d] # "command" /\ refs'[d] = refs[d]
      BY <1>17, <2>1, <2>5 DEF SeqReturn
    <3>2. ~LocalRef(d)' /\ ~LocalRef(d) /\ ~TempRef(d)' /\ ~TempRef(d)
      BY <1>17, <3>1 DEF SeqReturn, LocalRef, TempRef
    <3>3. (Queued(d)' <=> Queued(d)) /\ (WorkerRef(d)' <=> WorkerRef(d))
      BY <1>17 DEF SeqReturn, Queued, WorkerRef
    <3>4. QED
      BY <3>1, <3>2, <3>3 DEF RefsExact, Bit
  <2>6. QED
    BY <2>2, <2>3, <2>4, <2>5 DEF RefsExact
<1>18. ASSUME NEW w \in Workers, DequeuePop(w) PROVE RefInv'
  <2> DEFINE h == Head(events)
  <2>1. /\ h \in Events /\ Queued(h) /\ ctx[h] # "command"
        /\ cur[w] = None /\ pc[w] = "pop" /\ pc'[w] = "popped" /\ cur'[w] = h
    <3>1. h \in Events /\ h = events[1] /\ 1 \in 1..Len(events)
      BY <1>18, PopQueue DEF DequeuePop
    <3>2. Queued(h)
      BY <3>1 DEF Queued
    <3>3. pc[w] = "pop" /\ pc'[w] = "popped" /\ cur'[w] = h
      BY <1>18 DEF DequeuePop
    <3>4. cur[w] = None
      BY <3>3
    <3>5. ctx[h] # "command"
      BY <3>1
    <3>6. QED
      BY <3>1, <3>2, <3>3, <3>4, <3>5
  <2>2. \A d \in Events : Queued(d)' <=> Queued(d) /\ d # h
    BY <1>18, QueuedAfterPop DEF DequeuePop, Sharing
  <2>3. Sharing'
    <3>1. \A i, j \in 1..Len(events') : i # j => events'[i] # events'[j]
      BY <1>18, PopQueue DEF DequeuePop, Sharing
    <3>2. (\A v \in Workers : cur[v] # None => ~Queued(cur[v]))'
      BY <1>18, <2>1, <2>2 DEF DequeuePop, Sharing
    <3>3. \A u, v \in Workers : u # v /\ cur'[u] # None => cur'[u] # cur'[v]
      BY <1>18, <2>1 DEF DequeuePop, Sharing
    <3>4. (pc[MainThread] \in {"new", "push", "dtor", "unblock"} =>
            /\ ~Queued(cur[MainThread])
            /\ \A v \in Workers : cur[v] # cur[MainThread])'
      BY <1>18, <2>1, <2>2 DEF DequeuePop, Sharing
    <3>5. \A v \in Workers : pc'[v] \in {"dtor", "unblock"} => cur'[MainThread] # cur'[v]
      BY <1>18, <2>1 DEF DequeuePop, Sharing
    <3>6. QED
      BY <3>1, <3>2, <3>3, <3>4, <3>5 DEF Sharing
  <2>4. Freed'
    BY <1>18, <2>1, <2>2 DEF DequeuePop, Freed
  <2>5. StackRefs'
    BY <1>18 DEF DequeuePop, StackRefs
  <2>6. ASSUME NEW d \in Events, ~ThreadSafe(d)'
        PROVE (refs[d] = Bit(LocalRef(d)) + Bit(TempRef(d)) + Bit(Queued(d)) + Bit(WorkerRef(d)))'
    <3>1. ctx[d] # "command" /\ refs'[d] = refs[d]
      BY <1>18, <2>6 DEF DequeuePop
    <3>2. (LocalRef(d)' <=> LocalRef(d)) /\ (TempRef(d)' <=> TempRef(d))
      BY <1>18 DEF DequeuePop, LocalRef, TempRef
    <3>3. CASE d = h
      <4>1. Queued(d) /\ ~Queued(d)'
        BY <2>1, <2>2, <3>3
      <4>2. ~WorkerRef(d)
        BY <2>1, <3>3, <4>1 DEF Sharing, WorkerRef
      <4>3. WorkerRef(d)'
        BY <2>1, <3>3 DEF WorkerRef
      <4>4. QED
        BY <3>1, <3>2, <4>1, <4>2, <4>3 DEF RefsExact, Bit
    <3>4. CASE d # h
      <4>1. (Queued(d)' <=> Queued(d)) /\ (WorkerRef(d)' <=> WorkerRef(d))
        BY <1>18, <2>1, <2>2, <3>4 DEF DequeuePop, WorkerRef
      <4>2. QED
        BY <3>1, <3>2, <4>1 DEF RefsExact, Bit
    <3>5. QED
      BY <3>3, <3>4
  <2>7. QED
    BY <2>3, <2>4, <2>5, <2>6 DEF RefsExact
<1>19. ASSUME NEW t \in Threads, DropLast(t) PROVE RefInv'
  <2> DEFINE m == cur[t]
  <2>1. m \in Events /\ ctx[m] # "command" /\ refs[m] = 1
    BY <1>19 DEF DropLast
  <2>2. LocalRef(m) \/ WorkerRef(m)
    BY <1>19 DEF DropLast, LocalRef, WorkerRef
  <2>3. /\ ~TempRef(m) /\ ~Queued(m)
        /\ ~(LocalRef(m) /\ WorkerRef(m))
    <3>1. refs[m] = Bit(LocalRef(m)) + Bit(TempRef(m)) + Bit(Queued(m)) + Bit(WorkerRef(m))
      BY <2>1 DEF RefsExact
    <3>2. QED
      BY <2>1, <2>2, <3>1 DEF Bit
  <2>4. \A u \in Threads : cur[u] = m => u = t
    <3>1. CASE t = MainThread
      <4>1. LocalRef(m)
        BY <1>19, <3>1 DEF DropLast, LocalRef
      <4>2. QED
        BY <1>19, <2>3, <3>1, <4>1 DEF Sharing, WorkerRef
    <3>2. CASE t \in Workers
      <4>1. WorkerRef(m)
        BY <1>19, <3>2 DEF DropLast, WorkerRef
      <4>2. ~LocalRef(m)
        BY <2>3, <4>1
      <4>3. cur[MainThread] # m
        <5>1. pc[MainThread] \notin Handling \cup {"done"} \/ cur[MainThread] # m
          BY <4>2 DEF LocalRef
        <5>2. pc[MainThread] \in {"exec", "body"} => cur[MainThread] # m
          BY <2>1
        <5>3. pc[MainThread] \in {"dtor", "unblock"} => cur[MainThread] # m
          BY <3>2 DEF Sharing
        <5>4. pc[MainThread] \in {"poll", "serve"} => cur[MainThread] = None
          OBVIOUS
        <5>5. QED
          BY <2>1, <5>1, <5>2, <5>3, <5>4
      <4>4. QED
        BY <2>1, <3>2, <4>3 DEF Sharing
    <3>3. QED
      BY <3>1, <3>2
  <2>5. Sharing'
    BY <1>19, <2>1, <2>3, <2>4 DEF DropLast, Sharing, Queued
  <2>6. Freed'
    BY <1>19, <2>1 DEF DropLast, Freed, Queued
  <2>7. StackRefs'
    BY <1>19, <2>1 DEF DropLast, StackRefs
  <2>8. ASSUME NEW d \in Events, ~ThreadSafe(d)'
        PROVE (refs[d] = Bit(LocalRef(d)) + Bit(TempRef(d)) + Bit(Queued(d)) + Bit(WorkerRef(d)))'
    <3>1. (Queued(d)' <=> Queued(d)) /\ ctx[d] # "command"
      BY <1>19, <2>8 DEF DropLast, Queued
    <3>2. TempRef(d)' <=> TempRef(d)
      BY <1>19 DEF DropLast, TempRef
    <3>3. CASE d = m
      <4>1. refs'[d] = 0
        BY <1>19, <2>1, <3>3 DEF DropLast
      <4>2. ~LocalRef(d)' /\ ~WorkerRef(d)'
        BY <1>19, <2>4, <3>3 DEF DropLast, LocalRef, WorkerRef
      <4>3. QED
        BY <2>3, <3>1, <3>2, <3>3, <4>1, <4>2 DEF Bit
    <3>4. CASE d # m
      <4>1. refs'[d] = refs[d]
        BY <1>19, <3>4 DEF DropLast
      <4>2. (LocalRef(d)' <=> LocalRef(d)) /\ (WorkerRef(d)' <=> WorkerRef(d))
        BY <1>19, <3>4 DEF DropLast, LocalRef, WorkerRef
      <4>3. QED
        BY <3>1, <3>2, <4>1, <4>2 DEF RefsExact, Bit
    <3>5. QED
      BY <3>3, <3>4
  <2>9. QED
    BY <2>5, <2>6, <2>7, <2>8 DEF RefsExact
<1>20. ASSUME NEW t \in Threads, DropShared(t) PROVE RefInv'
  <2> DEFINE m == cur[t]
  <2>1. m \in Events /\ ctx[m] # "command" /\ pc[t] = "done"
    BY <1>20 DEF DropShared
  <2>2. Departs(t)
    BY <1>20 DEF DropShared, Departs
  <2>3. Sharing' /\ Freed'
    BY <2>2, DepartSharing
  <2>4. StackRefs'
    BY <1>20, <2>1 DEF DropShared, StackRefs
  <2>5. ASSUME NEW d \in Events, ~ThreadSafe(d)'
        PROVE (refs[d] = Bit(LocalRef(d)) + Bit(TempRef(d)) + Bit(Queued(d)) + Bit(WorkerRef(d)))'
    <3>1. ctx[d] # "command" /\ refs'[d] = IF d = m THEN refs[d] - 1 ELSE refs[d]
      BY <1>20, <2>5 DEF DropShared
    <3>2. CASE d = m
      <4>1. /\ TempRef(d)' <=> TempRef(d)
            /\ Queued(d)' <=> Queued(d)
            /\ \/ LocalRef(d) /\ ~LocalRef(d)' /\ (WorkerRef(d)' <=> WorkerRef(d))
               \/ WorkerRef(d) /\ ~WorkerRef(d)' /\ (LocalRef(d)' <=> LocalRef(d))
        BY <2>1, <2>2, <3>2, DepartLast
      <4>2. QED
        BY <3>1, <3>2, <4>1 DEF RefsExact, Bit
    <3>3. CASE d # m
      <4>1. /\ LocalRef(d)' <=> LocalRef(d)
            /\ TempRef(d)' <=> TempRef(d)
            /\ Queued(d)' <=> Queued(d)
            /\ WorkerRef(d)' <=> WorkerRef(d)
        BY <2>2, <3>3, DepartOther
      <4>2. QED
        BY <3>1, <3>3, <4>1 DEF RefsExact, Bit
    <3>4. QED
      BY <3>2, <3>3
  <2>6. QED
    BY <2>3, <2>4, <2>5 DEF RefsExact
<1>21. ASSUME NEW t \in Threads, FreeContext(t) PROVE RefInv'
  <2> DEFINE m == cur[t]
  <2>1. m \in Events /\ ctx[m] # "command" /\ pc[t] = "dtor" /\ pc'[t] = "unblock"
    BY <1>21 DEF FreeContext
  <2>2. ~Queued(m) /\ \A u \in Threads : cur[u] = m => u = t
    BY <2>1 DEF Sharing
  <2>3. Sharing'
    BY <1>21 DEF FreeContext, Sharing, Queued
  <2>4. Freed'
    BY <1>21, <2>1, <2>2 DEF FreeContext, Freed, Queued
  <2>5. StackRefs'
    BY <1>21 DEF FreeContext, StackRefs
  <2>6. ASSUME NEW d \in Events, ~ThreadSafe(d)'
        PROVE (refs[d] = Bit(LocalRef(d)) + Bit(TempRef(d)) + Bit(Queued(d)) + Bit(WorkerRef(d)))'
    <3>1. ctx[d] # "command" /\ refs'[d] = refs[d]
      BY <1>21, <2>1, <2>6 DEF FreeContext
    <3>2. (LocalRef(d)' <=> LocalRef(d)) /\ (TempRef(d)' <=> TempRef(d))
      BY <1>21 DEF FreeContext, LocalRef, TempRef
    <3>3. (Queued(d)' <=> Queued(d)) /\ (WorkerRef(d)' <=> WorkerRef(d))
      BY <1>21 DEF FreeContext, Queued, WorkerRef
    <3>4. QED
      BY <3>1, <3>2, <3>3 DEF RefsExact, Bit
  <2>7. QED
    BY <2>3, <2>4, <2>5, <2>6 DEF RefsExact
<1>22. ASSUME NEW t \in Threads, Unblock(t) PROVE RefInv'
  <2>1. cur[t] \in Events /\ pc[t] = "unblock"
    BY <1>22 DEF Unblock
  <2>2. Departs(t)
    BY <1>22 DEF Unblock, Departs
  <2>3. Sharing' /\ Freed'
    BY <2>2, DepartSharing
  <2>4. StackRefs'
    BY <1>22 DEF Unblock, StackRefs
  <2>5. ASSUME NEW d \in Events, ~ThreadSafe(d)'
        PROVE (refs[d] = Bit(LocalRef(d)) + Bit(TempRef(d)) + Bit(Queued(d)) + Bit(WorkerRef(d)))'
    <3>1. ctx[d] # "command" /\ refs'[d] = refs[d]
      BY <1>22, <2>5 DEF Unblock
    <3>2. /\ LocalRef(d)' <=> LocalRef(d)
          /\ TempRef(d)' <=> TempRef(d)
          /\ Queued(d)' <=> Queued(d)
          /\ WorkerRef(d)' <=> WorkerRef(d)
      BY <2>1, <2>2, DepartOther
    <3>3. QED
      BY <3>1, <3>2 DEF RefsExact, Bit
  <2>6. QED
    BY <2>3, <2>4, <2>5 DEF RefsExact
<1>23. CASE UNCHANGED vars
  <2>1. Quiet
    BY <1>23 DEF vars, Quiet
  <2>2. QED
    BY <2>1, RefInvQuiet
<1>24. QED
  BY <1>1, <1>2, <1>3, <1>4, <1>5, <1>6, <1>7, <1>8, <1>9, <1>10, <1>11, <1>12,
     <1>13, <1>14, <1>15, <1>16, <1>17, <1>18, <1>19, <1>20, <1>21, <1>22, <1>23
  DEF Next, Server, Command, Enqueue, Dequeue, Execute, Drop

LEMMA RefInvariant == Spec => []RefInv
BY LockInvariant, RefInvInit, RefInvStep, PTL DEF Spec

\* The use count of every event is the number of pointers to it: no thread
\* destroys an event another still points to, and none is leaked.
THEOREM RefsExactTheorem == Spec => []RefsExact
BY RefInvariant, PTL DEF RefInv

\* Nobody holds, queues or executes an event whose destructor has run.
THEOREM NoUseAfterDestroyTheorem == Spec => []NoUseAfterDestroy
<1>1. LockInv /\ RefInv => NoUseAfterDestroy
  <2> SUFFICES ASSUME LockInv, RefInv PROVE NoUseAfterDestroy
    OBVIOUS
  <2> USE NoneAssumption DEF LockInv, Types, Places, Kinds, RefInv, Threads,
        Handling, Executing, Using, Busy
  <2>1. ASSUME NEW i \in 1..Len(events) PROVE ctx[events[i]] = "open"
    <3>1. events[i] \in Events /\ Queued(events[i])
      BY DEF Queued
    <3>2. ctx[events[i]] # "freed"
      BY <3>1 DEF Freed
    <3>3. QED
      BY <3>2
  <2>2. ASSUME NEW t \in Threads, pc[t] \in Using PROVE ctx[cur[t]] \in {"open", "command"}
    <3>1. cur[t] \in Events /\ pc[t] # "unblock"
      BY <2>2
    <3>2. ctx[cur[t]] # "freed"
      BY <3>1 DEF Freed
    <3>3. ctx[cur[t]] # "none"
      <4>1. CASE t = MainThread
        BY <2>2, <4>1 DEF MainPC
      <4>2. CASE t \in Workers
        <5>1. cur[t] # None
          BY <3>1
        <5>2. ctx[cur[t]] \in {"open", "freed"}
          BY <4>2, <5>1 DEF LockInv, Kinds
        <5>3. QED
          BY <5>2
      <4>3. QED
        BY <4>1, <4>2
    <3>4. QED
      BY <3>1, <3>2, <3>3
  <2>3. QED
    BY <2>1, <2>2 DEF NoUseAfterDestroy
<1>2. QED
  BY <1>1, LockInvariant, RefInvariant, PTL

\* Types, and no thread without an event executes or destroys one; a use
\* count never goes below zero.
THEOREM TypeOKTheorem == Spec => []TypeOK
<1>1. LockInv /\ RefInv => TypeOK
  <2> SUFFICES ASSUME LockInv, RefInv PROVE TypeOK
    OBVIOUS
  <2>1. refs \in [Events -> Nat]
    <3>1. ASSUME NEW e \in Events PROVE refs[e] \in Nat
      BY DEF RefInv, StackRefs, RefsExact, Bit
    <3>2. QED
      BY <3>1 DEF LockInv, Types
  <2>2. pc \in [Threads -> Busy \cup {"poll", "serve", "loop", "pop", "popped"}]
    BY DEF LockInv, Types, MainPC, WorkerPC, Busy, Using, Handling, Executing
  <2>3. \A t \in Threads : pc[t] \in Busy => cur[t] # None
    BY NoneAssumption DEF LockInv, Places
  <2>4. QED
    BY <2>1, <2>2, <2>3 DEF LockInv, Types, TypeOK
<1>2. QED
  BY <1>1, LockInvariant, RefInvariant, PTL

-----------------------------------------------------------------------------
LEMMA ClientInvInit == Init => ClientInv
BY NoneAssumption, ThreadsAssumption
   DEF Init, ClientInv, Blocking, Answering, Served, Fresh, Pending, Queued, Threads, Handling

\* A step that blocks and releases no client and destroys no event.
KeepsBlocked ==
    /\ UNCHANGED <<client, ctx, clientState>>
    /\ \A t \in Threads : pc'[t] = "unblock" => pc[t] = "unblock" /\ cur'[t] = cur[t]

LEMMA BlockingKept == Blocking /\ KeepsBlocked => Blocking'
BY DEF Blocking, KeepsBlocked, Released

\* All that a client that is not blocked has sent is answered and released.
LEMMA ReadyReleased ==
    ASSUME LockInv, Blocking, NEW c \in Clients, clientState[c] = "ready",
           NEW e \in Events, client[e] = c
    PROVE  Released(e)
<1>1. client[e] # None
  BY NoneAssumption
<1>2. ctx[e] = "freed"
  BY <1>1 DEF Blocking
<1>3. \A t \in Threads : ~(pc[t] = "unblock" /\ cur[t] = e)
  BY DEF Blocking
<1>4. QED
  BY <1>2, <1>3 DEF Released

\* A client has at most one event that is not released, and is blocked as long
\* as it has one.
LEMMA BlockingStep == LockInv /\ RefInv /\ Blocking /\ [Next]_vars => Blocking'
<1> SUFFICES ASSUME LockInv, RefInv, Blocking, [Next]_vars PROVE Blocking'
  OBVIOUS
<1> USE NoneAssumption, ThreadsAssumption
    DEF LockInv, Types, Places, Threads, MainPC, WorkerPC, Handling, Executing, Using,
        Busy, ThreadSafe, Goto, Home, queueVars, eventVars
<1>1. ASSUME Wake \/ Sleep \/ EnqueueLock \/ EnqueuePush \/ EnqueueUnlock \/ DropTemporary \/ SeqReturn
      PROVE Blocking'
  <2>1. KeepsBlocked
    BY <1>1 DEF KeepsBlocked, Wake, Sleep, EnqueueLock, EnqueuePush, EnqueueUnlock,
                DropTemporary, SeqReturn
  <2>2. QED
    BY <2>1, BlockingKept
<1>2. ASSUME NEW w \in Workers, Dequeue(w) PROVE Blocking'
  <2>1. KeepsBlocked
    BY <1>2 DEF KeepsBlocked, Dequeue, DequeueLock, DequeuePop, DequeueEmpty, DequeueUnlock
  <2>2. QED
    BY <2>1, BlockingKept
<1>3. ASSUME NEW t \in Threads, Execute(t) PROVE Blocking'
  <2>1. KeepsBlocked
    BY <1>3 DEF KeepsBlocked, Execute, ExecEnter, ExecLock, ExecUnlock, ExecReply
  <2>2. QED
    BY <2>1, BlockingKept
<1>4. ASSUME NEW t \in Threads, DropLast(t) \/ DropShared(t) PROVE Blocking'
  <2>1. KeepsBlocked
    BY <1>4 DEF KeepsBlocked, DropLast, DropShared
  <2>2. QED
    BY <2>1, BlockingKept
<1>11. ASSUME NEW c \in Clients, Disconnect(c) PROVE Blocking'
  <2>1. KeepsBlocked
    BY <1>11 DEF KeepsBlocked, Disconnect
  <2>2. QED
    BY <2>1, BlockingKept
<1>5. ASSUME NEW c \in Clients, HandleUnblocked(c) PROVE Blocking'
  <2>1. \A f \in Events : Released(f)' <=> Released(f)
    BY <1>5 DEF HandleUnblocked, Released
  <2>2. QED
    BY <1>5, <2>1 DEF HandleUnblocked, Blocking
<1>6. ASSUME NEW c \in Clients, NEW e \in Events, SeqHandler(c, e) PROVE Blocking'
  <2>1. cur[MainThread] = None /\ ctx[e] = "none"
    BY <1>6 DEF Construct, SeqHandler
  <2>2. \A t \in Threads : cur[t] # e
    BY <2>1, FreshEvent
  <2>3. \A f \in Events : Released(f)' <=> Released(f)
    BY <1>6, <2>1, <2>2 DEF Construct, SeqHandler, Released
  <2>4. /\ UNCHANGED <<client, clientState>> /\ ctx' = [ctx EXCEPT ![e] = "command"]
        /\ \A t \in Threads : pc'[t] = "unblock" => pc[t] = "unblock" /\ cur'[t] = cur[t]
    BY <1>6 DEF Construct, SeqHandler
  <2>5. QED
    BY <2>1, <2>2, <2>3, <2>4 DEF Blocking
<1>7. ASSUME NEW c \in Clients, NEW e \in Events, ConcHandler(c, e) PROVE Blocking'
  <2>1. cur[MainThread] = None /\ ctx[e] = "none" /\ clientState[c] = "ready" /\ client[e] = None
    BY <1>7 DEF Construct, ConcHandler, Blocking
  <2>2. \A t \in Threads : cur[t] # e
    BY <2>1, FreshEvent
  <2>3. \A f \in Events : f # e /\ Released(f) => Released(f)'
    BY <1>7, <2>1, <2>2 DEF Construct, ConcHandler, Released
  <2>4. ASSUME NEW f \in Events, f # e, client[f] = c PROVE Released(f)
    BY <2>1, <2>4, ReadyReleased
  <2>5. (\A f \in Events : client[f] # None <=> ctx[f] \in {"open", "freed"})'
    BY <1>7 DEF Construct, ConcHandler, Blocking
  <2>6. (\A f \in Events : ctx[f] = "open" => clientState[client[f]] = "blocked")'
    <3>1. /\ ctx' = [ctx EXCEPT ![e] = "open"]
          /\ client' = [client EXCEPT ![e] = c]
          /\ clientState' = [clientState EXCEPT ![c] = "blocked"]
      BY <1>7 DEF Construct, ConcHandler
    <3>2. QED
      BY <3>1 DEF Blocking
  <2>7. (\A t \in Threads : pc[t] = "unblock" =>
            ctx[cur[t]] = "freed" /\ clientState[client[cur[t]]] = "blocked")'
    BY <1>7, <2>1, <2>2 DEF Construct, ConcHandler, Blocking
  <2>8. ASSUME NEW f \in Events, NEW g \in Events, f # g, client'[f] # None,
               client'[f] = client'[g]
        PROVE Released(f)' \/ Released(g)'
    <3>1. CASE f = e
      BY <1>7, <2>3, <2>4, <2>8, <3>1 DEF Construct, ConcHandler
    <3>2. CASE g = e
      BY <1>7, <2>3, <2>4, <2>8, <3>2 DEF Construct, ConcHandler
    <3>3. CASE f # e /\ g # e
      BY <1>7, <2>3, <2>8, <3>3 DEF Construct, ConcHandler, Blocking
    <3>4. QED
      BY <3>1, <3>2, <3>3
  <2>9. QED
    BY <2>5, <2>6, <2>7, <2>8 DEF Blocking
<1>8. ASSUME NEW t \in Threads, FreeContext(t) PROVE Blocking'
  <2> DEFINE m == cur[t]
  <2>1. m \in Events /\ pc[t] = "dtor" /\ ctx[m] = "open"
    <3>1. m \in Events /\ pc[t] = "dtor"
      BY <1>8 DEF FreeContext
    <3>2. ctx[m] # "freed"
      BY <3>1 DEF RefInv, Freed
    <3>3. ctx[m] \in {"open", "freed"}
      <4>1. CASE t = MainThread
        BY <3>1, <4>1 DEF Kinds
      <4>2. CASE t \in Workers
        BY <3>1, <4>2 DEF Kinds
      <4>3. QED
        BY <4>1, <4>2
    <3>4. QED
      BY <3>1, <3>2, <3>3
  <2>2. \A f \in Events : Released(f) => Released(f)'
    BY <1>8, <2>1 DEF FreeContext, Released
  <2>3. QED
    BY <1>8, <2>1, <2>2 DEF FreeContext, Blocking
<1>9. ASSUME NEW t \in Threads, Unblock(t) PROVE Blocking'
  <2> DEFINE m == cur[t]
  <2>1. /\ m \in Events /\ pc[t] = "unblock" /\ ctx[m] = "freed" /\ ~Released(m)
        /\ client[m] # None
    BY <1>9 DEF Unblock, Blocking, Released
  <2>2. \A u \in Threads : u # t => cur'[u] = cur[u] /\ pc'[u] = pc[u]
    BY <1>9 DEF Unblock
  <2>3. cur'[t] = None /\ pc'[t] # "unblock" /\ ctx' = ctx /\ client' = client
    BY <1>9 DEF Unblock
  <2>4. \A f \in Events : Released(f) => Released(f)'
    BY <2>2, <2>3 DEF Released
  <2>5. ASSUME NEW f \in Events, f # m, client[f] # None, ~Released(f)
        PROVE clientState'[client[f]] = clientState[client[f]]
    <3>1. client[f] # client[m]
      BY <2>1, <2>5 DEF Blocking
    <3>2. QED
      BY <1>9, <3>1 DEF Unblock
  <2>6. ASSUME NEW f \in Events, ctx'[f] = "open"
        PROVE clientState'[client'[f]] = "blocked"
    <3>1. f # m /\ ctx[f] = "open" /\ ~Released(f)
      BY <2>1, <2>3, <2>6 DEF Released
    <3>2. client[f] # None /\ clientState[client[f]] = "blocked"
      BY <3>1 DEF Blocking
    <3>3. QED
      BY <2>3, <2>5, <3>1, <3>2
  <2>7. ASSUME NEW u \in Threads, pc'[u] = "unblock"
        PROVE ctx'[cur'[u]] = "freed" /\ clientState'[client'[cur'[u]]] = "blocked"
    <3>1. u # t /\ cur'[u] = cur[u] /\ pc[u] = "unblock" /\ cur[u] \in Events
      BY <2>2, <2>3, <2>7
    <3>2. cur[u] # m
      BY <2>1, <3>1 DEF RefInv, Sharing
    <3>3. ctx[cur[u]] = "freed" /\ clientState[client[cur[u]]] = "blocked" /\ ~Released(cur[u])
      BY <3>1 DEF Blocking, Released
    <3>4. client[cur[u]] # None
      BY <3>1, <3>3 DEF Blocking
    <3>5. QED
      BY <2>3, <2>5, <3>1, <3>2, <3>3, <3>4
  <2>8. QED
    BY <2>3, <2>4, <2>6, <2>7 DEF Blocking
<1>10. CASE UNCHANGED vars
  <2>1. KeepsBlocked
    BY <1>10 DEF vars, KeepsBlocked
  <2>2. QED
    BY <2>1, BlockingKept
<1>12. QED
  BY <1>1, <1>2, <1>3, <1>4, <1>5, <1>6, <1>7, <1>8, <1>9, <1>10, <1>11
  DEF Next, Server, Command, Enqueue, Drop

\* A step after which no answer is due that was not due before.
KeepsAnswers ==
    /\ UNCHANGED <<events, replies, ctx, cur>>
    /\ \A w \in Workers :
        /\ cur[w] # None /\ pc'[w] \in {"popped", "exec", "wantgil", "body", "locked"} =>
                pc[w] \in {"popped", "exec", "wantgil", "body", "locked"}
        /\ pc'[w] \in {"lockedReplied", "done", "dtor", "unblock"} =>
                pc[w] \in {"lockedReplied", "done", "dtor", "unblock"}
        /\ pc'[w] \in {"dtor", "unblock"} => pc[w] \in {"dtor", "unblock"}
    /\ pc'[MainThread] \in {"new", "push"} => pc[MainThread] \in {"new", "push"}
    /\ pc'[MainThread] \in {"dtor", "unblock"} => pc[MainThread] \in {"dtor", "unblock"}
    /\ pc'[MainThread] \in {"pushed", "temp", "done"} /\ ctx[cur[MainThread]] = "open" =>
            pc[MainThread] \in {"pushed", "temp", "done"}

LEMMA AnsweringKept == Answering /\ KeepsAnswers => Answering'
<1> SUFFICES ASSUME Answering, KeepsAnswers PROVE Answering'
  OBVIOUS
<1>1. \A e \in Events \cup {cur[MainThread]} : WorkerRef(e) => WorkerRef(e)'
  BY DEF KeepsAnswers, WorkerRef
<1>2. \A e : Queued(e)' <=> Queued(e)
  BY DEF KeepsAnswers, Queued
<1>3. Pending'
  BY <1>1, <1>2 DEF Answering, KeepsAnswers, Pending
<1>4. QED
  BY <1>2, <1>3 DEF Answering, KeepsAnswers, Served, Fresh

\* The answer to an event is written by the worker that dequeued it, before
\* any thread can destroy the event.
LEMMA AnsweringStep == LockInv /\ RefInv /\ Answering /\ [Next]_vars => Answering'
<1> SUFFICES ASSUME LockInv, RefInv, Answering, [Next]_vars PROVE Answering'
  OBVIOUS
<1> USE NoneAssumption, ThreadsAssumption
    DEF LockInv, Types, Places, Threads, MainPC, WorkerPC, Handling, Executing, Using,
        Busy, ThreadSafe, Goto, Home, queueVars, eventVars
<1>1. ASSUME Wake \/ Sleep \/ EnqueueLock \/ EnqueueUnlock \/ DropTemporary PROVE Answering'
  <2>1. KeepsAnswers
    BY <1>1 DEF KeepsAnswers, Wake, Sleep, EnqueueLock, EnqueueUnlock, DropTemporary
  <2>2. QED
    BY <2>1, AnsweringKept
<1>2. ASSUME NEW c \in Clients, HandleUnblocked(c) \/ Disconnect(c) PROVE Answering'
  <2>1. KeepsAnswers
    BY <1>2 DEF KeepsAnswers, HandleUnblocked, Disconnect
  <2>2. QED
    BY <2>1, AnsweringKept
<1>3. ASSUME NEW w \in Workers, DequeueLock(w) \/ DequeueEmpty(w) \/ DequeueUnlock(w)
      PROVE Answering'
  <2>1. KeepsAnswers
    BY <1>3 DEF KeepsAnswers, DequeueLock, DequeueEmpty, DequeueUnlock
  <2>2. QED
    BY <2>1, AnsweringKept
<1>4. ASSUME NEW t \in Threads, ExecEnter(t) \/ ExecLock(t) \/ ExecUnlock(t) PROVE Answering'
  <2>1. KeepsAnswers
    BY <1>4 DEF KeepsAnswers, ExecEnter, ExecLock, ExecUnlock
  <2>2. QED
    BY <2>1, AnsweringKept
<1>5. ASSUME NEW c \in Clients, NEW e \in Events, ConcHandler(c, e) \/ SeqHandler(c, e)
      PROVE Answering'
  <2>1. cur[MainThread] = None /\ ctx[e] = "none" /\ replies[e] = 0
    BY <1>5 DEF Construct, ConcHandler, SeqHandler, Answering
  <2>2. ~Queued(e) /\ \A t \in Threads : cur[t] # e
    BY <2>1, FreshEvent
  <2>3. events' = events /\ replies' = replies
    BY <1>5 DEF Construct, ConcHandler, SeqHandler
  <2>4. \A w \in Workers : cur'[w] = cur[w] /\ pc'[w] = pc[w]
    BY <1>5 DEF Construct, ConcHandler, SeqHandler
  <2>5. \A f \in Events : ctx'[f] = ctx[f] \/ (f = e /\ ctx'[f] \in {"open", "command"})
    <3>1. \/ ctx' = [ctx EXCEPT ![e] = "open"]
          \/ ctx' = [ctx EXCEPT ![e] = "command"]
      BY <1>5 DEF Construct, ConcHandler, SeqHandler
    <3>2. QED
      BY <3>1
  <2>6. cur'[MainThread] = e /\ pc'[MainThread] \in {"new", "exec"}
    BY <1>5 DEF Construct, ConcHandler, SeqHandler
  <2>7. \A f \in Events : Queued(f)' <=> Queued(f)
    BY <2>3 DEF Queued
  <2>8. (\A f \in Events : ctx[f] = "none" => replies[f] = 0)'
    BY <2>3, <2>5 DEF Answering
  <2>9. (\A f \in Events : ctx[f] = "freed" => replies[f] = 1)'
    BY <2>3, <2>5 DEF Answering
  <2>10. QED
    BY <2>1, <2>3, <2>4, <2>6, <2>7, <2>8, <2>9 DEF Answering, Served, Fresh, Pending
<1>6. CASE EnqueuePush
  <2> DEFINE m == cur[MainThread]
  <2>1. m \in Events /\ replies[m] = 0
    BY <1>6 DEF EnqueuePush, Answering, Served, Fresh, Pending
  <2>2. \A d \in Events : Queued(d)' <=> Queued(d) \/ d = m
    BY <1>6, <2>1, QueuedAfterPush DEF EnqueuePush
  <2>3. QED
    BY <1>6, <2>1, <2>2 DEF EnqueuePush, Answering, Served, Fresh, Pending
<1>7. CASE SeqReturn
  <2>1. events' = events /\ replies' = replies /\ ctx' = ctx /\ pc'[MainThread] = "serve"
    BY <1>7 DEF SeqReturn
  <2>2. \A w \in Workers : cur'[w] = cur[w] /\ pc'[w] = pc[w]
    BY <1>7 DEF SeqReturn
  <2>3. QED
    BY <2>1, <2>2 DEF Answering, Served, Fresh, Pending, Queued
<1>8. ASSUME NEW w \in Workers, DequeuePop(w) PROVE Answering'
  <2> DEFINE h == Head(events)
  <2>1. h \in Events /\ Queued(h)
    <3>1. h \in Events /\ h = events[1] /\ 1 \in 1..Len(events)
      BY <1>8, PopQueue DEF DequeuePop
    <3>2. QED
      BY <3>1 DEF Queued
  <2>2. \A d \in Events : Queued(d)' <=> Queued(d) /\ d # h
    BY <1>8, QueuedAfterPop DEF DequeuePop, RefInv, Sharing
  <2>3. pc[w] = "pop" /\ pc'[w] = "popped" /\ cur[w] = None /\ cur'[w] = h
    BY <1>8 DEF DequeuePop
  <2>4. /\ pc'[MainThread] = pc[MainThread] /\ cur'[MainThread] = cur[MainThread]
        /\ \A v \in Workers : v # w => pc'[v] = pc[v] /\ cur'[v] = cur[v]
    BY <1>8 DEF DequeuePop
  <2>5. replies' = replies /\ ctx' = ctx /\ replies[h] = 0
    BY <1>8, <2>1 DEF DequeuePop, Answering
  <2>6. \A d \in Events : d = h => WorkerRef(d)'
    BY <2>3 DEF WorkerRef
  <2>7. \A v \in Workers : Served(v)'
    <3>1. ASSUME NEW v \in Workers, v # w PROVE Served(v)'
      BY <2>4, <2>5, <3>1 DEF Answering, Served
    <3>2. Served(w)'
      BY <2>3, <2>5 DEF Served
    <3>3. QED
      BY <3>1, <3>2
  <2>8. Pending'
    <3>1. SUFFICES ASSUME NEW m \in Events, m = cur[MainThread], ctx[m] = "open",
                          pc[MainThread] \in {"pushed", "temp", "done"}
                   PROVE  Queued(m)' \/ WorkerRef(m)' \/ replies[m] = 1
      BY <2>4, <2>5 DEF Pending, Queued, WorkerRef
    <3>2. ASSUME WorkerRef(m) PROVE WorkerRef(m)'
      <4>1. PICK v \in Workers : cur[v] = m /\ pc[v] \notin {"dtor", "unblock"}
        BY <3>2 DEF WorkerRef
      <4>2. v # w
        BY <2>3, <4>1
      <4>3. QED
        BY <2>4, <4>1, <4>2 DEF WorkerRef
    <3>3. Queued(m) \/ WorkerRef(m) \/ replies[m] = 1
      BY <3>1 DEF Answering, Pending
    <3>4. QED
      BY <2>2, <2>6, <3>2, <3>3
  <2>9. QED
    BY <2>2, <2>4, <2>5, <2>7, <2>8 DEF Answering, Fresh
<1>9. ASSUME NEW t \in Threads, DropShared(t) \/ Unblock(t) PROVE Answering'
  <2>1. Departs(t) /\ replies' = replies /\ pc[t] \in {"done", "unblock"} /\ cur[t] \in Events
    BY <1>9 DEF DropShared, Unblock, Departs
  <2>2. events' = events /\ ctx' = ctx /\ \A d \in Events : Queued(d)' <=> Queued(d)
    BY <2>1 DEF Departs, Queued
  <2>3. cur'[t] = None /\ pc'[t] = Home(t)
    BY <2>1, DepartStep
  <2>4. \A u \in Threads : u # t => cur'[u] = cur[u] /\ pc'[u] = pc[u]
    BY <2>1, DepartStep
  <2>5. ASSUME NEW d \in Events, WorkerRef(d) PROVE WorkerRef(d)' \/ replies[d] = 1
    <3>1. PICK v \in Workers : cur[v] = d /\ pc[v] \notin {"dtor", "unblock"}
      BY <2>5 DEF WorkerRef
    <3>2. CASE v = t
      BY <2>1, <3>1, <3>2 DEF Answering, Served
    <3>3. CASE v # t
      BY <2>4, <3>1, <3>3 DEF WorkerRef
    <3>4. QED
      BY <3>2, <3>3
  <2>6. ASSUME NEW v \in Workers PROVE Served(v)'
    <3>1. CASE v = t
      BY <2>3, <3>1 DEF Served
    <3>2. CASE v # t
      BY <2>1, <2>4, <3>2 DEF Answering, Served
    <3>3. QED
      BY <3>1, <3>2
  <2>7. Pending'
    <3>1. CASE t = MainThread
      BY <2>3, <3>1 DEF Pending
    <3>2. CASE t # MainThread
      <4>1. SUFFICES ASSUME NEW m \in Events, m = cur[MainThread], ctx[m] = "open",
                            pc[MainThread] \in {"pushed", "temp", "done"}
                     PROVE  Queued(m)' \/ WorkerRef(m)' \/ replies[m] = 1
        BY <2>1, <2>2, <2>4, <3>2 DEF Pending, Queued, WorkerRef
      <4>2. Queued(m) \/ WorkerRef(m) \/ replies[m] = 1
        BY <4>1 DEF Answering, Pending
      <4>3. QED
        BY <2>2, <2>5, <4>2
    <3>3. QED
      BY <3>1, <3>2
  <2>8. QED
    BY <2>1, <2>2, <2>3, <2>4, <2>6, <2>7 DEF Answering, Fresh
<1>10. ASSUME NEW t \in Threads, ExecReply(t) PROVE Answering'
  <2> DEFINE m == cur[t]
  <2>1. m \in Events /\ pc[t] \in {"body", "locked"}
    BY <1>10 DEF ExecReply
  <2>2. /\ events' = events /\ ctx' = ctx /\ cur' = cur
        /\ \A u \in Threads : u # t => pc'[u] = pc[u]
        /\ \A d \in Events : replies'[d] = IF d = m THEN replies[m] + 1 ELSE replies[d]
    BY <1>10, <2>1 DEF ExecReply
  <2>3. ~Queued(m) /\ ctx[m] \notin {"none", "freed"} /\ \A v \in Workers : v # t => cur[v] # m
    <3>1. ctx[m] # "freed"
      BY <2>1 DEF RefInv, Freed
    <3>2. CASE t = MainThread
      <4>1. ctx[m] = "command"
        BY <2>1, <3>2 DEF Kinds
      <4>2. ~Queued(m)
        BY <4>1 DEF Kinds, Queued
      <4>3. \A v \in Workers : cur[v] # None => ctx[cur[v]] # "command"
        BY DEF Kinds
      <4>4. m # None
        BY <2>1
      <4>5. QED
        BY <4>1, <4>2, <4>3, <4>4
    <3>3. CASE t \in Workers
      BY <2>1, <3>1, <3>3 DEF Kinds, RefInv, Sharing
    <3>4. QED
      BY <3>2, <3>3
  <2>4. ASSUME NEW v \in Workers PROVE Served(v)'
    <3>1. CASE v = t
      <4>1. pc'[t] \in {"done", "lockedReplied"} /\ replies[m] = 0
        BY <1>10, <2>1, <3>1 DEF ExecReply, Answering, Served
      <4>2. QED
        BY <2>1, <2>2, <3>1, <4>1 DEF Served
    <3>2. CASE v # t
      <4>1. pc'[v] = pc[v] /\ (cur[v] = None \/ replies'[cur[v]] = replies[cur[v]])
        BY <2>1, <2>2, <2>3, <3>2
      <4>2. QED
        BY <2>2, <3>2, <4>1 DEF Answering, Served
    <3>3. QED
      BY <3>1, <3>2
  <2>5. \A d \in Events : (Queued(d)' <=> Queued(d)) /\ (WorkerRef(d) => WorkerRef(d)')
    <3>1. pc'[t] \in {"done", "lockedReplied"}
      BY <1>10 DEF ExecReply
    <3>2. \A v \in Workers : pc[v] \notin {"dtor", "unblock"} => pc'[v] \notin {"dtor", "unblock"}
      BY <2>2, <3>1
    <3>3. \A d \in Events : WorkerRef(d) => WorkerRef(d)'
      BY <2>2, <3>2 DEF WorkerRef
    <3>4. QED
      BY <2>2, <3>3 DEF Queued
  <2>6. Pending' /\ Fresh'
    <3>1. CASE t = MainThread
      <4>1. pc'[t] = "done" /\ ctx[m] = "command"
        BY <1>10, <2>1, <3>1 DEF ExecReply, Kinds
      <4>2. QED
        BY <2>2, <3>1, <4>1 DEF Pending, Fresh
    <3>2. CASE t \in Workers
      <4>1. pc'[MainThread] = pc[MainThread] /\ cur'[MainThread] = cur[MainThread]
        BY <2>2, <3>2
      <4>2. pc[MainThread] \in {"new", "push", "dtor", "unblock"} => cur[MainThread] # m
        BY <3>2 DEF RefInv, Sharing
      <4>3. Fresh'
        BY <2>2, <4>1, <4>2 DEF Fresh, Answering
      <4>4. SUFFICES ASSUME NEW d \in Events, d = cur[MainThread], ctx[d] = "open",
                            pc[MainThread] \in {"pushed", "temp", "done"}
                     PROVE  Queued(d)' \/ WorkerRef(d)' \/ replies'[d] = 1
        BY <2>2, <4>1, <4>3 DEF Pending, Queued, WorkerRef
      <4>5. Queued(d) \/ WorkerRef(d) \/ replies[d] = 1
        BY <4>4 DEF Answering, Pending
      <4>6. d = m => WorkerRef(d)
        BY <2>1, <3>2 DEF WorkerRef
      <4>7. QED
        BY <2>2, <2>5, <4>5, <4>6
    <3>3. QED
      BY <3>1, <3>2
  <2>7. (\A d \in Events : ctx[d] = "none" => replies[d] = 0)'
    BY <2>2, <2>3 DEF Answering
  <2>8. (\A d \in Events : ctx[d] = "freed" => replies[d] = 1)'
    BY <2>2, <2>3 DEF Answering
  <2>9. \A d \in Events : Queued(d)' => replies'[d] = 0
    BY <2>2, <2>3, <2>5 DEF Answering
  <2>10. QED
    BY <2>4, <2>6, <2>7, <2>8, <2>9 DEF Answering
<1>11. ASSUME NEW t \in Threads, DropLast(t) PROVE Answering'
  <2> DEFINE m == cur[t]
  <2>1. m \in Events /\ ctx[m] # "command" /\ refs[m] = 1 /\ pc[t] = "done" /\ pc'[t] = "dtor"
    BY <1>11 DEF DropLast
  <2>2. /\ events' = events /\ ctx' = ctx /\ cur' = cur /\ replies' = replies
        /\ \A u \in Threads : u # t => pc'[u] = pc[u]
    BY <1>11 DEF DropLast
  <2>3. refs[m] = Bit(LocalRef(m)) + Bit(TempRef(m)) + Bit(Queued(m)) + Bit(WorkerRef(m))
    BY <2>1 DEF RefInv, RefsExact
  <2>4. CASE t = MainThread
    <3>1. LocalRef(m)
      BY <2>1, <2>4 DEF LocalRef
    <3>2. ~Queued(m) /\ ~WorkerRef(m)
      BY <2>1, <2>3, <3>1 DEF Bit
    <3>3. ctx[m] = "open"
      BY <2>1, <2>4 DEF Kinds, RefInv, Freed
    <3>4. replies[m] = 1
      BY <2>1, <2>4, <3>2, <3>3 DEF Answering, Pending
    <3>5. ASSUME NEW v \in Workers PROVE Served(v)'
      <4>1. v # t /\ Served(v)
        BY <2>4 DEF Answering
      <4>2. pc'[v] = pc[v] /\ cur'[v] = cur[v] /\ replies' = replies
        BY <2>2, <4>1
      <4>3. QED
        BY <4>1, <4>2 DEF Served
    <3>6. Fresh' /\ Pending'
      <4>1. pc'[MainThread] = "dtor" /\ cur'[MainThread] = m /\ replies'[m] = 1
        BY <2>1, <2>2, <2>4, <3>4
      <4>2. QED
        BY <4>1 DEF Fresh, Pending
    <3>7. \A e \in Events : Queued(e)' <=> Queued(e)
      BY <2>2 DEF Queued
    <3>8. QED
      BY <2>2, <3>5, <3>6, <3>7 DEF Answering
  <2>5. CASE t \in Workers
    <3>1. WorkerRef(m)
      BY <2>1, <2>5 DEF WorkerRef
    <3>2. ~LocalRef(m)
      BY <2>3, <2>1, <3>1 DEF Bit
    <3>3. pc[MainThread] \in {"pushed", "temp", "done"} => cur[MainThread] # m
      BY <3>2 DEF LocalRef
    <3>4. Pending'
      <4>1. SUFFICES ASSUME NEW d \in Events, d = cur[MainThread], ctx[d] = "open",
                            pc[MainThread] \in {"pushed", "temp", "done"}
                     PROVE  Queued(d)' \/ WorkerRef(d)' \/ replies[d] = 1
        BY <2>2, <2>5 DEF Pending, Queued, WorkerRef
      <4>2. Queued(d) \/ WorkerRef(d) \/ replies[d] = 1
        BY <4>1 DEF Answering, Pending
      <4>3. WorkerRef(d) => WorkerRef(d)'
        BY <2>2, <3>3, <4>1 DEF WorkerRef
      <4>4. QED
        BY <2>2, <4>2, <4>3 DEF Queued
    <3>5. \A v \in Workers : Served(v)'
      BY <2>1, <2>2, <2>5 DEF Answering, Served
    <3>6. Fresh'
      BY <2>2, <2>5 DEF Answering, Fresh
    <3>7. \A e \in Events : Queued(e)' <=> Queued(e)
      BY <2>2 DEF Queued
    <3>8. QED
      BY <2>2, <3>4, <3>5, <3>6, <3>7 DEF Answering
  <2>6. QED
    BY <2>4, <2>5
<1>12. ASSUME NEW t \in Threads, FreeContext(t) PROVE Answering'
  <2> DEFINE m == cur[t]
  <2>1. m \in Events /\ pc[t] = "dtor" /\ pc'[t] = "unblock"
    BY <1>12 DEF FreeContext
  <2>2. /\ events' = events /\ cur' = cur /\ replies' = replies
        /\ \A u \in Threads : u # t => pc'[u] = pc[u]
        /\ \A d \in Events : ctx'[d] = IF d = m THEN "freed" ELSE ctx[d]
    BY <1>12, <2>1 DEF FreeContext
  <2>3. replies[m] = 1
    BY <2>1 DEF Answering, Served, Fresh
  <2>4. \A d \in Events : (Queued(d)' <=> Queued(d)) /\ (WorkerRef(d)' <=> WorkerRef(d))
    BY <2>1, <2>2 DEF Queued, WorkerRef
  <2>5. Pending'
    BY <2>1, <2>2, <2>4 DEF Answering, Pending
  <2>6. QED
    BY <2>1, <2>2, <2>3, <2>4, <2>5 DEF Answering, Served, Fresh
<1>13. CASE UNCHANGED vars
  <2>1. KeepsAnswers
    BY <1>13 DEF vars, KeepsAnswers
  <2>2. QED
    BY <2>1, AnsweringKept
<1>14. QED
  BY <1>1, <1>2, <1>3, <1>4, <1>5, <1>6, <1>7, <1>8, <1>9, <1>10, <1>11, <1>12, <1>13
  DEF Next, Server, Command, Enqueue, Dequeue, Execute, Drop

LEMMA ClientInvariant == Spec => []ClientInv
BY LockInvariant, RefInvariant, ClientInvInit, BlockingStep, AnsweringStep, PTL
   DEF Spec, ClientInv

\* A client that is not blocked has had exactly one answer to each command it
\* sent through conc_handler, and the events of those are destroyed.
THEOREM ReleasedOnlyAnsweredTheorem == Spec => []ReleasedOnlyAnswered
<1>1. LockInv /\ ClientInv => ReleasedOnlyAnswered
  BY DEF LockInv, Types, ClientInv, Blocking, Answering, ReleasedOnlyAnswered
<1>2. QED
  BY <1>1, LockInvariant, ClientInvariant, PTL

-----------------------------------------------------------------------------
(* The arguments of a command, which belong to Redis.                      *)

\* As long as an event is not destroyed its client is blocked, so Redis does
\* not get to freeing the arguments; seq_handler returns only at the end.
ArgInv ==
    \A e \in Events :
        /\ ctx[e] = "open" => argv[e] \in {"held", "lost"}
        /\ ctx[e] = "command" /\ cur[MainThread] = e => argv[e] = "held"

LEMMA ArgInvInit == Init => ArgInv
BY DEF Init, ArgInv

\* A step that frees no arguments and takes up no event.
KeepsArguments ==
    /\ argv' = argv
    /\ \A e \in Events : /\ ctx'[e] = "open" => ctx[e] = "open"
                         /\ ctx'[e] = "command" => ctx[e] = "command"
    /\ cur'[MainThread] \in {cur[MainThread], None}

LEMMA ArgumentsKept == ArgInv /\ KeepsArguments => ArgInv'
BY NoneAssumption DEF ArgInv, KeepsArguments

LEMMA ArgInvStep == LockInv /\ Blocking /\ ArgInv /\ [Next]_vars => ArgInv'
<1> SUFFICES ASSUME LockInv, Blocking, ArgInv, [Next]_vars PROVE ArgInv'
  OBVIOUS
<1> USE NoneAssumption, ThreadsAssumption
    DEF LockInv, Types, Threads, ThreadSafe, Goto, Home, queueVars, eventVars
<1>1. ASSUME Wake \/ Sleep \/ Enqueue PROVE ArgInv'
  <2>1. KeepsArguments
    BY <1>1 DEF KeepsArguments, Wake, Sleep, Enqueue, EnqueueLock, EnqueuePush,
                EnqueueUnlock, DropTemporary
  <2>2. QED
    BY <2>1, ArgumentsKept
<1>2. ASSUME NEW w \in Workers, Dequeue(w) PROVE ArgInv'
  <2>1. KeepsArguments
    BY <1>2 DEF KeepsArguments, Dequeue, DequeueLock, DequeuePop, DequeueEmpty, DequeueUnlock
  <2>2. QED
    BY <2>1, ArgumentsKept
<1>3. ASSUME NEW t \in Threads, Execute(t) PROVE ArgInv'
  <2>1. KeepsArguments
    BY <1>3 DEF KeepsArguments, Execute, ExecEnter, ExecLock, ExecUnlock, ExecReply
  <2>2. QED
    BY <2>1, ArgumentsKept
<1>4. ASSUME NEW t \in Threads, Drop(t) PROVE ArgInv'
  <2>1. KeepsArguments
    BY <1>4 DEF KeepsArguments, Drop, DropLast, DropShared, FreeContext, Unblock
  <2>2. QED
    BY <2>1, ArgumentsKept
<1>5. ASSUME NEW c \in Clients, HandleUnblocked(c) PROVE ArgInv'
  <2>1. cur[MainThread] = None /\ ctx' = ctx /\ cur' = cur
    BY <1>5 DEF HandleUnblocked, Places, Busy, Using, Handling, Executing
  <2>2. \A e \in Events : ctx[e] = "open" => client[e] # c
    BY <1>5 DEF HandleUnblocked, Blocking
  <2>3. \A e \in Events : ctx[e] = "open" => argv'[e] = argv[e]
    BY <1>5, <2>2 DEF HandleUnblocked
  <2>4. QED
    BY <2>1, <2>3 DEF ArgInv
<1>6. ASSUME NEW c \in Clients, Disconnect(c) PROVE ArgInv'
  <2>1. cur[MainThread] = None /\ ctx' = ctx /\ cur' = cur
    BY <1>6 DEF Disconnect, Places, Busy, Using, Handling, Executing
  <2>2. \A e \in Events : argv'[e] \in {argv[e], "lost"}
    BY <1>6 DEF Disconnect
  <2>3. QED
    BY <2>1, <2>2 DEF ArgInv
<1>7. ASSUME NEW c \in Clients, NEW e \in Events, ConcHandler(c, e) \/ SeqHandler(c, e)
      PROVE ArgInv'
  <2>1. /\ argv' = [argv EXCEPT ![e] = "held"]
        /\ cur' = [cur EXCEPT ![MainThread] = e]
    BY <1>7 DEF Construct, ConcHandler, SeqHandler
  <2>2. \A f \in Events : f # e => ctx'[f] = ctx[f]
    BY <1>7 DEF Construct, ConcHandler, SeqHandler
  <2>3. QED
    BY <2>1, <2>2 DEF ArgInv
<1>8. CASE SeqReturn
  <2>1. /\ argv' = [argv EXCEPT ![cur[MainThread]] = "released"]
        /\ cur'[MainThread] = None /\ ctx' = ctx /\ ctx[cur[MainThread]] = "command"
    BY <1>8 DEF SeqReturn
  <2>2. QED
    BY <2>1 DEF ArgInv
<1>9. CASE UNCHANGED vars
  <2>1. KeepsArguments
    BY <1>9 DEF vars, KeepsArguments
  <2>2. QED
    BY <2>1, ArgumentsKept
<1>10. QED
  BY <1>1, <1>2, <1>3, <1>4, <1>5, <1>6, <1>7, <1>8, <1>9 DEF Next, Server, Command

\* No event that is queued or executed has had its arguments freed, as long as
\* its client is connected: they are freed after Redis let the client go, and
\* the destructor lets it go after the last use.
THEOREM ArgumentsHeldTheorem == Spec => []ArgumentsHeld
<1>1. ArgInv /\ LockInv /\ NoUseAfterDestroy => ArgumentsHeld
  <2> SUFFICES ASSUME ArgInv, LockInv, NoUseAfterDestroy, NEW e \in Events,
                      Queued(e) \/ \E t \in Threads : cur[t] = e /\ pc[t] \in Executing
               PROVE  argv[e] \in {"held", "lost"}
    BY DEF ArgumentsHeld
  <2>1. CASE Queued(e)
    BY <2>1 DEF Queued, NoUseAfterDestroy, ArgInv
  <2>2. ASSUME NEW t \in Threads, cur[t] = e, pc[t] \in Executing
        PROVE  argv[e] \in {"held", "lost"}
    <3>1. ctx[e] \in {"open", "command"}
      BY <2>2 DEF NoUseAfterDestroy, Using
    <3>2. t # MainThread => ctx[e] # "command"
      BY <2>2, NoneAssumption DEF LockInv, Kinds, Threads
    <3>3. QED
      BY <2>2, <3>1, <3>2 DEF ArgInv
  <2>3. QED
    BY <2>1, <2>2
<1>2. Spec => []ArgInv
  BY LockInvariant, ClientInvariant, ArgInvInit, ArgInvStep, PTL DEF Spec, ClientInv
<1>3. QED
  BY <1>1, <1>2, LockInvariant, NoUseAfterDestroyTheorem, PTL

=============================================================================
