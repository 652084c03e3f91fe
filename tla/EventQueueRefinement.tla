------------------------ MODULE EventQueueRefinement ------------------------
(***************************************************************************)
(* Proof that EventQueue implements FifoService, for every set of clients  *)
(* and events and every finite pool: the mutex, the reference counts and   *)
(* the threads do not show through.                                        *)
(*                                                                         *)
(* Most of it rests on the invariants of EventQueueProofs.  What they do   *)
(* not say is how many events are in service: one per worker, although the *)
(* handler may be left with the last reference to one more.  It never is   *)
(* at the moment when another event starts: the handler's event is the     *)
(* last that was pushed, so once it was popped the queue is empty          *)
(* (Latest).                                                               *)
(***************************************************************************)
EXTENDS EventQueueProofs, FiniteSetTheorems

\* An event whose context is open is queued or in the hands of a thread.
Owned == \A e \in Events : ctx[e] = "open" => Queued(e) \/ \E t \in Threads : cur[t] = e

\* The main thread has pushed an event and not returned from conc_handler.
Pushed ==
    /\ pc[MainThread] \in {"pushed", "temp", "done", "dtor", "unblock"}
    /\ ctx[cur[MainThread]] # "command"

\* Once pushed, the event of the handler is the last in the queue.
Latest == Pushed => events = <<>> \/ events[Len(events)] = cur[MainThread]

HandsInv == Owned /\ Latest

\* What the proofs below know of a state.
QueueInv == LockInv /\ RefInv /\ ClientInv

-----------------------------------------------------------------------------
LEMMA HandsInvInit == Init => HandsInv
BY DEF Init, HandsInv, Owned, Latest, Pushed, Threads

LEMMA OwnedStep == QueueInv /\ Owned /\ [Next]_vars => Owned'
<1> SUFFICES ASSUME QueueInv, Owned, [Next]_vars PROVE Owned'
  OBVIOUS
<1> USE DEF QueueInv
<1>1. ASSUME UNCHANGED <<events, ctx, cur>> PROVE Owned'
  BY <1>1 DEF Owned, Queued
<1>2. CASE Server \/ UNCHANGED vars
  BY <1>1, <1>2 DEF Server, Wake, Sleep, HandleUnblocked, Disconnect, vars, queueVars, eventVars
<1>3. CASE EnqueueLock \/ EnqueueUnlock \/ DropTemporary
  BY <1>1, <1>3 DEF EnqueueLock, EnqueueUnlock, DropTemporary, queueVars, eventVars
<1>4. ASSUME NEW w \in Workers, DequeueLock(w) \/ DequeueEmpty(w) \/ DequeueUnlock(w)
      PROVE Owned'
  BY <1>1, <1>4 DEF DequeueLock, DequeueEmpty, DequeueUnlock, queueVars, eventVars
<1>5. ASSUME NEW t \in Threads, Execute(t) \/ DropLast(t) PROVE Owned'
  BY <1>1, <1>5 DEF Execute, ExecEnter, ExecLock, ExecUnlock, ExecReply, DropLast,
                    queueVars, eventVars
<1>6. ASSUME NEW c \in Clients, NEW e \in Events, ConcHandler(c, e) \/ SeqHandler(c, e)
      PROVE Owned'
  <2>1. /\ events' = events /\ cur' = [cur EXCEPT ![MainThread] = e]
        /\ \A d \in Events : d # e => ctx'[d] = ctx[d]
    BY <1>6 DEF ConcHandler, SeqHandler, Construct, queueVars, LockInv, Types
  <2>2. cur[MainThread] = None /\ cur'[MainThread] = e
    BY <1>6, <2>1 DEF ConcHandler, SeqHandler, Goto, LockInv, Types, Places, Busy, Using,
                      Executing, Handling, Threads
  <2>3. \A t \in Threads : cur[t] \in Events => cur'[t] = cur[t]
    BY <2>1, <2>2, NoneAssumption DEF LockInv, Types
  <2>4. QED
    BY <2>1, <2>2, <2>3 DEF Owned, Queued, Threads
<1>7. CASE EnqueuePush
  <2>1. cur[MainThread] \in Events /\ events' = Append(events, cur[MainThread])
    BY <1>7 DEF EnqueuePush, Goto, LockInv, Places, Busy, Using, Handling, Threads
  <2>2. \A d \in Events : Queued(d) => Queued(d)'
    BY <2>1, QueuedAfterPush DEF LockInv, Types
  <2>3. QED
    BY <1>7, <2>2 DEF EnqueuePush, Owned
<1>8. ASSUME NEW w \in Workers, DequeuePop(w) PROVE Owned'
  <2>1. cur[w] = None /\ Head(events) \in Events /\ cur' = [cur EXCEPT ![w] = Head(events)]
    BY <1>8, PopQueue DEF DequeuePop, Goto, LockInv, Types, Places, Busy, Using, Executing,
                          Handling, Threads
  <2>2. cur'[w] = Head(events) /\ w \in Threads
    BY <2>1 DEF LockInv, Types, Threads
  <2>3. \A t \in Threads : cur[t] \in Events => cur'[t] = cur[t]
    BY <2>1, NoneAssumption DEF LockInv, Types
  <2>4. \A d \in Events : Queued(d) => Queued(d)' \/ d = Head(events)
    BY <1>8, QueuedAfterPop DEF DequeuePop, LockInv, Types, RefInv, Sharing
  <2>5. QED
    BY <1>8, <2>2, <2>3, <2>4 DEF DequeuePop, Owned, eventVars
<1>9. ASSUME NEW t \in Threads, DropShared(t) PROVE Owned'
  <2> DEFINE m == cur[t]
  <2>1. /\ m \in Events /\ ctx[m] # "command" /\ refs[m] > 1 /\ pc[t] = "done"
        /\ events' = events /\ ctx' = ctx /\ cur' = [cur EXCEPT ![t] = None]
    BY <1>9 DEF DropShared, ThreadSafe, Goto, LockInv, Places, Busy, Using, queueVars
  <2>2. refs[m] = Bit(LocalRef(m)) + Bit(TempRef(m)) + Bit(Queued(m)) + Bit(WorkerRef(m))
    BY <2>1 DEF RefInv, RefsExact, ThreadSafe
  <2>3. \A u \in Threads : u # t => cur'[u] = cur[u]
    BY <2>1 DEF LockInv, Types
  <2>4. Queued(m) \/ \E u \in Threads : u # t /\ cur[u] = m
    <3>1. CASE Queued(m)
      BY <3>1
    <3>2. CASE ~Queued(m) /\ LocalRef(m) /\ WorkerRef(m)
      BY <3>2, ThreadsAssumption DEF LocalRef, WorkerRef, Threads
    <3>3. CASE ~Queued(m) /\ ~LocalRef(m)
      <4>1. ~TempRef(m)
        BY <3>3 DEF LocalRef, TempRef
      <4>2. QED
        BY <2>1, <2>2, <3>3, <4>1 DEF Bit
    <3>4. CASE ~Queued(m) /\ ~WorkerRef(m)
      <4>1. TempRef(m)
        BY <2>1, <2>2, <3>4 DEF Bit
      <4>2. cur[MainThread] = m /\ pc[MainThread] # "done"
        BY <4>1 DEF TempRef, Handling
      <4>3. QED
        BY <2>1, <4>2 DEF Threads
    <3>5. QED
      BY <3>1, <3>2, <3>3, <3>4
  <2>5. QED
    BY <2>1, <2>3, <2>4 DEF Owned, Queued
<1>10. ASSUME NEW t \in Threads, FreeContext(t) PROVE Owned'
  BY <1>10 DEF FreeContext, Owned, Queued, queueVars, LockInv, Types
<1>11. ASSUME NEW t \in Threads, Unblock(t) PROVE Owned'
  <2>1. /\ ctx[cur[t]] = "freed" /\ events' = events /\ ctx' = ctx
        /\ \A u \in Threads : u # t => cur'[u] = cur[u]
    BY <1>11 DEF Unblock, Goto, ClientInv, Blocking, queueVars, eventVars, LockInv, Types
  <2>2. QED
    BY <2>1 DEF Owned, Queued
<1>12. CASE SeqReturn
  <2>1. /\ ctx[cur[MainThread]] = "command" /\ events' = events /\ ctx' = ctx
        /\ \A u \in Threads : u # MainThread => cur'[u] = cur[u]
    BY <1>12 DEF SeqReturn, ThreadSafe, queueVars, LockInv, Types, Threads
  <2>2. QED
    BY <2>1 DEF Owned, Queued
<1>13. QED
  BY <1>2, <1>3, <1>4, <1>5, <1>6, <1>7, <1>8, <1>9, <1>10, <1>11, <1>12
  DEF Next, Command, Enqueue, Dequeue, Drop

LEMMA LatestStep == QueueInv /\ Latest /\ [Next]_vars => Latest'
<1> SUFFICES ASSUME QueueInv, Latest, [Next]_vars PROVE Latest'
  OBVIOUS
<1> USE ThreadsAssumption DEF QueueInv, Goto, Threads, queueVars, eventVars
<1>1. ASSUME events' = events, cur'[MainThread] = cur[MainThread], Pushed' => Pushed
      PROVE Latest'
  BY <1>1 DEF Latest
<1>2. ASSUME NEW t \in Threads, t # MainThread, events' = events, ctx' = ctx,
             pc'[MainThread] = pc[MainThread], cur'[MainThread] = cur[MainThread]
      PROVE Latest'
  BY <1>1, <1>2 DEF Pushed
<1>3. CASE Server \/ UNCHANGED vars
  <2>1. /\ events' = events /\ cur' = cur /\ ctx' = ctx
        /\ pc' = pc \/ pc'[MainThread] \in {"serve", "poll"}
    BY <1>3 DEF Server, Wake, Sleep, HandleUnblocked, Disconnect, vars, LockInv, Types
  <2>2. QED
    BY <1>1, <2>1 DEF Pushed
<1>4. ASSUME NEW c \in Clients, NEW e \in Events, ConcHandler(c, e) \/ SeqHandler(c, e)
      PROVE Latest'
  <2>1. pc'[MainThread] \in {"new", "exec"}
    BY <1>4 DEF ConcHandler, SeqHandler, LockInv, Types
  <2>2. QED
    BY <2>1 DEF Latest, Pushed
<1>5. CASE EnqueueLock
  <2>1. pc'[MainThread] = "push"
    BY <1>5 DEF EnqueueLock, LockInv, Types
  <2>2. QED
    BY <2>1 DEF Latest, Pushed
<1>6. CASE EnqueuePush
  <2>1. cur[MainThread] \in Events /\ events' = Append(events, cur[MainThread]) /\ cur' = cur
    BY <1>6 DEF EnqueuePush, LockInv, Places, Busy, Using, Handling
  <2>2. Len(events') = Len(events) + 1 /\ events'[Len(events) + 1] = cur[MainThread]
    BY <2>1, PushQueue DEF LockInv, Types
  <2>3. QED
    BY <2>1, <2>2 DEF Latest
<1>7. CASE EnqueueUnlock \/ DropTemporary
  <2>1. /\ events' = events /\ cur' = cur /\ ctx' = ctx
        /\ pc[MainThread] \in {"pushed", "temp"}
    BY <1>7 DEF EnqueueUnlock, DropTemporary
  <2>2. QED
    BY <1>1, <2>1 DEF Pushed
<1>8. CASE SeqReturn
  <2>1. pc'[MainThread] = "serve"
    BY <1>8 DEF SeqReturn, LockInv, Types
  <2>2. QED
    BY <2>1 DEF Latest, Pushed
<1>9. ASSUME NEW w \in Workers, DequeueLock(w) \/ DequeueEmpty(w) \/ DequeueUnlock(w)
      PROVE Latest'
  <2>1. /\ w # MainThread /\ events' = events /\ ctx' = ctx /\ cur' = cur
        /\ pc'[MainThread] = pc[MainThread]
    BY <1>9 DEF DequeueLock, DequeueEmpty, DequeueUnlock, LockInv, Types
  <2>2. QED
    BY <1>2, <2>1
<1>10. ASSUME NEW w \in Workers, DequeuePop(w) PROVE Latest'
  <2>1. /\ w # MainThread /\ events' = Tail(events) /\ events # <<>> /\ ctx' = ctx
        /\ pc'[MainThread] = pc[MainThread] /\ cur'[MainThread] = cur[MainThread]
    BY <1>10 DEF DequeuePop, LockInv, Types
  <2>2. /\ Len(events') = Len(events) - 1 /\ Len(events) \in Nat \ {0}
        /\ events' \in Seq(Events)
        /\ \A i \in 1..Len(events') : events'[i] = events[i + 1]
    BY <2>1, PopQueue DEF LockInv, Types
  <2>3. CASE Len(events') = 0
    <3>1. events' = <<>>
      BY <2>2, <2>3, EmptySeq
    <3>2. QED
      BY <3>1 DEF Latest
  <2>4. CASE Len(events') # 0
    <3>1. events'[Len(events')] = events[Len(events)]
      BY <2>2, <2>4
    <3>2. QED
      BY <2>1, <3>1 DEF Latest, Pushed
  <2>5. QED
    BY <2>3, <2>4
<1>11. ASSUME NEW t \in Threads, Execute(t) PROVE Latest'
  <2>1. events' = events /\ ctx' = ctx /\ cur' = cur /\ \A u \in Threads : u # t => pc'[u] = pc[u]
    BY <1>11 DEF Execute, ExecEnter, ExecLock, ExecUnlock, ExecReply, LockInv, Types
  <2>2. CASE t = MainThread
    <3>1. pc[MainThread] \in {"exec", "wantgil", "locked", "lockedReplied", "body"}
      BY <1>11, <2>2 DEF Execute, ExecEnter, ExecLock, ExecUnlock, ExecReply
    <3>2. pc[MainThread] \in {"exec", "body"}
      BY <3>1 DEF LockInv, Places, MainPC, Handling
    <3>3. ctx[cur[MainThread]] = "command"
      BY <3>2 DEF LockInv, Kinds
    <3>4. QED
      BY <1>1, <2>1, <3>3 DEF Pushed
  <2>3. CASE t # MainThread
    BY <1>2, <2>1, <2>3
  <2>4. QED
    BY <2>2, <2>3
<1>12. ASSUME NEW t \in Threads, DropLast(t) PROVE Latest'
  <2>1. /\ events' = events /\ ctx' = ctx /\ cur' = cur /\ pc[t] = "done"
        /\ \A u \in Threads : u # t => pc'[u] = pc[u]
    BY <1>12 DEF DropLast, LockInv, Types
  <2>2. QED
    BY <1>1, <2>1 DEF Pushed
<1>13. ASSUME NEW t \in Threads, DropShared(t) \/ Unblock(t) PROVE Latest'
  <2>1. /\ events' = events /\ ctx' = ctx /\ pc'[t] = Home(t)
        /\ \A u \in Threads : u # t => pc'[u] = pc[u] /\ cur'[u] = cur[u]
    BY <1>13 DEF DropShared, Unblock, LockInv, Types
  <2>2. CASE t = MainThread
    BY <2>1, <2>2 DEF Latest, Pushed, Home
  <2>3. CASE t # MainThread
    BY <1>2, <2>1, <2>3
  <2>4. QED
    BY <2>2, <2>3
<1>14. ASSUME NEW t \in Threads, FreeContext(t) PROVE Latest'
  <2>1. /\ events' = events /\ cur' = cur /\ ctx' = [ctx EXCEPT ![cur[t]] = "freed"]
        /\ cur[t] \in Events /\ pc[t] = "dtor"
        /\ \A u \in Threads : u # t => pc'[u] = pc[u]
    BY <1>14 DEF FreeContext, LockInv, Types, Places, Busy, Using
  <2>2. ctx[cur[t]] # "command"
    BY <2>1, NoneAssumption DEF LockInv, Kinds
  <2>3. ctx'[cur[MainThread]] # "command" => ctx[cur[MainThread]] # "command"
    BY <2>1, <2>2 DEF LockInv, Types
  <2>4. CASE t = MainThread
    BY <1>1, <2>1, <2>2, <2>4 DEF Pushed
  <2>5. CASE t # MainThread
    BY <1>1, <2>1, <2>3, <2>5 DEF Pushed
  <2>6. QED
    BY <2>4, <2>5
<1>15. QED
  BY <1>3, <1>4, <1>5, <1>6, <1>7, <1>8, <1>9, <1>10, <1>11, <1>12, <1>13, <1>14
  DEF Next, Command, Enqueue, Dequeue, Drop

LEMMA HandsInvariant == Spec => []HandsInv
<1>1. QueueInv /\ HandsInv /\ [Next]_vars => HandsInv'
  BY OwnedStep, LatestStep DEF HandsInv
<1>2. LockInv /\ RefInv /\ ClientInv => QueueInv
  BY DEF QueueInv
<1>3. QED
  BY <1>1, <1>2, HandsInvInit, LockInvariant, RefInvariant, ClientInvariant, PTL DEF Spec

-----------------------------------------------------------------------------
(* The steps of the service.                                               *)

LEMMA InitImplements == Init => Service!SInit
BY DEF Init, Service!SInit, InService, Finished, Answers, Released, ThreadSafe

\* A step that starts, answers and finishes nothing.
Unnoticed ==
    /\ UNCHANGED <<events, ctx, replies>>
    /\ \A e \in Events : Building(e)' <=> Building(e)
    /\ \A e \in Events, t \in Threads :
          pc'[t] = "unblock" /\ cur'[t] = e <=> pc[t] = "unblock" /\ cur[t] = e

LEMMA UnnoticedStutters == Unnoticed => UNCHANGED Service!svars
<1> SUFFICES ASSUME Unnoticed PROVE UNCHANGED Service!svars
  OBVIOUS
<1>1. \A e \in Events : (Released(e)' <=> Released(e)) /\ (Queued(e)' <=> Queued(e))
  BY DEF Unnoticed, Released, Queued
<1>2. InService' = InService
  BY <1>1 DEF Unnoticed, InService
<1>3. Finished' = Finished
  BY <1>1 DEF Finished
<1>4. Answers' = Answers
  BY DEF Unnoticed, Answers, ThreadSafe
<1>5. QED
  BY <1>2, <1>3, <1>4 DEF Unnoticed, Service!svars

\* When a worker takes an event, every event in service is in the hands of
\* another worker: the handler's, if any, would be in the queue.
LEMMA Others ==
    ASSUME QueueInv, HandsInv, NEW w \in Workers, cur[w] = None, events # <<>>,
           NEW e \in InService
    PROVE  \E v \in Workers \ {w} : cur[v] = e
<1>1. e \in Events /\ ctx[e] \in {"open", "freed"} /\ ~Building(e) /\ ~Queued(e) /\ ~Released(e)
  BY DEF InService
<1>2. PICK t \in Threads : cur[t] = e
  BY <1>1 DEF HandsInv, Owned, Released
<1>3. t # MainThread
  <2> SUFFICES ASSUME t = MainThread PROVE FALSE
    OBVIOUS
  <2>1. pc[MainThread] \in Busy
    BY <1>1, <1>2, NoneAssumption DEF QueueInv, LockInv, Places, MainPC, Busy, Using, Handling,
                                      Executing, Threads
  <2>2. pc[MainThread] \notin {"exec", "body"}
    BY <1>1, <1>2 DEF QueueInv, LockInv, Kinds
  <2>3. pc[MainThread] \in {"pushed", "temp", "done", "dtor", "unblock"}
    BY <1>1, <1>2, <2>1, <2>2 DEF Building, QueueInv, LockInv, Places, MainPC, Handling, Busy,
                                  Using, Executing
  <2>4. events[Len(events)] = e
    BY <1>1, <1>2, <2>3 DEF HandsInv, Latest, Pushed
  <2>5. Len(events) \in 1..Len(events)
    BY EmptySeq DEF QueueInv, LockInv, Types
  <2>6. QED
    BY <1>1, <2>4, <2>5 DEF Queued
<1>4. t \in Workers \ {w}
  BY <1>1, <1>2, <1>3, NoneAssumption DEF Threads
<1>5. QED
  BY <1>2, <1>4

LEMMA WorkerLeft ==
    ASSUME QueueInv, HandsInv, NEW w \in Workers, cur[w] = None, events # <<>>
    PROVE  Cardinality(InService) < Cardinality(Workers)
<1> DEFINE holder == [e \in InService |-> CHOOSE v \in Workers \ {w} : cur[v] = e]
           others == Workers \ {w}
<1>1. \A e \in InService : holder[e] \in others /\ cur[holder[e]] = e
  BY Others
<1>2. holder \in Injection(InService, others)
  <2>1. holder \in [InService -> others]
    BY <1>1
  <2>2. \A d, e \in InService : holder[d] = holder[e] => d = e
    BY <1>1
  <2> HIDE DEF holder, others
  <2>3. QED
    BY <2>1, <2>2 DEF Injection, IsInjective
<1>3. IsFiniteSet(others) /\ Cardinality(others) = Cardinality(Workers) - 1
  BY FS_RemoveElement, PoolAssumption
<1>4. Cardinality(Workers) \in Nat
  BY FS_CardinalityType, PoolAssumption
<1> HIDE DEF holder, others
<1>5. IsFiniteSet(InService) /\ Cardinality(InService) <= Cardinality(others)
  BY <1>2, <1>3, FS_Injection
<1>6. Cardinality(InService) \in Nat
  BY <1>5, FS_CardinalityType
<1>7. QED
  BY <1>3, <1>4, <1>5, <1>6

\* push accepts an event that nobody has seen.
LEMMA PushSubmits ==
    ASSUME QueueInv, EnqueuePush PROVE Service!Submit(cur[MainThread]) /\ cur[MainThread] \in Events
<1> DEFINE m == cur[MainThread]
<1>1. /\ m \in Events /\ pc[MainThread] = "push" /\ events' = Append(events, m)
      /\ ctx' = ctx /\ replies' = replies /\ cur' = cur
      /\ pc' = [pc EXCEPT ![MainThread] = "pushed"]
  BY DEF EnqueuePush, Goto, QueueInv, LockInv, Places, Busy, Using, Handling, Threads
<1>2. ctx[m] = "open" /\ ~Queued(m) /\ replies[m] = 0
  BY <1>1 DEF QueueInv, LockInv, Kinds, Handling, RefInv, Sharing, Freed, ClientInv, Answering,
              Fresh, Threads
<1>3. \A e \in Events : Queued(e)' <=> Queued(e) \/ e = m
  BY <1>1, QueuedAfterPush DEF QueueInv, LockInv, Types
<1>4. \A t \in Threads : t # MainThread => pc'[t] = pc[t]
  BY <1>1 DEF QueueInv, LockInv, Types
<1>5. pc'[MainThread] = "pushed" /\ \A e \in Events : ~Building(e)'
  BY <1>1 DEF QueueInv, LockInv, Types, Threads, Building
<1>6. \A e \in Events : Building(e) <=> e = m
  BY <1>1 DEF Building
<1>7. \A e \in Events : Released(e)' <=> Released(e)
  BY <1>1, <1>4, <1>5 DEF Released
<1>8. InService' = InService /\ m \notin InService
  BY <1>1, <1>3, <1>5, <1>6, <1>7 DEF InService
<1>9. Finished' = Finished /\ m \notin Finished
  BY <1>2, <1>7 DEF Finished, Released
<1>10. Answers' = Answers /\ Answers[m] = 0
  BY <1>1, <1>2 DEF Answers, ThreadSafe
<1>11. ~Service!Queued(m)
  BY <1>2 DEF Queued, Service!Queued
<1>12. QED
  BY <1>1, <1>8, <1>9, <1>10, <1>11 DEF Service!Submit

\* The abstract module counts with an instance of the same operator.
LEMMA SameCount == Service!Cardinality(InService) = Cardinality(InService)
BY DEF Service!Cardinality, Cardinality

\* pop starts the oldest event.
LEMMA PopStarts ==
    ASSUME QueueInv, HandsInv, NEW w \in Workers, DequeuePop(w) PROVE Service!Start
<1> DEFINE h == Head(events)
<1>1. /\ events # <<>> /\ events' = Tail(events) /\ ctx' = ctx /\ replies' = replies
      /\ pc[w] = "pop" /\ pc' = [pc EXCEPT ![w] = "popped"]
      /\ cur' = [cur EXCEPT ![w] = h] /\ w # MainThread /\ cur[w] = None
  BY ThreadsAssumption DEF DequeuePop, Goto, eventVars, QueueInv, LockInv, Places, Busy, Using,
                           Handling, Executing, Threads
<1>2. h \in Events /\ Queued(h) /\ ctx[h] = "open"
  <2>1. h \in Events /\ Len(events) \in Nat \ {0} /\ h = events[1]
    BY <1>1, PopQueue DEF QueueInv, LockInv, Types
  <2>2. QED
    BY <2>1 DEF Queued, QueueInv, LockInv, Kinds, RefInv, Freed
<1>3. \A e \in Events : Queued(e)' <=> Queued(e) /\ e # h
  BY <1>1, QueuedAfterPop DEF QueueInv, LockInv, Types, RefInv, Sharing
<1>4. \A t \in Threads : t # w => pc'[t] = pc[t] /\ cur'[t] = cur[t]
  BY <1>1 DEF QueueInv, LockInv, Types
<1>5. pc'[w] = "popped"
  BY <1>1 DEF QueueInv, LockInv, Types, Threads
<1>6. \A e \in Events : (Building(e)' <=> Building(e)) /\ (Released(e)' <=> Released(e))
  BY <1>1, <1>4, <1>5 DEF Building, Released, Threads
<1>7. ~Building(h) /\ ~Released(h)
  BY <1>2 DEF Building, Released, QueueInv, RefInv, Sharing
<1>8. InService' = InService \cup {h}
  BY <1>1, <1>2, <1>3, <1>6, <1>7 DEF InService
<1>9. Finished' = Finished /\ Answers' = Answers
  BY <1>1, <1>6 DEF Finished, Answers, ThreadSafe
<1>10. Cardinality(InService) < Cardinality(Workers)
  BY <1>1, WorkerLeft
<1>11. QED
  BY <1>1, <1>8, <1>9, <1>10, SameCount DEF Service!Start

\* A worker's reply answers its event, which has no answer so far.
LEMMA ReplyAnswers ==
    ASSUME QueueInv, NEW w \in Workers, ExecReply(w)
    PROVE  Service!Answer(cur[w]) /\ cur[w] \in Events
<1> DEFINE m == cur[w]
<1>1. /\ m \in Events /\ pc[w] \in {"body", "locked"} /\ w \in Threads /\ w # MainThread
      /\ events' = events /\ ctx' = ctx /\ cur' = cur
      /\ pc' \in {[pc EXCEPT ![w] = "done"], [pc EXCEPT ![w] = "lockedReplied"]}
      /\ replies' = [replies EXCEPT ![m] = @ + 1]
  BY ThreadsAssumption, NoneAssumption
  DEF ExecReply, Goto, QueueInv, LockInv, Places, Busy, Using, Executing, queueVars, Threads
<1>2. ctx[m] = "open" /\ ~Queued(m) /\ replies[m] = 0
  BY <1>1, NoneAssumption
  DEF QueueInv, LockInv, Kinds, RefInv, Sharing, Freed, ClientInv, Answering, Served
<1>3. ~Building(m) /\ ~Released(m)
  BY <1>1, <1>2, NoneAssumption DEF Building, Released, QueueInv, RefInv, Sharing
<1>4. \A t \in Threads : t # w => pc'[t] = pc[t]
  BY <1>1 DEF QueueInv, LockInv, Types
<1>5. pc'[w] \in {"done", "lockedReplied"}
  BY <1>1 DEF QueueInv, LockInv, Types
<1>6. \A e \in Events : /\ Queued(e)' <=> Queued(e)
                        /\ Building(e)' <=> Building(e)
                        /\ Released(e)' <=> Released(e)
  BY <1>1, <1>4, <1>5 DEF Queued, Building, Released, Threads
<1>7. InService' = InService /\ m \in InService /\ Finished' = Finished
  BY <1>1, <1>2, <1>3, <1>6 DEF InService, Finished
<1>8. Answers' = [Answers EXCEPT ![m] = 1] /\ Answers[m] = 0
  <2>1. \A e \in Events : replies'[e] = IF e = m THEN 1 ELSE replies[e]
    BY <1>1, <1>2 DEF QueueInv, LockInv, Types
  <2>2. QED
    BY <1>1, <1>2, <2>1 DEF Answers, ThreadSafe
<1>9. QED
  BY <1>1, <1>7, <1>8 DEF Service!Answer

\* ~event() lets the client go, which finishes the event.
LEMMA UnblockFinishes ==
    ASSUME QueueInv, NEW t \in Threads, Unblock(t)
    PROVE  Service!Finish(cur[t]) /\ cur[t] \in Events
<1> DEFINE m == cur[t]
<1>1. /\ m \in Events /\ pc[t] = "unblock" /\ ctx[m] = "freed" /\ replies[m] = 1
      /\ events' = events /\ ctx' = ctx /\ replies' = replies
      /\ pc' = [pc EXCEPT ![t] = Home(t)] /\ cur' = [cur EXCEPT ![t] = None]
  BY DEF Unblock, Goto, QueueInv, LockInv, Places, Busy, ClientInv, Blocking, Answering,
         queueVars, eventVars
<1>2. \A u \in Threads : u # t => pc'[u] = pc[u] /\ cur'[u] = cur[u]
  BY <1>1 DEF QueueInv, LockInv, Types
<1>3. pc'[t] \in {"serve", "loop"} /\ cur'[t] = None
  BY <1>1 DEF QueueInv, LockInv, Types, Home
<1>4. ~Queued(m) /\ \A u \in Threads : u # t => cur[u] # m
  <2>1. ~Queued(m)
    BY <1>1 DEF QueueInv, RefInv, Freed
  <2>2. CASE t = MainThread
    BY <1>1, <2>2 DEF QueueInv, RefInv, Sharing, Threads
  <2>3. CASE t \in Workers
    BY <1>1, <2>3, NoneAssumption DEF QueueInv, RefInv, Sharing, Threads
  <2>4. QED
    BY <2>1, <2>2, <2>3 DEF Threads
<1>5. \A e \in Events : e # m => (Released(e)' <=> Released(e))
  BY <1>1, <1>2, <1>3 DEF Released
<1>6. ~Released(m) /\ \A e \in Events : e = m => Released(e)'
  BY <1>1, <1>2, <1>3, <1>4 DEF Released
<1>7. \A e \in Events : (Queued(e)' <=> Queued(e)) /\ (Building(e)' <=> Building(e))
  <2>1. \A e \in Events : Queued(e)' <=> Queued(e)
    BY <1>1 DEF Queued
  <2>2. CASE t = MainThread
    BY <1>1, <1>3, <2>1, <2>2 DEF Building
  <2>3. CASE t # MainThread
    BY <1>2, <2>1, <2>3 DEF Building, Threads
  <2>4. QED
    BY <2>2, <2>3
<1>8. ~Building(m)
  BY <1>1, <1>4 DEF Building, Threads
<1>9. InService' = InService \ {m} /\ m \in InService
  BY <1>1, <1>4, <1>5, <1>6, <1>7, <1>8 DEF InService
<1>10. Finished' = Finished \cup {m}
  BY <1>1, <1>5, <1>6 DEF Finished
<1>11. Answers' = Answers /\ Answers[m] = 1
  BY <1>1 DEF Answers, ThreadSafe
<1>12. QED
  BY <1>1, <1>9, <1>10, <1>11 DEF Service!Finish

-----------------------------------------------------------------------------
LEMMA StepImplements ==
    QueueInv /\ QueueInv' /\ HandsInv /\ [Next]_vars => [Service!SNext]_(Service!svars)
<1> SUFFICES ASSUME QueueInv, QueueInv', HandsInv, [Next]_vars
             PROVE  Service!SNext \/ UNCHANGED Service!svars
  OBVIOUS
<1> USE UnnoticedStutters, ThreadsAssumption DEF Goto, queueVars, eventVars, Threads
<1>1. CASE Server \/ UNCHANGED vars
  <2>1. /\ UNCHANGED <<events, ctx, replies, cur>>
        /\ \/ pc' = pc
           \/ /\ pc[MainThread] \in {"poll", "serve"}
              /\ pc' \in {[pc EXCEPT ![MainThread] = "serve"], [pc EXCEPT ![MainThread] = "poll"]}
    BY <1>1 DEF Server, Wake, Sleep, HandleUnblocked, Disconnect, vars
  <2>2. Unnoticed
    BY <2>1 DEF Unnoticed, Building, QueueInv, LockInv, Types
  <2>3. QED
    BY <2>2
<1>2. ASSUME NEW c \in Clients, NEW e \in Events, ConcHandler(c, e) PROVE UNCHANGED Service!svars
  <2>1. /\ events' = events /\ replies' = replies
        /\ ctx[e] = "none" /\ ctx' = [ctx EXCEPT ![e] = "open"]
        /\ pc[MainThread] = "serve" /\ pc' = [pc EXCEPT ![MainThread] = "new"]
        /\ cur' = [cur EXCEPT ![MainThread] = e]
    BY <1>2 DEF ConcHandler, Construct
  <2>2. /\ pc'[MainThread] = "new" /\ cur'[MainThread] = e
        /\ \A t \in Threads : t # MainThread => pc'[t] = pc[t] /\ cur'[t] = cur[t]
    BY <2>1 DEF QueueInv, LockInv, Types
  <2>3. ASSUME NEW d \in Events, d # e
        PROVE  /\ ctx'[d] = ctx[d]
               /\ Building(d)' <=> Building(d)
               /\ Released(d)' <=> Released(d)
               /\ Queued(d)' <=> Queued(d)
    <3>1. ctx'[d] = ctx[d]
      BY <2>1, <2>3
    <3>2. Building(d)' <=> Building(d)
      BY <2>1, <2>2, <2>3 DEF Building
    <3>3. Released(d)' <=> Released(d)
      BY <2>1, <2>2, <3>1 DEF Released
    <3>4. Queued(d)' <=> Queued(d)
      BY <2>1 DEF Queued
    <3>5. QED
      BY <3>1, <3>2, <3>3, <3>4
  <2>4. Building(e)' /\ ~Released(e) /\ ~Released(e)'
    BY <2>1, <2>2 DEF Building, Released, QueueInv, LockInv, Types
  <2>5. InService' = InService /\ Finished' = Finished
    <3>1. e \notin InService /\ e \notin InService'
      BY <2>1, <2>4 DEF InService, QueueInv, LockInv, Types
    <3>2. e \notin Finished /\ e \notin Finished'
      BY <2>4 DEF Finished
    <3>3. \A d \in Events : d # e => (d \in InService' <=> d \in InService)
      BY <2>3 DEF InService
    <3>4. \A d \in Events : d # e => (d \in Finished' <=> d \in Finished)
      BY <2>3 DEF Finished
    <3>5. /\ InService \subseteq Events /\ InService' \subseteq Events
          /\ Finished \subseteq Events /\ Finished' \subseteq Events
      BY DEF InService, Finished
    <3>6. QED
      BY <3>1, <3>2, <3>3, <3>4, <3>5
  <2>6. Answers' = Answers
    BY <2>1 DEF Answers, ThreadSafe, QueueInv, LockInv, Types
  <2>7. QED
    BY <2>1, <2>5, <2>6 DEF Service!svars
<1>3. ASSUME NEW c \in Clients, NEW e \in Events, SeqHandler(c, e) PROVE UNCHANGED Service!svars
  <2>1. /\ events' = events /\ replies' = replies
        /\ ctx[e] = "none" /\ ctx' = [ctx EXCEPT ![e] = "command"]
        /\ pc[MainThread] = "serve" /\ pc' = [pc EXCEPT ![MainThread] = "exec"]
        /\ cur' = [cur EXCEPT ![MainThread] = e]
    BY <1>3 DEF SeqHandler, Construct
  <2>2. /\ pc'[MainThread] = "exec"
        /\ \A t \in Threads : t # MainThread => pc'[t] = pc[t] /\ cur'[t] = cur[t]
    BY <2>1 DEF QueueInv, LockInv, Types
  <2>3. ASSUME NEW d \in Events, d # e
        PROVE  /\ ctx'[d] = ctx[d]
               /\ Building(d)' <=> Building(d)
               /\ Released(d)' <=> Released(d)
               /\ Queued(d)' <=> Queued(d)
    <3>1. ctx'[d] = ctx[d]
      BY <2>1, <2>3
    <3>2. Building(d)' <=> Building(d)
      BY <2>1, <2>2, <2>3 DEF Building
    <3>3. Released(d)' <=> Released(d)
      BY <2>1, <2>2, <3>1 DEF Released
    <3>4. Queued(d)' <=> Queued(d)
      BY <2>1 DEF Queued
    <3>5. QED
      BY <3>1, <3>2, <3>3, <3>4
  <2>4. ~Released(e) /\ ~Released(e)'
    BY <2>1 DEF Released, QueueInv, LockInv, Types
  <2>5. InService' = InService /\ Finished' = Finished
    <3>1. e \notin InService /\ e \notin InService'
      BY <2>1, <2>4 DEF InService, QueueInv, LockInv, Types
    <3>2. e \notin Finished /\ e \notin Finished'
      BY <2>4 DEF Finished
    <3>3. \A d \in Events : d # e => (d \in InService' <=> d \in InService)
      BY <2>3 DEF InService
    <3>4. \A d \in Events : d # e => (d \in Finished' <=> d \in Finished)
      BY <2>3 DEF Finished
    <3>5. /\ InService \subseteq Events /\ InService' \subseteq Events
          /\ Finished \subseteq Events /\ Finished' \subseteq Events
      BY DEF InService, Finished
    <3>6. QED
      BY <3>1, <3>2, <3>3, <3>4, <3>5
  <2>6. Answers' = Answers
    BY <2>1 DEF Answers, ThreadSafe, QueueInv, LockInv, Types, ClientInv, Answering
  <2>7. QED
    BY <2>1, <2>5, <2>6 DEF Service!svars
<1>4. CASE EnqueueLock \/ EnqueueUnlock \/ DropTemporary
  <2>1. /\ UNCHANGED <<events, ctx, replies, cur>>
        /\ \/ pc[MainThread] = "new" /\ pc' = [pc EXCEPT ![MainThread] = "push"]
           \/ pc[MainThread] = "pushed" /\ pc' = [pc EXCEPT ![MainThread] = "temp"]
           \/ pc[MainThread] = "temp" /\ pc' = [pc EXCEPT ![MainThread] = "done"]
    BY <1>4 DEF EnqueueLock, EnqueueUnlock, DropTemporary
  <2>2. Unnoticed
    BY <2>1 DEF Unnoticed, Building, QueueInv, LockInv, Types
  <2>3. QED
    BY <2>2
<1>5. ASSUME EnqueuePush PROVE Service!SNext
  BY <1>5, PushSubmits DEF Service!SNext
<1>6. CASE SeqReturn
  <2>1. /\ UNCHANGED <<events, ctx, replies>>
        /\ pc[MainThread] = "done" /\ pc' = [pc EXCEPT ![MainThread] = "serve"]
        /\ cur' = [cur EXCEPT ![MainThread] = None]
    BY <1>6 DEF SeqReturn
  <2>2. /\ pc'[MainThread] = "serve"
        /\ \A t \in Threads : t # MainThread => pc'[t] = pc[t] /\ cur'[t] = cur[t]
    BY <2>1 DEF QueueInv, LockInv, Types
  <2>3. Unnoticed
    BY <2>1, <2>2 DEF Unnoticed, Building
  <2>4. QED
    BY <2>3
<1>7. ASSUME NEW w \in Workers, DequeueLock(w) \/ DequeueEmpty(w) \/ DequeueUnlock(w)
      PROVE UNCHANGED Service!svars
  <2>1. /\ UNCHANGED <<events, ctx, replies, cur>>
        /\ pc[w] \in {"loop", "pop", "popped"} /\ w # MainThread
        /\ \E p \in {"pop", "popped", "loop", "exec"} : pc' = [pc EXCEPT ![w] = p]
    BY <1>7 DEF DequeueLock, DequeueEmpty, DequeueUnlock
  <2>2. /\ pc'[w] \in {"pop", "popped", "loop", "exec"}
        /\ \A t \in Threads : t # w => pc'[t] = pc[t]
    BY <2>1 DEF QueueInv, LockInv, Types
  <2>3. Unnoticed
    BY <2>1, <2>2 DEF Unnoticed, Building
  <2>4. QED
    BY <2>3
<1>8. ASSUME NEW w \in Workers, DequeuePop(w) PROVE Service!SNext
  BY <1>8, PopStarts DEF Service!SNext
<1>9. ASSUME NEW t \in Threads, ExecEnter(t) \/ ExecLock(t) \/ ExecUnlock(t) \/ DropLast(t)
      PROVE UNCHANGED Service!svars
  <2>1. /\ UNCHANGED <<events, ctx, replies, cur>>
        /\ pc[t] \in {"exec", "wantgil", "locked", "lockedReplied", "done"}
        /\ \E p \in {"body", "wantgil", "locked", "done", "dtor"} : pc' = [pc EXCEPT ![t] = p]
    BY <1>9 DEF ExecEnter, ExecLock, ExecUnlock, DropLast
  <2>2. /\ pc'[t] \in {"body", "wantgil", "locked", "done", "dtor"}
        /\ \A u \in Threads : u # t => pc'[u] = pc[u]
    BY <2>1 DEF QueueInv, LockInv, Types
  <2>3. Unnoticed
    BY <2>1, <2>2 DEF Unnoticed, Building
  <2>4. QED
    BY <2>3
<1>10. ASSUME NEW t \in Threads, ExecReply(t) PROVE Service!SNext \/ UNCHANGED Service!svars
  <2>1. CASE t \in Workers
    BY <1>10, <2>1, ReplyAnswers DEF Service!SNext
  <2>2. CASE t = MainThread
    <3>1. /\ events' = events /\ ctx' = ctx /\ cur' = cur
          /\ cur[t] \in Events /\ pc[t] = "body" /\ pc' = [pc EXCEPT ![t] = "done"]
          /\ replies' = [replies EXCEPT ![cur[t]] = @ + 1]
      BY <1>10, <2>2 DEF ExecReply, QueueInv, LockInv, Places, MainPC, Handling, Busy, Using,
                         Executing
    <3>2. /\ pc'[t] = "done" /\ \A u \in Threads : u # t => pc'[u] = pc[u]
      BY <3>1 DEF QueueInv, LockInv, Types
    <3>3. \A e \in Events : /\ Building(e)' <=> Building(e)
                            /\ Released(e)' <=> Released(e)
                            /\ Queued(e)' <=> Queued(e)
      BY <2>2, <3>1, <3>2 DEF Building, Released, Queued
    <3>4. InService' = InService /\ Finished' = Finished
      BY <3>1, <3>3 DEF InService, Finished
    <3>5. ctx[cur[t]] = "command" /\ \A e \in Events : e # cur[t] => replies'[e] = replies[e]
      BY <2>2, <3>1 DEF QueueInv, LockInv, Types, Kinds
    <3>6. Answers' = Answers
      BY <3>1, <3>5 DEF Answers, ThreadSafe
    <3>7. QED
      BY <3>1, <3>4, <3>6 DEF Service!svars
  <2>3. QED
    BY <2>1, <2>2
<1>11. ASSUME NEW t \in Threads, DropShared(t) PROVE UNCHANGED Service!svars
  <2>1. /\ UNCHANGED <<events, ctx, replies>> /\ pc[t] = "done"
        /\ pc' = [pc EXCEPT ![t] = Home(t)] /\ cur' = [cur EXCEPT ![t] = None]
    BY <1>11 DEF DropShared
  <2>2. /\ pc'[t] \in {"serve", "loop"}
        /\ \A u \in Threads : u # t => pc'[u] = pc[u] /\ cur'[u] = cur[u]
    BY <2>1 DEF QueueInv, LockInv, Types, Home
  <2>3. Unnoticed
    BY <2>1, <2>2 DEF Unnoticed, Building
  <2>4. QED
    BY <2>3
<1>12. ASSUME NEW t \in Threads, FreeContext(t) PROVE UNCHANGED Service!svars
  <2> DEFINE m == cur[t]
  <2>1. /\ events' = events /\ cur' = cur /\ replies' = replies
        /\ m \in Events /\ pc[t] = "dtor" /\ pc' = [pc EXCEPT ![t] = "unblock"]
        /\ ctx' = [ctx EXCEPT ![m] = "freed"]
    BY <1>12 DEF FreeContext, QueueInv, LockInv, Places, Busy, Using
  <2>2. ctx[m] = "open"
    BY <2>1, NoneAssumption DEF QueueInv, LockInv, Kinds, RefInv, Freed
  <2>3. pc'[t] = "unblock" /\ \A u \in Threads : u # t => pc'[u] = pc[u]
    BY <2>1 DEF QueueInv, LockInv, Types
  <2>4. \A e \in Events : /\ Building(e)' <=> Building(e)
                          /\ Queued(e)' <=> Queued(e)
    BY <2>1, <2>3 DEF Building, Queued
  <2>5. ~Released(m) /\ \A e \in Events : e = m => ~Released(e)'
    BY <2>1, <2>2, <2>3 DEF Released
  <2>6. \A e \in Events : e # m => (ctx'[e] = ctx[e] /\ (Released(e)' <=> Released(e)))
    BY <2>1, <2>3 DEF Released, QueueInv, LockInv, Types
  <2>7. \A e \in Events : e = m => ctx'[e] = "freed"
    BY <2>1 DEF QueueInv, LockInv, Types
  <2>8. InService' = InService
    BY <2>2, <2>4, <2>5, <2>6, <2>7 DEF InService
  <2>9. Finished' = Finished
    BY <2>5, <2>6 DEF Finished
  <2>10. Answers' = Answers
    BY <2>1, <2>2, <2>6, <2>7 DEF Answers, ThreadSafe
  <2>11. QED
    BY <2>1, <2>8, <2>9, <2>10 DEF Service!svars
<1>13. ASSUME NEW t \in Threads, Unblock(t) PROVE Service!SNext
  BY <1>13, UnblockFinishes DEF Service!SNext
<1>14. QED
  BY <1>1, <1>2, <1>3, <1>4, <1>5, <1>6, <1>7, <1>8, <1>9, <1>10, <1>11, <1>12, <1>13
  DEF Next, Command, Enqueue, Dequeue, Execute, Drop

\* The queue, its mutex, its shared pointers and its threads are a first-in
\* first-out service: whatever the number of workers and clients, events start
\* in the order in which the handlers pushed them, no more of them at a time
\* than there are workers, and each is answered once before it is finished.
THEOREM ImplementsServiceTheorem == Spec => ImplementsService
<1>1. LockInv /\ RefInv /\ ClientInv => QueueInv
  BY DEF QueueInv
<1>2. QED
  BY <1>1, LockInvariant, RefInvariant, ClientInvariant, HandsInvariant, InitImplements,
     StepImplements, PTL
  DEF Spec, ImplementsService, Service!SSpec

=============================================================================
