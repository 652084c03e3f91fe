------------------------- MODULE RedParServerProofs -------------------------
(***************************************************************************)
(* Proofs about RedParServer, for every set of clients, events, workers,   *)
(* keys, values, objects and requests.                                     *)
(*                                                                         *)
(* The invariants proved of EventQueue and of SkipListCommands are         *)
(* invariants of the server; with them, and with what is known of the      *)
(* commands in between (ServerInv), it implements KeyedSets for its        *)
(* clients.  That last theorem assumes, like the one about                 *)
(* SkipListCommands, that workers are sent create and delete only          *)
(* (LifeCycleOnly): the commands for which the code takes the lock.        *)
(***************************************************************************)
EXTENDS RedParServer, TLAPS

\* The components, with what is proved about them.
QP == INSTANCE EventQueueProofs

CP == INSTANCE SkipListProofs WITH pc <- step, gil <- KeyspaceLock

-----------------------------------------------------------------------------
(* The components are the same under either name, and what they assume of  *)
(* their constants holds.                                                  *)

LEMMA PoolFinite == QP!IsFiniteSet(Workers)
BY PoolAssumption DEF IsFiniteSet, QP!IsFiniteSet

LEMMA SameQueue ==
    /\ Queue!Init <=> QP!Init
    /\ [Queue!Next]_(Queue!vars) <=> [QP!Next]_(QP!vars)
BY DEF
    Queue!Threads, QP!Threads, Queue!vars, QP!vars, Queue!queueVars,
    QP!queueVars, Queue!eventVars, QP!eventVars, Queue!ThreadSafe,
    QP!ThreadSafe, Queue!Goto, QP!Goto, Queue!Home, QP!Home, Queue!Init,
    QP!Init, Queue!Wake, QP!Wake, Queue!Sleep, QP!Sleep,
    Queue!HandleUnblocked, QP!HandleUnblocked, Queue!Disconnect,
    QP!Disconnect, Queue!Construct, QP!Construct, Queue!ConcHandler,
    QP!ConcHandler, Queue!EnqueueLock, QP!EnqueueLock, Queue!EnqueuePush,
    QP!EnqueuePush, Queue!EnqueueUnlock, QP!EnqueueUnlock,
    Queue!DropTemporary, QP!DropTemporary, Queue!SeqHandler, QP!SeqHandler,
    Queue!DequeueLock, QP!DequeueLock, Queue!DequeuePop, QP!DequeuePop,
    Queue!DequeueEmpty, QP!DequeueEmpty, Queue!DequeueUnlock,
    QP!DequeueUnlock, Queue!ExecEnter, QP!ExecEnter, Queue!ExecLock,
    QP!ExecLock, Queue!ExecUnlock, QP!ExecUnlock, Queue!ExecReply,
    QP!ExecReply, Queue!DropLast, QP!DropLast, Queue!DropShared,
    QP!DropShared, Queue!SeqReturn, QP!SeqReturn, Queue!FreeContext,
    QP!FreeContext, Queue!Unblock, QP!Unblock, Queue!Execute, QP!Execute,
    Queue!Drop, QP!Drop, Queue!Server, QP!Server, Queue!Command, QP!Command,
    Queue!Enqueue, QP!Enqueue, Queue!Dequeue, QP!Dequeue, Queue!Next, QP!Next

LEMMA SameRoom == Commands!Room <=> CP!Room
<1>1. ASSUME NEW S PROVE Commands!Cardinality(S) = CP!Cardinality(S)
  BY DEF Commands!Cardinality, CP!Cardinality
<1>2. QED
  BY <1>1 DEF Commands!Room, CP!Room, Commands!Threads, CP!Threads, Commands!Op, CP!Op

LEMMA SameCommands ==
    /\ Commands!Init <=> CP!Init
    /\ [Commands!Next]_(Commands!vars) <=> [CP!Next]_(CP!vars)
    /\ \A t \in Threads : Commands!Execute(t) <=> CP!Execute(t)
BY SameRoom DEF
    Commands!Init, CP!Init, Commands!vars, CP!vars, Commands!objectVars,
    CP!objectVars, Commands!Goto, CP!Goto, Commands!Op, CP!Op, Commands!Key,
    CP!Key, Commands!Val, CP!Val, Commands!Decide, CP!Decide,
    Commands!Threads, CP!Threads, Commands!ConcCommand, CP!ConcCommand,
    Commands!SeqCommand, CP!SeqCommand, Commands!Del, CP!Del,
    Commands!DelEnter, CP!DelEnter, Commands!OpenKey, CP!OpenKey,
    Commands!Seen, CP!Seen,
    Commands!BadArguments, CP!BadArguments, Commands!Lock, CP!Lock,
    Commands!Lookup, CP!Lookup, Commands!InKeyspace, CP!InKeyspace,
    Commands!Found, CP!Found, Commands!CreateExists, CP!CreateExists,
    Commands!CreateObject, CP!CreateObject, Commands!OpenFails, CP!OpenFails,
    Commands!OpenObject, CP!OpenObject, Commands!Link, CP!Link,
    Commands!Destroy, CP!Destroy, Commands!Unlink, CP!Unlink, Commands!Result,
    CP!Result, Commands!Changed, CP!Changed, Commands!Apply, CP!Apply,
    Commands!Finish, CP!Finish, Commands!Create, CP!Create, Commands!Delete,
    CP!Delete, Commands!Execute, CP!Execute, Commands!Next, CP!Next

LEMMA CommandAssumptions ==
    /\ ConcRequests \subseteq CP!Requests /\ SeqRequests \subseteq CP!Requests
    /\ DelKeys \subseteq Keys
    /\ Foreign # None
    /\ Objects \cap {Foreign, None} = {}
    /\ None \notin Workers \cup {MainThread} \cup CP!Requests
    /\ Malformed \notin Values
    /\ None \notin CP!Answers
    /\ \A s \in SUBSET Values : s # None /\ s # Foreign
BY RequestsAssumption, MarkersAssumption, NoneAssumption
DEF Commands!Requests, CP!Requests, Commands!Ops, CP!Ops, Commands!Answers, CP!Answers

-----------------------------------------------------------------------------
(* Where a thread is in the queue's view while it is in a command.         *)

Inside == {"wantgil", "body", "locked", "lockedReplied"}

\* A thread in a command is inside execute(); DEL is the event loop's own.
Working ==
    /\ \A t \in Threads : step[t] \notin {"idle", "del"} => pc[t] \in Inside
    /\ step[MainThread] = "del" => pc[MainThread] = "serve"

WorkInv == QP!LockInv /\ CP!TypeInv /\ Working

LEMMA WorkInvInit == Init => WorkInv
<1>1. Init => QP!LockInv
  BY SameQueue, QP!LockInvInit, PoolFinite, NoneAssumption, ThreadsAssumption DEF Init
<1>2. Init => CP!Init
  BY DEF Init, CP!Init, KeyspaceLock, Queue!Init, Threads, CP!Threads
<1>3. Init => CP!TypeInv
  BY <1>2, CP!TypeInvInit, CommandAssumptions, ThreadsAssumption
<1>4. Init => Working
  BY DEF Init, Working, Threads
<1>5. QED
  BY <1>1, <1>3, <1>4 DEF WorkInv

\* Each place in execute() is one of the queue's view of it.
LEMMA ExecuteQueue ==
    ASSUME NEW t \in Threads, Execute(t)
    PROVE  Queue!Execute(t) \/ UNCHANGED Queue!vars
<1> USE DEF At, SendReply, Queue!Goto, Queue!queueVars, Queue!eventVars, Queue!Execute
<1>1. CASE Begin(t)
  BY <1>1 DEF Begin, TakesLock, Queue!ExecEnter
<1>2. CASE LockGil(t)
  BY <1>2 DEF LockGil, Queue!ExecLock
<1>3. CASE Compute(t)
  BY <1>3 DEF Compute, queueVars, Queue!vars
<1>4. CASE ReplyLocked(t) \/ ReplyUnlocked(t) \/ Reply(t)
  BY <1>4 DEF ReplyLocked, ReplyUnlocked, Reply, Queue!ExecReply
<1>5. CASE UnlockReplied(t) \/ Unlock(t)
  BY <1>5 DEF UnlockReplied, Unlock, Queue!ExecUnlock
<1>6. QED
  BY <1>1, <1>2, <1>3, <1>4, <1>5 DEF Execute

LEMMA QueueStep == [Next]_vars => [QP!Next]_(QP!vars)
<1>1. ASSUME NEW t \in Threads, Execute(t) PROVE [Queue!Next]_(Queue!vars)
  BY <1>1, ExecuteQueue DEF Queue!Next, Queue!Threads, Threads
<1>2. ASSUME [Next]_vars, \A t \in Threads : ~Execute(t) PROVE [Queue!Next]_(Queue!vars)
  BY <1>2 DEF Next, vars, queueVars, Queue!vars, Queue!Next, Queue!Command, Queue!Threads,
     Threads, ConcHandler, SeqHandler, Del, DelEnter, Transport
<1>3. QED
  BY <1>1, <1>2, SameQueue

\* The event loop comes and goes without a command: the lock that the commands
\* see is not affected.
LEMMA LockKept ==
    ASSUME WorkInv, Idle, UNCHANGED step, Queue!Wake \/ Queue!Sleep
    PROVE  KeyspaceLock' = KeyspaceLock
<1>1. /\ step[MainThread] = "idle"
      /\ gil \in {None, MainThread} /\ gil' \in {None, MainThread}
  BY DEF WorkInv, QP!LockInv, QP!Locks, Working, Idle, Inside, Queue!Wake, Queue!Sleep,
         Queue!Goto, Threads
<1>2. QED
  BY <1>1 DEF KeyspaceLock

\* Every step of the server is one of the commands, or leaves them.
LEMMA CommandStep == WorkInv /\ [Next]_vars => [CP!Next]_(CP!vars)
<1> SUFFICES ASSUME WorkInv, [Next]_vars
             PROVE  [Commands!Next]_(Commands!vars)
  BY SameCommands
<1>1. ASSUME NEW c \in Clients, NEW e \in Events, ConcHandler(c, e) \/ SeqHandler(c, e)
      PROVE UNCHANGED Commands!vars
  BY <1>1
  DEF ConcHandler, SeqHandler, Send, Queue!ConcHandler, Queue!SeqHandler, Commands!vars,
      commandVars, KeyspaceLock
<1>2. ASSUME DelEnter \/ \E k \in DelKeys : Del(k) PROVE Commands!Next
  BY <1>2 DEF DelEnter, Del, Commands!Next
<1>3. CASE Transport
  <2>1. KeyspaceLock' = KeyspaceLock
    <3>1. CASE Idle /\ (Queue!Wake \/ Queue!Sleep)
      BY <1>3, <3>1, LockKept DEF Transport, commandVars
    <3>2. CASE UNCHANGED gil
      BY <1>3, <3>2 DEF Transport, commandVars, KeyspaceLock
    <3>3. QED
      BY <1>3, <3>1, <3>2
      DEF Transport, Queue!Server, Queue!HandleUnblocked, Queue!Disconnect, Queue!Enqueue,
          Queue!EnqueueLock, Queue!EnqueuePush, Queue!EnqueueUnlock, Queue!DropTemporary,
          Queue!SeqReturn, Queue!Dequeue, Queue!DequeueLock, Queue!DequeuePop,
          Queue!DequeueEmpty, Queue!DequeueUnlock, Queue!Drop, Queue!DropLast, Queue!DropShared,
          Queue!FreeContext, Queue!Unblock
  <2>2. QED
    BY <1>3, <2>1 DEF Transport, Commands!vars, commandVars
<1>4. ASSUME NEW t \in Threads, Execute(t) PROVE Commands!Next \/ UNCHANGED Commands!vars
  <2>1. CASE Begin(t)
    BY <2>1 DEF Begin, Commands!Next, Threads
  <2>2. CASE ReplyLocked(t) \/ ReplyUnlocked(t)
    BY <2>2
    DEF ReplyLocked, ReplyUnlocked, At, SendReply, commandVars, Commands!vars, KeyspaceLock
  <2>3. CASE LockGil(t) \/ Compute(t) \/ UnlockReplied(t) \/ Unlock(t) \/ Reply(t)
    BY <2>3
    DEF LockGil, Compute, UnlockReplied, Unlock, Reply, Commands!Next, Commands!Execute,
        Commands!Threads, Threads
  <2>4. QED
    BY <1>4, <2>1, <2>2, <2>3 DEF Execute
<1>5. CASE UNCHANGED vars
  BY <1>5 DEF vars, queueVars, commandVars, Commands!vars, KeyspaceLock
<1>6. QED
  BY <1>1, <1>2, <1>3, <1>4, <1>5 DEF Next

\* A step of a thread in its command leaves what the others do.
LEMMA CommandFrame ==
    ASSUME CP!TypeInv, NEW t \in Threads,
           Commands!Execute(t) \/ (t = MainThread /\ Commands!SeqCommand) \/ Commands!ConcCommand(t)
    PROVE  \A u \in Threads \ {t} : step'[u] = step[u] /\ req'[u] = req[u] /\ out'[u] = out[u]
<1>1. /\ step \in [Threads -> CP!Stages]
      /\ req \in [Threads -> ConcRequests \cup SeqRequests \cup {None}]
      /\ out \in [Threads -> CP!Answers]
  BY DEF CP!TypeInv, CP!Types, CP!Threads, Threads
<1> USE <1>1 DEF Commands!Goto, Commands!Decide
<1>2. CASE \/ Commands!SeqCommand /\ t = MainThread
           \/ Commands!ConcCommand(t)
           \/ Commands!Finish(t)
  BY <1>2 DEF Commands!SeqCommand, Commands!ConcCommand, Commands!Finish
<1>3. CASE Commands!BadArguments(t) \/ Commands!Lock(t) \/ Commands!Lookup(t) \/ Commands!OpenKey(t)
  BY <1>3 DEF Commands!BadArguments, Commands!Lock, Commands!Lookup, Commands!OpenKey
<1>4. CASE Commands!Create(t) \/ Commands!OpenFails(t)
  BY <1>4 DEF Commands!Create, Commands!OpenFails, Commands!CreateExists,
              Commands!CreateObject, Commands!Link
<1>5. CASE Commands!OpenObject(t) \/ Commands!Delete(t) \/ Commands!Apply(t)
  BY <1>5 DEF Commands!OpenObject, Commands!Delete, Commands!Destroy, Commands!Unlink,
              Commands!Apply
<1>6. QED
  BY <1>2, <1>3, <1>4, <1>5 DEF Commands!Execute

LEMMA ExecuteFrame ==
    ASSUME WorkInv, NEW t \in Threads, Execute(t)
    PROVE  /\ UNCHANGED <<events, queue_mutex, client, ctx, refs, argv, clientState, cur,
                          sender, command>>
           /\ \A u \in Threads \ {t} : /\ pc'[u] = pc[u] /\ step'[u] = step[u]
                                       /\ req'[u] = req[u] /\ out'[u] = out[u]
<1>1. pc \in [Threads -> QP!MainPC \cup QP!WorkerPC] /\ CP!TypeInv
  BY DEF WorkInv, QP!LockInv, QP!Types, QP!Threads, Threads
<1> USE DEF Queue!Goto, Queue!queueVars, queueVars, requestVars, commandVars
<1>2. CASE Begin(t)
  BY <1>1, <1>2, CommandFrame DEF Begin, At, Queue!eventVars
<1>3. CASE LockGil(t)
  BY <1>1, <1>3, CommandFrame DEF LockGil, At, Queue!eventVars, Commands!Execute
<1>4. CASE Compute(t)
  BY <1>1, <1>4, CommandFrame DEF Compute
<1>5. CASE ReplyLocked(t) \/ ReplyUnlocked(t)
  BY <1>1, <1>5 DEF ReplyLocked, ReplyUnlocked, At, SendReply
<1>6. CASE UnlockReplied(t) \/ Unlock(t)
  BY <1>1, <1>6, CommandFrame
  DEF UnlockReplied, Unlock, At, Queue!eventVars, Commands!Execute
<1>7. CASE Reply(t)
  BY <1>1, <1>7, CommandFrame DEF Reply, At, SendReply, Commands!Execute
<1>8. QED
  BY <1>2, <1>3, <1>4, <1>5, <1>6, <1>7 DEF Execute

\* Nothing but execute() moves a thread that is inside it.
LEMMA TransportFrame ==
    ASSUME WorkInv, Transport, NEW t \in Threads, pc[t] \in Inside
    PROVE  pc'[t] = pc[t] /\ cur'[t] = cur[t]
<1>1. /\ pc \in [Threads -> QP!MainPC \cup QP!WorkerPC]
      /\ cur \in [Threads -> Events \cup {None}]
  BY DEF WorkInv, QP!LockInv, QP!Types, QP!Threads, Threads
<1> USE <1>1 DEF Queue!Goto, Inside
<1>2. CASE Queue!Server \/ Queue!Enqueue \/ Queue!SeqReturn
  BY <1>2 DEF Queue!Server, Queue!Wake, Queue!Sleep, Queue!HandleUnblocked, Queue!Disconnect,
     Queue!Enqueue, Queue!EnqueueLock, Queue!EnqueuePush, Queue!EnqueueUnlock,
     Queue!DropTemporary, Queue!SeqReturn
<1>3. ASSUME NEW w \in Workers, Queue!Dequeue(w) PROVE pc'[t] = pc[t] /\ cur'[t] = cur[t]
  BY <1>3
  DEF Queue!Dequeue, Queue!DequeueLock, Queue!DequeuePop, Queue!DequeueEmpty,
      Queue!DequeueUnlock
<1>4. ASSUME NEW u \in Threads, Queue!Drop(u) PROVE pc'[t] = pc[t] /\ cur'[t] = cur[t]
  BY <1>4 DEF Queue!Drop, Queue!DropLast, Queue!DropShared, Queue!FreeContext, Queue!Unblock
<1>5. QED
  BY <1>2, <1>3, <1>4 DEF Transport

\* The event loop does nothing else in the middle of a DEL.
LEMMA TransportWaits ==
    ASSUME WorkInv, Transport, step[MainThread] = "del"
    PROVE  pc'[MainThread] = "serve"
<1>1. /\ pc \in [Threads -> QP!MainPC \cup QP!WorkerPC] /\ MainThread \in Threads
      /\ pc[MainThread] = "serve"
  BY DEF WorkInv, QP!LockInv, QP!Types, QP!Threads, Threads, Working
<1> USE <1>1, ThreadsAssumption DEF Queue!Goto
<1>2. CASE Queue!Enqueue \/ Queue!SeqReturn
  BY <1>2 DEF Queue!Enqueue, Queue!EnqueueLock, Queue!EnqueuePush, Queue!EnqueueUnlock,
     Queue!DropTemporary, Queue!SeqReturn
<1>3. ASSUME NEW w \in Workers, Queue!Dequeue(w) PROVE pc'[MainThread] = "serve"
  BY <1>3
  DEF Queue!Dequeue, Queue!DequeueLock, Queue!DequeuePop, Queue!DequeueEmpty,
      Queue!DequeueUnlock
<1>4. ASSUME NEW u \in Threads, Queue!Drop(u) PROVE pc'[MainThread] = "serve"
  BY <1>4 DEF Queue!Drop, Queue!DropLast, Queue!DropShared, Queue!FreeContext, Queue!Unblock
<1>5. QED
  BY <1>2, <1>3, <1>4 DEF Transport, Idle

\* A step of a command before its answer is sent off.
LEMMA ComputeFrame ==
    ASSUME NEW t \in Threads, WorkInv, Commands!Execute(t), step'[t] # "idle"
    PROVE  step[t] \notin {"idle", "del", "finish"} /\ step'[t] # "del" /\ UNCHANGED req
<1>1. step \in [Threads -> CP!Stages]
  BY DEF WorkInv, CP!TypeInv, CP!Types, CP!Threads, Threads
<1>2. ~Commands!Finish(t)
  BY <1>1 DEF Commands!Finish, Commands!Goto
<1> USE <1>1 DEF Commands!Goto
<1>3. CASE Commands!BadArguments(t) \/ Commands!Lock(t) \/ Commands!Lookup(t) \/ Commands!OpenKey(t)
  BY <1>3 DEF Commands!BadArguments, Commands!Lock, Commands!Lookup, Commands!OpenKey
<1>4. CASE Commands!Create(t) \/ Commands!OpenFails(t)
  BY <1>4 DEF Commands!Create, Commands!OpenFails, Commands!CreateExists,
              Commands!CreateObject, Commands!Link
<1>5. CASE Commands!OpenObject(t) \/ Commands!Delete(t) \/ Commands!Apply(t)
  BY <1>5 DEF Commands!OpenObject, Commands!Delete, Commands!Destroy, Commands!Unlink,
              Commands!Apply
<1>6. QED
  BY <1>2, <1>3, <1>4, <1>5 DEF Commands!Execute

LEMMA WorkingStep == WorkInv /\ [Next]_vars => Working'
<1> SUFFICES ASSUME WorkInv, [Next]_vars PROVE Working'
  OBVIOUS
<1> USE DEF Working
<1>0. /\ step \in [Threads -> CP!Stages] /\ pc \in [Threads -> QP!MainPC \cup QP!WorkerPC]
      /\ Working /\ MainThread \in Threads
  BY DEF WorkInv, QP!LockInv, QP!Types, CP!TypeInv, CP!Types, CP!Threads, QP!Threads, Threads
<1>1. ASSUME NEW c \in Clients, NEW e \in Events, ConcHandler(c, e) \/ SeqHandler(c, e)
      PROVE  Working'
  BY <1>0, <1>1 DEF ConcHandler, SeqHandler, Send, commandVars, Queue!ConcHandler,
     Queue!SeqHandler, Queue!Goto, Inside, Idle
<1>2. ASSUME DelEnter \/ \E k \in DelKeys : Del(k) PROVE Working'
  BY <1>0, <1>2
  DEF DelEnter, Del, queueVars, Commands!DelEnter, Commands!Del, Commands!Goto, Inside
<1>3. CASE Transport
  BY <1>0, <1>3, TransportFrame, TransportWaits DEF Transport, commandVars
<1>4. ASSUME NEW t \in Threads, Execute(t) PROVE Working'
  <2>1. step'[t] # "del" /\ (step'[t] # "idle" => pc'[t] \in Inside)
    <3> USE <1>0 DEF Inside, Commands!Goto
    <3>1. CASE Begin(t)
      BY <3>1 DEF Begin, At, Commands!SeqCommand, Commands!ConcCommand
    <3>2. CASE LockGil(t)
      BY <3>2 DEF LockGil, At, Commands!Lock
    <3>3. CASE Compute(t)
      BY <3>3, ComputeFrame DEF Compute, queueVars
    <3>4. CASE ReplyLocked(t) \/ ReplyUnlocked(t)
      BY <3>4 DEF ReplyLocked, ReplyUnlocked, At, SendReply, commandVars
    <3>5. CASE UnlockReplied(t) \/ Unlock(t) \/ Reply(t)
      BY <3>5 DEF UnlockReplied, Unlock, Reply, At, Commands!Finish
    <3>6. QED
      BY <1>4, <3>1, <3>2, <3>3, <3>4, <3>5 DEF Execute
  <2>2. QED
    <3>1. \A u \in Threads \ {t} : pc'[u] = pc[u] /\ step'[u] = step[u]
      BY <1>4, ExecuteFrame
    <3>2. QED
      BY <1>0, <2>1, <3>1
<1>5. CASE UNCHANGED vars
  BY <1>0, <1>5 DEF vars, queueVars, commandVars
<1>6. QED
  BY <1>1, <1>2, <1>3, <1>4, <1>5 DEF Next

LEMMA WorkInvStep == WorkInv /\ [Next]_vars => WorkInv'
<1> SUFFICES ASSUME WorkInv, [Next]_vars PROVE WorkInv'
  OBVIOUS
<1>1. QP!LockInv'
  BY QueueStep, QP!LockInvStep, PoolFinite, NoneAssumption, ThreadsAssumption DEF WorkInv
<1>2. CP!TypeInv'
  BY CommandStep, CP!TypeInvStep, CommandAssumptions, ThreadsAssumption DEF WorkInv
<1>3. QED
  BY <1>1, <1>2, WorkingStep DEF WorkInv

LEMMA WorkInvariant == Spec => []WorkInv
BY WorkInvInit, WorkInvStep, PTL DEF Spec

\* A command begins when the queue hands its event to a thread and ends with its
\* reply; handlers, queue and event loop do nothing to the keyspace, and the lock
\* they pass around is the one the commands take: whatever is shown about
\* SkipListCommands holds of the server.
THEOREM ImplementsCommandsTheorem == Spec => ImplementsCommands
<1>1. Init => Commands!Init
  BY DEF Init, Commands!Init, KeyspaceLock, Queue!Init, Threads, Commands!Threads
<1>2. WorkInv /\ [Next]_vars => [Commands!Next]_(Commands!vars)
  BY CommandStep, SameCommands
<1>3. QED
  BY <1>1, <1>2, WorkInvariant, PTL DEF Spec, ImplementsCommands, Commands!Spec
-----------------------------------------------------------------------------
(* What is known of the commands that clients have sent, and of the        *)
(* answers.                                                                *)

AllRequests == ConcRequests \cup SeqRequests

Ledger ==
    /\ sender \in [Events -> Clients \cup {None}]
    /\ command \in [Events -> AllRequests \cup {None}]
    /\ answer \in [Events -> CP!Answers]

\* An event stands for a command of the client it blocks; a client that may
\* send has no command outstanding, and none ever has two.
Requested ==
    /\ \A e \in Events : ctx[e] # "none" => sender[e] \in Clients /\ command[e] \in AllRequests
    /\ \A e \in Events : ctx[e] \in {"open", "freed"} => client[e] = sender[e]
    /\ \A e \in Events : ctx[e] = "none" => argv[e] = "none"
    /\ \A e \in Events : Outstanding(e) /\ ctx[e] = "command" => cur[MainThread] = e
    /\ \A e \in Events : Outstanding(e) /\ ctx[e] \in {"open", "freed"} =>
            clientState[sender[e]] # "ready"
    /\ \A e, f \in Events : e # f /\ Outstanding(e) /\ Outstanding(f) => sender[e] # sender[f]

\* A command that no thread has started on has no answer.
Undecided ==
    /\ \A e \in Events : ctx[e] = "none" \/ QP!Queued(e) => answer[e] = "none"
    /\ \A w \in Workers : pc[w] \in {"popped", "exec"} /\ cur[w] # None => answer[cur[w]] = "none"
    /\ pc[MainThread] \in {"new", "push", "exec"} => answer[cur[MainThread]] = "none"

\* A thread works on the command of its event, and the answer is what it found.
AtWork ==
    \A t \in Threads :
        /\ step[t] \notin {"idle", "del"} => answer[cur[t]] = out[t] /\ command[cur[t]] = req[t]
        /\ pc[t] = "wantgil" => step[t] = "args"
        /\ pc[t] = "locked" => step[t] \notin {"idle", "del"}
        /\ pc[t] = "lockedReplied" => step[t] = "finish"
        /\ pc[t] = "body" /\ step[t] = "idle" => answer[cur[t]] # "none"

\* A reply is written when there is an answer.
Replied ==
    /\ \A e \in Events : replies[e] # 0 => answer[e] # "none"
    /\ pc[MainThread] = "done" /\ ctx[cur[MainThread]] = "command" =>
            answer[cur[MainThread]] # "none"

Transported == WorkInv /\ QP!RefInv /\ QP!ClientInv /\ QP!ArgInv

ServerInv == Transported /\ Ledger /\ Requested /\ Undecided /\ AtWork /\ Replied

-----------------------------------------------------------------------------
LEMMA TransportedInvariant == Spec => []Transported
<1>1. Init => QP!RefInv /\ QP!ClientInv /\ QP!ArgInv
  BY SameQueue, QP!RefInvInit, QP!ClientInvInit, QP!ArgInvInit, PoolFinite, NoneAssumption,
     ThreadsAssumption
  DEF Init
<1>2. QP!LockInv /\ QP!RefInv /\ [QP!Next]_(QP!vars) => QP!RefInv'
  BY QP!RefInvStep, PoolFinite, NoneAssumption, ThreadsAssumption
<1>3. QP!LockInv /\ QP!RefInv /\ QP!ClientInv /\ [QP!Next]_(QP!vars) => QP!ClientInv'
  BY QP!BlockingStep, QP!AnsweringStep, PoolFinite, NoneAssumption, ThreadsAssumption
  DEF QP!ClientInv
<1>4. QP!LockInv /\ QP!ClientInv /\ QP!ArgInv /\ [QP!Next]_(QP!vars) => QP!ArgInv'
  BY QP!ArgInvStep, PoolFinite, NoneAssumption, ThreadsAssumption DEF QP!ClientInv
<1>5. WorkInv => QP!LockInv
  BY DEF WorkInv
<1>6. QED
  BY <1>1, <1>2, <1>3, <1>4, <1>5, QueueStep, WorkInvariant, PTL DEF Spec, Transported

\* What the queue's invariants say about the types of its variables.
LEMMA QueueTypes ==
    ASSUME WorkInv
    PROVE  /\ client \in [Events -> Clients \cup {None}]
           /\ ctx \in [Events -> {"none", "command", "open", "freed"}]
           /\ replies \in [Events -> Nat]
           /\ argv \in [Events -> {"none", "held", "lost", "released"}]
           /\ clientState \in [Clients -> {"ready", "blocked", "unblocking"}]
           /\ pc \in [Threads -> QP!MainPC \cup QP!WorkerPC]
           /\ cur \in [Threads -> Events \cup {None}]
           /\ MainThread \in Threads
BY DEF WorkInv, QP!LockInv, QP!Types, QP!Threads, Threads

LEMMA CommandTypes ==
    ASSUME WorkInv
    PROVE  /\ step \in [Threads -> CP!Stages]
           /\ req \in [Threads -> AllRequests \cup {None}]
           /\ out \in [Threads -> CP!Answers]
           /\ \A t \in Threads : out[t] # "none" <=> step[t] = "finish"
BY DEF WorkInv, CP!TypeInv, CP!Types, CP!Hands, CP!Threads, Threads, AllRequests

\* Between two events of its own the main thread has none.
LEMMA Serving ==
    ASSUME WorkInv, pc[MainThread] = "serve"
    PROVE  cur[MainThread] = None
BY DEF WorkInv, QP!LockInv, QP!Places, QP!Busy, QP!Using, QP!Executing, QP!Handling, QP!Threads

\* A client that may send has nothing outstanding.
LEMMA NothingOutstanding ==
    ASSUME ServerInv, pc[MainThread] = "serve", NEW c \in Clients, clientState[c] = "ready",
           NEW e \in Events, sender[e] = c
    PROVE  ~Outstanding(e)
<1>1. cur[MainThread] = None /\ e # None
  BY Serving, NoneAssumption DEF ServerInv, Transported
<1>2. ctx[e] \in {"none", "command", "open", "freed"}
  BY QueueTypes DEF ServerInv, Transported
<1>3. QED
  BY <1>1, <1>2 DEF ServerInv, Requested, Outstanding

LEMMA RequestedKept ==
    ASSUME Requested, UNCHANGED <<client, ctx, argv, clientState, sender, command>>,
           cur'[MainThread] = cur[MainThread]
    PROVE  Requested'
BY DEF Requested, Outstanding

LEMMA SendRequests ==
    ASSUME ServerInv, NEW c \in Clients, NEW e \in Events, ConcHandler(c, e) \/ SeqHandler(c, e)
    PROVE  Ledger' /\ Requested'
<1>1. PICK r \in AllRequests : /\ sender' = [sender EXCEPT ![e] = c]
                               /\ command' = [command EXCEPT ![e] = r]
                               /\ answer' = answer
  BY DEF ConcHandler, SeqHandler, Send, AllRequests
<1>2. /\ clientState[c] = "ready" /\ pc[MainThread] = "serve" /\ ctx[e] = "none"
      /\ argv' = [argv EXCEPT ![e] = "held"]
      /\ cur' = [cur EXCEPT ![MainThread] = e]
      /\ \/ /\ ctx' = [ctx EXCEPT ![e] = "command"] /\ UNCHANGED <<client, clientState>>
         \/ /\ client' = [client EXCEPT ![e] = c] /\ ctx' = [ctx EXCEPT ![e] = "open"]
            /\ clientState' = [clientState EXCEPT ![c] = "blocked"]
  BY DEF ConcHandler, SeqHandler, Queue!ConcHandler, Queue!SeqHandler, Queue!Construct, Queue!Goto
<1>3. \A f \in Events : f # e => ~(Outstanding(f) /\ ctx[f] = "command")
  BY <1>2, Serving, NoneAssumption DEF ServerInv, Transported, Requested
<1>4. \A f \in Events : sender[f] = c => ~Outstanding(f)
  BY <1>2, NothingOutstanding
<1> USE QueueTypes DEF ServerInv, Transported, Ledger
<1>5. Ledger'
  BY <1>1
<1>6. \A f \in Events \ {e} : /\ ctx'[f] = ctx[f] /\ argv'[f] = argv[f] /\ client'[f] = client[f]
                              /\ sender'[f] = sender[f] /\ command'[f] = command[f]
                              /\ Outstanding(f)' <=> Outstanding(f)
  BY <1>1, <1>2 DEF Outstanding
<1>7. /\ ctx'[e] \in {"command", "open"} /\ sender'[e] = c /\ command'[e] = r
      /\ ctx'[e] = "open" => client'[e] = c /\ clientState'[c] = "blocked"
      /\ cur'[MainThread] = e
      /\ \A d \in Clients \ {c} : clientState'[d] = clientState[d]
  BY <1>1, <1>2
<1>8. \A f \in Events \ {e} : Outstanding(f)' => sender'[f] # c
  BY <1>4, <1>6
<1>9. \A f \in Events : Outstanding(f)' /\ ctx'[f] \in {"open", "freed"} =>
            clientState'[sender'[f]] # "ready"
  BY <1>6, <1>7, <1>8 DEF Requested
<1>10. \A f \in Events : Outstanding(f)' /\ ctx'[f] = "command" => cur'[MainThread] = f
  BY <1>3, <1>6, <1>7
<1>11. \A f, g \in Events : f # g /\ Outstanding(f)' /\ Outstanding(g)' => sender'[f] # sender'[g]
  BY <1>6, <1>7, <1>8 DEF Requested
<1>12. \A f \in Events : ctx'[f] # "none" => sender'[f] \in Clients /\ command'[f] \in AllRequests
  BY <1>6, <1>7 DEF Requested
<1>13. \A f \in Events : /\ ctx'[f] \in {"open", "freed"} => client'[f] = sender'[f]
                         /\ ctx'[f] = "none" => argv'[f] = "none"
  BY <1>6, <1>7 DEF Requested
<1>14. QED
  BY <1>5, <1>9, <1>10, <1>11, <1>12, <1>13 DEF Requested

LEMMA TransportRequests == ServerInv /\ Transport => Requested'
<1> SUFFICES ASSUME ServerInv, Transport PROVE Requested'
  OBVIOUS
<1>0. UNCHANGED <<sender, command>> /\ Requested
  BY DEF Transport, requestVars, ServerInv
<1> USE QueueTypes, ThreadsAssumption
    DEF ServerInv, Transported, Queue!Goto, Queue!queueVars, Queue!eventVars, Threads
<1>1. CASE Queue!Wake \/ Queue!Sleep \/ Queue!Enqueue
  BY <1>0, <1>1, RequestedKept DEF Queue!Wake, Queue!Sleep, Queue!Enqueue, Queue!EnqueueLock,
     Queue!EnqueuePush, Queue!EnqueueUnlock, Queue!DropTemporary
<1>2. ASSUME NEW c \in Clients, Queue!HandleUnblocked(c) PROVE Requested'
  <2>1. /\ argv' = [e \in Events |-> IF client[e] = c THEN "released" ELSE argv[e]]
        /\ clientState' = [clientState EXCEPT ![c] = "ready"]
        /\ UNCHANGED <<client, ctx, cur>>
    BY <1>2 DEF Queue!HandleUnblocked
  <2>2. \A e \in Events : Outstanding(e)' => Outstanding(e) /\ client[e] # c
    BY <2>1 DEF Outstanding
  <2>3. \A e \in Events : ctx[e] = "none" => client[e] = None
    BY DEF QP!ClientInv, QP!Blocking
  <2>4. \A e \in Events : ctx'[e] = "none" => argv'[e] = "none"
    BY <2>1, <2>3, NoneAssumption DEF Requested
  <2>5. QED
    BY <1>0, <2>1, <2>2, <2>4 DEF Requested
<1>3. ASSUME NEW c \in Clients, Queue!Disconnect(c) PROVE Requested'
  <2>1. PICK d \in Events : argv[d] = "held" /\ argv' = [argv EXCEPT ![d] = "lost"]
    BY <1>3 DEF Queue!Disconnect
  <2>2. UNCHANGED <<client, ctx, cur, clientState>>
    BY <1>3 DEF Queue!Disconnect
  <2>3. \A e \in Events : Outstanding(e)' <=> Outstanding(e)
    BY <2>1 DEF Outstanding
  <2>4. \A e \in Events : argv[e] = "none" => argv'[e] = "none"
    BY <2>1
  <2>5. QED
    BY <1>0, <2>2, <2>3, <2>4 DEF Requested
<1>4. CASE Queue!SeqReturn
  <2>1. /\ argv' = [argv EXCEPT ![cur[MainThread]] = "released"]
        /\ UNCHANGED <<client, ctx, clientState>> /\ ctx[cur[MainThread]] = "command"
    BY <1>4 DEF Queue!SeqReturn, Queue!ThreadSafe
  <2>2. \A e \in Events : Outstanding(e)' => Outstanding(e) /\ e # cur[MainThread]
    BY <2>1 DEF Outstanding
  <2>3. \A e \in Events : ctx[e] = "none" => argv'[e] = argv[e]
    BY <2>1
  <2>4. QED
    BY <1>0, <2>1, <2>2, <2>3 DEF Requested
<1>5. ASSUME NEW w \in Workers, Queue!Dequeue(w) PROVE Requested'
  BY <1>0, <1>5, RequestedKept DEF Queue!Dequeue, Queue!DequeueLock, Queue!DequeuePop,
     Queue!DequeueEmpty, Queue!DequeueUnlock
<1>6. ASSUME NEW t \in Threads, Queue!Drop(t) PROVE Requested'
  <2>1. ctx[cur[t]] # "command" /\ cur[t] \in Events
    <3>1. /\ pc[t] \in {"done", "dtor", "unblock"}
          /\ pc[t] = "done" => ctx[cur[t]] # "command"
      BY <1>6 DEF Queue!Drop, Queue!DropLast, Queue!DropShared, Queue!FreeContext,
         Queue!Unblock, Queue!ThreadSafe
    <3>2. cur[t] \in Events
      BY <3>1 DEF WorkInv, QP!LockInv, QP!Places, QP!Busy, QP!Using, QP!Threads
    <3>3. pc[t] \in {"dtor", "unblock"} => ctx[cur[t]] \in {"open", "freed"}
      BY <3>2, NoneAssumption DEF WorkInv, QP!LockInv, QP!Kinds
    <3>4. QED
      BY <3>1, <3>2, <3>3
  <2>2. \A e \in Events : ctx[e] = "command" /\ cur[MainThread] = e => cur'[MainThread] = e
    BY <1>6, <2>1
    DEF Queue!Drop, Queue!DropLast, Queue!DropShared, Queue!FreeContext, Queue!Unblock
  <2>3. CASE Queue!DropLast(t) \/ Queue!DropShared(t)
    <3>1. UNCHANGED <<client, ctx, argv, clientState>>
      BY <2>3 DEF Queue!DropLast, Queue!DropShared
    <3>2. QED
      BY <1>0, <2>2, <3>1 DEF Requested, Outstanding
  <2>4. CASE Queue!FreeContext(t)
    <3>1. ctx' = [ctx EXCEPT ![cur[t]] = "freed"] /\ UNCHANGED <<client, argv, clientState, cur>>
      BY <2>4 DEF Queue!FreeContext
    <3>2. ctx[cur[t]] = "open"
      <4>1. pc[t] = "dtor"
        BY <2>4 DEF Queue!FreeContext
      <4>2. ctx[cur[t]] \in {"open", "freed"}
        BY <2>1, <4>1, NoneAssumption DEF WorkInv, QP!LockInv, QP!Kinds
      <4>3. ctx[cur[t]] # "freed"
        BY <2>1, <4>1 DEF QP!RefInv, QP!Freed, QP!Threads
      <4>4. QED
        BY <4>2, <4>3
    <3>3. QED
      BY <1>0, <2>1, <3>1, <3>2 DEF Requested, Outstanding
  <2>5. CASE Queue!Unblock(t)
    <3>1. /\ clientState' = [clientState EXCEPT ![client[cur[t]]] = "unblocking"]
          /\ UNCHANGED <<client, argv, ctx>>
      BY <2>5 DEF Queue!Unblock
    <3>2. \A c \in Clients : clientState'[c] = "ready" => clientState[c] = "ready"
      BY <3>1
    <3>3. QED
      BY <1>0, <2>2, <3>1, <3>2 DEF Requested, Outstanding
  <2>6. QED
    BY <1>6, <2>3, <2>4, <2>5 DEF Queue!Drop
<1>7. QED
  BY <1>1, <1>2, <1>3, <1>4, <1>5, <1>6 DEF Transport, Queue!Server

LEMMA RequestedStep == ServerInv /\ [Next]_vars => Requested'
<1> SUFFICES ASSUME ServerInv, [Next]_vars PROVE Requested'
  OBVIOUS
<1>1. ASSUME DelEnter \/ \E k \in DelKeys : Del(k) PROVE Requested'
  BY <1>1, RequestedKept DEF DelEnter, Del, queueVars, requestVars, ServerInv
<1>2. ASSUME NEW t \in Threads, Execute(t) PROVE Requested'
  BY <1>2, ExecuteFrame, RequestedKept DEF ServerInv, Transported
<1>3. CASE UNCHANGED vars
  BY <1>3, RequestedKept DEF vars, queueVars, requestVars, ServerInv
<1>4. QED
  BY <1>1, <1>2, <1>3, SendRequests, TransportRequests DEF Next

-----------------------------------------------------------------------------
(* The answers.                                                            *)

AnswerInv == Undecided /\ AtWork /\ Replied

\* The event a thread executes is its own.
LEMMA OwnEvent ==
    ASSUME Transported, NEW t \in Threads, pc[t] \in Inside \cup {"exec"}
    PROVE  /\ cur[t] \in Events /\ ctx[cur[t]] # "none" /\ ~QP!Queued(cur[t])
           /\ t = MainThread => ctx[cur[t]] = "command"
           /\ t # MainThread => ctx[cur[t]] \in {"open", "freed"}
           /\ \A w \in Workers \ {t} : cur[w] # cur[t]
           /\ t # MainThread /\ pc[MainThread] \in {"new", "push", "exec", "body"} =>
                    cur[MainThread] # cur[t]
<1>1. cur[t] \in Events
  BY DEF Transported, WorkInv, QP!LockInv, QP!Places, QP!Busy, QP!Using, QP!Executing,
         QP!Threads, Threads, Inside
<1>2. CASE t = MainThread
  <2>1. pc[t] \in {"exec", "body"}
    BY <1>2 DEF Transported, WorkInv, QP!LockInv, QP!Places, QP!MainPC, QP!Handling, Inside
  <2>2. ctx[cur[t]] = "command"
    BY <1>2, <2>1 DEF Transported, WorkInv, QP!LockInv, QP!Kinds
  <2>3. ~QP!Queued(cur[t]) /\ \A w \in Workers : cur[w] # cur[t]
    BY <1>1, <2>2, NoneAssumption DEF Transported, WorkInv, QP!LockInv, QP!Kinds, QP!Queued
  <2>4. QED
    BY <1>1, <1>2, <2>2, <2>3
<1>3. CASE t \in Workers
  <2>1. t # MainThread /\ cur[t] # None
    BY <1>1, <1>3, ThreadsAssumption, NoneAssumption
  <2>2. ctx[cur[t]] \in {"open", "freed"}
    BY <1>3, <2>1 DEF Transported, WorkInv, QP!LockInv, QP!Kinds
  <2>3. ~QP!Queued(cur[t]) /\ \A w \in Workers \ {t} : cur[w] # cur[t]
    BY <1>3, <2>1 DEF Transported, QP!RefInv, QP!Sharing
  <2>4. pc[MainThread] \in {"new", "push"} => cur[MainThread] # cur[t]
    BY <1>3 DEF Transported, QP!RefInv, QP!Sharing
  <2>5. pc[MainThread] \in {"exec", "body"} => cur[MainThread] # cur[t]
    BY <2>2 DEF Transported, WorkInv, QP!LockInv, QP!Kinds
  <2>6. QED
    BY <1>1, <2>1, <2>2, <2>3, <2>4, <2>5
<1>4. QED
  BY <1>2, <1>3 DEF Threads

\* Events move from the handler to the queue and from there to a worker, and
\* no thread gets into execute() or out of it on the way.
Moves ==
    /\ \A t \in Threads : pc[t] \in Inside \/ pc'[t] \in Inside =>
            pc'[t] = pc[t] /\ cur'[t] = cur[t]
    /\ \A w \in Workers : pc'[w] \in {"popped", "exec"} /\ cur'[w] # None =>
            \/ pc[w] \in {"popped", "exec"} /\ cur'[w] = cur[w]
            \/ cur'[w] \in Events /\ QP!Queued(cur'[w])
    /\ pc'[MainThread] \in {"new", "push", "exec"} =>
            pc[MainThread] \in {"new", "push", "exec"} /\ cur'[MainThread] = cur[MainThread]
    /\ pc'[MainThread] = "done" =>
            \/ pc[MainThread] = "done" /\ cur'[MainThread] = cur[MainThread]
            \/ ctx'[cur'[MainThread]] # "command"
    /\ \A e \in Events : QP!Queued(e)' =>
            QP!Queued(e) \/ (pc[MainThread] = "push" /\ cur[MainThread] = e)
    /\ \A e \in Events : /\ ctx'[e] = "none" => ctx[e] = "none"
                         /\ ctx'[e] = "command" => ctx[e] = "command"

\* Threads move, and nothing happens to the queue or to an event.
LEMMA QuietMoves ==
    ASSUME WorkInv, UNCHANGED <<events, ctx, cur>>, NEW t \in Threads,
           pc[t] \notin Inside, pc'[t] \notin Inside \cup {"exec", "popped"},
           pc'[t] \in {"new", "push"} => pc[t] \in {"new", "push"},
           pc'[t] = "done" => t = MainThread /\ ctx[cur[t]] # "command",
           \A u \in Threads \ {t} : pc'[u] = pc[u]
    PROVE  Moves
BY DEF Moves, Threads, QP!Queued

LEMMA TransportMoves ==
    ASSUME Transported, Transport
    PROVE  Moves
<1>1. WorkInv /\ QP!LockInv
  BY DEF Transported, WorkInv
<1> USE <1>1, QueueTypes, ThreadsAssumption DEF Queue!Goto, Queue!queueVars, Queue!eventVars
<1>2. CASE Queue!Wake \/ Queue!Sleep
  BY <1>2, QuietMoves DEF Queue!Wake, Queue!Sleep, Inside
<1>3. ASSUME NEW c \in Clients, Queue!HandleUnblocked(c) \/ Queue!Disconnect(c) PROVE Moves
  BY <1>3 DEF Queue!HandleUnblocked, Queue!Disconnect, Moves, QP!Queued
<1>4. CASE Queue!EnqueueLock \/ Queue!EnqueueUnlock
  BY <1>4, QuietMoves DEF Queue!EnqueueLock, Queue!EnqueueUnlock, Inside
<1>5. CASE Queue!DropTemporary
  <2>1. ctx[cur[MainThread]] # "command"
    BY <1>5 DEF Queue!DropTemporary, QP!LockInv, QP!Kinds, QP!Handling
  <2>2. QED
    BY <1>5, <2>1, QuietMoves DEF Queue!DropTemporary, Inside
<1>6. CASE Queue!EnqueuePush
  <2>1. /\ pc[MainThread] = "push" /\ pc' = [pc EXCEPT ![MainThread] = "pushed"]
        /\ events' = Append(events, cur[MainThread]) /\ UNCHANGED <<ctx, cur>>
    BY <1>6 DEF Queue!EnqueuePush
  <2>2. cur[MainThread] \in Events /\ events \in Seq(Events)
    BY <2>1 DEF QP!LockInv, QP!Types, QP!Places, QP!Busy, QP!Using, QP!Handling, QP!Threads
  <2>3. \A e \in Events : QP!Queued(e)' => QP!Queued(e) \/ e = cur[MainThread]
    BY <2>1, <2>2, QP!QueuedAfterPush, PoolFinite, NoneAssumption
  <2>4. QED
    BY <2>1, <2>3 DEF Moves, Inside, Threads
<1>7. CASE Queue!SeqReturn
  <2>1. /\ pc[MainThread] = "done" /\ pc' = [pc EXCEPT ![MainThread] = "serve"]
        /\ UNCHANGED <<events, ctx>>
        /\ cur' = [cur EXCEPT ![MainThread] = None]
    BY <1>7 DEF Queue!SeqReturn
  <2>2. QED
    BY <2>1 DEF Moves, Inside, QP!Queued, Threads
<1>8. ASSUME NEW w \in Workers, Queue!DequeueLock(w) PROVE Moves
  BY <1>8, QuietMoves DEF Queue!DequeueLock, Inside, Threads
<1>9. ASSUME NEW w \in Workers, Queue!DequeuePop(w) PROVE Moves
  <2>1. /\ events # <<>> /\ pc[w] = "pop" /\ pc' = [pc EXCEPT ![w] = "popped"]
        /\ events' = Tail(events) /\ cur' = [cur EXCEPT ![w] = Head(events)] /\ UNCHANGED ctx
    BY <1>9 DEF Queue!DequeuePop
  <2>2. events \in Seq(Events)
    BY DEF QP!LockInv, QP!Types
  <2>3. \A i, j \in 1..Len(events) : i # j => events[i] # events[j]
    BY DEF Transported, QP!RefInv, QP!Sharing
  <2>4. \A e \in Events : QP!Queued(e)' => QP!Queued(e)
    BY <2>1, <2>2, <2>3, QP!QueuedAfterPop, PoolFinite, NoneAssumption
  <2>5. Head(events) \in Events /\ QP!Queued(Head(events))
    BY <2>1, <2>2 DEF QP!Queued
  <2>6. QED
    BY <2>1, <2>4, <2>5 DEF Moves, Inside, Threads
<1>10. ASSUME NEW w \in Workers, Queue!DequeueEmpty(w) PROVE Moves
  <2>1. cur[w] = None
    BY <1>10 DEF Queue!DequeueEmpty, QP!LockInv, QP!Places, QP!Busy, QP!Using, QP!Executing,
       QP!Handling, QP!Threads
  <2>2. /\ pc[w] = "pop" /\ pc' = [pc EXCEPT ![w] = "popped"] /\ UNCHANGED <<events, ctx, cur>>
    BY <1>10 DEF Queue!DequeueEmpty
  <2>3. QED
    BY <2>1, <2>2 DEF Moves, Inside, QP!Queued, Threads
<1>11. ASSUME NEW w \in Workers, Queue!DequeueUnlock(w) PROVE Moves
  <2>1. /\ pc[w] = "popped" /\ pc' = [pc EXCEPT ![w] = IF cur[w] = None THEN "loop" ELSE "exec"]
        /\ UNCHANGED <<events, ctx, cur>>
    BY <1>11 DEF Queue!DequeueUnlock
  <2>2. QED
    BY <2>1 DEF Moves, Inside, QP!Queued, Threads
<1>12. ASSUME NEW t \in Threads, Queue!DropLast(t) \/ Queue!FreeContext(t) PROVE Moves
  <2>1. /\ pc' = [pc EXCEPT ![t] = pc'[t]] /\ pc'[t] \in {"dtor", "unblock"}
        /\ pc[t] \in {"done", "dtor"}
        /\ UNCHANGED <<events, cur>>
    BY <1>12 DEF Queue!DropLast, Queue!FreeContext
  <2>2. UNCHANGED ctx \/ ctx' = [ctx EXCEPT ![cur[t]] = "freed"]
    BY <1>12 DEF Queue!DropLast, Queue!FreeContext
  <2>3. \A e \in Events : ctx'[e] \in {"none", "command"} => ctx'[e] = ctx[e]
    BY <2>2
  <2>4. QED
    BY <2>1, <2>3 DEF Moves, Inside, QP!Queued, Threads
<1>13. ASSUME NEW t \in Threads, Queue!DropShared(t) \/ Queue!Unblock(t) PROVE Moves
  <2>1. /\ pc[t] \in {"done", "unblock"}
        /\ pc' = [pc EXCEPT ![t] = IF t = MainThread THEN "serve" ELSE "loop"]
        /\ cur' = [cur EXCEPT ![t] = None] /\ UNCHANGED <<events, ctx>>
    BY <1>13 DEF Queue!DropShared, Queue!Unblock, Queue!Home
  <2>2. QED
    BY <2>1 DEF Moves, Inside, QP!Queued, Threads
<1>14. QED
  BY <1>2, <1>3, <1>4, <1>5, <1>6, <1>7, <1>8, <1>9, <1>10, <1>11, <1>12, <1>13
  DEF Transport, Queue!Server, Queue!Enqueue, Queue!Dequeue, Queue!Drop

LEMMA MovesAnswers ==
    ASSUME ServerInv, Moves, UNCHANGED <<step, req, out, command, answer, replies>>
    PROVE  AnswerInv'
<1> USE QueueTypes DEF ServerInv, Transported
<1>1. \A e \in Events : ctx'[e] = "none" \/ QP!Queued(e)' => answer'[e] = "none"
  BY DEF Moves, Undecided
<1>2. \A w \in Workers : pc'[w] \in {"popped", "exec"} /\ cur'[w] # None => answer'[cur'[w]] = "none"
  BY DEF Moves, Undecided
<1>3. pc'[MainThread] \in {"new", "push", "exec"} => answer'[cur'[MainThread]] = "none"
  BY DEF Moves, Undecided
<1>4. ASSUME NEW t \in Threads
      PROVE  /\ step'[t] \notin {"idle", "del"} => answer'[cur'[t]] = out'[t] /\ command'[cur'[t]] = req'[t]
             /\ pc'[t] = "wantgil" => step'[t] = "args"
             /\ pc'[t] = "locked" => step'[t] \notin {"idle", "del"}
             /\ pc'[t] = "lockedReplied" => step'[t] = "finish"
             /\ pc'[t] = "body" /\ step'[t] = "idle" => answer'[cur'[t]] # "none"
  <2>1. CASE pc'[t] \in Inside
    BY <2>1 DEF Moves, AtWork
  <2>2. CASE pc'[t] \notin Inside
    <3>1. step'[t] \in {"idle", "del"}
      BY <2>2 DEF Moves, WorkInv, Working
    <3>2. QED
      BY <2>2, <3>1 DEF Inside
  <2>3. QED
    BY <2>1, <2>2
<1>5. Replied'
  <2>1. pc[MainThread] = "done" => cur[MainThread] \in Events
    BY DEF WorkInv, QP!LockInv, QP!Places, QP!Busy, QP!Using, QP!Threads
  <2>2. QED
    BY <2>1 DEF Moves, Replied
<1>6. QED
  BY <1>1, <1>2, <1>3, <1>4, <1>5 DEF AnswerInv, Undecided, AtWork

LEMMA SendAnswers ==
    ASSUME ServerInv, NEW c \in Clients, NEW e \in Events, ConcHandler(c, e) \/ SeqHandler(c, e)
    PROVE  AnswerInv'
<1>1. /\ \A f \in Events \ {e} : command'[f] = command[f]
      /\ UNCHANGED <<answer, step, req, out>>
  BY QueueTypes DEF ConcHandler, SeqHandler, Send, commandVars, ServerInv, Ledger
<1>2. /\ pc[MainThread] = "serve" /\ ctx[e] = "none"
      /\ UNCHANGED <<events, replies>> /\ cur' = [cur EXCEPT ![MainThread] = e]
      /\ \/ pc' = [pc EXCEPT ![MainThread] = "new"]
         \/ pc' = [pc EXCEPT ![MainThread] = "exec"]
      /\ \/ ctx' = [ctx EXCEPT ![e] = "command"]
         \/ ctx' = [ctx EXCEPT ![e] = "open"]
  BY DEF ConcHandler, SeqHandler, Queue!ConcHandler, Queue!SeqHandler, Queue!Construct,
     Queue!Goto, Queue!queueVars
<1>3. cur[MainThread] = None
  BY <1>2, Serving DEF ServerInv, Transported
<1>4. \A t \in Threads : cur[t] # e
  <2>1. QP!LockInv
    BY DEF ServerInv, Transported, WorkInv
  <2>2. \A t \in QP!Threads : cur[t] # e
    BY <1>2, <1>3, <2>1, QP!FreshEvent, PoolFinite, NoneAssumption, ThreadsAssumption
  <2>3. QED
    BY <2>2 DEF QP!Threads, Threads
<1> USE QueueTypes DEF ServerInv, Transported
<1>5. /\ \A t \in Threads \ {MainThread} : pc'[t] = pc[t] /\ cur'[t] = cur[t]
      /\ cur'[MainThread] = e /\ pc'[MainThread] \in {"new", "exec"}
      /\ \A f \in Events \ {e} : ctx'[f] = ctx[f]
      /\ ctx'[e] # "none"
  BY <1>2
<1>6. step[MainThread] = "idle"
  BY <1>2 DEF WorkInv, Working, Inside, ConcHandler, SeqHandler, Idle
<1>7. \A f \in Events : ctx'[f] = "none" \/ QP!Queued(f)' => answer'[f] = "none"
  BY <1>1, <1>2, <1>5 DEF Undecided, QP!Queued
<1>8. \A w \in Workers : pc'[w] \in {"popped", "exec"} /\ cur'[w] # None => answer'[cur'[w]] = "none"
  BY <1>1, <1>5, ThreadsAssumption DEF Undecided, Threads
<1>9. answer'[e] = "none"
  BY <1>1, <1>2 DEF Undecided
<1>10. ASSUME NEW t \in Threads
      PROVE  /\ step'[t] \notin {"idle", "del"} => answer'[cur'[t]] = out'[t] /\ command'[cur'[t]] = req'[t]
             /\ pc'[t] = "wantgil" => step'[t] = "args"
             /\ pc'[t] = "locked" => step'[t] \notin {"idle", "del"}
             /\ pc'[t] = "lockedReplied" => step'[t] = "finish"
             /\ pc'[t] = "body" /\ step'[t] = "idle" => answer'[cur'[t]] # "none"
  <2>1. CASE t = MainThread
    BY <1>1, <1>5, <1>6, <2>1
  <2>2. CASE t # MainThread /\ step[t] \notin {"idle", "del"}
    <3>1. pc[t] \in Inside
      BY <2>2 DEF WorkInv, Working
    <3>2. cur[t] \in Events \ {e}
      BY <3>1, <1>4, OwnEvent
    <3>3. QED
      BY <1>1, <1>5, <2>2, <3>2 DEF AtWork
  <2>3. CASE t # MainThread /\ step[t] \in {"idle", "del"}
    BY <1>1, <1>5, <2>3 DEF AtWork
  <2>4. QED
    BY <2>1, <2>2, <2>3
<1>11. Replied'
  BY <1>1, <1>2, <1>5 DEF Replied
<1>12. QED
  BY <1>5, <1>7, <1>8, <1>9, <1>10, <1>11 DEF AnswerInv, Undecided, AtWork

\* What a step of execute() does to the thread and its event.
Executes(t) ==
    /\ \A e \in Events \ {cur[t]} : answer'[e] = answer[e] /\ replies'[e] = replies[e]
    /\ answer' \in [Events -> CP!Answers]
    /\ pc'[t] \in Inside \cup {"done"}
    /\ step'[t] \notin {"idle", "del"} => answer'[cur[t]] = out'[t] /\ command[cur[t]] = req'[t]
    /\ pc'[t] = "wantgil" => step'[t] = "args"
    /\ pc'[t] = "locked" => step'[t] \notin {"idle", "del"}
    /\ pc'[t] = "lockedReplied" => step'[t] = "finish"
    /\ pc'[t] = "body" /\ step'[t] = "idle" => answer'[cur[t]] # "none"
    /\ pc'[t] = "done" => answer'[cur[t]] # "none"
    /\ replies'[cur[t]] # 0 => answer'[cur[t]] # "none"

LEMMA ExecuteExecutes ==
    ASSUME ServerInv, WorkInv', NEW t \in Threads, Execute(t)
    PROVE  Executes(t)
<1>1. /\ pc \in [Threads -> QP!MainPC \cup QP!WorkerPC] /\ replies \in [Events -> Nat]
      /\ answer \in [Events -> CP!Answers]
      /\ step \in [Threads -> CP!Stages] /\ out \in [Threads -> CP!Answers]
      /\ out[t] # "none" <=> step[t] = "finish"
  BY QueueTypes, CommandTypes DEF ServerInv, Transported, Ledger
<1>2. /\ out' \in [Threads -> CP!Answers] /\ step' \in [Threads -> CP!Stages]
      /\ out'[t] # "none" <=> step'[t] = "finish"
  BY DEF WorkInv, CP!TypeInv, CP!Types, CP!Hands, CP!Threads, Threads
<1>3. /\ step[t] \notin {"idle", "del"} => answer[cur[t]] = out[t] /\ command[cur[t]] = req[t]
      /\ pc[t] = "wantgil" => step[t] = "args"
      /\ pc[t] = "locked" => step[t] \notin {"idle", "del"}
      /\ pc[t] = "lockedReplied" => step[t] = "finish"
      /\ pc[t] = "body" /\ step[t] = "idle" => answer[cur[t]] # "none"
      /\ step[t] \notin {"idle", "del"} => pc[t] \in Inside
  BY DEF ServerInv, AtWork, Transported, WorkInv, Working
<1>4. ASSUME pc[t] \in Inside \cup {"exec"} PROVE cur[t] \in Events
  BY <1>4, OwnEvent DEF ServerInv
<1>5. cur[t] \in Events => (replies[cur[t]] # 0 => answer[cur[t]] # "none")
  BY DEF ServerInv, Replied
<1> USE DEF Executes, Inside, Queue!Goto, requestVars, queueVars, Queue!queueVars,
            Queue!eventVars
<1>6. CASE Begin(t)
  <2>1. /\ pc[t] = "exec" /\ \/ pc' = [pc EXCEPT ![t] = "body"]
                             \/ pc' = [pc EXCEPT ![t] = "wantgil"]
        /\ UNCHANGED <<replies, answer>> /\ req'[t] = command[cur[t]]
    BY <1>6 DEF Begin, At
  <2>2. step' = [step EXCEPT ![t] = "args"]
    BY <1>6 DEF Begin, Commands!SeqCommand, Commands!ConcCommand, Commands!Goto
  <2>3. answer[cur[t]] = "none"
    <3>1. cur[t] \in Events
      BY <1>4, <2>1
    <3>2. QED
      BY <2>1, <3>1, NoneAssumption DEF ServerInv, Undecided, Threads
  <2>4. out'[t] = "none"
    BY <1>1, <1>2, <2>2
  <2>5. QED
    BY <1>1, <1>4, <1>5, <2>1, <2>2, <2>3, <2>4
<1>7. CASE LockGil(t)
  <2>1. /\ pc[t] = "wantgil" /\ pc' = [pc EXCEPT ![t] = "locked"] /\ UNCHANGED <<replies, answer>>
    BY <1>7 DEF LockGil, At
  <2>2. step' = [step EXCEPT ![t] = "open"] /\ UNCHANGED <<req, out>>
    BY <1>7 DEF LockGil, Commands!Lock, Commands!Goto
  <2>3. QED
    BY <1>1, <1>3, <1>4, <1>5, <2>1, <2>2
<1>8. CASE Compute(t)
  <2>1. /\ pc[t] \in {"body", "locked"} /\ UNCHANGED <<pc, replies>> /\ step'[t] # "idle"
        /\ answer' = [answer EXCEPT ![cur[t]] = out'[t]]
    BY <1>8 DEF Compute
  <2>2. step[t] \notin {"idle", "del", "finish"} /\ step'[t] # "del" /\ UNCHANGED req
    BY <1>8, ComputeFrame DEF Compute, ServerInv, Transported
  <2>3. cur[t] \in Events /\ answer[cur[t]] = "none" /\ replies[cur[t]] = 0
    BY <1>1, <1>3, <1>4, <1>5, <2>1, <2>2
  <2>4. QED
    BY <1>1, <1>2, <1>3, <2>1, <2>2, <2>3
<1>9. CASE ReplyLocked(t) \/ ReplyUnlocked(t)
  <2>1. /\ \/ pc[t] = "locked" /\ step[t] = "finish" /\ pc' = [pc EXCEPT ![t] = "lockedReplied"]
           \/ pc[t] = "body" /\ step[t] = "idle" /\ pc' = [pc EXCEPT ![t] = "done"]
        /\ replies' = [replies EXCEPT ![cur[t]] = @ + 1]
        /\ UNCHANGED <<step, req, out, answer>>
    BY <1>9 DEF ReplyLocked, ReplyUnlocked, At, SendReply, commandVars
  <2>2. QED
    BY <1>1, <1>3, <1>4, <2>1
<1>10. CASE UnlockReplied(t) \/ Unlock(t)
  <2>1. /\ \/ pc[t] = "lockedReplied" /\ pc' = [pc EXCEPT ![t] = "done"]
           \/ pc[t] = "locked" /\ pc' = [pc EXCEPT ![t] = "body"]
        /\ UNCHANGED <<replies, answer>>
    BY <1>10 DEF UnlockReplied, Unlock, At
  <2>2. step[t] = "finish" /\ step' = [step EXCEPT ![t] = "idle"]
    BY <1>10 DEF UnlockReplied, Unlock, Commands!Finish, Commands!Goto
  <2>3. QED
    BY <1>1, <1>3, <1>4, <1>5, <2>1, <2>2
<1>11. CASE Reply(t)
  <2>1. /\ pc[t] = "body" /\ pc' = [pc EXCEPT ![t] = "done"]
        /\ replies' = [replies EXCEPT ![cur[t]] = @ + 1] /\ UNCHANGED answer
    BY <1>11 DEF Reply, At, SendReply
  <2>2. step[t] = "finish" /\ step' = [step EXCEPT ![t] = "idle"]
    BY <1>11 DEF Reply, Commands!Finish, Commands!Goto
  <2>3. QED
    BY <1>1, <1>3, <1>4, <2>1, <2>2
<1>12. QED
  BY <1>6, <1>7, <1>8, <1>9, <1>10, <1>11 DEF Execute

LEMMA ExecuteAnswers ==
    ASSUME ServerInv, WorkInv', NEW t \in Threads, Execute(t)
    PROVE  AnswerInv'
<1>1. Executes(t)
  BY ExecuteExecutes
<1>2. /\ UNCHANGED <<events, ctx, cur, command>>
      /\ \A u \in Threads \ {t} : /\ pc'[u] = pc[u] /\ step'[u] = step[u]
                                  /\ req'[u] = req[u] /\ out'[u] = out[u]
  BY ExecuteFrame DEF ServerInv, Transported
<1>3. pc[t] \in Inside \cup {"exec"}
  BY DEF Execute, Begin, LockGil, Compute, ReplyLocked, UnlockReplied, Unlock, ReplyUnlocked,
         Reply, At, Queue!Goto, Inside
<1>4. /\ cur[t] \in Events /\ ctx[cur[t]] # "none" /\ ~QP!Queued(cur[t])
      /\ t # MainThread => ctx[cur[t]] # "command"
      /\ \A w \in Workers \ {t} : cur[w] # cur[t]
      /\ t # MainThread /\ pc[MainThread] \in {"new", "push", "exec", "body"} =>
                cur[MainThread] # cur[t]
  BY <1>3, OwnEvent DEF ServerInv
<1>5. cur \in [Threads -> Events \cup {None}] /\ MainThread \in Threads
  BY QueueTypes DEF ServerInv, Transported
<1>6. \A e \in Events : ctx'[e] = "none" \/ QP!Queued(e)' => answer'[e] = "none"
  BY <1>1, <1>2, <1>4 DEF Executes, ServerInv, Undecided, QP!Queued
<1>7. ASSUME NEW w \in Workers, pc'[w] \in {"popped", "exec"}, cur'[w] # None
      PROVE  answer'[cur'[w]] = "none"
  <2>1. w # t
    BY <1>1, <1>7 DEF Executes, Inside
  <2>2. pc[w] = pc'[w] /\ cur[w] \in Events \ {cur[t]}
    BY <1>2, <1>4, <1>5, <1>7, <2>1 DEF Threads
  <2>3. QED
    BY <1>1, <1>2, <1>7, <2>2 DEF Executes, ServerInv, Undecided
<1>8. ASSUME pc'[MainThread] \in {"new", "push", "exec"}
      PROVE  answer'[cur'[MainThread]] = "none"
  <2>1. MainThread # t
    BY <1>1, <1>8 DEF Executes, Inside
  <2>2. pc[MainThread] = pc'[MainThread]
    BY <1>2, <1>5, <2>1
  <2>3. cur[MainThread] # cur[t]
    BY <1>4, <1>8, <2>1, <2>2
  <2>4. cur[MainThread] \in Events
    BY <1>8, <2>2 DEF ServerInv, Transported, WorkInv, QP!LockInv, QP!Places, QP!Busy, QP!Using,
       QP!Executing, QP!Handling, QP!Threads
  <2>5. QED
    BY <1>1, <1>2, <1>8, <2>2, <2>3, <2>4 DEF Executes, ServerInv, Undecided
<1>9. ASSUME NEW u \in Threads
      PROVE  /\ step'[u] \notin {"idle", "del"} => answer'[cur'[u]] = out'[u] /\ command'[cur'[u]] = req'[u]
             /\ pc'[u] = "wantgil" => step'[u] = "args"
             /\ pc'[u] = "locked" => step'[u] \notin {"idle", "del"}
             /\ pc'[u] = "lockedReplied" => step'[u] = "finish"
             /\ pc'[u] = "body" /\ step'[u] = "idle" => answer'[cur'[u]] # "none"
  <2>1. CASE u = t
    BY <1>1, <1>2, <2>1 DEF Executes
  <2>2. CASE u # t /\ pc[u] \in Inside
    <3>1. cur[u] \in Events
      BY <2>2, OwnEvent DEF ServerInv
    <3>2. u = MainThread => pc[u] = "body"
      BY <2>2 DEF ServerInv, Transported, WorkInv, QP!LockInv, QP!Places, QP!MainPC,
         QP!Handling, Inside
    <3>3. cur[u] # cur[t]
      BY <1>4, <2>2, <3>2 DEF Threads
    <3>4. answer'[cur'[u]] = answer[cur[u]]
      BY <1>1, <1>2, <3>1, <3>3 DEF Executes
    <3>5. QED
      BY <1>2, <2>2, <3>4 DEF ServerInv, AtWork
  <2>3. CASE u # t /\ pc[u] \notin Inside
    BY <1>2, <2>3 DEF ServerInv, Transported, WorkInv, Working, Inside
  <2>4. QED
    BY <2>1, <2>2, <2>3
<1>10. \A e \in Events : replies'[e] # 0 => answer'[e] # "none"
  BY <1>1 DEF Executes, ServerInv, Replied
<1>11. ASSUME pc'[MainThread] = "done", ctx'[cur'[MainThread]] = "command"
       PROVE  answer'[cur'[MainThread]] # "none"
  <2>1. CASE t = MainThread
    BY <1>1, <1>2, <1>11, <2>1 DEF Executes
  <2>2. CASE t # MainThread
    <3>1. pc[MainThread] = "done" /\ cur[MainThread] # cur[t]
      BY <1>2, <1>4, <1>5, <1>11, <2>2
    <3>2. cur[MainThread] \in Events
      BY <3>1 DEF ServerInv, Transported, WorkInv, QP!LockInv, QP!Places, QP!Busy, QP!Using,
         QP!Threads
    <3>3. QED
      BY <1>1, <1>2, <1>11, <3>1, <3>2 DEF Executes, ServerInv, Replied
  <2>3. QED
    BY <2>1, <2>2
<1>12. QED
  BY <1>6, <1>7, <1>8, <1>9, <1>10, <1>11 DEF AnswerInv, Undecided, AtWork, Replied

LEMMA TransportAnswers == ServerInv /\ Transport => AnswerInv'
BY TransportMoves, MovesAnswers
DEF Transport, commandVars, requestVars, ServerInv, Transported, Queue!Server, Queue!Wake,
    Queue!Sleep, Queue!HandleUnblocked, Queue!Disconnect, Queue!Enqueue, Queue!EnqueueLock,
    Queue!EnqueuePush, Queue!EnqueueUnlock, Queue!DropTemporary, Queue!SeqReturn, Queue!Dequeue,
    Queue!DequeueLock, Queue!DequeuePop, Queue!DequeueEmpty, Queue!DequeueUnlock, Queue!Drop,
    Queue!DropLast, Queue!DropShared, Queue!FreeContext, Queue!Unblock, Queue!eventVars

LEMMA DelAnswers ==
    ASSUME ServerInv, DelEnter \/ \E k \in DelKeys : Del(k)
    PROVE  AnswerInv'
<1>1. /\ UNCHANGED <<events, ctx, replies, pc, cur, req, out, command, answer>>
      /\ step[MainThread] \in {"idle", "del"} /\ step'[MainThread] \in {"idle", "del"}
      /\ \A t \in Threads \ {MainThread} : step'[t] = step[t]
  BY CommandTypes DEF DelEnter, Del, queueVars, requestVars, Commands!DelEnter, Commands!Del,
     Commands!Goto, ServerInv, Transported, Threads
<1>2. pc[MainThread] = "serve"
  BY DEF DelEnter, Del, Commands!Del, Commands!Goto, ServerInv, Transported, WorkInv, Working
<1>3. AtWork'
  BY <1>1, <1>2 DEF ServerInv, AtWork
<1>4. QED
  BY <1>1, <1>3 DEF ServerInv, AnswerInv, Undecided, Replied, QP!Queued

LEMMA LedgerStep == ServerInv /\ WorkInv' /\ [Next]_vars => Ledger'
<1> SUFFICES ASSUME ServerInv, WorkInv', [Next]_vars PROVE Ledger'
  OBVIOUS
<1>1. ASSUME UNCHANGED requestVars PROVE Ledger'
  BY <1>1 DEF ServerInv, Ledger, requestVars
<1>2. ASSUME NEW t \in Threads, Execute(t) PROVE Ledger'
  BY <1>2, ExecuteFrame, ExecuteExecutes DEF ServerInv, Transported, Ledger, Executes
<1>3. QED
  BY <1>1, <1>2, SendRequests DEF Next, DelEnter, Del, Transport, vars, requestVars

LEMMA ServerInvInit == Init => Ledger /\ Requested /\ Undecided /\ AtWork /\ Replied
<1> SUFFICES ASSUME Init PROVE Ledger /\ Requested /\ Undecided /\ AtWork /\ Replied
  OBVIOUS
<1>1. /\ ctx = [e \in Events |-> "none"] /\ argv = [e \in Events |-> "none"]
      /\ replies = [e \in Events |-> 0] /\ events = <<>>
      /\ pc = [t \in Threads |-> IF t = MainThread THEN "poll" ELSE "loop"]
      /\ cur = [t \in Threads |-> None]
  BY DEF Init, Queue!Init, Queue!Threads, Threads
<1>2. /\ sender = [e \in Events |-> None] /\ command = [e \in Events |-> None]
      /\ answer = [e \in Events |-> "none"] /\ step = [t \in Threads |-> "idle"]
  BY DEF Init
<1>3. Ledger
  BY <1>2 DEF Ledger, CP!Answers
<1>4. Requested
  BY <1>1 DEF Requested, Outstanding
<1>5. Undecided
  BY <1>1, <1>2 DEF Undecided, Threads, QP!Queued
<1>6. AtWork /\ Replied
  BY <1>1, <1>2 DEF AtWork, Replied, Threads
<1>7. QED
  BY <1>3, <1>4, <1>5, <1>6

LEMMA ServerInvariant == Spec => []ServerInv
<1>1. ServerInv /\ Transported' /\ [Next]_vars => AnswerInv'
  <2> SUFFICES ASSUME ServerInv, Transported', [Next]_vars PROVE AnswerInv'
    OBVIOUS
  <2>1. ASSUME NEW t \in Threads, Execute(t) PROVE AnswerInv'
    BY <2>1, ExecuteAnswers DEF Transported
  <2>2. CASE UNCHANGED vars
    BY <2>2 DEF vars, queueVars, commandVars, requestVars, ServerInv, AnswerInv, Undecided,
       AtWork, Replied, QP!Queued
  <2>3. QED
    BY <2>1, <2>2, SendAnswers, DelAnswers, TransportAnswers DEF Next
<1>2. ServerInv /\ Transported' /\ [Next]_vars => ServerInv'
  BY <1>1, LedgerStep, RequestedStep DEF ServerInv, AnswerInv, Transported
<1>3. Transported /\ Ledger /\ Requested /\ Undecided /\ AtWork /\ Replied <=> ServerInv
  BY DEF ServerInv
<1>4. QED
  BY <1>2, <1>3, ServerInvInit, TransportedInvariant, PTL DEF Spec

-----------------------------------------------------------------------------
(* What the clients see.                                                   *)

Sets == [k \in Keys |-> IF dict[k] \in Objects THEN content[dict[k]] ELSE dict[k]]

Asked == [c \in Clients |-> IF Sent(c) = {} THEN None
                            ELSE command[CHOOSE e \in Sent(c) : TRUE]]

Told == Clientwise(answer)

\* A client sees the one command it has outstanding, and its answer.
View ==
    \A c \in Clients :
        /\ \A e \in Events : sender[e] = c /\ Outstanding(e) =>
                /\ Asked[c] = command[e]
                /\ Told[c] = IF answer[e] # "none" THEN answer[e] ELSE None
        /\ (\A e \in Events : ~(sender[e] = c /\ Outstanding(e))) =>
                Asked[c] = None /\ Told[c] = None

LEMMA ClientsView == ServerInv => View
<1> SUFFICES ASSUME ServerInv, NEW c \in Clients
             PROVE  /\ \A e \in Events : sender[e] = c /\ Outstanding(e) =>
                            /\ Asked[c] = command[e]
                            /\ Told[c] = IF answer[e] # "none" THEN answer[e] ELSE None
                    /\ (\A e \in Events : ~(sender[e] = c /\ Outstanding(e))) =>
                            Asked[c] = None /\ Told[c] = None
  BY DEF View
<1>1. ASSUME NEW e \in Events, sender[e] = c, Outstanding(e)
      PROVE  Asked[c] = command[e] /\ Told[c] = IF answer[e] # "none" THEN answer[e] ELSE None
  <2>1. Sent(c) = {e}
    BY <1>1 DEF Sent, ServerInv, Requested
  <2>2. (CHOOSE d \in Sent(c) : TRUE) = e
    BY <2>1
  <2>3. QED
    BY <2>1, <2>2 DEF Asked, Told, Clientwise
<1>2. ASSUME \A e \in Events : ~(sender[e] = c /\ Outstanding(e))
      PROVE  Asked[c] = None /\ Told[c] = None
  <2>1. Sent(c) = {}
    BY <1>2 DEF Sent
  <2>2. QED
    BY <2>1 DEF Asked, Told, Clientwise
<1>3. QED
  BY <1>1, <1>2

LEMMA ClientsViewNext == (ServerInv => View)'
BY ClientsView, PTL

LEMMA PerClient ==
    /\ Asked = [c \in Clients |-> Asked[c]] /\ Told = [c \in Clients |-> Told[c]]
    /\ Asked' = [c \in Clients |-> Asked'[c]] /\ Told' = [c \in Clients |-> Told'[c]]
BY DEF Asked, Told, Clientwise

\* A client whose command, if any, is what it was sees nothing of a step.
LEMMA Unseen ==
    ASSUME ServerInv, ServerInv', NEW c \in Clients,
           \A e \in Events : sender'[e] = c /\ Outstanding(e)' <=> sender[e] = c /\ Outstanding(e),
           \A e \in Events : sender[e] = c /\ Outstanding(e) =>
                command'[e] = command[e] /\ answer'[e] = answer[e]
    PROVE  Asked'[c] = Asked[c] /\ Told'[c] = Told[c]
<1>1. View /\ View'
  BY ClientsView, ClientsViewNext
<1>2. CASE \E e \in Events : sender[e] = c /\ Outstanding(e)
  <2>1. PICK e \in Events : sender[e] = c /\ Outstanding(e)
    BY <1>2
  <2>2. Asked[c] = command[e] /\ Told[c] = IF answer[e] # "none" THEN answer[e] ELSE None
    BY <1>1, <2>1 DEF View
  <2>3. Asked'[c] = command'[e] /\ Told'[c] = IF answer'[e] # "none" THEN answer'[e] ELSE None
    BY <1>1, <2>1 DEF View
  <2>4. QED
    BY <2>1, <2>2, <2>3
<1>3. CASE \A e \in Events : ~(sender[e] = c /\ Outstanding(e))
  BY <1>1, <1>3 DEF View
<1>4. QED
  BY <1>2, <1>3

\* No client sees a step that leaves the commands and their answers.
LEMMA AllUnseen ==
    ASSUME ServerInv, ServerInv', UNCHANGED <<sender, command, answer>>,
           \A e \in Events : Outstanding(e)' <=> Outstanding(e)
    PROVE  UNCHANGED <<Asked, Told>>
<1>1. \A c \in Clients : Asked'[c] = Asked[c] /\ Told'[c] = Told[c]
  BY Unseen
<1>2. QED
  BY <1>1, PerClient

LEMMA SendInvokes ==
    ASSUME ServerInv, ServerInv', NEW c \in Clients, NEW e \in Events,
           ConcHandler(c, e) \/ SeqHandler(c, e)
    PROVE  Abstract!Invoke(c)
<1>1. PICK r \in AllRequests : /\ sender' = [sender EXCEPT ![e] = c]
                               /\ command' = [command EXCEPT ![e] = r]
                               /\ UNCHANGED <<dict, content, answer>>
  BY DEF ConcHandler, SeqHandler, Send, AllRequests, commandVars
<1>2. /\ clientState[c] = "ready" /\ pc[MainThread] = "serve" /\ ctx[e] = "none"
      /\ argv' = [argv EXCEPT ![e] = "held"]
  BY DEF ConcHandler, SeqHandler, Queue!ConcHandler, Queue!SeqHandler, Queue!Construct, Queue!Goto
<1>3. \A f \in Events : ~(sender[f] = c /\ Outstanding(f))
  BY <1>2, NothingOutstanding
<1>4. /\ argv \in [Events -> {"none", "held", "lost", "released"}]
      /\ sender \in [Events -> Clients \cup {None}]
      /\ command \in [Events -> AllRequests \cup {None}]
  BY QueueTypes DEF ServerInv, Transported, Ledger
<1>5. Asked[c] = None /\ Told[c] = None
  BY <1>3, ClientsView DEF View
<1>6. sender'[e] = c /\ Outstanding(e)' /\ command'[e] = r /\ answer'[e] = "none"
  BY <1>1, <1>2, <1>4 DEF Outstanding, ServerInv, Undecided
<1>7. Asked'[c] = r /\ Told'[c] = None
  BY <1>6, ClientsViewNext DEF View
<1>8. ~Outstanding(e)
  BY <1>2 DEF ServerInv, Requested, Outstanding
<1>9. ASSUME NEW d \in Clients \ {c} PROVE Asked'[d] = Asked[d] /\ Told'[d] = Told[d]
  <2>1. \A f \in Events : /\ sender'[f] = d /\ Outstanding(f)' <=> sender[f] = d /\ Outstanding(f)
                          /\ sender[f] = d /\ Outstanding(f) =>
                                command'[f] = command[f] /\ answer'[f] = answer[f]
    BY <1>1, <1>2, <1>4, <1>6, <1>8 DEF Outstanding
  <2>2. QED
    BY <2>1, Unseen
<1>10. Asked' = [Asked EXCEPT ![c] = r] /\ Told' = Told
  BY <1>5, <1>7, <1>9, PerClient
<1>11. Sets' = Sets
  BY <1>1 DEF Sets
<1>12. QED
  BY <1>5, <1>10, <1>11 DEF Abstract!Invoke, Asked, Told, Sets, AllRequests

\* A client gets its answer when Redis is through with its command.
LEMMA Returns ==
    ASSUME ServerInv, ServerInv', NEW c \in Clients, NEW e \in Events,
           sender[e] = c, Outstanding(e), ~Outstanding(e)', answer[e] # "none",
           UNCHANGED <<dict, content, sender, command, answer>>,
           \A f \in Events : sender[f] # c => (Outstanding(f)' <=> Outstanding(f)),
           \A f \in Events : Outstanding(f)' => Outstanding(f)
    PROVE  Abstract!Return(c)
<1>1. Told[c] # None
  <2>1. Told[c] = answer[e] /\ answer[e] \in CP!Answers
    BY ClientsView DEF View, ServerInv, Ledger
  <2>2. QED
    BY <2>1, CommandAssumptions
<1>2. \A f \in Events : ~(sender'[f] = c /\ Outstanding(f)')
  BY DEF ServerInv, Requested
<1>3. Asked'[c] = None /\ Told'[c] = None
  BY <1>2, ClientsViewNext DEF View
<1>4. \A d \in Clients \ {c} : Asked'[d] = Asked[d] /\ Told'[d] = Told[d]
  BY Unseen
<1>5. Asked' = [Asked EXCEPT ![c] = None] /\ Told' = [Told EXCEPT ![c] = None]
  BY <1>3, <1>4, PerClient
<1>6. Sets' = Sets
  BY DEF Sets
<1>7. QED
  BY <1>1, <1>5, <1>6 DEF Abstract!Return, Asked, Told, Sets

Stuttering == UNCHANGED <<Sets, Asked, Told>>

LEMMA TransportMaps ==
    ASSUME ServerInv, ServerInv', Transport
    PROVE  (\E c \in Clients : Abstract!Return(c)) \/ Stuttering
<1>1. UNCHANGED <<dict, content, sender, command, answer>> /\ Sets' = Sets
  BY DEF Transport, commandVars, requestVars, Sets
<1>2. ASSUME NEW c \in Clients, Queue!HandleUnblocked(c)
      PROVE  Abstract!Return(c) \/ Stuttering
  <2>1. /\ pc[MainThread] = "serve" /\ clientState[c] = "unblocking"
        /\ argv' = [e \in Events |-> IF client[e] = c THEN "released" ELSE argv[e]]
    BY <1>2 DEF Queue!HandleUnblocked
  <2>2. \A e \in Events : ctx[e] \in {"none", "command", "open", "freed"}
    BY QueueTypes DEF ServerInv, Transported
  <2>3. \A e \in Events : Outstanding(e) => ctx[e] \in {"open", "freed"} /\ client[e] = sender[e]
    BY <2>1, <2>2, Serving, NoneAssumption DEF ServerInv, Transported, Requested, Outstanding
  <2>4. \A e \in Events : Outstanding(e)' <=> Outstanding(e) /\ client[e] # c
    BY <2>1 DEF Outstanding
  <2>5. CASE \E e \in Events : sender[e] = c /\ Outstanding(e)
    <3>1. PICK e \in Events : sender[e] = c /\ Outstanding(e)
      BY <2>5
    <3>2. ctx[e] = "freed"
      BY <2>1, <2>3, <3>1 DEF ServerInv, Transported, QP!ClientInv, QP!Blocking
    <3>3. answer[e] # "none"
      BY <3>2 DEF ServerInv, Transported, QP!ClientInv, QP!Answering, Replied
    <3>4. \A f \in Events : sender[f] # c => (Outstanding(f)' <=> Outstanding(f))
      BY <2>3, <2>4
    <3>5. QED
      BY <1>1, <2>3, <2>4, <3>1, <3>3, <3>4, Returns
  <2>6. CASE \A e \in Events : ~(sender[e] = c /\ Outstanding(e))
    <3>1. \A e \in Events : Outstanding(e)' <=> Outstanding(e)
      BY <2>3, <2>4, <2>6
    <3>2. QED
      BY <1>1, <3>1, AllUnseen DEF Stuttering
  <2>7. QED
    BY <2>5, <2>6
<1>3. CASE Queue!SeqReturn
  <2>1. /\ pc[MainThread] = "done" /\ ctx[cur[MainThread]] = "command"
        /\ argv' = [argv EXCEPT ![cur[MainThread]] = "released"]
    BY <1>3 DEF Queue!SeqReturn, Queue!ThreadSafe, Queue!Goto
  <2>2. PICK e \in Events : e = cur[MainThread]
    BY <2>1 DEF ServerInv, Transported, WorkInv, QP!LockInv, QP!Places, QP!Busy, QP!Using,
       QP!Threads
  <2>3. Outstanding(e) /\ sender[e] \in Clients /\ answer[e] # "none"
    BY <2>1, <2>2 DEF ServerInv, Transported, QP!ArgInv, Outstanding, Requested, Replied
  <2>4. argv \in [Events -> {"none", "held", "lost", "released"}]
    BY QueueTypes DEF ServerInv, Transported
  <2>5. \A f \in Events : Outstanding(f)' <=> Outstanding(f) /\ f # e
    BY <2>1, <2>2, <2>4 DEF Outstanding
  <2>6. \A f \in Events : sender[f] # sender[e] => (Outstanding(f)' <=> Outstanding(f))
    BY <2>5
  <2>7. Abstract!Return(sender[e])
    BY <1>1, <2>3, <2>5, <2>6, Returns
  <2>8. QED
    BY <2>3, <2>7
<1>4. ASSUME NEW c \in Clients, Queue!Disconnect(c) PROVE Stuttering
  <2>1. PICK d \in Events : argv[d] = "held" /\ argv' = [argv EXCEPT ![d] = "lost"]
    BY <1>4 DEF Queue!Disconnect
  <2>2. \A e \in Events : Outstanding(e)' <=> Outstanding(e)
    BY <2>1, QueueTypes DEF Outstanding, ServerInv, Transported
  <2>3. QED
    BY <1>1, <2>2, AllUnseen DEF Stuttering
<1>5. ASSUME UNCHANGED argv PROVE Stuttering
  <2>1. \A e \in Events : Outstanding(e)' <=> Outstanding(e)
    BY <1>5 DEF Outstanding
  <2>2. QED
    BY <1>1, <2>1, AllUnseen DEF Stuttering
<1>6. \/ UNCHANGED argv \/ Queue!SeqReturn
      \/ \E c \in Clients : Queue!HandleUnblocked(c) \/ Queue!Disconnect(c)
  BY DEF Transport, Queue!Server, Queue!Wake, Queue!Sleep, Queue!Enqueue, Queue!EnqueueLock,
    Queue!EnqueuePush, Queue!EnqueueUnlock, Queue!DropTemporary, Queue!Dequeue,
    Queue!DequeueLock, Queue!DequeuePop, Queue!DequeueEmpty, Queue!DequeueUnlock, Queue!Drop,
    Queue!DropLast, Queue!DropShared, Queue!FreeContext, Queue!Unblock, Queue!eventVars
<1>7. QED
  BY <1>2, <1>3, <1>4, <1>5, <1>6

LEMMA DelEnterMaps == ASSUME ServerInv, ServerInv', DelEnter PROVE Stuttering
<1>1. UNCHANGED <<dict, content, argv, sender, command, answer>>
  BY DEF DelEnter, queueVars, requestVars, Commands!DelEnter, Commands!objectVars
<1>2. QED
  BY <1>1, AllUnseen DEF Stuttering, Outstanding, Sets

LEMMA DelMaps ==
    ASSUME ServerInv, ServerInv', NEW k \in DelKeys, Del(k)
    PROVE  k \in Keys /\ (Abstract!Vanish(k) \/ Stuttering)
<1>1. /\ dict' = [dict EXCEPT ![k] = None]
      /\ UNCHANGED <<content, argv, sender, command, answer>>
  BY DEF Del, queueVars, requestVars, Commands!Del
<1>2. /\ dict \in [Keys -> Objects \cup {None, Foreign}] /\ content \in [Objects -> SUBSET Values]
      /\ k \in Keys
  BY CommandAssumptions DEF ServerInv, Transported, WorkInv, CP!TypeInv, CP!Types
<1>3. Sets' = [Sets EXCEPT ![k] = None]
  BY <1>1, <1>2, CommandAssumptions DEF Sets
<1>4. UNCHANGED <<Asked, Told>>
  BY <1>1, AllUnseen DEF Outstanding
<1>5. CASE Sets[k] = None
  <2>1. Sets' = Sets
    BY <1>3, <1>5 DEF Sets
  <2>2. QED
    BY <1>2, <1>4, <2>1 DEF Stuttering
<1>6. CASE Sets[k] # None
  BY <1>2, <1>3, <1>4, <1>6 DEF Abstract!Vanish, Sets, Asked, Told
<1>7. QED
  BY <1>5, <1>6

\* The client that sent it has its command executed.
LEMMA Executed ==
    ASSUME ServerInv, NEW t \in Threads, pc[t] \in Inside
    PROVE  cur[t] \in Events /\ Outstanding(cur[t]) /\ sender[cur[t]] \in Clients
<1>1. /\ cur[t] \in Events /\ ctx[cur[t]] # "none"
      /\ t = MainThread => ctx[cur[t]] = "command"
      /\ t # MainThread => ctx[cur[t]] \in {"open", "freed"}
  BY OwnEvent DEF ServerInv
<1>2. ctx[cur[t]] # "freed"
  BY <1>1 DEF ServerInv, Transported, QP!RefInv, QP!Freed, Inside, QP!Threads, Threads
<1>3. argv[cur[t]] \in {"held", "lost"}
  BY <1>1, <1>2 DEF ServerInv, Transported, QP!ArgInv
<1>4. QED
  BY <1>1, <1>3 DEF Outstanding, ServerInv, Requested

LEMMA ComputeMaps ==
    ASSUME ServerInv, ServerInv', CP!KeptInv, CP!KeptInv', NEW t \in Threads, Compute(t)
    PROVE  (\E c \in Clients : Abstract!Act(c)) \/ Stuttering
<1>1. /\ pc[t] \in Inside /\ UNCHANGED <<argv, sender, command>>
      /\ answer' = [answer EXCEPT ![cur[t]] = out'[t]] /\ step'[t] # "idle"
  BY DEF Compute, queueVars, Inside
<1>2. CP!Execute(t)
  BY SameCommands DEF Compute
<1>3. step[t] \notin {"idle", "del", "finish"}
  BY ComputeFrame DEF Compute, ServerInv, Transported
<1>4. out[t] = "none" /\ answer[cur[t]] = "none" /\ command[cur[t]] = req[t]
  BY <1>3, CommandTypes DEF ServerInv, Transported, AtWork
<1>5. cur[t] \in Events /\ Outstanding(cur[t]) /\ sender[cur[t]] \in Clients
  BY <1>1, Executed
<1>6. answer \in [Events -> CP!Answers]
  BY DEF ServerInv, Ledger
<1>7. CASE out'[t] = "none"
  <2>1. answer' = answer
    BY <1>1, <1>4, <1>5, <1>6, <1>7
  <2>2. out \in [CP!Threads -> CP!Answers] /\ t \in CP!Threads
    BY CommandTypes DEF ServerInv, Transported, CP!Threads, Threads
  <2>3. CP!KeySets' = CP!KeySets
    BY <1>2, <1>7, <2>2, CP!NoEffect, CommandAssumptions, ThreadsAssumption
  <2>4. UNCHANGED <<Asked, Told>>
    BY <1>1, <2>1, AllUnseen DEF Outstanding
  <2>5. QED
    BY <2>3, <2>4 DEF Stuttering, CP!KeySets, Sets
<1>8. CASE out'[t] # "none"
  <2>0. PICK e \in Events, c \in Clients, r \in AllRequests :
            e = cur[t] /\ c = sender[cur[t]] /\ r = command[cur[t]]
    BY <1>5, OwnEvent, <1>1 DEF ServerInv, Requested
  <2>1. /\ req[t] # None /\ CP!Key(t) \in Keys
        /\ out'[t] = CP!Abstract!Answer(req[t], CP!KeySets[CP!Key(t)])
        /\ CP!KeySets' = [CP!KeySets EXCEPT ![CP!Key(t)] =
                                CP!Abstract!After(req[t], CP!KeySets[CP!Key(t)])]
    <3>1. t \in CP!Threads
      BY DEF CP!Threads, Threads
    <3>2. QED
      BY <1>2, <1>8, <3>1, CP!TakesEffect, CommandAssumptions, ThreadsAssumption
  <2>2. /\ r # None /\ r.key \in Keys
        /\ out'[t] = Abstract!Answer(r, Sets[r.key])
        /\ Sets' = [Sets EXCEPT ![r.key] = Abstract!After(r, Sets[r.key])]
    <3>1. \A q, x : CP!Abstract!Answer(q, x) = Abstract!Answer(q, x)
      BY DEF CP!Abstract!Answer, Abstract!Answer
    <3>2. \A q, x : CP!Abstract!After(q, x) = Abstract!After(q, x)
      BY <3>1 DEF CP!Abstract!After, Abstract!After
    <3>3. CP!KeySets = Sets /\ CP!KeySets' = Sets'
      BY DEF CP!KeySets, Sets
    <3>4. CP!Key(t) = r.key /\ req[t] = r
      BY <1>4, <2>0 DEF CP!Key
    <3>5. QED
      BY <2>1, <3>1, <3>2, <3>3, <3>4
  <2>3. Asked[c] = r /\ Told[c] = None
    BY <1>4, <1>5, <2>0, ClientsView DEF View
  <2>4. answer'[e] = out'[t] /\ \A f \in Events \ {e} : answer'[f] = answer[f]
    BY <1>1, <1>5, <1>6, <2>0
  <2>5. \A f \in Events : Outstanding(f)' <=> Outstanding(f)
    BY <1>1 DEF Outstanding
  <2>6. Asked'[c] = r /\ Told'[c] = out'[t]
    BY <1>1, <1>5, <1>8, <2>0, <2>4, <2>5, ClientsViewNext DEF View
  <2>7. \A d \in Clients \ {c} : Asked'[d] = Asked[d] /\ Told'[d] = Told[d]
    BY <1>1, <1>5, <2>0, <2>4, <2>5, Unseen
  <2>8. Asked' = Asked /\ Told' = [Told EXCEPT ![c] = out'[t]]
    BY <2>3, <2>6, <2>7, PerClient
  <2>9. Abstract!Act(c)
    <3>1. /\ Asked[c] # None /\ Told[c] = None /\ Asked' = Asked
          /\ Told' = [Told EXCEPT ![c] = Abstract!Answer(Asked[c], Sets[Asked[c].key])]
          /\ Sets' = [Sets EXCEPT ![Asked[c].key] =
                                Abstract!After(Asked[c], Sets[Asked[c].key])]
      BY <2>2, <2>3, <2>8
    <3>2. QED
      BY <3>1 DEF Abstract!Act, Asked, Told, Sets
  <2>10. QED
    BY <2>9
<1>9. QED
  BY <1>7, <1>8

LEMMA ExecuteMaps ==
    ASSUME ServerInv, ServerInv', CP!KeptInv, CP!KeptInv', NEW t \in Threads, Execute(t)
    PROVE  (\E c \in Clients : Abstract!Act(c)) \/ Stuttering
<1>1. CASE Compute(t)
  BY <1>1, ComputeMaps
<1>2. CASE ~Compute(t)
  <2>1. UNCHANGED <<dict, content, answer>>
    BY <1>2 DEF Execute, Begin, LockGil, ReplyLocked, UnlockReplied, Unlock, ReplyUnlocked, Reply,
       requestVars, commandVars, Commands!SeqCommand, Commands!ConcCommand, Commands!Lock,
       Commands!Finish, Commands!objectVars
  <2>2. UNCHANGED <<argv, sender, command>>
    BY ExecuteFrame DEF ServerInv, Transported
  <2>3. UNCHANGED <<Asked, Told>>
    BY <2>1, <2>2, AllUnseen DEF Outstanding
  <2>4. QED
    BY <2>1, <2>3 DEF Stuttering, Sets
<1>3. QED
  BY <1>1, <1>2

LEMMA ServerStepMaps ==
    ServerInv /\ ServerInv' /\ CP!KeptInv /\ CP!KeptInv' /\ [Next]_vars =>
        [Abstract!KNext]_(Abstract!kvars)
<1> SUFFICES ASSUME ServerInv, ServerInv', CP!KeptInv, CP!KeptInv', [Next]_vars
             PROVE  Abstract!KNext \/ UNCHANGED Abstract!kvars
  OBVIOUS
<1>1. Stuttering => UNCHANGED Abstract!kvars
  BY DEF Stuttering, Abstract!kvars, Sets, Asked, Told
<1>2. ASSUME UNCHANGED vars PROVE Stuttering
  BY <1>2 DEF Stuttering, Sets, Asked, Told, Clientwise, Sent, Outstanding, vars, queueVars,
     commandVars, requestVars
<1>3. QED
  BY <1>1, <1>2, SendInvokes, TransportMaps, DelEnterMaps, DelMaps, ExecuteMaps DEF Next, Abstract!KNext

LEMMA ServerInitMaps == Init => Abstract!KInit
<1> SUFFICES ASSUME Init PROVE Abstract!KInit
  OBVIOUS
<1>1. \A e \in Events : argv[e] = "none"
  BY DEF Init, Queue!Init
<1>2. \A c \in Clients : Sent(c) = {}
  BY <1>1 DEF Sent, Outstanding
<1>3. dict \in [Keys -> {None, Foreign}] /\ \A k \in Keys : dict[k] \notin Objects
  BY MarkersAssumption DEF Init
<1>4. QED
  BY <1>2, <1>3 DEF Abstract!KInit, Clientwise

\* Any number of clients, events and workers: where workers create and delete
\* under the global lock, and everything else comes in through seq_handler or is
\* Redis's DEL, each command of a client acts at one instant between its
\* acceptance and its answer, and answers what it found then.
THEOREM ImplementsKeyedSetsTheorem ==
    ASSUME CP!LifeCycleOnly
    PROVE  Spec => ImplementsKeyedSets
<1>1. Init => CP!Init
  BY DEF Init, CP!Init, KeyspaceLock, Queue!Init, Threads, CP!Threads
<1>2. WorkInv /\ [Next]_vars => [CP!Next]_(CP!vars)
  BY CommandStep
<1>3. Spec => CP!Spec
  BY <1>1, <1>2, WorkInvariant, PTL DEF Spec, CP!Spec
<1>4. CP!Spec => []CP!KeptInv
  BY CP!KeptInvariant, CommandAssumptions, ThreadsAssumption
<1>5. QED
  BY <1>3, <1>4, ServerInvariant, ServerInitMaps, ServerStepMaps, PTL
  DEF Spec, ImplementsKeyedSets, Abstract!KSpec

=============================================================================
