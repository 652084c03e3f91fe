-------------------------- MODULE ModuleLoadProofs --------------------------
(***************************************************************************)
(* Proofs about ModuleLoad, for every pool and every bound on the queue.   *)
(*                                                                         *)
(* The invariant ties the static objects, which exist in one order only,   *)
(* to where the threads are: LoadInv says how far OnLoad has come by what  *)
(* it has constructed, and PoolInv what a thread that runs may rely on.    *)
(***************************************************************************)
EXTENDS ModuleLoad, SequenceTheorems, TLAPS

\* The static objects are constructed in this order, and destroyed from the end.
Order(i) == CASE i = 1 -> "hpGC" [] i = 2 -> "thread_pool" [] OTHER -> "queue"

\* The stages of OnLoad before and after the constructions.
Early == {"init", "llca", "conc", "cds", "gc"}
Middle == {"attach", "pool"}
Late == {"spawn", "serve", "instance", "construct", "ready", "exec", "exit"}

WorkerStages == {"unborn", "attach", "instance", "construct", "ready", "exec"}

Types ==
    /\ status \in {"loading", "loaded", "refused", "exiting", "dead"}
    /\ statics \in Seq({"hpGC", "thread_pool", "queue"})
    /\ builder \in Threads \cup {None}
    /\ built \in Nat
    /\ attached \in SUBSET Threads
    /\ initialized \in BOOLEAN
    /\ pc \in [Threads -> Stages]
    /\ pc[MainThread] \in Early \cup Middle \cup Late
    /\ \A w \in Workers : pc[w] \in WorkerStages

Ordered == \A i \in 1..Len(statics) : statics[i] = Order(i)

LoadInv ==
    /\ status = "refused" => statics = <<>> /\ pc[MainThread] \in Early
    /\ status = "exiting" => pc[MainThread] = "exit"
    /\ Running => /\ pc[MainThread] \in Early => statics = <<>>
                  /\ pc[MainThread] \in Middle => Len(statics) = 1
                  /\ pc[MainThread] \in Late => Len(statics) >= 2
    /\ pc[MainThread] \in Middle \cup Late => initialized
    /\ pc[MainThread] \in Late \cup {"pool"} => MainThread \in attached

PoolInv ==
    /\ pc[MainThread] \notin Late => \A w \in Workers : pc[w] = "unborn"
    /\ \A w \in Workers : pc[w] \notin {"unborn", "attach"} => w \in attached

QueueInv ==
    /\ \A t \in Threads : pc[t] = "construct" <=> builder = t
    /\ builder # None => built = 0
    /\ built <= 1
    /\ \A t \in Threads : pc[t] = "ready" => built = 1
    /\ \A w \in Workers : pc[w] = "exec" => built = 1
    /\ Running => Len(statics) <= 2 + built

Inv == Types /\ Ordered /\ LoadInv /\ PoolInv /\ QueueInv

-----------------------------------------------------------------------------
(* Facts about the list of static objects.                                 *)

Names == {"hpGC", "thread_pool", "queue"}

\* A construction adds its object at the end.
LEMMA Construction ==
    ASSUME NEW s \in Seq(Names), NEW x \in Names
    PROVE  /\ Append(s, x) \in Seq(Names)
           /\ Len(Append(s, x)) = Len(s) + 1
           /\ \A i \in 1..Len(s) : Append(s, x)[i] = s[i]
           /\ Append(s, x)[Len(s) + 1] = x
BY AppendProperties

\* A destruction takes the last one away.
LEMMA Destruction ==
    ASSUME statics \in Seq(Names), statics # <<>>
    PROVE  /\ Older \in Seq(Names)
           /\ Len(Older) = Len(statics) - 1
           /\ \A i \in 1..Len(Older) : Older[i] = statics[i]
<1>1. Len(statics) \in Nat \ {0}
  BY EmptySeq
<1> DEFINE n == Len(statics) - 1
<1>2. /\ n \in Nat
      /\ \A i \in 1..n : statics[i] \in Names
  BY <1>1, ElementOfSeq
<1> HIDE DEF n
<1>3. /\ SubSeq(statics, 1, n) \in Seq(Names)
      /\ Len(SubSeq(statics, 1, n)) = IF 1 <= n THEN n - 1 + 1 ELSE 0
      /\ \A i \in 1..(n - 1 + 1) : SubSeq(statics, 1, n)[i] = statics[1 + i - 1]
  BY <1>2, SubSeqProperties
<1>4. /\ Len(SubSeq(statics, 1, n)) = n
      /\ \A i \in 1..n : SubSeq(statics, 1, n)[i] = statics[i]
  BY <1>2, <1>3
<1>5. QED
  BY <1>2, <1>3, <1>4 DEF Older, n

-----------------------------------------------------------------------------
LEMMA InvInit == Init => Inv
<1> SUFFICES ASSUME Init PROVE Inv
  OBVIOUS
<1>1. Len(statics) = 0 /\ statics \in Seq(Names)
  BY EmptySeq DEF Init
<1>2. Types
  BY <1>1, ThreadsAssumption DEF Init, Types, Names, Threads, Stages, Early, WorkerStages
<1>3. Ordered
  BY <1>1 DEF Ordered
<1>4. LoadInv /\ PoolInv /\ QueueInv
  BY <1>1, ThreadsAssumption
     DEF Init, LoadInv, PoolInv, QueueInv, Threads, Running, Early, Middle, Late
<1>5. QED
  BY <1>2, <1>3, <1>4 DEF Inv

\* Every step keeps the static objects in order and the threads behind them.
LEMMA InvStep == Inv /\ [Next]_vars => Inv'
<1> SUFFICES ASSUME Inv, [Next]_vars PROVE Inv'
  OBVIOUS
<1> USE ThreadsAssumption
    DEF Inv, Types, Ordered, LoadInv, PoolInv, QueueInv, Threads, Stages, Running,
        Early, Middle, Late, WorkerStages, Goto, queueVars
<1>1. ASSUME Running, ModuleInit PROVE Inv'
  BY <1>1 DEF ModuleInit
<1>2. ASSUME Running, LLCA_OnLoad PROVE Inv'
  BY <1>2 DEF LLCA_OnLoad, Register
<1>3. ASSUME Running, LLCA_Conc_OnLoad PROVE Inv'
  BY <1>3 DEF LLCA_Conc_OnLoad, Register
<1>4. ASSUME Running, OnLoadFails PROVE Inv'
  BY <1>4 DEF OnLoadFails
<1>5. ASSUME Running, Initialize PROVE Inv'
  BY <1>5 DEF Initialize
<1>6. ASSUME Running, ConstructCollector PROVE Inv'
  BY <1>6, Construction DEF ConstructCollector, Order, Names
<1>7. ASSUME Running, AttachMain PROVE Inv'
  BY <1>7 DEF AttachMain
<1>8. ASSUME Running, ConstructPool PROVE Inv'
  <2>0. /\ statics \in Seq(Names) /\ Len(statics) = 1 /\ statics[1] = "hpGC"
        /\ statics' = Append(statics, "thread_pool")
    <3>1. statics \in Seq(Names) /\ Len(statics) = 1
      BY <1>8 DEF ConstructPool, Names
    <3>2. statics[1] = Order(1)
      BY <3>1
    <3>3. QED
      BY <1>8, <3>1, <3>2 DEF ConstructPool, Order
  <2>1. /\ statics' \in Seq(Names)
        /\ Len(statics') = 2
        /\ statics'[1] = "hpGC" /\ statics'[2] = "thread_pool"
    <3>1. "thread_pool" \in Names
      BY DEF Names
    <3>2. /\ Append(statics, "thread_pool") \in Seq(Names)
          /\ Len(Append(statics, "thread_pool")) = Len(statics) + 1
          /\ \A i \in 1..Len(statics) : Append(statics, "thread_pool")[i] = statics[i]
          /\ Append(statics, "thread_pool")[Len(statics) + 1] = "thread_pool"
      BY <2>0, <3>1, Construction
    <3>3. /\ Append(statics, "thread_pool")[1] = "hpGC"
          /\ Append(statics, "thread_pool")[2] = "thread_pool"
      BY <2>0, <3>2
    <3>4. QED
      BY <2>0, <3>2, <3>3
  <2>2. Types'
    BY <1>8, <2>1 DEF ConstructPool, Names
  <2>3. Ordered'
    <3>1. \A i \in 1..2 : i = 1 \/ i = 2
      OBVIOUS
    <3>2. \A i \in 1..2 : statics'[i] = Order(i)
      BY <2>1, <3>1 DEF Order
    <3>3. QED
      BY <2>1, <3>2
  <2>4. LoadInv'
    BY <1>8, <2>1 DEF ConstructPool
  <2>5. PoolInv' /\ QueueInv'
    BY <1>8, <2>1 DEF ConstructPool
  <2>6. QED
    BY <2>2, <2>3, <2>4, <2>5
<1>9. ASSUME Running, Spawn PROVE Inv'
  BY <1>9 DEF Spawn, Unborn
<1>10. ASSUME Running, SpawnFails PROVE Inv'
  BY <1>10 DEF SpawnFails, Unborn
<1>11. ASSUME Running, OnLoadReturns PROVE Inv'
  BY <1>11 DEF OnLoadReturns, Unborn
<1>12. ASSUME Running, ConcHandler PROVE Inv'
  BY <1>12 DEF ConcHandler
<1>13. ASSUME Running, SeqHandler PROVE Inv'
  BY <1>13 DEF SeqHandler
<1>14. ASSUME Running, Enqueue PROVE Inv'
  BY <1>14 DEF Enqueue
<1>15. ASSUME Running, SeqReturn PROVE Inv'
  BY <1>15 DEF SeqReturn
<1>16. ASSUME Running, Exit PROVE Inv'
  BY <1>16 DEF Exit
<1>17. ASSUME Running, DestroyStatic PROVE Inv'
  BY <1>17, Destruction DEF DestroyStatic, Order, Names
<1>18. ASSUME NEW t \in Threads, Running, GetInstance(t) PROVE Inv'
  BY <1>18 DEF GetInstance
<1>19. ASSUME NEW t \in Threads, Running, ConstructQueue(t) PROVE Inv'
  BY <1>19, Construction DEF ConstructQueue, Order, Names
<1>20. ASSUME NEW w \in Workers, Running, AttachWorker(w) PROVE Inv'
  BY <1>20 DEF AttachWorker
<1>21. ASSUME NEW w \in Workers, Running, Dequeue(w) PROVE Inv'
  BY <1>21 DEF Dequeue
<1>22. ASSUME NEW w \in Workers, Running, ExecuteDone(w) PROVE Inv'
  <2>1. Types' /\ Ordered' /\ LoadInv' /\ PoolInv'
    BY <1>22 DEF ExecuteDone
  <2>2. QueueInv'
    BY <1>22 DEF ExecuteDone
  <2>3. QED
    BY <2>1, <2>2
<1>23. ASSUME NEW w \in Workers, Running, DequeueDestroyed(w) PROVE Inv'
  BY <1>23 DEF DequeueDestroyed
<1>24. CASE UNCHANGED vars
  BY <1>24 DEF vars
<1>25. QED
  BY <1>1, <1>2, <1>3, <1>4, <1>5, <1>6, <1>7, <1>8, <1>9, <1>10, <1>11, <1>12, <1>13, <1>14, <1>15, <1>16, <1>17, <1>18, <1>19, <1>20, <1>21, <1>22, <1>23, <1>24
  DEF Next, OnLoad, Work, Handle

-----------------------------------------------------------------------------
(* What OnLoad has registered, and the bound on the queue.                 *)

Registrable == {LlcaNames[i] : i \in 1..Len(LlcaNames)} \cup {ConcNames[i] : i \in 1..Len(ConcNames)}

RegisterInv ==
    /\ registered \in Seq(Registrable)
    /\ pc[MainThread] = "init" => Len(registered) = 0
    /\ pc[MainThread] = "llca" => Len(registered) < Len(LlcaNames)
    /\ pc[MainThread] = "conc" => /\ Len(LlcaNames) <= Len(registered)
                                  /\ Len(registered) < Len(LlcaNames) + Len(ConcNames)

\* The handler that is about to enqueue has found room.
BoundInv ==
    /\ queued \in 0..MaxQueued
    /\ pc[MainThread] \in {"instance", "construct", "ready"} => queued < MaxQueued

LEMMA NameCounts == Len(LlcaNames) = 4 /\ Len(ConcNames) = 11
BY DEF LlcaNames, ConcNames

LEMMA RegisterInvInit == Init => RegisterInv /\ BoundInv
BY BoundAssumption, ThreadsAssumption, EmptySeq, NameCounts
DEF Init, RegisterInv, BoundInv, Threads

LEMMA RegisterInvStep == Inv /\ RegisterInv /\ [Next]_vars => RegisterInv'
<1> SUFFICES ASSUME Inv, RegisterInv, [Next]_vars PROVE RegisterInv'
  OBVIOUS
<1>1. pc \in [Threads -> Stages] /\ MainThread \in Threads
  BY DEF Inv, Types, Threads
<1>2. ASSUME UNCHANGED registered, pc'[MainThread] \in {"init", "llca", "conc"} =>
                                       pc'[MainThread] = pc[MainThread]
      PROVE  RegisterInv'
  BY <1>2 DEF RegisterInv
<1>3. CASE ModuleInit
  BY <1>1, <1>3, NameCounts DEF ModuleInit, Goto, RegisterInv
<1>4. CASE LLCA_OnLoad
  <2>1. /\ registered' = Append(registered, LlcaNames[Len(registered) - 0 + 1])
        /\ pc[MainThread] = "llca"
        /\ pc' = [pc EXCEPT ![MainThread] =
                     IF Len(registered) - 0 + 1 = Len(LlcaNames) THEN "conc" ELSE "llca"]
    BY <1>4 DEF LLCA_OnLoad, Register, Goto
  <2>2. Len(registered) \in Nat /\ Len(registered) < 4 /\ registered \in Seq(Registrable)
    BY <2>1, NameCounts DEF RegisterInv
  <2>3. LlcaNames[Len(registered) + 1] \in Registrable
    BY <2>2, NameCounts DEF Registrable
  <2>4. registered' \in Seq(Registrable) /\ Len(registered') = Len(registered) + 1
    BY <2>1, <2>2, <2>3, AppendProperties
  <2>5. pc'[MainThread] = IF Len(registered) + 1 = 4 THEN "conc" ELSE "llca"
    BY <1>1, <2>1, <2>2, NameCounts
  <2>6. QED
    BY <2>2, <2>4, <2>5, NameCounts DEF RegisterInv
<1>5. CASE LLCA_Conc_OnLoad
  <2> DEFINE k == Len(registered) - 4 + 1
  <2>1. /\ registered' = Append(registered, ConcNames[k])
        /\ pc[MainThread] = "conc"
        /\ pc' = [pc EXCEPT ![MainThread] = IF k = Len(ConcNames) THEN "cds" ELSE "conc"]
    BY <1>5, NameCounts DEF LLCA_Conc_OnLoad, Register, Goto
  <2>2. /\ Len(registered) \in Nat /\ registered \in Seq(Registrable)
        /\ k \in 1..11
    <3>1. Len(registered) \in Nat /\ registered \in Seq(Registrable)
      BY DEF RegisterInv
    <3>2. 4 <= Len(registered) /\ Len(registered) < 4 + 11
      BY <2>1, NameCounts DEF RegisterInv
    <3>3. \A n \in Nat : 4 <= n /\ n < 4 + 11 => n - 4 + 1 \in 1..11
      OBVIOUS
    <3>4. QED
      BY <3>1, <3>2, <3>3
  <2>3. Len(registered) + 1 = k + 4
    BY <2>2
  <2> HIDE DEF k
  <2>4. ConcNames[k] \in Registrable
    BY <2>2, NameCounts DEF Registrable
  <2>5. registered' \in Seq(Registrable) /\ Len(registered') = k + 4
    BY <2>1, <2>2, <2>3, <2>4, AppendProperties
  <2>6. pc'[MainThread] = IF k = 11 THEN "cds" ELSE "conc"
    BY <1>1, <2>1, NameCounts
  <2>7. pc'[MainThread] = "conc" => 4 <= k + 4 /\ k + 4 < 4 + 11
    BY <2>2, <2>6
  <2>8. QED
    BY <2>5, <2>6, <2>7, NameCounts DEF RegisterInv
<1>6. ASSUME OnLoadFails \/ DestroyStatic \/ UNCHANGED vars PROVE RegisterInv'
  BY <1>2, <1>6 DEF OnLoadFails, DestroyStatic, vars
<1>7. ASSUME \/ Initialize \/ ConstructCollector \/ AttachMain \/ ConstructPool
             \/ SpawnFails \/ OnLoadReturns \/ ConcHandler \/ SeqHandler \/ Enqueue
             \/ SeqReturn \/ Exit
      PROVE  RegisterInv'
  BY <1>1, <1>2, <1>7 DEF Initialize, ConstructCollector, AttachMain, ConstructPool,
     SpawnFails, OnLoadReturns, ConcHandler, SeqHandler, Enqueue, SeqReturn, Exit, Goto
<1>8. ASSUME NEW t \in Threads, GetInstance(t) \/ ConstructQueue(t) PROVE RegisterInv'
  BY <1>1, <1>2, <1>8 DEF GetInstance, ConstructQueue, Goto
<1>9. ASSUME NEW w \in Workers,
             \/ AttachWorker(w) \/ Dequeue(w) \/ ExecuteDone(w) \/ DequeueDestroyed(w)
      PROVE  RegisterInv'
  BY <1>1, <1>2, <1>9 DEF AttachWorker, Dequeue, ExecuteDone, DequeueDestroyed, Goto
<1>10. CASE Spawn
  BY <1>1, <1>2, <1>10, ThreadsAssumption DEF Spawn, Unborn, Goto
<1>11. QED
  BY <1>3, <1>4, <1>5, <1>6, <1>7, <1>8, <1>9, <1>10 DEF Next, OnLoad, Work, Handle, Threads

LEMMA BoundInvStep == Inv /\ BoundInv /\ [Next]_vars => BoundInv'
<1> SUFFICES ASSUME Inv, BoundInv, [Next]_vars PROVE BoundInv'
  OBVIOUS
<1>1. pc \in [Threads -> Stages] /\ MainThread \in Threads /\ queued \in Nat
  BY BoundAssumption DEF Inv, Types, Threads, BoundInv
<1> DEFINE Asking == {"instance", "construct", "ready"}
<1>2. ASSUME UNCHANGED queued, pc'[MainThread] \in Asking => pc[MainThread] \in Asking
      PROVE  BoundInv'
  BY <1>2 DEF BoundInv
<1>3. CASE \/ ModuleInit \/ OnLoadFails \/ Initialize \/ ConstructCollector \/ AttachMain
           \/ ConstructPool \/ SpawnFails \/ OnLoadReturns \/ SeqHandler \/ SeqReturn
           \/ Exit \/ DestroyStatic \/ UNCHANGED vars
  BY <1>1, <1>2, <1>3 DEF ModuleInit, OnLoadFails, Initialize, ConstructCollector, AttachMain,
     ConstructPool, SpawnFails, OnLoadReturns, SeqHandler, SeqReturn, Exit, DestroyStatic, vars,
     Goto, queueVars
<1>4. CASE LLCA_OnLoad \/ LLCA_Conc_OnLoad
  BY <1>1, <1>2, <1>4 DEF LLCA_OnLoad, LLCA_Conc_OnLoad, Register, Goto, queueVars
<1>5. CASE Spawn
  BY <1>1, <1>2, <1>5, ThreadsAssumption DEF Spawn, Unborn, Goto, queueVars
<1>6. ASSUME NEW t \in Threads, GetInstance(t) \/ ConstructQueue(t) PROVE BoundInv'
  BY <1>1, <1>2, <1>6 DEF GetInstance, ConstructQueue, Goto
<1>7. ASSUME NEW w \in Workers, AttachWorker(w) \/ ExecuteDone(w) \/ DequeueDestroyed(w)
      PROVE  BoundInv'
  BY <1>1, <1>2, <1>7, ThreadsAssumption
  DEF AttachWorker, ExecuteDone, DequeueDestroyed, Goto, queueVars
<1>8. ASSUME NEW w \in Workers, Dequeue(w) PROVE BoundInv'
  BY <1>1, <1>8, ThreadsAssumption, BoundAssumption DEF Dequeue, Goto, BoundInv
<1>9. CASE ConcHandler
  BY <1>1, <1>9 DEF ConcHandler, Goto, queueVars, BoundInv
<1>10. CASE Enqueue
  BY <1>1, <1>10, BoundAssumption DEF Enqueue, Goto, BoundInv
<1>11. QED
  BY <1>3, <1>4, <1>5, <1>6, <1>7, <1>8, <1>9, <1>10 DEF Next, OnLoad, Work, Handle, Threads

-----------------------------------------------------------------------------
(* The theorems.                                                           *)

\* Inv is an invariant of the module's life.
LEMMA Invariant == Spec => []Inv
<1>1. QED
  BY InvInit, InvStep, PTL DEF Spec

\* Types; OnLoad never reads past the end of what it has to register, and the
\* queue keeps to its bound.
THEOREM TypeOKTheorem == Spec => []TypeOK
<1>1. Inv /\ RegisterInv /\ BoundInv => TypeOK
  BY DEF Inv, Types, RegisterInv, Registrable, BoundInv, TypeOK
<1>2. QED
  BY <1>1, Invariant, RegisterInvInit, RegisterInvStep, BoundInvStep, PTL DEF Spec

\* A module that Redis refuses, at whichever registration, has left no thread
\* and no static object behind in the library that is unloaded.
THEOREM RefusedLeavesNothingTheorem == Spec => []RefusedLeavesNothing
<1>1. Inv => RefusedLeavesNothing
  BY DEF Inv, Types, LoadInv, PoolInv, RefusedLeavesNothing, Early, Middle, Late
<1>2. QED
  BY <1>1, Invariant, PTL

\* However many threads ask for the queue first, it is constructed once, and
\* no thread has it before.
THEOREM OneQueueTheorem == Spec => []OneQueue
<1>1. Inv => OneQueue
  BY DEF Inv, QueueInv, OneQueue
<1>2. QED
  BY <1>1, Invariant, PTL

\* No thread executes a command before it is attached to libcds, or before or
\* after the life of the collector.
THEOREM CollectorInUseTheorem == Spec => []CollectorInUse
<1>1. Inv => CollectorInUse
  <2> SUFFICES ASSUME Inv, Running, NEW t \in Threads, pc[t] = "exec"
               PROVE  initialized /\ Constructed("hpGC") /\ t \in attached
    BY DEF CollectorInUse
  <2> USE DEF Inv, Types, LoadInv, PoolInv, Early, Middle, Late, Threads
  <2>1. pc[MainThread] \in Late
    BY ThreadsAssumption
  <2>2. initialized /\ t \in attached
    BY <2>1
  <2>3. Constructed("hpGC")
    <3>1. statics \in Seq(Names) /\ Len(statics) >= 2
      BY <2>1 DEF Names
    <3>2. 1 \in 1..Len(statics)
      BY <3>1
    <3>3. QED
      BY <3>2 DEF Ordered, Order, Constructed
  <2>4. QED
    BY <2>2, <2>3
<1>2. QED
  BY <1>1, Invariant, PTL

=============================================================================
