---------------------------- MODULE RedParServer ----------------------------
(***************************************************************************)
(* The server as its clients see it: the event queue and its threads       *)
(* (EventQueue) with the skip list commands (SkipListCommands) as what the *)
(* events execute.                                                         *)
(*                                                                         *)
(* The handlers, the queue and the event loop are EventQueue's actions.    *)
(* execute() is written out here: where each command locks, replies and    *)
(* unlocks, and which steps of the commands come in between.  Both         *)
(* components have a variable for the global lock.  In EventQueue the main *)
(* thread has it whenever it is awake; for the commands it counts only     *)
(* while the main thread executes one, or a DEL (KeyspaceLock).            *)
(*                                                                         *)
(* Each event carries one command; there must be enough Objects for each   *)
(* event to create a skip list.                                            *)
(***************************************************************************)
EXTENDS Naturals, Sequences, FiniteSets

CONSTANTS Clients, Events, Workers, MainThread, None,
          Keys, Values, Objects, ConcRequests, SeqRequests, DelKeys, Malformed, Foreign

ASSUME RoomAssumption == Cardinality(Objects) >= Cardinality(Events)
ASSUME ThreadsAssumption == MainThread \notin Workers
ASSUME PoolAssumption == IsFiniteSet(Workers)
ASSUME NoneAssumption == None \notin Clients \cup Events \cup Workers \cup {MainThread}

VARIABLES
    events, queue_mutex, client, ctx, refs, replies, argv, clientState, gil, pc, cur,
    dict, life, content, leaked, req, obj, out,
    step,      \* where each thread is in the command it executes
    sender,    \* the client that sent the command of each event
    command,   \* that command: event::argv
    answer     \* (History) the answer decided on for it, or "none"

Threads == Workers \cup {MainThread}

\* The global lock, as far as commands are concerned.
KeyspaceLock == IF gil = MainThread /\ step[MainThread] = "idle" THEN None ELSE gil

Queue == INSTANCE EventQueue

Commands == INSTANCE SkipListCommands WITH pc <- step, gil <- KeyspaceLock

ASSUME RequestsAssumption ==
    /\ ConcRequests \subseteq Commands!Requests /\ SeqRequests \subseteq Commands!Requests
    /\ DelKeys \subseteq Keys
ASSUME MarkersAssumption ==
    /\ Foreign # None
    /\ Objects \cap {Foreign, None} = {}
    /\ None \notin Commands!Requests \cup Commands!Answers
    /\ Malformed \notin Values
    /\ \A s \in SUBSET Values : s # None /\ s # Foreign

queueVars == <<events, queue_mutex, client, ctx, refs, replies, argv, clientState, gil,
               pc, cur>>
commandVars == <<dict, life, content, leaked, req, obj, out, step>>
requestVars == <<sender, command, answer>>
vars == <<queueVars, commandVars, requestVars>>

Init ==
    /\ Queue!Init
    /\ dict \in [Keys -> {None, Foreign}]
    /\ life = [o \in Objects |-> "unused"]
    /\ content = [o \in Objects |-> {}]
    /\ leaked = {}
    /\ req = [t \in Threads |-> None]
    /\ obj = [t \in Threads |-> None]
    /\ out = [t \in Threads |-> "none"]
    /\ step = [t \in Threads |-> "idle"]
    /\ sender = [e \in Events |-> None]
    /\ command = [e \in Events |-> None]
    /\ answer = [e \in Events |-> "none"]

-----------------------------------------------------------------------------
(* A client sends a command; the handler keeps its arguments in the event. *)

Send(c, e, r) ==
    /\ sender' = [sender EXCEPT ![e] = c]
    /\ command' = [command EXCEPT ![e] = r]
    /\ UNCHANGED <<commandVars, answer>>

\* The event loop is not in the middle of a DEL.
Idle == step[MainThread] # "del"

ConcHandler(c, e) ==
    /\ Idle /\ Queue!ConcHandler(c, e)
    /\ \E r \in ConcRequests : Send(c, e, r)

SeqHandler(c, e) ==
    /\ Idle /\ Queue!SeqHandler(c, e)
    /\ \E r \in SeqRequests : Send(c, e, r)

\* Redis's own DEL comes in through the same event loop.
DelEnter ==
    /\ pc[MainThread] = "serve"
    /\ UNCHANGED <<queueVars, requestVars>>
    /\ Commands!DelEnter

Del(k) ==
    /\ UNCHANGED <<queueVars, requestVars>>
    /\ Commands!Del(k)

\* What the queue does without looking at a command.
Transport ==
    /\ \/ Idle /\ Queue!Server
       \/ Queue!Enqueue \/ Queue!SeqReturn
       \/ \E w \in Workers : Queue!Dequeue(w)
       \/ \E t \in Threads : Queue!Drop(t)
    /\ UNCHANGED <<commandVars, requestVars>>

-----------------------------------------------------------------------------
(* execute().                                                              *)

\* Thread t moves on in the body it executes, which touches neither the queue
\* nor any event but its own.
At(t, from, to) ==
    /\ pc[t] = from
    /\ pc' = [pc EXCEPT ![t] = to]
    /\ UNCHANGED <<events, queue_mutex, client, ctx, refs, argv, clientState, cur>>

SendReply(t) == replies' = [replies EXCEPT ![cur[t]] = @ + 1]

\* (Mutant) the lock is taken whatever thread_safe says.
TakesLockUnguarded(e) ==
    command[e].op \in {"create", "delete"} /\ command[e].val # Malformed

\* (Mutant) the lock is taken before the arity is looked at.
TakesLockFirst(e) == ~Queue!ThreadSafe(e) /\ command[e].op \in {"create", "delete"}

\* create and delete take the lock, unless thread_safe or the arity is wrong.
TakesLock(e) ==
    /\ ~Queue!ThreadSafe(e)
    /\ command[e].op \in {"create", "delete"}
    /\ command[e].val # Malformed

Begin(t) ==
    /\ At(t, "exec", IF TakesLock(cur[t]) THEN "wantgil" ELSE "body")
    /\ UNCHANGED <<gil, replies, requestVars>>
    /\ IF t = MainThread THEN Commands!SeqCommand ELSE Commands!ConcCommand(t)
    /\ req'[t] = command[cur[t]]

LockGil(t) ==
    /\ gil = None
    /\ gil' = t
    /\ At(t, "wantgil", "locked")
    /\ UNCHANGED <<replies, requestVars>>
    /\ Commands!Lock(t)

\* A step of the command on its way to an answer.
Compute(t) ==
    /\ pc[t] \in {"body", "locked"}
    /\ UNCHANGED <<queueVars, sender, command>>
    /\ Commands!Execute(t)
    /\ step'[t] # "idle"
    /\ answer' = [answer EXCEPT ![cur[t]] = out'[t]]

\* With the lock: an error is answered before the unlock.
ReplyLocked(t) ==
    /\ step[t] = "finish" /\ out[t] # "ok"
    /\ At(t, "locked", "lockedReplied")
    /\ SendReply(t)
    /\ UNCHANGED <<gil, commandVars, requestVars>>

UnlockReplied(t) ==
    /\ At(t, "lockedReplied", "done")
    /\ gil' = None
    /\ UNCHANGED <<replies, requestVars>>
    /\ Commands!Finish(t)

\* (Mutant) create releases the lock before it sets the key.
UnlockEarly(t) ==
    /\ step[t] \in {"link", "unlink"}
    /\ At(t, "locked", "body")
    /\ gil' = None
    /\ UNCHANGED <<replies, commandVars, requestVars>>

\* ... and success after it.
Unlock(t) ==
    /\ step[t] = "finish" /\ out[t] = "ok"
    /\ At(t, "locked", "body")
    /\ gil' = None
    /\ UNCHANGED <<replies, requestVars>>
    /\ Commands!Finish(t)

ReplyUnlocked(t) ==
    /\ step[t] = "idle"
    /\ At(t, "body", "done")
    /\ SendReply(t)
    /\ UNCHANGED <<gil, commandVars, requestVars>>

\* Without the lock there is only the reply.
Reply(t) ==
    /\ step[t] = "finish"
    /\ At(t, "body", "done")
    /\ SendReply(t)
    /\ UNCHANGED <<gil, requestVars>>
    /\ Commands!Finish(t)

-----------------------------------------------------------------------------
Execute(t) ==
    \/ Begin(t) \/ LockGil(t) \/ Compute(t)
    \/ ReplyLocked(t) \/ UnlockReplied(t)
    \/ Unlock(t) \/ ReplyUnlocked(t) \/ Reply(t)

Next ==
    \/ \E c \in Clients, e \in Events : ConcHandler(c, e) \/ SeqHandler(c, e)
    \/ DelEnter
    \/ \E k \in DelKeys : Del(k)
    \/ Transport
    \/ \E t \in Threads : Execute(t)

Spec == Init /\ [][Next]_vars

-----------------------------------------------------------------------------
(***************************************************************************)
(* Properties.                                                             *)
(***************************************************************************)

\* The queue's view of execute(), which enters it anywhere, locks where
\* thread_safe allows and answers once, covers every path through the commands:
\* what is shown about the queue holds for the server.
ImplementsQueue == Queue!Spec

\* And no path is missing: a thread inside execute() always has a next step that
\* its place in the body, its command and the lock agree on; it waits for
\* nothing but the lock.
ExecuteGoesOn ==
    \A t \in Threads :
        \/ pc[t] \in {"exec", "body", "locked", "lockedReplied"}
        \/ pc[t] = "wantgil" /\ gil = None
        => ENABLED Execute(t)

\* The commands' view of the locks, in which a command arrives out of nowhere,
\* covers what the queue, the handlers and the event loop do with the threads:
\* what is shown about the commands holds for the server.
ImplementsCommands == Commands!Spec

\* A command is outstanding from the time the server accepts it until its
\* client is let go, whatever becomes of the connection.
Outstanding(e) == argv[e] \in {"held", "lost"}

Sent(c) == {e \in Events : sender[e] = c /\ Outstanding(e)}

Clientwise(f) ==
    [c \in Clients |-> IF \E e \in Sent(c) : f[e] # "none"
                       THEN f[CHOOSE e \in Sent(c) : TRUE] ELSE None]

Abstract == INSTANCE KeyedSets WITH
    Threads  <- Clients,
    Requests <- ConcRequests \cup SeqRequests,
    Missing  <- None,
    Idle     <- None,
    sets     <- [k \in Keys |-> IF dict[k] \in Objects THEN content[dict[k]] ELSE dict[k]],
    pending  <- [c \in Clients |-> IF Sent(c) = {} THEN None
                                   ELSE command[CHOOSE e \in Sent(c) : TRUE]],
    answer   <- Clientwise(answer)

\* For the clients, each with one command at a time, every command acts at one
\* instant between its acceptance and its answer: a client finds what it was
\* told is there, and no queueing, lock or disconnection shows through.
ImplementsKeyedSets == Abstract!KSpec

=============================================================================
