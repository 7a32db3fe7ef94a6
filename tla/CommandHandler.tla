---------------------------- MODULE CommandHandler ----------------------------
(***************************************************************************)
(* CommandHandlerP: the commands the simulator sends to a node.  The       *)
(* receive event keeps the buffer it is given and hands the radio one of   *)
(* the pool; a task runs the commands one by one and puts their buffers    *)
(* back.  A buffer keeps its content until the radio writes it again.      *)
(* What the commands do is left to the module that extends this one.       *)
(***************************************************************************)
EXTENDS Naturals, Sequences, FiniteSets, SequencesExt

CONSTANTS
    POOL,     \* buffers of the pool and entries of the queue (20)
    Scripts,  \* the sets of commands a node may be given, in any order
    Noise     \* what a packet that is no command leaves in a buffer

\* The commands, by what the handler of their event does: print something or
\* ping (all "dump" here), open a listening socket, a transfer or a chat
\* connection, send a chat message, close a connection.
CommandIds == {"dump", "server", "bytes", "hello", "msg", "close"}

ASSUME HandlerAssumption ==
    /\ POOL \in Nat \ {0}
    /\ \A script \in Scripts : Noise \notin script /\ \A cmd \in script : cmd.id \in CommandIds

VARIABLES
    todo,      \* the commands still to come
    radio,     \* the buffer the radio receives into
    pool,
    queue,
    posted,    \* processCommand is posted
    content,   \* what each buffer holds
    accepted,  \* history: the commands accepted and not run yet
    count      \* history: how many were accepted

handler == <<todo, radio, pool, queue, posted, content, accepted, count>>

Buffers  == 1 .. POOL + 1
Commands == UNION Scripts

\* Receive.receive: with the pool empty the radio keeps its buffer and the command
\* is lost.  Mutants: the radio keeps its buffer although it has been queued; the
\* pool keeps the buffer it gives.
Receive(cmd, next, left) ==
    /\ cmd \in todo /\ todo' = todo \ {cmd}
    /\ content' = [content EXCEPT ![radio] = cmd]
    /\ \/ /\ pool # << >>
          /\ queue' = Append(queue, radio)
          /\ posted' = TRUE
          /\ radio' = next
          /\ pool' = left
          /\ accepted' = Append(accepted, cmd)
          /\ count' = count + 1
       \/ /\ pool = << >>
          /\ UNCHANGED <<radio, pool, queue, posted, accepted, count>>
ReceiveSameBuffer(cmd) == Receive(cmd, radio, Tail(pool))
ReceiveStillFree(cmd)  == Receive(cmd, Head(pool), pool)
ReceiveCommand(cmd)    == Receive(cmd, Head(pool), Tail(pool))

\* External: the radio receives another packet, whose handler gives the buffer back.
OtherPacket ==
    /\ content' = [content EXCEPT ![radio] = Noise]
    /\ UNCHANGED <<todo, radio, pool, queue, posted, accepted, count>>

\* processCommand, but for what the command Running does, which was accepted as
\* number RunningNumber.
Running       == content[Head(queue)]
RunningNumber == count - Len(queue) + 1

ProcessCommand ==
    /\ posted /\ queue # << >>
    /\ queue' = Tail(queue)
    /\ pool' = Append(pool, Head(queue))
    /\ posted' = (Tail(queue) # << >>)
    /\ accepted' = Tail(accepted)
    /\ UNCHANGED <<todo, radio, content, count>>

HandlerInit ==
    /\ todo \in Scripts
    /\ radio = POOL + 1
    /\ pool = [i \in 1 .. POOL |-> i]
    /\ queue = << >> /\ posted = FALSE
    /\ content = [b \in Buffers |-> Noise]
    /\ accepted = << >>
    /\ count = 0

HandlerTypeOK ==
    /\ todo \subseteq Commands
    /\ radio \in Buffers /\ pool \in Seq(Buffers) /\ queue \in Seq(Buffers)
    /\ Len(pool) <= POOL /\ Len(queue) <= POOL
    /\ posted \in BOOLEAN
    /\ content \in [Buffers -> Commands \cup {Noise}]
    /\ accepted \in Seq(Commands)
    /\ count \in Nat

\* Every buffer is with the radio, in the pool or in the queue, and there once; the
\* queue holds the commands accepted, in order, whatever else the radio receives;
\* and the task that runs them is posted.
CommandsKept ==
    /\ IsInjective(<<radio>> \o pool \o queue)
    /\ Len(pool) + Len(queue) = POOL
    /\ [i \in 1 .. Len(queue) |-> content[queue[i]]] = accepted
    /\ queue # << >> => posted
=============================================================================
