----------------------------- MODULE ConnectionProof -----------------------------
(***************************************************************************)
(* Theorems about a node's commands and connections, for every size of the *)
(* pool, of the caches and of a write and every script: that no command    *)
(* accepted is lost, overwritten or run out of turn, the types, and that a *)
(* connection gets what its command said.                                  *)
(***************************************************************************)
EXTENDS Connection, FiniteSetTheorems, WellFoundedInduction, TLAPS

-----------------------------------------------------------------------------
(* Sequences of buffers *)

\* The entries of a sequence with one more value.
LEMMA AppendEntries ==
    ASSUME NEW S, NEW s \in Seq(S), NEW e \in S
    PROVE  /\ Append(s, e) \in Seq(S) /\ Len(Append(s, e)) = Len(s) + 1 /\ Len(s) \in Nat
           /\ \A i \in 1 .. Len(s) : Append(s, e)[i] = s[i]
           /\ Append(s, e)[Len(s) + 1] = e
    OBVIOUS

\* The entries of a tail are those of the sequence, one place earlier.
LEMMA TailEntries ==
    ASSUME NEW S, NEW s \in Seq(S), s # << >>
    PROVE  /\ Tail(s) \in Seq(S) /\ Len(Tail(s)) = Len(s) - 1 /\ Len(s) \in Nat
           /\ \A i \in 1 .. Len(s) - 1 : Tail(s)[i] = s[i + 1]
           /\ 1 \in 1 .. Len(s) /\ Head(s) = s[1] /\ Head(s) \in S
    OBVIOUS

-----------------------------------------------------------------------------
(* The inductive invariant *)

\* No buffer is in two places.
Apart ==
    /\ \A i, j \in 1 .. Len(pool) : pool[i] = pool[j] => i = j
    /\ \A i, j \in 1 .. Len(queue) : queue[i] = queue[j] => i = j
    /\ \A i \in 1 .. Len(pool), j \in 1 .. Len(queue) : pool[i] # queue[j]
    /\ \A i \in 1 .. Len(pool) : pool[i] # radio
    /\ \A i \in 1 .. Len(queue) : queue[i] # radio

\* The buffers of the queue hold the commands accepted.
Listed ==
    /\ Len(accepted) = Len(queue)
    /\ \A i \in 1 .. Len(queue) : content[queue[i]] = accepted[i]

CommandsInv ==
    /\ HandlerTypeOK
    /\ Apart
    /\ Listed
    /\ Len(pool) + Len(queue) = POOL
    /\ queue # << >> => posted

LEMMA InvInit == Init => CommandsInv
<1> SUFFICES ASSUME HandlerInit PROVE CommandsInv
    BY DEF Init
<1>1. POOL \in Nat /\ radio \in Buffers /\ radio = POOL + 1
    BY HandlerAssumption DEF HandlerInit, Buffers
<1>2. /\ pool \in Seq(Buffers) /\ Len(pool) = POOL
      /\ \A i \in 1 .. POOL : pool[i] = i
    BY <1>1 DEF HandlerInit, Buffers
<1>3. queue \in Seq(Buffers) /\ Len(queue) = 0 /\ Len(accepted) = 0
    BY DEF HandlerInit
<1>4. todo \subseteq Commands /\ accepted \in Seq(Commands)
    BY DEF HandlerInit, Commands
<1>5. HandlerTypeOK
    <2>1. Len(pool) <= POOL /\ Len(queue) <= POOL
        BY <1>1, <1>2, <1>3
    <2>2. content \in [Buffers -> Commands \cup {Noise}] /\ posted \in BOOLEAN /\ count \in Nat
        BY DEF HandlerInit
    <2> QED
        BY <1>1, <1>2, <1>3, <1>4, <2>1, <2>2 DEF HandlerTypeOK
<1>6. Apart
    BY <1>1, <1>2, <1>3 DEF Apart
<1>7. Listed
    BY <1>3 DEF Listed
<1> QED
    BY <1>1, <1>2, <1>3, <1>5, <1>6, <1>7 DEF HandlerInit, CommandsInv

\* A command is received: its buffer is queued and the radio gets one of the pool,
\* or, with the pool empty, it is lost and only the radio's buffer has changed.
LEMMA InvReceive ==
    ASSUME CommandsInv, NEW cmd \in todo, ReceiveCommand(cmd)
    PROVE  CommandsInv'
<1>0. /\ radio \in Buffers /\ pool \in Seq(Buffers) /\ queue \in Seq(Buffers)
      /\ content \in [Buffers -> Commands \cup {Noise}]
      /\ accepted \in Seq(Commands) /\ cmd \in Commands
      /\ Len(pool) + Len(queue) = POOL /\ count \in Nat /\ POOL \in Nat
    BY HandlerAssumption DEF ReceiveCommand, Receive, CommandsInv, HandlerTypeOK
<1>1. /\ content' \in [Buffers -> Commands \cup {Noise}]
      /\ content'[radio] = cmd
      /\ \A b \in Buffers : b # radio => content'[b] = content[b]
    BY <1>0 DEF ReceiveCommand, Receive
<1>2. \A i \in 1 .. Len(queue) : queue[i] \in Buffers /\ content'[queue[i]] = accepted[i]
    BY <1>0, <1>1 DEF CommandsInv, Apart, Listed
<1>3. todo' \subseteq Commands
    BY DEF ReceiveCommand, Receive, CommandsInv, HandlerTypeOK
<1>4. CASE pool = << >> /\ UNCHANGED <<radio, pool, queue, posted, accepted, count>>
    BY <1>1, <1>2, <1>3, <1>4 DEF CommandsInv, HandlerTypeOK, Apart, Listed, Buffers, Commands
<1>5. CASE /\ pool # << >>
           /\ queue' = Append(queue, radio) /\ posted' = TRUE
           /\ radio' = Head(pool) /\ pool' = Tail(pool)
           /\ accepted' = Append(accepted, cmd) /\ count' = count + 1
    <2>1. /\ pool' \in Seq(Buffers) /\ Len(pool') = Len(pool) - 1 /\ Len(pool) \in Nat
          /\ \A i \in 1 .. Len(pool) - 1 : pool'[i] = pool[i + 1]
          /\ 1 \in 1 .. Len(pool) /\ radio' = pool[1] /\ radio' \in Buffers
        BY <1>0, <1>5, TailEntries
    <2>2. /\ queue' \in Seq(Buffers) /\ Len(queue') = Len(queue) + 1 /\ Len(queue) \in Nat
          /\ \A i \in 1 .. Len(queue) : queue'[i] = queue[i]
          /\ queue'[Len(queue) + 1] = radio
        BY <1>0, <1>5, AppendEntries
    <2>3. /\ accepted' \in Seq(Commands) /\ Len(accepted') = Len(accepted) + 1
          /\ \A i \in 1 .. Len(accepted) : accepted'[i] = accepted[i]
          /\ accepted'[Len(accepted) + 1] = cmd
        BY <1>0, <1>5, AppendEntries
    <2>4. HandlerTypeOK'
        <3>1. Len(pool') <= POOL /\ Len(queue') <= POOL
            BY <1>0, <2>1, <2>2
        <3>2. Buffers' = Buffers /\ Commands' = Commands
            BY DEF Buffers, Commands
        <3> QED
            BY <1>0, <1>1, <1>3, <1>5, <2>1, <2>2, <2>3, <3>1, <3>2 DEF HandlerTypeOK
    <2>5. Apart'
        <3>1. \A i \in 1 .. Len(pool') : i + 1 \in 1 .. Len(pool) /\ pool'[i] = pool[i + 1]
            BY <2>1
        <3>2. \A i, j \in 1 .. Len(pool') : pool'[i] = pool'[j] => i = j
            <4> TAKE i, j \in 1 .. Len(pool')
            <4> HAVE pool'[i] = pool'[j]
            <4>1. i + 1 = j + 1
                BY <3>1 DEF CommandsInv, Apart
            <4> QED
                BY <4>1
        <3>3. \A i \in 1 .. Len(pool') : pool'[i] # radio' /\ pool'[i] # radio
            <4> TAKE i \in 1 .. Len(pool')
            <4>1. i + 1 # 1
                OBVIOUS
            <4> QED
                BY <2>1, <3>1, <4>1 DEF CommandsInv, Apart
        <3>4. \A j \in 1 .. Len(queue') :
                \/ j \in 1 .. Len(queue) /\ queue'[j] = queue[j]
                \/ j = Len(queue) + 1 /\ queue'[j] = radio
            BY <2>2
        <3>5. \A i, j \in 1 .. Len(queue') : queue'[i] = queue'[j] => i = j
            BY <3>4 DEF CommandsInv, Apart
        <3>6. \A i \in 1 .. Len(pool'), j \in 1 .. Len(queue') : pool'[i] # queue'[j]
            BY <3>1, <3>3, <3>4 DEF CommandsInv, Apart
        <3>7. \A j \in 1 .. Len(queue') : queue'[j] # radio'
            BY <2>1, <3>4 DEF CommandsInv, Apart
        <3> QED
            BY <3>2, <3>3, <3>5, <3>6, <3>7 DEF Apart
    <2>6. Listed'
        <3>1. Len(accepted) = Len(queue)
            BY DEF CommandsInv, Listed
        <3>2. \A i \in 1 .. Len(queue) : content'[queue'[i]] = accepted'[i]
            BY <1>2, <2>2, <2>3, <3>1
        <3>3. content'[queue'[Len(queue) + 1]] = accepted'[Len(queue) + 1]
            BY <1>1, <2>2, <2>3, <3>1
        <3> QED
            BY <2>2, <2>3, <3>1, <3>2, <3>3 DEF Listed
    <2>7. Len(pool') + Len(queue') = POOL
        <3>1. Len(pool) + Len(queue) = POOL
            BY <1>0
        <3>2. Len(pool') = Len(pool) - 1 /\ Len(queue') = Len(queue) + 1
            BY <2>1, <2>2
        <3>3. Len(pool) \in Nat /\ Len(queue) \in Nat
            BY <2>1, <2>2
        <3> QED
            BY <3>1, <3>2, <3>3
    <2> QED
        BY <1>5, <2>4, <2>5, <2>6, <2>7 DEF CommandsInv
<1> QED
    BY <1>4, <1>5 DEF ReceiveCommand, Receive

\* Another packet only writes the buffer the radio has, which is not queued.
LEMMA InvOtherPacket == CommandsInv /\ OtherPacket => CommandsInv'
<1> SUFFICES ASSUME CommandsInv, OtherPacket PROVE CommandsInv'
    OBVIOUS
<1>1. /\ radio \in Buffers /\ queue \in Seq(Buffers)
      /\ content \in [Buffers -> Commands \cup {Noise}]
    BY DEF CommandsInv, HandlerTypeOK
<1>2. content' \in [Buffers -> Commands \cup {Noise}]
    BY <1>1 DEF OtherPacket
<1>3. \A i \in 1 .. Len(queue) : content'[queue[i]] = accepted[i]
    BY <1>1 DEF OtherPacket, CommandsInv, Apart, Listed
<1> QED
    BY <1>2, <1>3 DEF OtherPacket, CommandsInv, HandlerTypeOK, Apart, Listed, Buffers, Commands

\* A command is run: its buffer is the first of the queue and becomes the last of
\* the pool.
LEMMA InvProcess == CommandsInv /\ ProcessCommand => CommandsInv'
<1> SUFFICES ASSUME CommandsInv, ProcessCommand PROVE CommandsInv'
    OBVIOUS
<1>0. /\ pool \in Seq(Buffers) /\ queue \in Seq(Buffers) /\ accepted \in Seq(Commands)
      /\ Len(accepted) = Len(queue) /\ accepted # << >>
      /\ Len(pool) + Len(queue) = POOL /\ POOL \in Nat
    BY HandlerAssumption DEF ProcessCommand, CommandsInv, HandlerTypeOK, Listed
<1>1. /\ queue' \in Seq(Buffers) /\ Len(queue') = Len(queue) - 1 /\ Len(queue) \in Nat
      /\ \A i \in 1 .. Len(queue) - 1 : queue'[i] = queue[i + 1]
      /\ 1 \in 1 .. Len(queue) /\ Head(queue) = queue[1] /\ Head(queue) \in Buffers
    BY <1>0, TailEntries DEF ProcessCommand
<1>2. /\ pool' \in Seq(Buffers) /\ Len(pool') = Len(pool) + 1 /\ Len(pool) \in Nat
      /\ \A i \in 1 .. Len(pool) : pool'[i] = pool[i]
      /\ pool'[Len(pool) + 1] = queue[1]
    BY <1>0, <1>1, AppendEntries DEF ProcessCommand
<1>3. /\ accepted' \in Seq(Commands) /\ Len(accepted') = Len(accepted) - 1
      /\ \A i \in 1 .. Len(accepted) - 1 : accepted'[i] = accepted[i + 1]
    BY <1>0, TailEntries DEF ProcessCommand
<1>4. Len(pool') + Len(queue') = POOL
    <2>1. Len(pool) + Len(queue) = POOL
        BY <1>0
    <2>2. Len(pool') = Len(pool) + 1 /\ Len(queue') = Len(queue) - 1
        BY <1>1, <1>2
    <2>3. Len(pool) \in Nat /\ Len(queue) \in Nat
        BY <1>1, <1>2
    <2> QED
        BY <2>1, <2>2, <2>3
<1>5. HandlerTypeOK'
    <2>1. Len(pool') <= POOL /\ Len(queue') <= POOL
        BY <1>1, <1>2, <1>4
    <2> QED
        BY <1>1, <1>2, <1>3, <2>1 DEF ProcessCommand, CommandsInv, HandlerTypeOK, Buffers, Commands
<1>6. \A j \in 1 .. Len(queue') : j + 1 \in 2 .. Len(queue) /\ queue'[j] = queue[j + 1]
    BY <1>1
<1>7. Apart'
    <2>1. \A i \in 1 .. Len(pool') :
            \/ i \in 1 .. Len(pool) /\ pool'[i] = pool[i]
            \/ i = Len(pool) + 1 /\ pool'[i] = queue[1]
        BY <1>2
    <2>2. \A i, j \in 1 .. Len(pool') : pool'[i] = pool'[j] => i = j
        BY <1>1, <2>1 DEF CommandsInv, Apart
    <2>3. \A i, j \in 1 .. Len(queue') : queue'[i] = queue'[j] => i = j
        <3> TAKE i, j \in 1 .. Len(queue')
        <3> HAVE queue'[i] = queue'[j]
        <3>1. i + 1 \in 1 .. Len(queue) /\ j + 1 \in 1 .. Len(queue)
            BY <1>1
        <3>2. i + 1 = j + 1
            BY <1>6, <3>1 DEF CommandsInv, Apart
        <3> QED
            BY <3>2
    <2>4. \A j \in 1 .. Len(queue') : queue'[j] # queue[1] /\ queue'[j] # radio
        <3> TAKE j \in 1 .. Len(queue')
        <3>1. j + 1 \in 1 .. Len(queue) /\ j + 1 # 1
            BY <1>1
        <3> QED
            BY <1>1, <1>6, <3>1 DEF CommandsInv, Apart
    <2>5. \A i \in 1 .. Len(pool'), j \in 1 .. Len(queue') : pool'[i] # queue'[j]
        <3> TAKE i \in 1 .. Len(pool'), j \in 1 .. Len(queue')
        <3>1. j + 1 \in 1 .. Len(queue)
            BY <1>1
        <3> QED
            BY <1>6, <2>1, <2>4, <3>1 DEF CommandsInv, Apart
    <2>6. \A i \in 1 .. Len(pool') : pool'[i] # radio
        BY <1>1, <2>1 DEF CommandsInv, Apart
    <2> QED
        BY <2>2, <2>3, <2>4, <2>5, <2>6 DEF ProcessCommand, Apart
<1>8. Listed'
    <2>1. \A i \in 1 .. Len(queue') : content'[queue'[i]] = accepted'[i]
        <3> TAKE i \in 1 .. Len(queue')
        <3>1. i + 1 \in 1 .. Len(queue) /\ i \in 1 .. Len(accepted) - 1
            BY <1>0, <1>1
        <3> QED
            BY <1>3, <1>6, <3>1 DEF ProcessCommand, CommandsInv, Listed
    <2> QED
        BY <1>0, <1>1, <1>3, <2>1 DEF Listed
<1>9. queue' # << >> => posted'
    BY DEF ProcessCommand
<1> QED
    BY <1>4, <1>5, <1>7, <1>8, <1>9 DEF CommandsInv

\* What the commands do, and the timers and the network, leave the handler alone.
LEMMA InvNext == CommandsInv /\ [Next]_vars => CommandsInv'
<1> SUFFICES ASSUME CommandsInv, [Next]_vars PROVE CommandsInv'
    OBVIOUS
<1>1. ASSUME NEW cmd \in todo, ReceiveCommand(cmd) PROVE CommandsInv'
    BY <1>1, InvReceive
<1>2. CASE OtherPacket
    BY <1>2, InvOtherPacket
<1>3. CASE RunCommand
    BY <1>3, InvProcess DEF RunCommand
<1>4. CASE UNCHANGED handler
    BY <1>4 DEF handler, CommandsInv, HandlerTypeOK, Apart, Listed, Buffers, Commands
<1>5. CASE ConnectTimerFired
    BY <1>4, <1>5 DEF ConnectTimerFired
<1>6. CASE ConnectTimerStringFired
    BY <1>4, <1>6 DEF ConnectTimerStringFired
<1>7. CASE AcceptTimerFired
    BY <1>4, <1>7 DEF AcceptTimerFired
<1>8. ASSUME NEW fd \in Fds, Connected(fd) \/ ReceiveFin(fd) PROVE CommandsInv'
    BY <1>4, <1>8 DEF Connected, ReceiveFin
<1>9. ASSUME NEW port \in Ports, ReceiveSyn(port) PROVE CommandsInv'
    BY <1>4, <1>9 DEF ReceiveSyn
<1>10. CASE UNCHANGED vars
    BY <1>4, <1>10 DEF vars
<1> QED
    BY <1>1, <1>2, <1>3, <1>5, <1>6, <1>7, <1>8, <1>9, <1>10 DEF Next

\* The invariant says of the three places what CommandsKept says of their row.
LEMMA InvKept == CommandsInv => CommandsKept
<1> SUFFICES ASSUME CommandsInv PROVE CommandsKept
    OBVIOUS
<1> DEFINE row == <<radio>> \o pool \o queue
           p == Len(pool)
           q == Len(queue)
<1>0. /\ pool \in Seq(Buffers) /\ queue \in Seq(Buffers) /\ radio \in Buffers
      /\ p \in Nat /\ q \in Nat
    BY DEF CommandsInv, HandlerTypeOK
<1>1. /\ DOMAIN row = 1 .. p + q + 1
      /\ row[1] = radio
      /\ \A i \in 1 .. p : row[i + 1] = pool[i]
      /\ \A i \in 1 .. q : row[i + p + 1] = queue[i]
    BY <1>0
<1>2. IsInjective(row)
    <2> SUFFICES ASSUME NEW a \in 1 .. p + q + 1, NEW b \in 1 .. p + q + 1,
                        row[a] = row[b], a < b
                 PROVE  FALSE
        <3> HIDE DEF row
        <3> QED
            BY <1>0, <1>1 DEF IsInjective
    <2> HIDE DEF row, p, q
    <2>1. \/ b - 1 \in 1 .. p /\ row[b] = pool[b - 1]
          \/ b - p - 1 \in 1 .. q /\ row[b] = queue[b - p - 1]
        <3>1. b \in 2 .. p + 1 \/ b \in p + 2 .. p + q + 1
            BY <1>0
        <3>2. (b - 1) + 1 = b /\ (b - p - 1) + p + 1 = b
            BY <1>0
        <3>3. CASE b \in 2 .. p + 1
            BY <1>0, <1>1, <3>2, <3>3
        <3>4. CASE b \in p + 2 .. p + q + 1
            <4>1. b - p - 1 \in 1 .. q
                BY <1>0, <3>4
            <4> QED
                BY <1>1, <3>2, <4>1
        <3> QED
            BY <3>1, <3>3, <3>4
    <2>2. CASE a = 1
        BY <1>1, <2>1, <2>2 DEF CommandsInv, Apart, p, q
    <2>3. CASE a - 1 \in 1 .. p
        <3>1. row[a] = pool[a - 1] /\ a - 1 # b - 1
            BY <1>0, <1>1, <2>3
        <3> QED
            BY <2>1, <2>3, <3>1 DEF CommandsInv, Apart, p, q
    <2>4. CASE a - p - 1 \in 1 .. q
        <3>1. (a - p - 1) + p + 1 = a /\ a - p - 1 # b - p - 1 /\ b - 1 \notin 1 .. p
            BY <1>0, <2>4
        <3>2. row[a] = queue[a - p - 1]
            BY <1>1, <2>4, <3>1
        <3> QED
            BY <2>1, <2>4, <3>1, <3>2 DEF CommandsInv, Apart, p, q
    <2> QED
        BY <1>0, <2>2, <2>3, <2>4
<1>3. [i \in 1 .. Len(queue) |-> content[queue[i]]] = accepted
    BY <1>0 DEF CommandsInv, HandlerTypeOK, Listed
<1> QED
    BY <1>2, <1>3 DEF CommandsKept, CommandsInv

\* The command handler's state keeps its type: the buffers it holds are its own and
\* neither the pool nor the queue ever holds more than POOL.
THEOREM HandlerTypeCorrect == Spec => []HandlerTypeOK
<1>1. CommandsInv => HandlerTypeOK
    BY DEF CommandsInv
<1> QED
    BY <1>1, InvInit, InvNext, PTL DEF Spec

\* Receive.receive and processCommand lose no command they accepted: every buffer is
\* in one place, the queue holds the commands accepted in their order, and the task
\* that runs them is posted.
THEOREM CommandsKeptAlways == Spec => []CommandsKept
<1> QED
    BY InvInit, InvNext, InvKept, PTL DEF Spec

-----------------------------------------------------------------------------
(* Places in the tables *)

\* A set of naturals has a least element.
LEMMA MinOf ==
    ASSUME NEW S \in SUBSET Nat, S # {}
    PROVE  Min(S) \in S /\ \A y \in S : Min(S) <= y
<1>1. IsWellFoundedOn(OpToRel(<, Nat), Nat)
    BY NatLessThanWellFounded
<1>2. PICK x \in S : \A y \in S : ~(<<y, x>> \in OpToRel(<, Nat))
    BY <1>1, WFMin
<1>3. ASSUME NEW y \in S, y < x PROVE <<y, x>> \in OpToRel(<, Nat)
    BY <1>3 DEF OpToRel
<1>4. \A y \in S : x \in Nat /\ y \in Nat /\ ~(y < x)
    BY <1>2, <1>3
<1>5. \A y \in S : x <= y
    BY <1>4
<1> QED
    BY <1>5 DEF Min

\* A bounded one has a greatest element.
LEMMA MaxOf ==
    ASSUME NEW n \in Nat, NEW S \in SUBSET (0 .. n), S # {}
    PROVE  Max(S) \in S
<1> DEFINE T == {k \in Nat : n - k \in S}
<1>1. T \in SUBSET Nat /\ T # {}
    <2>1. PICK x \in S : TRUE
        OBVIOUS
    <2>2. n - x \in Nat /\ n - (n - x) = x
        OBVIOUS
    <2> QED
        BY <2>1, <2>2
<1> DEFINE m == Min(T)
<1>2. m \in T /\ \A y \in T : m <= y
    BY <1>1, MinOf
<1>3. m \in Nat /\ n - m \in S
    BY <1>2
<1>4. ASSUME NEW y \in S PROVE n - m >= y
    <2>1. n - y \in Nat /\ n - (n - y) = y
        OBVIOUS
    <2>2. n - y \in T
        BY <2>1
    <2>3. m <= n - y
        BY <1>2, <2>2
    <2> QED
        BY <1>3, <2>1, <2>3
<1> QED
    BY <1>3, <1>4 DEF Max

LEMMA EntriesRange == CACHE \in Nat /\ CACHE # 0 /\ Entries = 1 .. CACHE
    BY ConnectionAssumption DEF Entries

\* An entry that is found is empty.
LEMMA SlotEmpty ==
    ASSUME NEW table, NEW i \in Entries
    PROVE  /\ Slot(table, i) \in Nat
           /\ Slot(table, i) \in Entries => table[Slot(table, i)].fd = 0
<1> DEFINE S == {j \in i .. CACHE : table[j].fd = 0} \cup {CACHE + 1}
<1>1. CACHE \in Nat /\ Entries = 1 .. CACHE /\ i \in Nat
    BY EntriesRange
<1>2. S \in SUBSET Nat /\ S # {}
    BY <1>1
<1>3. Slot(table, i) \in S
    BY <1>2, MinOf DEF Slot
<1>4. CACHE + 1 \notin Entries
    BY <1>1
<1> QED
    BY <1>2, <1>3, <1>4

-----------------------------------------------------------------------------
(* The sockets and their entries *)

States == {"LISTEN", "SYN_SENT", "ESTABLISHED", "CLOSED"}
Conns  == {cmd.conn : cmd \in Commands} \cup {"peer"}
Taken  == Nat \cup Commands \cup {Noise}

Socket == [conn : Conns, for : Commands \cup {Accept}, state : States,
           written : Seq(Taken), number : Nat]

\* messageCache has, in each entry, a socket or none.
TableTypes(table, socks) ==
    /\ socks \in Seq(Socket)
    /\ table \in [Entries -> [fd : 0 .. Len(socks), sent : Nat, total : Nat]]

ConnectionTypes ==
    /\ TableTypes(messageCache, sockets)
    /\ stringCache \in [Entries -> Buffers \cup {NoString}]
    /\ connectTimer \in BOOLEAN /\ connectTimerString \in BOOLEAN /\ acceptTimer \in BOOLEAN
    /\ attempted \in Seq(Ports) /\ Len(attempted) <= CALLS
    /\ late \subseteq Fds

TypeInv == CommandsInv /\ Len(queue) <= count /\ ConnectionTypes

\* A table of the same length, entry by entry.
LEMMA NewTable ==
    ASSUME NEW socks \in Seq(Socket), NEW more,
           DOMAIN more = DOMAIN socks, more = [fd \in DOMAIN socks |-> more[fd]],
           \A fd \in DOMAIN socks : more[fd] \in Socket
    PROVE  more \in Seq(Socket) /\ Len(more) = Len(socks)
<1>1. DOMAIN socks = 1 .. Len(socks) /\ Len(socks) \in Nat
    OBVIOUS
<1> QED
    BY <1>1

\* One socket of a table is written again.
LEMMA ReplaceSocket ==
    ASSUME NEW socks \in Seq(Socket), NEW fd \in DOMAIN socks, NEW new \in Socket,
           NEW more, more = [socks EXCEPT ![fd] = new]
    PROVE  /\ more \in Seq(Socket) /\ Len(more) = Len(socks) /\ DOMAIN more = DOMAIN socks
           /\ \A g \in DOMAIN socks : more[g] = IF g = fd THEN new ELSE socks[g]
    OBVIOUS

\* A socket made for a command, or accepted.
LEMMA NewSocketType ==
    ASSUME TypeInv, NEW conn \in Conns, NEW for \in Commands \cup {Accept}, NEW s \in States,
           queue # << >>
    PROVE  /\ NewSocket(conn, for, s) \in Socket
           /\ NewSocket(conn, for, s).for = for /\ NewSocket(conn, for, s).written = << >>
<1>1. RunningNumber \in Nat
    <2>1. Len(queue) \in Nat /\ count \in Nat /\ Len(queue) <= count
        BY DEF TypeInv, CommandsInv, HandlerTypeOK
    <2> QED
        BY <2>1 DEF RunningNumber
<1>2. << >> \in Seq(Taken)
    OBVIOUS
<1> QED
    BY <1>1, <1>2 DEF NewSocket, Socket

LEMMA AcceptedSocketType ==
    /\ NewSocket("peer", Accept, "ESTABLISHED") \in Socket
    /\ NewSocket("peer", Accept, "ESTABLISHED").for = Accept
    /\ Accept.id = "accept"
<1>1. << >> \in Seq(Taken)
    OBVIOUS
<1> QED
    BY <1>1 DEF NewSocket, Socket, Accept, States, Conns

\* A new socket is put into an entry, if there is one.
LEMMA NewEntry ==
    ASSUME NEW table, NEW socks, TableTypes(table, socks), NEW new \in Socket, NEW i \in Nat,
           NEW entry, i \in Entries => entry \in [fd : {Len(socks) + 1}, sent : Nat, total : Nat]
    PROVE  /\ TableTypes(Into(table, i, entry), Append(socks, new))
           /\ Len(Append(socks, new)) = Len(socks) + 1 /\ Len(socks) \in Nat
           /\ Append(socks, new)[Len(socks) + 1] = new
           /\ \A fd \in DOMAIN socks : Append(socks, new)[fd] = socks[fd]
<1>1. socks \in Seq(Socket) /\ Len(socks) \in Nat
      /\ table \in [Entries -> [fd : 0 .. Len(socks), sent : Nat, total : Nat]]
    BY DEF TableTypes
<1>2. /\ Append(socks, new) \in Seq(Socket) /\ Len(Append(socks, new)) = Len(socks) + 1
      /\ Append(socks, new)[Len(socks) + 1] = new
      /\ \A fd \in DOMAIN socks : Append(socks, new)[fd] = socks[fd]
    BY <1>1
<1>3. \A x \in 0 .. Len(socks) : x \in 0 .. Len(socks) + 1
    BY <1>1
<1>4. ASSUME NEW j \in Entries
      PROVE  (IF j = i THEN entry ELSE table[j]) \in [fd : 0 .. Len(socks) + 1, sent : Nat, total : Nat]
    <2>1. Len(socks) + 1 \in 0 .. Len(socks) + 1
        BY <1>1
    <2>2. CASE j = i
        BY <2>1, <2>2
    <2>3. CASE j # i
        BY <1>1, <1>3, <2>3
    <2> QED
        BY <2>2, <2>3
<1>5. Into(table, i, entry) \in [Entries -> [fd : 0 .. Len(socks) + 1, sent : Nat, total : Nat]]
    BY <1>4 DEF Into
<1> QED
    BY <1>1, <1>2, <1>5 DEF TableTypes

\* What is run is the first of the commands accepted.
LEMMA RunningAccepted ==
    ASSUME CommandsInv, queue # << >>
    PROVE  /\ accepted # << >> /\ Running = accepted[1] /\ Running \in Commands
           /\ Running.id = "bytes" => Running.transfer \in Nat
           /\ Running.id # "accept" /\ Running.conn \in Conns
<1>1. /\ queue \in Seq(Buffers) /\ accepted \in Seq(Commands) /\ Len(accepted) = Len(queue)
      /\ \A i \in 1 .. Len(queue) : content[queue[i]] = accepted[i]
    BY DEF CommandsInv, HandlerTypeOK, Listed
<1>2. 1 \in 1 .. Len(queue) /\ Head(queue) = queue[1]
    BY <1>1, TailEntries
<1>3. accepted # << >> /\ Running = accepted[1] /\ Running \in Commands
    BY <1>1, <1>2 DEF Running
<1> QED
    BY <1>3, HandlerAssumption, ConnectionAssumption DEF Commands, CommandIds, Conns

\* findSocket returns a socket of the connection, or none.
LEMMA Found ==
    ASSUME sockets \in Seq(Socket), NEW conn
    PROVE  /\ FindSocket(conn) \in 0 .. Len(sockets)
           /\ FindSocket(conn) # 0 =>
                FindSocket(conn) \in Fds /\ sockets[FindSocket(conn)].conn = conn
<1> DEFINE S == {0} \cup {fd \in Fds : sockets[fd].conn = conn}
<1>1. Len(sockets) \in Nat /\ S \in SUBSET (0 .. Len(sockets)) /\ S # {}
    BY DEF Fds
<1>2. Max(S) \in S
    BY <1>1, MaxOf
<1> QED
    BY <1>1, <1>2 DEF FindSocket

\* Writing or changing the state of a socket.
LEMMA SocketFields ==
    ASSUME NEW s \in Socket, NEW st \in States, NEW w \in Seq(Taken)
    PROVE  /\ [s EXCEPT !.state = st] \in Socket /\ [s EXCEPT !.written = w] \in Socket
           /\ [s EXCEPT !.state = st].for = s.for
           /\ [s EXCEPT !.state = st].written = s.written
           /\ [s EXCEPT !.state = st].conn = s.conn
           /\ [s EXCEPT !.state = st].number = s.number
           /\ [s EXCEPT !.written = w].for = s.for
           /\ [s EXCEPT !.written = w].written = w
           /\ [s EXCEPT !.written = w].conn = s.conn
           /\ [s EXCEPT !.written = w].number = s.number
    BY DEF Socket

LEMMA TypesServer ==
    ASSUME TypeInv, queue # << >>, TestServer(Running), late' = late
    PROVE  ConnectionTypes'
<1> DEFINE fd   == Len(sockets) + 1
           slot == Slot(messageCache, 1)
           new  == NewSocket(Running.conn, Running, "LISTEN")
           e    == [messageCache[slot] EXCEPT !.fd = fd]
<1>1. sockets' = Append(sockets, new) /\ messageCache' = Into(messageCache, slot, e)
      /\ acceptTimer' = TRUE
      /\ UNCHANGED <<stringCache, connectTimer, connectTimerString, attempted>>
    BY DEF TestServer
<1>2. new \in Socket
    BY RunningAccepted, NewSocketType DEF TypeInv, States
<1>3. slot \in Nat
    BY SlotEmpty, EntriesRange
<1>4. slot \in Entries => e \in [fd : {Len(sockets) + 1}, sent : Nat, total : Nat]
    BY DEF TypeInv, ConnectionTypes, TableTypes
<1>5. TableTypes(messageCache, sockets)
    BY DEF TypeInv, ConnectionTypes
<1> HIDE DEF new, e, slot
<1>6. TableTypes(messageCache', sockets') /\ Len(sockets') = Len(sockets) + 1 /\ Len(sockets) \in Nat
    BY <1>1, <1>2, <1>3, <1>4, <1>5, NewEntry
<1>7. Fds \subseteq Fds'
    BY <1>5, <1>6 DEF Fds, TableTypes
<1> QED
    BY <1>1, <1>6, <1>7 DEF TypeInv, ConnectionTypes, Buffers

LEMMA TypesBytes ==
    ASSUME TypeInv, queue # << >>, Running.id = "bytes", TestClientBytes(Running), late' = late
    PROVE  ConnectionTypes'
<1> DEFINE fd   == Len(sockets) + 1
           slot == Slot(messageCache, 1)
           new  == NewSocket(Running.conn, Running, "SYN_SENT")
           e    == [fd |-> fd, sent |-> 0, total |-> Running.transfer]
<1>1. sockets' = Append(sockets, new) /\ messageCache' = Into(messageCache, slot, e)
      /\ connectTimer' = TRUE
      /\ UNCHANGED <<stringCache, connectTimerString, acceptTimer, attempted>>
    BY DEF TestClientBytes
<1>2. new \in Socket
    BY RunningAccepted, NewSocketType DEF TypeInv, States
<1>3. slot \in Nat
    BY SlotEmpty, EntriesRange
<1>4. slot \in Entries => e \in [fd : {Len(sockets) + 1}, sent : Nat, total : Nat]
    BY RunningAccepted DEF TypeInv
<1>5. TableTypes(messageCache, sockets)
    BY DEF TypeInv, ConnectionTypes
<1> HIDE DEF new, e, slot
<1>6. TableTypes(messageCache', sockets') /\ Len(sockets') = Len(sockets) + 1 /\ Len(sockets) \in Nat
    BY <1>1, <1>2, <1>3, <1>4, <1>5, NewEntry
<1>7. Fds \subseteq Fds'
    BY <1>5, <1>6 DEF Fds, TableTypes
<1> QED
    BY <1>1, <1>6, <1>7 DEF TypeInv, ConnectionTypes, Buffers

LEMMA TypesString ==
    ASSUME TypeInv, queue # << >>, TestClientString(Running, Head(queue)), late' = late
    PROVE  ConnectionTypes'
<1> DEFINE fd   == Len(sockets) + 1
           slot == Slot(messageCache, 1)
           new  == NewSocket(Running.conn, Running, "SYN_SENT")
           e    == [messageCache[slot] EXCEPT !.fd = fd]
<1>1. sockets' = Append(sockets, new) /\ messageCache' = Into(messageCache, slot, e)
      /\ stringCache' = Into(stringCache, slot, Head(queue)) /\ connectTimerString' = TRUE
      /\ UNCHANGED <<connectTimer, acceptTimer, attempted>>
    BY DEF TestClientString
<1>2. new \in Socket
    BY RunningAccepted, NewSocketType DEF TypeInv, States
<1>3. slot \in Nat
    BY SlotEmpty, EntriesRange
<1>4. slot \in Entries => e \in [fd : {Len(sockets) + 1}, sent : Nat, total : Nat]
    BY DEF TypeInv, ConnectionTypes, TableTypes
<1>5. TableTypes(messageCache, sockets)
    BY DEF TypeInv, ConnectionTypes
<1>6. stringCache' \in [Entries -> Buffers \cup {NoString}]
    <2>1. Head(queue) \in Buffers
        BY TailEntries DEF TypeInv, CommandsInv, HandlerTypeOK
    <2> QED
        BY <1>1, <2>1 DEF Into, TypeInv, ConnectionTypes
<1> HIDE DEF new, e, slot
<1>7. TableTypes(messageCache', sockets') /\ Len(sockets') = Len(sockets) + 1 /\ Len(sockets) \in Nat
    BY <1>1, <1>2, <1>3, <1>4, <1>5, NewEntry
<1>8. Fds \subseteq Fds'
    BY <1>5, <1>7 DEF Fds, TableTypes
<1> QED
    BY <1>1, <1>6, <1>7, <1>8 DEF TypeInv, ConnectionTypes, Buffers

\* The same sockets, some of them in another state or having taken more.
LEMMA TypesSame ==
    ASSUME TypeInv, sockets' \in Seq(Socket), Len(sockets') = Len(sockets),
           messageCache' \in [Entries -> [fd : 0 .. Len(sockets), sent : Nat, total : Nat]],
           stringCache' \in [Entries -> Buffers \cup {NoString}],
           connectTimer' \in BOOLEAN, connectTimerString' \in BOOLEAN, acceptTimer' \in BOOLEAN,
           attempted' \in Seq(Ports), Len(attempted') <= CALLS, late' \subseteq Fds
    PROVE  ConnectionTypes'
<1>1. Fds' = Fds
    BY DEF Fds, TypeInv, ConnectionTypes, TableTypes
<1> QED
    BY <1>1 DEF TypeInv, ConnectionTypes, TableTypes, Buffers

\* Transport.write has taken something of a message.
Wrote(fd, cmd) == /\ Established(fd)
                  /\ sockets' = [sockets EXCEPT ![fd].written = Append(@, cmd)]

LEMMA TypesMsg ==
    ASSUME TypeInv, queue # << >>, SendMsg(Running)
    PROVE  ConnectionTypes' /\ Len(sockets') = Len(sockets)
<1> DEFINE fd == FindSocket(Running.conn)
<1>0. sockets \in Seq(Socket) /\ Running \in Taken
    BY RunningAccepted DEF TypeInv, ConnectionTypes, TableTypes, Taken
<1>1. sockets' \in Seq(Socket) /\ Len(sockets') = Len(sockets)
    <2>1. CASE Wrote(fd, Running)
        <3>1. fd \in DOMAIN sockets /\ sockets[fd] \in Socket
            BY <1>0, <2>1 DEF Wrote, Established, Fds
        <3>2. Append(sockets[fd].written, Running) \in Seq(Taken)
            BY <1>0, <3>1 DEF Socket
        <3>3. [sockets[fd] EXCEPT !.written = Append(@, Running)] \in Socket
            BY <3>1, <3>2 DEF Socket
        <3>4. sockets' = [sockets EXCEPT ![fd] = [sockets[fd] EXCEPT !.written = Append(@, Running)]]
            BY <2>1 DEF Wrote
        <3> QED
            BY <1>0, <3>1, <3>3, <3>4, ReplaceSocket
    <2>2. CASE sockets' = sockets
        BY <1>0, <2>2
    <2> QED
        BY <2>1, <2>2 DEF SendMsg, Wrote
<1>2. /\ UNCHANGED <<messageCache, stringCache, timers, attempted, late>>
      /\ messageCache \in [Entries -> [fd : 0 .. Len(sockets), sent : Nat, total : Nat]]
    BY DEF SendMsg, TypeInv, ConnectionTypes, TableTypes
<1> QED
    BY <1>1, <1>2, TypesSame DEF TypeInv, ConnectionTypes, timers

\* A socket goes into another state.
LEMMA NewState ==
    ASSUME sockets \in Seq(Socket), NEW fd \in Fds, NEW st \in States,
           sockets' = [sockets EXCEPT ![fd].state = st]
    PROVE  /\ sockets' \in Seq(Socket) /\ Len(sockets') = Len(sockets) /\ Fds' = Fds
           /\ \A g \in Fds : /\ sockets'[g].for = sockets[g].for
                             /\ sockets'[g].written = sockets[g].written
                             /\ sockets'[g].conn = sockets[g].conn
                             /\ sockets'[g].number = sockets[g].number
<1>1. sockets[fd] \in Socket /\ fd \in DOMAIN sockets
    BY DEF Fds
<1> DEFINE new == [sockets[fd] EXCEPT !.state = st]
<1>2. /\ new \in Socket /\ new.for = sockets[fd].for /\ new.written = sockets[fd].written
      /\ new.conn = sockets[fd].conn /\ new.number = sockets[fd].number
    BY <1>1 DEF Socket
<1>3. sockets' = [sockets EXCEPT ![fd] = new]
    OBVIOUS
<1> HIDE DEF new
<1>4. /\ sockets' \in Seq(Socket) /\ Len(sockets') = Len(sockets) /\ DOMAIN sockets' = DOMAIN sockets
      /\ \A g \in DOMAIN sockets : sockets'[g] = IF g = fd THEN new ELSE sockets[g]
    BY <1>1, <1>2, <1>3, ReplaceSocket
<1> QED
    BY <1>2, <1>4 DEF Fds

\* What clientClose leaves: the sockets, one of them perhaps closed, and the entries, those
\* of that socket empty.
LEMMA CloseEffect ==
    ASSUME TypeInv, queue # << >>, ClientClose(Running)
    PROVE  /\ ConnectionTypes' /\ Len(sockets') = Len(sockets) /\ Fds' = Fds
           /\ \A fd \in Fds : /\ sockets'[fd].for = sockets[fd].for
                              /\ sockets'[fd].written = sockets[fd].written
                              /\ sockets'[fd].conn = sockets[fd].conn
                              /\ sockets'[fd].number = sockets[fd].number
           /\ \A i \in Entries : /\ messageCache'[i].fd # 0 => messageCache'[i] = messageCache[i]
                                 /\ messageCache'[i].sent = messageCache[i].sent
                                 /\ messageCache'[i].total = messageCache[i].total
           /\ UNCHANGED <<stringCache, timers, attempted, late>>
<1> DEFINE fd == FindSocket(Running.conn)
<1>0. /\ sockets \in Seq(Socket)
      /\ messageCache \in [Entries -> [fd : 0 .. Len(sockets), sent : Nat, total : Nat]]
      /\ Len(sockets) \in Nat
    BY DEF TypeInv, ConnectionTypes, TableTypes
<1>1. /\ sockets' \in Seq(Socket) /\ Len(sockets') = Len(sockets) /\ Fds' = Fds
      /\ \A g \in Fds : /\ sockets'[g].for = sockets[g].for
                        /\ sockets'[g].written = sockets[g].written
                        /\ sockets'[g].conn = sockets[g].conn
                        /\ sockets'[g].number = sockets[g].number
    <2>1. CASE Established(fd)
        <3>1. sockets' = [sockets EXCEPT ![fd].state = "CLOSED"] /\ fd \in Fds
            BY <2>1 DEF ClientClose, Established
        <3> QED
            BY <1>0, <3>1, NewState DEF States
    <2>2. CASE ~Established(fd)
        BY <1>0, <2>2 DEF ClientClose, Fds
    <2> QED
        BY <2>1, <2>2
<1>2. messageCache' = [i \in Entries |-> IF messageCache[i].fd = fd
                                         THEN [messageCache[i] EXCEPT !.fd = 0] ELSE messageCache[i]]
    BY DEF ClientClose
<1>3. ASSUME NEW i \in Entries
      PROVE  /\ messageCache'[i] \in [fd : 0 .. Len(sockets), sent : Nat, total : Nat]
             /\ messageCache'[i].fd # 0 => messageCache'[i] = messageCache[i]
             /\ messageCache'[i].sent = messageCache[i].sent
             /\ messageCache'[i].total = messageCache[i].total
    BY <1>0, <1>2
<1>4. messageCache' \in [Entries -> [fd : 0 .. Len(sockets), sent : Nat, total : Nat]]
    BY <1>2, <1>3
<1>5. UNCHANGED <<stringCache, timers, attempted, late>>
    BY DEF ClientClose
<1>6. ConnectionTypes'
    BY <1>1, <1>4, <1>5, TypesSame DEF TypeInv, ConnectionTypes, timers
<1> QED
    BY <1>1, <1>3, <1>5, <1>6

\* One turn of acceptTimer's loop as it goes on.
Turn(s) ==
    /\ s = [cache |-> s.cache, sockets |-> s.sockets, waiting |-> s.waiting,
            left |-> s.left, again |-> s.again]
    /\ TableTypes(s.cache, s.sockets)
    /\ s.waiting \in Seq(Ports) /\ Len(s.waiting) <= CALLS
    /\ s.left \in BOOLEAN /\ s.again \in BOOLEAN

\* What accepting connections leaves of a table: the sockets that were there, but for
\* their states, with theirs entries, and sockets that were accepted in other entries,
\* each in one.
Served(table, socks) ==
    /\ Len(sockets) <= Len(socks)
    /\ \A fd \in Fds : /\ socks[fd].for = sockets[fd].for
                       /\ socks[fd].written = sockets[fd].written
                       /\ socks[fd].conn = sockets[fd].conn
                       /\ socks[fd].number = sockets[fd].number
    /\ \A fd \in DOMAIN socks : fd \in Fds \/ socks[fd].for = Accept
    /\ \A i \in Entries : table[i] = messageCache[i] \/ table[i].fd > Len(sockets)
    /\ \A i, j \in Entries :
        table[i].fd > Len(sockets) /\ table[i].fd = table[j].fd => i = j

LEMMA AttemptRange ==
    ASSUME NEW waiting \in Seq(Ports), NEW port
    PROVE  Attempt(waiting, port) = 0 \/ Attempt(waiting, port) \in 1 .. Len(waiting)
<1> DEFINE of == {k \in DOMAIN waiting : waiting[k] = port}
<1>1. of \in SUBSET Nat /\ of \in SUBSET (1 .. Len(waiting))
    OBVIOUS
<1>2. CASE of = {}
    BY <1>2 DEF Attempt
<1>3. CASE of # {}
    <2>1. Min(of) \in of
        BY <1>1, <1>3, MinOf
    <2> QED
        BY <1>1, <1>3, <2>1 DEF Attempt
<1> QED
    BY <1>2, <1>3

\* The queue of attempts without the one that is taken.
LEMMA WithoutAttempt ==
    ASSUME NEW waiting \in Seq(Ports), NEW k \in 1 .. Len(waiting), NEW c \in Nat, Len(waiting) <= c
    PROVE  /\ SubSeq(waiting, k + 1, Len(waiting)) \o SubSeq(waiting, 1, k - 1) \in Seq(Ports)
           /\ Len(SubSeq(waiting, k + 1, Len(waiting)) \o SubSeq(waiting, 1, k - 1)) <= c
<1>1. /\ SubSeq(waiting, k + 1, Len(waiting)) \in Seq(Ports)
      /\ Len(SubSeq(waiting, k + 1, Len(waiting))) = Len(waiting) - k
    OBVIOUS
<1>2. SubSeq(waiting, 1, k - 1) \in Seq(Ports) /\ Len(SubSeq(waiting, 1, k - 1)) = k - 1
    OBVIOUS
<1> DEFINE a == SubSeq(waiting, k + 1, Len(waiting))
           b == SubSeq(waiting, 1, k - 1)
<1> HIDE DEF a, b
<1>3. a \in Seq(Ports) /\ b \in Seq(Ports) /\ Len(a) = Len(waiting) - k /\ Len(b) = k - 1
    BY <1>1, <1>2 DEF a, b
<1>4. a \o b \in Seq(Ports) /\ Len(a \o b) = Len(a) + Len(b)
    BY <1>3
<1>5. Len(a \o b) <= c
    BY <1>3, <1>4
<1> QED
    BY <1>4, <1>5 DEF a, b

\* At a listening socket's entry a waiting connection is taken, if there is one.
LEMMA AcceptTurn ==
    ASSUME TypeInv, NEW i \in Entries, NEW s, Turn(s), Served(s.cache, s.sockets),
           NEW t, t = AcceptAt(s, i)
    PROVE  Turn(t) /\ Served(t.cache, t.sockets)
<1> DEFINE e   == s.cache[i]
           now == [s.sockets EXCEPT ![e.fd].state = "LISTEN"]
           k   == Attempt(s.waiting, s.sockets[e.fd].conn)
           j   == Slot(s.cache, i)
           new == NewSocket("peer", Accept, "ESTABLISHED")
           entry == [s.cache[j] EXCEPT !.fd = Len(now) + 1, !.sent = 1]
<1>0. /\ s.sockets \in Seq(Socket) /\ Len(s.sockets) \in Nat
      /\ s.cache \in [Entries -> [fd : 0 .. Len(s.sockets), sent : Nat, total : Nat]]
      /\ sockets \in Seq(Socket) /\ Len(sockets) \in Nat /\ Fds = 1 .. Len(sockets)
      /\ s.waiting \in Seq(Ports) /\ Len(s.waiting) <= CALLS
      /\ s.left \in BOOLEAN /\ s.again \in BOOLEAN
      /\ TableTypes(s.cache, s.sockets)
    BY DEF Turn, TypeInv, ConnectionTypes, TableTypes, Fds
<1>1. CASE s.left \/ (e.fd # 0 /\ e.sent # 0)
    BY <1>1 DEF AcceptAt
<1>2. CASE ~(s.left \/ (e.fd # 0 /\ e.sent # 0)) /\ e.fd = 0
    <2>1. t = [s EXCEPT !.left = TRUE]
        BY <1>2 DEF AcceptAt
    <2>2. t = [cache |-> s.cache, sockets |-> s.sockets, waiting |-> s.waiting,
               left |-> TRUE, again |-> s.again]
        BY <2>1 DEF Turn
    <2> QED
        BY <2>2 DEF Turn
<1>3. CASE ~(s.left \/ (e.fd # 0 /\ e.sent # 0)) /\ e.fd # 0
    <2>1. e.fd \in DOMAIN s.sockets /\ s.sockets[e.fd] \in Socket
        BY <1>0, <1>3
    <2>2. /\ now \in Seq(Socket) /\ Len(now) = Len(s.sockets) /\ DOMAIN now = DOMAIN s.sockets
          /\ \A g \in DOMAIN s.sockets : /\ now[g].for = s.sockets[g].for
                                         /\ now[g].written = s.sockets[g].written
                                         /\ now[g].conn = s.sockets[g].conn
                                         /\ now[g].number = s.sockets[g].number
        <3> DEFINE r == [s.sockets[e.fd] EXCEPT !.state = "LISTEN"]
        <3>1. /\ r \in Socket /\ r.for = s.sockets[e.fd].for
              /\ r.written = s.sockets[e.fd].written
              /\ r.conn = s.sockets[e.fd].conn /\ r.number = s.sockets[e.fd].number
            BY <2>1 DEF Socket, States
        <3>2. now = [s.sockets EXCEPT ![e.fd] = r]
            OBVIOUS
        <3> HIDE DEF r, now, e
        <3>3. /\ now \in Seq(Socket) /\ Len(now) = Len(s.sockets) /\ DOMAIN now = DOMAIN s.sockets
              /\ \A g \in DOMAIN s.sockets : now[g] = IF g = e.fd THEN r ELSE s.sockets[g]
            BY <1>0, <2>1, <3>1, <3>2, ReplaceSocket
        <3> QED
            BY <3>1, <3>3
    <2>3. TableTypes(s.cache, now)
        BY <1>0, <2>2 DEF TableTypes
    <2>4. Served(s.cache, now)
        <3>1. \A fd \in Fds : fd \in DOMAIN s.sockets
            BY <1>0 DEF Served
        <3> HIDE DEF now
        <3> QED
            BY <2>2, <3>1 DEF Served
    <2>5. CASE k = 0
        <3>1. t = [s EXCEPT !.sockets = now, !.left = TRUE, !.again = TRUE]
            BY <1>3, <2>5 DEF AcceptAt
        <3> HIDE DEF now
        <3>2. t = [cache |-> s.cache, sockets |-> now, waiting |-> s.waiting,
                   left |-> TRUE, again |-> TRUE]
            BY <3>1 DEF Turn
        <3> QED
            BY <1>0, <2>3, <2>4, <3>2 DEF Turn
    <2>6. CASE k # 0
        <3> DEFINE rest  == SubSeq(s.waiting, k + 1, Len(s.waiting)) \o SubSeq(s.waiting, 1, k - 1)
                   table == Into(s.cache, j, entry)
                   socks == Append(now, new)
        <3>1. t = [s EXCEPT !.sockets = socks, !.waiting = rest, !.cache = table, !.again = TRUE]
            BY <1>3, <2>6 DEF AcceptAt
        <3>2. rest \in Seq(Ports) /\ Len(rest) <= CALLS
            BY <1>0, <2>6, AttemptRange, WithoutAttempt, ConnectionAssumption
        <3>3. j \in Nat /\ (j \in Entries => s.cache[j].fd = 0)
            BY SlotEmpty
        <3>4. j \in Entries => entry \in [fd : {Len(now) + 1}, sent : Nat, total : Nat]
            BY <1>0
        <3>5. new \in Socket /\ new.for = Accept
            BY AcceptedSocketType
        <3>6. entry.fd = Len(now) + 1 \/ j \notin Entries
            BY <3>4
        <3> HIDE DEF now, new, entry, rest, j
        <3>7. /\ TableTypes(table, socks)
              /\ Len(socks) = Len(now) + 1 /\ socks[Len(now) + 1] = new
              /\ \A fd \in DOMAIN now : socks[fd] = now[fd]
            BY <2>3, <3>3, <3>4, <3>5, NewEntry
        <3>8. \A x \in Entries : table[x] = IF x = j THEN entry ELSE s.cache[x]
            BY DEF Into
        <3> HIDE DEF table, socks
        <3>9. t = [cache |-> table, sockets |-> socks, waiting |-> rest,
                   left |-> s.left, again |-> TRUE]
            BY <3>1 DEF Turn
        <3>10. Turn(t)
            BY <1>0, <3>2, <3>7, <3>9 DEF Turn
        <3>11. socks \in Seq(Socket) /\ DOMAIN socks = 1 .. Len(now) + 1
               /\ DOMAIN now = 1 .. Len(now) /\ Len(now) \in Nat
            BY <1>0, <2>2, <3>7 DEF TableTypes
        <3>12. \A fd \in DOMAIN socks : fd \in DOMAIN now \/ fd = Len(now) + 1
            BY <3>11
        <3>13. Len(sockets) <= Len(now) /\ \A fd \in Fds : fd \in DOMAIN now
            BY <1>0, <2>2, <2>4, <3>11 DEF Served
        <3>14. \A x \in Entries : s.cache[x].fd \in Nat /\ s.cache[x].fd <= Len(now)
            BY <1>0, <2>2
        <3>15. \A fd \in Fds : socks[fd] = now[fd]
            BY <3>7, <3>13
        <3>16. \A fd \in DOMAIN socks : fd \in Fds \/ socks[fd].for = Accept
            BY <2>4, <3>5, <3>7, <3>12 DEF Served
        <3>17. \A x \in Entries : table[x] = messageCache[x] \/ table[x].fd > Len(sockets)
            BY <1>0, <2>4, <3>6, <3>8, <3>11, <3>13 DEF Served
        <3>18. ASSUME NEW x \in Entries, NEW y \in Entries,
                      table[x].fd > Len(sockets), table[x].fd = table[y].fd
               PROVE  x = y
            <4>1. CASE x = j /\ y # j
                BY <3>6, <3>8, <3>11, <3>14, <3>18, <4>1
            <4>2. CASE x # j /\ y = j
                BY <3>6, <3>8, <3>11, <3>14, <3>18, <4>2
            <4>3. CASE x # j /\ y # j
                BY <2>4, <3>8, <3>18, <4>3 DEF Served
            <4> QED
                BY <4>1, <4>2, <4>3
        <3>19. Served(table, socks)
            <4>1. Len(sockets) <= Len(socks)
                BY <1>0, <3>7, <3>11, <3>13
            <4>2. \A fd \in Fds : /\ socks[fd].for = sockets[fd].for
                                  /\ socks[fd].written = sockets[fd].written
                                  /\ socks[fd].conn = sockets[fd].conn
                                  /\ socks[fd].number = sockets[fd].number
                BY <2>4, <3>15 DEF Served
            <4> QED
                BY <3>16, <3>17, <3>18, <4>1, <4>2 DEF Served
        <3> QED
            BY <3>9, <3>10, <3>19
    <2> QED
        BY <2>5, <2>6
<1> QED
    BY <1>1, <1>2, <1>3

-----------------------------------------------------------------------------
(* The loop of acceptTimer *)

LoopStart == [cache |-> messageCache, sockets |-> sockets, waiting |-> attempted,
              left |-> FALSE, again |-> FALSE]

\* r is the loop's recursive function, as far as entry n.
IsLoop(r, n) ==
    r = [i \in 0 .. n |-> IF i = 0 THEN LoopStart ELSE AcceptAt(r[i - 1], i)]

\* The recursion has a function, whatever the entries.
LEMMA LoopExists ==
    ASSUME NEW n \in Nat
    PROVE  \E r : IsLoop(r, n)
<1> DEFINE Without == {k \in Nat : ~ \E r : IsLoop(r, k)}
<1> SUFFICES ASSUME Without # {} PROVE FALSE
    OBVIOUS
<1>1. PICK k \in Without : \A m \in Without : k <= m
    <2>1. Without \in SUBSET Nat
        OBVIOUS
    <2> HIDE DEF Without
    <2> QED
        BY <2>1, MinOf
<1>2. k \in Nat /\ ~ \E r : IsLoop(r, k)
    OBVIOUS
<1>3. CASE k = 0
    <2> DEFINE r == [i \in 0 .. 0 |-> LoopStart]
    <2>1. IsLoop(r, 0)
        BY DEF IsLoop
    <2> QED
        BY <1>2, <1>3, <2>1
<1>4. CASE k # 0
    <2>1. k - 1 \in Nat /\ ~(k <= k - 1)
        BY <1>2, <1>4
    <2>2. PICK g : IsLoop(g, k - 1)
        BY <1>1, <2>1
    <2> DEFINE r == [i \in 0 .. k |-> IF i < k THEN g[i] ELSE AcceptAt(g[k - 1], k)]
    <2>3. \A i \in 0 .. k - 1 : g[i] = IF i = 0 THEN LoopStart ELSE AcceptAt(g[i - 1], i)
        BY <2>2 DEF IsLoop
    <2>4. \A i \in 0 .. k : r[i] = IF i < k THEN g[i] ELSE AcceptAt(g[k - 1], k)
        OBVIOUS
    <2>5. r = [i \in 0 .. k |-> r[i]]
        OBVIOUS
    <2> HIDE DEF r
    <2>6. ASSUME NEW i \in 0 .. k
          PROVE  r[i] = IF i = 0 THEN LoopStart ELSE AcceptAt(r[i - 1], i)
        <3>1. CASE i = 0
            BY <1>2, <1>4, <2>3, <2>4, <3>1
        <3>2. CASE i # 0 /\ i < k
            <4>1. i \in 0 .. k - 1 /\ i - 1 \in 0 .. k /\ i - 1 < k
                BY <1>2, <3>2
            <4>2. r[i] = g[i] /\ r[i - 1] = g[i - 1]
                BY <2>4, <3>2, <4>1
            <4> QED
                BY <2>3, <3>2, <4>1, <4>2
        <3>3. CASE i = k
            <4>1. k - 1 \in 0 .. k /\ k - 1 < k /\ ~(k < k) /\ k \in 0 .. k
                BY <1>2, <1>4
            <4>2. r[k] = AcceptAt(g[k - 1], k) /\ r[k - 1] = g[k - 1]
                BY <2>4, <4>1
            <4> QED
                BY <1>4, <3>3, <4>2
        <3> QED
            BY <1>2, <3>1, <3>2, <3>3
    <2>7. IsLoop(r, k)
        BY <2>5, <2>6 DEF IsLoop
    <2> QED
        BY <1>2, <2>7
<1> QED
    BY <1>3, <1>4

\* What holds before the loop and is kept by each turn holds after it: after any number of
\* turns the tables are typed and serve the sockets there were.
LEMMA LoopServes ==
    ASSUME TypeInv, NEW r, IsLoop(r, CACHE)
    PROVE  Turn(r[CACHE]) /\ Served(r[CACHE].cache, r[CACHE].sockets)
<1> DEFINE Not == {k \in 0 .. CACHE : ~(Turn(r[k]) /\ Served(r[k].cache, r[k].sockets))}
<1>0. CACHE \in Nat /\ Entries = 1 .. CACHE /\ CACHE \in 0 .. CACHE
    BY EntriesRange
<1> SUFFICES ASSUME Not # {} PROVE FALSE
    BY <1>0
<1>1. PICK k \in Not : \A m \in Not : k <= m
    <2>1. Not \in SUBSET Nat
        BY <1>0
    <2> HIDE DEF Not
    <2> QED
        BY <2>1, MinOf
<1>2. k \in 0 .. CACHE /\ ~(Turn(r[k]) /\ Served(r[k].cache, r[k].sockets))
    OBVIOUS
<1>3. r[k] = IF k = 0 THEN LoopStart ELSE AcceptAt(r[k - 1], k)
    BY <1>2 DEF IsLoop
<1>4. CASE k = 0
    <2>1. r[k] = LoopStart
        BY <1>3, <1>4
    <2>2. Turn(r[k])
        BY <2>1 DEF Turn, LoopStart, TypeInv, ConnectionTypes
    <2>3. Served(messageCache, sockets)
        <3>1. /\ sockets \in Seq(Socket) /\ Len(sockets) \in Nat /\ Fds = DOMAIN sockets
              /\ messageCache \in [Entries -> [fd : 0 .. Len(sockets), sent : Nat, total : Nat]]
            BY DEF TypeInv, ConnectionTypes, TableTypes, Fds
        <3>2. \A i \in Entries : ~(messageCache[i].fd > Len(sockets))
            BY <3>1
        <3> QED
            BY <3>1, <3>2 DEF Served
    <2> QED
        BY <1>2, <2>1, <2>2, <2>3 DEF LoopStart
<1>5. CASE k # 0
    <2>1. k - 1 \in 0 .. CACHE /\ ~(k <= k - 1) /\ k \in Entries
        BY <1>0, <1>2, <1>5
    <2>2. Turn(r[k - 1]) /\ Served(r[k - 1].cache, r[k - 1].sockets)
        BY <1>1, <2>1
    <2>3. r[k] = AcceptAt(r[k - 1], k)
        BY <1>3, <1>5
    <2> QED
        BY <1>2, <2>1, <2>2, <2>3, AcceptTurn
<1> QED
    BY <1>4, <1>5

\* acceptTimer.fired keeps the types, and every socket and entry there was.
LEMMA AcceptEffect ==
    ASSUME TypeInv, AcceptTimerFired
    PROVE  ConnectionTypes' /\ Served(messageCache', sockets')
<1> DEFINE loop[i \in 0 .. CACHE] == IF i = 0 THEN LoopStart ELSE AcceptAt(loop[i - 1], i)
<1>1. /\ acceptTimer' = loop[CACHE].again /\ messageCache' = loop[CACHE].cache
      /\ sockets' = loop[CACHE].sockets /\ attempted' = loop[CACHE].waiting
      /\ UNCHANGED <<handler, stringCache, connectTimer, connectTimerString, late>>
    BY DEF AcceptTimerFired, LoopStart
<1>2. IsLoop(loop, CACHE)
    <2>1. CACHE \in Nat
        BY EntriesRange
    <2>2. \E r : IsLoop(r, CACHE)
        BY <2>1, LoopExists
    <2>3. loop = CHOOSE r : IsLoop(r, CACHE)
        BY DEF IsLoop
    <2> QED
        BY <2>2, <2>3
<1> HIDE DEF loop
<1>3. Turn(loop[CACHE]) /\ Served(loop[CACHE].cache, loop[CACHE].sockets)
    BY <1>2, LoopServes
<1>4. Fds \subseteq Fds'
    <2>1. /\ sockets \in Seq(Socket) /\ sockets' \in Seq(Socket)
          /\ Len(sockets) <= Len(sockets')
        BY <1>1, <1>3 DEF TypeInv, ConnectionTypes, TableTypes, Turn, Served
    <2> QED
        BY <2>1 DEF Fds
<1> QED
    BY <1>1, <1>3, <1>4 DEF TypeInv, ConnectionTypes, Turn, Buffers

-----------------------------------------------------------------------------
(* The timers that write *)

\* The strings that wait, those of them of one socket, and what a write of bytes adds to
\* a socket, if it takes as much as n of its entries.
Waiting  == {i \in Entries : messageCache[i].fd # 0 /\ stringCache[i] # NoString}
Of(T, fd) == {i \in T : messageCache[i].fd = fd}
Left(fd) == {i \in Unfinished : messageCache[i].fd = fd}
Bytes(i, n) == [k \in 1 .. n[i] |-> messageCache[i].sent + k - 1]

\* connectTimerString.fired writes to each socket the string of the first of its entries
\* whose writes take something, and empties these entries; the others wait.
LEMMA StringEffect ==
    ASSUME TypeInv, ConnectTimerStringFired
    PROVE  \E T \in SUBSET Waiting :
            /\ ConnectionTypes' /\ Len(sockets') = Len(sockets) /\ Fds' = Fds
            /\ late' = late \cup {fd \in Fds : Of(T, fd) # {} /\ count - sockets[fd].number >= POOL}
            /\ \A fd \in Fds : /\ sockets'[fd].for = sockets[fd].for
                               /\ sockets'[fd].conn = sockets[fd].conn
                               /\ sockets'[fd].number = sockets[fd].number
            /\ \A fd \in Fds : Of(T, fd) = {} => sockets'[fd] = sockets[fd]
            /\ \A fd \in Fds : Of(T, fd) # {} =>
                 /\ Min(Of(T, fd)) \in Of(T, fd)
                 /\ sockets'[fd].written
                     = Append(sockets[fd].written, content[stringCache[Min(Of(T, fd))]])
            /\ \A i \in Entries : stringCache'[i] = IF i \in T THEN NoString ELSE stringCache[i]
            /\ UNCHANGED <<handler, messageCache, connectTimer, acceptTimer, attempted>>
<1>0. /\ sockets \in Seq(Socket) /\ Fds = DOMAIN sockets
      /\ messageCache \in [Entries -> [fd : 0 .. Len(sockets), sent : Nat, total : Nat]]
      /\ stringCache \in [Entries -> Buffers \cup {NoString}]
      /\ content \in [Buffers -> Commands \cup {Noise}] /\ late \subseteq Fds
    BY DEF TypeInv, ConnectionTypes, TableTypes, CommandsInv, HandlerTypeOK, Fds
<1>1. PICK T \in SUBSET Waiting :
      /\ connectTimerString' = (Waiting # T)
      /\ stringCache' = [i \in Entries |-> IF i \in T THEN NoString ELSE stringCache[i]]
      /\ sockets' = [fd \in Fds |->
            IF Of(T, fd) = {} THEN sockets[fd]
            ELSE [sockets[fd] EXCEPT
                    !.written = Append(@, content[stringCache[Min(Of(T, fd))]])]]
      /\ late' = late \cup {fd \in Fds : Of(T, fd) # {} /\ count - sockets[fd].number >= POOL}
      /\ UNCHANGED <<handler, messageCache, connectTimer, acceptTimer, attempted>>
    BY DEF ConnectTimerStringFired, Of, Waiting
<1>2. ASSUME NEW fd \in Fds, Of(T, fd) # {}
      PROVE  /\ Min(Of(T, fd)) \in Of(T, fd)
             /\ content[stringCache[Min(Of(T, fd))]] \in Taken
    <2>1. Of(T, fd) \in SUBSET Nat /\ Of(T, fd) \in SUBSET Waiting /\ Waiting \in SUBSET Entries
        BY <1>1, EntriesRange DEF Of, Waiting
    <2>2. Min(Of(T, fd)) \in Of(T, fd)
        BY <1>2, <2>1, MinOf
    <2>3. Min(Of(T, fd)) \in Waiting
        BY <2>1, <2>2
    <2>4. stringCache[Min(Of(T, fd))] \in Buffers
        BY <1>0, <2>3 DEF Waiting
    <2> QED
        BY <1>0, <2>2, <2>4 DEF Taken
<1>3. ASSUME NEW fd \in Fds
      PROVE  /\ sockets'[fd] \in Socket /\ sockets'[fd].for = sockets[fd].for
             /\ sockets'[fd].conn = sockets[fd].conn /\ sockets'[fd].number = sockets[fd].number
             /\ Of(T, fd) = {} => sockets'[fd] = sockets[fd]
             /\ Of(T, fd) # {} => sockets'[fd].written
                    = Append(sockets[fd].written, content[stringCache[Min(Of(T, fd))]])
    <2>1. sockets[fd] \in Socket
        BY <1>0
    <2>2. CASE Of(T, fd) = {}
        BY <1>1, <2>1, <2>2
    <2>3. CASE Of(T, fd) # {}
        <3> DEFINE w == Append(sockets[fd].written, content[stringCache[Min(Of(T, fd))]])
        <3>1. w \in Seq(Taken)
            BY <1>2, <2>1, <2>3 DEF Socket
        <3>2. sockets'[fd] = [sockets[fd] EXCEPT !.written = w]
            BY <1>1, <2>3
        <3> HIDE DEF w
        <3>3. /\ sockets'[fd] \in Socket /\ sockets'[fd].for = sockets[fd].for
              /\ sockets'[fd].written = w
              /\ sockets'[fd].conn = sockets[fd].conn /\ sockets'[fd].number = sockets[fd].number
            BY <2>1, <3>1, <3>2 DEF Socket
        <3> QED
            BY <2>3, <3>3 DEF w
    <2> QED
        BY <2>2, <2>3
<1>4. sockets' \in Seq(Socket) /\ Len(sockets') = Len(sockets) /\ Fds' = Fds
    <2>1. DOMAIN sockets' = DOMAIN sockets /\ sockets' = [fd \in DOMAIN sockets |-> sockets'[fd]]
        BY <1>0, <1>1
    <2> QED
        BY <1>0, <1>3, <2>1, NewTable DEF Fds
<1>5. stringCache' \in [Entries -> Buffers \cup {NoString}]
    BY <1>0, <1>1
<1>6. late' \subseteq Fds
    BY <1>0, <1>1
<1>7. connectTimerString' \in BOOLEAN
    BY <1>1
<1>8. messageCache' \in [Entries -> [fd : 0 .. Len(sockets), sent : Nat, total : Nat]]
    BY <1>0, <1>1
<1>9. ConnectionTypes'
    BY <1>1, <1>4, <1>5, <1>6, <1>7, <1>8, TypesSame DEF TypeInv, ConnectionTypes
<1> QED
    BY <1>1, <1>2, <1>3, <1>4, <1>9

\* connectTimer.fired advances each entry that is not finished by what it wrote, to a
\* connection that is established; a write never takes more than it was offered.
LEMMA BytesEffect ==
    ASSUME TypeInv, ConnectTimerFired
    PROVE  \E n \in [Unfinished -> 0 .. CHUNK] :
            /\ ConnectionTypes' /\ Len(sockets') = Len(sockets) /\ Fds' = Fds
            /\ \A i \in Unfinished : n[i] <= Offered(messageCache[i])
            /\ \A fd \in Fds : /\ sockets'[fd].for = sockets[fd].for
                               /\ sockets'[fd].conn = sockets[fd].conn
                               /\ sockets'[fd].number = sockets[fd].number
            /\ \A fd \in Fds : Left(fd) = {} => sockets'[fd] = sockets[fd]
            /\ \A fd \in Fds : Left(fd) # {} =>
                /\ Min(Left(fd)) \in Left(fd)
                /\ sockets'[fd].written = sockets[fd].written \o Bytes(Min(Left(fd)), n)
            /\ \A i \in Entries :
                /\ messageCache'[i].fd = messageCache[i].fd
                /\ messageCache'[i].total = messageCache[i].total
                /\ messageCache'[i].sent
                    = IF i \in Unfinished THEN messageCache[i].sent + n[i] ELSE messageCache[i].sent
            /\ UNCHANGED <<handler, stringCache, connectTimerString, acceptTimer, attempted, late>>
<1>0. /\ sockets \in Seq(Socket) /\ Fds = DOMAIN sockets
      /\ messageCache \in [Entries -> [fd : 0 .. Len(sockets), sent : Nat, total : Nat]]
      /\ CHUNK \in Nat
    BY ConnectionAssumption DEF TypeInv, ConnectionTypes, TableTypes, Fds
<1>1. /\ connectTimer' = DataLeft
      /\ UNCHANGED <<handler, stringCache, connectTimerString, acceptTimer, attempted, late>>
    BY DEF ConnectTimerFired
<1>2. PICK n \in [Unfinished -> 0 .. CHUNK] :
        /\ \A i \in Unfinished :
            n[i] <= IF Established(messageCache[i].fd) THEN Offered(messageCache[i]) ELSE 0
        /\ messageCache' = [i \in Entries |-> IF i \in Unfinished
                                THEN Advanced(messageCache[i], n[i]) ELSE messageCache[i]]
        /\ sockets' = [fd \in Fds |->
                IF Left(fd) = {} THEN sockets[fd]
                ELSE [sockets[fd] EXCEPT !.written = @ \o Bytes(Min(Left(fd)), n)]]
    BY DEF ConnectTimerFired, Left, Bytes
<1>3. ASSUME NEW i \in Unfinished
      PROVE  i \in Entries /\ n[i] \in Nat /\ messageCache[i].sent \in Nat
    BY <1>0 DEF Unfinished
<1>4. ASSUME NEW i \in Unfinished PROVE n[i] <= Offered(messageCache[i])
    <2>1. Offered(messageCache[i]) \in Nat
        <3> DEFINE e == messageCache[i]
        <3>1. e.sent \in Nat /\ e.total \in Nat
            BY <1>0, <1>3
        <3>2. CASE e.sent <= e.total
            <4>1. {e.total - e.sent, CHUNK} \in SUBSET Nat
                BY <1>0, <3>1, <3>2
            <4> HIDE DEF e
            <4>2. Min({e.total - e.sent, CHUNK}) \in Nat
                <5> DEFINE S == {e.total - e.sent, CHUNK}
                <5>1. S \in SUBSET Nat /\ S # {}
                    BY <4>1
                <5> HIDE DEF S
                <5>2. Min(S) \in Nat
                    BY <5>1, MinOf
                <5> QED
                    BY <5>2 DEF S
            <4> QED
                BY <3>2, <4>2 DEF Offered, e
        <3> QED
            BY <1>0, <3>2 DEF Offered
    <2> QED
        BY <1>2, <1>3, <2>1
<1>5. ASSUME NEW fd \in Fds, Left(fd) # {}
      PROVE  Min(Left(fd)) \in Left(fd) /\ Bytes(Min(Left(fd)), n) \in Seq(Taken)
    <2>1. Left(fd) \in SUBSET Nat /\ Left(fd) \in SUBSET Unfinished
        BY EntriesRange DEF Left, Unfinished
    <2>2. Min(Left(fd)) \in Left(fd)
        BY <1>5, <2>1, MinOf
    <2> DEFINE i == Min(Left(fd))
    <2>3. i \in Unfinished
        BY <2>1, <2>2
    <2> HIDE DEF i
    <2>4. n[i] \in Nat /\ messageCache[i].sent \in Nat
        BY <1>3, <2>3
    <2>5. \A k \in 1 .. n[i] : messageCache[i].sent + k - 1 \in Nat
        BY <2>4
    <2>6. Bytes(i, n) \in Seq(Nat)
        BY <2>4, <2>5 DEF Bytes
    <2>7. Bytes(i, n) \in Seq(Taken)
        BY <2>6 DEF Taken
    <2> QED
        BY <2>2, <2>7 DEF i
<1>6. ASSUME NEW fd \in Fds
      PROVE  /\ sockets'[fd] \in Socket /\ sockets'[fd].for = sockets[fd].for
             /\ sockets'[fd].conn = sockets[fd].conn /\ sockets'[fd].number = sockets[fd].number
             /\ Left(fd) = {} => sockets'[fd] = sockets[fd]
             /\ Left(fd) # {} =>
                    sockets'[fd].written = sockets[fd].written \o Bytes(Min(Left(fd)), n)
    <2>1. sockets[fd] \in Socket
        BY <1>0
    <2>2. CASE Left(fd) = {}
        BY <1>2, <2>1, <2>2
    <2>3. CASE Left(fd) # {}
        <3> DEFINE w == sockets[fd].written \o Bytes(Min(Left(fd)), n)
        <3>1. w \in Seq(Taken)
            <4>1. sockets[fd].written \in Seq(Taken)
                BY <2>1 DEF Socket
            <4> QED
                BY <1>5, <2>3, <4>1
        <3>2. sockets'[fd] = [sockets[fd] EXCEPT !.written = w]
            BY <1>2, <2>3
        <3> HIDE DEF w
        <3>3. /\ sockets'[fd] \in Socket /\ sockets'[fd].for = sockets[fd].for
              /\ sockets'[fd].written = w
              /\ sockets'[fd].conn = sockets[fd].conn /\ sockets'[fd].number = sockets[fd].number
            BY <2>1, <3>1, <3>2 DEF Socket
        <3> QED
            BY <2>3, <3>3 DEF w
    <2> QED
        BY <2>2, <2>3
<1>7. sockets' \in Seq(Socket) /\ Len(sockets') = Len(sockets) /\ Fds' = Fds
    <2>1. DOMAIN sockets' = DOMAIN sockets /\ sockets' = [fd \in DOMAIN sockets |-> sockets'[fd]]
        BY <1>0, <1>2
    <2> QED
        BY <1>0, <1>6, <2>1, NewTable DEF Fds
<1>8. ASSUME NEW i \in Entries
      PROVE  /\ messageCache'[i] \in [fd : 0 .. Len(sockets), sent : Nat, total : Nat]
             /\ messageCache'[i].fd = messageCache[i].fd
             /\ messageCache'[i].total = messageCache[i].total
             /\ messageCache'[i].sent
                    = IF i \in Unfinished THEN messageCache[i].sent + n[i] ELSE messageCache[i].sent
    <2>1. messageCache[i] \in [fd : 0 .. Len(sockets), sent : Nat, total : Nat]
        BY <1>0
    <2>2. CASE i \in Unfinished
        <3>1. messageCache'[i] = [messageCache[i] EXCEPT !.sent = @ + n[i]]
            BY <1>2, <2>2 DEF Advanced
        <3>2. messageCache[i].sent + n[i] \in Nat
            BY <1>3, <2>2
        <3> QED
            BY <2>1, <2>2, <3>1, <3>2
    <2>3. CASE i \notin Unfinished
        BY <1>2, <2>1, <2>3
    <2> QED
        BY <2>2, <2>3
<1>9. messageCache' \in [Entries -> [fd : 0 .. Len(sockets), sent : Nat, total : Nat]]
    BY <1>2, <1>8
<1>10. connectTimer' \in BOOLEAN
    BY <1>1 DEF DataLeft
<1>11. ConnectionTypes'
    BY <1>1, <1>7, <1>9, <1>10, TypesSame DEF TypeInv, ConnectionTypes
<1> QED
    BY <1>1, <1>4, <1>5, <1>6, <1>7, <1>8, <1>11

-----------------------------------------------------------------------------
(* The types *)

LEMMA TypeInit == Init => TypeInv
<1> SUFFICES ASSUME Init PROVE TypeInv
    OBVIOUS
<1>1. CommandsInv
    BY InvInit
<1>2. Len(queue) <= count
    BY DEF Init, HandlerInit
<1>3. sockets \in Seq(Socket) /\ Len(sockets) = 0 /\ attempted \in Seq(Ports) /\ Len(attempted) = 0
    BY DEF Init
<1>4. messageCache \in [Entries -> [fd : 0 .. Len(sockets), sent : Nat, total : Nat]]
    BY <1>3 DEF Init
<1>5. Len(attempted) <= CALLS
    BY <1>3, ConnectionAssumption
<1>6. /\ stringCache \in [Entries -> Buffers \cup {NoString}] /\ late \subseteq Fds
      /\ connectTimer \in BOOLEAN /\ connectTimerString \in BOOLEAN /\ acceptTimer \in BOOLEAN
    BY DEF Init
<1> QED
    BY <1>1, <1>2, <1>3, <1>4, <1>5, <1>6 DEF TypeInv, ConnectionTypes, TableTypes

\* No step accepts a command without counting it.
LEMMA CountNext == TypeInv /\ [Next]_vars => Len(queue') <= count'
<1> SUFFICES ASSUME TypeInv, [Next]_vars PROVE Len(queue') <= count'
    OBVIOUS
<1>0. queue \in Seq(Buffers) /\ Len(queue) \in Nat /\ count \in Nat /\ Len(queue) <= count
    BY DEF TypeInv, CommandsInv, HandlerTypeOK
<1>1. ASSUME NEW cmd \in todo, ReceiveCommand(cmd) PROVE Len(queue') <= count'
    <2>1. CASE queue' = Append(queue, radio) /\ count' = count + 1
        <3>1. Len(queue') = Len(queue) + 1
            BY <1>0, <2>1
        <3> QED
            BY <1>0, <2>1, <3>1
    <2>2. CASE UNCHANGED <<queue, count>>
        BY <1>0, <2>2
    <2> QED
        BY <1>1, <2>1, <2>2 DEF ReceiveCommand, Receive
<1>2. CASE OtherPacket
    BY <1>0, <1>2 DEF OtherPacket
<1>3. CASE RunCommand
    <2>1. queue # << >> /\ queue' = Tail(queue) /\ count' = count
        BY <1>3 DEF RunCommand, ProcessCommand
    <2>2. Len(queue') = Len(queue) - 1
        BY <1>0, <2>1, TailEntries
    <2> QED
        BY <1>0, <2>1, <2>2
<1>4. CASE UNCHANGED handler
    BY <1>0, <1>4 DEF handler
<1>5. CASE ConnectTimerFired
    BY <1>4, <1>5 DEF ConnectTimerFired
<1>6. CASE ConnectTimerStringFired
    BY <1>4, <1>6 DEF ConnectTimerStringFired
<1>7. CASE AcceptTimerFired
    BY <1>4, <1>7 DEF AcceptTimerFired
<1>8. ASSUME NEW fd \in Fds, Connected(fd) \/ ReceiveFin(fd) PROVE Len(queue') <= count'
    BY <1>4, <1>8 DEF Connected, ReceiveFin
<1>9. ASSUME NEW port \in Ports, ReceiveSyn(port) PROVE Len(queue') <= count'
    BY <1>4, <1>9 DEF ReceiveSyn
<1>10. CASE UNCHANGED vars
    BY <1>4, <1>10 DEF vars
<1> QED
    BY <1>1, <1>2, <1>3, <1>5, <1>6, <1>7, <1>8, <1>9, <1>10 DEF Next

\* A socket changes state as the network says.
LEMMA StateEffect ==
    ASSUME TypeInv, NEW fd \in Fds, Connected(fd) \/ ReceiveFin(fd)
    PROVE  /\ ConnectionTypes' /\ Len(sockets') = Len(sockets) /\ Fds' = Fds
           /\ \A g \in Fds : /\ sockets'[g].for = sockets[g].for
                             /\ sockets'[g].written = sockets[g].written
                             /\ sockets'[g].conn = sockets[g].conn
                             /\ sockets'[g].number = sockets[g].number
           /\ UNCHANGED <<handler, messageCache, stringCache, timers, attempted, late>>
<1>1. sockets \in Seq(Socket)
    BY DEF TypeInv, ConnectionTypes, TableTypes
<1>2. /\ sockets' \in Seq(Socket) /\ Len(sockets') = Len(sockets) /\ Fds' = Fds
      /\ \A g \in Fds : /\ sockets'[g].for = sockets[g].for
                        /\ sockets'[g].written = sockets[g].written
                        /\ sockets'[g].conn = sockets[g].conn
                        /\ sockets'[g].number = sockets[g].number
    <2>1. CASE Connected(fd)
        <3>1. sockets' = [sockets EXCEPT ![fd].state = "ESTABLISHED"]
            BY <2>1 DEF Connected
        <3> QED
            BY <1>1, <3>1, NewState DEF States
    <2>2. CASE ReceiveFin(fd)
        <3>1. sockets' = [sockets EXCEPT ![fd].state = "CLOSED"]
            BY <2>2 DEF ReceiveFin
        <3> QED
            BY <1>1, <3>1, NewState DEF States
    <2> QED
        BY <2>1, <2>2
<1>3. UNCHANGED <<handler, messageCache, stringCache, timers, attempted, late>>
    BY DEF Connected, ReceiveFin
<1>4. messageCache' \in [Entries -> [fd : 0 .. Len(sockets), sent : Nat, total : Nat]]
    BY <1>3 DEF TypeInv, ConnectionTypes, TableTypes
<1>5. ConnectionTypes'
    BY <1>2, <1>3, <1>4, TypesSame DEF TypeInv, ConnectionTypes, timers
<1> QED
    BY <1>2, <1>3, <1>5

\* Whoever attempts a connection leaves room for those the bound allows.
LEMMA SynTypes ==
    ASSUME TypeInv, NEW port \in Ports, ReceiveSyn(port)
    PROVE  ConnectionTypes'
<1> DEFINE S == {fd \in Fds : sockets[fd].for = Accept}
<1>1. /\ attempted \in Seq(Ports) /\ Len(attempted) \in Nat /\ CALLS \in Nat
      /\ sockets \in Seq(Socket) /\ Len(sockets) \in Nat /\ Fds = 1 .. Len(sockets)
    BY ConnectionAssumption DEF TypeInv, ConnectionTypes, TableTypes, Fds
<1>2. IsFiniteSet(Fds) /\ S \in SUBSET Fds
    BY <1>1, FS_Interval
<1>3. Cardinality(S) \in Nat
    BY <1>2, FS_Subset, FS_CardinalityType
<1>4. Len(attempted) + Cardinality(S) < CALLS
    BY DEF ReceiveSyn
<1> HIDE DEF S
<1>5. Len(attempted) + 1 <= CALLS
    BY <1>1, <1>3, <1>4
<1>6. attempted' \in Seq(Ports) /\ Len(attempted') = Len(attempted) + 1
    <2>1. attempted' = <<port>> \o attempted
        BY DEF ReceiveSyn
    <2> QED
        BY <1>1, <2>1
<1>7. UNCHANGED <<messageCache, stringCache, timers, sockets, late>>
    BY DEF ReceiveSyn
<1> QED
    BY <1>5, <1>6, <1>7 DEF TypeInv, ConnectionTypes, TableTypes, timers, Fds, Buffers

LEMMA TypeNext == TypeInv /\ [Next]_vars => TypeInv'
<1> SUFFICES ASSUME TypeInv, [Next]_vars PROVE ConnectionTypes'
    BY InvNext, CountNext DEF TypeInv
<1>1. CASE UNCHANGED connection
    BY <1>1 DEF connection, timers, TypeInv, ConnectionTypes, TableTypes, Fds, Buffers
<1>2. CASE RunCommand
    <2>1. queue # << >>
        BY <1>2 DEF RunCommand, ProcessCommand
    <2>2. CASE TestServer(Running)
        BY <2>1, <2>2, TypesServer DEF TestServer
    <2>3. CASE Running.id = "bytes" /\ TestClientBytes(Running)
        BY <2>1, <2>3, TypesBytes DEF TestClientBytes
    <2>4. CASE TestClientString(Running, Head(queue))
        BY <2>1, <2>4, TypesString DEF TestClientString
    <2>5. CASE SendMsg(Running)
        BY <2>1, <2>5, TypesMsg
    <2>6. CASE ClientClose(Running)
        BY <2>1, <2>6, CloseEffect
    <2> QED
        BY <1>1, <1>2, <2>2, <2>3, <2>4, <2>5, <2>6 DEF RunCommand
<1>3. CASE ConnectTimerFired
    BY <1>3, BytesEffect
<1>4. CASE ConnectTimerStringFired
    BY <1>4, StringEffect
<1>5. CASE AcceptTimerFired
    BY <1>5, AcceptEffect
<1>6. ASSUME NEW fd \in Fds, Connected(fd) \/ ReceiveFin(fd) PROVE ConnectionTypes'
    BY <1>6, StateEffect
<1>7. ASSUME NEW port \in Ports, ReceiveSyn(port) PROVE ConnectionTypes'
    BY <1>7, SynTypes
<1> QED
    BY <1>1, <1>2, <1>3, <1>4, <1>5, <1>6, <1>7 DEF Next, vars

\* The caches' entries, the sockets, the attempts and the timers keep their types, for every
\* script: an entry's descriptor is that of a socket or 0, and the attempts stay within the
\* bound, whatever acceptTimer takes of them.
THEOREM ConnectionTypeCorrect == Spec => []TypeOK
<1>1. TypeInv => TypeOK
    <2> SUFFICES ASSUME TypeInv PROVE TypeOK
        OBVIOUS
    <2>1. \A t \in ToSet(timers) : t \in BOOLEAN
        BY DEF ToSet, timers, TypeInv, ConnectionTypes
    <2>2. \A fd \in Fds : sockets[fd] \in Socket
        BY DEF TypeInv, ConnectionTypes, TableTypes, Fds
    <2> QED
        BY <2>1, <2>2 DEF TypeOK, TypeInv, CommandsInv, ConnectionTypes, TableTypes, Socket, States
<1> QED
    BY <1>1, TypeInit, TypeNext, PTL DEF Spec

-----------------------------------------------------------------------------
(* What a connection gets *)

\* Each script opens transfers or strings, as the test scripts do: a chat client neither
\* sends transfers nor listens, and a sender of transfers does not chat.
Asks(script, id) == \E cmd \in script : cmd.id = id

Separate ==
    \A script \in Scripts :
        /\ Asks(script, "hello") => ~Asks(script, "bytes") /\ ~Asks(script, "server")
        /\ Asks(script, "bytes") => ~Asks(script, "msg")

\* The commands still to be run.
Future == todo \cup {accepted[i] : i \in 1 .. Len(accepted)}

\* No command is to be run twice.
Ordered ==
    /\ \A i, j \in 1 .. Len(accepted) : accepted[i] = accepted[j] => i = j
    /\ \A i \in 1 .. Len(accepted) : accepted[i] \notin todo

\* No new command is to be run, and what is run is not to be run again.
LEMMA OrderedReceive ==
    ASSUME CommandsInv, Ordered, NEW cmd \in todo, ReceiveCommand(cmd)
    PROVE  Ordered' /\ Future' \subseteq Future
<1>0. accepted \in Seq(Commands) /\ cmd \in Commands /\ todo' = todo \ {cmd}
    BY DEF CommandsInv, HandlerTypeOK, ReceiveCommand, Receive
<1>1. CASE accepted' = Append(accepted, cmd)
    <2>1. /\ Len(accepted') = Len(accepted) + 1 /\ Len(accepted) \in Nat
          /\ \A i \in 1 .. Len(accepted) : accepted'[i] = accepted[i]
          /\ accepted'[Len(accepted) + 1] = cmd
        BY <1>0, <1>1, AppendEntries
    <2>2. \A i \in 1 .. Len(accepted') :
            \/ i \in 1 .. Len(accepted) /\ accepted'[i] = accepted[i]
            \/ i = Len(accepted) + 1 /\ accepted'[i] = cmd
        BY <2>1
    <2>3. \A i, j \in 1 .. Len(accepted') : accepted'[i] = accepted'[j] => i = j
        BY <2>2 DEF Ordered
    <2>4. \A i \in 1 .. Len(accepted') : accepted'[i] \notin todo'
        BY <1>0, <2>2 DEF Ordered
    <2>5. Future' \subseteq Future
        BY <1>0, <2>2 DEF Future
    <2> QED
        BY <2>3, <2>4, <2>5 DEF Ordered
<1>2. CASE accepted' = accepted
    BY <1>0, <1>2 DEF Ordered, Future
<1> QED
    BY <1>1, <1>2 DEF ReceiveCommand, Receive

LEMMA OrderedProcess ==
    ASSUME CommandsInv, Ordered, ProcessCommand
    PROVE  /\ Ordered' /\ Future' \subseteq Future
           /\ Running \in Future /\ Running \notin Future'
<1>0. accepted \in Seq(Commands) /\ accepted # << >> /\ Running = accepted[1]
    BY RunningAccepted DEF CommandsInv, HandlerTypeOK, ProcessCommand
<1>1. /\ Len(accepted') = Len(accepted) - 1 /\ Len(accepted) \in Nat
      /\ \A i \in 1 .. Len(accepted) - 1 : accepted'[i] = accepted[i + 1]
      /\ 1 \in 1 .. Len(accepted) /\ todo' = todo
    BY <1>0, TailEntries DEF ProcessCommand
<1>2. \A i \in 1 .. Len(accepted') : /\ i + 1 \in 1 .. Len(accepted) /\ i + 1 # 1
                                     /\ accepted'[i] = accepted[i + 1]
    BY <1>1
<1>3. \A i, j \in 1 .. Len(accepted') : accepted'[i] = accepted'[j] => i = j
    <2> TAKE i, j \in 1 .. Len(accepted')
    <2> HAVE accepted'[i] = accepted'[j]
    <2>1. i + 1 = j + 1
        BY <1>2 DEF Ordered
    <2>2. i \in Nat /\ j \in Nat
        BY <1>1
    <2> QED
        BY <2>1, <2>2
<1>4. Running \in Future
    BY <1>0, <1>1 DEF Future
<1>5. Running \notin Future'
    BY <1>0, <1>1, <1>2 DEF Ordered, Future
<1> QED
    BY <1>1, <1>2, <1>3, <1>4, <1>5 DEF Ordered, Future

\* The buffer of the command accepted as number n, which was run: until POOL more are
\* accepted it lies in the pool, at the place its number says, and holds the command.
Fresh(b, cmd, n) ==
    /\ n \in 1 .. count - Len(queue)
    /\ count - n < POOL => /\ n + POOL - count \in 1 .. Len(pool)
                           /\ pool[n + POOL - count] = b
                           /\ content[b] = cmd

\* The same of the state a step leads to.
FreshAfter(b, cmd, n) ==
    /\ n \in 1 .. count' - Len(queue')
    /\ count' - n < POOL => /\ n + POOL - count' \in 1 .. Len(pool')
                            /\ pool'[n + POOL - count'] = b
                            /\ content'[b] = cmd

LEMMA FreshReceive ==
    ASSUME TypeInv, NEW b, NEW old, NEW n, Fresh(b, old, n),
           NEW cmd \in todo, ReceiveCommand(cmd)
    PROVE  FreshAfter(b, old, n)
<1>0. /\ radio \in Buffers /\ pool \in Seq(Buffers) /\ queue \in Seq(Buffers)
      /\ content \in [Buffers -> Commands \cup {Noise}]
      /\ count \in Nat /\ POOL \in Nat /\ Len(pool) \in Nat /\ Len(queue) \in Nat
      /\ Len(pool) + Len(queue) = POOL
    BY HandlerAssumption DEF TypeInv, CommandsInv, HandlerTypeOK
<1>1. \A c \in Buffers : c # radio => content'[c] = content[c]
    BY <1>0 DEF ReceiveCommand, Receive
<1>2. n \in Nat /\ 1 <= n /\ n <= count - Len(queue)
    BY <1>0 DEF Fresh, FreshAfter
<1>3. ASSUME count - n < POOL
      PROVE  /\ n + POOL - count \in 1 .. Len(pool) /\ pool[n + POOL - count] = b
             /\ content'[b] = old
    <2>1. /\ n + POOL - count \in 1 .. Len(pool) /\ pool[n + POOL - count] = b
          /\ content[b] = old
        BY <1>3 DEF Fresh, FreshAfter
    <2>2. b \in Buffers /\ b # radio
        BY <1>0, <2>1 DEF TypeInv, CommandsInv, Apart
    <2> QED
        BY <1>1, <2>1, <2>2
<1>4. CASE UNCHANGED <<pool, queue, count>>
    BY <1>2, <1>3, <1>4 DEF Fresh, FreshAfter
<1>5. CASE pool # << >> /\ queue' = Append(queue, radio) /\ pool' = Tail(pool) /\ count' = count + 1
    <2>1. /\ Len(pool') = Len(pool) - 1
          /\ \A i \in 1 .. Len(pool) - 1 : pool'[i] = pool[i + 1]
        BY <1>0, <1>5, TailEntries
    <2>2. Len(queue') = Len(queue) + 1
        BY <1>0, <1>5, AppendEntries
    <2>3. n \in 1 .. count' - Len(queue')
        BY <1>0, <1>2, <1>5, <2>2
    <2>4. ASSUME count' - n < POOL
          PROVE  /\ n + POOL - count' \in 1 .. Len(pool') /\ pool'[n + POOL - count'] = b
                 /\ content'[b] = old
        <3>1. count - n < POOL
            BY <1>0, <1>2, <1>5, <2>4
        <3> DEFINE m == n + POOL - count'
        <3>2. m + 1 = n + POOL - count /\ m \in 1 .. Len(pool) - 1
            <4>1. n + POOL - count \in 1 .. Len(pool)
                BY <1>3, <3>1
            <4> QED
                BY <1>0, <1>2, <1>5, <2>4, <4>1
        <3>3. pool'[m] = pool[m + 1]
            BY <2>1, <3>2
        <3> QED
            BY <1>3, <2>1, <3>1, <3>2, <3>3
    <2> QED
        BY <2>3, <2>4 DEF Fresh, FreshAfter
<1> QED
    BY <1>4, <1>5 DEF ReceiveCommand, Receive

LEMMA FreshOtherPacket ==
    ASSUME TypeInv, NEW b, NEW old, NEW n, Fresh(b, old, n), OtherPacket
    PROVE  FreshAfter(b, old, n)
<1>1. ASSUME count - n < POOL PROVE content'[b] = old
    <2>1. /\ n + POOL - count \in 1 .. Len(pool) /\ pool[n + POOL - count] = b
          /\ content[b] = old
        BY <1>1 DEF Fresh, FreshAfter
    <2>2. b \in Buffers /\ b # radio
        BY <2>1 DEF TypeInv, CommandsInv, HandlerTypeOK, Apart
    <2> QED
        BY <2>1, <2>2 DEF OtherPacket, TypeInv, CommandsInv, HandlerTypeOK
<1> QED
    BY <1>1 DEF OtherPacket, Fresh, FreshAfter

LEMMA FreshProcess ==
    ASSUME TypeInv, ProcessCommand
    PROVE  /\ \A b, old, n : Fresh(b, old, n) => FreshAfter(b, old, n)
           /\ \A b, old, n : b = Head(queue) /\ old = Running /\ n = RunningNumber
                => FreshAfter(b, old, n)
<1>0. /\ pool \in Seq(Buffers) /\ queue \in Seq(Buffers) /\ queue # << >>
      /\ count \in Nat /\ POOL \in Nat /\ Len(pool) \in Nat /\ Len(queue) \in Nat
      /\ Len(pool) + Len(queue) = POOL /\ Len(queue) <= count
      /\ UNCHANGED <<content, count>>
    BY HandlerAssumption DEF TypeInv, CommandsInv, HandlerTypeOK, ProcessCommand
<1>1. /\ Len(queue') = Len(queue) - 1
      /\ Head(queue) \in Buffers
    BY <1>0, TailEntries DEF ProcessCommand
<1>2. /\ Len(pool') = Len(pool) + 1
      /\ \A i \in 1 .. Len(pool) : pool'[i] = pool[i]
      /\ pool'[Len(pool) + 1] = Head(queue)
    BY <1>0, <1>1, AppendEntries DEF ProcessCommand
<1>3. ASSUME NEW b, NEW old, NEW n, Fresh(b, old, n)
      PROVE  FreshAfter(b, old, n)
    <2>1. n \in 1 .. count - Len(queue)
        BY <1>3 DEF Fresh, FreshAfter
    <2>2. n \in 1 .. count - Len(queue')
        BY <1>0, <1>1, <2>1
    <2>3. ASSUME count - n < POOL
          PROVE  /\ n + POOL - count \in 1 .. Len(pool') /\ pool'[n + POOL - count] = b
                 /\ content[b] = old
        <3>1. /\ n + POOL - count \in 1 .. Len(pool) /\ pool[n + POOL - count] = b
              /\ content[b] = old
            BY <1>3, <2>3 DEF Fresh, FreshAfter
        <3> QED
            BY <1>0, <1>2, <3>1
    <2> QED
        BY <1>0, <2>2, <2>3 DEF Fresh, FreshAfter
<1>4. ASSUME NEW b, NEW old, NEW n, b = Head(queue), old = Running, n = RunningNumber
      PROVE  FreshAfter(b, old, n)
    <2>1. n = count - Len(queue) + 1 /\ content[b] = old
        BY <1>4 DEF RunningNumber, Running
    <2>2. n \in 1 .. count - Len(queue')
        BY <1>0, <1>1, <2>1
    <2>3. n + POOL - count = Len(pool) + 1
        BY <1>0, <2>1
    <2>4. n + POOL - count \in 1 .. Len(pool') /\ pool'[n + POOL - count] = b
        BY <1>0, <1>2, <1>4, <2>3
    <2> QED
        BY <1>0, <2>1, <2>2, <2>4 DEF Fresh, FreshAfter
<1> QED
    BY <1>3, <1>4

\* The commands and the sockets are of one script.
From(script) ==
    /\ Future \subseteq script
    /\ \A fd \in Fds : sockets[fd].for \in script \cup {Accept}

\* A socket is in one entry.
Distinct ==
    \A i, j \in Entries :
        messageCache[i].fd # 0 /\ messageCache[i].fd = messageCache[j].fd => i = j

\* On a node that opens no chat connection: what a transfer wrote is its first bytes,
\* and its entry has counted them.
Transfers ==
    /\ \A i \in Entries : stringCache[i] = NoString
    /\ \A fd \in Fds : Is(fd, "bytes") =>
        /\ Len(sockets[fd].written) <= sockets[fd].for.transfer
        /\ \A k \in DOMAIN sockets[fd].written : sockets[fd].written[k] = k - 1
    /\ \A i \in Entries :
        messageCache[i].fd # 0 /\ Is(messageCache[i].fd, "bytes") =>
            /\ messageCache[i].sent = Len(sockets[messageCache[i].fd].written)
            /\ messageCache[i].total = sockets[messageCache[i].fd].for.transfer

\* On a node that does: a connection has written its string, or messages sent on it, each
\* once and none that is still to be run.
Said(fd) ==
    /\ IsInjective(sockets[fd].written)
    /\ \A k \in DOMAIN sockets[fd].written :
        LET w == sockets[fd].written[k]
        IN  /\ w \notin Future
            /\ w = sockets[fd].for \/ (w # Noise /\ w.id = "msg" /\ w.conn = sockets[fd].conn)

\* A string in an entry is in its buffer still, and has not been written.
Unsaid(i, fd) ==
    /\ Fresh(stringCache[i], sockets[fd].for, sockets[fd].number)
    /\ \A k \in DOMAIN sockets[fd].written : sockets[fd].written[k] # sockets[fd].for

Strings ==
    /\ ~acceptTimer /\ ~connectTimer
    /\ \A fd \in Fds : Is(fd, "hello") /\ sockets[fd].for \notin Future
    /\ \A fd \in Fds : fd \notin late => Said(fd)
    /\ \A i \in Entries, fd \in Fds :
        messageCache[i].fd = fd /\ stringCache[i] # NoString /\ fd \notin late => Unsaid(i, fd)

AskedInv ==
    /\ TypeInv /\ Ordered /\ Distinct
    /\ \E script \in Scripts :
        /\ From(script)
        /\ IF Asks(script, "hello") THEN Strings ELSE Transfers

LEMMA AskedInit == Init => AskedInv
<1> SUFFICES ASSUME Init PROVE AskedInv
    OBVIOUS
<1>1. TypeInv
    BY TypeInit
<1>2. sockets = << >> /\ Fds = {} /\ Len(accepted) = 0 /\ todo \in Scripts
    BY DEF Init, HandlerInit, Fds
<1>3. Ordered /\ Future = todo
    BY <1>2 DEF Ordered, Future
<1>4. \A i \in Entries : messageCache[i].fd = 0 /\ stringCache[i] = NoString
    BY DEF Init
<1>5. Distinct
    BY <1>4 DEF Distinct
<1>6. Transfers
    BY <1>2, <1>4 DEF Transfers
<1>7. Strings
    BY <1>2 DEF Init, Strings
<1>8. From(todo)
    BY <1>2, <1>3 DEF From
<1> QED
    BY <1>1, <1>2, <1>3, <1>5, <1>6, <1>7, <1>8 DEF AskedInv

LEMMA AskedHolds ==
    ASSUME Separate, AskedInv
    PROVE  WhatWasAsked
<1>1. PICK script \in Scripts : /\ From(script)
                                /\ IF Asks(script, "hello") THEN Strings ELSE Transfers
    BY DEF AskedInv
<1>2. \A fd \in Fds : sockets[fd].for \in script \/ Is(fd, "accept")
    BY <1>1, AcceptedSocketType DEF From, Is
<1>3. CASE Asks(script, "hello")
    <2>1. \A fd \in Fds : ~Is(fd, "bytes")
        <3>1. ~Asks(script, "bytes")
            BY <1>3 DEF Separate
        <3> QED
            BY <1>2, <3>1 DEF Is, Asks
    <2>2. ASSUME NEW fd \in Fds, fd \notin late
          PROVE  /\ IsInjective(sockets[fd].written)
                 /\ \A w \in ToSet(sockets[fd].written) :
                     w = sockets[fd].for \/ (w # Noise /\ w.id = "msg" /\ w.conn = sockets[fd].conn)
        <3>1. Said(fd)
            BY <1>1, <1>3, <2>2 DEF Strings
        <3> QED
            BY <3>1 DEF Said, ToSet
    <2> QED
        BY <2>1, <2>2 DEF WhatWasAsked
<1>4. CASE ~Asks(script, "hello")
    <2>1. \A fd \in Fds : ~Is(fd, "hello")
        BY <1>2, <1>4 DEF Is, Asks
    <2>2. Transfers
        BY <1>1, <1>4
    <2> QED
        BY <2>1, <2>2 DEF WhatWasAsked, Transfers
<1> QED
    BY <1>3, <1>4

-----------------------------------------------------------------------------
(* How the steps change it *)

\* A socket was made, and put into the entry slot if there is one.
Opened(new, slot, e) ==
    /\ Fds = 1 .. Len(sockets) /\ Len(sockets) \in Nat /\ Len(sockets) + 1 \notin Fds
    /\ Fds' = Fds \cup {Len(sockets) + 1}
    /\ sockets'[Len(sockets) + 1] = new
    /\ \A fd \in Fds : sockets'[fd] = sockets[fd]
    /\ \A i \in Entries : /\ messageCache'[i] = IF i = slot THEN e ELSE messageCache[i]
                          /\ messageCache[i].fd # 0 => messageCache[i].fd \in Fds
    /\ slot \in Entries => e.fd = Len(sockets) + 1 /\ messageCache[slot].fd = 0

LEMMA OpenEffect ==
    ASSUME TypeInv, Distinct, NEW new, NEW slot, NEW e, slot = Slot(messageCache, 1),
           slot \in Entries => e.fd = Len(sockets) + 1,
           sockets' = Append(sockets, new), messageCache' = Into(messageCache, slot, e)
    PROVE  Opened(new, slot, e) /\ Distinct'
<1>0. /\ sockets \in Seq(Socket) /\ Len(sockets) \in Nat /\ Fds = 1 .. Len(sockets)
      /\ messageCache \in [Entries -> [fd : 0 .. Len(sockets), sent : Nat, total : Nat]]
    BY DEF TypeInv, ConnectionTypes, TableTypes, Fds
<1>1. /\ Fds' = 1 .. Len(sockets) + 1
      /\ sockets'[Len(sockets) + 1] = new /\ \A fd \in Fds : sockets'[fd] = sockets[fd]
    BY <1>0 DEF Fds
<1>2. Fds' = Fds \cup {Len(sockets) + 1} /\ Len(sockets) + 1 \notin Fds
    BY <1>0, <1>1
<1>3. \A i \in Entries : /\ messageCache'[i] = IF i = slot THEN e ELSE messageCache[i]
                         /\ messageCache[i].fd # 0 => messageCache[i].fd \in Fds
    BY <1>0 DEF Into
<1>4. slot \in Entries => messageCache[slot].fd = 0
    BY SlotEmpty, EntriesRange
<1>5. Opened(new, slot, e)
    BY <1>0, <1>1, <1>2, <1>3, <1>4 DEF Opened
<1>6. Distinct'
    <2> SUFFICES ASSUME NEW i \in Entries, NEW j \in Entries,
                        messageCache'[i].fd # 0, messageCache'[i].fd = messageCache'[j].fd
                 PROVE  i = j
        BY DEF Distinct, Entries
    <2>1. CASE i = slot /\ j # slot
        BY <1>2, <1>3, <2>1
    <2>2. CASE i # slot /\ j = slot
        BY <1>2, <1>3, <2>2
    <2>3. CASE i # slot /\ j # slot
        BY <1>3, <2>3 DEF Distinct
    <2> QED
        BY <2>1, <2>2, <2>3
<1> QED
    BY <1>5, <1>6

\* A new socket gets an entry that has sent nothing.
LEMMA TransfersOpen ==
    ASSUME Transfers, NEW new, NEW slot, NEW e, Opened(new, slot, e), stringCache' = stringCache,
           new.for.id = "bytes" =>
                /\ new.written = << >> /\ new.for.transfer \in Nat
                /\ slot \in Entries => e.sent = 0 /\ e.total = new.for.transfer
    PROVE  Transfers'
<1>1. ASSUME NEW fd \in Fds', sockets'[fd].for.id = "bytes"
      PROVE  /\ Len(sockets'[fd].written) <= sockets'[fd].for.transfer
             /\ \A k \in DOMAIN sockets'[fd].written : sockets'[fd].written[k] = k - 1
    <2>1. CASE fd \in Fds
        BY <1>1, <2>1 DEF Opened, Transfers, Is
    <2>2. CASE fd = Len(sockets) + 1
        <3>1. sockets'[fd] = new
            BY <2>2 DEF Opened
        <3>2. new.written = << >> /\ new.for.transfer \in Nat
            BY <1>1, <3>1
        <3> QED
            BY <3>1, <3>2
    <2> QED
        BY <2>1, <2>2 DEF Opened
<1>2. ASSUME NEW i \in Entries, messageCache'[i].fd # 0, sockets'[messageCache'[i].fd].for.id = "bytes"
      PROVE  /\ messageCache'[i].sent = Len(sockets'[messageCache'[i].fd].written)
             /\ messageCache'[i].total = sockets'[messageCache'[i].fd].for.transfer
    <2>1. CASE i = slot
        <3>1. messageCache'[i] = e /\ sockets'[e.fd] = new
            BY <2>1 DEF Opened
        <3> QED
            BY <1>2, <2>1, <3>1
    <2>2. CASE i # slot
        <3>1. messageCache'[i] = messageCache[i] /\ messageCache[i].fd \in Fds
            BY <1>2, <2>2 DEF Opened
        <3>2. sockets'[messageCache[i].fd] = sockets[messageCache[i].fd]
            BY <3>1 DEF Opened
        <3> QED
            BY <1>2, <3>1, <3>2 DEF Transfers, Is
    <2> QED
        BY <2>1, <2>2
<1> QED
    BY <1>1, <1>2 DEF Transfers, Is, Entries

\* What says nothing about transfers keeps them.
LEMMA TransfersSame ==
    ASSUME TypeInv, Transfers, Fds' = Fds, stringCache' = stringCache,
           \A fd \in Fds : /\ sockets'[fd].for = sockets[fd].for
                           /\ Is(fd, "bytes") => sockets'[fd].written = sockets[fd].written,
           \A i \in Entries : messageCache'[i].fd # 0 => messageCache'[i] = messageCache[i]
    PROVE  Transfers'
<1>1. \A i \in Entries : messageCache[i].fd # 0 => messageCache[i].fd \in Fds
    BY DEF TypeInv, ConnectionTypes, TableTypes, Fds
<1> QED
    BY <1>1 DEF Transfers, Is, Entries

\* The entries of two sequences put together.
LEMMA Concatenated ==
    ASSUME NEW S, NEW s \in Seq(S), NEW t \in Seq(S), NEW a \in Nat, NEW c \in Nat,
           Len(s) = a, Len(t) = c
    PROVE  /\ Len(s \o t) = a + c /\ DOMAIN (s \o t) = 1 .. a + c
           /\ \A k \in 1 .. a + c : (s \o t)[k] = IF k <= a THEN s[k] ELSE t[k - a]
    OBVIOUS

\* connectTimer.fired: what is written goes on where the transfer was, and stops at its end.
LEMMA TransfersWrite ==
    ASSUME TypeInv, Transfers, Distinct, ConnectTimerFired
    PROVE  Transfers' /\ Distinct'
<1>1. PICK n \in [Unfinished -> 0 .. CHUNK] :
        /\ Fds' = Fds
        /\ \A i \in Unfinished : n[i] <= Offered(messageCache[i])
        /\ \A fd \in Fds : sockets'[fd].for = sockets[fd].for
        /\ \A fd \in Fds : Left(fd) = {} => sockets'[fd] = sockets[fd]
        /\ \A fd \in Fds : Left(fd) # {} =>
            /\ Min(Left(fd)) \in Left(fd)
            /\ sockets'[fd].written = sockets[fd].written \o Bytes(Min(Left(fd)), n)
        /\ \A i \in Entries :
            /\ messageCache'[i].fd = messageCache[i].fd
            /\ messageCache'[i].total = messageCache[i].total
            /\ messageCache'[i].sent
                = IF i \in Unfinished THEN messageCache[i].sent + n[i] ELSE messageCache[i].sent
        /\ stringCache' = stringCache
    BY BytesEffect
<1>0. /\ sockets \in Seq(Socket) /\ Fds = DOMAIN sockets /\ CHUNK \in Nat
      /\ messageCache \in [Entries -> [fd : 0 .. Len(sockets), sent : Nat, total : Nat]]
    BY ConnectionAssumption DEF TypeInv, ConnectionTypes, TableTypes, Fds
<1>2. Distinct'
    BY <1>1 DEF Distinct, Entries
\* The entry of a transfer.
<1>3. ASSUME NEW fd \in Fds, Is(fd, "bytes"), NEW i \in Unfinished, messageCache[i].fd = fd
      PROVE  /\ sockets'[fd].written = sockets[fd].written \o Bytes(i, n)
             /\ Len(sockets'[fd].written) = messageCache[i].sent + n[i]
             /\ messageCache[i].sent + n[i] <= sockets[fd].for.transfer
             /\ \A k \in DOMAIN sockets'[fd].written : sockets'[fd].written[k] = k - 1
    <2> DEFINE w == sockets[fd].written
               a == messageCache[i].sent
    <2>0. i \in Entries /\ messageCache[i].fd # 0
        BY DEF Unfinished
    <2>1. /\ w \in Seq(Taken) /\ a \in Nat /\ a = Len(w) /\ n[i] \in Nat
          /\ messageCache[i].total = sockets[fd].for.transfer /\ messageCache[i].total \in Nat
          /\ a <= messageCache[i].total
          /\ \A k \in 1 .. a : w[k] = k - 1
        <3>1. w \in Seq(Taken) /\ a \in Nat /\ n[i] \in Nat /\ messageCache[i].total \in Nat
            <4>1. sockets[fd] \in Socket
                BY <1>0
            <4>2. w \in Seq(Taken)
                BY <4>1 DEF Socket
            <4>3. a \in Nat /\ messageCache[i].total \in Nat
                BY <1>0, <2>0
            <4>4. n[i] \in 0 .. CHUNK
                OBVIOUS
            <4> QED
                BY <1>0, <4>2, <4>3, <4>4
        <3>2. a = Len(w) /\ messageCache[i].total = sockets[fd].for.transfer
            BY <1>3, <2>0 DEF Transfers
        <3>3. Len(w) <= sockets[fd].for.transfer /\ \A k \in DOMAIN w : w[k] = k - 1
            BY <1>3 DEF Transfers
        <3>4. DOMAIN w = 1 .. Len(w)
            BY <3>1
        <3> QED
            BY <3>1, <3>2, <3>3, <3>4
    <2>2. Left(fd) = {i}
        <3>1. i \in Left(fd)
            BY <1>3 DEF Left
        <3>2. \A j \in Left(fd) : j = i
            BY <1>3, <2>0 DEF Left, Unfinished, Distinct
        <3> QED
            BY <3>1, <3>2
    <2>3. Left(fd) # {} /\ Min(Left(fd)) = i
        BY <1>1, <2>2
    <2>4. sockets'[fd].written = w \o Bytes(i, n)
        BY <1>1, <2>3
    <2>5. a + n[i] <= messageCache[i].total
        <3>1. Offered(messageCache[i]) = Min({messageCache[i].total - a, CHUNK})
            BY <2>1 DEF Offered
        <3> DEFINE S == {messageCache[i].total - a, CHUNK}
        <3>2. S \in SUBSET Nat /\ messageCache[i].total - a \in S /\ messageCache[i].total - a \in Nat
            BY <1>0, <2>1
        <3> HIDE DEF S
        <3>3. Min(S) \in S /\ Min(S) <= messageCache[i].total - a
            BY <3>2, MinOf
        <3>4. n[i] <= Min(S) /\ Min(S) \in Nat
            BY <1>1, <3>1, <3>2, <3>3 DEF S
        <3>5. n[i] <= messageCache[i].total - a
            BY <2>1, <3>2, <3>3, <3>4
        <3> QED
            BY <2>1, <3>5
    <2> DEFINE b == Bytes(i, n)
    <2>6. Len(b) = n[i] /\ b \in Seq(Nat) /\ \A k \in 1 .. n[i] : b[k] = a + k - 1
        <3>1. \A k \in 1 .. n[i] : a + k - 1 \in Nat
            BY <2>1
        <3> QED
            BY <2>1, <3>1 DEF Bytes
    <2>7. b \in Seq(Taken)
        BY <2>6 DEF Taken
    <2> HIDE DEF w, a, b
    <2>8. /\ Len(w \o b) = a + n[i] /\ DOMAIN (w \o b) = 1 .. a + n[i]
          /\ \A k \in 1 .. a + n[i] : (w \o b)[k] = IF k <= a THEN w[k] ELSE b[k - a]
        BY <2>1, <2>6, <2>7, Concatenated
    <2>9. ASSUME NEW k \in 1 .. a + n[i] PROVE (w \o b)[k] = k - 1
        <3>1. CASE k <= a
            BY <2>1, <2>8, <3>1
        <3>2. CASE ~(k <= a)
            <4>1. k - a \in 1 .. n[i] /\ a + (k - a) - 1 = k - 1
                BY <2>1, <3>2
            <4> QED
                BY <2>6, <2>8, <3>2, <4>1
        <3> QED
            BY <3>1, <3>2
    <2> QED
        BY <2>1, <2>4, <2>5, <2>8, <2>9 DEF w, a, b
\* What is not left unfinished is not written.
<1>4. ASSUME NEW fd \in Fds, Is(fd, "bytes")
      PROVE  /\ Len(sockets'[fd].written) <= sockets'[fd].for.transfer
             /\ \A k \in DOMAIN sockets'[fd].written : sockets'[fd].written[k] = k - 1
    <2>1. CASE Left(fd) = {}
        BY <1>1, <1>4, <2>1 DEF Transfers
    <2>2. CASE Left(fd) # {}
        <3>1. PICK i \in Unfinished : messageCache[i].fd = fd
            BY <2>2 DEF Left
        <3> QED
            BY <1>1, <1>3, <1>4, <3>1
    <2> QED
        BY <2>1, <2>2
<1>5. ASSUME NEW i \in Entries, messageCache[i].fd # 0, Is(messageCache[i].fd, "bytes")
      PROVE  /\ messageCache'[i].sent = Len(sockets'[messageCache[i].fd].written)
             /\ messageCache'[i].total = sockets'[messageCache[i].fd].for.transfer
    <2> DEFINE fd == messageCache[i].fd
    <2>1. fd \in Fds
        BY <1>0, <1>5
    <2>2. messageCache'[i].total = sockets'[fd].for.transfer
        BY <1>1, <1>5, <2>1 DEF Transfers
    <2>3. CASE i \in Unfinished
        BY <1>1, <1>3, <1>5, <2>1, <2>2, <2>3
    <2>4. CASE i \notin Unfinished
        <3>1. Left(fd) = {}
            BY <1>5, <2>4 DEF Left, Unfinished, Distinct
        <3> QED
            BY <1>1, <1>5, <2>1, <2>2, <2>4, <3>1 DEF Transfers
    <2> QED
        BY <2>3, <2>4
<1>6. \A i \in Entries : messageCache'[i].fd # 0 =>
        /\ messageCache'[i].fd = messageCache[i].fd /\ messageCache[i].fd \in Fds
        /\ sockets'[messageCache'[i].fd].for = sockets[messageCache[i].fd].for
    BY <1>0, <1>1
<1>7. \A i \in Entries : stringCache'[i] = NoString
    BY <1>1 DEF Transfers
<1>8. \A i \in Entries :
        messageCache'[i].fd # 0 /\ sockets'[messageCache'[i].fd].for.id = "bytes" =>
            /\ messageCache'[i].sent = Len(sockets'[messageCache'[i].fd].written)
            /\ messageCache'[i].total = sockets'[messageCache'[i].fd].for.transfer
    BY <1>5, <1>6 DEF Is
<1> QED
    BY <1>1, <1>2, <1>4, <1>7, <1>8 DEF Transfers, Is, Entries

\* acceptTimer.fired only adds sockets that no command made.
LEMMA TransfersAccept ==
    ASSUME TypeInv, Distinct, AcceptTimerFired
    PROVE  /\ Transfers => Transfers'
           /\ Distinct'
           /\ \A script : From(script) => From(script)'
<1>1. /\ Served(messageCache', sockets') /\ UNCHANGED <<handler, stringCache>>
      /\ TypeInv /\ sockets' \in Seq(Socket)
    BY AcceptEffect DEF AcceptTimerFired, ConnectionTypes, TableTypes
<1>2. /\ Fds = 1 .. Len(sockets) /\ Len(sockets) \in Nat
      /\ Fds' = DOMAIN sockets' /\ Len(sockets') \in Nat /\ Len(sockets) <= Len(sockets')
      /\ Fds' = 1 .. Len(sockets')
      /\ \A i \in Entries : messageCache[i].fd \in 0 .. Len(sockets)
    BY <1>1 DEF Fds, TypeInv, ConnectionTypes, TableTypes, Served
<1>3. /\ \A fd \in Fds : /\ sockets'[fd].for = sockets[fd].for
                         /\ sockets'[fd].written = sockets[fd].written
      /\ \A fd \in Fds' : fd \in Fds \/ sockets'[fd].for = Accept
      /\ \A i \in Entries : messageCache'[i] = messageCache[i] \/ messageCache'[i].fd > Len(sockets)
      /\ \A i, j \in Entries :
            messageCache'[i].fd > Len(sockets) /\ messageCache'[i].fd = messageCache'[j].fd => i = j
    BY <1>1, <1>2 DEF Served
<1>4. Distinct'
    <2> SUFFICES ASSUME NEW i \in Entries, NEW j \in Entries,
                        messageCache'[i].fd # 0, messageCache'[i].fd = messageCache'[j].fd
                 PROVE  i = j
        BY DEF Distinct, Entries
    <2>1. CASE messageCache'[i].fd > Len(sockets)
        BY <1>3, <2>1
    <2>2. CASE ~(messageCache'[i].fd > Len(sockets))
        <3>1. messageCache'[i] = messageCache[i] /\ messageCache'[j] = messageCache[j]
            BY <1>3, <2>2
        <3> QED
            BY <3>1 DEF Distinct
    <2> QED
        BY <2>1, <2>2
<1>5. ASSUME NEW i \in Entries, messageCache'[i] # messageCache[i]
      PROVE  sockets'[messageCache'[i].fd].for = Accept
    <2>1. messageCache'[i].fd \in Fds' \/ messageCache'[i].fd = 0
        <3>1. TableTypes(messageCache', sockets')
            BY AcceptEffect DEF ConnectionTypes
        <3> QED
            BY <1>2, <3>1 DEF TableTypes
    <2>2. messageCache'[i].fd > Len(sockets)
        BY <1>3, <1>5
    <2>3. messageCache'[i].fd \in Fds' /\ messageCache'[i].fd \notin Fds
        BY <1>2, <2>1, <2>2
    <2> QED
        BY <1>3, <2>3
<1>6. ASSUME Transfers PROVE Transfers'
    <2>1. ASSUME NEW fd \in Fds', sockets'[fd].for.id = "bytes"
          PROVE  /\ fd \in Fds /\ sockets[fd].for.id = "bytes"
                 /\ sockets'[fd].for = sockets[fd].for /\ sockets'[fd].written = sockets[fd].written
        BY <1>3, <2>1, AcceptedSocketType
    <2>2. ASSUME NEW i \in Entries, messageCache'[i].fd # 0,
                 sockets'[messageCache'[i].fd].for.id = "bytes"
          PROVE  /\ messageCache'[i].sent = Len(sockets'[messageCache'[i].fd].written)
                 /\ messageCache'[i].total = sockets'[messageCache'[i].fd].for.transfer
        <3>1. messageCache'[i] = messageCache[i]
            BY <1>5, <2>2, AcceptedSocketType
        <3>2. messageCache[i].fd \in Fds
            BY <1>2, <2>2, <3>1
        <3> QED
            BY <1>3, <1>6, <2>2, <3>1, <3>2 DEF Transfers, Is
    <2> QED
        BY <1>1, <1>6, <2>1, <2>2 DEF Transfers, Is, Entries
<1>7. ASSUME NEW script, From(script) PROVE From(script)'
    <2>1. Future' = Future
        BY <1>1 DEF handler, Future
    <2> QED
        BY <1>3, <1>7, <2>1 DEF From, Accept
<1> QED
    BY <1>4, <1>6, <1>7

\* What writes to no socket and fills no entry keeps the strings.
LEMMA StringsSame ==
    ASSUME TypeInv, Strings, Fds' = Fds, stringCache' = stringCache, late' = late,
           acceptTimer' = acceptTimer, connectTimer' = connectTimer,
           Future' \subseteq Future,
           \A b, old, n : Fresh(b, old, n) => FreshAfter(b, old, n),
           \A fd \in Fds : /\ sockets'[fd].for = sockets[fd].for
                           /\ sockets'[fd].written = sockets[fd].written
                           /\ sockets'[fd].conn = sockets[fd].conn
                           /\ sockets'[fd].number = sockets[fd].number,
           \A i \in Entries : messageCache'[i].fd # 0 => messageCache'[i] = messageCache[i]
    PROVE  Strings'
<1>0. Fds = 1 .. Len(sockets) /\ Len(sockets) \in Nat
    BY DEF TypeInv, ConnectionTypes, TableTypes, Fds
<1>1. ASSUME NEW fd \in Fds PROVE Is(fd, "hello")' /\ sockets'[fd].for \notin Future'
    BY <1>1 DEF Strings, Is
<1>2. ASSUME NEW fd \in Fds, fd \notin late PROVE Said(fd)'
    BY <1>2 DEF Strings, Said
<1>3. ASSUME NEW i \in Entries, NEW fd \in Fds,
             messageCache'[i].fd = fd, stringCache'[i] # NoString, fd \notin late
      PROVE  Unsaid(i, fd)'
    <2>1. messageCache[i].fd = fd
        BY <1>0, <1>3
    <2>2. Unsaid(i, fd)
        BY <1>3, <2>1 DEF Strings
    <2>3. Fresh(stringCache[i], sockets[fd].for, sockets[fd].number)
        BY <2>2 DEF Unsaid
    <2> DEFINE b == stringCache[i]
               old == sockets[fd].for
               n == sockets[fd].number
    <2>4. stringCache'[i] = b /\ sockets'[fd].for = old /\ sockets'[fd].number = n
        OBVIOUS
    <2>5. FreshAfter(b, old, n)
        <3>1. Fresh(b, old, n)
            BY <2>3
        <3> HIDE DEF b, old, n
        <3> QED
            BY <3>1
    <2> HIDE DEF b, old, n
    <2> QED
        BY <2>2, <2>4, <2>5 DEF Unsaid, Fresh, FreshAfter, old
<1> QED
    BY <1>1, <1>2, <1>3 DEF Strings, Entries, Is

\* A message is written behind what its connection has.
LEMMA StringsMsg ==
    ASSUME TypeInv, Strings, Ordered, queue # << >>, ProcessCommand, SendMsg(Running),
           Running.id = "msg", Running # Noise
    PROVE  Strings'
<1> DEFINE fd == FindSocket(Running.conn)
           cmd == Running
<1>0. /\ sockets \in Seq(Socket) /\ Fds = DOMAIN sockets /\ Fds = 1 .. Len(sockets)
      /\ Len(sockets) \in Nat
    BY DEF TypeInv, ConnectionTypes, TableTypes, Fds
<1>1. Future' \subseteq Future /\ cmd \in Future /\ cmd \notin Future'
    BY OrderedProcess DEF TypeInv
<1>2. \A b, old, n : Fresh(b, old, n) => FreshAfter(b, old, n)
    BY FreshProcess
<1>3. UNCHANGED <<messageCache, stringCache, timers, attempted, late>>
    BY DEF SendMsg
<1>4. CASE sockets' = sockets
    BY <1>1, <1>2, <1>3, <1>4, StringsSame DEF timers, Fds
<1>5. CASE Wrote(fd, cmd)
    <2>1. fd \in Fds /\ sockets[fd].conn = cmd.conn
        BY <1>0, <1>5, Found DEF Wrote, Established
    <2> DEFINE s == sockets[fd]
               w == Append(s.written, cmd)
    <2>2. s \in Socket /\ s.written \in Seq(Taken) /\ cmd \in Taken
        <3>1. s \in Socket
            BY <1>0, <2>1
        <3>2. s.written \in Seq(Taken)
            BY <3>1 DEF Socket
        <3>3. cmd \in Taken
            BY RunningAccepted DEF Taken, TypeInv
        <3> QED
            BY <3>1, <3>2, <3>3
    <2>3. sockets' = [sockets EXCEPT ![fd].written = w]
        BY <1>5 DEF Wrote
    <2>4. /\ Fds' = Fds
          /\ \A g \in Fds : /\ sockets'[g].for = sockets[g].for
                            /\ sockets'[g].conn = sockets[g].conn
                            /\ sockets'[g].number = sockets[g].number
                            /\ g # fd => sockets'[g].written = sockets[g].written
          /\ sockets'[fd].written = w
        <3> DEFINE new == [s EXCEPT !.written = w]
        <3>1. sockets' = [sockets EXCEPT ![fd] = new]
            BY <2>3
        <3>2. w \in Seq(Taken)
            BY <2>2
        <3> HIDE DEF w
        <3>3. /\ new \in Socket /\ new.for = s.for /\ new.conn = s.conn /\ new.number = s.number
              /\ new.written = w
            BY <2>2, <3>2 DEF Socket
        <3> HIDE DEF new
        <3>4. DOMAIN sockets' = DOMAIN sockets
              /\ \A g \in DOMAIN sockets : sockets'[g] = IF g = fd THEN new ELSE sockets[g]
            BY <1>0, <2>1, <3>1, <3>3, ReplaceSocket
        <3> QED
            BY <1>0, <2>1, <3>3, <3>4 DEF Fds
    <2>5. /\ Len(w) = Len(s.written) + 1 /\ Len(s.written) \in Nat
          /\ \A k \in 1 .. Len(s.written) : w[k] = s.written[k]
          /\ w[Len(s.written) + 1] = cmd
          /\ DOMAIN w = 1 .. Len(s.written) + 1 /\ DOMAIN s.written = 1 .. Len(s.written)
        BY <2>2, AppendEntries
    <2> HIDE DEF w, fd, cmd
    <2>6. \A k \in DOMAIN w : \/ k \in DOMAIN s.written /\ w[k] = s.written[k]
                              \/ k = Len(s.written) + 1 /\ w[k] = cmd
        BY <2>5
    <2>7. ASSUME NEW g \in Fds PROVE Is(g, "hello")' /\ sockets'[g].for \notin Future'
        BY <1>1, <2>4, <2>7 DEF Strings, Is
    <2>8. ASSUME NEW g \in Fds, g \notin late PROVE Said(g)'
        <3>1. Said(g)
            BY <2>8 DEF Strings
        <3>2. CASE g # fd
            BY <1>1, <2>4, <2>8, <3>1, <3>2 DEF Said
        <3>3. CASE g = fd
            <4>1. \A k \in DOMAIN s.written : s.written[k] # cmd
                BY <1>1, <3>1, <3>3 DEF Said
            <4>2. IsInjective(w)
                <5>1. \A a, b \in DOMAIN s.written : s.written[a] = s.written[b] => a = b
                    BY <3>1, <3>3 DEF Said, IsInjective
                <5>2. \A a, b \in DOMAIN w : w[a] = w[b] => a = b
                    BY <2>6, <4>1, <5>1
                <5> QED
                    BY <5>2 DEF IsInjective
            <4>3. ASSUME NEW k \in DOMAIN w
                  PROVE  /\ w[k] \notin Future'
                         /\ w[k] = s.for \/ (w[k] # Noise /\ w[k].id = "msg" /\ w[k].conn = s.conn)
                <5>1. CASE w[k] = cmd
                    BY <1>1, <2>1, <5>1 DEF cmd
                <5>2. CASE k \in DOMAIN s.written /\ w[k] = s.written[k]
                    BY <1>1, <3>1, <3>3, <5>2 DEF Said
                <5> QED
                    BY <2>6, <5>1, <5>2
            <4> QED
                BY <2>4, <3>3, <4>2, <4>3 DEF Said
        <3> QED
            BY <3>2, <3>3
    <2>9. ASSUME NEW i \in Entries, NEW g \in Fds,
                 messageCache'[i].fd = g, stringCache'[i] # NoString, g \notin late
          PROVE  Unsaid(i, g)'
        <3>1. Unsaid(i, g)
            BY <1>3, <2>9 DEF Strings
        <3>2. Fresh(stringCache[i], sockets[g].for, sockets[g].number)'
            <4> DEFINE b == stringCache[i]
                       old == sockets[g].for
                       n == sockets[g].number
            <4>1. stringCache'[i] = b /\ sockets'[g].for = old /\ sockets'[g].number = n
                BY <1>3, <2>4
            <4>2. FreshAfter(b, old, n)
                BY <1>2, <3>1 DEF Unsaid
            <4> QED
                BY <4>1, <4>2 DEF Fresh, FreshAfter
        <3>3. \A k \in DOMAIN sockets'[g].written : sockets'[g].written[k] # sockets'[g].for
            <4>1. CASE g # fd
                BY <2>4, <3>1, <4>1 DEF Unsaid
            <4>2. CASE g = fd
                <5>1. cmd # s.for
                    BY <1>1, <2>9, <4>2 DEF Strings
                <5> QED
                    BY <2>4, <2>6, <3>1, <4>2, <5>1 DEF Unsaid
            <4> QED
                BY <4>1, <4>2
        <3> QED
            BY <3>2, <3>3 DEF Unsaid
    <2> QED
        BY <1>3, <2>4, <2>7, <2>8, <2>9 DEF Strings, timers, Entries, Is
<1> QED
    BY <1>4, <1>5 DEF SendMsg, Wrote

\* A new connection has said nothing, and its command's buffer is the last of the pool.
LEMMA StringsOpen ==
    ASSUME TypeInv, Strings, Ordered, queue # << >>, ProcessCommand, Running.id = "hello",
           NEW new, NEW slot, NEW e, Opened(new, slot, e),
           new = NewSocket(Running.conn, Running, "SYN_SENT"),
           stringCache' = Into(stringCache, slot, Head(queue)),
           UNCHANGED <<connectTimer, acceptTimer, late>>
    PROVE  Strings'
<1> DEFINE top == Len(sockets) + 1
<1>0. /\ Fds' = Fds \cup {top} /\ top \notin Fds /\ late \subseteq Fds
      /\ sockets'[top] = new /\ \A fd \in Fds : sockets'[fd] = sockets[fd]
    BY DEF Opened, TypeInv, ConnectionTypes
<1>1. /\ new.for = Running /\ new.number = RunningNumber /\ new.written = << >>
      /\ new.for.id = "hello"
    BY DEF NewSocket
<1>2. Future' \subseteq Future /\ Running \notin Future'
    BY OrderedProcess DEF TypeInv
<1> HIDE DEF top
<1>3. ASSUME NEW fd \in Fds' PROVE sockets'[fd].for.id = "hello" /\ sockets'[fd].for \notin Future'
    BY <1>0, <1>1, <1>2 DEF Strings, Is
<1>4. ASSUME NEW fd \in Fds', fd \notin late PROVE Said(fd)'
    <2>1. CASE fd \in Fds
        BY <1>0, <1>2, <1>4, <2>1 DEF Strings, Said
    <2>2. CASE fd = top
        <3>1. sockets'[fd].written = << >>
            BY <1>0, <1>1, <2>2
        <3>2. DOMAIN sockets'[fd].written = {}
            BY <3>1
        <3> QED
            BY <3>2 DEF Said, IsInjective
    <2> QED
        BY <1>0, <2>1, <2>2
<1>5. ASSUME NEW i \in Entries, NEW fd \in Fds',
             messageCache'[i].fd = fd, stringCache'[i] # NoString, fd \notin late
      PROVE  Unsaid(i, fd)'
    <2>1. CASE i = slot
        <3>1. messageCache'[i] = e /\ e.fd = top /\ fd = top /\ stringCache'[i] = Head(queue)
            BY <1>5, <2>1 DEF Opened, Into, top
        <3> DEFINE b == Head(queue)
                   old == Running
                   n == RunningNumber
        <3>2. FreshAfter(b, old, n)
            BY FreshProcess
        <3>3. stringCache'[i] = b /\ sockets'[fd].for = old /\ sockets'[fd].number = n
            BY <1>0, <1>1, <3>1
        <3>4. DOMAIN sockets'[fd].written = {}
            BY <1>0, <1>1, <3>1
        <3> QED
            BY <3>2, <3>3, <3>4 DEF Unsaid, Fresh, FreshAfter
    <2>2. CASE i # slot
        <3>1. /\ messageCache[i].fd = fd /\ fd \in Fds /\ stringCache'[i] = stringCache[i]
              /\ sockets'[fd] = sockets[fd]
            <4>1. messageCache'[i] = messageCache[i] /\ stringCache'[i] = stringCache[i]
                BY <2>2 DEF Opened, Into
            <4>2. fd # 0
                BY <1>0 DEF Opened, top
            <4>3. fd \in Fds
                BY <1>5, <4>1, <4>2 DEF Opened
            <4> QED
                BY <1>0, <1>5, <4>1, <4>3
        <3>2. Unsaid(i, fd)
            BY <1>5, <3>1 DEF Strings
        <3> DEFINE b == stringCache[i]
                   old == sockets[fd].for
                   n == sockets[fd].number
        <3>3. FreshAfter(b, old, n)
            <4>1. Fresh(b, old, n)
                BY <3>2 DEF Unsaid
            <4> HIDE DEF b, old, n
            <4> QED
                BY <4>1, FreshProcess
        <3> QED
            BY <3>1, <3>2, <3>3 DEF Unsaid, Fresh, FreshAfter
    <2> QED
        BY <2>1, <2>2
<1>6. ~acceptTimer' /\ ~connectTimer' /\ late' = late
    BY DEF Strings
<1> QED
    BY <1>3, <1>4, <1>5, <1>6 DEF Strings, Entries, Is

\* connectTimerString.fired writes, unless it is too late, the string of the command, which
\* was not written and is then in no entry.
LEMMA StringsWrite ==
    ASSUME TypeInv, Strings, Distinct, ConnectTimerStringFired
    PROVE  Strings' /\ Distinct'
<1>0. /\ sockets \in Seq(Socket) /\ Fds = 1 .. Len(sockets) /\ Fds = DOMAIN sockets
      /\ Len(sockets) \in Nat
      /\ count \in Nat /\ POOL \in Nat
    BY HandlerAssumption DEF TypeInv, ConnectionTypes, TableTypes, CommandsInv, HandlerTypeOK, Fds
<1>1. PICK T \in SUBSET Waiting :
      /\ Fds' = Fds
      /\ late' = late \cup {fd \in Fds : Of(T, fd) # {} /\ count - sockets[fd].number >= POOL}
      /\ \A fd \in Fds : /\ sockets'[fd].for = sockets[fd].for
                         /\ sockets'[fd].conn = sockets[fd].conn
                         /\ sockets'[fd].number = sockets[fd].number
      /\ \A fd \in Fds : Of(T, fd) = {} => sockets'[fd] = sockets[fd]
      /\ \A fd \in Fds : Of(T, fd) # {} =>
            /\ Min(Of(T, fd)) \in Of(T, fd)
            /\ sockets'[fd].written
                = Append(sockets[fd].written, content[stringCache[Min(Of(T, fd))]])
      /\ \A i \in Entries : stringCache'[i] = IF i \in T THEN NoString ELSE stringCache[i]
      /\ UNCHANGED <<handler, messageCache, connectTimer, acceptTimer, attempted>>
    BY StringEffect
<1>2. Distinct'
    BY <1>1 DEF Distinct, Entries
<1>3. Future' = Future
    BY <1>1 DEF handler, Future
<1>4. ASSUME NEW fd \in Fds PROVE Is(fd, "hello")' /\ sockets'[fd].for \notin Future'
    BY <1>1, <1>3, <1>4 DEF Strings, Is
<1>5. ASSUME NEW fd \in Fds, fd \notin late' PROVE Said(fd)'
    <2>1. fd \notin late
        BY <1>1, <1>5
    <2>2. Said(fd)
        BY <2>1 DEF Strings
    <2>3. CASE Of(T, fd) = {}
        BY <1>1, <1>3, <2>2, <2>3 DEF Said
    <2>4. CASE Of(T, fd) # {}
        <3> DEFINE i == Min(Of(T, fd))
                   s == sockets[fd]
                   w == Append(s.written, s.for)
        <3>1. i \in Entries /\ messageCache[i].fd = fd /\ stringCache[i] # NoString
            BY <1>1, <2>4 DEF Of, Waiting
        <3>2. Unsaid(i, fd)
            BY <2>1, <3>1 DEF Strings
        <3>3. content[stringCache[i]] = s.for
            <4>1. s \in Socket
                BY <1>0
            <4>2. s.number \in Nat
                BY <4>1 DEF Socket
            <4>3. ~(count - s.number >= POOL)
                BY <1>1, <1>5, <2>4
            <4>4. count - s.number < POOL
                BY <1>0, <4>2, <4>3
            <4> QED
                BY <3>2, <4>4 DEF Unsaid, Fresh
        <3>4. sockets'[fd].written = w
            BY <1>1, <2>4, <3>3
        <3>5. s.written \in Seq(Taken) /\ s.for \in Taken
            <4>1. s \in Socket
                BY <1>0
            <4>2. s.written \in Seq(Taken) /\ s.for \in Commands \cup {Accept}
                BY <4>1 DEF Socket
            <4>3. s.for # Accept
                BY AcceptedSocketType DEF Strings, Is
            <4> QED
                BY <4>2, <4>3 DEF Taken
        <3>6. /\ Len(w) = Len(s.written) + 1 /\ Len(s.written) \in Nat
              /\ \A k \in 1 .. Len(s.written) : w[k] = s.written[k]
              /\ w[Len(s.written) + 1] = s.for
              /\ DOMAIN w = 1 .. Len(s.written) + 1 /\ DOMAIN s.written = 1 .. Len(s.written)
            BY <3>5, AppendEntries
        <3> HIDE DEF w, i
        <3>7. \A k \in DOMAIN w : \/ k \in DOMAIN s.written /\ w[k] = s.written[k]
                                  \/ k = Len(s.written) + 1 /\ w[k] = s.for
            BY <3>6
        <3>8. \A k \in DOMAIN s.written : s.written[k] # s.for
            BY <3>2 DEF Unsaid
        <3>9. \A a, b \in DOMAIN w : w[a] = w[b] => a = b
            <4>1. \A a, b \in DOMAIN s.written : s.written[a] = s.written[b] => a = b
                BY <2>2 DEF Said, IsInjective
            <4> QED
                BY <3>7, <3>8, <4>1
        <3>10. ASSUME NEW k \in DOMAIN w
               PROVE  /\ w[k] \notin Future
                      /\ w[k] = s.for \/ (w[k] # Noise /\ w[k].id = "msg" /\ w[k].conn = s.conn)
            <4>1. CASE w[k] = s.for
                BY <4>1 DEF Strings
            <4>2. CASE k \in DOMAIN s.written /\ w[k] = s.written[k]
                BY <2>2, <4>2 DEF Said
            <4> QED
                BY <3>7, <4>1, <4>2
        <3> QED
            BY <1>1, <1>3, <3>4, <3>9, <3>10 DEF Said, IsInjective
    <2> QED
        BY <2>3, <2>4
<1>6. ASSUME NEW i \in Entries, NEW fd \in Fds,
             messageCache'[i].fd = fd, stringCache'[i] # NoString, fd \notin late'
      PROVE  Unsaid(i, fd)'
    <2>1. i \notin T /\ stringCache'[i] = stringCache[i] /\ messageCache[i].fd = fd /\ fd # 0
        BY <1>0, <1>1, <1>6
    <2>2. Of(T, fd) = {}
        <3> SUFFICES ASSUME NEW j \in Of(T, fd) PROVE FALSE
            OBVIOUS
        <3>1. j \in T /\ j \in Entries /\ messageCache[j].fd = fd
            BY <1>1 DEF Of, Waiting
        <3> QED
            BY <2>1, <3>1 DEF Distinct
    <2>3. sockets'[fd] = sockets[fd]
        BY <1>1, <2>2
    <2>4. Unsaid(i, fd)
        BY <1>1, <1>6, <2>1 DEF Strings
    <2>5. UNCHANGED <<count, queue, pool, content>>
        BY <1>1 DEF handler
    <2> QED
        BY <2>1, <2>3, <2>4, <2>5 DEF Unsaid, Fresh
<1> QED
    BY <1>1, <1>2, <1>4, <1>5, <1>6 DEF Strings, Entries, Is

\* Commands that are run, and sockets there were, stay of the script.
LEMMA FromSame ==
    ASSUME NEW script, From(script), Future' \subseteq Future, Fds' = Fds,
           \A fd \in Fds : sockets'[fd].for = sockets[fd].for
    PROVE  From(script)'
    BY DEF From, Accept

LEMMA FromOpen ==
    ASSUME NEW script, From(script), Future' \subseteq Future,
           NEW new, NEW slot, NEW e, Opened(new, slot, e), new.for \in script
    PROVE  From(script)'
<1>1. ASSUME NEW fd \in Fds' PROVE sockets'[fd].for \in script \cup {Accept}
    <2>1. CASE fd \in Fds
        BY <2>1 DEF Opened, From
    <2>2. CASE fd = Len(sockets) + 1
        BY <2>2 DEF Opened
    <2> QED
        BY <2>1, <2>2 DEF Opened
<1> QED
    BY <1>1 DEF From, Accept

\* A command is received, or another packet.
LEMMA AskedReceive ==
    ASSUME TypeInv, Distinct, UNCHANGED connection, Future' \subseteq Future,
           \A b, old, n : Fresh(b, old, n) => FreshAfter(b, old, n)
    PROVE  /\ Distinct' /\ \A script : From(script) => From(script)'
           /\ Transfers => Transfers'
           /\ Strings => Strings'
<1>1. UNCHANGED <<messageCache, stringCache, sockets, late, acceptTimer, connectTimer>> /\ Fds' = Fds
    BY DEF connection, timers, Fds
<1>2. Distinct'
    BY <1>1 DEF Distinct, Entries
<1>3. \A script : From(script) => From(script)'
    BY <1>1, FromSame
<1>4. Transfers => Transfers'
    BY <1>1, TransfersSame
<1>5. Strings => Strings'
    BY <1>1, StringsSame
<1> QED
    BY <1>2, <1>3, <1>4, <1>5

\* The network changes a socket's state, or attempts a connection.
LEMMA AskedNetwork ==
    ASSUME TypeInv, Distinct, Ordered, Fds' = Fds,
           UNCHANGED <<handler, messageCache, stringCache, timers, late>>,
           \A fd \in Fds : /\ sockets'[fd].for = sockets[fd].for
                           /\ sockets'[fd].written = sockets[fd].written
                           /\ sockets'[fd].conn = sockets[fd].conn
                           /\ sockets'[fd].number = sockets[fd].number
    PROVE  /\ Distinct' /\ Ordered' /\ \A script : From(script) => From(script)'
           /\ Transfers => Transfers'
           /\ Strings => Strings'
<1>1. Distinct' /\ Ordered' /\ Future' = Future
    BY DEF Distinct, Ordered, Future, handler, Entries
<1>2. \A b, old, n : Fresh(b, old, n) => FreshAfter(b, old, n)
    BY DEF handler, Fresh, FreshAfter
<1>3. \A script : From(script) => From(script)'
    BY <1>1, FromSame
<1>4. Transfers => Transfers'
    BY TransfersSame
<1>5. Strings => Strings'
    BY <1>1, <1>2, StringsSame DEF timers
<1> QED
    BY <1>1, <1>3, <1>4, <1>5

\* A command is run: on a node of strings it is a string, a message or neither of them.
LEMMA AskedRun ==
    ASSUME Separate, AskedInv, RunCommand, NEW script \in Scripts, From(script),
           IF Asks(script, "hello") THEN Strings ELSE Transfers
    PROVE  /\ Distinct' /\ Ordered' /\ From(script)'
           /\ IF Asks(script, "hello") THEN Strings' ELSE Transfers'
<1>0. TypeInv /\ Distinct /\ Ordered /\ ProcessCommand /\ queue # << >>
    BY DEF AskedInv, RunCommand, ProcessCommand
<1>1. Ordered' /\ Future' \subseteq Future /\ Running \in Future
    BY <1>0, OrderedProcess DEF TypeInv
<1>2. \A b, old, n : Fresh(b, old, n) => FreshAfter(b, old, n)
    BY <1>0, FreshProcess
<1>3. /\ Running \in script /\ Running # Noise
      /\ Running.id = "bytes" => Running.transfer \in Nat
    BY <1>0, <1>1, RunningAccepted, HandlerAssumption DEF From, TypeInv
<1>4. /\ Asks(script, "hello") => Running.id # "bytes" /\ Running.id # "server"
      /\ ~Asks(script, "hello") => Running.id # "hello"
      /\ Running.id = "msg" => ~Asks(script, "bytes")
    <2>1. Asks(script, Running.id)
        BY <1>3 DEF Asks
    <2> QED
        BY <2>1 DEF Separate
<1>5. CASE Running.id = "server" /\ TestServer(Running)
    <2> DEFINE fd   == Len(sockets) + 1
               slot == Slot(messageCache, 1)
               new  == NewSocket(Running.conn, Running, "LISTEN")
               e    == [messageCache[slot] EXCEPT !.fd = fd]
    <2>1. /\ sockets' = Append(sockets, new) /\ messageCache' = Into(messageCache, slot, e)
          /\ stringCache' = stringCache
        BY <1>5 DEF TestServer
    <2>2. slot \in Entries => e.fd = fd
        BY <1>0 DEF TypeInv, ConnectionTypes, TableTypes
    <2>3. new.for = Running
        BY DEF NewSocket
    <2> HIDE DEF new, e, slot
    <2>4. Opened(new, slot, e) /\ Distinct'
        BY <1>0, <2>1, <2>2, OpenEffect DEF slot
    <2>5. Transfers => Transfers'
        BY <1>5, <2>1, <2>3, <2>4, TransfersOpen
    <2>6. From(script)'
        BY <1>1, <1>3, <2>3, <2>4, FromOpen
    <2> QED
        BY <1>1, <1>4, <1>5, <2>4, <2>5, <2>6
<1>6. CASE Running.id = "bytes" /\ TestClientBytes(Running)
    <2> DEFINE fd   == Len(sockets) + 1
               slot == Slot(messageCache, 1)
               new  == NewSocket(Running.conn, Running, "SYN_SENT")
               e    == [fd |-> fd, sent |-> 0, total |-> Running.transfer]
    <2>1. /\ sockets' = Append(sockets, new) /\ messageCache' = Into(messageCache, slot, e)
          /\ stringCache' = stringCache
        BY <1>6 DEF TestClientBytes
    <2>2. e.fd = fd /\ e.sent = 0 /\ e.total = Running.transfer
        OBVIOUS
    <2>3. new.for = Running /\ new.written = << >>
        BY DEF NewSocket
    <2> HIDE DEF new, e, slot
    <2>4. Opened(new, slot, e) /\ Distinct'
        BY <1>0, <2>1, <2>2, OpenEffect DEF slot
    <2>5. Transfers => Transfers'
        BY <1>3, <1>6, <2>1, <2>2, <2>3, <2>4, TransfersOpen
    <2>6. From(script)'
        BY <1>1, <1>3, <2>3, <2>4, FromOpen
    <2> QED
        BY <1>1, <1>4, <1>6, <2>4, <2>5, <2>6
<1>7. CASE Running.id = "hello" /\ TestClientString(Running, Head(queue))
    <2> DEFINE fd   == Len(sockets) + 1
               slot == Slot(messageCache, 1)
               new  == NewSocket(Running.conn, Running, "SYN_SENT")
               e    == [messageCache[slot] EXCEPT !.fd = fd]
    <2>1. /\ sockets' = Append(sockets, new) /\ messageCache' = Into(messageCache, slot, e)
          /\ stringCache' = Into(stringCache, slot, Head(queue))
          /\ UNCHANGED <<connectTimer, acceptTimer, late>>
        BY <1>7 DEF TestClientString
    <2>2. slot \in Entries => e.fd = fd
        BY <1>0 DEF TypeInv, ConnectionTypes, TableTypes
    <2>3. new.for = Running /\ new = NewSocket(Running.conn, Running, "SYN_SENT")
        BY DEF NewSocket
    <2> HIDE DEF new, e, slot
    <2>4. Opened(new, slot, e) /\ Distinct'
        BY <1>0, <2>1, <2>2, OpenEffect DEF slot
    <2>5. Strings => Strings'
        BY <1>0, <1>7, <2>1, <2>3, <2>4, StringsOpen
    <2>6. From(script)'
        BY <1>1, <1>3, <2>3, <2>4, FromOpen
    <2> QED
        BY <1>1, <1>4, <1>7, <2>4, <2>5, <2>6
<1>8. CASE Running.id = "msg" /\ SendMsg(Running)
    <2>1. UNCHANGED <<messageCache, stringCache, timers, late>> /\ Fds' = Fds
          /\ \A fd \in Fds : sockets'[fd].for = sockets[fd].for
        <3>1. sockets \in Seq(Socket) /\ Fds = DOMAIN sockets
            BY <1>0 DEF TypeInv, ConnectionTypes, TableTypes, Fds
        <3>2. UNCHANGED <<messageCache, stringCache, timers, late>>
            BY <1>8 DEF SendMsg
        <3>3. CASE sockets' = sockets
            BY <3>2, <3>3 DEF Fds
        <3>4. CASE Wrote(FindSocket(Running.conn), Running)
            BY <3>1, <3>2, <3>4 DEF Wrote, Established, Fds, Socket
        <3> QED
            BY <1>8, <3>3, <3>4 DEF SendMsg, Wrote
    <2>2. Distinct'
        BY <1>0, <2>1 DEF Distinct, Entries
    <2>3. From(script)'
        BY <1>1, <2>1, FromSame
    <2>4. Strings => Strings'
        BY <1>0, <1>3, <1>8, StringsMsg
    <2>5. \A fd \in Fds : ~Is(fd, "bytes")
        BY <1>3, <1>4, <1>8, AcceptedSocketType DEF From, Asks, Is
    <2>6. Transfers => Transfers'
        BY <1>0, <2>1, <2>5, TransfersSame
    <2> QED
        BY <1>1, <2>2, <2>3, <2>4, <2>6
<1>9. CASE Running.id = "close" /\ ClientClose(Running)
    <2>1. /\ Fds' = Fds /\ UNCHANGED <<stringCache, timers, late>>
          /\ \A fd \in Fds : /\ sockets'[fd].for = sockets[fd].for
                             /\ sockets'[fd].written = sockets[fd].written
                             /\ sockets'[fd].conn = sockets[fd].conn
                             /\ sockets'[fd].number = sockets[fd].number
          /\ \A i \in Entries : messageCache'[i].fd # 0 => messageCache'[i] = messageCache[i]
        BY <1>0, <1>9, CloseEffect
    <2>2. Distinct'
        BY <1>0, <2>1 DEF Distinct, Entries
    <2>3. From(script)'
        BY <1>1, <2>1, FromSame
    <2>4. Strings => Strings'
        BY <1>0, <1>1, <1>2, <2>1, StringsSame DEF timers
    <2>5. Transfers => Transfers'
        BY <1>0, <2>1, TransfersSame
    <2> QED
        BY <1>1, <2>2, <2>3, <2>4, <2>5
<1>10. CASE UNCHANGED connection
    BY <1>0, <1>1, <1>2, <1>10, AskedReceive
<1> QED
    BY <1>5, <1>6, <1>7, <1>8, <1>9, <1>10 DEF RunCommand

LEMMA AskedNext == Separate /\ AskedInv /\ [Next]_vars => AskedInv'
<1> SUFFICES ASSUME Separate, AskedInv, [Next]_vars PROVE AskedInv'
    OBVIOUS
<1>0. TypeInv /\ Ordered /\ Distinct /\ TypeInv'
    BY TypeNext DEF AskedInv
<1>1. PICK script \in Scripts : /\ From(script)
                                /\ IF Asks(script, "hello") THEN Strings ELSE Transfers
    BY DEF AskedInv
<1> SUFFICES /\ Distinct' /\ Ordered' /\ From(script)'
             /\ IF Asks(script, "hello") THEN Strings' ELSE Transfers'
    BY <1>0 DEF AskedInv, Asks
<1>2. ASSUME NEW cmd \in todo, ReceiveCommand(cmd), UNCHANGED connection
      PROVE  /\ Distinct' /\ Ordered' /\ From(script)'
             /\ IF Asks(script, "hello") THEN Strings' ELSE Transfers'
    <2>1. Ordered' /\ Future' \subseteq Future
        BY <1>0, <1>2, OrderedReceive DEF TypeInv
    <2>2. \A b, old, n : Fresh(b, old, n) => FreshAfter(b, old, n)
        BY <1>0, <1>2, FreshReceive
    <2> QED
        BY <1>0, <1>1, <1>2, <2>1, <2>2, AskedReceive
<1>3. CASE OtherPacket /\ UNCHANGED connection
    <2>1. Ordered' /\ Future' \subseteq Future
        BY <1>0, <1>3 DEF OtherPacket, Ordered, Future
    <2>2. \A b, old, n : Fresh(b, old, n) => FreshAfter(b, old, n)
        BY <1>0, <1>3, FreshOtherPacket
    <2> QED
        BY <1>0, <1>1, <1>3, <2>1, <2>2, AskedReceive
<1>4. CASE RunCommand
    BY <1>1, <1>4, AskedRun
<1>5. CASE ConnectTimerFired
    <2>1. ~Asks(script, "hello") /\ Transfers
        BY <1>1, <1>5 DEF ConnectTimerFired, Strings
    <2>2. Transfers' /\ Distinct'
        BY <1>0, <1>5, <2>1, TransfersWrite
    <2>3. Fds' = Fds /\ UNCHANGED handler /\ \A fd \in Fds : sockets'[fd].for = sockets[fd].for
        BY <1>0, <1>5, BytesEffect
    <2>4. Ordered' /\ Future' = Future
        BY <1>0, <2>3 DEF handler, Ordered, Future
    <2>5. From(script)'
        BY <1>1, <2>3, <2>4, FromSame
    <2> QED
        BY <2>1, <2>2, <2>4, <2>5
<1>6. CASE ConnectTimerStringFired
    <2>1. /\ Fds' = Fds /\ UNCHANGED <<handler, messageCache>>
          /\ \A fd \in Fds : sockets'[fd].for = sockets[fd].for
        BY <1>0, <1>6, StringEffect
    <2>2. Ordered' /\ Future' = Future
        BY <1>0, <2>1 DEF handler, Ordered, Future
    <2>3. From(script)'
        BY <1>1, <2>1, <2>2, FromSame
    <2>4. CASE Asks(script, "hello")
        BY <1>0, <1>1, <1>6, <2>2, <2>3, <2>4, StringsWrite
    <2>5. CASE ~Asks(script, "hello")
        <3>1. Transfers
            BY <1>1, <2>5
        <3>2. Waiting = {}
            BY <3>1 DEF Transfers, Waiting
        <3>3. /\ \A fd \in Fds : sockets'[fd] = sockets[fd]
              /\ \A i \in Entries : stringCache'[i] = stringCache[i]
              /\ ConnectionTypes'
            <4>1. PICK T \in SUBSET Waiting :
                    /\ ConnectionTypes'
                    /\ \A fd \in Fds : Of(T, fd) = {} => sockets'[fd] = sockets[fd]
                    /\ \A i \in Entries :
                        stringCache'[i] = IF i \in T THEN NoString ELSE stringCache[i]
                BY <1>0, <1>6, StringEffect
            <4>2. T = {} /\ \A fd \in Fds : Of(T, fd) = {}
                BY <3>2, <4>1 DEF Of
            <4> QED
                BY <4>1, <4>2
        <3>4. stringCache' = stringCache
            <4>1. stringCache' \in [Entries -> Buffers \cup {NoString}]
                BY <3>3 DEF ConnectionTypes, Entries, Buffers
            <4>2. stringCache \in [Entries -> Buffers \cup {NoString}]
                BY <1>0 DEF TypeInv, ConnectionTypes
            <4> QED
                BY <3>3, <4>1, <4>2
        <3>5. Transfers'
            BY <1>0, <2>1, <3>1, <3>3, <3>4, TransfersSame
        <3>6. Distinct'
            BY <1>0, <2>1 DEF Distinct, Entries
        <3> QED
            BY <2>2, <2>3, <2>5, <3>5, <3>6
    <2> QED
        BY <2>4, <2>5
<1>7. CASE AcceptTimerFired
    <2>1. ~Asks(script, "hello") /\ Transfers
        BY <1>1, <1>7 DEF AcceptTimerFired, Strings
    <2>2. Transfers' /\ Distinct' /\ From(script)'
        BY <1>0, <1>1, <1>7, <2>1, TransfersAccept
    <2>3. Ordered'
        BY <1>0, <1>7 DEF AcceptTimerFired, handler, Ordered
    <2> QED
        BY <2>1, <2>2, <2>3
<1>8. ASSUME NEW fd \in Fds, Connected(fd) \/ ReceiveFin(fd)
      PROVE  /\ Distinct' /\ Ordered' /\ From(script)'
             /\ IF Asks(script, "hello") THEN Strings' ELSE Transfers'
    <2>1. /\ Fds' = Fds /\ UNCHANGED <<handler, messageCache, stringCache, timers, late>>
          /\ \A g \in Fds : /\ sockets'[g].for = sockets[g].for
                            /\ sockets'[g].written = sockets[g].written
                            /\ sockets'[g].conn = sockets[g].conn
                            /\ sockets'[g].number = sockets[g].number
        BY <1>0, <1>8, StateEffect
    <2> QED
        BY <1>0, <1>1, <2>1, AskedNetwork
<1>9. CASE UNCHANGED <<handler, messageCache, stringCache, timers, sockets, late>>
    <2>1. Fds' = Fds
        BY <1>9 DEF Fds
    <2> QED
        BY <1>0, <1>1, <1>9, <2>1, AskedNetwork
<1>10. ASSUME NEW port \in Ports, ReceiveSyn(port)
       PROVE  /\ Distinct' /\ Ordered' /\ From(script)'
              /\ IF Asks(script, "hello") THEN Strings' ELSE Transfers'
    BY <1>9, <1>10 DEF ReceiveSyn
<1>11. CASE UNCHANGED vars
    BY <1>9, <1>11 DEF vars, connection
<1> QED
    BY <1>2, <1>3, <1>4, <1>5, <1>6, <1>7, <1>8, <1>10, <1>11 DEF Next

\* On a node that opens transfers or strings but not both, connectTimer.fired writes of a
\* transfer its first bytes in order, and connectTimerString.fired a string once, if it
\* reads its buffer before POOL more commands are accepted: whatever is received, closed
\* or accepted meanwhile, and however full the caches are.
THEOREM WhatWasAskedAlways ==
    ASSUME Separate
    PROVE  Spec => []WhatWasAsked
<1>1. Init => AskedInv
    BY AskedInit
<1>2. AskedInv /\ [Next]_vars => AskedInv'
    BY AskedNext
<1>3. AskedInv => WhatWasAsked
    BY AskedHolds
<1> QED
    BY <1>1, <1>2, <1>3, PTL DEF Spec
=============================================================================
