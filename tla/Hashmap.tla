------------------------------- MODULE Hashmap -------------------------------
(***************************************************************************)
(* One instance of HashmapC and the calls its users make.  There are three *)
(* ways of using one in this code:                                         *)
(*   "grows"   sockets, neighbors: insert, also of a key that is there, of *)
(*             the key 0 and into a full map; writes through getPointer,   *)
(*             whether the key is there or not                             *)
(*   "clears"  confirmed: insert, getPointer of what is there, and clear   *)
(*   "removes" tentative: insert, getPointer of what is there, and remove  *)
(* The last two insert a key only after contains has not found it, or a    *)
(* key that lies at its first place (a node's own, the first it inserts);  *)
(* their keys are nodes, of which there are fewer than the 30 places: at a *)
(* full table remove and clear write behind the arrays.                    *)
(***************************************************************************)
EXTENDS HashTable, FiniteSets

CONSTANTS Keys, Values, None

ASSUME HashmapAssumption ==
    /\ Keys \subseteq Nat \ {EMPTY_KEY}
    /\ None \notin Values

VARIABLES
    usage,      \* how this instance is used
    table,      \* map, keys and numofVals
    leftover,   \* history: the keys a clear has left in the map
    call        \* history: the last call that writes, with its arguments

vars == <<usage, table, leftover, call>>

Uses == {"grows", "clears", "removes"}

Init ==
    /\ usage \in Uses
    /\ table = EmptyTable(None)
    /\ leftover = {}
    /\ call = << >>

AtFirstPlace(k) == table.key[Hash(k, 0)] = k

\* The keys of routing tables: a node, inserted where the table has room for it.
NodeInserted(k) ==
    /\ k # EMPTY_KEY
    /\ ~HasKey(table, k) \/ AtFirstPlace(k)
    /\ Cardinality(Occupied(table) \cup {k}) < HASH_MAX_SIZE

Insert(k, v) ==
    /\ usage = "grows" \/ NodeInserted(k)
    /\ table' = InsertKey(table, k, v)
    /\ call' = <<"insert", k, v>>
    /\ UNCHANGED <<usage, leftover>>

Assign(k, v) ==
    /\ usage = "grows" \/ (k # EMPTY_KEY /\ HasKey(table, k))
    /\ table' = SetAt(table, k, v)
    /\ call' = <<"assign", k, v>>
    /\ UNCHANGED <<usage, leftover>>

Remove(k) ==
    /\ usage = "removes"
    /\ table' = RemoveKey(table, k)
    /\ call' = <<"remove", k>>
    /\ UNCHANGED <<usage, leftover>>

Clear ==
    /\ usage = "clears"
    /\ table' = ClearTable(table)
    /\ leftover' = Occupied(ClearTable(table))
    /\ call' = <<"clear">>
    /\ UNCHANGED usage

Next ==
    \/ \E k \in Keys \cup {EMPTY_KEY}, v \in Values : Insert(k, v) \/ Assign(k, v)
    \/ \E k \in Keys : Remove(k)
    \/ Clear

Spec == Init /\ [][Next]_vars

-----------------------------------------------------------------------------
(* Properties *)

\* Types of the two parts of the table; the list of keys never outgrows its array,
\* and never fills it where keys are removed or cleared.
TypeOK ==
    /\ usage \in Uses
    /\ table.key \in [Places -> Keys \cup {EMPTY_KEY}]
    /\ table.value \in [Places -> Values \cup {None}]
    /\ table.keys \in Seq(Keys) /\ Len(table.keys) <= HASH_MAX_SIZE
    /\ usage # "grows" => Len(table.keys) < HASH_MAX_SIZE
    /\ leftover \in SUBSET Keys

\* The list that getKeys, size and isEmpty show and the map that get reads are
\* kept in step by hand: each listed key is listed once and lies at exactly one
\* place, and only what a clear left behind is in the map without being listed.
\* (A key inserted again in front of its old place, in a hole a remove or a clear
\* made, would be at two.)
KeysListed ==
    LET listed == {table.keys[i] : i \in DOMAIN table.keys}
    IN  /\ Cardinality(listed) = Len(table.keys)
        /\ Occupied(table) = listed \cup leftover
        /\ listed \cap leftover = {}
        /\ \A i, j \in Places : table.key[i] = table.key[j] /\ i # j => table.key[i] = EMPTY_KEY

\* What get and contains see of a key, and where it lies.
View == [k \in Keys |-> IF HasKey(table, k) THEN Get(table, k) ELSE None]

NoPlace == HASH_MAX_SIZE
At      == [k \in Keys |-> IF HasKey(table, k) THEN Place(table, k) ELSE NoPlace]

\* What get, contains and size see is a dictionary, each call of this table being the
\* call of the dictionary with its name and arguments: an insert sets its key and no
\* other, and is refused only if all places of its probe sequence hold other keys; an
\* assignment through getPointer changes its key, or for a key that is not there the
\* one at place 0; a remove takes its key, and a clear the keys at the places 1 to
\* size, whatever holes removes and clears have left in the probe sequences.
Dict == INSTANCE Dictionary
            WITH dict <- View, at <- At, size <- Len(table.keys), NoKey <- EMPTY_KEY,
                 Spots <- [k \in Keys |-> {Hash(k, i) : i \in Places}]

ImplementsDictionary == Dict!Spec

=============================================================================
