------------------------------ MODULE HashTable ------------------------------
(***************************************************************************)
(* The open addressing table of HashmapC.nc as operators on its value.     *)
(* The table has two parts that the code keeps in step by hand: the places *)
(* (map), each with a key, 0 when it is empty, and a value; and the list   *)
(* of the keys (keys, numofVals), which getKeys and size show.             *)
(***************************************************************************)
EXTENDS Naturals, Sequences

CONSTANT HASH_MAX_SIZE   \* n, the number of places

ASSUME HashAssumption == HASH_MAX_SIZE \in Nat \ {0}

EMPTY_KEY == 0
Places    == 0 .. HASH_MAX_SIZE - 1

\* The place of key k after i misses.
Hash(k, i) == ((k % 13) + i * (1 + (k % 11))) % HASH_MAX_SIZE

\* A table before its first use: static memory is zero.
EmptyTable(zero) ==
    [key |-> [j \in Places |-> EMPTY_KEY], value |-> [j \in Places |-> zero], keys |-> << >>]

\* The misses after which a search that stops at the entries Stop ends.
Ends(t, k, Stop) == {i \in Places : t.key[Hash(k, i)] \in Stop}
First(S)         == CHOOSE i \in S : \A j \in S : i <= j

\* Mutant: a search that ends at the first hole.
HasKeyUpToHole(t, k) ==
    LET ends == Ends(t, k, {EMPTY_KEY, k})
    IN  ends # {} /\ t.key[Hash(k, First(ends))] = k

HasKey(t, k) == Ends(t, k, {k}) # {}

\* The place get, getPointer and remove look at; place 0 when k is not there.
Place(t, k) == IF HasKey(t, k) THEN Hash(k, First(Ends(t, k, {k}))) ELSE 0

Get(t, k) == t.value[Place(t, k)]

\* *getPointer(k) = v
SetAt(t, k, v) == [t EXCEPT !.value[Place(t, k)] = v]

\* Mutants: an insert that lists its key again when it was there, and one that
\* takes its first place when none is free.
InsertKeyListsAgain(t, k, v) ==
    LET ends == Ends(t, k, {EMPTY_KEY, k})
        j    == Hash(k, First(ends))
    IN  IF k = EMPTY_KEY \/ ends = {} THEN t
        ELSE [key   |-> [t.key EXCEPT ![j] = k],
              value |-> [t.value EXCEPT ![j] = v],
              keys  |-> Append(t.keys, k)]

InsertKeyEvicts(t, k, v) ==
    LET ends == Ends(t, k, {EMPTY_KEY, k})
        j    == IF ends = {} THEN Hash(k, 0) ELSE Hash(k, First(ends))
    IN  IF k = EMPTY_KEY THEN t
        ELSE [key   |-> [t.key EXCEPT ![j] = k],
              value |-> [t.value EXCEPT ![j] = v],
              keys  |-> IF t.key[j] = EMPTY_KEY THEN Append(t.keys, k) ELSE t.keys]

\* The search of insert stops at the first place that is empty or k's own; a
\* key none of whose places is free is not inserted.
InsertKey(t, k, v) ==
    LET ends == Ends(t, k, {EMPTY_KEY, k})
        j    == Hash(k, First(ends))
    IN  IF k = EMPTY_KEY \/ ends = {} THEN t
        ELSE [key   |-> [t.key EXCEPT ![j] = k],
              value |-> [t.value EXCEPT ![j] = v],
              keys  |-> IF t.key[j] = EMPTY_KEY THEN Append(t.keys, k) ELSE t.keys]

\* removeFromKeyList: the first k leaves the list, the keys behind it move up.
WithoutKey(keys, k) ==
    LET found == {i \in 1 .. Len(keys) : keys[i] = k}
    IN  IF found = {} THEN keys
        ELSE SubSeq(keys, 1, First(found) - 1) \o SubSeq(keys, First(found) + 1, Len(keys))

RemoveKey(t, k) ==
    IF ~HasKey(t, k) THEN t
    ELSE [t EXCEPT !.key[Place(t, k)] = EMPTY_KEY, !.keys = WithoutKey(t.keys, k)]

\* clear empties the places numofVals, ..., 1, wherever the keys are.
ClearTable(t) ==
    [t EXCEPT !.key  = [j \in Places |-> IF j \in 1 .. Len(t.keys) THEN EMPTY_KEY ELSE t.key[j]],
              !.keys = << >>]

Occupied(t) == {t.key[j] : j \in Places} \ {EMPTY_KEY}
=============================================================================
