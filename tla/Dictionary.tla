------------------------------ MODULE Dictionary ------------------------------
(***************************************************************************)
(* What a Hashmap promises its users: a partial function from keys to      *)
(* values that does what each call says, and nothing else.  A key lies at  *)
(* one place, chosen when it comes among those that are its spots; the     *)
(* place of a key shows in three calls only: insert refuses a new key all  *)
(* of whose spots are taken, an assignment to a key that is not there goes *)
(* to the key at place 0, and clear takes the keys at the places 1, ...,   *)
(* size and leaves the others.                                             *)
(***************************************************************************)
EXTENDS Naturals

CONSTANTS
    Keys, Values,
    NoKey,      \* stands for no key
    None,       \* what there is to see of a key that is not in the dictionary
    Places,
    NoPlace,    \* where a key is that is not in the dictionary
    Spots       \* Spots[k]: the places k can lie at

VARIABLES
    dict,       \* the value of each key
    at,         \* the place of each key
    size,       \* how many keys came since the last clear, less those removed
    call        \* the last call: its name and its arguments

vars == <<dict, at, size, call>>

Init ==
    /\ dict = [k \in Keys |-> None]
    /\ at = [k \in Keys |-> NoPlace]
    /\ size = 0
    /\ call = << >>

Present == {k \in Keys : at[k] \in Places}
Taken   == {at[k] : k \in Present}

InsertOld(k, v) ==
    /\ k \in Present
    /\ dict' = [dict EXCEPT ![k] = v]
    /\ UNCHANGED <<at, size>>

InsertNew(k, v) ==
    /\ k \notin Present
    /\ \E p \in Spots[k] \ Taken : at' = [at EXCEPT ![k] = p]
    /\ dict' = [dict EXCEPT ![k] = v]
    /\ size' = size + 1

Refuse(k) ==
    /\ k \notin Present
    /\ Spots[k] \subseteq Taken
    /\ UNCHANGED <<dict, at, size>>

Insert(k, v) ==
    /\ call' = <<"insert", k, v>>
    /\ InsertOld(k, v) \/ InsertNew(k, v) \/ Refuse(k)

InsertNoKey(v) ==
    /\ call' = <<"insert", NoKey, v>>
    /\ UNCHANGED <<dict, at, size>>

\* The dictionary with the value at place p replaced.
WithValueAt(p, v) == [k \in Keys |-> IF at[k] = p THEN v ELSE dict[k]]

Assign(k, v) ==
    /\ call' = <<"assign", k, v>>
    /\ dict' = WithValueAt(IF k \in Present THEN at[k] ELSE 0, v)
    /\ UNCHANGED <<at, size>>

\* No key is found at a place that is not taken, and nothing shows there.
AssignNoKey(v) ==
    /\ call' = <<"assign", NoKey, v>>
    /\ dict' = IF Places \subseteq Taken THEN WithValueAt(0, v) ELSE dict
    /\ UNCHANGED <<at, size>>

Remove(k) ==
    /\ call' = <<"remove", k>>
    /\ dict' = [dict EXCEPT ![k] = None]
    /\ at' = [at EXCEPT ![k] = NoPlace]
    /\ size' = IF k \in Present THEN size - 1 ELSE size

Clear ==
    /\ call' = <<"clear">>
    /\ dict' = [k \in Keys |-> IF at[k] \in 1 .. size THEN None ELSE dict[k]]
    /\ at' = [k \in Keys |-> IF at[k] \in 1 .. size THEN NoPlace ELSE at[k]]
    /\ size' = 0

Next ==
    \/ \E k \in Keys, v \in Values : Insert(k, v) \/ Assign(k, v)
    \/ \E v \in Values : InsertNoKey(v) \/ AssignNoKey(v)
    \/ \E k \in Keys : Remove(k)
    \/ Clear

Spec == Init /\ [][Next]_vars
=============================================================================
