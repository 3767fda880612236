----------------------------- MODULE SymbolTable -----------------------------
(***************************************************************************)
(* The associative array of symbols in lemon.c, which grows as it fills:   *)
(* tbl holds the symbols in the order they came in, and a list of ht, here *)
(* a set, the positions of those with the same hash.                       *)
(***************************************************************************)
EXTENDS Naturals, Sequences

CONSTANTS strhash,      \* of every name
          InitialSize   \* 128

ASSUME TableAssumption == InitialSize \in Nat \ {0} /\ \A key \in DOMAIN strhash : strhash[key] \in Nat

Bucket(size, key) == strhash[key] % size

Symbol_init == [size |-> InitialSize, tbl |-> <<>>, ht |-> [h \in 0..InitialSize - 1 |-> {}]]

(* Where a symbol is, if it is there *)
Symbol_find(x2a, key) == {n \in x2a.ht[Bucket(x2a.size, key)] : x2a.tbl[n] = key}

Grown(x2a) ==
    [size |-> 2 * x2a.size, tbl |-> x2a.tbl,
     ht |-> [h \in 0..2 * x2a.size - 1 |-> {n \in DOMAIN x2a.tbl : Bucket(2 * x2a.size, x2a.tbl[n]) = h}]]

(* With the new symbol in list h *)
Put(x2a, h, key) ==
    [size |-> x2a.size, tbl |-> Append(x2a.tbl, key),
     ht |-> [x2a.ht EXCEPT ![h] = @ \cup {Len(x2a.tbl) + 1}]]

(* Mutant: the list is the one of before the table has grown. *)
InsertedByOldHash(x2a, key) ==
    IF Symbol_find(x2a, key) # {} THEN x2a
    ELSE LET room == IF Len(x2a.tbl) >= x2a.size THEN Grown(x2a) ELSE x2a
         IN  Put(room, Bucket(x2a.size, key), key)

Symbol_insert(x2a, key) ==
    IF Symbol_find(x2a, key) # {} THEN x2a
    ELSE LET room == IF Len(x2a.tbl) >= x2a.size THEN Grown(x2a) ELSE x2a
         IN  Put(room, Bucket(room.size, key), key)

Symbol_new(x2a, key) == IF Symbol_find(x2a, key) = {} THEN Symbol_insert(x2a, key) ELSE x2a
=============================================================================
