---------------------------- MODULE Dictionaries ----------------------------
(***************************************************************************)
(* What the trie natives promise: handles to dictionaries.  An entry has    *)
(* the type of its last store and the cell or the cells that were stored.   *)
(***************************************************************************)
EXTENDS Naturals, Sequences

CONSTANTS
  Keys,
  NoEntry,  \* the key is not set
  Closed    \* the handle is not open

VARIABLE dict   \* handle |-> Closed or an entry for each key

AbsentAll == [k \in Keys |-> NoEntry]
Unset == [type |-> "UNSET", data |-> <<>>]

\* A store replaces the entry; an array without cells leaves it as it is, but
\* the key is set from then on.
Stored(e, type, data) ==
  CASE type = "CELL" -> [type |-> "CELL", data |-> <<>>, cell |-> data]
    [] type # "CELL" /\ data = <<>> -> IF e = NoEntry THEN Unset ELSE e
    [] OTHER -> [type |-> type, data |-> data]

Init == dict = <<>>

\* The lowest closed handle, or a new one.
Create == LET closed == {h \in DOMAIN dict : dict[h] = Closed}
          IN IF closed = {} THEN dict' = Append(dict, AbsentAll)
             ELSE \E h \in closed : /\ \A g \in closed : h <= g
                                    /\ dict' = [dict EXCEPT ![h] = AbsentAll]

Store(h, k, type, data) == dict' = [dict EXCEPT ![h][k] = Stored(@, type, data)]

Delete(h, k) == dict' = [dict EXCEPT ![h][k] = NoEntry]

Clear(h) == dict' = [dict EXCEPT ![h] = AbsentAll]

Destroy(h) == dict' = [dict EXCEPT ![h] = Closed]

DestroyAll == dict' = <<>>
=============================================================================
