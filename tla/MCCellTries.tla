---------------------------- MODULE MCCellTries -----------------------------
(* CellTries on an alphabet of three characters and an array of four slots.   *)
EXTENDS CellTries

a == 1
b == 2
c == 3
TrieKeys == {<<>>, <<b>>, <<c>>, <<b, a>>, <<b, b>>, <<b, a, b>>}

\* The value of most keys is the key itself; the others get data in a block:
\* a cell over a string, a short string over a long one, an array of size 0.
TrieWrites == {[key |-> k, type |-> "CELL", data |-> k] : k \in {<<b>>, <<b, a>>, <<b, b>>, <<b, a, b>>}}
        \union {[key |-> <<b, b>>, type |-> "STRING", data |-> <<8, 0>>],
                [key |-> <<b, b>>, type |-> "STRING", data |-> <<0>>],
                [key |-> <<c>>, type |-> "ARRAY", data |-> <<>>],
                [key |-> <<>>, type |-> "ARRAY", data |-> <<7>>]}
=============================================================================
