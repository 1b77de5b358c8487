------------------------------- MODULE KTrie --------------------------------
(***************************************************************************)
(* The double-array trie of sm_trie_tpl.h, as operators on a trie value.    *)
(*                                                                         *)
(* A key is a sequence of character values.  m_base is one array of nodes;  *)
(* the child of node p for character c is slot m_base[p].idx + c, and it is *)
(* p's child only if its parent field says so, since slots of several       *)
(* parents interleave.  A Term node ends in a string of the string table:   *)
(* every terminator has a copy of its own there, so the model keeps the     *)
(* string in the node (rest) and has no table.  The node of slot 0 is never *)
(* addressed and is left out; valset is the value being other than NoValue. *)
(* m_numElements is read by size() alone, which nothing calls.              *)
(***************************************************************************)
EXTENDS Naturals, Sequences, FiniteSets, SequencesExt, FiniteSetsExt

CONSTANTS
  Chars,     \* the characters of keys
  MaxChar,   \* the largest value of a character: 255 in the code
  BaseSize,  \* slots of a new trie: 256 in the code
  NoValue    \* valset is false

(* charval takes every byte but the terminator. *)
ASSUME CharAssumption == MaxChar \in Nat /\ Chars \subseteq 1..MaxChar
(* One doubling of the array reaches every child of every base. *)
ASSUME SizeAssumption == BaseSize \in Nat /\ BaseSize > MaxChar

Mode == {"Unused", "Arc", "Term"}

Node(Values) == [mode : Mode, idx : Nat, parent : Nat, rest : Seq(Chars), val : Values]

Trie(Values) == [m_base : Seq(Node(Values)), m_empty : Values]

UnusedNode == [mode |-> "Unused", idx |-> 0, parent |-> 0, rest |-> <<>>, val |-> NoValue]

\* The constructor and internal_clear: the sentinel root is slot 1.
RootOnly(size) == [i \in 1..size |->
                     IF i = 1 THEN [UnusedNode EXCEPT !.mode = "Arc", !.idx = 1, !.parent = 1]
                              ELSE UnusedNode]
NewTrie == [m_base |-> RootOnly(BaseSize), m_empty |-> NoValue]

(* The root is the sentinel, which alone is its own parent.  Of an Arc with   *)
(* base 0 the child for character 1 is slot 1: to the walk a slot of another  *)
(* parent, and Relocate, when it moves the root's children away, puts the new *)
(* node over the root itself.                                                 *)
Rooted(t) == t.m_base[1].parent = 1

modeAt(t, i) == IF i <= Len(t.m_base) THEN t.m_base[i].mode ELSE "Unused"

(***************************************************************************)
(* Walking a key.  Both internal_retrieve and insert follow arcs from the   *)
(* root until the key ends, a Term node is met, or the next slot is beyond  *)
(* the array, unused or another parent's.                                   *)
(***************************************************************************)
Child(t, p, c) ==
  LET i == t.m_base[p].idx + c
  IN IF /\ t.m_base[p].mode = "Arc"
        /\ modeAt(t, i) # "Unused"
        /\ t.m_base[i].parent = p
     THEN i ELSE 0

\* The slot the walk is at after n characters, 0 once it has stopped.
Path(t, key) ==
  LET at[n \in 0..Len(key)] ==
        IF n = 0 THEN 1
        ELSE IF at[n-1] = 0 THEN 0 ELSE Child(t, at[n-1], key[n])
  IN at

\* The number of characters the walk consumes and the slot it ends at.
Walk(t, key) ==
  LET at == Path(t, key)
      n == Max({m \in 0..Len(key) : at[m] # 0})
  IN [len |-> n, slot |-> at[n]]

After(key, n) == SubSeq(key, n + 1, Len(key))

(* internal_retrieve for a key that is not empty: the slot of its node, 0    *)
(* for NULL.  An Arc ends the key there, a Term only if the rest is equal.   *)
internal_retrieve(t, key) ==
  LET w == Walk(t, key)
  IN IF w.len > 0 /\ t.m_base[w.slot].rest = After(key, w.len) THEN w.slot ELSE 0

\* NoValue stands for the NULL pointer.
retrieve(t, key) ==
  IF key = <<>> THEN t.m_empty
  ELSE LET i == internal_retrieve(t, key)
       IN IF i = 0 THEN NoValue ELSE t.m_base[i].val

(***************************************************************************)
(* Room: x_check, x_check2 and x_check_multi return the first base whose    *)
(* slots for the given characters are all unused, doubling the array when   *)
(* there is none in it.                                                     *)
(***************************************************************************)
FreeBase(t, cs) ==
  Min({q \in 1..Len(t.m_base) : \A c \in cs : modeAt(t, q + c) = "Unused"})

(* Fault: the new half is not zeroed. *)
grow_Fault(t, i) ==
  IF i <= Len(t.m_base) THEN t
  ELSE [t EXCEPT !.m_base = @ \o [j \in 1..Len(@) |-> [UnusedNode EXCEPT !.idx = 3 * Len(t.m_base)]]]

grow(t, i) ==
  IF i <= Len(t.m_base) THEN t
  ELSE [t EXCEPT !.m_base = @ \o [j \in 1..Len(@) |-> UnusedNode]]

\* A new node for the rest of a key; the slot was unused or has been erased.
Place(t, i, p, rest, v) ==
  [grow(t, i) EXCEPT !.m_base[i] =
     [@ EXCEPT !.mode = IF rest = <<>> THEN "Arc" ELSE "Term",
               !.parent = p, !.rest = rest, !.val = v]]

(***************************************************************************)
(* CASE 4: the slot belongs to another parent.  The children of one of the  *)
(* two parents move to another base.                                        *)
(***************************************************************************)
Children(t, p) ==
  {c \in 1..MaxChar : LET i == t.m_base[p].idx + c
                      IN modeAt(t, i) # "Unused" /\ t.m_base[i].parent = p}

\* A slot of the moved ones at its new place, any other as it is.
Moved(i, old, b, q) == IF i \in old THEN (i - b) + q ELSE i

(* Fault: the children of a moved node keep its old slot as their parent. *)
Followed_Fault(node, old, b, q) == node

\* A child of a moved node gets the node's new slot as its parent.
Followed(node, old, b, q) == [node EXCEPT !.parent = Moved(@, old, b, q)]

\* The nodes of p's children cs go to base q, and their children follow them.
Move(t, p, cs, q) ==
  LET b == t.m_base[p].idx
      old == {b + c : c \in cs}
      new == {q + c : c \in cs}
      base == grow(t, Max(new \union {0})).m_base
  IN [t EXCEPT !.m_base =
        [i \in DOMAIN base |-> IF i \in new THEN base[(i - q) + b]
                               ELSE IF i \in old THEN UnusedNode
                               ELSE IF i = p THEN [Followed(base[i], old, b, q) EXCEPT !.idx = q]
                               ELSE Followed(base[i], old, b, q)]]

(* Whichever list is smaller moves; the outgoing one counts the new arc.     *)
(* Moving the incoming list may move p itself.                               *)
Relocate(t, p, c, rest, v) ==
  LET slot == t.m_base[p].idx + c
      owner == t.m_base[slot].parent
      incoming == Children(t, owner)
      outgoing == Children(t, p)
  IN IF Cardinality(incoming) < Cardinality(outgoing) + 2
     THEN LET q == FreeBase(t, incoming)
              b == t.m_base[owner].idx
              lastidx == Moved(p, {b + i : i \in incoming}, b, q)
          IN Place(Move(t, owner, incoming, q), slot, lastidx, rest, v)
     ELSE LET q == FreeBase(t, outgoing \union {c})
          IN Place(Move(t, p, outgoing, q), q + c, p, rest, v)

(***************************************************************************)
(* CASE 3: the walk ends at a Term node with another rest.  The common      *)
(* prefix becomes a path of arcs, then the two rests part.                  *)
(***************************************************************************)
\* The last node of the path, for now a Term or without children, gets a base.
OnPath(node, q, v) == [node EXCEPT !.mode = "Arc", !.idx = q, !.rest = <<>>, !.val = v]
Rebase(t, s, q, last, v) == [grow(t, last) EXCEPT !.m_base[s] = OnPath(@, q, v)]

\* One more arc at the end of the path.
Extend(path, c) ==
  LET q == FreeBase(path.trie, {c})
      t == Rebase(path.trie, path.slot, q, q + c, NoValue)
  IN [trie |-> Place(t, q + c, path.slot, <<>>, NoValue), slot |-> q + c]

\* The paths of arcs from slot i for the first characters of cs.
Paths(t, i, cs) ==
  LET at[m \in 0..Len(cs)] ==
        IF m = 0 THEN [trie |-> t, slot |-> i] ELSE Extend(at[m-1], cs[m])
  IN at

(* Fault: a terminator that is a prefix of the key loses its value. *)
PathValue_Fault(oldRest, oldVal, newRest, v) == IF newRest = <<>> THEN v ELSE NoValue

\* The value of the last node of the path: that of the exhausted one.
PathValue(oldRest, oldVal, newRest, v) ==
  IF oldRest = <<>> THEN oldVal ELSE IF newRest = <<>> THEN v ELSE NoValue

(* When one of the two is exhausted the last node of the path holds its      *)
(* value and has one child; otherwise it has two.                            *)
Split(t, i, rest, v) ==
  LET term == t.m_base[i].rest
      oldVal == t.m_base[i].val
      common == LongestCommonPrefix({term, rest})
      path == Paths(t, i, common)[Len(common)]
      oldRest == After(term, Len(common))
      newRest == After(rest, Len(common))
      heads == {Head(s) : s \in {oldRest, newRest} \ {<<>>}}
      q == FreeBase(path.trie, heads)
      t1 == Rebase(path.trie, path.slot, q, q + Max(heads), PathValue(oldRest, oldVal, newRest, v))
      t2 == IF oldRest = <<>> THEN t1
            ELSE Place(t1, q + Head(oldRest), path.slot, Tail(oldRest), oldVal)
  IN IF newRest = <<>> THEN t2
     ELSE Place(t2, q + Head(newRest), path.slot, Tail(newRest), v)

(***************************************************************************)
(* The operations.                                                          *)
(***************************************************************************)
\* insert: the trie is unchanged when the key is set.
insert(t, key, v) ==
  LET w == Walk(t, key)
      rest == After(key, w.len)
      node == t.m_base[w.slot]
      slot == node.idx + Head(rest)
  IN CASE retrieve(t, key) # NoValue -> t
       [] retrieve(t, key) = NoValue /\ key = <<>> -> [t EXCEPT !.m_empty = v]
       [] OTHER ->
          IF w.len > 0 /\ node.rest = rest        \* the node is there, unset
          THEN [t EXCEPT !.m_base[w.slot].val = v]
          ELSE IF node.mode = "Term" THEN Split(t, w.slot, rest, v)
          ELSE IF modeAt(t, slot) = "Unused"      \* CASES 1 and 2
          THEN Place(t, slot, w.slot, Tail(rest), v)
          ELSE Relocate(t, w.slot, Head(rest), Tail(rest), v)

\* Assignment through the pointer retrieve returned.
assign(t, key, v) ==
  IF key = <<>> THEN [t EXCEPT !.m_empty = v]
  ELSE [t EXCEPT !.m_base[internal_retrieve(t, key)].val = v]

\* remove: only valset is taken back, the nodes stay.
remove(t, key) == IF retrieve(t, key) = NoValue THEN t ELSE assign(t, key, NoValue)

(* Fault: the sentinel is not its own parent. *)
clear_Fault(t) == [t EXCEPT !.m_base = [RootOnly(Len(@)) EXCEPT ![1].parent = 0]]

\* clear: the array keeps its size, and internal_clear does not look at m_empty.
clear(t) == [t EXCEPT !.m_base = RootOnly(Len(@))]

\* The slots that hold a value.
SetSlots(t) == {i \in DOMAIN t.m_base : t.m_base[i].val # NoValue}
=============================================================================
