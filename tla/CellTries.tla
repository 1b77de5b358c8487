----------------------------- MODULE CellTries ------------------------------
(***************************************************************************)
(* The trie natives (trie_natives.cpp, trie_natives.h): handles to tries    *)
(* whose values are TrieData, with the cells of strings and arrays in a     *)
(* malloc'ed block the value points to.  TrieData has no destructor and its *)
(* copies are shallow, so blocks are freed by freeCells only.               *)
(***************************************************************************)
EXTENDS KTrie

CONSTANTS
  Keys,
  Writes,     \* what plugins store: [key, type, data]
  MaxTries,   \* bound: handles
  MaxCreates, \* bound: TrieCreate calls
  NULL

ASSUME KeyAssumption == Keys \subseteq Seq(Chars)
(* A string has its terminator at least. *)
ASSUME WriteAssumption ==
  \A w \in Writes :
    /\ w.key \in Keys /\ w.type \in {"CELL", "STRING", "ARRAY"}
    /\ w.type # "CELL" => w.data \in Seq(Range(w.data))
    /\ w.type = "STRING" => w.data # <<>>

DataCells == UNION {Range(w.data) : w \in {x \in Writes : x.type # "CELL"}}

(* TrieData: m_data is <<>> for NULL, its length is m_cellcount; cell is      *)
(* m_cell, which is set for the type CELL only.                              *)
TrieData ==
  [type : {"UNSET", "STRING", "ARRAY"}, data : Seq(DataCells)]
    \union [type : {"CELL"}, data : {<<>>},
            cell : {w.data : w \in {x \in Writes : x.type = "CELL"}}]

Values == TrieData \union {NoValue}

\* No pointer to a value or to a trie is NULL.
ASSUME NoValueAssumption == NoValue \notin TrieData
ASSUME NullAssumption == NULL \notin Trie(Values) /\ NULL \notin [Keys -> Values]

ASSUME BoundAssumption == MaxTries \in Nat /\ MaxCreates \in Nat

VARIABLES
  m_tries,   \* the vector of TrieHandles: a trie or NULL; the handle is the index
  blocks,    \* trie_malloc_count - trie_free_count
  creates,   \* TrieCreate calls so far
  survivors, \* history: handles whose empty key outlived a TrieClear
  dict       \* history: what the natives promise, see Dictionaries

vars == <<m_tries, blocks, creates, survivors, dict>>

Dict == INSTANCE Dictionaries WITH NoEntry <- NoValue, Closed <- NULL

(***************************************************************************)
(* The cells.                                                               *)
(***************************************************************************)
UnsetData == [type |-> "UNSET", data |-> <<>>]

\* needCells and the memcpy: a block that is long enough is written in place.
Overwritten(old, data) == data \o SubSeq(old, Len(data) + 1, Len(old))

\* setCell, setString, setArray.
Set(td, w) ==
  CASE w.type = "CELL" -> [type |-> "CELL", data |-> <<>>, cell |-> w.data]
    [] w.type = "ARRAY" /\ w.data = <<>> -> td
    [] OTHER -> [type |-> w.type, data |-> Overwritten(td.data, w.data)]

Blocks(td) == IF td = NoValue THEN 0 ELSE IF td.data = <<>> THEN 0 ELSE 1

(***************************************************************************)
(* The natives.  lookup rejects a handle that is out of range or NULL.      *)
(***************************************************************************)
Handles == {h \in DOMAIN m_tries : m_tries[h] # NULL}

Init == m_tries = <<>> /\ blocks = 0 /\ creates = 0 /\ survivors = {} /\ Dict!Init

\* create reuses the first free handle.
TrieCreate ==
  /\ creates < MaxCreates
  /\ creates' = creates + 1
  /\ \/ /\ Handles # DOMAIN m_tries
        /\ m_tries' = [m_tries EXCEPT ![Min(DOMAIN m_tries \ Handles)] = NewTrie]
     \/ /\ Handles = DOMAIN m_tries /\ Len(m_tries) < MaxTries
        /\ m_tries' = Append(m_tries, NewTrie)
  /\ Dict!Create
  /\ UNCHANGED <<blocks, survivors>>

\* Trie t for handle h, with w stored in the value in slot i.
StoreAt(h, t, i, w) ==
  LET old == t.m_base[i].val
  IN /\ m_tries' = [m_tries EXCEPT ![h] = [t EXCEPT !.m_base[i].val = Set(old, w)]]
     /\ blocks' = (blocks + Blocks(Set(old, w))) - Blocks(old)

(* TrieSetCell, TrieSetString and TrieSetArray.  When insert has put a Term   *)
(* over the root, the walk of retrieve begins with an offset into the string  *)
(* table, which the model does not have, for its base: it finds nothing or    *)
(* some value of the trie.  No store or deletion is modelled for a trie       *)
(* without its root.                                                          *)
TrieSet(h, w) ==
  LET t == IF retrieve(m_tries[h], w.key) = NoValue
           THEN insert(m_tries[h], w.key, UnsetData) ELSE m_tries[h]
      td == retrieve(t, w.key)
  IN /\ Rooted(m_tries[h])
     /\ \/ /\ td # NoValue
           /\ m_tries' = [m_tries EXCEPT ![h] = assign(t, w.key, Set(td, w))]
           /\ blocks' = (blocks + Blocks(Set(td, w))) - Blocks(td)
        \/ /\ td = NoValue   \* "should never, ever happen"
           /\ m_tries' = [m_tries EXCEPT ![h] = t]
           /\ UNCHANGED blocks
        \/ /\ td = NoValue /\ ~Rooted(t)
           /\ \E i \in SetSlots(t) : StoreAt(h, t, i, w)
     /\ Dict!Store(h, w.key, w.type, w.data)
     /\ survivors' = IF w.key = <<>> /\ (w.type = "CELL" \/ w.data # <<>>)
                     THEN survivors \ {h} ELSE survivors
     /\ UNCHANGED creates

Forgotten(h, k) == survivors' = IF k = <<>> THEN survivors \ {h} ELSE survivors

(* Fault: remove without the freeCells before it. *)
TrieDeleteKey_Fault(h, k) ==
  /\ Rooted(m_tries[h])
  /\ m_tries' = [m_tries EXCEPT ![h] = remove(@, k)]
  /\ Dict!Delete(h, k)
  /\ Forgotten(h, k)
  /\ UNCHANGED <<blocks, creates>>

TrieDeleteKey(h, k) ==
  /\ Rooted(m_tries[h])
  /\ blocks' = blocks - Blocks(retrieve(m_tries[h], k))
  /\ m_tries' = [m_tries EXCEPT ![h] = remove(@, k)]
  /\ Dict!Delete(h, k)
  /\ Forgotten(h, k)
  /\ UNCHANGED creates

\* run_destructor looks at m_base only.
ArrayBlocks(t) == Cardinality({i \in SetSlots(t) : Blocks(t.m_base[i].val) = 1})

TrieClear(h) ==
  /\ blocks' = blocks - ArrayBlocks(m_tries[h])
  /\ m_tries' = [m_tries EXCEPT ![h] = clear(@)]
  /\ Dict!Clear(h)
  /\ survivors' = IF m_tries[h].m_empty = NoValue THEN survivors ELSE survivors \union {h}
  /\ UNCHANGED creates

TrieDestroy(h) ==
  /\ blocks' = blocks - ArrayBlocks(m_tries[h])
  /\ m_tries' = [m_tries EXCEPT ![h] = NULL]
  /\ Dict!Destroy(h)
  /\ Forgotten(h, <<>>)
  /\ UNCHANGED creates

\* TrieHandles::clear at the start of a map: the tries go, their blocks stay.
ClearHandles ==
  /\ m_tries # <<>>
  /\ m_tries' = <<>>
  /\ Dict!DestroyAll
  /\ survivors' = {}
  /\ UNCHANGED <<blocks, creates>>

Next == \/ TrieCreate
        \/ \E h \in Handles :
             \/ \E w \in Writes : TrieSet(h, w)
             \/ \E k \in Keys : TrieDeleteKey(h, k)
             \/ TrieClear(h)
             \/ TrieDestroy(h)
        \/ ClearHandles

Spec == Init /\ [][Next]_vars

TypeOK ==
  /\ m_tries \in Seq(Trie(Values) \union {NULL})
  /\ \A h \in Handles :
       LET base == m_tries[h].m_base
       IN \A i \in DOMAIN base :
            base[i].idx \in 0..Len(base) /\ base[i].parent \in 0..Len(base)
  /\ blocks \in Nat
  /\ survivors \subseteq Handles
  /\ creates \in 0..MaxCreates

(***************************************************************************)
(* Properties.                                                              *)
(***************************************************************************)
(* What retrieve found (td) and what was stored (e).  The cells of a longer  *)
(* array that the block held before may follow: nothing is promised of them. *)
ReadsAs(td, e) ==
  IF e = NoValue THEN td = NoValue
  ELSE /\ td # NoValue
       /\ td.type = e.type
       /\ e.type = "CELL" => td.cell = e.cell
       /\ IsPrefix(e.data, td.data)

(* Seen through retrieve, a trie that has its root is the dictionary the      *)
(* natives promise: whatever was inserted, split, relocated and removed       *)
(* before, a store changes its own key alone, and insert never fails to make  *)
(* a node that retrieve finds.  Only an empty key that outlived a TrieClear   *)
(* is left out: see ClearForgets.                                             *)
TriesAreDictionaries ==
  /\ DOMAIN m_tries = DOMAIN dict
  /\ \A h \in DOMAIN dict :
       /\ m_tries[h] = NULL <=> dict[h] = NULL
       /\ h \in Handles /\ Rooted(m_tries[h]) =>
            \A k \in Keys : \/ k = <<>> /\ h \in survivors
                           \/ ReadsAs(retrieve(m_tries[h], k), dict[h][k])

(* A trie loses its root only to a store of a key with character 1: splits,   *)
(* relocations and clearing keep it, so that the tries of plugins that never  *)
(* use the character stay dictionaries.                                       *)
RootKept ==
  [][ \A h \in Handles :
        (Rooted(m_tries[h]) /\ h \in Handles' /\ ~Rooted(m_tries'[h])) =>
          \E w \in Writes : TrieSet(h, w) /\ 1 \in Range(w.key) ]_vars

(* "Clears all set objects in the trie": after TrieClear no key is set.       *)
ClearForgets ==
  [][ \A h \in Handles : TrieClear(h) =>
        \A k \in Keys : retrieve(m_tries'[h], k) = NoValue ]_vars

(* What the asserts of insert say, for the whole array of a trie that has its *)
(* root: a slot in use is the child of an Arc whose base it lies behind, so   *)
(* relocation, which finds the children of a node by their parent fields,     *)
(* leaves no node behind.                                                     *)
NoOrphans ==
  \A h \in {g \in Handles : Rooted(m_tries[g])} :
    LET base == m_tries[h].m_base
    IN \A i \in DOMAIN base \ {1} :
         base[i].mode # "Unused" =>
           /\ base[base[i].parent].mode = "Arc"
           /\ \E c \in Chars : i = base[base[i].parent].idx + c

(* A block whose value is gone is lost only when the trie goes: with the     *)
(* empty key's value in TrieDestroy, with every value in ClearHandles.       *)
TrieBlocks(t) == IF t = NULL THEN 0 ELSE ArrayBlocks(t) + Blocks(t.m_empty)

\* The blocks of the first n tries.
BlockSums(tries) ==
  LET sum[n \in 0..Len(tries)] == IF n = 0 THEN 0 ELSE sum[n-1] + TrieBlocks(tries[n])
  IN sum

Lost == blocks - BlockSums(m_tries)[Len(m_tries)]

BlocksLostWithTrie ==
  [][ \/ Lost' = Lost
      \/ ClearHandles
      \/ \E h \in Handles : TrieDestroy(h) /\ Lost' = Lost + Blocks(m_tries[h].m_empty) ]_vars
=============================================================================
