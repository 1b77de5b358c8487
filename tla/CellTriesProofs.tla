--------------------------- MODULE CellTriesProofs ---------------------------
(***************************************************************************)
(* For any alphabet, keys and number of tries: the tries that have their     *)
(* root keep the dictionaries the natives promise and orphan no node of the  *)
(* double array, a root is lost to a key with character 1 only, and a block  *)
(* is held by a value until its trie goes, in tries without a root as well.  *)
(*                                                                         *)
(* Sound says of an array what the operations rely on, slot by slot.  A key  *)
(* hits the node its walk ends at, and no two keys hit the same one.         *)
(* Every operation is a sequence of four effects on the array: a node is     *)
(* Added, a node without children is Rebased, a value is written (Valued),   *)
(* the children of a node are moved (Shifts).  For each there is a lemma on  *)
(* Sound, one on the walks, one on what retrieve finds and one on Reached,   *)
(* that no value is without a key; the cases of insert put them together.    *)
(* A split builds its path arc by arc, each of them Lengthened.             *)
(*                                                                         *)
(* Reached makes the blocks countable: the slots that hold one and the keys  *)
(* whose value has one are as many, so a store changes their number by its   *)
(* own key's (StoresBlocks), however many nodes it moved.                    *)
(*                                                                         *)
(* Only Place and Relocate can put a node over the root, which is slot 1,    *)
(* the child for character 1 of an Arc without children (RootTaken).  Such a *)
(* trie is Ruined: its types and its count of blocks are all that is claimed *)
(* of it.                                                                    *)
(***************************************************************************)
EXTENDS CellTries, SequenceTheorems, FiniteSetTheorems, WellFoundedInduction, TLAPS

\* The node of a slot; the array is unused beyond its end.
NodeAt(t, i) == IF i <= Len(t.m_base) THEN t.m_base[i] ELSE UnusedNode

Used(t) == {i \in 1..Len(t.m_base) : t.m_base[i].mode # "Unused"}

\* A node has a rest only if it is a Term; its children lie behind its base.
NodeSound(t, i) ==
  LET node == t.m_base[i]
  IN /\ node.idx <= Len(t.m_base)
     /\ node.mode = "Unused" => node = UnusedNode
     /\ node.mode = "Arc" <=> node.mode # "Unused" /\ node.rest = <<>>
     /\ i # 1 /\ node.mode # "Unused" =>
          /\ node.parent \in Used(t) /\ node.parent # i
          /\ t.m_base[node.parent].mode = "Arc"
          /\ \E c \in Chars : i = t.m_base[node.parent].idx + c

\* A trie as the operations leave it.
Sound(t) ==
  /\ t \in Trie(Values)
  /\ Len(t.m_base) >= BaseSize
  /\ t.m_base[1].mode = "Arc" /\ t.m_base[1].parent = 1 /\ t.m_base[1].idx >= 1
  /\ \A i \in 1..Len(t.m_base) : NodeSound(t, i)

-----------------------------------------------------------------------------
(* Nodes.                                                                   *)

LEMMA CharFacts ==
  /\ MaxChar \in Nat /\ BaseSize \in Nat /\ BaseSize > MaxChar /\ BaseSize >= 1
  /\ \A c \in Chars : c \in Nat /\ 1 <= c /\ c <= MaxChar
  BY CharAssumption, SizeAssumption

LEMMA UnusedType == UnusedNode \in Node(Values) /\ UnusedNode.mode = "Unused"
<1>1. <<>> \in Seq(Chars)
  OBVIOUS
<1>2. QED
  BY <1>1, CharFacts DEF UnusedNode, Node, Mode, Values

\* What Sound says of each slot, in the array or beyond it.
LEMMA NodeFacts ==
  ASSUME NEW t, Sound(t)
  PROVE  /\ Len(t.m_base) \in Nat /\ Len(t.m_base) >= 1 /\ t.m_base \in Seq(Node(Values))
         /\ \A i \in Nat \ {0} :
              /\ NodeAt(t, i) \in Node(Values) /\ NodeAt(t, i).idx <= Len(t.m_base)
              /\ i \in Used(t) <=> NodeAt(t, i).mode # "Unused"
              /\ i \notin Used(t) => NodeAt(t, i) = UnusedNode
              /\ NodeAt(t, i).mode = "Arc" <=> i \in Used(t) /\ NodeAt(t, i).rest = <<>>
         /\ 1 \in Used(t) /\ Used(t) \subseteq Nat \ {0}
         /\ NodeAt(t, 1).mode = "Arc" /\ NodeAt(t, 1).parent = 1 /\ NodeAt(t, 1).idx >= 1
<1>1. /\ t.m_base \in Seq(Node(Values)) /\ Len(t.m_base) \in Nat /\ Len(t.m_base) >= 1
  BY CharFacts DEF Sound, Trie
<1>2. \A i \in 1..Len(t.m_base) : NodeSound(t, i)
  BY DEF Sound
<1>3. ASSUME NEW i \in Nat \ {0}
      PROVE  /\ NodeAt(t, i) \in Node(Values) /\ NodeAt(t, i).idx <= Len(t.m_base)
             /\ i \in Used(t) <=> NodeAt(t, i).mode # "Unused"
             /\ i \notin Used(t) => NodeAt(t, i) = UnusedNode
             /\ NodeAt(t, i).mode = "Arc" <=> i \in Used(t) /\ NodeAt(t, i).rest = <<>>
  <2>1. CASE i <= Len(t.m_base)
    <3>1. i \in 1..Len(t.m_base) /\ t.m_base[i] \in Node(Values) /\ NodeAt(t, i) = t.m_base[i]
      BY <1>1, <2>1, ElementOfSeq DEF NodeAt
    <3>2. NodeSound(t, i)
      BY <1>2, <3>1
    <3>3. i \in Used(t) <=> t.m_base[i].mode # "Unused"
      BY <3>1 DEF Used
    <3>4. QED
      BY <3>1, <3>2, <3>3 DEF NodeSound
  <2>2. CASE i > Len(t.m_base)
    <3>1. i \notin Used(t) /\ NodeAt(t, i) = UnusedNode
      BY <1>1, <2>2 DEF Used, NodeAt
    <3>2. UnusedNode.idx = 0 /\ UnusedNode.mode # "Arc"
      BY DEF UnusedNode
    <3>3. QED
      BY <1>1, <3>1, <3>2, UnusedType
  <2>3. QED
    BY <1>1, <2>1, <2>2
<1>4. 1 \in Used(t) /\ NodeAt(t, 1) = t.m_base[1]
  BY <1>1 DEF Sound, Used, NodeAt
<1>5. Used(t) \subseteq Nat \ {0}
  BY <1>1 DEF Used
<1>6. QED
  BY <1>1, <1>3, <1>4, <1>5 DEF Sound

LEMMA NodeParts ==
  ASSUME NEW t, Sound(t), NEW i \in Nat \ {0}
  PROVE  /\ NodeAt(t, i) \in Node(Values) /\ NodeAt(t, i).mode \in Mode
         /\ NodeAt(t, i).idx \in Nat /\ NodeAt(t, i).parent \in Nat
         /\ NodeAt(t, i).rest \in Seq(Chars) /\ NodeAt(t, i).val \in Values
<1>1. NodeAt(t, i) \in Node(Values)
  BY NodeFacts
<1>2. QED
  BY <1>1 DEF Node

LEMMA UsedFacts ==
  ASSUME NEW t, Sound(t), NEW i \in Used(t), i # 1
  PROVE  /\ NodeAt(t, i).parent \in Used(t) /\ NodeAt(t, i).parent # i
         /\ NodeAt(t, NodeAt(t, i).parent).mode = "Arc"
         /\ \E c \in Chars : i = NodeAt(t, NodeAt(t, i).parent).idx + c
<1>1. i \in 1..Len(t.m_base) /\ NodeAt(t, i) = t.m_base[i] /\ t.m_base[i].mode # "Unused"
  BY NodeFacts DEF Used, NodeAt
<1>2. NodeSound(t, i)
  BY <1>1 DEF Sound
<1>3. t.m_base[i].parent \in Used(t)
  BY <1>1, <1>2 DEF NodeSound
<1>4. NodeAt(t, t.m_base[i].parent) = t.m_base[t.m_base[i].parent]
  BY <1>3, NodeFacts DEF Used, NodeAt
<1>5. QED
  BY <1>1, <1>2, <1>3, <1>4 DEF NodeSound

\* Child, for a node in use.
LEMMA ChildIs ==
  ASSUME NEW t, Sound(t), NEW p \in Used(t), NEW c \in Nat \ {0}
  PROVE  Child(t, p, c) = IF /\ NodeAt(t, p).mode = "Arc"
                             /\ NodeAt(t, p).idx + c \in Used(t)
                             /\ NodeAt(t, NodeAt(t, p).idx + c).parent = p
                          THEN NodeAt(t, p).idx + c ELSE 0
<1>1. p \in Nat \ {0} /\ NodeAt(t, p) = t.m_base[p] /\ NodeAt(t, p).idx \in Nat
  BY NodeFacts DEF Used, NodeAt, Node
<1>2. PICK i : i = NodeAt(t, p).idx + c
  OBVIOUS
<1>3. i \in Nat \ {0}
  BY <1>1, <1>2
<1>4. modeAt(t, i) = NodeAt(t, i).mode
  BY UnusedType DEF modeAt, NodeAt
<1>5. i \in Used(t) <=> modeAt(t, i) # "Unused"
  BY <1>3, <1>4, NodeFacts
<1>6. i \in Used(t) => NodeAt(t, i) = t.m_base[i]
  BY NodeFacts DEF Used, NodeAt
<1>7. QED
  BY <1>1, <1>2, <1>5, <1>6 DEF Child

\* A child that claims its node is found, and a node that none claims has none.
LEMMA ChildMade ==
  ASSUME NEW t, Sound(t), NEW p \in Used(t), NEW c \in Nat \ {0}, NEW i \in Used(t),
         i = NodeAt(t, p).idx + c, NodeAt(t, p).mode = "Arc", NodeAt(t, i).parent = p
  PROVE  Child(t, p, c) = i
BY ChildIs, Zenon

LEMMA ChildNone ==
  ASSUME NEW t, Sound(t), NEW p \in Used(t), NEW c \in Nat \ {0},
         \A i \in Used(t) : NodeAt(t, i).parent # p
  PROVE  Child(t, p, c) = 0
BY ChildIs, Zenon

\* The child of a node for a character.
LEMMA ChildFacts ==
  ASSUME NEW t, Sound(t), NEW p \in Used(t), NEW c \in Chars, Child(t, p, c) # 0
  PROVE  /\ Child(t, p, c) \in Used(t) /\ Child(t, p, c) # 1 /\ Child(t, p, c) # p
         /\ NodeAt(t, Child(t, p, c)).parent = p
         /\ Child(t, p, c) = NodeAt(t, p).idx + c
         /\ NodeAt(t, p).mode = "Arc"
<1>1. c \in Nat \ {0}
  BY CharFacts
<1>2. /\ Child(t, p, c) \in Used(t)
      /\ NodeAt(t, Child(t, p, c)).parent = p
      /\ Child(t, p, c) = NodeAt(t, p).idx + c
      /\ NodeAt(t, p).mode = "Arc"
  BY <1>1, ChildIs
<1>3. p \in Nat \ {0} /\ NodeAt(t, p).idx \in Nat
  BY NodeFacts DEF Node
<1>4. Child(t, p, c) # 1
  <2>1. ASSUME Child(t, p, c) = 1 PROVE FALSE   \* the root is its own parent
    <3>1. p = 1 /\ NodeAt(t, p).idx >= 1
      BY <1>2, <2>1, NodeFacts
    <3>2. QED
      BY <1>1, <1>2, <1>3, <2>1, <3>1
  <2>2. QED
    BY <2>1
<1>5. Child(t, p, c) # p
  BY <1>2, <1>4, UsedFacts
<1>6. QED
  BY <1>2, <1>4, <1>5

\* The node a child belongs to has it as a child.
LEMMA ParentHasChild ==
  ASSUME NEW t, Sound(t), NEW i \in Used(t), i # 1, NEW p, p = NodeAt(t, i).parent
  PROVE  /\ p \in Used(t) /\ NodeAt(t, p).idx \in Nat /\ NodeAt(t, p).idx < i
         /\ i - NodeAt(t, p).idx \in Chars
         /\ Child(t, p, i - NodeAt(t, p).idx) = i
<1>1. /\ p \in Used(t) /\ NodeAt(t, p).mode = "Arc"
      /\ \E c \in Chars : i = NodeAt(t, p).idx + c
  BY UsedFacts
<1>2. PICK c \in Chars : i = NodeAt(t, p).idx + c
  BY <1>1
<1>3. c \in Nat \ {0}
  BY CharFacts
<1>4. NodeAt(t, p).idx \in Nat
  BY <1>1, NodeFacts DEF Node
<1>5. c = i - NodeAt(t, p).idx /\ NodeAt(t, p).idx < i
  BY <1>2, <1>3, <1>4
<1>6. Child(t, p, c) = i
  BY <1>1, <1>2, <1>3, ChildIs
<1>7. QED
  BY <1>1, <1>4, <1>5, <1>6

-----------------------------------------------------------------------------
(* The walk.                                                                *)

\* Induction over Nat, for a set.
LEMMA SetInduction ==
  ASSUME NEW S \in SUBSET Nat, 0 \in S, \A n \in S : n + 1 \in S
  PROVE  S = Nat
<1> DEFINE T == Nat \ S
<1>1. SUFFICES ASSUME T # {} PROVE FALSE
  OBVIOUS
<1>2. PICK x \in T : \A y \in T : ~(<<y, x>> \in OpToRel(<, Nat))
  BY <1>1, NatLessThanWellFounded, WFMin, Zenon
<1>3. x # 0 /\ x \in Nat
  OBVIOUS
<1>4. x - 1 \in T
  OBVIOUS
<1>5. <<x - 1, x>> \in OpToRel(<, Nat)
  BY <1>3 DEF OpToRel
<1>6. QED
  BY <1>2, <1>4, <1>5

PathOf(g, t, key, n) ==
  g = [m \in 0..n |-> IF m = 0 THEN 1
                      ELSE IF g[m-1] = 0 THEN 0 ELSE Child(t, g[m-1], key[m])]

\* The function Path is defined by has a value for each length.
LEMMA PathExists ==
  ASSUME NEW t, NEW key, NEW n \in Nat
  PROVE  \E g : PathOf(g, t, key, n)
<1> DEFINE Q == {m \in Nat : \E g : PathOf(g, t, key, m)}
<1>1. 0 \in Q
  <2>1. PICK g : g = [k \in 0..0 |-> 1]
    OBVIOUS
  <2>2. PathOf(g, t, key, 0)
    BY <2>1 DEF PathOf
  <2>3. QED
    BY <2>2
<1>2. ASSUME NEW m \in Q PROVE m + 1 \in Q
  <2>1. PICK g : PathOf(g, t, key, m)
    OBVIOUS
  <2>2. PICK v : v = IF g[m] = 0 THEN 0 ELSE Child(t, g[m], key[m + 1])
    OBVIOUS
  <2>3. PICK h : h = [k \in 0..m + 1 |-> IF k = m + 1 THEN v ELSE g[k]]
    OBVIOUS
  <2>4. m \in Nat /\ \A k \in 0..m : h[k] = g[k]
    BY <2>3
  <2>5. h[m + 1] = v
    BY <2>3, <2>4
  <2>6. \A k \in 0..m : g[k] = IF k = 0 THEN 1
                               ELSE IF g[k-1] = 0 THEN 0 ELSE Child(t, g[k-1], key[k])
    BY <2>1 DEF PathOf
  <2>7. \A k \in 0..m + 1 : h[k] = IF k = 0 THEN 1
                               ELSE IF h[k-1] = 0 THEN 0 ELSE Child(t, h[k-1], key[k])
    <3>1. SUFFICES ASSUME NEW k \in 0..m + 1
                   PROVE h[k] = IF k = 0 THEN 1
                               ELSE IF h[k-1] = 0 THEN 0 ELSE Child(t, h[k-1], key[k])
      OBVIOUS
    <3>2. CASE k = m + 1
      BY <2>2, <2>4, <2>5, <3>2
    <3>3. CASE k # m + 1
      <4>1. k \in 0..m /\ (k # 0 => k - 1 \in 0..m)
        BY <2>4, <3>3
      <4>2. QED
        BY <2>4, <2>6, <4>1
    <3>4. QED
      BY <3>2, <3>3
  <2>8. PathOf(h, t, key, m + 1)
    BY <2>3, <2>7 DEF PathOf
  <2>9. QED
    BY <2>4, <2>8
<1>3. Q = Nat
  <2> HIDE DEF Q
  <2>1. Q \in SUBSET Nat
    BY DEF Q
  <2>2. QED
    BY <1>1, <1>2, <2>1, SetInduction
<1>4. QED
  BY <1>3

\* Path, step by step.
LEMMA PathRec ==
  ASSUME NEW t, NEW key, Len(key) \in Nat
  PROVE  /\ Path(t, key)[0] = 1
         /\ \A n \in 1..Len(key) :
              Path(t, key)[n] = IF Path(t, key)[n-1] = 0 THEN 0
                                ELSE Child(t, Path(t, key)[n-1], key[n])
<1>1. PICK g : PathOf(g, t, key, Len(key))
  BY PathExists
<1>2. PathOf(Path(t, key), t, key, Len(key))
  BY <1>1 DEF Path, PathOf
<1>3. QED
  BY <1>2 DEF PathOf

\* Induction up to N.
LEMMA UpTo ==
  ASSUME NEW N \in Nat, NEW S, 0 \in S, \A n \in 0..N : n \in S /\ n < N => n + 1 \in S
  PROVE  0..N \subseteq S
<1> DEFINE Q == {n \in Nat : n <= N => n \in S}
<1>1. 0 \in Q
  OBVIOUS
<1>2. \A n \in Q : n + 1 \in Q
  OBVIOUS
<1>3. Q \in SUBSET Nat
  OBVIOUS
<1>4. Q = Nat
  <2> HIDE DEF Q
  <2>1. QED
    BY <1>1, <1>2, <1>3, SetInduction
<1>5. QED
  BY <1>4

\* A set of small numbers has a largest one, a set of numbers a smallest one.
LEMMA MaxOf ==
  ASSUME NEW N \in Nat, NEW S \in SUBSET (0..N), S # {}
  PROVE  Max(S) \in S /\ \A y \in S : y <= Max(S)
<1> DEFINE Q == {n \in Nat : \A T \in SUBSET (0..n) : T # {} => \E x \in T : \A y \in T : x >= y}
<1>1. 0 \in Q
  <2>1. SUFFICES ASSUME NEW T \in SUBSET (0..0), T # {}
                 PROVE  \E x \in T : \A y \in T : x >= y
    OBVIOUS
  <2>2. \A x \in T : x = 0
    OBVIOUS
  <2>3. PICK x \in T : TRUE
    BY <2>1
  <2>4. QED
    BY <2>2, <2>3
<1>2. ASSUME NEW n \in Q PROVE n + 1 \in Q
  <2>1. SUFFICES ASSUME NEW T \in SUBSET (0..n + 1), T # {}
                 PROVE  \E x \in T : \A y \in T : x >= y
    OBVIOUS
  <2>2. CASE n + 1 \in T
    BY <2>2
  <2>3. CASE n + 1 \notin T
    <3>1. T \in SUBSET (0..n)
      BY <2>3
    <3>2. QED
      BY <2>1, <3>1
  <2>4. QED
    BY <2>2, <2>3
<1>3. Q \in SUBSET Nat
  OBVIOUS
<1>4. Q = Nat
  <2> HIDE DEF Q
  <2>1. QED
    BY <1>1, <1>2, <1>3, SetInduction
<1>5. \E x \in S : \A y \in S : x >= y
  BY <1>4
<1>6. Max(S) \in S /\ \A y \in S : Max(S) >= y
  BY <1>5, Zenon DEF Max
<1>7. QED
  BY <1>6

\* A set of numbers has a least one.
LEMMA MinOf ==
  ASSUME NEW S \in SUBSET Nat, S # {}
  PROVE  Min(S) \in S /\ \A y \in S : Min(S) <= y
<1>1. PICK x \in S : \A y \in S : ~(<<y, x>> \in OpToRel(<, Nat))
  BY NatLessThanWellFounded, WFMin, Zenon
<1>2. ASSUME NEW y \in S PROVE x <= y
  <2>1. x \in Nat /\ y \in Nat
    OBVIOUS
  <2>2. <<y, x>> \notin OpToRel(<, Nat)
    BY <1>1, <1>2, Zenon
  <2>3. ~(y < x)
    BY <2>1, <2>2 DEF OpToRel
  <2>4. QED
    BY <2>1, <2>3
<1>3. Min(S) \in S /\ \A y \in S : Min(S) =< y
  BY <1>2, Zenon DEF Min
<1>4. QED
  BY <1>3

\* The slots of a walk are in use, and only its start is the root.
LEMMA PathNodes ==
  ASSUME NEW t, Sound(t), NEW k \in Seq(Chars)
  PROVE  /\ Path(t, k)[0] = 1
         /\ \A n \in 0..Len(k) : Path(t, k)[n] \in Used(t) \union {0}
         /\ \A n \in 1..Len(k) :
              /\ Path(t, k)[n] = IF Path(t, k)[n-1] = 0 THEN 0
                                 ELSE Child(t, Path(t, k)[n-1], k[n])
              /\ Path(t, k)[n] # 0 =>
                   /\ Path(t, k)[n-1] \in Used(t) /\ Path(t, k)[n-1] # 0
                   /\ Path(t, k)[n-1] = NodeAt(t, Path(t, k)[n]).parent
                   /\ Path(t, k)[n] = NodeAt(t, Path(t, k)[n-1]).idx + k[n]
                   /\ Path(t, k)[n] # 1
                   /\ NodeAt(t, Path(t, k)[n-1]).mode = "Arc"
<1>1. Len(k) \in Nat /\ \A n \in 1..Len(k) : k[n] \in Chars
  OBVIOUS
<1>2. PICK g : g = Path(t, k)
  OBVIOUS
<1>3. g[0] = 1 /\ \A n \in 1..Len(k) : g[n] = IF g[n-1] = 0 THEN 0 ELSE Child(t, g[n-1], k[n])
  BY <1>1, <1>2, PathRec
<1> DEFINE S == {n \in 0..Len(k) : g[n] \in Used(t) \union {0}}
<1>4. 0..Len(k) \subseteq S
  <2>1. 0 \in S
    BY <1>1, <1>3, NodeFacts
  <2>2. ASSUME NEW n \in 0..Len(k), n \in S, n < Len(k) PROVE n + 1 \in S
    <3>1. n + 1 \in 1..Len(k) /\ (n + 1) - 1 = n
      BY <1>1, <2>2
    <3>2. g[n + 1] = IF g[n] = 0 THEN 0 ELSE Child(t, g[n], k[n + 1])
      BY <1>3, <3>1
    <3>3. k[n + 1] \in Chars
      BY <1>1, <3>1
    <3>4. g[n] # 0 => Child(t, g[n], k[n + 1]) \in Used(t) \union {0}
      BY <2>2, <3>3, ChildFacts
    <3>5. QED
      BY <3>1, <3>2, <3>4
  <2> HIDE DEF S
  <2>3. QED
    BY <1>1, <2>1, <2>2, UpTo
<1>5. ASSUME NEW n \in 1..Len(k), g[n] # 0
      PROVE  /\ g[n-1] \in Used(t) /\ g[n-1] # 0
             /\ g[n-1] = NodeAt(t, g[n]).parent
             /\ g[n] = NodeAt(t, g[n-1]).idx + k[n]
             /\ g[n] # 1
             /\ NodeAt(t, g[n-1]).mode = "Arc"
  <2>1. n - 1 \in 0..Len(k) /\ k[n] \in Chars
    BY <1>1
  <2>2. g[n-1] # 0 /\ g[n] = Child(t, g[n-1], k[n])
    BY <1>3, <1>5
  <2>3. g[n-1] \in Used(t)
    BY <1>4, <2>1, <2>2
  <2>4. QED
    BY <1>5, <2>1, <2>2, <2>3, ChildFacts
<1>6. QED
  BY <1>2, <1>3, <1>4, <1>5

\* The walk never resumes, and it passes Arcs only.
LEMMA PathPrefix ==
  ASSUME NEW t, Sound(t), NEW k \in Seq(Chars), NEW n \in 0..Len(k), Path(t, k)[n] # 0
  PROVE  \A m \in 0..n : Path(t, k)[m] # 0 /\ (m < n => NodeAt(t, Path(t, k)[m]).mode = "Arc")
<1>1. Len(k) \in Nat /\ n \in Nat
  OBVIOUS
<1> DEFINE S == {m \in 0..n : /\ Path(t, k)[n - m] # 0
                              /\ m # 0 => NodeAt(t, Path(t, k)[n - m]).mode = "Arc"}
<1>2. 0 \in S
  BY <1>1
<1>3. ASSUME NEW m \in 0..n, m \in S, m < n PROVE m + 1 \in S
  <2>1. n - m \in 1..Len(k) /\ (n - m) - 1 = n - (m + 1) /\ m + 1 \in 0..n
    BY <1>1, <1>3
  <2>2. Path(t, k)[n - m] # 0
    BY <1>3
  <2>3. /\ Path(t, k)[n - (m + 1)] # 0
        /\ NodeAt(t, Path(t, k)[n - (m + 1)]).mode = "Arc"
    BY <2>1, <2>2, PathNodes
  <2>4. QED
    BY <2>1, <2>3
<1>4. 0..n \subseteq S
  <2> HIDE DEF S
  <2>1. QED
    BY <1>1, <1>2, <1>3, UpTo
<1>5. ASSUME NEW m \in 0..n PROVE Path(t, k)[m] # 0 /\ (m < n => NodeAt(t, Path(t, k)[m]).mode = "Arc")
  <2>1. n - m \in 0..n /\ n - (n - m) = m /\ (m < n => n - m # 0)
    BY <1>1
  <2>2. QED
    BY <1>4, <2>1
<1>6. QED
  BY <1>5

\* Whatever obeys the equation of the walk is the walk.
LEMMA PathIs ==
  ASSUME NEW t, NEW k, Len(k) \in Nat, NEW f, f[0] = 1,
         \A n \in 1..Len(k) : f[n] = IF f[n-1] = 0 THEN 0 ELSE Child(t, f[n-1], k[n])
  PROVE  \A n \in 0..Len(k) : Path(t, k)[n] = f[n]
<1> DEFINE S == {n \in 0..Len(k) : Path(t, k)[n] = f[n]}
<1>1. 0 \in S
  BY PathRec
<1>2. ASSUME NEW n \in 0..Len(k), n \in S, n < Len(k) PROVE n + 1 \in S
  <2>1. n + 1 \in 1..Len(k) /\ (n + 1) - 1 = n
    BY <1>2
  <2>2. Path(t, k)[n + 1] = IF Path(t, k)[n] = 0 THEN 0 ELSE Child(t, Path(t, k)[n], k[n + 1])
    BY <2>1, PathRec
  <2>3. f[n + 1] = IF f[n] = 0 THEN 0 ELSE Child(t, f[n], k[n + 1])
    BY <2>1
  <2>4. QED
    BY <1>2, <2>1, <2>2, <2>3
<1>3. 0..Len(k) \subseteq S
  <2> HIDE DEF S
  <2>1. QED
    BY <1>1, <1>2, UpTo
<1>4. QED
  BY <1>3

\* Two walks that meet have taken the same characters.
LEMMA SameWord ==
  ASSUME NEW t, Sound(t), NEW k \in Seq(Chars), NEW l \in Seq(Chars),
         NEW n \in 0..Len(k), NEW m \in 0..Len(l),
         Path(t, k)[n] # 0, Path(t, k)[n] = Path(t, l)[m]
  PROVE  n = m /\ \A j \in 1..n : k[j] = l[j]
<1>1. Len(k) \in Nat /\ Len(l) \in Nat
  OBVIOUS
<1>2. /\ \A i \in 1..Len(k) : k[i] \in Nat
      /\ \A i \in 1..Len(l) : l[i] \in Nat
  BY CharFacts
<1> DEFINE Same(i) == \A j \in 0..Len(l) :
                        Path(t, k)[i] # 0 /\ Path(t, k)[i] = Path(t, l)[j]
                          => i = j /\ \A c \in 1..i : k[c] = l[c]
           S == {i \in 0..Len(k) : Same(i)}
<1>3. 0 \in S
  <2>1. ASSUME NEW j \in 0..Len(l), Path(t, k)[0] = Path(t, l)[j] PROVE j = 0
    <3>1. Path(t, l)[j] = 1
      BY <2>1, PathNodes
    <3>2. QED
      BY <1>1, <3>1, PathNodes
  <2>2. QED
    BY <1>1, <2>1
<1>4. ASSUME NEW i \in 0..Len(k), i \in S, i < Len(k) PROVE i + 1 \in S
  <2>1. SUFFICES ASSUME NEW j \in 0..Len(l), Path(t, k)[i + 1] # 0,
                        Path(t, k)[i + 1] = Path(t, l)[j]
                 PROVE  i + 1 = j /\ \A c \in 1..i + 1 : k[c] = l[c]
    BY <1>1, <1>4
  <2>2. PICK s : s = Path(t, k)[i + 1]
    OBVIOUS
  <2>3. i + 1 \in 1..Len(k) /\ (i + 1) - 1 = i
    BY <1>1, <1>4
  <2>4. /\ s # 1 /\ Path(t, k)[i] # 0 /\ Path(t, k)[i] \in Used(t)
        /\ Path(t, k)[i] = NodeAt(t, s).parent
        /\ s = NodeAt(t, Path(t, k)[i]).idx + k[i + 1]
    BY <2>1, <2>2, <2>3, PathNodes
  <2>5. j # 0
    <3>1. Path(t, l)[0] = 1
      BY PathNodes
    <3>2. QED
      BY <2>1, <2>2, <2>4, <3>1
  <2>6. j \in 1..Len(l) /\ j - 1 \in 0..Len(l)
    BY <1>1, <2>5
  <2>7. /\ Path(t, l)[j - 1] = NodeAt(t, s).parent
        /\ s = NodeAt(t, Path(t, l)[j - 1]).idx + l[j]
    BY <2>1, <2>2, <2>6, PathNodes
  <2>8. i = j - 1 /\ \A c \in 1..i : k[c] = l[c]
    BY <1>4, <2>4, <2>6, <2>7
  <2>9. NodeAt(t, Path(t, k)[i]).idx \in Nat
    BY <2>4, NodeFacts DEF Node
  <2>10. k[i + 1] = l[j]
    <3>1. k[i + 1] \in Nat /\ l[j] \in Nat
      BY <1>2, <2>3, <2>6
    <3>2. PICK b : b = NodeAt(t, Path(t, k)[i]).idx
      OBVIOUS
    <3>3. NodeAt(t, Path(t, l)[j - 1]).idx = b
      BY <2>4, <2>7, <3>2
    <3>4. b \in Nat /\ s = b + k[i + 1] /\ s = b + l[j]
      BY <2>4, <2>7, <2>9, <3>2, <3>3
    <3>5. QED
      BY <3>1, <3>4, SMTT(30)
  <2>11. QED
    BY <2>6, <2>8, <2>10
<1>5. 0..Len(k) \subseteq S
  <2> HIDE DEF S
  <2>1. QED
    BY <1>1, <1>3, <1>4, UpTo
<1>6. QED
  BY <1>5

\* What is left of a key after n characters.
LEMMA AfterFacts ==
  ASSUME NEW k \in Seq(Chars), NEW n \in 0..Len(k)
  PROVE  /\ After(k, n) \in Seq(Chars) /\ Len(After(k, n)) = Len(k) - n
         /\ \A i \in 1..Len(k) - n : After(k, n)[i] = k[n + i]
         /\ After(k, n) = <<>> <=> n = Len(k)
<1>1. Len(k) \in Nat /\ \A i \in n + 1..Len(k) : k[i] \in Chars
  OBVIOUS
<1>2. /\ After(k, n) \in Seq(Chars)
      /\ Len(After(k, n)) = IF n + 1 <= Len(k) THEN Len(k) - (n + 1) + 1 ELSE 0
      /\ \A i \in 1..Len(k) - (n + 1) + 1 : After(k, n)[i] = k[(n + 1) + i - 1]
  BY <1>1, SubSeqProperties DEF After
<1>3. Len(After(k, n)) = Len(k) - n
  BY <1>1, <1>2
<1>4. ASSUME NEW i \in 1..Len(k) - n PROVE After(k, n)[i] = k[n + i]
  <2>1. i \in 1..Len(k) - (n + 1) + 1 /\ (n + 1) + i - 1 = n + i
    BY <1>1
  <2>2. QED
    BY <1>2, <2>1
<1>5. After(k, n) = <<>> <=> Len(After(k, n)) = 0
  BY <1>2, EmptySeq
<1>6. QED
  BY <1>1, <1>2, <1>3, <1>4, <1>5

\* Two keys with the same first characters and the same rest are the same.
LEMMA SameKey ==
  ASSUME NEW k \in Seq(Chars), NEW l \in Seq(Chars), NEW n \in 0..Len(k), n <= Len(l),
         \A j \in 1..n : k[j] = l[j], After(k, n) = After(l, n)
  PROVE  k = l
<1>1. Len(k) \in Nat /\ Len(l) \in Nat /\ n \in 0..Len(l)
  OBVIOUS
<1>2. Len(k) = Len(l)
  <2>1. Len(k) - n = Len(l) - n
    BY <1>1, AfterFacts
  <2>2. QED
    BY <1>1, <2>1
<1>3. ASSUME NEW j \in 1..Len(k) PROVE k[j] = l[j]
  <2>1. CASE j <= n
    BY <2>1
  <2>2. CASE j > n
    <3>1. j - n \in 1..Len(k) - n /\ n + (j - n) = j
      BY <1>1, <2>2
    <3>2. After(k, n)[j - n] = k[j]
      BY <3>1, AfterFacts
    <3>3. After(l, n)[j - n] = l[j]
      <4>1. n \in 0..Len(l) /\ j - n \in 1..Len(l) - n
        BY <1>1, <1>2, <3>1
      <4>2. After(l, n)[j - n] = l[n + (j - n)]
        BY <4>1, AfterFacts
      <4>3. QED
        BY <3>1, <4>2
    <3>4. QED
      BY <3>2, <3>3
  <2>3. QED
    BY <1>1, <2>1, <2>2
<1>4. QED
  BY <1>2, <1>3, SeqEqual

\* The key k ends at the node the walk reaches after n characters.
Hit(t, k, n) ==
  /\ n \in 1..Len(k) /\ Path(t, k)[n] # 0
  /\ NodeAt(t, Path(t, k)[n]).rest = After(k, n)

\* A walk that hits goes no further.
LEMMA HitEnds ==
  ASSUME NEW t, Sound(t), NEW k \in Seq(Chars), NEW n, Hit(t, k, n)
  PROVE  \A m \in n + 1..Len(k) : Path(t, k)[m] = 0
<1>1. SUFFICES ASSUME NEW m \in n + 1..Len(k), Path(t, k)[m] # 0 PROVE FALSE
  OBVIOUS
<1>2. Len(k) \in Nat /\ n \in 1..Len(k) /\ n \in 0..m /\ m \in 0..Len(k) /\ n < m
  BY DEF Hit
<1>3. NodeAt(t, Path(t, k)[n]).mode = "Arc" /\ Path(t, k)[n] # 0
  BY <1>1, <1>2, PathPrefix
<1>4. Path(t, k)[n] \in Nat \ {0}
  BY <1>2, <1>3, PathNodes, NodeFacts
<1>5. NodeAt(t, Path(t, k)[n]).rest = <<>>
  BY <1>3, <1>4, NodeFacts
<1>6. n = Len(k)
  <2>1. n \in 0..Len(k) /\ After(k, n) = <<>>
    BY <1>2, <1>5 DEF Hit
  <2>2. QED
    BY <2>1, AfterFacts
<1>7. QED
  BY <1>2, <1>6

\* A key ends at one node.
LEMMA HitOnce ==
  ASSUME NEW t, Sound(t), NEW k \in Seq(Chars), NEW n, Hit(t, k, n), NEW m, Hit(t, k, m)
  PROVE  n = m
<1>1. Len(k) \in Nat /\ n \in 1..Len(k) /\ m \in 1..Len(k)
  BY DEF Hit
<1>2. CASE n < m
  BY <1>1, <1>2, HitEnds DEF Hit
<1>3. CASE m < n
  BY <1>1, <1>3, HitEnds DEF Hit
<1>4. QED
  BY <1>1, <1>2, <1>3

\* No two keys end at the same node.
LEMMA HitKey ==
  ASSUME NEW t, Sound(t), NEW k \in Seq(Chars), NEW l \in Seq(Chars),
         NEW n, Hit(t, k, n), NEW m, Hit(t, l, m), Path(t, k)[n] = Path(t, l)[m]
  PROVE  k = l
<1>1. /\ Len(k) \in Nat /\ Len(l) \in Nat /\ n \in 0..Len(k) /\ m \in 0..Len(l)
      /\ Path(t, k)[n] # 0 /\ After(k, n) = After(l, m)
  BY DEF Hit
<1>2. n = m /\ \A j \in 1..n : k[j] = l[j]
  BY <1>1, SameWord
<1>3. QED
  BY <1>1, <1>2, SameKey

-----------------------------------------------------------------------------
(* Looking a key up.                                                        *)

LEMMA WalkIs ==
  ASSUME NEW t, Sound(t), NEW k \in Seq(Chars)
  PROVE  \E n \in 0..Len(k) :
           /\ Walk(t, k).len = n /\ Walk(t, k).slot = Path(t, k)[n] /\ Path(t, k)[n] # 0
           /\ \A m \in n + 1..Len(k) : Path(t, k)[m] = 0
<1>1. Len(k) \in Nat
  OBVIOUS
<1>2. PICK S : S = {m \in 0..Len(k) : Path(t, k)[m] # 0}
  OBVIOUS
<1>3. S \in SUBSET (0..Len(k)) /\ 0 \in S
  BY <1>1, <1>2, PathNodes
<1>4. PICK n : n = Max(S)
  OBVIOUS
<1>5. n \in S /\ \A y \in S : y <= n
  BY <1>1, <1>3, <1>4, MaxOf
<1>6. Walk(t, k).len = n /\ Walk(t, k).slot = Path(t, k)[n]
  BY <1>2, <1>4 DEF Walk
<1>7. ASSUME NEW m \in n + 1..Len(k) PROVE Path(t, k)[m] = 0
  <2>1. m \in 0..Len(k) /\ ~(m <= n)
    BY <1>1, <1>3, <1>5
  <2>2. QED
    BY <1>2, <1>5, <2>1
<1>8. QED
  BY <1>2, <1>5, <1>6, <1>7

\* internal_retrieve finds the node a key ends at ...
LEMMA RetrieveHit ==
  ASSUME NEW t, Sound(t), NEW k \in Seq(Chars), NEW n, Hit(t, k, n)
  PROVE  /\ internal_retrieve(t, k) = Path(t, k)[n] /\ Path(t, k)[n] \in Used(t)
         /\ retrieve(t, k) = NodeAt(t, Path(t, k)[n]).val
         /\ k # <<>>
<1>1. PICK w \in 0..Len(k) :
           /\ Walk(t, k).len = w /\ Walk(t, k).slot = Path(t, k)[w] /\ Path(t, k)[w] # 0
           /\ \A m \in w + 1..Len(k) : Path(t, k)[m] = 0
  BY WalkIs
<1>2. Len(k) \in Nat /\ n \in 1..Len(k) /\ Path(t, k)[n] # 0
  BY DEF Hit
<1>3. w = n
  BY <1>1, <1>2, HitEnds
<1>4. Path(t, k)[n] \in Used(t)
  BY <1>2, PathNodes
<1>5. NodeAt(t, Path(t, k)[n]) = t.m_base[Path(t, k)[n]] /\ Path(t, k)[n] # 0
  BY <1>2, <1>4, NodeFacts DEF Used, NodeAt
<1>6. internal_retrieve(t, k) = Path(t, k)[n]
  BY <1>1, <1>2, <1>3, <1>5 DEF internal_retrieve, Hit
<1>7. k # <<>>
  BY <1>2
<1>8. QED
  BY <1>4, <1>5, <1>6, <1>7 DEF retrieve

\* ... and nothing for any other.
LEMMA RetrieveMiss ==
  ASSUME NEW t, Sound(t), NEW k \in Seq(Chars), k # <<>>, \A n : ~Hit(t, k, n)
  PROVE  internal_retrieve(t, k) = 0 /\ retrieve(t, k) = NoValue
<1>1. PICK w \in 0..Len(k) :
           /\ Walk(t, k).len = w /\ Walk(t, k).slot = Path(t, k)[w] /\ Path(t, k)[w] # 0
           /\ \A m \in w + 1..Len(k) : Path(t, k)[m] = 0
  BY WalkIs
<1>2. Path(t, k)[w] \in Used(t)
  BY <1>1, PathNodes
<1>3. NodeAt(t, Path(t, k)[w]) = t.m_base[Path(t, k)[w]]
  BY <1>2, NodeFacts DEF Used, NodeAt
<1>4. internal_retrieve(t, k) = 0
  BY <1>1, <1>3 DEF internal_retrieve, Hit
<1>5. QED
  BY <1>4 DEF retrieve

-----------------------------------------------------------------------------
(* Writing nodes.                                                           *)

\* t2 is t, possibly grown, but for the slots S.
Changed(t, t2, S) ==
  /\ t2 \in Trie(Values) /\ Len(t2.m_base) >= Len(t.m_base) /\ t2.m_empty = t.m_empty
  /\ \A j \in Nat \ {0} : j \notin S => NodeAt(t2, j) = NodeAt(t, j)

\* grow adds unused nodes only.
LEMMA GrowFacts ==
  ASSUME NEW t \in Trie(Values), NEW i \in Nat, i <= 2 * Len(t.m_base)
  PROVE  Changed(t, grow(t, i), {}) /\ i <= Len(grow(t, i).m_base)
<1>1. t.m_base \in Seq(Node(Values)) /\ Len(t.m_base) \in Nat /\ t.m_empty \in Values
  BY DEF Trie
<1>2. CASE i <= Len(t.m_base)
  BY <1>1, <1>2 DEF grow, Changed
<1>3. CASE i > Len(t.m_base)
  <2>1. PICK u : u = [j \in 1..Len(t.m_base) |-> UnusedNode]
    OBVIOUS
  <2>2. u \in Seq(Node(Values)) /\ Len(u) = Len(t.m_base)
    BY <1>1, <2>1, UnusedType
  <2>3. grow(t, i) = [t EXCEPT !.m_base = t.m_base \o u]
    BY <1>1, <1>3, <2>1 DEF grow
  <2>4. /\ grow(t, i).m_base = t.m_base \o u /\ grow(t, i).m_empty = t.m_empty
        /\ grow(t, i) = [m_base |-> t.m_base \o u, m_empty |-> t.m_empty]
    BY <2>3 DEF Trie
  <2>5. /\ t.m_base \o u \in Seq(Node(Values))
        /\ Len(t.m_base \o u) = Len(t.m_base) + Len(u)
        /\ \A j \in 1..Len(t.m_base) + Len(u) :
             (t.m_base \o u)[j] = IF j <= Len(t.m_base) THEN t.m_base[j] ELSE u[j - Len(t.m_base)]
    BY <1>1, <2>2, ConcatProperties
  <2>6. grow(t, i) \in Trie(Values)
    BY <1>1, <2>4, <2>5 DEF Trie
  <2>7. Len(grow(t, i).m_base) = 2 * Len(t.m_base)
    BY <1>1, <2>2, <2>4, <2>5
  <2>8. ASSUME NEW j \in Nat \ {0} PROVE NodeAt(grow(t, i), j) = NodeAt(t, j)
    <3>1. CASE j <= Len(t.m_base)
      <4>1. j \in 1..Len(t.m_base) + Len(u)
        BY <1>1, <2>2, <3>1
      <4>2. QED
        BY <1>1, <2>4, <2>5, <2>7, <3>1, <4>1 DEF NodeAt
    <3>2. CASE j > Len(t.m_base) /\ j <= 2 * Len(t.m_base)
      <4>1. j \in 1..Len(t.m_base) + Len(u) /\ j - Len(t.m_base) \in 1..Len(t.m_base)
        BY <1>1, <2>2, <3>2
      <4>2. grow(t, i).m_base[j] = UnusedNode
        BY <1>1, <2>1, <2>4, <2>5, <3>2, <4>1
      <4>3. QED
        BY <1>1, <2>7, <3>2, <4>2 DEF NodeAt
    <3>3. CASE j > 2 * Len(t.m_base)
      BY <1>1, <2>7, <3>3 DEF NodeAt
    <3>4. QED
      BY <1>1, <3>1, <3>2, <3>3
  <2>9. Len(grow(t, i).m_base) >= Len(t.m_base) /\ i <= Len(grow(t, i).m_base)
    BY <1>1, <2>7
  <2>10. QED
    BY <2>4, <2>6, <2>8, <2>9, Zenon DEF Changed
<1>4. QED
  BY <1>1, <1>2, <1>3

LEMMA TrieIs ==
  ASSUME NEW b \in Seq(Node(Values)), NEW e \in Values,
         NEW t, t = [m_base |-> b, m_empty |-> e]
  PROVE  t \in Trie(Values) /\ t.m_base = b /\ t.m_empty = e
  BY DEF Trie

LEMMA TrieParts ==
  ASSUME NEW t \in Trie(Values)
  PROVE  /\ t.m_base \in Seq(Node(Values)) /\ Len(t.m_base) \in Nat /\ t.m_empty \in Values
         /\ t = [m_base |-> t.m_base, m_empty |-> t.m_empty]
  BY DEF Trie

\* One node is written.
Written(t, i, node) == [m_base |-> [t.m_base EXCEPT ![i] = node], m_empty |-> t.m_empty]

\* A node written into the array.
LEMMA WriteNode ==
  ASSUME NEW t \in Trie(Values), NEW i \in 1..Len(t.m_base), NEW node \in Node(Values)
  PROVE  /\ Changed(t, Written(t, i, node), {i}) /\ NodeAt(Written(t, i, node), i) = node
         /\ Len(Written(t, i, node).m_base) = Len(t.m_base)
<1>1. t.m_base \in Seq(Node(Values)) /\ Len(t.m_base) \in Nat /\ t.m_empty \in Values
  BY DEF Trie
<1>2. PICK b : b = [t.m_base EXCEPT ![i] = node]
  OBVIOUS
<1>3. /\ b \in Seq(Node(Values)) /\ Len(b) = Len(t.m_base) /\ b[i] = node
      /\ \A j \in 1..Len(t.m_base) : j # i => b[j] = t.m_base[j]
  BY <1>1, <1>2, ExceptSeq
<1> DEFINE t2 == Written(t, i, node)
<1>4. t2 = [m_base |-> b, m_empty |-> t.m_empty]
  BY <1>2 DEF Written
<1> HIDE DEF t2
<1>5. t2 \in Trie(Values) /\ t2.m_base = b /\ t2.m_empty = t.m_empty
  BY <1>1, <1>3, <1>4, TrieIs
<1>6. ASSUME NEW j \in Nat \ {0}, j # i PROVE NodeAt(t2, j) = NodeAt(t, j)
  BY <1>1, <1>3, <1>5, <1>6 DEF NodeAt
<1>7. Changed(t, t2, {i}) /\ NodeAt(t2, i) = node /\ Len(t2.m_base) = Len(t.m_base)
  BY <1>1, <1>3, <1>5, <1>6 DEF Changed, NodeAt
<1>8. QED
  BY <1>7, Zenon DEF t2

\* Only the node is changed.
LEMMA WrittenIs ==
  ASSUME NEW t \in Trie(Values), NEW i, NEW node
  PROVE  [t EXCEPT !.m_base[i] = node] = Written(t, i, node)
<1>1. t = [m_base |-> t.m_base, m_empty |-> t.m_empty]
  BY TrieParts
<1>2. QED
  BY <1>1 DEF Written

LEMMA ChangedTrans ==
  ASSUME NEW t, NEW t1, NEW t2, NEW S, NEW T, t.m_base \in Seq(Node(Values)),
         Changed(t, t1, S), Changed(t1, t2, T)
  PROVE  Changed(t, t2, S \union T)
<1>1. Len(t.m_base) \in Nat /\ Len(t1.m_base) \in Nat /\ Len(t2.m_base) \in Nat
  BY DEF Changed, Trie
<1>2. QED
  BY <1>1 DEF Changed

\* The node Place makes.
Placed(p, rest, v) ==
  [mode |-> IF rest = <<>> THEN "Arc" ELSE "Term", idx |-> 0, parent |-> p,
   rest |-> rest, val |-> v]

\* Place writes the one node.
LEMMA PlaceFacts ==
  ASSUME NEW t, Sound(t), NEW i \in Nat \ {0}, i <= 2 * Len(t.m_base), i \notin Used(t),
         NEW p \in Nat, NEW rest \in Seq(Chars), NEW v \in Values
  PROVE  /\ Changed(t, Place(t, i, p, rest, v), {i})
         /\ NodeAt(Place(t, i, p, rest, v), i) = Placed(p, rest, v)
         /\ i <= Len(Place(t, i, p, rest, v).m_base)
<1>1. t \in Trie(Values)
  BY DEF Sound
<1>2. PICK g : g = grow(t, i)
  OBVIOUS
<1>3. Changed(t, g, {}) /\ i <= Len(g.m_base) /\ g \in Trie(Values)
  BY <1>1, <1>2, GrowFacts DEF Changed
<1>4. /\ NodeAt(g, i) = UnusedNode /\ i \in 1..Len(g.m_base) /\ g.m_base[i] = UnusedNode
      /\ Len(g.m_base) \in Nat
  BY <1>3, NodeFacts DEF Changed, NodeAt, Trie
<1>5. Placed(p, rest, v) \in Node(Values)
  BY DEF Placed, Node, Mode
<1>6. [UnusedNode EXCEPT !.mode = IF rest = <<>> THEN "Arc" ELSE "Term",
                         !.parent = p, !.rest = rest, !.val = v] = Placed(p, rest, v)
  <2>1. PICK m : m = IF rest = <<>> THEN "Arc" ELSE "Term"
    OBVIOUS
  <2>2. [UnusedNode EXCEPT !.mode = m, !.parent = p, !.rest = rest, !.val = v]
          = [mode |-> m, idx |-> 0, parent |-> p, rest |-> rest, val |-> v]
    <3>1. [UnusedNode EXCEPT !.mode = m]
            = [mode |-> m, idx |-> 0, parent |-> 0, rest |-> <<>>, val |-> NoValue]
      BY DEF UnusedNode
    <3>2. [[mode |-> m, idx |-> 0, parent |-> 0, rest |-> <<>>, val |-> NoValue] EXCEPT !.parent = p]
            = [mode |-> m, idx |-> 0, parent |-> p, rest |-> <<>>, val |-> NoValue]
      OBVIOUS
    <3>3. [[mode |-> m, idx |-> 0, parent |-> p, rest |-> <<>>, val |-> NoValue] EXCEPT !.rest = rest]
            = [mode |-> m, idx |-> 0, parent |-> p, rest |-> rest, val |-> NoValue]
      OBVIOUS
    <3>4. [[mode |-> m, idx |-> 0, parent |-> p, rest |-> rest, val |-> NoValue] EXCEPT !.val = v]
            = [mode |-> m, idx |-> 0, parent |-> p, rest |-> rest, val |-> v]
      OBVIOUS
    <3>5. QED
      BY <3>1, <3>2, <3>3, <3>4, Zenon
  <2>3. QED
    BY <2>1, <2>2, Zenon DEF Placed
<1>7. PICK t2 : t2 = Written(g, i, Placed(p, rest, v))
  OBVIOUS
<1>8. Place(t, i, p, rest, v) = t2
  <2>1. Place(t, i, p, rest, v) = [g EXCEPT !.m_base[i] = Placed(p, rest, v)]
    BY <1>2, <1>4, <1>6, Zenon DEF Place
  <2>2. QED
    BY <1>3, <1>7, <2>1, WrittenIs, Zenon
<1>9. Changed(g, t2, {i}) /\ NodeAt(t2, i) = Placed(p, rest, v) /\ Len(t2.m_base) = Len(g.m_base)
  BY <1>3, <1>4, <1>5, <1>7, WriteNode
<1>10. Changed(t, t2, {} \union {i})
  BY <1>1, <1>3, <1>9, ChangedTrans DEF Trie
<1>11. QED
  BY <1>3, <1>8, <1>9, <1>10

-----------------------------------------------------------------------------
(* A new node.                                                              *)

\* Sound, slot by slot.
NodeOK(t, i) ==
  LET node == NodeAt(t, i)
  IN /\ node.idx <= Len(t.m_base)
     /\ node.mode = "Unused" => node = UnusedNode
     /\ node.mode = "Arc" <=> node.mode # "Unused" /\ node.rest = <<>>
     /\ i # 1 /\ node.mode # "Unused" =>
          /\ node.parent \in Nat \ {0} /\ node.parent # i
          /\ NodeAt(t, node.parent).mode = "Arc"
          /\ \E c \in Chars : i = NodeAt(t, node.parent).idx + c

\* Soundness, slot by slot.
LEMMA SoundIf ==
  ASSUME NEW t \in Trie(Values), Len(t.m_base) >= BaseSize,
         NodeAt(t, 1).mode = "Arc", NodeAt(t, 1).parent = 1, NodeAt(t, 1).idx >= 1,
         \A i \in Nat \ {0} : NodeOK(t, i)
  PROVE  Sound(t)
<1>1. Len(t.m_base) \in Nat /\ Len(t.m_base) >= 1
  BY CharFacts DEF Trie
<1>2. ASSUME NEW i \in 1..Len(t.m_base) PROVE NodeSound(t, i)
  <2>1. i \in Nat \ {0} /\ NodeAt(t, i) = t.m_base[i]
    BY <1>1 DEF NodeAt
  <2>2. NodeOK(t, i)
    BY <2>1
  <2>3. ASSUME i # 1, t.m_base[i].mode # "Unused"
        PROVE /\ t.m_base[i].parent \in Used(t) /\ t.m_base[i].parent # i
              /\ t.m_base[t.m_base[i].parent].mode = "Arc"
              /\ \E c \in Chars : i = t.m_base[t.m_base[i].parent].idx + c
    <3>1. PICK p : p = t.m_base[i].parent
      OBVIOUS
    <3>2. /\ p \in Nat \ {0} /\ p # i /\ NodeAt(t, p).mode = "Arc"
          /\ \E c \in Chars : i = NodeAt(t, p).idx + c
      BY <2>1, <2>2, <2>3, <3>1 DEF NodeOK
    <3>3. p <= Len(t.m_base)
      BY <3>2, UnusedType DEF NodeAt
    <3>4. NodeAt(t, p) = t.m_base[p] /\ p \in 1..Len(t.m_base)
      BY <1>1, <3>2, <3>3 DEF NodeAt
    <3>5. p \in Used(t)
      BY <3>2, <3>4 DEF Used
    <3>6. QED
      BY <3>1, <3>2, <3>4, <3>5
  <2>4. QED
    BY <2>1, <2>2, <2>3 DEF NodeOK, NodeSound
<1>3. NodeAt(t, 1) = t.m_base[1]
  BY <1>1 DEF NodeAt
<1>4. QED
  BY <1>2, <1>3 DEF Sound

LEMMA SoundNode ==
  ASSUME NEW t, Sound(t), NEW i \in Nat \ {0}
  PROVE  NodeOK(t, i)
<1>1. /\ NodeAt(t, i).idx <= Len(t.m_base)
      /\ i \in Used(t) <=> NodeAt(t, i).mode # "Unused"
      /\ i \notin Used(t) => NodeAt(t, i) = UnusedNode
      /\ NodeAt(t, i).mode = "Arc" <=> i \in Used(t) /\ NodeAt(t, i).rest = <<>>
  BY NodeFacts
<1>2. ASSUME i # 1, i \in Used(t)
      PROVE  /\ NodeAt(t, i).parent \in Nat \ {0} /\ NodeAt(t, i).parent # i
             /\ NodeAt(t, NodeAt(t, i).parent).mode = "Arc"
             /\ \E c \in Chars : i = NodeAt(t, NodeAt(t, i).parent).idx + c
  BY <1>2, UsedFacts, NodeFacts
<1>3. QED
  BY <1>1, <1>2 DEF NodeOK

\* i is a new child of p, for the character c.
Added(t, t2, i, p, c, rest, v) ==
  /\ Changed(t, t2, {i}) /\ NodeAt(t2, i) = Placed(p, rest, v) /\ i <= Len(t2.m_base)
  /\ i \in Nat \ {0} /\ i \notin Used(t) /\ rest \in Seq(Chars) /\ v \in Values
  /\ p \in Used(t) /\ NodeAt(t, p).mode = "Arc" /\ c \in Chars /\ i = NodeAt(t, p).idx + c

\* A new child of an Arc in an unused slot leaves a trie sound.
LEMMA AddedSound ==
  ASSUME NEW t, Sound(t), NEW t2, NEW i, NEW p, NEW c, NEW rest, NEW v,
         Added(t, t2, i, p, c, rest, v)
  PROVE  Sound(t2) /\ Used(t2) = Used(t) \union {i}
<1>1. /\ t2 \in Trie(Values) /\ Len(t2.m_base) >= Len(t.m_base)
      /\ \A j \in Nat \ {0} : j # i => NodeAt(t2, j) = NodeAt(t, j)
      /\ NodeAt(t2, i) = Placed(p, rest, v) /\ i <= Len(t2.m_base)
      /\ i \in Nat \ {0} /\ i \notin Used(t) /\ c \in Chars /\ i = NodeAt(t, p).idx + c
      /\ p \in Used(t) /\ NodeAt(t, p).mode = "Arc"
  BY DEF Added, Changed
<1>2. Len(t.m_base) \in Nat /\ Len(t2.m_base) \in Nat /\ BaseSize \in Nat /\ Len(t.m_base) >= BaseSize
  BY <1>1, CharFacts DEF Trie, Sound
<1>3. p \in Nat \ {0} /\ p # i /\ NodeAt(t2, p) = NodeAt(t, p) /\ i # 1
  BY <1>1, NodeFacts
<1>4. /\ NodeAt(t2, i).mode # "Unused" /\ NodeAt(t2, i).idx = 0 /\ NodeAt(t2, i).parent = p
      /\ NodeAt(t2, i).mode = "Arc" <=> NodeAt(t2, i).rest = <<>>
  BY <1>1 DEF Placed
<1>5. ASSUME NEW j \in Nat \ {0} PROVE NodeOK(t2, j)
  <2>1. CASE j = i
    <3>1. PICK node : node = NodeAt(t2, j)
      OBVIOUS
    <3>2. /\ node.mode # "Unused" /\ node.idx = 0 /\ node.parent = p
          /\ node.mode = "Arc" <=> node.rest = <<>>
          /\ node.idx <= Len(t2.m_base)
      BY <1>2, <1>4, <2>1, <3>1
    <3>3. NodeAt(t2, p).mode = "Arc" /\ \E x \in Chars : j = NodeAt(t2, p).idx + x
      BY <1>1, <1>3, <2>1
    <3>4. QED
      BY <1>3, <2>1, <3>1, <3>2, <3>3 DEF NodeOK
  <2>2. CASE j # i
    <3>1. NodeOK(t, j) /\ NodeAt(t2, j) = NodeAt(t, j)
      BY <1>1, <2>2, SoundNode
    <3>2. NodeAt(t, j) \in Node(Values)
      BY NodeFacts
    <3>3. ASSUME j # 1, NodeAt(t, j).mode # "Unused"
          PROVE  NodeAt(t2, NodeAt(t, j).parent) = NodeAt(t, NodeAt(t, j).parent)
      <4>1. j \in Used(t)
        BY <3>3, NodeFacts
      <4>2. NodeAt(t, j).parent \in Used(t)
        BY <3>3, <4>1, UsedFacts
      <4>3. QED
        BY <1>1, <4>2, NodeFacts
    <3>4. NodeAt(t, j).idx \in Nat
      BY <3>2 DEF Node
    <3>5. QED
      BY <1>1, <1>2, <3>1, <3>3, <3>4 DEF NodeOK
  <2>3. QED
    BY <2>1, <2>2
<1>6. NodeAt(t2, 1).mode = "Arc" /\ NodeAt(t2, 1).parent = 1 /\ NodeAt(t2, 1).idx >= 1
  BY <1>1, <1>3, NodeFacts
<1>7. Sound(t2)
  BY <1>1, <1>2, <1>5, <1>6, SoundIf
<1>8. ASSUME NEW j \in Nat \ {0} PROVE j \in Used(t2) <=> j \in Used(t) \/ j = i
  BY <1>1, <1>4, <1>7, NodeFacts
<1>9. Used(t2) \subseteq Nat \ {0} /\ Used(t) \subseteq Nat \ {0}
  BY <1>7, NodeFacts
<1>10. QED
  BY <1>1, <1>7, <1>8, <1>9

\* It is the one child more that the trie has.
LEMMA AddedChild ==
  ASSUME NEW t, Sound(t), NEW t2, NEW i, NEW p, NEW c, NEW rest, NEW v,
         Added(t, t2, i, p, c, rest, v), NEW x \in Chars
  PROVE  /\ \A j \in Used(t) :
              Child(t2, j, x) = IF j = p /\ x = c THEN i ELSE Child(t, j, x)
         /\ Child(t2, i, x) = 0 /\ Child(t, p, c) = 0
<1>1. /\ \A j \in Nat \ {0} : j # i => NodeAt(t2, j) = NodeAt(t, j)
      /\ NodeAt(t2, i).parent = p /\ NodeAt(t2, i).idx = 0
      /\ i \in Nat \ {0} /\ i \notin Used(t) /\ c \in Chars /\ i = NodeAt(t, p).idx + c
      /\ p \in Used(t) /\ NodeAt(t, p).mode = "Arc"
  BY DEF Added, Changed, Placed
<1>2. Sound(t2) /\ Used(t2) = Used(t) \union {i}
  BY AddedSound
<1>3. x \in Nat \ {0} /\ c \in Nat \ {0} /\ i # 1
  BY <1>1, CharFacts, NodeFacts
<1>4. ASSUME NEW j \in Used(t)
      PROVE  Child(t2, j, x) = IF j = p /\ x = c THEN i ELSE Child(t, j, x)
  <2>1. j \in Nat \ {0} /\ j # i /\ NodeAt(t2, j) = NodeAt(t, j) /\ j \in Used(t2)
    BY <1>1, <1>2, NodeFacts
  <2>2. PICK s : s = NodeAt(t, j).idx + x
    OBVIOUS
  <2>3. NodeAt(t, j).idx \in Nat /\ s \in Nat \ {0}
    BY <1>3, <2>1, <2>2, NodeParts
  <2>4. Child(t2, j, x) = IF NodeAt(t, j).mode = "Arc" /\ s \in Used(t2) /\ NodeAt(t2, s).parent = j
                          THEN s ELSE 0
    BY <1>2, <1>3, <2>1, <2>2, ChildIs
  <2>5. Child(t, j, x) = IF NodeAt(t, j).mode = "Arc" /\ s \in Used(t) /\ NodeAt(t, s).parent = j
                         THEN s ELSE 0
    BY <1>3, <2>2, ChildIs
  <2>6. CASE s = i
    <3>1. j = p => x = c
      BY <1>1, <1>3, <2>2, <2>3, <2>6
    <3>2. QED
      BY <1>1, <1>2, <2>4, <2>5, <2>6, <3>1
  <2>7. CASE s # i
    <3>1. ~(j = p /\ x = c)
      BY <1>1, <2>2, <2>7
    <3>2. NodeAt(t2, s) = NodeAt(t, s)
      BY <1>1, <2>3, <2>7
    <3>3. QED
      BY <1>2, <2>4, <2>5, <2>7, <3>1, <3>2
  <2>8. QED
    BY <2>6, <2>7
<1>5. Child(t2, i, x) = 0
  <2>1. Child(t2, i, x) = IF NodeAt(t2, i).mode = "Arc" /\ x \in Used(t2) /\ NodeAt(t2, x).parent = i
                          THEN x ELSE 0
    BY <1>1, <1>2, <1>3, ChildIs
  <2>2. ASSUME x \in Used(t2) PROVE NodeAt(t2, x).parent # i
    <3>1. CASE x = i
      BY <1>1, <3>1
    <3>2. CASE x # i
      <4>1. x \in Used(t) /\ NodeAt(t2, x) = NodeAt(t, x)
        BY <1>1, <1>2, <1>3, <2>2, <3>2
      <4>2. NodeAt(t, x).parent \in Used(t)
        BY <4>1, UsedFacts, NodeFacts
      <4>3. QED
        BY <1>1, <4>1, <4>2
    <3>3. QED
      BY <3>1, <3>2
  <2>3. QED
    BY <2>1, <2>2
<1>6. Child(t, p, c) = 0
  BY <1>1, <1>3, ChildIs
<1>7. QED
  BY <1>4, <1>5, <1>6

\* Every walk goes on as before, and may now reach the child.
LEMMA AddedPath ==
  ASSUME NEW t, Sound(t), NEW t2, NEW i, NEW p, NEW c, NEW rest, NEW v,
         Added(t, t2, i, p, c, rest, v), NEW k \in Seq(Chars)
  PROVE  /\ Path(t2, k)[0] = 1
         /\ \A n \in 1..Len(k) :
              Path(t2, k)[n] = IF Path(t, k)[n] # 0 THEN Path(t, k)[n]
                               ELSE IF Path(t, k)[n-1] = p /\ k[n] = c THEN i ELSE 0
<1>1. Len(k) \in Nat /\ \A n \in 1..Len(k) : k[n] \in Chars
  OBVIOUS
<1>2. PICK g : g = Path(t, k)
  OBVIOUS
<1>3. PICK f : f = [n \in 0..Len(k) |->
                      IF g[n] # 0 THEN g[n]
                      ELSE IF n # 0 /\ g[n-1] = p /\ k[n] = c THEN i ELSE 0]
  OBVIOUS
<1>4. /\ g[0] = 1
      /\ \A n \in 0..Len(k) : g[n] \in Used(t) \union {0}
      /\ \A n \in 1..Len(k) : g[n] = IF g[n-1] = 0 THEN 0 ELSE Child(t, g[n-1], k[n])
  BY <1>2, PathNodes
<1>5. p \in Nat \ {0} /\ i \in Nat \ {0} /\ p \in Used(t) /\ i \notin Used(t)
  BY NodeFacts DEF Added
<1>6. f[0] = 1
  BY <1>1, <1>3, <1>4
<1>7. ASSUME NEW n \in 1..Len(k)
      PROVE  f[n] = IF f[n-1] = 0 THEN 0 ELSE Child(t2, f[n-1], k[n])
  <2>1. n \in 0..Len(k) /\ n - 1 \in 0..Len(k) /\ n # 0 /\ k[n] \in Chars
    BY <1>1
  <2>2. f[n] = IF g[n] # 0 THEN g[n] ELSE IF g[n-1] = p /\ k[n] = c THEN i ELSE 0
    BY <1>3, <2>1
  <2>3. /\ g[n-1] # 0 => f[n-1] = g[n-1]
        /\ g[n-1] = 0 => f[n-1] \in {0, i}
    BY <1>3, <2>1
  <2>4. g[n] = IF g[n-1] = 0 THEN 0 ELSE Child(t, g[n-1], k[n])
    BY <1>4
  <2>5. CASE g[n-1] = 0
    <3>1. f[n] = 0
      BY <1>5, <2>2, <2>4, <2>5
    <3>2. Child(t2, i, k[n]) = 0
      BY <2>1, AddedChild
    <3>3. QED
      BY <2>3, <2>5, <3>1, <3>2
  <2>6. CASE g[n-1] # 0
    <3>1. g[n-1] \in Used(t) /\ f[n-1] = g[n-1]
      BY <1>4, <2>1, <2>3, <2>6
    <3>2. Child(t2, g[n-1], k[n]) = IF g[n-1] = p /\ k[n] = c THEN i ELSE Child(t, g[n-1], k[n])
      BY <2>1, <3>1, AddedChild
    <3>3. Child(t, p, c) = 0
      BY <2>1, AddedChild
    <3>4. QED
      BY <2>2, <2>4, <2>6, <3>1, <3>2, <3>3
  <2>7. QED
    BY <2>5, <2>6
<1>8. \A n \in 0..Len(k) : Path(t2, k)[n] = f[n]
  BY <1>1, <1>6, <1>7, PathIs
<1>9. ASSUME NEW n \in 1..Len(k)
      PROVE  Path(t2, k)[n] = IF g[n] # 0 THEN g[n]
                              ELSE IF g[n-1] = p /\ k[n] = c THEN i ELSE 0
  BY <1>1, <1>3, <1>8
<1>10. QED
  BY <1>1, <1>2, <1>6, <1>8, <1>9

\* Keys that end at nodes of the same value are looked up alike.
LEMMA RetrieveSame ==
  ASSUME NEW t, Sound(t), NEW t2, Sound(t2), t2.m_empty = t.m_empty, NEW k \in Seq(Chars),
         \A n : Hit(t, k, n) => /\ Hit(t2, k, n)
                                /\ NodeAt(t2, Path(t2, k)[n]).val = NodeAt(t, Path(t, k)[n]).val,
         \A n : Hit(t2, k, n) => \E m : Hit(t, k, m)
  PROVE  retrieve(t2, k) = retrieve(t, k)
<1>1. CASE k = <<>>
  BY <1>1 DEF retrieve
<1>2. CASE k # <<>> /\ \E n : Hit(t, k, n)
  <2>1. PICK n : Hit(t, k, n)
    BY <1>2
  <2>2. Hit(t2, k, n) /\ NodeAt(t2, Path(t2, k)[n]).val = NodeAt(t, Path(t, k)[n]).val
    BY <2>1
  <2>3. retrieve(t, k) = NodeAt(t, Path(t, k)[n]).val
    BY <2>1, RetrieveHit
  <2>4. retrieve(t2, k) = NodeAt(t2, Path(t2, k)[n]).val
    BY <2>2, RetrieveHit
  <2>5. QED
    BY <2>2, <2>3, <2>4
<1>3. CASE k # <<>> /\ \A n : ~Hit(t, k, n)
  <2>1. \A n : ~Hit(t2, k, n)
    BY <1>3
  <2>2. retrieve(t, k) = NoValue /\ retrieve(t2, k) = NoValue
    BY <1>3, <2>1, RetrieveMiss
  <2>3. QED
    BY <2>2
<1>4. QED
  BY <1>1, <1>2, <1>3

\* i is a new node at the end of the walk of key, which has come to p in n steps.
AddedFor(t, t2, i, p, v, key, n) ==
  /\ n \in 0..Len(key) /\ n < Len(key) /\ Path(t, key)[n] = p
  /\ Added(t, t2, i, p, key[n + 1], After(key, n + 1), v)

\* This key alone is new.
LEMMA AddedRetrieve ==
  ASSUME NEW t, Sound(t), NEW t2, NEW i, NEW p, NEW v,
         NEW key \in Seq(Chars), NEW n, AddedFor(t, t2, i, p, v, key, n)
  PROVE  /\ \A k \in Seq(Chars) : k # key => retrieve(t2, k) = retrieve(t, k)
         /\ retrieve(t2, key) = v /\ retrieve(t, key) = NoValue /\ key # <<>>
         /\ Path(t2, key)[n + 1] = i
<1>1. /\ Len(key) \in Nat /\ n + 1 \in 1..Len(key) /\ (n + 1) - 1 = n
      /\ n + 1 \in 0..Len(key) /\ key # <<>>
      /\ n \in 0..Len(key) /\ n < Len(key) /\ Path(t, key)[n] = p
  BY DEF AddedFor
<1>2. PICK c : c = key[n + 1]
  OBVIOUS
<1>3. PICK rest : rest = After(key, n + 1)
  OBVIOUS
<1>4. Added(t, t2, i, p, c, rest, v)
  BY <1>2, <1>3 DEF AddedFor
<1>5. Sound(t2)
  BY <1>4, AddedSound
<1>6. /\ t2.m_empty = t.m_empty
      /\ \A j \in Nat \ {0} : j # i => NodeAt(t2, j) = NodeAt(t, j)
      /\ NodeAt(t2, i).rest = rest /\ NodeAt(t2, i).val = v
      /\ i \in Nat \ {0} /\ i \notin Used(t) /\ p \in Used(t) /\ p # 0
      /\ NodeAt(t, p).mode = "Arc" /\ c \in Chars
  BY <1>4, NodeFacts DEF Added, Changed, Placed
<1>7. NodeAt(t, p).rest = <<>>
  BY <1>6, NodeFacts
<1>8. \A m : ~Hit(t, key, m)
  <2>1. SUFFICES ASSUME NEW m, Hit(t, key, m) PROVE FALSE
    OBVIOUS
  <2>2. m \in 1..Len(key)
    BY <2>1 DEF Hit
  <2>3. ~(m < n)
    BY <1>1, <1>6, <2>1, <2>2, HitEnds
  <2>4. m # n
    <3>1. After(key, n) # <<>>
      BY <1>1, AfterFacts
    <3>2. QED
      BY <1>1, <1>7, <2>1, <3>1 DEF Hit
  <2>5. Path(t, key)[n + 1] = 0
    <3>1. Path(t, key)[n + 1] = Child(t, p, c)
      BY <1>1, <1>2, <1>6, PathNodes
    <3>2. Child(t, p, c) = 0
      BY <1>4, <1>6, AddedChild
    <3>3. QED
      BY <3>1, <3>2
  <2>6. n + 1 \in 0..m
    BY <1>1, <2>2, <2>3, <2>4
  <2>7. Path(t, key)[n + 1] # 0
    <3>1. m \in 0..Len(key) /\ Path(t, key)[m] # 0
      BY <1>1, <2>1, <2>2 DEF Hit
    <3>2. QED
      BY <2>6, <3>1, PathPrefix
  <2>8. QED
    BY <2>5, <2>7
<1>9. retrieve(t, key) = NoValue
  BY <1>1, <1>8, RetrieveMiss
<1>10. Path(t2, key)[n + 1] = i /\ Hit(t2, key, n + 1) /\ retrieve(t2, key) = v
  <2>1. Path(t, key)[n + 1] = 0
    <3>1. Path(t, key)[n + 1] = Child(t, p, c)
      BY <1>1, <1>2, <1>6, PathNodes
    <3>2. Child(t, p, c) = 0
      BY <1>4, <1>6, AddedChild
    <3>3. QED
      BY <3>1, <3>2
  <2>2. Path(t2, key)[n + 1] = i
    BY <1>1, <1>2, <1>4, <2>1, AddedPath
  <2>3. Hit(t2, key, n + 1)
    BY <1>1, <1>3, <1>6, <2>2 DEF Hit
  <2>4. retrieve(t2, key) = NodeAt(t2, Path(t2, key)[n + 1]).val
    BY <1>5, <2>3, RetrieveHit
  <2>5. QED
    BY <1>6, <2>2, <2>3, <2>4
<1>11. ASSUME NEW k \in Seq(Chars), k # key PROVE retrieve(t2, k) = retrieve(t, k)
  <2>1. Len(k) \in Nat
    OBVIOUS
  <2>2. ASSUME NEW m, Hit(t, k, m)
        PROVE  /\ Hit(t2, k, m)
               /\ NodeAt(t2, Path(t2, k)[m]).val = NodeAt(t, Path(t, k)[m]).val
    <3>1. m \in 1..Len(k) /\ Path(t, k)[m] # 0 /\ m \in 0..Len(k)
      BY <2>1, <2>2 DEF Hit
    <3>2. Path(t2, k)[m] = Path(t, k)[m]
      BY <1>4, <3>1, AddedPath
    <3>3. Path(t, k)[m] \in Used(t) /\ Path(t, k)[m] \in Nat \ {0}
      BY <3>1, PathNodes, NodeFacts
    <3>4. NodeAt(t2, Path(t, k)[m]) = NodeAt(t, Path(t, k)[m])
      BY <1>6, <3>3
    <3>5. QED
      BY <2>2, <3>1, <3>2, <3>4 DEF Hit
  <2>3. ASSUME NEW m, Hit(t2, k, m) PROVE Hit(t, k, m)
    <3>1. m \in 1..Len(k) /\ m - 1 \in 0..Len(k) /\ m \in 0..Len(k) /\ (m - 1) + 1 = m
      BY <2>1, <2>3 DEF Hit
    <3>2. Path(t2, k)[m] # 0 /\ NodeAt(t2, Path(t2, k)[m]).rest = After(k, m)
      BY <2>3 DEF Hit
    <3>3. CASE Path(t, k)[m] # 0
      <4>1. Path(t2, k)[m] = Path(t, k)[m]
        BY <1>4, <3>1, <3>3, AddedPath
      <4>2. Path(t, k)[m] \in Used(t) /\ Path(t, k)[m] \in Nat \ {0}
        BY <3>1, <3>3, PathNodes, NodeFacts
      <4>3. NodeAt(t2, Path(t, k)[m]) = NodeAt(t, Path(t, k)[m])
        BY <1>6, <4>2
      <4>4. QED
        BY <3>1, <3>2, <3>3, <4>1, <4>3 DEF Hit
    <3>4. CASE Path(t, k)[m] = 0
      <4>1. Path(t, k)[m-1] = p /\ k[m] = c /\ Path(t2, k)[m] = i
        BY <1>4, <3>1, <3>2, <3>4, AddedPath
      <4>2. m - 1 = n /\ \A j \in 1..m - 1 : k[j] = key[j]
        BY <1>1, <1>6, <3>1, <4>1, SameWord
      <4>3. m = n + 1
        BY <1>1, <3>1, <4>2
      <4>4. \A j \in 1..m : k[j] = key[j]
        BY <1>1, <1>2, <3>1, <4>1, <4>2, <4>3
      <4>5. After(k, m) = After(key, m)
        BY <1>3, <1>6, <3>2, <4>1, <4>3
      <4>6. k = key
        BY <1>1, <3>1, <4>3, <4>4, <4>5, SameKey
      <4>7. QED
        BY <1>11, <4>6
    <3>5. QED
      BY <3>3, <3>4
  <2>4. QED
    BY <1>5, <1>6, <2>2, <2>3, RetrieveSame
<1>12. QED
  BY <1>1, <1>9, <1>10, <1>11

-----------------------------------------------------------------------------
(* A node without children becomes an Arc with another base.                *)

NoChildren(t, s) == \A j \in Used(t) : NodeAt(t, j).parent # s

Rebased(t, t2, s, q, x) ==
  /\ Changed(t, t2, {s})
  /\ NodeAt(t2, s) = [mode |-> "Arc", idx |-> q, parent |-> NodeAt(t, s).parent,
                      rest |-> <<>>, val |-> x]
  /\ s \in Used(t) /\ s # 1 /\ NoChildren(t, s)
  /\ q \in Nat /\ q <= Len(t2.m_base) /\ x \in Values

\* A node without children, given a base, leaves a trie sound.
LEMMA RebasedSound ==
  ASSUME NEW t, Sound(t), NEW t2, NEW s, NEW q, NEW x, Rebased(t, t2, s, q, x)
  PROVE  /\ Sound(t2) /\ Used(t2) = Used(t)
         /\ \A j \in Used(t) : NodeAt(t2, j).parent = NodeAt(t, j).parent
         /\ NoChildren(t2, s)
<1>1. /\ t2 \in Trie(Values) /\ Len(t2.m_base) >= Len(t.m_base)
      /\ \A j \in Nat \ {0} : j # s => NodeAt(t2, j) = NodeAt(t, j)
      /\ NodeAt(t2, s).mode = "Arc" /\ NodeAt(t2, s).idx = q /\ NodeAt(t2, s).rest = <<>>
      /\ NodeAt(t2, s).parent = NodeAt(t, s).parent
      /\ s \in Used(t) /\ s # 1 /\ q \in Nat /\ q <= Len(t2.m_base)
      /\ \A j \in Used(t) : NodeAt(t, j).parent # s
  BY DEF Rebased, Changed, NoChildren
<1>2. /\ Len(t.m_base) \in Nat /\ Len(t2.m_base) \in Nat /\ BaseSize \in Nat
      /\ Len(t.m_base) >= BaseSize /\ s \in Nat \ {0}
  BY <1>1, CharFacts, NodeFacts DEF Trie, Sound
<1>3. ASSUME NEW j \in Used(t), j # 1
      PROVE  /\ NodeAt(t, j).parent \in Nat \ {0} /\ NodeAt(t, j).parent # j
             /\ NodeAt(t2, NodeAt(t, j).parent).mode = "Arc"
             /\ \E c \in Chars : j = NodeAt(t2, NodeAt(t, j).parent).idx + c
  <2>1. /\ NodeAt(t, j).parent \in Nat \ {0} /\ NodeAt(t, j).parent # j
        /\ NodeAt(t, NodeAt(t, j).parent).mode = "Arc"
        /\ \E c \in Chars : j = NodeAt(t, NodeAt(t, j).parent).idx + c
    BY <1>3, UsedFacts, NodeFacts
  <2>2. NodeAt(t2, NodeAt(t, j).parent) = NodeAt(t, NodeAt(t, j).parent)
    BY <1>1, <2>1
  <2>3. QED
    BY <2>1, <2>2
<1>4. ASSUME NEW j \in Nat \ {0} PROVE NodeOK(t2, j)
  <2>1. CASE j = s
    <3>1. PICK node : node = NodeAt(t2, j)
      OBVIOUS
    <3>2. /\ node.mode = "Arc" /\ node.idx <= Len(t2.m_base) /\ node.rest = <<>>
          /\ node.parent = NodeAt(t, s).parent
      BY <1>1, <2>1, <3>1
    <3>3. QED
      BY <1>1, <1>3, <2>1, <3>1, <3>2 DEF NodeOK
  <2>2. CASE j # s
    <3>1. NodeOK(t, j) /\ NodeAt(t2, j) = NodeAt(t, j)
      BY <1>1, <2>2, SoundNode
    <3>2. NodeAt(t, j).idx \in Nat
      BY NodeParts
    <3>3. j \in Used(t) <=> NodeAt(t, j).mode # "Unused"
      BY NodeFacts
    <3>4. QED
      BY <1>1, <1>2, <1>3, <3>1, <3>2, <3>3 DEF NodeOK
  <2>3. QED
    BY <2>1, <2>2
<1>5. NodeAt(t2, 1).mode = "Arc" /\ NodeAt(t2, 1).parent = 1 /\ NodeAt(t2, 1).idx >= 1
  BY <1>1, NodeFacts
<1>6. Sound(t2)
  BY <1>1, <1>2, <1>4, <1>5, SoundIf
<1>7. ASSUME NEW j \in Nat \ {0} PROVE j \in Used(t2) <=> j \in Used(t)
  <2>1. CASE j = s
    <3>1. NodeAt(t2, j).mode = "Arc"
      BY <1>1, <2>1
    <3>2. j \in Used(t2)
      BY <1>6, <3>1, NodeFacts
    <3>3. QED
      BY <1>1, <2>1, <3>2
  <2>2. CASE j # s
    BY <1>1, <1>6, <2>2, NodeFacts
  <2>3. QED
    BY <2>1, <2>2
<1>8. Used(t2) \subseteq Nat \ {0} /\ Used(t) \subseteq Nat \ {0}
  BY <1>6, NodeFacts
<1>9. Used(t2) = Used(t)
  BY <1>7, <1>8
<1>10. \A j \in Used(t) : NodeAt(t2, j).parent = NodeAt(t, j).parent
  BY <1>1, <1>8
<1>11. QED
  BY <1>1, <1>6, <1>9, <1>10 DEF NoChildren

\* No node gains or loses a child.
LEMMA RebasedChild ==
  ASSUME NEW t, Sound(t), NEW t2, NEW s, NEW q, NEW x, Rebased(t, t2, s, q, x),
         NEW j \in Used(t), NEW c \in Chars
  PROVE  Child(t2, j, c) = Child(t, j, c)
<1>1. /\ Sound(t2) /\ Used(t2) = Used(t)
      /\ \A i \in Used(t) : NodeAt(t2, i).parent = NodeAt(t, i).parent
      /\ NoChildren(t, s) /\ NoChildren(t2, s)
  BY RebasedSound DEF Rebased
<1>2. c \in Nat \ {0} /\ j \in Nat \ {0} /\ \A i \in Nat \ {0} : i # s => NodeAt(t2, i) = NodeAt(t, i)
  BY CharFacts, NodeFacts DEF Rebased, Changed
<1>3. CASE j = s
  <2>1. Child(t2, j, c) = 0
    <3>1. /\ Sound(t2) /\ j \in Used(t2) /\ c \in Nat \ {0}
          /\ \A i \in Used(t2) : NodeAt(t2, i).parent # j
      BY <1>1, <1>2, <1>3, Zenon DEF NoChildren
    <3>2. QED
      BY ONLY <3>1, ChildNone, Zenon
  <2>2. Child(t, j, c) = 0
    <3>1. /\ Sound(t) /\ j \in Used(t) /\ c \in Nat \ {0}
          /\ \A i \in Used(t) : NodeAt(t, i).parent # j
      BY <1>1, <1>2, <1>3, Zenon DEF NoChildren
    <3>2. QED
      BY ONLY <3>1, ChildNone, Zenon
  <2>3. QED
    BY <2>1, <2>2
<1>4. CASE j # s
  <2>1. PICK i : i = NodeAt(t, j).idx + c
    OBVIOUS
  <2>2. NodeAt(t2, j) = NodeAt(t, j) /\ j \in Used(t2)
    BY <1>1, <1>2, <1>4
  <2>3. Child(t2, j, c) = IF NodeAt(t, j).mode = "Arc" /\ i \in Used(t) /\ NodeAt(t2, i).parent = j
                          THEN i ELSE 0
    BY <1>1, <1>2, <2>1, <2>2, ChildIs
  <2>4. Child(t, j, c) = IF NodeAt(t, j).mode = "Arc" /\ i \in Used(t) /\ NodeAt(t, i).parent = j
                          THEN i ELSE 0
    BY <1>2, <2>1, ChildIs
  <2>5. QED
    BY <1>1, <2>3, <2>4
<1>5. QED
  BY <1>3, <1>4

\* No walk changes.
LEMMA RebasedPath ==
  ASSUME NEW t, Sound(t), NEW t2, NEW s, NEW q, NEW x, Rebased(t, t2, s, q, x),
         NEW k \in Seq(Chars), NEW n \in 0..Len(k)
  PROVE  Path(t2, k)[n] = Path(t, k)[n]
<1>1. Len(k) \in Nat /\ \A m \in 1..Len(k) : k[m] \in Chars
  OBVIOUS
<1>2. PICK g : g = Path(t, k)
  OBVIOUS
<1>3. /\ g[0] = 1
      /\ \A m \in 0..Len(k) : g[m] \in Used(t) \union {0}
      /\ \A m \in 1..Len(k) : g[m] = IF g[m-1] = 0 THEN 0 ELSE Child(t, g[m-1], k[m])
  BY <1>2, PathNodes
<1>4. ASSUME NEW m \in 1..Len(k) PROVE g[m] = IF g[m-1] = 0 THEN 0 ELSE Child(t2, g[m-1], k[m])
  <2>1. m - 1 \in 0..Len(k) /\ k[m] \in Chars
    BY <1>1
  <2>2. g[m-1] # 0 => Child(t2, g[m-1], k[m]) = Child(t, g[m-1], k[m])
    BY <1>3, <2>1, RebasedChild
  <2>3. QED
    BY <1>3, <2>2
<1>5. \A m \in 0..Len(k) : Path(t2, k)[m] = g[m]
  BY <1>1, <1>3, <1>4, PathIs
<1>6. QED
  BY <1>2, <1>5

\* The key a node has the value of.
HitAt(t, k, s) == \E n : Hit(t, k, n) /\ Path(t, k)[n] = s

LEMMA HitMade ==
  ASSUME NEW t, NEW k, NEW n, NEW s, n \in 1..Len(k), Path(t, k)[n] = s, s # 0,
         NodeAt(t, s).rest = After(k, n)
  PROVE  HitAt(t, k, s)
<1>1. Hit(t, k, n)
  BY Zenon DEF Hit
<1>2. QED
  BY <1>1, Zenon DEF HitAt

\* The value a key has once the node s is rebased.
LEMMA RebasedRetrieve ==
  ASSUME NEW t, Sound(t), NEW t2, NEW s, NEW q, NEW x, Rebased(t, t2, s, q, x),
         NEW k \in Seq(Chars)
  PROVE  retrieve(t2, k) = IF Path(t, k)[Len(k)] = s THEN x
                           ELSE IF HitAt(t, k, s) THEN NoValue ELSE retrieve(t, k)
<1>1. Sound(t2) /\ t2.m_empty = t.m_empty
  BY RebasedSound DEF Rebased, Changed
<1>2. /\ \A i \in Nat \ {0} : i # s => NodeAt(t2, i) = NodeAt(t, i)
      /\ NodeAt(t2, s).rest = <<>> /\ NodeAt(t2, s).val = x
      /\ s \in Nat \ {0} /\ s # 1
  BY NodeFacts DEF Rebased, Changed
<1>3. Len(k) \in Nat /\ Path(t, k)[0] = 1 /\ Path(t2, k)[0] = 1
  BY <1>1, PathNodes
<1>4. CASE Path(t, k)[Len(k)] = s
  <2>1. Len(k) \in 1..Len(k) /\ Len(k) \in 0..Len(k)
    <3>1. Len(k) # 0
      BY <1>2, <1>3, <1>4
    <3>2. QED
      BY <1>3, <3>1
  <2>2. Path(t2, k)[Len(k)] = s
    BY <1>4, <2>1, RebasedPath
  <2>3. After(k, Len(k)) = <<>>
    BY <2>1, AfterFacts
  <2>4. Hit(t2, k, Len(k))
    BY <1>2, <2>1, <2>2, <2>3 DEF Hit
  <2>5. retrieve(t2, k) = NodeAt(t2, s).val
    BY <1>1, <2>2, <2>4, RetrieveHit
  <2>6. QED
    BY <1>2, <1>4, <2>5
<1>5. ASSUME NEW n, Hit(t2, k, n), Path(t2, k)[n] = s PROVE Path(t, k)[Len(k)] = s
  <2>1. n \in 1..Len(k) /\ n \in 0..Len(k) /\ After(k, n) = <<>>
    BY <1>2, <1>3, <1>5 DEF Hit
  <2>2. n = Len(k)
    BY <2>1, AfterFacts
  <2>3. QED
    BY <1>5, <2>1, <2>2, RebasedPath
<1>6. ASSUME NEW n, Path(t, k)[n] # s, n \in 0..Len(k), Path(t, k)[n] # 0
      PROVE  Path(t2, k)[n] = Path(t, k)[n] /\ NodeAt(t2, Path(t2, k)[n]) = NodeAt(t, Path(t, k)[n])
  <2>1. Path(t2, k)[n] = Path(t, k)[n]
    BY <1>6, RebasedPath
  <2>2. Path(t, k)[n] \in Nat \ {0}
    BY <1>6, PathNodes, NodeFacts
  <2>3. QED
    BY <1>2, <1>6, <2>1, <2>2
<1>7. ASSUME NEW n, Hit(t, k, n), Path(t, k)[n] # s
      PROVE  /\ Hit(t2, k, n)
             /\ NodeAt(t2, Path(t2, k)[n]).val = NodeAt(t, Path(t, k)[n]).val
  <2>1. n \in 1..Len(k) /\ n \in 0..Len(k) /\ Path(t, k)[n] # 0
    BY <1>3, <1>7 DEF Hit
  <2>2. Path(t2, k)[n] = Path(t, k)[n] /\ NodeAt(t2, Path(t2, k)[n]) = NodeAt(t, Path(t, k)[n])
    BY <1>6, <1>7, <2>1
  <2>3. QED
    BY <1>7, <2>2 DEF Hit
<1>8. ASSUME NEW n, Hit(t2, k, n), Path(t, k)[Len(k)] # s PROVE Hit(t, k, n)
  <2>1. n \in 1..Len(k) /\ n \in 0..Len(k) /\ Path(t2, k)[n] # 0
    BY <1>3, <1>8 DEF Hit
  <2>2. Path(t2, k)[n] # s
    BY <1>5, <1>8
  <2>3. Path(t2, k)[n] = Path(t, k)[n]
    BY <2>1, RebasedPath
  <2>4. NodeAt(t2, Path(t2, k)[n]) = NodeAt(t, Path(t, k)[n])
    BY <1>6, <2>1, <2>2, <2>3
  <2>5. QED
    BY <1>8, <2>3, <2>4 DEF Hit
<1>9. CASE Path(t, k)[Len(k)] # s /\ HitAt(t, k, s)
  <2>1. PICK n : Hit(t, k, n) /\ Path(t, k)[n] = s
    BY <1>9 DEF HitAt
  <2>2. \A m : ~Hit(t2, k, m)
    <3>1. SUFFICES ASSUME NEW m, Hit(t2, k, m) PROVE FALSE
      OBVIOUS
    <3>2. Hit(t, k, m)
      BY <1>8, <1>9, <3>1
    <3>3. m = n /\ m \in 0..Len(k)
      BY <1>3, <2>1, <3>2, HitOnce DEF Hit
    <3>4. Path(t2, k)[m] = s
      BY <2>1, <3>3, RebasedPath
    <3>5. QED
      BY <1>5, <1>9, <3>1, <3>4
  <2>3. k # <<>>
    BY <2>1, RetrieveHit
  <2>4. retrieve(t2, k) = NoValue
    BY <1>1, <2>2, <2>3, RetrieveMiss
  <2>5. QED
    BY <1>9, <2>4
<1>10. CASE Path(t, k)[Len(k)] # s /\ ~HitAt(t, k, s)
  <2>1. \A n : Hit(t, k, n) => Path(t, k)[n] # s
    BY <1>10 DEF HitAt
  <2>2. retrieve(t2, k) = retrieve(t, k)
    BY <1>1, <1>7, <1>8, <1>10, <2>1, RetrieveSame
  <2>3. QED
    BY <1>10, <2>2
<1>11. QED
  BY <1>4, <1>9, <1>10

-----------------------------------------------------------------------------
(* A value is written.                                                      *)

Valued(t, t2, s, v) ==
  /\ Changed(t, t2, {s}) /\ s \in Used(t) /\ v \in Values
  /\ NodeAt(t2, s).mode = NodeAt(t, s).mode /\ NodeAt(t2, s).idx = NodeAt(t, s).idx
  /\ NodeAt(t2, s).parent = NodeAt(t, s).parent /\ NodeAt(t2, s).rest = NodeAt(t, s).rest
  /\ NodeAt(t2, s).val = v

LEMMA ValuedIs ==
  ASSUME NEW t, Sound(t), NEW s \in Used(t), NEW v \in Values
  PROVE  Valued(t, [t EXCEPT !.m_base[s].val = v], s, v)
<1>1. /\ t \in Trie(Values) /\ s \in 1..Len(t.m_base) /\ NodeAt(t, s) = t.m_base[s]
      /\ s \in Nat \ {0}
  BY NodeFacts DEF Sound, Used, NodeAt
<1>2. PICK node : node = [t.m_base[s] EXCEPT !.val = v]
  OBVIOUS
<1>3. /\ node \in Node(Values) /\ node.mode = t.m_base[s].mode /\ node.idx = t.m_base[s].idx
      /\ node.parent = t.m_base[s].parent /\ node.rest = t.m_base[s].rest /\ node.val = v
  <2>1. t.m_base[s] \in Node(Values)
    BY <1>1, NodeParts
  <2>2. PICK old : old = t.m_base[s]
    OBVIOUS
  <2>3. old \in [mode : Mode, idx : Nat, parent : Nat, rest : Seq(Chars), val : Values]
    BY <2>1, <2>2 DEF Node
  <2>4. node = [old EXCEPT !.val = v]
    BY <1>2, <2>2
  <2>5. /\ node.mode = old.mode /\ node.idx = old.idx /\ node.parent = old.parent
        /\ node.rest = old.rest /\ node.val = v /\ node \in Node(Values)
    BY <2>3, <2>4 DEF Node
  <2>6. QED
    BY <2>2, <2>5
<1>4. [t EXCEPT !.m_base[s].val = v] = [t EXCEPT !.m_base[s] = node]
  BY <1>2, Zenon
<1>5. [t EXCEPT !.m_base[s].val = v] = Written(t, s, node)
  BY <1>1, <1>4, WrittenIs, Zenon
<1>6. /\ Changed(t, Written(t, s, node), {s}) /\ NodeAt(Written(t, s, node), s) = node
  BY <1>1, <1>3, WriteNode
<1>7. Valued(t, Written(t, s, node), s, v)
  BY <1>1, <1>3, <1>6 DEF Valued
<1>8. QED
  BY <1>5, <1>7, Zenon

\* A value written into a node leaves a trie sound.
LEMMA ValuedSound ==
  ASSUME NEW t, Sound(t), NEW t2, NEW s, NEW v, Valued(t, t2, s, v)
  PROVE  /\ Sound(t2) /\ Used(t2) = Used(t)
         /\ \A j \in Nat \ {0} : /\ NodeAt(t2, j).mode = NodeAt(t, j).mode
                                 /\ NodeAt(t2, j).idx = NodeAt(t, j).idx
                                 /\ NodeAt(t2, j).parent = NodeAt(t, j).parent
                                 /\ NodeAt(t2, j).rest = NodeAt(t, j).rest
<1>1. /\ t2 \in Trie(Values) /\ Len(t2.m_base) >= Len(t.m_base) /\ s \in Used(t)
      /\ \A j \in Nat \ {0} : j # s => NodeAt(t2, j) = NodeAt(t, j)
  BY DEF Valued, Changed
<1>2. /\ Len(t.m_base) \in Nat /\ Len(t2.m_base) \in Nat /\ BaseSize \in Nat
      /\ Len(t.m_base) >= BaseSize /\ s \in Nat \ {0}
  BY <1>1, CharFacts, NodeFacts DEF Trie, Sound
<1>3. \A j \in Nat \ {0} : /\ NodeAt(t2, j).mode = NodeAt(t, j).mode
                           /\ NodeAt(t2, j).idx = NodeAt(t, j).idx
                           /\ NodeAt(t2, j).parent = NodeAt(t, j).parent
                           /\ NodeAt(t2, j).rest = NodeAt(t, j).rest
  BY <1>1 DEF Valued
<1>4. NodeAt(t, s).mode # "Unused"
  BY <1>1, <1>2, NodeFacts
<1>5. ASSUME NEW j \in Nat \ {0} PROVE NodeOK(t2, j)
  <2>1. NodeOK(t, j) /\ NodeAt(t, j).idx \in Nat
    BY SoundNode, NodeParts
  <2>2. NodeAt(t2, j).mode = "Unused" => NodeAt(t2, j) = UnusedNode
    BY <1>1, <1>3, <1>4, <2>1 DEF NodeOK
  <2>3. PICK p : p = NodeAt(t, j).parent
    OBVIOUS
  <2>4. p \in Nat \ {0} => NodeAt(t2, p).mode = NodeAt(t, p).mode /\ NodeAt(t2, p).idx = NodeAt(t, p).idx
    BY <1>3
  <2>5. /\ NodeAt(t2, j).mode = NodeAt(t, j).mode /\ NodeAt(t2, j).idx = NodeAt(t, j).idx
        /\ NodeAt(t2, j).parent = p /\ NodeAt(t2, j).rest = NodeAt(t, j).rest
    BY <1>3, <2>3
  <2>6. QED
    BY <1>2, <1>1, <2>1, <2>2, <2>3, <2>4, <2>5 DEF NodeOK
<1>6. NodeAt(t2, 1).mode = "Arc" /\ NodeAt(t2, 1).parent = 1 /\ NodeAt(t2, 1).idx >= 1
  BY <1>3, NodeFacts
<1>7. Sound(t2)
  BY <1>1, <1>2, <1>5, <1>6, SoundIf
<1>8. \A j \in Nat \ {0} : j \in Used(t2) <=> j \in Used(t)
  BY <1>3, <1>7, NodeFacts
<1>9. Used(t2) \subseteq Nat \ {0} /\ Used(t) \subseteq Nat \ {0}
  BY <1>7, NodeFacts
<1>10. QED
  BY <1>3, <1>7, <1>8, <1>9

\* No walk changes.
LEMMA ValuedPath ==
  ASSUME NEW t, Sound(t), NEW t2, NEW s, NEW v, Valued(t, t2, s, v),
         NEW k \in Seq(Chars), NEW n \in 0..Len(k)
  PROVE  Path(t2, k)[n] = Path(t, k)[n]
<1>1. Len(k) \in Nat /\ \A m \in 1..Len(k) : k[m] \in Chars
  OBVIOUS
<1>2. PICK g : g = Path(t, k)
  OBVIOUS
<1>3. /\ g[0] = 1
      /\ \A m \in 0..Len(k) : g[m] \in Used(t) \union {0}
      /\ \A m \in 1..Len(k) : g[m] = IF g[m-1] = 0 THEN 0 ELSE Child(t, g[m-1], k[m])
  BY <1>2, PathNodes
<1>4. /\ Sound(t2) /\ Used(t2) = Used(t)
      /\ \A j \in Nat \ {0} : /\ NodeAt(t2, j).mode = NodeAt(t, j).mode
                              /\ NodeAt(t2, j).idx = NodeAt(t, j).idx
                              /\ NodeAt(t2, j).parent = NodeAt(t, j).parent
  BY ValuedSound
<1>5. ASSUME NEW j \in Used(t), NEW c \in Chars PROVE Child(t2, j, c) = Child(t, j, c)
  <2>1. c \in Nat \ {0} /\ j \in Nat \ {0} /\ j \in Used(t2)
    BY <1>4, CharFacts, NodeFacts
  <2>2. PICK i : i = NodeAt(t, j).idx + c
    OBVIOUS
  <2>3. i \in Nat \ {0}
    BY <2>1, <2>2, NodeParts
  <2>4. NodeAt(t2, j).mode = NodeAt(t, j).mode /\ NodeAt(t2, j).idx + c = i
    BY <1>4, <2>1, <2>2
  <2>5. Child(t2, j, c) = IF NodeAt(t, j).mode = "Arc" /\ i \in Used(t) /\ NodeAt(t2, i).parent = j
                          THEN i ELSE 0
    BY <1>4, <2>1, <2>4, ChildIs
  <2>6. Child(t, j, c) = IF NodeAt(t, j).mode = "Arc" /\ i \in Used(t) /\ NodeAt(t, i).parent = j
                         THEN i ELSE 0
    BY <2>1, <2>2, ChildIs
  <2>7. QED
    BY <1>4, <2>3, <2>5, <2>6
<1>6. ASSUME NEW m \in 1..Len(k) PROVE g[m] = IF g[m-1] = 0 THEN 0 ELSE Child(t2, g[m-1], k[m])
  <2>1. m - 1 \in 0..Len(k) /\ k[m] \in Chars
    BY <1>1
  <2>2. g[m-1] # 0 => Child(t2, g[m-1], k[m]) = Child(t, g[m-1], k[m])
    BY <1>3, <1>5, <2>1
  <2>3. QED
    BY <1>3, <2>2
<1>7. \A m \in 0..Len(k) : Path(t2, k)[m] = g[m]
  BY <1>1, <1>3, <1>6, PathIs
<1>8. QED
  BY <1>2, <1>7

\* The keys that end at the node have the value, the others keep theirs.
LEMMA ValuedRetrieve ==
  ASSUME NEW t, Sound(t), NEW t2, NEW s, NEW v, Valued(t, t2, s, v), NEW k \in Seq(Chars)
  PROVE  retrieve(t2, k) = IF HitAt(t, k, s) THEN v ELSE retrieve(t, k)
<1>1. /\ Sound(t2) /\ t2.m_empty = t.m_empty
      /\ \A j \in Nat \ {0} : NodeAt(t2, j).rest = NodeAt(t, j).rest
      /\ \A j \in Nat \ {0} : j # s => NodeAt(t2, j) = NodeAt(t, j)
      /\ NodeAt(t2, s).val = v
  BY ValuedSound DEF Valued, Changed
<1>2. Len(k) \in Nat
  OBVIOUS
<1>3. ASSUME NEW n \in 1..Len(k)
      PROVE  Path(t2, k)[n] = Path(t, k)[n] /\ (Path(t, k)[n] # 0 => Path(t, k)[n] \in Nat \ {0})
  <2>1. n \in 0..Len(k)
    BY <1>2
  <2>2. QED
    BY <2>1, ValuedPath, PathNodes, NodeFacts
<1>4. \A n : Hit(t2, k, n) <=> Hit(t, k, n)
  <2>1. ASSUME NEW n, Hit(t, k, n) PROVE Hit(t2, k, n)
    BY <1>1, <1>3, <2>1 DEF Hit
  <2>2. ASSUME NEW n, Hit(t2, k, n) PROVE Hit(t, k, n)
    BY <1>1, <1>3, <2>2 DEF Hit
  <2>3. QED
    BY <2>1, <2>2
<1>5. CASE HitAt(t, k, s)
  <2>1. PICK n : Hit(t, k, n) /\ Path(t, k)[n] = s
    BY <1>5 DEF HitAt
  <2>2. Hit(t2, k, n) /\ Path(t2, k)[n] = s
    BY <1>3, <1>4, <2>1 DEF Hit
  <2>3. retrieve(t2, k) = NodeAt(t2, s).val
    BY <1>1, <2>2, RetrieveHit
  <2>4. QED
    BY <1>1, <1>5, <2>3
<1>6. CASE ~HitAt(t, k, s)
  <2>1. ASSUME NEW n, Hit(t, k, n)
        PROVE  /\ Hit(t2, k, n)
               /\ NodeAt(t2, Path(t2, k)[n]).val = NodeAt(t, Path(t, k)[n]).val
    <3>1. Path(t, k)[n] # s /\ Path(t, k)[n] # 0 /\ n \in 1..Len(k)
      BY <1>6, <2>1 DEF HitAt, Hit
    <3>2. NodeAt(t2, Path(t2, k)[n]) = NodeAt(t, Path(t, k)[n])
      BY <1>1, <1>3, <3>1
    <3>3. QED
      BY <1>4, <2>1, <3>2
  <2>2. retrieve(t2, k) = retrieve(t, k)
    BY <1>1, <1>4, <2>1, RetrieveSame
  <2>3. QED
    BY <1>6, <2>2
<1>7. QED
  BY <1>5, <1>6

\* The value of one key is written.
LEMMA KeyValued ==
  ASSUME NEW t, Sound(t), NEW t2, NEW s, NEW v, Valued(t, t2, s, v),
         NEW key \in Seq(Chars), HitAt(t, key, s)
  PROVE  /\ Sound(t2)
         /\ \A k \in Seq(Chars) : retrieve(t2, k) = IF k = key THEN v ELSE retrieve(t, k)
<1>1. Sound(t2)
  BY ValuedSound
<1>2. ASSUME NEW k \in Seq(Chars) PROVE HitAt(t, k, s) <=> k = key
  BY HitKey DEF HitAt
<1>3. QED
  BY <1>1, <1>2, ValuedRetrieve

\* The value of the empty key is written.
LEMMA EmptyValued ==
  ASSUME NEW t, Sound(t), NEW v \in Values
  PROVE  /\ Sound([t EXCEPT !.m_empty = v])
         /\ \A k \in Seq(Chars) :
              retrieve([t EXCEPT !.m_empty = v], k) = IF k = <<>> THEN v ELSE retrieve(t, k)
<1>1. PICK t2 : t2 = [t EXCEPT !.m_empty = v]
  OBVIOUS
<1>2. t \in Trie(Values)
  BY DEF Sound
<1>3. t2 \in Trie(Values) /\ t2.m_base = t.m_base /\ t2.m_empty = v
  BY <1>1, <1>2 DEF Trie
<1>4. Used(t2) = Used(t)
  BY <1>3 DEF Used
<1>5. \A i \in 1..Len(t.m_base) : NodeSound(t2, i) <=> NodeSound(t, i)
  BY <1>3, <1>4 DEF NodeSound
<1>6. Sound(t2)
  BY <1>3, <1>5 DEF Sound
<1>7. ASSUME NEW k \in Seq(Chars) PROVE retrieve(t2, k) = IF k = <<>> THEN v ELSE retrieve(t, k)
  <2>1. CASE k = <<>>
    BY <1>3, <2>1 DEF retrieve
  <2>2. CASE k # <<>>
    <3>1. internal_retrieve(t2, k) = internal_retrieve(t, k)
      BY <1>3 DEF internal_retrieve, Walk, Path, Child, modeAt
    <3>2. QED
      BY <1>3, <2>2, <3>1 DEF retrieve
  <2>3. QED
    BY <2>1, <2>2
<1>8. QED
  BY <1>1, <1>6, <1>7

-----------------------------------------------------------------------------
(* No value without a key.                                                  *)

\* Every slot with a value is the one some key leads to.
Reached(t) == \A i \in Used(t) : NodeAt(t, i).val # NoValue => \E k \in Seq(Chars) : HitAt(t, k, i)

\* No slot of t2 has a value that no key leads to if none of t has.
Keeps(t, t2) == Reached(t) => Reached(t2)

LEMMA KeepsTrans ==
  ASSUME NEW t, NEW t1, NEW t2, Keeps(t, t1), Keeps(t1, t2)
  PROVE  Keeps(t, t2)
  BY DEF Keeps

\* The new node is reached if its value has a key.
LEMMA AddedReached ==
  ASSUME NEW t, Sound(t), NEW t2, NEW i, NEW p, NEW c, NEW rest, NEW v,
         Added(t, t2, i, p, c, rest, v),
         v # NoValue => \E k \in Seq(Chars) : HitAt(t2, k, i)
  PROVE  Keeps(t, t2)
<1>1. SUFFICES ASSUME Reached(t) PROVE Reached(t2)
  BY DEF Keeps
<1>2. Used(t2) = Used(t) \union {i} /\ Used(t) \subseteq Nat \ {0}
  BY AddedSound, NodeFacts
<1>3. NodeAt(t2, i).val = v
  BY DEF Added, Placed
<1>4. ASSUME NEW j \in Used(t), NodeAt(t2, j).val # NoValue, j # i
      PROVE  \E k \in Seq(Chars) : HitAt(t2, k, j)
  <2>1. NodeAt(t2, j) = NodeAt(t, j)
    BY <1>2, <1>4 DEF Added, Changed
  <2>2. PICK k, n : k \in Seq(Chars) /\ Hit(t, k, n) /\ Path(t, k)[n] = j
    BY <1>1, <1>4, <2>1 DEF Reached, HitAt
  <2>3. n \in 1..Len(k) /\ Path(t, k)[n] # 0 /\ NodeAt(t, j).rest = After(k, n)
    BY <2>2 DEF Hit
  <2>4. Path(t2, k)[n] = j
    BY <2>2, <2>3, AddedPath
  <2>5. n \in 1..Len(k) /\ j # 0 /\ NodeAt(t2, j).rest = After(k, n)
    BY <2>1, <2>2, <2>3, Zenon
  <2>6. HitAt(t2, k, j)
    BY ONLY <2>4, <2>5, HitMade, Zenon
  <2>7. QED
    BY ONLY <2>2, <2>6, Zenon
<1>5. QED
  BY <1>2, <1>3, <1>4 DEF Reached

\* The rebased node is reached if its value has a key.
LEMMA RebasedReached ==
  ASSUME NEW t, Sound(t), NEW t2, NEW s, NEW q, NEW x, Rebased(t, t2, s, q, x),
         x # NoValue => \E k \in Seq(Chars) : Path(t, k)[Len(k)] = s
  PROVE  Keeps(t, t2)
<1>1. SUFFICES ASSUME Reached(t) PROVE Reached(t2)
  BY DEF Keeps
<1>2. /\ Sound(t2) /\ Used(t2) = Used(t) /\ Used(t) \subseteq Nat \ {0}
      /\ s \in Nat \ {0} /\ s # 1 /\ NodeAt(t2, s).rest = <<>> /\ NodeAt(t2, s).val = x
  BY RebasedSound, NodeFacts DEF Rebased
<1>3. ASSUME NEW j \in Used(t), NodeAt(t2, j).val # NoValue, j # s
      PROVE  \E k \in Seq(Chars) : HitAt(t2, k, j)
  <2>1. NodeAt(t2, j) = NodeAt(t, j)
    BY <1>2, <1>3 DEF Rebased, Changed
  <2>2. PICK k, n : k \in Seq(Chars) /\ Hit(t, k, n) /\ Path(t, k)[n] = j
    BY <1>1, <1>3, <2>1 DEF Reached, HitAt
  <2>3. n \in 1..Len(k) /\ n \in 0..Len(k) /\ Path(t, k)[n] # 0 /\ NodeAt(t, j).rest = After(k, n)
    BY <2>2 DEF Hit
  <2>4. Path(t2, k)[n] = j
    BY <2>2, <2>3, RebasedPath
  <2>5. n \in 1..Len(k) /\ j # 0 /\ NodeAt(t2, j).rest = After(k, n)
    BY <2>1, <2>2, <2>3, Zenon
  <2>6. HitAt(t2, k, j)
    BY ONLY <2>4, <2>5, HitMade, Zenon
  <2>7. QED
    BY ONLY <2>2, <2>6, Zenon
<1>4. ASSUME x # NoValue PROVE \E k \in Seq(Chars) : HitAt(t2, k, s)
  <2>1. PICK k \in Seq(Chars) : Path(t, k)[Len(k)] = s
    BY <1>4
  <2>2. Len(k) \in Nat /\ Len(k) \in 0..Len(k)
    OBVIOUS
  <2>3. Path(t2, k)[Len(k)] = s
    BY <2>1, <2>2, RebasedPath
  <2>4. Len(k) # 0
    <3>1. Path(t2, k)[0] = 1
      BY <1>2, PathNodes
    <3>2. QED
      BY <1>2, <2>3, <3>1
  <2>5. Len(k) \in 1..Len(k)
    BY <2>2, <2>4
  <2>6. After(k, Len(k)) = <<>>
    BY <2>2, AfterFacts
  <2>7. Hit(t2, k, Len(k))
    BY <1>2, <2>3, <2>5, <2>6 DEF Hit
  <2>8. QED
    BY <2>3, <2>7 DEF HitAt
<1>5. QED
  BY <1>2, <1>3, <1>4 DEF Reached

\* A key ends at the node that is written.
LEMMA ValuedReached ==
  ASSUME NEW t, Sound(t), NEW t2, NEW s, NEW v, Valued(t, t2, s, v),
         NEW key \in Seq(Chars), HitAt(t, key, s)
  PROVE  Keeps(t, t2)
<1>1. SUFFICES ASSUME Reached(t) PROVE Reached(t2)
  BY DEF Keeps
<1>2. /\ Used(t2) = Used(t) /\ Used(t) \subseteq Nat \ {0}
      /\ \A j \in Nat \ {0} : NodeAt(t2, j).rest = NodeAt(t, j).rest
  BY ValuedSound, NodeFacts
<1>3. ASSUME NEW j \in Used(t), NEW k \in Seq(Chars), HitAt(t, k, j) PROVE HitAt(t2, k, j)
  <2>1. PICK n : Hit(t, k, n) /\ Path(t, k)[n] = j
    BY <1>3 DEF HitAt
  <2>2. n \in 1..Len(k) /\ n \in 0..Len(k) /\ Path(t, k)[n] # 0 /\ NodeAt(t, j).rest = After(k, n)
    BY <2>1 DEF Hit
  <2>3. Path(t2, k)[n] = j
    BY <2>1, <2>2, ValuedPath
  <2>4. Hit(t2, k, n)
    BY <1>2, <2>1, <2>2, <2>3 DEF Hit
  <2>5. QED
    BY <2>3, <2>4 DEF HitAt
<1>4. ASSUME NEW j \in Used(t), NodeAt(t2, j).val # NoValue, j # s
      PROVE  \E k \in Seq(Chars) : HitAt(t, k, j)
  <2>1. NodeAt(t2, j) = NodeAt(t, j)
    BY <1>2, <1>4 DEF Valued, Changed
  <2>2. QED
    BY <1>1, <1>4, <2>1 DEF Reached
<1>5. QED
  BY <1>2, <1>3, <1>4 DEF Reached

\* The array does not hold the empty key's value.
LEMMA EmptyReached ==
  ASSUME NEW t, Sound(t), NEW v
  PROVE  Keeps(t, [t EXCEPT !.m_empty = v])
<1>1. PICK t2 : t2 = [t EXCEPT !.m_empty = v]
  OBVIOUS
<1>2. t2.m_base = t.m_base
  BY <1>1 DEF Sound, Trie
<1>3. /\ Used(t2) = Used(t) /\ \A i : NodeAt(t2, i) = NodeAt(t, i)
      /\ \A k : Path(t2, k) = Path(t, k)
  BY <1>2 DEF Used, NodeAt, Path, Child, modeAt
<1>4. \A k, i : HitAt(t, k, i) => HitAt(t2, k, i)
  BY <1>3 DEF HitAt, Hit
<1>5. Keeps(t, t2)
  BY <1>3, <1>4 DEF Keeps, Reached
<1>6. QED
  BY <1>1, <1>5

-----------------------------------------------------------------------------
(* Children move to another base.                                           *)

LEMMA ChildrenFacts ==
  ASSUME NEW t, Sound(t), NEW p \in Used(t)
  PROVE  /\ Children(t, p) \subseteq Chars
         /\ \A c \in Children(t, p) :
              /\ t.m_base[p].idx + c \in Used(t) \ {1}
              /\ NodeAt(t, t.m_base[p].idx + c).parent = p
         /\ \A i \in Used(t) \ {1} : NodeAt(t, i).parent = p =>
              i - t.m_base[p].idx \in Children(t, p)
         /\ t.m_base[p].idx = NodeAt(t, p).idx /\ t.m_base[p].idx \in Nat
<1>1. PICK b : b = t.m_base[p].idx
  OBVIOUS
<1>2. p \in Nat \ {0} /\ b = NodeAt(t, p).idx /\ b \in Nat
  <2>1. p \in Nat \ {0} /\ NodeAt(t, p) = t.m_base[p]
    BY NodeFacts DEF Used, NodeAt
  <2>2. QED
    BY <1>1, <2>1, NodeParts
<1>3. MaxChar \in Nat /\ Len(t.m_base) \in Nat
  BY CharFacts, NodeFacts
<1>4. ASSUME NEW i \in Nat \ {0}
      PROVE  /\ modeAt(t, i) # "Unused" <=> i \in Used(t)
             /\ i \in Used(t) => t.m_base[i].parent = NodeAt(t, i).parent
  <2>1. modeAt(t, i) = NodeAt(t, i).mode
    BY UnusedType DEF modeAt, NodeAt
  <2>2. i \in Used(t) => NodeAt(t, i) = t.m_base[i]
    BY <1>3 DEF Used, NodeAt
  <2>3. QED
    BY <2>1, <2>2, NodeFacts
<1>5. ASSUME NEW c \in 1..MaxChar
      PROVE  c \in Children(t, p) <=> b + c \in Used(t) /\ NodeAt(t, b + c).parent = p
  <2>1. b + c \in Nat \ {0}
    BY <1>2, <1>3
  <2>2. QED
    BY <1>1, <1>4, <2>1 DEF Children
<1>6. ASSUME NEW c \in Children(t, p)
      PROVE  c \in Chars /\ b + c \in Used(t) \ {1} /\ NodeAt(t, b + c).parent = p
  <2>1. c \in 1..MaxChar /\ c \in Nat /\ c >= 1
    BY <1>3 DEF Children
  <2>2. b + c \in Used(t) /\ NodeAt(t, b + c).parent = p
    BY <1>5, <2>1
  <2>3. b + c # 1
    <3>1. SUFFICES ASSUME b + c = 1 PROVE FALSE
      OBVIOUS
    <3>2. p = 1 /\ b >= 1
      BY <1>2, <2>2, <3>1, NodeFacts
    <3>3. QED
      BY <1>2, <2>1, <3>1, <3>2
  <2>4. (b + c) - b \in Chars
    BY <1>2, <2>2, <2>3, ParentHasChild
  <2>5. (b + c) - b = c
    BY <1>2, <2>1
  <2>6. QED
    BY <2>2, <2>3, <2>4, <2>5
<1>7. ASSUME NEW i \in Used(t) \ {1}, NodeAt(t, i).parent = p
      PROVE  i - b \in Children(t, p)
  <2>1. i - b \in Chars /\ i \in Nat
    BY <1>2, <1>7, ParentHasChild, NodeFacts
  <2>2. i - b \in 1..MaxChar /\ b + (i - b) = i
    BY <1>2, <1>3, <2>1, CharFacts
  <2>3. QED
    BY <1>5, <1>7, <2>2
<1>8. QED
  BY <1>1, <1>2, <1>6, <1>7

\* The base FreeBase returns is at most the array's length, its slots are free.
LEMMA FreeBaseFacts ==
  ASSUME NEW t, Sound(t), NEW cs \in SUBSET Chars
  PROVE  /\ FreeBase(t, cs) \in Nat \ {0} /\ FreeBase(t, cs) <= Len(t.m_base)
         /\ \A c \in cs : /\ FreeBase(t, cs) + c \notin Used(t)
                          /\ FreeBase(t, cs) + c \in Nat \ {0}
                          /\ FreeBase(t, cs) + c <= 2 * Len(t.m_base)
<1>1. PICK S : S = {q \in 1..Len(t.m_base) : \A c \in cs : modeAt(t, q + c) = "Unused"}
  OBVIOUS
<1>2. /\ Len(t.m_base) \in Nat /\ Len(t.m_base) >= 1
      /\ \A c \in cs : c \in Nat /\ c >= 1 /\ c <= Len(t.m_base)
  <2>1. Len(t.m_base) \in Nat /\ Len(t.m_base) >= BaseSize
    BY NodeFacts DEF Sound
  <2>2. QED
    BY <2>1, CharFacts
<1>3. Len(t.m_base) \in S
  <2>1. \A c \in cs : modeAt(t, Len(t.m_base) + c) = "Unused"
    BY <1>2 DEF modeAt
  <2>2. QED
    BY <1>1, <1>2, <2>1
<1>4. S \in SUBSET Nat
  BY <1>1, <1>2
<1>5. PICK q : q = FreeBase(t, cs)
  OBVIOUS
<1>6. q \in S
  BY <1>1, <1>3, <1>4, <1>5, MinOf DEF FreeBase
<1>7. q \in Nat \ {0} /\ q <= Len(t.m_base) /\ \A c \in cs : modeAt(t, q + c) = "Unused"
  BY <1>1, <1>2, <1>6
<1>8. ASSUME NEW c \in cs PROVE q + c \notin Used(t) /\ q + c \in Nat \ {0} /\ q + c <= 2 * Len(t.m_base)
  <2>1. q + c \in Nat \ {0} /\ q + c <= 2 * Len(t.m_base)
    BY <1>2, <1>7
  <2>2. modeAt(t, q + c) = NodeAt(t, q + c).mode
    BY UnusedType DEF modeAt, NodeAt
  <2>3. QED
    BY <1>7, <2>1, <2>2, NodeFacts
<1>9. QED
  BY <1>5, <1>7, <1>8

\* The slot of a node after p's children have moved to base q.
Shifted(t, p, q, i) ==
  Moved(i, {t.m_base[p].idx + c : c \in Children(t, p)}, t.m_base[p].idx, q)

\* q is a base that is free for p's children.
Free(t, p, q) ==
  /\ p \in Used(t) /\ q \in Nat \ {0} /\ q <= Len(t.m_base)
  /\ \A c \in Children(t, p) : q + c \notin Used(t) /\ q + c <= 2 * Len(t.m_base)

LEMMA ShiftedFacts ==
  ASSUME NEW t, Sound(t), NEW p, NEW q, Free(t, p, q)
  PROVE  /\ \A i \in Nat :
              Shifted(t, p, q, i) = IF i \in Used(t) \ {1} /\ NodeAt(t, i).parent = p
                                    THEN (i - NodeAt(t, p).idx) + q ELSE i
         /\ \A i \in Used(t) : Shifted(t, p, q, i) \in Nat \ {0}
         /\ Shifted(t, p, q, 1) = 1 /\ Shifted(t, p, q, p) = p
         /\ \A i \in Used(t) : \A j \in Used(t) :
              Shifted(t, p, q, i) = Shifted(t, p, q, j) => i = j
<1>1. p \in Used(t) /\ p \in Nat \ {0} /\ q \in Nat \ {0} /\ 1 \in Used(t) /\ Used(t) \subseteq Nat \ {0}
  BY NodeFacts DEF Free
<1>2. PICK b : b = t.m_base[p].idx
  OBVIOUS
<1>3. PICK old : old = {b + c : c \in Children(t, p)}
  OBVIOUS
<1>4. b = NodeAt(t, p).idx /\ b \in Nat /\ \A c \in Children(t, p) : c \in Nat
  BY <1>1, <1>2, ChildrenFacts, CharFacts
<1>5. ASSUME NEW i \in Nat PROVE i \in old <=> i \in Used(t) \ {1} /\ NodeAt(t, i).parent = p
  <2>1. ASSUME i \in old PROVE i \in Used(t) \ {1} /\ NodeAt(t, i).parent = p
    BY <1>1, <1>2, <1>3, <2>1, ChildrenFacts
  <2>2. ASSUME i \in Used(t) \ {1}, NodeAt(t, i).parent = p PROVE i \in old
    <3>1. i - b \in Children(t, p)
      BY <1>1, <1>2, <2>2, ChildrenFacts
    <3>2. b + (i - b) = i
      BY <1>4
    <3>3. QED
      BY <1>3, <3>1, <3>2
  <2>3. QED
    BY <2>1, <2>2
<1>6. ASSUME NEW i \in Nat
      PROVE  Shifted(t, p, q, i) = IF i \in Used(t) \ {1} /\ NodeAt(t, i).parent = p
                                   THEN (i - b) + q ELSE i
  BY <1>2, <1>3, <1>5 DEF Shifted, Moved
<1>7. ASSUME NEW i \in Used(t) \ {1}, NodeAt(t, i).parent = p
      PROVE  (i - b) + q \notin Used(t) /\ (i - b) + q \in Nat \ {0} /\ i \in Nat
  <2>1. i - b \in Children(t, p)
    BY <1>1, <1>2, <1>7, ChildrenFacts
  <2>2. q + (i - b) \notin Used(t) /\ i - b \in Nat /\ i \in Nat
    BY <1>1, <1>4, <2>1 DEF Free
  <2>3. q + (i - b) = (i - b) + q
    BY <1>1, <2>2
  <2>4. QED
    BY <1>1, <2>2, <2>3
<1>8. ASSUME NEW i \in Used(t) PROVE Shifted(t, p, q, i) \in Nat \ {0}
  BY <1>1, <1>6, <1>7
<1>9. Shifted(t, p, q, 1) = 1
  BY <1>6
<1>10. Shifted(t, p, q, p) = p
  BY <1>1, <1>6, UsedFacts
<1>11. ASSUME NEW i \in Used(t), NEW j \in Used(t), Shifted(t, p, q, i) = Shifted(t, p, q, j)
       PROVE  i = j
  <2>1. i \in Nat /\ j \in Nat
    BY <1>1
  <2>2. CASE i \in Used(t) \ {1} /\ NodeAt(t, i).parent = p
    <3>1. Shifted(t, p, q, i) = (i - b) + q /\ (i - b) + q \notin Used(t)
      BY <1>6, <1>7, <2>1, <2>2
    <3>2. Shifted(t, p, q, j) # j
      BY <1>11, <3>1
    <3>3. Shifted(t, p, q, j) = (j - b) + q
      BY <1>6, <2>1, <3>2
    <3>4. (i - b) + q = (j - b) + q
      BY <1>11, <3>1, <3>3
    <3>5. QED
      BY <1>1, <1>4, <2>1, <3>4
  <2>3. CASE ~(i \in Used(t) \ {1} /\ NodeAt(t, i).parent = p)
    <3>1. Shifted(t, p, q, j) = i
      BY <1>6, <1>11, <2>1, <2>3
    <3>2. CASE j \in Used(t) \ {1} /\ NodeAt(t, j).parent = p
      BY <1>6, <1>7, <2>1, <3>1, <3>2
    <3>3. CASE ~(j \in Used(t) \ {1} /\ NodeAt(t, j).parent = p)
      BY <1>6, <2>1, <3>1, <3>3
    <3>4. QED
      BY <3>2, <3>3
  <2>4. QED
    BY <2>2, <2>3
<1>12. QED
  BY <1>4, <1>6, <1>8, <1>9, <1>10, <1>11

\* t2 is t with p's children, and their subtrees, at base q.
Shifts(t, t2, p, q) ==
  /\ t2 \in Trie(Values) /\ Len(t2.m_base) >= Len(t.m_base) /\ t2.m_empty = t.m_empty
  /\ \A j \in Used(t) :
       LET node == NodeAt(t2, Shifted(t, p, q, j))
       IN /\ node.mode = NodeAt(t, j).mode /\ node.rest = NodeAt(t, j).rest
          /\ node.val = NodeAt(t, j).val
          /\ node.parent = Shifted(t, p, q, NodeAt(t, j).parent)
          /\ node.idx = IF j = p THEN q ELSE NodeAt(t, j).idx
  /\ \A i \in Nat \ {0} :
       NodeAt(t2, i) = UnusedNode \/ \E j \in Used(t) : i = Shifted(t, p, q, j)

\* Move exchanges the slots of a node's children with unused ones, nothing else.
LEMMA MoveShifts ==
  ASSUME NEW t, Sound(t), NEW p, NEW q, Free(t, p, q)
  PROVE  Shifts(t, Move(t, p, Children(t, p), q), p, q)
<1>1. /\ p \in Used(t) /\ p \in Nat \ {0} /\ q \in Nat \ {0} /\ 1 \in Used(t)
      /\ Used(t) \subseteq Nat \ {0} /\ q <= Len(t.m_base)
      /\ \A c \in Children(t, p) : q + c \notin Used(t) /\ q + c <= 2 * Len(t.m_base)
  BY NodeFacts DEF Free
<1>2. PICK b : b = t.m_base[p].idx
  OBVIOUS
<1>3. PICK cs : cs = Children(t, p)
  OBVIOUS
<1>4. PICK old : old = {b + c : c \in cs}
  OBVIOUS
<1>5. PICK new : new = {q + c : c \in cs}
  OBVIOUS
<1>6. b = NodeAt(t, p).idx /\ b \in Nat /\ \A c \in cs : c \in Nat
  BY <1>1, <1>2, <1>3, ChildrenFacts, CharFacts
<1>7. PICK sh : sh = [i \in Nat |-> Moved(i, old, b, q)]
  OBVIOUS
<1>8. \A i \in Nat : sh[i] = Shifted(t, p, q, i) /\ sh[i] = IF i \in old THEN (i - b) + q ELSE i
  BY <1>2, <1>3, <1>4, <1>7 DEF Shifted, Moved
<1>9. /\ t \in Trie(Values) /\ t.m_base \in Seq(Node(Values)) /\ Len(t.m_base) \in Nat
      /\ t.m_empty \in Values
  BY TrieParts DEF Sound
<1>10. PICK g : g = grow(t, Max(new \union {0}))
  OBVIOUS
<1>11. /\ Changed(t, g, {}) /\ \A i \in new : i <= Len(g.m_base)
       /\ g \in Trie(Values) /\ g.m_base \in Seq(Node(Values)) /\ Len(g.m_base) \in Nat
       /\ Len(g.m_base) >= Len(t.m_base) /\ g.m_empty = t.m_empty
       /\ \A i \in Nat \ {0} : NodeAt(g, i) = NodeAt(t, i)
  <2>1. new \union {0} \in SUBSET (0..2 * Len(t.m_base)) /\ new \union {0} # {}
    BY <1>1, <1>3, <1>5, <1>6, <1>9
  <2>2. PICK m : m = Max(new \union {0})
    OBVIOUS
  <2>3. m \in 0..2 * Len(t.m_base) /\ \A i \in new : i <= m
    <3>1. 2 * Len(t.m_base) \in Nat
      BY <1>9
    <3>2. m \in new \union {0} /\ \A i \in new \union {0} : i <= m
      BY <2>1, <2>2, <3>1, MaxOf
    <3>3. QED
      BY <2>1, <3>2
  <2>4. Changed(t, g, {}) /\ m <= Len(g.m_base)
    <3>1. m \in Nat /\ m <= 2 * Len(t.m_base)
      BY <1>9, <2>3
    <3>2. QED
      BY <1>9, <1>10, <2>2, <3>1, GrowFacts
  <2>5. g \in Trie(Values) /\ g.m_base \in Seq(Node(Values)) /\ Len(g.m_base) \in Nat
    BY <2>4, TrieParts DEF Changed
  <2>6. \A i \in new : i <= Len(g.m_base)
    <3>1. \A i \in new : i \in Nat
      BY <2>1, <1>9
    <3>2. QED
      BY <2>3, <2>4, <2>5, <3>1, <1>9
  <2>7. QED
    BY <2>4, <2>5, <2>6 DEF Changed
<1>12. PICK base : base = g.m_base
  OBVIOUS
<1>13. PICK t2 : t2 = Move(t, p, cs, q)
  OBVIOUS
<1> DEFINE MovedNode(i) ==
      IF i \in new THEN base[(i - q) + b]
      ELSE IF i \in old THEN UnusedNode
      ELSE IF i = p THEN [Followed(base[i], old, b, q) EXCEPT !.idx = q]
      ELSE Followed(base[i], old, b, q)
<1>14. PICK f : f = [i \in DOMAIN base |-> MovedNode(i)]
  OBVIOUS
<1>15. t2 = [m_base |-> f, m_empty |-> t.m_empty]
  <2>1. t2 = [t EXCEPT !.m_base = f]
    BY <1>2, <1>4, <1>5, <1>10, <1>12, <1>13, <1>14, Zenon DEF Move
  <2>2. t = [m_base |-> t.m_base, m_empty |-> t.m_empty]
    BY <1>9, TrieParts
  <2>3. QED
    BY <2>1, <2>2
<1>16. /\ DOMAIN base = 1..Len(base) /\ Len(base) \in Nat
       /\ \A i \in 1..Len(base) : base[i] = NodeAt(t, i) /\ base[i] \in Node(Values)
  <2>1. ASSUME NEW i \in 1..Len(base) PROVE base[i] = NodeAt(t, i) /\ base[i] \in Node(Values)
    <3>1. i \in Nat \ {0}
      BY <1>11, <1>12
    <3>2. NodeAt(g, i) = base[i]
      BY <1>11, <1>12 DEF NodeAt
    <3>3. QED
      BY <1>11, <3>1, <3>2, NodeParts
  <2>2. QED
    BY <1>11, <1>12, <2>1
<1>17. ASSUME NEW i \in Nat PROVE i \in old <=> i \in Used(t) \ {1} /\ NodeAt(t, i).parent = p
  <2>1. ASSUME i \in old PROVE i \in Used(t) \ {1} /\ NodeAt(t, i).parent = p
    BY <1>1, <1>2, <1>3, <1>4, <2>1, ChildrenFacts
  <2>2. ASSUME i \in Used(t) \ {1}, NodeAt(t, i).parent = p PROVE i \in old
    <3>1. i - b \in cs
      BY <1>1, <1>2, <1>3, <2>2, ChildrenFacts
    <3>2. b + (i - b) = i
      BY <1>6
    <3>3. QED
      BY <1>4, <3>1, <3>2
  <2>3. QED
    BY <2>1, <2>2
<1>18. ASSUME NEW i \in new
       PROVE  /\ i \in 1..Len(base) /\ i \notin Used(t) /\ (i - q) + b \in old
              /\ (i - q) + b \in Used(t) /\ sh[(i - q) + b] = i
              /\ base[(i - q) + b] = NodeAt(t, (i - q) + b)
  <2>1. PICK c \in cs : i = q + c
    BY <1>5
  <2>2. i \in Nat \ {0} /\ i <= Len(base) /\ i \notin Used(t) /\ c = i - q /\ c \in Nat
    BY <1>1, <1>3, <1>6, <1>11, <1>12, <2>1
  <2>3. (i - q) + b \in old /\ (i - q) + b \in Nat
    BY <1>4, <1>6, <2>1, <2>2
  <2>4. ((i - q) + b) - b + q = i
    BY <1>1, <1>6, <2>2
  <2>5. (i - q) + b \in Used(t)
    BY <1>17, <2>3
  <2>6. sh[(i - q) + b] = i
    BY <1>8, <2>3, <2>4
  <2>7. (i - q) + b \in 1..Len(base)
    BY <1>11, <1>12, <2>5 DEF Used
  <2>8. QED
    BY <1>16, <2>2, <2>3, <2>5, <2>6, <2>7
<1>19. ASSUME NEW i \in 1..Len(base)
       PROVE  /\ Followed(base[i], old, b, q) \in Node(Values)
              /\ Followed(base[i], old, b, q).mode = NodeAt(t, i).mode
              /\ Followed(base[i], old, b, q).idx = NodeAt(t, i).idx
              /\ Followed(base[i], old, b, q).parent = sh[NodeAt(t, i).parent]
              /\ Followed(base[i], old, b, q).rest = NodeAt(t, i).rest
              /\ Followed(base[i], old, b, q).val = NodeAt(t, i).val
  <2>1. PICK node : node = base[i]
    OBVIOUS
  <2>2. node \in Node(Values) /\ node = NodeAt(t, i)
    BY <1>16, <2>1
  <2>3. node \in [mode : Mode, idx : Nat, parent : Nat, rest : Seq(Chars), val : Values]
    BY <2>2 DEF Node
  <2>4. PICK u : u = Moved(node.parent, old, b, q)
    OBVIOUS
  <2>5. Followed(node, old, b, q) = [node EXCEPT !.parent = u]
    BY <2>4, Zenon DEF Followed
  <2>6. u = sh[node.parent] /\ u \in Nat
    <3>1. node.parent \in Nat
      BY <2>3
    <3>2. u = sh[node.parent]
      BY <1>7, <2>4, <3>1
    <3>3. node.parent \in old => (node.parent - b) + q \in Nat
      <4>1. SUFFICES ASSUME node.parent \in old PROVE (node.parent - b) + q \in Nat
        OBVIOUS
      <4>2. PICK c \in cs : node.parent = b + c
        BY <1>4, <4>1
      <4>3. QED
        BY <1>1, <1>6, <4>2, SMTT(30)
    <3>4. QED
      BY <1>8, <3>1, <3>2, <3>3
  <2>7. /\ Followed(node, old, b, q) \in [mode : Mode, idx : Nat, parent : Nat, rest : Seq(Chars), val : Values]
        /\ Followed(node, old, b, q).mode = node.mode
        /\ Followed(node, old, b, q).idx = node.idx
        /\ Followed(node, old, b, q).parent = u
        /\ Followed(node, old, b, q).rest = node.rest
        /\ Followed(node, old, b, q).val = node.val
    BY <2>3, <2>5, <2>6
  <2>8. QED
    BY <2>1, <2>2, <2>6, <2>7 DEF Node
<1>20. ASSUME NEW i \in 1..Len(base), i = p
       PROVE  LET node == [Followed(base[i], old, b, q) EXCEPT !.idx = q]
              IN /\ node \in Node(Values) /\ node.mode = NodeAt(t, i).mode
                 /\ node.idx = q
                 /\ node.parent = sh[NodeAt(t, i).parent]
                 /\ node.rest = NodeAt(t, i).rest
                 /\ node.val = NodeAt(t, i).val
  <2>1. PICK u : u = Followed(base[i], old, b, q)
    OBVIOUS
  <2>2. u \in [mode : Mode, idx : Nat, parent : Nat, rest : Seq(Chars), val : Values]
    BY <1>19, <2>1 DEF Node
  <2>3. PICK node : node = [u EXCEPT !.idx = q]
    OBVIOUS
  <2>4. /\ node \in [mode : Mode, idx : Nat, parent : Nat, rest : Seq(Chars), val : Values]
        /\ node.mode = u.mode /\ node.idx = q /\ node.parent = u.parent
        /\ node.rest = u.rest /\ node.val = u.val
    BY <1>1, <2>2, <2>3
  <2>5. /\ node \in Node(Values) /\ node.mode = NodeAt(t, i).mode
        /\ node.idx = q
        /\ node.parent = sh[NodeAt(t, i).parent]
        /\ node.rest = NodeAt(t, i).rest
        /\ node.val = NodeAt(t, i).val
    BY <1>19, <2>1, <2>4 DEF Node
  <2>6. QED
    BY <2>1, <2>3, <2>5, Zenon
<1>21. \A i \in 1..Len(base) : MovedNode(i) \in Node(Values)
  <2>1. SUFFICES ASSUME NEW i \in 1..Len(base) PROVE MovedNode(i) \in Node(Values)
    OBVIOUS
  <2>2. CASE i \in new
    <3>1. (i - q) + b \in 1..Len(base)
      BY <1>11, <1>12, <1>18, <2>2 DEF Used
    <3>2. QED
      BY <1>16, <2>2, <3>1
  <2>3. CASE i \notin new
    BY <1>19, <1>20, <2>3, UnusedType
  <2>4. QED
    BY <2>2, <2>3
<1>22. f \in Seq(Node(Values)) /\ Len(f) = Len(base)
  <2> HIDE DEF MovedNode
  <2>1. f \in [1..Len(base) -> Node(Values)]
    BY <1>14, <1>16, <1>21
  <2>2. QED
    BY <1>16, <2>1
<1>23. t2 \in Trie(Values) /\ t2.m_base = f /\ t2.m_empty = t.m_empty
  BY <1>9, <1>15, <1>22, TrieIs
<1>24. ASSUME NEW i \in 1..Len(base) PROVE NodeAt(t2, i) = MovedNode(i)
  <2> HIDE DEF MovedNode
  <2>1. QED
    BY <1>14, <1>16, <1>22, <1>23 DEF NodeAt
<1>25. ASSUME NEW i \in Nat \ {0}, i > Len(base)
       PROVE  NodeAt(t2, i) = UnusedNode
  BY <1>16, <1>22, <1>23, <1>25 DEF NodeAt
<1>26. ASSUME NEW j \in Used(t)
       PROVE  /\ NodeAt(t2, sh[j]).mode = NodeAt(t, j).mode
              /\ NodeAt(t2, sh[j]).rest = NodeAt(t, j).rest
              /\ NodeAt(t2, sh[j]).val = NodeAt(t, j).val
              /\ NodeAt(t2, sh[j]).parent = sh[NodeAt(t, j).parent]
              /\ NodeAt(t2, sh[j]).idx = IF j = p THEN q ELSE NodeAt(t, j).idx
  <2>1. j \in Nat /\ j \in 1..Len(base)
    BY <1>1, <1>11, <1>12 DEF Used
  <2>2. CASE j \in old
    <3>1. PICK c \in cs : j = b + c
      BY <1>4, <2>2
    <3>2. sh[j] = q + c /\ c \in Nat
      BY <1>1, <1>6, <1>8, <2>1, <2>2, <3>1, SMTT(30)
    <3>3. sh[j] \in new
      BY <1>5, <3>2
    <3>4. (sh[j] - q) + b = j
      BY <1>1, <1>6, <3>1, <3>2
    <3>5. NodeAt(t2, sh[j]) = NodeAt(t, j)
      BY <1>18, <1>24, <3>3, <3>4
    <3>6. NodeAt(t, j).parent = p /\ j # 1
      BY <1>17, <2>1, <2>2
    <3>7. p \notin old /\ j # p
      <4>1. p \notin old
        BY <1>1, <1>17, UsedFacts
      <4>2. QED
        BY <2>2, <4>1
    <3>8. sh[p] = p
      BY <1>1, <1>8, <3>7
    <3>9. QED
      BY <3>5, <3>6, <3>7, <3>8
  <2>3. CASE j \notin old
    <3>1. sh[j] = j /\ j \notin new
      BY <1>8, <1>18, <2>1, <2>3
    <3>2. NodeAt(t2, j) = MovedNode(j)
      BY <1>24, <2>1
    <3>3. QED
      BY <1>19, <1>20, <2>1, <2>3, <3>1, <3>2
  <2>4. QED
    BY <2>2, <2>3
<1>27. ASSUME NEW i \in Nat \ {0}, \A j \in Used(t) : i # sh[j]
       PROVE  NodeAt(t2, i) = UnusedNode
  <2>1. CASE i > Len(base)
    BY <1>25, <2>1
  <2>2. CASE i <= Len(base)
    <3>1. i \in 1..Len(base) /\ i \notin new
      BY <1>16, <1>18, <1>27, <2>2
    <3>2. CASE i \in old
      BY <1>24, <3>1, <3>2
    <3>3. CASE i \notin old
      <4>1. i \notin Used(t)
        BY <1>8, <1>27, <3>3
      <4>2. NodeAt(t, i) = UnusedNode /\ i # p
        BY <1>1, <4>1, NodeFacts
      <4>3. NodeAt(t2, i) = Followed(base[i], old, b, q)
        BY <1>24, <3>1, <3>3, <4>2
      <4>4. base[i] = UnusedNode
        BY <1>16, <3>1, <4>2
      <4>5. Moved(UnusedNode.parent, old, b, q) = UnusedNode.parent
        <5>1. UnusedNode.parent = 0 /\ 0 \notin old
          BY <1>1, <1>17 DEF UnusedNode
        <5>2. QED
          BY <5>1 DEF Moved
      <4>6. Followed(UnusedNode, old, b, q) = UnusedNode
        <5>1. PICK u : u = UnusedNode
          OBVIOUS
        <5>2. u \in [mode : Mode, idx : Nat, parent : Nat, rest : Seq(Chars), val : Values]
          BY <5>1, UnusedType DEF Node
        <5>3. [u EXCEPT !.parent = u.parent] = u
          BY <5>2
        <5>4. Followed(u, old, b, q) = [u EXCEPT !.parent = u.parent]
          BY <4>5, <5>1, Zenon DEF Followed
        <5>5. QED
          BY <5>1, <5>3, <5>4
      <4>7. QED
        BY <4>3, <4>4, <4>6
    <3>4. QED
      BY <3>2, <3>3
  <2>3. QED
    BY <1>16, <2>1, <2>2
<1>28. Len(t2.m_base) >= Len(t.m_base)
  BY <1>11, <1>12, <1>22, <1>23
<1>29. ASSUME NEW j \in Used(t)
       PROVE  /\ NodeAt(t2, Shifted(t, p, q, j)).mode = NodeAt(t, j).mode
              /\ NodeAt(t2, Shifted(t, p, q, j)).rest = NodeAt(t, j).rest
              /\ NodeAt(t2, Shifted(t, p, q, j)).val = NodeAt(t, j).val
              /\ NodeAt(t2, Shifted(t, p, q, j)).parent = Shifted(t, p, q, NodeAt(t, j).parent)
              /\ NodeAt(t2, Shifted(t, p, q, j)).idx = IF j = p THEN q ELSE NodeAt(t, j).idx
  <2>1. j \in Nat /\ j \in Nat \ {0}
    BY <1>1
  <2>2. NodeAt(t, j).parent \in Nat
    BY <2>1, NodeParts
  <2>3. sh[j] = Shifted(t, p, q, j) /\ sh[NodeAt(t, j).parent] = Shifted(t, p, q, NodeAt(t, j).parent)
    BY <1>8, <2>1, <2>2
  <2>4. QED
    BY <1>26, <2>3
<1>30. ASSUME NEW i \in Nat \ {0}
       PROVE  NodeAt(t2, i) = UnusedNode \/ \E j \in Used(t) : i = Shifted(t, p, q, j)
  <2>1. \A j \in Used(t) : sh[j] = Shifted(t, p, q, j)
    BY <1>1, <1>8
  <2>2. QED
    BY <1>27, <2>1
<1>31. Shifts(t, t2, p, q)
  BY <1>23, <1>28, <1>29, <1>30 DEF Shifts
<1>32. QED
  BY <1>3, <1>13, <1>31

\* A node keeps its place behind the base of its parent.
LEMMA ShiftsBehind ==
  ASSUME NEW t, Sound(t), NEW t2, NEW p, NEW q, Free(t, p, q), Shifts(t, t2, p, q),
         NEW j \in Used(t), j # 1, NEW u, u = NodeAt(t, j).parent, NEW c \in Nat
  PROVE  /\ u \in Used(t)
         /\ NodeAt(t2, Shifted(t, p, q, u)).idx \in Nat
         /\ j = NodeAt(t, u).idx + c
              <=> Shifted(t, p, q, j) = NodeAt(t2, Shifted(t, p, q, u)).idx + c
<1>1. u \in Used(t) /\ u \in Nat \ {0} /\ j \in Nat /\ NodeAt(t, u).idx \in Nat /\ q \in Nat
      /\ p \in Nat \ {0} /\ NodeAt(t, p).idx \in Nat
  <2>1. u \in Used(t) /\ u \in Nat \ {0} /\ j \in Nat /\ q \in Nat /\ p \in Nat \ {0}
    BY UsedFacts, NodeFacts DEF Free
  <2>2. QED
    BY <2>1, NodeParts
<1>2. NodeAt(t2, Shifted(t, p, q, u)).idx = IF u = p THEN q ELSE NodeAt(t, u).idx
  BY <1>1 DEF Shifts
<1>3. Shifted(t, p, q, j) = IF u = p THEN (j - NodeAt(t, p).idx) + q ELSE j
  BY <1>1, ShiftedFacts
<1>4. QED
  BY <1>1, <1>2, <1>3

\* A move leaves a trie sound.
LEMMA ShiftsSound ==
  ASSUME NEW t, Sound(t), NEW t2, NEW p, NEW q, Free(t, p, q), Shifts(t, t2, p, q)
  PROVE  /\ Sound(t2)
         /\ \A i \in Nat : i \in Used(t2) <=> \E j \in Used(t) : i = Shifted(t, p, q, j)
<1>1. /\ t2 \in Trie(Values) /\ Len(t2.m_base) >= Len(t.m_base)
      /\ Used(t) \subseteq Nat \ {0} /\ 1 \in Used(t) /\ p \in Used(t)
      /\ q \in Nat \ {0} /\ q <= Len(t.m_base)
  BY NodeFacts DEF Shifts, Free
<1>2. /\ Len(t.m_base) \in Nat /\ Len(t2.m_base) \in Nat /\ BaseSize \in Nat
      /\ Len(t.m_base) >= BaseSize
  BY <1>1, CharFacts, NodeFacts DEF Trie, Sound
<1>3. ASSUME NEW i \in Nat \ {0}, NEW j \in Used(t), i = Shifted(t, p, q, j) PROVE NodeOK(t2, i)
  <2>1. /\ NodeAt(t2, i).mode = NodeAt(t, j).mode /\ NodeAt(t2, i).rest = NodeAt(t, j).rest
        /\ NodeAt(t2, i).idx = IF j = p THEN q ELSE NodeAt(t, j).idx
        /\ NodeAt(t2, i).parent = Shifted(t, p, q, NodeAt(t, j).parent)
    BY <1>3 DEF Shifts
  <2>2. j \in Nat \ {0} /\ NodeAt(t, j).idx \in Nat /\ NodeAt(t, j).idx <= Len(t.m_base)
        /\ (NodeAt(t, j).mode = "Arc" <=> NodeAt(t, j).rest = <<>>)
        /\ NodeAt(t, j).mode # "Unused"
    BY <1>1, NodeFacts, NodeParts
  <2>3. NodeAt(t2, i).idx <= Len(t2.m_base)
    BY <1>1, <1>2, <2>1, <2>2
  <2>4. ASSUME i # 1
        PROVE  /\ NodeAt(t2, i).parent \in Nat \ {0} /\ NodeAt(t2, i).parent # i
               /\ NodeAt(t2, NodeAt(t2, i).parent).mode = "Arc"
               /\ \E c \in Chars : i = NodeAt(t2, NodeAt(t2, i).parent).idx + c
    <3>1. j # 1
      BY <1>3, <2>4, ShiftedFacts
    <3>2. PICK u : u = NodeAt(t, j).parent
      OBVIOUS
    <3>3. u \in Used(t) /\ u # j /\ NodeAt(t, u).mode = "Arc"
          /\ \E c \in Chars : j = NodeAt(t, u).idx + c
      BY <3>1, <3>2, UsedFacts
    <3>4. PICK c \in Chars : j = NodeAt(t, u).idx + c
      BY <3>3
    <3>5. i = NodeAt(t2, Shifted(t, p, q, u)).idx + c
      <4>1. c \in Nat
        BY CharFacts
      <4>2. Shifted(t, p, q, j) = NodeAt(t2, Shifted(t, p, q, u)).idx + c
        <5>1. j = NodeAt(t, u).idx + c
                <=> Shifted(t, p, q, j) = NodeAt(t2, Shifted(t, p, q, u)).idx + c
          BY <3>1, <3>2, <4>1, ShiftsBehind
        <5>2. QED
          BY <3>4, <5>1
      <4>3. QED
        BY <1>3, <4>2
    <3>6. Shifted(t, p, q, u) \in Nat \ {0} /\ Shifted(t, p, q, u) # i
      BY <1>3, <3>3, ShiftedFacts
    <3>7. NodeAt(t2, Shifted(t, p, q, u)).mode = "Arc"
      BY <3>3 DEF Shifts
    <3>8. QED
      BY <2>1, <3>2, <3>5, <3>6, <3>7
  <2>5. QED
    BY <2>1, <2>2, <2>3, <2>4 DEF NodeOK
<1>4. ASSUME NEW i \in Nat \ {0}, NodeAt(t2, i) = UnusedNode PROVE NodeOK(t2, i)
  <2>1. NodeAt(t2, i).mode = "Unused" /\ NodeAt(t2, i).idx = 0
    BY <1>4 DEF UnusedNode
  <2>2. QED
    BY <1>2, <1>4, <2>1 DEF NodeOK
<1>5. \A i \in Nat \ {0} : NodeOK(t2, i)
  BY <1>3, <1>4 DEF Shifts
<1>6. NodeAt(t2, 1).mode = "Arc" /\ NodeAt(t2, 1).parent = 1 /\ NodeAt(t2, 1).idx >= 1
  <2>1. Shifted(t, p, q, 1) = 1
    BY ShiftedFacts
  <2>2. /\ NodeAt(t2, 1).mode = NodeAt(t, 1).mode
        /\ NodeAt(t2, 1).parent = Shifted(t, p, q, NodeAt(t, 1).parent)
        /\ NodeAt(t2, 1).idx = IF 1 = p THEN q ELSE NodeAt(t, 1).idx
    BY <1>1, <2>1 DEF Shifts
  <2>3. NodeAt(t, 1).mode = "Arc" /\ NodeAt(t, 1).parent = 1 /\ NodeAt(t, 1).idx >= 1
    BY NodeFacts
  <2>4. QED
    BY <1>1, <2>1, <2>2, <2>3
<1>7. Sound(t2)
  BY <1>1, <1>2, <1>5, <1>6, SoundIf
<1>8. ASSUME NEW i \in Nat PROVE i \in Used(t2) <=> \E j \in Used(t) : i = Shifted(t, p, q, j)
  <2>1. ASSUME NEW j \in Used(t), i = Shifted(t, p, q, j) PROVE i \in Used(t2)
    <3>1. i \in Nat \ {0} /\ NodeAt(t2, i).mode = NodeAt(t, j).mode
      BY <2>1, ShiftedFacts DEF Shifts
    <3>2. NodeAt(t, j).mode # "Unused"
      BY <1>1, NodeFacts
    <3>3. QED
      BY <1>7, <3>1, <3>2, NodeFacts
  <2>2. ASSUME i \in Used(t2) PROVE \E j \in Used(t) : i = Shifted(t, p, q, j)
    <3>1. i \in Nat \ {0} /\ NodeAt(t2, i).mode # "Unused"
      BY <1>7, <2>2, NodeFacts
    <3>2. NodeAt(t2, i) # UnusedNode
      BY <3>1, UnusedType
    <3>3. QED
      BY <3>1, <3>2 DEF Shifts
  <2>3. QED
    BY <2>1, <2>2
<1>9. QED
  BY <1>7, <1>8

\* A node's child is the moved child of the moved node.
LEMMA ShiftsChild ==
  ASSUME NEW t, Sound(t), NEW t2, NEW p, NEW q, Free(t, p, q), Shifts(t, t2, p, q),
         NEW j \in Used(t), NEW c \in Chars
  PROVE  Child(t2, Shifted(t, p, q, j), c)
           = IF Child(t, j, c) = 0 THEN 0 ELSE Shifted(t, p, q, Child(t, j, c))
<1>1. Sound(t2) /\ \A i \in Nat : i \in Used(t2) <=> \E m \in Used(t) : i = Shifted(t, p, q, m)
  BY ShiftsSound
<1>2. PICK j2 : j2 = Shifted(t, p, q, j)
  OBVIOUS
<1>3. j2 \in Used(t2) /\ j2 \in Nat \ {0} /\ c \in Nat \ {0} /\ Used(t) \subseteq Nat \ {0}
  BY <1>1, <1>2, ShiftedFacts, CharFacts, NodeFacts
<1>4. /\ NodeAt(t2, j2).mode = NodeAt(t, j).mode
      /\ NodeAt(t2, j2).idx \in Nat
  BY <1>1, <1>2, <1>3, NodeParts DEF Shifts
<1>5. CASE Child(t, j, c) # 0
  <2>1. PICK m : m = Child(t, j, c)
    OBVIOUS
  <2>2. m \in Used(t) /\ m # 1 /\ NodeAt(t, m).parent = j /\ m = NodeAt(t, j).idx + c
        /\ NodeAt(t, j).mode = "Arc"
    BY <1>5, <2>1, ChildFacts
  <2>3. Shifted(t, p, q, m) = NodeAt(t2, j2).idx + c
    BY <1>2, <1>3, <2>2, ShiftsBehind
  <2>4. Shifted(t, p, q, m) \in Nat \ {0} /\ Shifted(t, p, q, m) \in Used(t2)
    BY <1>1, <2>2, ShiftedFacts
  <2>5. NodeAt(t2, Shifted(t, p, q, m)).parent = j2
    BY <1>2, <2>2 DEF Shifts
  <2>6. Child(t2, j2, c) = Shifted(t, p, q, m)
    BY <1>1, <1>3, <1>4, <2>2, <2>3, <2>4, <2>5, ChildIs
  <2>7. QED
    BY <1>2, <1>5, <2>1, <2>6
<1>6. CASE Child(t, j, c) = 0
  <2>1. SUFFICES ASSUME Child(t2, j2, c) # 0 PROVE FALSE
    BY <1>2, <1>6
  <2>2. PICK i : i = Child(t2, j2, c)
    OBVIOUS
  <2>3. i \in Used(t2) /\ i # 1 /\ NodeAt(t2, i).parent = j2 /\ i = NodeAt(t2, j2).idx + c
        /\ NodeAt(t2, j2).mode = "Arc"
    BY <1>1, <1>3, <2>1, <2>2, ChildFacts
  <2>4. PICK m \in Used(t) : i = Shifted(t, p, q, m)
    BY <1>1, <1>4, <1>3, <2>3
  <2>5. m # 1
    BY <2>3, <2>4, ShiftedFacts
  <2>6. NodeAt(t, m).parent \in Used(t)
    BY <2>5, UsedFacts
  <2>7. Shifted(t, p, q, NodeAt(t, m).parent) = j2
    BY <2>3, <2>4 DEF Shifts
  <2>8. NodeAt(t, m).parent = j
    BY <1>2, <2>6, <2>7, ShiftedFacts
  <2>9. m = NodeAt(t, j).idx + c
    BY <1>2, <1>3, <2>3, <2>4, <2>5, <2>8, ShiftsBehind
  <2>10. Child(t, j, c) = m
    <3>1. /\ Sound(t) /\ j \in Used(t) /\ c \in Nat \ {0} /\ m \in Used(t)
          /\ m = NodeAt(t, j).idx + c /\ NodeAt(t, j).mode = "Arc" /\ NodeAt(t, m).parent = j
      BY <1>3, <1>4, <2>3, <2>8, <2>9
    <3>2. QED
      BY ONLY <3>1, ChildMade, Zenon
  <2>11. m # 0
    BY <1>3
  <2>12. QED
    BY <1>6, <2>10, <2>11
<1>7. QED
  BY <1>5, <1>6

\* Every walk takes the moved slots.
LEMMA ShiftsPath ==
  ASSUME NEW t, Sound(t), NEW t2, NEW p, NEW q, Free(t, p, q), Shifts(t, t2, p, q),
         NEW k \in Seq(Chars), NEW n \in 0..Len(k)
  PROVE  Path(t2, k)[n] = IF Path(t, k)[n] = 0 THEN 0 ELSE Shifted(t, p, q, Path(t, k)[n])
<1>1. Len(k) \in Nat /\ \A m \in 1..Len(k) : k[m] \in Chars
  OBVIOUS
<1>2. PICK g : g = Path(t, k)
  OBVIOUS
<1>3. /\ g[0] = 1
      /\ \A m \in 0..Len(k) : g[m] \in Used(t) \union {0}
      /\ \A m \in 1..Len(k) : g[m] = IF g[m-1] = 0 THEN 0 ELSE Child(t, g[m-1], k[m])
  BY <1>2, PathNodes
<1>4. PICK f : f = [m \in 0..Len(k) |-> IF g[m] = 0 THEN 0 ELSE Shifted(t, p, q, g[m])]
  OBVIOUS
<1>5. f[0] = 1
  BY <1>1, <1>3, <1>4, ShiftedFacts
<1>6. ASSUME NEW m \in 1..Len(k) PROVE f[m] = IF f[m-1] = 0 THEN 0 ELSE Child(t2, f[m-1], k[m])
  <2>1. m - 1 \in 0..Len(k) /\ m \in 0..Len(k) /\ k[m] \in Chars
    BY <1>1
  <2>2. /\ f[m] = IF g[m] = 0 THEN 0 ELSE Shifted(t, p, q, g[m])
        /\ f[m-1] = IF g[m-1] = 0 THEN 0 ELSE Shifted(t, p, q, g[m-1])
    BY <1>4, <2>1
  <2>3. CASE g[m-1] = 0
    BY <1>3, <2>2, <2>3
  <2>4. CASE g[m-1] # 0
    <3>1. g[m-1] \in Used(t) /\ g[m] = Child(t, g[m-1], k[m])
      BY <1>3, <2>1, <2>4
    <3>2. f[m-1] = Shifted(t, p, q, g[m-1]) /\ f[m-1] # 0
      BY <2>2, <2>4, <3>1, ShiftedFacts
    <3>3. Child(t2, f[m-1], k[m]) = IF g[m] = 0 THEN 0 ELSE Shifted(t, p, q, g[m])
      BY <2>1, <3>1, <3>2, ShiftsChild
    <3>4. QED
      BY <2>2, <3>2, <3>3
  <2>5. QED
    BY <2>3, <2>4
<1>7. \A m \in 0..Len(k) : Path(t2, k)[m] = f[m]
  BY <1>1, <1>5, <1>6, PathIs
<1>8. QED
  BY <1>2, <1>4, <1>7

\* No key is looked up differently after a move.
LEMMA ShiftsRetrieve ==
  ASSUME NEW t, Sound(t), NEW t2, NEW p, NEW q, Free(t, p, q), Shifts(t, t2, p, q),
         NEW k \in Seq(Chars)
  PROVE  retrieve(t2, k) = retrieve(t, k)
<1>1. Sound(t2) /\ t2.m_empty = t.m_empty
  BY ShiftsSound DEF Shifts
<1>2. ASSUME NEW n \in 1..Len(k)
      PROVE  /\ Path(t, k)[n] = 0 <=> Path(t2, k)[n] = 0
             /\ Path(t, k)[n] # 0 =>
                  /\ NodeAt(t2, Path(t2, k)[n]).rest = NodeAt(t, Path(t, k)[n]).rest
                  /\ NodeAt(t2, Path(t2, k)[n]).val = NodeAt(t, Path(t, k)[n]).val
  <2>1. n \in 0..Len(k)
    OBVIOUS
  <2>2. Path(t2, k)[n] = IF Path(t, k)[n] = 0 THEN 0 ELSE Shifted(t, p, q, Path(t, k)[n])
    BY <2>1, ShiftsPath
  <2>3. Path(t, k)[n] \in Used(t) \union {0}
    BY <2>1, PathNodes
  <2>4. Path(t, k)[n] # 0 => Shifted(t, p, q, Path(t, k)[n]) # 0
    BY <2>3, ShiftedFacts
  <2>5. QED
    BY <2>2, <2>3, <2>4 DEF Shifts
<1>3. ASSUME NEW n, Hit(t, k, n)
      PROVE  /\ Hit(t2, k, n)
             /\ NodeAt(t2, Path(t2, k)[n]).val = NodeAt(t, Path(t, k)[n]).val
  BY <1>2, <1>3 DEF Hit
<1>4. ASSUME NEW n, Hit(t2, k, n) PROVE Hit(t, k, n)
  BY <1>2, <1>4 DEF Hit
<1>5. QED
  BY <1>1, <1>3, <1>4, RetrieveSame

\* Every value keeps its key.
LEMMA ShiftsReached ==
  ASSUME NEW t, Sound(t), NEW t2, NEW p, NEW q, Free(t, p, q), Shifts(t, t2, p, q)
  PROVE  Keeps(t, t2)
<1>1. SUFFICES ASSUME Reached(t), NEW i \in Used(t2), NodeAt(t2, i).val # NoValue
               PROVE  \E k \in Seq(Chars) : HitAt(t2, k, i)
  BY DEF Keeps, Reached
<1>2. Sound(t2)
  BY ShiftsSound
<1>3. PICK j \in Used(t) : i = Shifted(t, p, q, j)
  <2>1. i \in Nat
    BY <1>2, NodeFacts
  <2>2. QED
    BY <2>1, ShiftsSound
<1>4. NodeAt(t2, i).rest = NodeAt(t, j).rest /\ NodeAt(t2, i).val = NodeAt(t, j).val
  BY <1>3 DEF Shifts
<1>5. PICK k, n : k \in Seq(Chars) /\ Hit(t, k, n) /\ Path(t, k)[n] = j
  BY <1>1, <1>4 DEF Reached, HitAt
<1>6. n \in 1..Len(k) /\ n \in 0..Len(k) /\ Path(t, k)[n] # 0 /\ NodeAt(t, j).rest = After(k, n)
  BY <1>5 DEF Hit
<1>7. Path(t2, k)[n] = i
  BY <1>3, <1>5, <1>6, ShiftsPath
<1>8. i # 0
  BY <1>2, NodeFacts
<1>9. n \in 1..Len(k) /\ NodeAt(t2, i).rest = After(k, n)
  BY <1>4, <1>6, Zenon
<1>10. HitAt(t2, k, i)
  BY ONLY <1>7, <1>8, <1>9, HitMade, Zenon
<1>11. QED
  BY ONLY <1>5, <1>10, Zenon

-----------------------------------------------------------------------------
(* The cases of insert.                                                     *)

LEMMA AfterHead ==
  ASSUME NEW k \in Seq(Chars), NEW n \in 0..Len(k), n < Len(k)
  PROVE  /\ After(k, n) # <<>> /\ Head(After(k, n)) = k[n + 1] /\ k[n + 1] \in Chars
         /\ Tail(After(k, n)) = After(k, n + 1) /\ n + 1 \in 0..Len(k)
<1>1. Len(k) \in Nat /\ n \in Nat /\ n + 1 \in 0..Len(k) /\ n + 1 \in 1..Len(k)
  OBVIOUS
<1>2. PICK a : a = After(k, n)
  OBVIOUS
<1>3. /\ a \in Seq(Chars) /\ Len(a) = Len(k) - n /\ a # <<>>
      /\ \A i \in 1..Len(k) - n : a[i] = k[n + i]
  <2>1. n # Len(k)
    BY <1>1
  <2>2. QED
    BY <1>2, <2>1, AfterFacts
<1>4. Head(a) = k[n + 1]
  <2>1. 1 \in 1..Len(k) - n
    BY <1>1
  <2>2. Head(a) = a[1]
    BY <1>3, HeadTailProperties
  <2>3. QED
    BY <1>3, <2>1, <2>2
<1>5. Tail(a) = After(k, n + 1)
  <2>1. /\ Tail(a) \in Seq(Chars) /\ Len(Tail(a)) = Len(a) - 1
        /\ \A i \in 1..Len(Tail(a)) : Tail(a)[i] = a[i + 1]
    BY <1>3, HeadTailProperties
  <2>2. /\ After(k, n + 1) \in Seq(Chars) /\ Len(After(k, n + 1)) = Len(k) - (n + 1)
        /\ \A i \in 1..Len(k) - (n + 1) : After(k, n + 1)[i] = k[(n + 1) + i]
    BY <1>1, AfterFacts
  <2>3. Len(Tail(a)) = Len(After(k, n + 1))
    BY <1>1, <1>3, <2>1, <2>2
  <2>4. ASSUME NEW i \in 1..Len(Tail(a)) PROVE Tail(a)[i] = After(k, n + 1)[i]
    <3>1. i \in 1..Len(k) - (n + 1) /\ i + 1 \in 1..Len(k) - n /\ n + (i + 1) = (n + 1) + i
      BY <1>1, <1>3, <2>1
    <3>2. QED
      BY <1>3, <2>1, <2>2, <3>1
  <2>5. QED
    BY <2>1, <2>2, <2>3, <2>4, SeqEqual
<1>6. k[n + 1] \in Chars
  BY <1>1
<1>7. QED
  BY <1>1, <1>2, <1>3, <1>4, <1>5, <1>6

\* CASES 1 and 2: the slot for the next character is free.
LEMMA PlaceKey ==
  ASSUME NEW t, Sound(t), NEW key \in Seq(Chars), NEW n \in 0..Len(key), n < Len(key),
         NEW p, p = Path(t, key)[n], p # 0, NodeAt(t, p).mode = "Arc",
         NEW i, i = NodeAt(t, p).idx + key[n + 1], i \notin Used(t),
         NEW v \in Values, NEW t2, t2 = Place(t, i, p, After(key, n + 1), v)
  PROVE  /\ Sound(t2)
         /\ \A k \in Seq(Chars) : retrieve(t2, k) = IF k = key THEN v ELSE retrieve(t, k)
         /\ retrieve(t, key) = NoValue
         /\ Added(t, t2, i, p, key[n + 1], After(key, n + 1), v)
         /\ Path(t2, key)[n + 1] = i
         /\ Keeps(t, t2)
<1>1. /\ p \in Used(t) /\ p \in Nat \ {0} /\ NodeAt(t, p).idx \in Nat
      /\ NodeAt(t, p).idx <= Len(t.m_base) /\ Len(t.m_base) \in Nat
  <2>1. p \in Used(t) /\ p \in Nat \ {0}
    BY PathNodes, NodeFacts
  <2>2. QED
    BY <2>1, NodeFacts, NodeParts
<1>2. /\ key[n + 1] \in Chars /\ n + 1 \in 0..Len(key) /\ After(key, n + 1) \in Seq(Chars)
      /\ key[n + 1] \in Nat \ {0} /\ key[n + 1] <= Len(t.m_base)
  <2>1. key[n + 1] \in Chars /\ n + 1 \in 0..Len(key)
    BY AfterHead
  <2>2. After(key, n + 1) \in Seq(Chars)
    BY <2>1, AfterFacts
  <2>3. Len(t.m_base) >= BaseSize
    BY DEF Sound
  <2>4. QED
    BY <1>1, <2>1, <2>2, <2>3, CharFacts
<1>3. i \in Nat \ {0} /\ i <= 2 * Len(t.m_base)
  <2>1. PICK x, L, d : x = NodeAt(t, p).idx /\ L = Len(t.m_base) /\ d = key[n + 1]
    OBVIOUS
  <2>2. x \in Nat /\ x <= L /\ L \in Nat /\ d \in Nat \ {0} /\ d <= L /\ i = x + d
    BY <1>1, <1>2, <2>1, Zenon
  <2>3. i \in Nat \ {0} /\ i <= 2 * L
    BY ONLY <2>2
  <2>4. QED
    BY ONLY <2>1, <2>3
<1>4. PICK rest : rest = After(key, n + 1)
  OBVIOUS
<1>5. rest \in Seq(Chars)
  BY <1>2, <1>4
<1>6. /\ Changed(t, t2, {i}) /\ NodeAt(t2, i) = Placed(p, rest, v) /\ i <= Len(t2.m_base)
  <2>1. t2 = Place(t, i, p, rest, v)
    BY <1>4
  <2>2. p \in Nat
    BY <1>1
  <2>3. /\ Changed(t, Place(t, i, p, rest, v), {i})
        /\ NodeAt(Place(t, i, p, rest, v), i) = Placed(p, rest, v)
        /\ i <= Len(Place(t, i, p, rest, v).m_base)
    <3>1. /\ Sound(t) /\ i \in Nat \ {0} /\ i <= 2 * Len(t.m_base) /\ i \notin Used(t)
          /\ p \in Nat /\ rest \in Seq(Chars) /\ v \in Values
      BY <1>3, <1>5, <2>2
    <3>2. QED
      BY ONLY <3>1, PlaceFacts
  <2>4. QED
    BY <2>1, <2>3, Zenon
<1>7. Added(t, t2, i, p, key[n + 1], After(key, n + 1), v)
  BY <1>1, <1>2, <1>3, <1>4, <1>6 DEF Added
<1>8. Sound(t2)
  BY <1>7, AddedSound
<1>9. /\ \A k \in Seq(Chars) : k # key => retrieve(t2, k) = retrieve(t, k)
      /\ retrieve(t2, key) = v /\ retrieve(t, key) = NoValue
      /\ Path(t2, key)[n + 1] = i
  <2>1. AddedFor(t, t2, i, p, v, key, n)
    BY <1>7 DEF AddedFor
  <2>2. QED
    BY <2>1, AddedRetrieve
<1>10. Keeps(t, t2)
  <2>1. n + 1 \in 1..Len(key) /\ i # 0
    BY <1>3
  <2>2. NodeAt(t2, i).rest = After(key, n + 1)
    BY <1>4, <1>6 DEF Placed
  <2>3. Hit(t2, key, n + 1)
    BY <1>9, <2>1, <2>2 DEF Hit
  <2>4. HitAt(t2, key, i)
    BY <1>9, <2>3 DEF HitAt
  <2>5. QED
    BY <1>7, <2>4, AddedReached
<1>11. QED
  BY <1>7, <1>8, <1>9, <1>10

\* The node in slot 1, over any node.
LEMMA PlaceRoot ==
  ASSUME NEW t, Sound(t), NEW p \in Nat, NEW rest \in Seq(Chars), NEW v \in Values,
         NEW t2, t2 = Place(t, 1, p, rest, v)
  PROVE  /\ Changed(t, t2, {1}) /\ Len(t2.m_base) = Len(t.m_base)
         /\ NodeAt(t2, 1).idx = NodeAt(t, 1).idx /\ NodeAt(t2, 1).parent = p
         /\ NodeAt(t2, 1).val = v
<1>1. t \in Trie(Values) /\ 1 \in 1..Len(t.m_base) /\ t.m_base[1] = NodeAt(t, 1)
  BY NodeFacts DEF Sound, NodeAt
<1>2. PICK o, m : o = t.m_base[1] /\ m = IF rest = <<>> THEN "Arc" ELSE "Term"
  OBVIOUS
<1>3. /\ o \in Node(Values) /\ o.idx \in Nat
      /\ o = [mode |-> o.mode, idx |-> o.idx, parent |-> o.parent, rest |-> o.rest, val |-> o.val]
  BY <1>1, <1>2, NodeFacts DEF Node
<1>4. PICK node : node = [mode |-> m, idx |-> o.idx, parent |-> p, rest |-> rest, val |-> v]
  OBVIOUS
<1>5. [o EXCEPT !.mode = m, !.parent = p, !.rest = rest, !.val = v] = node
  <2>1. PICK a, b, c, d, e :
          /\ a = o.mode /\ b = o.idx /\ c = o.parent /\ d = o.rest /\ e = o.val
    OBVIOUS
  <2>2. o = [mode |-> a, idx |-> b, parent |-> c, rest |-> d, val |-> e]
    BY <1>3, <2>1
  <2>3. [[mode |-> a, idx |-> b, parent |-> c, rest |-> d, val |-> e]
           EXCEPT !.mode = m, !.parent = p, !.rest = rest, !.val = v]
          = [mode |-> m, idx |-> b, parent |-> p, rest |-> rest, val |-> v]
    <3>1. [[mode |-> a, idx |-> b, parent |-> c, rest |-> d, val |-> e] EXCEPT !.mode = m]
            = [mode |-> m, idx |-> b, parent |-> c, rest |-> d, val |-> e]
      OBVIOUS
    <3>2. [[mode |-> m, idx |-> b, parent |-> c, rest |-> d, val |-> e] EXCEPT !.parent = p]
            = [mode |-> m, idx |-> b, parent |-> p, rest |-> d, val |-> e]
      OBVIOUS
    <3>3. [[mode |-> m, idx |-> b, parent |-> p, rest |-> d, val |-> e] EXCEPT !.rest = rest]
            = [mode |-> m, idx |-> b, parent |-> p, rest |-> rest, val |-> e]
      OBVIOUS
    <3>4. [[mode |-> m, idx |-> b, parent |-> p, rest |-> rest, val |-> e] EXCEPT !.val = v]
            = [mode |-> m, idx |-> b, parent |-> p, rest |-> rest, val |-> v]
      OBVIOUS
    <3>5. QED
      BY <3>1, <3>2, <3>3, <3>4, Zenon
  <2>4. QED
    BY <1>4, <2>1, <2>2, <2>3, Zenon
<1>6. node \in Node(Values)
  BY <1>2, <1>3, <1>4 DEF Node, Mode
<1>7. t2 = Written(t, 1, node)
  <2>1. grow(t, 1) = t
    BY <1>1 DEF grow
  <2>2. [t.m_base[1] EXCEPT !.mode = IF rest = <<>> THEN "Arc" ELSE "Term",
                            !.parent = p, !.rest = rest, !.val = v] = node
    BY <1>2, <1>5, Zenon
  <2>3. t2 = [t EXCEPT !.m_base[1] = node]
    BY <2>1, <2>2, Zenon DEF Place
  <2>4. QED
    BY <1>1, <2>3, WrittenIs, Zenon
<1>8. Changed(t, t2, {1}) /\ NodeAt(t2, 1) = node /\ Len(t2.m_base) = Len(t.m_base)
  <2>1. /\ Changed(t, Written(t, 1, node), {1}) /\ NodeAt(Written(t, 1, node), 1) = node
        /\ Len(Written(t, 1, node).m_base) = Len(t.m_base)
    BY <1>1, <1>6, WriteNode, Zenon
  <2>2. QED
    BY <1>7, <2>1, Zenon
<1>9. QED
  BY <1>1, <1>2, <1>4, <1>8

\* t2 is t with its nodes moved, and the root overwritten by a child of another.
RootTaken(t, t2, v) ==
  \E tm :
    /\ Sound(tm) /\ Keeps(t, tm) /\ \A k \in Seq(Chars) : retrieve(tm, k) = retrieve(t, k)
    /\ Changed(tm, t2, {1}) /\ Len(t2.m_base) = Len(tm.m_base)
    /\ NodeAt(t2, 1).idx = NodeAt(tm, 1).idx /\ NodeAt(t2, 1).val = v
    /\ NodeAt(t2, 1).parent \in Used(tm) \ {1}

\* CASE 4: another node owns the slot.  When that is the root's own, the slot
\* the root's children are moved away from is the root.
LEMMA RelocateKey ==
  ASSUME NEW t, Sound(t), NEW key \in Seq(Chars), NEW n \in 0..Len(key), n < Len(key),
         NEW p, p = Path(t, key)[n], p # 0, NodeAt(t, p).mode = "Arc",
         NodeAt(t, p).idx + key[n + 1] \in Used(t),
         NodeAt(t, NodeAt(t, p).idx + key[n + 1]).parent # p,
         NEW v \in Values, NEW t2, t2 = Relocate(t, p, key[n + 1], After(key, n + 1), v)
  PROVE  \/ /\ Sound(t2)
            /\ \A k \in Seq(Chars) : retrieve(t2, k) = IF k = key THEN v ELSE retrieve(t, k)
            /\ Keeps(t, t2)
         \/ RootTaken(t, t2, v) /\ key[n + 1] = 1
<1>1. PICK c : c = key[n + 1]
  OBVIOUS
<1>2. PICK rest : rest = After(key, n + 1)
  OBVIOUS
<1>3. PICK slot : slot = NodeAt(t, p).idx + c
  OBVIOUS
<1>4. /\ p \in Used(t) /\ p \in Nat \ {0} /\ t.m_base[p] = NodeAt(t, p)
      /\ NodeAt(t, p).idx \in Nat /\ NodeAt(t, p).idx <= Len(t.m_base) /\ Len(t.m_base) \in Nat
  <2>1. p \in Used(t) /\ p \in Nat \ {0}
    BY PathNodes, NodeFacts
  <2>2. QED
    BY <2>1, NodeFacts, NodeParts DEF Used, NodeAt
<1>5. c \in Chars /\ c \in Nat /\ c >= 1 /\ n + 1 \in 0..Len(key)
  BY <1>1, AfterHead, CharFacts
<1>6. PICK owner : owner = NodeAt(t, slot).parent
  OBVIOUS
<1>7. /\ slot \in Used(t) /\ slot \in Nat \ {0} /\ t.m_base[slot] = NodeAt(t, slot)
      /\ owner \in Used(t) /\ owner # p
      /\ slot = t.m_base[p].idx + c /\ owner = t.m_base[slot].parent
  <2>1. slot \in Used(t) /\ slot \in Nat \ {0} /\ owner # p
    BY <1>1, <1>3, <1>4, <1>5, <1>6
  <2>2. t.m_base[slot] = NodeAt(t, slot)
    BY <1>4, <2>1 DEF Used, NodeAt
  <2>3. owner \in Used(t)
    BY <1>6, <2>1, UsedFacts, NodeFacts
  <2>4. QED
    BY <1>3, <1>4, <1>6, <2>1, <2>2, <2>3
<1>8. \/ t2 = LET q == FreeBase(t, Children(t, owner))
              IN Place(Move(t, owner, Children(t, owner), q), slot, Shifted(t, owner, q, p), rest, v)
      \/ t2 = LET q == FreeBase(t, Children(t, p) \union {c})
              IN Place(Move(t, p, Children(t, p), q), q + c, p, rest, v)
  BY <1>1, <1>2, <1>7, Zenon DEF Relocate, Shifted
<1>9. ASSUME NEW q, q = FreeBase(t, Children(t, owner)),
             t2 = Place(Move(t, owner, Children(t, owner), q), slot, Shifted(t, owner, q, p), rest, v)
      PROVE  \/ /\ Sound(t2)
                /\ \A k \in Seq(Chars) : retrieve(t2, k) = IF k = key THEN v ELSE retrieve(t, k)
                /\ Keeps(t, t2)
             \/ RootTaken(t, t2, v) /\ c = 1
  <2>1. Free(t, owner, q)
    <3>1. Children(t, owner) \in SUBSET Chars
      BY <1>7, ChildrenFacts
    <3>2. QED
      BY <1>7, <1>9, <3>1, FreeBaseFacts DEF Free
  <2>2. PICK tm : tm = Move(t, owner, Children(t, owner), q)
    OBVIOUS
  <2>3. Shifts(t, tm, owner, q)
    BY <2>1, <2>2, MoveShifts
  <2>4. Sound(tm) /\ \A i \in Nat : i \in Used(tm) <=> \E j \in Used(t) : i = Shifted(t, owner, q, j)
    BY <2>1, <2>3, ShiftsSound
  <2>5. ASSUME slot # 1 PROVE slot \notin Used(tm)
    <3>1. SUFFICES ASSUME NEW j \in Used(t), slot = Shifted(t, owner, q, j) PROVE FALSE
      BY <1>7, <2>4
    <3>2. j \in Nat
      BY NodeFacts
    <3>3. CASE j \in Used(t) \ {1} /\ NodeAt(t, j).parent = owner
      <4>1. slot = (j - NodeAt(t, owner).idx) + q
        BY <2>1, <3>1, <3>2, <3>3, ShiftedFacts
      <4>2. /\ j - t.m_base[owner].idx \in Children(t, owner)
            /\ t.m_base[owner].idx = NodeAt(t, owner).idx /\ t.m_base[owner].idx \in Nat
        <5>1. Sound(t) /\ owner \in Used(t) /\ j \in Used(t) \ {1} /\ NodeAt(t, j).parent = owner
          BY <1>7, <3>3
        <5>2. QED
          BY ONLY <5>1, ChildrenFacts
      <4>3. q + (j - NodeAt(t, owner).idx) \notin Used(t)
        BY <2>1, <4>2 DEF Free
      <4>4. q \in Nat
        BY <2>1 DEF Free
      <4>5. PICK b \in Nat : b = NodeAt(t, owner).idx
        BY <4>2, Zenon
      <4>6. slot \in Nat /\ slot = (j - b) + q /\ q + (j - b) \notin Used(t) /\ slot \in Used(t)
        BY <1>7, <4>1, <4>3, <4>5, Zenon
      <4>7. QED
        BY ONLY <3>2, <4>4, <4>5, <4>6
    <3>4. CASE ~(j \in Used(t) \ {1} /\ NodeAt(t, j).parent = owner)
      <4>1. slot = j
        BY <2>1, <3>1, <3>2, <3>4, ShiftedFacts
      <4>2. QED
        BY <1>6, <1>7, <2>5, <3>4, <4>1
    <3>5. QED
      BY <3>3, <3>4
  <2>6. PICK p2 : p2 = Shifted(t, owner, q, p)
    OBVIOUS
  <2>7. Path(tm, key)[n] = p2 /\ p2 # 0
    BY <1>4, <2>1, <2>3, <2>6, ShiftsPath, ShiftedFacts
  <2>8. NodeAt(tm, p2).mode = "Arc" /\ slot = NodeAt(tm, p2).idx + key[n + 1]
    BY <1>1, <1>3, <1>4, <1>7, <2>3, <2>6 DEF Shifts
  <2>9. t2 = Place(tm, slot, p2, After(key, n + 1), v)
    BY <1>2, <1>9, <2>2, <2>6
  <2>10. /\ \A k \in Seq(Chars) : retrieve(tm, k) = retrieve(t, k)
         /\ Keeps(t, tm)
    BY <2>1, <2>3, ShiftsRetrieve, ShiftsReached
  <2>11. CASE slot # 1
    <3>1. /\ Sound(t2)
          /\ \A k \in Seq(Chars) : retrieve(t2, k) = IF k = key THEN v ELSE retrieve(tm, k)
          /\ Keeps(tm, t2)
      BY <2>4, <2>5, <2>7, <2>8, <2>9, <2>11, PlaceKey, SMTT(30)
    <3>2. QED
      BY <2>10, <3>1, KeepsTrans
  <2>12. CASE slot = 1
    <3>1. c = 1
      BY <1>3, <1>4, <1>5, <2>12
    <3>2. p2 \in Used(tm) \ {1} /\ p2 \in Nat
      <4>1. p # 1
        <5>1. owner = 1
          BY <1>6, <2>12, NodeFacts
        <5>2. QED
          BY <1>7, <5>1
      <4>2. p2 # 1
        BY <1>4, <2>1, <2>6, <4>1, ShiftedFacts, NodeFacts
      <4>3. p2 \in Nat
        BY <1>4, <2>1, <2>6, ShiftedFacts
      <4>4. QED
        BY <1>4, <2>4, <2>6, <4>2, <4>3
    <3>3. rest \in Seq(Chars)
      BY <1>2, <1>5, AfterFacts
    <3>4. t2 = Place(tm, 1, p2, rest, v)
      BY <1>2, <2>9, <2>12
    <3>5. /\ Changed(tm, t2, {1}) /\ Len(t2.m_base) = Len(tm.m_base)
          /\ NodeAt(t2, 1).idx = NodeAt(tm, 1).idx /\ NodeAt(t2, 1).parent = p2
          /\ NodeAt(t2, 1).val = v
      BY ONLY <2>4, <3>2, <3>3, <3>4, v \in Values, PlaceRoot
    <3>6. RootTaken(t, t2, v)
      BY <2>4, <2>10, <3>2, <3>5 DEF RootTaken
    <3>7. QED
      BY <3>1, <3>6
  <2>13. QED
    BY <2>11, <2>12
<1>10. ASSUME NEW q, q = FreeBase(t, Children(t, p) \union {c}),
              t2 = Place(Move(t, p, Children(t, p), q), q + c, p, rest, v)
       PROVE  /\ Sound(t2)
              /\ \A k \in Seq(Chars) : retrieve(t2, k) = IF k = key THEN v ELSE retrieve(t, k)
              /\ Keeps(t, t2)
  <2>1. Free(t, p, q) /\ q + c \notin Used(t) /\ q + c \in Nat \ {0}
    <3>1. Children(t, p) \union {c} \in SUBSET Chars
      BY <1>4, <1>5, ChildrenFacts
    <3>2. QED
      BY <1>4, <1>10, <3>1, FreeBaseFacts DEF Free
  <2>2. PICK tm : tm = Move(t, p, Children(t, p), q)
    OBVIOUS
  <2>3. Shifts(t, tm, p, q)
    BY <2>1, <2>2, MoveShifts
  <2>4. Sound(tm) /\ \A i \in Nat : i \in Used(tm) <=> \E j \in Used(t) : i = Shifted(t, p, q, j)
    BY <2>1, <2>3, ShiftsSound
  <2>5. q + c \notin Used(tm)
    <3>1. SUFFICES ASSUME NEW j \in Used(t), q + c = Shifted(t, p, q, j) PROVE FALSE
      BY <2>1, <2>4
    <3>2. j \in Nat
      BY NodeFacts
    <3>3. CASE j \in Used(t) \ {1} /\ NodeAt(t, j).parent = p
      <4>1. q + c = (j - NodeAt(t, p).idx) + q
        BY <2>1, <3>1, <3>2, <3>3, ShiftedFacts
      <4>2. q \in Nat
        BY <2>1 DEF Free
      <4>3. PICK b \in Nat : b = NodeAt(t, p).idx
        BY <1>4
      <4>4. j = b + c
        <5>1. q + c = (j - b) + q
          BY <4>1, <4>3
        <5>2. QED
          BY <1>5, <3>2, <4>2, <4>3, <5>1, SMTT(30)
      <4>5. QED
        BY <1>3, <1>6, <1>7, <3>3, <4>3, <4>4
    <3>4. CASE ~(j \in Used(t) \ {1} /\ NodeAt(t, j).parent = p)
      <4>1. q + c = j
        BY <2>1, <3>1, <3>2, <3>4, ShiftedFacts
      <4>2. QED
        BY <2>1, <4>1
    <3>5. QED
      BY <3>3, <3>4
  <2>6. Shifted(t, p, q, p) = p
    BY <2>1, ShiftedFacts
  <2>7. Path(tm, key)[n] = p
    BY <1>4, <2>1, <2>3, <2>6, ShiftsPath
  <2>8. NodeAt(tm, p).mode = "Arc" /\ q + c = NodeAt(tm, p).idx + key[n + 1]
    BY <1>1, <1>4, <2>3, <2>6 DEF Shifts
  <2>9. t2 = Place(tm, q + c, p, After(key, n + 1), v)
    BY <1>2, <1>10, <2>2
  <2>10. /\ Sound(t2)
         /\ \A k \in Seq(Chars) : retrieve(t2, k) = IF k = key THEN v ELSE retrieve(tm, k)
         /\ Keeps(tm, t2)
    BY <2>4, <2>5, <2>7, <2>8, <2>9, PlaceKey
  <2>11. /\ \A k \in Seq(Chars) : retrieve(tm, k) = retrieve(t, k)
         /\ Keeps(t, tm)
    BY <2>1, <2>3, ShiftsRetrieve, ShiftsReached
  <2>12. QED
    BY <2>10, <2>11, KeepsTrans
<1>11. QED
  BY <1>1, <1>8, <1>9, <1>10

\* The walk depends on the characters it has taken.
LEMMA PathSame ==
  ASSUME NEW t, Sound(t), NEW k \in Seq(Chars), NEW l \in Seq(Chars),
         NEW n \in 0..Len(k), n <= Len(l), \A j \in 1..n : k[j] = l[j]
  PROVE  Path(t, k)[n] = Path(t, l)[n]
<1>1. Len(k) \in Nat /\ Len(l) \in Nat /\ n \in Nat
  OBVIOUS
<1> DEFINE S == {m \in 0..n : Path(t, k)[m] = Path(t, l)[m]}
<1>2. 0 \in S
  BY <1>1, PathNodes
<1>3. ASSUME NEW m \in 0..n, m \in S, m < n PROVE m + 1 \in S
  <2>1. m + 1 \in 1..n /\ m + 1 \in 1..Len(k) /\ m + 1 \in 1..Len(l) /\ (m + 1) - 1 = m
    BY <1>1, <1>3
  <2>2. PICK m1 : m1 = m + 1
    OBVIOUS
  <2>3. /\ Path(t, k)[m1] = IF Path(t, k)[m1-1] = 0 THEN 0 ELSE Child(t, Path(t, k)[m1-1], k[m1])
        /\ Path(t, l)[m1] = IF Path(t, l)[m1-1] = 0 THEN 0 ELSE Child(t, Path(t, l)[m1-1], l[m1])
    BY <2>1, <2>2, PathNodes
  <2>4. Path(t, k)[m1-1] = Path(t, l)[m1-1] /\ k[m1] = l[m1]
    BY <1>3, <2>1, <2>2
  <2>5. Path(t, k)[m1] = Path(t, l)[m1]
    BY <2>3, <2>4
  <2>6. QED
    BY <1>1, <2>1, <2>2, <2>5
<1>4. 0..n \subseteq S
  <2> HIDE DEF S
  <2>1. QED
    BY <1>1, <1>2, <1>3, UpTo
<1>5. QED
  BY <1>1, <1>4

\* The first characters of a key.
LEMMA KeyPrefix ==
  ASSUME NEW k \in Seq(Chars), NEW n \in 0..Len(k)
  PROVE  \E l \in Seq(Chars) : Len(l) = n /\ \A j \in 1..n : l[j] = k[j]
<1>1. Len(k) \in Nat /\ n \in Nat
  OBVIOUS
<1>2. PICK l : l = [j \in 1..n |-> k[j]]
  OBVIOUS
<1>3. l \in [1..n -> Chars]
  BY <1>1, <1>2
<1>4. l \in Seq(Chars) /\ Len(l) = n
  BY <1>1, <1>3
<1>5. QED
  BY <1>2, <1>4

\* The key that ends at a node of the walk.
LEMMA NodeKey ==
  ASSUME NEW t, Sound(t), NEW key \in Seq(Chars), NEW n \in 0..Len(key), n # 0,
         NEW i, i = Path(t, key)[n], i # 0
  PROVE  \E old \in Seq(Chars) : /\ n \in 0..Len(old) /\ \A j \in 1..n : old[j] = key[j]
                                 /\ After(old, n) = NodeAt(t, i).rest /\ HitAt(t, old, i)
<1>1. Len(key) \in Nat /\ n \in Nat /\ n \in 1..Len(key)
  OBVIOUS
<1>2. PICK r : r = NodeAt(t, i).rest
  OBVIOUS
<1>3. r \in Seq(Chars) /\ Len(r) \in Nat
  <2>1. i \in Nat \ {0}
    BY <1>1, PathNodes, NodeFacts
  <2>2. QED
    BY <1>2, <2>1, NodeParts
<1>4. PICK old : old = [j \in 1..n + Len(r) |-> IF j <= n THEN key[j] ELSE r[j - n]]
  OBVIOUS
<1>5. old \in [1..n + Len(r) -> Chars]
  <2>1. ASSUME NEW j \in 1..n + Len(r) PROVE (IF j <= n THEN key[j] ELSE r[j - n]) \in Chars
    <3>1. CASE j <= n
      <4>1. j \in 1..Len(key)
        BY <1>1, <3>1
      <4>2. QED
        BY <3>1, <4>1
    <3>2. CASE ~(j <= n)
      <4>1. j - n \in 1..Len(r)
        BY <1>1, <1>3, <3>2
      <4>2. QED
        BY <1>3, <3>2, <4>1
    <3>3. QED
      BY <3>1, <3>2
  <2>2. QED
    BY <1>4, <2>1
<1>6. old \in Seq(Chars) /\ Len(old) = n + Len(r)
  BY <1>1, <1>3, <1>5, SMTT(30)
<1>7. n \in 0..Len(old) /\ n <= Len(old) /\ \A j \in 1..n : old[j] = key[j]
  BY <1>1, <1>3, <1>4, <1>6
<1>8. After(old, n) = r
  <2>1. /\ After(old, n) \in Seq(Chars) /\ Len(After(old, n)) = Len(old) - n
        /\ \A j \in 1..Len(old) - n : After(old, n)[j] = old[n + j]
    BY <1>6, <1>7, AfterFacts
  <2>2. Len(After(old, n)) = Len(r)
    BY <1>1, <1>3, <1>6, <2>1
  <2>3. ASSUME NEW j \in 1..Len(r) PROVE After(old, n)[j] = r[j]
    <3>1. j \in 1..Len(old) - n /\ n + j \in 1..n + Len(r) /\ ~(n + j <= n) /\ (n + j) - n = j
      BY <1>1, <1>3, <1>6
    <3>2. After(old, n)[j] = old[n + j]
      BY <2>1, <3>1
    <3>3. old[n + j] = r[j]
      BY <1>4, <3>1
    <3>4. QED
      BY <3>2, <3>3
  <2>4. QED
    BY <1>3, <2>1, <2>2, <2>3, SeqEqual
<1>9. Path(t, old)[n] = i
  BY <1>6, <1>7, PathSame
<1>10. Hit(t, old, n)
  <2>1. n \in 1..Len(old)
    BY <1>1, <1>3, <1>6
  <2>2. QED
    BY <1>2, <1>8, <1>9, <2>1 DEF Hit
<1>11. HitAt(t, old, i)
  BY <1>9, <1>10 DEF HitAt
<1>12. QED
  BY <1>2, <1>6, <1>7, <1>8, <1>11

LEMMA AfterAfter ==
  ASSUME NEW k \in Seq(Chars), NEW n \in 0..Len(k), NEW m \in Nat, n + m <= Len(k)
  PROVE  After(After(k, n), m) = After(k, n + m)
<1>1. Len(k) \in Nat /\ n \in Nat /\ n + m \in 0..Len(k)
  OBVIOUS
<1>2. PICK a : a = After(k, n)
  OBVIOUS
<1>3. /\ a \in Seq(Chars) /\ Len(a) = Len(k) - n
      /\ \A i \in 1..Len(k) - n : a[i] = k[n + i]
  BY <1>2, AfterFacts
<1>4. m \in 0..Len(a)
  BY <1>1, <1>3
<1>5. /\ After(a, m) \in Seq(Chars) /\ Len(After(a, m)) = Len(a) - m
      /\ \A i \in 1..Len(a) - m : After(a, m)[i] = a[m + i]
  BY <1>3, <1>4, AfterFacts
<1>6. /\ After(k, n + m) \in Seq(Chars) /\ Len(After(k, n + m)) = Len(k) - (n + m)
      /\ \A i \in 1..Len(k) - (n + m) : After(k, n + m)[i] = k[(n + m) + i]
  BY <1>1, AfterFacts
<1>7. Len(After(a, m)) = Len(After(k, n + m))
  <2>1. (Len(k) - n) - m = Len(k) - (n + m)
    BY <1>1
  <2>2. QED
    BY <1>3, <1>5, <1>6, <2>1
<1>8. ASSUME NEW i \in 1..Len(After(a, m)) PROVE After(a, m)[i] = After(k, n + m)[i]
  <2>1. /\ i \in 1..Len(a) - m /\ i \in 1..Len(k) - (n + m) /\ m + i \in 1..Len(k) - n
        /\ n + (m + i) = (n + m) + i
    BY <1>1, <1>3, <1>5
  <2>2. After(a, m)[i] = k[n + (m + i)]
    BY <1>3, <1>5, <2>1
  <2>3. QED
    BY <1>6, <2>1, <2>2
<1>9. QED
  BY <1>2, <1>5, <1>6, <1>7, <1>8, SeqEqual

\* Two sequences have their longest common prefix in common, and part after it.
IsCommon(p, a, b) ==
  /\ p \in Seq(Chars) /\ Len(p) <= Len(a) /\ Len(p) <= Len(b)
  /\ \A j \in 1..Len(p) : p[j] = a[j] /\ p[j] = b[j]
  /\ Len(p) < Len(a) /\ Len(p) < Len(b) => a[Len(p) + 1] # b[Len(p) + 1]

\* The longest common prefix of two sequences.
LEMMA Common ==
  ASSUME NEW a \in Seq(Chars), NEW b \in Seq(Chars), NEW p, p = LongestCommonPrefix({a, b})
  PROVE  IsCommon(p, a, b)
<1>1. Len(a) \in Nat /\ Len(b) \in Nat
  OBVIOUS
<1>2. PICK P : P = CommonPrefixes({a, b})
  OBVIOUS
<1>3. ASSUME NEW s \in Seq(Chars), NEW n \in 0..Len(s)
      PROVE  /\ SubSeq(s, 1, n) \in Seq(Chars) /\ Len(SubSeq(s, 1, n)) = n
             /\ \A j \in 1..n : SubSeq(s, 1, n)[j] = s[j]
  <2>1. Len(s) \in Nat /\ \A i \in 1..n : s[i] \in Chars
    OBVIOUS
  <2>2. /\ SubSeq(s, 1, n) \in Seq(Chars)
        /\ Len(SubSeq(s, 1, n)) = IF 1 <= n THEN n - 1 + 1 ELSE 0
        /\ \A j \in 1..n - 1 + 1 : SubSeq(s, 1, n)[j] = s[1 + j - 1]
    BY <2>1, SubSeqProperties
  <2>3. Len(SubSeq(s, 1, n)) = n /\ \A j \in 1..n : SubSeq(s, 1, n)[j] = s[j]
    BY <2>1, <2>2
  <2>4. QED
    BY <2>2, <2>3
<1>4. ASSUME NEW s \in Seq(Chars), NEW u \in Seq(Chars)
      PROVE  IsPrefix(s, u) <=> Len(s) <= Len(u) /\ \A j \in 1..Len(s) : s[j] = u[j]
  <2>1. Len(s) \in Nat /\ Len(u) \in Nat
    OBVIOUS
  <2>2. SubSeq(s, 1, Len(s)) = s
    <3>1. Len(s) \in 0..Len(s)
      BY <2>1
    <3>2. /\ SubSeq(s, 1, Len(s)) \in Seq(Chars) /\ Len(SubSeq(s, 1, Len(s))) = Len(s)
          /\ \A j \in 1..Len(s) : SubSeq(s, 1, Len(s))[j] = s[j]
      BY <1>3, <3>1
    <3>3. QED
      BY <3>2, SeqEqual
  <2>3. CASE Len(s) <= Len(u)
    <3>1. Len(s) \in 0..Len(u)
      BY <2>1, <2>3
    <3>2. /\ SubSeq(u, 1, Len(s)) \in Seq(Chars) /\ Len(SubSeq(u, 1, Len(s))) = Len(s)
          /\ \A j \in 1..Len(s) : SubSeq(u, 1, Len(s))[j] = u[j]
      BY <1>3, <3>1
    <3>3. s = SubSeq(u, 1, Len(s)) <=> \A j \in 1..Len(s) : s[j] = u[j]
      BY <3>2, SeqEqual
    <3>4. QED
      BY <2>2, <2>3, <3>3 DEF IsPrefix
  <2>4. CASE ~(Len(s) <= Len(u))
    BY <2>4 DEF IsPrefix
  <2>5. QED
    BY <2>3, <2>4
<1>5. ASSUME NEW s \in P
      PROVE  /\ s \in Seq(Chars) /\ Len(s) \in 0..Len(a) /\ Len(s) <= Len(b)
             /\ \A j \in 1..Len(s) : s[j] = a[j] /\ s[j] = b[j]
  <2>1. (\E u \in {a, b} : s \in Prefixes(u)) /\ IsPrefix(s, a) /\ IsPrefix(s, b)
    BY <1>2 DEF CommonPrefixes
  <2>2. PICK u \in {a, b} : s \in Prefixes(u)
    BY <2>1
  <2>3. PICK n \in 0..Len(u) : s = SubSeq(u, 1, n)
    BY <2>2 DEF Prefixes
  <2>4. s \in Seq(Chars) /\ Len(s) \in Nat
    BY <1>3, <2>3
  <2>5. QED
    BY <1>1, <1>4, <2>1, <2>4
<1>6. ASSUME NEW n \in 0..Len(a), n <= Len(b), \A j \in 1..n : a[j] = b[j]
      PROVE  SubSeq(a, 1, n) \in P /\ Len(SubSeq(a, 1, n)) = n
  <2>1. PICK s : s = SubSeq(a, 1, n)
    OBVIOUS
  <2>2. s \in Seq(Chars) /\ Len(s) = n /\ \A j \in 1..n : s[j] = a[j]
    BY <1>3, <2>1
  <2>3. s \in Prefixes(a)
    BY <2>1 DEF Prefixes
  <2>4. IsPrefix(s, a) /\ IsPrefix(s, b)
    BY <1>1, <1>4, <1>6, <2>2
  <2>5. s \in P
    BY <1>2, <2>3, <2>4 DEF CommonPrefixes
  <2>6. QED
    BY <2>1, <2>2, <2>5
<1>7. p \in P /\ \A s \in P : Len(s) <= Len(p)
  <2>1. PICK N : N = {Len(s) : s \in P}
    OBVIOUS
  <2>2. N \in SUBSET (0..Len(a))
    BY <1>5, <2>1
  <2>3. N # {}
    <3>1. 0 \in 0..Len(a) /\ 0 <= Len(b) /\ \A j \in 1..0 : a[j] = b[j]
      BY <1>1
    <3>2. SubSeq(a, 1, 0) \in P
      BY <1>6, <3>1
    <3>3. QED
      BY <2>1, <3>2
  <2>4. Max(N) \in N /\ \A y \in N : y <= Max(N)
    BY <1>1, <2>2, <2>3, MaxOf
  <2>5. PICK s \in P : Len(s) = Max(N)
    BY <2>1, <2>4
  <2>6. \A u \in P : Len(u) <= Len(s)
    BY <2>1, <2>4, <2>5
  <2>7. p = CHOOSE s2 \in P : \A u \in P : Len(u) <= Len(s2)
    BY <1>2, Zenon DEF LongestCommonPrefix
  <2>8. QED
    BY <2>6, <2>7, Zenon
<1>8. ASSUME Len(p) < Len(a), Len(p) < Len(b) PROVE a[Len(p) + 1] # b[Len(p) + 1]
  <2>1. SUFFICES ASSUME a[Len(p) + 1] = b[Len(p) + 1] PROVE FALSE
    OBVIOUS
  <2>2. PICK n : n = Len(p) + 1
    OBVIOUS
  <2>3. Len(p) \in Nat /\ n \in 0..Len(a) /\ n <= Len(b) /\ n > Len(p)
    BY <1>1, <1>5, <1>7, <1>8, <2>2
  <2>4. \A j \in 1..n : a[j] = b[j]
    BY <1>5, <1>7, <2>1, <2>2, <2>3
  <2>5. SubSeq(a, 1, n) \in P /\ Len(SubSeq(a, 1, n)) = n
    BY <1>6, <2>3, <2>4
  <2>6. n <= Len(p)
    BY <1>7, <2>5
  <2>7. n \in Nat
    BY <1>1, <2>3
  <2>8. QED
    BY <2>3, <2>6, <2>7
<1>9. /\ p \in Seq(Chars) /\ Len(p) \in 0..Len(a) /\ Len(p) <= Len(b)
      /\ \A j \in 1..Len(p) : p[j] = a[j] /\ p[j] = b[j]
  BY <1>5, <1>7
<1>10. Len(p) <= Len(a)
  BY <1>1, <1>9
<1>11. QED
  BY <1>8, <1>9, <1>10 DEF IsCommon

-----------------------------------------------------------------------------
(* CASE 3: the walk ends at a Term with another rest.                       *)

ExtendedTo(g, t, i, cs, n) ==
  g = [m \in 0..n |-> IF m = 0 THEN [trie |-> t, slot |-> i] ELSE Extend(g[m-1], cs[m])]

\* The function Paths is defined by has a value for each length.
LEMMA PathsExist ==
  ASSUME NEW t, NEW i, NEW cs, NEW n \in Nat
  PROVE  \E g : ExtendedTo(g, t, i, cs, n)
<1> DEFINE Q == {m \in Nat : \E g : ExtendedTo(g, t, i, cs, m)}
<1>1. 0 \in Q
  <2>1. PICK g : g = [k \in 0..0 |-> [trie |-> t, slot |-> i]]
    OBVIOUS
  <2>2. ExtendedTo(g, t, i, cs, 0)
    BY <2>1 DEF ExtendedTo
  <2>3. QED
    BY <2>2
<1>2. ASSUME NEW m \in Q PROVE m + 1 \in Q
  <2>1. PICK g : ExtendedTo(g, t, i, cs, m)
    OBVIOUS
  <2>2. PICK v : v = Extend(g[m], cs[m + 1])
    OBVIOUS
  <2>3. PICK h : h = [k \in 0..m + 1 |-> IF k = m + 1 THEN v ELSE g[k]]
    OBVIOUS
  <2>4. m \in Nat /\ \A k \in 0..m : h[k] = g[k]
    BY <2>3
  <2>5. h[m + 1] = v
    BY <2>3, <2>4
  <2>6. \A k \in 0..m : g[k] = IF k = 0 THEN [trie |-> t, slot |-> i] ELSE Extend(g[k-1], cs[k])
    BY <2>1 DEF ExtendedTo
  <2>7. \A k \in 0..m + 1 : h[k] = IF k = 0 THEN [trie |-> t, slot |-> i] ELSE Extend(h[k-1], cs[k])
    <3>1. SUFFICES ASSUME NEW k \in 0..m + 1
                   PROVE h[k] = IF k = 0 THEN [trie |-> t, slot |-> i] ELSE Extend(h[k-1], cs[k])
      OBVIOUS
    <3>2. CASE k = m + 1
      BY <2>2, <2>4, <2>5, <3>2
    <3>3. CASE k # m + 1
      <4>1. k \in 0..m /\ (k # 0 => k - 1 \in 0..m)
        BY <2>4, <3>3
      <4>2. QED
        BY <2>4, <2>6, <4>1
    <3>4. QED
      BY <3>2, <3>3
  <2>8. ExtendedTo(h, t, i, cs, m + 1)
    BY <2>3, <2>7 DEF ExtendedTo
  <2>9. QED
    BY <2>4, <2>8
<1>3. Q = Nat
  <2> HIDE DEF Q
  <2>1. Q \in SUBSET Nat
    BY DEF Q
  <2>2. QED
    BY <1>1, <1>2, <2>1, SetInduction
<1>4. QED
  BY <1>3

\* Paths, step by step.
LEMMA PathsRec ==
  ASSUME NEW t, NEW i, NEW cs, Len(cs) \in Nat
  PROVE  /\ Paths(t, i, cs)[0] = [trie |-> t, slot |-> i]
         /\ \A m \in 1..Len(cs) : Paths(t, i, cs)[m] = Extend(Paths(t, i, cs)[m-1], cs[m])
<1>1. PICK g : ExtendedTo(g, t, i, cs, Len(cs))
  BY PathsExist
<1>2. ExtendedTo(Paths(t, i, cs), t, i, cs, Len(cs))
  BY <1>1 DEF Paths, ExtendedTo
<1>3. QED
  BY <1>2 DEF ExtendedTo

LEMMA AddedNoChildren ==
  ASSUME NEW t, Sound(t), NEW t2, NEW i, NEW p, NEW c, NEW rest, NEW v,
         Added(t, t2, i, p, c, rest, v)
  PROVE  NoChildren(t2, i)
<1>1. /\ \A j \in Nat \ {0} : j # i => NodeAt(t2, j) = NodeAt(t, j)
      /\ NodeAt(t2, i).parent = p /\ i \notin Used(t) /\ p \in Used(t)
      /\ Used(t2) = Used(t) \union {i} /\ Used(t) \subseteq Nat \ {0}
  BY AddedSound, NodeFacts DEF Added, Changed, Placed
<1>2. SUFFICES ASSUME NEW j \in Used(t2) PROVE NodeAt(t2, j).parent # i
  BY DEF NoChildren
<1>3. CASE j = i
  BY <1>1, <1>3
<1>4. CASE j = 1 /\ j # i
  BY <1>1, <1>4, NodeFacts
<1>5. CASE j # 1 /\ j # i
  <2>1. NodeAt(t, j).parent \in Used(t)
    BY <1>1, <1>5, UsedFacts
  <2>2. QED
    BY <1>1, <1>5, <2>1
<1>6. QED
  BY <1>3, <1>4, <1>5

\* An Arc that ends a key's walk has the key's value.
LEMMA EndHit ==
  ASSUME NEW t, Sound(t), NEW k \in Seq(Chars), NEW s, Path(t, k)[Len(k)] = s,
         s # 0, s # 1, NodeAt(t, s).rest = <<>>
  PROVE  Hit(t, k, Len(k)) /\ retrieve(t, k) = NodeAt(t, s).val
<1>1. Len(k) \in Nat /\ Len(k) \in 0..Len(k)
  OBVIOUS
<1>2. Len(k) # 0
  <2>1. Path(t, k)[0] = 1
    BY PathNodes
  <2>2. QED
    BY <2>1
<1>3. After(k, Len(k)) = <<>>
  BY <1>1, AfterFacts
<1>4. Len(k) \in 1..Len(k)
  BY <1>1, <1>2
<1>5. Hit(t, k, Len(k))
  BY <1>3, <1>4 DEF Hit
<1>6. QED
  BY <1>5, RetrieveHit

(***************************************************************************)
(* tm is t after m characters of the path, s the slot it has come to; old is *)
(* the key of the Term the path starts from, and has lost its node if m > 0. *)
(***************************************************************************)
Lengthened(t, key, n, old, m, tm, s) ==
  /\ Sound(tm) /\ s \in Used(tm) /\ s # 1 /\ NoChildren(tm, s) /\ Keeps(t, tm)
  /\ Path(tm, key)[n + m] = s
  /\ \A k \in Seq(Chars) :
       /\ retrieve(tm, k) = IF k = old /\ m > 0 THEN NoValue ELSE retrieve(t, k)
       /\ Path(tm, k)[Len(k)] = s => retrieve(tm, k) = NoValue
       /\ HitAt(tm, k, s) => (m = 0 /\ k = old) \/ (m > 0 /\ retrieve(tm, k) = NoValue)
  /\ m = 0 => HitAt(tm, old, s)

\* The Term itself is the path of no arc.
LEMMA LengthenedStart ==
  ASSUME NEW t, Sound(t), NEW key \in Seq(Chars), NEW n \in 0..Len(key), n # 0,
         NEW i, i = Path(t, key)[n], i # 0, NodeAt(t, i).mode = "Term",
         NEW old \in Seq(Chars), HitAt(t, old, i)
  PROVE  Lengthened(t, key, n, old, 0, t, i)
<1>1. i \in Used(t) /\ i \in Nat \ {0} /\ n \in Nat /\ n + 0 = n
  BY PathNodes, NodeFacts
<1>2. i # 1
  BY NodeFacts
<1>3. NodeAt(t, i).rest # <<>>
  BY <1>1, NodeFacts
<1>4. NoChildren(t, i)
  <2>1. SUFFICES ASSUME NEW j \in Used(t), NodeAt(t, j).parent = i PROVE FALSE
    BY DEF NoChildren
  <2>2. j # 1
    BY <1>2, <2>1, NodeFacts
  <2>3. QED
    BY <2>1, <2>2, UsedFacts
<1>5. ASSUME NEW k \in Seq(Chars), Path(t, k)[Len(k)] = i PROVE retrieve(t, k) = NoValue
  <2>1. \A m : ~Hit(t, k, m)
    <3>1. SUFFICES ASSUME NEW m, Hit(t, k, m) PROVE FALSE
      OBVIOUS
    <3>2. Len(k) \in Nat /\ m \in 1..Len(k) /\ m \in 0..Len(k) /\ Len(k) \in 0..Len(k)
      BY <3>1 DEF Hit
    <3>3. m = Len(k)
      <4>1. Len(k) \notin m + 1..Len(k)
        BY <1>1, <1>5, <3>1, HitEnds
      <4>2. QED
        BY <3>2, <4>1
    <3>4. After(k, m) = <<>>
      BY <3>2, <3>3, AfterFacts
    <3>5. QED
      BY <1>3, <1>5, <3>1, <3>3, <3>4 DEF Hit
  <2>2. k # <<>>
    <3>1. SUFFICES ASSUME k = <<>> PROVE FALSE
      OBVIOUS
    <3>2. Len(k) = 0 /\ Path(t, k)[0] = 1
      BY <3>1, PathNodes
    <3>3. QED
      BY <1>2, <1>5, <3>2
  <2>3. QED
    BY <2>1, <2>2, RetrieveMiss
<1>6. ASSUME NEW k \in Seq(Chars), HitAt(t, k, i) PROVE k = old
  BY <1>6, HitKey DEF HitAt
<1>7. Path(t, key)[n + 0] = i /\ Keeps(t, t)
  BY <1>1 DEF Keeps
<1>8. QED
  BY <1>1, <1>2, <1>4, <1>5, <1>6, <1>7 DEF Lengthened

\* The node Rebase leaves.
LEMMA OnPathIs ==
  ASSUME NEW node \in Node(Values), NEW q \in Nat, NEW x \in Values
  PROVE  /\ OnPath(node, q, x) = [mode |-> "Arc", idx |-> q, parent |-> node.parent,
                                  rest |-> <<>>, val |-> x]
         /\ OnPath(node, q, x) \in Node(Values)
<1>1. node \in [mode : Mode, idx : Nat, parent : Nat, rest : Seq(Chars), val : Values]
  BY DEF Node
<1>2. PICK n1 : n1 = [node EXCEPT !.mode = "Arc"]
  OBVIOUS
<1>3. n1 = [mode |-> "Arc", idx |-> node.idx, parent |-> node.parent, rest |-> node.rest, val |-> node.val]
  BY <1>1, <1>2
<1>4. PICK n2 : n2 = [n1 EXCEPT !.idx = q]
  OBVIOUS
<1>5. n2 = [mode |-> "Arc", idx |-> q, parent |-> node.parent, rest |-> node.rest, val |-> node.val]
  BY <1>3, <1>4
<1>6. PICK n3 : n3 = [n2 EXCEPT !.rest = <<>>]
  OBVIOUS
<1>7. n3 = [mode |-> "Arc", idx |-> q, parent |-> node.parent, rest |-> <<>>, val |-> node.val]
  BY <1>5, <1>6
<1>8. PICK n4 : n4 = [n3 EXCEPT !.val = x]
  OBVIOUS
<1>9. n4 = [mode |-> "Arc", idx |-> q, parent |-> node.parent, rest |-> <<>>, val |-> x]
  BY <1>7, <1>8
<1>10. OnPath(node, q, x) = n4
  BY <1>2, <1>4, <1>6, <1>8, Zenon DEF OnPath
<1>11. n4 \in Node(Values)
  <2>1. <<>> \in Seq(Chars)
    OBVIOUS
  <2>2. node.parent \in Nat
    BY <1>1
  <2>3. QED
    BY <1>9, <2>1, <2>2 DEF Node, Mode
<1>12. QED
  BY <1>9, <1>10, <1>11

LEMMA OnPathRebased ==
  ASSUME NEW t, Sound(t), NEW s \in Used(t), s # 1, NoChildren(t, s),
         NEW q \in Nat, q <= Len(t.m_base), NEW m \in Nat, m <= 2 * Len(t.m_base),
         NEW x \in Values,
         NEW t2, t2 = Rebase(t, s, q, m, x)
  PROVE  Rebased(t, t2, s, q, x) /\ m <= Len(t2.m_base)
<1>1. t \in Trie(Values) /\ s \in 1..Len(t.m_base) /\ s \in Nat \ {0} /\ Len(t.m_base) \in Nat
  BY NodeFacts DEF Sound, Used
<1>2. PICK g : g = grow(t, m)
  OBVIOUS
<1>3. Changed(t, g, {}) /\ m <= Len(g.m_base)
  BY <1>1, <1>2, GrowFacts
<1>4. /\ g \in Trie(Values) /\ Len(g.m_base) >= Len(t.m_base) /\ Len(g.m_base) \in Nat
      /\ s \in 1..Len(g.m_base) /\ g.m_base[s] = NodeAt(t, s)
  <2>1. g \in Trie(Values) /\ Len(g.m_base) >= Len(t.m_base) /\ NodeAt(g, s) = NodeAt(t, s)
    BY <1>1, <1>3 DEF Changed
  <2>2. Len(g.m_base) \in Nat
    BY <2>1, TrieParts
  <2>3. QED
    BY <1>1, <2>1, <2>2 DEF NodeAt
<1>5. PICK node : node = OnPath(g.m_base[s], q, x)
  OBVIOUS
<1>6. /\ node = [mode |-> "Arc", idx |-> q, parent |-> NodeAt(t, s).parent, rest |-> <<>>, val |-> x]
      /\ node \in Node(Values)
  <2>1. NodeAt(t, s) \in Node(Values)
    BY <1>1, NodeParts
  <2>2. QED
    BY <1>4, <1>5, <2>1, OnPathIs
<1>7. t2 = Written(g, s, node)
  <2>1. t2 = [g EXCEPT !.m_base[s] = node]
    BY <1>2, <1>5, Zenon DEF Rebase
  <2>2. QED
    BY <1>4, <2>1, WrittenIs, Zenon
<1>8. Changed(g, t2, {s}) /\ NodeAt(t2, s) = node /\ Len(t2.m_base) = Len(g.m_base)
  <2>1. g \in Trie(Values) /\ s \in 1..Len(g.m_base) /\ node \in Node(Values)
    BY <1>4, <1>6
  <2>2. /\ Changed(g, Written(g, s, node), {s}) /\ NodeAt(Written(g, s, node), s) = node
        /\ Len(Written(g, s, node).m_base) = Len(g.m_base)
    BY ONLY <2>1, WriteNode
  <2>3. QED
    BY <1>7, <2>2, Zenon
<1>9. Changed(t, t2, {} \union {s})
  <2>1. t.m_base \in Seq(Node(Values))
    BY <1>1, TrieParts
  <2>2. QED
    BY <1>3, <1>8, <2>1, ChangedTrans
<1>10. Changed(t, t2, {s})
  BY <1>9
<1>11. q <= Len(t2.m_base) /\ m <= Len(t2.m_base)
  BY <1>1, <1>3, <1>4, <1>8
<1>12. QED
  BY <1>6, <1>8, <1>10, <1>11 DEF Rebased

Extended(t, s, c, e) ==
  \E tr, t2, q : /\ Rebased(t, tr, s, q, NoValue)
                 /\ Added(tr, t2, q + c, s, c, <<>>, NoValue)
                 /\ e = [trie |-> t2, slot |-> q + c]

\* Extend rebases the last node and adds its child.
LEMMA ExtendIs ==
  ASSUME NEW t, Sound(t), NEW s \in Used(t), s # 1, NoChildren(t, s), NEW c \in Chars,
         NEW path, path.trie = t, path.slot = s
  PROVE  Extended(t, s, c, Extend(path, c))
<1>1. PICK q : q = FreeBase(t, {c})
  OBVIOUS
<1>2. /\ q \in Nat \ {0} /\ q <= Len(t.m_base) /\ q + c \notin Used(t) /\ q + c \in Nat \ {0}
      /\ q + c <= 2 * Len(t.m_base)
  BY <1>1, FreeBaseFacts
<1>3. PICK i : i = q + c
  OBVIOUS
<1>4. PICK tr : tr = Rebase(t, s, q, i, NoValue)
  OBVIOUS
<1>5. PICK t2 : t2 = Place(tr, i, s, <<>>, NoValue)
  OBVIOUS
<1>6. NoValue \in Values
  BY DEF Values
<1>7. Rebased(t, tr, s, q, NoValue) /\ i <= Len(tr.m_base)
  <2>1. i \in Nat /\ q \in Nat /\ q <= Len(t.m_base) /\ i <= 2 * Len(t.m_base)
    BY <1>2, <1>3
  <2>2. Sound(t) /\ s \in Used(t) /\ s # 1 /\ NoChildren(t, s)
    OBVIOUS
  <2>3. QED
    BY ONLY <1>4, <1>6, <2>1, <2>2, OnPathRebased
<1>8. Extend(path, c) = [trie |-> t2, slot |-> i]
  BY <1>1, <1>3, <1>4, <1>5, Zenon DEF Extend
<1>9. Sound(tr) /\ Used(tr) = Used(t)
  BY <1>7, RebasedSound
<1>10. Added(tr, t2, i, s, c, <<>>, NoValue)
  <2>1. /\ <<>> \in Seq(Chars) /\ i \in Nat \ {0} /\ i \notin Used(tr) /\ s \in Used(tr) /\ s \in Nat
        /\ Len(tr.m_base) \in Nat
    BY <1>2, <1>3, <1>9, NodeFacts
  <2>2. i <= 2 * Len(tr.m_base)
    BY <1>7, <2>1
  <2>3. /\ Changed(tr, t2, {i}) /\ NodeAt(t2, i) = Placed(s, <<>>, NoValue)
        /\ i <= Len(t2.m_base)
    <3>1. /\ Changed(tr, Place(tr, i, s, <<>>, NoValue), {i})
          /\ NodeAt(Place(tr, i, s, <<>>, NoValue), i) = Placed(s, <<>>, NoValue)
          /\ i <= Len(Place(tr, i, s, <<>>, NoValue).m_base)
      BY ONLY <1>6, <1>9, <2>1, <2>2, PlaceFacts
    <3>2. QED
      BY <1>5, <3>1, Zenon
  <2>4. NodeAt(tr, s).mode = "Arc" /\ i = NodeAt(tr, s).idx + c
    BY <1>3, <1>7 DEF Rebased
  <2>5. QED
    BY <1>6, <2>1, <2>3, <2>4 DEF Added
<1>11. QED
  BY <1>3, <1>7, <1>8, <1>10 DEF Extended

\* A new node for a key that has none: the effect of AddedFor, without its arithmetic.
LEMMA AddedKey ==
  ASSUME NEW t, Sound(t), NEW t2, NEW i, NEW p, NEW c, NEW v, Added(t, t2, i, p, c, <<>>, v),
         NEW key \in Seq(Chars), NEW n \in 0..Len(key), n < Len(key), Path(t, key)[n] = p,
         key[n + 1] = c
  PROVE  /\ \E l \in Seq(Chars) :
              /\ Len(l) = n + 1 /\ \A j \in 1..n + 1 : l[j] = key[j]
              /\ retrieve(t2, l) = v /\ retrieve(t, l) = NoValue
              /\ \A k \in Seq(Chars) : k # l => retrieve(t2, k) = retrieve(t, k)
         /\ Path(t2, key)[n + 1] = i
<1>1. n \in Nat /\ n + 1 \in 0..Len(key) /\ n \in 0..n + 1 /\ n + 1 <= Len(key)
  OBVIOUS
<1>2. PICK l \in Seq(Chars) : Len(l) = n + 1 /\ \A j \in 1..n + 1 : l[j] = key[j]
  BY <1>1, KeyPrefix
<1>3. /\ n \in 0..Len(l) /\ n < Len(l) /\ l[n + 1] = key[n + 1] /\ n + 1 \in 0..Len(l)
  BY <1>1, <1>2
<1>4. Path(t, l)[n] = p
  <2>1. n <= Len(key) /\ \A j \in 1..n : l[j] = key[j]
    BY <1>1, <1>2
  <2>2. Path(t, l)[n] = Path(t, key)[n]
    BY <1>3, <2>1, PathSame
  <2>3. QED
    BY <2>2
<1>5. After(l, n + 1) = <<>>
  BY <1>2, <1>3, AfterFacts
<1>6. AddedFor(t, t2, i, p, v, l, n)
  BY <1>3, <1>4, <1>5 DEF AddedFor
<1>7. /\ \A k \in Seq(Chars) : k # l => retrieve(t2, k) = retrieve(t, k)
      /\ Path(t2, l)[n + 1] = i /\ retrieve(t2, l) = v /\ retrieve(t, l) = NoValue
  <2>1. (\A k \in Seq(Chars) : k # l => retrieve(t2, k) = retrieve(t, k)) /\ Path(t2, l)[n + 1] = i
    BY <1>6, AddedRetrieve
  <2>2. retrieve(t2, l) = v /\ retrieve(t, l) = NoValue
    <3>1. Sound(t) /\ l \in Seq(Chars)
      OBVIOUS
    <3>2. QED
      BY ONLY <1>6, <3>1, AddedRetrieve
  <2>3. QED
    BY <2>1, <2>2
<1>8. Path(t2, key)[n + 1] = i
  <2>1. Sound(t2)
    BY AddedSound
  <2>2. \A j \in 1..n + 1 : l[j] = key[j]
    BY <1>2
  <2>3. Path(t2, l)[n + 1] = Path(t2, key)[n + 1]
    BY <1>1, <1>3, <2>1, <2>2, PathSame
  <2>4. QED
    BY <1>7, <2>3
<1>9. QED
  BY <1>2, <1>7, <1>8

\* One more arc of the common prefix.
LEMMA LengthenedStep ==
  ASSUME NEW t, NEW key \in Seq(Chars), NEW n \in Nat, NEW old \in Seq(Chars),
         NEW m \in Nat, n + m < Len(key), NEW tm, NEW s, Lengthened(t, key, n, old, m, tm, s),
         NEW c \in Chars, c = key[n + m + 1],
         NEW path, path.trie = tm, path.slot = s
  PROVE  Lengthened(t, key, n, old, m + 1, Extend(path, c).trie, Extend(path, c).slot)
<1>1. Sound(tm) /\ s \in Used(tm) /\ s # 1 /\ NoChildren(tm, s) /\ Path(tm, key)[n + m] = s
  BY DEF Lengthened
<1>2. PICK tr, t2, q : /\ Rebased(tm, tr, s, q, NoValue)
                       /\ Added(tr, t2, q + c, s, c, <<>>, NoValue)
                       /\ Extend(path, c) = [trie |-> t2, slot |-> q + c]
  <2>1. Extended(tm, s, c, Extend(path, c))
    BY <1>1, ExtendIs
  <2>2. QED
    BY <2>1, Zenon DEF Extended
<1>3. PICK i : i = q + c
  OBVIOUS
<1>4. Extend(path, c).trie = t2 /\ Extend(path, c).slot = i /\ Added(tr, t2, i, s, c, <<>>, NoValue)
  BY <1>2, <1>3
<1>5. Sound(tr) /\ Used(tr) = Used(tm)
  BY <1>1, <1>2, RebasedSound
<1>6. /\ i \in Nat \ {0} /\ i \notin Used(tr) /\ NodeAt(t2, i) = Placed(s, <<>>, NoValue)
      /\ Sound(t2) /\ i \in Used(t2) /\ NoChildren(t2, i) /\ i # 1 /\ i # 0
  <2>1. i \in Nat \ {0} /\ i \notin Used(tr) /\ NodeAt(t2, i) = Placed(s, <<>>, NoValue)
    BY <1>4 DEF Added
  <2>2. Sound(t2) /\ i \in Used(t2) /\ NoChildren(t2, i)
    BY <1>4, <1>5, AddedSound, AddedNoChildren
  <2>3. i # 1
    BY <1>5, <2>1, NodeFacts
  <2>4. QED
    BY <2>1, <2>2, <2>3
<1>7. NodeAt(t2, i).rest = <<>> /\ NodeAt(t2, i).val = NoValue
  BY <1>6 DEF Placed
<1>8. PICK a : a = n + m
  OBVIOUS
<1>9. a \in 0..Len(key) /\ a < Len(key) /\ key[a + 1] = c /\ a + 1 = n + (m + 1)
  BY <1>8
<1>10. Path(tr, key)[a] = s
  <2>1. Path(tr, key)[a] = Path(tm, key)[a]
    BY <1>1, <1>2, <1>9, RebasedPath
  <2>2. QED
    BY <1>1, <1>8, <2>1
<1>11. /\ \A k \in Seq(Chars) : retrieve(t2, k) = retrieve(tr, k)
       /\ Path(t2, key)[a + 1] = i
  <2>1. /\ \E l \in Seq(Chars) :
             /\ Len(l) = a + 1 /\ \A j \in 1..a + 1 : l[j] = key[j]
             /\ retrieve(t2, l) = NoValue /\ retrieve(tr, l) = NoValue
             /\ \A k \in Seq(Chars) : k # l => retrieve(t2, k) = retrieve(tr, k)
        /\ Path(t2, key)[a + 1] = i
    <3>1. Sound(tr) /\ Added(tr, t2, i, s, c, <<>>, NoValue) /\ key \in Seq(Chars)
      BY <1>4, <1>5
    <3>2. QED
      BY ONLY <1>9, <1>10, <3>1, AddedKey
  <2>2. QED
    BY <2>1
<1>12. ASSUME NEW k \in Seq(Chars)
       PROVE  retrieve(t2, k) = IF k = old THEN NoValue ELSE retrieve(t, k)
  <2>1. retrieve(tr, k) = IF Path(tm, k)[Len(k)] = s THEN NoValue
                          ELSE IF HitAt(tm, k, s) THEN NoValue ELSE retrieve(tm, k)
    BY <1>1, <1>2, RebasedRetrieve
  <2>2. /\ retrieve(tm, k) = IF k = old /\ m > 0 THEN NoValue ELSE retrieve(t, k)
        /\ Path(tm, k)[Len(k)] = s => retrieve(tm, k) = NoValue
        /\ HitAt(tm, k, s) => (m = 0 /\ k = old) \/ (m > 0 /\ retrieve(tm, k) = NoValue)
        /\ m = 0 => HitAt(tm, old, s)
    BY DEF Lengthened
  <2>3. m = 0 \/ m > 0
    OBVIOUS
  <2>4. QED
    BY <1>11, <2>1, <2>2, <2>3
<1>13. ASSUME NEW k \in Seq(Chars)
       PROVE  /\ Path(t2, k)[Len(k)] = i => retrieve(t2, k) = NoValue
              /\ HitAt(t2, k, i) => retrieve(t2, k) = NoValue
  <2>1. Path(t2, k)[Len(k)] = i => retrieve(t2, k) = NoValue
    BY <1>6, <1>7, EndHit
  <2>2. ASSUME HitAt(t2, k, i) PROVE retrieve(t2, k) = NoValue
    <3>1. PICK b : Hit(t2, k, b) /\ Path(t2, k)[b] = i
      BY <2>2 DEF HitAt
    <3>2. QED
      BY <1>6, <1>7, <3>1, RetrieveHit
  <2>3. QED
    BY <2>1, <2>2
<1>14. m + 1 > 0 /\ m + 1 # 0
  OBVIOUS
<1>15. Path(t2, key)[n + (m + 1)] = i
  BY <1>9, <1>11
<1>16. Keeps(t, t2)
  <2>1. Keeps(t, tm)
    BY DEF Lengthened
  <2>2. Keeps(tm, tr)
    BY <1>1, <1>2, RebasedReached
  <2>3. Keeps(tr, t2)
    BY <1>4, <1>5, AddedReached
  <2>4. QED
    BY <2>1, <2>2, <2>3, KeepsTrans
<1>17. Lengthened(t, key, n, old, m + 1, t2, i)
  BY <1>6, <1>12, <1>13, <1>14, <1>15, <1>16 DEF Lengthened
<1>18. QED
  BY <1>4, <1>17

\* The path of arcs that Split makes for the common prefix cs.
LEMMA LengthenedPath ==
  ASSUME NEW t, Sound(t), NEW key \in Seq(Chars), NEW n \in 0..Len(key), n # 0,
         NEW i, i = Path(t, key)[n], i # 0, NodeAt(t, i).mode = "Term",
         NEW old \in Seq(Chars), HitAt(t, old, i),
         NEW cs \in Seq(Chars), n + Len(cs) <= Len(key),
         \A j \in 1..Len(cs) : cs[j] = key[n + j]
  PROVE  Lengthened(t, key, n, old, Len(cs), Paths(t, i, cs)[Len(cs)].trie,
                    Paths(t, i, cs)[Len(cs)].slot)
<1> DEFINE P(m) == m <= Len(cs) => Lengthened(t, key, n, old, m, Paths(t, i, cs)[m].trie,
                                              Paths(t, i, cs)[m].slot)
           Q == {m \in Nat : P(m)}
<1>1. n \in Nat /\ Len(cs) \in Nat /\ Len(key) \in Nat
  OBVIOUS
<1>2. /\ Paths(t, i, cs)[0] = [trie |-> t, slot |-> i]
      /\ \A m \in 1..Len(cs) : Paths(t, i, cs)[m] = Extend(Paths(t, i, cs)[m-1], cs[m])
  BY <1>1, PathsRec
<1>3. 0 \in Q
  <2>1. Lengthened(t, key, n, old, 0, t, i)
    BY LengthenedStart
  <2>2. QED
    BY <1>2, <2>1
<1>4. ASSUME NEW m \in Q PROVE m + 1 \in Q
  <2>1. m \in Nat /\ P(m)
    OBVIOUS
  <2>2. SUFFICES ASSUME m + 1 <= Len(cs) PROVE P(m + 1)
    BY <2>1
  <2>3. PICK path, g : path = Paths(t, i, cs)[m] /\ g = Paths(t, i, cs)[m + 1]
    OBVIOUS
  <2>4. PICK c : c = cs[m + 1]
    OBVIOUS
  <2>5. m + 1 \in 1..Len(cs) /\ (m + 1) - 1 = m /\ n + m < Len(key) /\ m <= Len(cs)
        /\ n + (m + 1) = n + m + 1
    BY <1>1, <2>1, <2>2
  <2>6. c \in Chars /\ c = key[n + m + 1]
    BY <2>4, <2>5
  <2>7. g = Extend(path, c)
    BY <1>2, <2>3, <2>4, <2>5
  <2>8. PICK tm, s : tm = path.trie /\ s = path.slot
    OBVIOUS
  <2>9. Lengthened(t, key, n, old, m, tm, s)
    BY <2>1, <2>3, <2>5, <2>8
  <2>10. Lengthened(t, key, n, old, m + 1, Extend(path, c).trie, Extend(path, c).slot)
    <3>1. key \in Seq(Chars) /\ old \in Seq(Chars) /\ path.trie = tm /\ path.slot = s
      BY <2>8
    <3>2. QED
      BY ONLY <1>1, <2>1, <2>5, <2>6, <2>9, <3>1, LengthenedStep
  <2>11. QED
    BY <2>3, <2>7, <2>10
<1>5. Q = Nat
  <2> HIDE DEF Q
  <2>1. Q \in SUBSET Nat
    BY DEF Q
  <2>2. QED
    BY <1>3, <1>4, <2>1, SetInduction
<1>6. QED
  BY <1>1, <1>5, SMTT(30)

\* Two keys that agree on the first a characters and part there.
Part(key, old, a) ==
  /\ a \in 0..Len(key) /\ a \in 0..Len(old) /\ \A j \in 1..a : key[j] = old[j]
  /\ ~(a = Len(key) /\ a = Len(old))
  /\ a < Len(key) /\ a < Len(old) => key[a + 1] # old[a + 1]

\* p is the common prefix of what is left of the two keys after n characters.
PrefixParts(p, key, old, n) ==
  /\ Part(key, old, n + Len(p)) /\ p \in Seq(Chars)
  /\ \A j \in 1..Len(p) : p[j] = key[n + j]
  /\ After(After(old, n), Len(p)) = After(old, n + Len(p))
  /\ After(After(key, n), Len(p)) = After(key, n + Len(p))

\* The first characters of both keys are those of the path.
LEMMA PartAt ==
  ASSUME NEW key \in Seq(Chars), NEW old \in Seq(Chars), key # old,
         NEW n \in 0..Len(key), n \in 0..Len(old), \A j \in 1..n : key[j] = old[j],
         NEW p, p = LongestCommonPrefix({After(old, n), After(key, n)})
  PROVE  PrefixParts(p, key, old, n)
<1>1. PICK r, s : r = After(old, n) /\ s = After(key, n)
  OBVIOUS
<1>2. /\ r \in Seq(Chars) /\ Len(r) = Len(old) - n /\ \A j \in 1..Len(old) - n : r[j] = old[n + j]
      /\ s \in Seq(Chars) /\ Len(s) = Len(key) - n /\ \A j \in 1..Len(key) - n : s[j] = key[n + j]
  BY <1>1, AfterFacts
<1>3. /\ p \in Seq(Chars) /\ Len(p) <= Len(r) /\ Len(p) <= Len(s)
      /\ \A j \in 1..Len(p) : p[j] = r[j] /\ p[j] = s[j]
      /\ Len(p) < Len(r) /\ Len(p) < Len(s) => r[Len(p) + 1] # s[Len(p) + 1]
  <2>1. r \in Seq(Chars) /\ s \in Seq(Chars) /\ p = LongestCommonPrefix({r, s})
    BY <1>1, <1>2, Zenon
  <2>2. IsCommon(p, r, s)
    BY ONLY <2>1, Common
  <2>3. QED
    BY <2>2 DEF IsCommon
<1>4. PICK L, a : L = Len(p) /\ a = n + Len(p)
  OBVIOUS
<1>5. /\ n \in Nat /\ L \in Nat /\ Len(key) \in Nat /\ Len(old) \in Nat /\ a = n + L
      /\ a \in 0..Len(key) /\ a \in 0..Len(old)
  BY <1>2, <1>3, <1>4
<1>6. /\ \A j \in 1..L : p[j] = key[n + j] /\ key[n + j] = old[n + j]
  <2>1. SUFFICES ASSUME NEW j \in 1..L PROVE p[j] = key[n + j] /\ key[n + j] = old[n + j]
    OBVIOUS
  <2>2. j \in 1..Len(old) - n /\ j \in 1..Len(key) - n
    BY <1>2, <1>3, <1>4, <1>5
  <2>3. p[j] = r[j] /\ p[j] = s[j]
    BY <1>3, <1>4, Zenon
  <2>4. r[j] = old[n + j] /\ s[j] = key[n + j]
    BY <1>2, <2>2, Zenon
  <2>5. QED
    BY ONLY <2>3, <2>4, Zenon
<1>7. \A j \in 1..a : key[j] = old[j]
  <2>1. SUFFICES ASSUME NEW j \in 1..a PROVE key[j] = old[j]
    OBVIOUS
  <2>2. CASE j <= n
    BY <1>5, <2>2
  <2>3. CASE j > n
    <3>1. PICK d : d = j - n
      OBVIOUS
    <3>2. d \in 1..L /\ n + d = j
      BY <1>5, <2>3, <3>1
    <3>3. QED
      BY <1>6, <3>2
  <2>4. QED
    BY <1>5, <2>2, <2>3
<1>8. ~(a = Len(key) /\ a = Len(old))
  <2>1. SUFFICES ASSUME a = Len(key), a = Len(old) PROVE FALSE
    OBVIOUS
  <2>2. After(key, a) = <<>> /\ After(old, a) = <<>>
    BY <1>5, <2>1, AfterFacts
  <2>3. a <= Len(old)
    BY <1>5
  <2>4. QED
    BY <1>5, <1>7, <2>2, <2>3, SameKey
<1>9. ASSUME a < Len(key), a < Len(old) PROVE key[a + 1] # old[a + 1]
  <2>1. L < Len(r) /\ L < Len(s) /\ L + 1 \in 1..Len(old) - n /\ L + 1 \in 1..Len(key) - n
        /\ n + (L + 1) = a + 1
    BY <1>2, <1>5, <1>9
  <2>2. r[L + 1] = old[a + 1] /\ s[L + 1] = key[a + 1]
    <3>1. PICK d : d = L + 1
      OBVIOUS
    <3>2. d \in 1..Len(old) - n /\ d \in 1..Len(key) - n /\ n + d = a + 1
      BY <2>1, <3>1
    <3>3. r[d] = old[n + d] /\ s[d] = key[n + d]
      BY <1>2, <3>2
    <3>4. QED
      BY <3>1, <3>2, <3>3
  <2>3. r[L + 1] # s[L + 1]
    BY <1>3, <1>4, <2>1
  <2>4. QED
    BY <2>2, <2>3
<1>10. Part(key, old, a)
  BY <1>5, <1>7, <1>8, <1>9 DEF Part
<1>11. After(After(old, n), L) = After(old, a) /\ After(After(key, n), L) = After(key, a)
  <2>1. n + L <= Len(old) /\ n + L <= Len(key)
    BY <1>5
  <2>2. QED
    BY <1>5, <2>1, AfterAfter
<1>12. QED
  BY <1>3, <1>4, <1>6, <1>10, <1>11 DEF PrefixParts

\* The path has come to the character where the two keys part.
Forks(t, key, n, old, L, tL, s, a) ==
  /\ key \in Seq(Chars) /\ old \in Seq(Chars) /\ key # old
  /\ n \in Nat \ {0} /\ L \in Nat /\ a = n + L
  /\ Lengthened(t, key, n, old, L, tL, s) /\ Part(key, old, a)

\* The keys' values once the last node of the path has its base and its value.
LEMMA ForkValues ==
  ASSUME NEW t, NEW key, NEW n, NEW old, NEW L, NEW tL, NEW s, NEW a,
         Forks(t, key, n, old, L, tL, s, a),
         NEW t1, NEW q, NEW x, Rebased(tL, t1, s, q, x),
         NEW w \in Seq(Chars), Len(w) = a, \A j \in 1..a : w[j] = key[j]
  PROVE  /\ \A k \in Seq(Chars) :
              retrieve(t1, k) = IF k = w THEN x ELSE IF k = old THEN NoValue ELSE retrieve(t, k)
         /\ w # old => retrieve(t, w) = NoValue
         /\ Path(t1, key)[a] = s /\ Path(t1, old)[a] = s
         /\ Keeps(t, t1)
<1>1. /\ Sound(tL) /\ s \in Used(tL) /\ Path(tL, key)[a] = s
      /\ \A k \in Seq(Chars) :
           /\ retrieve(tL, k) = IF k = old /\ L > 0 THEN NoValue ELSE retrieve(t, k)
           /\ Path(tL, k)[Len(k)] = s => retrieve(tL, k) = NoValue
           /\ HitAt(tL, k, s) => (L = 0 /\ k = old) \/ (L > 0 /\ retrieve(tL, k) = NoValue)
      /\ L = 0 => HitAt(tL, old, s)
  BY DEF Lengthened, Forks
<1>2. s # 0
  BY <1>1, NodeFacts
<1>3. /\ a \in 0..Len(key) /\ a \in 0..Len(old) /\ a \in Nat /\ \A j \in 1..a : key[j] = old[j]
      /\ key \in Seq(Chars) /\ old \in Seq(Chars)
  BY DEF Part, Forks
<1>4. Path(tL, old)[a] = s
  <2>1. a <= Len(old)
    BY <1>3
  <2>2. QED
    BY <1>1, <1>3, <2>1, PathSame
<1>5. a \in 0..Len(w) /\ Path(tL, w)[Len(w)] = s
  <2>1. a \in 0..Len(w) /\ a <= Len(key)
    BY <1>3
  <2>2. Path(tL, w)[a] = s
    BY <1>1, <1>3, <2>1, PathSame
  <2>3. QED
    BY <2>1, <2>2
<1>6. ASSUME NEW k \in Seq(Chars), Path(tL, k)[Len(k)] = s PROVE k = w
  <2>1. Len(k) \in 0..Len(k)
    OBVIOUS
  <2>2. Len(k) = Len(w) /\ \A j \in 1..Len(k) : k[j] = w[j]
    <3>1. Len(w) \in 0..Len(w) /\ Path(tL, k)[Len(k)] # 0 /\ Path(tL, k)[Len(k)] = Path(tL, w)[Len(w)]
      BY <1>2, <1>5, <1>6
    <3>2. QED
      BY ONLY <1>1, <2>1, <3>1, SameWord, k \in Seq(Chars), w \in Seq(Chars)
  <2>3. QED
    BY <2>2, SeqEqual
<1>7. ASSUME NEW k \in Seq(Chars)
      PROVE  retrieve(t1, k) = IF k = w THEN x ELSE IF k = old THEN NoValue ELSE retrieve(t, k)
  <2>1. retrieve(t1, k) = IF Path(tL, k)[Len(k)] = s THEN x
                          ELSE IF HitAt(tL, k, s) THEN NoValue ELSE retrieve(tL, k)
    BY <1>1, RebasedRetrieve
  <2>2. Path(tL, k)[Len(k)] = s <=> k = w
    BY <1>5, <1>6
  <2>3. L = 0 \/ L > 0
    BY DEF Forks
  <2>4. QED
    BY <1>1, <2>1, <2>2, <2>3
<1>8. ASSUME w # old PROVE retrieve(t, w) = NoValue
  BY <1>1, <1>5, <1>8
<1>9. Path(t1, key)[a] = s /\ Path(t1, old)[a] = s
  BY <1>1, <1>3, <1>4, RebasedPath
<1>10. Keeps(t, t1)
  <2>1. Keeps(t, tL)
    BY DEF Forks, Lengthened
  <2>2. Keeps(tL, t1)
    BY <1>1, <1>5, RebasedReached
  <2>3. QED
    BY <2>1, <2>2, KeepsTrans
<1>11. QED
  BY <1>7, <1>8, <1>9, <1>10

\* The slot behind base q for the key's next character is free.
Room(t, q, key, a) == a < Len(key) => q + key[a + 1] \notin Used(t)

\* What is left of the key after a characters has a node behind s.
RestPlaced(t, t2, q, s, key, a, v) ==
  t2 = IF a = Len(key) THEN t ELSE Place(t, q + key[a + 1], s, After(key, a + 1), v)

\* The value of the path's last node.
ForkValue(x, key, v, old, oldVal, a) ==
  x = IF a = Len(old) THEN oldVal ELSE IF a = Len(key) THEN v ELSE NoValue

\* The split is done but for the node of the new key's rest.
OldSplit(t, t2, q, s, key, a, v) ==
  /\ Sound(t2) /\ s # 0 /\ Keeps(t, t2)
  /\ \A k \in Seq(Chars) : retrieve(t2, k) = IF k = key /\ a = Len(key) THEN v ELSE retrieve(t, k)
  /\ a < Len(key) => /\ Path(t2, key)[a] = s /\ NodeAt(t2, s).mode = "Arc"
                     /\ NodeAt(t2, s).idx = q /\ q + key[a + 1] \notin Used(t2)

\* The path's last node has its value, and the old rest a node of its own.
LEMMA SplitOld ==
  ASSUME NEW t, NEW key, NEW n, NEW old, NEW L, NEW tL, NEW s, NEW a,
         Forks(t, key, n, old, L, tL, s, a),
         NEW t1, NEW q, NEW x, Rebased(tL, t1, s, q, x),
         NEW oldVal \in Values, oldVal = retrieve(t, old), NEW v,
         ForkValue(x, key, v, old, oldVal, a), Room(tL, q, old, a), Room(tL, q, key, a),
         NEW t2, RestPlaced(t1, t2, q, s, old, a, oldVal)
  PROVE  OldSplit(t, t2, q, s, key, a, v)
<1> USE DEF ForkValue, Room, RestPlaced
<1>1. Sound(tL) /\ s \in Used(tL) /\ s # 1 /\ s # 0 /\ s \in Nat \ {0}
  <2>1. Sound(tL) /\ s \in Used(tL) /\ s # 1
    BY DEF Lengthened, Forks
  <2>2. QED
    BY <2>1, NodeFacts
<1>2. Sound(t1) /\ Used(t1) = Used(tL)
  BY <1>1, RebasedSound
<1>3. NodeAt(t1, s).mode = "Arc" /\ NodeAt(t1, s).idx = q /\ q \in Nat
  BY DEF Rebased
<1>4. /\ key \in Seq(Chars) /\ old \in Seq(Chars) /\ Len(key) \in Nat /\ Len(old) \in Nat
      /\ a \in 0..Len(key) /\ a \in 0..Len(old) /\ a \in Nat \ {0} /\ \A j \in 1..a : key[j] = old[j]
      /\ ~(a = Len(key) /\ a = Len(old))
      /\ a < Len(key) /\ a < Len(old) => key[a + 1] # old[a + 1]
  BY DEF Part, Forks
<1>5. PICK w \in Seq(Chars) : Len(w) = a /\ \A j \in 1..a : w[j] = key[j]
  BY <1>4, KeyPrefix
<1>6. /\ a = Len(key) <=> w = key
      /\ a = Len(old) <=> w = old
  BY <1>4, <1>5, SeqEqual
<1>7. /\ \A k \in Seq(Chars) :
           retrieve(t1, k) = IF k = w THEN x ELSE IF k = old THEN NoValue ELSE retrieve(t, k)
      /\ w # old => retrieve(t, w) = NoValue
      /\ Path(t1, key)[a] = s /\ Path(t1, old)[a] = s /\ Keeps(t, t1)
  <2>1. Forks(t, key, n, old, L, tL, s, a) /\ Rebased(tL, t1, s, q, x)
    OBVIOUS
  <2>2. /\ \A k \in Seq(Chars) :
             retrieve(t1, k) = IF k = w THEN x ELSE IF k = old THEN NoValue ELSE retrieve(t, k)
        /\ w # old => retrieve(t, w) = NoValue
    BY ONLY <1>5, <2>1, ForkValues
  <2>3. Path(t1, key)[a] = s /\ Path(t1, old)[a] = s /\ Keeps(t, t1)
    BY ONLY <1>5, <2>1, ForkValues
  <2>4. QED
    BY <2>2, <2>3
<1>8. CASE a = Len(old)
  <2>1. t2 = t1 /\ x = oldVal /\ w = old /\ a # Len(key)
    BY <1>4, <1>6, <1>8
  <2>2. \A k \in Seq(Chars) : retrieve(t2, k) = retrieve(t, k)
    BY <1>7, <2>1
  <2>3. QED
    BY <1>1, <1>2, <1>3, <1>7, <2>1, <2>2 DEF OldSplit
<1>9. CASE a # Len(old)
  <2>1. a < Len(old) /\ w # old /\ x = IF w = key THEN v ELSE NoValue
    BY <1>4, <1>6, <1>9
  <2>2. PICK i : i = NodeAt(t1, s).idx + old[a + 1]
    OBVIOUS
  <2>3. /\ i = q + old[a + 1] /\ i \notin Used(t1) /\ t2 = Place(t1, i, s, After(old, a + 1), oldVal)
    BY <1>2, <1>3, <1>9, <2>1, <2>2
  <2>4. /\ Sound(t2)
        /\ \A k \in Seq(Chars) : retrieve(t2, k) = IF k = old THEN oldVal ELSE retrieve(t1, k)
        /\ Added(t1, t2, i, s, old[a + 1], After(old, a + 1), oldVal)
        /\ Keeps(t1, t2)
    <3>1. /\ old \in Seq(Chars) /\ s = Path(t1, old)[a] /\ s # 0 /\ oldVal \in Values
          /\ NodeAt(t1, s).mode = "Arc" /\ a \in 0..Len(old)
      BY <1>1, <1>3, <1>4, <1>7
    <3>2. QED
      BY ONLY <1>2, <2>1, <2>2, <2>3, <3>1, PlaceKey
  <2>5. ASSUME NEW k \in Seq(Chars)
        PROVE  retrieve(t2, k) = IF k = key /\ a = Len(key) THEN v ELSE retrieve(t, k)
    BY <1>6, <1>7, <2>1, <2>4
  <2>6. ASSUME a < Len(key)
        PROVE  /\ Path(t2, key)[a] = s /\ NodeAt(t2, s).mode = "Arc"
               /\ NodeAt(t2, s).idx = q /\ q + key[a + 1] \notin Used(t2)
    <3>1. /\ Path(t2, key)[0] = 1
          /\ \A m \in 1..Len(key) :
               Path(t2, key)[m] = IF Path(t1, key)[m] # 0 THEN Path(t1, key)[m]
                                  ELSE IF Path(t1, key)[m-1] = s /\ key[m] = old[a + 1] THEN i ELSE 0
      BY <1>2, <1>4, <2>4, AddedPath
    <3>2. a \in 1..Len(key)
      BY <1>4
    <3>3. Path(t2, key)[a] = s
      BY <1>1, <1>7, <3>1, <3>2
    <3>4. NodeAt(t2, s) = NodeAt(t1, s)
      <4>1. s # i
        BY <1>1, <1>2, <2>3
      <4>2. QED
        BY <1>1, <2>4, <4>1 DEF Added, Changed
    <3>5. Used(t2) = Used(t1) \union {i}
      BY <1>2, <2>4, AddedSound
    <3>6. q + key[a + 1] # i
      <4>1. PICK c, d : c = key[a + 1] /\ d = old[a + 1]
        OBVIOUS
      <4>2. a + 1 \in 1..Len(key) /\ a + 1 \in 1..Len(old)
        BY <1>4, <2>1, <2>6
      <4>3. c \in Chars /\ d \in Chars /\ c # d
        BY <1>4, <2>1, <2>6, <4>1, <4>2
      <4>4. c \in Nat /\ d \in Nat
        BY <4>3, CharFacts
      <4>5. q + c # q + d
        BY <1>3, <4>3, <4>4
      <4>6. QED
        BY <2>3, <4>1, <4>5
    <3>7. QED
      BY <1>2, <1>3, <2>6, <3>3, <3>4, <3>5, <3>6
  <2>7. Keeps(t, t2)
    BY <1>7, <2>4, KeepsTrans
  <2>8. QED
    BY <1>1, <2>4, <2>5, <2>6, <2>7 DEF OldSplit
<1>10. QED
  BY <1>8, <1>9

HeadSet(hs, o, k) == hs = {Head(s) : s \in {o, k} \ {<<>>}}

\* The characters at which two keys part are the heads of what is left of them.
PartHeads(hs, o, k, key, old, a) ==
  /\ hs \in SUBSET Chars /\ Max(hs) \in hs
  /\ o = <<>> <=> a = Len(old)
  /\ k = <<>> <=> a = Len(key)
  /\ a # Len(old) => /\ a < Len(old) /\ Head(o) = old[a + 1] /\ Head(o) \in hs
                     /\ Tail(o) = After(old, a + 1)
  /\ a # Len(key) => /\ a < Len(key) /\ Head(k) = key[a + 1] /\ Head(k) \in hs
                     /\ Tail(k) = After(key, a + 1)

\* The characters at which the two rests part.
LEMMA HeadsFacts ==
  ASSUME NEW key \in Seq(Chars), NEW old \in Seq(Chars), NEW a, Part(key, old, a),
         NEW o, o = After(old, a), NEW k, k = After(key, a), NEW hs, HeadSet(hs, o, k)
  PROVE  PartHeads(hs, o, k, key, old, a)
<1> USE DEF HeadSet
<1>1. a \in 0..Len(key) /\ a \in 0..Len(old) /\ ~(a = Len(key) /\ a = Len(old))
  BY DEF Part
<1>2. o = <<>> <=> a = Len(old)
  BY <1>1, AfterFacts
<1>3. k = <<>> <=> a = Len(key)
  BY <1>1, AfterFacts
<1>4. ASSUME a # Len(old)
      PROVE  /\ a < Len(old) /\ Head(o) = old[a + 1] /\ Head(o) \in hs
             /\ Tail(o) = After(old, a + 1) /\ Head(o) \in Chars
  <2>1. a < Len(old)
    BY <1>1, <1>4
  <2>2. Head(o) = old[a + 1] /\ Tail(o) = After(old, a + 1) /\ old[a + 1] \in Chars
    BY <1>1, <2>1, AfterHead
  <2>3. Head(o) \in hs
    BY <1>2, <1>4
  <2>4. QED
    BY <2>1, <2>2, <2>3
<1>5. ASSUME a # Len(key)
      PROVE  /\ a < Len(key) /\ Head(k) = key[a + 1] /\ Head(k) \in hs
             /\ Tail(k) = After(key, a + 1) /\ Head(k) \in Chars
  <2>1. a < Len(key)
    BY <1>1, <1>5
  <2>2. Head(k) = key[a + 1] /\ Tail(k) = After(key, a + 1) /\ key[a + 1] \in Chars
    BY <1>1, <2>1, AfterHead
  <2>3. Head(k) \in hs
    BY <1>3, <1>5
  <2>4. QED
    BY <2>1, <2>2, <2>3
<1>6. hs \in SUBSET Chars
  <2>1. SUFFICES ASSUME NEW h \in hs PROVE h \in Chars
    OBVIOUS
  <2>2. PICK s \in {o, k} \ {<<>>} : h = Head(s)
    OBVIOUS
  <2>3. QED
    BY <1>2, <1>3, <1>4, <1>5, <2>2
<1>7. hs # {}
  BY <1>1, <1>4, <1>5
<1>8. Max(hs) \in hs
  <2>1. hs \in SUBSET (0..MaxChar)
    BY <1>6, CharFacts
  <2>2. QED
    BY <1>7, <2>1, CharFacts, MaxOf
<1>9. QED
  BY <1>2, <1>3, <1>4, <1>5, <1>6, <1>8 DEF PartHeads

\* The new terminator is placed.
LEMMA SplitNew ==
  ASSUME NEW t, NEW key \in Seq(Chars), NEW a \in 0..Len(key), NEW s, NEW q, NEW v \in Values,
         NEW t2, OldSplit(t, t2, q, s, key, a, v),
         NEW t3, RestPlaced(t2, t3, q, s, key, a, v)
  PROVE  /\ Sound(t3)
         /\ \A k \in Seq(Chars) : retrieve(t3, k) = IF k = key THEN v ELSE retrieve(t, k)
         /\ Keeps(t, t3)
<1> USE DEF OldSplit, RestPlaced
<1>1. CASE a = Len(key)
  BY <1>1
<1>2. CASE a # Len(key)
  <2>1. a < Len(key)
    BY <1>2
  <2>2. PICK i : i = NodeAt(t2, s).idx + key[a + 1]
    OBVIOUS
  <2>3. i \notin Used(t2) /\ t3 = Place(t2, i, s, After(key, a + 1), v)
    BY <1>2, <2>1, <2>2
  <2>4. /\ Sound(t3)
        /\ \A k \in Seq(Chars) : retrieve(t3, k) = IF k = key THEN v ELSE retrieve(t2, k)
        /\ Keeps(t2, t3)
    <3>1. /\ key \in Seq(Chars) /\ s = Path(t2, key)[a] /\ s # 0 /\ v \in Values
          /\ NodeAt(t2, s).mode = "Arc" /\ a \in 0..Len(key) /\ Sound(t2)
      BY <2>1
    <3>2. QED
      BY ONLY <2>1, <2>2, <2>3, <3>1, PlaceKey
  <2>5. QED
    BY <1>2, <2>4, KeepsTrans
<1>3. QED
  BY <1>1, <1>2

\* CASE 3: the walk ends at a Term with another rest.
LEMMA SplitKey ==
  ASSUME NEW t, Sound(t), NEW key \in Seq(Chars), NEW n \in 0..Len(key), n # 0,
         NEW i, i = Path(t, key)[n], i # 0, NodeAt(t, i).mode = "Term",
         NEW rest, rest = After(key, n), NodeAt(t, i).rest # rest, NEW v \in Values
  PROVE  /\ Sound(Split(t, i, rest, v))
         /\ \A k \in Seq(Chars) :
              retrieve(Split(t, i, rest, v), k) = IF k = key THEN v ELSE retrieve(t, k)
         /\ Keeps(t, Split(t, i, rest, v))
<1> DEFINE term == t.m_base[i].rest
           oldVal == t.m_base[i].val
           common == LongestCommonPrefix({term, rest})
           path == Paths(t, i, common)[Len(common)]
           oldRest == After(term, Len(common))
           newRest == After(rest, Len(common))
           heads == {Head(u) : u \in {oldRest, newRest} \ {<<>>}}
           q == FreeBase(path.trie, heads)
           t1 == Rebase(path.trie, path.slot, q, q + Max(heads), PathValue(oldRest, oldVal, newRest, v))
           t2 == IF oldRest = <<>> THEN t1
                 ELSE Place(t1, q + Head(oldRest), path.slot, Tail(oldRest), oldVal)
           t3 == IF newRest = <<>> THEN t2
                 ELSE Place(t2, q + Head(newRest), path.slot, Tail(newRest), v)
<1>1. Split(t, i, rest, v) = t3
  BY Zenon DEF Split
<1>2. /\ i \in Used(t) /\ i \in 1..Len(t.m_base) /\ term = NodeAt(t, i).rest /\ oldVal = NodeAt(t, i).val
      /\ i \in Nat \ {0}
  <2>1. i \in Used(t)
    BY PathNodes
  <2>2. i \in 1..Len(t.m_base)
    BY <2>1 DEF Used
  <2>3. QED
    BY <2>1, <2>2, NodeFacts DEF NodeAt
<1>3. PICK old \in Seq(Chars) : /\ n \in 0..Len(old) /\ \A j \in 1..n : old[j] = key[j]
                                /\ After(old, n) = NodeAt(t, i).rest /\ HitAt(t, old, i)
  BY NodeKey
<1>4. key # old /\ term = After(old, n) /\ oldVal = retrieve(t, old) /\ oldVal \in Values
  <2>1. key # old /\ term = After(old, n)
    BY <1>2, <1>3
  <2>2. retrieve(t, old) = NodeAt(t, i).val
    BY <1>3, RetrieveHit DEF HitAt
  <2>3. QED
    BY <1>2, <2>1, <2>2, NodeParts
<1>5. PICK L, a : L = Len(common) /\ a = n + Len(common)
  OBVIOUS
<1> HIDE DEF term, oldVal
<1>6. /\ Part(key, old, a) /\ common \in Seq(Chars) /\ \A j \in 1..L : common[j] = key[n + j]
      /\ oldRest = After(old, a) /\ newRest = After(key, a)
  <2>1. common = LongestCommonPrefix({After(old, n), After(key, n)})
    BY <1>4, Zenon
  <2> HIDE DEF common
  <2>2. PrefixParts(common, key, old, n)
    <3>1. /\ key \in Seq(Chars) /\ old \in Seq(Chars) /\ key # old /\ n \in 0..Len(key)
          /\ n \in 0..Len(old) /\ \A j \in 1..n : key[j] = old[j]
      BY <1>3, <1>4
    <3>2. QED
      BY ONLY <2>1, <3>1, PartAt
  <2>3. QED
    BY <1>4, <1>5, <2>2 DEF PrefixParts
<1> HIDE DEF common
<1>7. PICK tL, s : tL = path.trie /\ s = path.slot
  OBVIOUS
<1>8. L \in Nat /\ n \in Nat /\ a \in 0..Len(key) /\ a \in 0..Len(old) /\ Len(key) \in Nat
  BY <1>5, <1>6 DEF Part
<1>9. Lengthened(t, key, n, old, L, tL, s)
  <2>1. n + Len(common) <= Len(key) /\ \A j \in 1..Len(common) : common[j] = key[n + j]
    BY <1>5, <1>6, <1>8
  <2>2. Lengthened(t, key, n, old, Len(common), path.trie, path.slot)
    BY <1>3, <1>6, <2>1, LengthenedPath
  <2> HIDE DEF path
  <2>3. QED
    BY <1>5, <1>7, <2>2
<1> HIDE DEF path
<1>10. Forks(t, key, n, old, L, tL, s, a)
  BY <1>4, <1>5, <1>6, <1>8, <1>9 DEF Forks
<1> HIDE DEF oldRest, newRest
<1>11. PartHeads(heads, oldRest, newRest, key, old, a)
  <2>1. HeadSet(heads, oldRest, newRest)
    BY Zenon DEF HeadSet
  <2> HIDE DEF heads
  <2>2. QED
    BY <1>6, <2>1, HeadsFacts
<1> HIDE DEF heads
<1> USE DEF PartHeads
<1>12. /\ Sound(tL) /\ s \in Used(tL) /\ s # 1 /\ NoChildren(tL, s)
  BY <1>9 DEF Lengthened
<1>13. /\ q \in Nat \ {0} /\ q <= Len(tL.m_base)
       /\ \A c \in heads : /\ q + c \notin Used(tL) /\ q + c \in Nat \ {0}
                           /\ q + c <= 2 * Len(tL.m_base)
  <2>1. q = FreeBase(tL, heads)
    BY <1>7
  <2> HIDE DEF q
  <2>2. QED
    BY <1>11, <1>12, <2>1, FreeBaseFacts
<1>14. PICK x : x = PathValue(oldRest, oldVal, newRest, v)
  OBVIOUS
<1>15. ForkValue(x, key, v, old, oldVal, a) /\ x \in Values
  <2>1. NoValue \in Values
    BY DEF Values
  <2>2. QED
    BY <1>4, <1>11, <1>14, <2>1 DEF PathValue, ForkValue
<1>16. Rebased(tL, t1, s, q, x)
  <2>1. PICK m : m = q + Max(heads)
    OBVIOUS
  <2>2. t1 = Rebase(tL, s, q, m, x)
    BY <1>7, <1>14, <2>1, Zenon
  <2> HIDE DEF q, t1
  <2>3. m \in Nat /\ m <= 2 * Len(tL.m_base) /\ q \in Nat /\ q <= Len(tL.m_base)
    BY <1>11, <1>13, <2>1
  <2>4. QED
    BY ONLY <1>12, <1>15, <2>2, <2>3, OnPathRebased
<1> HIDE DEF q, t1
<1>17. RestPlaced(t1, t2, q, s, old, a, oldVal)
  BY <1>7, <1>11, Zenon DEF RestPlaced
<1> HIDE DEF t2
<1>18. RestPlaced(t2, t3, q, s, key, a, v)
  BY <1>7, <1>11, Zenon DEF RestPlaced
<1> HIDE DEF t3
<1>19. OldSplit(t, t2, q, s, key, a, v)
  <2>1. Room(tL, q, old, a) /\ Room(tL, q, key, a)
    BY <1>8, <1>11, <1>13 DEF Room
  <2>2. oldVal \in Values /\ oldVal = retrieve(t, old)
    BY <1>4
  <2>3. QED
    BY ONLY <1>10, <1>15, <1>16, <1>17, <2>1, <2>2, SplitOld
<1>20. /\ Sound(t3)
       /\ \A k \in Seq(Chars) : retrieve(t3, k) = IF k = key THEN v ELSE retrieve(t, k)
       /\ Keeps(t, t3)
  <2>1. key \in Seq(Chars) /\ v \in Values
    OBVIOUS
  <2>2. QED
    BY ONLY <1>8, <1>18, <1>19, <2>1, SplitNew
<1>21. QED
  BY <1>1, <1>20, Zenon

-----------------------------------------------------------------------------
(* The operations.                                                          *)

\* t2 is t with the value v for one key.
Stores(t, t2, key, v) ==
  /\ Sound(t2) /\ Keeps(t, t2)
  /\ \A k \in Seq(Chars) : retrieve(t2, k) = IF k = key THEN v ELSE retrieve(t, k)

\* What insert does with a key whose node is missing or unset.
InsertUnset(t, key, v) ==
  LET w == Walk(t, key)
      rest == After(key, w.len)
      node == t.m_base[w.slot]
      slot == node.idx + Head(rest)
  IN IF w.len > 0 /\ node.rest = rest
     THEN [t EXCEPT !.m_base[w.slot].val = v]
     ELSE IF node.mode = "Term" THEN Split(t, w.slot, rest, v)
     ELSE IF modeAt(t, slot) = "Unused"
     THEN Place(t, slot, w.slot, Tail(rest), v)
     ELSE Relocate(t, w.slot, Head(rest), Tail(rest), v)

\* insert without its CASE.
LEMMA InsertIs ==
  ASSUME NEW t, NEW key, NEW v
  PROVE  insert(t, key, v) = IF retrieve(t, key) # NoValue THEN t
                             ELSE IF key = <<>> THEN [t EXCEPT !.m_empty = v]
                             ELSE InsertUnset(t, key, v)
<1> DEFINE e == [t EXCEPT !.m_empty = v]
           r == retrieve(t, key)
<1>1. insert(t, key, v) = CASE r # NoValue -> t
                            [] r = NoValue /\ key = <<>> -> e
                            [] OTHER -> InsertUnset(t, key, v)
  BY DEF insert, InsertUnset
<1> HIDE DEF e, r
<1>2. insert(t, key, v) = IF r # NoValue THEN t ELSE IF key = <<>> THEN e
                          ELSE InsertUnset(t, key, v)
  BY <1>1
<1>3. QED
  BY <1>2, Zenon DEF e, r

\* Whichever case insert takes, the key has the value then, or the root is gone.
LEMMA InsertUnsetKey ==
  ASSUME NEW t, Sound(t), NEW key \in Seq(Chars), key # <<>>, NEW v \in Values
  PROVE  \/ Stores(t, InsertUnset(t, key, v), key, v)
         \/ RootTaken(t, InsertUnset(t, key, v), v) /\ 1 \in Range(key)
<1> DEFINE w == Walk(t, key)
           rest == After(key, w.len)
           node == t.m_base[w.slot]
           slot == node.idx + Head(rest)
<1>1. InsertUnset(t, key, v) = IF w.len > 0 /\ node.rest = rest
                               THEN [t EXCEPT !.m_base[w.slot].val = v]
                               ELSE IF node.mode = "Term" THEN Split(t, w.slot, rest, v)
                               ELSE IF modeAt(t, slot) = "Unused"
                               THEN Place(t, slot, w.slot, Tail(rest), v)
                               ELSE Relocate(t, w.slot, Head(rest), Tail(rest), v)
  BY Zenon DEF InsertUnset
<1>2. PICK n \in 0..Len(key) : /\ w.len = n /\ w.slot = Path(t, key)[n] /\ Path(t, key)[n] # 0
                               /\ \A m \in n + 1..Len(key) : Path(t, key)[m] = 0
  BY WalkIs
<1>3. PICK p : p = Path(t, key)[n]
  OBVIOUS
<1>4. /\ p \in Used(t) /\ p \in Nat \ {0} /\ p # 0 /\ node = NodeAt(t, p) /\ rest = After(key, n)
      /\ w.slot = p /\ w.len = n /\ n \in Nat /\ Len(key) \in Nat /\ p \in 1..Len(t.m_base)
  <2>1. p \in Used(t) /\ p # 0
    BY <1>2, <1>3, PathNodes
  <2>2. p \in Nat \ {0} /\ p \in 1..Len(t.m_base)
    BY <2>1, NodeFacts DEF Used
  <2>3. w.slot = p /\ w.len = n
    BY <1>2, <1>3
  <2>4. QED
    BY <2>1, <2>2, <2>3 DEF NodeAt
<1> HIDE DEF w, rest, node
<1>5. CASE n > 0 /\ node.rest = rest
  <2>1. Hit(t, key, n) /\ HitAt(t, key, p)
    <3>1. n \in 1..Len(key)
      BY <1>4, <1>5
    <3>2. Hit(t, key, n)
      BY <1>2, <1>3, <1>4, <1>5, <3>1 DEF Hit
    <3>3. QED
      BY <1>3, <3>2 DEF HitAt
  <2>2. PICK t2 : t2 = [t EXCEPT !.m_base[p].val = v]
    OBVIOUS
  <2>3. InsertUnset(t, key, v) = t2
    BY <1>1, <1>4, <1>5, <2>2, Zenon
  <2>4. Valued(t, t2, p, v)
    BY <1>4, <2>2, ValuedIs
  <2>5. QED
    BY <2>1, <2>3, <2>4, KeyValued, ValuedReached DEF Stores
<1>6. CASE ~(n > 0 /\ node.rest = rest) /\ node.mode = "Term"
  <2>1. n # 0
    <3>1. SUFFICES ASSUME n = 0 PROVE FALSE
      OBVIOUS
    <3>2. p = 1
      BY <1>3, <3>1, PathNodes
    <3>3. QED
      BY <1>4, <1>6, <3>2, NodeFacts
  <2>2. n > 0 /\ node.rest # rest
    BY <1>4, <1>6, <2>1
  <2>3. InsertUnset(t, key, v) = Split(t, p, rest, v)
    BY <1>1, <1>4, <1>6, Zenon
  <2>4. /\ Sound(Split(t, p, rest, v))
        /\ \A k \in Seq(Chars) :
             retrieve(Split(t, p, rest, v), k) = IF k = key THEN v ELSE retrieve(t, k)
        /\ Keeps(t, Split(t, p, rest, v))
    <3>1. /\ Sound(t) /\ key \in Seq(Chars) /\ n \in 0..Len(key) /\ v \in Values
          /\ NodeAt(t, p).mode = "Term" /\ NodeAt(t, p).rest # rest /\ rest = After(key, n)
      BY <1>4, <1>6, <2>2
    <3>2. QED
      BY ONLY <1>3, <1>4, <2>1, <3>1, SplitKey
  <2>5. QED
    BY <2>3, <2>4 DEF Stores
<1>7. CASE ~(n > 0 /\ node.rest = rest) /\ node.mode # "Term"
  <2>1. node.mode = "Arc" /\ node.rest = <<>>
    <3>1. node.mode # "Unused" /\ node.mode \in Mode
      BY <1>4, NodeFacts, NodeParts
    <3>2. node.mode = "Arc"
      BY <1>7, <3>1 DEF Mode
    <3>3. QED
      BY <1>4, <3>2, NodeFacts
  <2>2. n < Len(key)
    <3>1. SUFFICES ASSUME n = Len(key) PROVE FALSE
      BY <1>4
    <3>2. rest = <<>>
      BY <1>4, <3>1, AfterFacts
    <3>3. n > 0
      BY <1>4, <3>1
    <3>4. QED
      BY <1>7, <2>1, <3>2, <3>3
  <2>3. /\ Head(rest) = key[n + 1] /\ Tail(rest) = After(key, n + 1) /\ key[n + 1] \in Chars
    BY <1>4, <2>2, AfterHead
  <2>4. PICK i, c, r : i = slot /\ c = key[n + 1] /\ r = After(key, n + 1)
    OBVIOUS
  <2>5. InsertUnset(t, key, v) = IF modeAt(t, i) = "Unused" THEN Place(t, i, p, r, v)
                                 ELSE Relocate(t, p, c, r, v)
    BY <1>1, <1>4, <1>7, <2>3, <2>4, Zenon
  <2>6. i = NodeAt(t, p).idx + key[n + 1] /\ i \in Nat \ {0}
    <3>1. i = NodeAt(t, p).idx + key[n + 1]
      BY <1>4, <2>3, <2>4
    <3>2. NodeAt(t, p).idx \in Nat /\ key[n + 1] \in Nat \ {0}
      BY <1>4, <2>3, NodeParts, CharFacts
    <3>3. QED
      BY <3>1, <3>2
  <2>7. modeAt(t, i) = "Unused" <=> i \notin Used(t)
    <3>1. modeAt(t, i) = NodeAt(t, i).mode
      BY DEF modeAt, NodeAt, UnusedNode
    <3>2. QED
      BY <2>6, <3>1, NodeFacts
  <2>8. NodeAt(t, p).mode = "Arc"
    BY <1>4, <2>1
  <2>9. CASE i \notin Used(t)
    <3>1. InsertUnset(t, key, v) = Place(t, i, p, After(key, n + 1), v)
      BY <2>4, <2>5, <2>7, <2>9, Zenon
    <3>2. PICK t2 : t2 = Place(t, i, p, After(key, n + 1), v)
      OBVIOUS
    <3>3. /\ Sound(t2)
          /\ \A k \in Seq(Chars) : retrieve(t2, k) = IF k = key THEN v ELSE retrieve(t, k)
          /\ Keeps(t, t2)
      <4>1. /\ Sound(t) /\ key \in Seq(Chars) /\ n \in 0..Len(key) /\ v \in Values
            /\ i = NodeAt(t, p).idx + key[n + 1]
        BY <2>6
      <4>2. QED
        BY ONLY <1>3, <1>4, <2>2, <2>8, <2>9, <3>2, <4>1, PlaceKey
    <3>4. QED
      BY <3>1, <3>2, <3>3 DEF Stores
  <2>10. CASE i \in Used(t)
    <3>1. InsertUnset(t, key, v) = Relocate(t, p, key[n + 1], After(key, n + 1), v)
      BY <2>4, <2>5, <2>7, <2>10, Zenon
    <3>2. PICK t2 : t2 = Relocate(t, p, key[n + 1], After(key, n + 1), v)
      OBVIOUS
    <3>3. NodeAt(t, i).parent # p
      <4>1. n + 1 \in 1..Len(key) /\ n + 1 \in n + 1..Len(key) /\ (n + 1) - 1 = n
        BY <1>4, <2>2
      <4>2. Path(t, key)[n + 1] = 0
        BY <1>2, <4>1
      <4>3. Path(t, key)[n + 1] = IF Path(t, key)[(n + 1) - 1] = 0 THEN 0
                                  ELSE Child(t, Path(t, key)[(n + 1) - 1], key[n + 1])
        BY <4>1, PathNodes
      <4>4. Child(t, p, c) = 0
        BY <1>3, <1>4, <2>4, <4>1, <4>2, <4>3
      <4>5. c \in Nat \ {0} /\ i = NodeAt(t, p).idx + c
        BY <2>3, <2>4, <2>6, CharFacts
      <4>6. Child(t, p, c) = IF NodeAt(t, p).mode = "Arc" /\ i \in Used(t) /\ NodeAt(t, i).parent = p
                             THEN i ELSE 0
        BY <1>4, <4>5, ChildIs
      <4>7. QED
        BY <2>6, <2>8, <2>10, <4>4, <4>6
    <3>4. \/ /\ Sound(t2)
             /\ \A k \in Seq(Chars) : retrieve(t2, k) = IF k = key THEN v ELSE retrieve(t, k)
             /\ Keeps(t, t2)
          \/ RootTaken(t, t2, v) /\ key[n + 1] = 1
      <4>1. /\ Sound(t) /\ key \in Seq(Chars) /\ n \in 0..Len(key) /\ v \in Values
            /\ NodeAt(t, p).idx + key[n + 1] \in Used(t)
            /\ NodeAt(t, NodeAt(t, p).idx + key[n + 1]).parent # p
        BY <2>6, <2>10, <3>3
      <4>2. QED
        BY ONLY <1>3, <1>4, <2>2, <2>8, <3>2, <4>1, RelocateKey
    <3>5. key[n + 1] \in Range(key)
      <4>1. n + 1 \in 1..Len(key) /\ DOMAIN key = 1..Len(key)
        BY <1>4, <2>2
      <4>2. QED
        BY <4>1 DEF Range
    <3>6. QED
      BY <3>1, <3>2, <3>4, <3>5, Zenon DEF Stores
  <2>11. QED
    BY <2>9, <2>10
<1>8. QED
  BY <1>5, <1>6, <1>7

\* insert of a key without a value.
LEMMA InsertKey ==
  ASSUME NEW t, Sound(t), NEW key \in Seq(Chars), retrieve(t, key) = NoValue, NEW v \in Values
  PROVE  \/ Stores(t, insert(t, key, v), key, v)
         \/ RootTaken(t, insert(t, key, v), v) /\ 1 \in Range(key)
<1>1. CASE key = <<>>
  <2>1. insert(t, key, v) = [t EXCEPT !.m_empty = v]
    BY <1>1, InsertIs, Zenon
  <2>2. /\ Sound([t EXCEPT !.m_empty = v])
        /\ \A k \in Seq(Chars) :
             retrieve([t EXCEPT !.m_empty = v], k) = IF k = key THEN v ELSE retrieve(t, k)
    BY <1>1, EmptyValued
  <2>3. Keeps(t, [t EXCEPT !.m_empty = v])
    BY EmptyReached
  <2>4. QED
    BY <2>1, <2>2, <2>3, Zenon DEF Stores
<1>2. CASE key # <<>>
  <2>1. insert(t, key, v) = InsertUnset(t, key, v)
    BY <1>2, InsertIs, Zenon
  <2>2. QED
    BY <1>2, <2>1, InsertUnsetKey, Zenon
<1>3. QED
  BY <1>1, <1>2

\* A write through the pointer that retrieve returned.
LEMMA AssignKey ==
  ASSUME NEW t, Sound(t), NEW key \in Seq(Chars), retrieve(t, key) # NoValue, NEW v \in Values
  PROVE  Stores(t, assign(t, key, v), key, v)
<1>1. CASE key = <<>>
  <2>1. assign(t, key, v) = [t EXCEPT !.m_empty = v]
    BY <1>1, Zenon DEF assign
  <2>2. /\ Sound([t EXCEPT !.m_empty = v])
        /\ \A k \in Seq(Chars) :
             retrieve([t EXCEPT !.m_empty = v], k) = IF k = key THEN v ELSE retrieve(t, k)
    BY <1>1, EmptyValued
  <2>3. Keeps(t, [t EXCEPT !.m_empty = v])
    BY EmptyReached
  <2>4. QED
    BY <2>1, <2>2, <2>3, Zenon DEF Stores
<1>2. CASE key # <<>>
  <2>1. PICK n : Hit(t, key, n)
    BY <1>2, RetrieveMiss
  <2>2. PICK s : s = Path(t, key)[n]
    OBVIOUS
  <2>3. internal_retrieve(t, key) = s /\ s \in Used(t) /\ HitAt(t, key, s)
    BY <2>1, <2>2, RetrieveHit DEF HitAt
  <2>4. PICK t2 : t2 = [t EXCEPT !.m_base[s].val = v]
    OBVIOUS
  <2>5. assign(t, key, v) = t2
    BY <1>2, <2>3, <2>4, Zenon DEF assign
  <2>6. Valued(t, t2, s, v)
    BY <2>3, <2>4, ValuedIs
  <2>7. QED
    BY <2>3, <2>5, <2>6, KeyValued, ValuedReached DEF Stores
<1>3. QED
  BY <1>1, <1>2

\* remove.
LEMMA RemoveKey ==
  ASSUME NEW t, Sound(t), NEW key \in Seq(Chars)
  PROVE  Stores(t, remove(t, key), key, NoValue)
<1>1. NoValue \in Values
  BY DEF Values
<1>2. CASE retrieve(t, key) = NoValue
  <2>1. remove(t, key) = t
    BY <1>2, Zenon DEF remove
  <2>2. QED
    BY <1>2, <2>1 DEF Stores, Keeps
<1>3. CASE retrieve(t, key) # NoValue
  <2>1. remove(t, key) = assign(t, key, NoValue)
    BY <1>3, Zenon DEF remove
  <2>2. QED
    BY <1>1, <1>3, <2>1, AssignKey
<1>4. QED
  BY <1>2, <1>3

\* The constructor and internal_clear leave the root alone.
LEMMA RootOnlyFacts ==
  ASSUME NEW size \in Nat, size >= BaseSize, NEW e \in Values,
         NEW t, t = [m_base |-> RootOnly(size), m_empty |-> e]
  PROVE  /\ Sound(t) /\ Reached(t) /\ SetSlots(t) = {}
         /\ \A k \in Seq(Chars) : retrieve(t, k) = IF k = <<>> THEN e ELSE NoValue
<1>1. PICK root : root = [UnusedNode EXCEPT !.mode = "Arc", !.idx = 1, !.parent = 1]
  OBVIOUS
<1>2. root = [mode |-> "Arc", idx |-> 1, parent |-> 1, rest |-> <<>>, val |-> NoValue]
  <2>1. PICK n1 : n1 = [UnusedNode EXCEPT !.mode = "Arc"]
    OBVIOUS
  <2>2. n1 = [mode |-> "Arc", idx |-> 0, parent |-> 0, rest |-> <<>>, val |-> NoValue]
    BY <2>1 DEF UnusedNode
  <2>3. PICK n2 : n2 = [n1 EXCEPT !.idx = 1]
    OBVIOUS
  <2>4. n2 = [mode |-> "Arc", idx |-> 1, parent |-> 0, rest |-> <<>>, val |-> NoValue]
    BY <2>2, <2>3
  <2>5. PICK n3 : n3 = [n2 EXCEPT !.parent = 1]
    OBVIOUS
  <2>6. n3 = [mode |-> "Arc", idx |-> 1, parent |-> 1, rest |-> <<>>, val |-> NoValue]
    BY <2>4, <2>5
  <2>7. root = n3
    BY <1>1, <2>1, <2>3, <2>5, Zenon
  <2>8. QED
    BY <2>6, <2>7
<1>3. root \in Node(Values)
  <2>1. <<>> \in Seq(Chars) /\ NoValue \in Values
    BY DEF Values
  <2>2. QED
    BY <1>2, <2>1 DEF Node, Mode
<1>4. PICK b : b = RootOnly(size)
  OBVIOUS
<1>5. b = [i \in 1..size |-> IF i = 1 THEN root ELSE UnusedNode]
  BY <1>1, <1>4, Zenon DEF RootOnly
<1>6. b \in Seq(Node(Values)) /\ Len(b) = size
  <2>1. \A i \in 1..size : (IF i = 1 THEN root ELSE UnusedNode) \in Node(Values)
    BY <1>3, UnusedType
  <2>2. b \in [1..size -> Node(Values)]
    BY <1>5, <2>1
  <2>3. QED
    BY <2>2
<1>7. size >= 1 /\ \A i \in 1..size : b[i] = IF i = 1 THEN root ELSE UnusedNode
  BY <1>5, CharFacts
<1>8. t \in Trie(Values) /\ t.m_base = b /\ t.m_empty = e
  <2>1. t = [m_base |-> b, m_empty |-> e]
    BY <1>4
  <2>2. QED
    BY <1>6, <2>1, TrieIs
<1>9. Used(t) = {1}
  <2>1. UnusedNode.mode = "Unused" /\ root.mode = "Arc"
    BY <1>2, UnusedType
  <2>2. QED
    BY <1>6, <1>7, <1>8, <2>1 DEF Used
<1>10. Sound(t)
  <2>1. \A i \in 1..Len(t.m_base) : NodeSound(t, i)
    <3>1. SUFFICES ASSUME NEW i \in 1..size PROVE NodeSound(t, i)
      BY <1>6, <1>8
    <3>2. CASE i = 1
      <4>1. t.m_base[i] = root /\ Len(t.m_base) >= 1
        BY <1>6, <1>7, <1>8, <3>2
      <4>2. root.mode = "Arc" /\ root.idx = 1 /\ root.rest = <<>>
        BY <1>2
      <4>3. QED
        BY <3>2, <4>1, <4>2 DEF NodeSound
    <3>3. CASE i # 1
      <4>1. t.m_base[i] = UnusedNode /\ Len(t.m_base) \in Nat
        BY <1>6, <1>7, <1>8, <3>3
      <4>2. UnusedNode.mode = "Unused" /\ UnusedNode.idx = 0
        BY DEF UnusedNode
      <4>3. QED
        BY <4>1, <4>2 DEF NodeSound
    <3>4. QED
      BY <3>2, <3>3
  <2>2. t.m_base[1].mode = "Arc" /\ t.m_base[1].parent = 1 /\ t.m_base[1].idx >= 1
    <3>1. t.m_base[1] = root
      BY <1>7, <1>8
    <3>2. root.mode = "Arc" /\ root.parent = 1 /\ root.idx = 1
      BY <1>2
    <3>3. QED
      BY <3>1, <3>2
  <2>3. Len(t.m_base) >= BaseSize
    BY <1>6, <1>8
  <2>4. QED
    BY <1>8, <2>1, <2>2, <2>3 DEF Sound
<1>11. ASSUME NEW k \in Seq(Chars) PROVE retrieve(t, k) = IF k = <<>> THEN e ELSE NoValue
  <2>1. CASE k = <<>>
    BY <1>8, <2>1 DEF retrieve
  <2>2. CASE k # <<>>
    <3>1. \A n : ~Hit(t, k, n)
      <4>1. SUFFICES ASSUME NEW n, Hit(t, k, n) PROVE FALSE
        OBVIOUS
      <4>2. n \in 1..Len(k) /\ n \in 0..Len(k) /\ Path(t, k)[n] # 0
        BY <4>1 DEF Hit
      <4>3. Path(t, k)[n] # 1 /\ Path(t, k)[n] \in Used(t) \union {0}
        BY <1>10, <4>2, PathNodes
      <4>4. QED
        BY <1>9, <4>2, <4>3
    <3>2. QED
      BY <1>10, <2>2, <3>1, RetrieveMiss
  <2>3. QED
    BY <2>1, <2>2
<1>12. SetSlots(t) = {}
  <2>1. DOMAIN b = 1..size /\ \A i \in 1..size : b[i].val = NoValue
    BY <1>2, <1>6, <1>7 DEF UnusedNode
  <2>2. QED
    BY <1>8, <2>1 DEF SetSlots
<1>13. Reached(t)
  <2>1. NodeAt(t, 1) = root
    BY <1>6, <1>7, <1>8 DEF NodeAt
  <2>2. QED
    BY <1>2, <1>9, <2>1 DEF Reached
<1>14. QED
  BY <1>10, <1>11, <1>12, <1>13

\* A new trie is sound and empty.
LEMMA NewTrieIs ==
  /\ Sound(NewTrie) /\ Reached(NewTrie) /\ SetSlots(NewTrie) = {} /\ NewTrie.m_empty = NoValue
  /\ \A k \in Seq(Chars) : retrieve(NewTrie, k) = NoValue
<1>1. NoValue \in Values /\ BaseSize \in Nat /\ BaseSize >= BaseSize
  BY CharFacts DEF Values
<1>2. NewTrie = [m_base |-> RootOnly(BaseSize), m_empty |-> NoValue]
  BY DEF NewTrie
<1>3. QED
  BY <1>1, <1>2, RootOnlyFacts

\* A cleared trie, whatever it was, is sound and has the empty key at most.
LEMMA ClearIs ==
  ASSUME NEW t \in Trie(Values), Len(t.m_base) >= BaseSize
  PROVE  /\ Sound(clear(t)) /\ Reached(clear(t))
         /\ SetSlots(clear(t)) = {} /\ clear(t).m_empty = t.m_empty
         /\ \A k \in Seq(Chars) :
              retrieve(clear(t), k) = IF k = <<>> THEN retrieve(t, <<>>) ELSE NoValue
<1>1. /\ t \in Trie(Values) /\ Len(t.m_base) \in Nat /\ Len(t.m_base) >= BaseSize
      /\ t.m_empty \in Values /\ t = [m_base |-> t.m_base, m_empty |-> t.m_empty]
  BY TrieParts
<1>2. clear(t) = [m_base |-> RootOnly(Len(t.m_base)), m_empty |-> t.m_empty]
  <2>1. PICK r : r = RootOnly(Len(t.m_base))
    OBVIOUS
  <2>2. clear(t) = [t EXCEPT !.m_base = r]
    BY <2>1, Zenon DEF clear
  <2>3. [t EXCEPT !.m_base = r] = [m_base |-> r, m_empty |-> t.m_empty]
    BY <1>1
  <2>4. QED
    BY <2>1, <2>2, <2>3
<1>3. PICK e, n : e = t.m_empty /\ n = Len(t.m_base)
  OBVIOUS
<1>4. retrieve(t, <<>>) = e
  BY <1>3 DEF retrieve
<1>5. /\ Sound(clear(t)) /\ Reached(clear(t))
      /\ SetSlots(clear(t)) = {} /\ clear(t).m_empty = e
      /\ \A k \in Seq(Chars) : retrieve(clear(t), k) = IF k = <<>> THEN e ELSE NoValue
  <2>1. n \in Nat /\ n >= BaseSize /\ e \in Values
    BY <1>1, <1>3
  <2>2. clear(t) = [m_base |-> RootOnly(n), m_empty |-> e]
    BY <1>2, <1>3
  <2>3. clear(t).m_empty = e
    BY <2>2
  <2>4. QED
    BY ONLY <2>1, <2>2, <2>3, RootOnlyFacts
<1>6. QED
  BY <1>3, <1>4, <1>5

-----------------------------------------------------------------------------
(* The blocks of a trie.                                                    *)

BlockSlots(t) == {i \in SetSlots(t) : Blocks(t.m_base[i].val) = 1}

\* The keys other than <<>> whose value has a block.
BlockKeys(t) == {k \in Seq(Chars) : k # <<>> /\ Blocks(retrieve(t, k)) = 1}

LEMMA BlocksFacts ==
  /\ Blocks(NoValue) = 0 /\ Blocks(UnsetData) = 0
  /\ \A v : Blocks(v) \in {0, 1} /\ (Blocks(v) = 1 => v # NoValue)
  BY DEF Blocks, UnsetData

\* A block in the array is the block of one key.
LEMMA KeySlots ==
  ASSUME NEW t, Sound(t), Reached(t)
  PROVE  /\ IsFiniteSet(BlockKeys(t)) /\ ArrayBlocks(t) \in Nat
         /\ Cardinality(BlockKeys(t)) = ArrayBlocks(t)
<1> DEFINE S == BlockSlots(t)
           K == BlockKeys(t)
           f == [k \in K |-> internal_retrieve(t, k)]
<1>1. ArrayBlocks(t) = Cardinality(S)
  BY DEF ArrayBlocks, BlockSlots
<1>2. IsFiniteSet(S) /\ Cardinality(S) \in Nat
  <2>1. Len(t.m_base) \in Nat /\ S \in SUBSET (1..Len(t.m_base))
    BY NodeFacts DEF BlockSlots, SetSlots
  <2>2. IsFiniteSet(1..Len(t.m_base))
    BY <2>1, FS_Interval
  <2>3. IsFiniteSet(S)
    BY <2>1, <2>2, FS_Subset
  <2>4. QED
    BY <2>3, FS_CardinalityType
<1>3. ASSUME NEW i
      PROVE  i \in S <=> i \in Used(t) /\ Blocks(NodeAt(t, i).val) = 1
  <2>1. /\ t.m_base \in Seq(Node(Values)) /\ Len(t.m_base) \in Nat /\ Used(t) \subseteq Nat \ {0}
        /\ \A j \in Nat \ {0} : j \notin Used(t) => NodeAt(t, j) = UnusedNode
    BY NodeFacts
  <2>2. Blocks(UnusedNode.val) = 0
    BY BlocksFacts DEF UnusedNode
  <2>3. i \in S <=> i \in 1..Len(t.m_base) /\ Blocks(t.m_base[i].val) = 1
    BY <2>1, BlocksFacts DEF BlockSlots, SetSlots
  <2>4. i \in 1..Len(t.m_base) => NodeAt(t, i) = t.m_base[i]
    BY <2>1 DEF NodeAt
  <2>5. i \in 1..Len(t.m_base) /\ Blocks(t.m_base[i].val) = 1 => i \in Used(t)
    <3>1. SUFFICES ASSUME i \in 1..Len(t.m_base), i \notin Used(t)
                   PROVE Blocks(t.m_base[i].val) = 0
      BY Zenon, BlocksFacts
    <3>2. i \in Nat \ {0}
      BY <2>1, <3>1
    <3>3. QED
      BY <2>1, <2>2, <2>4, <3>1, <3>2
  <2>6. QED
    BY <2>3, <2>4, <2>5 DEF Used
<1>4. ASSUME NEW k \in K
      PROVE  HitAt(t, k, f[k]) /\ f[k] \in S
  <2>1. k \in Seq(Chars) /\ k # <<>> /\ Blocks(retrieve(t, k)) = 1 /\ retrieve(t, k) # NoValue
    BY BlocksFacts DEF BlockKeys
  <2>2. PICK n : Hit(t, k, n)
    BY <2>1, RetrieveMiss
  <2>3. /\ internal_retrieve(t, k) = Path(t, k)[n] /\ Path(t, k)[n] \in Used(t)
        /\ retrieve(t, k) = NodeAt(t, Path(t, k)[n]).val
    BY <2>1, <2>2, RetrieveHit
  <2>4. f[k] = Path(t, k)[n]
    BY <2>3
  <2>5. QED
    BY <1>3, <2>1, <2>2, <2>3, <2>4 DEF HitAt
<1>5. \A k \in K : k \in Seq(Chars)
  BY DEF BlockKeys
<1>6. f \in Injection(K, S)
  <2>1. f \in [K -> S]
    BY <1>4
  <2>2. ASSUME NEW k \in K, NEW l \in K, f[k] = f[l] PROVE k = l
    BY <1>4, <1>5, <2>2, HitKey DEF HitAt
  <2>3. QED
    BY <2>1, <2>2 DEF Injection, IsInjective
<1>7. ASSUME NEW i \in S PROVE \E k \in K : f[k] = i
  <2>1. i \in Used(t) /\ Blocks(NodeAt(t, i).val) = 1 /\ NodeAt(t, i).val # NoValue
    BY <1>3, <1>7, BlocksFacts
  <2>2. PICK k \in Seq(Chars) : HitAt(t, k, i)
    BY <2>1 DEF Reached
  <2>3. PICK n : Hit(t, k, n) /\ Path(t, k)[n] = i
    BY <2>2 DEF HitAt
  <2>4. internal_retrieve(t, k) = i /\ retrieve(t, k) = NodeAt(t, i).val /\ k # <<>>
    BY <2>3, RetrieveHit
  <2>5. k \in K
    BY <2>1, <2>2, <2>4 DEF BlockKeys
  <2>6. QED
    BY <2>4, <2>5
<1>8. f \in Surjection(K, S)
  BY <1>6, <1>7 DEF Injection, Surjection
<1> HIDE DEF f, S, K
<1>9. IsFiniteSet(K) /\ Cardinality(K) = Cardinality(S)
  BY <1>2, <1>6, <1>8, FS_Injection
<1>10. QED
  BY <1>1, <1>2, <1>9 DEF K

\* A store changes the blocks of a trie by those of the two values.
LEMMA StoresBlocks ==
  ASSUME NEW t, Sound(t), Reached(t), NEW t2, NEW key \in Seq(Chars), NEW v,
         Stores(t, t2, key, v)
  PROVE  TrieBlocks(t2) = (TrieBlocks(t) + Blocks(v)) - Blocks(retrieve(t, key))
<1>1. /\ Sound(t2) /\ Reached(t2)
      /\ \A k \in Seq(Chars) : retrieve(t2, k) = IF k = key THEN v ELSE retrieve(t, k)
  BY DEF Stores, Keeps
<1>2. PICK K, K2 : K = BlockKeys(t) /\ K2 = BlockKeys(t2)
  OBVIOUS
<1>3. /\ IsFiniteSet(K) /\ ArrayBlocks(t) = Cardinality(K) /\ Cardinality(K) \in Nat
      /\ IsFiniteSet(K2) /\ ArrayBlocks(t2) = Cardinality(K2) /\ Cardinality(K2) \in Nat
  BY <1>1, <1>2, KeySlots
<1>4. t # NULL /\ t2 # NULL
  BY <1>1, NullAssumption DEF Sound
<1>5. /\ TrieBlocks(t) = Cardinality(K) + Blocks(t.m_empty)
      /\ TrieBlocks(t2) = Cardinality(K2) + Blocks(t2.m_empty)
  BY <1>3, <1>4 DEF TrieBlocks
<1>6. <<>> \in Seq(Chars) /\ retrieve(t, <<>>) = t.m_empty /\ retrieve(t2, <<>>) = t2.m_empty
  BY DEF retrieve
<1>7. PICK o : o = retrieve(t, key)
  OBVIOUS
<1>8. Blocks(o) \in {0, 1} /\ Blocks(v) \in {0, 1} /\ Blocks(t.m_empty) \in Nat
  BY BlocksFacts
<1>9. CASE key = <<>>
  <2>1. K2 = K
    BY <1>1, <1>2, <1>9 DEF BlockKeys
  <2>2. t2.m_empty = v /\ o = t.m_empty
    BY <1>1, <1>6, <1>7, <1>9
  <2>3. QED
    BY <1>3, <1>5, <1>7, <1>8, <2>1, <2>2
<1>10. CASE key # <<>>
  <2>1. t2.m_empty = t.m_empty
    BY <1>1, <1>6, <1>10
  <2>2. \A k : k # key => (k \in K2 <=> k \in K)
    BY <1>1, <1>2 DEF BlockKeys
  <2>3. key \in K <=> Blocks(o) = 1
    BY <1>2, <1>7, <1>10 DEF BlockKeys
  <2>4. key \in K2 <=> Blocks(v) = 1
    BY <1>1, <1>2, <1>10 DEF BlockKeys
  <2>5. Cardinality(K2) = (Cardinality(K) + Blocks(v)) - Blocks(o)
    <3>1. CASE Blocks(v) = 1
      <4>1. K2 = K \union {key}
        BY <2>2, <2>4, <3>1
      <4>2. Cardinality(K \union {key}) = IF key \in K THEN Cardinality(K) ELSE Cardinality(K) + 1
        BY <1>3, FS_AddElement
      <4>3. QED
        BY <1>3, <1>8, <2>3, <3>1, <4>1, <4>2
    <3>2. CASE Blocks(v) = 0
      <4>1. K2 = K \ {key}
        BY <2>2, <2>4, <3>2
      <4>2. Cardinality(K \ {key}) = IF key \in K THEN Cardinality(K) - 1 ELSE Cardinality(K)
        BY <1>3, FS_RemoveElement
      <4>3. QED
        BY <1>3, <1>8, <2>3, <3>2, <4>1, <4>2
    <3>3. QED
      BY <1>8, <3>1, <3>2
  <2>6. QED
    BY <1>3, <1>5, <1>7, <1>8, <2>1, <2>5
<1>11. QED
  BY <1>9, <1>10

\* Without a node that has a value there are the blocks of the empty key.
LEMMA EmptyBlocks ==
  ASSUME NEW t, Sound(t), SetSlots(t) = {}
  PROVE  TrieBlocks(t) = Blocks(t.m_empty)
<1>1. ArrayBlocks(t) = 0
  BY FS_EmptySet DEF ArrayBlocks
<1>2. t # NULL
  BY NullAssumption DEF Sound
<1>3. Blocks(t.m_empty) \in Nat
  BY BlocksFacts
<1>4. QED
  BY <1>1, <1>2, <1>3 DEF TrieBlocks

\* The blocks of any array, sound or not.
LEMMA ArrayBlocksType ==
  ASSUME NEW t \in Trie(Values)
  PROVE  /\ IsFiniteSet(BlockSlots(t)) /\ Cardinality(BlockSlots(t)) \in Nat
         /\ ArrayBlocks(t) = Cardinality(BlockSlots(t)) /\ ArrayBlocks(t) \in Nat
         /\ TrieBlocks(t) = ArrayBlocks(t) + Blocks(t.m_empty) /\ TrieBlocks(t) \in Nat
<1>1. ArrayBlocks(t) = Cardinality(BlockSlots(t))
  BY DEF ArrayBlocks, BlockSlots
<1>2. IsFiniteSet(BlockSlots(t)) /\ Cardinality(BlockSlots(t)) \in Nat
  <2>1. Len(t.m_base) \in Nat /\ BlockSlots(t) \in SUBSET (1..Len(t.m_base))
    BY TrieParts DEF BlockSlots, SetSlots
  <2>2. IsFiniteSet(1..Len(t.m_base))
    BY <2>1, FS_Interval
  <2>3. IsFiniteSet(BlockSlots(t))
    BY <2>1, <2>2, FS_Subset
  <2>4. QED
    BY <2>3, FS_CardinalityType
<1>3. t # NULL /\ Blocks(t.m_empty) \in Nat
  BY NullAssumption, BlocksFacts
<1>4. TrieBlocks(t) = ArrayBlocks(t) + Blocks(t.m_empty)
  BY <1>3 DEF TrieBlocks
<1>5. QED
  BY <1>1, <1>2, <1>3, <1>4

-----------------------------------------------------------------------------
(* A trie whose root is overwritten.                                        *)

\* What is left of it: an array of nodes.
Ruined(t) ==
  /\ t \in Trie(Values) /\ Len(t.m_base) >= BaseSize /\ ~Rooted(t)
  /\ \A i \in 1..Len(t.m_base) :
       t.m_base[i].idx <= Len(t.m_base) /\ t.m_base[i].parent <= Len(t.m_base)

\* The bases and the parents of a sound trie are slots of it.
LEMMA SlotRanges ==
  ASSUME NEW t, Sound(t), NEW i \in 1..Len(t.m_base)
  PROVE  t.m_base[i].idx <= Len(t.m_base) /\ t.m_base[i].parent <= Len(t.m_base)
<1>1. /\ Len(t.m_base) \in Nat /\ Len(t.m_base) >= 1 /\ NodeSound(t, i)
      /\ t.m_base[1].parent = 1
  BY NodeFacts DEF Sound
<1>2. CASE i = 1
  BY <1>1, <1>2 DEF NodeSound
<1>3. CASE t.m_base[i].mode = "Unused"
  BY <1>1, <1>3 DEF NodeSound, UnusedNode
<1>4. CASE i # 1 /\ t.m_base[i].mode # "Unused"
  BY <1>1, <1>4 DEF NodeSound, Used
<1>5. QED
  BY <1>2, <1>3, <1>4

\* The step that overwrites the root moves the blocks, it does not lose one.
LEMMA TakenRuins ==
  ASSUME NEW t, Sound(t), Reached(t), NEW v, Blocks(v) = 0, NEW t2, RootTaken(t, t2, v)
  PROVE  /\ Ruined(t2) /\ t2.m_empty = t.m_empty /\ TrieBlocks(t2) = TrieBlocks(t)
         /\ TrieBlocks(t) \in Nat
<1>1. PICK tm :
        /\ Sound(tm) /\ Reached(tm) /\ \A k \in Seq(Chars) : retrieve(tm, k) = retrieve(t, k)
        /\ Changed(tm, t2, {1}) /\ Len(t2.m_base) = Len(tm.m_base)
        /\ NodeAt(t2, 1).idx = NodeAt(tm, 1).idx /\ NodeAt(t2, 1).val = v
        /\ NodeAt(t2, 1).parent \in Used(tm) \ {1}
  BY DEF RootTaken, Keeps
<1>2. PICK n : n = Len(tm.m_base)
  OBVIOUS
<1>3. /\ n \in Nat /\ n >= 1 /\ n >= BaseSize /\ t2 \in Trie(Values) /\ t2.m_empty = tm.m_empty
      /\ Len(t2.m_base) = n /\ tm \in Trie(Values) /\ t \in Trie(Values)
  BY <1>1, <1>2, NodeFacts DEF Changed, Sound
<1>4. ASSUME NEW i \in 1..n PROVE NodeAt(t2, i) = t2.m_base[i] /\ NodeAt(tm, i) = tm.m_base[i]
  BY <1>2, <1>3 DEF NodeAt
<1>5. \A i \in 1..n : i # 1 => t2.m_base[i] = tm.m_base[i]
  BY <1>1, <1>3, <1>4 DEF Changed
<1>6. /\ t2.m_base[1].idx = tm.m_base[1].idx /\ t2.m_base[1].val = v
      /\ t2.m_base[1].parent # 1 /\ t2.m_base[1].parent <= n
  BY <1>1, <1>2, <1>3, <1>4 DEF Used
<1>7. Ruined(t2)
  <2>1. ASSUME NEW i \in 1..n PROVE t2.m_base[i].idx <= n /\ t2.m_base[i].parent <= n
    BY <1>1, <1>2, <1>5, <1>6, SlotRanges
  <2>2. QED
    BY <1>3, <1>6, <2>1 DEF Ruined, Rooted
<1>8. t2.m_empty = t.m_empty
  <2>1. <<>> \in Seq(Chars)
    OBVIOUS
  <2>2. retrieve(tm, <<>>) = tm.m_empty /\ retrieve(t, <<>>) = t.m_empty
    BY Zenon DEF retrieve
  <2>3. QED
    BY <1>1, <1>3, <2>1, <2>2, Zenon
<1>9. Blocks(tm.m_base[1].val) = 0
  <2>1. SUFFICES ASSUME NodeAt(tm, 1).val # NoValue PROVE FALSE
    BY <1>3, <1>4, BlocksFacts
  <2>2. PICK k, m : k \in Seq(Chars) /\ Hit(tm, k, m) /\ Path(tm, k)[m] = 1
    BY <1>1, <2>1, NodeFacts DEF Reached, HitAt
  <2>3. m \in 1..Len(k) /\ Path(tm, k)[m] # 0
    BY <2>2 DEF Hit
  <2>4. QED
    BY <1>1, <2>2, <2>3, PathNodes
<1>10. BlockSlots(t2) = BlockSlots(tm)
  <2>1. DOMAIN t2.m_base = 1..n /\ DOMAIN tm.m_base = 1..n
    BY <1>2, <1>3, TrieParts
  <2>2. ASSUME NEW i \in 1..n PROVE Blocks(t2.m_base[i].val) = Blocks(tm.m_base[i].val)
    BY <1>5, <1>6, <1>9
  <2>3. ASSUME NEW i PROVE i \in BlockSlots(t2) <=> i \in 1..n /\ Blocks(t2.m_base[i].val) = 1
    BY <2>1, BlocksFacts DEF BlockSlots, SetSlots
  <2>4. ASSUME NEW i PROVE i \in BlockSlots(tm) <=> i \in 1..n /\ Blocks(tm.m_base[i].val) = 1
    BY <2>1, BlocksFacts DEF BlockSlots, SetSlots
  <2>5. QED
    BY <2>2, <2>3, <2>4
<1>11. BlockKeys(tm) = BlockKeys(t)
  BY <1>1 DEF BlockKeys
<1>12. ArrayBlocks(t2) = ArrayBlocks(t)
  <2>1. ArrayBlocks(t2) = ArrayBlocks(tm)
    BY <1>3, <1>10, ArrayBlocksType
  <2>2. Cardinality(BlockKeys(tm)) = ArrayBlocks(tm) /\ Cardinality(BlockKeys(t)) = ArrayBlocks(t)
    BY <1>1, KeySlots
  <2>3. QED
    BY <1>11, <2>1, <2>2
<1>13. QED
  BY <1>3, <1>7, <1>8, <1>12, ArrayBlocksType

\* A value written into an array without its root: the blocks of two values.
LEMMA RuinedWritten ==
  ASSUME NEW t, Ruined(t), NEW s \in SetSlots(t), NEW v \in Values,
         NEW t2, t2 = [t EXCEPT !.m_base[s].val = v]
  PROVE  /\ Ruined(t2) /\ t.m_base[s].val \in Values /\ t.m_base[s].val # NoValue
         /\ TrieBlocks(t2) = (TrieBlocks(t) + Blocks(v)) - Blocks(t.m_base[s].val)
<1>1. PICK n, o : n = Len(t.m_base) /\ o = t.m_base[s].val
  OBVIOUS
<1>2. /\ t \in Trie(Values) /\ n \in Nat /\ n >= BaseSize /\ t.m_base \in Seq(Node(Values))
      /\ DOMAIN t.m_base = 1..n /\ s \in 1..n /\ o # NoValue /\ t.m_base[s] \in Node(Values)
      /\ t.m_base[1].parent # 1 /\ n >= 1
  BY <1>1, TrieParts, CharFacts DEF Ruined, SetSlots, Rooted
<1>3. PICK node : node = [t.m_base[s] EXCEPT !.val = v]
  OBVIOUS
<1>4. /\ node \in Node(Values) /\ node.idx = t.m_base[s].idx /\ node.parent = t.m_base[s].parent
      /\ node.val = v /\ o \in Values
  <2>1. PICK old : old = t.m_base[s]
    OBVIOUS
  <2>2. old \in [mode : Mode, idx : Nat, parent : Nat, rest : Seq(Chars), val : Values]
    BY <1>2, <2>1 DEF Node
  <2>3. node = [old EXCEPT !.val = v]
    BY <1>3, <2>1
  <2>4. /\ node.idx = old.idx /\ node.parent = old.parent /\ node.val = v /\ node \in Node(Values)
        /\ old.val \in Values
    BY <2>2, <2>3 DEF Node
  <2>5. QED
    BY <1>1, <2>1, <2>4
<1>5. t2 = Written(t, s, node)
  <2>1. t2 = [t EXCEPT !.m_base[s] = node]
    BY <1>3, Zenon
  <2>2. QED
    BY <1>2, <2>1, WrittenIs, Zenon
<1>6. Changed(t, t2, {s}) /\ NodeAt(t2, s) = node /\ Len(t2.m_base) = n
  <2>1. /\ Changed(t, Written(t, s, node), {s}) /\ NodeAt(Written(t, s, node), s) = node
        /\ Len(Written(t, s, node).m_base) = Len(t.m_base)
    BY <1>1, <1>2, <1>4, WriteNode, Zenon
  <2>2. QED
    BY <1>1, <1>5, <2>1, Zenon
<1>7. t2 \in Trie(Values) /\ t2.m_empty = t.m_empty
  BY <1>6 DEF Changed
<1>8. \A i \in 1..n : t2.m_base[i] = IF i = s THEN node ELSE t.m_base[i]
  BY <1>1, <1>2, <1>6 DEF Changed, NodeAt
<1>9. Ruined(t2)
  <2>1. ASSUME NEW i \in 1..n PROVE t2.m_base[i].idx <= n /\ t2.m_base[i].parent <= n
    BY <1>1, <1>4, <1>8 DEF Ruined
  <2>2. t2.m_base[1].parent # 1
    BY <1>2, <1>4, <1>8
  <2>3. QED
    BY <1>2, <1>6, <1>7, <2>1, <2>2 DEF Ruined, Rooted
<1>10. PICK B, B2 : B = BlockSlots(t) /\ B2 = BlockSlots(t2)
  OBVIOUS
<1>11. /\ IsFiniteSet(B) /\ Cardinality(B) \in Nat
       /\ TrieBlocks(t) = Cardinality(B) + Blocks(t.m_empty)
       /\ TrieBlocks(t2) = Cardinality(B2) + Blocks(t.m_empty)
  BY <1>2, <1>7, <1>10, ArrayBlocksType
<1>12. /\ \A i : i # s => (i \in B2 <=> i \in B)
       /\ s \in B <=> Blocks(o) = 1
       /\ s \in B2 <=> Blocks(v) = 1
  <2>1. DOMAIN t2.m_base = 1..n
    BY <1>6, <1>7, TrieParts
  <2>2. ASSUME NEW i PROVE i \in B2 <=> i \in 1..n /\ Blocks(t2.m_base[i].val) = 1
    BY <1>10, <2>1, BlocksFacts DEF BlockSlots, SetSlots
  <2>3. ASSUME NEW i PROVE i \in B <=> i \in 1..n /\ Blocks(t.m_base[i].val) = 1
    BY <1>2, <1>10, BlocksFacts DEF BlockSlots, SetSlots
  <2>4. QED
    BY <1>1, <1>2, <1>4, <1>8, <2>2, <2>3
<1>13. Blocks(o) \in {0, 1} /\ Blocks(v) \in {0, 1} /\ Blocks(t.m_empty) \in Nat
  BY BlocksFacts
<1>14. Cardinality(B2) = (Cardinality(B) + Blocks(v)) - Blocks(o)
  <2>1. CASE Blocks(v) = 1
    <3>1. B2 = B \union {s}
      BY <1>12, <2>1
    <3>2. Cardinality(B \union {s}) = IF s \in B THEN Cardinality(B) ELSE Cardinality(B) + 1
      BY <1>11, FS_AddElement
    <3>3. QED
      BY <1>11, <1>12, <1>13, <2>1, <3>1, <3>2
  <2>2. CASE Blocks(v) = 0
    <3>1. B2 = B \ {s}
      BY <1>12, <2>2
    <3>2. Cardinality(B \ {s}) = IF s \in B THEN Cardinality(B) - 1 ELSE Cardinality(B)
      BY <1>11, FS_RemoveElement
    <3>3. QED
      BY <1>11, <1>12, <1>13, <2>2, <3>1, <3>2
  <2>3. QED
    BY <1>13, <2>1, <2>2
<1>15. QED
  BY <1>1, <1>2, <1>4, <1>9, <1>11, <1>13, <1>14

\* What retrieve finds there is the value of some slot.
LEMMA RuinedRetrieve ==
  ASSUME NEW t, Ruined(t), NEW k \in Seq(Chars), k # <<>>, retrieve(t, k) # NoValue
  PROVE  /\ internal_retrieve(t, k) \in SetSlots(t)
         /\ retrieve(t, k) = t.m_base[internal_retrieve(t, k)].val
<1>1. PICK n, g : n = Len(t.m_base) /\ g = Path(t, k)
  OBVIOUS
<1>2. n \in Nat /\ n >= 1 /\ DOMAIN t.m_base = 1..n /\ t.m_base \in Seq(Node(Values)) /\ Len(k) \in Nat
  BY <1>1, TrieParts, CharFacts DEF Ruined
<1>3. g[0] = 1 /\ \A m \in 1..Len(k) : g[m] = IF g[m-1] = 0 THEN 0 ELSE Child(t, g[m-1], k[m])
  BY <1>1, <1>2, PathRec
<1> DEFINE S == {m \in 0..Len(k) : g[m] \in 0..n}
<1>4. 0..Len(k) \subseteq S
  <2>1. 0 \in S
    BY <1>2, <1>3
  <2>2. ASSUME NEW m \in 0..Len(k), m \in S, m < Len(k) PROVE m + 1 \in S
    <3>1. m + 1 \in 1..Len(k) /\ (m + 1) - 1 = m
      BY <1>2, <2>2
    <3>2. g[m + 1] = IF g[m] = 0 THEN 0 ELSE Child(t, g[m], k[m + 1])
      BY <1>3, <3>1
    <3>3. g[m] # 0 => Child(t, g[m], k[m + 1]) \in 0..n
      <4>1. SUFFICES ASSUME g[m] # 0 PROVE Child(t, g[m], k[m + 1]) \in 0..n
        OBVIOUS
      <4>2. k[m + 1] \in Nat
        BY <3>1, CharFacts
      <4>3. t.m_base[g[m]] \in Node(Values)
        BY <1>2, <2>2, <4>1
      <4>4. PICK i : i = t.m_base[g[m]].idx + k[m + 1]
        OBVIOUS
      <4>5. i \in Nat
        BY <4>2, <4>3, <4>4 DEF Node
      <4>6. modeAt(t, i) # "Unused" => i <= n
        BY <1>1 DEF modeAt
      <4>7. QED
        BY <1>2, <4>4, <4>5, <4>6 DEF Child
    <3>4. QED
      BY <1>2, <3>1, <3>2, <3>3
  <2> HIDE DEF S
  <2>3. QED
    BY <1>2, <2>1, <2>2, UpTo
<1>5. PICK i : i = internal_retrieve(t, k)
  OBVIOUS
<1>6. i # 0 /\ retrieve(t, k) = t.m_base[i].val
  BY <1>5 DEF retrieve
<1>7. i = Walk(t, k).slot
  BY <1>5, <1>6 DEF internal_retrieve
<1>8. Walk(t, k).slot \in 0..n
  <2>1. PICK M : M = {m \in 0..Len(k) : g[m] # 0}
    OBVIOUS
  <2>2. M \in SUBSET (0..Len(k)) /\ 0 \in M
    BY <1>2, <1>3, <2>1
  <2>3. PICK x : x = Max(M)
    OBVIOUS
  <2>4. x \in M
    BY <1>2, <2>2, <2>3, MaxOf
  <2>5. Walk(t, k).slot = g[x]
    BY <1>1, <2>1, <2>3 DEF Walk
  <2>6. QED
    BY <1>4, <2>1, <2>4, <2>5
<1>9. i \in 1..n
  BY <1>2, <1>6, <1>7, <1>8
<1>10. QED
  BY <1>2, <1>5, <1>6, <1>9 DEF SetSlots

-----------------------------------------------------------------------------
(* The blocks of all tries.                                                 *)

Total(tries) == BlockSums(tries)[Len(tries)]

SumsOf(g, tries, n) ==
  g = [m \in 0..n |-> IF m = 0 THEN 0 ELSE g[m-1] + TrieBlocks(tries[m])]

\* The function BlockSums is defined by has a value for each length.
LEMMA SumsExist ==
  ASSUME NEW tries, NEW n \in Nat
  PROVE  \E g : SumsOf(g, tries, n)
<1> DEFINE Q == {m \in Nat : \E g : SumsOf(g, tries, m)}
<1>1. 0 \in Q
  <2>1. PICK g : g = [k \in 0..0 |-> 0]
    OBVIOUS
  <2>2. SumsOf(g, tries, 0)
    BY <2>1 DEF SumsOf
  <2>3. QED
    BY <2>2
<1>2. ASSUME NEW m \in Q PROVE m + 1 \in Q
  <2>1. PICK g : SumsOf(g, tries, m)
    OBVIOUS
  <2>2. PICK v : v = g[m] + TrieBlocks(tries[m + 1])
    OBVIOUS
  <2>3. PICK h : h = [k \in 0..m + 1 |-> IF k = m + 1 THEN v ELSE g[k]]
    OBVIOUS
  <2>4. m \in Nat /\ \A k \in 0..m : h[k] = g[k]
    BY <2>3
  <2>5. h[m + 1] = v
    BY <2>3, <2>4
  <2>6. \A k \in 0..m : g[k] = IF k = 0 THEN 0 ELSE g[k-1] + TrieBlocks(tries[k])
    BY <2>1 DEF SumsOf
  <2>7. \A k \in 0..m + 1 : h[k] = IF k = 0 THEN 0 ELSE h[k-1] + TrieBlocks(tries[k])
    <3>1. SUFFICES ASSUME NEW k \in 0..m + 1
                   PROVE h[k] = IF k = 0 THEN 0 ELSE h[k-1] + TrieBlocks(tries[k])
      OBVIOUS
    <3>2. CASE k = m + 1
      BY <2>2, <2>4, <2>5, <3>2
    <3>3. CASE k # m + 1
      <4>1. k \in 0..m /\ (k # 0 => k - 1 \in 0..m)
        BY <2>4, <3>3
      <4>2. QED
        BY <2>4, <2>6, <4>1
    <3>4. QED
      BY <3>2, <3>3
  <2>8. SumsOf(h, tries, m + 1)
    BY <2>3, <2>7 DEF SumsOf
  <2>9. QED
    BY <2>4, <2>8
<1>3. Q = Nat
  <2> HIDE DEF Q
  <2>1. Q \in SUBSET Nat
    BY DEF Q
  <2>2. QED
    BY <1>1, <1>2, <2>1, SetInduction
<1>4. QED
  BY <1>3

\* BlockSums, step by step.
LEMMA SumsRec ==
  ASSUME NEW tries, Len(tries) \in Nat
  PROVE  /\ BlockSums(tries)[0] = 0
         /\ \A n \in 1..Len(tries) :
              BlockSums(tries)[n] = BlockSums(tries)[n-1] + TrieBlocks(tries[n])
<1>1. PICK g : SumsOf(g, tries, Len(tries))
  BY SumsExist
<1>2. SumsOf(BlockSums(tries), tries, Len(tries))
  BY <1>1 DEF BlockSums, SumsOf
<1>3. QED
  BY <1>2 DEF SumsOf

\* The sums are numbers.
LEMMA SumsType ==
  ASSUME NEW tries, Len(tries) \in Nat, \A h \in 1..Len(tries) : TrieBlocks(tries[h]) \in Nat
  PROVE  \A n \in 0..Len(tries) : BlockSums(tries)[n] \in Nat
<1> DEFINE S == {n \in 0..Len(tries) : BlockSums(tries)[n] \in Nat}
<1>1. 0 \in S
  BY SumsRec
<1>2. ASSUME NEW n \in 0..Len(tries), n \in S, n < Len(tries) PROVE n + 1 \in S
  <2>1. n + 1 \in 1..Len(tries) /\ (n + 1) - 1 = n
    BY <1>2
  <2>2. BlockSums(tries)[n + 1] = BlockSums(tries)[n] + TrieBlocks(tries[n + 1])
    BY <2>1, SumsRec
  <2>3. QED
    BY <1>2, <2>1, <2>2
<1>3. 0..Len(tries) \subseteq S
  <2> HIDE DEF S
  <2>1. QED
    BY <1>1, <1>2, UpTo
<1>4. QED
  BY <1>3

\* The sums of two vectors differ from the handle they differ at.
LEMMA SumsChanged ==
  ASSUME NEW tries, NEW tries2, Len(tries) \in Nat, Len(tries) <= Len(tries2), Len(tries2) \in Nat,
         \A g \in 1..Len(tries) : TrieBlocks(tries[g]) \in Nat,
         NEW h \in Nat, TrieBlocks(tries2[h]) \in Nat,
         \A g \in 1..Len(tries) : g # h => tries2[g] = tries[g]
  PROVE  \A n \in 0..Len(tries) :
           BlockSums(tries2)[n] =
             IF 1 <= h /\ h <= n
             THEN (BlockSums(tries)[n] + TrieBlocks(tries2[h])) - TrieBlocks(tries[h])
             ELSE BlockSums(tries)[n]
<1> DEFINE R(n) == BlockSums(tries2)[n] =
                     IF 1 <= h /\ h <= n
                     THEN (BlockSums(tries)[n] + TrieBlocks(tries2[h])) - TrieBlocks(tries[h])
                     ELSE BlockSums(tries)[n]
           S == {n \in 0..Len(tries) : R(n)}
<1>1. 0 \in S
  BY SumsRec
<1>2. ASSUME NEW n \in 0..Len(tries), n \in S, n < Len(tries) PROVE n + 1 \in S
  <2>1. n + 1 \in 1..Len(tries) /\ (n + 1) - 1 = n /\ n + 1 \in 1..Len(tries2)
    BY <1>2
  <2>2. /\ BlockSums(tries)[n + 1] = BlockSums(tries)[n] + TrieBlocks(tries[n + 1])
        /\ BlockSums(tries2)[n + 1] = BlockSums(tries2)[n] + TrieBlocks(tries2[n + 1])
    BY <2>1, SumsRec
  <2>3. BlockSums(tries)[n] \in Nat /\ TrieBlocks(tries[n + 1]) \in Nat
    BY <2>1, SumsType
  <2>4. R(n)
    BY <1>2
  <2>5. CASE h = n + 1
    BY <2>1, <2>2, <2>3, <2>4, <2>5
  <2>6. CASE h # n + 1
    <3>1. TrieBlocks(tries2[n + 1]) = TrieBlocks(tries[n + 1])
      BY <2>1, <2>6
    <3>2. CASE 1 <= h /\ h <= n
      <4>1. TrieBlocks(tries[h]) \in Nat
        BY <2>1, <3>2
      <4>2. QED
        BY <2>1, <2>2, <2>3, <2>4, <3>1, <3>2, <4>1
    <3>3. CASE ~(1 <= h /\ h <= n)
      BY <2>1, <2>2, <2>3, <2>4, <2>6, <3>1, <3>3
    <3>4. QED
      BY <3>2, <3>3
  <2>7. QED
    BY <2>5, <2>6
<1>3. 0..Len(tries) \subseteq S
  <2> HIDE DEF S
  <2>1. QED
    BY <1>1, <1>2, UpTo
<1>4. QED
  BY <1>3

\* One trie for another.
LEMMA TotalChanged ==
  ASSUME NEW tries, Len(tries) \in Nat, NEW tries2, Len(tries2) = Len(tries),
         \A g \in 1..Len(tries) : TrieBlocks(tries[g]) \in Nat,
         NEW h \in 1..Len(tries), TrieBlocks(tries2[h]) \in Nat,
         \A g \in 1..Len(tries) : g # h => tries2[g] = tries[g]
  PROVE  /\ Total(tries) \in Nat
         /\ Total(tries2) = (Total(tries) + TrieBlocks(tries2[h])) - TrieBlocks(tries[h])
<1>1. Len(tries) \in 0..Len(tries) /\ 1 <= h /\ h <= Len(tries) /\ h \in Nat
  OBVIOUS
<1>2. BlockSums(tries)[Len(tries)] \in Nat
  BY <1>1, SumsType
<1>3. BlockSums(tries2)[Len(tries)] =
        (BlockSums(tries)[Len(tries)] + TrieBlocks(tries2[h])) - TrieBlocks(tries[h])
  <2>1. /\ Len(tries) \in Nat /\ Len(tries) <= Len(tries2) /\ Len(tries2) \in Nat
        /\ \A g \in 1..Len(tries) : TrieBlocks(tries[g]) \in Nat
        /\ h \in Nat /\ TrieBlocks(tries2[h]) \in Nat
        /\ \A g \in 1..Len(tries) : g # h => tries2[g] = tries[g]
    BY <1>1
  <2>2. \A n \in 0..Len(tries) :
           BlockSums(tries2)[n] =
             IF 1 <= h /\ h <= n
             THEN (BlockSums(tries)[n] + TrieBlocks(tries2[h])) - TrieBlocks(tries[h])
             ELSE BlockSums(tries)[n]
    BY ONLY <2>1, SumsChanged
  <2>3. QED
    BY <1>1, <2>2
<1>4. QED
  BY <1>2, <1>3 DEF Total

\* One trie more.
LEMMA TotalAdded ==
  ASSUME NEW tries, Len(tries) \in Nat, NEW tries2, Len(tries2) = Len(tries) + 1,
         \A g \in 1..Len(tries) : TrieBlocks(tries[g]) \in Nat /\ tries2[g] = tries[g],
         TrieBlocks(tries2[Len(tries) + 1]) \in Nat
  PROVE  /\ Total(tries) \in Nat
         /\ Total(tries2) = Total(tries) + TrieBlocks(tries2[Len(tries) + 1])
<1>1. /\ Len(tries) \in 0..Len(tries) /\ Len(tries) + 1 \in 1..Len(tries2)
      /\ (Len(tries) + 1) - 1 = Len(tries) /\ ~(Len(tries) + 1 <= Len(tries))
  OBVIOUS
<1>2. BlockSums(tries)[Len(tries)] \in Nat
  BY <1>1, SumsType
<1>3. BlockSums(tries2)[Len(tries)] = BlockSums(tries)[Len(tries)]
  <2>1. PICK h : h = Len(tries) + 1
    OBVIOUS
  <2>2. /\ Len(tries) \in Nat /\ h \in Nat /\ Len(tries) <= Len(tries2) /\ Len(tries2) \in Nat /\ TrieBlocks(tries2[h]) \in Nat
        /\ \A g \in 1..Len(tries) : g # h => tries2[g] = tries[g]
        /\ \A g \in 1..Len(tries) : TrieBlocks(tries[g]) \in Nat
        /\ ~(h <= Len(tries))
    BY <2>1
  <2>3. \A n \in 0..Len(tries) :
           BlockSums(tries2)[n] =
             IF 1 <= h /\ h <= n
             THEN (BlockSums(tries)[n] + TrieBlocks(tries2[h])) - TrieBlocks(tries[h])
             ELSE BlockSums(tries)[n]
    BY ONLY <2>2, SumsChanged
  <2>4. QED
    BY <1>1, <2>2, <2>3
<1>4. BlockSums(tries2)[Len(tries) + 1] =
        BlockSums(tries2)[Len(tries)] + TrieBlocks(tries2[Len(tries) + 1])
  BY <1>1, SumsRec
<1>5. QED
  BY <1>2, <1>3, <1>4 DEF Total


-----------------------------------------------------------------------------
(* The natives.                                                             *)

\* Trie t of handle h reads as the dictionary d, S being the survivors.
Agrees(t, d, h, S) == \A k \in Keys : (k = <<>> /\ h \in S) \/ ReadsAs(retrieve(t, k), d[k])

\* A closed handle, a trie without its root, or a trie that reads as d.
Models(t, d, h, S) ==
  \/ t = NULL /\ d = NULL /\ h \notin S
  \/ Ruined(t) /\ d \in [Keys -> Values]
  \/ Sound(t) /\ Reached(t) /\ d \in [Keys -> Values] /\ Agrees(t, d, h, S)

\* The inductive invariant.
TriesInv ==
  /\ m_tries \in Seq(Trie(Values) \union {NULL})
  /\ dict \in Seq([Keys -> Values] \union {NULL})
  /\ Len(dict) = Len(m_tries)
  /\ survivors \subseteq 1..Len(m_tries)
  /\ \A h \in 1..Len(m_tries) : Models(m_tries[h], dict[h], h, survivors)

LEMMA ModelsType ==
  ASSUME NEW t, NEW d, NEW h, NEW S, Models(t, d, h, S)
  PROVE  /\ t \in Trie(Values) \union {NULL} /\ d \in [Keys -> Values] \union {NULL}
         /\ t = NULL <=> d = NULL
         /\ t = NULL => h \notin S
         /\ t # NULL => /\ t \in Trie(Values) /\ Len(t.m_base) >= BaseSize /\ d \in [Keys -> Values]
                        /\ Rooted(t) => Sound(t) /\ Reached(t) /\ Agrees(t, d, h, S)
                        /\ ~Rooted(t) => Ruined(t)
         /\ TrieBlocks(t) \in Nat
<1>1. CASE t = NULL
  <2>1. t \notin Trie(Values)
    BY <1>1, NullAssumption
  <2>2. d = NULL /\ h \notin S
    BY <2>1 DEF Models, Sound, Ruined
  <2>3. TrieBlocks(t) \in Nat
    BY <1>1 DEF TrieBlocks
  <2>4. QED
    BY <1>1, <2>2, <2>3
<1>2. CASE t # NULL
  <2>1. d \in [Keys -> Values] /\ d # NULL
    BY <1>2, NullAssumption DEF Models
  <2>2. t \in Trie(Values) /\ Len(t.m_base) >= BaseSize
    BY <1>2 DEF Models, Sound, Ruined
  <2>3. /\ Rooted(t) => Sound(t) /\ Reached(t) /\ Agrees(t, d, h, S)
        /\ ~Rooted(t) => Ruined(t)
    BY <1>2 DEF Models, Sound, Ruined, Rooted
  <2>4. QED
    BY <1>2, <2>1, <2>2, <2>3, ArrayBlocksType
<1>3. QED
  BY <1>1, <1>2

LEMMA ModelsSame ==
  ASSUME NEW t, NEW d, NEW h, NEW S, Models(t, d, h, S), NEW T, h \in T <=> h \in S
  PROVE  Models(t, d, h, T)
  BY DEF Models, Agrees

\* A step that changes a handle's trie and its dictionary.
LEMMA HandleChanged ==
  ASSUME TriesInv, NEW h \in 1..Len(m_tries), NEW t2, NEW d2, Models(t2, d2, h, survivors'),
         m_tries' = [m_tries EXCEPT ![h] = t2], dict' = [dict EXCEPT ![h] = d2],
         survivors' \subseteq 1..Len(m_tries),
         \A g : g # h => (g \in survivors' <=> g \in survivors)
  PROVE  TriesInv'
<1>1. PICK S, D : S = Trie(Values) \union {NULL} /\ D = [Keys -> Values] \union {NULL}
  OBVIOUS
<1>2. /\ m_tries \in Seq(S) /\ dict \in Seq(D) /\ Len(dict) = Len(m_tries) /\ t2 \in S /\ d2 \in D
      /\ Len(m_tries) \in Nat /\ \A g \in 1..Len(m_tries) : Models(m_tries[g], dict[g], g, survivors)
  BY <1>1, ModelsType DEF TriesInv
<1>3. /\ m_tries' \in Seq(S) /\ Len(m_tries') = Len(m_tries)
      /\ \A g \in 1..Len(m_tries) : m_tries'[g] = IF g = h THEN t2 ELSE m_tries[g]
  BY <1>2
<1>4. /\ dict' \in Seq(D) /\ Len(dict') = Len(m_tries)
      /\ \A g \in 1..Len(m_tries) : dict'[g] = IF g = h THEN d2 ELSE dict[g]
  BY <1>2
<1>5. ASSUME NEW g \in 1..Len(m_tries') PROVE Models(m_tries'[g], dict'[g], g, survivors')
  <2>1. CASE g = h
    BY <1>3, <1>4, <2>1
  <2>2. CASE g # h
    <3>1. Models(m_tries[g], dict[g], g, survivors')
      BY <1>2, <1>3, <2>2, ModelsSame
    <3>2. QED
      BY <1>3, <1>4, <2>2, <3>1
  <2>3. QED
    BY <2>1, <2>2
<1>6. QED
  BY <1>1, <1>3, <1>4, <1>5 DEF TriesInv

\* A step that adds a handle.
LEMMA HandleAdded ==
  ASSUME TriesInv, NEW t2, NEW d2, Models(t2, d2, Len(m_tries) + 1, survivors),
         m_tries' = Append(m_tries, t2), dict' = Append(dict, d2), survivors' = survivors
  PROVE  TriesInv'
<1>1. PICK S, D : S = Trie(Values) \union {NULL} /\ D = [Keys -> Values] \union {NULL}
  OBVIOUS
<1>2. /\ m_tries \in Seq(S) /\ dict \in Seq(D) /\ Len(dict) = Len(m_tries) /\ t2 \in S /\ d2 \in D
      /\ Len(m_tries) \in Nat /\ \A g \in 1..Len(m_tries) : Models(m_tries[g], dict[g], g, survivors)
      /\ survivors \subseteq 1..Len(m_tries)
  BY <1>1, ModelsType DEF TriesInv
<1>3. /\ m_tries' \in Seq(S) /\ Len(m_tries') = Len(m_tries) + 1
      /\ \A g \in 1..Len(m_tries) : m_tries'[g] = m_tries[g]
      /\ m_tries'[Len(m_tries) + 1] = t2
  BY <1>2
<1>4. /\ dict' \in Seq(D) /\ Len(dict') = Len(m_tries) + 1
      /\ \A g \in 1..Len(m_tries) : dict'[g] = dict[g]
      /\ dict'[Len(m_tries) + 1] = d2
  BY <1>2
<1>5. ASSUME NEW g \in 1..Len(m_tries') PROVE Models(m_tries'[g], dict'[g], g, survivors')
  <2>1. g \in 1..Len(m_tries) \/ g = Len(m_tries) + 1
    BY <1>2, <1>3
  <2>2. QED
    BY <1>2, <1>3, <1>4, <2>1
<1>6. survivors' \subseteq 1..Len(m_tries')
  BY <1>2, <1>3
<1>7. QED
  BY <1>1, <1>3, <1>4, <1>5, <1>6 DEF TriesInv

\* A sequence begins a longer one, and every sequence itself.
LEMMA PrefixFacts ==
  ASSUME NEW D, NEW s \in Seq(D), NEW r \in Seq(D)
  PROVE  IsPrefix(s, s \o r) /\ IsPrefix(s, s)
<1>1. PICK u : u = s \o r
  OBVIOUS
<1>2. /\ u \in Seq(D) /\ Len(u) = Len(s) + Len(r) /\ Len(s) \in Nat /\ Len(r) \in Nat
      /\ \A i \in 1..Len(s) : u[i] = s[i]
  BY <1>1
<1>3. ASSUME NEW x \in Seq(D), Len(s) <= Len(x), \A i \in 1..Len(s) : x[i] = s[i]
      PROVE  IsPrefix(s, x)
  <2>1. SubSeq(x, 1, Len(s)) = SubSeq(s, 1, Len(s))
    BY <1>2, <1>3
  <2>2. QED
    BY <1>3, <2>1 DEF IsPrefix
<1>4. IsPrefix(s, u) /\ IsPrefix(s, s)
  BY <1>2, <1>3
<1>5. QED
  BY <1>1, <1>4

\* What is found of what was stored.
LEMMA ReadsFacts ==
  /\ ReadsAs(NoValue, NoValue)
  /\ \A td, e : ReadsAs(td, e) => (td = NoValue <=> e = NoValue)
  BY DEF ReadsAs

\* What a set native writes and what the dictionary stores: the one reads as
\* the other if the old values did, or if the write leaves nothing of them.
LEMMA SetFacts ==
  ASSUME NEW w \in Writes, NEW e \in Values, NEW old \in Values,
         NEW td, td = IF old = NoValue THEN UnsetData ELSE old
  PROVE  /\ td # NoValue /\ Set(td, w) \in Values
         /\ Dict!Stored(e, w.type, w.data) \in Values
         /\ ReadsAs(old, e) \/ w.type = "CELL" \/ w.data # <<>> =>
              ReadsAs(Set(td, w), Dict!Stored(e, w.type, w.data))
<1>1. /\ w.key \in Keys /\ w.type \in {"CELL", "STRING", "ARRAY"}
      /\ w.type # "CELL" => w.data \in Seq(Range(w.data))
      /\ w.type = "STRING" => w.data # <<>>
  BY WriteAssumption
<1>2. <<>> \in Seq(DataCells)
  OBVIOUS
<1>3. UnsetData \in TrieData /\ UnsetData.data = <<>> /\ UnsetData.type = "UNSET"
  BY <1>2 DEF UnsetData, TrieData
<1>4. td \in TrieData /\ td # NoValue
  BY <1>3, NoValueAssumption DEF Values
<1>5. td.data \in Seq(DataCells)
  BY <1>2, <1>4 DEF TrieData
<1>6. PICK st : st = Dict!Stored(e, w.type, w.data)
  OBVIOUS
<1>7. CASE w.type = "CELL"
  <2>1. PICK c : c = [type |-> "CELL", data |-> <<>>, cell |-> w.data]
    OBVIOUS
  <2>2. Set(td, w) = c /\ st = c
    BY <1>6, <1>7, <2>1 DEF Set, Dict!Stored
  <2>3. c \in TrieData
    BY <1>7, <2>1 DEF TrieData
  <2>4. c # NoValue /\ c \in Values
    BY <2>3, NoValueAssumption DEF Values
  <2>5. IsPrefix(c.data, c.data)
    BY <1>2, <2>1, PrefixFacts
  <2>6. ReadsAs(c, c)
    BY <2>4, <2>5 DEF ReadsAs
  <2>7. QED
    BY <1>4, <1>6, <2>2, <2>4, <2>6
<1>8. CASE w.type = "ARRAY" /\ w.data = <<>>
  <2>1. Set(td, w) = td
    BY <1>8 DEF Set
  <2>2. st = IF e = NoValue THEN UnsetData ELSE e
    <3>1. Dict!Unset = UnsetData
      BY DEF Dict!Unset, UnsetData
    <3>2. QED
      BY <1>6, <1>8, <3>1 DEF Dict!Stored
  <2>3. td \in Values /\ st \in Values
    BY <1>3, <1>4, <2>2 DEF Values
  <2>4. ASSUME ReadsAs(old, e) PROVE ReadsAs(td, st)
    <3>1. CASE e = NoValue
      <4>1. td = UnsetData /\ st = UnsetData
        BY <2>2, <2>4, <3>1, ReadsFacts
      <4>2. IsPrefix(UnsetData.data, UnsetData.data) /\ UnsetData # NoValue
        BY <1>2, <1>3, PrefixFacts, NoValueAssumption
      <4>3. QED
        BY <1>3, <4>1, <4>2 DEF ReadsAs
    <3>2. CASE e # NoValue
      BY <2>2, <2>4, <3>2, ReadsFacts
    <3>3. QED
      BY <3>1, <3>2
  <2>5. QED
    BY <1>4, <1>6, <1>8, <2>1, <2>3, <2>4
<1>9. CASE w.type # "CELL" /\ w.data # <<>>
  <2>1. PICK s, o : s = SubSeq(td.data, Len(w.data) + 1, Len(td.data)) /\ o = w.data \o s
    OBVIOUS
  <2>2. Set(td, w) = [type |-> w.type, data |-> o]
    BY <1>9, <2>1 DEF Set, Overwritten
  <2>3. st = [type |-> w.type, data |-> w.data]
    BY <1>6, <1>9 DEF Dict!Stored
  <2>4. w.data \in Seq(DataCells)
    <3>1. Range(w.data) \subseteq DataCells
      BY <1>9 DEF DataCells
    <3>2. w.data \in Seq(Range(w.data))
      BY <1>1, <1>9
    <3>3. QED
      BY <3>1, <3>2
  <2>5. s \in Seq(DataCells) /\ o \in Seq(DataCells)
    <3>1. s \in Seq(DataCells)
      BY <1>5, <2>1, <2>4
    <3>2. QED
      BY <2>1, <2>4, <3>1
  <2>6. ASSUME NEW x \in Seq(DataCells) PROVE [type |-> w.type, data |-> x] \in TrieData
    <3>1. w.type \in {"UNSET", "STRING", "ARRAY"}
      BY <1>1, <1>9
    <3>2. QED
      BY <3>1 DEF TrieData
  <2>7. Set(td, w) \in TrieData /\ st \in TrieData
    BY <2>2, <2>3, <2>4, <2>5, <2>6
  <2>8. Set(td, w) \in Values /\ st \in Values /\ Set(td, w) # NoValue /\ st # NoValue
    BY <2>7, NoValueAssumption DEF Values
  <2>9. IsPrefix(w.data, o)
    BY <2>1, <2>4, <2>5, PrefixFacts
  <2>10. PICK a : a = Set(td, w)
    OBVIOUS
  <2>11. ReadsAs(a, st)
    <3>1. a.type = w.type /\ st.type = w.type /\ st.data = w.data /\ a.data = o
      BY <2>2, <2>3, <2>10
    <3>2. QED
      BY <1>9, <2>8, <2>9, <2>10, <3>1 DEF ReadsAs
  <2>12. QED
    BY <1>4, <1>6, <2>8, <2>10, <2>11
<1>10. QED
  BY <1>1, <1>7, <1>8, <1>9

\* The trie of a handle that lookup accepts.
LEMMA HandleFacts ==
  ASSUME TriesInv, NEW h \in Handles
  PROVE  /\ h \in 1..Len(m_tries) /\ m_tries[h] # NULL /\ dict[h] # NULL
         /\ Models(m_tries[h], dict[h], h, survivors)
         /\ m_tries[h] \in Trie(Values) /\ Len(m_tries[h].m_base) >= BaseSize
         /\ dict[h] \in [Keys -> Values]
         /\ Rooted(m_tries[h]) => /\ Sound(m_tries[h]) /\ Reached(m_tries[h])
                                  /\ Agrees(m_tries[h], dict[h], h, survivors)
         /\ ~Rooted(m_tries[h]) => Ruined(m_tries[h])
         /\ h \in 1..Len(dict) /\ Len(m_tries) \in Nat
         /\ survivors \subseteq 1..Len(m_tries)
<1>1. /\ h \in 1..Len(m_tries) /\ m_tries[h] # NULL /\ h \in 1..Len(dict)
      /\ Models(m_tries[h], dict[h], h, survivors) /\ Len(m_tries) \in Nat
      /\ survivors \subseteq 1..Len(m_tries)
  BY DEF TriesInv, Handles
<1>2. QED
  BY <1>1, ModelsType

LEMMA InitInv == Init => TriesInv
<1>1. SUFFICES ASSUME Init PROVE TriesInv
  OBVIOUS
<1>2. m_tries = <<>> /\ dict = <<>> /\ survivors = {}
  BY <1>1 DEF Init, Dict!Init
<1>3. QED
  BY <1>2 DEF TriesInv

\* TrieCreate reuses the handle that Dictionaries reuses.
LEMMA CreateInv ==
  ASSUME TriesInv, TrieCreate
  PROVE  TriesInv'
<1>1. ASSUME NEW h PROVE Models(NewTrie, Dict!AbsentAll, h, survivors)
  <2>1. Dict!AbsentAll = [k \in Keys |-> NoValue]
    BY DEF Dict!AbsentAll
  <2>2. NoValue \in Values /\ \A k \in Keys : k \in Seq(Chars)
    BY KeyAssumption DEF Values
  <2>3. Agrees(NewTrie, Dict!AbsentAll, h, survivors)
    BY <2>1, <2>2, NewTrieIs, ReadsFacts DEF Agrees
  <2>4. QED
    BY <2>1, <2>2, <2>3, NewTrieIs DEF Models
<1>2. PICK closed : closed = {h \in DOMAIN dict : dict[h] = NULL}
  OBVIOUS
<1>3. /\ Len(m_tries) \in Nat /\ DOMAIN m_tries = 1..Len(m_tries) /\ DOMAIN dict = DOMAIN m_tries
      /\ \A h \in 1..Len(m_tries) : m_tries[h] = NULL <=> dict[h] = NULL
      /\ survivors \subseteq 1..Len(m_tries) /\ survivors' = survivors
  BY ModelsType DEF TriesInv, TrieCreate
<1>4. closed = DOMAIN m_tries \ Handles
  BY <1>2, <1>3 DEF Handles
<1>5. IF closed = {} THEN dict' = Append(dict, Dict!AbsentAll)
      ELSE \E h \in closed : /\ \A g \in closed : h <= g
                             /\ dict' = [dict EXCEPT ![h] = Dict!AbsentAll]
  BY <1>2 DEF TrieCreate, Dict!Create
<1>6. CASE Handles # DOMAIN m_tries
  <2>1. closed # {} /\ closed \in SUBSET Nat
    BY <1>3, <1>4, <1>6 DEF Handles
  <2>2. m_tries' = [m_tries EXCEPT ![Min(closed)] = NewTrie]
    BY <1>4, <1>6, Zenon DEF TrieCreate
  <2>3. PICK h \in closed : /\ \A g \in closed : h <= g
                            /\ dict' = [dict EXCEPT ![h] = Dict!AbsentAll]
    BY <1>5, <2>1
  <2>4. Min(closed) \in closed /\ \A y \in closed : Min(closed) <= y
    BY <2>1, MinOf
  <2>5. h = Min(closed)
    <3>1. PICK m : m = Min(closed)
      OBVIOUS
    <3>2. m \in Nat /\ h \in Nat /\ m <= h /\ h <= m
      BY <2>1, <2>3, <2>4, <3>1
    <3>3. QED
      BY <3>1, <3>2
  <2>6. h \in 1..Len(m_tries)
    BY <1>3, <1>4
  <2>7. Models(NewTrie, Dict!AbsentAll, h, survivors')
    BY <1>1, <1>3
  <2>8. m_tries' = [m_tries EXCEPT ![h] = NewTrie]
    BY <2>2, <2>5
  <2>9. QED
    BY <1>3, <2>3, <2>6, <2>7, <2>8, HandleChanged
<1>7. CASE Handles = DOMAIN m_tries
  <2>1. m_tries' = Append(m_tries, NewTrie)
    BY <1>7 DEF TrieCreate
  <2>2. dict' = Append(dict, Dict!AbsentAll)
    BY <1>4, <1>5, <1>7
  <2>3. QED
    BY <1>1, <1>3, <2>1, <2>2, HandleAdded
<1>8. QED
  BY <1>6, <1>7

\* What retrieve finds is a value or nothing.
LEMMA RetrieveType ==
  ASSUME NEW t, Sound(t), NEW k \in Seq(Chars)
  PROVE  retrieve(t, k) \in Values
<1>1. CASE k = <<>>
  BY <1>1, TrieParts DEF retrieve, Sound
<1>2. CASE k # <<>> /\ retrieve(t, k) # NoValue
  <2>1. PICK n : Hit(t, k, n)
    BY <1>2, RetrieveMiss
  <2>2. retrieve(t, k) = NodeAt(t, Path(t, k)[n]).val /\ Path(t, k)[n] \in Used(t)
    BY <1>2, <2>1, RetrieveHit
  <2>3. QED
    BY <2>2, NodeFacts, NodeParts
<1>3. CASE retrieve(t, k) = NoValue
  BY <1>3 DEF Values
<1>4. QED
  BY <1>1, <1>2, <1>3

\* What a store does to the trie once insert has made the node, if it has.
LEMMA SetStores ==
  ASSUME NEW t, Sound(t), NEW w \in Writes, NEW o, o = retrieve(t, w.key),
         NEW t2, t2 = IF o = NoValue THEN insert(t, w.key, UnsetData) ELSE t
  PROVE  \/ /\ Rooted(t2) /\ retrieve(t2, w.key) = IF o = NoValue THEN UnsetData ELSE o
            /\ Stores(t, assign(t2, w.key, Set(retrieve(t2, w.key), w)), w.key,
                      Set(retrieve(t2, w.key), w))
         \/ /\ o = NoValue /\ w.key # <<>> /\ 1 \in Range(w.key) /\ RootTaken(t, t2, UnsetData)
<1>1. w.key \in Seq(Chars) /\ o \in Values
  BY WriteAssumption, KeyAssumption, RetrieveType
<1>2. UnsetData \in Values /\ UnsetData # NoValue
  <2>1. <<>> \in Seq(DataCells)
    OBVIOUS
  <2>2. UnsetData \in TrieData
    BY <2>1 DEF UnsetData, TrieData
  <2>3. QED
    BY <2>2, NoValueAssumption DEF Values
<1>3. PICK td : td = retrieve(t2, w.key)
  OBVIOUS
<1>4. \/ /\ Sound(t2) /\ Keeps(t, t2) /\ td = IF o = NoValue THEN UnsetData ELSE o
         /\ \A k \in Seq(Chars) : k # w.key => retrieve(t2, k) = retrieve(t, k)
      \/ o = NoValue /\ RootTaken(t, t2, UnsetData) /\ 1 \in Range(w.key)
  <2>1. CASE o = NoValue
    <3>1. \/ Stores(t, t2, w.key, UnsetData)
          \/ RootTaken(t, t2, UnsetData) /\ 1 \in Range(w.key)
      BY <1>1, <1>2, <2>1, InsertKey
    <3>2. QED
      BY <1>1, <1>3, <2>1, <3>1 DEF Stores
  <2>2. CASE o # NoValue
    BY <1>3, <2>2 DEF Keeps
  <2>3. QED
    BY <2>1, <2>2
<1>5. CASE /\ Sound(t2) /\ Keeps(t, t2) /\ td = IF o = NoValue THEN UnsetData ELSE o
           /\ \A k \in Seq(Chars) : k # w.key => retrieve(t2, k) = retrieve(t, k)
  <2>1. PICK new, t3 : new = Set(td, w) /\ t3 = assign(t2, w.key, new)
    OBVIOUS
  <2>2. td # NoValue /\ new \in Values
    BY <1>1, <1>5, <2>1, SetFacts
  <2>3. Stores(t2, t3, w.key, new)
    BY <1>1, <1>3, <1>5, <2>1, <2>2, AssignKey
  <2>4. Stores(t, t3, w.key, new)
    BY <1>5, <2>3, KeepsTrans DEF Stores
  <2>5. Rooted(t2)
    BY <1>5 DEF Sound, Rooted
  <2>6. QED
    BY <1>3, <1>5, <2>1, <2>4, <2>5
<1>6. CASE o = NoValue /\ RootTaken(t, t2, UnsetData) /\ 1 \in Range(w.key)
  <2>1. w.key # <<>>
    BY <1>6 DEF Range
  <2>2. QED
    BY <1>6, <2>1
<1>7. QED
  BY <1>4, <1>5, <1>6


\* A store writes its key, or takes the root away; the block of the value
\* before becomes the block of the value written.
LEMMA SetStep ==
  ASSUME TriesInv, NEW h \in Handles, NEW w \in Writes, TrieSet(h, w)
  PROVE  \E t3, o :
           /\ o = retrieve(m_tries[h], w.key)
           /\ m_tries' = [m_tries EXCEPT ![h] = t3]
           /\ TrieBlocks(t3) \in Nat
           /\ blocks \in Int => blocks' = (blocks + TrieBlocks(t3)) - TrieBlocks(m_tries[h])
           /\ \/ Stores(m_tries[h], t3, w.key, Set(IF o = NoValue THEN UnsetData ELSE o, w))
              \/ Ruined(t3) /\ 1 \in Range(w.key)
<1>1. PICK t, o : t = m_tries[h] /\ o = retrieve(t, w.key)
  OBVIOUS
<1>2. PICK t2 : t2 = IF o = NoValue THEN insert(t, w.key, UnsetData) ELSE t
  OBVIOUS
<1>3. PICK td : td = retrieve(t2, w.key)
  OBVIOUS
<1>4. /\ Rooted(t)
      /\ \/ /\ td # NoValue
            /\ m_tries' = [m_tries EXCEPT ![h] = assign(t2, w.key, Set(td, w))]
            /\ blocks' = (blocks + Blocks(Set(td, w))) - Blocks(td)
         \/ /\ td = NoValue
            /\ m_tries' = [m_tries EXCEPT ![h] = t2]
            /\ UNCHANGED blocks
         \/ /\ td = NoValue /\ ~Rooted(t2)
            /\ \E i \in SetSlots(t2) : StoreAt(h, t2, i, w)
  BY <1>1, <1>2, <1>3, Zenon DEF TrieSet
<1>5. Sound(t) /\ Reached(t) /\ t \in Trie(Values) /\ w.key \in Seq(Chars)
  BY <1>1, <1>4, HandleFacts, WriteAssumption, KeyAssumption
<1>6. TrieBlocks(t) \in Nat
  BY <1>5, ArrayBlocksType
<1>7. CASE /\ Rooted(t2) /\ td = IF o = NoValue THEN UnsetData ELSE o
           /\ Stores(t, assign(t2, w.key, Set(td, w)), w.key, Set(td, w))
  <2>1. PICK t3, new : t3 = assign(t2, w.key, Set(td, w)) /\ new = Set(td, w)
    OBVIOUS
  <2>2. td # NoValue
    <3>1. o \in Values
      BY <1>1, <1>5, RetrieveType
    <3>2. QED
      BY <1>7, <3>1, SetFacts
  <2>3. m_tries' = [m_tries EXCEPT ![h] = t3] /\ blocks' = (blocks + Blocks(new)) - Blocks(td)
    BY <1>4, <2>1, <2>2, Zenon
  <2>4. Stores(t, t3, w.key, new) /\ Blocks(td) = Blocks(o)
    BY <1>7, <2>1, BlocksFacts
  <2>5. TrieBlocks(t3) = (TrieBlocks(t) + Blocks(new)) - Blocks(o)
    BY <1>1, <1>5, <2>4, StoresBlocks
  <2>6. TrieBlocks(t3) \in Nat
    BY <2>4, ArrayBlocksType DEF Stores, Sound
  <2>7. blocks \in Int => blocks' = (blocks + TrieBlocks(t3)) - TrieBlocks(t)
    BY <1>6, <2>3, <2>4, <2>5, BlocksFacts
  <2>8. QED
    BY <1>1, <1>7, <2>1, <2>3, <2>4, <2>6, <2>7
<1>8. CASE o = NoValue /\ w.key # <<>> /\ 1 \in Range(w.key) /\ RootTaken(t, t2, UnsetData)
  <2>1. Ruined(t2) /\ TrieBlocks(t2) = TrieBlocks(t)
    BY <1>5, <1>8, BlocksFacts, TakenRuins
  <2>2. ASSUME NEW i \in SetSlots(t2), StoreAt(h, t2, i, w)
        PROVE  \E t3 : /\ m_tries' = [m_tries EXCEPT ![h] = t3] /\ Ruined(t3) /\ TrieBlocks(t3) \in Nat
                       /\ blocks \in Int => blocks' = (blocks + TrieBlocks(t3)) - TrieBlocks(t)
    <3>1. PICK old, new, t3 : /\ old = t2.m_base[i].val /\ new = Set(old, w)
                              /\ t3 = [t2 EXCEPT !.m_base[i].val = new]
      OBVIOUS
    <3>2. /\ m_tries' = [m_tries EXCEPT ![h] = t3]
          /\ blocks' = (blocks + Blocks(new)) - Blocks(old)
      BY <2>2, <3>1, Zenon DEF StoreAt
    <3>3. old \in Values /\ old # NoValue
      <4>1. i \in 1..Len(t2.m_base) /\ t2.m_base[i] \in Node(Values)
        BY <2>1, TrieParts DEF SetSlots, Ruined
      <4>2. QED
        BY <3>1, <4>1 DEF SetSlots, Node
    <3>4. new \in Values
      BY <3>1, <3>3, SetFacts
    <3>5. Ruined(t3) /\ TrieBlocks(t3) = (TrieBlocks(t2) + Blocks(new)) - Blocks(old)
      BY <2>1, <3>1, <3>4, RuinedWritten
    <3>6. TrieBlocks(t3) \in Nat
      BY <3>5, ArrayBlocksType DEF Ruined
    <3>7. blocks \in Int => blocks' = (blocks + TrieBlocks(t3)) - TrieBlocks(t)
      BY <1>6, <2>1, <3>2, <3>5, BlocksFacts
    <3>8. QED
      BY <3>2, <3>5, <3>6, <3>7
  <2>3. \E t3 : /\ m_tries' = [m_tries EXCEPT ![h] = t3] /\ Ruined(t3) /\ TrieBlocks(t3) \in Nat
                /\ blocks \in Int => blocks' = (blocks + TrieBlocks(t3)) - TrieBlocks(t)
    <3>1. CASE /\ td # NoValue
               /\ m_tries' = [m_tries EXCEPT ![h] = assign(t2, w.key, Set(td, w))]
               /\ blocks' = (blocks + Blocks(Set(td, w))) - Blocks(td)
      <4>1. PICK i : i = internal_retrieve(t2, w.key)
        OBVIOUS
      <4>2. i \in SetSlots(t2) /\ td = t2.m_base[i].val
        BY <1>3, <1>5, <1>8, <2>1, <3>1, <4>1, RuinedRetrieve
      <4>3. assign(t2, w.key, Set(td, w)) = [t2 EXCEPT !.m_base[i].val = Set(td, w)]
        BY <1>8, <4>1, Zenon DEF assign
      <4>4. StoreAt(h, t2, i, w)
        BY <3>1, <4>2, <4>3, Zenon DEF StoreAt
      <4>5. QED
        BY <2>2, <4>2, <4>4
    <3>2. CASE td = NoValue /\ m_tries' = [m_tries EXCEPT ![h] = t2] /\ UNCHANGED blocks
      <4>1. TrieBlocks(t2) \in Nat
        BY <1>6, <2>1
      <4>2. blocks \in Int => blocks' = (blocks + TrieBlocks(t2)) - TrieBlocks(t)
        BY <1>6, <2>1, <3>2
      <4>3. QED
        BY <2>1, <3>2, <4>1, <4>2
    <3>3. CASE \E i \in SetSlots(t2) : StoreAt(h, t2, i, w)
      BY <2>2, <3>3
    <3>4. QED
      BY <1>4, <3>1, <3>2, <3>3
  <2>4. QED
    BY <1>1, <1>8, <2>3
<1>9. QED
  <2>1. \/ /\ Rooted(t2) /\ retrieve(t2, w.key) = IF o = NoValue THEN UnsetData ELSE o
           /\ Stores(t, assign(t2, w.key, Set(retrieve(t2, w.key), w)), w.key,
                     Set(retrieve(t2, w.key), w))
        \/ /\ o = NoValue /\ w.key # <<>> /\ 1 \in Range(w.key) /\ RootTaken(t, t2, UnsetData)
    BY <1>1, <1>2, <1>5, SetStores
  <2>2. QED
    BY <1>3, <1>7, <1>8, <2>1

LEMMA SetInv ==
  ASSUME TriesInv, NEW h \in Handles, NEW w \in Writes, TrieSet(h, w)
  PROVE  TriesInv'
<1>1. PICK t, d : t = m_tries[h] /\ d = dict[h]
  OBVIOUS
<1>2. PICK t3, o : /\ o = retrieve(t, w.key)
                   /\ m_tries' = [m_tries EXCEPT ![h] = t3]
                   /\ \/ Stores(t, t3, w.key, Set(IF o = NoValue THEN UnsetData ELSE o, w))
                      \/ Ruined(t3)
  BY <1>1, SetStep
<1>3. /\ h \in 1..Len(m_tries) /\ d \in [Keys -> Values] /\ w.key \in Keys /\ w.key \in Seq(Chars)
      /\ survivors \subseteq 1..Len(m_tries)
  BY <1>1, HandleFacts, WriteAssumption, KeyAssumption
<1>4. Sound(t) /\ Reached(t) /\ Agrees(t, d, h, survivors)
  <2>1. Rooted(t)
    BY <1>1, Zenon DEF TrieSet
  <2>2. QED
    BY <1>1, <2>1, HandleFacts
<1>5. survivors' = IF w.key = <<>> /\ (w.type = "CELL" \/ w.data # <<>>)
                   THEN survivors \ {h} ELSE survivors
  BY Zenon DEF TrieSet
<1>6. PICK st, d2 : st = Dict!Stored(d[w.key], w.type, w.data) /\ d2 = [d EXCEPT ![w.key] = st]
  OBVIOUS
<1>7. dict' = [dict EXCEPT ![h] = d2]
  <2>1. dict' = [dict EXCEPT ![h] =
                   [dict[h] EXCEPT ![w.key] = Dict!Stored(dict[h][w.key], w.type, w.data)]]
    BY Zenon DEF TrieSet, Dict!Store
  <2>2. QED
    BY <1>1, <1>6, <2>1, Zenon
<1>8. PICK new : new = Set(IF o = NoValue THEN UnsetData ELSE o, w)
  OBVIOUS
<1>9. /\ st \in Values
      /\ ReadsAs(o, d[w.key]) \/ w.type = "CELL" \/ w.data # <<>> => ReadsAs(new, st)
  <2>1. d[w.key] \in Values /\ o \in Values
    BY <1>2, <1>3, <1>4, RetrieveType
  <2>2. QED
    BY <1>6, <1>8, <2>1, SetFacts
<1>10. /\ d2 \in [Keys -> Values]
       /\ \A k \in Keys : d2[k] = IF k = w.key THEN st ELSE d[k]
  BY <1>3, <1>6, <1>9
<1>11. Models(t3, d2, h, survivors')
  <2>1. CASE Stores(t, t3, w.key, new)
    <3>1. ASSUME NEW k \in Keys
          PROVE  (k = <<>> /\ h \in survivors') \/ ReadsAs(retrieve(t3, k), d2[k])
      <4>1. k \in Seq(Chars)
        BY KeyAssumption
      <4>2. retrieve(t3, k) = IF k = w.key THEN new ELSE retrieve(t, k)
        BY <2>1, <4>1 DEF Stores
      <4>3. (k = <<>> /\ h \in survivors) \/ ReadsAs(retrieve(t, k), d[k])
        BY <1>4 DEF Agrees
      <4>4. CASE k = w.key
        BY <1>2, <1>5, <1>9, <1>10, <4>2, <4>3, <4>4
      <4>5. CASE k # w.key
        BY <1>5, <1>10, <4>2, <4>3, <4>5
      <4>6. QED
        BY <4>4, <4>5
    <3>2. Sound(t3) /\ Reached(t3)
      BY <1>4, <2>1 DEF Stores, Keeps
    <3>3. QED
      BY <1>10, <3>1, <3>2 DEF Models, Agrees
  <2>2. CASE Ruined(t3)
    BY <1>10, <2>2 DEF Models
  <2>3. QED
    BY <1>2, <1>8, <2>1, <2>2
<1>12. QED
  BY <1>2, <1>3, <1>5, <1>7, <1>11, HandleChanged

LEMMA DeleteInv ==
  ASSUME TriesInv, NEW h \in Handles, NEW k \in Keys, TrieDeleteKey(h, k)
  PROVE  TriesInv'
<1>1. PICK t, d : t = m_tries[h] /\ d = dict[h]
  OBVIOUS
<1>2. /\ h \in 1..Len(m_tries) /\ d \in [Keys -> Values] /\ NoValue \in Values /\ k \in Seq(Chars)
      /\ survivors \subseteq 1..Len(m_tries)
  BY <1>1, HandleFacts, KeyAssumption DEF Values
<1>3. Sound(t) /\ Reached(t) /\ Agrees(t, d, h, survivors)
  <2>1. Rooted(t)
    BY <1>1, Zenon DEF TrieDeleteKey
  <2>2. QED
    BY <1>1, <2>1, HandleFacts
<1>4. PICK t2, d2 : t2 = remove(t, k) /\ d2 = [d EXCEPT ![k] = NoValue]
  OBVIOUS
<1>5. Stores(t, t2, k, NoValue)
  BY <1>2, <1>3, <1>4, RemoveKey
<1>6. m_tries' = [m_tries EXCEPT ![h] = t2] /\ dict' = [dict EXCEPT ![h] = d2]
  BY <1>1, <1>4, Zenon DEF TrieDeleteKey, Dict!Delete
<1>7. survivors' = IF k = <<>> THEN survivors \ {h} ELSE survivors
  BY Zenon DEF TrieDeleteKey, Forgotten
<1>8. d2 \in [Keys -> Values] /\ \A l \in Keys : d2[l] = IF l = k THEN NoValue ELSE d[l]
  BY <1>2, <1>4
<1>9. Agrees(t2, d2, h, survivors')
  <2>1. ASSUME NEW l \in Keys
        PROVE  (l = <<>> /\ h \in survivors') \/ ReadsAs(retrieve(t2, l), d2[l])
    <3>1. retrieve(t2, l) = IF l = k THEN NoValue ELSE retrieve(t, l)
      BY <1>5, KeyAssumption DEF Stores
    <3>2. (l = <<>> /\ h \in survivors) \/ ReadsAs(retrieve(t, l), d[l])
      BY <1>3 DEF Agrees
    <3>3. QED
      BY <1>7, <1>8, <3>1, <3>2, ReadsFacts
  <2>2. QED
    BY <2>1 DEF Agrees
<1>10. Models(t2, d2, h, survivors')
  BY <1>3, <1>5, <1>8, <1>9 DEF Models, Stores, Keeps
<1>11. QED
  BY <1>2, <1>6, <1>7, <1>10, HandleChanged

\* TrieClear gives a ruined trie its root back.
LEMMA ClearInv ==
  ASSUME TriesInv, NEW h \in Handles, TrieClear(h)
  PROVE  TriesInv'
<1>1. PICK t, t2, d2 : t = m_tries[h] /\ t2 = clear(t) /\ d2 = Dict!AbsentAll
  OBVIOUS
<1>2. /\ h \in 1..Len(m_tries) /\ t \in Trie(Values) /\ Len(t.m_base) >= BaseSize
      /\ survivors \subseteq 1..Len(m_tries)
  BY <1>1, HandleFacts
<1>3. m_tries' = [m_tries EXCEPT ![h] = t2] /\ dict' = [dict EXCEPT ![h] = d2]
  BY <1>1, Zenon DEF TrieClear, Dict!Clear
<1>4. survivors' = IF t.m_empty = NoValue THEN survivors ELSE survivors \union {h}
  BY <1>1, Zenon DEF TrieClear
<1>5. d2 \in [Keys -> Values] /\ \A k \in Keys : d2[k] = NoValue
  BY <1>1 DEF Dict!AbsentAll, Values
<1>6. /\ Sound(t2) /\ Reached(t2)
      /\ \A k \in Seq(Chars) : retrieve(t2, k) = IF k = <<>> THEN t.m_empty ELSE NoValue
  <2>1. retrieve(t, <<>>) = t.m_empty
    BY Zenon DEF retrieve
  <2>2. QED
    BY <1>1, <1>2, <2>1, ClearIs
<1>7. Agrees(t2, d2, h, survivors')
  <2>1. ASSUME NEW k \in Keys
        PROVE  (k = <<>> /\ h \in survivors') \/ ReadsAs(retrieve(t2, k), d2[k])
    BY <1>4, <1>5, <1>6, KeyAssumption, ReadsFacts
  <2>2. QED
    BY <2>1 DEF Agrees
<1>8. Models(t2, d2, h, survivors')
  BY <1>5, <1>6, <1>7 DEF Models
<1>9. QED
  BY <1>2, <1>3, <1>4, <1>8, HandleChanged

LEMMA DestroyInv ==
  ASSUME TriesInv, NEW h \in Handles, TrieDestroy(h)
  PROVE  TriesInv'
<1>1. h \in 1..Len(m_tries) /\ survivors \subseteq 1..Len(m_tries)
  BY HandleFacts
<1>2. /\ m_tries' = [m_tries EXCEPT ![h] = NULL] /\ dict' = [dict EXCEPT ![h] = NULL]
      /\ survivors' = survivors \ {h}
  BY Zenon DEF TrieDestroy, Dict!Destroy, Forgotten
<1>3. Models(NULL, NULL, h, survivors')
  BY <1>2 DEF Models
<1>4. QED
  BY <1>1, <1>2, <1>3, HandleChanged

LEMMA ClearHandlesInv ==
  ASSUME TriesInv, ClearHandles
  PROVE  TriesInv'
<1>1. m_tries' = <<>> /\ dict' = <<>> /\ survivors' = {}
  BY DEF ClearHandles, Dict!DestroyAll
<1>2. QED
  BY <1>1 DEF TriesInv

\* Each step keeps the tries dictionaries.
LEMMA NextInv == TriesInv /\ [Next]_vars => TriesInv'
<1>1. SUFFICES ASSUME TriesInv, [Next]_vars PROVE TriesInv'
  OBVIOUS
<1>2. CASE TrieCreate
  BY <1>1, <1>2, CreateInv
<1>3. ASSUME NEW h \in Handles, NEW w \in Writes, TrieSet(h, w) PROVE TriesInv'
  BY <1>1, <1>3, SetInv
<1>4. ASSUME NEW h \in Handles, NEW k \in Keys, TrieDeleteKey(h, k) PROVE TriesInv'
  BY <1>1, <1>4, DeleteInv
<1>5. ASSUME NEW h \in Handles, TrieClear(h) PROVE TriesInv'
  BY <1>1, <1>5, ClearInv
<1>6. ASSUME NEW h \in Handles, TrieDestroy(h) PROVE TriesInv'
  BY <1>1, <1>6, DestroyInv
<1>7. CASE ClearHandles
  BY <1>1, <1>7, ClearHandlesInv
<1>8. CASE UNCHANGED vars
  BY <1>1, <1>8 DEF vars, TriesInv
<1>9. QED
  BY <1>1, <1>2, <1>3, <1>4, <1>5, <1>6, <1>7, <1>8 DEF Next

-----------------------------------------------------------------------------
(* The blocks.                                                              *)

\* Every block is held by a value of an open trie or lost.
CountInv == blocks \in Int /\ Lost \in Nat /\ creates \in 0..MaxCreates

\* What a step may do to the lost blocks.
LostStep ==
  \/ Lost' = Lost
  \/ ClearHandles
  \/ \E h \in Handles : TrieDestroy(h) /\ Lost' = Lost + Blocks(m_tries[h].m_empty)

\* Every handle has a number of blocks.
LEMMA InvBlocks ==
  ASSUME TriesInv
  PROVE  /\ Len(m_tries) \in Nat /\ m_tries \in Seq(Trie(Values) \union {NULL})
         /\ \A h \in 1..Len(m_tries) : TrieBlocks(m_tries[h]) \in Nat
         /\ Total(m_tries) \in Nat
<1>1. Len(m_tries) \in Nat /\ m_tries \in Seq(Trie(Values) \union {NULL})
  BY DEF TriesInv
<1>2. ASSUME NEW h \in 1..Len(m_tries) PROVE TrieBlocks(m_tries[h]) \in Nat
  <2>1. Models(m_tries[h], dict[h], h, survivors)
    BY DEF TriesInv
  <2>2. QED
    BY <2>1, ModelsType
<1>3. Total(m_tries) \in Nat
  <2>1. Len(m_tries) \in 0..Len(m_tries)
    BY <1>1
  <2>2. \A n \in 0..Len(m_tries) : BlockSums(m_tries)[n] \in Nat
    BY <1>1, <1>2, SumsType
  <2>3. QED
    BY <2>1, <2>2 DEF Total
<1>4. QED
  BY <1>1, <1>2, <1>3

\* The lost blocks after a step that changes one trie.
LEMMA LostChanged ==
  ASSUME TriesInv, CountInv, NEW h \in 1..Len(m_tries), NEW n, n = TrieBlocks(m_tries[h]),
         NEW t2, NEW n2 \in Nat, n2 = TrieBlocks(t2),
         m_tries' = [m_tries EXCEPT ![h] = t2], blocks' \in Int
  PROVE  Lost' = ((Lost + blocks') - blocks) + (n - n2)
<1>1. PICK ts : ts = m_tries'
  OBVIOUS
<1>2. /\ Len(m_tries) \in Nat /\ Total(m_tries) \in Nat
      /\ \A g \in 1..Len(m_tries) : TrieBlocks(m_tries[g]) \in Nat
  BY InvBlocks
<1>3. Len(ts) = Len(m_tries) /\ \A g \in 1..Len(m_tries) : ts[g] = IF g = h THEN t2 ELSE m_tries[g]
  BY <1>1, InvBlocks
<1>4. Total(ts) = (Total(m_tries) + n2) - n
  <2>1. ts[h] = t2 /\ \A g \in 1..Len(m_tries) : g # h => ts[g] = m_tries[g]
    BY <1>3
  <2>2. TrieBlocks(ts[h]) \in Nat
    BY <2>1
  <2>3. Total(ts) = (Total(m_tries) + TrieBlocks(ts[h])) - TrieBlocks(m_tries[h])
    BY <1>2, <1>3, <2>1, <2>2, TotalChanged
  <2>4. QED
    BY <2>1, <2>3
<1>5. Lost = blocks - Total(m_tries) /\ Lost' = blocks' - Total(ts)
  BY <1>1 DEF Lost, Total
<1>6. blocks \in Int /\ blocks' \in Int /\ n \in Nat
  BY <1>2 DEF CountInv
<1>7. PICK b, b2, l, l2, s, s2 : /\ b = blocks /\ b2 = blocks' /\ l = Lost /\ l2 = Lost'
                                 /\ s = Total(m_tries) /\ s2 = Total(ts)
  OBVIOUS
<1>8. l2 = ((l + b2) - b) + (n - n2)
  <2>1. /\ b \in Int /\ b2 \in Int /\ n \in Nat /\ n2 \in Nat /\ s \in Nat
        /\ s2 = (s + n2) - n /\ l = b - s /\ l2 = b2 - s2
    BY <1>2, <1>4, <1>5, <1>6, <1>7
  <2>2. QED
    BY ONLY <2>1
<1>9. QED
  BY <1>7, <1>8

\* A store, a deletion: the count changes with the blocks of the trie.
LEMMA LostStores ==
  ASSUME TriesInv, CountInv, NEW h \in Handles, NEW t2, TrieBlocks(t2) \in Nat,
         m_tries' = [m_tries EXCEPT ![h] = t2],
         blocks' = (blocks + TrieBlocks(t2)) - TrieBlocks(m_tries[h])
  PROVE  blocks' \in Int /\ Lost' = Lost
<1>1. h \in 1..Len(m_tries) /\ TrieBlocks(m_tries[h]) \in Nat
  BY HandleFacts, InvBlocks
<1>2. PICK n, n2 : n = TrieBlocks(m_tries[h]) /\ n2 = TrieBlocks(t2)
  OBVIOUS
<1>3. n \in Nat /\ n2 \in Nat /\ blocks \in Int /\ Lost \in Nat /\ blocks' = (blocks + n2) - n
  BY <1>1, <1>2 DEF CountInv
<1>4. blocks' \in Int
  BY <1>3
<1>5. Lost' = ((Lost + blocks') - blocks) + (n - n2)
  BY <1>1, <1>2, <1>3, <1>4, LostChanged
<1>6. QED
  BY <1>3, <1>4, <1>5

LEMMA SetLost ==
  ASSUME TriesInv, CountInv, NEW h \in Handles, NEW w \in Writes, TrieSet(h, w)
  PROVE  CountInv' /\ LostStep
<1>1. creates' = creates
  BY DEF TrieSet
<1>2. blocks \in Int
  BY DEF CountInv
<1>3. PICK t2 : /\ m_tries' = [m_tries EXCEPT ![h] = t2] /\ TrieBlocks(t2) \in Nat
                /\ blocks' = (blocks + TrieBlocks(t2)) - TrieBlocks(m_tries[h])
  BY <1>2, SetStep
<1>4. blocks' \in Int /\ Lost' = Lost
  BY <1>3, LostStores
<1>5. QED
  BY <1>1, <1>4 DEF CountInv, LostStep

LEMMA DeleteLost ==
  ASSUME TriesInv, CountInv, NEW h \in Handles, NEW k \in Keys, TrieDeleteKey(h, k)
  PROVE  CountInv' /\ LostStep
<1>1. PICK t, t2 : t = m_tries[h] /\ t2 = remove(t, k)
  OBVIOUS
<1>2. Sound(t) /\ Reached(t) /\ k \in Seq(Chars)
  <2>1. Rooted(t)
    BY <1>1, Zenon DEF TrieDeleteKey
  <2>2. QED
    BY <1>1, <2>1, HandleFacts, KeyAssumption
<1>3. Stores(t, t2, k, NoValue)
  BY <1>1, <1>2, RemoveKey
<1>4. /\ m_tries' = [m_tries EXCEPT ![h] = t2] /\ creates' = creates
      /\ blocks' = blocks - Blocks(retrieve(t, k))
  BY <1>1, Zenon DEF TrieDeleteKey
<1>5. TrieBlocks(t2) = (TrieBlocks(t) + Blocks(NoValue)) - Blocks(retrieve(t, k))
  BY <1>2, <1>3, StoresBlocks
<1>6. TrieBlocks(t) \in Nat /\ TrieBlocks(t2) \in Nat
  BY <1>2, <1>3, ArrayBlocksType DEF Stores, Sound
<1>7. blocks' = (blocks + TrieBlocks(t2)) - TrieBlocks(m_tries[h])
  BY <1>1, <1>4, <1>5, <1>6, BlocksFacts DEF CountInv
<1>8. blocks' \in Int /\ Lost' = Lost
  BY <1>4, <1>6, <1>7, LostStores
<1>9. QED
  BY <1>4, <1>8 DEF CountInv, LostStep

\* run_destructor frees the blocks of the array: those that a Clear loses with
\* its nodes, and all of a destroyed trie but the empty key's.
LEMMA ClearLost ==
  ASSUME TriesInv, CountInv, NEW h \in Handles, TrieClear(h)
  PROVE  CountInv' /\ LostStep
<1>1. PICK t : t = m_tries[h]
  OBVIOUS
<1>2. h \in 1..Len(m_tries) /\ t # NULL /\ t \in Trie(Values) /\ Len(t.m_base) >= BaseSize
  BY <1>1, HandleFacts
<1>3. /\ m_tries' = [m_tries EXCEPT ![h] = clear(t)] /\ creates' = creates
      /\ blocks' = blocks - ArrayBlocks(t)
  BY <1>1, Zenon DEF TrieClear
<1>4. TrieBlocks(clear(t)) = Blocks(t.m_empty) /\ Blocks(t.m_empty) \in Nat
  BY <1>2, ClearIs, EmptyBlocks, BlocksFacts
<1>5. TrieBlocks(t) = ArrayBlocks(t) + Blocks(t.m_empty) /\ ArrayBlocks(t) \in Nat
  BY <1>2, ArrayBlocksType
<1>6. blocks \in Int /\ Lost \in Nat /\ blocks' \in Int
  BY <1>3, <1>5 DEF CountInv
<1>7. Lost' = ((Lost + blocks') - blocks) + (TrieBlocks(t) - TrieBlocks(clear(t)))
  BY <1>1, <1>2, <1>3, <1>4, <1>6, LostChanged
<1>8. Lost' = Lost
  BY <1>3, <1>4, <1>5, <1>6, <1>7
<1>9. QED
  BY <1>3, <1>6, <1>8 DEF CountInv, LostStep

LEMMA DestroyLost ==
  ASSUME TriesInv, CountInv, NEW h \in Handles, TrieDestroy(h)
  PROVE  CountInv' /\ LostStep
<1>1. PICK t : t = m_tries[h]
  OBVIOUS
<1>2. h \in 1..Len(m_tries) /\ t # NULL /\ t \in Trie(Values) /\ Len(t.m_base) >= BaseSize
  BY <1>1, HandleFacts
<1>3. /\ m_tries' = [m_tries EXCEPT ![h] = NULL] /\ creates' = creates
      /\ blocks' = blocks - ArrayBlocks(t)
  BY <1>1, Zenon DEF TrieDestroy
<1>4. TrieBlocks(NULL) = 0 /\ Blocks(t.m_empty) \in Nat
  BY BlocksFacts DEF TrieBlocks
<1>5. TrieBlocks(t) = ArrayBlocks(t) + Blocks(t.m_empty) /\ ArrayBlocks(t) \in Nat
  BY <1>2, ArrayBlocksType
<1>6. blocks \in Int /\ Lost \in Nat /\ blocks' \in Int
  BY <1>3, <1>5 DEF CountInv
<1>7. Lost' = ((Lost + blocks') - blocks) + (TrieBlocks(t) - TrieBlocks(NULL))
  <2>1. TrieBlocks(NULL) \in Nat /\ TrieBlocks(t) = TrieBlocks(m_tries[h])
    BY <1>1, <1>4
  <2>2. QED
    BY <1>2, <1>3, <1>6, <2>1, LostChanged
<1>8. Lost' = Lost + Blocks(t.m_empty) /\ Lost' \in Nat
  BY <1>3, <1>4, <1>5, <1>6, <1>7
<1>9. QED
  BY <1>1, <1>3, <1>6, <1>8 DEF CountInv, LostStep

\* A new trie has no blocks.
LEMMA CreateLost ==
  ASSUME TriesInv, CountInv, TrieCreate
  PROVE  CountInv' /\ LostStep
<1>1. TrieBlocks(NewTrie) = 0
  BY NewTrieIs, EmptyBlocks, BlocksFacts
<1>2. blocks' = blocks /\ blocks \in Int /\ Lost \in Nat /\ creates' \in 0..MaxCreates
  BY BoundAssumption DEF CountInv, TrieCreate
<1>3. /\ Len(m_tries) \in Nat /\ Total(m_tries) \in Nat
      /\ \A g \in 1..Len(m_tries) : TrieBlocks(m_tries[g]) \in Nat
      /\ m_tries \in Seq(Trie(Values) \union {NULL})
  BY InvBlocks
<1>4. Lost' = Lost
  <2>1. CASE Handles # DOMAIN m_tries
    <3>1. PICK h : h = Min(DOMAIN m_tries \ Handles)
      OBVIOUS
    <3>2. m_tries' = [m_tries EXCEPT ![h] = NewTrie]
      BY <2>1, <3>1, Zenon DEF TrieCreate
    <3>3. h \in DOMAIN m_tries /\ h \notin Handles
      <4>1. DOMAIN m_tries = 1..Len(m_tries)
        BY <1>3
      <4>2. DOMAIN m_tries \ Handles # {} /\ DOMAIN m_tries \ Handles \in SUBSET Nat
        BY <2>1, <4>1 DEF Handles
      <4>3. h \in DOMAIN m_tries \ Handles
        BY <3>1, <4>2, MinOf
      <4>4. QED
        BY <4>3
    <3>4. h \in 1..Len(m_tries) /\ m_tries[h] = NULL
      BY <1>3, <3>3 DEF Handles
    <3>5. TrieBlocks(m_tries[h]) = 0
      BY <3>4 DEF TrieBlocks
    <3>6. Lost' = ((Lost + blocks') - blocks) + (TrieBlocks(m_tries[h]) - TrieBlocks(NewTrie))
      <4>1. TrieBlocks(NewTrie) \in Nat /\ blocks' \in Int
        BY <1>1, <1>2
      <4>2. QED
        BY <3>2, <3>4, <4>1, LostChanged
    <3>7. QED
      BY <1>1, <1>2, <3>5, <3>6
  <2>2. CASE Handles = DOMAIN m_tries
    <3>1. PICK ts : ts = m_tries'
      OBVIOUS
    <3>2. ts = Append(m_tries, NewTrie)
      BY <2>2, <3>1 DEF TrieCreate
    <3>3. NewTrie \in Trie(Values)
      BY NewTrieIs DEF Sound
    <3>4. /\ Len(ts) = Len(m_tries) + 1 /\ ts[Len(m_tries) + 1] = NewTrie
          /\ \A g \in 1..Len(m_tries) : ts[g] = m_tries[g]
      BY <1>3, <3>2, <3>3
    <3>5. TrieBlocks(ts[Len(m_tries) + 1]) = 0
      BY <1>1, <3>4
    <3>6. Total(ts) = Total(m_tries) + TrieBlocks(ts[Len(m_tries) + 1])
      BY <1>3, <3>4, <3>5, TotalAdded
    <3>7. Lost = blocks - Total(m_tries) /\ Lost' = blocks' - Total(ts)
      BY <3>1 DEF Lost, Total
    <3>8. QED
      BY <1>2, <1>3, <3>5, <3>6, <3>7
  <2>3. QED
    BY <2>1, <2>2
<1>5. QED
  BY <1>2, <1>4 DEF CountInv, LostStep

\* The tries go with their handles, their blocks do not.
LEMMA ClearHandlesLost ==
  ASSUME TriesInv, CountInv, ClearHandles
  PROVE  CountInv' /\ LostStep
<1>1. m_tries' = <<>> /\ blocks' = blocks /\ creates' = creates
  BY DEF ClearHandles
<1>2. Total(<<>>) = 0
  BY SumsRec DEF Total
<1>3. Lost = blocks - Total(m_tries) /\ Lost' = blocks' - Total(<<>>)
  BY <1>1 DEF Lost, Total
<1>4. Total(m_tries) \in Nat /\ blocks \in Int /\ Lost \in Nat
  BY InvBlocks DEF CountInv
<1>5. Lost' \in Nat
  BY <1>1, <1>2, <1>3, <1>4
<1>6. QED
  BY <1>1, <1>4, <1>5 DEF CountInv, LostStep

LEMMA InitCount == Init => CountInv
<1>1. SUFFICES ASSUME Init PROVE CountInv
  OBVIOUS
<1>2. m_tries = <<>> /\ blocks = 0 /\ creates = 0
  BY <1>1 DEF Init
<1>3. Lost = 0
  BY <1>2, SumsRec DEF Lost
<1>4. QED
  BY <1>2, <1>3, BoundAssumption DEF CountInv

\* Each step keeps the count.
LEMMA NextLost ==
  ASSUME TriesInv, CountInv, [Next]_vars
  PROVE  CountInv' /\ (LostStep \/ UNCHANGED vars)
<1>1. CASE TrieCreate
  BY <1>1, CreateLost
<1>2. ASSUME NEW h \in Handles, NEW w \in Writes, TrieSet(h, w) PROVE CountInv' /\ LostStep
  BY <1>2, SetLost
<1>3. ASSUME NEW h \in Handles, NEW k \in Keys, TrieDeleteKey(h, k) PROVE CountInv' /\ LostStep
  BY <1>3, DeleteLost
<1>4. ASSUME NEW h \in Handles, TrieClear(h) PROVE CountInv' /\ LostStep
  BY <1>4, ClearLost
<1>5. ASSUME NEW h \in Handles, TrieDestroy(h) PROVE CountInv' /\ LostStep
  BY <1>5, DestroyLost
<1>6. CASE ClearHandles
  BY <1>6, ClearHandlesLost
<1>7. CASE UNCHANGED vars
  BY <1>7 DEF vars, CountInv, Lost
<1>8. QED
  BY <1>1, <1>2, <1>3, <1>4, <1>5, <1>6, <1>7 DEF Next

-----------------------------------------------------------------------------
(* What the invariants say.                                                 *)

LEMMA TypeMeans ==
  ASSUME TriesInv, CountInv
  PROVE  TypeOK
<1>1. m_tries \in Seq(Trie(Values) \union {NULL}) /\ Total(m_tries) \in Nat
  BY InvBlocks
<1>2. ASSUME NEW h \in Handles, NEW i \in DOMAIN m_tries[h].m_base
      PROVE  /\ m_tries[h].m_base[i].idx \in 0..Len(m_tries[h].m_base)
             /\ m_tries[h].m_base[i].parent \in 0..Len(m_tries[h].m_base)
  <2>1. PICK t : t = m_tries[h]
    OBVIOUS
  <2>2. t \in Trie(Values) /\ (Sound(t) \/ Ruined(t))
    BY <2>1, HandleFacts
  <2>3. i \in 1..Len(t.m_base) /\ t.m_base[i] \in Node(Values) /\ Len(t.m_base) \in Nat
    BY <2>1, <2>2, TrieParts
  <2>4. t.m_base[i].idx <= Len(t.m_base) /\ t.m_base[i].parent <= Len(t.m_base)
    BY <2>2, <2>3, SlotRanges DEF Ruined
  <2>5. t.m_base[i].idx \in Nat /\ t.m_base[i].parent \in Nat
    BY <2>3 DEF Node
  <2>6. QED
    BY <2>1, <2>3, <2>4, <2>5
<1>3. blocks \in Nat /\ creates \in 0..MaxCreates
  <2>1. PICK n : n = Total(m_tries)
    OBVIOUS
  <2>2. blocks \in Int /\ n \in Nat /\ Lost \in Nat /\ Lost = blocks - n
    BY <1>1, <2>1 DEF CountInv, Lost, Total
  <2>3. QED
    BY <2>2 DEF CountInv
<1>4. survivors \subseteq Handles
  BY ModelsType DEF TriesInv, Handles
<1>5. QED
  BY <1>1, <1>2, <1>3, <1>4 DEF TypeOK

\* What the invariant says of the array and of the natives.
LEMMA InvMeans == TriesInv => NoOrphans /\ TriesAreDictionaries
<1>1. SUFFICES ASSUME TriesInv PROVE NoOrphans /\ TriesAreDictionaries
  OBVIOUS
<1>2. NoOrphans
  <2>1. SUFFICES ASSUME NEW h \in {g \in Handles : Rooted(m_tries[g])},
                        NEW i \in DOMAIN m_tries[h].m_base \ {1},
                        m_tries[h].m_base[i].mode # "Unused"
                 PROVE  /\ m_tries[h].m_base[m_tries[h].m_base[i].parent].mode = "Arc"
                        /\ \E c \in Chars : i = m_tries[h].m_base[m_tries[h].m_base[i].parent].idx + c
    BY Zenon DEF NoOrphans
  <2>2. PICK t : t = m_tries[h]
    OBVIOUS
  <2>3. Sound(t)
    BY <1>1, <2>1, <2>2, HandleFacts
  <2>4. i \in 1..Len(t.m_base)
    BY <2>2, <2>3, NodeFacts
  <2>5. NodeSound(t, i)
    BY <2>3, <2>4 DEF Sound
  <2>6. QED
    BY <2>1, <2>2, <2>5 DEF NodeSound
<1>3. TriesAreDictionaries
  <2>1. DOMAIN m_tries = DOMAIN dict
    BY <1>1 DEF TriesInv
  <2>2. ASSUME NEW h \in DOMAIN dict
        PROVE /\ m_tries[h] = NULL <=> dict[h] = NULL
              /\ h \in Handles /\ Rooted(m_tries[h]) =>
                   \A k \in Keys : \/ k = <<>> /\ h \in survivors
                                  \/ ReadsAs(retrieve(m_tries[h], k), dict[h][k])
    <3>1. h \in 1..Len(m_tries)
      BY <1>1, <2>1, <2>2 DEF TriesInv
    <3>2. Models(m_tries[h], dict[h], h, survivors)
      BY <1>1, <3>1 DEF TriesInv
    <3>3. m_tries[h] = NULL <=> dict[h] = NULL
      BY <3>2, ModelsType
    <3>4. h \in Handles /\ Rooted(m_tries[h]) => Agrees(m_tries[h], dict[h], h, survivors)
      BY <1>1, HandleFacts
    <3>5. QED
      BY <3>3, <3>4 DEF Agrees
  <2>3. QED
    BY <2>1, <2>2 DEF TriesAreDictionaries
<1>4. QED
  BY <1>2, <1>3

\* The handles whose trie a step leaves alone.
LEMMA OthersKept ==
  ASSUME TriesInv, NEW g \in Handles, NEW t2, m_tries' = [m_tries EXCEPT ![g] = t2],
         NEW h \in Handles
  PROVE  m_tries'[h] = IF h = g THEN t2 ELSE m_tries[h]
<1>1. h \in 1..Len(m_tries) /\ m_tries \in Seq(Trie(Values) \union {NULL})
  BY HandleFacts DEF TriesInv
<1>2. QED
  BY <1>1

\* A step that takes a trie's root is a store of a key with character 1.
LEMMA RootStep ==
  ASSUME TriesInv, Next, NEW h \in Handles,
         Rooted(m_tries[h]), h \in Handles', ~Rooted(m_tries'[h])
  PROVE  \E w \in Writes : TrieSet(h, w) /\ 1 \in Range(w.key)
<1>1. CASE TrieCreate
  <2>1. /\ m_tries \in Seq(Trie(Values) \union {NULL}) /\ Len(m_tries) \in Nat
        /\ h \in 1..Len(m_tries)
    BY HandleFacts DEF TriesInv
  <2>2. NewTrie \in Trie(Values) /\ Rooted(NewTrie)
    BY NewTrieIs DEF Sound, Rooted
  <2>3. m_tries'[h] \in {m_tries[h], NewTrie}
    <3>1. \/ \E g : m_tries' = [m_tries EXCEPT ![g] = NewTrie]
          \/ m_tries' = Append(m_tries, NewTrie)
      BY <1>1, Zenon DEF TrieCreate
    <3>2. QED
      BY <2>1, <2>2, <3>1
  <2>4. QED
    BY <2>2, <2>3
<1>2. ASSUME NEW g \in Handles, NEW w \in Writes, TrieSet(g, w)
      PROVE  TrieSet(h, w) /\ 1 \in Range(w.key)
  <2>1. PICK t2, new : /\ m_tries' = [m_tries EXCEPT ![g] = t2]
                       /\ Stores(m_tries[g], t2, w.key, new) \/ 1 \in Range(w.key)
    BY <1>2, SetStep
  <2>2. m_tries'[h] = IF h = g THEN t2 ELSE m_tries[h]
    BY <2>1, OthersKept
  <2>3. h = g
    BY <2>2
  <2>4. ~Rooted(t2)
    BY <2>2, <2>3
  <2>5. 1 \in Range(w.key)
    BY <2>1, <2>4 DEF Stores, Sound, Rooted
  <2>6. QED
    BY <1>2, <2>3, <2>5
<1>3. ASSUME NEW g \in Handles, NEW k \in Keys, TrieDeleteKey(g, k) PROVE FALSE
  <2>1. PICK t2 : t2 = remove(m_tries[g], k)
    OBVIOUS
  <2>2. m_tries' = [m_tries EXCEPT ![g] = t2] /\ Rooted(m_tries[g])
    BY <1>3, <2>1, Zenon DEF TrieDeleteKey
  <2>3. m_tries'[h] = IF h = g THEN t2 ELSE m_tries[h]
    BY <2>2, OthersKept
  <2>4. Sound(m_tries[g]) /\ k \in Seq(Chars)
    BY <2>2, HandleFacts, KeyAssumption
  <2>5. Rooted(t2)
    BY <2>1, <2>4, RemoveKey DEF Stores, Sound, Rooted
  <2>6. QED
    BY <2>3, <2>5
<1>4. ASSUME NEW g \in Handles, TrieClear(g) PROVE FALSE
  <2>1. PICK t2 : t2 = clear(m_tries[g])
    OBVIOUS
  <2>2. m_tries' = [m_tries EXCEPT ![g] = t2]
    BY <1>4, <2>1, Zenon DEF TrieClear
  <2>3. m_tries'[h] = IF h = g THEN t2 ELSE m_tries[h]
    BY <2>2, OthersKept
  <2>4. Rooted(t2)
    BY <2>1, HandleFacts, ClearIs DEF Sound, Rooted
  <2>5. QED
    BY <2>3, <2>4
<1>5. ASSUME NEW g \in Handles, TrieDestroy(g) PROVE FALSE
  <2>1. m_tries' = [m_tries EXCEPT ![g] = NULL]
    BY <1>5, Zenon DEF TrieDestroy
  <2>2. m_tries'[h] = IF h = g THEN NULL ELSE m_tries[h]
    BY <2>1, OthersKept
  <2>3. m_tries'[h] # NULL
    BY DEF Handles
  <2>4. QED
    BY <2>2, <2>3
<1>6. CASE ClearHandles
  BY <1>6 DEF ClearHandles, Handles
<1>7. QED
  BY <1>1, <1>2, <1>3, <1>4, <1>5, <1>6 DEF Next

\* Whatever was inserted, split, relocated, removed and cleared before, every
\* slot in use of a trie that has its root is the child of an Arc that it lies
\* behind: no operation of sm_trie_tpl.h leaves a node where its parent does
\* not find it, short of overwriting the root.
THEOREM TriesNoOrphans == Spec => []NoOrphans
<1>1. Spec => []TriesInv
  BY InitInv, NextInv, PTL DEF Spec
<1>2. QED
  BY <1>1, InvMeans, PTL

\* As long as a trie has its root, the natives of trie_natives.cpp keep the
\* dictionary they promise, whatever the alphabet, the keys, the number of tries
\* and the order of the calls, but for an empty key that outlived a TrieClear.
THEOREM TriesStayDictionaries == Spec => []TriesAreDictionaries
<1>1. Spec => []TriesInv
  BY InitInv, NextInv, PTL DEF Spec
<1>2. QED
  BY <1>1, InvMeans, PTL

\* Only the store of a key with character 1 overwrites a root: the children of
\* an Arc with base 0 are the one way of Relocate to slot 1.
THEOREM TriesKeepRoot == Spec => RootKept
<1>1. ASSUME TriesInv, [Next]_vars
      PROVE  [ \A h \in Handles :
                 (Rooted(m_tries[h]) /\ h \in Handles' /\ ~Rooted(m_tries'[h])) =>
                   \E w \in Writes : TrieSet(h, w) /\ 1 \in Range(w.key) ]_vars
  BY <1>1, RootStep
<1>2. Spec => []TriesInv
  BY InitInv, NextInv, PTL DEF Spec
<1>3. QED
  BY <1>1, <1>2, PTL DEF Spec, RootKept

\* The two invariants hold in every state.
LEMMA BothInv == Spec => [](TriesInv /\ CountInv)
<1>1. Init => TriesInv /\ CountInv
  BY InitInv, InitCount
<1>2. TriesInv /\ CountInv /\ [Next]_vars => TriesInv' /\ CountInv'
  BY NextInv, NextLost
<1>3. QED
  BY <1>1, <1>2, PTL DEF Spec

\* The arrays of sm_trie_tpl.h, with or without their root, hold nodes whose
\* bases and parents are slots of the array, and no block of trie_natives.h is
\* freed that was not allocated.
THEOREM TriesTypeOK == Spec => []TypeOK
<1>1. TriesInv /\ CountInv => TypeOK
  BY TypeMeans
<1>2. QED
  BY <1>1, BothInv, PTL

\* No step of the natives loses a block of cells, not even one that overwrites a
\* root, except those that free a trie: TrieDestroy the block of the empty key,
\* ClearHandles those of every trie.
THEOREM TriesLoseNoBlock == Spec => BlocksLostWithTrie
<1>1. ASSUME TriesInv /\ CountInv, [Next]_vars
      PROVE  [ \/ Lost' = Lost
               \/ ClearHandles
               \/ \E h \in Handles : TrieDestroy(h) /\ Lost' = Lost + Blocks(m_tries[h].m_empty) ]_vars
  BY <1>1, NextLost DEF LostStep
<1>2. QED
  BY <1>1, BothInv, PTL DEF Spec, BlocksLostWithTrie
=============================================================================
