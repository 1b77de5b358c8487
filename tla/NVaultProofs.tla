---------------------------- MODULE NVaultProofs -----------------------------
(***************************************************************************)
(* For any keys, values and number of changes: the table Open reads back is  *)
(* one the vault had, wherever the process died.                             *)
(*                                                                         *)
(* Two facts carry the proof.  Before Close, the vault file and the first    *)
(* records of the journal make a table the vault had; these are what a crash *)
(* leaves.  Once Close has saved the table the whole journal is replayed on  *)
(* a table that has its changes, which leaves the table as it is: a record   *)
(* either writes the entry of a key whatever it was, or keeps or deletes it. *)
(***************************************************************************)
EXTENDS NVault, SequenceTheorems, WellFoundedInduction, TLAPS

\* What a crash leaves of the journal q: its first records.
Recovers(f, q, S) == \A n \in 0..Len(q) : Replay(f, SubSeq(q, 1, n)) \in S

\* Where the records are.
Buffers == /\ pc \in {"down", "read", "erased", "ended"} => buffer = <<>>
           /\ pc \in {"erased", "open", "saving", "saved"} => journal = <<>>

\* Where the table is.
Saved == /\ pc \in {"erased", "open", "saving", "saved", "ended"} => m_Hash \in seen
         /\ pc \in {"saved", "ended"} /\ "save_failed" \notin gaps => file = m_Hash

\* The files tell the whole story.
Story == /\ pc \in {"down", "read"} => Replay(file, journal) \in seen
         /\ pc \in {"erased", "open"} => /\ m_Hash = Replay(file, buffer)
                                         /\ Recovers(file, buffer, seen)
         /\ pc \in {"saving", "saved"} => Replay(m_Hash, buffer) = m_Hash
         /\ pc = "ended" => Replay(m_Hash, journal) = m_Hash

IInv == TypeOK /\ Buffers /\ Saved /\ (gaps = {} => Story)

-----------------------------------------------------------------------------
(* Induction over Nat, for a set.                                           *)

LEMMA SetInduction ==
  ASSUME NEW S \in SUBSET Nat, 0 \in S, \A n \in S : n + 1 \in S
  PROVE  S = Nat
<1> DEFINE T == Nat \ S
<1>1. SUFFICES ASSUME T # {} PROVE FALSE
  OBVIOUS
<1>2. PICK x \in T : \A y \in T : ~(<<y, x>> \in OpToRel(<, Nat))
  BY <1>1, NatLessThanWellFounded, WFMin, Zenon
<1>3. x # 0 /\ x \in Nat
  OBVIOUS
<1>4. x - 1 \in T
  OBVIOUS
<1>5. <<x - 1, x>> \in OpToRel(<, Nat)
  BY <1>3 DEF OpToRel
<1>6. QED
  BY <1>2, <1>4, <1>5

-----------------------------------------------------------------------------
(* One record.                                                              *)

LEMMA RecordType ==
  ASSUME NEW o \in Op
  PROVE  o.op \in {"clear", "prune", "insert", "remove"} /\ o.key \in Keys /\ o.entry \in Entry
  BY DEF Op

LEMMA ApplyInsert ==
  ASSUME NEW X \in Table, NEW o \in Op, o.op = "insert"
  PROVE  /\ apply(X, o) = [X EXCEPT ![o.key] = o.entry]
         /\ apply(X, o) \in Table
         /\ \A k \in Keys : apply(X, o)[k] = IF k = o.key THEN o.entry ELSE X[k]
<1>1. apply(X, o) = [X EXCEPT ![o.key] = o.entry]
  BY DEF apply
<1>2. o.key \in Keys /\ o.entry \in Entry
  BY RecordType
<1>3. QED
  BY <1>1, <1>2 DEF Table

LEMMA ApplyRemove ==
  ASSUME NEW X \in Table, NEW o \in Op, o.op = "remove"
  PROVE  /\ apply(X, o) = [X EXCEPT ![o.key] = Absent]
         /\ apply(X, o) \in Table
         /\ \A k \in Keys : apply(X, o)[k] = IF k = o.key THEN Absent ELSE X[k]
<1>1. apply(X, o) = [X EXCEPT ![o.key] = Absent]
  BY DEF apply
<1>2. o.key \in Keys /\ Absent \in Entry
  BY RecordType DEF Entry
<1>3. QED
  BY <1>1, <1>2 DEF Table

LEMMA ApplyClear ==
  ASSUME NEW X \in Table, NEW o \in Op, o.op = "clear"
  PROVE  /\ apply(X, o) = Empty
         /\ apply(X, o) \in Table
         /\ \A k \in Keys : apply(X, o)[k] = Absent
<1>1. apply(X, o) = Empty
  BY DEF apply
<1>2. Absent \in Entry
  BY DEF Entry
<1>3. QED
  BY <1>1, <1>2 DEF Table, Empty

\* Does Prune delete the entry?
Prunes(e, r) == /\ e # Absent /\ e.stamp # 0
                /\ \/ r = <<0, 0>>
                   \/ r[1] = 0 /\ e.stamp < r[2]
                   \/ r[2] = 0 /\ e.stamp > r[1]
                   \/ e.stamp > r[1] /\ e.stamp < r[2]

LEMMA PrunedTable ==
  ASSUME NEW X \in Table, NEW r
  PROVE  /\ pruned(X, r) \in Table
         /\ \A k \in Keys : pruned(X, r)[k] = IF Prunes(X[k], r) THEN Absent ELSE X[k]
<1>1. Absent \in Entry /\ \A k \in Keys : X[k] \in Entry
  BY DEF Entry, Table
<1>2. pruned(X, r) = [k \in Keys |-> IF Prunes(X[k], r) THEN Absent ELSE X[k]]
  BY DEF pruned, Prunes
<1>3. QED
  BY <1>1, <1>2 DEF Table

LEMMA ApplyPrune ==
  ASSUME NEW X \in Table, NEW o \in Op, o.op = "prune"
  PROVE  /\ apply(X, o) = pruned(X, o.range)
         /\ apply(X, o) \in Table
         /\ \A k \in Keys : apply(X, o)[k] = IF Prunes(X[k], o.range) THEN Absent ELSE X[k]
<1>1. apply(X, o) = pruned(X, o.range)
  BY DEF apply
<1>2. QED
  BY <1>1, PrunedTable

LEMMA ApplyType ==
  ASSUME NEW X \in Table, NEW o \in Op
  PROVE  apply(X, o) \in Table
<1>1. o.op \in {"clear", "prune", "insert", "remove"}
  BY RecordType
<1>2. QED
  BY <1>1, ApplyInsert, ApplyRemove, ApplyClear, ApplyPrune

\* A record writes an entry, the same one in every table, or keeps or deletes it;
\* what it does depends on that entry alone.
LEMMA ApplyKey ==
  ASSUME NEW X \in Table, NEW Y \in Table, NEW o \in Op, NEW k \in Keys
  PROVE  /\ X[k] = Y[k] => apply(X, o)[k] = apply(Y, o)[k]
         /\ \/ apply(X, o)[k] = apply(Y, o)[k]
            \/ apply(X, o)[k] \in {X[k], Absent} /\ apply(Y, o)[k] \in {Y[k], Absent}
<1>1. CASE o.op = "insert"
  BY <1>1, ApplyInsert
<1>2. CASE o.op = "remove"
  BY <1>2, ApplyRemove
<1>3. CASE o.op = "clear"
  BY <1>3, ApplyClear
<1>4. CASE o.op = "prune"
  BY <1>4, ApplyPrune
<1>5. QED
  BY <1>1, <1>2, <1>3, <1>4, RecordType

-----------------------------------------------------------------------------
(* The replay: g[m] is the table after the first m of n records.            *)

Trace(g, T, q, n) == g = [m \in 0..n |-> IF m = 0 THEN T ELSE apply(g[m - 1], q[m])]

LEMMA TraceAt ==
  ASSUME NEW g, NEW T, NEW q, NEW n \in Nat, Trace(g, T, q, n)
  PROVE  g[0] = T /\ \A m \in 1..n : m - 1 \in 0..n /\ g[m] = apply(g[m - 1], q[m])
<1>1. \A m \in 0..n : g[m] = IF m = 0 THEN T ELSE apply(g[m - 1], q[m])
  BY DEF Trace
<1>2. 0 \in 0..n /\ \A m \in 1..n : m \in 0..n /\ m # 0 /\ m - 1 \in 0..n
  OBVIOUS
<1>3. QED
  BY <1>1, <1>2

\* One record more.
LEMMA TraceNext ==
  ASSUME NEW g, NEW T, NEW q, NEW n \in Nat, Trace(g, T, q, n),
         NEW p, \A m \in 1..n : p[m] = q[m]
  PROVE  \E h : Trace(h, T, p, n + 1) /\ h[n + 1] = apply(g[n], p[n + 1])
                /\ \A m \in 0..n : h[m] = g[m]
<1>1. PICK v : v = apply(g[n], p[n + 1])
  OBVIOUS
<1>2. PICK h : h = [m \in 0..n + 1 |-> IF m = n + 1 THEN v ELSE g[m]]
  OBVIOUS
<1>3. 0..n \subseteq 0..n + 1 /\ n \in 0..n /\ n + 1 \in 0..n + 1 /\ n + 1 # 0
  OBVIOUS
<1>4. h[n + 1] = v /\ \A m \in 0..n : h[m] = g[m]
  BY <1>2, <1>3
<1>5. \A m \in 0..n + 1 : h[m] = IF m = 0 THEN T ELSE apply(h[m - 1], p[m])
  <2>1. SUFFICES ASSUME NEW m \in 0..n + 1
                 PROVE  h[m] = IF m = 0 THEN T ELSE apply(h[m - 1], p[m])
    OBVIOUS
  <2>2. CASE m = 0
    BY <1>3, <1>4, <2>2, TraceAt
  <2>3. CASE m = n + 1
    <3>1. m - 1 = n
      BY <2>3
    <3>2. QED
      BY <1>1, <1>3, <1>4, <2>3, <3>1
  <2>4. CASE m \in 1..n
    <3>1. m \in 0..n /\ m - 1 \in 0..n /\ m # 0
      BY <2>4
    <3>2. g[m] = apply(g[m - 1], q[m]) /\ p[m] = q[m]
      BY <2>4, TraceAt
    <3>3. QED
      BY <1>4, <3>1, <3>2
  <2>5. m = 0 \/ m = n + 1 \/ m \in 1..n
    BY <2>1
  <2>6. QED
    BY <2>2, <2>3, <2>4, <2>5
<1>6. Trace(h, T, p, n + 1)
  BY <1>2, <1>5 DEF Trace
<1>7. QED
  BY <1>1, <1>4, <1>6

LEMMA TraceExists ==
  ASSUME NEW T, NEW q, NEW n \in Nat
  PROVE  \E g : Trace(g, T, q, n)
<1> DEFINE Q == {m \in Nat : \E g : Trace(g, T, q, m)}
<1>1. 0 \in Q
  <2>1. PICK g : g = [m \in 0..0 |-> T]
    OBVIOUS
  <2>2. Trace(g, T, q, 0)
    BY <2>1 DEF Trace
  <2>3. QED
    BY <2>2
<1>2. ASSUME NEW m \in Q PROVE m + 1 \in Q
  BY TraceNext
<1>3. Q = Nat
  <2> HIDE DEF Q
  <2>1. Q \in SUBSET Nat
    BY DEF Q
  <2>2. QED
    BY <1>1, <1>2, <2>1, SetInduction
<1>4. QED
  BY <1>3

LEMMA TraceSame ==
  ASSUME NEW g, NEW h, NEW T, NEW q, NEW n \in Nat, Trace(g, T, q, n), Trace(h, T, q, n)
  PROVE  g[n] = h[n]
<1> DEFINE Q == {m \in Nat : m <= n => g[m] = h[m]}
<1>1. 0 \in Q
  BY TraceAt
<1>2. ASSUME NEW m \in Q PROVE m + 1 \in Q
  <2>1. SUFFICES ASSUME m + 1 <= n PROVE g[m + 1] = h[m + 1]
    OBVIOUS
  <2>2. m + 1 \in 1..n /\ (m + 1) - 1 = m /\ g[m] = h[m]
    BY <2>1
  <2>3. g[m + 1] = apply(g[m], q[m + 1]) /\ h[m + 1] = apply(h[m], q[m + 1])
    BY <2>2, TraceAt
  <2>4. QED
    BY <2>2, <2>3
<1>3. Q = Nat
  <2> HIDE DEF Q
  <2>1. Q \in SUBSET Nat
    BY DEF Q
  <2>2. QED
    BY <1>1, <1>2, <2>1, SetInduction
<1>4. QED
  BY <1>3

LEMMA ReplayTrace ==
  ASSUME NEW T, NEW q, Len(q) \in Nat
  PROVE  \E g : Trace(g, T, q, Len(q)) /\ Replay(T, q) = g[Len(q)]
<1>1. PICK h : Trace(h, T, q, Len(q))
  BY TraceExists
<1>2. \E g : g = [n \in 0..Len(q) |-> IF n = 0 THEN T ELSE apply(g[n - 1], q[n])]
  BY <1>1 DEF Trace
<1>3. QED
  BY <1>2 DEF Replay, Trace

\* The last table of any trace is the result.
LEMMA ReplayIs ==
  ASSUME NEW T, NEW q, NEW n \in Nat, Len(q) = n, NEW g, Trace(g, T, q, n)
  PROVE  Replay(T, q) = g[n]
<1>1. PICK h : Trace(h, T, q, n) /\ Replay(T, q) = h[n]
  BY ReplayTrace
<1>2. QED
  BY <1>1, TraceSame

LEMMA ReplayEmpty ==
  ASSUME NEW T
  PROVE  Replay(T, <<>>) = T
<1>1. PICK g : Trace(g, T, <<>>, 0)
  BY TraceExists
<1>2. Len(<<>>) = 0
  OBVIOUS
<1>3. QED
  BY <1>1, <1>2, ReplayIs, TraceAt

LEMMA ReplayAppend ==
  ASSUME NEW T, NEW q \in Seq(Op), NEW o \in Op
  PROVE  Replay(T, Append(q, o)) = apply(Replay(T, q), o)
<1>1. PICK n \in Nat : n = Len(q)
  OBVIOUS
<1>2. PICK p : p = Append(q, o)
  OBVIOUS
<1>3. Len(p) = n + 1 /\ p[n + 1] = o /\ \A m \in 1..n : p[m] = q[m]
  BY <1>1, <1>2, AppendProperties
<1>4. PICK g : Trace(g, T, q, n)
  BY TraceExists
<1>5. PICK h : Trace(h, T, p, n + 1) /\ h[n + 1] = apply(g[n], p[n + 1])
  BY <1>3, <1>4, TraceNext
<1>6. Replay(T, q) = g[n]
  BY <1>1, <1>4, ReplayIs
<1>7. Replay(T, p) = h[n + 1]
  BY <1>3, <1>5, ReplayIs
<1>8. QED
  BY <1>2, <1>3, <1>5, <1>6, <1>7

LEMMA TraceType ==
  ASSUME NEW T \in Table, NEW q \in Seq(Op), NEW n \in Nat, n = Len(q), NEW g, Trace(g, T, q, n)
  PROVE  \A m \in 0..n : g[m] \in Table
<1> DEFINE Q == {m \in Nat : m <= n => g[m] \in Table}
<1>1. 0 \in Q
  BY TraceAt
<1>2. ASSUME NEW m \in Q PROVE m + 1 \in Q
  <2>1. SUFFICES ASSUME m + 1 <= n PROVE g[m + 1] \in Table
    OBVIOUS
  <2>2. m + 1 \in 1..n /\ (m + 1) - 1 = m /\ g[m] \in Table
    BY <2>1
  <2>3. g[m + 1] = apply(g[m], q[m + 1])
    BY <2>2, TraceAt
  <2>4. q[m + 1] \in Op
    BY <2>2, ElementOfSeq
  <2>5. QED
    BY <2>2, <2>3, <2>4, ApplyType
<1>3. Q = Nat
  <2> HIDE DEF Q
  <2>1. Q \in SUBSET Nat
    BY DEF Q
  <2>2. QED
    BY <1>1, <1>2, <2>1, SetInduction
<1>4. QED
  BY <1>3

LEMMA ReplayType ==
  ASSUME NEW T \in Table, NEW q \in Seq(Op)
  PROVE  Replay(T, q) \in Table
<1>1. PICK n \in Nat : n = Len(q)
  OBVIOUS
<1>2. PICK g : Trace(g, T, q, n)
  BY TraceExists
<1>3. g[n] \in Table
  BY <1>1, <1>2, TraceType
<1>4. QED
  BY <1>1, <1>2, <1>3, ReplayIs

\* A journal replayed on the table it leads to changes nothing.
LEMMA ReplayTwice ==
  ASSUME NEW T \in Table, NEW q \in Seq(Op), NEW R, R = Replay(T, q)
  PROVE  Replay(R, q) = R
<1>1. PICK n \in Nat : n = Len(q)
  OBVIOUS
<1>2. PICK g : Trace(g, T, q, n)
  BY TraceExists
<1>3. PICK h : Trace(h, R, q, n)
  BY TraceExists
<1>4. R = g[n] /\ Replay(R, q) = h[n] /\ R \in Table
  BY <1>1, <1>2, <1>3, ReplayIs, ReplayType
<1>5. (\A m \in 0..n : g[m] \in Table) /\ (\A m \in 0..n : h[m] \in Table)
  BY <1>1, <1>2, <1>3, <1>4, TraceType
<1>6. ASSUME NEW k \in Keys PROVE h[n][k] = R[k]
  <2> DEFINE Met(m) == g[m][k] = h[m][k]
             Kept(m) == g[m][k] \in {T[k], Absent} /\ h[m][k] \in {R[k], Absent}
             Q == {m \in Nat : m <= n => /\ Met(m) \/ Kept(m)
                                         /\ R[k] = T[k] => Met(m)}
  <2>1. 0 \in Q
    BY <1>2, <1>3, TraceAt
  <2>2. ASSUME NEW m \in Q PROVE m + 1 \in Q
    <3>1. SUFFICES ASSUME m + 1 <= n
                   PROVE  (Met(m + 1) \/ Kept(m + 1)) /\ (R[k] = T[k] => Met(m + 1))
      OBVIOUS
    <3>2. m + 1 \in 1..n /\ m \in 0..n /\ (m + 1) - 1 = m
      BY <3>1
    <3>3. (Met(m) \/ Kept(m)) /\ (R[k] = T[k] => Met(m))
      BY <3>2
    <3>4. PICK o \in Op : o = q[m + 1]
      BY <1>1, <3>2, ElementOfSeq
    <3>5. g[m + 1] = apply(g[m], o) /\ h[m + 1] = apply(h[m], o)
      BY <1>2, <1>3, <3>2, <3>4, TraceAt
    <3>6. /\ g[m][k] = h[m][k] => g[m + 1][k] = h[m + 1][k]
          /\ \/ g[m + 1][k] = h[m + 1][k]
             \/ g[m + 1][k] \in {g[m][k], Absent} /\ h[m + 1][k] \in {h[m][k], Absent}
      BY <1>5, <3>2, <3>5, ApplyKey
    <3>7. QED
      BY <3>3, <3>6
  <2>3. Q = Nat
    <3> HIDE DEF Q
    <3>1. Q \in SUBSET Nat
      BY DEF Q
    <3>2. QED
      BY <2>1, <2>2, <3>1, SetInduction
  <2>4. (Met(n) \/ Kept(n)) /\ (R[k] = T[k] => Met(n))
    BY <2>3
  <2>5. QED
    BY <1>4, <2>4
<1>7. QED
  BY <1>4, <1>5, <1>6 DEF Table

-----------------------------------------------------------------------------
(* What a crash leaves.                                                     *)

LEMMA Prefixes ==
  ASSUME NEW q \in Seq(Op)
  PROVE  /\ SubSeq(q, 1, Len(q)) = q
         /\ SubSeq(q, 1, 0) = <<>>
         /\ \A n \in 0..Len(q) : SubSeq(q, 1, n) \in Seq(Op)
         /\ \A o \in Op, n \in 0..Len(q) : SubSeq(Append(q, o), 1, n) = SubSeq(q, 1, n)
<1>1. SubSeq(q, 1, Len(q)) = q
  BY SubSeqFull
<1>2. SubSeq(q, 1, 0) = <<>>
  BY SubSeqEmpty
<1>3. Len(q) \in Nat /\ \A i \in 1..Len(q) : q[i] \in Op
  BY LenProperties, ElementOfSeq
<1>4. ASSUME NEW n \in 0..Len(q)
      PROVE  SubSeq(q, 1, n) \in Seq(Op) /\ Len(SubSeq(q, 1, n)) = n
             /\ \A i \in 1..n : SubSeq(q, 1, n)[i] = q[i]
  <2>1. n \in Int /\ 1 \in Int /\ \A i \in 1..n : q[i] \in Op
    BY <1>3
  <2>2. /\ SubSeq(q, 1, n) \in Seq(Op)
        /\ Len(SubSeq(q, 1, n)) = IF 1 <= n THEN n - 1 + 1 ELSE 0
        /\ \A i \in 1..n - 1 + 1 : SubSeq(q, 1, n)[i] = q[1 + i - 1]
    BY <2>1, SubSeqProperties
  <2>3. QED
    BY <1>3, <2>2
<1>5. ASSUME NEW o \in Op, NEW n \in 0..Len(q)
      PROVE  SubSeq(Append(q, o), 1, n) = SubSeq(q, 1, n)
  <2>1. PICK p : p = Append(q, o)
    OBVIOUS
  <2>2. p \in Seq(Op) /\ Len(p) = Len(q) + 1 /\ \A i \in 1..Len(q) : p[i] = q[i]
    BY <2>1, AppendProperties
  <2>3. n \in Int /\ 1 \in Int /\ n \in 0..Len(p) /\ \A i \in 1..n : p[i] \in Op
    BY <1>3, <2>2
  <2>4. /\ SubSeq(p, 1, n) \in Seq(Op)
        /\ Len(SubSeq(p, 1, n)) = IF 1 <= n THEN n - 1 + 1 ELSE 0
        /\ \A i \in 1..n - 1 + 1 : SubSeq(p, 1, n)[i] = p[1 + i - 1]
    BY <2>3, SubSeqProperties
  <2>5. Len(SubSeq(p, 1, n)) = n /\ \A i \in 1..n : SubSeq(p, 1, n)[i] = q[i]
    BY <1>3, <2>2, <2>4
  <2>6. SubSeq(p, 1, n) = SubSeq(q, 1, n)
    BY <1>4, <2>4, <2>5, SeqEqual
  <2>7. QED
    BY <2>1, <2>6
<1>6. QED
  BY <1>1, <1>2, <1>4, <1>5

LEMMA RecoversEmpty ==
  ASSUME NEW f, NEW S, f \in S
  PROVE  Recovers(f, <<>>, S)
<1>1. <<>> \in Seq(Op) /\ Len(<<>>) = 0 /\ 0..0 = {0}
  OBVIOUS
<1>2. SubSeq(<<>>, 1, 0) = <<>>
  BY <1>1, Prefixes
<1>3. QED
  BY <1>1, <1>2, ReplayEmpty DEF Recovers

LEMMA RecoversAppend ==
  ASSUME NEW f, NEW q \in Seq(Op), NEW S, Recovers(f, q, S), NEW o \in Op,
         NEW U, S \subseteq U, Replay(f, Append(q, o)) \in U
  PROVE  Recovers(f, Append(q, o), U)
<1>1. PICK p : p = Append(q, o)
  OBVIOUS
<1>2. p \in Seq(Op) /\ Len(p) = Len(q) + 1 /\ Len(q) \in Nat
  BY <1>1, AppendProperties
<1>3. ASSUME NEW n \in 0..Len(p) PROVE Replay(f, SubSeq(p, 1, n)) \in U
  <2>1. CASE n = Len(p)
    BY <1>1, <1>2, <2>1, Prefixes
  <2>2. CASE n # Len(p)
    <3>1. n \in 0..Len(q)
      BY <1>2, <2>2
    <3>2. SubSeq(p, 1, n) = SubSeq(q, 1, n)
      BY <1>1, <3>1, Prefixes
    <3>3. QED
      BY <3>1, <3>2 DEF Recovers
  <2>3. QED
    BY <2>1, <2>2
<1>4. QED
  BY <1>1, <1>3 DEF Recovers

-----------------------------------------------------------------------------
(* The steps.                                                               *)

LEMMA InvParts ==
  ASSUME IInv
  PROVE  /\ TypeOK /\ Buffers /\ Saved
         /\ gaps = {} => Story
         /\ m_Hash \in Table /\ file \in Table /\ journal \in Seq(Op) /\ buffer \in Seq(Op)
         /\ now \in 1..MaxTime /\ ops \in 0..MaxOps /\ seen \subseteq Table /\ gaps \subseteq Gap
  BY DEF IInv, TypeOK

LEMMA EmptyTable == Empty \in Table /\ Absent \in Entry
  BY DEF Empty, Table, Entry

LEMMA InvInit == Init => IInv
<1> SUFFICES ASSUME Init PROVE IInv
  OBVIOUS
<1>1. /\ m_Hash = Empty /\ m_Journal = FALSE /\ pc = "down" /\ file = Empty /\ journal = <<>>
      /\ buffer = <<>> /\ now = 1 /\ ops = 0 /\ seen = {Empty} /\ gaps = {}
  BY DEF Init
<1>2. TypeOK
  <2>1. now \in 1..MaxTime /\ ops \in 0..MaxOps /\ <<>> \in Seq(Op)
    BY <1>1, TimeAssumption
  <2>2. m_Hash \in Table /\ file \in Table /\ seen \subseteq Table
    BY <1>1, EmptyTable
  <2>3. QED
    BY <1>1, <2>1, <2>2 DEF TypeOK
<1>3. Replay(file, journal) \in seen
  BY <1>1, ReplayEmpty
<1>4. QED
  BY <1>1, <1>2, <1>3 DEF IInv, Buffers, Saved, Story

LEMMA OpenReadStep ==
  ASSUME IInv, OpenRead PROVE IInv'
<1>1. /\ pc = "down" /\ m_Hash' = Replay(file, journal) /\ pc' = "read"
      /\ UNCHANGED <<m_Journal, file, journal, buffer, now, ops, seen, gaps>>
  BY DEF OpenRead, diskVars
<1>2. m_Hash' \in Table
  BY <1>1, InvParts, ReplayType
<1>3. TypeOK'
  BY <1>1, <1>2, InvParts DEF TypeOK
<1>4. QED
  BY <1>1, <1>3, InvParts DEF IInv, Buffers, Saved, Story

LEMMA OpenEraseStep ==
  ASSUME IInv, OpenErase PROVE IInv'
<1>1. /\ pc = "read" /\ journal' = <<>> /\ pc' = "erased" /\ seen' = {m_Hash}
      /\ gaps' = (IF m_Hash = file THEN {} ELSE {"restored"})
      /\ UNCHANGED <<m_Hash, m_Journal, file, buffer, now, ops>>
  BY DEF OpenErase
<1>2. buffer = <<>>
  BY <1>1, InvParts DEF Buffers
<1>3. TypeOK'
  BY <1>1, InvParts DEF TypeOK, Gap
<1>4. gaps' = {} => file = m_Hash
  BY <1>1
<1>5. gaps' = {} => m_Hash' = Replay(file', buffer') /\ Recovers(file', buffer', seen')
  BY <1>1, <1>2, <1>4, ReplayEmpty, RecoversEmpty
<1>6. QED
  BY <1>1, <1>2, <1>3, <1>5 DEF IInv, Buffers, Saved, Story

LEMMA OpenBeginStep ==
  ASSUME IInv, OpenBegin PROVE IInv'
<1>1. /\ pc = "erased" /\ m_Journal' \in BOOLEAN /\ pc' = "open"
      /\ UNCHANGED <<m_Hash, file, journal, buffer, now, ops, seen, gaps>>
  BY DEF OpenBegin, diskVars
<1>2. TypeOK'
  BY <1>1, InvParts DEF TypeOK
<1>3. QED
  BY <1>1, <1>2, InvParts DEF IInv, Buffers, Saved, Story

\* Any change: with no gap the record says what became of the table.
LEMMA ChangeStep ==
  ASSUME IInv, NEW o \in Op, NEW table \in Table, NEW gap \in SUBSET Gap,
         Change(o, table, gap), now' \in 1..MaxTime,
         gap = {} => table = apply(m_Hash, o)
  PROVE  IInv'
<1>1. /\ pc = "open" /\ pc' = "open" /\ ops < MaxOps /\ ops' = ops + 1
      /\ buffer' = (IF m_Journal THEN Append(buffer, o) ELSE buffer)
      /\ m_Hash' = table /\ seen' = seen \union {table}
      /\ gaps' = gaps \union gap \union (IF m_Journal THEN {} ELSE {"no_journal"})
      /\ UNCHANGED <<m_Journal, file, journal>>
  BY DEF Change, diskVars
<1>2. buffer' \in Seq(Op)
  BY <1>1, InvParts, AppendProperties
<1>3. ops' \in 0..MaxOps
  BY <1>1, InvParts, TimeAssumption
<1>4. TypeOK'
  BY <1>1, <1>2, <1>3, InvParts DEF TypeOK, Gap
<1>5. ASSUME gaps' = {}
      PROVE  m_Hash' = Replay(file, buffer') /\ Recovers(file, buffer', seen')
  <2>1. gaps = {} /\ gap = {} /\ m_Journal
    BY <1>1, <1>5
  <2>2. m_Hash = Replay(file, buffer) /\ Recovers(file, buffer, seen)
    BY <1>1, <2>1, InvParts DEF Story
  <2>3. buffer' = Append(buffer, o)
    BY <1>1, <2>1
  <2>4. Replay(file, Append(buffer, o)) = table
    BY <2>1, <2>2, InvParts, ReplayAppend
  <2>5. Recovers(file, Append(buffer, o), seen')
    BY <1>1, <2>2, <2>4, InvParts, RecoversAppend
  <2>6. QED
    BY <1>1, <2>3, <2>4, <2>5
<1>6. QED
  BY <1>1, <1>4, <1>5, InvParts DEF IInv, Buffers, Saved, Story

LEMMA TouchedStep ==
  ASSUME IInv, NEW table \in Table, pc = "open", ops < MaxOps, ops' = ops + 1, m_Hash' = table,
         seen' = seen \union {table}, gaps' = gaps \union {"touch"},
         UNCHANGED <<m_Journal, pc, file, journal, buffer, now>>
  PROVE  IInv'
<1>1. ops' \in 0..MaxOps
  BY InvParts, TimeAssumption
<1>2. TypeOK'
  BY <1>1, InvParts DEF TypeOK, Gap
<1>3. gaps' # {}
  OBVIOUS
<1>4. QED
  BY <1>2, <1>3, InvParts DEF IInv, Buffers, Saved

LEMMA RecordsTyped ==
  ASSUME NEW k \in Keys
  PROVE  /\ \A v \in Vals \union {EmptyVal}, t \in Times :
              [val |-> v, stamp |-> t] \in Entry /\ insertOp(k, v, t) \in Op
         /\ removeOp(k) \in Op
<1>1. <<0, 0>> \in Times \X Times
  BY TimeAssumption DEF Times
<1>2. Absent \in Entry
  BY EmptyTable
<1>3. \A v \in Vals \union {EmptyVal}, t \in Times : [val |-> v, stamp |-> t] \in Entry
  BY DEF Entry
<1>4. QED
  BY <1>1, <1>2, <1>3 DEF insertOp, removeOp, Op

LEMMA SetValueStep ==
  ASSUME IInv, NEW k \in Keys, NEW v \in Vals, SetValue(k, v) PROVE IInv'
<1>1. PICK t \in {now, now + 1} \cap 1..MaxTime :
        /\ Change(insertOp(k, v, now), [m_Hash EXCEPT ![k] = [val |-> v, stamp |-> t]],
                  IF t = now THEN {} ELSE {"tick"})
        /\ now' = t
  BY DEF SetValue
<1>2. PICK gap \in SUBSET Gap : gap = (IF t = now THEN {} ELSE {"tick"}) /\ (gap = {} => t = now)
  BY DEF Gap
<1>3. t \in Times /\ now \in Times
  BY InvParts, TimeAssumption DEF Times
<1>4. PICK e \in Entry : e = [val |-> v, stamp |-> t]
  BY <1>3, RecordsTyped
<1>5. PICK o \in Op : o = insertOp(k, v, now)
  BY <1>3, RecordsTyped
<1>6. PICK table \in Table : table = [m_Hash EXCEPT ![k] = e]
  BY InvParts DEF Table
<1>7. o.op = "insert" /\ o.key = k /\ (gap = {} => o.entry = e)
  BY <1>2, <1>4, <1>5 DEF insertOp
<1>8. gap = {} => table = apply(m_Hash, o)
  BY <1>6, <1>7, InvParts, ApplyInsert
<1>9. Change(o, table, gap) /\ now' \in 1..MaxTime
  BY <1>1, <1>2, <1>4, <1>5, <1>6
<1>10. QED
  BY <1>8, <1>9, ChangeStep

LEMMA SetPermanentStep ==
  ASSUME IInv, NEW k \in Keys, NEW v \in Vals, SetPermanent(k, v) PROVE IInv'
<1>1. 0 \in Times
  BY TimeAssumption DEF Times
<1>2. PICK e \in Entry : e = [val |-> v, stamp |-> 0]
  BY <1>1, RecordsTyped
<1>3. PICK o \in Op : o = insertOp(k, v, 0)
  BY <1>1, RecordsTyped
<1>4. PICK table \in Table : table = [m_Hash EXCEPT ![k] = e]
  BY InvParts DEF Table
<1>5. o.op = "insert" /\ o.key = k /\ o.entry = e
  BY <1>2, <1>3 DEF insertOp
<1>6. table = apply(m_Hash, o)
  BY <1>4, <1>5, InvParts, ApplyInsert
<1>7. Change(o, table, {}) /\ now' \in 1..MaxTime
  BY <1>2, <1>3, <1>4, InvParts DEF SetPermanent
<1>8. QED
  BY <1>6, <1>7, ChangeStep

LEMMA RemoveStep ==
  ASSUME IInv, NEW k \in Keys, Remove(k) PROVE IInv'
<1>1. PICK o \in Op : o = removeOp(k)
  BY RecordsTyped
<1>2. PICK table \in Table : table = [m_Hash EXCEPT ![k] = Absent]
  BY InvParts, EmptyTable DEF Table
<1>3. o.op = "remove" /\ o.key = k
  BY <1>1 DEF removeOp
<1>4. table = apply(m_Hash, o)
  BY <1>2, <1>3, InvParts, ApplyRemove
<1>5. Change(o, table, {}) /\ now' \in 1..MaxTime
  BY <1>1, <1>2, InvParts DEF Remove
<1>6. QED
  BY <1>4, <1>5, ChangeStep

LEMMA ClearStep ==
  ASSUME IInv, Clear PROVE IInv'
<1>1. <<0, 0>> \in Times \X Times /\ anyKey \in Keys
  BY TimeAssumption, KeyAssumption DEF Times, anyKey
<1>2. PICK o \in Op : o = clearOp
  BY <1>1, EmptyTable DEF clearOp, Op
<1>3. o.op = "clear"
  BY <1>2 DEF clearOp
<1>4. Empty = apply(m_Hash, o)
  BY <1>3, InvParts, ApplyClear
<1>5. Change(o, Empty, {}) /\ now' \in 1..MaxTime
  BY <1>2, InvParts DEF Clear
<1>6. QED
  BY <1>4, <1>5, EmptyTable, ChangeStep

LEMMA PruneStep ==
  ASSUME IInv, NEW r \in Ranges, Prune(r) PROVE IInv'
<1>1. r \in Times \X Times /\ anyKey \in Keys
  BY RangeAssumption, KeyAssumption DEF anyKey
<1>2. PICK o \in Op : o = pruneOp(r)
  BY <1>1, EmptyTable DEF pruneOp, Op
<1>3. o.op = "prune" /\ o.range = r
  BY <1>2 DEF pruneOp
<1>4. PICK table \in Table : table = pruned(m_Hash, r)
  BY InvParts, PrunedTable
<1>5. table = apply(m_Hash, o)
  BY <1>3, <1>4, InvParts, ApplyPrune
<1>6. Change(o, table, {}) /\ now' \in 1..MaxTime
  BY <1>2, <1>4, InvParts DEF Prune
<1>7. QED
  BY <1>5, <1>6, ChangeStep

LEMMA TouchStep ==
  ASSUME IInv, NEW k \in Keys, NEW t \in 0..MaxTime, Touch(k, t) PROVE IInv'
<1>1. t \in Times /\ now \in Times
  BY InvParts, TimeAssumption DEF Times
<1>2. CASE m_Hash[k] = Absent
  <2>1. PICK e \in Entry : e = [val |-> EmptyVal, stamp |-> t]
    BY <1>1, RecordsTyped
  <2>2. PICK o \in Op : o = insertOp(k, EmptyVal, now)
    BY <1>1, RecordsTyped
  <2>3. PICK table \in Table : table = [m_Hash EXCEPT ![k] = e]
    BY InvParts DEF Table
  <2>4. Change(o, table, {"touch"}) /\ now' \in 1..MaxTime
    BY <1>2, <2>1, <2>2, <2>3, InvParts DEF Touch
  <2>5. {"touch"} \in SUBSET Gap /\ {"touch"} # {}
    BY DEF Gap
  <2>6. QED
    BY <2>4, <2>5, ChangeStep
<1>3. CASE m_Hash[k] # Absent
  <2>1. m_Hash[k] \in [val : Vals \union {EmptyVal}, stamp : Times]
    BY <1>3, InvParts DEF Table, Entry
  <2>2. PICK e \in Entry : e = [m_Hash[k] EXCEPT !.stamp = t]
    BY <1>1, <2>1 DEF Entry
  <2>3. PICK table \in Table : table = [m_Hash EXCEPT ![k] = e]
    BY InvParts DEF Table
  <2>4. [m_Hash EXCEPT ![k].stamp = t] = table
    BY <2>2, <2>3
  <2>5. /\ pc = "open" /\ ops < MaxOps /\ ops' = ops + 1 /\ m_Hash' = table
        /\ seen' = seen \union {table} /\ gaps' = gaps \union {"touch"}
        /\ UNCHANGED <<m_Journal, pc, file, journal, buffer, now>>
    BY <1>3, <2>4 DEF Touch, diskVars
  <2>6. QED
    BY <2>5, TouchedStep
<1>4. QED
  BY <1>2, <1>3

LEMMA TickStep ==
  ASSUME IInv, Tick PROVE IInv'
<1>1. /\ now < MaxTime /\ now' = now + 1
      /\ UNCHANGED <<m_Hash, m_Journal, pc, file, journal, buffer, ops, seen, gaps>>
  BY DEF Tick, diskVars
<1>2. now' \in 1..MaxTime
  BY <1>1, InvParts, TimeAssumption
<1>3. TypeOK'
  BY <1>1, <1>2, InvParts DEF TypeOK
<1>4. QED
  BY <1>1, <1>3, InvParts DEF IInv, Buffers, Saved, Story

\* From here on it is the table the journal must not change.
LEMMA SaveBeginStep ==
  ASSUME IInv, SaveBegin PROVE IInv'
<1>1. /\ pc = "open"
      /\ \/ file' = Empty /\ pc' = "saving" /\ UNCHANGED gaps
         \/ pc' = "saved" /\ gaps' = gaps \union {"save_failed"} /\ UNCHANGED file
      /\ UNCHANGED <<m_Hash, m_Journal, journal, buffer, now, ops, seen>>
  BY DEF SaveBegin
<1>2. TypeOK'
  BY <1>1, InvParts, EmptyTable DEF TypeOK, Gap
<1>3. gaps' = {} => Replay(m_Hash, buffer) = m_Hash
  <2>1. SUFFICES ASSUME gaps' = {} PROVE Replay(m_Hash, buffer) = m_Hash
    OBVIOUS
  <2>2. m_Hash = Replay(file, buffer)
    BY <1>1, <2>1, InvParts DEF Story
  <2>3. QED
    BY <2>2, InvParts, ReplayTwice
<1>4. QED
  BY <1>1, <1>2, <1>3, InvParts DEF IInv, Buffers, Saved, Story

LEMMA PartialTables == m_Hash \in Table => Partial \subseteq Table
  BY EmptyTable DEF Partial, Table

LEMMA SaveEndStep ==
  ASSUME IInv, SaveEnd PROVE IInv'
<1>1. /\ pc = "saving" /\ pc' = "saved"
      /\ \/ file' = m_Hash /\ UNCHANGED gaps
         \/ file' \in Partial /\ gaps' = gaps \union {"save_failed"}
      /\ UNCHANGED <<m_Hash, m_Journal, journal, buffer, now, ops, seen>>
  BY DEF SaveEnd
<1>2. TypeOK'
  BY <1>1, InvParts, PartialTables DEF TypeOK, Gap
<1>3. QED
  BY <1>1, <1>2, InvParts DEF IInv, Buffers, Saved, Story

LEMMA CloseEndStep ==
  ASSUME IInv, CloseEnd PROVE IInv'
<1>1. /\ pc = "saved" /\ pc' = "ended" /\ journal' = journal \o buffer /\ buffer' = <<>>
      /\ UNCHANGED <<m_Hash, m_Journal, file, now, ops, seen, gaps>>
  BY DEF CloseEnd
<1>2. journal' = buffer
  BY <1>1, InvParts, ConcatEmptySeq DEF Buffers
<1>3. TypeOK'
  BY <1>1, <1>2, InvParts DEF TypeOK
<1>4. QED
  BY <1>1, <1>2, <1>3, InvParts DEF IInv, Buffers, Saved, Story

LEMMA CloseEraseStep ==
  ASSUME IInv, CloseErase PROVE IInv'
<1>1. /\ pc = "ended" /\ pc' = "down" /\ journal' = <<>> /\ seen' = {m_Hash}
      /\ gaps' = gaps \cap {"save_failed"} /\ m_Hash' = Empty /\ m_Journal' = FALSE
      /\ UNCHANGED <<file, buffer, now, ops>>
  BY DEF CloseErase
<1>2. TypeOK'
  <2>1. m_Hash' \in Table /\ seen' \subseteq Table /\ gaps' \subseteq Gap /\ <<>> \in Seq(Op)
    BY <1>1, InvParts, EmptyTable
  <2>2. journal' \in Seq(Op) /\ buffer' \in Seq(Op)
    BY <1>1, <2>1, InvParts, Zenon
  <2>3. QED
    BY <1>1, <2>1, <2>2, InvParts DEF TypeOK
<1>3. gaps' = {} => Replay(file', journal') \in seen'
  BY <1>1, InvParts, ReplayEmpty DEF Saved
<1>4. buffer' = <<>>
  BY <1>1, InvParts DEF Buffers
<1>5. QED
  BY <1>1, <1>2, <1>3, <1>4 DEF IInv, Buffers, Saved, Story

LEMMA CrashStep ==
  ASSUME IInv, Crash PROVE IInv'
<1>1. PICK n \in 0..Len(buffer) :
        /\ journal' = journal \o SubSeq(buffer, 1, n)
        /\ gaps' = gaps \union (IF pc = "saving" THEN {"torn"} ELSE {})
                        \union (IF pc = "saved" /\ n < Len(buffer) THEN {"unflushed"} ELSE {})
  BY DEF Crash
<1>2. /\ pc # "down" /\ pc' = "down" /\ buffer' = <<>> /\ m_Hash' = Empty /\ m_Journal' = FALSE
      /\ IF pc = "saving" THEN file' \in Partial ELSE UNCHANGED file
      /\ UNCHANGED <<now, ops, seen>>
  BY DEF Crash
<1>3. PICK q \in Seq(Op) : /\ q = SubSeq(buffer, 1, n)
                           /\ n = 0 => q = <<>>
                           /\ n = Len(buffer) => q = buffer
  <2>1. PICK q : q = SubSeq(buffer, 1, n)
    OBVIOUS
  <2>2. q \in Seq(Op) /\ (n = Len(buffer) => q = buffer)
    BY <2>1, InvParts, Prefixes
  <2>3. n = 0 => q = <<>>
    BY <2>1, InvParts, Prefixes
  <2>4. QED
    BY <2>1, <2>2, <2>3
<1>4. journal' = journal \o q /\ journal' \in Seq(Op)
  BY <1>1, <1>3, InvParts, ConcatProperties
<1>5. gaps' \subseteq Gap
  BY <1>1, InvParts DEF Gap
<1>6. TypeOK'
  <2>1. m_Hash' \in Table /\ file' \in Table /\ <<>> \in Seq(Op)
    BY <1>2, InvParts, PartialTables, EmptyTable
  <2>2. buffer' \in Seq(Op)
    BY <1>2, <2>1, Zenon
  <2>3. QED
    BY <1>2, <1>4, <1>5, <2>1, <2>2, InvParts DEF TypeOK
<1>7. ASSUME gaps' = {}
      PROVE  Replay(file', journal') \in seen
  <2>1. gaps = {} /\ pc # "saving" /\ file' = file
    BY <1>1, <1>2, <1>7
  <2>2. Story /\ Buffers /\ Saved
    BY <2>1, InvParts
  <2>3. CASE pc \in {"read", "ended"}
    <3>1. Len(buffer) = 0 /\ buffer = <<>>
      BY <2>2, <2>3 DEF Buffers
    <3>2. q = <<>>
      BY <1>3, <3>1
    <3>3. journal' = journal
      BY <1>4, <3>2, InvParts, ConcatEmptySeq
    <3>4. QED
      BY <2>1, <2>2, <2>3, <3>3 DEF Story, Saved
  <2>4. CASE pc \in {"erased", "open"}
    <3>1. journal = <<>> /\ Recovers(file, buffer, seen)
      BY <2>2, <2>4 DEF Buffers, Story
    <3>2. journal' = q
      BY <1>4, <3>1, ConcatEmptySeq
    <3>3. QED
      BY <1>3, <2>1, <3>1, <3>2 DEF Recovers
  <2>5. CASE pc = "saved"
    <3>1. n = Len(buffer)
      <4>1. ~(n < Len(buffer))
        BY <1>1, <1>7, <2>5
      <4>2. QED
        BY <4>1, InvParts, LenProperties
    <3>2. journal = <<>> /\ file = m_Hash /\ m_Hash \in seen /\ Replay(m_Hash, buffer) = m_Hash
      BY <2>1, <2>2, <2>5 DEF Buffers, Story, Saved
    <3>3. journal' = buffer
      BY <1>3, <1>4, <3>1, <3>2, ConcatEmptySeq
    <3>4. QED
      BY <2>1, <3>2, <3>3
  <2>6. QED
    BY <1>2, <2>1, <2>3, <2>4, <2>5, InvParts DEF TypeOK
<1>8. QED
  BY <1>2, <1>6, <1>7 DEF IInv, Buffers, Saved, Story

LEMMA InvStep == IInv /\ [Next]_vars => IInv'
<1> SUFFICES ASSUME IInv, [Next]_vars PROVE IInv'
  OBVIOUS
<1>1. CASE UNCHANGED vars
  BY <1>1 DEF vars, diskVars, IInv, TypeOK, Buffers, Saved, Story, Recovers
<1>2. CASE OpenRead \/ OpenErase \/ OpenBegin
  BY <1>2, OpenReadStep, OpenEraseStep, OpenBeginStep
<1>3. CASE \E k \in Keys, v \in Vals : SetValue(k, v) \/ SetPermanent(k, v)
  BY <1>3, SetValueStep, SetPermanentStep
<1>4. CASE \E k \in Keys : Remove(k)
  BY <1>4, RemoveStep
<1>5. CASE Clear
  BY <1>5, ClearStep
<1>6. CASE \E r \in Ranges : Prune(r)
  BY <1>6, PruneStep
<1>7. CASE \E k \in Keys, t \in 0..MaxTime : Touch(k, t)
  BY <1>7, TouchStep
<1>8. CASE Tick \/ SaveBegin \/ SaveEnd
  BY <1>8, TickStep, SaveBeginStep, SaveEndStep
<1>9. CASE CloseEnd \/ CloseErase \/ Crash
  BY <1>9, CloseEndStep, CloseEraseStep, CrashStep
<1>10. QED
  BY <1>1, <1>2, <1>3, <1>4, <1>5, <1>6, <1>7, <1>8, <1>9 DEF Next

LEMMA Invariant == Spec => []IInv
<1>1. QED
  BY InvInit, InvStep, PTL DEF Spec

-----------------------------------------------------------------------------
(* The theorems.                                                            *)

\* The table, the files and the journal's records stay in their types through
\* every call, crash and replay.
THEOREM VaultTyped == Spec => []TypeOK
<1>1. IInv => TypeOK
  BY DEF IInv
<1>2. QED
  BY <1>1, Invariant, PTL

\* Whatever Open, Close or a change was doing when the process died, and
\* however often it dies again in Open, _ReadFromFile and Replay bring back a
\* table the vault had, unless one of the named gaps came between.
THEOREM VaultRecovers == Spec => RecoversTable
<1>1. ASSUME IInv, [Next]_vars
      PROVE  [(OpenRead /\ gaps = {}) => m_Hash' \in seen]_vars
  BY <1>1, InvParts DEF OpenRead, Story
<1>2. QED
  BY <1>1, Invariant, PTL DEF Spec, RecoversTable
=============================================================================
