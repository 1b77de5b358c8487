-------------------------- MODULE SqlThreadingProofs --------------------------
(***************************************************************************)
(* For any set of queries and any number of query objects: an object is in  *)
(* one place at a time, a handler is called with the result of its own      *)
(* query, and no query is lost or answered twice before a shutdown.         *)
(*                                                                         *)
(* The invariant is stated for the objects T, the worker's queue P, the two  *)
(* stacks Q and F and the object k whose handler runs; every action moves at *)
(* most one object from one of them to another.                              *)
(***************************************************************************)
EXTENDS SqlThreading, SequenceTheorems, FunctionTheorems, FiniteSetTheorems, TLAPS

\* The objects the worker still has when it accepted acc and ended n of them.
Rest(acc, n) == SubSeq(acc, n + 1, Len(acc))

Held(P, Q, F, k, o) ==
  Count(o, P) + Count(o, Q) + Count(o, F) + (IF k = o THEN 1 ELSE 0)

Flying(P, Q, o) == Count(o, P) + Count(o, Q) > 0

Stored(T, P, Q, F, k) ==
  /\ T \in Seq(Thread) /\ k \in 0..Len(T)
  /\ P \in Seq(1..Len(T)) /\ Q \in Seq(1..Len(T)) /\ F \in Seq(1..Len(T))

Exclusive(T, P, Q, F, k) == \A o \in 1..Len(T) : Held(P, Q, F, k, o) = 1

\* An object runs the query it was submitted for, with that query's data.
Filled(T, sub) ==
  \A o \in 1..Len(T) :
    /\ T[o].query = T[o].fwd
    /\ \E s \in sub : s.q = T[o].fwd
    /\ \A s \in sub : s.q = T[o].fwd /\ s.data => T[o].data = s.q

Distinct(T) == \A o, u \in 1..Len(T) : T[o].fwd = T[u].fwd => o = u

\* An object on g_ThreadQueue has the result of its query.
Finished(T, Q) ==
  \A o \in 1..Len(T) : Count(o, Q) > 0 => T[o].ran = T[o].fwd /\ T[o].outcome \in Outcome

Answer(d, sub) ==
  /\ d.ran = d.fwd /\ d.outcome \in Outcome
  /\ \E s \in sub : s.q = d.fwd
  /\ \A s \in sub : s.q = d.fwd /\ s.data => d.data = s.q

Answers(del, sub) == \A i \in 1..Len(del) : Answer(del[i], sub)

Once(del) == \A i, j \in 1..Len(del) : del[i].fwd = del[j].fwd => i = j

\* A query in flight was not delivered before.
NotYet(T, P, Q, del) ==
  \A o \in 1..Len(T) : Flying(P, Q, o) => \A i \in 1..Len(del) : del[i].fwd # T[o].fwd

\* A query is in flight or was delivered.
Kept(T, P, Q, sub, del) ==
  \A s \in sub : \/ \E o \in 1..Len(T) : T[o].fwd = s.q /\ Flying(P, Q, o)
                 \/ \E i \in 1..Len(del) : del[i].fwd = s.q

Book(T, P, Q, sub, del) ==
  /\ sub \in SUBSET [q : Queries, data : BOOLEAN] /\ del \in Seq(Delivery)
  /\ Filled(T, sub) /\ Distinct(T) /\ Finished(T, Q)
  /\ Answers(del, sub) /\ Once(del) /\ NotYet(T, P, Q, del)

\* The worker, and the main thread as far as the worker depends on it.
Worker ==
  /\ Len(terminated) <= Len(accepted)
  /\ current # NoObject => Len(terminated) < Len(accepted) /\ current = W!NextJob
  /\ mode = "closed" => current = NoObject /\ Len(terminated) = Len(accepted)

Control ==
  /\ mode = "open" => g_pWorker /\ pc \in {"idle", "handler"}
  /\ mode = "draining" <=> pc = "unload_stop"
  /\ mode = "cancelling" <=> pc = "shutdown_stop"
  /\ mode = "closed" <=> ~ g_pWorker
  /\ kmThread # NoObject => pc \in {"handler", "unload_handler"}

Typed ==
  /\ accepted \in Seq(1..Len(threads)) /\ current \in Nat
  /\ terminated \in Seq([job : Nat \ {NoObject}, cancel : BOOLEAN])
  /\ mode \in {"open", "draining", "cancelling", "closed"}
  /\ g_pWorker \in BOOLEAN /\ g_QueueLock \in BOOLEAN /\ pc \in MainPC

IInv ==
  /\ Typed /\ Worker /\ Control
  /\ Stored(threads, Pending, g_ThreadQueue, g_FreeThreads, kmThread)
  /\ Book(threads, Pending, g_ThreadQueue, submitted, delivered)
  /\ pc # "detached" => Exclusive(threads, Pending, g_ThreadQueue, g_FreeThreads, kmThread)
  /\ pc \notin {"shutdown_stop", "detached"} =>
       Kept(threads, Pending, g_ThreadQueue, submitted, delivered)

-----------------------------------------------------------------------------
(* Counting.                                                                 *)

\* t is s with one more occurrence of x.
Gains(s, t, x) ==
  /\ Count(x, t) = Count(x, s) + 1
  /\ \A o : o # x => Count(o, t) = Count(o, s)

LEMMA CountNat ==
  ASSUME NEW s, Len(s) \in Nat, NEW o
  PROVE  /\ Count(o, s) \in Nat
         /\ IsFiniteSet({i \in 1..Len(s) : s[i] = o})
<1>1. IsFiniteSet(1..Len(s))
  BY FS_Interval
<1>2. {i \in 1..Len(s) : s[i] = o} \in SUBSET (1..Len(s))
  OBVIOUS
<1>3. IsFiniteSet({i \in 1..Len(s) : s[i] = o})
  BY <1>1, <1>2, FS_Subset
<1>4. QED
  BY <1>3, FS_CardinalityType DEF Count

LEMMA CountEmpty ==
  ASSUME NEW o
  PROVE  Count(o, <<>>) = 0
<1>1. {i \in 1..Len(<<>>) : <<>>[i] = o} = {}
  OBVIOUS
<1>2. QED
  BY <1>1, FS_EmptySet DEF Count

LEMMA CountIn ==
  ASSUME NEW S, NEW s \in Seq(S), NEW o, Count(o, s) > 0
  PROVE  o \in S
<1>1. SUFFICES ASSUME o \notin S
               PROVE  FALSE
  OBVIOUS
<1>2. {i \in 1..Len(s) : s[i] = o} = {}
  BY <1>1
<1>3. Count(o, s) = 0
  BY <1>2, FS_EmptySet DEF Count
<1>4. QED
  BY <1>3

LEMMA AppendGains ==
  ASSUME NEW S, NEW s \in Seq(S), NEW x \in S
  PROVE  Gains(s, Append(s, x), x)
<1>1. PICK t : t = Append(s, x)
  OBVIOUS
<1>2. /\ Len(s) \in Nat /\ Len(t) = Len(s) + 1
      /\ \A i \in 1..Len(s) : t[i] = s[i]
      /\ t[Len(s) + 1] = x
  BY <1>1, AppendProperties
<1>3. ASSUME NEW o
      PROVE  /\ o = x => Count(o, t) = Count(o, s) + 1
             /\ o # x => Count(o, t) = Count(o, s)
  <2>1. PICK A : A = {i \in 1..Len(s) : s[i] = o}
    OBVIOUS
  <2>2. IsFiniteSet(A) /\ Len(s) + 1 \notin A
    <3>1. IsFiniteSet(A)
      BY <1>2, <2>1, CountNat
    <3>2. Len(s) + 1 \notin A
      BY <1>2, <2>1
    <3>3. QED
      BY <3>1, <3>2
  <2>3. CASE o = x
    <3>1. {i \in 1..Len(t) : t[i] = o} = A \union {Len(s) + 1}
      <4>1. 1..Len(t) = (1..Len(s)) \union {Len(s) + 1}
        BY <1>2
      <4>2. QED
        BY <1>2, <2>1, <2>3, <4>1
    <3>2. Cardinality(A \union {Len(s) + 1}) = Cardinality(A) + 1
      BY <2>2, FS_AddElement
    <3>3. QED
      BY <2>1, <2>3, <3>1, <3>2 DEF Count
  <2>4. CASE o # x
    <3>1. {i \in 1..Len(t) : t[i] = o} = A
      BY <1>2, <2>1, <2>4
    <3>2. QED
      BY <2>1, <2>4, <3>1 DEF Count
  <2>5. QED
    BY <2>3, <2>4
<1>4. QED
  BY <1>1, <1>3 DEF Gains

LEMMA ConsProperties ==
  ASSUME NEW S, NEW s \in Seq(S), NEW x \in S
  PROVE  /\ <<x>> \o s \in Seq(S) /\ Len(<<x>> \o s) = Len(s) + 1
         /\ (<<x>> \o s)[1] = x
         /\ \A i \in 1..Len(s) : (<<x>> \o s)[i + 1] = s[i]
<1>1. <<x>> \in Seq(S) /\ Len(<<x>>) = 1 /\ <<x>>[1] = x
  OBVIOUS
<1>2. PICK u \in Seq(S) : u = <<x>>
  BY <1>1
<1>3. /\ u \o s \in Seq(S) /\ Len(u \o s) = Len(u) + Len(s)
      /\ \A i \in 1..Len(u) + Len(s) : (u \o s)[i] = IF i <= Len(u) THEN u[i] ELSE s[i - Len(u)]
  BY ConcatProperties
<1>4. Len(u) = 1 /\ u[1] = x /\ Len(s) \in Nat
  BY <1>1, <1>2
<1>5. (u \o s)[1] = x
  BY <1>3, <1>4
<1>6. ASSUME NEW i \in 1..Len(s)
      PROVE  (u \o s)[i + 1] = s[i]
  <2>1. i + 1 \in 1..Len(u) + Len(s) /\ ~ (i + 1 <= Len(u)) /\ (i + 1) - Len(u) = i
    BY <1>4
  <2>2. QED
    BY <1>3, <2>1
<1>7. QED
  BY <1>2, <1>3, <1>4, <1>5, <1>6

LEMMA PushGains ==
  ASSUME NEW S, NEW s \in Seq(S), NEW x \in S
  PROVE  Gains(s, <<x>> \o s, x)
<1>1. PICK t : t = <<x>> \o s
  OBVIOUS
<1>2. /\ Len(s) \in Nat /\ Len(t) = Len(s) + 1 /\ t[1] = x
      /\ \A i \in 1..Len(s) : t[i + 1] = s[i]
  BY <1>1, ConsProperties
<1>3. ASSUME NEW o
      PROVE  /\ o = x => Count(o, t) = Count(o, s) + 1
             /\ o # x => Count(o, t) = Count(o, s)
  <2>1. PICK A : A = {i \in 1..Len(s) : s[i] = o}
    OBVIOUS
  <2>2. PICK B : B = {i \in 2..Len(t) : t[i] = o}
    OBVIOUS
  <2>3. IsFiniteSet(A)
    BY <1>2, <2>1, CountNat
  <2>4. PICK f : f = [i \in A |-> i + 1]
    OBVIOUS
  <2>5. f \in Bijection(A, B)
    <3>1. f \in [A -> B]
      BY <1>2, <2>1, <2>2, <2>4
    <3>2. \A i, j \in A : f[i] = f[j] => i = j
      BY <2>1, <2>4
    <3>3. \A b \in B : \E a \in A : f[a] = b
      <4>1. ASSUME NEW b \in B
            PROVE  \E a \in A : f[a] = b
        <5>1. PICK a \in 1..Len(s) : a + 1 = b
          <6>1. b - 1 \in 1..Len(s) /\ (b - 1) + 1 = b
            BY <1>2, <2>2
          <6>2. QED
            BY <6>1
        <5>2. s[a] = o
          BY <1>2, <2>2, <5>1
        <5>3. QED
          BY <2>1, <2>4, <5>1, <5>2
      <4>2. QED
        BY <4>1
    <3>4. QED
      BY <3>1, <3>2, <3>3 DEF Bijection, Injection, Surjection, IsInjective
  <2>6. IsFiniteSet(B) /\ Cardinality(B) = Cardinality(A)
    <3>1. ExistsBijection(A, B)
      BY <2>5, Fun_ExistsBij
    <3>2. QED
      BY <2>3, <3>1, FS_Bijection
  <2>7. CASE o = x
    <3>1. {i \in 1..Len(t) : t[i] = o} = B \union {1} /\ 1 \notin B
      BY <1>2, <2>2, <2>7
    <3>2. Cardinality(B \union {1}) = Cardinality(B) + 1
      BY <2>6, <3>1, FS_AddElement
    <3>3. QED
      BY <2>1, <2>6, <2>7, <3>1, <3>2 DEF Count
  <2>8. CASE o # x
    <3>1. {i \in 1..Len(t) : t[i] = o} = B
      BY <1>2, <2>2, <2>8
    <3>2. QED
      BY <2>1, <2>6, <2>8, <3>1 DEF Count
  <2>9. QED
    BY <2>7, <2>8
<1>4. QED
  BY <1>1, <1>3 DEF Gains

LEMMA PopGains ==
  ASSUME NEW S, NEW s \in Seq(S), s # <<>>
  PROVE  /\ Head(s) \in S /\ Tail(s) \in Seq(S)
         /\ Gains(Tail(s), s, Head(s))
<1>1. PICK x : x = Head(s)
  OBVIOUS
<1>2. PICK t : t = Tail(s)
  OBVIOUS
<1>3. x \in S /\ t \in Seq(S) /\ Len(t) = Len(s) - 1 /\ \A i \in 1..Len(t) : t[i] = s[i + 1]
  BY <1>1, <1>2, HeadTailProperties
<1>4. x = s[1] /\ Len(s) \in Nat \ {0}
  BY <1>1
<1>5. PICK u : u = <<x>> \o t
  OBVIOUS
<1>6. /\ u \in Seq(S) /\ Len(u) = Len(t) + 1 /\ u[1] = x
      /\ \A i \in 1..Len(t) : u[i + 1] = t[i]
  BY <1>3, <1>5, ConsProperties
<1>7. \A i \in 1..Len(u) : u[i] = s[i]
  <2>1. ASSUME NEW i \in 1..Len(u), i # 1
        PROVE  u[i] = s[i]
    <3>1. PICK j \in 1..Len(t) : j + 1 = i
      <4>1. i - 1 \in 1..Len(t) /\ (i - 1) + 1 = i
        BY <1>3, <1>4, <1>6, <2>1
      <4>2. QED
        BY <4>1
    <3>2. QED
      BY <1>3, <1>6, <3>1
  <2>2. QED
    BY <1>4, <1>6, <2>1
<1>8. u = s
  BY <1>3, <1>4, <1>6, <1>7, SeqEqual
<1>9. QED
  BY <1>1, <1>2, <1>3, <1>5, <1>8, PushGains

\* MakeThread puts an object at the end of the worker's queue.
LEMMA RestGains ==
  ASSUME NEW S, NEW acc \in Seq(S), NEW n \in 0..Len(acc), NEW x \in S
  PROVE  /\ Append(acc, x) \in Seq(S) /\ Len(Append(acc, x)) = Len(acc) + 1
         /\ Rest(Append(acc, x), n) \in Seq(S)
         /\ Gains(Rest(acc, n), Rest(Append(acc, x), n), x)
<1>1. PICK b : b = Append(acc, x)
  OBVIOUS
<1>2. /\ b \in Seq(S) /\ Len(b) = Len(acc) + 1 /\ b[Len(acc) + 1] = x
      /\ \A i \in 1..Len(acc) : b[i] = acc[i]
  BY <1>1, AppendProperties
<1>3. Len(acc) \in Nat /\ n \in Nat /\ n <= Len(acc)
  OBVIOUS
<1>4. PICK r : r = Rest(acc, n)
  OBVIOUS
<1>5. /\ r \in Seq(S) /\ Len(r) = Len(acc) - n
      /\ \A i \in 1..(Len(acc) - n) : r[i] = acc[n + i]
  <2>1. \A i \in (n + 1)..Len(acc) : acc[i] \in S
    BY <1>3
  <2>2. n + 1 \in Int /\ Len(acc) \in Int
    BY <1>3
  <2>3. /\ r \in Seq(S) /\ Len(r) = IF n + 1 <= Len(acc) THEN Len(acc) - (n + 1) + 1 ELSE 0
        /\ \A i \in 1..(Len(acc) - (n + 1) + 1) : r[i] = acc[(n + 1) + i - 1]
    BY <1>4, <2>1, <2>2, SubSeqProperties DEF Rest
  <2>4. QED
    BY <1>3, <2>3
<1>6. PICK t : t = Rest(b, n)
  OBVIOUS
<1>7. /\ t \in Seq(S) /\ Len(t) = Len(acc) + 1 - n
      /\ \A i \in 1..(Len(acc) + 1 - n) : t[i] = b[n + i]
  <2>1. \A i \in (n + 1)..Len(b) : b[i] \in S
    BY <1>2, <1>3
  <2>2. n + 1 \in Int /\ Len(b) \in Int
    BY <1>2, <1>3
  <2>3. /\ t \in Seq(S) /\ Len(t) = IF n + 1 <= Len(b) THEN Len(b) - (n + 1) + 1 ELSE 0
        /\ \A i \in 1..(Len(b) - (n + 1) + 1) : t[i] = b[(n + 1) + i - 1]
    BY <1>6, <2>1, <2>2, SubSeqProperties DEF Rest
  <2>4. Len(b) - (n + 1) + 1 = Len(acc) + 1 - n /\ n + 1 <= Len(b)
    BY <1>2, <1>3
  <2>5. \A i \in 1..(Len(acc) + 1 - n) : (n + 1) + i - 1 = n + i
    BY <1>3
  <2>6. QED
    BY <2>3, <2>4, <2>5
<1>8. PICK u : u = Append(r, x)
  OBVIOUS
<1>9. /\ u \in Seq(S) /\ Len(u) = Len(r) + 1 /\ u[Len(r) + 1] = x
      /\ \A i \in 1..Len(r) : u[i] = r[i]
  BY <1>5, <1>8, AppendProperties
<1>10. \A i \in 1..Len(t) : t[i] = u[i]
  <2>1. ASSUME NEW i \in 1..Len(t), i <= Len(r)
        PROVE  t[i] = u[i]
    BY <1>2, <1>3, <1>5, <1>7, <1>9, <2>1
  <2>2. ASSUME NEW i \in 1..Len(t), ~ (i <= Len(r))
        PROVE  t[i] = u[i]
    <3>1. i = Len(r) + 1 /\ n + i = Len(acc) + 1
      BY <1>3, <1>5, <1>7, <2>2
    <3>2. QED
      BY <1>2, <1>7, <1>9, <3>1
  <2>3. QED
    BY <2>1, <2>2
<1>11. t = u
  BY <1>3, <1>5, <1>7, <1>9, <1>10, SeqEqual, SMTT(60)
<1>12. Gains(r, u, x)
  BY <1>5, <1>8, AppendGains
<1>13. QED
  BY <1>1, <1>2, <1>4, <1>6, <1>7, <1>11, <1>12

\* OnTerminate takes one from its front.
LEMMA RestLoses ==
  ASSUME NEW S, NEW acc \in Seq(S), NEW n \in Nat, n < Len(acc)
  PROVE  /\ acc[n + 1] \in S /\ Rest(acc, n + 1) \in Seq(S)
         /\ Gains(Rest(acc, n + 1), Rest(acc, n), acc[n + 1])
<1>1. Len(acc) \in Nat /\ n + 1 \in 1..Len(acc) /\ Len(acc) \in (n + 1)..Len(acc)
  OBVIOUS
<1>2. PICK r : r = Rest(acc, n)
  OBVIOUS
<1>3. Head(r) = acc[n + 1] /\ Tail(r) = Rest(acc, n + 1)
  BY <1>1, <1>2, HeadTailOfSubSeq DEF Rest
<1>4. r \in Seq(S) /\ r # <<>>
  <2>1. \A i \in (n + 1)..Len(acc) : acc[i] \in S
    BY <1>1
  <2>2. n + 1 \in Int /\ Len(acc) \in Int
    BY <1>1
  <2>3. /\ r \in Seq(S) /\ Len(r) = IF n + 1 <= Len(acc) THEN Len(acc) - (n + 1) + 1 ELSE 0
    BY <1>2, <2>1, <2>2, SubSeqProperties DEF Rest
  <2>4. Len(r) # 0
    BY <1>1, <2>3
  <2>5. QED
    BY <2>3, <2>4
<1>5. QED
  BY <1>2, <1>3, <1>4, PopGains

-----------------------------------------------------------------------------
(* What the actions do to the objects.                                       *)

LEMMA HeldNat ==
  ASSUME NEW T, NEW P, NEW Q, NEW F, NEW k, Stored(T, P, Q, F, k), NEW o
  PROVE  Count(o, P) \in Nat /\ Count(o, Q) \in Nat /\ Count(o, F) \in Nat
<1>1. Len(P) \in Nat /\ Len(Q) \in Nat /\ Len(F) \in Nat
  BY DEF Stored
<1>2. QED
  BY <1>1, CountNat

\* The handler of an object is called.
LEMMA ExecuteBook ==
  ASSUME NEW T, NEW P, NEW Q, NEW F, NEW sub, NEW del,
         Stored(T, P, Q, F, NoObject), Book(T, P, Q, sub, del), Exclusive(T, P, Q, F, NoObject),
         Q # <<>>, NEW o, o = Head(Q), NEW d \in Delivery,
         d.fwd = T[o].fwd, d.data = T[o].data, d.ran = T[o].ran, d.outcome = T[o].outcome
  PROVE  /\ Stored(T, P, Tail(Q), F, o) /\ Exclusive(T, P, Tail(Q), F, o)
         /\ Book(T, P, Tail(Q), sub, Append(del, d))
         /\ Kept(T, P, Q, sub, del) => Kept(T, P, Tail(Q), sub, Append(del, d))
<1>1. PICK R : R = Tail(Q)
  OBVIOUS
<1>2. o \in 1..Len(T) /\ R \in Seq(1..Len(T)) /\ Gains(R, Q, o)
  BY <1>1, PopGains DEF Stored
<1>3. Stored(T, P, R, F, o)
  BY <1>2 DEF Stored
<1>4. /\ \A u : Count(u, P) \in Nat /\ Count(u, Q) \in Nat /\ Count(u, F) \in Nat
      /\ \A u : Count(u, R) \in Nat
  BY <1>3, HeldNat
<1>5. Exclusive(T, P, R, F, o)
  <2>1. SUFFICES ASSUME NEW u \in 1..Len(T)
                 PROVE  Held(P, R, F, o, u) = 1
    BY DEF Exclusive
  <2>2. Count(u, P) + Count(u, Q) + Count(u, F) = 1
    <3>1. NoObject # u
      BY DEF NoObject, Stored
    <3>2. QED
      BY <1>4, <3>1 DEF Exclusive, Held
  <2>3. CASE u = o
    BY <1>2, <1>4, <2>2, <2>3 DEF Gains, Held
  <2>4. CASE u # o
    BY <1>2, <1>4, <2>2, <2>4, SMTT(60) DEF Gains, Held
  <2>5. QED
    BY <2>3, <2>4
<1>6. Flying(P, Q, o)
  BY <1>2, <1>4 DEF Gains, Flying
<1>7. ~ Flying(P, R, o)
  <2>1. Held(P, R, F, o, o) = 1
    BY <1>2, <1>5 DEF Exclusive
  <2>2. QED
    BY <1>4, <2>1 DEF Held, Flying
<1>8. \A u : u # o => (Flying(P, R, u) <=> Flying(P, Q, u))
  BY <1>2 DEF Gains, Flying
<1>9. PICK e : e = Append(del, d)
  OBVIOUS
<1>10. /\ del \in Seq(Delivery) /\ e \in Seq(Delivery) /\ Len(e) = Len(del) + 1
       /\ \A i \in 1..Len(del) : e[i] = del[i]
       /\ e[Len(del) + 1] = d /\ Len(del) \in Nat
  BY <1>9, AppendProperties DEF Book
<1>11. \A i \in 1..Len(e) : i \in 1..Len(del) \/ i = Len(del) + 1
  BY <1>10
<1>12. \A i \in 1..Len(del) : del[i].fwd # d.fwd
  BY <1>2, <1>6 DEF Book, NotYet
<1>13. Book(T, P, R, sub, e)
  <2>1. Finished(T, R)
    <3>1. \A u \in 1..Len(T) : Count(u, R) > 0 => Count(u, Q) > 0
      BY <1>2, <1>4, SMTT(60) DEF Gains
    <3>2. Finished(T, Q)
      BY DEF Book
    <3>3. QED
      BY <3>1, <3>2 DEF Finished
  <2>2. Answer(d, sub)
    <3>1. Count(o, Q) > 0
      BY <1>2, <1>4 DEF Gains
    <3>2. d.ran = d.fwd /\ d.outcome \in Outcome
      BY <1>2, <3>1 DEF Book, Finished
    <3>3. QED
      BY <1>2, <3>2 DEF Book, Filled, Answer
  <2>3. Answers(e, sub)
    BY <1>10, <1>11, <2>2 DEF Book, Answers
  <2>4. Once(e)
    BY <1>10, <1>11, <1>12 DEF Book, Once
  <2>5. NotYet(T, P, R, e)
    <3>1. SUFFICES ASSUME NEW u \in 1..Len(T), Flying(P, R, u), NEW i \in 1..Len(e)
                   PROVE  e[i].fwd # T[u].fwd
      BY DEF NotYet
    <3>2. u # o /\ Flying(P, Q, u)
      BY <1>7, <1>8, <3>1
    <3>3. T[u].fwd # d.fwd
      BY <1>2, <3>2 DEF Book, Distinct
    <3>4. QED
      BY <1>10, <1>11, <3>2, <3>3 DEF Book, NotYet
  <2>6. QED
    BY <1>10, <2>1, <2>3, <2>4, <2>5 DEF Book
<1>14. ASSUME Kept(T, P, Q, sub, del)
       PROVE  Kept(T, P, R, sub, e)
  <2>1. SUFFICES ASSUME NEW s \in sub
                 PROVE  \/ \E u \in 1..Len(T) : T[u].fwd = s.q /\ Flying(P, R, u)
                        \/ \E i \in 1..Len(e) : e[i].fwd = s.q
    BY DEF Kept
  <2>2. ASSUME NEW i \in 1..Len(del), del[i].fwd = s.q
        PROVE  \E j \in 1..Len(e) : e[j].fwd = s.q
    BY <1>10, <2>2
  <2>3. ASSUME NEW u \in 1..Len(T), T[u].fwd = s.q, Flying(P, Q, u), u # o
        PROVE  \E v \in 1..Len(T) : T[v].fwd = s.q /\ Flying(P, R, v)
    BY <1>8, <2>3
  <2>4. ASSUME T[o].fwd = s.q
        PROVE  \E j \in 1..Len(e) : e[j].fwd = s.q
    BY <1>10, <2>4
  <2>5. QED
    BY <1>14, <2>2, <2>3, <2>4 DEF Kept
<1>15. QED
  BY <1>1, <1>3, <1>5, <1>9, <1>13, <1>14

\* The handler has returned.
LEMMA EndExecuteBook ==
  ASSUME NEW T, NEW P, NEW Q, NEW F, NEW k, Stored(T, P, Q, F, k), k # NoObject,
         Exclusive(T, P, Q, F, k)
  PROVE  Stored(T, P, Q, <<k>> \o F, NoObject) /\ Exclusive(T, P, Q, <<k>> \o F, NoObject)
<1>1. PICK G : G = <<k>> \o F
  OBVIOUS
<1>2. k \in 1..Len(T) /\ Len(T) \in Nat
  BY DEF Stored, NoObject
<1>3. G \in Seq(1..Len(T)) /\ Gains(F, G, k)
  BY <1>1, <1>2, ConsProperties, PushGains DEF Stored
<1>4. Stored(T, P, Q, G, NoObject)
  BY <1>2, <1>3 DEF Stored, NoObject
<1>5. \A u : Count(u, P) \in Nat /\ Count(u, Q) \in Nat /\ Count(u, F) \in Nat
  BY HeldNat
<1>6. ASSUME NEW u \in 1..Len(T)
      PROVE  Held(P, Q, G, NoObject, u) = 1
  <2>1. NoObject # u /\ Held(P, Q, F, k, u) = 1
    BY <1>2 DEF NoObject, Exclusive
  <2>2. CASE u = k
    BY <1>3, <1>5, <2>1, <2>2 DEF Gains, Held
  <2>3. CASE u # k
    BY <1>3, <1>5, <2>1, <2>3 DEF Gains, Held
  <2>4. QED
    BY <2>2, <2>3
<1>7. QED
  BY <1>1, <1>4, <1>6 DEF Exclusive

\* A cancelled object goes from the worker to the free stack.
LEMMA CancelBook ==
  ASSUME NEW T, NEW P, NEW Q, NEW F, NEW k, Stored(T, P, Q, F, k), NEW sub, NEW del,
         Exclusive(T, P, Q, F, k), Book(T, P, Q, sub, del),
         NEW R \in Seq(1..Len(T)), NEW o \in 1..Len(T), Gains(R, P, o)
  PROVE  /\ Stored(T, R, Q, <<o>> \o F, k) /\ Exclusive(T, R, Q, <<o>> \o F, k)
         /\ Book(T, R, Q, sub, del)
<1>1. PICK G : G = <<o>> \o F
  OBVIOUS
<1>2. G \in Seq(1..Len(T)) /\ Gains(F, G, o)
  BY <1>1, ConsProperties, PushGains DEF Stored
<1>3. Stored(T, R, Q, G, k)
  BY <1>2 DEF Stored
<1>4. /\ \A u : Count(u, P) \in Nat /\ Count(u, Q) \in Nat /\ Count(u, F) \in Nat
      /\ \A u : Count(u, R) \in Nat
  BY <1>3, HeldNat
<1>5. ASSUME NEW u \in 1..Len(T)
      PROVE  Held(R, Q, G, k, u) = 1
  <2>1. Held(P, Q, F, k, u) = 1
    BY DEF Exclusive
  <2>2. CASE u = o
    BY <1>2, <1>4, <2>1, <2>2 DEF Gains, Held
  <2>3. CASE u # o
    BY <1>2, <1>4, <2>1, <2>3 DEF Gains, Held
  <2>4. QED
    BY <2>2, <2>3
<1>6. \A u : Flying(R, Q, u) => Flying(P, Q, u)
  BY <1>4, SMTT(60) DEF Gains, Flying
<1>7. Book(T, R, Q, sub, del)
  BY <1>6 DEF Book, NotYet
<1>8. QED
  BY <1>1, <1>3, <1>5, <1>7 DEF Exclusive

\* Only the result of an object changes.
Redone(T, U, o) ==
  /\ U \in Seq(Thread) /\ Len(U) = Len(T) /\ o \in 1..Len(T)
  /\ \A u \in 1..Len(T) : u # o => U[u] = T[u]
  /\ U[o].fwd = T[o].fwd /\ U[o].query = T[o].query /\ U[o].data = T[o].data

LEMMA RedoneBook ==
  ASSUME NEW T, NEW U, NEW o, Redone(T, U, o), NEW sub
  PROVE  /\ \A u \in 1..Len(U) : U[u].fwd = T[u].fwd
         /\ Filled(T, sub) => Filled(U, sub)
         /\ Distinct(T) => Distinct(U)
<1>1. \A u \in 1..Len(U) : U[u].fwd = T[u].fwd /\ U[u].query = T[u].query /\ U[u].data = T[u].data
  BY DEF Redone
<1>2. Len(U) = Len(T)
  BY DEF Redone
<1>3. Filled(T, sub) => Filled(U, sub)
  BY <1>1, <1>2 DEF Filled
<1>4. Distinct(T) => Distinct(U)
  BY <1>1, <1>2 DEF Distinct
<1>5. QED
  BY <1>1, <1>3, <1>4

\* The worker starts on an object.
LEMMA RunBook ==
  ASSUME NEW T, NEW P, NEW Q, NEW F, NEW k, Stored(T, P, Q, F, k), NEW sub, NEW del,
         Exclusive(T, P, Q, F, k), Book(T, P, Q, sub, del),
         NEW U, NEW o, Redone(T, U, o), Count(o, P) > 0
  PROVE  /\ Stored(U, P, Q, F, k) /\ Exclusive(U, P, Q, F, k) /\ Book(U, P, Q, sub, del)
         /\ Kept(T, P, Q, sub, del) => Kept(U, P, Q, sub, del)
<1>1. Len(U) = Len(T) /\ o \in 1..Len(T)
  BY DEF Redone
<1>2. \A u : Count(u, P) \in Nat /\ Count(u, Q) \in Nat /\ Count(u, F) \in Nat
  BY HeldNat
<1>3. Stored(U, P, Q, F, k) /\ Exclusive(U, P, Q, F, k)
  BY <1>1 DEF Stored, Exclusive, Redone
<1>4. Count(o, Q) = 0
  <2>1. Held(P, Q, F, k, o) = 1
    BY <1>1 DEF Exclusive
  <2>2. QED
    BY <1>2, <2>1 DEF Held
<1>5. /\ \A u \in 1..Len(U) : U[u].fwd = T[u].fwd
      /\ Filled(U, sub) /\ Distinct(U)
  BY RedoneBook DEF Book
<1>6. Finished(U, Q)
  <2>1. \A u \in 1..Len(T) : Count(u, Q) > 0 => U[u] = T[u]
    BY <1>4 DEF Redone
  <2>2. QED
    BY <1>1, <2>1 DEF Book, Finished
<1>7. NotYet(U, P, Q, del)
  BY <1>1, <1>5 DEF Book, NotYet
<1>8. Kept(T, P, Q, sub, del) => Kept(U, P, Q, sub, del)
  BY <1>1, <1>5 DEF Kept
<1>9. QED
  BY <1>3, <1>5, <1>6, <1>7, <1>8 DEF Book

\* It has a result, and the object goes to g_ThreadQueue.
LEMMA TerminateBook ==
  ASSUME NEW T, NEW P, NEW Q, NEW F, NEW k, Stored(T, P, Q, F, k), NEW sub, NEW del,
         Exclusive(T, P, Q, F, k), Book(T, P, Q, sub, del),
         NEW R \in Seq(1..Len(T)), NEW U, NEW o, Redone(T, U, o), Gains(R, P, o),
         U[o].ran = T[o].query, U[o].outcome \in Outcome
  PROVE  /\ Stored(U, R, <<o>> \o Q, F, k) /\ Exclusive(U, R, <<o>> \o Q, F, k)
         /\ Book(U, R, <<o>> \o Q, sub, del)
         /\ Kept(T, P, Q, sub, del) => Kept(U, R, <<o>> \o Q, sub, del)
<1>1. PICK G : G = <<o>> \o Q
  OBVIOUS
<1>2. Len(U) = Len(T) /\ o \in 1..Len(T)
  BY DEF Redone
<1>3. G \in Seq(1..Len(T)) /\ Gains(Q, G, o)
  BY <1>1, <1>2, ConsProperties, PushGains DEF Stored
<1>4. Stored(T, R, G, F, k)
  BY <1>3 DEF Stored
<1>5. Stored(U, R, G, F, k)
  BY <1>2, <1>4 DEF Stored, Redone
<1>6. /\ \A u : Count(u, P) \in Nat /\ Count(u, Q) \in Nat /\ Count(u, F) \in Nat
      /\ \A u : Count(u, R) \in Nat /\ Count(u, G) \in Nat
  BY <1>4, HeldNat
<1>7. ASSUME NEW u \in 1..Len(T)
      PROVE  Held(R, G, F, k, u) = 1 /\ (Flying(R, G, u) => Flying(P, Q, u))
             /\ (Flying(P, Q, u) => Flying(R, G, u))
  <2>1. Held(P, Q, F, k, u) = 1
    BY DEF Exclusive
  <2>2. CASE u = o
    BY <1>3, <1>6, <2>1, <2>2, SMTT(60) DEF Gains, Held, Flying
  <2>3. CASE u # o
    BY <1>3, <1>6, <2>1, <2>3 DEF Gains, Held, Flying
  <2>4. QED
    BY <2>2, <2>3
<1>8. Exclusive(U, R, G, F, k)
  BY <1>2, <1>7 DEF Exclusive
<1>9. /\ \A u \in 1..Len(U) : U[u].fwd = T[u].fwd
      /\ Filled(U, sub) /\ Distinct(U)
  BY RedoneBook DEF Book
<1>10. Finished(U, G)
  <2>1. ASSUME NEW u \in 1..Len(U), u # o, Count(u, G) > 0
        PROVE  U[u].ran = U[u].fwd /\ U[u].outcome \in Outcome
    <3>1. Count(u, Q) > 0 /\ U[u] = T[u] /\ u \in 1..Len(T)
      BY <1>2, <1>3, <2>1 DEF Gains, Redone
    <3>2. QED
      BY <3>1 DEF Book, Finished
  <2>2. U[o].ran = U[o].fwd /\ U[o].outcome \in Outcome
    BY <1>2 DEF Redone, Book, Filled
  <2>3. QED
    BY <2>1, <2>2 DEF Finished
<1>11. NotYet(U, R, G, del)
  BY <1>2, <1>7, <1>9 DEF Book, NotYet
<1>12. Kept(T, P, Q, sub, del) => Kept(U, R, G, sub, del)
  BY <1>2, <1>7, <1>9 DEF Kept
<1>13. QED
  BY <1>1, <1>5, <1>8, <1>9, <1>10, <1>11, <1>12 DEF Book

\* A query is submitted: o is a new object, or one from the free stack.
Submitted(T, U, o, q, b) ==
  /\ U \in Seq(Thread) /\ o \in 1..Len(U) /\ Len(T) <= Len(U)
  /\ \A u \in 1..Len(U) : u # o => u \in 1..Len(T) /\ U[u] = T[u]
  /\ U[o].fwd = q /\ U[o].query = q /\ (b => U[o].data = q)

\* A query not submitted before goes to the worker with an object o that neither it nor
\* the stack of finished objects holds.
Submits(T, P, Q, F, k, sub, del, q, b, U, o, R, G, sub2) ==
  /\ Stored(T, P, Q, F, k) /\ Exclusive(T, P, Q, F, k) /\ Book(T, P, Q, sub, del)
  /\ Kept(T, P, Q, sub, del)
  /\ q \in Queries /\ b \in BOOLEAN
  /\ \A s \in sub : s.q # q
  /\ Submitted(T, U, o, q, b)
  /\ Stored(U, R, Q, G, k) /\ Gains(P, R, o)
  /\ \A u : u # o => Count(u, G) = Count(u, F)
  /\ ~ Flying(P, Q, o) /\ Held(R, Q, G, k, o) = 1
  /\ sub2 = sub \union {[q |-> q, data |-> b]}

LEMMA SubmitBook ==
  ASSUME NEW T, NEW P, NEW Q, NEW F, NEW k, NEW sub, NEW del, NEW q, NEW b, NEW U, NEW o,
         NEW R, NEW G, NEW sub2, Submits(T, P, Q, F, k, sub, del, q, b, U, o, R, G, sub2)
  PROVE  /\ Exclusive(U, R, Q, G, k) /\ Book(U, R, Q, sub2, del)
         /\ Kept(U, R, Q, sub2, del)
<1> USE DEF Submits
<1>1. PICK n : n = [q |-> q, data |-> b]
  OBVIOUS
<1>2. sub2 = sub \union {n}
  BY <1>1
<1>3. n \in [q : Queries, data : BOOLEAN] /\ n.q = q /\ n.data = b
  BY <1>1
<1>4. /\ \A u : Count(u, P) \in Nat /\ Count(u, Q) \in Nat /\ Count(u, F) \in Nat
      /\ \A u : Count(u, R) \in Nat /\ Count(u, G) \in Nat
  BY HeldNat
<1>5. Exclusive(U, R, Q, G, k)
  <2>1. ASSUME NEW u \in 1..Len(U), u # o
        PROVE  Held(R, Q, G, k, u) = 1
    <3>1. Held(P, Q, F, k, u) = 1
      BY <2>1 DEF Submitted, Exclusive
    <3>2. Count(u, R) = Count(u, P) /\ Count(u, G) = Count(u, F)
      BY <2>1 DEF Gains
    <3>3. QED
      BY <3>1, <3>2 DEF Held
  <2>2. QED
    BY <2>1 DEF Exclusive
<1>6. \A u \in 1..Len(U) : u # o => u \in 1..Len(T) /\ U[u] = T[u]
                                  /\ (Flying(R, Q, u) <=> Flying(P, Q, u))
  BY DEF Submitted, Gains, Flying
<1>7. Flying(R, Q, o) /\ Count(o, Q) = 0
  BY <1>4 DEF Gains, Flying
<1>8. \A u \in 1..Len(T) : \E s \in sub : s.q = T[u].fwd
  BY DEF Book, Filled
<1>9. \A u \in 1..Len(T) : T[u].fwd # q
  BY <1>8
<1>10. Filled(U, sub2)
  <2>1. ASSUME NEW u \in 1..Len(U), u # o
        PROVE  /\ U[u].query = U[u].fwd
               /\ \E s \in sub2 : s.q = U[u].fwd
               /\ \A s \in sub2 : s.q = U[u].fwd /\ s.data => U[u].data = s.q
    <3>1. u \in 1..Len(T) /\ U[u] = T[u] /\ U[u].fwd # q
      BY <1>6, <1>9, <2>1
    <3>2. /\ T[u].query = T[u].fwd
          /\ \E s \in sub : s.q = T[u].fwd
          /\ \A s \in sub : s.q = T[u].fwd /\ s.data => T[u].data = s.q
      BY <3>1 DEF Book, Filled
    <3>3. QED
      BY <1>2, <1>3, <3>1, <3>2
  <2>2. /\ U[o].query = U[o].fwd /\ U[o].fwd = n.q /\ n \in sub2
        /\ \A s \in sub2 : s.q = U[o].fwd => s = n
    BY <1>2, <1>3 DEF Submitted
  <2>3. n.data => U[o].data = n.q
    BY <1>3 DEF Submitted
  <2>4. QED
    BY <2>1, <2>2, <2>3 DEF Filled
<1>11. Distinct(U)
  <2>1. \A u, v \in 1..Len(U) : u # o /\ v # o /\ U[u].fwd = U[v].fwd => u = v
    BY <1>6 DEF Book, Distinct
  <2>2. \A u \in 1..Len(U) : u # o => U[u].fwd # U[o].fwd
    BY <1>6, <1>9 DEF Submitted
  <2>3. QED
    BY <2>1, <2>2 DEF Distinct
<1>12. Finished(U, Q)
  <2>1. \A u \in 1..Len(U) : Count(u, Q) > 0 => u # o
    BY <1>7
  <2>2. QED
    BY <1>6, <2>1 DEF Book, Finished
<1>13. \A i \in 1..Len(del) : del[i].fwd # q
  BY DEF Book, Answers, Answer
<1>14. Answers(del, sub2)
  <2>1. SUFFICES ASSUME NEW i \in 1..Len(del)
                 PROVE  Answer(del[i], sub2)
    BY DEF Answers
  <2>2. Answer(del[i], sub) /\ del[i].fwd # n.q
    BY <1>3, <1>13 DEF Book, Answers
  <2>3. QED
    BY <1>2, <2>2 DEF Answer
<1>15. NotYet(U, R, Q, del)
  <2>1. SUFFICES ASSUME NEW u \in 1..Len(U), Flying(R, Q, u), NEW i \in 1..Len(del)
                 PROVE  del[i].fwd # U[u].fwd
    BY DEF NotYet
  <2>2. CASE u = o
    BY <1>13, <2>2 DEF Submitted
  <2>3. CASE u # o
    BY <1>6, <2>1, <2>3 DEF Book, NotYet
  <2>4. QED
    BY <2>2, <2>3
<1>16. Kept(U, R, Q, sub2, del)
  <2>1. SUFFICES ASSUME NEW s \in sub2
                 PROVE  \/ \E u \in 1..Len(U) : U[u].fwd = s.q /\ Flying(R, Q, u)
                        \/ \E i \in 1..Len(del) : del[i].fwd = s.q
    BY DEF Kept
  <2>2. CASE s = n
    BY <1>3, <1>7, <2>2 DEF Submitted
  <2>3. CASE s \in sub
    <3>1. ASSUME NEW u \in 1..Len(T), T[u].fwd = s.q, Flying(P, Q, u)
          PROVE  \E v \in 1..Len(U) : U[v].fwd = s.q /\ Flying(R, Q, v)
      <4>1. u \in 1..Len(U) /\ u # o
        BY <3>1 DEF Submitted, Stored
      <4>2. QED
        BY <1>6, <3>1, <4>1
    <3>2. QED
      BY <2>3, <3>1 DEF Kept
  <2>4. QED
    BY <1>2, <2>2, <2>3
<1>17. sub2 \in SUBSET [q : Queries, data : BOOLEAN]
  BY <1>2, <1>3 DEF Book
<1>18. QED
  BY <1>5, <1>10, <1>11, <1>12, <1>14, <1>15, <1>16, <1>17 DEF Book

-----------------------------------------------------------------------------
(* The actions.                                                              *)

LEMMA InvParts ==
  ASSUME IInv
  PROVE  /\ Typed /\ Worker /\ Control
         /\ Pending = Rest(accepted, Len(terminated))
         /\ Len(accepted) \in Nat /\ Len(terminated) \in Nat /\ Len(threads) \in Nat
         /\ threads \in Seq(Thread) /\ kmThread \in 0..Len(threads)
         /\ g_ThreadQueue \in Seq(1..Len(threads)) /\ g_FreeThreads \in Seq(1..Len(threads))
         /\ Pending \in Seq(1..Len(threads)) /\ DOMAIN threads = 1..Len(threads)
<1>1. Typed /\ Worker /\ Control /\ Stored(threads, Pending, g_ThreadQueue, g_FreeThreads, kmThread)
  BY DEF IInv
<1>2. Len(accepted) \in Nat /\ Len(terminated) \in Nat
  BY <1>1 DEF Typed
<1>3. Pending = Rest(accepted, Len(terminated))
  BY DEF Pending, Rest
<1>4. QED
  BY <1>1, <1>2, <1>3 DEF Stored

\* Nothing moves.
LEMMA QuietStep ==
  ASSUME IInv, UNCHANGED <<accepted, terminated, listVars, kmThread, submitted, delivered>>,
         Typed', Worker', Control',
         pc # "detached",
         pc' \notin {"shutdown_stop", "detached"} => pc # "shutdown_stop"
  PROVE  IInv'
<1>1. Pending' = Pending
  BY DEF Pending
<1>2. QED
  BY <1>1 DEF IInv, listVars

LEMMA OnPluginsLoadedStep ==
  ASSUME IInv, OnPluginsLoaded
  PROVE  IInv'
<1>1. Typed /\ Worker /\ Control
  BY InvParts
<1>2. /\ UNCHANGED <<accepted, current, terminated, listVars, pc, kmThread, submitted, delivered>>
      /\ mode = "closed" /\ mode' = "open" /\ pc = "idle" /\ g_pWorker' = TRUE /\ g_QueueLock' = TRUE
  BY DEF OnPluginsLoaded, W!Open, history
<1>3. Typed'
  BY <1>1, <1>2 DEF Typed, listVars
<1>4. Worker'
  BY <1>1, <1>2 DEF Worker, W!NextJob
<1>5. Control'
  BY <1>1, <1>2 DEF Control
<1>6. QED
  BY <1>2, <1>3, <1>4, <1>5, QuietStep

LEMMA CloseStep ==
  ASSUME IInv, pc = "idle", g_pWorker,
         \/ W!Close(FALSE) /\ pc' = "unload_stop"
         \/ W!Close(TRUE) /\ pc' = "shutdown_stop",
         UNCHANGED <<listVars, g_pWorker, g_QueueLock, kmThread, history>>
  PROVE  IInv'
<1>1. Typed /\ Worker /\ Control
  BY InvParts
<1>2. /\ UNCHANGED <<accepted, current, terminated, listVars, g_pWorker, g_QueueLock, kmThread,
                     submitted, delivered>>
      /\ \/ mode' = "draining" /\ pc' = "unload_stop"
         \/ mode' = "cancelling" /\ pc' = "shutdown_stop"
  BY DEF W!Close, history
<1>3. Typed'
  BY <1>1, <1>2 DEF Typed, listVars, MainPC
<1>4. Worker'
  BY <1>1, <1>2 DEF Worker, W!NextJob
<1>5. Control'
  BY <1>1, <1>2 DEF Control
<1>6. QED
  BY <1>2, <1>3, <1>4, <1>5, QuietStep

\* A result is taken from g_ThreadQueue and its handler called.
LEMMA ExecuteStep ==
  ASSUME IInv, NEW next, Execute(next), kmThread = NoObject,
         pc \notin {"shutdown_stop", "detached"}, UNCHANGED <<accepted, terminated, submitted>>,
         Typed', Worker', Control'
  PROVE  IInv'
<1>1. PICK o : o = Head(g_ThreadQueue)
  OBVIOUS
<1>2. PICK d : d = [fwd |-> threads[o].fwd, data |-> threads[o].data,
                    ran |-> threads[o].ran, outcome |-> threads[o].outcome]
  OBVIOUS
<1>3. /\ g_ThreadQueue # <<>> /\ g_ThreadQueue' = Tail(g_ThreadQueue) /\ kmThread' = o
      /\ delivered' = Append(delivered, d) /\ UNCHANGED <<threads, g_FreeThreads>>
  BY <1>1, <1>2 DEF Execute
<1>4. threads \in Seq(Thread) /\ g_ThreadQueue \in Seq(1..Len(threads))
  BY InvParts
<1>5. o \in 1..Len(threads)
  BY <1>1, <1>3, <1>4, HeadTailProperties
<1>6. threads[o] \in Thread
  BY <1>4, <1>5
<1>7. /\ d \in Delivery /\ d.fwd = threads[o].fwd /\ d.data = threads[o].data
      /\ d.ran = threads[o].ran /\ d.outcome = threads[o].outcome
  BY <1>2, <1>6 DEF Thread, Delivery
<1>8. Pending' = Pending
  BY DEF Pending
<1>9. /\ Stored(threads, Pending, g_ThreadQueue, g_FreeThreads, NoObject)
      /\ Book(threads, Pending, g_ThreadQueue, submitted, delivered)
      /\ Exclusive(threads, Pending, g_ThreadQueue, g_FreeThreads, NoObject)
      /\ Kept(threads, Pending, g_ThreadQueue, submitted, delivered)
  BY DEF IInv
<1>10. PICK R : R = Tail(g_ThreadQueue)
  OBVIOUS
<1>11. PICK e : e = Append(delivered, d)
  OBVIOUS
<1>12. /\ Stored(threads, Pending, R, g_FreeThreads, o)
       /\ Exclusive(threads, Pending, R, g_FreeThreads, o)
       /\ Book(threads, Pending, R, submitted, e)
       /\ Kept(threads, Pending, R, submitted, e)
  BY <1>1, <1>3, <1>7, <1>9, <1>10, <1>11, ExecuteBook
<1>13. /\ g_ThreadQueue' = R /\ delivered' = e /\ kmThread' = o /\ threads' = threads
       /\ g_FreeThreads' = g_FreeThreads /\ submitted' = submitted
  BY <1>3, <1>10, <1>11
<1>14. QED
  BY <1>8, <1>12, <1>13 DEF IInv

LEMMA StartFrameStep ==
  ASSUME IInv, StartFrame
  PROVE  IInv'
<1>1. Typed /\ Worker /\ Control
  BY InvParts
<1>2. /\ pc = "idle" /\ g_pWorker /\ Execute("handler") /\ pc' = "handler" /\ threads' = threads
      /\ UNCHANGED <<accepted, current, terminated, mode, g_pWorker, g_QueueLock, submitted>>
  BY DEF StartFrame, Execute, workerVars
<1>3. kmThread = NoObject
  BY <1>1, <1>2 DEF Control
<1>4. Typed'
  BY <1>1, <1>2 DEF Typed, MainPC
<1>5. Worker'
  BY <1>1, <1>2 DEF Worker, W!NextJob
<1>6. Control'
  BY <1>1, <1>2 DEF Control
<1>7. QED
  BY <1>2, <1>3, <1>4, <1>5, <1>6, ExecuteStep

LEMMA EndExecuteStep ==
  ASSUME IInv, EndExecute
  PROVE  IInv'
<1>1. Typed /\ Worker /\ Control
  BY InvParts
<1>2. /\ pc \in {"handler", "unload_handler"} /\ kmThread # NoObject
      /\ g_FreeThreads' = <<kmThread>> \o g_FreeThreads /\ kmThread' = NoObject
      /\ UNCHANGED <<accepted, current, terminated, mode, threads, g_ThreadQueue, g_pWorker,
                     g_QueueLock, pc, submitted, delivered>>
  BY DEF EndExecute, workerVars, history
<1>3. Typed'
  BY <1>1, <1>2 DEF Typed
<1>4. Worker'
  BY <1>1, <1>2 DEF Worker, W!NextJob
<1>5. Control'
  BY <1>1, <1>2 DEF Control
<1>6. Pending' = Pending
  BY <1>2 DEF Pending
<1>7. PICK G : G = <<kmThread>> \o g_FreeThreads
  OBVIOUS
<1>8. /\ Stored(threads, Pending, g_ThreadQueue, G, NoObject)
      /\ Exclusive(threads, Pending, g_ThreadQueue, G, NoObject)
  BY <1>2, <1>7, EndExecuteBook DEF IInv
<1>9. g_FreeThreads' = G
  BY <1>2, <1>7
<1>10. QED
  BY <1>2, <1>3, <1>4, <1>5, <1>6, <1>8, <1>9 DEF IInv

LEMMA NextResultStep ==
  ASSUME IInv, NextResult
  PROVE  IInv'
<1>1. Typed /\ Worker /\ Control
  BY InvParts
<1>2. /\ pc \in {"handler", "unload_handler"} /\ kmThread = NoObject
      /\ UNCHANGED <<accepted, current, terminated, mode, g_pWorker, g_QueueLock, submitted>>
  BY DEF NextResult, workerVars
<1>3. Worker'
  BY <1>1, <1>2 DEF Worker, W!NextJob
<1>4. CASE Execute(pc)
  <2>1. pc' = pc /\ threads' = threads
    BY <1>4 DEF Execute
  <2>2. Typed'
    BY <1>1, <1>2, <2>1 DEF Typed
  <2>3. Control'
    BY <1>1, <1>2, <2>1 DEF Control
  <2>4. QED
    BY <1>2, <1>3, <1>4, <2>2, <2>3, ExecuteStep
<1>5. CASE pc' = "idle" /\ UNCHANGED <<listVars, kmThread, delivered>>
  <2>1. Typed'
    BY <1>1, <1>2, <1>5 DEF Typed, MainPC, listVars
  <2>2. Control'
    BY <1>1, <1>2, <1>5 DEF Control
  <2>3. QED
    BY <1>2, <1>3, <1>5, <2>1, <2>2, QuietStep
<1>6. QED
  BY <1>4, <1>5 DEF NextResult

LEMMA UnloadStoppedStep ==
  ASSUME IInv, UnloadStopped
  PROVE  IInv'
<1>1. Typed /\ Worker /\ Control
  BY InvParts
<1>2. /\ pc = "unload_stop" /\ mode' = "closed" /\ current = NoObject
      /\ ~ (Len(terminated) < Len(accepted)) /\ g_pWorker' = FALSE
      /\ UNCHANGED <<accepted, current, terminated, g_QueueLock, submitted>>
  BY DEF UnloadStopped, W!Closed, W!HasNext
<1>3. kmThread = NoObject
  BY <1>1, <1>2 DEF Control
<1>4. Worker'
  <2>1. Len(terminated) = Len(accepted)
    BY <1>1, <1>2, InvParts DEF Worker
  <2>2. QED
    BY <1>1, <1>2, <2>1 DEF Worker
<1>5. CASE Execute("unload_handler")
  <2>1. pc' = "unload_handler" /\ threads' = threads
    BY <1>5 DEF Execute
  <2>2. Typed'
    BY <1>1, <1>2, <2>1 DEF Typed, MainPC
  <2>3. Control'
    BY <1>1, <1>2, <2>1 DEF Control
  <2>4. QED
    BY <1>2, <1>3, <1>4, <1>5, <2>2, <2>3, ExecuteStep
<1>6. CASE pc' = "idle" /\ UNCHANGED <<listVars, kmThread, delivered>>
  <2>1. Typed'
    BY <1>1, <1>2, <1>6 DEF Typed, MainPC, listVars
  <2>2. Control'
    BY <1>1, <1>2, <1>3, <1>6 DEF Control
  <2>3. QED
    BY <1>2, <1>4, <1>6, <2>1, <2>2, QuietStep
<1>7. QED
  BY <1>5, <1>6 DEF UnloadStopped

\* The objects are deleted; nothing happens any more.
LEMMA ShutdownStoppedStep ==
  ASSUME IInv, ShutdownStopped
  PROVE  IInv'
<1>1. Typed /\ Worker /\ Control /\ Len(accepted) \in Nat /\ Len(terminated) \in Nat
  BY InvParts
<1>2. /\ g_pWorker' = FALSE /\ pc' = "detached" /\ g_ThreadQueue' = <<>> /\ g_FreeThreads' = <<>>
      /\ UNCHANGED <<threads, g_QueueLock, kmThread, submitted, delivered>>
      /\ pc \in {"shutdown_stop", "idle"}
      /\ UNCHANGED <<accepted, current, terminated>> /\ mode' = "closed" /\ current = NoObject
      /\ Len(terminated) = Len(accepted)
  <2>1. CASE pc = "shutdown_stop" /\ W!Closed
    <3>1. /\ current = NoObject /\ mode' = "closed" /\ ~ (Len(terminated) < Len(accepted))
          /\ UNCHANGED <<accepted, current, terminated>>
      BY <2>1 DEF W!Closed, W!HasNext
    <3>2. Len(terminated) = Len(accepted)
      BY <1>1, <3>1 DEF Worker
    <3>3. QED
      BY <2>1, <3>1, <3>2 DEF ShutdownStopped, history
  <2>2. CASE pc = "idle" /\ ~g_pWorker /\ UNCHANGED workerVars
    <3>1. mode = "closed"
      BY <1>1, <2>2 DEF Control
    <3>2. QED
      BY <1>1, <2>2, <3>1 DEF ShutdownStopped, history, workerVars, Worker
  <2>3. QED
    BY <2>1, <2>2 DEF ShutdownStopped
<1>3. kmThread = NoObject
  BY <1>1, <1>2 DEF Control
<1>4. Typed'
  BY <1>1, <1>2 DEF Typed, MainPC
<1>5. Worker'
  BY <1>1, <1>2 DEF Worker
<1>6. Control'
  BY <1>1, <1>2, <1>3 DEF Control
<1>7. Pending' = Pending
  BY <1>2 DEF Pending
<1>8. Stored(threads, Pending, <<>>, <<>>, kmThread)
  BY DEF IInv, Stored
<1>9. Book(threads, Pending, <<>>, submitted, delivered)
  <2>1. Book(threads, Pending, g_ThreadQueue, submitted, delivered)
    BY DEF IInv
  <2>2. \A o : Count(o, <<>>) = 0
    BY CountEmpty
  <2>3. Finished(threads, <<>>)
    BY <2>2 DEF Finished
  <2>4. \A o : Flying(Pending, <<>>, o) => Flying(Pending, g_ThreadQueue, o)
    <3>1. \A o : Count(o, Pending) \in Nat /\ Count(o, g_ThreadQueue) \in Nat
      BY HeldNat DEF IInv
    <3>2. QED
      BY <2>2, <3>1 DEF Flying
  <2>5. QED
    BY <2>1, <2>3, <2>4 DEF Book, NotYet
<1>10. QED
  BY <1>2, <1>4, <1>5, <1>6, <1>7, <1>8, <1>9 DEF IInv

\* The worker moves only between the calls of Open and Close that return.
LEMMA WorkerMoves ==
  ASSUME IInv, mode # "closed"
  PROVE  /\ pc # "detached"
         /\ Stored(threads, Pending, g_ThreadQueue, g_FreeThreads, kmThread)
         /\ Book(threads, Pending, g_ThreadQueue, submitted, delivered)
         /\ Exclusive(threads, Pending, g_ThreadQueue, g_FreeThreads, kmThread)
         /\ pc # "shutdown_stop" => Kept(threads, Pending, g_ThreadQueue, submitted, delivered)
<1>1. Typed /\ Worker /\ Control
  BY InvParts
<1>2. pc # "detached"
  BY <1>1 DEF Control, Typed
<1>3. QED
  BY <1>2 DEF IInv

LEMMA NextObject ==
  ASSUME IInv, Len(terminated) < Len(accepted), NEW o, o = W!NextJob
  PROVE  /\ o \in 1..Len(threads)
         /\ Rest(accepted, Len(terminated) + 1) \in Seq(1..Len(threads))
         /\ Gains(Rest(accepted, Len(terminated) + 1), Pending, o)
         /\ Count(o, Pending) > 0
<1>1. /\ accepted \in Seq(1..Len(threads)) /\ Len(terminated) \in Nat
      /\ Pending = Rest(accepted, Len(terminated))
  BY InvParts DEF Typed
<1>2. o = accepted[Len(terminated) + 1]
  BY DEF W!NextJob
<1>3. PICK n \in Nat : n = Len(terminated)
  BY <1>1
<1>4. /\ o \in 1..Len(threads) /\ Rest(accepted, n + 1) \in Seq(1..Len(threads))
      /\ Gains(Rest(accepted, n + 1), Rest(accepted, n), o)
  BY <1>1, <1>2, <1>3, RestLoses
<1>5. Count(o, Rest(accepted, n + 1)) \in Nat
  <2>1. Len(Rest(accepted, n + 1)) \in Nat
    BY <1>4
  <2>2. QED
    BY <2>1, CountNat
<1>6. Count(o, Rest(accepted, n)) > 0
  BY <1>4, <1>5 DEF Gains
<1>7. QED
  BY <1>1, <1>3, <1>4, <1>6

LEMMA RunThreadStep ==
  ASSUME IInv, RunThread
  PROVE  IInv'
<1>1. Typed /\ Worker /\ Control /\ threads \in Seq(Thread)
  BY InvParts
<1>2. /\ mode # "closed" /\ Len(terminated) < Len(accepted) /\ current' = W!NextJob
      /\ threads' = [threads EXCEPT ![current'].ran = NoQuery, ![current'].outcome = "none"]
      /\ UNCHANGED <<accepted, terminated, mode, g_ThreadQueue, g_FreeThreads, g_pWorker,
                     g_QueueLock, pc, kmThread, submitted, delivered>>
  BY DEF RunThread, W!Begin, W!HasNext, mainVars, history
<1>3. PICK o : o = W!NextJob
  OBVIOUS
<1>4. o \in 1..Len(threads) /\ Count(o, Pending) > 0
  BY <1>2, <1>3, NextObject
<1>5. PICK h : h = [threads[o] EXCEPT !.ran = NoQuery, !.outcome = "none"]
  OBVIOUS
<1>6. PICK U : U = [threads EXCEPT ![o] = h]
  OBVIOUS
<1>7. threads' = U
  BY <1>1, <1>2, <1>3, <1>4, <1>5, <1>6
<1>8. Redone(threads, U, o)
  <2>1. threads[o] \in Thread
    BY <1>1, <1>4
  <2>2. PICK e : e = [threads[o] EXCEPT !.ran = NoQuery]
    OBVIOUS
  <2>3. /\ e \in Thread /\ e.fwd = threads[o].fwd /\ e.query = threads[o].query
        /\ e.data = threads[o].data
    BY <2>1, <2>2 DEF Thread
  <2>4. h = [e EXCEPT !.outcome = "none"]
    BY <1>5, <2>2
  <2>5. h \in Thread /\ h.fwd = threads[o].fwd /\ h.query = threads[o].query
        /\ h.data = threads[o].data
    BY <2>3, <2>4 DEF Thread
  <2>6. QED
    BY <1>1, <1>4, <1>6, <2>5, ExceptSeq DEF Redone
<1>9. Len(U) = Len(threads)
  BY <1>8 DEF Redone
<1>10. Typed'
  BY <1>1, <1>2, <1>3, <1>4, <1>7, <1>9 DEF Typed
<1>11. Worker'
  BY <1>1, <1>2 DEF Worker, W!NextJob
<1>12. Control'
  BY <1>1, <1>2 DEF Control
<1>13. Pending' = Pending
  BY <1>2 DEF Pending
<1>14. /\ Stored(U, Pending, g_ThreadQueue, g_FreeThreads, kmThread)
       /\ Exclusive(U, Pending, g_ThreadQueue, g_FreeThreads, kmThread)
       /\ Book(U, Pending, g_ThreadQueue, submitted, delivered)
       /\ Kept(threads, Pending, g_ThreadQueue, submitted, delivered)
            => Kept(U, Pending, g_ThreadQueue, submitted, delivered)
  BY <1>2, <1>4, <1>8, WorkerMoves, RunBook
<1>15. QED
  BY <1>2, <1>7, <1>10, <1>11, <1>12, <1>13, <1>14, WorkerMoves DEF IInv

\* OnTerminate and OnTerminate(true) both take the next object.
LEMMA Terminates ==
  ASSUME IInv, Len(terminated) < Len(accepted), NEW o, o = W!NextJob, NEW b \in BOOLEAN,
         terminated' = Append(terminated, [job |-> o, cancel |-> b]), current' = NoObject,
         UNCHANGED <<accepted, mode>>, mode # "closed", Len(threads') = Len(threads),
         UNCHANGED <<g_pWorker, g_QueueLock, pc, kmThread>>
  PROVE  /\ Typed' /\ Worker' /\ Control'
         /\ Pending' = Rest(accepted, Len(terminated) + 1)
<1>1. Typed /\ Worker /\ Control /\ Len(threads) \in Nat /\ Len(accepted) \in Nat
  BY InvParts
<1>2. o \in 1..Len(threads)
  BY NextObject
<1>3. [job |-> o, cancel |-> b] \in [job : Nat \ {NoObject}, cancel : BOOLEAN]
  BY <1>1, <1>2 DEF NoObject
<1>4. /\ terminated' \in Seq([job : Nat \ {NoObject}, cancel : BOOLEAN])
      /\ Len(terminated') = Len(terminated) + 1
  BY <1>1, <1>3, AppendProperties DEF Typed
<1>5. Typed'
  BY <1>1, <1>4 DEF Typed, NoObject
<1>6. Worker'
  BY <1>1, <1>4 DEF Worker, Typed
<1>7. Control'
  BY <1>1 DEF Control
<1>8. Pending' = Rest(accepted, Len(terminated) + 1)
  BY <1>4 DEF Pending, Rest
<1>9. QED
  BY <1>5, <1>6, <1>7, <1>8

LEMMA OnTerminateStep ==
  ASSUME IInv, NEW outcome \in Outcome, OnTerminate(outcome)
  PROVE  IInv'
<1>1. Typed /\ Worker /\ Control /\ threads \in Seq(Thread)
  BY InvParts
<1>2. PICK o : o = current
  OBVIOUS
<1>3. /\ o # NoObject /\ current' = NoObject
      /\ terminated' = Append(terminated, [job |-> o, cancel |-> FALSE])
      /\ threads' = [threads EXCEPT ![o].ran = threads[o].query, ![o].outcome = outcome]
      /\ g_ThreadQueue' = <<o>> \o g_ThreadQueue
      /\ UNCHANGED <<accepted, mode, g_FreeThreads, g_pWorker, g_QueueLock, pc, kmThread,
                     submitted, delivered>>
  BY <1>2 DEF OnTerminate, W!End, mainVars, history
<1>4. Len(terminated) < Len(accepted) /\ o = W!NextJob /\ mode # "closed"
  BY <1>1, <1>2, <1>3 DEF Worker
<1>5. PICK R : R = Rest(accepted, Len(terminated) + 1)
  OBVIOUS
<1>6. o \in 1..Len(threads) /\ R \in Seq(1..Len(threads)) /\ Gains(R, Pending, o)
  BY <1>4, <1>5, NextObject
<1>7. PICK h : h = [threads[o] EXCEPT !.ran = threads[o].query, !.outcome = outcome]
  OBVIOUS
<1>8. PICK U : U = [threads EXCEPT ![o] = h]
  OBVIOUS
<1>9. threads' = U
  BY <1>1, <1>3, <1>6, <1>7, <1>8
<1>10. Redone(threads, U, o) /\ U[o].ran = threads[o].query /\ U[o].outcome \in Outcome
  <2>1. threads[o] \in Thread
    BY <1>1, <1>6
  <2>2. PICK e : e = [threads[o] EXCEPT !.ran = threads[o].query]
    OBVIOUS
  <2>3. /\ e \in Thread /\ e.fwd = threads[o].fwd /\ e.query = threads[o].query
        /\ e.data = threads[o].data /\ e.ran = threads[o].query
    BY <2>1, <2>2 DEF Thread
  <2>4. h = [e EXCEPT !.outcome = outcome]
    BY <1>7, <2>2
  <2>5. /\ h \in Thread /\ h.fwd = threads[o].fwd /\ h.query = threads[o].query
        /\ h.data = threads[o].data /\ h.ran = threads[o].query /\ h.outcome = outcome
    BY <2>3, <2>4 DEF Thread
  <2>6. QED
    BY <1>1, <1>6, <1>8, <2>5, ExceptSeq DEF Redone
<1>11. Len(U) = Len(threads)
  BY <1>10 DEF Redone
<1>12. /\ Typed' /\ Worker' /\ Control' /\ Pending' = R
  BY <1>3, <1>4, <1>5, <1>9, <1>11, Terminates
<1>13. PICK G : G = <<o>> \o g_ThreadQueue
  OBVIOUS
<1>14. /\ Stored(U, R, G, g_FreeThreads, kmThread)
       /\ Exclusive(U, R, G, g_FreeThreads, kmThread)
       /\ Book(U, R, G, submitted, delivered)
       /\ Kept(threads, Pending, g_ThreadQueue, submitted, delivered)
            => Kept(U, R, G, submitted, delivered)
  BY <1>4, <1>6, <1>10, <1>13, WorkerMoves, TerminateBook
<1>15. g_ThreadQueue' = G
  BY <1>3, <1>13
<1>16. QED
  BY <1>3, <1>4, <1>9, <1>12, <1>14, <1>15, WorkerMoves DEF IInv

LEMMA OnTerminateCancelledStep ==
  ASSUME IInv, OnTerminateCancelled
  PROVE  IInv'
<1>1. Typed /\ Worker /\ Control /\ threads \in Seq(Thread)
  BY InvParts
<1>2. PICK o : o = W!NextJob
  OBVIOUS
<1>3. /\ mode = "cancelling" /\ current = NoObject /\ Len(terminated) < Len(accepted)
      /\ terminated' = Append(terminated, [job |-> o, cancel |-> TRUE])
      /\ g_FreeThreads' = <<o>> \o g_FreeThreads
      /\ UNCHANGED <<accepted, current, mode, threads, g_ThreadQueue, g_pWorker, g_QueueLock, pc,
                     kmThread, submitted, delivered>>
  BY <1>2 DEF OnTerminateCancelled, W!Cancel, W!HasNext, mainVars, history
<1>4. PICK R : R = Rest(accepted, Len(terminated) + 1)
  OBVIOUS
<1>5. o \in 1..Len(threads) /\ R \in Seq(1..Len(threads)) /\ Gains(R, Pending, o)
  BY <1>2, <1>3, <1>4, NextObject
<1>6. Typed' /\ Worker' /\ Control' /\ Pending' = R
  <2>1. mode # "closed" /\ current' = NoObject /\ Len(threads') = Len(threads)
    BY <1>3
  <2>2. QED
    BY <1>2, <1>3, <1>4, <2>1, Terminates
<1>7. PICK G : G = <<o>> \o g_FreeThreads
  OBVIOUS
<1>8. mode # "closed"
  BY <1>3
<1>9. /\ Stored(threads, R, g_ThreadQueue, G, kmThread)
      /\ Exclusive(threads, R, g_ThreadQueue, G, kmThread)
      /\ Book(threads, R, g_ThreadQueue, submitted, delivered)
  BY <1>5, <1>7, <1>8, WorkerMoves, CancelBook
<1>10. pc' = "shutdown_stop"
  BY <1>1, <1>3 DEF Control
<1>11. g_FreeThreads' = G
  BY <1>3, <1>7
<1>12. QED
  BY <1>3, <1>6, <1>9, <1>10, <1>11 DEF IInv

\* A free object, or a new one, is filled for the query.
LEMMA TakesObject ==
  ASSUME IInv, mode = "open", NEW q \in Queries, NEW b \in BOOLEAN,
         NEW o, o = takeThread(q, b).o, NEW U, U = takeThread(q, b).threads,
         NEW G, G = takeThread(q, b).free
  PROVE  /\ Submitted(threads, U, o, q, b) /\ G \in Seq(1..Len(U))
         /\ \A u : u # o => Count(u, G) = Count(u, g_FreeThreads)
         /\ ~ Flying(Pending, g_ThreadQueue, o)
         /\ Count(o, G) = 0 /\ kmThread # o
<1>1. /\ threads \in Seq(Thread) /\ Len(threads) \in Nat /\ kmThread \in 0..Len(threads)
      /\ g_FreeThreads \in Seq(1..Len(threads)) /\ Pending \in Seq(1..Len(threads))
      /\ g_ThreadQueue \in Seq(1..Len(threads))
  BY InvParts
<1>2. /\ Stored(threads, Pending, g_ThreadQueue, g_FreeThreads, kmThread)
      /\ Exclusive(threads, Pending, g_ThreadQueue, g_FreeThreads, kmThread)
  BY WorkerMoves
<1>3. /\ \A u : Count(u, Pending) \in Nat /\ Count(u, g_ThreadQueue) \in Nat
      /\ \A u : Count(u, g_FreeThreads) \in Nat
  BY <1>2, HeldNat
<1>4. CASE g_FreeThreads = <<>>
  <2>1. PICK t : t = newThread(q, b)
    OBVIOUS
  <2>2. t \in Thread /\ t.fwd = q /\ t.query = q /\ (b => t.data = q)
    BY <2>1 DEF newThread, Thread
  <2>3. o = Len(threads) + 1 /\ U = Append(threads, t) /\ G = <<>>
    BY <1>4, <2>1 DEF takeThread
  <2>4. /\ U \in Seq(Thread) /\ Len(U) = Len(threads) + 1 /\ U[Len(threads) + 1] = t
        /\ \A u \in 1..Len(threads) : U[u] = threads[u]
    BY <1>1, <2>2, <2>3, AppendProperties
  <2>5. Submitted(threads, U, o, q, b)
    <3>1. \A u \in 1..Len(U) : u # o => u \in 1..Len(threads)
      BY <1>1, <2>3, <2>4
    <3>2. QED
      BY <1>1, <2>2, <2>3, <2>4, <3>1 DEF Submitted
  <2>6. o \notin 1..Len(threads) /\ kmThread # o
    BY <1>1, <2>3
  <2>7. ~ Flying(Pending, g_ThreadQueue, o)
    <3>1. ~ (Count(o, Pending) > 0) /\ ~ (Count(o, g_ThreadQueue) > 0)
      BY <1>1, <2>6, CountIn
    <3>2. QED
      BY <1>3, <3>1 DEF Flying
  <2>8. G \in Seq(1..Len(U)) /\ \A u : Count(u, G) = 0
    BY <2>3, CountEmpty
  <2>9. \A u : Count(u, g_FreeThreads) = 0
    BY <1>4, CountEmpty
  <2>10. QED
    BY <2>5, <2>6, <2>7, <2>8, <2>9
<1>5. CASE g_FreeThreads # <<>>
  <2>1. o = Head(g_FreeThreads) /\ G = Tail(g_FreeThreads)
    BY <1>5 DEF takeThread
  <2>2. PICK t : t = recycled(threads[o], q, b)
    OBVIOUS
  <2>3. U = [threads EXCEPT ![o] = t]
    BY <1>5, <2>1, <2>2 DEF takeThread
  <2>4. o \in 1..Len(threads) /\ G \in Seq(1..Len(threads)) /\ Gains(G, g_FreeThreads, o)
    BY <1>1, <1>5, <2>1, PopGains
  <2>5. t \in Thread /\ t.fwd = q /\ t.query = q /\ (b => t.data = q)
    <3>1. threads[o] \in Thread
      BY <1>1, <2>4
    <3>2. QED
      BY <2>2, <3>1 DEF recycled, Thread
  <2>6. /\ U \in Seq(Thread) /\ Len(U) = Len(threads) /\ U[o] = t
        /\ \A u \in 1..Len(threads) : u # o => U[u] = threads[u]
    BY <1>1, <2>3, <2>4, <2>5, ExceptSeq
  <2>7. Submitted(threads, U, o, q, b)
    BY <1>1, <2>4, <2>5, <2>6 DEF Submitted
  <2>8. Count(o, G) \in Nat
    <3>1. Len(G) \in Nat
      BY <2>4
    <3>2. QED
      BY <3>1, CountNat
  <2>9. /\ Count(o, Pending) = 0 /\ Count(o, g_ThreadQueue) = 0
        /\ Count(o, G) = 0 /\ kmThread # o
    <3>1. Held(Pending, g_ThreadQueue, g_FreeThreads, kmThread, o) = 1
      BY <1>2, <2>4 DEF Exclusive
    <3>2. QED
      BY <1>3, <2>4, <2>8, <3>1 DEF Held, Gains
  <2>10. \A u : u # o => Count(u, G) = Count(u, g_FreeThreads)
    BY <2>4 DEF Gains
  <2>11. G \in Seq(1..Len(U)) /\ ~ Flying(Pending, g_ThreadQueue, o)
    BY <2>4, <2>6, <2>9 DEF Flying
  <2>12. QED
    BY <2>7, <2>9, <2>10, <2>11
<1>6. QED
  BY <1>4, <1>5

LEMMA SQL_ThreadQueryStep ==
  ASSUME IInv, NEW q \in Queries, NEW b \in BOOLEAN, SQL_ThreadQuery(q, b)
  PROVE  IInv'
<1>1. PICK o : o = takeThread(q, b).o
  OBVIOUS
<1>2. PICK U : U = takeThread(q, b).threads
  OBVIOUS
<1>3. PICK G : G = takeThread(q, b).free
  OBVIOUS
<1>4. /\ mode = "open" /\ \A s \in submitted : s.q # q
      /\ accepted' = Append(accepted, o) /\ threads' = U /\ g_FreeThreads' = G
      /\ submitted' = submitted \union {[q |-> q, data |-> b]}
      /\ UNCHANGED <<current, terminated, mode, g_ThreadQueue, g_pWorker, g_QueueLock, pc,
                     kmThread, delivered>>
  BY <1>1, <1>2, <1>3 DEF SQL_ThreadQuery, W!Accept, mainVars
<1>5. /\ Submitted(threads, U, o, q, b) /\ G \in Seq(1..Len(U))
      /\ \A u : u # o => Count(u, G) = Count(u, g_FreeThreads)
      /\ ~ Flying(Pending, g_ThreadQueue, o) /\ Count(o, G) = 0 /\ kmThread # o
  BY <1>1, <1>2, <1>3, <1>4, TakesObject
<1>6. /\ U \in Seq(Thread) /\ o \in 1..Len(U) /\ Len(threads) <= Len(U) /\ Len(U) \in Nat
  BY <1>5 DEF Submitted
<1>7. /\ Typed /\ Worker /\ Control /\ Len(accepted) \in Nat /\ Len(terminated) \in Nat
      /\ Pending = Rest(accepted, Len(terminated)) /\ Len(threads) \in Nat
      /\ kmThread \in 0..Len(threads) /\ Pending \in Seq(1..Len(threads))
      /\ g_ThreadQueue \in Seq(1..Len(threads))
  BY InvParts
<1>8. accepted \in Seq(1..Len(U)) /\ g_ThreadQueue \in Seq(1..Len(U))
  <2>1. 1..Len(threads) \subseteq 1..Len(U)
    BY <1>6, <1>7
  <2>2. QED
    BY <1>7, <2>1, SeqMonotonic DEF Typed
<1>9. Len(terminated) \in 0..Len(accepted)
  BY <1>7 DEF Worker
<1>10. PICK R : R = Rest(Append(accepted, o), Len(terminated))
  OBVIOUS
<1>11. /\ accepted' \in Seq(1..Len(U)) /\ Len(accepted') = Len(accepted) + 1
       /\ R \in Seq(1..Len(U)) /\ Gains(Pending, R, o)
  BY <1>4, <1>6, <1>7, <1>8, <1>9, <1>10, RestGains
<1>12. Pending' = R
  BY <1>4, <1>10 DEF Pending, Rest
<1>13. Stored(U, R, g_ThreadQueue, G, kmThread)
  BY <1>5, <1>6, <1>7, <1>8, <1>11 DEF Stored
<1>14. /\ Stored(threads, Pending, g_ThreadQueue, g_FreeThreads, kmThread)
       /\ Book(threads, Pending, g_ThreadQueue, submitted, delivered)
       /\ Exclusive(threads, Pending, g_ThreadQueue, g_FreeThreads, kmThread)
       /\ Kept(threads, Pending, g_ThreadQueue, submitted, delivered)
  <2>1. mode # "closed" /\ pc # "shutdown_stop"
    BY <1>4, <1>7 DEF Control
  <2>2. QED
    BY <2>1, WorkerMoves
<1>15. Held(R, g_ThreadQueue, G, kmThread, o) = 1
  <2>1. Count(o, Pending) \in Nat /\ Count(o, g_ThreadQueue) \in Nat
    BY <1>14, HeldNat
  <2>2. Count(o, Pending) = 0 /\ Count(o, g_ThreadQueue) = 0
    BY <1>5, <2>1 DEF Flying
  <2>3. QED
    BY <1>5, <1>11, <2>2 DEF Held, Gains
<1>16. PICK sub2 : sub2 = submitted \union {[q |-> q, data |-> b]}
  OBVIOUS
<1>17. /\ Exclusive(U, R, g_ThreadQueue, G, kmThread) /\ Book(U, R, g_ThreadQueue, sub2, delivered)
       /\ Kept(U, R, g_ThreadQueue, sub2, delivered)
  <2>1. \A s \in submitted : s.q # q
    BY <1>4
  <2>2. Gains(Pending, R, o)
    BY <1>11
  <2>3. Submits(threads, Pending, g_ThreadQueue, g_FreeThreads, kmThread, submitted, delivered,
                q, b, U, o, R, G, sub2)
    BY <1>5, <1>13, <1>14, <1>15, <1>16, <2>1, <2>2, Zenon DEF Submits
  <2>4. QED
    BY <2>3, SubmitBook, Zenon
<1>18. Typed'
  BY <1>4, <1>7, <1>11 DEF Typed
<1>19. Worker'
  <2>1. Len(terminated') <= Len(accepted')
    BY <1>4, <1>7, <1>11 DEF Worker
  <2>2. ASSUME current # NoObject
        PROVE  /\ Len(terminated) < Len(accepted')
               /\ current = accepted'[Len(terminated) + 1]
    <3>1. Len(terminated) < Len(accepted) /\ current = accepted[Len(terminated) + 1]
      BY <1>7, <2>2 DEF Worker, W!NextJob
    <3>2. Len(terminated) + 1 \in 1..Len(accepted)
      BY <1>7, <3>1
    <3>3. accepted'[Len(terminated) + 1] = accepted[Len(terminated) + 1]
      BY <1>4, <1>6, <1>8, <3>2, AppendProperties
    <3>4. QED
      BY <1>7, <1>11, <3>1, <3>3
  <2>3. QED
    BY <1>4, <2>1, <2>2 DEF Worker, W!NextJob
<1>20. Control'
  BY <1>4, <1>7 DEF Control
<1>21. submitted' = sub2
  BY <1>4, <1>16
<1>22. QED
  BY <1>4, <1>12, <1>13, <1>17, <1>18, <1>19, <1>20, <1>21 DEF IInv

-----------------------------------------------------------------------------
(* The invariant and the properties.                                         *)

LEMMA InvInit ==
  ASSUME Init
  PROVE  IInv
<1>1. /\ accepted = <<>> /\ current = NoObject /\ terminated = <<>> /\ mode = "closed"
      /\ threads = <<>> /\ g_ThreadQueue = <<>> /\ g_FreeThreads = <<>>
      /\ g_pWorker = FALSE /\ g_QueueLock = FALSE /\ pc = "idle" /\ kmThread = NoObject
      /\ submitted = {} /\ delivered = <<>>
  BY DEF Init, W!Init
<1>2. /\ Len(accepted) = 0 /\ Len(terminated) = 0 /\ Len(threads) = 0 /\ Len(delivered) = 0
      /\ 1..Len(threads) = {} /\ 1..Len(delivered) = {}
  BY <1>1
<1>3. Typed
  <2>1. accepted \in Seq(1..Len(threads))
    BY <1>1
  <2>2. terminated \in Seq([job : Nat \ {NoObject}, cancel : BOOLEAN])
    BY <1>1
  <2>3. current \in Nat /\ mode \in {"open", "draining", "cancelling", "closed"}
        /\ g_pWorker \in BOOLEAN /\ g_QueueLock \in BOOLEAN /\ pc \in MainPC
    BY <1>1 DEF MainPC, NoObject
  <2>4. QED
    BY <2>1, <2>2, <2>3 DEF Typed
<1>4. Worker
  BY <1>1, <1>2 DEF Worker
<1>5. Control
  BY <1>1 DEF Control
<1>6. Pending \in Seq(1..Len(threads))
  <2>1. Len(terminated) + 1 \in Int /\ Len(accepted) \in Int /\ Len(accepted) < Len(terminated) + 1
    BY <1>2
  <2>2. Pending = <<>>
    BY <2>1, SubSeqEmpty DEF Pending
  <2>3. QED
    BY <2>2
<1>7. Stored(threads, Pending, g_ThreadQueue, g_FreeThreads, kmThread)
  BY <1>1, <1>2, <1>6 DEF Stored, NoObject
<1>8. Book(threads, Pending, g_ThreadQueue, submitted, delivered)
  BY <1>1, <1>2 DEF Book, Filled, Distinct, Finished, Answers, Once, NotYet
<1>9. /\ Exclusive(threads, Pending, g_ThreadQueue, g_FreeThreads, kmThread)
      /\ Kept(threads, Pending, g_ThreadQueue, submitted, delivered)
  BY <1>1, <1>2 DEF Exclusive, Kept
<1>10. QED
  BY <1>3, <1>4, <1>5, <1>7, <1>8, <1>9 DEF IInv

LEMMA InvStep ==
  ASSUME IInv, [Next]_vars
  PROVE  IInv'
<1>1. CASE OnPluginsLoaded
  BY <1>1, OnPluginsLoadedStep
<1>2. ASSUME NEW q \in Queries, NEW d \in BOOLEAN, SQL_ThreadQuery(q, d)
      PROVE  IInv'
  BY <1>2, SQL_ThreadQueryStep
<1>3. CASE StartFrame
  BY <1>3, StartFrameStep
<1>4. CASE EndExecute
  BY <1>4, EndExecuteStep
<1>5. CASE NextResult
  BY <1>5, NextResultStep
<1>6. CASE OnPluginsUnloading
  BY <1>6, CloseStep DEF OnPluginsUnloading
<1>7. CASE UnloadStopped
  BY <1>7, UnloadStoppedStep
<1>8. CASE ShutdownThreading
  BY <1>8, CloseStep DEF ShutdownThreading
<1>9. CASE ShutdownStopped
  BY <1>9, ShutdownStoppedStep
<1>10. CASE RunThread
  BY <1>10, RunThreadStep
<1>11. ASSUME NEW o \in Outcome, OnTerminate(o)
       PROVE  IInv'
  BY <1>11, OnTerminateStep
<1>12. CASE OnTerminateCancelled
  BY <1>12, OnTerminateCancelledStep
<1>13. CASE UNCHANGED vars
  <2>1. /\ UNCHANGED <<accepted, current, terminated, mode, threads, g_ThreadQueue, g_FreeThreads>>
        /\ UNCHANGED <<g_pWorker, g_QueueLock, pc, kmThread, submitted, delivered>>
    BY <1>13 DEF vars, workerVars, listVars, mainVars, history
  <2>2. Typed' = Typed /\ Worker' = Worker /\ Control' = Control /\ Pending' = Pending
    BY <2>1 DEF Typed, Worker, Control, Pending, W!NextJob
  <2>3. QED
    BY <2>1, <2>2 DEF IInv
<1>14. QED
  BY <1>1, <1>2, <1>3, <1>4, <1>5, <1>6, <1>7, <1>8, <1>9, <1>10, <1>11, <1>12, <1>13
     DEF Next, FrameStep, WorkerStep

LEMMA Invariant == Spec => []IInv
<1>1. Init => IInv
  BY InvInit
<1>2. IInv /\ [Next]_vars => IInv'
  BY InvStep
<1>3. QED
  BY <1>1, <1>2, PTL DEF Spec

(* The lists of both threads hold objects that exist, in every state.        *)
THEOREM SqlTyped == Spec => []TypeOK
<1>1. IInv => TypeOK
  <2>1. SUFFICES ASSUME IInv
                 PROVE  TypeOK
    OBVIOUS
  <2>2. /\ Typed /\ Len(threads) \in Nat /\ threads \in Seq(Thread)
        /\ g_ThreadQueue \in Seq(1..Len(threads)) /\ g_FreeThreads \in Seq(1..Len(threads))
        /\ kmThread \in 0..Len(threads) /\ DOMAIN threads = 1..Len(threads)
    BY <2>1, InvParts
  <2>3. submitted \subseteq [q : Queries, data : BOOLEAN] /\ delivered \in Seq(Delivery)
    BY <2>1 DEF IInv, Book
  <2>4. W!TypeOK
    <3>1. 1..Len(threads) \subseteq Nat \ {NoObject}
      BY <2>2 DEF NoObject
    <3>2. accepted \in Seq(Nat \ {NoObject})
      BY <2>2, <3>1, SeqMonotonic DEF Typed
    <3>3. QED
      BY <2>2, <3>2 DEF Typed, W!TypeOK, W!Termination, NoObject
  <2>5. kmThread \in Objects \union {NoObject}
    BY <2>2 DEF Objects, NoObject
  <2>6. QED
    BY <2>2, <2>3, <2>4, <2>5 DEF TypeOK, Objects, Typed
<1>2. QED
  BY <1>1, Invariant, PTL

(* SQL_ThreadQuery, the worker's OnTerminate and StartFrame hand each query   *)
(* object on: it is with the worker, finished, in the hand of the main thread *)
(* or free, never in two of these places, and never forgotten.               *)
THEOREM ObjectsInOnePlace == Spec => []ObjectsExclusive
<1>1. IInv => ObjectsExclusive
  BY InvParts DEF IInv, ObjectsExclusive, Exclusive, Held, Objects
<1>2. QED
  BY <1>1, Invariant, PTL

(* Execute calls a handler with the result of the query it was given for and  *)
(* with that query's data, whatever the recycled object held before.          *)
THEOREM OwnResults == Spec => []HandlerGetsOwnResult
<1>1. IInv => HandlerGetsOwnResult
  BY DEF IInv, Book, Answers, Answer, HandlerGetsOwnResult
<1>2. QED
  BY <1>1, Invariant, PTL

(* Until a shutdown every submitted query is in flight exactly once or was    *)
(* answered exactly once, across any number of unloads and loads.             *)
THEOREM QueriesKept == Spec => []NoQueryLost
<1>1. IInv => NoQueryLost
  <2>1. SUFFICES ASSUME IInv, pc \notin {"shutdown_stop", "detached"}, NEW s \in submitted
                 PROVE  \/ InFlight(s.q) = {} /\ \E i \in DeliveredTo(s.q) : DeliveredTo(s.q) = {i}
                        \/ DeliveredTo(s.q) = {} /\ \E o \in InFlight(s.q) : InFlight(s.q) = {o}
    BY DEF NoQueryLost
  <2>2. /\ Stored(threads, Pending, g_ThreadQueue, g_FreeThreads, kmThread)
        /\ Exclusive(threads, Pending, g_ThreadQueue, g_FreeThreads, kmThread)
        /\ Book(threads, Pending, g_ThreadQueue, submitted, delivered)
        /\ Kept(threads, Pending, g_ThreadQueue, submitted, delivered)
    BY <2>1 DEF IInv
  <2>3. \A o \in 1..Len(threads) : Flying(Pending, g_ThreadQueue, o)
          <=> Count(o, Pending) + Count(o, g_ThreadQueue) = 1
    <3>1. SUFFICES ASSUME NEW o \in 1..Len(threads)
                   PROVE  Flying(Pending, g_ThreadQueue, o)
                            <=> Count(o, Pending) + Count(o, g_ThreadQueue) = 1
      OBVIOUS
    <3>2. /\ Count(o, Pending) \in Nat /\ Count(o, g_ThreadQueue) \in Nat
          /\ Count(o, g_FreeThreads) \in Nat
      BY <2>2, HeldNat
    <3>3. Held(Pending, g_ThreadQueue, g_FreeThreads, kmThread, o) = 1
      BY <2>2 DEF Exclusive
    <3>4. QED
      BY <3>2, <3>3 DEF Held, Flying
  <2>4. InFlight(s.q) = {o \in 1..Len(threads) : threads[o].fwd = s.q
                                                 /\ Flying(Pending, g_ThreadQueue, o)}
    BY <2>1, <2>3, InvParts DEF InFlight, Objects
  <2>5. CASE \E i \in 1..Len(delivered) : delivered[i].fwd = s.q
    <3>1. PICK i \in 1..Len(delivered) : delivered[i].fwd = s.q
      BY <2>5
    <3>2. DeliveredTo(s.q) = {i}
      BY <2>2, <3>1 DEF DeliveredTo, Book, Once
    <3>3. InFlight(s.q) = {}
      BY <2>2, <2>4, <3>1 DEF Book, NotYet
    <3>4. QED
      BY <3>2, <3>3
  <2>6. CASE ~ \E i \in 1..Len(delivered) : delivered[i].fwd = s.q
    <3>1. DeliveredTo(s.q) = {}
      BY <2>6 DEF DeliveredTo
    <3>2. PICK o \in 1..Len(threads) : threads[o].fwd = s.q /\ Flying(Pending, g_ThreadQueue, o)
      BY <2>2, <2>6 DEF Kept
    <3>3. InFlight(s.q) = {o}
      BY <2>2, <2>4, <3>2 DEF Book, Distinct
    <3>4. QED
      BY <3>1, <3>3
  <2>7. QED
    BY <2>5, <2>6
<1>2. QED
  BY <1>1, Invariant, PTL
=============================================================================
