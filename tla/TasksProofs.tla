----------------------------- MODULE TasksProofs -----------------------------
(***************************************************************************)
(* For any plugins' tasks, any length of the list and any clock: a task      *)
(* owns its forward, is not called before its time, is called in the frame   *)
(* it is due and is retired after the calls it was set for.                  *)
(*                                                                         *)
(* The invariant has two halves.  Table relates the forward table to the     *)
(* tasks at a set of positions; it is stated for a table f, a list T, a set  *)
(* A of positions and the forward run whose callback runs, so that it can be *)
(* followed through removeTasks, which clears the tasks of a list one after  *)
(* the other.  Sound says of one task what its times and counters mean; only *)
(* the task startFrame has called and not finished is in execution.          *)
(***************************************************************************)
EXTENDS Tasks, SequenceTheorems, WellFoundedInduction, TLAPS

\* The ids on a stack of ids, and that none is there twice.
Elems(q) == {q[i] : i \in 1..Len(q)}
Distinct(q) == \A i, j \in 1..Len(q) : q[i] = q[j] => i = j

Acts(T) == {k \in 1..Len(T) : ~T[k].free}

\* Each task has a forward of its own with the function it was set with.
Own(f, T, A) ==
  \A k \in A :
    /\ T[k].func \in 1..Len(f.sp) /\ T[k].func \notin Elems(f.free)
    /\ f.sp[T[k].func].reg = T[k].tok
    /\ runnable(f, T[k].func)
    /\ \A j \in A : T[j].func = T[k].func => j = k

\* Every forward is free, a task's, or released when its callback returns.
Covered(f, T, A, run) ==
  \A s \in 1..Len(f.sp) : \/ s \in Elems(f.free)
                          \/ \E k \in A : T[k].func = s
                          \/ s = run /\ f.sp[s].toDelete

\* Only the forward whose callback runs is marked, and it is not free.
Marked(f, run) ==
  /\ \A s \in 1..Len(f.sp) : s # run => ~f.sp[s].inExec /\ ~f.sp[s].toDelete
  /\ run # 0 => /\ run \in 1..Len(f.sp) /\ run \notin Elems(f.free)
                /\ ~f.sp[run].isFree /\ f.sp[run].inExec

Table(f, T, A, run) ==
  /\ f \in FMType(Tokens)
  /\ Distinct(f.free) /\ Elems(f.free) \subseteq 1..Len(f.sp)
  /\ Own(f, T, A) /\ Covered(f, T, A, run) /\ Marked(f, run)

\* A normal task comes again one interval after the last time it was due.
Early(t, now, e) ==
  /\ t.since <= now
  /\ t.kind = "normal" => /\ t.cnt * t.base <= now - t.since
                          /\ t.next >= t.since + t.cnt * t.base
                          /\ ~e => t.next >= t.since + (t.cnt + 1) * t.base

\* The calls made and the calls left add up; e is a call that is not counted down.
Counted(t, e) ==
  IF ~t.loop THEN t.want = 1 /\ t.runs = (IF e THEN 1 ELSE 0)
  ELSE IF t.repeat = -1 THEN t.want = -1
  ELSE /\ t.repeat >= (IF e THEN 1 ELSE 0)
       /\ t.runs + t.repeat = t.want + (IF e THEN 1 ELSE 0)

\* A due task that startFrame called, or has walked past, was served.
Served(t, now, e, w) ==
  e \/ (w /\ t.kind = "normal" /\ t.next <= now) => t.served

\* A task in execution (e) or not, that startFrame has walked past (w) or not.
Sound(t, now, e, w) ==
  /\ t.inExecute <=> e
  /\ IF t.free THEN t.func = 0
     ELSE Early(t, now, e) /\ Counted(t, e) /\ Served(t, now, e, w)

Busy(p, i, k) == p \in {"call", "return"} /\ k = i
Walked(p, i, k) == p = "idle" \/ k < i

Tasked(T, now, p, i) ==
  \A k \in 1..Len(T) : Sound(T[k], now, Busy(p, i, k), Walked(p, i, k))

Control == /\ pc = "scan" => iter # 0
           /\ pc \in {"call", "return"} => iter \in 1..Len(m_Tasks)
           /\ running # 0 <=> pc = "call"

IInv == /\ TypeOK /\ Control
        /\ Table(fm, m_Tasks, Acts(m_Tasks), running)
        /\ Tasked(m_Tasks, m_fCurrentTime, pc, iter)

-----------------------------------------------------------------------------
(* The free stack.                                                          *)

\* Popping the free stack removes its top id and no other.
LEMMA PopStack ==
  ASSUME NEW q \in Seq(Nat), q # <<>>, Distinct(q)
  PROVE  /\ Tail(q) \in Seq(Nat)
         /\ Head(q) \in Elems(q)
         /\ Elems(Tail(q)) = Elems(q) \ {Head(q)}
         /\ Distinct(Tail(q))
<1>1. /\ Tail(q) \in Seq(Nat) /\ Len(q) \in Nat \ {0} /\ Head(q) = q[1]
      /\ Len(Tail(q)) = Len(q) - 1
      /\ \A i \in 1..Len(q) - 1 : Tail(q)[i] = q[i + 1]
  BY HeadTailProperties, EmptySeq
<1>2. Head(q) \in Elems(q)
  BY <1>1 DEF Elems
<1>3. ASSUME NEW x \in Elems(Tail(q)) PROVE x \in Elems(q) \ {Head(q)}
  <2>1. PICK i \in 1..Len(q) - 1 : x = q[i + 1]
    BY <1>1, <1>3 DEF Elems
  <2>2. i + 1 \in 1..Len(q) /\ 1 \in 1..Len(q) /\ i + 1 # 1
    BY <1>1
  <2>3. QED
    BY <1>1, <2>1, <2>2 DEF Elems, Distinct
<1>4. ASSUME NEW x \in Elems(q) \ {Head(q)} PROVE x \in Elems(Tail(q))
  <2>1. PICK i \in 1..Len(q) : x = q[i]
    BY DEF Elems
  <2>2. i - 1 \in 1..Len(q) - 1 /\ Tail(q)[i - 1] = q[i]
    BY <1>1, <2>1, <1>4
  <2>3. QED
    BY <1>1, <2>1, <2>2 DEF Elems
<1>5. Distinct(Tail(q))
  <2>1. SUFFICES ASSUME NEW i \in 1..Len(q) - 1, NEW j \in 1..Len(q) - 1, q[i + 1] = q[j + 1]
                 PROVE  i = j
    BY <1>1 DEF Distinct
  <2>2. i + 1 \in 1..Len(q) /\ j + 1 \in 1..Len(q)
    BY <1>1
  <2>3. i + 1 = j + 1
    BY <2>1, <2>2 DEF Distinct
  <2>4. QED
    BY <2>3
<1>6. QED
  BY <1>1, <1>2, <1>3, <1>4, <1>5

\* Pushing an id that is not there adds it.
LEMMA PushStack ==
  ASSUME NEW q \in Seq(Nat), NEW s \in Nat, s \notin Elems(q), Distinct(q)
  PROVE  /\ <<s>> \o q \in Seq(Nat)
         /\ Elems(<<s>> \o q) = Elems(q) \union {s}
         /\ Distinct(<<s>> \o q)
<1> DEFINE p == <<s>> \o q
<1>1. /\ p \in Seq(Nat) /\ Len(q) \in Nat /\ Len(p) = Len(q) + 1 /\ p[1] = s
      /\ \A i \in 1..Len(q) : p[i + 1] = q[i]
  OBVIOUS
<1>2. \A i \in 1..Len(p) : i = 1 \/ (i - 1 \in 1..Len(q) /\ p[i] = q[i - 1])
  <2> TAKE i \in 1..Len(p)
  <2>1. i # 1 => i - 1 \in 1..Len(q) /\ (i - 1) + 1 = i
    BY <1>1
  <2>2. QED
    BY <1>1, <2>1
<1> HIDE DEF p
<1>3. Elems(p) = Elems(q) \union {s}
  <2>1. 1 \in 1..Len(p) /\ \A i \in 1..Len(q) : i + 1 \in 1..Len(p)
    BY <1>1
  <2>2. ASSUME NEW x \in Elems(p) PROVE x \in Elems(q) \union {s}
    <3>1. PICK i \in 1..Len(p) : x = p[i]
      BY <2>2 DEF Elems
    <3>2. QED
      BY <1>1, <1>2, <3>1 DEF Elems
  <2>3. ASSUME NEW x \in Elems(q) PROVE x \in Elems(p)
    <3>1. PICK i \in 1..Len(q) : x = q[i]
      BY <2>3 DEF Elems
    <3>2. i + 1 \in 1..Len(p) /\ x = p[i + 1]
      BY <1>1, <2>1, <3>1
    <3>3. QED
      BY <3>2 DEF Elems
  <2>4. s \in Elems(p)
    BY <1>1, <2>1 DEF Elems
  <2>5. QED
    BY <2>2, <2>3, <2>4
<1>4. Distinct(p)
  <2>1. SUFFICES ASSUME NEW i \in 1..Len(p), NEW j \in 1..Len(p), p[i] = p[j] PROVE i = j
    BY DEF Distinct
  <2>2. CASE i = 1 \/ j = 1
    BY <1>1, <1>2, <2>1, <2>2 DEF Elems
  <2>3. CASE i # 1 /\ j # 1
    <3>1. i - 1 \in 1..Len(q) /\ j - 1 \in 1..Len(q) /\ q[i - 1] = q[j - 1]
      BY <1>2, <2>1, <2>3
    <3>2. i - 1 = j - 1
      BY <3>1 DEF Distinct
    <3>3. QED
      BY <3>2
  <2>4. QED
    BY <2>2, <2>3
<1>5. QED
  BY <1>1, <1>3, <1>4 DEF p

-----------------------------------------------------------------------------
(* The operators of the table.                                              *)

\* One slot is overwritten; the others stay.
LEMMA WriteSlot ==
  ASSUME NEW Regs, NEW sp \in Seq(Slot(Regs)), NEW s \in 1..Len(sp), NEW v \in Slot(Regs),
         NEW sp2, sp2 = [sp EXCEPT ![s] = v]
  PROVE  /\ sp2 \in Seq(Slot(Regs))
         /\ Len(sp2) = Len(sp)
         /\ sp2[s] = v
         /\ \A t \in 1..Len(sp) : t # s => sp2[t] = sp[t]
  BY ExceptSeq

\* A registration that succeeds stores v in slot n and makes the table f the table g.
Takes(f, v, g, n) ==
  \/ /\ f.free # <<>>
     /\ n = Head(f.free)
     /\ g = [sp |-> [f.sp EXCEPT ![n] = v], free |-> Tail(f.free)]
  \/ /\ f.free = <<>>
     /\ n = Len(f.sp) + 1
     /\ g = [sp |-> Append(f.sp, v), free |-> <<>>]

\* The slot it hands out was free or did not exist, and no other slot changes.
LEMMA TakeSlot ==
  ASSUME NEW Regs, NEW f \in FMType(Regs), NEW v \in Slot(Regs), NEW g, NEW n,
         Distinct(f.free), Elems(f.free) \subseteq 1..Len(f.sp),
         Takes(f, v, g, n)
  PROVE  /\ g \in FMType(Regs)
         /\ n \in 1..Len(g.sp)
         /\ 1..Len(f.sp) \subseteq 1..Len(g.sp)
         /\ g.sp[n] = v
         /\ \A s \in 1..Len(g.sp) : s # n => s \in 1..Len(f.sp) /\ g.sp[s] = f.sp[s]
         /\ n \in Elems(f.free) \/ n \notin 1..Len(f.sp)
         /\ Distinct(g.free)
         /\ Elems(g.free) = Elems(f.free) \ {n}
<1>1. f.sp \in Seq(Slot(Regs)) /\ f.free \in Seq(Nat) /\ Len(f.sp) \in Nat
  BY DEF FMType
<1>2. CASE f.free # <<>>
  <2>1. /\ Tail(f.free) \in Seq(Nat) /\ Head(f.free) \in Elems(f.free)
        /\ Elems(Tail(f.free)) = Elems(f.free) \ {Head(f.free)}
        /\ Distinct(Tail(f.free))
    BY <1>1, <1>2, PopStack
  <2>2. n = Head(f.free) /\ g = [sp |-> [f.sp EXCEPT ![n] = v], free |-> Tail(f.free)]
    BY <1>2 DEF Takes
  <2>3. n \in 1..Len(f.sp)
    BY <2>1, <2>2
  <2>4. g.sp = [f.sp EXCEPT ![n] = v] /\ g.free = Tail(f.free)
    BY <2>2
  <2>5. /\ g.sp \in Seq(Slot(Regs)) /\ Len(g.sp) = Len(f.sp) /\ g.sp[n] = v
        /\ \A t \in 1..Len(f.sp) : t # n => g.sp[t] = f.sp[t]
    BY <1>1, <2>3, <2>4, WriteSlot
  <2>6. g \in FMType(Regs)
    BY <2>1, <2>2, <2>4, <2>5 DEF FMType
  <2>7. QED
    BY <2>1, <2>2, <2>3, <2>4, <2>5, <2>6
<1>3. CASE f.free = <<>>
  <2>1. n = Len(f.sp) + 1 /\ g = [sp |-> Append(f.sp, v), free |-> <<>>]
    BY <1>3 DEF Takes
  <2>2. /\ Append(f.sp, v) \in Seq(Slot(Regs))
        /\ Len(Append(f.sp, v)) = Len(f.sp) + 1
        /\ Append(f.sp, v)[Len(f.sp) + 1] = v
        /\ \A t \in 1..Len(f.sp) : Append(f.sp, v)[t] = f.sp[t]
    BY <1>1, AppendProperties
  <2>3. g.sp = Append(f.sp, v) /\ g.free = <<>>
    BY <2>1
  <2>4. g \in FMType(Regs)
    BY <2>1, <2>2, EmptySeq DEF FMType
  <2>5. Elems(<<>>) = {} /\ Distinct(<<>>)
    BY DEF Elems, Distinct
  <2>6. n \in 1..Len(g.sp) /\ n \notin 1..Len(f.sp) /\ 1..Len(f.sp) \subseteq 1..Len(g.sp)
    BY <1>1, <2>1, <2>2, <2>3
  <2>7. \A s \in 1..Len(g.sp) : s # n => s \in 1..Len(f.sp)
    BY <1>1, <2>1, <2>2, <2>3
  <2>8. QED
    BY <1>3, <2>1, <2>2, <2>3, <2>4, <2>5, <2>6, <2>7
<1>4. QED
  BY <1>2, <1>3

\* A slot whose callback does not run is freed: q is the free stack with it.
LEMMA FreeSlot ==
  ASSUME NEW Regs, NEW f \in FMType(Regs), NEW s \in 1..Len(f.sp), NEW v \in Slot(Regs), NEW g,
         NEW q \in Seq(Nat), g = [sp |-> [f.sp EXCEPT ![s] = v], free |-> q]
  PROVE  /\ g \in FMType(Regs)
         /\ Len(g.sp) = Len(f.sp)
         /\ g.sp[s] = v
         /\ \A t \in 1..Len(f.sp) : t # s => g.sp[t] = f.sp[t]
         /\ g.free = q
<1>1. f.sp \in Seq(Slot(Regs))
  BY DEF FMType
<1>2. g.sp = [f.sp EXCEPT ![s] = v] /\ g.free = q
  OBVIOUS
<1>3. /\ g.sp \in Seq(Slot(Regs)) /\ Len(g.sp) = Len(f.sp) /\ g.sp[s] = v
      /\ \A t \in 1..Len(f.sp) : t # s => g.sp[t] = f.sp[t]
  BY <1>1, <1>2, WriteSlot
<1>4. g \in FMType(Regs)
  BY <1>2, <1>3 DEF FMType
<1>5. QED
  BY <1>2, <1>3, <1>4

\* A mark of one slot is set or reset.
LEMMA MarkSlot ==
  ASSUME NEW Regs, NEW f \in FMType(Regs), NEW s \in 1..Len(f.sp), NEW v \in Slot(Regs), NEW g,
         g = [sp |-> [f.sp EXCEPT ![s] = v], free |-> f.free]
  PROVE  /\ g \in FMType(Regs)
         /\ Len(g.sp) = Len(f.sp)
         /\ g.sp[s] = v
         /\ \A t \in 1..Len(f.sp) : t # s => g.sp[t] = f.sp[t]
         /\ g.free = f.free
<1>1. f.sp \in Seq(Slot(Regs)) /\ f.free \in Seq(Nat)
  BY DEF FMType
<1>2. g.sp = [f.sp EXCEPT ![s] = v] /\ g.free = f.free
  OBVIOUS
<1>3. /\ g.sp \in Seq(Slot(Regs)) /\ Len(g.sp) = Len(f.sp) /\ g.sp[s] = v
      /\ \A t \in 1..Len(f.sp) : t # s => g.sp[t] = f.sp[t]
  BY <1>1, <1>2, WriteSlot
<1>4. g \in FMType(Regs)
  BY <1>1, <1>2, <1>3 DEF FMType
<1>5. QED
  BY <1>2, <1>3, <1>4


-----------------------------------------------------------------------------
(* The operations.                                                          *)

\* What a table may be: no id twice on the free stack, and only ids of slots.
TableOf(Regs, f) ==
  f \in FMType(Regs) /\ Distinct(f.free) /\ Elems(f.free) \subseteq 1..Len(f.sp)

\* In the table g only slot n differs from the table f.
OnlySlot(f, g, n) ==
  Len(g.sp) = Len(f.sp) /\ \A s \in 1..Len(f.sp) : s # n => g.sp[s] = f.sp[s]

\* A slot that is written stays a slot of the table.
LEMMA WriteTable ==
  ASSUME NEW Regs, NEW f, TableOf(Regs, f), NEW n \in 1..Len(f.sp), NEW v \in Slot(Regs),
         NEW g, g = [sp |-> [f.sp EXCEPT ![n] = v], free |-> f.free]
  PROVE  TableOf(Regs, g) /\ OnlySlot(f, g, n) /\ g.sp[n] = v /\ g.free = f.free
<1>1. f \in FMType(Regs)
  BY DEF TableOf
<1>2. /\ g \in FMType(Regs) /\ Len(g.sp) = Len(f.sp) /\ g.sp[n] = v
      /\ \A t \in 1..Len(f.sp) : t # n => g.sp[t] = f.sp[t]
      /\ g.free = f.free
  BY <1>1, MarkSlot
<1>3. QED
  BY <1>2 DEF TableOf, OnlySlot

\* A forward unregistered while its callback runs is marked for deletion.
LEMMA UnregisterRunning ==
  ASSUME NEW Regs, NEW f, TableOf(Regs, f), NEW n \in 1..Len(f.sp),
         ~f.sp[n].isFree, f.sp[n].inExec, NEW g, g = unregisterSPForward(f, n)
  PROVE  /\ TableOf(Regs, g) /\ OnlySlot(f, g, n) /\ g.free = f.free
         /\ g.sp[n].toDelete /\ g.sp[n].inExec /\ ~g.sp[n].isFree
<1>1. f \in FMType(Regs) /\ f.sp[n] \in Slot(Regs)
  BY ElementOfSeq DEF TableOf, FMType
<1>2. PICK v \in Slot(Regs) : v = [f.sp[n] EXCEPT !.toDelete = TRUE]
  BY <1>1 DEF Slot
<1>3. g = [sp |-> [f.sp EXCEPT ![n] = v], free |-> f.free]
  BY <1>1, <1>2 DEF unregisterSPForward, isIdValid, FMType
<1>4. TableOf(Regs, g) /\ OnlySlot(f, g, n) /\ g.sp[n] = v /\ g.free = f.free
  BY <1>3, WriteTable
<1>5. v.toDelete /\ v.inExec /\ ~v.isFree
  BY <1>1, <1>2 DEF Slot
<1>6. QED
  BY <1>4, <1>5

\* Any other forward is free at once.
LEMMA UnregisterIdle ==
  ASSUME NEW Regs, NEW f, TableOf(Regs, f), NEW n \in 1..Len(f.sp), n \notin Elems(f.free),
         ~f.sp[n].isFree, ~f.sp[n].inExec, NEW g, g = unregisterSPForward(f, n)
  PROVE  /\ TableOf(Regs, g) /\ OnlySlot(f, g, n) /\ Elems(g.free) = Elems(f.free) \union {n}
         /\ ~g.sp[n].inExec /\ (~f.sp[n].toDelete => ~g.sp[n].toDelete)
<1>1. f \in FMType(Regs) /\ f.sp[n] \in Slot(Regs) /\ f.free \in Seq(Nat) /\ n \in Nat
      /\ Distinct(f.free) /\ Elems(f.free) \subseteq 1..Len(f.sp)
  BY ElementOfSeq DEF TableOf, FMType
<1>2. PICK v \in Slot(Regs) : v = [f.sp[n] EXCEPT !.isFree = TRUE]
  BY <1>1 DEF Slot
<1>3. PICK q \in Seq(Nat) : q = <<n>> \o f.free
  BY <1>1, PushStack
<1>4. Distinct(q) /\ Elems(q) = Elems(f.free) \union {n}
  BY <1>1, <1>3, PushStack
<1>5. g = [sp |-> [f.sp EXCEPT ![n] = v], free |-> q]
  BY <1>1, <1>2, <1>3 DEF unregisterSPForward, isIdValid, FMType
<1>6. /\ g \in FMType(Regs) /\ Len(g.sp) = Len(f.sp) /\ g.sp[n] = v /\ g.free = q
      /\ \A t \in 1..Len(f.sp) : t # n => g.sp[t] = f.sp[t]
  BY <1>1, <1>5, FreeSlot
<1>7. ~v.inExec /\ (~f.sp[n].toDelete => ~v.toDelete)
  BY <1>1, <1>2 DEF Slot
<1>8. QED
  BY <1>1, <1>4, <1>6, <1>7 DEF TableOf, OnlySlot

\* A registration whose function exists gets slot n, which was free or is new.
Registered(f, g, n, reg) ==
  /\ n \in 1..Len(g.sp) /\ 1..Len(f.sp) \subseteq 1..Len(g.sp)
  /\ g.sp[n] = Set(reg, TRUE)
  /\ \A s \in 1..Len(g.sp) : s # n => s \in 1..Len(f.sp) /\ g.sp[s] = f.sp[s]
  /\ n \in Elems(f.free) \/ n \notin 1..Len(f.sp)
  /\ Elems(g.free) = Elems(f.free) \ {n}

LEMMA RegisterFound ==
  ASSUME NEW Regs, NEW f, TableOf(Regs, f), NEW reg \in Regs, NEW r,
         r = registerSPForward(f, reg, TRUE)
  PROVE  TableOf(Regs, r.fm) /\ Registered(f, r.fm, r.id, reg)
<1>1. /\ f \in FMType(Regs) /\ Distinct(f.free) /\ Elems(f.free) \subseteq 1..Len(f.sp)
  BY DEF TableOf
<1>2. PICK v \in Slot(Regs) : v = Set(reg, TRUE)
  BY DEF Slot, Set
<1>3. Takes(f, v, r.fm, r.id)
  BY <1>2 DEF registerSPForward, Takes
<1>4. ASSUME NEW g, NEW n, Takes(f, v, g, n)
      PROVE  TableOf(Regs, g) /\ Registered(f, g, n, reg)
  <2>1. /\ g \in FMType(Regs)
        /\ n \in 1..Len(g.sp)
        /\ 1..Len(f.sp) \subseteq 1..Len(g.sp)
        /\ g.sp[n] = v
        /\ \A s \in 1..Len(g.sp) : s # n => s \in 1..Len(f.sp) /\ g.sp[s] = f.sp[s]
        /\ n \in Elems(f.free) \/ n \notin 1..Len(f.sp)
        /\ Distinct(g.free)
        /\ Elems(g.free) = Elems(f.free) \ {n}
    BY <1>1, <1>4, TakeSlot, ZenonT(60)
  <2>2. Elems(g.free) \subseteq 1..Len(g.sp)
    BY <1>1, <2>1
  <2>3. QED
    BY <1>2, <2>1, <2>2 DEF TableOf, Registered
<1>5. QED
  BY <1>3, <1>4

\* One whose function does not exist may overwrite a free slot, which stays free.
LEMMA RegisterMissing ==
  ASSUME NEW Regs, NEW f, TableOf(Regs, f), NEW reg \in Regs, NEW g,
         g = registerSPForward(f, reg, FALSE).fm
  PROVE  \/ g = f
         \/ \E n \in Elems(f.free) :
              /\ TableOf(Regs, g) /\ OnlySlot(f, g, n) /\ g.free = f.free
              /\ ~g.sp[n].inExec /\ ~g.sp[n].toDelete
<1>1. CASE f.free = <<>>
  BY <1>1 DEF registerSPForward
<1>2. CASE f.free # <<>>
  <2>1. f.free \in Seq(Nat) /\ Distinct(f.free) /\ Elems(f.free) \subseteq 1..Len(f.sp)
    BY DEF TableOf, FMType
  <2>2. PICK n : n = Head(f.free)
    OBVIOUS
  <2>3. n \in Elems(f.free) /\ n \in 1..Len(f.sp)
    BY <1>2, <2>1, <2>2, PopStack
  <2>4. PICK v \in Slot(Regs) : v = Set(reg, FALSE)
    BY DEF Slot, Set
  <2>5. PICK h : h = [sp |-> [f.sp EXCEPT ![n] = v], free |-> f.free]
    OBVIOUS
  <2>6. g = h
    BY <1>2, <2>2, <2>4, <2>5 DEF registerSPForward
  <2>7. TableOf(Regs, h) /\ OnlySlot(f, h, n) /\ h.sp[n] = v /\ h.free = f.free
    BY <2>3, <2>5, WriteTable
  <2>8. ~v.inExec /\ ~v.toDelete
    BY <2>4 DEF Set
  <2>9. QED
    BY <2>3, <2>6, <2>7, <2>8
<1>3. QED
  BY <1>1, <1>2

\* A callback begins: its slot is marked.
LEMMA BeginExec ==
  ASSUME NEW Regs, NEW f, TableOf(Regs, f), NEW n \in 1..Len(f.sp), NEW g, g = beginExec(f, n)
  PROVE  /\ TableOf(Regs, g) /\ OnlySlot(f, g, n) /\ g.free = f.free
         /\ g.sp[n].inExec /\ g.sp[n].reg = f.sp[n].reg /\ g.sp[n].hasFunc = f.sp[n].hasFunc
         /\ g.sp[n].isFree = f.sp[n].isFree /\ g.sp[n].toDelete = f.sp[n].toDelete
<1>1. f \in FMType(Regs) /\ f.sp[n] \in Slot(Regs)
  BY ElementOfSeq DEF TableOf, FMType
<1>2. PICK v \in Slot(Regs) : v = [f.sp[n] EXCEPT !.inExec = TRUE]
  BY <1>1 DEF Slot
<1>3. g = [sp |-> [f.sp EXCEPT ![n] = v], free |-> f.free]
  BY <1>1, <1>2 DEF beginExec, FMType
<1>4. TableOf(Regs, g) /\ OnlySlot(f, g, n) /\ g.sp[n] = v /\ g.free = f.free
  BY <1>3, WriteTable
<1>5. /\ v.inExec /\ v.reg = f.sp[n].reg /\ v.hasFunc = f.sp[n].hasFunc
      /\ v.isFree = f.sp[n].isFree /\ v.toDelete = f.sp[n].toDelete
  BY <1>1, <1>2 DEF Slot
<1>6. QED
  BY <1>4, <1>5

\* A callback ends and its forward was not unregistered meanwhile.
LEMMA EndExecKeep ==
  ASSUME NEW Regs, NEW f, TableOf(Regs, f), NEW n \in 1..Len(f.sp), ~f.sp[n].toDelete,
         NEW g, g = endExec(f, n)
  PROVE  /\ TableOf(Regs, g) /\ OnlySlot(f, g, n) /\ g.free = f.free
         /\ ~g.sp[n].inExec /\ g.sp[n].reg = f.sp[n].reg /\ g.sp[n].hasFunc = f.sp[n].hasFunc
         /\ g.sp[n].isFree = f.sp[n].isFree /\ ~g.sp[n].toDelete
<1>1. f \in FMType(Regs) /\ f.sp[n] \in Slot(Regs)
  BY ElementOfSeq DEF TableOf, FMType
<1>2. PICK v \in Slot(Regs) : v = [f.sp[n] EXCEPT !.inExec = FALSE]
  BY <1>1 DEF Slot
<1>3. PICK x : x = [f EXCEPT !.sp[n].inExec = FALSE]
  OBVIOUS
<1>4. x = [sp |-> [f.sp EXCEPT ![n] = v], free |-> f.free]
  BY <1>1, <1>2, <1>3 DEF FMType
<1>5. PICK h : h = [sp |-> [f.sp EXCEPT ![n] = v], free |-> f.free]
  OBVIOUS
<1>6. TableOf(Regs, h) /\ OnlySlot(f, h, n) /\ h.sp[n] = v /\ h.free = f.free
  BY <1>5, WriteTable
<1>7. /\ ~v.inExec /\ v.reg = f.sp[n].reg /\ v.hasFunc = f.sp[n].hasFunc
      /\ v.isFree = f.sp[n].isFree /\ ~v.toDelete
  BY <1>1, <1>2 DEF Slot
<1>8. [f EXCEPT !.sp[n].inExec = FALSE] = h
  BY <1>3, <1>4, <1>5
<1>9. g = h
  BY <1>6, <1>7, <1>8 DEF endExec, afterExec
<1>10. QED
  BY <1>6, <1>7, <1>9

\* A callback ends that unregistered its own forward: now the slot is free.
LEMMA EndExecFree ==
  ASSUME NEW Regs, NEW f, TableOf(Regs, f), NEW n \in 1..Len(f.sp), n \notin Elems(f.free),
         ~f.sp[n].isFree, f.sp[n].toDelete, NEW g, g = endExec(f, n)
  PROVE  /\ TableOf(Regs, g) /\ OnlySlot(f, g, n) /\ Elems(g.free) = Elems(f.free) \union {n}
         /\ ~g.sp[n].inExec /\ ~g.sp[n].toDelete
<1>1. f \in FMType(Regs) /\ f.sp[n] \in Slot(Regs)
  BY ElementOfSeq DEF TableOf, FMType
<1>2. PICK v \in Slot(Regs) : v = [f.sp[n] EXCEPT !.inExec = FALSE]
  BY <1>1 DEF Slot
<1>3. PICK x : x = [f EXCEPT !.sp[n].inExec = FALSE]
  OBVIOUS
<1>4. x = [sp |-> [f.sp EXCEPT ![n] = v], free |-> f.free]
  BY <1>1, <1>2, <1>3 DEF FMType
<1>5. PICK h : h = [sp |-> [f.sp EXCEPT ![n] = v], free |-> f.free]
  OBVIOUS
<1>6. TableOf(Regs, h) /\ OnlySlot(f, h, n) /\ h.sp[n] = v /\ h.free = f.free
  BY <1>5, WriteTable
<1>7. ~v.inExec /\ ~v.isFree /\ v.toDelete
  BY <1>1, <1>2 DEF Slot
<1>8. [f EXCEPT !.sp[n].inExec = FALSE] = h
  BY <1>3, <1>4, <1>5
<1>9. PICK w \in Slot(Regs) : w = [v EXCEPT !.toDelete = FALSE]
  BY DEF Slot
<1>10. PICK k : k = [sp |-> [h.sp EXCEPT ![n] = w], free |-> h.free]
  OBVIOUS
<1>11. n \in 1..Len(h.sp) /\ h \in FMType(Regs)
  BY <1>6 DEF OnlySlot, TableOf
<1>12. TableOf(Regs, k) /\ OnlySlot(h, k, n) /\ k.sp[n] = w /\ k.free = h.free
  BY <1>6, <1>10, <1>11, WriteTable
<1>13. ~w.inExec /\ ~w.isFree /\ ~w.toDelete
  BY <1>7, <1>9 DEF Slot
<1>14. PICK y : y = [h EXCEPT !.sp[n].toDelete = FALSE]
  OBVIOUS
<1>15. y = [sp |-> [h.sp EXCEPT ![n] = w], free |-> h.free]
  <2>1. h.sp[n] = v /\ n \in 1..Len(h.sp) /\ h \in FMType(Regs)
    BY <1>6, <1>11
  <2>2. QED
    BY <2>1, <1>9, <1>14 DEF FMType
<1>16. [h EXCEPT !.sp[n].toDelete = FALSE] = k
  BY <1>14, <1>15, <1>10
<1>17. PICK e : e = unregisterSPForward(k, n)
  OBVIOUS
<1>18. g = e
  BY <1>6, <1>7, <1>8, <1>16, <1>17 DEF endExec, afterExec
<1>19. n \in 1..Len(k.sp) /\ n \notin Elems(k.free) /\ ~k.sp[n].isFree /\ ~k.sp[n].inExec
  BY <1>6, <1>11, <1>12, <1>13 DEF OnlySlot
<1>20. /\ TableOf(Regs, e) /\ OnlySlot(k, e, n) /\ Elems(e.free) = Elems(k.free) \union {n}
       /\ ~e.sp[n].inExec /\ (~k.sp[n].toDelete => ~e.sp[n].toDelete)
  BY <1>12, <1>17, <1>19, UnregisterIdle
<1>21. QED
  BY <1>6, <1>12, <1>13, <1>18, <1>20 DEF OnlySlot

-----------------------------------------------------------------------------
(* The forward table and the tasks.                                         *)

LEMMA TableParts ==
  ASSUME NEW f, NEW T, NEW A, NEW run, Table(f, T, A, run)
  PROVE  /\ TableOf(Tokens, f) /\ Elems(f.free) \subseteq 1..Len(f.sp)
         /\ f.sp \in Seq(Slot(Tokens)) /\ Len(f.sp) \in Nat
  BY DEF Table, TableOf, FMType

\* Steps that leave the forwards of the tasks alone.
LEMMA TableSame ==
  ASSUME NEW f, NEW T, NEW A, NEW run, Table(f, T, A, run),
         NEW U, \A k \in A : U[k].func = T[k].func /\ U[k].tok = T[k].tok
  PROVE  Table(f, U, A, run)
<1>1. Own(f, U, A)
  BY DEF Table, Own
<1>2. Covered(f, U, A, run)
  BY DEF Table, Covered
<1>3. QED
  BY <1>1, <1>2 DEF Table

\* A task that gives up its forward: it is free, or will be when its callback returns.
LEMMA TableRelease ==
  ASSUME NEW f, NEW T, NEW A, NEW run, Table(f, T, A, run), NEW k \in A, NEW g,
         g = clearForward(f, T[k])
  PROVE  Table(g, T, A \ {k}, run)
<1>1. PICK n : n = T[k].func
  OBVIOUS
<1>2. /\ n \in 1..Len(f.sp) /\ n \notin Elems(f.free) /\ ~f.sp[n].isFree /\ ~f.sp[n].toDelete
      /\ \A j \in A : T[j].func = n => j = k
  BY <1>1 DEF Table, Own, runnable
<1>3. /\ TableOf(Tokens, f) /\ Len(f.sp) \in Nat
  BY TableParts
<1>4. PICK h : h = unregisterSPForward(f, n)
  OBVIOUS
<1>5. g = h
  BY <1>1, <1>2, <1>3, <1>4 DEF clearForward
<1>6. ASSUME TableOf(Tokens, h), OnlySlot(f, h, n), Marked(h, run),
             n \in Elems(h.free) \/ (n = run /\ h.sp[n].toDelete),
             \A s : s # n => (s \in Elems(h.free) <=> s \in Elems(f.free))
      PROVE  Table(h, T, A \ {k}, run)
  <2>1. Own(h, T, A \ {k})
    <3>1. SUFFICES ASSUME NEW j \in A \ {k}
                   PROVE  /\ T[j].func \in 1..Len(h.sp) /\ T[j].func \notin Elems(h.free)
                          /\ h.sp[T[j].func].reg = T[j].tok
                          /\ runnable(h, T[j].func)
                          /\ \A i \in A \ {k} : T[i].func = T[j].func => i = j
      BY DEF Own
    <3>2. T[j].func # n
      BY <1>2
    <3>3. QED
      BY <1>6, <3>2 DEF Table, Own, OnlySlot, runnable
  <2>2. Covered(h, T, A \ {k}, run)
    <3>1. SUFFICES ASSUME NEW s \in 1..Len(f.sp), s # n
                   PROVE  \/ s \in Elems(h.free)
                          \/ \E j \in A \ {k} : T[j].func = s
                          \/ s = run /\ h.sp[s].toDelete
      BY <1>6 DEF Covered, OnlySlot
    <3>2. h.sp[s] = f.sp[s]
      BY <1>6, <3>1 DEF OnlySlot
    <3>3. QED
      BY <1>1, <1>6, <3>1, <3>2 DEF Table, Covered
  <2>3. QED
    BY <1>6, <2>1, <2>2 DEF Table, TableOf
<1>7. CASE f.sp[n].inExec
  <2>1. n = run
    BY <1>2, <1>7 DEF Table, Marked
  <2>2. /\ TableOf(Tokens, h) /\ OnlySlot(f, h, n) /\ h.free = f.free
        /\ h.sp[n].toDelete /\ h.sp[n].inExec /\ ~h.sp[n].isFree
    BY <1>2, <1>3, <1>4, <1>7, UnregisterRunning
  <2>3. Marked(h, run)
    BY <2>1, <2>2 DEF Table, Marked, OnlySlot
  <2>4. QED
    BY <1>5, <1>6, <2>1, <2>2, <2>3
<1>8. CASE ~f.sp[n].inExec
  <2>1. n # run
    BY <1>2, <1>3, <1>8 DEF Table, Marked
  <2>2. /\ TableOf(Tokens, h) /\ OnlySlot(f, h, n) /\ Elems(h.free) = Elems(f.free) \union {n}
        /\ ~h.sp[n].inExec /\ (~f.sp[n].toDelete => ~h.sp[n].toDelete)
    BY <1>2, <1>3, <1>4, <1>8, UnregisterIdle
  <2>3. Marked(h, run)
    BY <1>2, <2>1, <2>2 DEF Table, Marked, OnlySlot
  <2>4. QED
    BY <1>5, <1>6, <2>2, <2>3
<1>9. QED
  BY <1>7, <1>8

\* The list U has a new task at position p and the tasks of T at A.
Places(U, p, n, tok, T, A) ==
  /\ p \notin A /\ U[p].func = n /\ U[p].tok = tok
  /\ \A k \in A : U[k].func = T[k].func /\ U[k].tok = T[k].tok

\* A new task at position p gets a forward of its own.
LEMMA TableAdd ==
  ASSUME NEW f, NEW T, NEW A, NEW run, Table(f, T, A, run), NEW tok \in Tokens, NEW r,
         r = registerSPForward(f, tok, TRUE), NEW U, NEW p, Places(U, p, r.id, tok, T, A)
  PROVE  Table(r.fm, U, A \union {p}, run) /\ r.id \in Nat \ {0}
<1>1. TableOf(Tokens, f) /\ Elems(f.free) \subseteq 1..Len(f.sp) /\ Len(f.sp) \in Nat
  BY TableParts
<1>2. TableOf(Tokens, r.fm) /\ Registered(f, r.fm, r.id, tok)
  BY <1>1, RegisterFound
<1>3. PICK n, g : n = r.id /\ g = r.fm
  OBVIOUS
<1>4. /\ TableOf(Tokens, g) /\ n \in 1..Len(g.sp) /\ 1..Len(f.sp) \subseteq 1..Len(g.sp)
      /\ g.sp[n] = Set(tok, TRUE)
      /\ \A s \in 1..Len(g.sp) : s # n => s \in 1..Len(f.sp) /\ g.sp[s] = f.sp[s]
      /\ n \in Elems(f.free) \/ n \notin 1..Len(f.sp)
      /\ Elems(g.free) = Elems(f.free) \ {n}
  BY <1>2, <1>3 DEF Registered
<1>5. /\ g.sp[n].reg = tok /\ g.sp[n].hasFunc /\ ~g.sp[n].isFree /\ ~g.sp[n].toDelete
      /\ ~g.sp[n].inExec
  BY <1>4 DEF Set
<1>6. run # n
  BY <1>1, <1>4 DEF Table, Marked
<1>7. \A k \in A : U[k].func # n /\ U[k].func \in 1..Len(f.sp)
  BY <1>4 DEF Table, Own, Places
<1>8. Own(g, U, A \union {p})
  <2>1. /\ U[p].func \in 1..Len(g.sp) /\ U[p].func \notin Elems(g.free)
        /\ g.sp[U[p].func].reg = U[p].tok /\ runnable(g, U[p].func)
    BY <1>3, <1>4, <1>5 DEF runnable, Places
  <2>2. ASSUME NEW k \in A
        PROVE  /\ U[k].func \in 1..Len(g.sp) /\ U[k].func \notin Elems(g.free)
               /\ g.sp[U[k].func].reg = U[k].tok /\ runnable(g, U[k].func)
               /\ \A j \in A : U[j].func = U[k].func => j = k
    <3>1. /\ T[k].func \in 1..Len(f.sp) /\ T[k].func \notin Elems(f.free)
          /\ f.sp[T[k].func].reg = T[k].tok /\ runnable(f, T[k].func)
          /\ \A j \in A : T[j].func = T[k].func => j = k
      BY DEF Table, Own, Places
    <3>2. U[k].func \in 1..Len(g.sp) /\ U[k].func \notin Elems(g.free)
      BY <1>4, <1>7, <3>1 DEF Places
    <3>3. g.sp[U[k].func] = f.sp[U[k].func]
      BY <1>4, <1>7
    <3>4. QED
      BY <3>1, <3>2, <3>3 DEF runnable, Places
  <2>3. \A k \in A : U[k].func # U[p].func
    BY <1>3, <1>7 DEF Places
  <2>4. QED
    BY <2>1, <2>2, <2>3 DEF Own
<1>9. Covered(g, U, A \union {p}, run)
  <2>1. SUFFICES ASSUME NEW s \in 1..Len(g.sp), s # n
                 PROVE  \/ s \in Elems(g.free)
                        \/ \E k \in A \union {p} : U[k].func = s
                        \/ s = run /\ g.sp[s].toDelete
    BY <1>3 DEF Covered, Places
  <2>2. s \in 1..Len(f.sp) /\ g.sp[s] = f.sp[s]
    BY <1>4, <2>1
  <2>3. \/ s \in Elems(f.free)
        \/ \E k \in A : T[k].func = s
        \/ s = run /\ f.sp[s].toDelete
    BY <2>2 DEF Table, Covered
  <2>4. QED
    BY <1>4, <2>1, <2>2, <2>3 DEF Places
<1>10. Marked(g, run)
  BY <1>4, <1>5, <1>6 DEF Table, Marked
<1>11. Table(g, U, A \union {p}, run)
  BY <1>4, <1>8, <1>9, <1>10 DEF Table, TableOf
<1>12. n \in Nat \ {0}
  BY <1>4 DEF TableOf, FMType
<1>13. QED
  BY <1>3, <1>11, <1>12

\* A set_task whose function does not exist takes no slot.
LEMMA TableMissing ==
  ASSUME NEW f, NEW T, NEW A, NEW run, Table(f, T, A, run), NEW tok \in Tokens, NEW g,
         g = registerSPForward(f, tok, FALSE).fm
  PROVE  Table(g, T, A, run)
<1>1. TableOf(Tokens, f) /\ Elems(f.free) \subseteq 1..Len(f.sp)
  BY TableParts
<1>2. \/ g = f
      \/ \E n \in Elems(f.free) :
           /\ TableOf(Tokens, g) /\ OnlySlot(f, g, n) /\ g.free = f.free
           /\ ~g.sp[n].inExec /\ ~g.sp[n].toDelete
  BY <1>1, RegisterMissing
<1>3. CASE g = f
  BY <1>3
<1>4. CASE g # f
  <2>1. PICK n \in Elems(f.free) :
           /\ TableOf(Tokens, g) /\ OnlySlot(f, g, n) /\ g.free = f.free
           /\ ~g.sp[n].inExec /\ ~g.sp[n].toDelete
    BY <1>2, <1>4
  <2>2. n # run /\ \A k \in A : T[k].func # n
    BY <1>1 DEF Table, Own, Marked
  <2>3. Own(g, T, A)
    BY <2>1, <2>2 DEF Table, Own, OnlySlot, runnable
  <2>4. Covered(g, T, A, run)
    BY <2>1, <2>2 DEF Table, Covered, OnlySlot
  <2>5. Marked(g, run)
    BY <2>1, <2>2 DEF Table, Marked, OnlySlot
  <2>6. QED
    BY <2>1, <2>3, <2>4, <2>5 DEF Table, TableOf
<1>5. QED
  BY <1>3, <1>4

\* The callback of a task begins.
LEMMA TableBegin ==
  ASSUME NEW f, NEW T, NEW A, Table(f, T, A, 0), NEW k \in A, NEW n, n = T[k].func,
         NEW g, g = beginExec(f, n)
  PROVE  Table(g, T, A, n) /\ n \in Nat \ {0}
<1>1. TableOf(Tokens, f) /\ Len(f.sp) \in Nat
  BY TableParts
<1>2. n \in 1..Len(f.sp) /\ n \notin Elems(f.free) /\ runnable(f, n)
  BY DEF Table, Own
<1>3. /\ TableOf(Tokens, g) /\ OnlySlot(f, g, n) /\ g.free = f.free
      /\ g.sp[n].inExec /\ g.sp[n].reg = f.sp[n].reg /\ g.sp[n].hasFunc = f.sp[n].hasFunc
      /\ g.sp[n].isFree = f.sp[n].isFree /\ g.sp[n].toDelete = f.sp[n].toDelete
  BY <1>1, <1>2, BeginExec, SMTT(60)
<1>4. Own(g, T, A)
  <2>1. \A s \in 1..Len(f.sp) : runnable(f, s) => runnable(g, s) /\ g.sp[s].reg = f.sp[s].reg
    BY <1>3 DEF OnlySlot, runnable
  <2>2. SUFFICES ASSUME NEW i \in A
                 PROVE  /\ T[i].func \in 1..Len(g.sp) /\ T[i].func \notin Elems(g.free)
                        /\ g.sp[T[i].func].reg = T[i].tok
                        /\ runnable(g, T[i].func)
                        /\ \A j \in A : T[j].func = T[i].func => j = i
    BY Zenon DEF Own
  <2>3. /\ T[i].func \in 1..Len(f.sp) /\ T[i].func \notin Elems(f.free)
        /\ f.sp[T[i].func].reg = T[i].tok
        /\ runnable(f, T[i].func)
        /\ \A j \in A : T[j].func = T[i].func => j = i
    BY Zenon DEF Table, Own
  <2>4. Len(g.sp) = Len(f.sp) /\ g.free = f.free
    BY <1>3 DEF OnlySlot
  <2>5. QED
    BY <2>1, <2>3, <2>4
<1>5. Covered(g, T, A, n)
  <2>1. \A s \in 1..Len(f.sp) : s # 0
    BY <1>1
  <2>2. QED
    BY <1>3, <2>1 DEF Table, Covered, OnlySlot
<1>6. Marked(g, n)
  <2>1. \A s \in 1..Len(f.sp) : s # 0
    BY <1>1
  <2>2. ~g.sp[n].isFree
    BY <1>2, <1>3 DEF runnable
  <2>3. ASSUME NEW s \in 1..Len(f.sp), s # n PROVE ~g.sp[s].inExec /\ ~g.sp[s].toDelete
    <3>1. ~f.sp[s].inExec /\ ~f.sp[s].toDelete
      BY <2>1 DEF Table, Marked
    <3>2. g.sp[s] = f.sp[s]
      BY <1>3, <2>3 DEF OnlySlot
    <3>3. QED
      BY <3>1, <3>2
  <2>4. Len(g.sp) = Len(f.sp) /\ g.free = f.free
    BY <1>3 DEF OnlySlot
  <2>5. n \in 1..Len(g.sp) /\ n \notin Elems(g.free) /\ g.sp[n].inExec
    BY <1>2, <1>3, <2>4
  <2>6. QED
    BY <2>2, <2>3, <2>4, <2>5, Zenon DEF Marked
<1>7. QED
  BY <1>1, <1>2, <1>3, <1>4, <1>5, <1>6 DEF Table, TableOf

\* It ends: a forward it gave up becomes free.
LEMMA TableEnd ==
  ASSUME NEW f, NEW T, NEW A, NEW n, n # 0, Table(f, T, A, n), NEW g, g = endExec(f, n)
  PROVE  Table(g, T, A, 0)
<1>1. TableOf(Tokens, f) /\ Len(f.sp) \in Nat
  BY TableParts
<1>2. n \in 1..Len(f.sp) /\ n \notin Elems(f.free) /\ ~f.sp[n].isFree
  BY DEF Table, Marked
<1>3. CASE ~f.sp[n].toDelete
  <2>1. /\ TableOf(Tokens, g) /\ OnlySlot(f, g, n) /\ g.free = f.free
        /\ ~g.sp[n].inExec /\ g.sp[n].reg = f.sp[n].reg /\ g.sp[n].hasFunc = f.sp[n].hasFunc
        /\ g.sp[n].isFree = f.sp[n].isFree /\ ~g.sp[n].toDelete
    BY <1>1, <1>2, <1>3, EndExecKeep
  <2>2. \A s \in 1..Len(f.sp) : runnable(f, s) => runnable(g, s) /\ g.sp[s].reg = f.sp[s].reg
    BY <2>1 DEF OnlySlot, runnable
  <2>3. Own(g, T, A)
    BY <2>1, <2>2 DEF Table, Own, OnlySlot
  <2>4. Covered(g, T, A, 0)
    BY <1>3, <2>1 DEF Table, Covered, OnlySlot
  <2>5. Marked(g, 0)
    BY <2>1 DEF Table, Marked, OnlySlot
  <2>6. QED
    BY <2>1, <2>3, <2>4, <2>5 DEF Table, TableOf
<1>4. CASE f.sp[n].toDelete
  <2>1. /\ TableOf(Tokens, g) /\ OnlySlot(f, g, n) /\ Elems(g.free) = Elems(f.free) \union {n}
        /\ ~g.sp[n].inExec /\ ~g.sp[n].toDelete
    BY <1>1, <1>2, <1>4, EndExecFree
  <2>2. \A k \in A : T[k].func # n
    BY <1>4 DEF Table, Own, runnable
  <2>3. Own(g, T, A)
    BY <2>1, <2>2 DEF Table, Own, OnlySlot, runnable
  <2>4. Covered(g, T, A, 0)
    BY <2>1 DEF Table, Covered, OnlySlot
  <2>5. Marked(g, 0)
    BY <2>1 DEF Table, Marked, OnlySlot
  <2>6. QED
    BY <2>1, <2>3, <2>4, <2>5 DEF Table, TableOf
<1>5. QED
  BY <1>3, <1>4

-----------------------------------------------------------------------------
(* removeTasks and the destructors.                                         *)

\* Induction over Nat, for a set.
LEMMA SetInduction ==
  ASSUME NEW S \in SUBSET Nat, 0 \in S, \A n \in S : n + 1 \in S
  PROVE  S = Nat
<1> DEFINE T == Nat \ S
<1>1. SUFFICES ASSUME T # {} PROVE FALSE
  OBVIOUS
<1>2. PICK x \in T : \A y \in T : ~(<<y, x>> \in OpToRel(<, Nat))
  BY <1>1, NatLessThanWellFounded, WFMin, Zenon
<1>3. x # 0 /\ x \in Nat
  OBVIOUS
<1>4. x - 1 \in T
  OBVIOUS
<1>5. <<x - 1, x>> \in OpToRel(<, Nat)
  BY <1>3 DEF OpToRel
<1>6. QED
  BY <1>2, <1>4, <1>5

\* The tables g[0], g[1], ... when the tasks of S are cleared first to last.
ClearStep(g, S, T, k) == IF k \in S THEN clearForward(g[k - 1], T[k]) ELSE g[k - 1]

InTurn(g, f, S, T, n) == g = [k \in 0..n |-> IF k = 0 THEN f ELSE ClearStep(g, S, T, k)]

LEMMA InTurnExists ==
  ASSUME NEW f, NEW S, NEW T, NEW n \in Nat
  PROVE  \E g : InTurn(g, f, S, T, n)
<1> DEFINE Q == {m \in Nat : \E g : InTurn(g, f, S, T, m)}
<1>1. 0 \in Q
  <2>1. PICK g : g = [k \in 0..0 |-> f]
    OBVIOUS
  <2>2. InTurn(g, f, S, T, 0)
    BY <2>1 DEF InTurn
  <2>3. QED
    BY <2>2
<1>2. ASSUME NEW m \in Q PROVE m + 1 \in Q
  <2>1. PICK g : InTurn(g, f, S, T, m)
    OBVIOUS
  <2>2. PICK v : v = ClearStep(g, S, T, m + 1)
    OBVIOUS
  <2>3. PICK h : h = [k \in 0..m + 1 |-> IF k = m + 1 THEN v ELSE g[k]]
    OBVIOUS
  <2>4. m \in Nat /\ 0..m \subseteq 0..m + 1 /\ \A k \in 0..m : h[k] = g[k]
    BY <2>3
  <2>5. h[m + 1] = v /\ m + 1 \in 0..m + 1
    BY <2>3, <2>4
  <2>6. \A k \in 0..m : k # 0 => ClearStep(h, S, T, k) = ClearStep(g, S, T, k)
    BY <2>4 DEF ClearStep
  <2>7. ClearStep(h, S, T, m + 1) = v
    BY <2>2, <2>4 DEF ClearStep
  <2>8. \A k \in 0..m : g[k] = IF k = 0 THEN f ELSE ClearStep(g, S, T, k)
    BY <2>1 DEF InTurn
  <2>9. \A k \in 0..m + 1 : h[k] = IF k = 0 THEN f ELSE ClearStep(h, S, T, k)
    <3>1. SUFFICES ASSUME NEW k \in 0..m + 1
                   PROVE  h[k] = IF k = 0 THEN f ELSE ClearStep(h, S, T, k)
      OBVIOUS
    <3>2. CASE k = m + 1
      BY <2>4, <2>5, <2>7, <3>2
    <3>3. CASE k # m + 1
      <4>1. k \in 0..m
        BY <2>4, <3>3
      <4>2. QED
        BY <2>4, <2>6, <2>8, <4>1
    <3>4. QED
      BY <3>2, <3>3
  <2>10. InTurn(h, f, S, T, m + 1)
    BY <2>3, <2>9 DEF InTurn
  <2>11. QED
    BY <2>4, <2>10
<1>3. Q = Nat
  <2> HIDE DEF Q
  <2>1. Q \in SUBSET Nat
    BY DEF Q
  <2>2. QED
    BY <1>1, <1>2, <2>1, SetInduction
<1>4. QED
  BY <1>3

LEMMA WithoutForwards ==
  ASSUME NEW S, Len(m_Tasks) \in Nat
  PROVE  \E g : InTurn(g, fm, S, m_Tasks, Len(m_Tasks)) /\ withoutForwards(S) = g[Len(m_Tasks)]
<1>1. PICK h : InTurn(h, fm, S, m_Tasks, Len(m_Tasks))
  BY InTurnExists
<1>2. \E g : g = [k \in 0..Len(m_Tasks) |->
                    IF k = 0 THEN fm
                    ELSE IF k \in S THEN clearForward(g[k - 1], m_Tasks[k])
                    ELSE g[k - 1]]
  BY <1>1 DEF InTurn, ClearStep
<1>3. QED
  BY <1>2 DEF withoutForwards, InTurn, ClearStep

\* The tasks of S give up their forwards; the others at A keep theirs.
LEMMA TableClear ==
  ASSUME m_Tasks \in Seq(Task), NEW A, NEW run, Table(fm, m_Tasks, A, run), NEW S,
         A \subseteq 1..Len(m_Tasks), S \subseteq 1..Len(m_Tasks),
         \A k \in S \ A : m_Tasks[k].func = 0
  PROVE  Table(withoutForwards(S), m_Tasks, A \ S, run)
<1>1. PICK n \in Nat : n = Len(m_Tasks)
  OBVIOUS
<1>2. PICK g : InTurn(g, fm, S, m_Tasks, n) /\ withoutForwards(S) = g[n]
  BY <1>1, WithoutForwards
<1>3. PICK T : T = m_Tasks
  OBVIOUS
<1> DEFINE Left(m) == A \ {k \in S : k <= m}
           Q == {m \in Nat : m <= n => Table(g[m], T, Left(m), run)}
<1>4. /\ g[0] = fm
      /\ \A m \in 0..n : m # 0 => g[m] = ClearStep(g, S, T, m)
  BY <1>2, <1>3 DEF InTurn
<1>5. 0 \in Q
  <2>1. \A k \in S : ~(k <= 0)
    BY <1>1
  <2>2. Left(0) = A
    BY <2>1
  <2>3. QED
    BY <1>3, <1>4, <2>2
<1>6. ASSUME NEW m \in Q PROVE m + 1 \in Q
  <2>1. SUFFICES ASSUME m + 1 <= n PROVE Table(g[m + 1], T, Left(m + 1), run)
    OBVIOUS
  <2>2. m \in Nat /\ m + 1 \in 0..n /\ m + 1 # 0 /\ (m + 1) - 1 = m /\ m <= n
    BY <2>1
  <2>3. Table(g[m], T, Left(m), run)
    BY <2>2
  <2>4. g[m + 1] = IF m + 1 \in S THEN clearForward(g[m], T[m + 1]) ELSE g[m]
    <3>1. g[m + 1] = ClearStep(g, S, T, m + 1)
      BY <1>4, <2>2
    <3>2. QED
      BY <2>2, <3>1 DEF ClearStep
  <2>5. Left(m + 1) = IF m + 1 \in S THEN Left(m) \ {m + 1} ELSE Left(m)
    <3>1. \A k \in S : k <= m + 1 <=> (k <= m \/ k = m + 1)
      BY <1>1, <2>2
    <3>2. QED
      BY <3>1
  <2>6. CASE m + 1 \in S /\ m + 1 \in A
    <3>1. m + 1 \in Left(m)
      BY <2>2, <2>6
    <3> HIDE DEF Left
    <3>2. PICK h : h = clearForward(g[m], T[m + 1])
      OBVIOUS
    <3>3. Table(h, T, Left(m) \ {m + 1}, run)
      BY <2>3, <3>1, <3>2, TableRelease
    <3>4. QED
      BY <2>4, <2>5, <2>6, <3>2, <3>3
  <2>7. CASE m + 1 \in S /\ m + 1 \notin A
    <3>1. clearForward(g[m], T[m + 1]) = g[m]
      BY <1>3, <2>7 DEF clearForward
    <3>2. Left(m) \ {m + 1} = Left(m)
      BY <2>7
    <3> HIDE DEF Left
    <3>3. QED
      BY <2>3, <2>4, <2>5, <2>7, <3>1, <3>2
  <2>8. CASE m + 1 \notin S
    <3> HIDE DEF Left
    <3>1. QED
      BY <2>3, <2>4, <2>5, <2>8
  <2>9. QED
    BY <2>6, <2>7, <2>8
<1>7. Q = Nat
  <2> HIDE DEF Q
  <2>1. Q \in SUBSET Nat
    BY DEF Q
  <2>2. QED
    BY <1>5, <1>6, <2>1, SetInduction
<1>8. Left(n) = A \ S
  <2>1. \A k \in S : k <= n
    BY <1>1
  <2>2. {k \in S : k <= n} = S
    BY <2>1
  <2>3. QED
    BY <2>2
<1>9. QED
  <2>1. n \in Q /\ n <= n
    <3> HIDE DEF Q
    <3>1. QED
      BY <1>7
  <2>2. Table(g[n], T, Left(n), run)
    BY <2>1, Zenon
  <2>3. QED
    BY <1>2, <1>3, <1>8, <2>2

-----------------------------------------------------------------------------
(* One task.                                                                *)

LEMMA ClearedTask ==
  ASSUME NEW t \in Task
  PROVE  /\ cleared(t) \in Task /\ cleared(t).free /\ cleared(t).func = 0
         /\ cleared(t).inExecute = t.inExecute
<1>1. cleared(t) = [free |-> TRUE, inExecute |-> t.inExecute, func |-> 0, id |-> 0, base |-> 0,
                    kind |-> "normal", loop |-> FALSE, repeat |-> 0, next |-> 0,
                    tok |-> NoToken, want |-> 0, runs |-> 0, since |-> 0, cnt |-> 0,
                    served |-> FALSE]
  <2>1. PICK u : u = cleared(t)
    OBVIOUS
  <2>2. u = [free |-> TRUE, inExecute |-> t.inExecute, func |-> 0, id |-> 0, base |-> 0,
             kind |-> "normal", loop |-> FALSE, repeat |-> 0, next |-> 0,
             tok |-> NoToken, want |-> 0, runs |-> 0, since |-> 0, cnt |-> 0,
             served |-> FALSE]
    BY <2>1 DEF cleared, Task
  <2>3. QED
    BY <2>1, <2>2
<1>2. t.inExecute \in BOOLEAN
  BY DEF Task
<1>3. QED
  BY <1>1, <1>2 DEF Task

LEMMA ClearedSound ==
  ASSUME NEW t \in Task, NEW now, NEW e, NEW w, t.inExecute <=> e, NEW x
  PROVE  Sound(cleared(t), now, e, x)
  BY ClearedTask DEF Sound

\* What a task is that was set with forward n.
NewSound(t, n, tok) ==
  /\ t \in Task /\ t.func = n /\ t.tok = tok /\ ~t.free
  /\ \A w : Sound(t, m_fCurrentTime, FALSE, w)

LEMMA NewTask ==
  ASSUME TypeOK, NEW n \in Nat, NEW id \in Ids, NEW base \in Bases, NEW kind \in Kinds,
         NEW flags \in Flags, NEW repeat \in Repeats, NEW tok \in Tokens, NEW t,
         t = newTask(n, id, base, kind, flags, repeat, tok)
  PROVE  NewSound(t, n, tok)
<1>1. /\ m_fCurrentTime \in Nat /\ base \in Nat /\ repeat \in Nat
      /\ flags \in {"once", "a", "b"} /\ kind \in {"normal", "after", "before"}
  BY TimeAssumption, FlagAssumption DEF TypeOK
<1>2. PICK p \in Int : p = IF flags = "b" THEN -1 ELSE IF flags = "a" THEN repeat ELSE 0
  BY <1>1
<1>3. PICK q \in Int : q = IF flags = "b" THEN -1 ELSE IF flags = "a" THEN repeat ELSE 1
  BY <1>1
<1>4. PICK l \in BOOLEAN : l <=> flags # "once"
  OBVIOUS
<1>5. t = [free |-> FALSE, inExecute |-> FALSE, func |-> n, id |-> id, base |-> base,
           kind |-> kind, loop |-> l, repeat |-> p, next |-> m_fCurrentTime + base, tok |-> tok,
           want |-> q, runs |-> 0, since |-> m_fCurrentTime, cnt |-> 0, served |-> TRUE]
  BY <1>1, <1>2, <1>3, <1>4 DEF newTask
<1>6. m_fCurrentTime + base \in Nat
  BY <1>1
<1>7. t \in Task
  BY <1>1, <1>5, <1>6 DEF Task
<1>8. Early(t, m_fCurrentTime, FALSE)
  <2>1. /\ t.since = m_fCurrentTime /\ t.cnt = 0 /\ t.base = base
        /\ t.next = m_fCurrentTime + base
    BY <1>5
  <2>2. 0 * base = 0 /\ (0 + 1) * base = base
    BY <1>1
  <2>3. QED
    BY <1>1, <2>1, <2>2 DEF Early
<1>9. Counted(t, FALSE)
  <2>1. (t.loop <=> l) /\ t.repeat = p /\ t.want = q /\ t.runs = 0
    BY <1>5
  <2>2. QED
    BY <1>1, <1>2, <1>3, <1>4, <2>1 DEF Counted
<1>10. t.served /\ ~t.inExecute /\ ~t.free /\ t.func = n /\ t.tok = tok
  BY <1>5
<1>11. ASSUME NEW w PROVE Sound(t, m_fCurrentTime, FALSE, w)
  BY <1>8, <1>9, <1>10 DEF Sound, Served
<1>12. QED
  BY <1>7, <1>10, <1>11 DEF NewSound

\* changeTasks on one task.
changed(t, b) == [t EXCEPT !.base = b, !.next = m_fCurrentTime + b,
                           !.since = m_fCurrentTime, !.cnt = 0, !.served = TRUE]

LEMMA ChangedTask ==
  ASSUME TypeOK, NEW t \in Task, NEW b \in NewBases, NEW e, NEW w, ~t.free,
         Sound(t, m_fCurrentTime, e, w), NEW u, u = changed(t, b)
  PROVE  /\ u \in Task /\ u.func = t.func /\ u.tok = t.tok /\ ~u.free
         /\ Sound(u, m_fCurrentTime, e, w)
<1>1. m_fCurrentTime \in Nat /\ b \in Nat /\ m_fCurrentTime + b \in Nat
  BY TimeAssumption DEF TypeOK
<1>2. /\ u \in Task /\ u.func = t.func /\ u.tok = t.tok /\ u.free = t.free
      /\ u.inExecute = t.inExecute /\ u.loop = t.loop /\ u.repeat = t.repeat
      /\ u.want = t.want /\ u.runs = t.runs
      /\ u.base = b /\ u.next = m_fCurrentTime + b /\ u.since = m_fCurrentTime
      /\ u.cnt = 0 /\ u.served
  BY <1>1 DEF changed, Task
<1>3. Early(u, m_fCurrentTime, e)
  <2>1. 0 * b = 0 /\ (0 + 1) * b = b
    BY <1>1
  <2>2. QED
    BY <1>1, <1>2, <2>1 DEF Early
<1>4. Counted(u, e)
  BY <1>2 DEF Sound, Counted
<1>5. QED
  BY <1>2, <1>3, <1>4 DEF Sound, Served

\* A frame begins: nobody was served in it.
LEMMA FrameTask ==
  ASSUME TypeOK, NEW t \in Task, NEW time \in Nat, m_fCurrentTime < time, NEW w,
         Sound(t, m_fCurrentTime, FALSE, w), NEW u, u = [t EXCEPT !.served = FALSE]
  PROVE  /\ u \in Task /\ u.func = t.func /\ u.tok = t.tok /\ u.free = t.free
         /\ Sound(u, time, FALSE, FALSE)
<1>1. m_fCurrentTime \in Nat
  BY DEF TypeOK
<1>2. /\ u \in Task /\ u.func = t.func /\ u.tok = t.tok /\ u.free = t.free
      /\ u.inExecute = t.inExecute /\ u.loop = t.loop /\ u.repeat = t.repeat
      /\ u.want = t.want /\ u.runs = t.runs /\ u.kind = t.kind
      /\ u.base = t.base /\ u.next = t.next /\ u.since = t.since /\ u.cnt = t.cnt
  BY DEF Task
<1>3. ~t.free => Early(u, time, FALSE)
  <2>1. /\ t.since \in Nat /\ t.cnt \in Nat /\ t.base \in Nat
    BY DEF Task
  <2>2. PICK x \in Nat : x = t.cnt * t.base
    BY <2>1
  <2>3. SUFFICES ASSUME ~t.free PROVE Early(u, time, FALSE)
    OBVIOUS
  <2>4. t.since <= time /\ (t.kind = "normal" => x <= time - t.since)
    BY <1>1, <2>1, <2>2, <2>3 DEF Sound, Early
  <2>5. QED
    BY <1>2, <2>2, <2>3, <2>4 DEF Sound, Early
<1>4. ~t.free => Counted(u, FALSE)
  BY <1>2 DEF Sound, Counted
<1>5. QED
  BY <1>2, <1>3, <1>4 DEF Sound, Served

\* startFrame passes a task that is not due.
LEMMA SkippedTask ==
  ASSUME TypeOK, NEW t \in Task, NEW w, NEW x, NEW e, Sound(t, m_fCurrentTime, e, w),
         t.free \/ ~due(t)
  PROVE  Sound(t, m_fCurrentTime, e, x)
<1>1. m_fCurrentTime \in Nat /\ t.next \in Nat
  BY DEF TypeOK, Task
<1>2. ~t.free /\ t.kind = "normal" => ~(t.next <= m_fCurrentTime)
  BY DEF due
<1>3. ~t.free => Served(t, m_fCurrentTime, e, x)
  BY <1>2 DEF Sound, Served
<1>4. QED
  BY <1>3 DEF Sound

\* It calls one that is.
called(t) == [t EXCEPT !.inExecute = TRUE, !.runs = @ + 1, !.cnt = @ + 1, !.served = TRUE]

LEMMA CalledTask ==
  ASSUME TypeOK, NEW t \in Task, NEW w, Sound(t, m_fCurrentTime, FALSE, w), NEW x,
         ~t.free, due(t), ~Exhausted(t), NEW u, u = called(t)
  PROVE  /\ u \in Task /\ u.func = t.func /\ u.tok = t.tok /\ ~u.free
         /\ Sound(u, m_fCurrentTime, TRUE, x)
<1>1. /\ m_fCurrentTime \in Nat /\ t.next \in Nat /\ t.since \in Nat /\ t.cnt \in Nat
      /\ t.base \in Nat /\ t.runs \in Nat /\ t.repeat \in Int /\ t.want \in Int
      /\ t.loop \in BOOLEAN
  BY DEF TypeOK, Task
<1>2. /\ u \in Task /\ u.func = t.func /\ u.tok = t.tok /\ u.free = t.free
      /\ u.inExecute /\ u.loop = t.loop /\ u.repeat = t.repeat
      /\ u.want = t.want /\ u.runs = t.runs + 1 /\ u.kind = t.kind
      /\ u.base = t.base /\ u.next = t.next /\ u.since = t.since /\ u.cnt = t.cnt + 1
      /\ u.served
  <2>1. PICK m \in Nat : m = t.runs + 1
    BY <1>1
  <2>2. PICK n \in Nat : n = t.cnt + 1
    BY <1>1
  <2>3. u = [t EXCEPT !.inExecute = TRUE, !.runs = m, !.cnt = n, !.served = TRUE]
    BY <2>1, <2>2 DEF called, Task
  <2>4. /\ u \in Task /\ u.func = t.func /\ u.tok = t.tok /\ u.free = t.free
        /\ u.inExecute /\ u.loop = t.loop /\ u.repeat = t.repeat
        /\ u.want = t.want /\ u.runs = m /\ u.kind = t.kind
        /\ u.base = t.base /\ u.next = t.next /\ u.since = t.since /\ u.cnt = n
        /\ u.served
    BY <2>3, ZenonT(60) DEF Task
  <2>5. QED
    BY <2>1, <2>2, <2>4
<1>3. Early(u, m_fCurrentTime, TRUE)
  <2>1. PICK y \in Nat : y = (t.cnt + 1) * t.base
    BY <1>1
  <2>2. /\ t.since <= m_fCurrentTime
        /\ t.kind = "normal" => t.next >= t.since + y /\ t.next <= m_fCurrentTime
    BY <2>1 DEF Sound, Early, due
  <2>3. t.kind = "normal" => y <= m_fCurrentTime - t.since
    BY <1>1, <2>1, <2>2
  <2>4. QED
    BY <1>2, <2>1, <2>2, <2>3 DEF Early
<1>4. Counted(u, TRUE)
  <2>1. CASE ~t.loop
    BY <1>1, <1>2, <2>1 DEF Sound, Counted
  <2>2. CASE t.loop /\ t.repeat = -1
    BY <1>1, <1>2, <2>2 DEF Sound, Counted
  <2>3. CASE t.loop /\ t.repeat # -1
    <3>1. t.repeat # 0 /\ t.repeat >= 0 /\ t.runs + t.repeat = t.want
      BY <1>1, <2>3 DEF Sound, Counted, Exhausted
    <3>2. t.repeat >= 1 /\ (t.runs + 1) + t.repeat = t.want + 1
      BY <1>1, <3>1
    <3>3. QED
      BY <1>2, <2>3, <3>2 DEF Counted
  <2>4. QED
    BY <1>1, <2>1, <2>2, <2>3
<1>5. QED
  BY <1>2, <1>3, <1>4 DEF Sound, Served

\* executeForwards has returned and the task goes on.
LEMMA RescheduledTask ==
  ASSUME TypeOK, NEW t \in Task, NEW w, Sound(t, m_fCurrentTime, TRUE, w), NEW x,
         NEW s, s = [t EXCEPT !.inExecute = FALSE], ~s.free, ~ends(s), NEW u, u = rescheduled(s)
  PROVE  /\ u \in Task /\ u.func = t.func /\ u.tok = t.tok /\ ~u.free
         /\ Sound(u, m_fCurrentTime, FALSE, x)
<1>1. /\ m_fCurrentTime \in Nat /\ t.next \in Nat /\ t.since \in Nat /\ t.cnt \in Nat
      /\ t.base \in Nat /\ t.runs \in Nat /\ t.repeat \in Int /\ t.want \in Int
      /\ t.loop \in BOOLEAN
  BY DEF TypeOK, Task
<1>2. /\ s \in Task /\ s.func = t.func /\ s.tok = t.tok /\ s.free = t.free
      /\ ~s.inExecute /\ s.loop = t.loop /\ s.repeat = t.repeat
      /\ s.want = t.want /\ s.runs = t.runs /\ s.kind = t.kind
      /\ s.base = t.base /\ s.next = t.next /\ s.since = t.since /\ s.cnt = t.cnt
      /\ s.served = t.served
  BY DEF Task
<1>3. PICK p \in Int : p = IF s.repeat = -1 THEN -1 ELSE s.repeat - 1
  BY <1>1, <1>2
<1>4. PICK q \in Nat : q = s.next + s.base
  BY <1>1, <1>2
<1>5. u = [s EXCEPT !.repeat = p, !.next = q]
  BY <1>2, <1>3, <1>4 DEF rescheduled, Task
<1>6. /\ u \in Task /\ u.func = s.func /\ u.tok = s.tok /\ u.free = s.free
      /\ ~u.inExecute /\ u.loop = s.loop /\ u.repeat = p
      /\ u.want = s.want /\ u.runs = s.runs /\ u.kind = s.kind
      /\ u.base = s.base /\ u.next = q /\ u.since = s.since /\ u.cnt = s.cnt
      /\ u.served = s.served
  BY <1>2, <1>5 DEF Task
<1>7. ~t.free /\ Early(t, m_fCurrentTime, TRUE) /\ Counted(t, TRUE) /\ t.served
  BY <1>2 DEF Sound, Served
<1>8. Early(u, m_fCurrentTime, FALSE)
  <2>1. PICK y \in Nat : y = t.cnt * t.base
    BY <1>1
  <2>2. (t.cnt + 1) * t.base = y + t.base
    BY <1>1, <2>1
  <2>3. /\ t.since <= m_fCurrentTime
        /\ t.kind = "normal" => y <= m_fCurrentTime - t.since /\ t.next >= t.since + y
    BY <1>7, <2>1 DEF Early
  <2>4. t.kind = "normal" => q >= t.since + y /\ q >= t.since + (y + t.base)
    BY <1>1, <1>2, <1>4, <2>1, <2>3
  <2>5. QED
    BY <1>2, <1>6, <2>1, <2>2, <2>3, <2>4 DEF Early
<1>9. Counted(u, FALSE)
  <2>1. t.loop /\ (t.repeat = -1 \/ t.repeat - 1 > 0)
    BY <1>1, <1>2 DEF ends
  <2>2. CASE t.repeat = -1
    BY <1>2, <1>3, <1>6, <1>7, <2>1, <2>2 DEF Counted
  <2>3. CASE t.repeat # -1
    <3>1. p = t.repeat - 1 /\ p > 0 /\ p # -1 /\ t.runs + t.repeat = t.want + 1
      BY <1>1, <1>2, <1>3, <1>7, <2>1, <2>3 DEF Counted
    <3>2. p >= 0 /\ t.runs + p = t.want
      BY <1>1, <3>1
    <3>3. QED
      BY <1>1, <1>2, <1>6, <2>1, <3>1, <3>2 DEF Counted
  <2>4. QED
    BY <2>2, <2>3
<1>10. QED
  BY <1>2, <1>6, <1>7, <1>8, <1>9 DEF Sound, Served

\* A task that is over has been called as often as it should.
LEMMA EndedTask ==
  ASSUME NEW t \in Task, NEW e, NEW now, NEW w, Sound(t, now, e, w), ~t.free, ends(t),
         e \/ Exhausted(t)
  PROVE  t.runs = t.want
<1>1. t.runs \in Nat /\ t.repeat \in Int /\ t.want \in Int /\ t.loop \in BOOLEAN
  BY DEF Task
<1>2. Counted(t, e)
  BY DEF Sound
<1>3. CASE ~t.loop
  BY <1>1, <1>2, <1>3 DEF Counted, Exhausted
<1>4. CASE t.loop
  <2>1. t.repeat # -1 /\ t.repeat - 1 <= 0
    BY <1>4 DEF ends
  <2>2. CASE e
    BY <1>1, <1>2, <1>4, <2>1, <2>2 DEF Counted
  <2>3. CASE ~e
    BY <1>1, <1>2, <1>4, <2>1, <2>3 DEF Counted, Exhausted
  <2>4. QED
    BY <2>2, <2>3
<1>5. QED
  BY <1>3, <1>4

-----------------------------------------------------------------------------
(* The list of tasks.                                                       *)

\* The list U has the task t at p and is the list T elsewhere.
Puts(T, U, p, t) ==
  /\ U \in Seq(Task) /\ Len(U) \in Nat /\ p \in 1..Len(U) /\ U[p] = t
  /\ 1..Len(T) \subseteq 1..Len(U)
  /\ \A k \in 1..Len(U) : k # p => k \in 1..Len(T) /\ U[k] = T[k]

LEMMA PutAt ==
  ASSUME NEW T \in Seq(Task), NEW p \in 1..Len(T), NEW t \in Task, NEW U, U = [T EXCEPT ![p] = t]
  PROVE  Puts(T, U, p, t) /\ Len(U) = Len(T)
<1>1. /\ U \in Seq(Task) /\ Len(U) = Len(T) /\ U[p] = t
      /\ \A k \in 1..Len(T) : k # p => U[k] = T[k]
  BY ExceptSeq
<1>2. QED
  BY <1>1 DEF Puts

LEMMA PutEnd ==
  ASSUME NEW T \in Seq(Task), NEW t \in Task, NEW U, U = Append(T, t), NEW p, p = Len(T) + 1
  PROVE  Puts(T, U, p, t)
<1>1. /\ U \in Seq(Task) /\ Len(U) = Len(T) + 1 /\ U[Len(T) + 1] = t /\ Len(T) \in Nat
      /\ \A k \in 1..Len(T) : U[k] = T[k]
  BY AppendProperties
<1>2. p \in 1..Len(U) /\ \A k \in 1..Len(U) : k # p => k \in 1..Len(T)
  BY <1>1
<1>3. 1..Len(T) \subseteq 1..Len(U)
  BY <1>1
<1>4. QED
  BY <1>1, <1>2, <1>3 DEF Puts

LEMMA PutActs ==
  ASSUME NEW T, NEW U, NEW p, NEW t, Puts(T, U, p, t)
  PROVE  /\ t.free => Acts(U) = Acts(T) \ {p}
         /\ ~t.free => Acts(U) = Acts(T) \union {p}
  BY DEF Puts, Acts

\* A list whose tasks are changed in place.
LEMMA MapTasks ==
  ASSUME NEW T \in Seq(Task), NEW U \in [DOMAIN T -> Task]
  PROVE  U \in Seq(Task) /\ Len(U) = Len(T) /\ DOMAIN U = 1..Len(T)
<1>1. DOMAIN T = 1..Len(T) /\ Len(T) \in Nat
  BY LenProperties
<1>2. U \in Seq(Task)
  BY <1>1, SeqDef
<1>3. Len(U) \in Nat /\ DOMAIN U = 1..Len(U) /\ DOMAIN U = 1..Len(T)
  BY <1>1, <1>2, LenProperties
<1>4. QED
  BY <1>1, <1>2, <1>3

LEMMA InvParts ==
  ASSUME IInv
  PROVE  /\ TypeOK /\ m_Tasks \in Seq(Task) /\ Len(m_Tasks) \in Nat
         /\ DOMAIN m_Tasks = 1..Len(m_Tasks) /\ Acts(m_Tasks) \subseteq 1..Len(m_Tasks)
         /\ iter \in Nat /\ running \in Nat /\ m_fCurrentTime \in Nat
         /\ Control /\ Table(fm, m_Tasks, Acts(m_Tasks), running)
         /\ \A k \in 1..Len(m_Tasks) :
              /\ m_Tasks[k] \in Task
              /\ Sound(m_Tasks[k], m_fCurrentTime, Busy(pc, iter, k), Walked(pc, iter, k))
  BY LenProperties, ElementOfSeq DEF IInv, TypeOK, Tasked, Acts

\* A set of positions has a first one.
LEMMA First ==
  ASSUME NEW S \in SUBSET Nat, S # {}
  PROVE  \E k \in S : \A j \in S : k <= j
<1>1. PICK x \in S : \A y \in S : ~(<<y, x>> \in OpToRel(<, Nat))
  BY NatLessThanWellFounded, WFMin, Zenon
<1>2. \A y \in S : ~(y < x)
  <2>1. \A y \in S : y < x => <<y, x>> \in OpToRel(<, Nat)
    BY DEF OpToRel
  <2>2. QED
    BY <1>1, <2>1
<1>3. QED
  BY <1>2

LEMMA PlaceFits ==
  ASSUME IInv
  PROVE  \/ Place = Len(m_Tasks) + 1
         \/ Place \in 1..Len(m_Tasks) /\ m_Tasks[Place].free /\ ~m_Tasks[Place].inExecute
<1>1. Reusable \subseteq 1..Len(m_Tasks) /\ \A k \in Reusable : m_Tasks[k].free /\ ~m_Tasks[k].inExecute
  BY InvParts DEF Reusable
<1>2. CASE Reusable = {}
  BY <1>2 DEF Place
<1>3. CASE Reusable # {}
  <2>1. Reusable \in SUBSET Nat
    BY <1>1
  <2>2. \E k \in Reusable : \A j \in Reusable : k <= j
    BY <1>3, <2>1, First
  <2>3. Place \in Reusable
    BY <1>3, <2>2 DEF Place
  <2>4. QED
    BY <1>1, <2>3
<1>4. QED
  BY <1>2, <1>3

-----------------------------------------------------------------------------
(* Every action preserves the invariant.                                    *)

\* The empty list satisfies the invariant.
LEMMA InvInit == Init => IInv
<1> SUFFICES ASSUME Init PROVE IInv
  OBVIOUS
<1>1. /\ fm = [sp |-> <<>>, free |-> <<>>] /\ fm.sp = <<>> /\ fm.free = <<>>
      /\ m_Tasks = <<>> /\ m_fCurrentTime = 0 /\ pc = "idle" /\ iter = 0 /\ running = 0
  BY DEF Init, EmptyFM
<1>2. fm \in FMType(Tokens)
  BY <1>1, EmptySeq DEF FMType
<1>3. TypeOK
  BY <1>1, <1>2, EmptySeq DEF TypeOK
<1>4. Len(fm.sp) = 0 /\ Len(fm.free) = 0 /\ Len(m_Tasks) = 0
  BY <1>1
<1>5. Table(fm, m_Tasks, Acts(m_Tasks), running)
  BY <1>1, <1>2, <1>4 DEF Table, Acts, Own, Covered, Marked, Distinct, Elems
<1>6. QED
  BY <1>1, <1>3, <1>4, <1>5 DEF IInv, Control, Tasked

\* A native that replaces one task and leaves startFrame where it is.
LEMMA NativePut ==
  ASSUME IInv, PluginCode, NEW p, NEW t \in Task, Puts(m_Tasks, m_Tasks', p, t),
         \A w \in BOOLEAN : Sound(t, m_fCurrentTime, FALSE, w),
         p \in 1..Len(m_Tasks) => ~m_Tasks[p].inExecute,
         UNCHANGED <<m_fCurrentTime, pc, iter, running>>
  PROVE  /\ Control' /\ Tasked(m_Tasks', m_fCurrentTime, pc, iter)
         /\ m_Tasks' \in Seq(Task)
<1>1. m_Tasks' \in Seq(Task) /\ 1..Len(m_Tasks) \subseteq 1..Len(m_Tasks')
  BY DEF Puts
<1>2. Control'
  BY <1>1, InvParts DEF Control
<1>3. ASSUME NEW k \in 1..Len(m_Tasks')
      PROVE  Sound(m_Tasks'[k], m_fCurrentTime, Busy(pc, iter, k), Walked(pc, iter, k))
  <2>1. CASE k = p
    <3>1. ~Busy(pc, iter, p)
      <4>1. ASSUME Busy(pc, iter, p) PROVE FALSE
        <5>1. iter = p /\ p \in 1..Len(m_Tasks)
          BY <4>1, InvParts DEF Busy, Control
        <5>2. m_Tasks[p].inExecute
          BY <4>1, <5>1, InvParts DEF Sound
        <5>3. QED
          BY <5>1, <5>2
      <4>2. QED
        BY <4>1
    <3>2. Busy(pc, iter, p) = FALSE
      BY <3>1 DEF Busy
    <3>3. Walked(pc, iter, p) \in BOOLEAN
      BY DEF Walked
    <3>4. m_Tasks'[p] = t
      BY DEF Puts
    <3>5. QED
      BY <2>1, <3>2, <3>3, <3>4
  <2>2. CASE k # p
    <3>1. k \in 1..Len(m_Tasks) /\ m_Tasks'[k] = m_Tasks[k]
      BY <2>2 DEF Puts
    <3>2. QED
      BY <3>1, InvParts
  <2>3. QED
    BY <2>1, <2>2
<1>4. QED
  BY <1>1, <1>2, <1>3 DEF Tasked

LEMMA SetTaskStep ==
  ASSUME IInv, NEW tok \in Tokens, NEW id \in Ids, NEW base \in Bases, NEW kind \in Kinds,
         NEW flags \in Flags, NEW repeat \in Repeats,
         set_task(tok, id, base, kind, flags, repeat)
  PROVE  IInv'
<1>1. PICK r : r = registerSPForward(fm, tok, TRUE)
  OBVIOUS
<1>2. TypeOK /\ TableOf(Tokens, fm)
  BY InvParts, TableParts
<1>3. TableOf(Tokens, r.fm) /\ Registered(fm, r.fm, r.id, tok)
  BY <1>1, <1>2, RegisterFound
<1>4. r.id \in Nat
  BY <1>3 DEF Registered, TableOf, FMType
<1>5. PICK n \in Nat : n = r.id
  BY <1>4
<1>6. PICK t : t = newTask(n, id, base, kind, flags, repeat, tok)
  OBVIOUS
<1>7. PICK p : p = Place
  OBVIOUS
<1>8. /\ PluginCode /\ fm' = r.fm
      /\ m_Tasks' = IF p > Len(m_Tasks) THEN Append(m_Tasks, t) ELSE [m_Tasks EXCEPT ![p] = t]
      /\ UNCHANGED <<m_fCurrentTime, pc, iter, running>>
  BY <1>1, <1>5, <1>6, <1>7 DEF set_task
<1>9. /\ t \in Task /\ t.func = n /\ t.tok = tok /\ ~t.free
      /\ \A w : Sound(t, m_fCurrentTime, FALSE, w)
  <2>1. NewSound(t, n, tok)
    BY <1>2, <1>6, NewTask, Zenon
  <2>2. QED
    BY <2>1 DEF NewSound
<1>10. /\ p \notin Acts(m_Tasks) /\ Puts(m_Tasks, m_Tasks', p, t)
       /\ p \in 1..Len(m_Tasks) => ~m_Tasks[p].inExecute
  <2>1. CASE p = Len(m_Tasks) + 1
    <3>1. p > Len(m_Tasks) /\ p \notin 1..Len(m_Tasks)
      BY <2>1, InvParts
    <3>2. m_Tasks' = Append(m_Tasks, t)
      BY <1>8, <3>1
    <3>3. Puts(m_Tasks, m_Tasks', p, t)
      BY <1>9, <2>1, <3>2, InvParts, PutEnd
    <3>4. QED
      BY <3>1, <3>3 DEF Acts
  <2>2. CASE p \in 1..Len(m_Tasks) /\ m_Tasks[p].free /\ ~m_Tasks[p].inExecute
    <3>1. ~(p > Len(m_Tasks))
      BY <2>2, InvParts
    <3>2. m_Tasks' = [m_Tasks EXCEPT ![p] = t]
      BY <1>8, <3>1
    <3>3. Puts(m_Tasks, m_Tasks', p, t)
      BY <1>9, <2>2, <3>2, InvParts, PutAt
    <3>4. QED
      BY <2>2, <3>3 DEF Acts
  <2>3. QED
    BY <1>7, <2>1, <2>2, PlaceFits
<1>11. /\ Control' /\ Tasked(m_Tasks', m_fCurrentTime, pc, iter)
       /\ m_Tasks' \in Seq(Task)
  BY <1>8, <1>9, <1>10, NativePut
<1>12. Acts(m_Tasks') = Acts(m_Tasks) \union {p}
  BY <1>9, <1>10, PutActs
<1>13. Places(m_Tasks', p, r.id, tok, m_Tasks, Acts(m_Tasks))
  <2>1. \A k \in Acts(m_Tasks) : m_Tasks'[k] = m_Tasks[k]
    BY <1>10 DEF Puts, Acts
  <2>2. m_Tasks'[p] = t
    BY <1>10 DEF Puts
  <2>3. QED
    BY <1>5, <1>9, <1>10, <2>1, <2>2 DEF Places
<1>14. Table(r.fm, m_Tasks', Acts(m_Tasks) \union {p}, running)
  BY <1>1, <1>13, InvParts, TableAdd
<1>15. Table(fm', m_Tasks', Acts(m_Tasks'), running')
  BY <1>8, <1>12, <1>14
<1>16. TypeOK'
  BY <1>8, <1>11, <1>15, InvParts DEF TypeOK, Table
<1>17. QED
  BY <1>8, <1>11, <1>15, <1>16 DEF IInv, Acts, Tasked, Busy, Walked

LEMMA MissingStep ==
  ASSUME IInv, NEW tok \in Tokens, set_task_missing(tok) PROVE IInv'
<1>1. /\ fm' = registerSPForward(fm, tok, FALSE).fm
      /\ UNCHANGED <<m_Tasks, m_fCurrentTime, pc, iter, running>>
  BY DEF set_task_missing
<1>2. Table(fm', m_Tasks, Acts(m_Tasks), running)
  BY <1>1, InvParts, TableMissing
<1>3. TypeOK'
  BY <1>1, <1>2, InvParts DEF TypeOK, Table
<1>4. QED
  BY <1>1, <1>2, <1>3, InvParts DEF IInv, Control, Acts, Tasked, Busy, Walked

LEMMA RemoveStep ==
  ASSUME IInv, NEW id \in Ids, remove_task(id) PROVE IInv'
<1>1. PICK S : S = Matches(id)
  OBVIOUS
<1>2. PICK U : U = m_Tasks'
  OBVIOUS
<1>3. /\ fm' = withoutForwards(S)
      /\ U = [k \in DOMAIN m_Tasks |-> IF k \in S THEN cleared(m_Tasks[k]) ELSE m_Tasks[k]]
      /\ UNCHANGED <<m_fCurrentTime, pc, iter, running>>
  BY <1>1, <1>2 DEF remove_task
<1>4. S \subseteq Acts(m_Tasks) /\ S \subseteq 1..Len(m_Tasks)
  BY <1>1, InvParts DEF Matches, Acts
<1>5. \A k \in 1..Len(m_Tasks) : U[k] = IF k \in S THEN cleared(m_Tasks[k]) ELSE m_Tasks[k]
  BY <1>3, InvParts
<1>6. \A k \in 1..Len(m_Tasks) : U[k] \in Task
  BY <1>5, InvParts, ClearedTask
<1>7. U \in [DOMAIN m_Tasks -> Task]
  BY <1>3, <1>6, InvParts
<1>8. U \in Seq(Task) /\ Len(U) = Len(m_Tasks)
  BY <1>7, InvParts, MapTasks
<1>9. ASSUME NEW k \in 1..Len(m_Tasks)
      PROVE  Sound(U[k], m_fCurrentTime, Busy(pc, iter, k), Walked(pc, iter, k))
  <2>1. CASE k \in S
    <3>1. m_Tasks[k].inExecute <=> Busy(pc, iter, k)
      BY InvParts DEF Sound
    <3>2. QED
      BY <1>5, <2>1, <3>1, InvParts, ClearedSound
  <2>2. CASE k \notin S
    BY <1>5, <2>2, InvParts
  <2>3. QED
    BY <2>1, <2>2
<1>10. Acts(U) = Acts(m_Tasks) \ S
  BY <1>5, <1>8, InvParts, ClearedTask DEF Acts
<1>11. Table(fm', m_Tasks, Acts(m_Tasks) \ S, running)
  BY <1>3, <1>4, InvParts, TableClear
<1>12. Table(fm', U, Acts(U), running)
  <2>1. \A k \in Acts(m_Tasks) \ S : U[k] = m_Tasks[k]
    BY <1>5, InvParts
  <2>2. Table(fm', U, Acts(m_Tasks) \ S, running)
    BY <1>11, <2>1, TableSame
  <2>3. QED
    BY <1>10, <2>2
<1>13. TypeOK'
  BY <1>2, <1>3, <1>8, <1>12, InvParts DEF TypeOK, Table
<1>14. Control'
  BY <1>2, <1>3, <1>8, InvParts DEF Control
<1>15. Tasked(U, m_fCurrentTime, pc, iter)
  BY <1>8, <1>9 DEF Tasked
<1>16. QED
  BY <1>2, <1>3, <1>12, <1>13, <1>14, <1>15 DEF IInv, Acts, Tasked, Busy, Walked

LEMMA ChangeStep ==
  ASSUME IInv, NEW id \in Ids, NEW b \in NewBases, change_task(id, b) PROVE IInv'
<1>1. PICK S : S = Matches(id)
  OBVIOUS
<1>2. PICK U : U = m_Tasks'
  OBVIOUS
<1>3. /\ U = [k \in DOMAIN m_Tasks |-> IF k \in S THEN changed(m_Tasks[k], b) ELSE m_Tasks[k]]
      /\ UNCHANGED <<fm, m_fCurrentTime, pc, iter, running>>
  BY <1>1, <1>2 DEF change_task, changed
<1>4. \A k \in S : k \in 1..Len(m_Tasks) /\ ~m_Tasks[k].free
  BY <1>1, InvParts DEF Matches
<1>5. \A k \in 1..Len(m_Tasks) : U[k] = IF k \in S THEN changed(m_Tasks[k], b) ELSE m_Tasks[k]
  BY <1>3, InvParts
<1>6. ASSUME NEW k \in 1..Len(m_Tasks)
      PROVE  /\ U[k] \in Task /\ U[k].func = m_Tasks[k].func /\ U[k].tok = m_Tasks[k].tok
             /\ (U[k].free <=> m_Tasks[k].free)
             /\ Sound(U[k], m_fCurrentTime, Busy(pc, iter, k), Walked(pc, iter, k))
  <2>1. CASE k \in S
    <3>1. PICK u : u = changed(m_Tasks[k], b)
      OBVIOUS
    <3>2. PICK t \in Task : t = m_Tasks[k]
      BY InvParts
    <3>3. ~t.free /\ Sound(t, m_fCurrentTime, Busy(pc, iter, k), Walked(pc, iter, k)) /\ TypeOK
      BY <1>4, <2>1, <3>2, InvParts
    <3>4. /\ u \in Task /\ u.func = t.func /\ u.tok = t.tok /\ ~u.free
          /\ Sound(u, m_fCurrentTime, Busy(pc, iter, k), Walked(pc, iter, k))
      BY <3>1, <3>2, <3>3, ChangedTask
    <3>5. QED
      BY <1>5, <2>1, <3>1, <3>2, <3>3, <3>4
  <2>2. CASE k \notin S
    BY <1>5, <2>2, InvParts
  <2>3. QED
    BY <2>1, <2>2
<1>7. U \in [DOMAIN m_Tasks -> Task]
  BY <1>3, <1>6, InvParts
<1>8. U \in Seq(Task) /\ Len(U) = Len(m_Tasks)
  BY <1>7, InvParts, MapTasks
<1>9. Acts(U) = Acts(m_Tasks)
  BY <1>6, <1>8 DEF Acts
<1>10. Table(fm, U, Acts(U), running)
  <2>1. \A k \in Acts(m_Tasks) : U[k].func = m_Tasks[k].func /\ U[k].tok = m_Tasks[k].tok
    BY <1>6 DEF Acts
  <2>2. Table(fm, U, Acts(m_Tasks), running)
    BY <2>1, InvParts, TableSame
  <2>3. QED
    BY <1>9, <2>2
<1>11. TypeOK'
  BY <1>2, <1>3, <1>8, InvParts DEF TypeOK
<1>12. Control'
  BY <1>2, <1>3, <1>8, InvParts DEF Control
<1>13. Tasked(U, m_fCurrentTime, pc, iter)
  BY <1>6, <1>8 DEF Tasked
<1>14. QED
  BY <1>2, <1>3, <1>10, <1>11, <1>12, <1>13 DEF IInv, Acts, Tasked, Busy, Walked

LEMMA StartFrameStep ==
  ASSUME IInv, NEW time \in 1..MaxTime, startFrame(time) PROVE IInv'
<1>1. PICK U : U = m_Tasks'
  OBVIOUS
<1>2. /\ pc = "idle" /\ m_fCurrentTime < time /\ m_fCurrentTime' = time /\ pc' = "scan" /\ iter' = 1
      /\ U = [k \in DOMAIN m_Tasks |-> [m_Tasks[k] EXCEPT !.served = FALSE]]
      /\ UNCHANGED <<fm, running>> /\ time \in Nat
  BY <1>1, TimeAssumption DEF startFrame
<1>3. \A k \in 1..Len(m_Tasks) : U[k] = [m_Tasks[k] EXCEPT !.served = FALSE]
  BY <1>2, InvParts
<1>4. ASSUME NEW k \in 1..Len(m_Tasks)
      PROVE  /\ U[k] \in Task /\ U[k].func = m_Tasks[k].func /\ U[k].tok = m_Tasks[k].tok
             /\ (U[k].free <=> m_Tasks[k].free)
             /\ Sound(U[k], time, Busy("scan", 1, k), Walked("scan", 1, k))
  <2>1. PICK u : u = U[k]
    OBVIOUS
  <2>2. PICK t \in Task : t = m_Tasks[k]
    BY InvParts
  <2>3. Busy(pc, iter, k) = FALSE /\ Busy("scan", 1, k) = FALSE /\ Walked("scan", 1, k) = FALSE
    BY <1>2 DEF Busy, Walked
  <2>4. Sound(t, m_fCurrentTime, FALSE, Walked(pc, iter, k)) /\ TypeOK
    BY <2>2, <2>3, InvParts
  <2>5. u = [t EXCEPT !.served = FALSE]
    BY <1>3, <2>1, <2>2
  <2>6. /\ u \in Task /\ u.func = t.func /\ u.tok = t.tok /\ u.free = t.free
        /\ Sound(u, time, FALSE, FALSE)
    BY <1>2, <2>4, <2>5, FrameTask
  <2>7. QED
    BY <2>1, <2>2, <2>3, <2>6
<1>5. U \in [DOMAIN m_Tasks -> Task]
  BY <1>2, <1>4, InvParts
<1>6. U \in Seq(Task) /\ Len(U) = Len(m_Tasks)
  BY <1>5, InvParts, MapTasks
<1>7. Acts(U) = Acts(m_Tasks)
  BY <1>4, <1>6 DEF Acts
<1>8. Table(fm, U, Acts(U), running)
  <2>1. \A k \in Acts(m_Tasks) : U[k].func = m_Tasks[k].func /\ U[k].tok = m_Tasks[k].tok
    BY <1>4 DEF Acts
  <2>2. Table(fm, U, Acts(m_Tasks), running)
    BY <2>1, InvParts, TableSame
  <2>3. QED
    BY <1>7, <2>2
<1>9. TypeOK'
  BY <1>1, <1>2, <1>6, InvParts DEF TypeOK
<1>10. Control'
  BY <1>1, <1>2, <1>6, InvParts DEF Control
<1>11. Tasked(U, time, "scan", 1)
  BY <1>4, <1>6 DEF Tasked
<1>12. QED
  BY <1>1, <1>2, <1>8, <1>9, <1>10, <1>11 DEF IInv, Acts, Tasked, Busy, Walked

\* startFrame goes on (to p, i) with the task it is at changed into v.
LEMMA WalkPut ==
  ASSUME IInv, pc # "idle", iter \in 1..Len(m_Tasks), NEW v \in Task,
         NEW U, U = [m_Tasks EXCEPT ![iter] = v], NEW p, NEW i,
         \/ p = "scan" /\ i = iter + 1
         \/ p \in {"call", "return"} /\ i = iter,
         Sound(v, m_fCurrentTime, p # "scan", p = "scan")
  PROVE  /\ Tasked(U, m_fCurrentTime, p, i) /\ Puts(m_Tasks, U, iter, v)
         /\ U \in Seq(Task) /\ Len(U) = Len(m_Tasks)
<1>1. Puts(m_Tasks, U, iter, v) /\ Len(U) = Len(m_Tasks) /\ U \in Seq(Task)
  BY InvParts, PutAt DEF Puts
<1>2. iter \in Nat /\ pc # "idle"
  BY InvParts
<1>3. (Busy(p, i, iter) <=> p # "scan") /\ (Walked(p, i, iter) <=> p = "scan")
  BY <1>2 DEF Busy, Walked
<1>4. Sound(v, m_fCurrentTime, Busy(p, i, iter), Walked(p, i, iter))
  BY <1>3 DEF Sound, Early, Counted, Served
<1>5. ASSUME NEW k \in 1..Len(m_Tasks), k # iter
      PROVE  Sound(U[k], m_fCurrentTime, Busy(p, i, k), Walked(p, i, k))
  <2>1. U[k] = m_Tasks[k]
    BY <1>1, <1>5 DEF Puts
  <2>2. Sound(U[k], m_fCurrentTime, Busy(pc, iter, k), Walked(pc, iter, k))
    BY <2>1, InvParts
  <2>3. ~Busy(pc, iter, k) /\ ~Busy(p, i, k) /\ (Walked(p, i, k) <=> Walked(pc, iter, k))
    BY <1>2, <1>5 DEF Busy, Walked
  <2>4. QED
    BY <2>2, <2>3 DEF Sound, Early, Counted, Served
<1>6. Tasked(U, m_fCurrentTime, p, i)
  <2>1. U[iter] = v
    BY <1>1 DEF Puts
  <2>2. QED
    BY <1>1, <1>4, <1>5, <2>1 DEF Tasked
<1>7. QED
  BY <1>1, <1>6

LEMMA SkipStep ==
  ASSUME IInv, SkipTask PROVE IInv'
<1>1. /\ pc = "scan" /\ iter \in 1..Len(m_Tasks) /\ iter' = iter + 1 /\ iter \in Nat
      /\ m_Tasks[iter].free \/ ~due(m_Tasks[iter])
      /\ UNCHANGED <<fm, m_Tasks, m_fCurrentTime, pc, running>>
  BY InvParts DEF SkipTask, Control
<1>2. ASSUME NEW k \in 1..Len(m_Tasks)
      PROVE  Sound(m_Tasks[k], m_fCurrentTime, Busy(pc, iter + 1, k), Walked(pc, iter + 1, k))
  <2>1. ~Busy(pc, iter, k) /\ ~Busy(pc, iter + 1, k)
    BY <1>1 DEF Busy
  <2>2. Sound(m_Tasks[k], m_fCurrentTime, FALSE, Walked(pc, iter, k))
    BY <2>1, InvParts DEF Busy
  <2>3. CASE k = iter
    <3>1. Sound(m_Tasks[k], m_fCurrentTime, FALSE, Walked(pc, iter + 1, k))
      BY <1>1, <2>2, <2>3, InvParts, SkippedTask
    <3>2. QED
      BY <2>1, <3>1 DEF Busy
  <2>4. CASE k # iter
    <3>1. Walked(pc, iter + 1, k) <=> Walked(pc, iter, k)
      BY <1>1, <2>4 DEF Walked
    <3>2. QED
      BY <2>1, <2>2, <3>1 DEF Sound, Early, Counted, Served
  <2>5. QED
    BY <2>3, <2>4
<1>3. Tasked(m_Tasks, m_fCurrentTime, pc, iter + 1)
  BY <1>2 DEF Tasked
<1>4. TypeOK' /\ Control'
  BY <1>1, InvParts DEF TypeOK, Control
<1>5. QED
  BY <1>1, <1>3, <1>4, InvParts DEF IInv, Acts, Tasked, Busy, Walked

\* The first half of executeIfRequired, with the callback or without it.
LEMMA CallStep ==
  ASSUME IInv, NEW t, t = m_Tasks[iter], CallTask(t), NEW p \in {"call", "return"}
  PROVE  /\ iter \in 1..Len(m_Tasks) /\ iter \in Acts(m_Tasks)
         /\ Tasked(m_Tasks', m_fCurrentTime, p, iter)
         /\ m_Tasks' \in Seq(Task) /\ Len(m_Tasks') = Len(m_Tasks)
         /\ Acts(m_Tasks') = Acts(m_Tasks)
         /\ \A k \in Acts(m_Tasks) : m_Tasks'[k].func = m_Tasks[k].func
                                     /\ m_Tasks'[k].tok = m_Tasks[k].tok
<1>1. PICK U : U = m_Tasks'
  OBVIOUS
<1>2. PICK v : v = called(t)
  OBVIOUS
<1>3. /\ pc = "scan" /\ iter \in 1..Len(m_Tasks) /\ ~t.free /\ due(t) /\ ~Exhausted(t)
      /\ U = [m_Tasks EXCEPT ![iter] = v]
  BY <1>1, <1>2, InvParts DEF CallTask, Control, called
<1>4. t \in Task /\ Sound(t, m_fCurrentTime, FALSE, Walked(pc, iter, iter)) /\ TypeOK
  <2>1. Busy(pc, iter, iter) = FALSE
    BY <1>3 DEF Busy
  <2>2. QED
    BY <1>3, <2>1, InvParts
<1>5. /\ v \in Task /\ v.func = t.func /\ v.tok = t.tok /\ ~v.free
      /\ Sound(v, m_fCurrentTime, TRUE, FALSE)
  BY <1>2, <1>3, <1>4, CalledTask
<1>6. Sound(v, m_fCurrentTime, p # "scan", p = "scan")
  BY <1>5 DEF Sound, Early, Counted, Served
<1>7. /\ Tasked(U, m_fCurrentTime, p, iter) /\ Puts(m_Tasks, U, iter, v)
      /\ U \in Seq(Task) /\ Len(U) = Len(m_Tasks)
  BY <1>3, <1>5, <1>6, WalkPut
<1>8. iter \in Acts(m_Tasks)
  <2>1. ~m_Tasks[iter].free
    BY <1>3, Zenon
  <2>2. QED
    BY <1>3, <2>1, Zenon DEF Acts
<1>9. Acts(U) = Acts(m_Tasks)
  <2>1. ~v.free /\ Puts(m_Tasks, U, iter, v)
    BY <1>5, <1>7, Zenon
  <2>2. Acts(U) = Acts(m_Tasks) \union {iter}
    BY <2>1, PutActs, Zenon
  <2>3. QED
    BY <1>8, <2>2, Zenon
<1>10. U[iter] = v /\ \A k \in Acts(m_Tasks) : k # iter => U[k] = m_Tasks[k]
  BY <1>7 DEF Puts, Acts
<1>11. QED
  BY <1>1, <1>3, <1>5, <1>7, <1>8, <1>9, <1>10

LEMMA BeginStep ==
  ASSUME IInv, BeginCallback PROVE IInv'
<1>1. /\ CallTask(m_Tasks[iter]) /\ fm' = beginExec(fm, m_Tasks[iter].func)
      /\ running' = m_Tasks[iter].func /\ pc' = "call" /\ UNCHANGED <<m_fCurrentTime, iter>>
      /\ pc = "scan"
  BY DEF BeginCallback, CallTask
<1>2. /\ iter \in 1..Len(m_Tasks) /\ iter \in Acts(m_Tasks)
      /\ Tasked(m_Tasks', m_fCurrentTime, "call", iter)
      /\ m_Tasks' \in Seq(Task) /\ Len(m_Tasks') = Len(m_Tasks)
      /\ Acts(m_Tasks') = Acts(m_Tasks)
      /\ \A k \in Acts(m_Tasks) : m_Tasks'[k].func = m_Tasks[k].func
                                  /\ m_Tasks'[k].tok = m_Tasks[k].tok
  BY <1>1, CallStep
<1>3. Table(fm, m_Tasks, Acts(m_Tasks), 0)
  <2>1. running = 0
    BY <1>1, InvParts DEF Control
  <2>2. QED
    BY <2>1, InvParts
<1>4. PICK n : n = m_Tasks[iter].func
  OBVIOUS
<1>5. Table(fm', m_Tasks, Acts(m_Tasks), n) /\ n \in Nat \ {0}
  BY <1>1, <1>2, <1>3, <1>4, TableBegin
<1>6. Table(fm', m_Tasks', Acts(m_Tasks'), n)
  BY <1>2, <1>5, TableSame
<1>7. TypeOK' /\ Control'
  BY <1>1, <1>2, <1>4, <1>5, InvParts DEF TypeOK, Control, Table
<1>8. QED
  BY <1>1, <1>2, <1>4, <1>6, <1>7 DEF IInv, Acts, Tasked, Busy, Walked

LEMMA RefuseStep ==
  ASSUME IInv, RefuseCallback PROVE IInv'
<1>1. /\ CallTask(m_Tasks[iter]) /\ fm' = afterExec(fm, m_Tasks[iter].func)
      /\ pc' = "return" /\ UNCHANGED <<m_fCurrentTime, iter, running>> /\ pc = "scan"
  BY DEF RefuseCallback, CallTask
<1>2. /\ iter \in 1..Len(m_Tasks) /\ iter \in Acts(m_Tasks)
      /\ Tasked(m_Tasks', m_fCurrentTime, "return", iter)
      /\ m_Tasks' \in Seq(Task) /\ Len(m_Tasks') = Len(m_Tasks)
      /\ Acts(m_Tasks') = Acts(m_Tasks)
      /\ \A k \in Acts(m_Tasks) : m_Tasks'[k].func = m_Tasks[k].func
                                  /\ m_Tasks'[k].tok = m_Tasks[k].tok
  BY <1>1, CallStep
<1>3. fm' = fm
  <2>1. ~fm.sp[m_Tasks[iter].func].toDelete
    BY <1>2, InvParts DEF Table, Own, runnable
  <2>2. QED
    BY <1>1, <2>1 DEF afterExec
<1>4. Table(fm', m_Tasks', Acts(m_Tasks'), running)
  BY <1>2, <1>3, InvParts, TableSame
<1>5. TypeOK' /\ Control'
  BY <1>1, <1>2, <1>3, InvParts DEF TypeOK, Control
<1>6. QED
  BY <1>1, <1>2, <1>4, <1>5 DEF IInv, Acts, Tasked, Busy, Walked

LEMMA EndCallbackStep ==
  ASSUME IInv, EndCallback PROVE IInv'
<1>1. /\ pc = "call" /\ fm' = endExec(fm, running) /\ running' = 0 /\ pc' = "return"
      /\ UNCHANGED <<m_Tasks, m_fCurrentTime, iter>>
  BY DEF EndCallback
<1>2. running # 0 /\ iter \in 1..Len(m_Tasks)
  BY <1>1, InvParts DEF Control
<1>3. Table(fm', m_Tasks, Acts(m_Tasks), 0)
  BY <1>1, <1>2, InvParts, TableEnd
<1>4. Tasked(m_Tasks, m_fCurrentTime, "return", iter)
  <2>1. \A k : (Busy("return", iter, k) <=> Busy(pc, iter, k))
               /\ (Walked("return", iter, k) <=> Walked(pc, iter, k))
    BY <1>1 DEF Busy, Walked
  <2>2. QED
    BY <2>1, InvParts DEF Tasked, Sound, Early, Counted, Served
<1>5. TypeOK' /\ Control'
  BY <1>1, <1>2, <1>3, InvParts DEF TypeOK, Control, Table
<1>6. QED
  BY <1>1, <1>3, <1>4, <1>5 DEF IInv, Acts, Tasked, Busy, Walked

\* The second half of executeIfRequired: the task is s, its forward is in the table fm.
LEMMA FinishStep ==
  ASSUME IInv, pc \in {"scan", "return"}, iter \in 1..Len(m_Tasks), iter' = iter + 1, pc' = "scan",
         UNCHANGED <<m_fCurrentTime, running>>, pc = "return" => running = 0,
         NEW s \in Task, s.func = m_Tasks[iter].func, s.tok = m_Tasks[iter].tok,
         s.free <=> m_Tasks[iter].free, s.free => s.func = 0, ~s.inExecute, finishTask(s),
         ~s.free /\ ~ends(s) =>
           rescheduled(s) \in Task /\ rescheduled(s).func = s.func /\ rescheduled(s).tok = s.tok
           /\ ~rescheduled(s).free /\ Sound(rescheduled(s), m_fCurrentTime, FALSE, TRUE)
  PROVE  IInv'
<1>1. PICK U : U = m_Tasks'
  OBVIOUS
<1>2. iter \in Nat /\ pc # "idle" /\ iter + 1 # 0
  BY InvParts
<1>3. ASSUME NEW v \in Task, U = [m_Tasks EXCEPT ![iter] = v],
             Sound(v, m_fCurrentTime, FALSE, TRUE), Table(fm', U, Acts(U), running)
      PROVE  IInv'
  <2>1. Sound(v, m_fCurrentTime, "scan" # "scan", "scan" = "scan")
    BY <1>3 DEF Sound, Early, Counted, Served
  <2>2. Tasked(U, m_fCurrentTime, "scan", iter + 1) /\ U \in Seq(Task)
    BY <1>2, <1>3, <2>1, WalkPut
  <2>3. TypeOK'
    BY <1>1, <1>2, <1>3, <2>2, InvParts DEF TypeOK, Table
  <2>4. Control'
    BY <1>2, InvParts DEF Control
  <2>5. QED
    BY <1>1, <1>3, <2>2, <2>3, <2>4 DEF IInv, Acts, Tasked, Busy, Walked
<1>4. CASE s.free
  <2>1. U = [m_Tasks EXCEPT ![iter] = s] /\ fm' = fm
    BY <1>1, <1>4 DEF finishTask
  <2>2. Sound(s, m_fCurrentTime, FALSE, TRUE)
    BY <1>4 DEF Sound
  <2>3. Puts(m_Tasks, U, iter, s)
    BY <2>1, InvParts, PutAt
  <2>4. Acts(U) = Acts(m_Tasks)
    <3>1. iter \notin Acts(m_Tasks) /\ Acts(U) = Acts(m_Tasks) \ {iter}
      BY <1>4, <2>3, PutActs DEF Acts
    <3>2. QED
      BY <3>1
  <2>5. \A k \in Acts(m_Tasks) : U[k].func = m_Tasks[k].func /\ U[k].tok = m_Tasks[k].tok
    BY <2>3, <2>4 DEF Puts, Acts
  <2>6. Table(fm', U, Acts(U), running)
    BY <2>1, <2>4, <2>5, InvParts, TableSame
  <2>7. QED
    BY <1>3, <2>1, <2>2, <2>6
<1>5. CASE ~s.free /\ ends(s)
  <2>1. fm' = clearForward(fm, s) /\ U = [m_Tasks EXCEPT ![iter] = cleared(s)]
    BY <1>1, <1>5 DEF finishTask
  <2>2. /\ cleared(s) \in Task /\ cleared(s).free
        /\ Sound(cleared(s), m_fCurrentTime, FALSE, TRUE)
    BY ClearedTask, ClearedSound
  <2>3. PICK v \in Task : v = cleared(s)
    BY <2>2
  <2>4. Puts(m_Tasks, U, iter, v)
    BY <2>1, <2>3, InvParts, PutAt
  <2>5. Acts(U) = Acts(m_Tasks) \ {iter}
    BY <2>2, <2>3, <2>4, PutActs
  <2>6. clearForward(fm, s) = clearForward(fm, m_Tasks[iter])
    BY DEF clearForward
  <2>7. Table(fm', m_Tasks, Acts(m_Tasks) \ {iter}, running)
    <3>1. iter \in Acts(m_Tasks)
      BY <1>5 DEF Acts
    <3>2. PICK g : g = clearForward(fm, m_Tasks[iter])
      OBVIOUS
    <3>3. Table(g, m_Tasks, Acts(m_Tasks) \ {iter}, running)
      BY <3>1, <3>2, InvParts, TableRelease
    <3>4. QED
      BY <2>1, <2>6, <3>2, <3>3
  <2>8. \A k \in Acts(m_Tasks) \ {iter} : U[k] = m_Tasks[k]
    BY <2>4 DEF Puts, Acts
  <2>9. Table(fm', U, Acts(m_Tasks) \ {iter}, running)
    BY <2>7, <2>8, TableSame
  <2>10. QED
    BY <1>3, <2>1, <2>2, <2>3, <2>5, <2>9
<1>6. CASE ~s.free /\ ~ends(s)
  <2>1. fm' = fm /\ U = [m_Tasks EXCEPT ![iter] = rescheduled(s)]
    BY <1>1, <1>6 DEF finishTask
  <2>2. PICK v \in Task : v = rescheduled(s)
    BY <1>6
  <2>3. /\ v.func = m_Tasks[iter].func /\ v.tok = m_Tasks[iter].tok /\ ~v.free
        /\ Sound(v, m_fCurrentTime, FALSE, TRUE)
    BY <1>6, <2>2
  <2>4. Puts(m_Tasks, U, iter, v)
    BY <2>1, <2>2, InvParts, PutAt
  <2>5. Acts(U) = Acts(m_Tasks)
    <3>1. iter \in Acts(m_Tasks) /\ Acts(U) = Acts(m_Tasks) \union {iter}
      BY <1>6, <2>3, <2>4, PutActs DEF Acts
    <3>2. QED
      BY <3>1
  <2>6. \A k \in Acts(m_Tasks) : U[k].func = m_Tasks[k].func /\ U[k].tok = m_Tasks[k].tok
    BY <2>3, <2>4, <2>5 DEF Puts, Acts
  <2>7. Table(fm', U, Acts(U), running)
    BY <2>1, <2>5, <2>6, InvParts, TableSame
  <2>8. QED
    BY <1>3, <2>1, <2>2, <2>3, <2>7
<1>7. QED
  BY <1>4, <1>5, <1>6

LEMMA AfterStep ==
  ASSUME IInv, AfterCall PROVE IInv'
<1>1. PICK s : s = [m_Tasks[iter] EXCEPT !.inExecute = FALSE]
  OBVIOUS
<1>2. /\ pc = "return" /\ finishTask(s) /\ pc' = "scan" /\ iter' = iter + 1
      /\ UNCHANGED <<m_fCurrentTime, running>>
  BY <1>1 DEF AfterCall
<1>3. iter \in 1..Len(m_Tasks) /\ running = 0
  BY <1>2, InvParts DEF Control
<1>4. PICK t \in Task : t = m_Tasks[iter]
  BY <1>3, InvParts
<1>5. Sound(t, m_fCurrentTime, TRUE, Walked(pc, iter, iter)) /\ TypeOK
  <2>1. Busy(pc, iter, iter) = TRUE
    BY <1>2 DEF Busy
  <2>2. QED
    BY <1>3, <1>4, <2>1, InvParts
<1>6. s = [t EXCEPT !.inExecute = FALSE]
  BY <1>1, <1>4
<1>7. s \in Task /\ s.func = t.func /\ s.tok = t.tok /\ s.free = t.free /\ ~s.inExecute
  BY <1>6 DEF Task
<1>8. s.free => s.func = 0
  BY <1>5, <1>7 DEF Sound
<1>9. ~s.free /\ ~ends(s) =>
        rescheduled(s) \in Task /\ rescheduled(s).func = s.func /\ rescheduled(s).tok = s.tok
        /\ ~rescheduled(s).free /\ Sound(rescheduled(s), m_fCurrentTime, FALSE, TRUE)
  <2>1. PICK u : u = rescheduled(s)
    OBVIOUS
  <2>2. ~s.free /\ ~ends(s) => /\ u \in Task /\ u.func = t.func /\ u.tok = t.tok /\ ~u.free
                               /\ Sound(u, m_fCurrentTime, FALSE, TRUE)
    BY <1>5, <1>6, <2>1, RescheduledTask
  <2>3. QED
    BY <1>7, <2>1, <2>2
<1>10. (s.free <=> t.free) /\ t.func = s.func /\ t.tok = s.tok
  BY <1>7
<1>11. QED
  BY <1>2, <1>3, <1>4, <1>7, <1>8, <1>9, <1>10, FinishStep

LEMMA SkipCallStep ==
  ASSUME IInv, SkipCall PROVE IInv'
<1>1. PICK t : t = m_Tasks[iter]
  OBVIOUS
<1>2. /\ pc = "scan" /\ finishTask(t) /\ pc' = "scan" /\ iter' = iter + 1
      /\ iter \in 1..Len(m_Tasks) /\ ~t.free /\ Exhausted(t)
      /\ UNCHANGED <<m_fCurrentTime, running>>
  BY <1>1, InvParts DEF SkipCall, Control
<1>3. t \in Task /\ ~t.inExecute
  <2>1. ~Busy(pc, iter, iter)
    BY <1>2 DEF Busy
  <2>2. QED
    BY <1>1, <1>2, <2>1, InvParts DEF Sound
<1>4. ends(t)
  BY <1>2 DEF Exhausted, ends
<1>5. QED
  BY <1>1, <1>2, <1>3, <1>4, FinishStep

LEMMA EndFrameStep ==
  ASSUME IInv, EndFrame PROVE IInv'
<1>1. /\ pc = "scan" /\ iter > Len(m_Tasks) /\ pc' = "idle" /\ iter' = 0
      /\ UNCHANGED <<fm, m_Tasks, m_fCurrentTime, running>>
  BY DEF EndFrame
<1>2. Tasked(m_Tasks, m_fCurrentTime, "idle", 0)
  <2>1. \A k \in 1..Len(m_Tasks) : /\ ~Busy("idle", 0, k) /\ ~Busy(pc, iter, k)
                                   /\ Walked("idle", 0, k) /\ Walked(pc, iter, k)
    BY <1>1, InvParts DEF Busy, Walked
  <2>2. QED
    BY <2>1, InvParts DEF Tasked, Sound, Early, Counted, Served
<1>3. TypeOK' /\ Control'
  BY <1>1, InvParts DEF TypeOK, Control
<1>4. QED
  BY <1>1, <1>2, <1>3, InvParts DEF IInv, Acts, Tasked, Busy, Walked

LEMMA ClearStepInv ==
  ASSUME IInv, clear PROVE IInv'
<1>1. /\ pc = "idle" /\ fm' = withoutForwards(DOMAIN m_Tasks) /\ m_Tasks' = <<>>
      /\ UNCHANGED <<m_fCurrentTime, pc, iter, running>>
  BY DEF clear
<1>2. PICK S : S = 1..Len(m_Tasks)
  OBVIOUS
<1>3. S = DOMAIN m_Tasks
  BY <1>2, InvParts
<1>4. \A k \in S \ Acts(m_Tasks) : m_Tasks[k].func = 0
  BY <1>2, InvParts DEF Acts, Sound
<1>5. Table(withoutForwards(S), m_Tasks, Acts(m_Tasks) \ S, running)
  BY <1>2, <1>4, InvParts, TableClear
<1>6. Acts(m_Tasks) \ S = {} /\ Acts(<<>>) = {} /\ Len(<<>>) = 0
  BY <1>2 DEF Acts
<1>7. Table(fm', m_Tasks', Acts(m_Tasks'), running)
  <2>1. Table(fm', m_Tasks, {}, running)
    BY <1>1, <1>3, <1>5, <1>6
  <2>2. Table(fm', m_Tasks', {}, running)
    BY <2>1, TableSame
  <2>3. QED
    BY <1>1, <1>6, <2>2
<1>8. TypeOK' /\ Control'
  BY <1>1, <1>7, EmptySeq, InvParts DEF TypeOK, Control, Table
<1>9. Tasked(m_Tasks', m_fCurrentTime, pc, iter)
  BY <1>1, <1>6 DEF Tasked
<1>10. QED
  BY <1>1, <1>7, <1>8, <1>9 DEF IInv, Acts, Tasked, Busy, Walked

LEMMA InvStep == IInv /\ [Next]_vars => IInv'
<1> SUFFICES ASSUME IInv, [Next]_vars PROVE IInv'
  OBVIOUS
<1>1. CASE UNCHANGED vars
  BY <1>1 DEF vars, IInv, TypeOK, Control, Tasked, Acts, Busy, Walked
<1>2. CASE Natives
  BY <1>2, SetTaskStep, MissingStep, RemoveStep, ChangeStep DEF Natives
<1>3. CASE \E time \in 1..MaxTime : startFrame(time)
  BY <1>3, StartFrameStep
<1>4. CASE SkipTask
  BY <1>4, SkipStep
<1>5. CASE BeginCallback
  BY <1>5, BeginStep
<1>6. CASE RefuseCallback
  BY <1>6, RefuseStep
<1>7. CASE EndCallback
  BY <1>7, EndCallbackStep
<1>8. CASE AfterCall
  BY <1>8, AfterStep
<1>9. CASE SkipCall
  BY <1>9, SkipCallStep
<1>10. CASE EndFrame
  BY <1>10, EndFrameStep
<1>11. CASE clear
  BY <1>11, ClearStepInv
<1>12. QED
  BY <1>1, <1>2, <1>3, <1>4, <1>5, <1>6, <1>7, <1>8, <1>9, <1>10, <1>11 DEF Next

LEMMA Invariant == Spec => []IInv
<1>1. QED
  BY InvInit, InvStep, PTL DEF Spec

-----------------------------------------------------------------------------
(* The theorems.                                                            *)

\* The tasks, the clock and the scheduler's position stay in their types, and
\* the table of forwards keeps its shape through every native and callback.
THEOREM TasksTyped == Spec => []TypeOK
<1>1. IInv => TypeOK
  BY DEF IInv
<1>2. QED
  BY <1>1, Invariant, PTL

LEMMA TableOwns ==
  ASSUME IInv
  PROVE  TaskOwnsForward
<1>1. /\ Table(fm, m_Tasks, Acts(m_Tasks), running) /\ DOMAIN m_Tasks = 1..Len(m_Tasks)
  BY InvParts
<1>2. Active = Acts(m_Tasks)
  BY <1>1 DEF Active, Acts
<1>3. ASSUME NEW k \in Active
      PROVE  /\ isIdValid(fm, m_Tasks[k].func)
             /\ fm.sp[m_Tasks[k].func].reg = m_Tasks[k].tok
             /\ runnable(fm, m_Tasks[k].func)
  <2>1. /\ m_Tasks[k].func \in 1..Len(fm.sp)
        /\ fm.sp[m_Tasks[k].func].reg = m_Tasks[k].tok /\ runnable(fm, m_Tasks[k].func)
    BY <1>1, <1>2, <1>3 DEF Table, Own
  <2>2. QED
    BY <2>1 DEF isIdValid, runnable
<1>4. ASSUME NEW s \in 1..Len(fm.sp)
      PROVE  \/ \E i \in 1..Len(fm.free) : fm.free[i] = s
             \/ \E k \in Active : m_Tasks[k].func = s
             \/ s = running /\ fm.sp[s].toDelete
  BY <1>1, <1>2 DEF Table, Covered, Elems
<1>5. QED
  BY <1>3, <1>4 DEF TaskOwnsForward

\* set_task, remove_task and executeIfRequired never share a forward between
\* two tasks, lose one, or leave a task with one that is free or another's,
\* whatever callbacks do to the list that startFrame walks.
THEOREM TasksOwnForwards == Spec => []TaskOwnsForward
<1>1. IInv => TaskOwnsForward
  BY TableOwns
<1>2. QED
  BY <1>1, Invariant, PTL

\* executeIfRequired calls a task no more often than its interval allows,
\* through catching up after late frames and changes by change_task.
THEOREM NeverEarlyHolds == Spec => []NeverEarly
<1>1. ASSUME IInv PROVE NeverEarly
  <2>1. SUFFICES ASSUME NEW k \in Active, m_Tasks[k].kind = "normal"
                 PROVE  m_Tasks[k].cnt * m_Tasks[k].base <= m_fCurrentTime - m_Tasks[k].since
    BY DEF NeverEarly
  <2>2. k \in 1..Len(m_Tasks) /\ ~m_Tasks[k].free
    BY <1>1, InvParts DEF Active
  <2>3. Sound(m_Tasks[k], m_fCurrentTime, Busy(pc, iter, k), Walked(pc, iter, k))
    BY <1>1, <2>2, InvParts
  <2>4. QED
    BY <2>1, <2>2, <2>3 DEF Sound, Early
<1>2. QED
  BY <1>1, Invariant, PTL

\* startFrame leaves no due task behind: one it has walked past was called,
\* set or changed in this frame, though callbacks add and remove tasks under it.
THEOREM FramesServeDue == Spec => []FrameServesDue
<1>1. ASSUME IInv PROVE FrameServesDue
  <2>1. SUFFICES ASSUME pc = "idle", NEW k \in Active, m_Tasks[k].kind = "normal",
                        m_Tasks[k].next <= m_fCurrentTime
                 PROVE  m_Tasks[k].served
    BY DEF FrameServesDue
  <2>2. k \in 1..Len(m_Tasks) /\ ~m_Tasks[k].free
    BY <1>1, InvParts DEF Active
  <2>3. Sound(m_Tasks[k], m_fCurrentTime, Busy(pc, iter, k), Walked(pc, iter, k))
    BY <1>1, <2>2, InvParts
  <2>4. Walked(pc, iter, k)
    BY <2>1 DEF Walked
  <2>5. QED
    BY <2>1, <2>2, <2>3, <2>4 DEF Sound, Served
<1>2. QED
  BY <1>1, Invariant, PTL

\* A task that leaves the list while startFrame handles it.
Retires(k) == pc \in {"scan", "return"} /\ ~m_Tasks[k].free /\ m_Tasks'[k].free

LEMMA RetireStep ==
  ASSUME IInv, Next, NEW k \in DOMAIN m_Tasks, Retires(k)
  PROVE  m_Tasks[k].runs = m_Tasks[k].want
<1>1. k \in 1..Len(m_Tasks) /\ m_Tasks \in Seq(Task) /\ pc # "idle" /\ pc # "call"
  BY InvParts DEF Retires
<1>2. PICK t \in Task : t = m_Tasks[k]
  BY <1>1, InvParts
<1>3. ~t.free /\ m_Tasks'[k].free /\ Sound(t, m_fCurrentTime, Busy(pc, iter, k), Walked(pc, iter, k))
  BY <1>1, <1>2, InvParts DEF Retires
<1>4. SkipTask \/ BeginCallback \/ RefuseCallback \/ AfterCall \/ SkipCall \/ EndFrame
  BY <1>1 DEF Next, Natives, PluginCode, set_task, set_task_missing, remove_task,
              change_task, startFrame, EndCallback, clear
<1>5. ~SkipTask /\ ~EndFrame
  BY <1>2, <1>3 DEF SkipTask, EndFrame
<1>6. ASSUME CallTask(m_Tasks[iter]) PROVE FALSE
  <2>1. PICK c : c = called(m_Tasks[iter])
    OBVIOUS
  <2>2. iter \in 1..Len(m_Tasks) /\ ~m_Tasks[iter].free /\ m_Tasks' = [m_Tasks EXCEPT ![iter] = c]
    BY <1>6, <2>1, InvParts DEF CallTask, Control, called
  <2>3. m_Tasks[iter] \in Task /\ c.free = m_Tasks[iter].free
    BY <2>1, <2>2, InvParts DEF called, Task
  <2>4. QED
    BY <1>1, <1>2, <1>3, <2>2, <2>3
<1>7. ~BeginCallback /\ ~RefuseCallback
  BY <1>6 DEF BeginCallback, RefuseCallback
<1>8. ASSUME NEW s \in Task, finishTask(s), iter \in 1..Len(m_Tasks),
             k = iter => s.free = t.free
      PROVE  k = iter /\ ends(s)
  <2>1. PICK u : /\ m_Tasks' = [m_Tasks EXCEPT ![iter] = u]
                 /\ s.free \/ ends(s) \/ u = rescheduled(s)
    BY <1>8 DEF finishTask
  <2>2. k = iter
    BY <1>1, <1>2, <1>3, <1>8, <2>1
  <2>3. u.free /\ ~s.free
    BY <1>1, <1>3, <1>8, <2>1, <2>2
  <2>4. rescheduled(s).free = s.free
    BY <1>8 DEF rescheduled, Task
  <2>5. QED
    BY <2>1, <2>2, <2>3, <2>4
<1>9. CASE AfterCall
  <2>1. PICK s : s = [m_Tasks[iter] EXCEPT !.inExecute = FALSE]
    OBVIOUS
  <2>2. pc = "return" /\ finishTask(s) /\ iter \in 1..Len(m_Tasks) /\ m_Tasks[iter] \in Task
    BY <1>9, <2>1, InvParts DEF AfterCall, Control
  <2>3. s \in Task /\ s.free = m_Tasks[iter].free
    BY <2>1, <2>2 DEF Task
  <2>4. k = iter /\ ends(s)
    BY <1>2, <1>8, <2>2, <2>3
  <2>5. s = [t EXCEPT !.inExecute = FALSE]
    BY <1>2, <2>1, <2>4
  <2>6. ends(t)
    BY <2>4, <2>5 DEF ends, Task
  <2>7. Busy(pc, iter, k) = TRUE
    BY <2>2, <2>4 DEF Busy
  <2>8. Sound(t, m_fCurrentTime, TRUE, Walked(pc, iter, k))
    BY <1>3, <2>7
  <2>9. QED
    BY <1>2, <1>3, <2>6, <2>8, EndedTask
<1>10. CASE SkipCall
  <2>1. PICK s : s = m_Tasks[iter]
    OBVIOUS
  <2>2. pc = "scan" /\ finishTask(s) /\ iter \in 1..Len(m_Tasks) /\ s \in Task /\ Exhausted(s)
    BY <1>10, <2>1, InvParts DEF SkipCall, Control
  <2>3. k = iter => s.free = t.free
    BY <1>2, <2>1
  <2>4. k = iter /\ ends(s)
    BY <1>8, <2>2, <2>3
  <2>5. s = t
    BY <1>2, <2>1, <2>4
  <2>6. QED
    BY <1>2, <1>3, <2>2, <2>4, <2>5, EndedTask
<1>11. QED
  BY <1>4, <1>5, <1>7, <1>9, <1>10

\* A task that executeIfRequired clears got every call set_task promised it:
\* one, or as many as its repeat count says; the m_bInExecute mark keeps
\* registerTask from putting a new task where the old one's call still runs.
THEOREM RetiredAllRuns == Spec => RetiredAfterAllRuns
<1>1. ASSUME IInv, [Next]_vars
      PROVE  [\A k \in DOMAIN m_Tasks :
                (pc \in {"scan", "return"} /\ ~m_Tasks[k].free /\ m_Tasks'[k].free)
                   => m_Tasks[k].runs = m_Tasks[k].want]_vars
  BY <1>1, RetireStep DEF Retires, vars
<1>2. QED
  BY <1>1, Invariant, PTL DEF Spec, RetiredAfterAllRuns
=============================================================================
