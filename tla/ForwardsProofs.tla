--------------------------- MODULE ForwardsProofs ---------------------------
(***************************************************************************)
(* For any set of clients, any number of slots and any depth of nesting the *)
(* forward manager gives an id to one client at a time and loses no slot.   *)
(***************************************************************************)
EXTENDS Forwards, SequenceTheorems, TLAPS

\* The ids on a stack of ids, and that none is there twice.
Elems(q) == {q[i] : i \in 1..Len(q)}
Distinct(q) == \A i, j \in 1..Len(q) : q[i] = q[j] => i = j

Slots == 1..Len(fm.sp)
Held(s) == \E c \in Clients : live[c] /\ id[c] = s
SlotsOf(frames) == {frames[i].slot : i \in 1..Len(frames)}
StackSlots == SlotsOf(stack)

\* A client's slot has what the client registered and is nobody else's.
HeldSound ==
  \A c \in Clients : live[c] =>
    /\ id[c] \in Slots
    /\ id[c] \notin Elems(fm.free)
    /\ fm.sp[id[c]].reg = c
    /\ fm.sp[id[c]].hasFunc /\ ~fm.sp[id[c]].isFree /\ ~fm.sp[id[c]].toDelete
    /\ \A d \in Clients : live[d] /\ id[d] = id[c] => d = c

\* A slot marked in execution is on the stack of executions; one marked for
\* deletion as well, and it is neither free nor on the free stack.
MarksSound ==
  \A s \in Slots :
    /\ fm.sp[s].inExec => s \in StackSlots
    /\ fm.sp[s].toDelete => /\ s \in StackSlots
                            /\ ~fm.sp[s].isFree
                            /\ s \notin Elems(fm.free)

\* Every slot is free, held, or waits for the end of its callback.
SlotsCovered ==
  \A s \in Slots : s \in Elems(fm.free) \/ Held(s) \/ fm.sp[s].toDelete

TableInv == /\ Distinct(fm.free)
            /\ Elems(fm.free) \subseteq Slots
            /\ StackSlots \subseteq Slots \union {0}

\* The slot of a callback that runs and was not entered again is marked, is
\* not free and has the callback's registration; no execution above uses it.
RunningSound ==
  \A i \in 1..Len(stack) : (stack[i].slot # 0 /\ ~stack[i].again) =>
    /\ stack[i].slot \in Slots
    /\ stack[i].slot \notin Elems(fm.free)
    /\ fm.sp[stack[i].slot].reg = stack[i].client
    /\ fm.sp[stack[i].slot].inExec /\ ~fm.sp[stack[i].slot].isFree
    /\ \A j \in i+1..Len(stack) : stack[j].slot # stack[i].slot

IInv == TypeOK /\ TableInv /\ HeldSound /\ MarksSound /\ SlotsCovered /\ RunningSound

-----------------------------------------------------------------------------
(* The free stack.                                                          *)

\* Popping the free stack removes its top id and no other.
LEMMA PopStack ==
  ASSUME NEW q \in Seq(Nat), q # <<>>, Distinct(q)
  PROVE  /\ Tail(q) \in Seq(Nat)
         /\ Head(q) \in Elems(q)
         /\ Elems(Tail(q)) = Elems(q) \ {Head(q)}
         /\ Distinct(Tail(q))
<1>1. /\ Tail(q) \in Seq(Nat) /\ Len(q) \in Nat \ {0} /\ Head(q) = q[1]
      /\ Len(Tail(q)) = Len(q) - 1
      /\ \A i \in 1..Len(q) - 1 : Tail(q)[i] = q[i + 1]
  BY HeadTailProperties, EmptySeq
<1>2. Head(q) \in Elems(q)
  BY <1>1 DEF Elems
<1>3. ASSUME NEW x \in Elems(Tail(q)) PROVE x \in Elems(q) \ {Head(q)}
  <2>1. PICK i \in 1..Len(q) - 1 : x = q[i + 1]
    BY <1>1, <1>3 DEF Elems
  <2>2. i + 1 \in 1..Len(q) /\ 1 \in 1..Len(q) /\ i + 1 # 1
    BY <1>1
  <2>3. QED
    BY <1>1, <2>1, <2>2 DEF Elems, Distinct
<1>4. ASSUME NEW x \in Elems(q) \ {Head(q)} PROVE x \in Elems(Tail(q))
  <2>1. PICK i \in 1..Len(q) : x = q[i]
    BY DEF Elems
  <2>2. i - 1 \in 1..Len(q) - 1 /\ Tail(q)[i - 1] = q[i]
    BY <1>1, <2>1, <1>4
  <2>3. QED
    BY <1>1, <2>1, <2>2 DEF Elems
<1>5. Distinct(Tail(q))
  <2>1. SUFFICES ASSUME NEW i \in 1..Len(q) - 1, NEW j \in 1..Len(q) - 1, q[i + 1] = q[j + 1]
                 PROVE  i = j
    BY <1>1 DEF Distinct
  <2>2. i + 1 \in 1..Len(q) /\ j + 1 \in 1..Len(q)
    BY <1>1
  <2>3. i + 1 = j + 1
    BY <2>1, <2>2 DEF Distinct
  <2>4. QED
    BY <2>3
<1>6. QED
  BY <1>1, <1>2, <1>3, <1>4, <1>5

\* Pushing an id that is not there adds it.
LEMMA PushStack ==
  ASSUME NEW q \in Seq(Nat), NEW s \in Nat, s \notin Elems(q), Distinct(q)
  PROVE  /\ <<s>> \o q \in Seq(Nat)
         /\ Elems(<<s>> \o q) = Elems(q) \union {s}
         /\ Distinct(<<s>> \o q)
<1> DEFINE p == <<s>> \o q
<1>1. /\ p \in Seq(Nat) /\ Len(q) \in Nat /\ Len(p) = Len(q) + 1 /\ p[1] = s
      /\ \A i \in 1..Len(q) : p[i + 1] = q[i]
  OBVIOUS
<1>2. \A i \in 1..Len(p) : i = 1 \/ (i - 1 \in 1..Len(q) /\ p[i] = q[i - 1])
  <2> TAKE i \in 1..Len(p)
  <2>1. i # 1 => i - 1 \in 1..Len(q) /\ (i - 1) + 1 = i
    BY <1>1
  <2>2. QED
    BY <1>1, <2>1
<1> HIDE DEF p
<1>3. Elems(p) = Elems(q) \union {s}
  <2>1. 1 \in 1..Len(p) /\ \A i \in 1..Len(q) : i + 1 \in 1..Len(p)
    BY <1>1
  <2>2. ASSUME NEW x \in Elems(p) PROVE x \in Elems(q) \union {s}
    <3>1. PICK i \in 1..Len(p) : x = p[i]
      BY <2>2 DEF Elems
    <3>2. QED
      BY <1>1, <1>2, <3>1 DEF Elems
  <2>3. ASSUME NEW x \in Elems(q) PROVE x \in Elems(p)
    <3>1. PICK i \in 1..Len(q) : x = q[i]
      BY <2>3 DEF Elems
    <3>2. i + 1 \in 1..Len(p) /\ x = p[i + 1]
      BY <1>1, <2>1, <3>1
    <3>3. QED
      BY <3>2 DEF Elems
  <2>4. s \in Elems(p)
    BY <1>1, <2>1 DEF Elems
  <2>5. QED
    BY <2>2, <2>3, <2>4
<1>4. Distinct(p)
  <2>1. SUFFICES ASSUME NEW i \in 1..Len(p), NEW j \in 1..Len(p), p[i] = p[j] PROVE i = j
    BY DEF Distinct
  <2>2. CASE i = 1 \/ j = 1
    BY <1>1, <1>2, <2>1, <2>2 DEF Elems
  <2>3. CASE i # 1 /\ j # 1
    <3>1. i - 1 \in 1..Len(q) /\ j - 1 \in 1..Len(q) /\ q[i - 1] = q[j - 1]
      BY <1>2, <2>1, <2>3
    <3>2. i - 1 = j - 1
      BY <3>1 DEF Distinct
    <3>3. QED
      BY <3>2
  <2>4. QED
    BY <2>2, <2>3
<1>5. QED
  BY <1>1, <1>3, <1>4 DEF p

-----------------------------------------------------------------------------
(* The operators of the table.                                              *)

\* One slot is overwritten; the others stay.
LEMMA WriteSlot ==
  ASSUME NEW Regs, NEW sp \in Seq(Slot(Regs)), NEW s \in 1..Len(sp), NEW v \in Slot(Regs),
         NEW sp2, sp2 = [sp EXCEPT ![s] = v]
  PROVE  /\ sp2 \in Seq(Slot(Regs))
         /\ Len(sp2) = Len(sp)
         /\ sp2[s] = v
         /\ \A t \in 1..Len(sp) : t # s => sp2[t] = sp[t]
  BY ExceptSeq

\* A registration that succeeds stores v in slot n and makes the table f the table g.
Takes(f, v, g, n) ==
  \/ /\ f.free # <<>>
     /\ n = Head(f.free)
     /\ g = [sp |-> [f.sp EXCEPT ![n] = v], free |-> Tail(f.free)]
  \/ /\ f.free = <<>>
     /\ n = Len(f.sp) + 1
     /\ g = [sp |-> Append(f.sp, v), free |-> <<>>]

\* The slot it hands out was free or did not exist, and no other slot changes.
LEMMA TakeSlot ==
  ASSUME NEW Regs, NEW f \in FMType(Regs), NEW v \in Slot(Regs), NEW g, NEW n,
         Distinct(f.free), Elems(f.free) \subseteq 1..Len(f.sp),
         Takes(f, v, g, n)
  PROVE  /\ g \in FMType(Regs)
         /\ n \in 1..Len(g.sp)
         /\ 1..Len(f.sp) \subseteq 1..Len(g.sp)
         /\ g.sp[n] = v
         /\ \A s \in 1..Len(g.sp) : s # n => s \in 1..Len(f.sp) /\ g.sp[s] = f.sp[s]
         /\ n \in Elems(f.free) \/ n \notin 1..Len(f.sp)
         /\ Distinct(g.free)
         /\ Elems(g.free) = Elems(f.free) \ {n}
<1>1. f.sp \in Seq(Slot(Regs)) /\ f.free \in Seq(Nat) /\ Len(f.sp) \in Nat
  BY DEF FMType
<1>2. CASE f.free # <<>>
  <2>1. /\ Tail(f.free) \in Seq(Nat) /\ Head(f.free) \in Elems(f.free)
        /\ Elems(Tail(f.free)) = Elems(f.free) \ {Head(f.free)}
        /\ Distinct(Tail(f.free))
    BY <1>1, <1>2, PopStack
  <2>2. n = Head(f.free) /\ g = [sp |-> [f.sp EXCEPT ![n] = v], free |-> Tail(f.free)]
    BY <1>2 DEF Takes
  <2>3. n \in 1..Len(f.sp)
    BY <2>1, <2>2
  <2>4. g.sp = [f.sp EXCEPT ![n] = v] /\ g.free = Tail(f.free)
    BY <2>2
  <2>5. /\ g.sp \in Seq(Slot(Regs)) /\ Len(g.sp) = Len(f.sp) /\ g.sp[n] = v
        /\ \A t \in 1..Len(f.sp) : t # n => g.sp[t] = f.sp[t]
    BY <1>1, <2>3, <2>4, WriteSlot
  <2>6. g \in FMType(Regs)
    BY <2>1, <2>2, <2>4, <2>5 DEF FMType
  <2>7. QED
    BY <2>1, <2>2, <2>3, <2>4, <2>5, <2>6
<1>3. CASE f.free = <<>>
  <2>1. n = Len(f.sp) + 1 /\ g = [sp |-> Append(f.sp, v), free |-> <<>>]
    BY <1>3 DEF Takes
  <2>2. /\ Append(f.sp, v) \in Seq(Slot(Regs))
        /\ Len(Append(f.sp, v)) = Len(f.sp) + 1
        /\ Append(f.sp, v)[Len(f.sp) + 1] = v
        /\ \A t \in 1..Len(f.sp) : Append(f.sp, v)[t] = f.sp[t]
    BY <1>1, AppendProperties
  <2>3. g.sp = Append(f.sp, v) /\ g.free = <<>>
    BY <2>1
  <2>4. g \in FMType(Regs)
    BY <2>1, <2>2, EmptySeq DEF FMType
  <2>5. Elems(<<>>) = {} /\ Distinct(<<>>)
    BY DEF Elems, Distinct
  <2>6. n \in 1..Len(g.sp) /\ n \notin 1..Len(f.sp) /\ 1..Len(f.sp) \subseteq 1..Len(g.sp)
    BY <1>1, <2>1, <2>2, <2>3
  <2>7. \A s \in 1..Len(g.sp) : s # n => s \in 1..Len(f.sp)
    BY <1>1, <2>1, <2>2, <2>3
  <2>8. QED
    BY <1>3, <2>1, <2>2, <2>3, <2>4, <2>5, <2>6, <2>7
<1>4. QED
  BY <1>2, <1>3

\* A slot whose callback does not run is freed: q is the free stack with it.
LEMMA FreeSlot ==
  ASSUME NEW Regs, NEW f \in FMType(Regs), NEW s \in 1..Len(f.sp), NEW v \in Slot(Regs), NEW g,
         NEW q \in Seq(Nat), g = [sp |-> [f.sp EXCEPT ![s] = v], free |-> q]
  PROVE  /\ g \in FMType(Regs)
         /\ Len(g.sp) = Len(f.sp)
         /\ g.sp[s] = v
         /\ \A t \in 1..Len(f.sp) : t # s => g.sp[t] = f.sp[t]
         /\ g.free = q
<1>1. f.sp \in Seq(Slot(Regs))
  BY DEF FMType
<1>2. g.sp = [f.sp EXCEPT ![s] = v] /\ g.free = q
  OBVIOUS
<1>3. /\ g.sp \in Seq(Slot(Regs)) /\ Len(g.sp) = Len(f.sp) /\ g.sp[s] = v
      /\ \A t \in 1..Len(f.sp) : t # s => g.sp[t] = f.sp[t]
  BY <1>1, <1>2, WriteSlot
<1>4. g \in FMType(Regs)
  BY <1>2, <1>3 DEF FMType
<1>5. QED
  BY <1>2, <1>3, <1>4

\* A mark of one slot is set or reset.
LEMMA MarkSlot ==
  ASSUME NEW Regs, NEW f \in FMType(Regs), NEW s \in 1..Len(f.sp), NEW v \in Slot(Regs), NEW g,
         g = [sp |-> [f.sp EXCEPT ![s] = v], free |-> f.free]
  PROVE  /\ g \in FMType(Regs)
         /\ Len(g.sp) = Len(f.sp)
         /\ g.sp[s] = v
         /\ \A t \in 1..Len(f.sp) : t # s => g.sp[t] = f.sp[t]
         /\ g.free = f.free
<1>1. f.sp \in Seq(Slot(Regs)) /\ f.free \in Seq(Nat)
  BY DEF FMType
<1>2. g.sp = [f.sp EXCEPT ![s] = v] /\ g.free = f.free
  OBVIOUS
<1>3. /\ g.sp \in Seq(Slot(Regs)) /\ Len(g.sp) = Len(f.sp) /\ g.sp[s] = v
      /\ \A t \in 1..Len(f.sp) : t # s => g.sp[t] = f.sp[t]
  BY <1>1, <1>2, WriteSlot
<1>4. g \in FMType(Regs)
  BY <1>1, <1>2, <1>3 DEF FMType
<1>5. QED
  BY <1>2, <1>3, <1>4

-----------------------------------------------------------------------------
(* The stack of executions.                                                 *)

\* Changing the history fields of the frames changes no slot.
LEMMA SameSlots ==
  ASSUME NEW st \in Seq(Frame), NEW st2 \in [1..Len(st) -> Frame],
         \A i \in 1..Len(st) : st2[i].slot = st[i].slot
  PROVE  st2 \in Seq(Frame) /\ Len(st2) = Len(st) /\ SlotsOf(st2) = SlotsOf(st)
<1>1. Len(st) \in Nat
  OBVIOUS
<1>2. st2 \in Seq(Frame)
  BY <1>1, SeqDef
<1>3. Len(st2) \in Nat /\ DOMAIN st2 = 1..Len(st2)
  BY <1>2, LenProperties
<1>4. 1..Len(st) = 1..Len(st2)
  BY <1>3
<1>5. Len(st2) = Len(st)
  BY <1>1, <1>3, <1>4
<1>6. QED
  BY <1>2, <1>5 DEF SlotsOf

\* The frames below an execution that returned keep their slots.
LEMMA NestedReturnedSlots ==
  ASSUME NEW st \in Seq(Frame)
  PROVE  /\ NestedReturned(st) \in Seq(Frame)
         /\ Len(NestedReturned(st)) = Len(st)
         /\ SlotsOf(NestedReturned(st)) = SlotsOf(st)
         /\ \A i \in 1..Len(st) :
              /\ NestedReturned(st)[i].slot = st[i].slot
              /\ NestedReturned(st)[i].client = st[i].client
              /\ NestedReturned(st)[i].again = st[i].again
              /\ NestedReturned(st)[i].nested
<1>1. DOMAIN st = 1..Len(st) /\ \A i \in 1..Len(st) : st[i] \in Frame
  BY LenProperties, ElementOfSeq
<1>2. \A i \in 1..Len(st) : /\ [st[i] EXCEPT !.nested = TRUE] \in Frame
                            /\ [st[i] EXCEPT !.nested = TRUE].slot = st[i].slot
                            /\ [st[i] EXCEPT !.nested = TRUE].client = st[i].client
                            /\ [st[i] EXCEPT !.nested = TRUE].again = st[i].again
                            /\ [st[i] EXCEPT !.nested = TRUE].nested
  BY <1>1 DEF Frame
<1>3. /\ NestedReturned(st) \in [1..Len(st) -> Frame]
      /\ \A i \in 1..Len(st) : NestedReturned(st)[i] = [st[i] EXCEPT !.nested = TRUE]
  BY <1>1, <1>2 DEF NestedReturned
<1>4. QED
  BY <1>2, <1>3, SameSlots

\* So do the frames below one that begins.
LEMMA EnteredAgainSlots ==
  ASSUME stack \in Seq(Frame), NEW s \in Nat
  PROVE  /\ EnteredAgain(s) \in Seq(Frame)
         /\ Len(EnteredAgain(s)) = Len(stack)
         /\ SlotsOf(EnteredAgain(s)) = SlotsOf(stack)
         /\ \A i \in 1..Len(stack) :
              /\ EnteredAgain(s)[i].slot = stack[i].slot
              /\ EnteredAgain(s)[i].client = stack[i].client
              /\ EnteredAgain(s)[i].arr = stack[i].arr
              /\ EnteredAgain(s)[i].nested = stack[i].nested
              /\ ~EnteredAgain(s)[i].again => ~stack[i].again /\ (s = 0 \/ stack[i].slot # s)
<1>1. DOMAIN stack = 1..Len(stack) /\ \A i \in 1..Len(stack) : stack[i] \in Frame
  BY LenProperties, ElementOfSeq
<1>2. ASSUME NEW i \in 1..Len(stack), NEW b \in BOOLEAN
      PROVE  /\ [stack[i] EXCEPT !.again = b] \in Frame
             /\ [stack[i] EXCEPT !.again = b].slot = stack[i].slot
             /\ [stack[i] EXCEPT !.again = b].client = stack[i].client
             /\ [stack[i] EXCEPT !.again = b].arr = stack[i].arr
             /\ [stack[i] EXCEPT !.again = b].nested = stack[i].nested
             /\ [stack[i] EXCEPT !.again = b].again = b
  BY <1>1 DEF Frame
<1>3. \A i \in 1..Len(stack) : EnteredAgain(s)[i] =
        [stack[i] EXCEPT !.again = stack[i].again \/ (s # 0 /\ stack[i].slot = s)]
  BY <1>1 DEF EnteredAgain
<1>4. \A i \in 1..Len(stack) : (stack[i].again \/ (s # 0 /\ stack[i].slot = s)) \in BOOLEAN
  BY <1>1 DEF Frame
<1>5. \A i \in 1..Len(stack) :
         /\ EnteredAgain(s)[i] \in Frame
         /\ EnteredAgain(s)[i].slot = stack[i].slot
         /\ EnteredAgain(s)[i].client = stack[i].client
         /\ EnteredAgain(s)[i].arr = stack[i].arr
         /\ EnteredAgain(s)[i].nested = stack[i].nested
         /\ ~EnteredAgain(s)[i].again => ~stack[i].again /\ (s = 0 \/ stack[i].slot # s)
  <2> TAKE i \in 1..Len(stack)
  <2>1. PICK b \in BOOLEAN : b = (stack[i].again \/ (s # 0 /\ stack[i].slot = s))
    BY <1>4
  <2>2. EnteredAgain(s)[i] = [stack[i] EXCEPT !.again = b]
    BY <1>3, <2>1
  <2>3. QED
    BY <1>2, <2>1, <2>2, ZenonT(60)
<1>6. EnteredAgain(s) \in [1..Len(stack) -> Frame]
  BY <1>1, <1>5 DEF EnteredAgain
<1>7. QED
  BY <1>5, <1>6, SameSlots

\* A frame that is pushed adds its slot.
LEMMA PushFrame ==
  ASSUME NEW st \in Seq(Frame), NEW fr \in Frame
  PROVE  /\ Append(st, fr) \in Seq(Frame)
         /\ SlotsOf(Append(st, fr)) = SlotsOf(st) \union {fr.slot}
<1>1. /\ Append(st, fr) \in Seq(Frame) /\ Len(st) \in Nat
      /\ Len(Append(st, fr)) = Len(st) + 1
      /\ \A i \in 1..Len(st) : Append(st, fr)[i] = st[i]
      /\ Append(st, fr)[Len(st) + 1] = fr
  BY AppendProperties
<1>2. 1..Len(st) + 1 = 1..Len(st) \union {Len(st) + 1}
  BY <1>1
<1>3. QED
  BY <1>1, <1>2 DEF SlotsOf

\* A frame that is popped removes no other slot.
LEMMA PopFrame ==
  ASSUME NEW st \in Seq(Frame), st # <<>>
  PROVE  /\ SubSeq(st, 1, Len(st) - 1) \in Seq(Frame)
         /\ SlotsOf(SubSeq(st, 1, Len(st) - 1)) \subseteq SlotsOf(st)
         /\ st[Len(st)] \in Frame
         /\ SlotsOf(st) = SlotsOf(SubSeq(st, 1, Len(st) - 1)) \union {st[Len(st)].slot}
         /\ Len(st) \in Nat \ {0} /\ Len(SubSeq(st, 1, Len(st) - 1)) = Len(st) - 1
         /\ \A i \in 1..Len(st) - 1 : SubSeq(st, 1, Len(st) - 1)[i] = st[i]
<1> DEFINE n == Len(st) - 1
           u == SubSeq(st, 1, n)
<1>1. Len(st) \in Nat \ {0} /\ \A i \in 1..Len(st) : st[i] \in Frame
  BY EmptySeq, ElementOfSeq
<1>2. n \in Nat /\ n + 1 = Len(st) /\ 1..Len(st) = 1..n \union {Len(st)}
  BY <1>1
<1>3. u \in Seq(Frame) /\ Len(u) = n /\ \A i \in 1..n : u[i] = st[i]
  BY <1>1, <1>2
<1> HIDE DEF n, u
<1>4. SlotsOf(u) = {st[i].slot : i \in 1..n}
  BY <1>3 DEF SlotsOf
<1>5. SlotsOf(st) = {st[i].slot : i \in 1..n} \union {st[Len(st)].slot}
  BY <1>2 DEF SlotsOf
<1>6. st[Len(st)] \in Frame
  BY <1>1
<1>7. QED
  BY <1>1, <1>3, <1>4, <1>5, <1>6 DEF n, u

\* The parameters of a call keep the table of prepared arrays in its type.
LEMMA ParamsType ==
  ASSUME TypeOK, NEW h \in BOOLEAN
  PROVE  /\ Params(h).arr \in Entries \union {-1, NoArray}
         /\ Params(h).num \in 0..FORWARD_MAX_PARAMS
         /\ Params(h).tmp \in [Entries -> Nat]
<1>1. /\ m_TmpArraysNum \in 0..FORWARD_MAX_PARAMS /\ m_TmpArrays \in [Entries -> Nat]
      /\ Len(stack) + 1 \in Nat /\ FORWARD_MAX_PARAMS \in Nat \ {0}
  BY ParamsAssumption DEF TypeOK
<1>2. CASE m_TmpArraysNum >= FORWARD_MAX_PARAMS
  BY <1>1, <1>2 DEF Params, prepareArray
<1>3. CASE m_TmpArraysNum < FORWARD_MAX_PARAMS
  <2>1. m_TmpArraysNum \in Entries /\ m_TmpArraysNum + 1 \in 0..FORWARD_MAX_PARAMS
    BY <1>1, <1>3 DEF Entries
  <2>2. [m_TmpArrays EXCEPT ![m_TmpArraysNum] = Len(stack) + 1] \in [Entries -> Nat]
    BY <1>1, <2>1
  <2>3. QED
    BY <1>1, <1>3, <2>1, <2>2 DEF Params, prepareArray
<1>4. QED
  BY <1>1, <1>2, <1>3

-----------------------------------------------------------------------------
(* Every action preserves the invariant.                                    *)

\* The empty table satisfies the invariant.
LEMMA InvInit == Init => IInv
<1> SUFFICES ASSUME Init PROVE IInv
  OBVIOUS
<1>1. /\ fm = [sp |-> <<>>, free |-> <<>>] /\ fm.sp = <<>> /\ fm.free = <<>> /\ stack = <<>>
      /\ live = [c \in Clients |-> FALSE]
  BY DEF Init, EmptyFM
<1>2. fm \in FMType(Clients)
  BY <1>1, EmptySeq DEF FMType
<1>3. TypeOK
  BY <1>1, <1>2, EmptySeq, ParamsAssumption DEF Init, TypeOK, Entries
<1>4. Len(fm.sp) = 0 /\ Len(fm.free) = 0 /\ Len(stack) = 0
  BY <1>1
<1>5. QED
  BY <1>1, <1>3, <1>4 DEF IInv, TableInv, HeldSound, MarksSound, SlotsCovered, RunningSound, Slots,
                          Elems, Distinct, SlotsOf, StackSlots

\* Steps that leave the stack and the slots in execution alone.
LEMMA RunningKept ==
  ASSUME RunningSound, UNCHANGED stack,
         \A s \in 1..Len(fm.sp) : fm.sp[s].inExec /\ s \notin Elems(fm.free) =>
           /\ s \in 1..Len(fm'.sp) /\ s \notin Elems(fm'.free)
           /\ fm'.sp[s].reg = fm.sp[s].reg /\ fm'.sp[s].inExec
           /\ fm'.sp[s].isFree = fm.sp[s].isFree
  PROVE  RunningSound'
  BY DEF RunningSound, Slots

\* A client that registers gets a slot that was nobody's.
LEMMA RegisterStep ==
  ASSUME IInv, NEW c \in Clients, registerSPForwardFound(c) PROVE IInv'
<1> DEFINE n == id'[c]
<1>t. /\ fm \in FMType(Clients) /\ id \in [Clients -> Nat] /\ live \in [Clients -> BOOLEAN]
      /\ Distinct(fm.free) /\ Elems(fm.free) \subseteq 1..Len(fm.sp)
  BY DEF IInv, TypeOK, TableInv, Slots
<1>1. PICK v \in Slot(Clients) : v = [reg |-> c, hasFunc |-> TRUE, isFree |-> FALSE,
                                      toDelete |-> FALSE, inExec |-> FALSE]
  BY DEF Slot
<1>2. Takes(fm, v, fm', n)
  BY <1>1, <1>t DEF registerSPForwardFound, registerSPForward, Set, Takes
<1>3. /\ live' = [live EXCEPT ![c] = TRUE] /\ id' = [id EXCEPT ![c] = n]
      /\ UNCHANGED <<m_TmpArraysNum, m_TmpArrays, stack>>
  BY <1>t DEF registerSPForwardFound
<1> HIDE DEF n
<1>4. /\ fm' \in FMType(Clients)
      /\ n \in 1..Len(fm'.sp)
      /\ 1..Len(fm.sp) \subseteq 1..Len(fm'.sp)
      /\ fm'.sp[n] = v
      /\ \A s \in 1..Len(fm'.sp) : s # n => s \in 1..Len(fm.sp) /\ fm'.sp[s] = fm.sp[s]
      /\ n \in Elems(fm.free) \/ n \notin 1..Len(fm.sp)
      /\ Distinct(fm'.free)
      /\ Elems(fm'.free) = Elems(fm.free) \ {n}
  BY <1>t, <1>2, TakeSlot
<1>5. n \in Nat
  BY <1>4
<1>6. TypeOK'
  BY <1>3, <1>4, <1>5 DEF IInv, TypeOK
<1>7. StackSlots' = StackSlots
  BY <1>3 DEF StackSlots
<1>8. TableInv'
  BY <1>t, <1>4, <1>7 DEF IInv, TableInv, Slots
<1>9. HeldSound'
  <2> SUFFICES ASSUME NEW d \in Clients, live'[d]
               PROVE  /\ id'[d] \in 1..Len(fm'.sp)
                      /\ id'[d] \notin Elems(fm'.free)
                      /\ fm'.sp[id'[d]].reg = d
                      /\ fm'.sp[id'[d]].hasFunc /\ ~fm'.sp[id'[d]].isFree /\ ~fm'.sp[id'[d]].toDelete
                      /\ \A e \in Clients : live'[e] /\ id'[e] = id'[d] => e = d
    BY DEF HeldSound, Slots
  <2>1. \A e \in Clients : e # c /\ live'[e] =>
          /\ id'[e] = id[e] /\ live[e] /\ id[e] # n /\ id[e] \in 1..Len(fm.sp)
    BY <1>t, <1>3, <1>4 DEF IInv, HeldSound, Slots
  <2>2. CASE d = c
    BY <1>t, <1>1, <1>3, <1>4, <2>1, <2>2
  <2>3. CASE d # c
    <3>1. id'[c] = n /\ id'[d] = id[d] /\ live[d] /\ id[d] # n /\ fm'.sp[id[d]] = fm.sp[id[d]]
      BY <1>t, <1>3, <1>4, <2>1, <2>3
    <3>2. \A e \in Clients : live'[e] /\ id'[e] = id'[d] => e = d
      BY <2>1, <2>3, <3>1 DEF IInv, HeldSound
    <3>3. QED
      BY <1>4, <2>1, <2>3, <3>1, <3>2 DEF IInv, HeldSound, Slots
  <2>4. QED
    BY <2>2, <2>3
<1>10. MarksSound'
  BY <1>1, <1>4, <1>7 DEF IInv, MarksSound, Slots
<1>11. SlotsCovered'
  <2> SUFFICES ASSUME NEW s \in 1..Len(fm'.sp)
               PROVE  s \in Elems(fm'.free) \/ Held(s)' \/ fm'.sp[s].toDelete
    BY DEF SlotsCovered, Slots
  <2>1. CASE s = n
    BY <1>t, <1>3, <2>1 DEF Held
  <2>2. CASE s # n
    <3>1. \A e \in Clients : live[e] /\ id[e] = s => live'[e] /\ id'[e] = s
      BY <1>t, <1>3 DEF registerSPForwardFound
    <3>2. s \in Elems(fm.free) \/ Held(s) \/ fm.sp[s].toDelete
      BY <1>4, <2>2 DEF IInv, SlotsCovered, Slots
    <3>3. QED
      BY <1>4, <2>2, <3>1, <3>2 DEF Held
  <2>3. QED
    BY <2>1, <2>2
<1>12. RunningSound'
  BY <1>3, <1>4, RunningKept DEF IInv
<1>13. QED
  BY <1>6, <1>8, <1>9, <1>10, <1>11, <1>12 DEF IInv

\* A registration that fails changes at most a slot that waits on the free stack.
LEMMA MissingStep ==
  ASSUME IInv, NEW c \in Clients, registerSPForwardMissing(c) PROVE IInv'
<1>t. /\ fm \in FMType(Clients) /\ Distinct(fm.free) /\ Elems(fm.free) \subseteq 1..Len(fm.sp)
      /\ fm.free \in Seq(Nat)
  BY DEF IInv, TypeOK, TableInv, Slots, FMType
<1>1. PICK v \in Slot(Clients) : v = [reg |-> c, hasFunc |-> FALSE, isFree |-> FALSE,
                                      toDelete |-> FALSE, inExec |-> FALSE]
  BY DEF Slot
<1>2. UNCHANGED <<m_TmpArraysNum, m_TmpArrays, id, live, stack>>
  BY DEF registerSPForwardMissing
<1>3. CASE fm.free = <<>>
  <2>1. UNCHANGED fm
    BY <1>3 DEF registerSPForwardMissing, registerSPForward
  <2>2. QED
    BY <1>2, <2>1 DEF IInv, TypeOK, TableInv, HeldSound, MarksSound, SlotsCovered,
                      RunningSound, Slots, Held, StackSlots
<1>4. CASE fm.free # <<>>
  <2>1. PICK h : h = Head(fm.free)
    OBVIOUS
  <2>2. h \in Elems(fm.free) /\ h \in 1..Len(fm.sp)
    BY <1>t, <1>4, <2>1, PopStack
  <2>3. fm' = [sp |-> [fm.sp EXCEPT ![h] = v], free |-> fm.free]
    BY <1>1, <1>4, <2>1 DEF registerSPForwardMissing, registerSPForward, Set
  <2>4. /\ fm' \in FMType(Clients) /\ Len(fm'.sp) = Len(fm.sp) /\ fm'.sp[h] = v
        /\ \A t \in 1..Len(fm.sp) : t # h => fm'.sp[t] = fm.sp[t]
        /\ fm'.free = fm.free
    BY <1>t, <2>2, <2>3, MarkSlot
  <2>5. StackSlots' = StackSlots /\ TypeOK'
    BY <1>2, <2>4 DEF IInv, TypeOK, StackSlots
  <2>6. TableInv'
    BY <2>4, <2>5 DEF IInv, TableInv, Slots
  <2>7. HeldSound'
    <3>1. \A d \in Clients : live[d] => id[d] # h
      BY <2>2 DEF IInv, HeldSound
    <3>2. QED
      BY <1>2, <2>4, <3>1 DEF IInv, HeldSound, Slots
  <2>8. MarksSound'
    BY <1>1, <2>4, <2>5 DEF IInv, MarksSound, Slots
  <2>9. SlotsCovered'
    BY <1>2, <2>2, <2>4 DEF IInv, SlotsCovered, Slots, Held
  <2>10. RunningSound'
    BY <1>2, <2>2, <2>4, RunningKept DEF IInv
  <2>11. QED
    BY <2>5, <2>6, <2>7, <2>8, <2>9, <2>10 DEF IInv
<1>5. QED
  BY <1>3, <1>4

\* A client that unregisters frees its slot, or marks it while its callback runs.
LEMMA UnregisterStep ==
  ASSUME IInv, NEW c \in Clients, Unregister(c) PROVE IInv'
<1>t. /\ fm \in FMType(Clients) /\ Distinct(fm.free) /\ Elems(fm.free) \subseteq 1..Len(fm.sp)
      /\ live \in [Clients -> BOOLEAN] /\ id \in [Clients -> Nat]
  BY DEF IInv, TypeOK, TableInv, Slots
<1>1. PICK n : n = id[c]
  OBVIOUS
<1>2. /\ live[c] /\ live' = [live EXCEPT ![c] = FALSE]
      /\ UNCHANGED <<m_TmpArraysNum, m_TmpArrays, id, stack>>
      /\ fm' = unregisterSPForward(fm, n)
  BY <1>1 DEF Unregister
<1>3. /\ n \in 1..Len(fm.sp) /\ n \notin Elems(fm.free)
      /\ ~fm.sp[n].isFree /\ ~fm.sp[n].toDelete
      /\ \A d \in Clients : live[d] /\ id[d] = n => d = c
  BY <1>1, <1>2 DEF IInv, HeldSound, Slots
<1>4. fm.sp[n] \in Slot(Clients)
  BY <1>t, <1>3, ElementOfSeq DEF FMType
<1>5. StackSlots' = StackSlots
  BY <1>2 DEF StackSlots
<1>6. \A d \in Clients : live'[d] <=> live[d] /\ d # c
  BY <1>t, <1>2
<1>7. CASE fm.sp[n].inExec
  <2>1. PICK v \in Slot(Clients) : v = [fm.sp[n] EXCEPT !.toDelete = TRUE]
    BY <1>4 DEF Slot
  <2>2. fm' = [sp |-> [fm.sp EXCEPT ![n] = v], free |-> fm.free]
    BY <1>t, <1>2, <1>3, <1>7, <2>1 DEF unregisterSPForward, isIdValid, FMType
  <2>3. /\ fm' \in FMType(Clients) /\ Len(fm'.sp) = Len(fm.sp) /\ fm'.sp[n] = v
        /\ \A t \in 1..Len(fm.sp) : t # n => fm'.sp[t] = fm.sp[t]
        /\ fm'.free = fm.free
    BY <1>t, <1>3, <2>2, MarkSlot
  <2>4. /\ v.toDelete /\ v.isFree = fm.sp[n].isFree /\ v.inExec = fm.sp[n].inExec
        /\ v.reg = fm.sp[n].reg
    BY <1>4, <2>1 DEF Slot
  <2>5. TypeOK'
    BY <1>t, <1>2, <2>3 DEF IInv, TypeOK
  <2>6. TableInv'
    BY <1>5, <2>3 DEF IInv, TableInv, Slots
  <2>7. HeldSound'
    BY <1>2, <1>3, <1>6, <2>3 DEF IInv, HeldSound, Slots
  <2>8. MarksSound'
    <3>1. n \in StackSlots
      BY <1>3, <1>7 DEF IInv, MarksSound, Slots
    <3>2. QED
      BY <1>3, <1>5, <2>3, <2>4, <3>1 DEF IInv, MarksSound, Slots
  <2>9. SlotsCovered'
    BY <1>1, <1>2, <1>6, <2>3, <2>4 DEF IInv, SlotsCovered, Slots, Held
  <2>10. RunningSound'
    BY <1>2, <1>3, <2>3, <2>4, RunningKept DEF IInv
  <2>11. QED
    BY <2>5, <2>6, <2>7, <2>8, <2>9, <2>10 DEF IInv
<1>8. CASE ~fm.sp[n].inExec
  <2>1. PICK v \in Slot(Clients) : v = [fm.sp[n] EXCEPT !.isFree = TRUE]
    BY <1>4 DEF Slot
  <2>n. n \in Nat /\ fm.free \in Seq(Nat)
    BY <1>t, <1>3 DEF FMType
  <2>q. PICK q \in Seq(Nat) : q = <<n>> \o fm.free
    BY <2>n, <1>t, <1>3, PushStack
  <2>p. Distinct(q) /\ Elems(q) = Elems(fm.free) \union {n}
    BY <2>n, <2>q, <1>t, <1>3, PushStack
  <2>2. fm' = [sp |-> [fm.sp EXCEPT ![n] = v], free |-> q]
    BY <2>q, <1>t, <1>2, <1>3, <1>8, <2>1 DEF unregisterSPForward, isIdValid, FMType
  <2>3. /\ fm' \in FMType(Clients) /\ Len(fm'.sp) = Len(fm.sp) /\ fm'.sp[n] = v
        /\ \A t \in 1..Len(fm.sp) : t # n => fm'.sp[t] = fm.sp[t]
        /\ fm'.free = q
    BY <1>t, <1>3, <2>2, FreeSlot
  <2>4. v.toDelete = fm.sp[n].toDelete /\ v.inExec = fm.sp[n].inExec
    BY <1>4, <2>1 DEF Slot
  <2>5. TypeOK'
    BY <1>t, <1>2, <2>3 DEF IInv, TypeOK
  <2>6. TableInv'
    BY <1>t, <1>3, <1>5, <2>3, <2>p DEF IInv, TableInv, Slots
  <2>7. HeldSound'
    BY <1>2, <1>3, <1>6, <2>3, <2>p DEF IInv, HeldSound, Slots
  <2>8. MarksSound'
    BY <1>3, <1>5, <1>8, <2>3, <2>4, <2>p DEF IInv, MarksSound, Slots
  <2>9. SlotsCovered'
    BY <1>1, <1>2, <1>6, <2>3, <2>p DEF IInv, SlotsCovered, Slots, Held
  <2>10. RunningSound'
    BY <1>2, <1>3, <1>8, <2>3, <2>p, RunningKept DEF IInv
  <2>11. QED
    BY <2>5, <2>6, <2>7, <2>8, <2>9, <2>10 DEF IInv
<1>9. QED
  BY <1>7, <1>8

\* Frame n is the new one of client c on slot s.
Opened(c, s, h, n) ==
  /\ stack' \in Seq(Frame)
  /\ SlotsOf(stack') = SlotsOf(stack) \union {s}
  /\ n \in Nat \ {0} /\ Len(stack) = n - 1 /\ Len(stack') = n
  /\ stack'[n].client = c /\ stack'[n].slot = s /\ stack'[n].arr = Params(h).arr
  /\ \A i \in 1..n - 1 : stack'[i] = EnteredAgain(s)[i]

\* What entering an execution does to the stack: the new frame ...
LEMMA EnterFrames ==
  ASSUME TypeOK, NEW c \in Clients \union {AllPlugins}, NEW s \in Nat, NEW h \in BOOLEAN,
         Enter(c, s, h)
  PROVE  \E n : Opened(c, s, h, n)
<1>n. PICK n : n = Len(stack) + 1
  OBVIOUS
<1>1. PICK fr : fr = [client |-> c, slot |-> s, arr |-> Params(h).arr,
                      nested |-> FALSE, again |-> FALSE]
  OBVIOUS
<1>2. fr \in Frame /\ fr.slot = s /\ fr.client = c /\ fr.arr = Params(h).arr
  BY <1>1, ParamsType DEF Frame
<1>3. stack' = Append(EnteredAgain(s), fr)
  BY <1>1 DEF Enter
<1>4. stack \in Seq(Frame) /\ n \in Nat \ {0} /\ Len(stack) = n - 1
  BY <1>n DEF TypeOK
<1>5. PICK st \in Seq(Frame) : st = EnteredAgain(s)
  BY <1>4, EnteredAgainSlots
<1>6. Len(st) = n - 1 /\ SlotsOf(st) = SlotsOf(stack)
  BY <1>4, <1>5, EnteredAgainSlots
<1>7. stack' = Append(st, fr)
  BY <1>3, <1>5
<1>8. stack' \in Seq(Frame) /\ SlotsOf(stack') = SlotsOf(stack) \union {s}
  BY <1>2, <1>6, <1>7, PushFrame
<1>9. /\ Len(stack') = n /\ stack'[n] = fr
      /\ \A i \in 1..n - 1 : stack'[i] = st[i]
  BY <1>2, <1>4, <1>6, <1>7, AppendProperties
<1>10. Opened(c, s, h, n)
  BY <1>2, <1>4, <1>5, <1>8, <1>9 DEF Opened
<1>11. QED
  BY <1>10

\* ... a frame below it ...
LEMMA EnterBelow ==
  ASSUME TypeOK, NEW c \in Clients \union {AllPlugins}, NEW s \in Nat, NEW h \in BOOLEAN,
         Enter(c, s, h), NEW i \in 1..Len(stack)
  PROVE  /\ stack'[i].slot = stack[i].slot
         /\ stack'[i].client = stack[i].client
         /\ stack'[i].arr = stack[i].arr
         /\ stack'[i].nested = stack[i].nested
         /\ ~stack'[i].again => ~stack[i].again /\ (s = 0 \/ stack[i].slot # s)
<1>1. stack'[i] = EnteredAgain(s)[i]
  <2>1. PICK n : Opened(c, s, h, n)
    BY EnterFrames, Zenon
  <2>2. Len(stack) = n - 1 /\ \A j \in 1..n - 1 : stack'[j] = EnteredAgain(s)[j]
    BY <2>1 DEF Opened
  <2>3. QED
    BY <2>2
<1>2. stack \in Seq(Frame)
  BY DEF TypeOK
<1>3. /\ EnteredAgain(s)[i].slot = stack[i].slot
      /\ EnteredAgain(s)[i].client = stack[i].client
      /\ EnteredAgain(s)[i].arr = stack[i].arr
      /\ EnteredAgain(s)[i].nested = stack[i].nested
      /\ ~EnteredAgain(s)[i].again => ~stack[i].again /\ (s = 0 \/ stack[i].slot # s)
  BY <1>2, EnteredAgainSlots, Zenon
<1>4. QED
  BY <1>1, <1>3

\* ... and to the rest of the state.
LEMMA EnterStack ==
  ASSUME TypeOK, NEW c \in Clients \union {AllPlugins}, NEW s \in Nat, NEW h \in BOOLEAN,
         Enter(c, s, h)
  PROVE  /\ stack' \in Seq(Frame)
         /\ SlotsOf(stack') = SlotsOf(stack) \union {s}
         /\ m_TmpArraysNum' \in 0..FORWARD_MAX_PARAMS
         /\ m_TmpArrays' \in [Entries -> Nat]
         /\ UNCHANGED <<id, live>>
<1>1. PICK n : Opened(c, s, h, n)
  BY EnterFrames, Zenon
<1>2. stack' \in Seq(Frame) /\ SlotsOf(stack') = SlotsOf(stack) \union {s}
  BY <1>1 DEF Opened
<1>3. QED
  BY <1>2, ParamsType DEF Enter

\* A callback is entered: its slot is marked and on the stack.
LEMMA ExecuteStep ==
  ASSUME IInv, NEW c \in Clients, NEW h \in BOOLEAN, executeSP(c, h) PROVE IInv'
<1>t. /\ TypeOK /\ fm \in FMType(Clients) /\ id \in [Clients -> Nat]
  BY DEF IInv, TypeOK
<1>1. PICK n \in Nat : n = id[c]
  BY <1>t
<1>2. live[c] /\ fm' = beginExec(fm, n) /\ Enter(c, n, h)
  BY <1>1 DEF executeSP
<1>3. n \in 1..Len(fm.sp)
  BY <1>1, <1>2 DEF IInv, HeldSound, Slots
<1>4. fm.sp[n] \in Slot(Clients)
  BY <1>t, <1>3, ElementOfSeq DEF FMType
<1>5. PICK v \in Slot(Clients) : v = [fm.sp[n] EXCEPT !.inExec = TRUE]
  BY <1>4 DEF Slot
<1>6. fm' = [sp |-> [fm.sp EXCEPT ![n] = v], free |-> fm.free]
  BY <1>t, <1>2, <1>5 DEF beginExec, FMType
<1>7. /\ fm' \in FMType(Clients) /\ Len(fm'.sp) = Len(fm.sp) /\ fm'.sp[n] = v
      /\ \A t \in 1..Len(fm.sp) : t # n => fm'.sp[t] = fm.sp[t]
      /\ fm'.free = fm.free
  BY <1>t, <1>3, <1>6, MarkSlot
<1>8. /\ v.reg = fm.sp[n].reg /\ v.hasFunc = fm.sp[n].hasFunc
      /\ v.isFree = fm.sp[n].isFree /\ v.toDelete = fm.sp[n].toDelete
  BY <1>4, <1>5 DEF Slot
<1>9. /\ stack' \in Seq(Frame) /\ StackSlots' = StackSlots \union {n}
      /\ m_TmpArraysNum' \in 0..FORWARD_MAX_PARAMS /\ m_TmpArrays' \in [Entries -> Nat]
      /\ UNCHANGED <<id, live>>
  BY <1>t, <1>2, EnterStack DEF StackSlots
<1>10. TypeOK'
  BY <1>7, <1>9 DEF IInv, TypeOK
<1>11. TableInv'
  BY <1>3, <1>7, <1>9 DEF IInv, TableInv, Slots
<1>12. HeldSound'
  BY <1>7, <1>8, <1>9, SMTT(60) DEF IInv, HeldSound, Slots
<1>13. MarksSound'
  BY <1>7, <1>8, <1>9 DEF IInv, MarksSound, Slots
<1>14. SlotsCovered'
  BY <1>7, <1>8, <1>9 DEF IInv, SlotsCovered, Slots, Held
<1>15. RunningSound'
  <2>1. /\ v.inExec /\ fm.sp[n].reg = c /\ ~fm.sp[n].isFree /\ n \notin Elems(fm.free)
    BY <1>1, <1>2, <1>4, <1>5 DEF IInv, HeldSound, Slot
  <2>m. PICK m : Opened(c, n, h, m)
    <3>1. c \in Clients \union {AllPlugins}
      OBVIOUS
    <3>2. QED
      BY <1>t, <1>2, <3>1, EnterFrames, Zenon
  <2>2. /\ m \in Nat \ {0} /\ Len(stack) = m - 1 /\ Len(stack') = m
        /\ stack'[m].client = c /\ stack'[m].slot = n
        /\ \A i \in 1..m - 1 :
              /\ stack'[i].slot = stack[i].slot
              /\ stack'[i].client = stack[i].client
              /\ ~stack'[i].again => ~stack[i].again /\ (n = 0 \/ stack[i].slot # n)
    <3>1. c \in Clients \union {AllPlugins}
      OBVIOUS
    <3>2. /\ m \in Nat \ {0} /\ Len(stack) = m - 1 /\ Len(stack') = m
          /\ stack'[m].client = c /\ stack'[m].slot = n
      BY <2>m DEF Opened
    <3>3. ASSUME NEW i \in 1..m - 1
          PROVE  /\ stack'[i].slot = stack[i].slot
                 /\ stack'[i].client = stack[i].client
                 /\ ~stack'[i].again => ~stack[i].again /\ (n = 0 \/ stack[i].slot # n)
      <4>1. i \in 1..Len(stack)
        BY <3>2
      <4>2. QED
        BY <1>t, <1>2, <3>1, <4>1, EnterBelow
    <3>4. QED
      BY <3>2, <3>3
  <2> SUFFICES ASSUME NEW i \in 1..m, stack'[i].slot # 0, ~stack'[i].again
               PROVE  /\ stack'[i].slot \in 1..Len(fm.sp)
                      /\ stack'[i].slot \notin Elems(fm.free)
                      /\ fm'.sp[stack'[i].slot].reg = stack'[i].client
                      /\ fm'.sp[stack'[i].slot].inExec /\ ~fm'.sp[stack'[i].slot].isFree
                      /\ \A j \in i+1..m : stack'[j].slot # stack'[i].slot
    BY <1>7, <2>2 DEF RunningSound, Slots
  <2>3. CASE i = m
    BY <1>3, <1>7, <1>8, <2>1, <2>2, <2>3
  <2>4. CASE i \in 1..m - 1
    <3>1. /\ stack[i].slot # 0 /\ ~stack[i].again /\ stack[i].slot # n
          /\ stack'[i].slot = stack[i].slot /\ stack'[i].client = stack[i].client
      BY <1>3, <2>2, <2>4
    <3>2. /\ stack[i].slot \in 1..Len(fm.sp)
          /\ stack[i].slot \notin Elems(fm.free)
          /\ fm.sp[stack[i].slot].reg = stack[i].client
          /\ fm.sp[stack[i].slot].inExec /\ ~fm.sp[stack[i].slot].isFree
          /\ \A j \in i+1..m - 1 : stack[j].slot # stack[i].slot
      BY <2>2, <2>4, <3>1 DEF IInv, RunningSound, Slots
    <3>3. ASSUME NEW j \in i+1..m PROVE stack'[j].slot # stack'[i].slot
      <4>1. CASE j = m
        BY <2>2, <3>1, <4>1
      <4>2. CASE j \in i+1..m - 1
        <5>1. j \in 1..m - 1
          BY <2>2, <2>4, <4>2
        <5>2. QED
          BY <2>2, <3>1, <3>2, <4>2, <5>1
      <4>3. QED
        BY <2>2, <4>1, <4>2
    <3>4. QED
      BY <1>7, <3>1, <3>2, <3>3
  <2>5. QED
    BY <2>2, <2>3, <2>4
<1>16. QED
  BY <1>10, <1>11, <1>12, <1>13, <1>14, <1>15 DEF IInv

\* Steps that leave the table, the clients and the slots in execution alone.
LEMMA TableKept ==
  ASSUME IInv, TypeOK', UNCHANGED <<fm, id, live>>, StackSlots \subseteq StackSlots',
         StackSlots' \subseteq StackSlots \union {0}, RunningSound'
  PROVE  IInv'
<1>1. TableInv'
  BY DEF IInv, TableInv, Slots
<1>2. HeldSound' /\ SlotsCovered'
  BY DEF IInv, HeldSound, SlotsCovered, Slots, Held
<1>3. MarksSound'
  BY DEF IInv, MarksSound, Slots
<1>4. QED
  BY <1>1, <1>2, <1>3 DEF IInv

\* A normal forward is entered: no slot is involved.
LEMMA NormalStep ==
  ASSUME IInv, NEW h \in BOOLEAN, executeNormal(h) PROVE IInv'
<1>1. TypeOK /\ AllPlugins \in Clients \union {AllPlugins} /\ UNCHANGED fm
  BY DEF IInv, executeNormal
<1>2. /\ stack' \in Seq(Frame) /\ StackSlots' = StackSlots \union {0}
      /\ m_TmpArraysNum' \in 0..FORWARD_MAX_PARAMS /\ m_TmpArrays' \in [Entries -> Nat]
      /\ UNCHANGED <<id, live>>
  BY <1>1, EnterStack DEF executeNormal, StackSlots
<1>3. TypeOK'
  BY <1>1, <1>2 DEF TypeOK
<1>4. RunningSound'
  <2>m. PICK m : Opened(AllPlugins, 0, h, m)
    <3>1. Enter(AllPlugins, 0, h) /\ 0 \in Nat
      BY DEF executeNormal
    <3>2. QED
      BY <1>1, <3>1, EnterFrames, Zenon
  <2>1. /\ m \in Nat \ {0} /\ Len(stack) = m - 1 /\ Len(stack') = m
        /\ stack'[m].slot = 0
        /\ \A i \in 1..m - 1 :
              /\ stack'[i].slot = stack[i].slot
              /\ stack'[i].client = stack[i].client
              /\ ~stack'[i].again => ~stack[i].again
    <3>1. Enter(AllPlugins, 0, h) /\ 0 \in Nat
      BY DEF executeNormal
    <3>2. QED
      <4>1. /\ m \in Nat \ {0} /\ Len(stack) = m - 1 /\ Len(stack') = m
            /\ stack'[m].slot = 0
        BY <2>m DEF Opened
      <4>2. ASSUME NEW i \in 1..m - 1
            PROVE  /\ stack'[i].slot = stack[i].slot
                   /\ stack'[i].client = stack[i].client
                   /\ ~stack'[i].again => ~stack[i].again
        <5>1. i \in 1..Len(stack)
          BY <4>1
        <5>2. QED
          BY <1>1, <3>1, <5>1, EnterBelow
      <4>3. QED
        BY <4>1, <4>2
  <2> SUFFICES ASSUME NEW i \in 1..m - 1, stack[i].slot # 0, ~stack[i].again,
                      NEW j \in i+1..m
               PROVE  stack'[j].slot # stack[i].slot
    BY <1>1, <2>1 DEF IInv, RunningSound, Slots
  <2>2. j = m \/ (j \in 1..m - 1 /\ j \in i+1..Len(stack))
    BY <2>1
  <2>3. QED
    BY <2>1, <2>2 DEF IInv, RunningSound
<1>5. QED
  BY <1>1, <1>2, <1>3, <1>4, TableKept

\* A paused plugin is not called; its forward is not marked for deletion.
LEMMA RefusedStep ==
  ASSUME IInv, NEW c \in Clients, NEW h \in BOOLEAN, executeSPRefused(c, h) PROVE IInv'
<1>1. TypeOK /\ stack \in Seq(Frame) /\ FORWARD_MAX_PARAMS \in Nat
  BY ParamsAssumption DEF IInv, TypeOK
<1>2. live[c] /\ ~fm.sp[id[c]].toDelete
  BY DEF IInv, HeldSound, executeSPRefused
<1>3. UNCHANGED <<fm, id, live>> /\ stack' = NestedReturned(stack) /\ m_TmpArraysNum' = 0
      /\ m_TmpArrays' = Params(h).tmp
  BY <1>2 DEF executeSPRefused, afterExec
<1>4. stack' \in Seq(Frame) /\ StackSlots' = StackSlots
  BY <1>1, <1>3, NestedReturnedSlots DEF StackSlots
<1>5. TypeOK'
  BY <1>1, <1>3, <1>4, ParamsType DEF TypeOK
<1>6. RunningSound'
  <2>1. /\ Len(stack') = Len(stack)
        /\ \A i \in 1..Len(stack) :
              /\ stack'[i].slot = stack[i].slot
              /\ stack'[i].client = stack[i].client
              /\ stack'[i].again = stack[i].again
    BY <1>1, <1>3, NestedReturnedSlots
  <2>2. QED
    BY <1>3, <2>1 DEF IInv, RunningSound, Slots
<1>7. QED
  BY <1>3, <1>4, <1>5, <1>6, TableKept

\* A callback returns: a slot that it marked for deletion is freed now.
LEMMA ReturnStep ==
  ASSUME IInv, executeReturn PROVE IInv'
<1>t. /\ TypeOK /\ fm \in FMType(Clients) /\ stack \in Seq(Frame) /\ stack # <<>>
      /\ Distinct(fm.free) /\ Elems(fm.free) \subseteq 1..Len(fm.sp)
  BY DEF IInv, TypeOK, TableInv, Slots, executeReturn
<1>1. PICK n : n = stack[Len(stack)].slot
  OBVIOUS
<1>2. PICK below : below = SubSeq(stack, 1, Len(stack) - 1)
  OBVIOUS
<1>3. /\ below \in Seq(Frame) /\ StackSlots = SlotsOf(below) \union {n}
  BY <1>t, <1>1, <1>2, PopFrame DEF StackSlots
<1>4. /\ stack' = NestedReturned(below) /\ m_TmpArraysNum' = 0
      /\ UNCHANGED <<m_TmpArrays, id, live>>
      /\ fm' = IF n = 0 THEN fm ELSE endExec(fm, n)
  BY <1>1, <1>2 DEF executeReturn
<1>5. stack' \in Seq(Frame) /\ StackSlots' = SlotsOf(below)
  BY <1>3, <1>4, NestedReturnedSlots DEF StackSlots
<1>6. n \in 1..Len(fm.sp) \/ n = 0
  BY <1>3 DEF IInv, TableInv, Slots
<1>7. fm' \in FMType(Clients) => TypeOK'
  BY <1>t, <1>4, <1>5, ParamsAssumption DEF TypeOK
<1>r. ASSUME \A s \in 1..Len(fm.sp) : s # n /\ s \notin Elems(fm.free) =>
               /\ s \in 1..Len(fm'.sp) /\ s \notin Elems(fm'.free)
               /\ fm'.sp[s] = fm.sp[s]
      PROVE  RunningSound'
  <2>1. /\ Len(stack) \in Nat \ {0} /\ Len(stack') = Len(stack) - 1
        /\ \A i \in 1..Len(stack) - 1 :
              /\ stack'[i].slot = stack[i].slot
              /\ stack'[i].client = stack[i].client
              /\ stack'[i].again = stack[i].again
    <3>1. /\ Len(stack) \in Nat \ {0} /\ Len(below) = Len(stack) - 1
          /\ \A i \in 1..Len(stack) - 1 : below[i] = stack[i]
      BY <1>t, <1>2, PopFrame
    <3>2. QED
      BY <1>3, <1>4, <3>1, NestedReturnedSlots, SMTT(60)
  <2> SUFFICES ASSUME NEW i \in 1..Len(stack) - 1, stack[i].slot # 0, ~stack[i].again
               PROVE  /\ stack[i].slot \in 1..Len(fm'.sp)
                      /\ stack[i].slot \notin Elems(fm'.free)
                      /\ fm'.sp[stack[i].slot].reg = stack[i].client
                      /\ fm'.sp[stack[i].slot].inExec /\ ~fm'.sp[stack[i].slot].isFree
                      /\ \A j \in i+1..Len(stack) - 1 : stack[j].slot # stack[i].slot
    BY <2>1, SMTT(60) DEF RunningSound, Slots
  <2>2. i \in 1..Len(stack) /\ Len(stack) \in i+1..Len(stack)
        /\ \A j \in i+1..Len(stack) - 1 : j \in i+1..Len(stack)
    BY <2>1
  <2>3. /\ stack[i].slot \in 1..Len(fm.sp)
        /\ stack[i].slot \notin Elems(fm.free)
        /\ fm.sp[stack[i].slot].reg = stack[i].client
        /\ fm.sp[stack[i].slot].inExec /\ ~fm.sp[stack[i].slot].isFree
        /\ \A j \in i+1..Len(stack) : stack[j].slot # stack[i].slot
    BY <2>2 DEF IInv, RunningSound, Slots
  <2>4. stack[i].slot # n
    BY <1>1, <2>2, <2>3
  <2>5. QED
    BY <1>r, <2>2, <2>3, <2>4
<1>8. CASE n = 0
  <2>1. UNCHANGED <<fm, id, live>> /\ TypeOK'
    BY <1>t, <1>4, <1>7, <1>8
  <2>2. TableInv'
    BY <1>3, <1>5, <2>1 DEF IInv, TableInv, Slots
  <2>3. HeldSound' /\ SlotsCovered'
    BY <2>1 DEF IInv, HeldSound, SlotsCovered, Slots, Held
  <2>4. \A s \in 1..Len(fm.sp) : s # n
    BY <1>8
  <2>5. MarksSound'
    BY <1>3, <1>5, <2>1, <2>4 DEF IInv, MarksSound, Slots
  <2>6. RunningSound'
    BY <1>r, <2>1
  <2>7. QED
    BY <2>1, <2>2, <2>3, <2>5, <2>6 DEF IInv
<1>9. CASE n # 0
  <2>1. n \in 1..Len(fm.sp)
    BY <1>6, <1>9
  <2>2. fm.sp[n] \in Slot(Clients)
    BY <1>t, <2>1, ElementOfSeq DEF FMType
  <2>3. CASE ~fm.sp[n].toDelete
    <3>1. PICK v \in Slot(Clients) : v = [fm.sp[n] EXCEPT !.inExec = FALSE]
      BY <2>2 DEF Slot
    <3>2. /\ v.reg = fm.sp[n].reg /\ v.hasFunc = fm.sp[n].hasFunc
          /\ v.isFree = fm.sp[n].isFree /\ v.toDelete = fm.sp[n].toDelete /\ ~v.inExec
      BY <2>2, <3>1 DEF Slot
    <3>3. PICK g : g = [sp |-> [fm.sp EXCEPT ![n] = v], free |-> fm.free]
      OBVIOUS
    <3>4. /\ g \in FMType(Clients) /\ Len(g.sp) = Len(fm.sp) /\ g.sp[n] = v
          /\ \A t \in 1..Len(fm.sp) : t # n => g.sp[t] = fm.sp[t]
          /\ g.free = fm.free
      BY <1>t, <2>1, <3>3, MarkSlot
    <3>5. PICK f : f = [fm EXCEPT !.sp[n].inExec = FALSE]
      OBVIOUS
    <3>e. f = g
      <4>1. PICK sp : sp = [fm.sp EXCEPT ![n] = v]
        OBVIOUS
      <4>2. f = [fm EXCEPT !.sp = sp] /\ g = [sp |-> sp, free |-> fm.free]
        BY <3>1, <3>3, <3>5, <4>1
      <4>3. fm \in [sp : Seq(Slot(Clients)), free : Seq(Nat)]
        BY <1>t DEF FMType
      <4>4. QED
        BY <4>2, <4>3
    <3>6. fm' = g
      <4>1. fm' = afterExec(f, n)
        BY <1>4, <1>9, <3>5 DEF endExec
      <4>2. ~f.sp[n].toDelete
        BY <2>3, <3>2, <3>4, <3>e
      <4>3. QED
        BY <4>1, <4>2, <3>e DEF afterExec
    <3>7. TableInv'
      BY <1>3, <1>5, <3>4, <3>6 DEF IInv, TableInv, Slots
    <3>8. HeldSound'
      BY <1>4, <3>2, <3>4, <3>6 DEF IInv, HeldSound, Slots
    <3>9. MarksSound'
      BY <1>3, <1>5, <2>3, <3>2, <3>4, <3>6 DEF IInv, MarksSound, Slots
    <3>10. SlotsCovered'
      BY <1>4, <3>2, <3>4, <3>6 DEF IInv, SlotsCovered, Slots, Held
    <3>11. RunningSound'
      BY <1>r, <3>4, <3>6
    <3>12. QED
      BY <1>7, <3>4, <3>6, <3>7, <3>8, <3>9, <3>10, <3>11 DEF IInv
  <2>4. CASE fm.sp[n].toDelete
    <3>1. ~fm.sp[n].isFree /\ n \notin Elems(fm.free) /\ \A c \in Clients : live[c] => id[c] # n
      BY <2>1, <2>4 DEF IInv, MarksSound, HeldSound, Slots
    <3>2. PICK v \in Slot(Clients) :
            v = [[[fm.sp[n] EXCEPT !.inExec = FALSE] EXCEPT !.toDelete = FALSE] EXCEPT !.isFree = TRUE]
      BY <2>2 DEF Slot
    <3>3. ~v.toDelete /\ ~v.inExec
      BY <2>2, <3>2 DEF Slot
    <3>n. n \in Nat /\ fm.free \in Seq(Nat)
      BY <1>t, <2>1 DEF FMType
    <3>4. PICK q \in Seq(Nat) : q = <<n>> \o fm.free
      BY <3>n, <1>t, <3>1, PushStack
    <3>p. Distinct(q) /\ Elems(q) = Elems(fm.free) \union {n}
      BY <3>n, <3>4, <1>t, <3>1, PushStack
    <3>5. PICK g : g = [sp |-> [fm.sp EXCEPT ![n] = v], free |-> q]
      OBVIOUS
    <3>6. /\ g \in FMType(Clients) /\ Len(g.sp) = Len(fm.sp) /\ g.sp[n] = v
          /\ \A t \in 1..Len(fm.sp) : t # n => g.sp[t] = fm.sp[t]
          /\ g.free = q
      BY <1>t, <2>1, <3>5, FreeSlot
    <3>7. fm' = g
      BY <1>t, <1>4, <1>9, <2>1, <2>2, <2>4, <3>1, <3>2, <3>4, <3>5
         DEF endExec, afterExec, unregisterSPForward, isIdValid, FMType, Slot
    <3>8. TableInv'
      BY <1>3, <1>5, <1>t, <2>1, <3>p, <3>6, <3>7 DEF IInv, TableInv, Slots
    <3>9. HeldSound'
      BY <1>4, <3>1, <3>p, <3>6, <3>7 DEF IInv, HeldSound, Slots
    <3>10. MarksSound'
      BY <1>3, <1>5, <3>3, <3>p, <3>6, <3>7 DEF IInv, MarksSound, Slots
    <3>11. SlotsCovered'
      BY <1>4, <3>p, <3>6, <3>7 DEF IInv, SlotsCovered, Slots, Held
    <3>12. RunningSound'
      BY <1>r, <3>p, <3>6, <3>7
    <3>13. QED
      BY <1>7, <3>6, <3>7, <3>8, <3>9, <3>10, <3>11, <3>12 DEF IInv
  <2>5. QED
    BY <2>3, <2>4
<1>10. QED
  BY <1>8, <1>9

\* The manager is cleared between executions.
LEMMA ClearStep ==
  ASSUME IInv, clear PROVE IInv'
<1>1. /\ fm' = [sp |-> <<>>, free |-> <<>>] /\ fm'.sp = <<>> /\ fm'.free = <<>> /\ stack' = <<>>
      /\ live' = [c \in Clients |-> FALSE] /\ id' = [c \in Clients |-> 0]
      /\ m_TmpArraysNum' = 0 /\ UNCHANGED m_TmpArrays
  BY DEF clear, EmptyFM
<1>2. fm' \in FMType(Clients)
  BY <1>1, EmptySeq DEF FMType
<1>3. TypeOK'
  BY <1>1, <1>2, EmptySeq, ParamsAssumption DEF IInv, TypeOK
<1>4. Len(fm'.sp) = 0 /\ Len(fm'.free) = 0 /\ Len(stack') = 0
  BY <1>1
<1>5. QED
  BY <1>1, <1>3, <1>4 DEF IInv, TableInv, HeldSound, MarksSound, SlotsCovered, RunningSound, Slots,
                          Elems, Distinct, SlotsOf, StackSlots
-----------------------------------------------------------------------------
\* One case for each action of the clients.
LEMMA InvStep == IInv /\ [Next]_vars => IInv'
<1> SUFFICES ASSUME IInv, [Next]_vars PROVE IInv'
  OBVIOUS
<1>1. ASSUME NEW c \in Clients, NEW d \in Clients, duplicateSPForward(c, d) PROVE IInv'
  BY <1>1, RegisterStep DEF duplicateSPForward
<1>2. CASE UNCHANGED vars
  BY <1>2 DEF vars, IInv, TypeOK, TableInv, HeldSound, MarksSound, SlotsCovered, RunningSound,
              Slots, Held, StackSlots
<1>3. QED
  BY <1>1, <1>2, RegisterStep, MissingStep, UnregisterStep, ExecuteStep, RefusedStep, NormalStep,
     ReturnStep, ClearStep DEF Next

\* The table of CForwardMngr, the clients' ids and the stack of executions keep
\* their types: no index leaves m_TmpArrays and no id the table.
THEOREM ForwardsTyped == Spec => []TypeOK
<1>1. IInv => TypeOK
  BY DEF IInv
<1>2. QED
  BY <1>1, InvInit, InvStep, PTL DEF Spec

\* HandlesExclusive: executing an id runs the function of the client that
\* registered it, whatever the others registered and unregistered meanwhile.
THEOREM HandlesStayExclusive == Spec => []HandlesExclusive
<1>1. IInv => HandlesExclusive
  BY DEF IInv, HeldSound, HandlesExclusive, isIdValid, runnable, Slots
<1>2. QED
  BY <1>1, InvInit, InvStep, PTL DEF Spec

\* The free stack of CForwardMngr holds no id twice and none that a client holds.
THEOREM FreeListStaysSound == Spec => []FreeListSound
<1>1. IInv => FreeListSound
  BY DEF IInv, TableInv, HeldSound, FreeListSound, Distinct, Elems
<1>2. QED
  BY <1>1, InvInit, InvStep, PTL DEF Spec

\* unregisterSPForward, also when deferred to the end of a callback, loses no slot.
THEOREM SlotsNeverLost == Spec => []NoSlotLost
<1>1. IInv => NoSlotLost
  <2> SUFFICES ASSUME IInv, NEW s \in 1..Len(fm.sp)
               PROVE  \/ \E i \in 1..Len(fm.free) : fm.free[i] = s
                      \/ \E c \in Clients : live[c] /\ id[c] = s
                      \/ fm.sp[s].toDelete /\ OnStack(s)
    BY DEF NoSlotLost
  <2>1. s \in Elems(fm.free) \/ Held(s) \/ (fm.sp[s].toDelete /\ s \in StackSlots)
    BY DEF IInv, SlotsCovered, MarksSound, Slots
  <2>2. QED
    BY <2>1 DEF Elems, Held, StackSlots, SlotsOf, OnStack
<1>2. QED
  BY <1>1, InvInit, InvStep, PTL DEF Spec

\* While CSPForward::execute runs a callback, the slot it reads again after
\* amx_Exec is neither freed nor given to another client, whatever the callback
\* and the executions nested in it unregister and register, unless the forward
\* was entered again.
THEOREM RunningSlotsKept == Spec => []RunningSlotKept
<1>1. IInv => RunningSlotKept
  BY DEF IInv, RunningSound, RunningSlotKept
<1>2. QED
  BY <1>1, InvInit, InvStep, PTL DEF Spec

-----------------------------------------------------------------------------
(* The prepared arrays.                                                     *)

\* The array of an execution is still the one it prepared.
Kept(i) == /\ stack[i].arr >= 0
           /\ ~stack[i].nested
           /\ \A j \in i+1..Len(stack) : stack[j].arr # -1

\* ... and prepareArray hands out entries above it only.
ArraysBelowNum ==
  \A i \in 1..Len(stack) : Kept(i) =>
    m_TmpArrays[stack[i].arr] = i /\ stack[i].arr < m_TmpArraysNum

\* Entering an execution writes no array that is in use.
LEMMA EnterArrays ==
  ASSUME TypeOK, ArraysBelowNum, NEW c \in Clients \union {AllPlugins}, NEW s \in Nat,
         NEW h \in BOOLEAN, Enter(c, s, h)
  PROVE  ArraysBelowNum'
<1>n. PICK n : Opened(c, s, h, n)
  BY EnterFrames, Zenon
<1>f. /\ n \in Nat \ {0} /\ Len(stack) = n - 1 /\ Len(stack') = n
      /\ stack'[n].arr = Params(h).arr
  BY <1>n DEF Opened
<1>b. \A i \in 1..Len(stack) : stack'[i].arr = stack[i].arr /\ stack'[i].nested = stack[i].nested
  BY EnterBelow
<1>1. /\ n \in Nat \ {0} /\ Len(stack) = n - 1 /\ Len(stack') = n
      /\ \A i \in 1..Len(stack) : stack'[i].arr = stack[i].arr /\ stack'[i].nested = stack[i].nested
      /\ stack'[n].arr = Params(h).arr
      /\ m_TmpArraysNum' = Params(h).num /\ m_TmpArrays' = Params(h).tmp
  BY <1>f, <1>b DEF Enter
<1>t. /\ m_TmpArraysNum \in 0..FORWARD_MAX_PARAMS /\ m_TmpArrays \in [Entries -> Nat]
      /\ FORWARD_MAX_PARAMS \in Nat
      /\ \A i \in 1..Len(stack) : stack[i].arr \in Entries \union {-1, NoArray}
  <2>1. stack \in Seq(Frame)
    BY DEF TypeOK
  <2>2. \A i \in 1..Len(stack) : stack[i] \in Frame
    BY <2>1, ElementOfSeq
  <2>3. QED
    BY <2>2, ParamsAssumption DEF TypeOK, Frame
<1>2. ASSUME NEW i \in 1..Len(stack), Kept(i)'
      PROVE  /\ Params(h).arr # -1 /\ m_TmpArrays[stack[i].arr] = i
             /\ stack[i].arr \in Entries /\ stack[i].arr < m_TmpArraysNum
             /\ stack'[i].arr = stack[i].arr
  <2>1. /\ stack[i].arr >= 0 /\ ~stack[i].nested
        /\ \A j \in i+1..n : stack'[j].arr # -1
    BY <1>1, <1>2 DEF Kept
  <2>2. n \in i+1..n /\ \A j \in i+1..Len(stack) : j \in i+1..n /\ j \in 1..Len(stack)
    BY <1>1
  <2>3. Kept(i) /\ Params(h).arr # -1
    BY <1>1, <2>1, <2>2 DEF Kept
  <2>4. stack[i].arr \in Entries
    BY <1>t, <2>1 DEF NoArray
  <2>5. QED
    BY <1>1, <2>3, <2>4 DEF ArraysBelowNum
<1>3. CASE h /\ m_TmpArraysNum < FORWARD_MAX_PARAMS
  <2>1. /\ Params(h).arr = m_TmpArraysNum /\ m_TmpArraysNum' = m_TmpArraysNum + 1
        /\ m_TmpArrays' = [m_TmpArrays EXCEPT ![m_TmpArraysNum] = n]
    BY <1>1, <1>3, <1>t DEF Params, prepareArray
  <2>2. m_TmpArraysNum \in Entries
    BY <1>3, <1>t DEF Entries
  <2>3. SUFFICES ASSUME NEW i \in 1..n, Kept(i)'
                 PROVE  m_TmpArrays'[stack'[i].arr] = i /\ stack'[i].arr < m_TmpArraysNum'
    BY <1>1 DEF ArraysBelowNum
  <2>4. CASE i = n
    BY <1>1, <1>t, <2>1, <2>2, <2>4
  <2>5. CASE i # n
    <3>1. i \in 1..Len(stack)
      BY <1>1, <2>5
    <3>2. /\ m_TmpArrays[stack[i].arr] = i /\ stack[i].arr \in Entries
          /\ stack[i].arr < m_TmpArraysNum /\ stack'[i].arr = stack[i].arr
      BY <1>2, <2>3, <3>1
    <3>3. stack[i].arr < m_TmpArraysNum + 1 /\ stack[i].arr # m_TmpArraysNum
      BY <1>t, <3>2 DEF Entries
    <3>4. QED
      BY <1>t, <2>1, <3>2, <3>3
  <2>6. QED
    BY <2>4, <2>5
<1>4. CASE h /\ ~(m_TmpArraysNum < FORWARD_MAX_PARAMS)
  <2>1. Params(h).arr = -1
    BY <1>4, <1>t DEF Params, prepareArray
  <2>2. \A i \in 1..n : i \in 1..Len(stack) \/ i = n
    BY <1>1
  <2>3. ~Kept(n)'
    BY <1>1, <2>1 DEF Kept
  <2>4. QED
    BY <1>1, <1>2, <2>1, <2>2, <2>3 DEF ArraysBelowNum
<1>5. CASE ~h
  <2>1. Params(h).arr = NoArray /\ m_TmpArraysNum' = m_TmpArraysNum /\ m_TmpArrays' = m_TmpArrays
    BY <1>1, <1>5 DEF Params
  <2>2. \A i \in 1..n : i \in 1..Len(stack) \/ i = n
    BY <1>1
  <2>3. ~Kept(n)'
    BY <1>1, <2>1 DEF Kept, NoArray
  <2>4. QED
    BY <1>1, <1>2, <2>1, <2>2, <2>3 DEF ArraysBelowNum
<1>6. QED
  BY <1>3, <1>4, <1>5

\* Every end of an execution resets m_TmpArraysNum and marks those around it.
LEMMA ArraysStep == IInv /\ ArraysBelowNum /\ [Next]_vars => ArraysBelowNum'
<1> SUFFICES ASSUME IInv, ArraysBelowNum, [Next]_vars PROVE ArraysBelowNum'
  OBVIOUS
<1>t. TypeOK /\ stack \in Seq(Frame) /\ id \in [Clients -> Nat]
  BY DEF IInv, TypeOK
<1>1. CASE UNCHANGED <<m_TmpArraysNum, m_TmpArrays, stack>>
  BY <1>1 DEF ArraysBelowNum, Kept
<1>2. ASSUME NEW c \in Clients, NEW h \in BOOLEAN, executeSP(c, h) PROVE ArraysBelowNum'
  <2>1. id[c] \in Nat /\ Enter(c, id[c], h)
    BY <1>2, <1>t DEF executeSP
  <2>2. QED
    BY <1>t, <2>1, EnterArrays
<1>3. ASSUME NEW h \in BOOLEAN, executeNormal(h) PROVE ArraysBelowNum'
  BY <1>3, <1>t, EnterArrays DEF executeNormal
<1>4. ASSUME NEW st \in Seq(Frame), stack' = NestedReturned(st) PROVE ArraysBelowNum'
  <2>1. Len(stack') = Len(st) /\ \A i \in 1..Len(st) : stack'[i].nested
    BY <1>4, NestedReturnedSlots
  <2>2. QED
    BY <2>1 DEF ArraysBelowNum, Kept
<1>5. ASSUME NEW c \in Clients, NEW h \in BOOLEAN, executeSPRefused(c, h) PROVE ArraysBelowNum'
  BY <1>4, <1>5, <1>t DEF executeSPRefused
<1>6. CASE executeReturn
  BY <1>4, <1>6, <1>t, PopFrame DEF executeReturn
<1>7. CASE clear
  <2>1. Len(stack') = 0
    BY <1>7 DEF clear
  <2>2. QED
    BY <2>1 DEF ArraysBelowNum
<1>8. QED
  BY <1>1, <1>2, <1>3, <1>5, <1>6, <1>7
     DEF Next, registerSPForwardFound, registerSPForwardMissing, Unregister, duplicateSPForward, vars

\* The array handed to a callback is the array copied back after it: no
\* execution nested in the callback is given the same entry of m_TmpArrays,
\* until one that returns or is refused resets the counter.
THEOREM ArraysKeptUntilReset == Spec => []ArrayKeptUntilReset
<1>1. Init => ArraysBelowNum
  <2>1. Init => Len(stack) = 0
    BY DEF Init
  <2>2. QED
    BY <2>1 DEF ArraysBelowNum
<1>2. ArraysBelowNum => ArrayKeptUntilReset
  BY DEF ArraysBelowNum, ArrayKeptUntilReset, Kept
<1>3. QED
  BY <1>1, <1>2, InvInit, InvStep, ArraysStep, PTL DEF Spec
=============================================================================
