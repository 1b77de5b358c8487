---------------------------- MODULE ForwardTable ----------------------------
(***************************************************************************)
(* The table of single-plugin forwards of CForwardMngr                      *)
(* (amxmodx/CForward.cpp) as a value: fm.sp is m_SPForwards, fm.free is     *)
(* m_FreeSPForwards with the top of the stack first.  Forwards drives it    *)
(* with arbitrary clients, Tasks with the task scheduler.                   *)
(*                                                                          *)
(* A forward id is modelled by its index 1, 2, ... in m_SPForwards: the     *)
(* code's id is (index << 1) | 1, and 0 here is the code's -1.  The field   *)
(* reg stands for what Set stores of one registration: m_Amx, m_Func,       *)
(* m_NumParams, m_ParamTypes and m_Name.                                    *)
(***************************************************************************)
EXTENDS Naturals, Sequences

Slot(Regs) == [reg : Regs, hasFunc : BOOLEAN, isFree : BOOLEAN,
               toDelete : BOOLEAN, inExec : BOOLEAN]

FMType(Regs) == [sp : Seq(Slot(Regs)), free : Seq(Nat)]

EmptyFM == [sp |-> <<>>, free |-> <<>>]

\* CSPForward::Set.  It marks the slot used even when the function is missing.
Set(reg, found) == [reg |-> reg, hasFunc |-> found, isFree |-> FALSE,
                    toDelete |-> FALSE, inExec |-> FALSE]

\* Fault: the reused id stays on the free stack.
registerSPForward_NoPop(fm, reg, found) ==
  IF fm.free # <<>>
  THEN [fm |-> [fm EXCEPT !.sp[Head(fm.free)] = Set(reg, found)],
        id |-> IF found THEN Head(fm.free) ELSE 0]
  ELSE IF found
  THEN [fm |-> [fm EXCEPT !.sp = Append(@, Set(reg, TRUE))], id |-> Len(fm.sp) + 1]
  ELSE [fm |-> fm, id |-> 0]

\* Fault: the id of a new slot is one too small.
registerSPForward_OffByOne(fm, reg, found) ==
  IF fm.free = <<>> /\ found
  THEN [fm |-> [fm EXCEPT !.sp = Append(@, Set(reg, TRUE))], id |-> Len(fm.sp)]
  ELSE IF fm.free = <<>> THEN [fm |-> fm, id |-> 0]
  ELSE [fm |-> [sp |-> [fm.sp EXCEPT ![Head(fm.free)] = Set(reg, found)],
                free |-> IF found THEN Tail(fm.free) ELSE fm.free],
        id |-> IF found THEN Head(fm.free) ELSE 0]

\* registerSPForward: the top of the free stack is Set and, only if the
\* function was found, popped; with no free slot a new one is appended.
registerSPForward(fm, reg, found) ==
  IF fm.free # <<>>
  THEN LET id == Head(fm.free)
           sp == [fm.sp EXCEPT ![id] = Set(reg, found)]
       IN  IF found
           THEN [fm |-> [sp |-> sp, free |-> Tail(fm.free)], id |-> id]
           ELSE [fm |-> [sp |-> sp, free |-> fm.free], id |-> 0]
  ELSE IF found
  THEN [fm |-> [sp |-> Append(fm.sp, Set(reg, TRUE)), free |-> <<>>],
        id |-> Len(fm.sp) + 1]
  ELSE [fm |-> fm, id |-> 0]

isIdValid(fm, id) == id \in 1..Len(fm.sp)

\* Fault: a forward is freed although its callback is running.
unregisterSPForward_InExec(fm, id) ==
  IF ~isIdValid(fm, id) \/ fm.sp[id].isFree
  THEN fm
  ELSE [sp |-> [fm.sp EXCEPT ![id].isFree = TRUE], free |-> <<id>> \o fm.free]

unregisterSPForward(fm, id) ==
  IF ~isIdValid(fm, id) \/ fm.sp[id].isFree
  THEN fm
  ELSE IF fm.sp[id].inExec
  THEN [fm EXCEPT !.sp[id].toDelete = TRUE]
  ELSE [sp |-> [fm.sp EXCEPT ![id].isFree = TRUE], free |-> <<id>> \o fm.free]

\* The early returns of CSPForward::execute that look at the slot.
runnable(fm, id) == ~fm.sp[id].isFree /\ fm.sp[id].hasFunc /\ ~fm.sp[id].toDelete

\* CSPForward::execute up to amx_Exec.
beginExec(fm, id) == [fm EXCEPT !.sp[id].inExec = TRUE]

\* Fault: a forward unregistered by its own callback is never freed.
endExec_NoDelete(fm, id) == [fm EXCEPT !.sp[id].inExec = FALSE]

\* What executeForwards does when execute has returned.
afterExec(fm, id) ==
  IF fm.sp[id].toDelete
  THEN unregisterSPForward([fm EXCEPT !.sp[id].toDelete = FALSE], id)
  ELSE fm

\* The end of CSPForward::execute, then the rest of executeForwards.
endExec(fm, id) == afterExec([fm EXCEPT !.sp[id].inExec = FALSE], id)
=============================================================================
