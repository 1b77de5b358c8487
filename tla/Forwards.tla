------------------------------ MODULE Forwards ------------------------------
(***************************************************************************)
(* The forward manager (CForwardMngr, amxmodx/CForward.cpp) used by clients *)
(* that nest: plugins, modules and the core register single-plugin          *)
(* forwards, execute them, and unregister them, also from inside a running  *)
(* callback.  There is one thread; what interleaves are the calls a         *)
(* callback makes before it returns, so the state has the stack of the      *)
(* executions in progress.                                                  *)
(***************************************************************************)
EXTENDS ForwardTable, Integers

CONSTANTS
  Clients,             \* registrations: who may hold a forward
  MaxSlots,            \* bound: size of m_SPForwards
  MaxDepth,            \* bound: executions nested in each other
  FORWARD_MAX_PARAMS   \* size of m_TmpArrays

ASSUME BoundsAssumption == MaxSlots \in Nat /\ MaxDepth \in Nat
ASSUME ParamsAssumption == FORWARD_MAX_PARAMS \in Nat \ {0}

VARIABLES
  fm,              \* m_SPForwards and m_FreeSPForwards
  m_TmpArraysNum,  \* prepared arrays
  m_TmpArrays,     \* entry -> nesting level of the call that prepared it
  id,              \* client -> the id it was given, 0 before
  live,            \* client -> it has registered and not unregistered
  stack            \* executions in progress, outermost first

vars == <<fm, m_TmpArraysNum, m_TmpArrays, id, live, stack>>

Entries == 0..FORWARD_MAX_PARAMS - 1

\* One execution.  slot is 0 for a normal forward (CForward, all plugins);
\* arr is the result of prepareArray, NoArray without an array parameter.
\* Two history fields: a nested execution has returned since this one began;
\* this forward was entered again while it ran.
NoArray == -2
AllPlugins == "all"
Frame == [client : Clients \union {AllPlugins}, slot : Nat, arr : Entries \union {-1, NoArray},
          nested : BOOLEAN, again : BOOLEAN]

TypeOK == /\ fm \in FMType(Clients)
          /\ m_TmpArraysNum \in 0..FORWARD_MAX_PARAMS
          /\ m_TmpArrays \in [Entries -> Nat]
          /\ id \in [Clients -> Nat]
          /\ live \in [Clients -> BOOLEAN]
          /\ stack \in Seq(Frame)

Init == /\ fm = EmptyFM
        /\ m_TmpArraysNum = 0
        /\ m_TmpArrays = [e \in Entries |-> 0]
        /\ id = [c \in Clients |-> 0]
        /\ live = [c \in Clients |-> FALSE]
        /\ stack = <<>>

Executing(c) == \E i \in 1..Len(stack) : stack[i].client = c /\ stack[i].slot # 0
OnStack(s)   == \E i \in 1..Len(stack) : stack[i].slot = s

-----------------------------------------------------------------------------
(* Registration.                                                            *)

\* By function number, or by a name the plugin has.
registerSPForwardFound(c) ==
  LET r == registerSPForward(fm, c, TRUE)
  IN  /\ ~live[c] /\ ~Executing(c)
      /\ r.id <= MaxSlots
      /\ fm' = r.fm
      /\ id' = [id EXCEPT ![c] = r.id]
      /\ live' = [live EXCEPT ![c] = TRUE]
      /\ UNCHANGED <<m_TmpArraysNum, m_TmpArrays, stack>>

\* By a name the plugin does not have: the caller gets -1.
registerSPForwardMissing(c) ==
  /\ ~live[c] /\ ~Executing(c) /\ id[c] = 0
  /\ fm' = registerSPForward(fm, c, FALSE).fm
  /\ UNCHANGED <<m_TmpArraysNum, m_TmpArrays, id, live, stack>>

\* c gets a copy of d's forward.
duplicateSPForward(c, d) ==
  /\ live[d] /\ isIdValid(fm, id[d]) /\ ~fm.sp[id[d]].isFree
  /\ registerSPForwardFound(c)

Unregister(c) ==
  /\ live[c]
  /\ fm' = unregisterSPForward(fm, id[c])
  /\ live' = [live EXCEPT ![c] = FALSE]
  /\ UNCHANGED <<m_TmpArraysNum, m_TmpArrays, id, stack>>

\* CForwardMngr::clear, between executions; the clients are gone with it.
clear == /\ stack = <<>>
         /\ fm' = EmptyFM
         /\ m_TmpArraysNum' = 0
         /\ id' = [c \in Clients |-> 0]
         /\ live' = [c \in Clients |-> FALSE]
         /\ UNCHANGED <<m_TmpArrays, stack>>

-----------------------------------------------------------------------------
(* Execution.  The caller prepares its array and executes in one go.        *)

\* Fault: the index is handed out and not advanced.
prepareArray_NoAdvance ==
  IF m_TmpArraysNum >= FORWARD_MAX_PARAMS
  THEN [arr |-> -1, num |-> 0, tmp |-> m_TmpArrays]
  ELSE [arr |-> m_TmpArraysNum, num |-> m_TmpArraysNum,
        tmp |-> [m_TmpArrays EXCEPT ![m_TmpArraysNum] = Len(stack) + 1]]

\* Fault: the limit is not tested.
prepareArray_NoLimit ==
  [arr |-> m_TmpArraysNum, num |-> m_TmpArraysNum + 1,
   tmp |-> [m_TmpArrays EXCEPT ![m_TmpArraysNum] = Len(stack) + 1]]

\* prepareArray: beyond the limit the counter is reset and -1 returned.
prepareArray ==
  IF m_TmpArraysNum >= FORWARD_MAX_PARAMS
  THEN [arr |-> -1, num |-> 0, tmp |-> m_TmpArrays]
  ELSE [arr |-> m_TmpArraysNum, num |-> m_TmpArraysNum + 1,
        tmp |-> [m_TmpArrays EXCEPT ![m_TmpArraysNum] = Len(stack) + 1]]

\* The parameters of a call: at most one array.
Params(hasArray) ==
  IF hasArray THEN prepareArray
  ELSE [arr |-> NoArray, num |-> m_TmpArraysNum, tmp |-> m_TmpArrays]

\* The frames below an execution that has returned.
NestedReturned(frames) == [i \in DOMAIN frames |-> [frames[i] EXCEPT !.nested = TRUE]]

\* The frames below an execution of slot s that begins.
EnteredAgain(s) == [i \in DOMAIN stack |->
                      [stack[i] EXCEPT !.again = @ \/ (s # 0 /\ stack[i].slot = s)]]

\* execute is entered with slot s (0: a normal forward) for client c.
Enter(c, s, hasArray) ==
  LET p == Params(hasArray)
  IN  /\ Len(stack) < MaxDepth
      /\ m_TmpArraysNum' = p.num
      /\ m_TmpArrays' = p.tmp
      /\ stack' = Append(EnteredAgain(s), [client |-> c, slot |-> s, arr |-> p.arr,
                                           nested |-> FALSE, again |-> FALSE])
      /\ UNCHANGED <<id, live>>

\* executeForwards on an SP forward whose function is called.
executeSP(c, hasArray) ==
  /\ live[c] /\ runnable(fm, id[c])
  /\ fm' = beginExec(fm, id[c])
  /\ Enter(c, id[c], hasArray)

\* The plugin is paused (isExecutable fails): nothing is called, but the rest
\* of executeForwards is done.
executeSPRefused(c, hasArray) ==
  /\ live[c]
  /\ fm' = afterExec(fm, id[c])
  /\ m_TmpArrays' = Params(hasArray).tmp
  /\ m_TmpArraysNum' = 0
  /\ stack' = NestedReturned(stack)
  /\ UNCHANGED <<id, live>>

\* executeForwards on a normal forward: no slot is involved.
executeNormal(hasArray) == Enter(AllPlugins, 0, hasArray) /\ UNCHANGED fm

\* The innermost callback returns: end of execute, rest of executeForwards.
executeReturn ==
  /\ stack # <<>>
  /\ LET s == stack[Len(stack)].slot
     IN  fm' = IF s = 0 THEN fm ELSE endExec(fm, s)
  /\ m_TmpArraysNum' = 0
  /\ stack' = NestedReturned(SubSeq(stack, 1, Len(stack) - 1))
  /\ UNCHANGED <<m_TmpArrays, id, live>>

Next == \/ \E c \in Clients : \/ registerSPForwardFound(c)
                              \/ registerSPForwardMissing(c)
                              \/ Unregister(c)
        \/ \E c, d \in Clients : duplicateSPForward(c, d)
        \/ \E c \in Clients, hasArray \in BOOLEAN : \/ executeSP(c, hasArray)
                                                  \/ executeSPRefused(c, hasArray)
        \/ \E hasArray \in BOOLEAN : executeNormal(hasArray)
        \/ executeReturn
        \/ clear

Spec == Init /\ [][Next]_vars

-----------------------------------------------------------------------------
(* Properties.                                                              *)

\* A client that holds a forward is the only one with its id, and the slot
\* still has what the client registered: executing the id runs that client's
\* function and nobody else's, whatever the other clients did in between.
HandlesExclusive ==
  \A c \in Clients : live[c] =>
    /\ isIdValid(fm, id[c])
    /\ fm.sp[id[c]].reg = c
    /\ runnable(fm, id[c])
    /\ \A d \in Clients : live[d] /\ id[d] = id[c] => d = c

\* The free stack never holds an id twice and never one that is held.
FreeListSound ==
  /\ \A i, j \in 1..Len(fm.free) : fm.free[i] = fm.free[j] => i = j
  /\ \A i \in 1..Len(fm.free), c \in Clients : live[c] => id[c] # fm.free[i]

\* Every slot is on the free stack, held by a client, or waiting for the end of
\* its own callback: unregistering loses no slot.
NoSlotLost ==
  \A s \in 1..Len(fm.sp) :
    \/ \E i \in 1..Len(fm.free) : fm.free[i] = s
    \/ \E c \in Clients : live[c] /\ id[c] = s
    \/ fm.sp[s].toDelete /\ OnStack(s)

\* While a callback runs, its slot is neither freed nor given to another
\* client, although the callback may unregister the forward, unless the
\* forward was entered again from inside: execute uses m_Amx, m_NumParams and
\* m_ParamTypes of the slot after the callback returned.
RunningSlotKept ==
  \A i \in 1..Len(stack) :
    (stack[i].slot # 0 /\ ~stack[i].again) =>
      /\ fm.sp[stack[i].slot].reg = stack[i].client
      /\ ~fm.sp[stack[i].slot].isFree

\* The array handed to a callback is the array that is copied back when it
\* returns, as long as no execution nested in the callback has returned and
\* none of those in progress was refused its array: both reset m_TmpArraysNum.
ArrayKeptUntilReset ==
  \A i \in 1..Len(stack) :
    (/\ stack[i].arr >= 0
     /\ ~stack[i].nested
     /\ \A j \in i+1..Len(stack) : stack[j].arr # -1)
       => m_TmpArrays[stack[i].arr] = i
=============================================================================
