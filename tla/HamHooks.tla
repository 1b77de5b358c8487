------------------------------ MODULE HamHooks ------------------------------
(***************************************************************************)
(* Ham Sandwich: virtual functions of game classes hooked by plugins        *)
(* (hook.h, hook_native.cpp, hook_callbacks.cpp, call_funcs.cpp and          *)
(* DataHandler.cpp of dlls/hamsandwich).                                    *)
(*                                                                         *)
(* A function here is one entry of one class's vtable.  The functions       *)
(* Hook_... all have one shape, made of the same macros: push the return    *)
(* and parameter data, run the pre forwards, call the original unless one   *)
(* of them supercedes, run the post forwards, pop, and choose between ret   *)
(* and origret.  Callbacks and the original may cause further hooked calls, *)
(* so there is a frame for each call in progress; the four stacks of        *)
(* DataHandler.cpp hold pointers into frames, here their indices.           *)
(***************************************************************************)
EXTENDS Naturals, Sequences, FiniteSets, SequencesExt, FiniteSetsExt

CONSTANTS
  Functions,
  MaxForwards,  \* bound: forwards registered
  MaxDepth,     \* bound: calls in progress
  MaxExecuted,  \* bound: uses of ExecuteHam
  NULL

ASSUME HamAssumption == MaxForwards \in Nat /\ MaxDepth \in Nat /\ MaxExecuted \in Nat

VARIABLES
  hooks,        \* function |-> its Hook, or NULL when its entry is the original
  state,        \* handle |-> fwdstate: OK or STOP
  frames,       \* the calls in progress, innermost last
  ReturnStack,  \* and OrigReturnStack, pushed and popped with it
  ParamStack,
  ReturnStatus,
  gDoForwards,
  executed,     \* history: uses of ExecuteHam
  skipped       \* history: hooked calls that ran no forwards

stacks == <<ReturnStack, ParamStack, ReturnStatus>>
vars == <<hooks, state, frames, stacks, gDoForwards, executed, skipped>>

HAM_UNSET == 0
HAM_OVERRIDE == 3
HAM_SUPERCEDE == 4
\* What a callback returns; HAM_IGNORED and HAM_HANDLED are like HAM_UNSET.  An
\* aborted callback returns what the uninitialized retVal of CSPForward holds.
Results == {HAM_UNSET, HAM_OVERRIDE, HAM_SUPERCEDE}

Init ==
  /\ hooks = [f \in Functions |-> NULL]
  /\ state = <<>>
  /\ frames = <<>>
  /\ ReturnStack = <<>> /\ ParamStack = <<>> /\ ReturnStatus = <<>>
  /\ gDoForwards = TRUE
  /\ executed = 0 /\ skipped = 0

(***************************************************************************)
(* Frames.  ret and param hold the index of the call whose callback set     *)
(* them, 0 when none did; returned collects what the pre forwards returned. *)
(* An original called by ExecuteHam without a hook is a frame of its own,    *)
(* in which only the game runs.                                             *)
(***************************************************************************)
HookFrame(f, do) == [func |-> f, hooked |-> TRUE, DoForwards |-> do, pc |-> "pre", i |-> 1,
                     callback |-> FALSE, result |-> HAM_UNSET, thisresult |-> HAM_UNSET,
                     ret |-> 0, origret |-> FALSE, param |-> 0, returned |-> {}]
PlainFrame(f) == [HookFrame(f, FALSE) EXCEPT !.hooked = FALSE, !.pc = "func"]

Top == Last(frames)
At(pc) == frames # <<>> /\ Top.pc = pc
InCallback == frames # <<>> /\ Top.callback
InPlugin == frames = <<>> \/ InCallback
InGame == frames = <<>> \/ At("func")
SetTop(fr) == frames' = [frames EXCEPT ![Len(frames)] = fr]

(***************************************************************************)
(* Registration.                                                            *)
(***************************************************************************)
\* Left out: a callback that registers for the list it is run from.  The loop of
\* the call has iterators into the vector, which push_back may move.
Walked(f, list) == \E d \in DOMAIN frames : frames[d].func = f /\ frames[d].pc = list

NewHook == [pre |-> <<>>, post |-> <<>>]

RegisterHam(f, list) ==
  /\ InPlugin
  /\ Len(state) < MaxForwards /\ ~Walked(f, list)
  /\ state' = Append(state, "OK")
  /\ LET hook == IF hooks[f] = NULL THEN NewHook ELSE hooks[f]
     IN hooks' = [hooks EXCEPT ![f] = [hook EXCEPT ![list] = Append(@, Len(state) + 1)]]
  /\ UNCHANGED <<frames, stacks, gDoForwards, executed, skipped>>

DisableHamForward(h) ==
  /\ InPlugin
  /\ state' = [state EXCEPT ![h] = "STOP"]
  /\ UNCHANGED <<hooks, frames, stacks, gDoForwards, executed, skipped>>

EnableHamForward(h) ==
  /\ InPlugin
  /\ state' = [state EXCEPT ![h] = "OK"]
  /\ UNCHANGED <<hooks, frames, stacks, gDoForwards, executed, skipped>>

(* Fault: the forwards are deleted, the list of hooks is not cleared. *)
OnPluginsUnloaded_Fault ==
  /\ frames = <<>>
  /\ state' = <<>>
  /\ UNCHANGED <<hooks, frames, stacks, gDoForwards, executed, skipped>>

OnPluginsUnloaded ==
  /\ frames = <<>>
  /\ hooks' = [f \in Functions |-> NULL]
  /\ state' = <<>>
  /\ UNCHANGED <<frames, stacks, gDoForwards, executed, skipped>>

(***************************************************************************)
(* A hooked call starts: the trampoline calls Hook_..., which pushes its     *)
(* data and takes gDoForwards for itself.                                   *)
(***************************************************************************)
(* Fault: gDoForwards is read and not set again. *)
Enter_Fault(f, do) ==
  /\ Len(frames) < MaxDepth
  /\ frames' = Append(frames, HookFrame(f, do))
  /\ ReturnStack' = Append(ReturnStack, Len(frames) + 1)
  /\ ParamStack' = Append(ParamStack, Len(frames) + 1)
  /\ ReturnStatus' = Append(ReturnStatus, Len(frames) + 1)
  /\ gDoForwards' = do
  /\ skipped' = IF do THEN skipped ELSE skipped + 1
  /\ UNCHANGED <<hooks, state>>

Enter(f, do) ==
  /\ Len(frames) < MaxDepth
  /\ frames' = Append(frames, HookFrame(f, do))
  /\ ReturnStack' = Append(ReturnStack, Len(frames) + 1)
  /\ ParamStack' = Append(ParamStack, Len(frames) + 1)
  /\ ReturnStatus' = Append(ReturnStatus, Len(frames) + 1)
  /\ gDoForwards' = TRUE
  /\ skipped' = IF do THEN skipped ELSE skipped + 1
  /\ UNCHANGED <<hooks, state>>

GameCall(f) ==
  /\ InGame /\ hooks[f] # NULL
  /\ Enter(f, gDoForwards)
  /\ UNCHANGED executed

\* SETUP: a function that is not hooked needs no forwards kept away.
Call(f, do) ==
  \/ hooks[f] # NULL /\ Enter(f, do)
  \/ /\ hooks[f] = NULL /\ Len(frames) < MaxDepth
     /\ frames' = Append(frames, PlainFrame(f))
     /\ gDoForwards' = TRUE
     /\ UNCHANGED <<hooks, state, stacks, skipped>>

ExecuteHam(f) ==
  /\ InPlugin /\ executed < MaxExecuted
  /\ executed' = executed + 1
  /\ Call(f, FALSE)

ExecuteHamB(f) ==
  /\ InPlugin
  /\ Call(f, TRUE)
  /\ UNCHANGED executed

(***************************************************************************)
(* What a callback sets goes to the call on top of the stacks.              *)
(***************************************************************************)
SetHamReturn ==
  /\ InCallback
  /\ frames' = [frames EXCEPT ![Last(ReturnStack)].ret = Len(frames)]
  /\ UNCHANGED <<hooks, state, stacks, gDoForwards, executed, skipped>>

SetHamParam ==
  /\ InCallback
  /\ frames' = [frames EXCEPT ![Last(ParamStack)].param = Len(frames)]
  /\ UNCHANGED <<hooks, state, stacks, gDoForwards, executed, skipped>>

(***************************************************************************)
(* The pre forwards.                                                        *)
(***************************************************************************)
Listed(list) == IF Top.DoForwards THEN hooks[Top.func][list] ELSE <<>>
Begins(list) == At(list) /\ ~Top.callback /\ Top.i <= Len(Listed(list))
Done(list) == At(list) /\ ~Top.callback /\ Top.i > Len(Listed(list))

\* PRE_END, also for a forward that was not run: thisresult is the last one's.
PRE_END(fr, r) == [fr EXCEPT !.thisresult = r, !.result = Max({@, r}),
                             !.callback = FALSE, !.i = @ + 1]

PreForward ==
  /\ Begins("pre")
  /\ SetTop(IF state[Listed("pre")[Top.i]] = "OK" THEN [Top EXCEPT !.callback = TRUE]
            ELSE PRE_END(Top, Top.thisresult))
  /\ UNCHANGED <<hooks, state, stacks, gDoForwards, executed, skipped>>

(* Fault: the last forward decides. *)
Blocked_Fault(fr) == fr.thisresult >= HAM_SUPERCEDE

Blocked(fr) == fr.result >= HAM_SUPERCEDE

CallOriginal ==
  /\ Done("pre")
  /\ SetTop([Top EXCEPT !.pc = IF Blocked(Top) THEN "post" ELSE "func", !.i = 1])
  /\ UNCHANGED <<hooks, state, stacks, gDoForwards, executed, skipped>>

OriginalReturns ==
  /\ At("func")
  /\ IF Top.hooked THEN SetTop([Top EXCEPT !.pc = "post", !.origret = TRUE])
     ELSE frames' = Front(frames)
  /\ UNCHANGED <<hooks, state, stacks, gDoForwards, executed, skipped>>

(***************************************************************************)
(* The post forwards.                                                       *)
(***************************************************************************)
PostForward ==
  /\ Begins("post")
  /\ SetTop(IF state[Listed("post")[Top.i]] = "OK" THEN [Top EXCEPT !.callback = TRUE]
            ELSE [Top EXCEPT !.i = @ + 1])
  /\ UNCHANGED <<hooks, state, stacks, gDoForwards, executed, skipped>>

(***************************************************************************)
(* A callback ends; what a post forward returns is not looked at.           *)
(***************************************************************************)
EndCallback(r) ==
  SetTop(IF Top.pc = "pre" THEN [PRE_END(Top, r) EXCEPT !.returned = @ \union {r}]
         ELSE [Top EXCEPT !.callback = FALSE, !.i = @ + 1])

CallbackReturns(r) ==
  /\ InCallback
  /\ EndCallback(r)
  /\ UNCHANGED <<hooks, state, stacks, gDoForwards, executed, skipped>>

\* CHECK_ENTITY and the other tests come after gDoForwards was set, and the
\* error they log ends the callback.
ExecuteHamRefused(do, r) ==
  /\ InPlugin
  /\ executed' = IF do THEN executed ELSE executed + 1
  /\ executed' <= MaxExecuted
  /\ gDoForwards' = do
  /\ IF InCallback THEN EndCallback(r) ELSE UNCHANGED frames
  /\ UNCHANGED <<hooks, state, stacks, skipped>>

(***************************************************************************)
(* The end of the call.                                                     *)
(***************************************************************************)
(* Fault: a call that was superceded leaves its return data behind. *)
Popped_Fault(s) == IF Top.result >= HAM_SUPERCEDE THEN s ELSE Front(s)

Popped(s) == Front(s)

\* POST_END, KILL_VECTOR and POP.
Pop ==
  /\ Done("post")
  /\ SetTop([Top EXCEPT !.pc = "return"])
  /\ ReturnStatus' = Front(ReturnStatus)
  /\ ParamStack' = Front(ParamStack)
  /\ ReturnStack' = Popped(ReturnStack)
  /\ UNCHANGED <<hooks, state, gDoForwards, executed, skipped>>

\* CHECK_RETURN: the original's value, or the one set.
ReturnsOriginal(fr) == fr.thisresult < HAM_OVERRIDE

Return ==
  /\ At("return")
  /\ frames' = Front(frames)
  /\ UNCHANGED <<hooks, state, stacks, gDoForwards, executed, skipped>>

Next ==
  \/ \E f \in Functions :
       \/ \E list \in {"pre", "post"} : RegisterHam(f, list)
       \/ GameCall(f)
       \/ ExecuteHam(f)
       \/ ExecuteHamB(f)
  \/ \E h \in DOMAIN state : DisableHamForward(h) \/ EnableHamForward(h)
  \/ OnPluginsUnloaded
  \/ SetHamReturn \/ SetHamParam
  \/ PreForward
  \/ \E r \in Results : \/ CallbackReturns(r)
                       \/ \E do \in BOOLEAN : ExecuteHamRefused(do, r)
  \/ CallOriginal \/ OriginalReturns
  \/ PostForward
  \/ Pop \/ Return

Spec == Init /\ [][Next]_vars

TypeOK ==
  /\ state \in Seq({"OK", "STOP"}) /\ Len(state) <= MaxForwards
  /\ \A f \in Functions : hooks[f] # NULL =>
       \A list \in {"pre", "post"} : hooks[f][list] \in Seq(DOMAIN state)
  /\ \A d \in DOMAIN frames :
       /\ frames[d].func \in Functions
       /\ frames[d].pc \in {"pre", "func", "post", "return"}
       /\ {frames[d].result, frames[d].thisresult} \union frames[d].returned \subseteq Results
       /\ {frames[d].ret, frames[d].param} \subseteq 0..MaxDepth
  /\ executed \in 0..MaxExecuted

(***************************************************************************)
(* Properties.                                                              *)
(***************************************************************************)
(* The four stacks: however calls nest, are superceded or skip their         *)
(* forwards, the natives of a callback find on top of each stack the call    *)
(* the callback was run for, and no call's data is touched by another's.     *)
HookStacks ==
  LET open == {d \in DOMAIN frames : frames[d].hooked /\ frames[d].pc # "return"}
  IN /\ \A s \in {ReturnStack, ParamStack, ReturnStatus} :
          Len(s) = Cardinality(open) /\ ToSet(s) = open /\ \A k \in 2..Len(s) : s[k-1] < s[k]
     /\ \A d \in DOMAIN frames : {frames[d].ret, frames[d].param} \subseteq {0, d}

(* HAM_SUPERCEDE, "block the target call": the original is called unless one *)
(* of the pre forwards returned it, the last or any before.                  *)
SupercedeBlocks ==
  \A d \in DOMAIN frames :
    LET fr == frames[d]
        supercedes == HAM_SUPERCEDE \in fr.returned
    IN fr.hooked => /\ fr.pc = "func" => ~supercedes
                    /\ fr.pc \in {"post", "return"} => (fr.origret <=> ~supercedes)

(* gDoForwards: a use of ExecuteHam keeps the forwards of at most one call   *)
(* from running, its own; a refused one keeps it for the next call.          *)
OneSkipPerExecuteHam == skipped + (IF gDoForwards THEN 0 ELSE 1) <= executed

(* HAM_OVERRIDE and HAM_SUPERCEDE: the call returns "whatever is set with     *)
(* SetHamReturn" when one of the pre forwards returned one of them.          *)
OverrideHonoured ==
  \A d \in DOMAIN frames :
    LET fr == frames[d]
    IN /\ fr.pc = "return"
       /\ \E r \in fr.returned : r >= HAM_OVERRIDE
       => ~ReturnsOriginal(fr)
=============================================================================
