--------------------------- MODULE HamHooksProofs ---------------------------
(***************************************************************************)
(* For any set of functions, any number of forwards and any depth of nested *)
(* calls the stacks of DataHandler.cpp belong to the call whose callbacks    *)
(* run, the original is called unless a pre forward superceded it, and a use *)
(* of ExecuteHam skips the forwards of one call at most.                     *)
(***************************************************************************)
EXTENDS HamHooks, SequenceTheorems, FiniteSetTheorems, TLAPS

CallFrame ==
  [func : Functions, hooked : BOOLEAN, DoForwards : BOOLEAN,
   pc : {"pre", "func", "post", "return"}, i : Nat, callback : BOOLEAN,
   result : Results, thisresult : Results, ret : Nat, origret : BOOLEAN,
   param : Nat, returned : SUBSET Results]

\* The lists of a hook hold handles of forwards that exist.
HooksSound ==
  /\ state \in Seq({"OK", "STOP"}) /\ Len(state) <= MaxForwards
  /\ DOMAIN hooks = Functions
  /\ \A f \in Functions : hooks[f] # NULL =>
       hooks[f] \in [pre : Seq(1..Len(state)), post : Seq(1..Len(state))]

\* One call: callbacks run before and after the original only, result is the
\* strongest of what the pre forwards returned, and the original was called
\* exactly when it stayed below HAM_SUPERCEDE.
FrameSound(fr) ==
  /\ fr \in CallFrame
  /\ fr.callback => fr.pc \in {"pre", "post"}
  /\ ~fr.hooked => fr.pc = "func"
  /\ fr.thisresult <= fr.result
  /\ fr.result = HAM_SUPERCEDE <=> HAM_SUPERCEDE \in fr.returned
  /\ fr.hooked /\ fr.pc = "func" => fr.result # HAM_SUPERCEDE
  /\ fr.pc \in {"pre", "func"} => ~fr.origret
  /\ fr.pc \in {"post", "return"} => (fr.origret <=> fr.result # HAM_SUPERCEDE)

\* A call that made another one is in a callback or in the original.
FramesSound ==
  /\ frames \in Seq(CallFrame) /\ Len(frames) <= MaxDepth
  /\ \A d \in 1..Len(frames) :
       /\ FrameSound(frames[d])
       /\ frames[d].ret \in {0, d} /\ frames[d].param \in {0, d}
       /\ d # Len(frames) => frames[d].pc # "return"

\* The calls that have data on the stacks.
OpenOf(frs) == {d \in 1..Len(frs) : frs[d].hooked /\ frs[d].pc # "return"}

\* A stack lists a set of calls from the outermost to the innermost.
Lists(s, S) ==
  /\ s \in Seq(Nat)
  /\ \A k \in 1..Len(s) : s[k] \in S
  /\ \A d \in S : \E k \in 1..Len(s) : s[k] = d
  /\ \A j, k \in 1..Len(s) : j < k => s[j] < s[k]

StacksSound ==
  /\ Lists(ReturnStack, OpenOf(frames))
  /\ Lists(ParamStack, OpenOf(frames))
  /\ Lists(ReturnStatus, OpenOf(frames))

CountsSound ==
  /\ executed \in 0..MaxExecuted /\ skipped \in Nat /\ gDoForwards \in BOOLEAN
  /\ OneSkipPerExecuteHam

IInv == HooksSound /\ FramesSound /\ StacksSound /\ CountsSound

-----------------------------------------------------------------------------
(* Stacks that list a set of calls.                                         *)

\* A call deeper than those listed is pushed.
LEMMA ListsPush ==
  ASSUME NEW s, NEW S \in SUBSET Nat, Lists(s, S), NEW n \in Nat, \A d \in S : d < n
  PROVE  Lists(Append(s, n), S \union {n})
<1>1. s \in Seq(Nat) /\ Len(s) \in Nat
  BY DEF Lists
<1>2. PICK t : t = Append(s, n)
  OBVIOUS
<1>3. /\ t \in Seq(Nat) /\ Len(t) = Len(s) + 1 /\ t[Len(s) + 1] = n
      /\ \A k \in 1..Len(s) : t[k] = s[k]
  BY <1>1, <1>2, AppendProperties
<1>4. \A k \in 1..Len(t) : k \in 1..Len(s) \/ k = Len(s) + 1
  BY <1>1, <1>3
<1>5. \A k \in 1..Len(t) : t[k] \in S \union {n}
  BY <1>3, <1>4 DEF Lists
<1>6. ASSUME NEW d \in S \union {n} PROVE \E k \in 1..Len(t) : t[k] = d
  <2>1. CASE d = n
    BY <1>1, <1>3, <2>1
  <2>2. CASE d \in S
    <3>1. PICK k \in 1..Len(s) : s[k] = d
      BY <2>2 DEF Lists
    <3>2. k \in 1..Len(t)
      BY <1>1, <1>3
    <3>3. QED
      BY <1>3, <3>1, <3>2
  <2>3. QED
    BY <2>1, <2>2
<1>7. ASSUME NEW j \in 1..Len(t), NEW k \in 1..Len(t), j < k PROVE t[j] < t[k]
  <2>1. j \in 1..Len(s)
    BY <1>1, <1>3, <1>7
  <2>2. t[j] = s[j] /\ s[j] \in S
    BY <1>3, <2>1 DEF Lists
  <2>3. CASE k = Len(s) + 1
    BY <1>3, <2>2, <2>3
  <2>4. CASE k \in 1..Len(s)
    BY <1>3, <1>7, <2>1, <2>4 DEF Lists
  <2>5. QED
    BY <1>4, <2>3, <2>4
<1>8. QED
  BY <1>2, <1>3, <1>5, <1>6, <1>7 DEF Lists

\* The innermost of the calls listed is on top, and popping removes it.
LEMMA ListsPop ==
  ASSUME NEW s, NEW S \in SUBSET Nat, Lists(s, S), NEW n \in S, \A d \in S : d <= n
  PROVE  /\ Last(s) = n
         /\ Lists(Front(s), S \ {n})
<1>1. s \in Seq(Nat) /\ Len(s) \in Nat
  BY DEF Lists
<1>2. PICK k \in 1..Len(s) : s[k] = n
  BY DEF Lists
<1>3. Len(s) \in 1..Len(s)
  BY <1>1, <1>2
<1>4. s[Len(s)] = n
  <2>1. s[Len(s)] \in S
    BY <1>3 DEF Lists
  <2>2. k < Len(s) => s[k] < s[Len(s)]
    BY <1>3 DEF Lists
  <2>3. QED
    BY <1>1, <1>2, <2>1, <2>2
<1>5. PICK t : t = Front(s)
  OBVIOUS
<1>6. PICK m \in Nat : m = Len(s) - 1
  <2>1. Len(s) - 1 \in Nat
    BY <1>1, <1>3
  <2>2. QED
    BY <2>1
<1>7. t \in Seq(Nat) /\ Len(t) = m /\ \A j \in 1..m : t[j] = s[j]
  <2>1. t = SubSeq(s, 1, m)
    BY <1>5, <1>6 DEF Front
  <2>2. \A j \in 1..m : j \in 1..Len(s)
    BY <1>1, <1>6
  <2>3. \A j \in 1..m : s[j] \in Nat
    BY <1>1, <2>2, ElementOfSeq
  <2>4. m + 1 = Len(s) /\ Len(s) \in Nat
    BY <1>1, <1>6
  <2>5. SubSeq(s, 1, m) \in Seq(Nat) /\ Len(SubSeq(s, 1, m)) = m
    BY <1>1, <2>3, <2>4
  <2>6. \A j \in 1..m : SubSeq(s, 1, m)[j] = s[j]
    BY <1>1, <2>4
  <2>7. QED
    BY <2>1, <2>5, <2>6
<1>8. \A j \in 1..m : j \in 1..Len(s) /\ j < Len(s)
  BY <1>1, <1>6
<1>9. \A j \in 1..Len(t) : t[j] \in S \ {n}
  <2> SUFFICES ASSUME NEW j \in 1..m PROVE s[j] \in S \ {n}
    BY <1>7
  <2>1. s[j] \in S /\ s[j] < s[Len(s)]
    BY <1>3, <1>8 DEF Lists
  <2>2. QED
    BY <1>4, <2>1
<1>10. ASSUME NEW d \in S \ {n} PROVE \E j \in 1..Len(t) : t[j] = d
  <2>1. PICK j \in 1..Len(s) : s[j] = d
    BY DEF Lists
  <2>2. j # Len(s)
    BY <1>4, <1>10, <2>1
  <2>3. j \in 1..m
    BY <1>1, <1>6, <2>2
  <2>4. QED
    BY <1>7, <2>1, <2>3
<1>11. ASSUME NEW i \in 1..Len(t), NEW j \in 1..Len(t), i < j PROVE t[i] < t[j]
  BY <1>7, <1>8, <1>11 DEF Lists
<1>12. QED
  BY <1>4, <1>5, <1>7, <1>9, <1>10, <1>11 DEF Lists, Last

\* What a stack lists it lists once.
LEMMA ListsCount ==
  ASSUME NEW s, NEW S, Lists(s, S)
  PROVE  /\ Len(s) = Cardinality(S)
         /\ ToSet(s) = S
         /\ \A k \in 2..Len(s) : s[k-1] < s[k]
<1>1. s \in Seq(Nat) /\ Len(s) \in Nat /\ DOMAIN s = 1..Len(s)
  BY LenProperties DEF Lists
<1>2. \A k \in 1..Len(s) : s[k] \in Nat
  BY <1>1, ElementOfSeq
<1>3. s \in [1..Len(s) -> S]
  BY <1>1, LenProperties DEF Lists
<1>4. ASSUME NEW j \in 1..Len(s), NEW k \in 1..Len(s), s[j] = s[k] PROVE j = k
  <2>1. j < k => s[j] < s[k]
    BY DEF Lists
  <2>2. k < j => s[k] < s[j]
    BY DEF Lists
  <2>3. QED
    BY <1>1, <1>2, <1>4, <2>1, <2>2
<1>5. s \in Bijection(1..Len(s), S)
  BY <1>1, <1>3, <1>4 DEF Bijection, Injection, IsInjective, Surjection, Lists
<1>6. Len(s) = Cardinality(S)
  BY <1>1, <1>5, FS_CountingElements DEF ExistsBijection
<1>7. ToSet(s) = S
  BY <1>1 DEF ToSet, Lists
<1>8. ASSUME NEW k \in 2..Len(s) PROVE s[k-1] < s[k]
  <2>1. k - 1 \in 1..Len(s) /\ k \in 1..Len(s) /\ k - 1 < k
    BY <1>1
  <2>2. QED
    BY <2>1 DEF Lists
<1>9. QED
  BY <1>6, <1>7, <1>8

-----------------------------------------------------------------------------
(* Frames.                                                                  *)

\* PRE_END keeps the stronger of two results.
LEMMA MaxResult ==
  ASSUME NEW a \in Results, NEW b \in Results
  PROVE  /\ Max({a, b}) \in Results
         /\ Max({a, b}) >= a /\ Max({a, b}) >= b
         /\ Max({a, b}) \in {a, b}
<1>1. a \in Nat /\ b \in Nat
  BY DEF Results, HAM_UNSET, HAM_OVERRIDE, HAM_SUPERCEDE
<1>2. \E x \in {a, b} : \A y \in {a, b} : x >= y
  <2>1. CASE a >= b
    BY <1>1, <2>1
  <2>2. CASE ~(a >= b)
    BY <1>1, <2>2
  <2>3. QED
    BY <2>1, <2>2
<1>3. Max({a, b}) \in {a, b} /\ \A y \in {a, b} : Max({a, b}) >= y
  BY <1>2 DEF Max
<1>4. QED
  BY <1>3

\* The calls with data on the stacks are among those in progress.
LEMMA OpenSubset ==
  ASSUME NEW frs \in Seq(CallFrame)
  PROVE  OpenOf(frs) \in SUBSET Nat /\ \A d \in OpenOf(frs) : d \in 1..Len(frs)
  BY DEF OpenOf

\* Steps that change the innermost call and none of the stacks.
LEMMA TopStep ==
  ASSUME FramesSound, StacksSound, frames # <<>>, NEW fr, FrameSound(fr),
         fr.ret \in {0, Len(frames)}, fr.param \in {0, Len(frames)},
         fr.hooked = Top.hooked, fr.pc # "return", Top.pc # "return",
         SetTop(fr), UNCHANGED stacks
  PROVE  FramesSound' /\ StacksSound'
<1>1. frames \in Seq(CallFrame) /\ fr \in CallFrame
  BY DEF FramesSound, FrameSound
<1>2. PICK n : n = Len(frames)
  OBVIOUS
<1>3. n \in Nat \ {0} /\ n \in 1..n
  BY <1>1, <1>2, EmptySeq
<1>4. /\ frames' \in Seq(CallFrame) /\ Len(frames') = n /\ frames'[n] = fr
      /\ \A d \in 1..n : d # n => frames'[d] = frames[d]
  BY <1>1, <1>2, <1>3, ExceptSeq DEF SetTop
<1>5. FramesSound'
  BY <1>2, <1>3, <1>4 DEF FramesSound
<1>6. OpenOf(frames') = OpenOf(frames)
  BY <1>2, <1>3, <1>4 DEF OpenOf, Top, Last
<1>7. QED
  BY <1>5, <1>6 DEF StacksSound, stacks

\* A call begins: n is its depth.
LEMMA PushStep ==
  ASSUME FramesSound, NEW fr, FrameSound(fr), fr.ret = 0, fr.param = 0,
         fr.pc # "return", frames = <<>> \/ Top.pc # "return", Len(frames) < MaxDepth,
         frames' = Append(frames, fr), NEW n, n = Len(frames) + 1
  PROVE  /\ FramesSound'
         /\ n \in Nat /\ OpenOf(frames) \in SUBSET Nat /\ \A d \in OpenOf(frames) : d < n
         /\ OpenOf(frames') = OpenOf(frames) \union (IF fr.hooked THEN {n} ELSE {})
<1>1. frames \in Seq(CallFrame) /\ fr \in CallFrame /\ Len(frames) \in Nat
  BY DEF FramesSound, FrameSound
<1>2. /\ frames' \in Seq(CallFrame) /\ Len(frames') = n /\ frames'[n] = fr
      /\ \A d \in 1..n - 1 : frames'[d] = frames[d]
      /\ n \in Nat \ {0} /\ Len(frames) = n - 1
  BY <1>1, AppendProperties
<1>3. n <= MaxDepth
  BY <1>1, HamAssumption
<1>4. \A d \in 1..n : d = n \/ d \in 1..n - 1
  BY <1>2
<1>5. \A d \in 1..n - 1 : frames[d].pc # "return"
  <2> SUFFICES ASSUME NEW d \in 1..n - 1 PROVE frames[d].pc # "return"
    OBVIOUS
  <2>1. frames # <<>>
    BY <1>2
  <2>2. QED
    BY <1>2, <2>1 DEF FramesSound, Top, Last
<1>6. FramesSound'
  BY <1>2, <1>3, <1>4, <1>5 DEF FramesSound
<1>7. OpenOf(frames') = OpenOf(frames) \union (IF fr.hooked THEN {n} ELSE {})
  BY <1>2, <1>4 DEF OpenOf
<1>8. OpenOf(frames) \in SUBSET Nat /\ \A d \in OpenOf(frames) : d < n
  BY <1>1, <1>2 DEF OpenOf
<1>9. QED
  BY <1>2, <1>6, <1>7, <1>8

\* A call that has no data on the stacks, any more or at all, is over.
LEMMA LeaveStep ==
  ASSUME FramesSound, StacksSound, frames # <<>>, ~Top.hooked \/ Top.pc = "return",
         frames' = Front(frames), UNCHANGED stacks
  PROVE  FramesSound' /\ StacksSound'
<1>1. frames \in Seq(CallFrame)
  BY DEF FramesSound
<1>2. PICK n : n = Len(frames)
  OBVIOUS
<1>3. n \in Nat \ {0}
  BY <1>1, <1>2, EmptySeq
<1>4. frames' \in Seq(CallFrame) /\ Len(frames') = n - 1 /\ \A d \in 1..n - 1 : frames'[d] = frames[d]
  BY <1>1, <1>2, <1>3 DEF Front
<1>5. FramesSound'
  BY <1>2, <1>3, <1>4, HamAssumption DEF FramesSound
<1>6. OpenOf(frames') = OpenOf(frames)
  BY <1>2, <1>3, <1>4 DEF OpenOf, Top, Last
<1>7. QED
  BY <1>5, <1>6 DEF StacksSound, stacks

\* The innermost call, while it runs its forwards, is on top of each stack.
LEMMA TopOfStacks ==
  ASSUME FramesSound, StacksSound, frames # <<>>, Top.pc \in {"pre", "post"},
         NEW n, n = Len(frames)
  PROVE  /\ n \in OpenOf(frames) /\ \A d \in OpenOf(frames) : d <= n
         /\ OpenOf(frames) \in SUBSET Nat
         /\ Last(ReturnStack) = n /\ Last(ParamStack) = n
<1>1. frames \in Seq(CallFrame)
  BY DEF FramesSound
<1>2. n \in Nat \ {0}
  BY <1>1, EmptySeq
<1>3. FrameSound(frames[n]) /\ Top = frames[n]
  BY <1>2 DEF FramesSound, Top, Last
<1>4. n \in OpenOf(frames) /\ OpenOf(frames) \in SUBSET Nat /\ \A d \in OpenOf(frames) : d <= n
  BY <1>2, <1>3 DEF OpenOf, FrameSound
<1>5. QED
  BY <1>4, ListsPop DEF StacksSound

\* The innermost call.
LEMMA TopSound ==
  ASSUME FramesSound, frames # <<>>
  PROVE  /\ FrameSound(Top)
         /\ Top.ret \in {0, Len(frames)} /\ Top.param \in {0, Len(frames)}
<1>1. Len(frames) \in 1..Len(frames)
  BY EmptySeq DEF FramesSound
<1>2. QED
  BY <1>1 DEF FramesSound, Top, Last

\* Assigning to a field of a call.
LEMMA SetField ==
  ASSUME NEW fr \in CallFrame
  PROVE  /\ \A v \in BOOLEAN : [fr EXCEPT !.hooked = v] \in CallFrame
         /\ \A v \in {"pre", "func", "post", "return"} : [fr EXCEPT !.pc = v] \in CallFrame
         /\ \A v \in Nat : [fr EXCEPT !.i = v] \in CallFrame
         /\ \A v \in BOOLEAN : [fr EXCEPT !.callback = v] \in CallFrame
         /\ \A v \in Results : [fr EXCEPT !.result = v] \in CallFrame
         /\ \A v \in Results : [fr EXCEPT !.thisresult = v] \in CallFrame
         /\ \A v \in Nat : [fr EXCEPT !.ret = v] \in CallFrame
         /\ \A v \in BOOLEAN : [fr EXCEPT !.origret = v] \in CallFrame
         /\ \A v \in Nat : [fr EXCEPT !.param = v] \in CallFrame
         /\ \A v \in SUBSET Results : [fr EXCEPT !.returned = v] \in CallFrame
<1>1. ASSUME NEW v \in BOOLEAN PROVE [fr EXCEPT !.hooked = v] \in CallFrame
  BY DEF CallFrame
<1>2. ASSUME NEW v \in {"pre", "func", "post", "return"} PROVE [fr EXCEPT !.pc = v] \in CallFrame
  BY DEF CallFrame
<1>3. ASSUME NEW v \in Nat PROVE [fr EXCEPT !.i = v] \in CallFrame
  BY DEF CallFrame
<1>4. ASSUME NEW v \in BOOLEAN PROVE [fr EXCEPT !.callback = v] \in CallFrame
  BY DEF CallFrame
<1>5. ASSUME NEW v \in Results PROVE [fr EXCEPT !.result = v] \in CallFrame
  BY DEF CallFrame
<1>6. ASSUME NEW v \in Results PROVE [fr EXCEPT !.thisresult = v] \in CallFrame
  BY DEF CallFrame
<1>7. ASSUME NEW v \in Nat PROVE [fr EXCEPT !.ret = v] \in CallFrame
  BY DEF CallFrame
<1>8. ASSUME NEW v \in BOOLEAN PROVE [fr EXCEPT !.origret = v] \in CallFrame
  BY DEF CallFrame
<1>9. ASSUME NEW v \in Nat PROVE [fr EXCEPT !.param = v] \in CallFrame
  BY DEF CallFrame
<1>10. ASSUME NEW v \in SUBSET Results PROVE [fr EXCEPT !.returned = v] \in CallFrame
  BY DEF CallFrame
<1>q. QED
  BY <1>1, <1>2, <1>3, <1>4, <1>5, <1>6, <1>7, <1>8, <1>9, <1>10

\* A new call has run no forward yet.
LEMMA NewFrames ==
  ASSUME NEW f \in Functions, NEW do \in BOOLEAN
  PROVE  /\ FrameSound(HookFrame(f, do)) /\ HookFrame(f, do).pc = "pre" /\ HookFrame(f, do).hooked
         /\ HookFrame(f, do).ret = 0 /\ HookFrame(f, do).param = 0
         /\ FrameSound(PlainFrame(f)) /\ PlainFrame(f).pc = "func" /\ ~PlainFrame(f).hooked
         /\ PlainFrame(f).ret = 0 /\ PlainFrame(f).param = 0
<1>1. PICK h : h = HookFrame(f, do)
  OBVIOUS
<1>2. PICK q : q = PlainFrame(f)
  OBVIOUS
<1>3. HAM_UNSET \in Results /\ HAM_UNSET <= HAM_UNSET /\ HAM_UNSET # HAM_SUPERCEDE
  BY DEF Results, HAM_UNSET, HAM_OVERRIDE, HAM_SUPERCEDE
<1>4. /\ h \in CallFrame /\ h.pc = "pre" /\ h.hooked /\ h.ret = 0 /\ h.param = 0
      /\ ~h.callback /\ h.result = HAM_UNSET /\ h.thisresult = HAM_UNSET /\ ~h.origret
      /\ h.returned = {}
  BY <1>1, <1>3 DEF CallFrame, HookFrame
<1>5. PICK g \in CallFrame : g = HookFrame(f, FALSE)
  BY <1>3 DEF CallFrame, HookFrame
<1>6. /\ q \in CallFrame /\ q.pc = "func" /\ ~q.hooked /\ q.ret = 0 /\ q.param = 0
      /\ ~q.callback /\ q.result = HAM_UNSET /\ q.thisresult = HAM_UNSET /\ ~q.origret
      /\ q.returned = {}
  <2>1. PICK a : a = [g EXCEPT !.hooked = FALSE]
    OBVIOUS
  <2>2. q = [a EXCEPT !.pc = "func"]
    BY <1>2, <1>5, <2>1 DEF PlainFrame
  <2>3. a \in CallFrame /\ q \in CallFrame
    BY <2>1, <2>2, SetField
  <2>4. /\ g.ret = 0 /\ g.param = 0 /\ ~g.callback /\ g.result = HAM_UNSET
        /\ g.thisresult = HAM_UNSET /\ ~g.origret /\ g.returned = {}
    BY <1>5 DEF HookFrame
  <2>5. /\ q.pc = "func" /\ ~q.hooked /\ q.ret = g.ret /\ q.param = g.param
        /\ q.callback = g.callback /\ q.result = g.result /\ q.thisresult = g.thisresult
        /\ q.origret = g.origret /\ q.returned = g.returned
    BY <2>1, <2>2, <2>3 DEF CallFrame
  <2>6. QED
    BY <2>3, <2>4, <2>5
<1>7. FrameSound(h) /\ FrameSound(q)
  BY <1>3, <1>4, <1>6 DEF FrameSound
<1>8. QED
  BY <1>1, <1>2, <1>4, <1>6, <1>7

\* A pre forward with result r is done with; R is what they returned so far.
PreEnded(fr, r, R) == [PRE_END(fr, r) EXCEPT !.returned = R]

\* One more pre forward, run or not.
LEMMA PreEndSound ==
  ASSUME NEW fr, FrameSound(fr), fr.pc = "pre", NEW r \in Results, NEW R \in SUBSET Results,
         \/ r = fr.thisresult /\ R = fr.returned
         \/ R = fr.returned \union {r}
  PROVE  /\ FrameSound(PreEnded(fr, r, R)) /\ PreEnded(fr, r, R).pc = "pre"
         /\ PreEnded(fr, r, R).hooked = fr.hooked
         /\ PreEnded(fr, r, R).ret = fr.ret /\ PreEnded(fr, r, R).param = fr.param
<1>0. PICK fr2 : fr2 = PreEnded(fr, r, R)
  OBVIOUS
<1>1. PICK m : m = Max({fr.result, r})
  OBVIOUS
<1>2. fr \in CallFrame
  BY DEF FrameSound
<1>3. m \in Results /\ m >= fr.result /\ m >= r /\ m \in {fr.result, r}
  BY <1>1, <1>2, MaxResult DEF CallFrame
<1>4. fr2 = [fr EXCEPT !.thisresult = r, !.result = m, !.callback = FALSE,
                       !.i = fr.i + 1, !.returned = R]
  BY <1>0, <1>1, <1>2 DEF PreEnded, PRE_END, CallFrame
<1>5. /\ fr2.thisresult = r /\ fr2.result = m /\ ~fr2.callback
      /\ fr2.returned = R /\ fr2.pc = fr.pc /\ fr2.hooked = fr.hooked /\ fr2.ret = fr.ret
      /\ fr2.param = fr.param /\ fr2.origret = fr.origret
  BY <1>2, <1>4 DEF CallFrame
<1>c. fr2 \in CallFrame
  <2>1. PICK a \in CallFrame : a = [fr EXCEPT !.thisresult = r]
    BY <1>2, SetField
  <2>2. PICK b \in CallFrame : b = [a EXCEPT !.result = m]
    BY <1>3, SetField
  <2>3. PICK c \in CallFrame : c = [b EXCEPT !.callback = FALSE]
    BY SetField
  <2>4. PICK e \in CallFrame : e = [c EXCEPT !.i = fr.i + 1]
    <3>1. fr.i + 1 \in Nat
      BY <1>2 DEF CallFrame
    <3>2. QED
      BY <3>1, SetField
  <2>5. [e EXCEPT !.returned = R] \in CallFrame
    BY SetField
  <2>6. QED
    BY <1>4, <2>1, <2>2, <2>3, <2>4, <2>5
<1>6. m = HAM_SUPERCEDE <=> HAM_SUPERCEDE \in R
  BY <1>2, <1>3 DEF FrameSound, CallFrame, Results, HAM_UNSET, HAM_OVERRIDE, HAM_SUPERCEDE
<1>7. QED
  <2>1. /\ FrameSound(fr2) /\ fr2.pc = "pre" /\ fr2.hooked = fr.hooked
        /\ fr2.ret = fr.ret /\ fr2.param = fr.param
    BY <1>3, <1>5, <1>6, <1>c DEF FrameSound, Results, HAM_UNSET, HAM_OVERRIDE, HAM_SUPERCEDE
  <2>2. QED
    BY <1>0, <2>1

-----------------------------------------------------------------------------
(* The actions.                                                             *)

\* A hooked call is pushed on the stacks.
LEMMA EnterStep ==
  ASSUME FramesSound, StacksSound, NEW f \in Functions, NEW do \in BOOLEAN, Enter(f, do),
         frames = <<>> \/ Top.pc # "return"
  PROVE  FramesSound' /\ StacksSound'
<1>1. PICK n : n = Len(frames) + 1
  OBVIOUS
<1>2. PICK fr : fr = HookFrame(f, do)
  OBVIOUS
<1>3. /\ FrameSound(fr) /\ fr.pc = "pre" /\ fr.hooked /\ fr.ret = 0 /\ fr.param = 0
  BY <1>2, NewFrames
<1>4. /\ Len(frames) < MaxDepth /\ frames' = Append(frames, fr)
      /\ ReturnStack' = Append(ReturnStack, n)
      /\ ParamStack' = Append(ParamStack, n)
      /\ ReturnStatus' = Append(ReturnStatus, n)
  BY <1>1, <1>2 DEF Enter
<1>5. /\ FramesSound'
      /\ n \in Nat /\ OpenOf(frames) \in SUBSET Nat /\ \A d \in OpenOf(frames) : d < n
      /\ OpenOf(frames') = OpenOf(frames) \union {n}
  BY <1>1, <1>3, <1>4, PushStep
<1>6. ASSUME NEW s, Lists(s, OpenOf(frames)) PROVE Lists(Append(s, n), OpenOf(frames'))
  BY <1>5, <1>6, ListsPush
<1>7. QED
  BY <1>4, <1>5, <1>6 DEF StacksSound

\* What a call by ExecuteHam or ExecuteHamB pushes.
LEMMA CallStep ==
  ASSUME FramesSound, StacksSound, NEW f \in Functions, NEW do \in BOOLEAN, Call(f, do),
         frames = <<>> \/ Top.pc # "return"
  PROVE  FramesSound' /\ StacksSound'
<1>1. CASE Enter(f, do)
  BY <1>1, EnterStep
<1>2. CASE ~Enter(f, do)
  <2>1. /\ Len(frames) < MaxDepth /\ frames' = Append(frames, PlainFrame(f))
        /\ UNCHANGED stacks
    BY <1>2 DEF Call
  <2>2. PICK n : n = Len(frames) + 1
    OBVIOUS
  <2>3. PICK fr : fr = PlainFrame(f)
    OBVIOUS
  <2>4. FrameSound(fr) /\ fr.pc = "func" /\ ~fr.hooked /\ fr.ret = 0 /\ fr.param = 0
    BY <2>3, NewFrames
  <2>5. FramesSound' /\ OpenOf(frames') = OpenOf(frames)
    BY <2>1, <2>2, <2>3, <2>4, PushStep
  <2>6. QED
    BY <2>1, <2>5 DEF StacksSound, stacks
<1>3. QED
  BY <1>1, <1>2

\* Where a plugin or the game runs, the innermost call has not ended.
LEMMA NotReturning ==
  ASSUME FramesSound, InPlugin \/ InGame
  PROVE  frames = <<>> \/ Top.pc # "return"
  BY TopSound DEF InPlugin, InGame, InCallback, At, FrameSound

\* A callback ends.
LEMMA EndCallbackStep ==
  ASSUME FramesSound, StacksSound, NEW r \in Results, InCallback, EndCallback(r),
         UNCHANGED stacks
  PROVE  FramesSound' /\ StacksSound'
<1>1. /\ frames # <<>> /\ FrameSound(Top) /\ Top \in CallFrame /\ Top.callback
      /\ Top.ret \in {0, Len(frames)} /\ Top.param \in {0, Len(frames)}
      /\ Top.pc \in {"pre", "post"}
  BY TopSound DEF InCallback, FrameSound
<1>2. CASE Top.pc = "pre"
  <2>1. PICK fr : fr = [PRE_END(Top, r) EXCEPT !.returned = Top.returned \union {r}]
    OBVIOUS
  <2>2. SetTop(fr)
    <3>1. PRE_END(Top, r).returned = Top.returned
      BY <1>1 DEF PRE_END, CallFrame
    <3>2. QED
      BY <1>2, <2>1, <3>1 DEF EndCallback
  <2>3. Top.returned \union {r} \in SUBSET Results
    BY <1>1 DEF CallFrame
  <2>4. /\ FrameSound(fr) /\ fr.pc = "pre" /\ fr.hooked = Top.hooked
        /\ fr.ret = Top.ret /\ fr.param = Top.param
    <3>1. PICK t : t = Top
      OBVIOUS
    <3>2. PICK R \in SUBSET Results : R = t.returned \union {r}
      BY <2>3, <3>1
    <3>3. fr = PreEnded(t, r, R) /\ FrameSound(t) /\ t.pc = "pre"
      BY <1>1, <1>2, <2>1, <3>1, <3>2 DEF PreEnded
    <3>4. /\ FrameSound(fr) /\ fr.pc = "pre" /\ fr.hooked = t.hooked
          /\ fr.ret = t.ret /\ fr.param = t.param
      BY <3>2, <3>3, PreEndSound
    <3>5. QED
      BY <3>1, <3>4
  <2>5. QED
    BY <1>1, <1>2, <2>2, <2>4, TopStep
<1>3. CASE Top.pc = "post"
  <2>1. PICK fr : fr = [Top EXCEPT !.callback = FALSE, !.i = Top.i + 1]
    OBVIOUS
  <2>2. SetTop(fr)
    BY <1>3, <2>1 DEF EndCallback
  <2>3. /\ FrameSound(fr) /\ fr.pc = "post" /\ fr.hooked = Top.hooked
        /\ fr.ret = Top.ret /\ fr.param = Top.param
    <3>1. PICK t \in CallFrame : t = Top
      BY <1>1
    <3>c. fr \in CallFrame
      <4>1. PICK a \in CallFrame : a = [t EXCEPT !.callback = FALSE]
        BY SetField
      <4>2. t.i + 1 \in Nat /\ fr = [a EXCEPT !.i = t.i + 1]
        BY <2>1, <3>1, <4>1 DEF CallFrame
      <4>3. QED
        BY <4>2, SetField
    <3>2. /\ ~fr.callback
          /\ fr.pc = t.pc /\ fr.hooked = t.hooked /\ fr.ret = t.ret /\ fr.param = t.param
          /\ fr.result = t.result /\ fr.thisresult = t.thisresult /\ fr.origret = t.origret
          /\ fr.returned = t.returned
      BY <2>1, <3>1 DEF CallFrame
    <3>3. QED
      BY <1>1, <1>3, <3>1, <3>2, <3>c DEF FrameSound
  <2>4. QED
    BY <1>1, <1>3, <2>2, <2>3, TopStep
<1>4. QED
  BY <1>1, <1>2, <1>3

\* A callback of the innermost call starts.
LEMMA BeginCallbackSound ==
  ASSUME NEW fr, FrameSound(fr), fr.pc \in {"pre", "post"}, NEW fr2,
         fr2 = [fr EXCEPT !.callback = TRUE]
  PROVE  /\ FrameSound(fr2) /\ fr2.pc = fr.pc /\ fr2.hooked = fr.hooked
         /\ fr2.ret = fr.ret /\ fr2.param = fr.param
<1>1. fr \in CallFrame
  BY DEF FrameSound
<1>2. fr2 \in CallFrame
  BY <1>1, SetField
<1>3. /\ fr2.pc = fr.pc /\ fr2.hooked = fr.hooked /\ fr2.ret = fr.ret /\ fr2.param = fr.param
      /\ fr2.result = fr.result /\ fr2.thisresult = fr.thisresult
      /\ fr2.origret = fr.origret /\ fr2.returned = fr.returned
  BY <1>1 DEF CallFrame
<1>4. QED
  BY <1>2, <1>3 DEF FrameSound

\* A pre forward is run, or passed over because it is stopped.
LEMMA PreForwardStep ==
  ASSUME FramesSound, StacksSound, PreForward
  PROVE  FramesSound' /\ StacksSound'
<1>1. PICK t : t = Top
  OBVIOUS
<1>2. /\ frames # <<>> /\ FrameSound(t) /\ t \in CallFrame /\ t.pc = "pre"
      /\ t.ret \in {0, Len(frames)} /\ t.param \in {0, Len(frames)} /\ UNCHANGED stacks
  BY <1>1, TopSound DEF PreForward, Begins, At, FrameSound
<1>3. CASE SetTop([Top EXCEPT !.callback = TRUE])
  <2>1. PICK fr : fr = [t EXCEPT !.callback = TRUE]
    OBVIOUS
  <2>2. SetTop(fr)
    BY <1>1, <1>3, <2>1
  <2>3. /\ FrameSound(fr) /\ fr.pc = "pre" /\ fr.hooked = t.hooked
        /\ fr.ret = t.ret /\ fr.param = t.param
    BY <1>2, <2>1, BeginCallbackSound
  <2>4. QED
    BY <1>1, <1>2, <2>2, <2>3, TopStep
<1>4. CASE SetTop(PRE_END(Top, Top.thisresult))
  <2>1. PICK R \in SUBSET Results : R = t.returned
    BY <1>2 DEF CallFrame
  <2>2. PICK r \in Results : r = t.thisresult
    BY <1>2 DEF CallFrame
  <2>3. PICK fr : fr = PreEnded(t, r, R)
    OBVIOUS
  <2>4. PRE_END(t, r) = PreEnded(t, r, R)
    BY <1>2, <2>1 DEF PreEnded, PRE_END, CallFrame
  <2>5. SetTop(fr)
    BY <1>1, <1>4, <2>2, <2>3, <2>4
  <2>6. /\ FrameSound(fr) /\ fr.pc = "pre" /\ fr.hooked = t.hooked
        /\ fr.ret = t.ret /\ fr.param = t.param
    BY <1>2, <2>1, <2>2, <2>3, PreEndSound
  <2>7. QED
    BY <1>1, <1>2, <2>5, <2>6, TopStep
<1>5. QED
  BY <1>3, <1>4 DEF PreForward

\* The original is called unless a pre forward superceded it.
LEMMA CallOriginalStep ==
  ASSUME FramesSound, StacksSound, CallOriginal
  PROVE  FramesSound' /\ StacksSound'
<1>1. PICK t : t = Top
  OBVIOUS
<1>2. /\ frames # <<>> /\ FrameSound(t) /\ t \in CallFrame /\ t.pc = "pre" /\ ~t.callback
      /\ t.ret \in {0, Len(frames)} /\ t.param \in {0, Len(frames)} /\ UNCHANGED stacks
  BY <1>1, TopSound DEF CallOriginal, Done, At, FrameSound
<1>3. PICK p \in {"func", "post"} : p = IF Blocked(t) THEN "post" ELSE "func"
  OBVIOUS
<1>4. PICK a \in CallFrame : a = [t EXCEPT !.pc = p]
  BY <1>2, SetField
<1>5. PICK fr \in CallFrame : fr = [a EXCEPT !.i = 1]
  BY SetField
<1>6. SetTop(fr)
  BY <1>1, <1>3, <1>4, <1>5 DEF CallOriginal
<1>7. /\ fr.pc = p /\ fr.callback = t.callback /\ fr.hooked = t.hooked
      /\ fr.ret = t.ret /\ fr.param = t.param
      /\ fr.result = t.result /\ fr.thisresult = t.thisresult
      /\ fr.origret = t.origret /\ fr.returned = t.returned
  BY <1>2, <1>4, <1>5 DEF CallFrame
<1>8. t.result \in Results /\ (p = "post" <=> t.result = HAM_SUPERCEDE)
  BY <1>2, <1>3 DEF CallFrame, Blocked, Results, HAM_UNSET, HAM_OVERRIDE, HAM_SUPERCEDE
<1>9. FrameSound(fr)
  BY <1>2, <1>3, <1>7, <1>8 DEF FrameSound
<1>10. QED
  BY <1>1, <1>2, <1>3, <1>6, <1>7, <1>9, TopStep

\* The original returns, to the hook or to ExecuteHam.
LEMMA OriginalReturnsStep ==
  ASSUME FramesSound, StacksSound, OriginalReturns
  PROVE  FramesSound' /\ StacksSound'
<1>1. PICK t : t = Top
  OBVIOUS
<1>2. /\ frames # <<>> /\ FrameSound(t) /\ t \in CallFrame /\ t.pc = "func"
      /\ t.ret \in {0, Len(frames)} /\ t.param \in {0, Len(frames)} /\ UNCHANGED stacks
  BY <1>1, TopSound DEF OriginalReturns, At, FrameSound
<1>3. CASE t.hooked
  <2>1. PICK a \in CallFrame : a = [t EXCEPT !.pc = "post"]
    BY <1>2, SetField
  <2>2. PICK fr \in CallFrame : fr = [a EXCEPT !.origret = TRUE]
    BY SetField
  <2>3. SetTop(fr)
    BY <1>1, <1>3, <2>1, <2>2 DEF OriginalReturns
  <2>4. /\ fr.pc = "post" /\ fr.callback = t.callback /\ fr.hooked = t.hooked
        /\ fr.ret = t.ret /\ fr.param = t.param
        /\ fr.result = t.result /\ fr.thisresult = t.thisresult
        /\ fr.origret /\ fr.returned = t.returned
    BY <1>2, <2>1, <2>2 DEF CallFrame
  <2>5. FrameSound(fr)
    BY <1>2, <1>3, <2>4 DEF FrameSound
  <2>6. QED
    BY <1>1, <1>2, <2>3, <2>4, <2>5, TopStep
<1>4. CASE ~t.hooked
  BY <1>1, <1>2, <1>4, LeaveStep DEF OriginalReturns
<1>5. QED
  BY <1>3, <1>4

\* A post forward is run or passed over.
LEMMA PostForwardStep ==
  ASSUME FramesSound, StacksSound, PostForward
  PROVE  FramesSound' /\ StacksSound'
<1>1. PICK t : t = Top
  OBVIOUS
<1>2. /\ frames # <<>> /\ FrameSound(t) /\ t \in CallFrame /\ t.pc = "post"
      /\ t.ret \in {0, Len(frames)} /\ t.param \in {0, Len(frames)} /\ UNCHANGED stacks
  BY <1>1, TopSound DEF PostForward, Begins, At, FrameSound
<1>3. CASE SetTop([Top EXCEPT !.callback = TRUE])
  <2>1. PICK fr : fr = [t EXCEPT !.callback = TRUE]
    OBVIOUS
  <2>2. SetTop(fr)
    BY <1>1, <1>3, <2>1
  <2>3. /\ FrameSound(fr) /\ fr.pc = "post" /\ fr.hooked = t.hooked
        /\ fr.ret = t.ret /\ fr.param = t.param
    BY <1>2, <2>1, BeginCallbackSound
  <2>4. QED
    BY <1>1, <1>2, <2>2, <2>3, TopStep
<1>4. CASE SetTop([Top EXCEPT !.i = Top.i + 1])
  <2>1. t.i + 1 \in Nat
    BY <1>2 DEF CallFrame
  <2>2. PICK fr \in CallFrame : fr = [t EXCEPT !.i = t.i + 1]
    BY <1>2, <2>1, SetField
  <2>3. SetTop(fr)
    BY <1>1, <1>4, <2>2
  <2>4. /\ fr.pc = t.pc /\ fr.callback = t.callback /\ fr.hooked = t.hooked
        /\ fr.ret = t.ret /\ fr.param = t.param
        /\ fr.result = t.result /\ fr.thisresult = t.thisresult
        /\ fr.origret = t.origret /\ fr.returned = t.returned
    BY <1>2, <2>2 DEF CallFrame
  <2>5. FrameSound(fr)
    BY <1>2, <2>4 DEF FrameSound
  <2>6. QED
    BY <1>1, <1>2, <2>3, <2>4, <2>5, TopStep
<1>5. QED
  BY <1>3, <1>4 DEF PostForward

\* SetHamReturn and SetHamParam of a callback write to the call it was run for.
LEMMA SetHamStep ==
  ASSUME FramesSound, StacksSound, SetHamReturn \/ SetHamParam
  PROVE  FramesSound' /\ StacksSound'
<1>1. PICK t : t = Top
  OBVIOUS
<1>2. /\ frames # <<>> /\ FrameSound(t) /\ t \in CallFrame /\ t.pc \in {"pre", "post"}
      /\ t.ret \in {0, Len(frames)} /\ t.param \in {0, Len(frames)} /\ UNCHANGED stacks
  BY <1>1, TopSound DEF SetHamReturn, SetHamParam, InCallback, FrameSound
<1>3. PICK n : n = Len(frames)
  OBVIOUS
<1>4. n \in Nat /\ Last(ReturnStack) = n /\ Last(ParamStack) = n
  <2>1. n \in Nat
    BY <1>3 DEF FramesSound
  <2>2. QED
    BY <1>1, <1>2, <1>3, <2>1, TopOfStacks
<1>5. frames[n] = t
  BY <1>1, <1>3 DEF Top, Last
<1>6. CASE SetHamReturn
  <2>1. PICK fr \in CallFrame : fr = [t EXCEPT !.ret = n]
    BY <1>2, <1>4, SetField
  <2>2. SetTop(fr)
    BY <1>3, <1>4, <1>5, <1>6, <2>1 DEF SetHamReturn, SetTop
  <2>3. /\ fr.pc = t.pc /\ fr.callback = t.callback /\ fr.hooked = t.hooked
        /\ fr.ret = n /\ fr.param = t.param
        /\ fr.result = t.result /\ fr.thisresult = t.thisresult
        /\ fr.origret = t.origret /\ fr.returned = t.returned
    BY <1>2, <2>1 DEF CallFrame
  <2>4. FrameSound(fr)
    BY <1>2, <2>3 DEF FrameSound
  <2>5. QED
    BY <1>1, <1>2, <1>3, <2>2, <2>3, <2>4, TopStep
<1>7. CASE SetHamParam
  <2>1. PICK fr \in CallFrame : fr = [t EXCEPT !.param = n]
    BY <1>2, <1>4, SetField
  <2>2. SetTop(fr)
    BY <1>3, <1>4, <1>5, <1>7, <2>1 DEF SetHamParam, SetTop
  <2>3. /\ fr.pc = t.pc /\ fr.callback = t.callback /\ fr.hooked = t.hooked
        /\ fr.param = n /\ fr.ret = t.ret
        /\ fr.result = t.result /\ fr.thisresult = t.thisresult
        /\ fr.origret = t.origret /\ fr.returned = t.returned
    BY <1>2, <2>1 DEF CallFrame
  <2>4. FrameSound(fr)
    BY <1>2, <2>3 DEF FrameSound
  <2>5. QED
    BY <1>1, <1>2, <1>3, <2>2, <2>3, <2>4, TopStep
<1>8. QED
  BY <1>6, <1>7

\* The data of a call that ends is popped from each stack.
LEMMA PopStep ==
  ASSUME FramesSound, StacksSound, Pop
  PROVE  FramesSound' /\ StacksSound'
<1>1. PICK t : t = Top
  OBVIOUS
<1>2. /\ frames # <<>> /\ FrameSound(t) /\ t \in CallFrame /\ t.pc = "post" /\ ~t.callback
      /\ t.ret \in {0, Len(frames)} /\ t.param \in {0, Len(frames)}
  BY <1>1, TopSound DEF Pop, Done, At, FrameSound
<1>3. PICK n : n = Len(frames)
  OBVIOUS
<1>4. /\ n \in OpenOf(frames) /\ \A d \in OpenOf(frames) : d <= n
      /\ OpenOf(frames) \in SUBSET Nat
  BY <1>1, <1>2, <1>3, TopOfStacks
<1>5. PICK fr \in CallFrame : fr = [t EXCEPT !.pc = "return"]
  BY <1>2, SetField
<1>6. /\ fr.pc = "return" /\ fr.callback = t.callback /\ fr.hooked = t.hooked
      /\ fr.ret = t.ret /\ fr.param = t.param
      /\ fr.result = t.result /\ fr.thisresult = t.thisresult
      /\ fr.origret = t.origret /\ fr.returned = t.returned
  BY <1>2, <1>5 DEF CallFrame
<1>7. FrameSound(fr)
  BY <1>2, <1>6 DEF FrameSound
<1>8. frames \in Seq(CallFrame) /\ n \in Nat \ {0} /\ n \in 1..n
  BY <1>2, <1>3, EmptySeq DEF FramesSound
<1>9. /\ frames' \in Seq(CallFrame) /\ Len(frames') = n /\ frames'[n] = fr
      /\ \A d \in 1..n : d # n => frames'[d] = frames[d]
  <2>1. frames' = [frames EXCEPT ![n] = fr]
    BY <1>1, <1>3, <1>5 DEF Pop, SetTop
  <2>2. QED
    BY <1>3, <1>8, <2>1, ExceptSeq
<1>10. FramesSound'
  BY <1>2, <1>3, <1>6, <1>7, <1>8, <1>9 DEF FramesSound
<1>11. OpenOf(frames') = OpenOf(frames) \ {n}
  BY <1>3, <1>6, <1>8, <1>9 DEF OpenOf
<1>12. ASSUME NEW s, Lists(s, OpenOf(frames)) PROVE Lists(Front(s), OpenOf(frames'))
  BY <1>4, <1>11, <1>12, ListsPop
<1>13. /\ ReturnStatus' = Front(ReturnStatus) /\ ParamStack' = Front(ParamStack)
       /\ ReturnStack' = Front(ReturnStack)
  BY DEF Pop, Popped
<1>14. QED
  BY <1>10, <1>12, <1>13 DEF StacksSound

\* A forward is appended to one list of one hook.
LEMMA RegisterStep ==
  ASSUME HooksSound, NEW f \in Functions, NEW list \in {"pre", "post"}, RegisterHam(f, list)
  PROVE  HooksSound'
<1>1. state \in Seq({"OK", "STOP"}) /\ Len(state) \in Nat /\ DOMAIN hooks = Functions
  BY DEF HooksSound
<1>2. PICK n : n = Len(state) + 1
  OBVIOUS
<1>3. /\ state' \in Seq({"OK", "STOP"}) /\ Len(state') = n /\ n \in Nat /\ n <= MaxForwards
  BY <1>1, <1>2, HamAssumption, AppendProperties DEF RegisterHam
<1>4. ASSUME NEW s \in Seq(1..Len(state)) PROVE s \in Seq(1..n)
  <2>1. 1..Len(state) \subseteq 1..n
    BY <1>1, <1>2
  <2>2. QED
    BY <2>1, SeqMonotonic
<1>5. \A g \in Functions : hooks[g] # NULL => hooks[g] \in [pre : Seq(1..n), post : Seq(1..n)]
  BY <1>4 DEF HooksSound
<1>6. PICK hook : hook = IF hooks[f] = NULL THEN NewHook ELSE hooks[f]
  OBVIOUS
<1>7. hook \in [pre : Seq(1..n), post : Seq(1..n)]
  BY <1>5, <1>6, EmptySeq DEF NewHook
<1>8. hooks' = [hooks EXCEPT ![f] = [hook EXCEPT ![list] = Append(hook[list], n)]]
  BY <1>2, <1>6 DEF RegisterHam
<1>9. [hook EXCEPT ![list] = Append(hook[list], n)] \in [pre : Seq(1..n), post : Seq(1..n)]
  <2>1. n \in 1..n
    BY <1>1, <1>2
  <2>2. Append(hook.pre, n) \in Seq(1..n) /\ Append(hook.post, n) \in Seq(1..n)
    BY <1>7, <2>1, AppendProperties
  <2>3. CASE list = "pre"
    BY <1>7, <2>2, <2>3
  <2>4. CASE list = "post"
    BY <1>7, <2>2, <2>4
  <2>5. QED
    BY <2>3, <2>4
<1>10. QED
  BY <1>1, <1>3, <1>5, <1>8, <1>9 DEF HooksSound

\* Forwards are stopped and started; the lists stay.
LEMMA SwitchStep ==
  ASSUME HooksSound, NEW h \in DOMAIN state, DisableHamForward(h) \/ EnableHamForward(h)
  PROVE  HooksSound'
<1>1. state \in Seq({"OK", "STOP"}) /\ DOMAIN state = 1..Len(state)
  BY LenProperties DEF HooksSound
<1>2. state' \in Seq({"OK", "STOP"}) /\ Len(state') = Len(state) /\ UNCHANGED hooks
  BY <1>1, ExceptSeq DEF DisableHamForward, EnableHamForward
<1>3. QED
  BY <1>2 DEF HooksSound

\* A hooked call takes gDoForwards and sets it again.
LEMMA EnterCounts ==
  ASSUME CountsSound, NEW f, NEW do \in BOOLEAN, Enter(f, do),
         \/ do = gDoForwards /\ executed' = executed
         \/ ~do /\ executed' = executed + 1 /\ executed < MaxExecuted
         \/ do /\ executed' = executed
  PROVE  CountsSound'
<1>1. /\ gDoForwards' = TRUE /\ skipped' = IF do THEN skipped ELSE skipped + 1
  BY DEF Enter
<1>2. executed \in Nat /\ skipped \in Nat /\ gDoForwards \in BOOLEAN /\ executed <= MaxExecuted
  BY HamAssumption DEF CountsSound
<1>3. skipped + (IF gDoForwards THEN 0 ELSE 1) <= executed
  BY DEF CountsSound, OneSkipPerExecuteHam
<1>4. /\ do => skipped' = skipped
      /\ ~do => skipped' = skipped + 1
  BY <1>1
<1>5. /\ executed' \in 0..MaxExecuted /\ skipped' \in Nat
      /\ skipped' <= executed'
  <2>1. CASE ~do /\ executed' = executed + 1 /\ executed < MaxExecuted
    <3>1. skipped <= executed
      BY <1>2, <1>3
    <3>2. QED
      BY <1>2, <1>4, <2>1, <3>1, HamAssumption
  <2>2. CASE do /\ executed' = executed
    <3>1. skipped <= executed
      BY <1>2, <1>3
    <3>2. QED
      BY <1>2, <1>4, <2>2, <3>1, HamAssumption
  <2>3. CASE ~do /\ ~gDoForwards /\ executed' = executed
    <3>1. skipped + 1 <= executed
      BY <1>3, <2>3
    <3>2. QED
      BY <1>2, <1>4, <2>3, <3>1, HamAssumption
  <2>4. QED
    BY <2>1, <2>2, <2>3
<1>6. QED
  BY <1>1, <1>5 DEF CountsSound, OneSkipPerExecuteHam

\* The natives that call: each use of ExecuteHam counts for one call.
LEMMA CallCounts ==
  ASSUME CountsSound, NEW f, NEW do \in BOOLEAN, Call(f, do),
         \/ ~do /\ executed' = executed + 1 /\ executed < MaxExecuted
         \/ do /\ executed' = executed
  PROVE  CountsSound'
<1>1. CASE Enter(f, do)
  BY <1>1, EnterCounts
<1>2. CASE ~Enter(f, do)
  <2>1. gDoForwards' = TRUE /\ skipped' = skipped
    BY <1>2 DEF Call
  <2>2. executed \in Nat /\ skipped \in Nat /\ gDoForwards \in BOOLEAN /\ executed <= MaxExecuted
    BY HamAssumption DEF CountsSound
  <2>3. skipped <= executed
    BY <2>2 DEF CountsSound, OneSkipPerExecuteHam
  <2>4. QED
    BY <2>1, <2>2, <2>3, HamAssumption DEF CountsSound, OneSkipPerExecuteHam
<1>3. QED
  BY <1>1, <1>2

\* A use that is refused leaves gDoForwards as it set it.
LEMMA RefusedCounts ==
  ASSUME CountsSound, NEW do \in BOOLEAN, NEW r, ExecuteHamRefused(do, r)
  PROVE  CountsSound'
<1>1. /\ gDoForwards' = do /\ skipped' = skipped
      /\ executed' = (IF do THEN executed ELSE executed + 1) /\ executed' <= MaxExecuted
  BY DEF ExecuteHamRefused
<1>2. executed \in Nat /\ skipped \in Nat /\ gDoForwards \in BOOLEAN
  BY HamAssumption DEF CountsSound
<1>3. skipped <= executed
  BY <1>2 DEF CountsSound, OneSkipPerExecuteHam
<1>4. QED
  BY <1>1, <1>2, <1>3, HamAssumption DEF CountsSound, OneSkipPerExecuteHam

-----------------------------------------------------------------------------
(* The invariant.                                                           *)

\* No function is hooked and nothing is called.
LEMMA InvInit == Init => IInv
<1> SUFFICES ASSUME Init PROVE IInv
  OBVIOUS
<1>1. HooksSound
  BY EmptySeq, HamAssumption DEF Init, HooksSound
<1>2. Len(frames) = 0 /\ frames \in Seq(CallFrame)
  BY EmptySeq DEF Init
<1>3. FramesSound
  BY <1>2, HamAssumption DEF FramesSound
<1>4. OpenOf(frames) = {}
  BY <1>2 DEF OpenOf
<1>5. Lists(<<>>, {})
  BY EmptySeq DEF Lists
<1>6. StacksSound
  BY <1>4, <1>5 DEF StacksSound, Init
<1>7. CountsSound
  BY HamAssumption DEF Init, CountsSound, OneSkipPerExecuteHam
<1>8. QED
  BY <1>1, <1>3, <1>6, <1>7 DEF IInv

\* Parts of the invariant that a step does not touch.
LEMMA PartsKept ==
  /\ HooksSound /\ UNCHANGED <<hooks, state>> => HooksSound'
  /\ FramesSound /\ StacksSound /\ UNCHANGED <<frames, stacks>> => FramesSound' /\ StacksSound'
  /\ CountsSound /\ UNCHANGED <<gDoForwards, executed, skipped>> => CountsSound'
<1>1. ASSUME HooksSound, UNCHANGED <<hooks, state>> PROVE HooksSound'
  BY <1>1 DEF HooksSound
<1>2. ASSUME FramesSound, StacksSound, UNCHANGED <<frames, stacks>> PROVE FramesSound' /\ StacksSound'
  BY <1>2 DEF FramesSound, StacksSound, stacks
<1>3. ASSUME CountsSound, UNCHANGED <<gDoForwards, executed, skipped>> PROVE CountsSound'
  BY <1>3 DEF CountsSound, OneSkipPerExecuteHam
<1>4. QED
  BY <1>1, <1>2, <1>3

\* One case for each action.
LEMMA InvStep == IInv /\ [Next]_vars => IInv'
<1> SUFFICES ASSUME IInv, [Next]_vars PROVE IInv'
  OBVIOUS
<1>i. HooksSound /\ FramesSound /\ StacksSound /\ CountsSound
  BY DEF IInv
<1>1. ASSUME NEW f \in Functions, NEW list \in {"pre", "post"}, RegisterHam(f, list) PROVE IInv'
  BY <1>1, <1>i, RegisterStep, PartsKept DEF IInv, RegisterHam
<1>2. ASSUME NEW f \in Functions, GameCall(f) PROVE IInv'
  <2>1. Enter(f, gDoForwards) /\ executed' = executed /\ InGame /\ gDoForwards \in BOOLEAN
    BY <1>2, <1>i DEF GameCall, CountsSound
  <2>2. UNCHANGED <<hooks, state>>
    BY <2>1 DEF Enter
  <2>3. FramesSound' /\ StacksSound'
    BY <1>i, <2>1, NotReturning, EnterStep
  <2>4. CountsSound'
    BY <1>i, <2>1, EnterCounts
  <2>5. QED
    BY <1>i, <2>2, <2>3, <2>4, PartsKept DEF IInv
<1>3. ASSUME NEW f \in Functions, ExecuteHam(f) \/ ExecuteHamB(f) PROVE IInv'
  <2>1. InPlugin
    BY <1>3 DEF ExecuteHam, ExecuteHamB
  <2>2. PICK do \in BOOLEAN : /\ Call(f, do)
                             /\ \/ ~do /\ executed' = executed + 1 /\ executed < MaxExecuted
                                \/ do /\ executed' = executed
    BY <1>3 DEF ExecuteHam, ExecuteHamB
  <2>3. UNCHANGED <<hooks, state>>
    BY <2>2 DEF Call, Enter
  <2>4. FramesSound' /\ StacksSound'
    BY <1>i, <2>1, <2>2, NotReturning, CallStep
  <2>5. CountsSound'
    BY <1>i, <2>2, CallCounts
  <2>6. QED
    BY <1>i, <2>3, <2>4, <2>5, PartsKept DEF IInv
<1>4. ASSUME NEW h \in DOMAIN state, DisableHamForward(h) \/ EnableHamForward(h) PROVE IInv'
  BY <1>4, <1>i, SwitchStep, PartsKept DEF IInv, DisableHamForward, EnableHamForward
<1>5. CASE OnPluginsUnloaded
  <2>1. HooksSound'
    BY <1>5, EmptySeq, HamAssumption DEF OnPluginsUnloaded, HooksSound
  <2>2. QED
    BY <1>5, <1>i, <2>1, PartsKept DEF IInv, OnPluginsUnloaded
<1>6. CASE SetHamReturn \/ SetHamParam
  BY <1>6, <1>i, SetHamStep, PartsKept DEF IInv, SetHamReturn, SetHamParam
<1>7. CASE PreForward
  BY <1>7, <1>i, PreForwardStep, PartsKept DEF IInv, PreForward
<1>8. ASSUME NEW r \in Results, CallbackReturns(r) PROVE IInv'
  BY <1>8, <1>i, EndCallbackStep, PartsKept DEF IInv, CallbackReturns
<1>9. ASSUME NEW r \in Results, NEW do \in BOOLEAN, ExecuteHamRefused(do, r) PROVE IInv'
  <2>1. CountsSound'
    BY <1>9, <1>i, RefusedCounts
  <2>2. UNCHANGED <<hooks, state, stacks>> /\ IF InCallback THEN EndCallback(r) ELSE UNCHANGED frames
    BY <1>9 DEF ExecuteHamRefused
  <2>3. FramesSound' /\ StacksSound'
    BY <1>i, <2>2, EndCallbackStep, PartsKept
  <2>4. QED
    BY <1>i, <2>1, <2>2, <2>3, PartsKept DEF IInv
<1>10. CASE CallOriginal
  BY <1>10, <1>i, CallOriginalStep, PartsKept DEF IInv, CallOriginal
<1>11. CASE OriginalReturns
  BY <1>11, <1>i, OriginalReturnsStep, PartsKept DEF IInv, OriginalReturns
<1>12. CASE PostForward
  BY <1>12, <1>i, PostForwardStep, PartsKept DEF IInv, PostForward
<1>13. CASE Pop
  BY <1>13, <1>i, PopStep, PartsKept DEF IInv, Pop
<1>14. CASE Return
  <2>1. frames # <<>> /\ Top.pc = "return" /\ frames' = Front(frames) /\ UNCHANGED stacks
    BY <1>14 DEF Return, At
  <2>2. FramesSound' /\ StacksSound'
    BY <1>i, <2>1, LeaveStep
  <2>3. QED
    BY <1>14, <1>i, <2>2, PartsKept DEF IInv, Return
<1>15. CASE UNCHANGED vars
  BY <1>15, <1>i, PartsKept DEF IInv, vars
<1>16. QED
  BY <1>1, <1>2, <1>3, <1>4, <1>5, <1>6, <1>7, <1>8, <1>9, <1>10, <1>11, <1>12, <1>13, <1>14, <1>15
     DEF Next

\* Hooks hold handles of forwards that exist, results stay among the HAM_
\* codes and a call's ret and param name calls in progress.
THEOREM HamTyped == Spec => []TypeOK
<1>1. IInv => TypeOK
  <2> SUFFICES ASSUME IInv PROVE TypeOK
    OBVIOUS
  <2>1. DOMAIN state = 1..Len(state) /\ DOMAIN frames = 1..Len(frames) /\ Len(frames) \in Nat
    BY LenProperties DEF IInv, HooksSound, FramesSound
  <2>2. \A f \in Functions : hooks[f] # NULL =>
          \A list \in {"pre", "post"} : hooks[f][list] \in Seq(DOMAIN state)
    BY <2>1 DEF IInv, HooksSound
  <2>3. ASSUME NEW d \in 1..Len(frames)
        PROVE  /\ frames[d].func \in Functions
               /\ frames[d].pc \in {"pre", "func", "post", "return"}
               /\ {frames[d].result, frames[d].thisresult} \union frames[d].returned \subseteq Results
               /\ {frames[d].ret, frames[d].param} \subseteq 0..MaxDepth
    <3>1. /\ frames[d] \in CallFrame /\ frames[d].ret \in {0, d} /\ frames[d].param \in {0, d}
          /\ Len(frames) <= MaxDepth
      BY DEF IInv, FramesSound, FrameSound
    <3>2. 0 \in 0..MaxDepth /\ d \in 0..MaxDepth
      BY <2>1, <3>1, HamAssumption
    <3>3. QED
      BY <3>1, <3>2 DEF CallFrame
  <2>4. QED
    BY <2>1, <2>2, <2>3 DEF IInv, HooksSound, CountsSound, TypeOK
<1>2. QED
  BY <1>1, InvInit, InvStep, PTL DEF Spec

\* However calls nest, are superceded, skip their forwards or end, the natives
\* of a callback find the data of its own call on top of gReturnStack,
\* gParamStack and the others, and nobody else writes it.
THEOREM HookStacksSound == Spec => []HookStacks
<1>1. IInv => HookStacks
  <2> SUFFICES ASSUME IInv PROVE HookStacks
    OBVIOUS
  <2>1. DOMAIN frames = 1..Len(frames)
    BY LenProperties DEF IInv, FramesSound
  <2>2. {d \in DOMAIN frames : frames[d].hooked /\ frames[d].pc # "return"} = OpenOf(frames)
    BY <2>1 DEF OpenOf
  <2>3. \A s \in {ReturnStack, ParamStack, ReturnStatus} :
          /\ Len(s) = Cardinality(OpenOf(frames)) /\ ToSet(s) = OpenOf(frames)
          /\ \A k \in 2..Len(s) : s[k-1] < s[k]
    BY ListsCount DEF IInv, StacksSound
  <2>4. \A d \in DOMAIN frames : {frames[d].ret, frames[d].param} \subseteq {0, d}
    BY <2>1 DEF IInv, FramesSound
  <2>5. QED
    BY <2>2, <2>3, <2>4 DEF HookStacks
<1>2. QED
  BY <1>1, InvInit, InvStep, PTL DEF Spec

\* The original is not called exactly when one of the pre forwards, the last or
\* any before, returned HAM_SUPERCEDE.
THEOREM SupercedeAlwaysBlocks == Spec => []SupercedeBlocks
<1>1. IInv => SupercedeBlocks
  <2> SUFFICES ASSUME IInv PROVE SupercedeBlocks
    OBVIOUS
  <2>1. DOMAIN frames = 1..Len(frames) /\ \A d \in 1..Len(frames) : FrameSound(frames[d])
    BY LenProperties DEF IInv, FramesSound
  <2>2. QED
    BY <2>1 DEF FrameSound, SupercedeBlocks
<1>2. QED
  BY <1>1, InvInit, InvStep, PTL DEF Spec

\* A use of ExecuteHam keeps the forwards of at most one call from running.
THEOREM ExecuteHamSkipsOnce == Spec => []OneSkipPerExecuteHam
<1>1. IInv => OneSkipPerExecuteHam
  BY DEF IInv, CountsSound
<1>2. QED
  BY <1>1, InvInit, InvStep, PTL DEF Spec
=============================================================================
