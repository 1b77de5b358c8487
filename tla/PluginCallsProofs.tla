-------------------------- MODULE PluginCallsProofs --------------------------
(***************************************************************************)
(* For any plugins, natives and depth of nested executions, and whatever    *)
(* fails in between: the natives that read parameters see the call they      *)
(* belong to, the filter flags say who is in a filter, and the debugger's    *)
(* tracers match the executions.                                            *)
(*                                                                         *)
(* The invariant is stated for a stack s, a value m of amx and a context c,  *)
(* because most actions do several things to them: the pc of the innermost   *)
(* frame moves, an error is logged, a frame is pushed or popped.  Each of    *)
(* these keeps the invariant, and an action is a composition of them.        *)
(***************************************************************************)
EXTENDS PluginCalls, SequenceTheorems, FiniteSetTheorems, TLAPS

StackFrame ==
  [kind : {"forward", "dyna", "callfunc", "errfilter", "natfilter"},
   amx : Plugins, err : Error,
   pc : {"run", "native", "refused", "invalid", "returned", "unhandled", "end"},
   native : Natives \union {NULL}, args : Args \union {NULL},
   saved : Context \union {NULL}, pausing : BOOLEAN]

\* The types of TypeOK without the range of m_Top, which Balanced and Bounded give.
Handler ==
  [error : Error, status : {"error", "paused", "running"},
   m_Top : Int, m_Error : [Levels -> {"none", "error"}],
   m_Handling : BOOLEAN, m_InNativeFilter : BOOLEAN]

Typed(s, m, c) == s \in Seq(StackFrame) /\ m \in [Plugins -> Handler] /\ c \in Context

\* Everything but a forward is run from a frame below, which waits.
FrameShape(s, i) ==
  /\ s[i].kind # "forward" => i > 1
  /\ s[i].kind = "dyna" => s[i].native \in Natives /\ s[i].saved \in Context
  /\ s[i].kind = "natfilter" =>
       s[i].amx \in NativeFilter /\ s[i-1].amx = s[i].amx /\ s[i-1].pc = "native"
  /\ s[i].pc = "invalid" => s[i].amx \in NativeFilter
  /\ s[i].pc = "unhandled" => s[i].kind = "dyna"
  /\ i < Len(s) => s[i].pc # "run"

Shape(s) == \A i \in 1..Len(s) : FrameShape(s, i)

\* c is the context of the innermost dynamic native among the first k frames.
ContextOf(s, c, k) ==
  \/ /\ \A i \in 1..k : s[i].kind # "dyna"
     /\ c.native = NULL /\ c.caller = NULL
  \/ \E i \in 1..k :
       /\ s[i].kind = "dyna"
       /\ \A j \in 1..k : j > i => s[j].kind # "dyna"
       /\ c.native = s[i].native /\ c.caller = s[i-1].amx /\ c.params = s[i].args

\* What a dynamic native saved is the context of the one around it.
Nested(s, k) == \A i \in 1..k : s[i].kind = "dyna" => ContextOf(s, s[i].saved, i - 1)

Contexts(s, c) == ContextOf(s, c, Len(s)) /\ Nested(s, Len(s))

Filters(s, i, p) == s[i].kind = "errfilter" /\ s[i].amx = p

Flags(s, m) ==
  /\ \A i, j \in 1..Len(s) : Filters(s, i, s[i].amx) /\ Filters(s, j, s[i].amx) => i = j
  /\ \A p \in Plugins : m[p].m_Handling => \E i \in 1..Len(s) : Filters(s, i, p)
  /\ \A i \in 1..Len(s) : Filters(s, i, s[i].amx) => m[s[i].amx].m_Handling
  /\ \A p \in Plugins : m[p].m_InNativeFilter =>
       \E i \in 1..Len(s) : s[i].kind = "natfilter" /\ s[i].amx = p

HandlingIn(m) == {p \in Plugins : m[p].m_Handling}

Bounded(s, m) == Len(s) <= MaxDepth + 1 + Cardinality(HandlingIn(m))

\* The executions of p among the first k frames.
Level(s, p, k) == Cardinality({j \in 1..k : s[j].amx = p})

Balanced(s, m) ==
  /\ \A p \in Debug \ NativeFilter : m[p].m_Top + 1 = Level(s, p, Len(s))
  /\ \A p \in Plugins \ Debug : m[p].m_Top = -1

\* A dynamic native or callfunc that reported an error of another plugin's
\* and only has to be left.
Passing(s, i, p) == s[i].kind \in {"dyna", "callfunc"} /\ s[i].pc = "end" /\ s[i].amx # p

\* An error filter stands on the execution its error belongs to, or on the
\* call that this execution made.
Placed(s) ==
  \A k \in 1..Len(s) : s[k].kind = "errfilter" =>
    \/ s[k-1].amx = s[k].amx
    \/ k > 2 /\ Passing(s, k - 1, s[k].amx) /\ s[k-2].amx = s[k].amx

\* The execution of frame i ends as soon as it is innermost.
Doomed(s, m, i) ==
  \/ i = Len(s) /\ m[s[i].amx].error # "none"
  \/ i + 1 <= Len(s) /\ Filters(s, i + 1, s[i].amx)
  \/ i + 1 = Len(s) /\ Passing(s, i + 1, s[i].amx) /\ m[s[i].amx].error # "none"
  \/ i + 2 <= Len(s) /\ Passing(s, i + 1, s[i].amx) /\ Filters(s, i + 2, s[i].amx)

\* The tracer of frame i has an error.
Failed(s, m, i) ==
  /\ s[i].amx \in Debug \ NativeFilter
  /\ m[s[i].amx].m_Error[Level(s, s[i].amx, i - 1)] # "none"

Ending == {"returned", "unhandled", "end"}

Traces(s, m) ==
  \A i \in 1..Len(s) : Failed(s, m, i) =>
    \/ s[i].pc \in Ending
    \/ s[i].pc \in {"native", "refused"} /\ Doomed(s, m, i)

Inv(s, m, c) ==
  /\ Typed(s, m, c)
  /\ Shape(s) /\ Contexts(s, c) /\ Flags(s, m) /\ Bounded(s, m)
  /\ Balanced(s, m) /\ Placed(s) /\ Traces(s, m)

IInv == Inv(stack, amx, g) /\ g_CallFunc_Plugin \in Plugins \union {NULL}

-----------------------------------------------------------------------------
(* Levels.                                                                  *)

LEMMA LevelNat ==
  ASSUME NEW s, NEW p, NEW k \in Nat
  PROVE  /\ IsFiniteSet({j \in 1..k : s[j].amx = p})
         /\ Level(s, p, k) \in 0..k
<1>1. IsFiniteSet(1..k) /\ Cardinality(1..k) = k
  BY FS_Interval
<1>2. {j \in 1..k : s[j].amx = p} \in SUBSET (1..k)
  OBVIOUS
<1>3. /\ IsFiniteSet({j \in 1..k : s[j].amx = p})
      /\ Cardinality({j \in 1..k : s[j].amx = p}) <= k
  BY <1>1, <1>2, FS_Subset
<1>4. Cardinality({j \in 1..k : s[j].amx = p}) \in Nat
  BY <1>3, FS_CardinalityType
<1>5. QED
  BY <1>3, <1>4 DEF Level

LEMMA LevelSame ==
  ASSUME NEW s, NEW t, NEW p, NEW k \in Nat, \A j \in 1..k : t[j].amx = s[j].amx
  PROVE  Level(t, p, k) = Level(s, p, k)
<1>1. {j \in 1..k : t[j].amx = p} = {j \in 1..k : s[j].amx = p}
  OBVIOUS
<1>2. QED
  BY <1>1 DEF Level

LEMMA LevelNext ==
  ASSUME NEW s, NEW p, NEW k \in Nat
  PROVE  /\ s[k+1].amx = p => Level(s, p, k + 1) = Level(s, p, k) + 1
         /\ s[k+1].amx # p => Level(s, p, k + 1) = Level(s, p, k)
<1>1. PICK S : S = {j \in 1..k : s[j].amx = p}
  OBVIOUS
<1>2. IsFiniteSet(S)
  BY <1>1, LevelNat
<1>3. k + 1 \notin S
  BY <1>1
<1>4. CASE s[k+1].amx = p
  <2>1. {j \in 1..(k+1) : s[j].amx = p} = S \union {k + 1}
    BY <1>1, <1>4
  <2>2. Cardinality(S \union {k + 1}) = Cardinality(S) + 1
    BY <1>2, <1>3, FS_AddElement
  <2>3. QED
    BY <1>1, <1>4, <2>1, <2>2 DEF Level
<1>5. CASE s[k+1].amx # p
  <2>1. {j \in 1..(k+1) : s[j].amx = p} = S
    BY <1>1, <1>5
  <2>2. QED
    BY <1>1, <1>5, <2>1 DEF Level
<1>6. QED
  BY <1>4, <1>5

LEMMA LevelMono ==
  ASSUME NEW s, NEW p, NEW k \in Nat, NEW l \in Nat, k <= l
  PROVE  Level(s, p, k) <= Level(s, p, l)
<1>1. IsFiniteSet({j \in 1..l : s[j].amx = p})
  BY LevelNat
<1>2. {j \in 1..k : s[j].amx = p} \in SUBSET {j \in 1..l : s[j].amx = p}
  OBVIOUS
<1>3. QED
  BY <1>1, <1>2, FS_Subset DEF Level

\* An execution has a lower level than those of the same plugin above it.
LEMMA LevelBelow ==
  ASSUME NEW s, NEW p, NEW i \in Nat \ {0}, NEW k \in Nat, s[i].amx = p, i <= k
  PROVE  Level(s, p, i - 1) < Level(s, p, k)
<1>1. PICK j \in Nat : i = j + 1
  <2>1. i - 1 \in Nat /\ i = (i - 1) + 1
    OBVIOUS
  <2>2. QED
    BY <2>1
<1>2. Level(s, p, j + 1) = Level(s, p, j) + 1
  BY <1>1, LevelNext
<1>3. Level(s, p, i) <= Level(s, p, k)
  BY LevelMono
<1>4. Level(s, p, j) \in Nat /\ Level(s, p, k) \in Nat
  <2>1. Level(s, p, j) \in 0..j /\ Level(s, p, k) \in 0..k
    BY LevelNat
  <2>2. QED
    BY <2>1
<1>5. QED
  BY <1>1, <1>2, <1>3, <1>4, i - 1 = j

\* Levels never leave the array of tracers.
LEMMA LevelRange ==
  ASSUME NEW s, NEW m, NEW c, Typed(s, m, c), Bounded(s, m), NEW p, NEW k \in Nat, k < Len(s)
  PROVE  Level(s, p, k) \in Levels
<1>1. Len(s) \in Nat
  BY DEF Typed
<1>2. HandlingIn(m) \in SUBSET Plugins
  BY DEF HandlingIn
<1>3. /\ IsFiniteSet(HandlingIn(m)) /\ Cardinality(HandlingIn(m)) <= Cardinality(Plugins)
  BY <1>2, PluginAssumption, FS_Subset
<1>4. Cardinality(HandlingIn(m)) \in Nat /\ Cardinality(Plugins) \in Nat
  BY <1>3, PluginAssumption, FS_CardinalityType
<1>5. Level(s, p, k) \in 0..k
  BY LevelNat
<1>6. k <= MaxDepth + Cardinality(HandlingIn(m))
  BY <1>1, <1>4, PluginAssumption DEF Bounded
<1>7. QED
  BY <1>1, <1>3, <1>4, <1>5, <1>6, PluginAssumption DEF Levels

-----------------------------------------------------------------------------
(* The operators on amx.                                                    *)

\* r is m but for plugin p, whose flags stay.
Touches(m, r, p) ==
  /\ r \in [Plugins -> Handler]
  /\ \A q \in Plugins : q # p => r[q] = m[q]
  /\ r[p].m_Handling = m[p].m_Handling
  /\ r[p].m_InNativeFilter = m[p].m_InNativeFilter

Opened(m, r, p) ==
  /\ Touches(m, r, p)
  /\ r[p].error = m[p].error
  /\ p \notin Debug => r[p].m_Top = m[p].m_Top
  /\ p \in Debug => r[p].m_Top = m[p].m_Top + 1
  /\ \A l \in Levels : r[p].m_Error[l] # "none" =>
       m[p].m_Error[l] # "none" /\ (p \in Debug => l # m[p].m_Top + 1)

Closed(m, r, p) ==
  /\ Touches(m, r, p)
  /\ r[p].error = m[p].error
  /\ p \notin Debug => r[p].m_Top = m[p].m_Top
  /\ p \in Debug => r[p].m_Top = m[p].m_Top - 1
  /\ \A l \in Levels : r[p].m_Error[l] # "none" => m[p].m_Error[l] # "none"

\* The innermost tracer may have got an error.
Traced(m, r, p) ==
  /\ Touches(m, r, p)
  /\ r[p].m_Top = m[p].m_Top
  /\ \A l \in Levels : r[p].m_Error[l] # "none" => m[p].m_Error[l] # "none" \/ l = m[p].m_Top

LEMMA BeginExecEffect ==
  ASSUME NEW m \in [Plugins -> Handler], NEW p \in Plugins
  PROVE  Opened(m, BeginExec(m, p), p)
<1>1. CASE p \notin Debug
  BY <1>1 DEF BeginExec, Opened, Touches, Handler
<1>2. CASE p \in Debug
  <2>1. PICK e : e = [m[p].m_Error EXCEPT ![m[p].m_Top + 1] = "none"]
    OBVIOUS
  <2>2. m[p] \in Handler /\ m[p].m_Error \in [Levels -> {"none", "error"}] /\ m[p].m_Top \in Int
    BY DEF Handler
  <2>3. /\ e \in [Levels -> {"none", "error"}]
        /\ \A l \in Levels : e[l] # "none" => m[p].m_Error[l] # "none" /\ l # m[p].m_Top + 1
    BY <2>1, <2>2
  <2>4. PICK h : h = [m[p] EXCEPT !.m_Top = m[p].m_Top + 1, !.m_Error = e]
    OBVIOUS
  <2>5. PICK d : d = [m[p] EXCEPT !.m_Top = m[p].m_Top + 1]
    OBVIOUS
  <2>6. /\ d \in Handler /\ d.m_Top = m[p].m_Top + 1 /\ d.error = m[p].error
        /\ d.m_Handling = m[p].m_Handling /\ d.m_InNativeFilter = m[p].m_InNativeFilter
    BY <2>2, <2>5 DEF Handler
  <2>7. h = [d EXCEPT !.m_Error = e]
    BY <2>4, <2>5
  <2>8. /\ h \in Handler /\ h.m_Top = m[p].m_Top + 1 /\ h.m_Error = e /\ h.error = m[p].error
        /\ h.m_Handling = m[p].m_Handling /\ h.m_InNativeFilter = m[p].m_InNativeFilter
    BY <2>3, <2>6, <2>7 DEF Handler
  <2>9. BeginExec(m, p) = [m EXCEPT ![p] = h]
    BY <1>2, <2>1, <2>2, <2>4 DEF BeginExec, Handler
  <2>10. QED
    BY <1>2, <2>3, <2>8, <2>9 DEF Opened, Touches
<1>3. QED
  BY <1>1, <1>2

LEMMA EndExecEffect ==
  ASSUME NEW m \in [Plugins -> Handler], NEW p \in Plugins
  PROVE  Closed(m, EndExec(m, p), p)
<1>1. CASE p \notin Debug
  BY <1>1 DEF EndExec, Closed, Touches, Handler
<1>2. CASE p \in Debug
  <2>1. PICK e : e = [m[p].m_Error EXCEPT ![m[p].m_Top] = "none"]
    OBVIOUS
  <2>2. m[p] \in Handler /\ m[p].m_Error \in [Levels -> {"none", "error"}] /\ m[p].m_Top \in Int
    BY DEF Handler
  <2>3. /\ e \in [Levels -> {"none", "error"}]
        /\ \A l \in Levels : e[l] # "none" => m[p].m_Error[l] # "none"
    BY <2>1, <2>2
  <2>4. PICK h : h = [m[p] EXCEPT !.m_Top = m[p].m_Top - 1, !.m_Error = e]
    OBVIOUS
  <2>5. PICK d : d = [m[p] EXCEPT !.m_Top = m[p].m_Top - 1]
    OBVIOUS
  <2>6. /\ d \in Handler /\ d.m_Top = m[p].m_Top - 1 /\ d.error = m[p].error
        /\ d.m_Handling = m[p].m_Handling /\ d.m_InNativeFilter = m[p].m_InNativeFilter
    BY <2>2, <2>5 DEF Handler
  <2>7. h = [d EXCEPT !.m_Error = e]
    BY <2>4, <2>5
  <2>8. /\ h \in Handler /\ h.m_Top = m[p].m_Top - 1 /\ h.m_Error = e /\ h.error = m[p].error
        /\ h.m_Handling = m[p].m_Handling /\ h.m_InNativeFilter = m[p].m_InNativeFilter
    BY <2>3, <2>6, <2>7 DEF Handler
  <2>9. EndExec(m, p) = [m EXCEPT ![p] = h]
    BY <1>2, <2>1, <2>2, <2>4 DEF EndExec, Handler
  <2>10. QED
    BY <1>2, <2>3, <2>8, <2>9 DEF Closed, Touches
<1>3. QED
  BY <1>1, <1>2

LEMMA SetTracedErrorEffect ==
  ASSUME NEW m \in [Plugins -> Handler], NEW p \in Plugins
  PROVE  Traced(m, SetTracedError(m, p), p)
<1>1. CASE p \notin Debug
  BY <1>1 DEF SetTracedError, Traced, Touches, Handler
<1>2. CASE p \in Debug
  <2>1. PICK e : e = [m[p].m_Error EXCEPT ![m[p].m_Top] = "error"]
    OBVIOUS
  <2>2. m[p] \in Handler /\ m[p].m_Error \in [Levels -> {"none", "error"}] /\ m[p].m_Top \in Int
    BY DEF Handler
  <2>3. /\ e \in [Levels -> {"none", "error"}]
        /\ \A l \in Levels : e[l] # "none" => m[p].m_Error[l] # "none" \/ l = m[p].m_Top
    BY <2>1, <2>2
  <2>4. PICK h : h = [m[p] EXCEPT !.m_Error = e]
    OBVIOUS
  <2>5. /\ h \in Handler /\ h.m_Top = m[p].m_Top /\ h.m_Error = e
        /\ h.m_Handling = m[p].m_Handling /\ h.m_InNativeFilter = m[p].m_InNativeFilter
    BY <2>2, <2>3, <2>4 DEF Handler
  <2>6. SetTracedError(m, p) = [m EXCEPT ![p] = h]
    BY <1>2, <2>1, <2>2, <2>4 DEF SetTracedError, Handler
  <2>7. QED
    BY <1>2, <2>3, <2>5, <2>6 DEF Traced, Touches
<1>3. QED
  BY <1>1, <1>2

\* error and status are set without a trace.
WithError(m, p, e) == [m EXCEPT ![p].error = e]
WithStatus(m, p, e) == [m EXCEPT ![p].status = e]

LEMMA SetErrorEffect ==
  ASSUME NEW m \in [Plugins -> Handler], NEW p \in Plugins, NEW e \in Error
  PROVE  /\ Traced(m, WithError(m, p, e), p)
         /\ WithError(m, p, e)[p].error = e
         /\ WithError(m, p, e)[p].m_Error = m[p].m_Error
<1>1. PICK h : h = [m[p] EXCEPT !.error = e]
  OBVIOUS
<1>2. WithError(m, p, e) = [m EXCEPT ![p] = h]
  BY <1>1 DEF WithError
<1>3. /\ h \in Handler /\ h.m_Top = m[p].m_Top /\ h.m_Error = m[p].m_Error /\ h.error = e
      /\ h.m_Handling = m[p].m_Handling /\ h.m_InNativeFilter = m[p].m_InNativeFilter
  BY <1>1 DEF Handler
<1>4. QED
  BY <1>2, <1>3 DEF Traced, Touches

LEMMA SetStatusEffect ==
  ASSUME NEW m \in [Plugins -> Handler], NEW p \in Plugins, NEW e \in {"error", "paused", "running"}
  PROVE  /\ Traced(m, WithStatus(m, p, e), p)
         /\ WithStatus(m, p, e)[p].error = m[p].error
         /\ WithStatus(m, p, e)[p].m_Error = m[p].m_Error
<1>1. PICK h : h = [m[p] EXCEPT !.status = e]
  OBVIOUS
<1>2. WithStatus(m, p, e) = [m EXCEPT ![p] = h]
  BY <1>1 DEF WithStatus
<1>3. /\ h \in Handler /\ h.m_Top = m[p].m_Top /\ h.m_Error = m[p].m_Error /\ h.error = m[p].error
      /\ h.m_Handling = m[p].m_Handling /\ h.m_InNativeFilter = m[p].m_InNativeFilter
  BY <1>1 DEF Handler
<1>4. QED
  BY <1>2, <1>3 DEF Traced, Touches

LEMMA ReportEffect ==
  ASSUME NEW m \in [Plugins -> Handler], NEW p \in Plugins
  PROVE  Traced(m, Report(m, p), p) /\ Report(m, p)[p].error = "logged"
<1>1. PICK u : u = SetTracedError(m, p)
  OBVIOUS
<1>2. Traced(m, u, p)
  BY <1>1, SetTracedErrorEffect
<1>3. u \in [Plugins -> Handler]
  BY <1>2 DEF Traced, Touches
<1>4. PICK r : r = WithError(u, p, "logged")
  OBVIOUS
<1>5. "logged" \in Error
  BY DEF Error
<1>6. Traced(u, r, p) /\ r[p].error = "logged" /\ r[p].m_Error = u[p].m_Error
  BY <1>3, <1>4, <1>5, SetErrorEffect
<1>7. Traced(m, r, p)
  <2>1. /\ r \in [Plugins -> Handler] /\ \A q \in Plugins : q # p => r[q] = m[q]
    BY <1>2, <1>6 DEF Traced, Touches
  <2>2. /\ r[p].m_Handling = m[p].m_Handling /\ r[p].m_InNativeFilter = m[p].m_InNativeFilter
    BY <1>2, <1>6, Zenon DEF Traced, Touches
  <2>3. r[p].m_Top = m[p].m_Top
    BY <1>2, <1>6, Zenon DEF Traced
  <2>4. QED
    BY <1>2, <1>6, <2>1, <2>2, <2>3, Zenon DEF Traced, Touches
<1>8. QED
  BY <1>1, <1>4, <1>6, <1>7 DEF Report, WithError

-----------------------------------------------------------------------------
(* The pc of the innermost frame moves.                                      *)

Same(f, h) ==
  /\ h.kind = f.kind /\ h.amx = f.amx /\ h.native = f.native
  /\ h.args = f.args /\ h.saved = f.saved

Turned(s, t) ==
  /\ Len(s) > 0 /\ t \in Seq(StackFrame) /\ Len(t) = Len(s)
  /\ \A i \in 1..Len(s) : i < Len(s) => t[i] = s[i]
  /\ Same(s[Len(s)], t[Len(s)])

Quiet(m, r, p) == Touches(m, r, p) /\ r[p].m_Top = m[p].m_Top /\ r[p].m_Error = m[p].m_Error

SameContext(c, d) ==
  d \in Context /\ d.native = c.native /\ d.caller = c.caller /\ d.params = c.params

\* How the functions of the model move a pc from f to h, with amx from m to r.
Move(f, h, m, r) ==
  /\ f.pc # "end"
  /\ h.pc = "invalid" => f.amx \in NativeFilter
  /\ h.pc = "unhandled" => f.kind = "dyna"
  /\ h.pc = "run" => f.pc = "native" /\ m[f.amx].error = "none"
  /\ h.pc \in {"native", "refused"} =>
       f.pc = "run" \/ (f.pc \in {"refused", "invalid"} /\ r[f.amx].error = m[f.amx].error)

LEMMA FramesTyped ==
  ASSUME NEW s \in Seq(StackFrame)
  PROVE  /\ Len(s) \in Nat
         /\ \A i \in 1..Len(s) : s[i] \in StackFrame /\ s[i].amx \in Plugins
<1>1. \A i \in 1..Len(s) : s[i] \in StackFrame
  BY ElementOfSeq
<1>2. \A f \in StackFrame : f.amx \in Plugins
  BY DEF StackFrame
<1>3. QED
  BY <1>1, <1>2

LEMMA TurnShape ==
  ASSUME NEW s \in Seq(StackFrame), NEW t, NEW m, NEW r, Shape(s), Turned(s, t),
         Move(s[Len(s)], t[Len(s)], m, r)
  PROVE  Shape(t)
<1>1. Len(s) \in Nat \ {0} /\ Len(t) = Len(s)
  BY DEF Turned
<1>2. ASSUME NEW i \in 1..Len(t) PROVE FrameShape(t, i)
  <2>1. CASE i < Len(s)
    <3>1. t[i] = s[i] /\ FrameShape(s, i) /\ i \in 1..Len(s)
      BY <1>1, <2>1 DEF Turned, Shape
    <3>2. i > 1 => t[i-1] = s[i-1]
      BY <1>1, <2>1 DEF Turned
    <3>3. QED
      BY <1>1, <3>1, <3>2 DEF FrameShape
  <2>2. CASE i = Len(s)
    <3>1. Same(s[i], t[i]) /\ FrameShape(s, i) /\ i \in 1..Len(s) /\ Move(s[i], t[i], m, r)
      BY <1>1, <2>2 DEF Turned, Shape
    <3>2. i > 1 => t[i-1] = s[i-1]
      BY <1>1, <2>2 DEF Turned
    <3>3. QED
      BY <1>1, <2>2, <3>1, <3>2 DEF FrameShape, Same, Move
  <2>3. QED
    BY <1>1, <2>1, <2>2
<1>3. QED
  BY <1>2 DEF Shape

\* A context is about frames whose kind, plugin, native and arguments stay.
LEMMA ContextKept ==
  ASSUME NEW s, NEW t, NEW c, NEW d, NEW k \in Nat, ContextOf(s, c, k),
         d.native = c.native, d.caller = c.caller, d.params = c.params,
         \A i \in 1..k : Same(s[i], t[i]), \A i \in 1..k : s[i].kind = "dyna" => i > 1
  PROVE  ContextOf(t, d, k)
<1>1. \A i \in 1..k : /\ t[i].kind = s[i].kind /\ t[i].amx = s[i].amx
                      /\ t[i].native = s[i].native /\ t[i].args = s[i].args
  BY DEF Same
<1>2. CASE \A i \in 1..k : s[i].kind # "dyna"
  BY <1>1, <1>2 DEF ContextOf
<1>3. CASE ~ \A i \in 1..k : s[i].kind # "dyna"
  <2>1. PICK i \in 1..k :
          /\ s[i].kind = "dyna"
          /\ \A j \in 1..k : j > i => s[j].kind # "dyna"
          /\ c.native = s[i].native /\ c.caller = s[i-1].amx /\ c.params = s[i].args
    BY <1>3 DEF ContextOf
  <2>2. i - 1 \in 1..k
    BY <2>1
  <2>3. t[i-1].amx = s[i-1].amx
    BY <1>1, <2>2
  <2>4. QED
    BY <1>1, <2>1, <2>3 DEF ContextOf
<1>4. QED
  BY <1>2, <1>3

\* The same for all the contexts of the first n frames.
LEMMA ContextsKept ==
  ASSUME NEW s, NEW t, NEW n \in Nat, n <= Len(s), Len(s) \in Nat, Shape(s),
         \A i \in 1..n : Same(s[i], t[i]), Nested(s, n)
  PROVE  Nested(t, n)
<1> SUFFICES ASSUME NEW i \in 1..n, t[i].kind = "dyna" PROVE ContextOf(t, t[i].saved, i - 1)
  BY DEF Nested
<1>1. s[i].kind = "dyna" /\ t[i].saved = s[i].saved
  BY DEF Same
<1>2. PICK k \in Nat : k = i - 1
  <2>1. i - 1 \in Nat
    OBVIOUS
  <2>2. QED
    BY <2>1
<1>3. ContextOf(s, s[i].saved, k)
  BY <1>1, <1>2 DEF Nested
<1>4. \A j \in 1..k : j \in 1..n /\ j \in 1..Len(s)
  BY <1>2
<1>5. \A j \in 1..k : Same(s[j], t[j]) /\ (s[j].kind = "dyna" => j > 1)
  BY <1>4 DEF Shape, FrameShape
<1>6. ContextOf(t, t[i].saved, k)
  BY <1>1, <1>3, <1>5, ContextKept
<1>7. QED
  BY <1>2, <1>6

LEMMA TurnedSame ==
  ASSUME NEW s \in Seq(StackFrame), NEW t, Turned(s, t)
  PROVE  /\ Len(s) \in Nat /\ Len(t) = Len(s)
         /\ \A i \in 1..Len(s) : Same(s[i], t[i]) /\ t[i].kind = s[i].kind /\ t[i].amx = s[i].amx
<1>1. Len(s) \in Nat /\ Len(t) = Len(s)
  BY DEF Turned
<1>2. ASSUME NEW i \in 1..Len(s) PROVE Same(s[i], t[i])
  <2>1. CASE i < Len(s)
    BY <2>1 DEF Turned, Same
  <2>2. CASE i = Len(s)
    BY <2>2 DEF Turned
  <2>3. QED
    BY <1>1, <2>1, <2>2
<1>3. QED
  BY <1>1, <1>2 DEF Same

LEMMA TurnContexts ==
  ASSUME NEW s \in Seq(StackFrame), NEW t, NEW c, NEW d, Shape(s), Contexts(s, c),
         Turned(s, t), SameContext(c, d)
  PROVE  Contexts(t, d)
<1>1. /\ Len(s) \in Nat /\ Len(t) = Len(s) /\ \A i \in 1..Len(s) : Same(s[i], t[i])
  BY TurnedSame
<1>2. \A i \in 1..Len(s) : s[i].kind = "dyna" => i > 1
  BY DEF Shape, FrameShape
<1>3. ContextOf(t, d, Len(s))
  BY <1>1, <1>2, ContextKept DEF Contexts, SameContext
<1>4. Nested(t, Len(s))
  BY <1>1, ContextsKept DEF Contexts
<1>5. QED
  BY <1>1, <1>3, <1>4 DEF Contexts

\* The flags: no filter is entered or left.
LEMMA TurnFlags ==
  ASSUME NEW s \in Seq(StackFrame), NEW t, NEW m, NEW r, Flags(s, m), Turned(s, t),
         NEW p \in Plugins, Touches(m, r, p)
  PROVE  Flags(t, r)
<1>1. /\ Len(s) \in Nat /\ Len(t) = Len(s)
      /\ \A i \in 1..Len(s) : t[i].kind = s[i].kind /\ t[i].amx = s[i].amx
  BY TurnedSame
<1>2. \A q \in Plugins : /\ r[q].m_Handling = m[q].m_Handling
                         /\ r[q].m_InNativeFilter = m[q].m_InNativeFilter
  BY DEF Touches
<1>3. \A i \in 1..Len(s) : s[i].amx \in Plugins
  BY FramesTyped
<1>4. \A i \in 1..Len(s), q \in Plugins : Filters(t, i, q) => Filters(s, i, q)
  BY <1>1 DEF Filters
<1>5. \A i \in 1..Len(s), q \in Plugins : Filters(s, i, q) => Filters(t, i, q)
  BY <1>1 DEF Filters
<1>6. \A i, j \in 1..Len(t) : Filters(t, i, t[i].amx) /\ Filters(t, j, t[i].amx) => i = j
  BY <1>1, <1>3, <1>4 DEF Flags
<1>7. \A q \in Plugins : r[q].m_Handling => \E i \in 1..Len(t) : Filters(t, i, q)
  BY <1>1, <1>2, <1>5 DEF Flags
<1>8. \A i \in 1..Len(t) : Filters(t, i, t[i].amx) => r[t[i].amx].m_Handling
  BY <1>1, <1>2, <1>3, <1>4 DEF Flags
<1>9. \A q \in Plugins : r[q].m_InNativeFilter =>
        \E i \in 1..Len(t) : t[i].kind = "natfilter" /\ t[i].amx = q
  BY <1>1, <1>2 DEF Flags
<1>10. QED
  BY <1>6, <1>7, <1>8, <1>9 DEF Flags

LEMMA HandlingSame ==
  ASSUME NEW m, NEW r, NEW p \in Plugins, Touches(m, r, p)
  PROVE  HandlingIn(r) = HandlingIn(m)
<1>1. \A q \in Plugins : r[q].m_Handling = m[q].m_Handling
  BY DEF Touches
<1>2. QED
  BY <1>1 DEF HandlingIn

LEMMA TurnBalanced ==
  ASSUME NEW s \in Seq(StackFrame), NEW t, NEW m, NEW r, Balanced(s, m), Turned(s, t),
         NEW p \in Plugins, Touches(m, r, p), r[p].m_Top = m[p].m_Top
  PROVE  Balanced(t, r)
<1>1. /\ Len(s) \in Nat /\ Len(t) = Len(s) /\ \A i \in 1..Len(s) : t[i].amx = s[i].amx
  BY TurnedSame
<1>2. \A q \in Plugins : r[q].m_Top = m[q].m_Top
  BY DEF Touches
<1>3. \A q : Level(t, q, Len(s)) = Level(s, q, Len(s))
  BY <1>1, LevelSame
<1>4. QED
  BY <1>1, <1>2, <1>3, PluginAssumption DEF Balanced

LEMMA TurnPlaced ==
  ASSUME NEW s \in Seq(StackFrame), NEW t, Shape(s), Placed(s), Turned(s, t)
  PROVE  Placed(t)
<1> SUFFICES ASSUME NEW k \in 1..Len(t), t[k].kind = "errfilter"
             PROVE  \/ t[k-1].amx = t[k].amx
                    \/ k > 2 /\ Passing(t, k - 1, t[k].amx) /\ t[k-2].amx = t[k].amx
  BY DEF Placed
<1>1. /\ Len(s) \in Nat /\ Len(t) = Len(s)
      /\ \A i \in 1..Len(s) : t[i].kind = s[i].kind /\ t[i].amx = s[i].amx
  BY TurnedSame
<1>2. s[k].kind = "errfilter" /\ k \in 1..Len(s) /\ t[k].amx = s[k].amx
  BY <1>1
<1>3. k > 1
  BY <1>2 DEF Shape, FrameShape
<1>4. t[k-1] = s[k-1] /\ (k > 2 => t[k-2] = s[k-2])
  BY <1>1, <1>3 DEF Turned
<1>5. \/ s[k-1].amx = s[k].amx
      \/ k > 2 /\ Passing(s, k - 1, s[k].amx) /\ s[k-2].amx = s[k].amx
  BY <1>2 DEF Placed
<1>6. QED
  BY <1>2, <1>4, <1>5 DEF Passing

LEMMA TurnTraces ==
  ASSUME NEW s, NEW t, NEW m, NEW r, NEW c, Typed(s, m, c), Shape(s), Bounded(s, m), Traces(s, m),
         Turned(s, t), Quiet(m, r, s[Len(s)].amx), Move(s[Len(s)], t[Len(s)], m, r)
  PROVE  Traces(t, r)
<1>1. /\ Len(s) \in Nat \ {0} /\ Len(t) = Len(s) /\ s \in Seq(StackFrame)
      /\ \A i \in 1..Len(s) : t[i].kind = s[i].kind /\ t[i].amx = s[i].amx
  <2>1. s \in Seq(StackFrame) /\ Len(s) > 0
    BY DEF Typed, Turned
  <2>2. QED
    BY <2>1, TurnedSame
<1>2. PICK n \in Nat \ {0} : n = Len(s)
  BY <1>1
<1>3. \A i \in 1..n : s[i].amx \in Plugins
  BY <1>1, <1>2, FramesTyped
<1>4. ASSUME NEW i \in 1..n, Failed(t, r, i)
      PROVE  \/ t[i].pc \in Ending
             \/ t[i].pc \in {"native", "refused"} /\ Doomed(t, r, i)
  <2>1. Failed(s, m, i)
    <3>1. PICK k \in Nat : k = i - 1
      <4>1. i - 1 \in Nat
        OBVIOUS
      <4>2. QED
        BY <4>1
    <3>2. Level(t, s[i].amx, k) = Level(s, s[i].amx, k)
      <4>1. \A j \in 1..k : t[j].amx = s[j].amx
        BY <1>1, <1>2, <3>1
      <4>2. QED
        BY <4>1, LevelSame
    <3>3. r[s[i].amx].m_Error = m[s[i].amx].m_Error
      BY <1>3 DEF Quiet, Touches
    <3>4. t[i].amx = s[i].amx
      BY <1>1, <1>2
    <3>5. QED
      BY <1>4, <3>1, <3>2, <3>3, <3>4 DEF Failed
  <2>2. \/ s[i].pc \in Ending
        \/ s[i].pc \in {"native", "refused"} /\ Doomed(s, m, i)
    BY <1>2, <2>1 DEF Traces
  <2>3. s[n].pc # "end" /\ Move(s[n], t[n], m, r)
    BY <1>2 DEF Move
  <2>4. CASE i < n
    <3>1. t[i] = s[i] /\ i + 1 \in 1..n
      BY <1>2, <2>4 DEF Turned
    <3>2. ASSUME Doomed(s, m, i) PROVE Doomed(t, r, i)
      <4>1. ~ Passing(s, n, s[i].amx)
        BY <2>3 DEF Passing
      <4>2. CASE Filters(s, i + 1, s[i].amx)
        BY <1>1, <1>2, <2>4, <3>1, <4>2 DEF Doomed, Filters
      <4>3. CASE i + 2 <= n /\ Passing(s, i + 1, s[i].amx) /\ Filters(s, i + 2, s[i].amx)
        <5>1. i + 1 < n /\ i + 2 \in 1..n
          BY <4>3
        <5>2. t[i+1] = s[i+1] /\ t[i+2].kind = s[i+2].kind /\ t[i+2].amx = s[i+2].amx
          BY <1>1, <1>2, <3>1, <5>1 DEF Turned
        <5>3. Passing(t, i + 1, t[i].amx) /\ Filters(t, i + 2, t[i].amx)
          BY <3>1, <4>3, <5>2 DEF Passing, Filters
        <5>4. QED
          BY <1>1, <1>2, <4>3, <5>3 DEF Doomed
      <4>4. QED
        BY <1>2, <2>4, <3>2, <4>1, <4>2, <4>3 DEF Doomed
    <3>3. QED
      BY <2>2, <3>1, <3>2
  <2>5. CASE i = n
    <3>1. s[n].amx \notin NativeFilter /\ FrameShape(s, n)
      BY <1>2, <2>1, <2>5 DEF Failed, Shape
    <3>2. Doomed(s, m, n) => m[s[n].amx].error # "none"
      BY <1>2 DEF Doomed
    <3>3. t[n] \in StackFrame
      <4>1. t \in Seq(StackFrame)
        BY DEF Turned
      <4>2. QED
        BY <1>1, <1>2, <4>1, FramesTyped
    <3>4. t[n].pc \in {"run", "native", "refused", "invalid", "returned", "unhandled", "end"}
      BY <3>3 DEF StackFrame
    <3>5. CASE t[n].pc \in {"native", "refused"}
      <4>1. s[n].pc \in {"run", "refused", "invalid"} /\ (s[n].pc # "run" => r[s[n].amx].error = m[s[n].amx].error)
        BY <2>3, <3>5 DEF Move
      <4>2. s[n].pc = "refused" /\ m[s[n].amx].error # "none"
        BY <2>2, <2>5, <3>1, <3>2, <4>1 DEF Ending, FrameShape
      <4>3. r[t[n].amx].error # "none"
        BY <1>1, <1>2, <4>1, <4>2
      <4>4. QED
        BY <1>1, <1>2, <2>5, <3>5, <4>3 DEF Doomed
    <3>6. CASE t[n].pc \notin {"native", "refused"}
      <4>1. t[n].pc # "invalid"
        BY <2>3, <3>1 DEF Move
      <4>2. t[n].pc # "run"
        BY <2>2, <2>3, <2>5, <3>2 DEF Move, Ending
      <4>3. QED
        BY <2>5, <3>4, <3>6, <4>1, <4>2 DEF Ending
    <3>7. QED
      BY <3>5, <3>6
  <2>6. QED
    BY <2>4, <2>5
<1>5. QED
  BY <1>1, <1>2, <1>4 DEF Traces

LEMMA TurnInv ==
  ASSUME NEW s, NEW t, NEW m, NEW r, NEW c, NEW d, Inv(s, m, c), Turned(s, t),
         Quiet(m, r, s[Len(s)].amx), Move(s[Len(s)], t[Len(s)], m, r), SameContext(c, d)
  PROVE  Inv(t, r, d)
<1>1. s \in Seq(StackFrame) /\ Len(s) \in 1..Len(s)
  BY DEF Inv, Typed, Turned
<1>2. s[Len(s)].amx \in Plugins
  BY <1>1, FramesTyped
<1>3. Touches(m, r, s[Len(s)].amx) /\ r[s[Len(s)].amx].m_Top = m[s[Len(s)].amx].m_Top
  BY DEF Quiet
<1>4. Typed(t, r, d)
  BY <1>3 DEF Typed, Touches, Turned, SameContext
<1>5. Shape(t)
  BY <1>1, TurnShape DEF Inv
<1>6. Contexts(t, d)
  BY <1>1, TurnContexts DEF Inv
<1>7. Flags(t, r)
  BY <1>1, <1>2, <1>3, TurnFlags DEF Inv
<1>8. Bounded(t, r)
  BY <1>2, <1>3, HandlingSame DEF Inv, Bounded, Turned
<1>9. Balanced(t, r)
  BY <1>1, <1>2, <1>3, TurnBalanced DEF Inv
<1>10. Placed(t)
  BY <1>1, TurnPlaced DEF Inv
<1>11. Traces(t, r)
  BY TurnTraces DEF Inv
<1>12. QED
  BY <1>4, <1>5, <1>6, <1>7, <1>8, <1>9, <1>10, <1>11 DEF Inv

-----------------------------------------------------------------------------
(* An execution begins.                                                      *)

Pushed(s, t, f) ==
  /\ f \in StackFrame /\ t \in Seq(StackFrame) /\ Len(t) = Len(s) + 1
  /\ \A i \in 1..Len(s) : t[i] = s[i]
  /\ t[Len(s) + 1] = f

\* The handler of the frame's plugin has one tracer more.
Tracer(m, r, p) ==
  /\ p \notin Debug => r[p].m_Top = m[p].m_Top
  /\ p \in Debug => r[p].m_Top = m[p].m_Top + 1
  /\ \A l \in Levels : r[p].m_Error[l] # "none" =>
       m[p].m_Error[l] # "none" /\ (p \in Debug => l # m[p].m_Top + 1)

Entered(m, r, f) ==
  /\ r \in [Plugins -> Handler]
  /\ \A q \in Plugins : q # f.amx => r[q] = m[q]
  /\ r[f.amx].error = m[f.amx].error
  /\ r[f.amx].m_Handling = m[f.amx].m_Handling
  /\ r[f.amx].m_InNativeFilter => m[f.amx].m_InNativeFilter \/ f.kind = "natfilter"
  /\ Tracer(m, r, f.amx)

\* The innermost frame waits in a native that has not failed.
Waits(s, m) == s[Len(s)].pc = "native" /\ m[s[Len(s)].amx].error = "none"

NewFrame(s, f) ==
  /\ f.pc = "run"
  /\ f.kind # "forward" => Len(s) > 0
  /\ f.kind = "natfilter" => f.amx \in NativeFilter /\ s[Len(s)].amx = f.amx /\ s[Len(s)].pc = "native"
  /\ f.kind = "dyna" => f.native \in Natives /\ f.saved \in Context

LEMMA PushShape ==
  ASSUME NEW s \in Seq(StackFrame), NEW t, NEW f, Shape(s), Pushed(s, t, f), NewFrame(s, f),
         Len(s) > 0 => s[Len(s)].pc # "run"
  PROVE  Shape(t)
<1>1. Len(s) \in Nat /\ Len(t) = Len(s) + 1
  BY DEF Pushed
<1>2. ASSUME NEW i \in 1..Len(t) PROVE FrameShape(t, i)
  <2>1. CASE i <= Len(s)
    <3>1. t[i] = s[i] /\ FrameShape(s, i) /\ (i > 1 => t[i-1] = s[i-1])
      BY <1>1, <2>1 DEF Pushed, Shape
    <3>2. t[i].pc # "run"
      BY <1>1, <2>1, <3>1 DEF FrameShape
    <3>3. QED
      BY <3>1, <3>2 DEF FrameShape
  <2>2. CASE i = Len(s) + 1
    <3>1. t[i] = f /\ (i > 1 => t[i-1] = s[Len(s)])
      BY <1>1, <2>2 DEF Pushed
    <3>2. QED
      BY <1>1, <2>2, <3>1 DEF FrameShape, NewFrame
  <2>3. QED
    BY <1>1, <2>1, <2>2
<1>3. QED
  BY <1>2 DEF Shape

LEMMA PushedSame ==
  ASSUME NEW s \in Seq(StackFrame), NEW t, NEW f, Pushed(s, t, f)
  PROVE  /\ Len(s) \in Nat /\ Len(t) = Len(s) + 1
         /\ \A i \in 1..Len(s) : Same(s[i], t[i])
         /\ \A i \in 1..Len(t) : i \in 1..Len(s) \/ i = Len(s) + 1
  BY DEF Pushed, Same

LEMMA PushNested ==
  ASSUME NEW s \in Seq(StackFrame), NEW t, NEW f, NEW c, Shape(s), Contexts(s, c), Pushed(s, t, f),
         f.kind = "dyna" => f.saved = c
  PROVE  Nested(t, Len(t))
<1>1. /\ Len(s) \in Nat /\ Len(t) = Len(s) + 1
      /\ \A i \in 1..Len(s) : Same(s[i], t[i])
      /\ \A i \in 1..Len(t) : i \in 1..Len(s) \/ i = Len(s) + 1
  BY PushedSame
<1>2. \A i \in 1..Len(s) : s[i].kind = "dyna" => i > 1
  BY DEF Shape, FrameShape
<1>3. Nested(t, Len(s))
  BY <1>1, ContextsKept DEF Contexts
<1>4. ASSUME f.kind = "dyna" PROVE ContextOf(t, f.saved, Len(s))
  <2>1. ContextOf(s, f.saved, Len(s))
    BY <1>4 DEF Contexts
  <2>2. QED
    BY <1>1, <1>2, <2>1, ContextKept
<1>5. SUFFICES ASSUME NEW i \in 1..Len(t), t[i].kind = "dyna" PROVE ContextOf(t, t[i].saved, i - 1)
  BY DEF Nested
<1>6. CASE i \in 1..Len(s)
  BY <1>3, <1>5, <1>6 DEF Nested
<1>7. CASE i = Len(s) + 1
  <2>1. t[i] = f /\ i - 1 = Len(s)
    BY <1>1, <1>7 DEF Pushed
  <2>2. QED
    BY <1>4, <1>5, <2>1
<1>8. QED
  BY <1>1, <1>6, <1>7

LEMMA PushContexts ==
  ASSUME NEW s \in Seq(StackFrame), NEW t, NEW f, NEW c, NEW d, Shape(s), Contexts(s, c), Pushed(s, t, f),
         f.kind # "dyna" => SameContext(c, d),
         f.kind = "dyna" => /\ Len(s) > 0 /\ f.saved = c
                            /\ d.native = f.native /\ d.caller = s[Len(s)].amx /\ d.params = f.args
  PROVE  Contexts(t, d)
<1>1. /\ Len(s) \in Nat /\ Len(t) = Len(s) + 1
      /\ \A i \in 1..Len(s) : Same(s[i], t[i]) /\ t[i].kind = s[i].kind
      /\ \A i \in 1..Len(t) : i \in 1..Len(s) \/ i = Len(s) + 1
  BY PushedSame DEF Same
<1>2. \A i \in 1..Len(s) : s[i].kind = "dyna" => i > 1
  BY DEF Shape, FrameShape
<1>3. Nested(t, Len(t))
  BY PushNested
<1>4. t[Len(s) + 1] = f /\ Len(s) + 1 \in 1..Len(t)
  BY <1>1 DEF Pushed
<1>5. CASE f.kind # "dyna"
  <2>1. ContextOf(t, d, Len(s))
    BY <1>1, <1>2, <1>5, ContextKept DEF Contexts, SameContext
  <2>2. CASE \A i \in 1..Len(s) : t[i].kind # "dyna"
    <3>1. \A i \in 1..Len(t) : t[i].kind # "dyna"
      BY <1>1, <1>4, <1>5, <2>2
    <3>2. d.native = NULL /\ d.caller = NULL
      BY <2>1, <2>2 DEF ContextOf
    <3>3. QED
      BY <1>3, <3>1, <3>2 DEF Contexts, ContextOf
  <2>3. CASE ~ \A i \in 1..Len(s) : t[i].kind # "dyna"
    <3>1. PICK i \in 1..Len(s) :
            /\ t[i].kind = "dyna"
            /\ \A j \in 1..Len(s) : j > i => t[j].kind # "dyna"
            /\ d.native = t[i].native /\ d.caller = t[i-1].amx /\ d.params = t[i].args
      BY <2>1, <2>3 DEF ContextOf
    <3>2. \A j \in 1..Len(t) : j > i => t[j].kind # "dyna"
      BY <1>1, <1>4, <1>5, <3>1
    <3>3. i \in 1..Len(t)
      BY <1>1
    <3>4. ContextOf(t, d, Len(t))
      BY <3>1, <3>2, <3>3 DEF ContextOf
    <3>5. QED
      BY <1>3, <3>4 DEF Contexts
  <2>4. QED
    BY <2>2, <2>3
<1>6. CASE f.kind = "dyna"
  <2>1. PICK i \in 1..Len(t) : i = Len(t)
    BY <1>1, <1>4
  <2>2. t[i] = f /\ t[i-1] = s[Len(s)]
    BY <1>1, <1>4, <1>6, <2>1 DEF Pushed
  <2>3. ContextOf(t, d, Len(t))
    BY <1>1, <1>6, <2>1, <2>2 DEF ContextOf
  <2>4. QED
    BY <1>3, <2>3 DEF Contexts
<1>7. QED
  BY <1>5, <1>6

LEMMA PushFlags ==
  ASSUME NEW s \in Seq(StackFrame), NEW t, NEW m, NEW r, NEW f, Flags(s, m), Pushed(s, t, f),
         Entered(m, r, f), f.kind # "errfilter"
  PROVE  Flags(t, r)
<1>1. /\ Len(s) \in Nat /\ Len(t) = Len(s) + 1 /\ t[Len(s) + 1] = f /\ Len(s) + 1 \in 1..Len(t)
      /\ \A i \in 1..Len(s) : t[i] = s[i] /\ i \in 1..Len(t)
      /\ \A i \in 1..Len(t) : i \in 1..Len(s) \/ i = Len(s) + 1
  BY DEF Pushed
<1>2. \A i \in 1..Len(s) : s[i].amx \in Plugins
  BY FramesTyped
<1>3. \A q \in Plugins : r[q].m_Handling = m[q].m_Handling
  BY DEF Entered
<1>4. \A q : \A i \in 1..Len(t) : Filters(t, i, q) => i \in 1..Len(s) /\ Filters(s, i, q) /\ t[i] = s[i]
  BY <1>1 DEF Filters
<1>5. \A q : \A i \in 1..Len(s) : Filters(s, i, q) => Filters(t, i, q)
  BY <1>1 DEF Filters
<1>6. \A i, j \in 1..Len(t) : Filters(t, i, t[i].amx) /\ Filters(t, j, t[i].amx) => i = j
  BY <1>4 DEF Flags
<1>7. \A q \in Plugins : r[q].m_Handling => \E i \in 1..Len(t) : Filters(t, i, q)
  BY <1>1, <1>3, <1>5 DEF Flags
<1>8. \A i \in 1..Len(t) : Filters(t, i, t[i].amx) => r[t[i].amx].m_Handling
  BY <1>2, <1>3, <1>4 DEF Flags
<1>9. ASSUME NEW q \in Plugins, r[q].m_InNativeFilter
      PROVE  \E i \in 1..Len(t) : t[i].kind = "natfilter" /\ t[i].amx = q
  <2>1. CASE m[q].m_InNativeFilter
    <3>1. PICK i \in 1..Len(s) : s[i].kind = "natfilter" /\ s[i].amx = q
      BY <2>1 DEF Flags
    <3>2. QED
      BY <1>1, <3>1
  <2>2. CASE ~ m[q].m_InNativeFilter
    <3>1. q = f.amx /\ f.kind = "natfilter"
      BY <1>9, <2>2 DEF Entered
    <3>2. QED
      BY <1>1, <3>1
  <2>3. QED
    BY <2>1, <2>2
<1>10. QED
  BY <1>6, <1>7, <1>8, <1>9 DEF Flags

LEMMA PushBalanced ==
  ASSUME NEW s \in Seq(StackFrame), NEW t, NEW m \in [Plugins -> Handler], NEW r, NEW f,
         Balanced(s, m), Pushed(s, t, f),
         \A q \in Plugins : q # f.amx => r[q].m_Top = m[q].m_Top, Tracer(m, r, f.amx)
  PROVE  Balanced(t, r)
<1>1. /\ Len(s) \in Nat /\ Len(t) = Len(s) + 1 /\ t[Len(s) + 1] = f
      /\ \A i \in 1..Len(s) : t[i].amx = s[i].amx
  BY DEF Pushed
<1>2. ASSUME NEW q \in Debug \ NativeFilter PROVE r[q].m_Top + 1 = Level(t, q, Len(t))
  <2>1. q \in Plugins /\ m[q].m_Top + 1 = Level(s, q, Len(s)) /\ m[q].m_Top \in Int
    BY PluginAssumption DEF Balanced, Handler
  <2>2. Level(t, q, Len(s)) = Level(s, q, Len(s))
    BY <1>1, LevelSame
  <2>3. /\ f.amx = q => Level(t, q, Len(s) + 1) = Level(t, q, Len(s)) + 1
        /\ f.amx # q => Level(t, q, Len(s) + 1) = Level(t, q, Len(s))
    BY <1>1, LevelNext
  <2>4. CASE f.amx = q
    <3>1. r[q].m_Top = m[q].m_Top + 1
      BY <2>4 DEF Tracer
    <3>2. QED
      BY <1>1, <2>1, <2>2, <2>3, <2>4, <3>1
  <2>5. CASE f.amx # q
    BY <1>1, <2>1, <2>2, <2>3, <2>5
  <2>6. QED
    BY <2>4, <2>5
<1>3. \A q \in Plugins \ Debug : r[q].m_Top = -1
  BY DEF Balanced, Tracer
<1>4. QED
  BY <1>2, <1>3 DEF Balanced

\* The new tracer has no error, and no other tracer gets one.
LEMMA PushFailed ==
  ASSUME NEW s \in Seq(StackFrame), NEW t, NEW m \in [Plugins -> Handler], NEW r, NEW d, NEW f,
         Typed(t, r, d), Bounded(t, r), Balanced(s, m), Pushed(s, t, f),
         \A q \in Plugins : q # f.amx => r[q].m_Error = m[q].m_Error, Tracer(m, r, f.amx),
         NEW i \in 1..Len(t), Failed(t, r, i)
  PROVE  i \in 1..Len(s) /\ Failed(s, m, i)
<1>1. /\ Len(s) \in Nat /\ Len(t) = Len(s) + 1 /\ t[Len(s) + 1] = f
      /\ \A j \in 1..Len(s) : t[j].amx = s[j].amx
  BY DEF Pushed
<1>2. PICK k \in Nat : k = i - 1 /\ k < Len(t) /\ k <= Len(s)
  <2>1. i - 1 \in Nat /\ i - 1 < Len(t) /\ i - 1 <= Len(s)
    BY <1>1
  <2>2. QED
    BY <2>1
<1>3. PICK q \in Plugins : q = t[i].amx /\ q \in Debug \ NativeFilter
  BY PluginAssumption DEF Failed
<1>4. Level(t, q, k) = Level(s, q, k)
  <2>1. \A j \in 1..k : t[j].amx = s[j].amx
    BY <1>1, <1>2
  <2>2. QED
    BY <2>1, LevelSame
<1>5. Level(t, q, k) \in Levels
  BY <1>2, LevelRange
<1>6. r[q].m_Error[Level(t, q, k)] # "none"
  BY <1>2, <1>3 DEF Failed
<1>7. m[q].m_Error[Level(s, q, k)] # "none"
  BY <1>4, <1>5, <1>6 DEF Tracer
<1>8. i # Len(s) + 1
  <2>1. SUFFICES ASSUME i = Len(s) + 1 PROVE FALSE
    OBVIOUS
  <2>2. q = f.amx /\ k = Len(s)
    BY <1>1, <1>2, <1>3, <2>1
  <2>3. Level(s, q, k) # m[q].m_Top + 1
    BY <1>3, <1>4, <1>5, <1>6, <2>2 DEF Tracer
  <2>4. QED
    BY <1>3, <2>2, <2>3 DEF Balanced
<1>9. i \in 1..Len(s)
  BY <1>1, <1>8
<1>10. QED
  BY <1>1, <1>2, <1>3, <1>7, <1>9 DEF Failed

\* Two frames above i decide whether its execution ends.
LEMMA PushDoomed ==
  ASSUME NEW s \in Seq(StackFrame), NEW t, NEW m, NEW r, NEW f, Pushed(s, t, f),
         NEW i \in 1..Len(s), Doomed(s, m, i),
         ~ (i = Len(s) /\ m[s[i].amx].error # "none"),
         ~ (i + 1 = Len(s) /\ Passing(s, i + 1, s[i].amx) /\ m[s[i].amx].error # "none")
  PROVE  Doomed(t, r, i)
<1>1. /\ Len(s) \in Nat /\ Len(t) = Len(s) + 1
      /\ \A j \in 1..Len(s) : t[j] = s[j]
  BY DEF Pushed
<1>2. CASE i + 1 <= Len(s) /\ Filters(s, i + 1, s[i].amx)
  <2>1. i + 1 \in 1..Len(s)
    BY <1>1, <1>2
  <2>2. Filters(t, i + 1, t[i].amx)
    BY <1>1, <1>2, <2>1 DEF Filters
  <2>3. QED
    BY <1>1, <2>1, <2>2 DEF Doomed
<1>3. CASE i + 2 <= Len(s) /\ Passing(s, i + 1, s[i].amx) /\ Filters(s, i + 2, s[i].amx)
  <2>1. i + 1 \in 1..Len(s) /\ i + 2 \in 1..Len(s)
    BY <1>1, <1>3
  <2>2. Passing(t, i + 1, t[i].amx) /\ Filters(t, i + 2, t[i].amx)
    BY <1>1, <1>3, <2>1 DEF Filters, Passing
  <2>3. QED
    BY <1>1, <2>1, <2>2 DEF Doomed
<1>4. QED
  BY <1>2, <1>3 DEF Doomed

LEMMA PushTraces ==
  ASSUME NEW s, NEW t, NEW m, NEW r, NEW c, NEW d, NEW f, Typed(s, m, c), Typed(t, r, d),
         Bounded(t, r), Balanced(s, m), Traces(s, m), Pushed(s, t, f), Entered(m, r, f),
         Len(s) > 0 => Waits(s, m)
  PROVE  Traces(t, r)
<1>1. s \in Seq(StackFrame) /\ m \in [Plugins -> Handler] /\ Len(s) \in Nat
  BY DEF Typed
<1>2. \A q \in Plugins : q # f.amx => r[q].m_Error = m[q].m_Error
  BY DEF Entered
<1>3. Tracer(m, r, f.amx)
  BY DEF Entered
<1>4. ASSUME NEW i \in 1..Len(t), Failed(t, r, i)
      PROVE  \/ t[i].pc \in Ending
             \/ t[i].pc \in {"native", "refused"} /\ Doomed(t, r, i)
  <2>1. i \in 1..Len(s) /\ Failed(s, m, i)
    BY <1>1, <1>2, <1>3, <1>4, PushFailed
  <2>2. t[i] = s[i]
    BY <2>1 DEF Pushed
  <2>3. Waits(s, m)
    BY <1>1, <2>1
  <2>4. ASSUME Doomed(s, m, i) PROVE Doomed(t, r, i)
    <3>1. ~ (i = Len(s) /\ m[s[i].amx].error # "none")
      BY <2>3 DEF Waits
    <3>2. ~ (i + 1 = Len(s) /\ Passing(s, i + 1, s[i].amx) /\ m[s[i].amx].error # "none")
      BY <2>3 DEF Waits, Passing
    <3>3. QED
      BY <1>1, <2>1, <2>4, <3>1, <3>2, PushDoomed
  <2>5. QED
    BY <2>1, <2>2, <2>4 DEF Traces
<1>5. QED
  BY <1>4 DEF Traces

LEMMA PushPlaced ==
  ASSUME NEW s \in Seq(StackFrame), NEW t, NEW f, Shape(s), Placed(s), Pushed(s, t, f),
         f.kind = "errfilter" =>
           \/ s[Len(s)].amx = f.amx /\ Len(s) > 0
           \/ Len(s) > 1 /\ Passing(s, Len(s), f.amx) /\ s[Len(s) - 1].amx = f.amx
  PROVE  Placed(t)
<1> SUFFICES ASSUME NEW k \in 1..Len(t), t[k].kind = "errfilter"
             PROVE  \/ t[k-1].amx = t[k].amx
                    \/ k > 2 /\ Passing(t, k - 1, t[k].amx) /\ t[k-2].amx = t[k].amx
  BY DEF Placed
<1>1. /\ Len(s) \in Nat /\ Len(t) = Len(s) + 1 /\ t[Len(s) + 1] = f
      /\ \A i \in 1..Len(s) : t[i] = s[i]
  BY DEF Pushed
<1>2. CASE k \in 1..Len(s)
  <2>1. t[k] = s[k] /\ k > 1
    BY <1>1, <1>2 DEF Shape, FrameShape
  <2>2. t[k-1] = s[k-1] /\ (k > 2 => t[k-2] = s[k-2])
    BY <1>1, <1>2, <2>1
  <2>3. \/ s[k-1].amx = s[k].amx
        \/ k > 2 /\ Passing(s, k - 1, s[k].amx) /\ s[k-2].amx = s[k].amx
    BY <1>2, <2>1 DEF Placed
  <2>4. QED
    BY <2>1, <2>2, <2>3 DEF Passing
<1>3. CASE k = Len(s) + 1
  <2>1. t[k] = f /\ f.kind = "errfilter" /\ k - 1 = Len(s) /\ k - 2 = Len(s) - 1
    BY <1>1, <1>3
  <2>2. CASE s[Len(s)].amx = f.amx /\ Len(s) > 0
    <3>1. t[k-1] = s[Len(s)]
      BY <1>1, <2>1, <2>2
    <3>2. QED
      BY <2>1, <2>2, <3>1
  <2>3. CASE Len(s) > 1 /\ Passing(s, Len(s), f.amx) /\ s[Len(s) - 1].amx = f.amx
    <3>1. t[k-1] = s[Len(s)] /\ t[k-2] = s[Len(s) - 1] /\ k > 2
      BY <1>1, <1>3, <2>1, <2>3
    <3>2. QED
      BY <2>1, <2>3, <3>1 DEF Passing
  <2>4. QED
    BY <2>1, <2>2, <2>3
<1>4. QED
  BY <1>1, <1>2, <1>3

LEMMA PushInv ==
  ASSUME NEW s, NEW t, NEW m, NEW r, NEW c, NEW d \in Context, NEW f, Inv(s, m, c),
         Pushed(s, t, f), NewFrame(s, f), Entered(m, r, f), f.kind # "errfilter",
         Len(s) > 0 => Waits(s, m), Len(s) <= MaxDepth,
         f.kind # "dyna" => SameContext(c, d),
         f.kind = "dyna" => /\ f.saved = c
                            /\ d.native = f.native /\ d.caller = s[Len(s)].amx /\ d.params = f.args
  PROVE  Inv(t, r, d)
<1>1. s \in Seq(StackFrame) /\ m \in [Plugins -> Handler] /\ Len(s) \in Nat
  BY DEF Inv, Typed
<1>2. Typed(t, r, d)
  BY DEF Typed, Pushed, Entered
<1>3. Shape(t)
  BY <1>1, PushShape DEF Inv, Waits
<1>4. Contexts(t, d)
  <2>1. f.kind = "dyna" => Len(s) > 0
    BY DEF NewFrame
  <2>2. QED
    BY <1>1, <2>1, PushContexts DEF Inv
<1>5. Flags(t, r)
  BY <1>1, PushFlags DEF Inv
<1>6. Bounded(t, r)
  <2>1. HandlingIn(r) \in SUBSET Plugins
    BY DEF HandlingIn
  <2>2. Cardinality(HandlingIn(r)) \in Nat
    BY <2>1, PluginAssumption, FS_Subset, FS_CardinalityType
  <2>3. Len(t) = Len(s) + 1
    BY DEF Pushed
  <2>4. QED
    BY <1>1, <2>2, <2>3, PluginAssumption DEF Bounded
<1>7. Balanced(t, r)
  BY <1>1, PushBalanced DEF Inv, Entered
<1>8. Placed(t)
  BY <1>1, PushPlaced DEF Inv
<1>9. Traces(t, r)
  BY <1>2, <1>6, PushTraces DEF Inv
<1>10. QED
  BY <1>2, <1>3, <1>4, <1>5, <1>6, <1>7, <1>8, <1>9 DEF Inv

-----------------------------------------------------------------------------
(* An error is logged.                                                       *)

Leaving(f) == f.kind \in {"dyna", "callfunc"} /\ f.pc = "end"

\* Errors belong to the plugin of the innermost frame; a dynamic native and
\* callfunc_end blame their caller.
Blames(s, p) ==
  /\ Len(s) > 0 /\ s[Len(s)].pc # "run"
  /\ \/ p = s[Len(s)].amx /\ ~ Leaving(s[Len(s)])
     \/ Len(s) > 1 /\ p = s[Len(s) - 1].amx /\ Leaving(s[Len(s)])

Marked(m, r, p) ==
  /\ Touches(m, r, p) /\ r[p].error # "none"
  /\ ~ (p \in Debug /\ p \in NativeFilter) => Traced(m, r, p)

\* The innermost tracer of a plugin whose error filter may run now belongs to
\* one of the two innermost frames.
Near(s, p) ==
  \/ p = s[Len(s)].amx
  \/ Len(s) > 1 /\ p = s[Len(s) - 1].amx /\ Leaving(s[Len(s)])

LEMMA BlamedFrame ==
  ASSUME NEW s \in Seq(StackFrame), NEW p, Near(s, p), NEW i \in 1..Len(s), s[i].amx = p,
         Level(s, p, i - 1) + 1 = Level(s, p, Len(s))
  PROVE  i = Len(s) \/ (i + 1 = Len(s) /\ Passing(s, i + 1, p))
<1>1. PICK n \in Nat \ {0} : n = Len(s)
  <2>1. Len(s) \in Nat \ {0}
    OBVIOUS
  <2>2. QED
    BY <2>1
<1>2. PICK k \in Nat : k = n - 1
  <2>1. n - 1 \in Nat
    OBVIOUS
  <2>2. QED
    BY <2>1
<1>3. Level(s, p, i - 1) \in Nat /\ Level(s, p, n) \in Nat /\ Level(s, p, k) \in Nat
  <2>1. i - 1 \in Nat
    OBVIOUS
  <2>2. /\ Level(s, p, i - 1) \in 0..(i - 1) /\ Level(s, p, n) \in 0..n /\ Level(s, p, k) \in 0..k
    BY <2>1, LevelNat
  <2>3. QED
    BY <2>2
<1>4. CASE s[n].amx = p
  <2>1. Level(s, p, n - 1) < Level(s, p, n)
    BY <1>4, LevelBelow
  <2>2. i <= k => Level(s, p, i - 1) < Level(s, p, k)
    BY LevelBelow
  <2>3. ~ (i <= k)
    BY <1>1, <1>2, <1>3, <2>1, <2>2
  <2>4. QED
    BY <1>1, <1>2, <2>3
<1>5. CASE s[n].amx # p
  <2>1. n > 1 /\ p = s[k].amx /\ Leaving(s[n]) /\ i # n
    BY <1>1, <1>2, <1>5 DEF Near
  <2>2. PICK l \in Nat : l = k - 1 /\ k \in Nat \ {0}
    <3>1. k - 1 \in Nat /\ k \in Nat \ {0}
      BY <1>2, <2>1
    <3>2. QED
      BY <3>1
  <2>3. Level(s, p, k - 1) < Level(s, p, n)
    <3>1. k \in Nat \ {0} /\ k <= n
      BY <1>2, <2>2
    <3>2. QED
      BY <2>1, <3>1, LevelBelow
  <2>4. i <= l => Level(s, p, i - 1) < Level(s, p, l)
    BY LevelBelow
  <2>5. Level(s, p, l) \in Nat
    <3>1. Level(s, p, l) \in 0..l
      BY LevelNat
    <3>2. QED
      BY <3>1
  <2>6. ~ (i <= l)
    BY <1>1, <1>3, <2>2, <2>3, <2>4, <2>5
  <2>7. i = k
    BY <1>1, <1>2, <2>1, <2>2, <2>6
  <2>8. QED
    BY <1>1, <1>2, <1>5, <2>1, <2>7 DEF Passing, Leaving
<1>6. QED
  BY <1>4, <1>5

LEMMA DoomedErrors ==
  ASSUME NEW s, NEW m, NEW r, NEW i, Doomed(s, m, i),
         m[s[i].amx].error # "none" => r[s[i].amx].error # "none"
  PROVE  Doomed(s, r, i)
  BY DEF Doomed

LEMMA MarkTraces ==
  ASSUME NEW s, NEW m, NEW r, NEW c, Inv(s, m, c), NEW p \in Plugins, Blames(s, p), Marked(m, r, p)
  PROVE  Traces(s, r)
<1>1. s \in Seq(StackFrame) /\ Len(s) \in Nat /\ \A i \in 1..Len(s) : s[i].amx \in Plugins
  BY FramesTyped DEF Inv, Typed
<1> SUFFICES ASSUME NEW i \in 1..Len(s), Failed(s, r, i)
             PROVE  \/ s[i].pc \in Ending
                    \/ s[i].pc \in {"native", "refused"} /\ Doomed(s, r, i)
  BY DEF Traces
<1>2. PICK k \in Nat : k = i - 1 /\ k < Len(s)
  <2>1. i - 1 \in Nat /\ i - 1 < Len(s)
    BY <1>1
  <2>2. QED
    BY <2>1
<1>3. PICK l : l = Level(s, s[i].amx, k)
  OBVIOUS
<1>4. l \in Levels
  BY <1>2, <1>3, LevelRange DEF Inv
<1>5. s[i].amx \in Debug \ NativeFilter /\ r[s[i].amx].m_Error[l] # "none"
  BY <1>2, <1>3 DEF Failed
<1>6. CASE m[s[i].amx].m_Error[l] # "none"
  <2>1. Failed(s, m, i)
    BY <1>2, <1>3, <1>5, <1>6 DEF Failed
  <2>2. m[s[i].amx].error # "none" => r[s[i].amx].error # "none"
    BY <1>1 DEF Marked, Touches
  <2>3. Doomed(s, m, i) => Doomed(s, r, i)
    BY <2>2, DoomedErrors
  <2>4. QED
    BY <2>1, <2>3 DEF Inv, Traces
<1>7. CASE ~ (m[s[i].amx].m_Error[l] # "none")
  <2>1. s[i].amx = p
    BY <1>1, <1>5, <1>7 DEF Marked, Touches
  <2>2. l = m[p].m_Top
    BY <1>4, <1>5, <1>7, <2>1 DEF Marked, Traced
  <2>3. Level(s, p, i - 1) + 1 = Level(s, p, Len(s))
    BY <1>2, <1>3, <1>5, <2>1, <2>2 DEF Inv, Balanced
  <2>4. i = Len(s) \/ (i + 1 = Len(s) /\ Passing(s, i + 1, p))
    <3>1. Near(s, p)
      BY DEF Blames, Near
    <3>2. QED
      BY <1>1, <2>1, <2>3, <3>1, BlamedFrame
  <2>5. Doomed(s, r, i)
    BY <2>1, <2>4 DEF Doomed, Marked
  <2>6. s[i].pc # "run" /\ s[i].pc # "invalid"
    BY <1>1, <1>5, <2>4 DEF Inv, Shape, FrameShape, Blames
  <2>7. s[i].pc \in {"run", "native", "refused", "invalid", "returned", "unhandled", "end"}
    <3>1. s[i] \in StackFrame
      BY <1>1, FramesTyped
    <3>2. QED
      BY <3>1 DEF StackFrame
  <2>8. QED
    BY <2>5, <2>6, <2>7 DEF Ending
<1>8. QED
  BY <1>6, <1>7

LEMMA MarkInv ==
  ASSUME NEW s, NEW m, NEW r, NEW c, Inv(s, m, c), NEW p \in Plugins, Blames(s, p), Marked(m, r, p)
  PROVE  Inv(s, r, c)
<1>1. s \in Seq(StackFrame) /\ Len(s) \in Nat /\ Touches(m, r, p)
  BY DEF Inv, Typed, Marked
<1>2. Turned(s, s)
  BY <1>1 DEF Turned, Same, Blames
<1>3. Flags(s, r)
  BY <1>1, <1>2, TurnFlags DEF Inv
<1>4. Bounded(s, r)
  BY <1>1, HandlingSame DEF Inv, Bounded
<1>5. Balanced(s, r)
  <2>1. \A q \in Plugins : ~ (q \in Debug /\ q \in NativeFilter) => r[q].m_Top = m[q].m_Top
    BY <1>1 DEF Marked, Traced, Touches
  <2>2. QED
    BY <2>1, PluginAssumption DEF Inv, Balanced
<1>6. Traces(s, r)
  BY MarkTraces
<1>7. Typed(s, r, c)
  BY <1>1 DEF Inv, Typed, Touches
<1>8. QED
  BY <1>3, <1>4, <1>5, <1>6, <1>7 DEF Inv

\* HandleError begins: the filter of p runs and p's handler says so.
FilterEntered(m, r, p) ==
  /\ r \in [Plugins -> Handler]
  /\ \A q \in Plugins : q # p => r[q] = m[q]
  /\ ~ m[p].m_Handling /\ r[p].m_Handling
  /\ r[p].m_InNativeFilter = m[p].m_InNativeFilter
  /\ Tracer(m, r, p)

LEMMA FilterFlagsStep ==
  ASSUME NEW s \in Seq(StackFrame), NEW t, NEW m, NEW r, NEW f, Flags(s, m), Pushed(s, t, f),
         f.kind = "errfilter", FilterEntered(m, r, f.amx)
  PROVE  Flags(t, r)
<1>1. /\ Len(s) \in Nat /\ Len(t) = Len(s) + 1 /\ t[Len(s) + 1] = f /\ Len(s) + 1 \in 1..Len(t)
      /\ \A i \in 1..Len(s) : t[i] = s[i] /\ i \in 1..Len(t)
      /\ \A i \in 1..Len(t) : i \in 1..Len(s) \/ i = Len(s) + 1
  BY DEF Pushed
<1>2. \A i \in 1..Len(s) : s[i].amx \in Plugins
  BY FramesTyped
<1>3. \A i \in 1..Len(s) : ~ Filters(s, i, f.amx)
  BY DEF Flags, Filters, FilterEntered
<1>4. \A q : \A i \in 1..Len(s) : Filters(t, i, q) <=> Filters(s, i, q)
  BY <1>1 DEF Filters
<1>5. \A i, j \in 1..Len(t) : Filters(t, i, t[i].amx) /\ Filters(t, j, t[i].amx) => i = j
  <2> SUFFICES ASSUME NEW i \in 1..Len(t), NEW j \in 1..Len(t),
                      Filters(t, i, t[i].amx), Filters(t, j, t[i].amx)
               PROVE  i = j
    OBVIOUS
  <2>1. CASE i \in 1..Len(s) /\ j \in 1..Len(s)
    BY <1>1, <1>4, <2>1 DEF Flags
  <2>2. CASE i = Len(s) + 1 /\ j \in 1..Len(s)
    BY <1>1, <1>3, <1>4, <2>2
  <2>3. CASE i \in 1..Len(s) /\ j = Len(s) + 1
    BY <1>1, <1>3, <1>4, <2>3 DEF Filters
  <2>4. QED
    BY <1>1, <2>1, <2>2, <2>3
<1>6. ASSUME NEW q \in Plugins, r[q].m_Handling PROVE \E i \in 1..Len(t) : Filters(t, i, q)
  <2>1. CASE q = f.amx
    BY <1>1, <2>1 DEF Filters
  <2>2. CASE q # f.amx
    <3>1. m[q].m_Handling
      BY <1>6, <2>2 DEF FilterEntered
    <3>2. QED
      BY <1>1, <1>4, <3>1 DEF Flags
  <2>3. QED
    BY <2>1, <2>2
<1>7. ASSUME NEW i \in 1..Len(t), Filters(t, i, t[i].amx) PROVE r[t[i].amx].m_Handling
  <2>1. CASE t[i].amx = f.amx
    BY <2>1 DEF FilterEntered
  <2>2. CASE t[i].amx # f.amx
    BY <1>1, <1>2, <1>4, <1>7, <2>2 DEF Flags, FilterEntered
  <2>3. QED
    BY <2>1, <2>2
<1>8. \A q \in Plugins : r[q].m_InNativeFilter =>
        \E i \in 1..Len(t) : t[i].kind = "natfilter" /\ t[i].amx = q
  BY <1>1 DEF Flags, FilterEntered
<1>9. QED
  BY <1>5, <1>6, <1>7, <1>8 DEF Flags

LEMMA FilterTraces ==
  ASSUME NEW s, NEW t, NEW m, NEW r, NEW c, NEW f, Typed(s, m, c), Typed(t, r, c),
         Bounded(t, r), Balanced(s, m), Traces(s, m), Pushed(s, t, f), f.kind = "errfilter",
         Blames(s, f.amx), FilterEntered(m, r, f.amx)
  PROVE  Traces(t, r)
<1>1. s \in Seq(StackFrame) /\ m \in [Plugins -> Handler] /\ Len(s) \in Nat
  BY DEF Typed
<1>2. \A q \in Plugins : q # f.amx => r[q].m_Error = m[q].m_Error
  BY DEF FilterEntered
<1>3. Tracer(m, r, f.amx)
  BY DEF FilterEntered
<1>4. /\ Len(t) = Len(s) + 1 /\ t[Len(s) + 1] = f
      /\ \A j \in 1..Len(s) : t[j] = s[j]
  BY DEF Pushed
<1>5. ASSUME NEW i \in 1..Len(t), Failed(t, r, i)
      PROVE  \/ t[i].pc \in Ending
             \/ t[i].pc \in {"native", "refused"} /\ Doomed(t, r, i)
  <2>1. i \in 1..Len(s) /\ Failed(s, m, i)
    BY <1>1, <1>2, <1>3, <1>5, PushFailed
  <2>2. t[i] = s[i]
    BY <1>4, <2>1
  <2>3. \/ s[i].pc \in Ending
        \/ s[i].pc \in {"native", "refused"} /\ Doomed(s, m, i)
    BY <2>1 DEF Traces
  <2>4. ASSUME Doomed(s, m, i), s[i].pc \in {"native", "refused"} PROVE Doomed(t, r, i)
    <3>1. CASE i = Len(s)
      <4>1. s[i].amx = f.amx
        BY <2>4, <3>1 DEF Blames, Leaving
      <4>2. Filters(t, i + 1, t[i].amx)
        BY <1>4, <2>2, <3>1, <4>1 DEF Filters
      <4>3. QED
        BY <1>1, <1>4, <3>1, <4>2 DEF Doomed
    <3>2. CASE i + 1 = Len(s) /\ Passing(s, i + 1, s[i].amx)
      <4>1. s[i].amx = f.amx
        <5>1. Leaving(s[Len(s)])
          BY <3>2 DEF Passing, Leaving
        <5>2. i = Len(s) - 1
          BY <1>1, <2>1, <3>2
        <5>3. QED
          BY <5>1, <5>2 DEF Blames
      <4>2. t[i+1] = s[i+1] /\ t[i+2] = f /\ i + 2 <= Len(t)
        BY <1>1, <1>4, <2>1, <3>2
      <4>3. Passing(t, i + 1, t[i].amx) /\ Filters(t, i + 2, t[i].amx)
        BY <2>2, <3>2, <4>1, <4>2 DEF Filters, Passing
      <4>4. QED
        BY <4>2, <4>3 DEF Doomed
    <3>3. CASE i # Len(s) /\ ~ (i + 1 = Len(s) /\ Passing(s, i + 1, s[i].amx))
      BY <1>1, <2>1, <2>4, <3>3, PushDoomed
    <3>4. QED
      BY <3>1, <3>2, <3>3
  <2>5. QED
    BY <2>2, <2>3, <2>4
<1>6. QED
  BY <1>5 DEF Traces

LEMMA FilterInv ==
  ASSUME NEW s, NEW t, NEW m, NEW r, NEW c, NEW f, Inv(s, m, c), Pushed(s, t, f),
         f.kind = "errfilter", f.pc = "run", Blames(s, f.amx), FilterEntered(m, r, f.amx)
  PROVE  Inv(t, r, c)
<1>1. s \in Seq(StackFrame) /\ m \in [Plugins -> Handler] /\ Len(s) \in Nat /\ c \in Context
  BY DEF Inv, Typed
<1>2. Typed(t, r, c)
  BY <1>1 DEF Typed, Pushed, FilterEntered
<1>3. Shape(t)
  <2>1. NewFrame(s, f) /\ s[Len(s)].pc # "run"
    BY DEF NewFrame, Blames
  <2>2. QED
    BY <1>1, <2>1, PushShape DEF Inv
<1>4. Contexts(t, c)
  <2>1. SameContext(c, c)
    BY <1>1 DEF SameContext
  <2>2. QED
    BY <1>1, <2>1, PushContexts DEF Inv
<1>5. Flags(t, r)
  BY <1>1, FilterFlagsStep DEF Inv
<1>6. Bounded(t, r)
  <2>1. f.amx \in Plugins
    BY DEF Pushed, StackFrame
  <2>2. HandlingIn(r) = HandlingIn(m) \union {f.amx} /\ f.amx \notin HandlingIn(m)
    BY <2>1 DEF HandlingIn, FilterEntered
  <2>3. HandlingIn(m) \in SUBSET Plugins
    BY DEF HandlingIn
  <2>4. IsFiniteSet(HandlingIn(m))
    BY <2>3, PluginAssumption, FS_Subset
  <2>5. /\ Cardinality(HandlingIn(m)) \in Nat
        /\ Cardinality(HandlingIn(r)) = Cardinality(HandlingIn(m)) + 1
    BY <2>2, <2>4, FS_AddElement, FS_CardinalityType
  <2>6. Len(t) = Len(s) + 1
    BY DEF Pushed
  <2>7. QED
    BY <1>1, <2>5, <2>6, PluginAssumption DEF Inv, Bounded
<1>7. Balanced(t, r)
  BY <1>1, PushBalanced DEF Inv, FilterEntered
<1>8. Placed(t)
  <2>1. \/ s[Len(s)].amx = f.amx /\ Len(s) > 0
        \/ Len(s) > 1 /\ Passing(s, Len(s), f.amx) /\ s[Len(s) - 1].amx = f.amx
    BY DEF Blames, Leaving, Passing
  <2>2. QED
    BY <1>1, <2>1, PushPlaced DEF Inv
<1>9. Traces(t, r)
  BY <1>2, <1>6, FilterTraces DEF Inv
<1>10. QED
  BY <1>2, <1>3, <1>4, <1>5, <1>6, <1>7, <1>8, <1>9 DEF Inv

\* Frames are well formed when they are new.
LEMMA FrameFields ==
  ASSUME NEW kind \in {"forward", "dyna", "callfunc", "errfilter", "natfilter"}, NEW p \in Plugins
  PROVE  /\ Frame(kind, p) \in StackFrame
         /\ Frame(kind, p).kind = kind /\ Frame(kind, p).amx = p /\ Frame(kind, p).pc = "run"
  BY DEF Frame, StackFrame, Error

LEMMA PushedAppend ==
  ASSUME NEW s \in Seq(StackFrame), NEW f \in StackFrame
  PROVE  Pushed(s, Append(s, f), f)
  BY AppendProperties DEF Pushed

LEMMA LogErrorInv ==
  ASSUME NEW s, NEW m, NEW c, Inv(s, m, c), NEW p \in Plugins, Blames(s, p)
  PROVE  Inv(LogError(s, m, p).stack, LogError(s, m, p).amx, c)
<1>1. s \in Seq(StackFrame) /\ m \in [Plugins -> Handler] /\ c \in Context
  BY DEF Inv, Typed
<1>2. PICK m1 : m1 = WithError(m, p, "error")
  OBVIOUS
<1>3. Traced(m, m1, p) /\ m1[p].error = "error"
  BY <1>1, <1>2, SetErrorEffect DEF Error
<1>4. m1 \in [Plugins -> Handler] /\ Touches(m, m1, p)
  BY <1>3 DEF Traced, Touches
<1>5. m1 = [m EXCEPT ![p].error = "error"]
  BY <1>2 DEF WithError
<1>6. Inv(s, m1, c)
  BY <1>3, <1>4, MarkInv DEF Marked
<1>7. CASE m1[p].m_InNativeFilter
  <2>1. LogError(s, m, p) = [stack |-> s, amx |-> Report(EndExec(m1, p), p)]
    BY <1>5, <1>7 DEF LogError
  <2>2. PICK e : e = EndExec(m1, p)
    OBVIOUS
  <2>3. Closed(m1, e, p)
    BY <1>4, <2>2, EndExecEffect
  <2>4. e \in [Plugins -> Handler]
    BY <2>3 DEF Closed, Touches
  <2>5. PICK r : r = Report(e, p)
    OBVIOUS
  <2>6. Traced(e, r, p) /\ r[p].error = "logged"
    BY <2>4, <2>5, ReportEffect
  <2>7. Touches(m1, r, p)
    BY <2>3, <2>6 DEF Touches, Traced, Closed
  <2>8. p \in NativeFilter
    <3>1. PICK i \in 1..Len(s) : s[i].kind = "natfilter" /\ s[i].amx = p
      BY <1>6, <1>7 DEF Inv, Flags
    <3>2. QED
      BY <3>1 DEF Inv, Shape, FrameShape
  <2>9. Marked(m1, r, p)
    <3>1. CASE p \in Debug
      BY <2>6, <2>7, <2>8, <3>1 DEF Marked
    <3>2. CASE p \notin Debug
      <4>1. r[p].m_Top = m1[p].m_Top
        BY <2>3, <2>6, <3>2 DEF Traced, Closed
      <4>2. e[p] = m1[p]
        BY <2>2, <3>2 DEF EndExec
      <4>3. Traced(m1, r, p)
        BY <2>6, <2>7, <4>1, <4>2 DEF Traced
      <4>4. QED
        BY <2>6, <2>7, <4>3 DEF Marked
    <3>3. QED
      BY <3>1, <3>2
  <2>10. Inv(s, r, c)
    BY <1>6, <2>9, MarkInv
  <2>11. QED
    BY <2>1, <2>2, <2>5, <2>10
<1>8. CASE ~ m1[p].m_InNativeFilter /\ m1[p].m_Handling
  <2>1. LogError(s, m, p) = [stack |-> s, amx |-> m1]
    BY <1>5, <1>8 DEF LogError
  <2>2. QED
    BY <1>6, <2>1
<1>9. CASE ~ m1[p].m_InNativeFilter /\ ~ m1[p].m_Handling /\ p \in ErrorFilter
  <2>1. PICK e : e = SetTracedError(m1, p)
    OBVIOUS
  <2>2. PICK h : h = [e EXCEPT ![p].m_Handling = TRUE]
    OBVIOUS
  <2>3. PICK r : r = BeginExec(h, p)
    OBVIOUS
  <2>4. LogError(s, m, p) = [stack |-> Append(s, Frame("errfilter", p)), amx |-> r]
    BY <1>5, <1>9, <2>1, <2>2, <2>3 DEF LogError
  <2>5. Traced(m1, e, p) /\ e \in [Plugins -> Handler]
    BY <1>4, <2>1, SetTracedErrorEffect DEF Traced, Touches
  <2>6. e[p].error # "none"
    <3>1. e[p].error = m1[p].error
      BY <1>4, <2>1 DEF SetTracedError, Handler
    <3>2. QED
      BY <1>3, <3>1
  <2>7. Inv(s, e, c)
    BY <1>6, <2>5, <2>6, MarkInv DEF Marked, Traced
  <2>8. /\ h \in [Plugins -> Handler] /\ \A q \in Plugins : q # p => h[q] = e[q]
        /\ h[p].m_Handling = TRUE /\ h[p].m_InNativeFilter = e[p].m_InNativeFilter
        /\ h[p].m_Top = e[p].m_Top /\ h[p].m_Error = e[p].m_Error
    BY <2>2, <2>5 DEF Handler
  <2>9. Opened(h, r, p)
    BY <2>3, <2>8, BeginExecEffect
  <2>10. FilterEntered(e, r, p)
    <3>1. ~ e[p].m_Handling
      BY <1>9, <2>5 DEF Traced, Touches
    <3>2. Tracer(e, r, p)
      BY <2>8, <2>9 DEF Tracer, Opened
    <3>3. r \in [Plugins -> Handler] /\ \A q \in Plugins : q # p => r[q] = e[q]
      BY <2>8, <2>9 DEF Opened, Touches
    <3>4. r[p].m_Handling /\ r[p].m_InNativeFilter = e[p].m_InNativeFilter
      BY <2>8, <2>9 DEF Opened, Touches
    <3>5. QED
      BY <3>1, <3>2, <3>3, <3>4 DEF FilterEntered
  <2>11. PICK f : f = Frame("errfilter", p)
    OBVIOUS
  <2>12. f \in StackFrame /\ f.kind = "errfilter" /\ f.amx = p /\ f.pc = "run"
    BY <2>11, FrameFields
  <2>13. PICK t : t = Append(s, f)
    OBVIOUS
  <2>14. Pushed(s, t, f)
    BY <1>1, <2>12, <2>13, PushedAppend
  <2>15. Inv(t, r, c)
    BY <2>7, <2>10, <2>12, <2>14, FilterInv
  <2>16. QED
    BY <2>4, <2>11, <2>13, <2>15
<1>10. CASE ~ m1[p].m_InNativeFilter /\ ~ m1[p].m_Handling /\ p \notin ErrorFilter
  <2>1. PICK r : r = Report(m1, p)
    OBVIOUS
  <2>2. LogError(s, m, p) = [stack |-> s, amx |-> r]
    BY <1>5, <1>10, <2>1 DEF LogError
  <2>3. Traced(m1, r, p) /\ r[p].error = "logged"
    BY <1>4, <2>1, ReportEffect
  <2>4. Inv(s, r, c)
    BY <1>6, <2>3, MarkInv DEF Marked, Traced
  <2>5. QED
    BY <2>2, <2>4
<1>11. QED
  BY <1>7, <1>8, <1>9, <1>10

-----------------------------------------------------------------------------
(* An execution ends.                                                        *)

Popped(s, t) ==
  /\ Len(s) > 0 /\ t \in Seq(StackFrame) /\ Len(t) = Len(s) - 1
  /\ \A i \in 1..Len(t) : t[i] = s[i]

\* What the function that ends leaves in the handler of frame f's plugin.
Left(m, r, f) ==
  /\ r \in [Plugins -> Handler]
  /\ \A q \in Plugins : q # f.amx => r[q] = m[q]
  /\ f.kind = "errfilter" => ~ r[f.amx].m_Handling /\ r[f.amx].error # "none"
  /\ f.kind # "errfilter" => r[f.amx].m_Handling = m[f.amx].m_Handling
  /\ f.kind = "natfilter" => ~ r[f.amx].m_InNativeFilter
  /\ f.kind # "natfilter" => r[f.amx].m_InNativeFilter = m[f.amx].m_InNativeFilter
  /\ f.amx \notin Debug => r[f.amx].m_Top = m[f.amx].m_Top
  /\ f.amx \in Debug \ NativeFilter =>
       /\ r[f.amx].m_Top = m[f.amx].m_Top - 1
       /\ \A l \in Levels : r[f.amx].m_Error[l] # "none" =>
            m[f.amx].m_Error[l] # "none" \/ (f.kind = "errfilter" /\ l = m[f.amx].m_Top - 1)

LEMMA PoppedSame ==
  ASSUME NEW s \in Seq(StackFrame), NEW t, Popped(s, t)
  PROVE  /\ Len(s) \in Nat \ {0} /\ Len(t) \in Nat /\ Len(s) = Len(t) + 1
         /\ \A i \in 1..Len(t) : i \in 1..Len(s) /\ t[i] = s[i] /\ Same(s[i], t[i])
         /\ \A i \in 1..Len(s) : i \in 1..Len(t) \/ i = Len(s)
  BY DEF Popped, Same

LEMMA PopShape ==
  ASSUME NEW s \in Seq(StackFrame), NEW t, Shape(s), Popped(s, t)
  PROVE  Shape(t)
<1>1. /\ Len(t) \in Nat /\ Len(s) = Len(t) + 1
      /\ \A i \in 1..Len(t) : i \in 1..Len(s) /\ t[i] = s[i]
  BY PoppedSame
<1>2. ASSUME NEW i \in 1..Len(t) PROVE FrameShape(t, i)
  <2>1. FrameShape(s, i) /\ t[i] = s[i] /\ (i > 1 => t[i-1] = s[i-1])
    BY <1>1 DEF Shape
  <2>2. QED
    BY <1>1, <2>1 DEF FrameShape
<1>3. QED
  BY <1>2 DEF Shape

LEMMA PopContexts ==
  ASSUME NEW s \in Seq(StackFrame), NEW t, NEW c, NEW d, Shape(s), Contexts(s, c), Popped(s, t),
         s[Len(s)].kind # "dyna" => SameContext(c, d),
         s[Len(s)].kind = "dyna" =>
           /\ d.native = s[Len(s)].saved.native /\ d.caller = s[Len(s)].saved.caller
           /\ s[Len(s)].saved.native # NULL => d.params = s[Len(s)].saved.params
  PROVE  Contexts(t, d)
<1>1. /\ Len(s) \in Nat \ {0} /\ Len(t) \in Nat /\ Len(s) = Len(t) + 1
      /\ \A i \in 1..Len(t) : i \in 1..Len(s) /\ t[i] = s[i] /\ Same(s[i], t[i])
      /\ \A i \in 1..Len(s) : i \in 1..Len(t) \/ i = Len(s)
  BY PoppedSame
<1>2. \A i \in 1..Len(s) : s[i].kind = "dyna" => i > 1 /\ s[i].native \in Natives
  BY DEF Shape, FrameShape
<1>3. Nested(s, Len(t))
  BY <1>1 DEF Contexts, Nested
<1>4. Nested(t, Len(t))
  BY <1>1, <1>3, ContextsKept
<1>5. CASE s[Len(s)].kind # "dyna"
  <2>1. ContextOf(s, d, Len(t))
    <3>1. CASE \A i \in 1..Len(s) : s[i].kind # "dyna"
      BY <1>1, <1>5, <3>1 DEF Contexts, ContextOf, SameContext
    <3>2. CASE ~ \A i \in 1..Len(s) : s[i].kind # "dyna"
      <4>1. PICK i \in 1..Len(s) :
              /\ s[i].kind = "dyna"
              /\ \A j \in 1..Len(s) : j > i => s[j].kind # "dyna"
              /\ c.native = s[i].native /\ c.caller = s[i-1].amx /\ c.params = s[i].args
        BY <3>2 DEF Contexts, ContextOf
      <4>2. i \in 1..Len(t)
        BY <1>1, <1>5, <4>1
      <4>3. \A j \in 1..Len(t) : j > i => s[j].kind # "dyna"
        BY <1>1, <4>1
      <4>4. QED
        BY <1>5, <4>1, <4>2, <4>3 DEF ContextOf, SameContext
    <3>3. QED
      BY <3>1, <3>2
  <2>2. ContextOf(t, d, Len(t))
    BY <1>1, <1>2, <2>1, ContextKept
  <2>3. QED
    BY <1>4, <2>2 DEF Contexts
<1>6. CASE s[Len(s)].kind = "dyna"
  <2>1. PICK e : e = s[Len(s)].saved
    OBVIOUS
  <2>2. ContextOf(s, e, Len(t))
    <3>1. Len(s) \in 1..Len(s) /\ Len(s) - 1 = Len(t)
      BY <1>1
    <3>2. QED
      BY <1>6, <2>1, <3>1 DEF Contexts, Nested
  <2>3. d.native = e.native /\ d.caller = e.caller /\ (e.native # NULL => d.params = e.params)
    BY <1>6, <2>1
  <2>4. ContextOf(s, d, Len(t))
    <3>1. CASE \A i \in 1..Len(t) : s[i].kind # "dyna"
      BY <2>2, <2>3, <3>1 DEF ContextOf
    <3>2. CASE ~ \A i \in 1..Len(t) : s[i].kind # "dyna"
      <4>1. PICK i \in 1..Len(t) :
              /\ s[i].kind = "dyna"
              /\ \A j \in 1..Len(t) : j > i => s[j].kind # "dyna"
              /\ e.native = s[i].native /\ e.caller = s[i-1].amx /\ e.params = s[i].args
        BY <2>2, <3>2 DEF ContextOf
      <4>2. e.native # NULL
        BY <1>1, <1>2, <4>1, PluginAssumption
      <4>3. QED
        BY <2>3, <4>1, <4>2 DEF ContextOf
    <3>3. QED
      BY <3>1, <3>2
  <2>5. ContextOf(t, d, Len(t))
    BY <1>1, <1>2, <2>4, ContextKept
  <2>6. QED
    BY <1>4, <2>5 DEF Contexts
<1>7. QED
  BY <1>5, <1>6

LEMMA PopFlags ==
  ASSUME NEW s \in Seq(StackFrame), NEW t, NEW m, NEW r, Flags(s, m), Popped(s, t),
         Left(m, r, s[Len(s)])
  PROVE  Flags(t, r)
<1>1. /\ Len(s) \in Nat \ {0} /\ Len(t) \in Nat /\ Len(s) = Len(t) + 1
      /\ \A i \in 1..Len(t) : i \in 1..Len(s) /\ t[i] = s[i] /\ i # Len(s)
      /\ \A i \in 1..Len(s) : i \in 1..Len(t) \/ i = Len(s)
  BY PoppedSame
<1>2. \A i \in 1..Len(s) : s[i].amx \in Plugins
  BY FramesTyped
<1>3. PICK f : f = s[Len(s)] /\ Left(m, r, f) /\ f.amx \in Plugins /\ Len(s) \in 1..Len(s)
  BY <1>1, <1>2
<1>4. \A q : \A i \in 1..Len(t) : Filters(t, i, q) <=> Filters(s, i, q)
  BY <1>1 DEF Filters
<1>5. \A i, j \in 1..Len(t) : Filters(t, i, t[i].amx) /\ Filters(t, j, t[i].amx) => i = j
  BY <1>1, <1>4 DEF Flags
<1>6. ASSUME NEW q \in Plugins, r[q].m_Handling PROVE \E i \in 1..Len(t) : Filters(t, i, q)
  <2>1. ~ Filters(s, Len(s), q) /\ m[q].m_Handling
    BY <1>3, <1>6 DEF Left, Filters
  <2>2. PICK i \in 1..Len(s) : Filters(s, i, q)
    BY <2>1 DEF Flags
  <2>3. QED
    BY <1>1, <1>4, <2>1, <2>2
<1>7. ASSUME NEW i \in 1..Len(t), Filters(t, i, t[i].amx) PROVE r[t[i].amx].m_Handling
  <2>1. m[s[i].amx].m_Handling /\ t[i] = s[i] /\ s[i].amx \in Plugins /\ Filters(s, i, s[i].amx)
    BY <1>1, <1>2, <1>4, <1>7 DEF Flags
  <2>2. ~ Filters(s, Len(s), s[i].amx)
    BY <1>1, <1>3, <2>1 DEF Flags
  <2>3. QED
    BY <1>3, <2>1, <2>2 DEF Left, Filters
<1>8. ASSUME NEW q \in Plugins, r[q].m_InNativeFilter
      PROVE  \E i \in 1..Len(t) : t[i].kind = "natfilter" /\ t[i].amx = q
  <2>1. ~ (f.kind = "natfilter" /\ f.amx = q) /\ m[q].m_InNativeFilter
    BY <1>3, <1>8 DEF Left
  <2>2. PICK i \in 1..Len(s) : s[i].kind = "natfilter" /\ s[i].amx = q
    BY <2>1 DEF Flags
  <2>3. QED
    BY <1>1, <1>3, <2>1, <2>2
<1>9. QED
  BY <1>5, <1>6, <1>7, <1>8 DEF Flags

LEMMA PopBounded ==
  ASSUME NEW s \in Seq(StackFrame), NEW t, NEW m, NEW r, Bounded(s, m), Flags(s, m), Popped(s, t),
         Left(m, r, s[Len(s)])
  PROVE  Bounded(t, r)
<1>1. Len(s) \in Nat \ {0} /\ Len(t) \in Nat /\ Len(s) = Len(t) + 1
  BY PoppedSame
<1>2. PICK f : f = s[Len(s)] /\ f.amx \in Plugins
  BY <1>1, FramesTyped
<1>3. HandlingIn(m) \in SUBSET Plugins
  BY DEF HandlingIn
<1>4. IsFiniteSet(HandlingIn(m)) /\ Cardinality(HandlingIn(m)) \in Nat
  BY <1>3, PluginAssumption, FS_Subset, FS_CardinalityType
<1>5. CASE f.kind = "errfilter"
  <2>1. HandlingIn(r) = HandlingIn(m) \ {f.amx}
    BY <1>2, <1>5 DEF HandlingIn, Left
  <2>2. \/ Cardinality(HandlingIn(r)) = Cardinality(HandlingIn(m)) - 1
        \/ Cardinality(HandlingIn(r)) = Cardinality(HandlingIn(m))
    BY <1>4, <2>1, FS_RemoveElement
  <2>3. QED
    BY <1>1, <1>4, <2>2, PluginAssumption DEF Bounded
<1>6. CASE f.kind # "errfilter"
  <2>1. HandlingIn(r) = HandlingIn(m)
    BY <1>2, <1>6 DEF HandlingIn, Left
  <2>2. QED
    BY <1>1, <1>4, <2>1, PluginAssumption DEF Bounded
<1>7. QED
  BY <1>5, <1>6

LEMMA PopBalanced ==
  ASSUME NEW s \in Seq(StackFrame), NEW t, NEW m \in [Plugins -> Handler], NEW r, Balanced(s, m),
         Popped(s, t), Left(m, r, s[Len(s)])
  PROVE  Balanced(t, r)
<1>1. /\ Len(s) \in Nat \ {0} /\ Len(t) \in Nat /\ Len(s) = Len(t) + 1
      /\ \A i \in 1..Len(t) : t[i].amx = s[i].amx
  BY PoppedSame
<1>2. PICK f : f = s[Len(s)] /\ Left(m, r, f)
  OBVIOUS
<1>3. ASSUME NEW q \in Debug \ NativeFilter PROVE r[q].m_Top + 1 = Level(t, q, Len(t))
  <2>1. q \in Plugins /\ m[q].m_Top + 1 = Level(s, q, Len(s)) /\ m[q].m_Top \in Int
    BY PluginAssumption DEF Balanced, Handler
  <2>2. Level(t, q, Len(t)) = Level(s, q, Len(t))
    BY <1>1, LevelSame
  <2>3. /\ f.amx = q => Level(s, q, Len(t) + 1) = Level(s, q, Len(t)) + 1
        /\ f.amx # q => Level(s, q, Len(t) + 1) = Level(s, q, Len(t))
    BY <1>1, <1>2, LevelNext
  <2>4. Level(s, q, Len(t)) \in Int
    <3>1. Level(s, q, Len(t)) \in 0..Len(t)
      BY <1>1, LevelNat
    <3>2. QED
      BY <3>1
  <2>5. CASE f.amx = q
    <3>1. r[q].m_Top = m[q].m_Top - 1
      BY <1>2, <2>5 DEF Left
    <3>2. QED
      BY <1>1, <2>1, <2>2, <2>3, <2>4, <2>5, <3>1
  <2>6. CASE f.amx # q
    <3>1. r[q].m_Top = m[q].m_Top
      BY <1>2, <2>1, <2>6 DEF Left
    <3>2. QED
      BY <1>1, <2>1, <2>2, <2>3, <2>4, <2>6, <3>1
  <2>7. QED
    BY <2>5, <2>6
<1>4. \A q \in Plugins \ Debug : r[q].m_Top = -1
  BY <1>2 DEF Balanced, Left
<1>5. QED
  BY <1>3, <1>4 DEF Balanced

LEMMA PopPlaced ==
  ASSUME NEW s \in Seq(StackFrame), NEW t, Shape(s), Placed(s), Popped(s, t)
  PROVE  Placed(t)
<1> SUFFICES ASSUME NEW k \in 1..Len(t), t[k].kind = "errfilter"
             PROVE  \/ t[k-1].amx = t[k].amx
                    \/ k > 2 /\ Passing(t, k - 1, t[k].amx) /\ t[k-2].amx = t[k].amx
  BY DEF Placed
<1>1. /\ Len(t) \in Nat
      /\ \A i \in 1..Len(t) : i \in 1..Len(s) /\ t[i] = s[i]
  BY PoppedSame
<1>2. t[k] = s[k] /\ k > 1
  BY <1>1 DEF Shape, FrameShape
<1>3. t[k-1] = s[k-1] /\ (k > 2 => t[k-2] = s[k-2])
  BY <1>1, <1>2
<1>4. \/ s[k-1].amx = s[k].amx
      \/ k > 2 /\ Passing(s, k - 1, s[k].amx) /\ s[k-2].amx = s[k].amx
  BY <1>1, <1>2 DEF Placed
<1>5. QED
  BY <1>2, <1>3, <1>4 DEF Passing

LEMMA PopTraces ==
  ASSUME NEW s, NEW t, NEW m, NEW r, NEW c, Inv(s, m, c), Popped(s, t), Left(m, r, s[Len(s)])
  PROVE  Traces(t, r)
<1>1. s \in Seq(StackFrame) /\ m \in [Plugins -> Handler] /\ \A i \in 1..Len(s) : s[i].amx \in Plugins
  BY FramesTyped DEF Inv, Typed
<1>2. /\ Len(s) \in Nat \ {0} /\ Len(t) \in Nat /\ Len(s) = Len(t) + 1
      /\ \A i \in 1..Len(t) : i \in 1..Len(s) /\ t[i] = s[i]
  BY <1>1, PoppedSame
<1>3. PICK f : f = s[Len(s)] /\ Left(m, r, f)
  OBVIOUS
<1> SUFFICES ASSUME NEW i \in 1..Len(t), Failed(t, r, i)
             PROVE  \/ t[i].pc \in Ending
                    \/ t[i].pc \in {"native", "refused"} /\ Doomed(t, r, i)
  BY DEF Traces
<1>4. PICK k \in Nat : k = i - 1 /\ k < Len(s)
  <2>1. i - 1 \in Nat /\ i - 1 < Len(s)
    BY <1>2
  <2>2. QED
    BY <2>1
<1>5. PICK q \in Plugins : q = s[i].amx /\ q = t[i].amx /\ q \in Debug \ NativeFilter
  BY <1>1, <1>2 DEF Failed
<1>6. PICK l \in Levels : l = Level(s, q, k) /\ l = Level(t, q, k)
  <2>1. \A j \in 1..k : t[j].amx = s[j].amx
    BY <1>2, <1>4
  <2>2. Level(t, q, k) = Level(s, q, k)
    BY <2>1, LevelSame
  <2>3. Level(s, q, k) \in Levels
    BY <1>4, LevelRange DEF Inv
  <2>4. QED
    BY <2>2, <2>3
<1>7. r[q].m_Error[l] # "none"
  BY <1>4, <1>5, <1>6 DEF Failed
<1>8. f.kind = "errfilter" /\ f.amx = q => r[q].error # "none"
  BY <1>3 DEF Left
<1>9. CASE m[q].m_Error[l] # "none"
  <2>1. Failed(s, m, i)
    BY <1>4, <1>5, <1>6, <1>9 DEF Failed
  <2>2. \/ s[i].pc \in Ending
        \/ s[i].pc \in {"native", "refused"} /\ Doomed(s, m, i)
    BY <1>2, <2>1 DEF Inv, Traces
  <2>3. ASSUME Doomed(s, m, i) PROVE Doomed(t, r, i)
    <3>1. CASE i + 1 <= Len(s) /\ Filters(s, i + 1, q)
      <4>1. CASE i + 1 <= Len(t)
        <5>1. Filters(t, i + 1, q)
          BY <1>2, <3>1, <4>1 DEF Filters
        <5>2. QED
          BY <1>5, <4>1, <5>1 DEF Doomed
      <4>2. CASE i + 1 = Len(s)
        <5>1. r[q].error # "none" /\ i = Len(t)
          BY <1>2, <1>3, <1>8, <3>1, <4>2 DEF Filters
        <5>2. QED
          BY <1>5, <5>1 DEF Doomed
      <4>3. QED
        BY <1>2, <4>1, <4>2
    <3>2. CASE i + 1 = Len(s) /\ Passing(s, i + 1, q) /\ m[q].error # "none"
      <4>1. r[q] = m[q] /\ i = Len(t)
        BY <1>2, <1>3, <3>2 DEF Passing, Left
      <4>2. QED
        BY <1>5, <3>2, <4>1 DEF Doomed
    <3>3. CASE i + 2 <= Len(s) /\ Passing(s, i + 1, q) /\ Filters(s, i + 2, q)
      <4>1. i + 1 \in 1..Len(t)
        BY <1>2, <3>3
      <4>2. Passing(t, i + 1, q)
        BY <1>2, <3>3, <4>1 DEF Passing
      <4>3. CASE i + 2 <= Len(t)
        <5>1. Filters(t, i + 2, q)
          BY <1>2, <3>3, <4>3 DEF Filters
        <5>2. QED
          BY <1>5, <4>2, <4>3, <5>1 DEF Doomed
      <4>4. CASE i + 2 = Len(s)
        <5>1. r[q].error # "none" /\ i + 1 = Len(t)
          BY <1>2, <1>3, <1>8, <3>3, <4>4 DEF Filters
        <5>2. QED
          BY <1>5, <4>2, <5>1 DEF Doomed
      <4>5. QED
        BY <1>2, <3>3, <4>3, <4>4
    <3>4. QED
      BY <1>2, <1>5, <2>3, <3>1, <3>2, <3>3 DEF Doomed
  <2>4. QED
    BY <1>2, <2>2, <2>3
<1>10. CASE ~ (m[q].m_Error[l] # "none")
  <2>1. f.amx = q /\ f.kind = "errfilter" /\ l = m[q].m_Top - 1
    BY <1>3, <1>5, <1>7, <1>10 DEF Left
  <2>2. PICK n \in Nat : n = Len(t) /\ Len(s) = n + 1
    BY <1>2
  <2>3. Level(s, q, n + 1) = Level(s, q, n) + 1
    BY <1>3, <2>1, <2>2, LevelNext
  <2>4. m[q].m_Top + 1 = Level(s, q, n + 1) /\ m[q].m_Top \in Int
    BY <1>1, <1>5, <2>2 DEF Inv, Balanced, Handler
  <2>5. Level(t, q, n) = Level(s, q, n) /\ Level(s, q, n) \in Int
    <3>1. Level(t, q, n) = Level(s, q, n)
      BY <1>2, <2>2, LevelSame
    <3>2. Level(s, q, n) \in 0..n
      BY LevelNat
    <3>3. QED
      BY <3>1, <3>2
  <2>6. Level(t, q, i - 1) + 1 = Level(t, q, Len(t))
    <3>1. Level(t, q, i - 1) = m[q].m_Top - 1
      BY <1>4, <1>6, <2>1
    <3>2. Level(t, q, Len(t)) = m[q].m_Top
      BY <2>2, <2>3, <2>4, <2>5
    <3>3. QED
      BY <2>4, <3>1, <3>2
  <2>7. Near(t, q) /\ Len(t) > 0 /\ Len(t) \in 1..Len(t)
    <3>1. Len(s) \in 1..Len(s) /\ s[Len(s)].kind = "errfilter" /\ Len(s) - 1 = Len(t) /\ Len(t) > 0
      BY <1>2, <1>3, <2>1
    <3>2. \/ s[Len(t)].amx = q
          \/ Len(s) > 2 /\ Passing(s, Len(t), q) /\ s[Len(s) - 2].amx = q
      BY <1>3, <2>1, <3>1 DEF Inv, Placed
    <3>3. t[Len(t)] = s[Len(t)] /\ Len(t) \in 1..Len(t)
      BY <1>2, <3>1
    <3>4. Len(s) > 2 => t[Len(t) - 1] = s[Len(s) - 2] /\ Len(t) > 1
      BY <1>2
    <3>5. QED
      BY <3>1, <3>2, <3>3, <3>4 DEF Near, Leaving, Passing
  <2>8. i = Len(t) \/ (i + 1 = Len(t) /\ Passing(t, i + 1, q))
    <3>1. t \in Seq(StackFrame)
      BY DEF Popped
    <3>2. QED
      BY <1>5, <2>6, <2>7, <3>1, BlamedFrame
  <2>9. Doomed(t, r, i)
    BY <1>5, <1>8, <2>1, <2>8 DEF Doomed
  <2>10. t[i].pc # "run" /\ t[i].pc # "invalid"
    <3>1. FrameShape(s, i) /\ i < Len(s) /\ t[i] = s[i]
      BY <1>2 DEF Inv, Shape
    <3>2. QED
      BY <1>5, <3>1 DEF FrameShape
  <2>11. t[i].pc \in {"run", "native", "refused", "invalid", "returned", "unhandled", "end"}
    <3>1. s[i] \in StackFrame /\ t[i] = s[i]
      BY <1>1, <1>2, FramesTyped
    <3>2. QED
      BY <3>1 DEF StackFrame
  <2>12. QED
    BY <2>9, <2>10, <2>11 DEF Ending
<1>11. QED
  BY <1>9, <1>10

LEMMA PopInv ==
  ASSUME NEW s, NEW t, NEW m, NEW r, NEW c, NEW d \in Context, Inv(s, m, c), Popped(s, t),
         Left(m, r, s[Len(s)]),
         s[Len(s)].kind # "dyna" => SameContext(c, d),
         s[Len(s)].kind = "dyna" =>
           /\ d.native = s[Len(s)].saved.native /\ d.caller = s[Len(s)].saved.caller
           /\ s[Len(s)].saved.native # NULL => d.params = s[Len(s)].saved.params
  PROVE  Inv(t, r, d)
<1>1. s \in Seq(StackFrame) /\ m \in [Plugins -> Handler]
  BY DEF Inv, Typed
<1>2. Typed(t, r, d)
  BY DEF Typed, Popped, Left
<1>3. Shape(t)
  BY <1>1, PopShape DEF Inv
<1>4. Contexts(t, d)
  BY <1>1, PopContexts DEF Inv
<1>5. Flags(t, r)
  BY <1>1, PopFlags DEF Inv
<1>6. Bounded(t, r)
  BY <1>1, PopBounded DEF Inv
<1>7. Balanced(t, r)
  BY <1>1, PopBalanced DEF Inv
<1>8. Placed(t)
  BY <1>1, PopPlaced DEF Inv
<1>9. Traces(t, r)
  BY PopTraces
<1>10. QED
  BY <1>2, <1>3, <1>4, <1>5, <1>6, <1>7, <1>8, <1>9 DEF Inv

-----------------------------------------------------------------------------
(* The actions, as compositions of these steps.                              *)

Pcs == {"run", "native", "refused", "invalid", "returned", "unhandled", "end"}

LEMMA GotoTurned ==
  ASSUME NEW s \in Seq(StackFrame), Len(s) > 0, NEW pc \in Pcs
  PROVE  /\ Turned(s, Goto(s, pc)) /\ Goto(s, pc) \in Seq(StackFrame) /\ Len(Goto(s, pc)) = Len(s)
         /\ Goto(s, pc)[Len(s)].pc = pc
         /\ Goto(s, pc)[Len(s)].amx = s[Len(s)].amx /\ Goto(s, pc)[Len(s)].kind = s[Len(s)].kind
<1>1. Len(s) \in 1..Len(s) /\ s[Len(s)] \in StackFrame
  BY FramesTyped
<1>2. PICK f : f = [s[Len(s)] EXCEPT !.pc = pc]
  OBVIOUS
<1>3. f \in StackFrame /\ f.pc = pc /\ Same(s[Len(s)], f)
  BY <1>1, <1>2 DEF StackFrame, Pcs, Same
<1>4. PICK t : t = [s EXCEPT ![Len(s)] = f]
  OBVIOUS
<1>5. Goto(s, pc) = t
  BY <1>2, <1>4 DEF Goto
<1>6. /\ t \in Seq(StackFrame) /\ Len(t) = Len(s)
      /\ \A j \in 1..Len(s) : t[j] = IF j = Len(s) THEN f ELSE s[j]
  BY <1>1, <1>3, <1>4, ExceptSeq
<1>7. t[Len(s)] = f /\ \A j \in 1..Len(s) : j < Len(s) => t[j] = s[j]
  BY <1>1, <1>6
<1>8. Turned(s, t)
  BY <1>3, <1>6, <1>7 DEF Turned
<1>9. QED
  BY <1>3, <1>5, <1>6, <1>7, <1>8 DEF Same

LEMMA ReturnTurned ==
  ASSUME NEW s \in Seq(StackFrame), Len(s) > 0, NEW err \in Error,
         NEW t, t = [s EXCEPT ![Len(s)].pc = "returned", ![Len(s)].err = err]
  PROVE  Turned(s, t) /\ t[Len(s)].pc = "returned"
<1>1. Len(s) \in 1..Len(s) /\ s[Len(s)] \in StackFrame
  BY FramesTyped
<1>2. PICK h : h = [s[Len(s)] EXCEPT !.pc = "returned"]
  OBVIOUS
<1>3. h \in StackFrame /\ h.pc = "returned" /\ Same(s[Len(s)], h)
  BY <1>1, <1>2 DEF StackFrame, Same
<1>4. PICK f : f = [h EXCEPT !.err = err]
  OBVIOUS
<1>5. f \in StackFrame /\ f.pc = "returned" /\ Same(h, f)
  BY <1>3, <1>4 DEF StackFrame, Same
<1>6. Same(s[Len(s)], f)
  BY <1>3, <1>5 DEF Same
<1>7. PICK w : w = [s EXCEPT ![Len(s)] = f]
  OBVIOUS
<1>8. t = w
  <2>1. PICK u : u = [s EXCEPT ![Len(s)] = h]
    OBVIOUS
  <2>2. t = [u EXCEPT ![Len(s)] = [u[Len(s)] EXCEPT !.err = err]]
    BY <1>1, <1>2, <2>1
  <2>3. QED
    BY <1>7, <1>1, <1>4, <2>1, <2>2
<1>9. /\ w \in Seq(StackFrame) /\ Len(w) = Len(s)
      /\ \A j \in 1..Len(s) : w[j] = IF j = Len(s) THEN f ELSE s[j]
  BY <1>7, <1>1, <1>5, ExceptSeq
<1>10. w[Len(s)] = f /\ \A j \in 1..Len(s) : j < Len(s) => w[j] = s[j]
  BY <1>1, <1>9
<1>11. QED
  BY <1>5, <1>6, <1>8, <1>9, <1>10 DEF Turned

LEMMA FrontPopped ==
  ASSUME NEW s \in Seq(StackFrame), Len(s) > 0
  PROVE  Popped(s, Front(s))
<1>1. PICK k \in Nat : k = Len(s) - 1
  <2>1. Len(s) - 1 \in Nat
    OBVIOUS
  <2>2. QED
    BY <2>1
<1>2. \A j \in 1..k : j \in 1..Len(s) /\ s[j] \in StackFrame
  BY <1>1, FramesTyped
<1>3. Front(s) = SubSeq(s, 1, k)
  BY <1>1 DEF Front
<1>4. Front(s) \in Seq(StackFrame) /\ Len(Front(s)) = k /\ \A j \in 1..k : Front(s)[j] = s[j]
  BY <1>1, <1>2, <1>3
<1>5. QED
  BY <1>1, <1>4 DEF Popped

\* The innermost frame of a state that satisfies the invariant.
LEMMA TopFrame ==
  ASSUME IInv, stack # <<>>
  PROVE  /\ stack \in Seq(StackFrame) /\ amx \in [Plugins -> Handler] /\ g \in Context
         /\ Len(stack) \in Nat \ {0} /\ Top = stack[Len(stack)]
         /\ Top \in StackFrame /\ Top.amx \in Plugins
<1>1. stack \in Seq(StackFrame) /\ amx \in [Plugins -> Handler] /\ g \in Context
  BY DEF IInv, Inv, Typed
<1>2. Len(stack) \in Nat \ {0}
  BY <1>1, EmptySeq
<1>3. QED
  BY <1>1, <1>2, FramesTyped DEF Top, Last

LEMMA QuietSelf ==
  ASSUME NEW m \in [Plugins -> Handler], NEW p \in Plugins
  PROVE  Quiet(m, m, p)
  BY DEF Quiet, Touches

LEMMA QuietError ==
  ASSUME NEW m \in [Plugins -> Handler], NEW p \in Plugins, NEW e \in Error
  PROVE  Quiet(m, WithError(m, p, e), p) /\ WithError(m, p, e)[p].error = e
  BY SetErrorEffect DEF Quiet, Traced

LEMMA QuietStatus ==
  ASSUME NEW m \in [Plugins -> Handler], NEW p \in Plugins, NEW e \in {"error", "paused", "running"}
  PROVE  /\ Quiet(m, WithStatus(m, p, e), p)
         /\ WithStatus(m, p, e)[p].error = m[p].error
  BY SetStatusEffect DEF Quiet, Traced

LEMMA QuietTrans ==
  ASSUME NEW m, NEW r, NEW u, NEW p \in Plugins, Quiet(m, r, p), Quiet(r, u, p)
  PROVE  Quiet(m, u, p)
<1>1. /\ u \in [Plugins -> Handler] /\ \A q \in Plugins : q # p => u[q] = m[q]
  BY DEF Quiet, Touches
<1>2. /\ u[p].m_Handling = m[p].m_Handling /\ u[p].m_InNativeFilter = m[p].m_InNativeFilter
  BY Zenon DEF Quiet, Touches
<1>3. u[p].m_Top = m[p].m_Top /\ u[p].m_Error = m[p].m_Error
  BY DEF Quiet
<1>4. QED
  BY <1>1, <1>2, <1>3 DEF Quiet, Touches

LEMMA SameContextSelf ==
  ASSUME NEW c \in Context
  PROVE  SameContext(c, c)
  BY DEF SameContext

\* Plugin code calls a native.
LEMMA NativeStart ==
  ASSUME IInv, At("run"), NEW pc \in {"native", "refused"}, NEW r, Quiet(amx, r, Top.amx),
         NEW d, SameContext(g, d)
  PROVE  /\ Inv(Goto(stack, pc), r, d)
         /\ Blames(Goto(stack, pc), Top.amx)
<1>1. /\ stack \in Seq(StackFrame) /\ Len(stack) > 0 /\ Top = stack[Len(stack)] /\ Top.pc = "run"
  BY TopFrame DEF At
<1>2. pc \in Pcs
  BY DEF Pcs
<1>3. PICK t : t = Goto(stack, pc)
  OBVIOUS
<1>4. /\ Turned(stack, t) /\ Len(t) = Len(stack) /\ t[Len(stack)].pc = pc
      /\ t[Len(stack)].amx = Top.amx
  BY <1>1, <1>2, <1>3, GotoTurned
<1>5. Move(stack[Len(stack)], t[Len(stack)], amx, r)
  BY <1>1, <1>4 DEF Move
<1>6. Inv(t, r, d)
  BY <1>1, <1>4, <1>5, TurnInv DEF IInv
<1>7. Blames(t, Top.amx)
  BY <1>1, <1>4 DEF Blames, Leaving
<1>8. QED
  BY <1>3, <1>6, <1>7

LEMMA InvNext ==
  ASSUME NEW s, NEW m, NEW c, Inv(s, m, c), stack' = s, amx' = m, g' = c,
         g_CallFunc_Plugin' \in Plugins \union {NULL}
  PROVE  IInv'
  BY DEF IInv

\* amx_Callback clears amx->error.
LEMMA ClearedQuiet ==
  ASSUME IInv, At("run")
  PROVE  /\ Cleared \in [Plugins -> Handler] /\ Quiet(amx, Cleared, Top.amx)
         /\ Cleared[Top.amx].error = "none"
<1>1. amx \in [Plugins -> Handler] /\ Top.amx \in Plugins
  BY TopFrame DEF At
<1>2. Cleared = WithError(amx, Top.amx, "none") /\ "none" \in Error
  BY DEF Cleared, WithError, Error
<1>3. Quiet(amx, Cleared, Top.amx) /\ Cleared[Top.amx].error = "none"
  BY <1>1, <1>2, QuietError
<1>4. QED
  BY <1>3 DEF Quiet, Touches

\* A native that logs an error and returns.
LEMMA NativeLogs ==
  ASSUME IInv, At("run"), NEW pc \in {"native", "refused"}, NEW r, Quiet(amx, r, Top.amx),
         Become(LogError(Goto(stack, pc), r, Top.amx)), g' = g,
         g_CallFunc_Plugin' \in Plugins \union {NULL}
  PROVE  IInv'
<1>1. g \in Context /\ Top.amx \in Plugins
  BY TopFrame DEF At
<1>2. SameContext(g, g)
  BY <1>1, SameContextSelf
<1>3. Inv(Goto(stack, pc), r, g) /\ Blames(Goto(stack, pc), Top.amx)
  BY <1>2, NativeStart
<1>4. PICK e : e = LogError(Goto(stack, pc), r, Top.amx)
  OBVIOUS
<1>5. Inv(e.stack, e.amx, g)
  BY <1>1, <1>3, <1>4, LogErrorInv
<1>6. stack' = e.stack /\ amx' = e.amx
  BY <1>4 DEF Become
<1>7. QED
  BY <1>5, <1>6, InvNext

LEMMA NativeErrorStep ==
  ASSUME IInv, NativeError
  PROVE  IInv'
<1>1. At("run") /\ Become(LogError(Goto(stack, "native"), Cleared, Top.amx))
  BY DEF NativeError, InNative
<1>2. g' = g /\ g_CallFunc_Plugin' \in Plugins \union {NULL}
  BY DEF NativeError, IInv
<1>3. QED
  BY <1>1, <1>2, ClearedQuiet, NativeLogs

LEMMA log_errorStep ==
  ASSUME IInv, log_error
  PROVE  IInv'
<1>1. /\ At("run") /\ stack' = Goto(stack, "native") /\ amx' = Cleared
      /\ g' = [g EXCEPT !.error = "error"]
      /\ g_CallFunc_Plugin' \in Plugins \union {NULL}
  BY DEF log_error, InNative, IInv
<1>2. g \in Context
  BY <1>1, TopFrame DEF At
<1>3. SameContext(g, g')
  BY <1>1, <1>2 DEF SameContext, Context
<1>4. Inv(Goto(stack, "native"), Cleared, g')
  BY <1>1, <1>3, ClearedQuiet, NativeStart
<1>5. QED
  BY <1>1, <1>4, InvNext

LEMMA set_fail_stateStep ==
  ASSUME IInv, set_fail_state
  PROVE  IInv'
<1>1. /\ At("run") /\ g' = g /\ g_CallFunc_Plugin' \in Plugins \union {NULL}
      /\ Become(LogError(Goto(stack, "native"), WithStatus(Cleared, Top.amx, "error"), Top.amx))
  BY DEF set_fail_state, InNative, WithStatus, IInv
<1>2. Top.amx \in Plugins
  BY <1>1, TopFrame DEF At
<1>3. Quiet(Cleared, WithStatus(Cleared, Top.amx, "error"), Top.amx)
  BY <1>1, <1>2, ClearedQuiet, QuietStatus
<1>4. Quiet(amx, WithStatus(Cleared, Top.amx, "error"), Top.amx)
  BY <1>1, <1>2, <1>3, ClearedQuiet, QuietTrans
<1>5. QED
  BY <1>1, <1>4, NativeLogs

\* From here on the caller waits in its native and the called execution begins.
LEMMA EnteredBegin ==
  ASSUME NEW m \in [Plugins -> Handler], NEW f, f.amx \in Plugins
  PROVE  Entered(m, BeginExec(m, f.amx), f)
<1>1. Opened(m, BeginExec(m, f.amx), f.amx)
  BY BeginExecEffect
<1>2. QED
  BY <1>1 DEF Opened, Touches, Entered, Tracer

LEMMA Calls ==
  ASSUME IInv, At("run"), Len(stack) < MaxDepth, NEW f \in StackFrame, f.pc = "run",
         f.kind # "errfilter", NEW m, NEW d \in Context,
         Entered(Cleared, m, f),
         f.kind = "natfilter" => f.amx \in NativeFilter /\ f.amx = Top.amx,
         f.kind # "dyna" => d = g,
         f.kind = "dyna" => /\ f.native \in Natives /\ f.saved = g
                            /\ d.native = f.native /\ d.caller = Top.amx /\ d.params = f.args
  PROVE  Inv(Append(InNative, f), m, d)
<1>1. /\ stack \in Seq(StackFrame) /\ Len(stack) \in Nat \ {0} /\ Top = stack[Len(stack)]
      /\ Top.amx \in Plugins /\ g \in Context
  BY TopFrame DEF At
<1>2. PICK s : s = Goto(stack, "native")
  OBVIOUS
<1>3. /\ s \in Seq(StackFrame) /\ Len(s) = Len(stack) /\ s[Len(s)].pc = "native"
      /\ s[Len(s)].amx = Top.amx
  <2>1. "native" \in Pcs /\ Len(stack) > 0
    BY <1>1 DEF Pcs
  <2>2. QED
    BY <1>1, <1>2, <2>1, GotoTurned
<1>4. SameContext(g, g)
  BY <1>1, SameContextSelf
<1>5. Inv(s, Cleared, g)
  BY <1>2, <1>4, ClearedQuiet, NativeStart
<1>6. PICK t : t = Append(s, f)
  OBVIOUS
<1>7. Pushed(s, t, f)
  BY <1>3, <1>6, PushedAppend
<1>8. NewFrame(s, f)
  BY <1>1, <1>3 DEF NewFrame
<1>9. Waits(s, Cleared) /\ Len(s) <= MaxDepth
  BY <1>1, <1>3, ClearedQuiet, PluginAssumption DEF Waits
<1>10. Inv(t, m, d)
  <2>1. f.kind # "dyna" => SameContext(g, d)
    BY <1>4
  <2>2. f.kind = "dyna" => /\ f.saved = g /\ d.native = f.native
                          /\ d.caller = s[Len(s)].amx /\ d.params = f.args
    BY <1>3
  <2>3. QED
    BY <1>5, <1>7, <1>8, <1>9, <2>1, <2>2, PushInv
<1>11. QED
  BY <1>2, <1>6, <1>10 DEF InNative

LEMMA ExecuteForwardStep ==
  ASSUME IInv, NEW q \in Plugins, ExecuteForward(q)
  PROVE  IInv'
<1>1. /\ At("run") /\ Len(stack) < MaxDepth /\ g' = g
      /\ g_CallFunc_Plugin' \in Plugins \union {NULL}
      /\ stack' = Append(InNative, Frame("forward", q)) /\ amx' = BeginExec(Cleared, q)
  BY DEF ExecuteForward, IInv
<1>2. PICK f : f = Frame("forward", q)
  OBVIOUS
<1>3. f \in StackFrame /\ f.kind = "forward" /\ f.amx = q /\ f.pc = "run"
  BY <1>2, FrameFields
<1>4. Entered(Cleared, amx', f)
  BY <1>1, <1>3, ClearedQuiet, EnteredBegin
<1>5. g \in Context
  BY <1>1, TopFrame DEF At
<1>6. Inv(Append(InNative, f), amx', g)
  BY <1>1, <1>3, <1>4, <1>5, Calls
<1>7. QED
  BY <1>1, <1>2, <1>6, InvNext

LEMMA DynaCallbackStep ==
  ASSUME IInv, NEW n \in Natives, NEW args \in Args, amxx_DynaCallback(n, args)
  PROVE  IInv'
<1>1. PICK q \in Plugins : q = Home[n]
  BY PluginAssumption
<1>2. PICK f : f = [Frame("dyna", q) EXCEPT !.native = n, !.args = args, !.saved = g]
  OBVIOUS
<1>3. /\ At("run") /\ Len(stack) < MaxDepth
      /\ g_CallFunc_Plugin' \in Plugins \union {NULL}
      /\ stack' = Append(InNative, f) /\ amx' = BeginExec(Cleared, q)
      /\ g' = [native |-> n, caller |-> Top.amx, params |-> args, error |-> "none"]
  BY <1>1, <1>2 DEF amxx_DynaCallback, IInv
<1>4. g \in Context /\ Top.amx \in Plugins
  BY <1>3, TopFrame DEF At
<1>5. /\ f \in StackFrame /\ f.kind = "dyna" /\ f.amx = q /\ f.pc = "run"
      /\ f.native = n /\ f.args = args /\ f.saved = g
  <2>1. PICK w : w = Frame("dyna", q)
    OBVIOUS
  <2>2. w \in StackFrame /\ w.kind = "dyna" /\ w.amx = q /\ w.pc = "run"
    BY <2>1, FrameFields
  <2>3. PICK a : a = [w EXCEPT !.native = n]
    OBVIOUS
  <2>4. a \in StackFrame /\ a.kind = "dyna" /\ a.amx = q /\ a.pc = "run" /\ a.native = n
    BY <2>2, <2>3 DEF StackFrame
  <2>5. PICK b : b = [a EXCEPT !.args = args]
    OBVIOUS
  <2>6. /\ b \in StackFrame /\ b.kind = "dyna" /\ b.amx = q /\ b.pc = "run" /\ b.native = n
        /\ b.args = args
    BY <2>4, <2>5 DEF StackFrame
  <2>7. f = [b EXCEPT !.saved = g]
    BY <1>2, <2>1, <2>3, <2>5
  <2>8. QED
    BY <1>4, <2>6, <2>7 DEF StackFrame
<1>6. Entered(Cleared, amx', f)
  BY <1>3, <1>5, ClearedQuiet, EnteredBegin
<1>7. g' \in Context /\ g'.native = n /\ g'.caller = Top.amx /\ g'.params = args
  BY <1>3, <1>4 DEF Context
<1>8. Inv(Append(InNative, f), amx', g')
  BY <1>3, <1>5, <1>6, <1>7, Calls
<1>9. QED
  BY <1>3, <1>8, InvNext

LEMMA DynaCallbackPausedStep ==
  ASSUME IInv, NEW n \in Natives, amxx_DynaCallbackPaused(n)
  PROVE  IInv'
<1>1. /\ At("run") /\ Become(LogError(Goto(stack, "refused"), Cleared, Top.amx))
      /\ g' = g /\ g_CallFunc_Plugin' \in Plugins \union {NULL}
  BY DEF amxx_DynaCallbackPaused, IInv
<1>2. QED
  BY <1>1, ClearedQuiet, NativeLogs

\* The innermost frame moves on, amx and g stay or change quietly.
LEMMA TopMoves ==
  ASSUME IInv, stack # <<>>, NEW pc \in Pcs, NEW r, Quiet(amx, r, Top.amx),
         NEW h, h = Goto(stack, pc)[Len(stack)], Move(Top, h, amx, r)
  PROVE  Inv(Goto(stack, pc), r, g)
<1>1. /\ stack \in Seq(StackFrame) /\ Len(stack) \in Nat \ {0} /\ Top = stack[Len(stack)]
      /\ g \in Context
  BY TopFrame
<1>2. Len(stack) > 0
  BY <1>1
<1>3. Turned(stack, Goto(stack, pc))
  BY <1>1, <1>2, GotoTurned
<1>4. SameContext(g, g)
  BY <1>1, SameContextSelf
<1>5. QED
  BY <1>1, <1>3, <1>4, TurnInv DEF IInv

LEMMA TopPc ==
  ASSUME IInv, stack # <<>>, NEW pc \in Pcs
  PROVE  /\ Goto(stack, pc)[Len(stack)].pc = pc /\ Len(Goto(stack, pc)) = Len(stack)
         /\ Goto(stack, pc)[Len(stack)].amx = Top.amx /\ Goto(stack, pc)[Len(stack)].kind = Top.kind
<1>1. /\ stack \in Seq(StackFrame) /\ Len(stack) \in Nat \ {0} /\ Top = stack[Len(stack)]
  BY TopFrame
<1>2. Len(stack) > 0
  BY <1>1
<1>3. QED
  BY <1>1, <1>2, GotoTurned

LEMMA DynaCallbackRefusedStep ==
  ASSUME IInv, amxx_DynaCallbackRefused
  PROVE  IInv'
<1>1. /\ stack # <<>> /\ Top.pc = "refused" /\ stack' = Goto(stack, "native")
      /\ amx' = WithStatus(amx, Top.amx, "paused") /\ g' = g
      /\ g_CallFunc_Plugin' \in Plugins \union {NULL}
  BY DEF amxx_DynaCallbackRefused, At, InNative, WithStatus, IInv
<1>2. amx \in [Plugins -> Handler] /\ Top.amx \in Plugins /\ "native" \in Pcs
  BY <1>1, TopFrame DEF Pcs
<1>3. Quiet(amx, amx', Top.amx) /\ amx'[Top.amx].error = amx[Top.amx].error
  BY <1>1, <1>2, QuietStatus
<1>4. PICK h : h = Goto(stack, "native")[Len(stack)]
  OBVIOUS
<1>5. h.pc = "native"
  BY <1>1, <1>2, <1>4, TopPc
<1>6. Move(Top, h, amx, amx')
  BY <1>1, <1>3, <1>5 DEF Move
<1>7. Inv(Goto(stack, "native"), amx', g)
  BY <1>1, <1>2, <1>3, <1>4, <1>6, TopMoves
<1>8. QED
  BY <1>1, <1>7, InvNext

LEMMA callfunc_beginStep ==
  ASSUME IInv, NEW q \in Plugins, callfunc_begin(q)
  PROVE  IInv'
<1>1. At("run") /\ g' = g
  BY DEF callfunc_begin
<1>2. CASE g_CallFunc_Plugin # NULL
  <2>1. /\ Become(LogError(Goto(stack, "native"), Cleared, Top.amx))
        /\ g_CallFunc_Plugin' \in Plugins \union {NULL}
    BY <1>2 DEF callfunc_begin, InNative, IInv
  <2>2. QED
    BY <1>1, <2>1, ClearedQuiet, NativeLogs
<1>3. CASE g_CallFunc_Plugin = NULL
  <2>1. g_CallFunc_Plugin' = q /\ stack' = Goto(stack, "native") /\ amx' = Cleared
    BY <1>3 DEF callfunc_begin, InNative
  <2>2. g \in Context
    BY <1>1, TopFrame DEF At
  <2>3. Inv(Goto(stack, "native"), Cleared, g)
    BY <1>1, <2>2, ClearedQuiet, SameContextSelf, NativeStart
  <2>4. QED
    BY <1>1, <2>1, <2>3, InvNext
<1>4. QED
  BY <1>2, <1>3

LEMMA callfunc_endStep ==
  ASSUME IInv, callfunc_end
  PROVE  IInv'
<1>1. At("run") /\ Len(stack) < MaxDepth /\ g' = g /\ g_CallFunc_Plugin' = NULL
  BY DEF callfunc_end
<1>2. CASE g_CallFunc_Plugin = NULL
  <2>1. Become(LogError(Goto(stack, "native"), Cleared, Top.amx))
    BY <1>2 DEF callfunc_end, InNative
  <2>2. QED
    BY <1>1, <2>1, ClearedQuiet, NativeLogs
<1>3. CASE g_CallFunc_Plugin # NULL
  <2>1. PICK q \in Plugins : q = g_CallFunc_Plugin
    BY <1>3 DEF IInv
  <2>2. PICK f : f = Frame("callfunc", q)
    OBVIOUS
  <2>3. stack' = Append(InNative, f) /\ amx' = BeginExec(Cleared, q)
    BY <1>3, <2>1, <2>2 DEF callfunc_end
  <2>4. f \in StackFrame /\ f.kind = "callfunc" /\ f.amx = q /\ f.pc = "run"
    BY <2>2, FrameFields
  <2>5. Entered(Cleared, amx', f)
    BY <1>1, <2>3, <2>4, ClearedQuiet, EnteredBegin
  <2>6. g \in Context
    BY <1>1, TopFrame DEF At
  <2>7. Inv(Append(InNative, f), amx', g)
    BY <1>1, <2>4, <2>5, <2>6, Calls
  <2>8. QED
    BY <1>1, <2>3, <2>7, InvNext
<1>4. QED
  BY <1>2, <1>3

\* m_InNativeFilter alone changes.
Flagged(m, r, p) ==
  /\ r \in [Plugins -> Handler]
  /\ \A q \in Plugins : q # p => r[q] = m[q]
  /\ r[p].error = m[p].error /\ r[p].m_Handling = m[p].m_Handling
  /\ r[p].m_Top = m[p].m_Top /\ r[p].m_Error = m[p].m_Error

WithFilter(m, p, b) == [m EXCEPT ![p].m_InNativeFilter = b]

LEMMA WithFilterEffect ==
  ASSUME NEW m \in [Plugins -> Handler], NEW p \in Plugins
  PROVE  /\ Flagged(m, WithFilter(m, p, TRUE), p)
         /\ Flagged(m, WithFilter(m, p, FALSE), p)
         /\ ~ WithFilter(m, p, FALSE)[p].m_InNativeFilter
<1>1. ASSUME NEW b \in BOOLEAN
      PROVE  Flagged(m, WithFilter(m, p, b), p) /\ WithFilter(m, p, b)[p].m_InNativeFilter = b
  <2>1. PICK h : h = [m[p] EXCEPT !.m_InNativeFilter = b]
    OBVIOUS
  <2>2. WithFilter(m, p, b) = [m EXCEPT ![p] = h]
    BY <2>1 DEF WithFilter
  <2>3. /\ h \in Handler /\ h.m_Top = m[p].m_Top /\ h.m_Error = m[p].m_Error
        /\ h.error = m[p].error
        /\ h.m_Handling = m[p].m_Handling /\ h.m_InNativeFilter = b
    BY <2>1 DEF Handler
  <2>4. QED
    BY <2>2, <2>3 DEF Flagged
<1>2. QED
  BY <1>1

LEMMA invalid_nativeStep ==
  ASSUME IInv, invalid_native
  PROVE  IInv'
<1>1. PICK p : p = Top.amx
  OBVIOUS
<1>2. PICK h : h = WithFilter(Cleared, p, TRUE)
  OBVIOUS
<1>3. PICK f : f = Frame("natfilter", p)
  OBVIOUS
<1>4. /\ At("run") /\ Len(stack) < MaxDepth /\ p \in NativeFilter /\ g' = g
      /\ g_CallFunc_Plugin' \in Plugins \union {NULL}
      /\ stack' = Append(InNative, f) /\ amx' = BeginExec(h, p)
  BY <1>1, <1>2, <1>3 DEF invalid_native, IInv, WithFilter
<1>5. p \in Plugins /\ g \in Context /\ Cleared \in [Plugins -> Handler]
  BY <1>1, <1>4, TopFrame, ClearedQuiet DEF At
<1>6. f \in StackFrame /\ f.kind = "natfilter" /\ f.amx = p /\ f.pc = "run"
  BY <1>3, <1>5, FrameFields
<1>7. Flagged(Cleared, h, p)
  BY <1>2, <1>5, WithFilterEffect
<1>8. Opened(h, amx', p)
  BY <1>4, <1>5, <1>7, BeginExecEffect DEF Flagged
<1>9. Entered(Cleared, amx', f)
  <2>1. /\ amx' \in [Plugins -> Handler] /\ \A q \in Plugins : q # p => amx'[q] = Cleared[q]
    BY <1>7, <1>8 DEF Opened, Touches, Flagged
  <2>2. amx'[p].error = Cleared[p].error /\ amx'[p].m_Handling = Cleared[p].m_Handling
    BY <1>7, <1>8, Zenon DEF Opened, Touches, Flagged
  <2>3. Tracer(Cleared, amx', p)
    BY <1>7, <1>8 DEF Opened, Tracer, Flagged
  <2>4. QED
    BY <1>6, <2>1, <2>2, <2>3 DEF Entered
<1>10. Inv(Append(InNative, f), amx', g)
  BY <1>1, <1>4, <1>5, <1>6, <1>9, Calls
<1>11. QED
  BY <1>4, <1>10, InvNext

LEMMA amx_ExecStep ==
  ASSUME IInv, NEW err \in {"none", "error"}, amx_Exec(err)
  PROVE  IInv'
<1>1. /\ stack # <<>> /\ Top.pc = "run" /\ amx' = amx /\ g' = g
      /\ stack' = [stack EXCEPT ![Len(stack)].pc = "returned", ![Len(stack)].err = err]
      /\ g_CallFunc_Plugin' \in Plugins \union {NULL}
  BY DEF amx_Exec, At, IInv
<1>2. /\ stack \in Seq(StackFrame) /\ Len(stack) > 0 /\ Top = stack[Len(stack)]
      /\ Top.amx \in Plugins /\ amx \in [Plugins -> Handler] /\ g \in Context
  BY <1>1, TopFrame
<1>3. PICK t : t = [stack EXCEPT ![Len(stack)].pc = "returned", ![Len(stack)].err = err]
  OBVIOUS
<1>4. err \in Error
  BY DEF Error
<1>5. Turned(stack, t) /\ t[Len(stack)].pc = "returned"
  BY <1>2, <1>3, <1>4, ReturnTurned
<1>6. Move(Top, t[Len(stack)], amx, amx)
  BY <1>1, <1>5 DEF Move
<1>7. Inv(t, amx, g)
  BY <1>2, <1>5, <1>6, QuietSelf, SameContextSelf, TurnInv DEF IInv
<1>8. QED
  BY <1>1, <1>3, <1>7, InvNext

LEMMA amx_CallbackStep ==
  ASSUME IInv, amx_Callback
  PROVE  IInv'
<1>1. /\ stack # <<>> /\ Top.pc = "native" /\ amx' = amx /\ g' = g
      /\ g_CallFunc_Plugin' \in Plugins \union {NULL}
  BY DEF amx_Callback, At, IInv
<1>2. /\ stack \in Seq(StackFrame) /\ Len(stack) > 0 /\ Top = stack[Len(stack)]
      /\ Top.amx \in Plugins /\ amx \in [Plugins -> Handler] /\ g \in Context
  BY <1>1, TopFrame
<1>3. CASE amx[Top.amx].error = "none"
  <2>1. stack' = Goto(stack, "run") /\ "run" \in Pcs
    BY <1>3 DEF amx_Callback, Pcs
  <2>2. PICK h : h = Goto(stack, "run")[Len(stack)]
    OBVIOUS
  <2>3. h.pc = "run"
    BY <1>1, <2>1, <2>2, TopPc
  <2>4. Move(Top, h, amx, amx)
    BY <1>1, <1>3, <2>3 DEF Move
  <2>5. Inv(Goto(stack, "run"), amx, g)
    BY <1>1, <1>2, <2>1, <2>2, <2>4, QuietSelf, TopMoves
  <2>6. QED
    BY <1>1, <2>1, <2>5, InvNext
<1>4. CASE amx[Top.amx].error # "none"
  <2>1. PICK e \in Error : e = amx[Top.amx].error
    BY <1>2 DEF Handler
  <2>2. PICK t : t = [stack EXCEPT ![Len(stack)].pc = "returned", ![Len(stack)].err = e]
    OBVIOUS
  <2>3. stack' = t
    BY <1>4, <2>1, <2>2 DEF amx_Callback
  <2>4. Turned(stack, t) /\ t[Len(stack)].pc = "returned"
    BY <1>2, <2>2, ReturnTurned
  <2>5. Move(Top, t[Len(stack)], amx, amx)
    BY <1>1, <2>4 DEF Move
  <2>6. Inv(t, amx, g)
    BY <1>2, <2>4, <2>5, QuietSelf, SameContextSelf, TurnInv DEF IInv
  <2>7. QED
    BY <1>1, <2>3, <2>6, InvNext
<1>5. QED
  BY <1>3, <1>4

\* The function of the innermost frame logs an error and goes on.
LEMMA TopLogs ==
  ASSUME IInv, stack # <<>>, NEW pc \in Pcs, NEW r, Quiet(amx, r, Top.amx),
         NEW h, h = Goto(stack, pc)[Len(stack)], Move(Top, h, amx, r),
         NEW p \in Plugins, Blames(Goto(stack, pc), p),
         Become(LogError(Goto(stack, pc), r, p)), g' = g,
         g_CallFunc_Plugin' \in Plugins \union {NULL}
  PROVE  IInv'
<1>1. Inv(Goto(stack, pc), r, g)
  BY TopMoves
<1>2. PICK e : e = LogError(Goto(stack, pc), r, p)
  OBVIOUS
<1>3. Inv(e.stack, e.amx, g)
  BY <1>1, <1>2, LogErrorInv
<1>4. stack' = e.stack /\ amx' = e.amx
  BY <1>2 DEF Become
<1>5. QED
  BY <1>3, <1>4, InvNext

\* Who is blamed: the plugin itself, or the caller of a native and of callfunc.
LEMMA TopBlamed ==
  ASSUME IInv, stack # <<>>, NEW pc \in Pcs, pc # "run",
         pc # "end" \/ Top.kind \notin {"dyna", "callfunc"}
  PROVE  Blames(Goto(stack, pc), Top.amx)
<1>1. Len(stack) \in Nat \ {0}
  BY TopFrame
<1>2. PICK t : t = Goto(stack, pc)
  OBVIOUS
<1>3. /\ t[Len(stack)].pc = pc /\ Len(t) = Len(stack)
      /\ t[Len(stack)].amx = Top.amx /\ t[Len(stack)].kind = Top.kind
  BY <1>2, TopPc
<1>4. Blames(t, Top.amx)
  BY <1>1, <1>3 DEF Blames, Leaving
<1>5. QED
  BY <1>2, <1>4

LEMMA CallerBlamed ==
  ASSUME IInv, stack # <<>>, Top.kind \in {"dyna", "callfunc"}
  PROVE  Caller \in Plugins /\ Blames(Goto(stack, "end"), Caller)
<1>1. stack \in Seq(StackFrame) /\ Len(stack) \in Nat \ {0} /\ Top = stack[Len(stack)]
  BY TopFrame
<1>2. Len(stack) > 1
  <2>1. FrameShape(stack, Len(stack))
    BY <1>1 DEF IInv, Inv, Shape
  <2>2. QED
    BY <1>1, <2>1 DEF FrameShape
<1>3. Len(stack) - 1 \in 1..Len(stack)
  BY <1>1, <1>2
<1>4. Caller \in Plugins
  BY <1>1, <1>3, FramesTyped DEF Caller
<1>5. PICK t : t = Goto(stack, "end")
  OBVIOUS
<1>6. /\ t[Len(stack)].pc = "end" /\ Len(t) = Len(stack) /\ t[Len(stack)].kind = Top.kind
      /\ Turned(stack, t)
  <2>1. "end" \in Pcs /\ Len(stack) > 0
    BY <1>1 DEF Pcs
  <2>2. QED
    BY <1>1, <1>5, <2>1, GotoTurned
<1>7. t[Len(stack) - 1].amx = Caller
  <2>1. t[Len(stack) - 1] = stack[Len(stack) - 1]
    BY <1>1, <1>3, <1>6 DEF Turned
  <2>2. QED
    BY <2>1 DEF Caller
<1>8. Blames(t, Caller)
  BY <1>1, <1>2, <1>6, <1>7 DEF Blames, Leaving
<1>9. QED
  BY <1>4, <1>5, <1>8

\* Moves of a frame whose amx_Exec is over, and of a failed native filter's caller.
LEMMA AfterExec ==
  ASSUME IInv, stack # <<>>, NEW pc \in {"end", "unhandled"},
         Top.pc \in {"returned", "unhandled"}, pc = "unhandled" => Top.kind = "dyna",
         NEW r, NEW h, h = Goto(stack, pc)[Len(stack)]
  PROVE  pc \in Pcs /\ Move(Top, h, amx, r)
<1>1. pc \in Pcs
  BY DEF Pcs
<1>2. h.pc = pc
  BY <1>1, TopPc
<1>3. QED
  BY <1>1, <1>2 DEF Move

LEMMA invalid_nativeUnhandledStep ==
  ASSUME IInv, invalid_nativeUnhandled
  PROVE  IInv'
<1>1. /\ stack # <<>> /\ Top.pc = "invalid" /\ g' = g
      /\ Become(LogError(Goto(stack, "native"), amx, Top.amx))
      /\ g_CallFunc_Plugin' \in Plugins \union {NULL}
  BY DEF invalid_nativeUnhandled, At, InNative, IInv
<1>2. /\ Top.amx \in Plugins /\ amx \in [Plugins -> Handler] /\ "native" \in Pcs
  BY <1>1, TopFrame DEF Pcs
<1>3. PICK h : h = Goto(stack, "native")[Len(stack)]
  OBVIOUS
<1>4. h.pc = "native"
  BY <1>1, <1>2, <1>3, TopPc
<1>5. Move(Top, h, amx, amx)
  BY <1>1, <1>4 DEF Move
<1>6. Blames(Goto(stack, "native"), Top.amx)
  BY <1>1, <1>2, TopBlamed
<1>7. QED
  BY <1>1, <1>2, <1>3, <1>5, <1>6, QuietSelf, TopLogs

\* forwardReturned and natfilterReturned.
LEMMA SelfReturned ==
  ASSUME IInv, stack # <<>>, Top.pc = "returned", Top.kind \in {"forward", "natfilter"},
         \/ Become(LogError(Goto(stack, "end"), amx, Top.amx))
         \/ stack' = Goto(stack, "end") /\ UNCHANGED amx,
         UNCHANGED <<g, g_CallFunc_Plugin>>
  PROVE  IInv'
<1>1. Top.amx \in Plugins /\ amx \in [Plugins -> Handler]
  BY TopFrame
<1>2. PICK h : h = Goto(stack, "end")[Len(stack)]
  OBVIOUS
<1>3. "end" \in Pcs /\ Move(Top, h, amx, amx)
  BY <1>2, AfterExec
<1>4. g' = g /\ g_CallFunc_Plugin' \in Plugins \union {NULL} /\ Quiet(amx, amx, Top.amx)
  BY <1>1, QuietSelf DEF IInv
<1>5. CASE Become(LogError(Goto(stack, "end"), amx, Top.amx))
  <2>1. Blames(Goto(stack, "end"), Top.amx)
    BY <1>3, TopBlamed
  <2>2. QED
    BY <1>1, <1>2, <1>3, <1>4, <1>5, <2>1, TopLogs
<1>6. CASE stack' = Goto(stack, "end") /\ UNCHANGED amx
  <2>1. Inv(Goto(stack, "end"), amx, g)
    BY <1>2, <1>3, <1>4, TopMoves
  <2>2. QED
    BY <1>4, <1>6, <2>1, InvNext
<1>7. QED
  BY <1>5, <1>6

LEMMA forwardReturnedStep ==
  ASSUME IInv, forwardReturned
  PROVE  IInv'
<1>1. /\ stack # <<>> /\ Top.pc = "returned" /\ Top.kind \in {"forward", "natfilter"}
      /\ \/ Become(LogError(Goto(stack, "end"), amx, Top.amx))
         \/ stack' = Goto(stack, "end") /\ UNCHANGED amx
      /\ UNCHANGED <<g, g_CallFunc_Plugin>>
  BY DEF forwardReturned, Returned, At
<1>2. QED
  BY <1>1, SelfReturned

LEMMA natfilterReturnedStep ==
  ASSUME IInv, natfilterReturned
  PROVE  IInv'
<1>1. /\ stack # <<>> /\ Top.pc = "returned" /\ Top.kind \in {"forward", "natfilter"}
      /\ \/ Become(LogError(Goto(stack, "end"), amx, Top.amx))
         \/ stack' = Goto(stack, "end") /\ UNCHANGED amx
      /\ UNCHANGED <<g, g_CallFunc_Plugin>>
  BY DEF natfilterReturned, Returned, At
<1>2. QED
  BY <1>1, SelfReturned

\* The caller of a dynamic native or of callfunc_end is blamed, or nobody.
LEMMA CallReturned ==
  ASSUME IInv, stack # <<>>, Top.pc \in {"returned", "unhandled"}, Top.kind \in {"dyna", "callfunc"},
         NEW r, Quiet(amx, r, Top.amx),
         \/ Become(LogError(Goto(stack, "end"), r, Caller))
         \/ stack' = Goto(stack, "end") /\ amx' = r,
         UNCHANGED <<g, g_CallFunc_Plugin>>
  PROVE  IInv'
<1>1. PICK h : h = Goto(stack, "end")[Len(stack)]
  OBVIOUS
<1>2. "end" \in Pcs /\ Move(Top, h, amx, r)
  BY <1>1, AfterExec
<1>3. g' = g /\ g_CallFunc_Plugin' \in Plugins \union {NULL}
  BY DEF IInv
<1>4. CASE Become(LogError(Goto(stack, "end"), r, Caller))
  BY <1>1, <1>2, <1>3, <1>4, CallerBlamed, TopLogs
<1>5. CASE stack' = Goto(stack, "end") /\ amx' = r
  <2>1. Inv(Goto(stack, "end"), r, g)
    BY <1>1, <1>2, TopMoves
  <2>2. QED
    BY <1>3, <1>5, <2>1, InvNext
<1>6. QED
  BY <1>4, <1>5

LEMMA dynaReturnedStep ==
  ASSUME IInv, dynaReturned
  PROVE  IInv'
<1>1. /\ stack # <<>> /\ Top.pc = "returned" /\ Top.kind = "dyna"
      /\ UNCHANGED <<g, g_CallFunc_Plugin>>
  BY DEF dynaReturned, Returned, At
<1>2. Top.amx \in Plugins /\ amx \in [Plugins -> Handler]
  BY <1>1, TopFrame
<1>3. g' = g /\ g_CallFunc_Plugin' \in Plugins \union {NULL} /\ Quiet(amx, amx, Top.amx)
  BY <1>1, <1>2, QuietSelf DEF IInv
<1>4. PICK h : h = Goto(stack, "unhandled")[Len(stack)]
  OBVIOUS
<1>5. "unhandled" \in Pcs /\ Move(Top, h, amx, amx)
  BY <1>1, <1>4, AfterExec
<1>6. CASE Become(LogError(Goto(stack, "unhandled"), amx, Top.amx))
  <2>1. Blames(Goto(stack, "unhandled"), Top.amx)
    BY <1>1, <1>5, TopBlamed
  <2>2. QED
    BY <1>1, <1>2, <1>3, <1>4, <1>5, <1>6, <2>1, TopLogs
<1>7. CASE stack' = Goto(stack, "unhandled") /\ UNCHANGED amx
  <2>1. Inv(Goto(stack, "unhandled"), amx, g)
    BY <1>1, <1>3, <1>4, <1>5, TopMoves
  <2>2. QED
    BY <1>3, <1>7, <2>1, InvNext
<1>8. CASE \/ Become(LogError(Goto(stack, "end"), amx, Caller))
           \/ stack' = Goto(stack, "end") /\ amx' = amx
  BY <1>1, <1>3, <1>8, CallReturned
<1>9. QED
  BY <1>6, <1>7, <1>8 DEF dynaReturned

LEMMA dynaUnhandledStep ==
  ASSUME IInv, dynaUnhandled
  PROVE  IInv'
<1>1. /\ stack # <<>> /\ Top.pc = "unhandled" /\ UNCHANGED <<g, g_CallFunc_Plugin>>
      /\ Become(LogError(Goto(stack, "end"), WithError(amx, Top.amx, "none"), Caller))
  BY DEF dynaUnhandled, At, WithError
<1>2. /\ Top.amx \in Plugins /\ amx \in [Plugins -> Handler]
      /\ Top = stack[Len(stack)] /\ Len(stack) \in 1..Len(stack)
  BY <1>1, TopFrame
<1>3. Top.kind = "dyna"
  BY <1>1, <1>2 DEF IInv, Inv, Shape, FrameShape
<1>4. "none" \in Error
  BY DEF Error
<1>5. Quiet(amx, WithError(amx, Top.amx, "none"), Top.amx)
  BY <1>2, <1>4, QuietError
<1>6. QED
  BY <1>1, <1>3, <1>5, CallReturned

LEMMA callfuncReturnedStep ==
  ASSUME IInv, callfuncReturned
  PROVE  IInv'
<1>1. /\ stack # <<>> /\ Top.pc = "returned" /\ Top.kind = "callfunc"
      /\ UNCHANGED <<g, g_CallFunc_Plugin>>
      /\ \/ Become(LogError(Goto(stack, "end"), amx, Caller))
         \/ stack' = Goto(stack, "end") /\ amx' = amx
  BY DEF callfuncReturned, Returned, At
<1>2. Top.amx \in Plugins /\ amx \in [Plugins -> Handler]
  BY <1>1, TopFrame
<1>3. Quiet(amx, amx, Top.amx)
  BY <1>2, QuietSelf
<1>4. QED
  BY <1>1, <1>3, CallReturned

\* A forward, a dynamic native or callfunc_end is left.
LEMMA LeftClosed ==
  ASSUME NEW m, NEW e, NEW r, NEW f, f.amx \in Plugins, Closed(m, e, f.amx), Quiet(e, r, f.amx),
         f.kind \in {"forward", "dyna", "callfunc"}
  PROVE  Left(m, r, f)
<1>1. r \in [Plugins -> Handler] /\ \A q \in Plugins : q # f.amx => r[q] = m[q]
  BY DEF Closed, Quiet, Touches
<1>2. /\ r[f.amx].m_Handling = m[f.amx].m_Handling
      /\ r[f.amx].m_InNativeFilter = m[f.amx].m_InNativeFilter
  BY Zenon DEF Closed, Quiet, Touches
<1>3. /\ f.amx \notin Debug => r[f.amx].m_Top = m[f.amx].m_Top
      /\ f.amx \in Debug => r[f.amx].m_Top = m[f.amx].m_Top - 1
      /\ \A l \in Levels : r[f.amx].m_Error[l] # "none" => m[f.amx].m_Error[l] # "none"
  BY DEF Closed, Quiet
<1>4. QED
  BY <1>1, <1>2, <1>3 DEF Left

LEMMA Returns ==
  ASSUME IInv, stack # <<>>, stack' = Pop, Top.kind \in {"forward", "dyna", "callfunc"},
         Quiet(EndExec(amx, Top.amx), amx', Top.amx),
         Top.kind # "dyna" => g' = g,
         Top.kind = "dyna" => g' = Restored(Top.saved),
         UNCHANGED g_CallFunc_Plugin
  PROVE  IInv'
<1>1. /\ stack \in Seq(StackFrame) /\ amx \in [Plugins -> Handler] /\ g \in Context
      /\ Len(stack) \in Nat \ {0} /\ Top = stack[Len(stack)] /\ Top.amx \in Plugins
  BY TopFrame
<1>2. Len(stack) > 0 /\ Len(stack) \in 1..Len(stack)
  BY <1>1
<1>3. Popped(stack, Pop)
  BY <1>1, <1>2, FrontPopped DEF Pop
<1>4. Left(amx, amx', Top)
  BY <1>1, EndExecEffect, LeftClosed
<1>5. CASE Top.kind # "dyna"
  <2>1. SameContext(g, g)
    BY <1>1, SameContextSelf
  <2>2. Inv(Pop, amx', g)
    BY <1>1, <1>3, <1>4, <1>5, <2>1, PopInv DEF IInv
  <2>3. QED
    BY <1>5, <2>2, InvNext DEF IInv
<1>6. CASE Top.kind = "dyna"
  <2>1. PICK c \in Context : c = Top.saved
    BY <1>1, <1>2, <1>6 DEF IInv, Inv, Shape, FrameShape
  <2>2. /\ g' \in Context /\ g'.native = c.native /\ g'.caller = c.caller
        /\ c.native # NULL => g'.params = c.params
    BY <1>1, <1>6, <2>1 DEF Restored, Context
  <2>3. Inv(Pop, amx', g')
    BY <1>1, <1>3, <1>4, <1>6, <2>1, <2>2, PopInv DEF IInv
  <2>4. QED
    BY <2>3, InvNext DEF IInv
<1>7. QED
  BY <1>5, <1>6

LEMMA forwardEndStep ==
  ASSUME IInv, forwardEnd
  PROVE  IInv'
<1>1. /\ stack # <<>> /\ Top.kind = "forward" /\ stack' = Pop /\ UNCHANGED <<g, g_CallFunc_Plugin>>
  BY DEF forwardEnd, Ends, At
<1>2. /\ Top.amx \in Plugins /\ amx \in [Plugins -> Handler]
  BY <1>1, TopFrame
<1>3. PICK p \in Plugins : p = Top.amx
  BY <1>2
<1>4. PICK e \in [Plugins -> Handler] : e = EndExec(amx, p)
  BY <1>2, EndExecEffect DEF Closed, Touches
<1>5. PICK u : u = WithError(e, p, "none")
  OBVIOUS
<1>6. Quiet(e, u, p) /\ "none" \in Error
  BY <1>5, QuietError DEF Error
<1>7. u \in [Plugins -> Handler]
  BY <1>6 DEF Quiet, Touches
<1>8. PICK x \in {"error", "paused", "running"} : x = IF Top.pausing THEN "paused" ELSE u[p].status
  BY <1>7 DEF Handler
<1>9. amx' = WithStatus(u, p, x)
  BY <1>3, <1>4, <1>5, <1>8 DEF forwardEnd, WithError, WithStatus
<1>10. Quiet(u, amx', p)
  BY <1>7, <1>9, QuietStatus
<1>11. Quiet(EndExec(amx, Top.amx), amx', Top.amx)
  BY <1>3, <1>4, <1>6, <1>10, QuietTrans
<1>12. QED
  BY <1>1, <1>11, Returns

LEMMA dynaEndStep ==
  ASSUME IInv, dynaEnd
  PROVE  IInv'
<1>1. /\ stack # <<>> /\ Top.kind = "dyna" /\ stack' = Pop /\ amx' = EndExec(amx, Top.amx)
      /\ g' = Restored(Top.saved) /\ UNCHANGED g_CallFunc_Plugin
  BY DEF dynaEnd, Ends, At
<1>2. /\ Top.amx \in Plugins /\ amx \in [Plugins -> Handler]
  BY <1>1, TopFrame
<1>3. amx' \in [Plugins -> Handler]
  BY <1>1, <1>2, EndExecEffect DEF Closed, Touches
<1>4. Quiet(EndExec(amx, Top.amx), amx', Top.amx)
  BY <1>1, <1>2, <1>3, QuietSelf
<1>5. QED
  BY <1>1, <1>4, Returns

LEMMA callfuncEndStep ==
  ASSUME IInv, callfuncEnd
  PROVE  IInv'
<1>1. /\ stack # <<>> /\ Top.kind = "callfunc" /\ stack' = Pop /\ amx' = EndExec(amx, Top.amx)
      /\ UNCHANGED <<g, g_CallFunc_Plugin>>
  BY DEF callfuncEnd, Ends, At
<1>2. /\ Top.amx \in Plugins /\ amx \in [Plugins -> Handler]
  BY <1>1, TopFrame
<1>3. amx' \in [Plugins -> Handler]
  BY <1>1, <1>2, EndExecEffect DEF Closed, Touches
<1>4. Quiet(EndExec(amx, Top.amx), amx', Top.amx)
  BY <1>1, <1>2, <1>3, QuietSelf
<1>5. QED
  BY <1>1, <1>4, Returns

LEMMA errfilterReturnedStep ==
  ASSUME IInv, errfilterReturned
  PROVE  IInv'
<1>1. /\ stack # <<>> /\ Top.kind = "errfilter" /\ stack' = Pop /\ g' = g
      /\ g_CallFunc_Plugin' \in Plugins \union {NULL}
  BY DEF errfilterReturned, Returned, At, IInv
<1>2. /\ stack \in Seq(StackFrame) /\ amx \in [Plugins -> Handler] /\ g \in Context
      /\ Len(stack) \in Nat \ {0} /\ Top = stack[Len(stack)] /\ Top.amx \in Plugins
  BY <1>1, TopFrame
<1>3. PICK p \in Plugins : p = Top.amx
  BY <1>2
<1>4. PICK e : e = EndExec(amx, p)
  OBVIOUS
<1>5. Closed(amx, e, p)
  BY <1>2, <1>4, EndExecEffect
<1>6. e \in [Plugins -> Handler]
  BY <1>5 DEF Closed, Touches
<1>7. PICK h : h = [e EXCEPT ![p].m_Handling = FALSE]
  OBVIOUS
<1>8. /\ h \in [Plugins -> Handler] /\ \A q \in Plugins : q # p => h[q] = e[q]
      /\ ~ h[p].m_Handling /\ h[p].m_InNativeFilter = e[p].m_InNativeFilter
      /\ h[p].m_Top = e[p].m_Top /\ h[p].m_Error = e[p].m_Error
  BY <1>6, <1>7 DEF Handler
<1>9. amx' = Report(h, p)
  BY <1>3, <1>4, <1>7 DEF errfilterReturned
<1>10. Traced(h, amx', p) /\ amx'[p].error = "logged"
  BY <1>8, <1>9, ReportEffect
<1>11. Left(amx, amx', Top)
  <2>1. amx' \in [Plugins -> Handler] /\ \A q \in Plugins : q # p => amx'[q] = amx[q]
    BY <1>5, <1>8, <1>10 DEF Closed, Traced, Touches
  <2>2. ~ amx'[p].m_Handling /\ amx'[p].m_InNativeFilter = amx[p].m_InNativeFilter
    BY <1>5, <1>8, <1>10, Zenon DEF Closed, Traced, Touches
  <2>3. /\ p \notin Debug => amx'[p].m_Top = amx[p].m_Top
        /\ p \in Debug => amx'[p].m_Top = amx[p].m_Top - 1
    BY <1>5, <1>8, <1>10 DEF Closed, Traced
  <2>4. p \in Debug => \A l \in Levels : amx'[p].m_Error[l] # "none" =>
          amx[p].m_Error[l] # "none" \/ l = amx[p].m_Top - 1
    BY <1>5, <1>8, <1>10 DEF Closed, Traced
  <2>5. QED
    BY <1>1, <1>3, <1>10, <2>1, <2>2, <2>3, <2>4 DEF Left
<1>12. Popped(stack, Pop)
  <2>1. Len(stack) > 0
    BY <1>2
  <2>2. QED
    BY <1>2, <2>1, FrontPopped DEF Pop
<1>13. Inv(Pop, amx', g)
  <2>1. SameContext(g, g)
    BY <1>2, SameContextSelf
  <2>2. QED
    BY <1>1, <1>2, <1>11, <1>12, <2>1, PopInv DEF IInv
<1>14. QED
  BY <1>1, <1>13, InvNext

LEMMA natfilterEndStep ==
  ASSUME IInv, NEW retval \in BOOLEAN, natfilterEnd(retval)
  PROVE  IInv'
<1>1. /\ stack # <<>> /\ Top.kind = "natfilter" /\ g' = g
      /\ g_CallFunc_Plugin' \in Plugins \union {NULL}
  BY DEF natfilterEnd, Ends, At, IInv
<1>2. /\ stack \in Seq(StackFrame) /\ amx \in [Plugins -> Handler] /\ g \in Context
      /\ Len(stack) \in Nat \ {0} /\ Top = stack[Len(stack)] /\ Top.amx \in Plugins
  BY <1>1, TopFrame
<1>3. PICK p \in Plugins : p = Top.amx
  BY <1>2
<1>4. PICK e : e = IF Top.err = "logged" THEN amx ELSE EndExec(amx, p)
  OBVIOUS
<1>5. /\ Touches(amx, e, p)
      /\ p \notin Debug => e[p].m_Top = amx[p].m_Top
  <2>1. CASE Top.err = "logged"
    BY <1>2, <1>4, <2>1, QuietSelf DEF Quiet
  <2>2. CASE Top.err # "logged"
    BY <1>2, <1>4, <2>2, EndExecEffect DEF Closed
  <2>3. QED
    BY <2>1, <2>2
<1>6. e \in [Plugins -> Handler]
  BY <1>5 DEF Touches
<1>7. amx' = WithFilter(e, p, FALSE)
  BY <1>3, <1>4 DEF natfilterEnd, FilterLeft, WithFilter
<1>8. Flagged(e, amx', p) /\ ~ amx'[p].m_InNativeFilter
  BY <1>6, <1>7, WithFilterEffect
<1>9. /\ p \in NativeFilter /\ Len(stack) > 1
      /\ stack[Len(stack) - 1].amx = p /\ stack[Len(stack) - 1].pc = "native"
  <2>1. FrameShape(stack, Len(stack))
    BY <1>2 DEF IInv, Inv, Shape
  <2>2. QED
    BY <1>1, <1>2, <1>3, <2>1 DEF FrameShape
<1>10. Left(amx, amx', Top)
  <2>1. amx' \in [Plugins -> Handler] /\ \A q \in Plugins : q # p => amx'[q] = amx[q]
    BY <1>5, <1>8 DEF Flagged, Touches
  <2>2. amx'[p].m_Handling = amx[p].m_Handling
    BY <1>5, <1>8, Zenon DEF Flagged, Touches
  <2>3. p \notin Debug => amx'[p].m_Top = amx[p].m_Top
    BY <1>5, <1>8 DEF Flagged
  <2>4. QED
    BY <1>1, <1>3, <1>8, <1>9, <2>1, <2>2, <2>3 DEF Left
<1>11. PICK t : t = Pop
  OBVIOUS
<1>12. Popped(stack, t)
  BY <1>2, <1>9, <1>11, FrontPopped DEF Pop
<1>13. SameContext(g, g)
  BY <1>2, SameContextSelf
<1>14. Inv(t, amx', g)
  BY <1>1, <1>2, <1>10, <1>12, <1>13, PopInv DEF IInv
<1>15. CASE retval
  <2>1. stack' = t
    BY <1>11, <1>15 DEF natfilterEnd
  <2>2. QED
    BY <1>1, <1>14, <2>1, InvNext
<1>16. CASE ~ retval
  <2>1. stack' = Goto(t, "invalid")
    BY <1>11, <1>16 DEF natfilterEnd
  <2>2. /\ t \in Seq(StackFrame) /\ Len(t) = Len(stack) - 1 /\ Len(t) > 0
        /\ t[Len(t)] = stack[Len(stack) - 1]
    BY <1>2, <1>9, <1>12 DEF Popped
  <2>3. "invalid" \in Pcs
    BY DEF Pcs
  <2>4. PICK u : u = Goto(t, "invalid")
    OBVIOUS
  <2>5. Turned(t, u) /\ u[Len(t)].pc = "invalid"
    BY <2>2, <2>3, <2>4, GotoTurned
  <2>6. Move(t[Len(t)], u[Len(t)], amx', amx')
    BY <1>9, <2>2, <2>5 DEF Move
  <2>7. Quiet(amx', amx', t[Len(t)].amx)
    <3>1. amx' \in [Plugins -> Handler]
      BY <1>8 DEF Flagged
    <3>2. QED
      BY <1>9, <2>2, <3>1, QuietSelf
  <2>8. Inv(u, amx', g)
    BY <1>13, <1>14, <2>5, <2>6, <2>7, TurnInv
  <2>9. QED
    BY <1>1, <2>1, <2>4, <2>8, InvNext
<1>17. QED
  BY <1>15, <1>16

-----------------------------------------------------------------------------
(* The host.                                                                 *)

LEMMA HostStarts ==
  ASSUME IInv, stack = <<>>, NEW f \in StackFrame, f.kind = "forward", f.pc = "run",
         Entered(amx, amx', f), stack' = <<f>>, UNCHANGED <<g, g_CallFunc_Plugin>>
  PROVE  IInv'
<1>1. PICK s : s = stack
  OBVIOUS
<1>2. /\ s \in Seq(StackFrame) /\ Len(s) = 0 /\ Inv(s, amx, g) /\ g \in Context
  BY <1>1 DEF IInv, Inv, Typed
<1>3. PICK t : t = Append(s, f)
  OBVIOUS
<1>4. stack' = t
  BY <1>1, <1>3
<1>5. Pushed(s, t, f)
  BY <1>2, <1>3, PushedAppend
<1>6. NewFrame(s, f)
  BY DEF NewFrame
<1>7. SameContext(g, g)
  BY <1>2, SameContextSelf
<1>8. ~ (Len(s) > 0) /\ Len(s) <= MaxDepth
  BY <1>2, PluginAssumption
<1>9. Inv(t, amx', g)
  BY <1>2, <1>5, <1>6, <1>7, <1>8, PushInv
<1>10. QED
  BY <1>4, <1>9, InvNext DEF IInv

LEMMA HostForwardStep ==
  ASSUME IInv, NEW q \in Plugins, HostForward(q)
  PROVE  IInv'
<1>1. /\ stack = <<>> /\ stack' = <<Frame("forward", q)>> /\ amx' = BeginExec(amx, q)
      /\ UNCHANGED <<g, g_CallFunc_Plugin>>
  BY DEF HostForward
<1>2. PICK f : f = Frame("forward", q)
  OBVIOUS
<1>3. f \in StackFrame /\ f.kind = "forward" /\ f.amx = q /\ f.pc = "run"
  BY <1>2, FrameFields
<1>4. amx \in [Plugins -> Handler]
  BY DEF IInv, Inv, Typed
<1>5. Entered(amx, amx', f)
  BY <1>1, <1>3, <1>4, EnteredBegin
<1>6. QED
  BY <1>1, <1>2, <1>3, <1>5, HostStarts

LEMMA pausePluginStep ==
  ASSUME IInv, NEW q \in Plugins, pausePlugin(q)
  PROVE  IInv'
<1>1. /\ stack = <<>> /\ stack' = <<[Frame("forward", q) EXCEPT !.pausing = TRUE]>>
      /\ amx' = BeginExec(amx, q) /\ UNCHANGED <<g, g_CallFunc_Plugin>>
  BY DEF pausePlugin
<1>2. PICK e : e = Frame("forward", q)
  OBVIOUS
<1>3. e \in StackFrame /\ e.kind = "forward" /\ e.amx = q /\ e.pc = "run"
  BY <1>2, FrameFields
<1>4. PICK f : f = [e EXCEPT !.pausing = TRUE]
  OBVIOUS
<1>5. f \in StackFrame /\ f.kind = "forward" /\ f.amx = q /\ f.pc = "run"
  BY <1>3, <1>4 DEF StackFrame
<1>6. amx \in [Plugins -> Handler]
  BY DEF IInv, Inv, Typed
<1>7. Entered(amx, amx', f)
  BY <1>1, <1>5, <1>6, EnteredBegin
<1>8. QED
  BY <1>1, <1>2, <1>4, <1>5, <1>7, HostStarts

LEMMA unpausePluginStep ==
  ASSUME IInv, NEW q \in Plugins, unpausePlugin(q)
  PROVE  IInv'
<1>1. /\ stack = <<>> /\ stack' = <<Frame("forward", q)>>
      /\ amx' = BeginExec(WithStatus(amx, q, "running"), q) /\ UNCHANGED <<g, g_CallFunc_Plugin>>
  BY DEF unpausePlugin, WithStatus
<1>2. PICK f : f = Frame("forward", q)
  OBVIOUS
<1>3. f \in StackFrame /\ f.kind = "forward" /\ f.amx = q /\ f.pc = "run"
  BY <1>2, FrameFields
<1>4. amx \in [Plugins -> Handler]
  BY DEF IInv, Inv, Typed
<1>5. PICK u : u = WithStatus(amx, q, "running")
  OBVIOUS
<1>6. /\ Traced(amx, u, q) /\ u[q].error = amx[q].error /\ u[q].m_Error = amx[q].m_Error
  BY <1>4, <1>5, SetStatusEffect
<1>7. u \in [Plugins -> Handler]
  BY <1>6 DEF Traced, Touches
<1>8. PICK r : r = BeginExec(u, q)
  OBVIOUS
<1>9. Opened(u, r, q)
  BY <1>7, <1>8, BeginExecEffect
<1>10. Entered(amx, r, f)
  <2>1. r \in [Plugins -> Handler] /\ \A p \in Plugins : p # q => r[p] = amx[p]
    BY <1>6, <1>9 DEF Opened, Traced, Touches
  <2>2. r[q].m_Handling = amx[q].m_Handling /\ r[q].m_InNativeFilter = amx[q].m_InNativeFilter
    BY <1>6, <1>9, Zenon DEF Opened, Traced, Touches
  <2>3. r[q].error = amx[q].error
    BY <1>6, <1>9 DEF Opened
  <2>4. Tracer(amx, r, q)
    BY <1>6, <1>9 DEF Opened, Traced, Tracer
  <2>5. QED
    BY <1>3, <2>1, <2>2, <2>3, <2>4 DEF Entered
<1>11. amx' = r
  BY <1>1, <1>5, <1>8
<1>12. Entered(amx, amx', f)
  BY <1>10, <1>11
<1>13. QED
  BY <1>1, <1>2, <1>3, <1>12, HostStarts

-----------------------------------------------------------------------------
(* The invariant.                                                            *)

LEMMA InvInit ==
  ASSUME Init
  PROVE  IInv
<1>1. PICK h : h = [error |-> "none", status |-> "running",
                    m_Top |-> -1, m_Error |-> [l \in Levels |-> "none"],
                    m_Handling |-> FALSE, m_InNativeFilter |-> FALSE]
  OBVIOUS
<1>2. /\ stack = <<>> /\ amx = [p \in Plugins |-> h] /\ g_CallFunc_Plugin = NULL
      /\ g = [native |-> NULL, caller |-> NULL, params |-> NULL, error |-> "none"]
  BY <1>1 DEF Init
<1>3. h \in Handler /\ h.m_Top = -1 /\ ~ h.m_Handling /\ ~ h.m_InNativeFilter
  BY <1>1 DEF Handler, Error
<1>4. /\ stack \in Seq(StackFrame) /\ Len(stack) = 0
      /\ amx \in [Plugins -> Handler] /\ \A p \in Plugins : amx[p] = h
  BY <1>2, <1>3
<1>5. g \in Context /\ g.native = NULL /\ g.caller = NULL
  BY <1>2 DEF Context
<1>6. 1..Len(stack) = {}
  BY <1>4
<1>7. Typed(stack, amx, g) /\ Shape(stack) /\ Placed(stack) /\ Traces(stack, amx)
  BY <1>4, <1>5, <1>6 DEF Typed, Shape, Placed, Traces
<1>8. Contexts(stack, g)
  BY <1>5, <1>6 DEF Contexts, ContextOf, Nested
<1>9. Flags(stack, amx)
  BY <1>3, <1>4, <1>6 DEF Flags
<1>10. Bounded(stack, amx)
  <2>1. HandlingIn(amx) = {}
    BY <1>3, <1>4 DEF HandlingIn
  <2>2. Cardinality(HandlingIn(amx)) = 0
    BY <2>1, FS_EmptySet
  <2>3. QED
    BY <1>4, <2>2, PluginAssumption DEF Bounded
<1>11. Balanced(stack, amx)
  <2>1. \A p : {j \in 1..Len(stack) : stack[j].amx = p} = {}
    BY <1>6
  <2>2. \A p : Level(stack, p, Len(stack)) = 0
    BY <2>1, FS_EmptySet DEF Level
  <2>3. QED
    BY <1>3, <1>4, <2>2, PluginAssumption DEF Balanced
<1>12. QED
  BY <1>2, <1>7, <1>8, <1>9, <1>10, <1>11 DEF IInv, Inv

LEMMA InvStep ==
  ASSUME IInv, [Next]_vars
  PROVE  IInv'
<1>1. CASE PluginStep
  <2>1. CASE NativeError
    BY <2>1, NativeErrorStep
  <2>2. CASE log_error
    BY <2>2, log_errorStep
  <2>3. CASE set_fail_state
    BY <2>3, set_fail_stateStep
  <2>4. ASSUME NEW q \in Plugins, ExecuteForward(q) PROVE IInv'
    BY <2>4, ExecuteForwardStep
  <2>5. ASSUME NEW q \in Plugins, callfunc_begin(q) PROVE IInv'
    BY <2>5, callfunc_beginStep
  <2>6. CASE callfunc_end
    BY <2>6, callfunc_endStep
  <2>7. ASSUME NEW n \in Natives, NEW args \in Args, amxx_DynaCallback(n, args) PROVE IInv'
    BY <2>7, DynaCallbackStep
  <2>8. ASSUME NEW n \in Natives, amxx_DynaCallbackPaused(n) PROVE IInv'
    BY <2>8, DynaCallbackPausedStep
  <2>9. CASE invalid_native
    BY <2>9, invalid_nativeStep
  <2>10. ASSUME NEW err \in {"none", "error"}, amx_Exec(err) PROVE IInv'
    BY <2>10, amx_ExecStep
  <2>11. QED
    BY <1>1, <2>1, <2>2, <2>3, <2>4, <2>5, <2>6, <2>7, <2>8, <2>9, <2>10 DEF PluginStep
<1>2. CASE CoreStep
  <2>1. CASE amx_Callback
    BY <2>1, amx_CallbackStep
  <2>2. CASE amxx_DynaCallbackRefused
    BY <2>2, DynaCallbackRefusedStep
  <2>3. CASE invalid_nativeUnhandled
    BY <2>3, invalid_nativeUnhandledStep
  <2>4. CASE forwardReturned
    BY <2>4, forwardReturnedStep
  <2>5. CASE forwardEnd
    BY <2>5, forwardEndStep
  <2>6. CASE dynaReturned
    BY <2>6, dynaReturnedStep
  <2>7. CASE dynaUnhandled
    BY <2>7, dynaUnhandledStep
  <2>8. CASE dynaEnd
    BY <2>8, dynaEndStep
  <2>9. CASE callfuncReturned
    BY <2>9, callfuncReturnedStep
  <2>10. CASE callfuncEnd
    BY <2>10, callfuncEndStep
  <2>11. CASE errfilterReturned
    BY <2>11, errfilterReturnedStep
  <2>12. CASE natfilterReturned
    BY <2>12, natfilterReturnedStep
  <2>13. ASSUME NEW retval \in BOOLEAN, natfilterEnd(retval) PROVE IInv'
    BY <2>13, natfilterEndStep
  <2>14. QED
    BY <1>2, <2>1, <2>2, <2>3, <2>4, <2>5, <2>6, <2>7, <2>8, <2>9, <2>10, <2>11, <2>12, <2>13
       DEF CoreStep
<1>3. CASE UNCHANGED vars
  BY <1>3 DEF vars, IInv
<1>4. ASSUME NEW q \in Plugins, HostForward(q) PROVE IInv'
  BY <1>4, HostForwardStep
<1>5. ASSUME NEW q \in Plugins, HostForwardRefused(q) PROVE IInv'
  BY <1>5, <1>3 DEF HostForwardRefused
<1>6. ASSUME NEW q \in Plugins, pausePlugin(q) PROVE IInv'
  BY <1>6, pausePluginStep
<1>7. ASSUME NEW q \in Plugins, unpausePlugin(q) PROVE IInv'
  BY <1>7, unpausePluginStep
<1>8. QED
  BY <1>1, <1>2, <1>3, <1>4, <1>5, <1>6, <1>7 DEF Next

LEMMA Invariant == Spec => []IInv
<1>1. Init => IInv
  BY InvInit
<1>2. IInv /\ [Next]_vars => IInv'
  BY InvStep
<1>3. QED
  BY <1>1, <1>2, PTL DEF Spec

-----------------------------------------------------------------------------
(* The properties.                                                           *)

LEMMA StackDomain ==
  ASSUME IInv
  PROVE  /\ stack \in Seq(StackFrame) /\ amx \in [Plugins -> Handler] /\ g \in Context
         /\ Len(stack) \in Nat /\ DOMAIN stack = 1..Len(stack)
  BY DEF IInv, Inv, Typed

LEMMA DynContextHolds ==
  ASSUME IInv
  PROVE  DynContext
<1>1. DOMAIN stack = 1..Len(stack) /\ Len(stack) \in Nat
  BY StackDomain
<1>2. PICK dyna : dyna = {i \in 1..Len(stack) : stack[i].kind = "dyna"}
  OBVIOUS
<1>3. ContextOf(stack, g, Len(stack))
  BY DEF IInv, Inv, Contexts
<1>4. CASE dyna = {}
  <2>1. \A i \in 1..Len(stack) : stack[i].kind # "dyna"
    BY <1>2, <1>4
  <2>2. g.native = NULL /\ g.caller = NULL
    BY <1>3, <2>1 DEF ContextOf
  <2>3. QED
    BY <1>1, <1>2, <1>4, <2>2 DEF DynContext
<1>5. CASE dyna # {}
  <2>1. PICK i \in 1..Len(stack) :
          /\ stack[i].kind = "dyna"
          /\ \A j \in 1..Len(stack) : j > i => stack[j].kind # "dyna"
          /\ g.native = stack[i].native /\ g.caller = stack[i-1].amx /\ g.params = stack[i].args
    BY <1>2, <1>3, <1>5 DEF ContextOf
  <2>2. Max(dyna) = i
    <3>1. i \in dyna /\ \A y \in dyna : i >= y
      BY <1>1, <1>2, <2>1
    <3>2. \A x \in dyna : (\A y \in dyna : x >= y) => x = i
      BY <1>1, <1>2, <3>1
    <3>3. QED
      BY <3>1, <3>2 DEF Max
  <2>3. QED
    BY <1>1, <1>2, <1>5, <2>1, <2>2 DEF DynContext
<1>6. QED
  BY <1>4, <1>5

LEMMA FilterFlagsHolds ==
  ASSUME IInv
  PROVE  FilterFlags
<1>1. DOMAIN stack = 1..Len(stack) /\ amx \in [Plugins -> Handler]
  BY StackDomain
<1>2. Flags(stack, amx)
  BY DEF IInv, Inv
<1>3. SUFFICES ASSUME NEW p \in Plugins
               PROVE  /\ Cardinality({i \in Indices(p) : stack[i].kind = "errfilter"})
                           = IF amx[p].m_Handling THEN 1 ELSE 0
                      /\ amx[p].m_InNativeFilter =>
                           \E i \in Indices(p) : stack[i].kind = "natfilter"
  BY DEF FilterFlags
<1>4. PICK S : S = {i \in 1..Len(stack) : Filters(stack, i, p)}
  OBVIOUS
<1>5. {i \in Indices(p) : stack[i].kind = "errfilter"} = S
  BY <1>1, <1>4 DEF Indices, Filters
<1>6. amx[p].m_InNativeFilter => \E i \in Indices(p) : stack[i].kind = "natfilter"
  BY <1>1, <1>2 DEF Flags, Indices
<1>7. CASE amx[p].m_Handling
  <2>1. PICK i \in 1..Len(stack) : Filters(stack, i, p)
    BY <1>2, <1>7 DEF Flags
  <2>2. \A j \in S : j = i
    BY <1>2, <1>4, <2>1 DEF Flags, Filters
  <2>3. S = {i}
    BY <1>4, <2>1, <2>2
  <2>4. Cardinality(S) = 1
    BY <2>3, FS_Singleton
  <2>5. QED
    BY <1>5, <1>6, <1>7, <2>4
<1>8. CASE ~ amx[p].m_Handling
  <2>1. S = {}
    BY <1>2, <1>4, <1>8 DEF Flags, Filters
  <2>2. Cardinality(S) = 0
    BY <2>1, FS_EmptySet
  <2>3. QED
    BY <1>5, <1>6, <1>8, <2>2
<1>9. QED
  BY <1>7, <1>8

LEMMA DebugBalancedHolds ==
  ASSUME IInv
  PROVE  DebugBalanced
<1>1. \A p : Indices(p) = {j \in 1..Len(stack) : stack[j].amx = p}
  BY StackDomain DEF Indices
<1>2. Balanced(stack, amx)
  BY DEF IInv, Inv
<1>3. QED
  BY <1>1, <1>2 DEF Balanced, Level, DebugBalanced

LEMMA NoStaleTraceHolds ==
  ASSUME IInv
  PROVE  NoStaleTrace
<1>1. DOMAIN stack = 1..Len(stack) /\ Len(stack) \in Nat
  BY StackDomain
<1>2. SUFFICES ASSUME NEW p \in Debug \ NativeFilter, NEW i \in Indices(p),
                      amx[p].m_Error[Cardinality({j \in Indices(p) : j < i})] # "none"
               PROVE  stack[i].pc # "run"
  BY DEF NoStaleTrace
<1>3. i \in 1..Len(stack) /\ stack[i].amx = p
  BY <1>1 DEF Indices
<1>4. {j \in Indices(p) : j < i} = {j \in 1..(i - 1) : stack[j].amx = p}
  BY <1>1, <1>3 DEF Indices
<1>5. Failed(stack, amx, i)
  BY <1>2, <1>3, <1>4 DEF Failed, Level
<1>6. stack[i].pc \in Ending \/ stack[i].pc \in {"native", "refused"}
  BY <1>3, <1>5 DEF IInv, Inv, Traces
<1>7. QED
  BY <1>6 DEF Ending

LEMMA TypeOKHolds ==
  ASSUME IInv
  PROVE  TypeOK
<1>1. /\ stack \in Seq(StackFrame) /\ amx \in [Plugins -> Handler] /\ g \in Context
      /\ Len(stack) \in Nat
  BY StackDomain
<1>2. Typed(stack, amx, g) /\ Bounded(stack, amx) /\ Balanced(stack, amx)
  BY DEF IInv, Inv
<1>3. ASSUME NEW p \in Plugins \ (Debug \intersect NativeFilter)
      PROVE  amx[p].m_Top \in {-1} \union Levels
  <2>1. CASE p \notin Debug
    BY <1>2, <2>1 DEF Balanced
  <2>2. CASE p \in Debug
    <3>1. amx[p].m_Top + 1 = Level(stack, p, Len(stack)) /\ amx[p].m_Top \in Int
      BY <1>1, <1>2, <2>2 DEF Balanced, Handler
    <3>2. Level(stack, p, Len(stack)) \in 0..Len(stack)
      BY <1>1, LevelNat
    <3>3. Cardinality(HandlingIn(amx)) <= Cardinality(Plugins)
      BY PluginAssumption, FS_Subset DEF HandlingIn
    <3>4. Cardinality(HandlingIn(amx)) \in Nat /\ Cardinality(Plugins) \in Nat
      <4>1. HandlingIn(amx) \in SUBSET Plugins
        BY DEF HandlingIn
      <4>2. QED
        BY <4>1, PluginAssumption, FS_Subset, FS_CardinalityType
    <3>5. Len(stack) <= MaxDepth + 1 + Cardinality(Plugins)
      BY <1>1, <1>2, <3>3, <3>4, PluginAssumption DEF Bounded
    <3>6. QED
      BY <1>1, <3>1, <3>2, <3>4, <3>5, PluginAssumption DEF Levels
  <2>3. QED
    BY <2>1, <2>2
<1>4. g_CallFunc_Plugin \in Plugins \union {NULL}
  BY DEF IInv
<1>5. QED
  BY <1>1, <1>3, <1>4 DEF TypeOK, StackFrame, Handler

(* Whatever runs and fails in between, get_param and the other natives of a  *)
(* dynamic native read the native, the caller and the parameters of the      *)
(* innermost one that has not returned: what amxx_DynaCallback saves in its   *)
(* locals and restores is always the context of the one around it.           *)
THEOREM DynContextKept == Spec => []DynContext
<1>1. IInv => DynContext
  BY DynContextHolds
<1>2. QED
  BY <1>1, Invariant, PTL

(* HandleError runs a plugin's error filter at most once at a time and        *)
(* m_Handling says exactly when; m_InNativeFilter is set only while a native  *)
(* filter of the plugin runs.                                                *)
THEOREM FilterFlagsSound == Spec => []FilterFlags
<1>1. IInv => FilterFlags
  BY FilterFlagsHolds
<1>2. QED
  BY <1>1, Invariant, PTL

(* In a plugin without a native filter BeginExec and EndExec pair up on       *)
(* every path, those of failed executions and of LogError included: the       *)
(* debugger has one tracer for each execution on the stack.                  *)
THEOREM TracersBalanced == Spec => []DebugBalanced
<1>1. IInv => DebugBalanced
  BY DebugBalancedHolds
<1>2. QED
  BY <1>1, Invariant, PTL

(* An execution whose tracer has an error never runs plugin code again, so    *)
(* ErrorExists, asked after amx_Exec, never finds an error that was already   *)
(* dealt with and hides a later one.                                         *)
THEOREM TracesFresh == Spec => []NoStaleTrace
<1>1. IInv => NoStaleTrace
  BY NoStaleTraceHolds
<1>2. QED
  BY <1>1, Invariant, PTL

(* Stack, codes, flags and context stay what the code can hold, and the       *)
(* tracers of a plugin without a native filter within one for each execution  *)
(* of the bounded stack.  Where a plugin has both, LogError and HandleNative  *)
(* each close a level, and only m_Top being an int is left.                   *)
THEOREM CallsTyped == Spec => []TypeOK
<1>1. IInv => TypeOK
  BY TypeOKHolds
<1>2. QED
  BY <1>1, Invariant, PTL
=============================================================================
