---------------------------- MODULE PluginCalls -----------------------------
(***************************************************************************)
(* Nested executions of plugin code and their errors: forwards              *)
(* (CForward.cpp), dynamic natives (natives.cpp), callfunc (amxmodx.cpp),   *)
(* error and native filters (debugger.cpp) and LogError (modules.cpp).      *)
(*                                                                         *)
(* A frame is one call of amx_Exec and the C++ function that made it.  Its  *)
(* pc is "run" while plugin code runs, "native" while amx_Callback waits     *)
(* for a native, and otherwise the place in the function after amx_Exec.    *)
(* An error code is none, error (any positive AMX_ERR) or logged (-1, what  *)
(* LogError leaves behind).                                                 *)
(***************************************************************************)
EXTENDS Integers, Sequences, FiniteSets, SequencesExt, FiniteSetsExt

CONSTANTS
  Plugins,
  Debug,         \* plugins with a debugger
  ErrorFilter,   \* plugins with an error filter that is not their first public
  NativeFilter,  \* plugins with a native filter; they have natives nobody provides
  Natives,       \* dynamic natives, of style 0
  Home,          \* the plugin that registered a native
  Args,          \* values of g_Params
  MaxDepth,      \* bound: nested executions, error filters not counted
  NULL

ASSUME PluginAssumption ==
  /\ IsFiniteSet(Plugins)
  /\ Debug \subseteq Plugins /\ ErrorFilter \subseteq Plugins /\ NativeFilter \subseteq Plugins
  /\ Home \in [Natives -> Plugins]
  /\ NULL \notin Plugins /\ NULL \notin Natives
  /\ MaxDepth \in Nat

VARIABLES
  stack,   \* the frames, innermost last
  amx,     \* of each plugin: amx->error, status, its Debugger and its Handler
  g,       \* g_pCurNative, g_pCaller, g_Params, g_CurError
  g_CallFunc_Plugin

vars == <<stack, amx, g, g_CallFunc_Plugin>>

Levels == 0..(MaxDepth + Cardinality(Plugins))

Init ==
  /\ stack = <<>>
  /\ amx = [p \in Plugins |->
              [error |-> "none", status |-> "running",
               m_Top |-> -1, m_Error |-> [l \in Levels |-> "none"],
               m_Handling |-> FALSE, m_InNativeFilter |-> FALSE]]
  /\ g = [native |-> NULL, caller |-> NULL, params |-> NULL, error |-> "none"]
  /\ g_CallFunc_Plugin = NULL

isExecutable(p) == amx[p].status = "running"

(***************************************************************************)
(* The Debugger of a plugin, if it has one: one tracer for each execution.  *)
(* The operators take and return a value of amx.                            *)
(***************************************************************************)
BeginExec(m, p) ==
  IF p \notin Debug THEN m
  ELSE [m EXCEPT ![p].m_Top = @ + 1, ![p].m_Error[m[p].m_Top + 1] = "none"]

EndExec(m, p) ==
  IF p \notin Debug THEN m
  ELSE [m EXCEPT ![p].m_Top = @ - 1, ![p].m_Error[m[p].m_Top] = "none"]

SetTracedError(m, p) ==
  IF p \notin Debug THEN m ELSE [m EXCEPT ![p].m_Error[m[p].m_Top] = "error"]

ErrorExists(m, p) == p \in Debug /\ m[p].m_Error[m[p].m_Top] # "none"

(***************************************************************************)
(* Frames.                                                                  *)
(***************************************************************************)
Frame(kind, p) == [kind |-> kind, amx |-> p, pc |-> "run", err |-> "none",
                   native |-> NULL, args |-> NULL, saved |-> NULL, pausing |-> FALSE]

Top == Last(stack)
Caller == stack[Len(stack) - 1].amx
At(pc) == stack # <<>> /\ Top.pc = pc
Goto(st, pc) == [st EXCEPT ![Len(st)].pc = pc]
Pop == Front(stack)

(***************************************************************************)
(* LogError for plugin p, from the function of the innermost frame.  In a    *)
(* native filter the tracer is given back at once; in an error filter only   *)
(* the code is left in amx->error; a plugin with an error filter runs it in  *)
(* HandleError, and the rest of LogError is errfilterReturned.               *)
(***************************************************************************)
Report(m, p) == [SetTracedError(m, p) EXCEPT ![p].error = "logged"]

LogError(st, m, p) ==
  LET m1 == [m EXCEPT ![p].error = "error"]
  IN CASE m1[p].m_InNativeFilter ->
            [stack |-> st, amx |-> Report(EndExec(m1, p), p)]
       [] ~m1[p].m_InNativeFilter /\ m1[p].m_Handling ->
            [stack |-> st, amx |-> m1]
       [] ~m1[p].m_InNativeFilter /\ ~m1[p].m_Handling /\ p \in ErrorFilter ->
            [stack |-> Append(st, Frame("errfilter", p)),
             amx |-> BeginExec([SetTracedError(m1, p) EXCEPT ![p].m_Handling = TRUE], p)]
       [] OTHER ->
            [stack |-> st, amx |-> Report(m1, p)]

Become(r) == stack' = r.stack /\ amx' = r.amx

(***************************************************************************)
(* Natives.  amx_Callback clears amx->error and calls the native; when it   *)
(* is back, an error ends the execution.                                    *)
(***************************************************************************)
InNative == Goto(stack, "native")
Cleared == [amx EXCEPT ![Top.amx].error = "none"]

(* Fault: an error that is logged already lets the plugin go on. *)
amx_Callback_Fault ==
  /\ At("native")
  /\ stack' = IF amx[Top.amx].error # "error" THEN Goto(stack, "run")
              ELSE [stack EXCEPT ![Len(stack)].pc = "returned", ![Len(stack)].err = "error"]
  /\ UNCHANGED <<amx, g, g_CallFunc_Plugin>>

amx_Callback ==
  /\ At("native")
  /\ stack' = IF amx[Top.amx].error = "none" THEN Goto(stack, "run")
              ELSE [stack EXCEPT ![Len(stack)].pc = "returned",
                                 ![Len(stack)].err = amx[Top.amx].error]
  /\ UNCHANGED <<amx, g, g_CallFunc_Plugin>>

\* Any native that finds something wrong, get_param outside its native included.
NativeError ==
  /\ At("run")
  /\ Become(LogError(InNative, Cleared, Top.amx))
  /\ UNCHANGED <<g, g_CallFunc_Plugin>>

\* log_error does not ask who calls it.
log_error ==
  /\ At("run")
  /\ g' = [g EXCEPT !.error = "error"]
  /\ stack' = InNative /\ amx' = Cleared
  /\ UNCHANGED g_CallFunc_Plugin

set_fail_state ==
  /\ At("run")
  /\ Become(LogError(InNative, [Cleared EXCEPT ![Top.amx].status = "error"], Top.amx))
  /\ UNCHANGED <<g, g_CallFunc_Plugin>>

\* ExecuteForward and every native that runs a callback.
ExecuteForward(q) ==
  /\ At("run") /\ Len(stack) < MaxDepth /\ isExecutable(q)
  /\ stack' = Append(InNative, Frame("forward", q))
  /\ amx' = BeginExec(Cleared, q)
  /\ UNCHANGED <<g, g_CallFunc_Plugin>>

amxx_DynaCallback(n, args) ==
  LET q == Home[n] p == Top.amx
  IN /\ At("run") /\ Len(stack) < MaxDepth /\ isExecutable(q)
     /\ stack' = Append(InNative, [Frame("dyna", q) EXCEPT !.native = n, !.args = args, !.saved = g])
     /\ amx' = BeginExec(Cleared, q)
     /\ g' = [native |-> n, caller |-> p, params |-> args, error |-> "none"]
     /\ UNCHANGED g_CallFunc_Plugin

\* "Called dynanative into a paused plugin."
amxx_DynaCallbackPaused(n) ==
  /\ At("run") /\ ~isExecutable(Home[n])
  /\ Become(LogError(Goto(stack, "refused"), Cleared, Top.amx))
  /\ UNCHANGED <<g, g_CallFunc_Plugin>>

\* The caller is paused when LogError and its filter are done.
amxx_DynaCallbackRefused ==
  /\ At("refused")
  /\ stack' = InNative
  /\ amx' = [amx EXCEPT ![Top.amx].status = "paused"]
  /\ UNCHANGED <<g, g_CallFunc_Plugin>>

\* callfunc_begin, which does not ask whether the plugin is paused.
callfunc_begin(q) ==
  /\ At("run")
  /\ IF g_CallFunc_Plugin # NULL
     THEN Become(LogError(InNative, Cleared, Top.amx)) /\ UNCHANGED g_CallFunc_Plugin
     ELSE g_CallFunc_Plugin' = q /\ stack' = InNative /\ amx' = Cleared
  /\ UNCHANGED g

(* Fault: no test that there was a callfunc_begin. *)
callfunc_end_Fault ==
  /\ At("run") /\ Len(stack) < MaxDepth
  /\ stack' = Append(InNative, Frame("callfunc", g_CallFunc_Plugin))
  /\ amx' = BeginExec(Cleared, g_CallFunc_Plugin)
  /\ g_CallFunc_Plugin' = NULL
  /\ UNCHANGED g

callfunc_end ==
  /\ At("run") /\ Len(stack) < MaxDepth
  /\ IF g_CallFunc_Plugin = NULL
     THEN Become(LogError(InNative, Cleared, Top.amx))
     ELSE /\ stack' = Append(InNative, Frame("callfunc", g_CallFunc_Plugin))
          /\ amx' = BeginExec(Cleared, g_CallFunc_Plugin)
  /\ g_CallFunc_Plugin' = NULL
  /\ UNCHANGED g

\* invalid_native and HandleNative up to amx_Exec.
invalid_native ==
  LET p == Top.amx
  IN /\ At("run") /\ Len(stack) < MaxDepth /\ p \in NativeFilter
     /\ stack' = Append(InNative, Frame("natfilter", p))
     /\ amx' = BeginExec([Cleared EXCEPT ![p].m_InNativeFilter = TRUE], p)
     /\ UNCHANGED <<g, g_CallFunc_Plugin>>

\* The filter returned 0.
invalid_nativeUnhandled ==
  /\ At("invalid")
  /\ Become(LogError(InNative, amx, Top.amx))
  /\ UNCHANGED <<g, g_CallFunc_Plugin>>

(***************************************************************************)
(* amx_Exec ends, in a return or in a run-time error nobody has logged.     *)
(***************************************************************************)
amx_Exec(err) ==
  /\ At("run")
  /\ stack' = [stack EXCEPT ![Len(stack)].pc = "returned", ![Len(stack)].err = err]
  /\ UNCHANGED <<amx, g, g_CallFunc_Plugin>>

Returned(kind) == At("returned") /\ Top.kind = kind
Ends(kind) == At("end") /\ Top.kind = kind

\* CForward::execute and CSPForward::execute after amx_Exec.
forwardReturned ==
  /\ Returned("forward")
  /\ IF Top.err = "error" /\ ~ErrorExists(amx, Top.amx)
     THEN Become(LogError(Goto(stack, "end"), amx, Top.amx))
     ELSE stack' = Goto(stack, "end") /\ UNCHANGED amx
  /\ UNCHANGED <<g, g_CallFunc_Plugin>>

\* For plugin_pause, pausePlugin then sets the status, whatever it is by now.
forwardEnd ==
  /\ Ends("forward")
  /\ stack' = Pop
  /\ amx' = [EndExec(amx, Top.amx) EXCEPT
               ![Top.amx].error = "none",
               ![Top.amx].status = IF Top.pausing THEN "paused" ELSE @]
  /\ UNCHANGED <<g, g_CallFunc_Plugin>>

\* The error is the native's plugin's first, then the caller's.
dynaReturned ==
  /\ Returned("dyna")
  /\ IF Top.err = "error" /\ ~ErrorExists(amx, Top.amx)
     THEN Become(LogError(Goto(stack, "unhandled"), amx, Top.amx))
     ELSE IF Top.err # "none" THEN stack' = Goto(stack, "unhandled") /\ UNCHANGED amx
     ELSE IF g.error # "none" THEN Become(LogError(Goto(stack, "end"), amx, Caller))
     ELSE stack' = Goto(stack, "end") /\ UNCHANGED amx
  /\ UNCHANGED <<g, g_CallFunc_Plugin>>

dynaUnhandled ==
  /\ At("unhandled")
  /\ Become(LogError(Goto(stack, "end"), [amx EXCEPT ![Top.amx].error = "none"], Caller))
  /\ UNCHANGED <<g, g_CallFunc_Plugin>>

(* Fault: the caller is left as it is. *)
Restored_Fault(saved) ==
  [saved EXCEPT !.caller = g.caller, !.params = IF saved.native = NULL THEN g.params ELSE @]

\* g_Params is saved and restored only inside another dynamic native.
Restored(saved) == [saved EXCEPT !.params = IF saved.native = NULL THEN g.params ELSE @]

dynaEnd ==
  /\ Ends("dyna")
  /\ stack' = Pop
  /\ amx' = EndExec(amx, Top.amx)
  /\ g' = Restored(Top.saved)
  /\ UNCHANGED g_CallFunc_Plugin

\* callfunc_end after amx_Exec: the error is logged for the caller.
callfuncReturned ==
  /\ Returned("callfunc")
  /\ IF Top.err # "none" /\ ~ErrorExists(amx, Top.amx)
     THEN Become(LogError(Goto(stack, "end"), amx, Caller))
     ELSE stack' = Goto(stack, "end") /\ UNCHANGED amx
  /\ UNCHANGED <<g, g_CallFunc_Plugin>>

(* Fault: no EndExec when the called function failed. *)
callfuncEnd_Fault ==
  /\ Ends("callfunc")
  /\ stack' = Pop
  /\ amx' = IF Top.err = "none" THEN EndExec(amx, Top.amx) ELSE amx
  /\ UNCHANGED <<g, g_CallFunc_Plugin>>

callfuncEnd ==
  /\ Ends("callfunc")
  /\ stack' = Pop
  /\ amx' = EndExec(amx, Top.amx)
  /\ UNCHANGED <<g, g_CallFunc_Plugin>>

\* HandleError after amx_Exec and the rest of LogError; whether the filter
\* accepts the error makes a difference to the log alone.
errfilterReturned ==
  /\ Returned("errfilter")
  /\ stack' = Pop
  /\ amx' = Report([EndExec(amx, Top.amx) EXCEPT ![Top.amx].m_Handling = FALSE], Top.amx)
  /\ UNCHANGED <<g, g_CallFunc_Plugin>>

\* HandleNative after amx_Exec: a run-time error is logged.
natfilterReturned ==
  /\ Returned("natfilter")
  /\ IF Top.err = "error" /\ ~ErrorExists(amx, Top.amx)
     THEN Become(LogError(Goto(stack, "end"), amx, Top.amx))
     ELSE stack' = Goto(stack, "end") /\ UNCHANGED amx
  /\ UNCHANGED <<g, g_CallFunc_Plugin>>

(* Fault: the flag is taken back only when the filter did not fail. *)
FilterLeft_Fault(m, p) == IF Top.err = "error" THEN m ELSE [m EXCEPT ![p].m_InNativeFilter = FALSE]

FilterLeft(m, p) == [m EXCEPT ![p].m_InNativeFilter = FALSE]

\* The tracer went in LogError when the code is -1; a filter that failed returns 0.
natfilterEnd(retval) ==
  /\ Ends("natfilter")
  /\ Top.err = "error" => ~retval
  /\ Top.err = "logged" => retval
  /\ stack' = IF retval THEN Pop ELSE Goto(Pop, "invalid")
  /\ amx' = FilterLeft(IF Top.err = "logged" THEN amx ELSE EndExec(amx, Top.amx), Top.amx)
  /\ UNCHANGED <<g, g_CallFunc_Plugin>>

(***************************************************************************)
(* The host: it runs forwards, and "amxx pause" and "amxx unpause".          *)
(***************************************************************************)
HostForward(q) ==
  /\ stack = <<>> /\ isExecutable(q)
  /\ stack' = <<Frame("forward", q)>>
  /\ amx' = BeginExec(amx, q)
  /\ UNCHANGED <<g, g_CallFunc_Plugin>>

\* CSPForward::execute returns at once.
HostForwardRefused(q) == stack = <<>> /\ ~isExecutable(q) /\ UNCHANGED vars

pausePlugin(q) ==
  /\ stack = <<>> /\ isExecutable(q)
  /\ stack' = <<[Frame("forward", q) EXCEPT !.pausing = TRUE]>>
  /\ amx' = BeginExec(amx, q)
  /\ UNCHANGED <<g, g_CallFunc_Plugin>>

unpausePlugin(q) ==
  /\ stack = <<>> /\ amx[q].status = "paused"
  /\ stack' = <<Frame("forward", q)>>
  /\ amx' = BeginExec([amx EXCEPT ![q].status = "running"], q)
  /\ UNCHANGED <<g, g_CallFunc_Plugin>>

PluginStep ==
  \/ NativeError \/ log_error \/ set_fail_state
  \/ \E q \in Plugins : ExecuteForward(q) \/ callfunc_begin(q)
  \/ callfunc_end
  \/ \E n \in Natives : \/ \E args \in Args : amxx_DynaCallback(n, args)
                        \/ amxx_DynaCallbackPaused(n)
  \/ invalid_native
  \/ \E err \in {"none", "error"} : amx_Exec(err)

CoreStep ==
  \/ amx_Callback \/ amxx_DynaCallbackRefused \/ invalid_nativeUnhandled
  \/ forwardReturned \/ forwardEnd
  \/ dynaReturned \/ dynaUnhandled \/ dynaEnd
  \/ callfuncReturned \/ callfuncEnd
  \/ errfilterReturned
  \/ natfilterReturned
  \/ \E retval \in BOOLEAN : natfilterEnd(retval)

Next == \/ PluginStep
        \/ CoreStep
        \/ \E q \in Plugins : HostForward(q) \/ HostForwardRefused(q) \/ pausePlugin(q) \/ unpausePlugin(q)

Spec == Init /\ [][Next]_vars

Error == {"none", "error", "logged"}
Context == [native : Natives \union {NULL}, caller : Plugins \union {NULL},
            params : Args \union {NULL}, error : {"none", "error"}]

TypeOK ==
  /\ stack \in Seq([kind : {"forward", "dyna", "callfunc", "errfilter", "natfilter"},
                    amx : Plugins, err : Error,
                    pc : {"run", "native", "refused", "invalid", "returned", "unhandled", "end"},
                    native : Natives \union {NULL}, args : Args \union {NULL},
                    saved : Context \union {NULL}, pausing : BOOLEAN])
  /\ amx \in [Plugins -> [error : Error, status : {"error", "paused", "running"},
                          m_Top : Int, m_Error : [Levels -> {"none", "error"}],
                          m_Handling : BOOLEAN, m_InNativeFilter : BOOLEAN]]
  /\ \A p \in Plugins \ (Debug \intersect NativeFilter) : amx[p].m_Top \in {-1} \union Levels
  /\ g \in Context
  /\ g_CallFunc_Plugin \in Plugins \union {NULL}

(***************************************************************************)
(* Properties.                                                              *)
(***************************************************************************)
Indices(p) == {i \in DOMAIN stack : stack[i].amx = p}

(* Whatever ran and failed in between, get_param, get_string and the others  *)
(* see the native, the caller and the parameters of the innermost dynamic    *)
(* native that has not returned; outside all of them there is none.          *)
DynContext ==
  LET dyna == {i \in DOMAIN stack : stack[i].kind = "dyna"}
  IN IF dyna = {} THEN g.native = NULL /\ g.caller = NULL
     ELSE LET i == Max(dyna)
          IN /\ g.native = stack[i].native
             /\ g.caller = stack[i-1].amx
             /\ g.params = stack[i].args

(* The asserts on m_Top: the debugger of a plugin has one tracer for each of *)
(* its executions, also after executions that failed, and the last one is    *)
(* given back.  Plugins with a native filter are left out, see README.       *)
DebugBalanced ==
  \A p \in Debug \ NativeFilter : amx[p].m_Top + 1 = Cardinality(Indices(p))

(* "We don't care, something else logged the error": an execution whose      *)
(* tracer has an error does not come back to plugin code, so that the error  *)
(* the function after amx_Exec finds there is the one that ended it, and no  *)
(* later error is passed over for an old one.                                *)
NoStaleTrace ==
  \A p \in Debug \ NativeFilter : \A i \in Indices(p) :
    LET level == Cardinality({j \in Indices(p) : j < i})
    IN amx[p].m_Error[level] # "none" => stack[i].pc # "run"

(* A plugin is in its error filter at most once, and its handler says so     *)
(* exactly then; m_InNativeFilter does not outlive the last native filter,   *)
(* or every later error of the plugin would take the tracer of another.      *)
FilterFlags ==
  \A p \in Plugins :
    /\ Cardinality({i \in Indices(p) : stack[i].kind = "errfilter"})
         = IF amx[p].m_Handling THEN 1 ELSE 0
    /\ amx[p].m_InNativeFilter => \E i \in Indices(p) : stack[i].kind = "natfilter"
=============================================================================
