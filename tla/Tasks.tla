------------------------------- MODULE Tasks --------------------------------
(***************************************************************************)
(* The task scheduler (CTaskMngr, amxmodx/CTask.cpp) and the natives        *)
(* set_task, remove_task and change_task, on top of the table of            *)
(* single-plugin forwards.  HUD_Frame calls startFrame, which walks the     *)
(* list of tasks; a due task's callback runs inside the walk and may call   *)
(* the natives, on any task and on its own one.                             *)
(***************************************************************************)
EXTENDS ForwardTable, Integers

CONSTANTS
  Tokens,     \* task instances: what one set_task created
  NoToken,    \* the instance of a CTask object that is free
  Ids,        \* the ids plugins give their tasks
  Bases,      \* intervals given to set_task, after it raised those below 0.1
  NewBases,   \* intervals given to change_task, which has no lower limit
  Repeats,    \* repeat counts given to set_task
  Flags,      \* subset of {"once", "a", "b"}
  Kinds,      \* subset of {"normal", "after", "before"}: flags "c" and "d"
  OneSecond,  \* the 1.0f of executeIfRequired in clock units
  MaxTasks,   \* bound: length of m_Tasks
  MaxTime     \* bound: the clock

ASSUME TimeAssumption == /\ Bases \subseteq Nat /\ NewBases \subseteq Nat
                         /\ Repeats \subseteq Nat /\ OneSecond \in Nat
                         /\ MaxTasks \in Nat /\ MaxTime \in Nat
ASSUME FlagAssumption == /\ Flags \subseteq {"once", "a", "b"}
                         /\ Kinds \subseteq {"normal", "after", "before"}
ASSUME TokenAssumption == NoToken \notin Tokens

VARIABLES
  fm,              \* the forward manager's table
  m_Tasks,         \* the list of CTask objects; it never shrinks
  m_fCurrentTime,  \* the clock
  pc,              \* "idle"; in startFrame "scan", "call" (a callback runs)
                   \* or "return" (executeForwards came back)
  iter,            \* position of startFrame in the list
  running          \* the forward whose callback runs, 0 if none

vars == <<fm, m_Tasks, m_fCurrentTime, pc, iter, running>>

\* The fields of CTask; func 0 is m_iFunc = -1.  The last six are history: the
\* instance, the calls it should get (-1: no end), the calls it got, when it
\* was set or last changed, the calls begun since then, and whether it was
\* called, set or changed since the frame began.
Task == [free : BOOLEAN, inExecute : BOOLEAN, func : Nat, id : Ids \union {0},
         base : Nat, kind : {"normal", "after", "before"}, loop : BOOLEAN,
         repeat : Int, next : Nat, tok : Tokens \union {NoToken}, want : Int,
         runs : Nat, since : Nat, cnt : Nat, served : BOOLEAN]

TypeOK == /\ fm \in FMType(Tokens)
          /\ m_Tasks \in Seq(Task)
          /\ m_fCurrentTime \in Nat
          /\ pc \in {"idle", "scan", "call", "return"}
          /\ iter \in Nat
          /\ running \in Nat

Init == /\ fm = EmptyFM
        /\ m_Tasks = <<>>
        /\ m_fCurrentTime = 0
        /\ pc = "idle"
        /\ iter = 0
        /\ running = 0

-----------------------------------------------------------------------------
(* CTask.                                                                   *)

\* Fault: clear forgets the forward.
clearForward_Keep(f, t) == f

\* The part of CTask::clear that releases the forward ...
clearForward(f, t) == IF t.func > 0 THEN unregisterSPForward(f, t.func) ELSE f

\* ... and the part that resets the fields; m_bInExecute is left alone.
cleared(t) == [t EXCEPT !.free = TRUE, !.func = 0, !.id = 0, !.base = 0,
                        !.repeat = 0, !.loop = FALSE, !.kind = "normal",
                        !.next = 0, !.tok = NoToken, !.want = 0, !.runs = 0,
                        !.since = 0, !.cnt = 0, !.served = FALSE]

\* CTask::set.
newTask(func, id, base, kind, flags, repeat, tok) ==
  [free |-> FALSE, inExecute |-> FALSE, func |-> func, id |-> id, base |-> base,
   kind |-> kind, loop |-> flags # "once",
   repeat |-> CASE flags = "b" -> -1 [] flags = "a" -> repeat [] flags = "once" -> 0,
   next |-> m_fCurrentTime + base, tok |-> tok,
   want |-> CASE flags = "b" -> -1 [] flags = "a" -> repeat [] flags = "once" -> 1,
   runs |-> 0, since |-> m_fCurrentTime, cnt |-> 0, served |-> TRUE]

\* The first test of executeIfRequired.
due(t) == CASE t.kind = "after"  -> m_fCurrentTime + OneSecond >= t.base
            [] t.kind = "before" -> m_fCurrentTime - OneSecond <= t.base
            [] t.kind = "normal" -> t.next <= m_fCurrentTime

\* The second half of executeIfRequired: is the task over?
ends(t) == IF t.loop THEN t.repeat # -1 /\ t.repeat - 1 <= 0 ELSE TRUE

\* Fault: the next time is left where it was.
rescheduled_NoAdvance(t) == [t EXCEPT !.repeat = IF @ = -1 THEN -1 ELSE @ - 1]

\* It is not: count down and schedule from the last time it was due.
rescheduled(t) == [t EXCEPT !.repeat = IF @ = -1 THEN -1 ELSE @ - 1,
                            !.next = @ + t.base]

-----------------------------------------------------------------------------
(* The natives, called by a callback of a task or by any other plugin code. *)

PluginCode == pc \in {"idle", "call"}

Matches(id) == {k \in DOMAIN m_Tasks : ~m_Tasks[k].free /\ m_Tasks[k].id = id}

\* Fault: the task whose callback is running counts as free once removed.
Reusable_InExecute == {k \in DOMAIN m_Tasks : m_Tasks[k].free}

\* CTaskDescriptor(0, NULL, true): free and not in execute.
Reusable == {k \in DOMAIN m_Tasks : m_Tasks[k].free /\ ~m_Tasks[k].inExecute}

\* registerTask: the first reusable task of the list, or a new one at its end.
Place == IF Reusable = {} THEN Len(m_Tasks) + 1
         ELSE CHOOSE k \in Reusable : \A j \in Reusable : k <= j

Fresh(tok) == /\ \A k \in DOMAIN m_Tasks : m_Tasks[k].tok # tok
              /\ running > 0 => fm.sp[running].reg # tok

set_task(tok, id, base, kind, flags, repeat) ==
  LET r == registerSPForward(fm, tok, TRUE)
      t == newTask(r.id, id, base, kind, flags, repeat, tok)
  IN  /\ PluginCode
      /\ Fresh(tok)
      /\ Place <= MaxTasks
      /\ fm' = r.fm
      /\ m_Tasks' = IF Place > Len(m_Tasks) THEN Append(m_Tasks, t)
                                            ELSE [m_Tasks EXCEPT ![Place] = t]
      /\ UNCHANGED <<m_fCurrentTime, pc, iter, running>>

\* Fault: the -1 of the failed registration is not looked at.
set_task_missing_NoCheck(tok) ==
  /\ PluginCode
  /\ Fresh(tok)
  /\ Reusable = {} /\ Len(m_Tasks) < MaxTasks
  /\ fm' = registerSPForward(fm, tok, FALSE).fm
  /\ m_Tasks' = Append(m_Tasks, newTask(-1, 0, 1, "normal", "once", 0, tok))
  /\ UNCHANGED <<m_fCurrentTime, pc, iter, running>>

\* The function named in set_task does not exist.
set_task_missing(tok) ==
  /\ PluginCode
  /\ Fresh(tok)
  /\ fm' = registerSPForward(fm, tok, FALSE).fm
  /\ UNCHANGED <<m_Tasks, m_fCurrentTime, pc, iter, running>>

\* The forward table once the tasks at S were cleared, first to last.
withoutForwards(S) ==
  LET done[k \in 0..Len(m_Tasks)] ==
        IF k = 0 THEN fm
        ELSE IF k \in S THEN clearForward(done[k - 1], m_Tasks[k])
        ELSE done[k - 1]
  IN  done[Len(m_Tasks)]

\* removeTasks
remove_task(id) ==
  /\ PluginCode
  /\ Matches(id) # {}
  /\ fm' = withoutForwards(Matches(id))
  /\ m_Tasks' = [k \in DOMAIN m_Tasks |->
                   IF k \in Matches(id) THEN cleared(m_Tasks[k]) ELSE m_Tasks[k]]
  /\ UNCHANGED <<m_fCurrentTime, pc, iter, running>>

\* changeTasks: changeBase, then resetNextExecTime, on every matching task.
change_task(id, newBase) ==
  /\ PluginCode
  /\ Matches(id) # {}
  /\ m_Tasks' = [k \in DOMAIN m_Tasks |->
       IF k \in Matches(id)
       THEN [m_Tasks[k] EXCEPT !.base = newBase, !.next = m_fCurrentTime + newBase,
               !.since = m_fCurrentTime, !.cnt = 0, !.served = TRUE]
       ELSE m_Tasks[k]]
  /\ UNCHANGED <<fm, m_fCurrentTime, pc, iter, running>>

-----------------------------------------------------------------------------
(* startFrame.                                                              *)

startFrame(time) ==
  /\ pc = "idle"
  /\ m_fCurrentTime < time
  /\ m_fCurrentTime' = time
  /\ pc' = "scan"
  /\ iter' = 1
  /\ m_Tasks' = [k \in DOMAIN m_Tasks |-> [m_Tasks[k] EXCEPT !.served = FALSE]]
  /\ UNCHANGED <<fm, running>>

\* m_iRepeat is 0 in a loop: there is nothing to call.
Exhausted(t) == t.loop /\ t.repeat = 0

\* Fault: the iterator moves on twice past a free task.
SkipTask_Twice == /\ pc = "scan" /\ iter <= Len(m_Tasks)
                  /\ m_Tasks[iter].free \/ ~due(m_Tasks[iter])
                  /\ iter' = IF m_Tasks[iter].free THEN iter + 2 ELSE iter + 1
                  /\ UNCHANGED <<fm, m_Tasks, m_fCurrentTime, pc, running>>

\* A free task, or one that is not due.
SkipTask == /\ pc = "scan" /\ iter <= Len(m_Tasks)
            /\ m_Tasks[iter].free \/ ~due(m_Tasks[iter])
            /\ iter' = iter + 1
            /\ UNCHANGED <<fm, m_Tasks, m_fCurrentTime, pc, running>>

\* A due task: m_bInExecute is set and executeForwards called.
CallTask(t) == /\ pc = "scan" /\ iter <= Len(m_Tasks)
               /\ t = m_Tasks[iter]
               /\ ~t.free /\ due(t) /\ ~Exhausted(t)
               /\ m_Tasks' = [m_Tasks EXCEPT ![iter] =
                    [t EXCEPT !.inExecute = TRUE, !.runs = @ + 1, !.cnt = @ + 1,
                              !.served = TRUE]]
               /\ UNCHANGED <<m_fCurrentTime, iter>>

\* The callback is entered.
BeginCallback == /\ CallTask(m_Tasks[iter])
                 /\ runnable(fm, m_Tasks[iter].func)
                 /\ fm' = beginExec(fm, m_Tasks[iter].func)
                 /\ running' = m_Tasks[iter].func
                 /\ pc' = "call"

\* The plugin is paused: executeForwards calls nothing.
RefuseCallback == /\ CallTask(m_Tasks[iter])
                  /\ fm' = afterExec(fm, m_Tasks[iter].func)
                  /\ pc' = "return"
                  /\ UNCHANGED running

\* The callback returns to executeForwards.
EndCallback == /\ pc = "call"
               /\ fm' = endExec(fm, running)
               /\ running' = 0
               /\ pc' = "return"
               /\ UNCHANGED <<m_Tasks, m_fCurrentTime, iter>>

\* The rest of executeIfRequired, with the task as it is now.
finishTask(t) ==
  IF t.free THEN m_Tasks' = [m_Tasks EXCEPT ![iter] = t] /\ UNCHANGED fm
  ELSE IF ends(t) THEN /\ fm' = clearForward(fm, t)
                       /\ m_Tasks' = [m_Tasks EXCEPT ![iter] = cleared(t)]
  ELSE /\ UNCHANGED fm
       /\ m_Tasks' = [m_Tasks EXCEPT ![iter] = rescheduled(t)]

\* executeForwards has returned, m_bInExecute is reset.
AfterCall == /\ pc = "return"
             /\ finishTask([m_Tasks[iter] EXCEPT !.inExecute = FALSE])
             /\ pc' = "scan"
             /\ iter' = iter + 1
             /\ UNCHANGED <<m_fCurrentTime, running>>

\* A due task of a loop with nothing left goes straight to the end.
SkipCall == /\ pc = "scan" /\ iter <= Len(m_Tasks)
            /\ ~m_Tasks[iter].free /\ due(m_Tasks[iter]) /\ Exhausted(m_Tasks[iter])
            /\ finishTask(m_Tasks[iter])
            /\ iter' = iter + 1
            /\ UNCHANGED <<m_fCurrentTime, pc, running>>

EndFrame == /\ pc = "scan" /\ iter > Len(m_Tasks)
            /\ pc' = "idle"
            /\ iter' = 0
            /\ UNCHANGED <<fm, m_Tasks, m_fCurrentTime, running>>

\* CTaskMngr::clear: the list is emptied, the destructors clear the tasks.
clear == /\ pc = "idle"
         /\ m_Tasks # <<>>
         /\ fm' = withoutForwards(DOMAIN m_Tasks)
         /\ m_Tasks' = <<>>
         /\ UNCHANGED <<m_fCurrentTime, pc, iter, running>>

Natives == \/ \E tok \in Tokens, i \in Ids, b \in Bases, kind \in Kinds,
                 f \in Flags, r \in Repeats : set_task(tok, i, b, kind, f, r)
           \/ \E tok \in Tokens : set_task_missing(tok)
           \/ \E i \in Ids : remove_task(i)
           \/ \E i \in Ids, b \in NewBases : change_task(i, b)

Next == \/ Natives
        \/ \E time \in 1..MaxTime : startFrame(time)
        \/ SkipTask \/ BeginCallback \/ RefuseCallback \/ EndCallback
        \/ AfterCall \/ SkipCall \/ EndFrame
        \/ clear

Spec == Init /\ [][Next]_vars

-----------------------------------------------------------------------------
(* Properties.                                                              *)

Active == {k \in DOMAIN m_Tasks : ~m_Tasks[k].free}

\* Every task in the list owns a forward of its own that still calls the
\* function it was set with, and every forward belongs to a task, is free, or
\* is released when the callback that runs returns: removing and re-setting
\* tasks, from inside their own callbacks too, neither shares nor leaks one.
TaskOwnsForward ==
  /\ \A k \in Active : /\ isIdValid(fm, m_Tasks[k].func)
                       /\ fm.sp[m_Tasks[k].func].reg = m_Tasks[k].tok
                       /\ runnable(fm, m_Tasks[k].func)
  /\ \A s \in 1..Len(fm.sp) :
       \/ \E i \in 1..Len(fm.free) : fm.free[i] = s
       \/ \E k \in Active : m_Tasks[k].func = s
       \/ s = running /\ fm.sp[s].toDelete

\* A task is never called before its time: the calls since it was set or
\* changed took at least that many intervals.
NeverEarly ==
  \A k \in Active : m_Tasks[k].kind = "normal" =>
    m_Tasks[k].cnt * m_Tasks[k].base <= m_fCurrentTime - m_Tasks[k].since

\* A task that startFrame retires has had all its calls: once, or as often as
\* repeat says.  A task set by a callback is not taken for the one that ran.
RetiredAfterAllRuns ==
  [][\A k \in DOMAIN m_Tasks :
       (pc \in {"scan", "return"} /\ ~m_Tasks[k].free /\ m_Tasks'[k].free)
          => m_Tasks[k].runs = m_Tasks[k].want]_vars

\* When a frame is over no due task was passed over.
FrameServesDue ==
  pc = "idle" => \A k \in Active :
    (m_Tasks[k].kind = "normal" /\ m_Tasks[k].next <= m_fCurrentTime) => m_Tasks[k].served
=============================================================================
