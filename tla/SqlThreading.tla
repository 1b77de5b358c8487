---------------------------- MODULE SqlThreading ----------------------------
(***************************************************************************)
(* Threaded queries (dlls/mysqlx/threading.cpp): SQL_ThreadQuery fills a    *)
(* MysqlThread object and gives it to the worker; the worker runs the query *)
(* and OnTerminate puts the object on g_ThreadQueue; StartFrame, on the     *)
(* main thread, takes it from there, calls the plugin's handler and         *)
(* recycles the object.  The worker is the contract JobQueue, which         *)
(* ThreadWorker is proved to implement; its jobs are the objects.           *)
(***************************************************************************)
EXTENDS Naturals, Sequences, FiniteSets

CONSTANTS Queries,  \* calls of SQL_ThreadQuery, each made once
          NoQuery   \* nothing stored yet

ASSUME QueryAssumption == NoQuery \notin Queries

VARIABLES
  accepted, current, terminated, mode,  \* the worker, see JobQueue
  threads,        \* object -> its fields; the objects are 1, 2, ...
  g_ThreadQueue,  \* finished objects, top of the stack first
  g_FreeThreads,  \* objects to recycle, top of the stack first
  g_pWorker,      \* the pointer is not NULL
  g_QueueLock,    \* the same
  pc,             \* where the main thread is
  kmThread,       \* the object whose handler runs, 0 if none
  submitted,      \* history: queries given to the worker
  delivered       \* history: what the handlers were called with

workerVars == <<accepted, current, terminated, mode>>
listVars   == <<threads, g_ThreadQueue, g_FreeThreads>>
mainVars   == <<g_pWorker, g_QueueLock, pc, kmThread>>
history    == <<submitted, delivered>>
vars == <<workerVars, listVars, mainVars, history>>

NoObject == 0
Objects == DOMAIN threads
W == INSTANCE JobQueue WITH Jobs <- Nat \ {NoObject}, NoJob <- NoObject

Outcome == {"ok", "query_failed", "connect_failed"}

\* fwd is the query whose handler m_fwd is, query the text that will be run,
\* data the query that m_data was copied for, ran and outcome what m_qrInfo
\* and m_atomicResult hold.
Thread == [fwd : Queries, query : Queries, data : Queries \union {NoQuery},
           ran : Queries \union {NoQuery}, outcome : Outcome \union {"none"}]
Delivery == [fwd : Queries, data : Queries \union {NoQuery},
             ran : Queries \union {NoQuery}, outcome : Outcome \union {"none"}]
MainPC == {"idle", "handler", "unload_stop", "unload_handler", "shutdown_stop", "detached"}

TypeOK == /\ W!TypeOK
          /\ threads \in Seq(Thread)
          /\ g_ThreadQueue \in Seq(Objects)
          /\ g_FreeThreads \in Seq(Objects)
          /\ g_pWorker \in BOOLEAN
          /\ g_QueueLock \in BOOLEAN
          /\ pc \in MainPC
          /\ kmThread \in Objects \union {NoObject}
          /\ submitted \subseteq [q : Queries, data : BOOLEAN]
          /\ delivered \in Seq(Delivery)

Init == /\ W!Init
        /\ threads = <<>>
        /\ g_ThreadQueue = <<>>
        /\ g_FreeThreads = <<>>
        /\ g_pWorker = FALSE
        /\ g_QueueLock = FALSE
        /\ pc = "idle"
        /\ kmThread = NoObject
        /\ submitted = {}
        /\ delivered = <<>>

-----------------------------------------------------------------------------
(* The natives and hooks on the main thread.                                *)

\* OnPluginsLoaded returns when there is a worker already.
OnPluginsLoaded ==
  /\ pc = "idle"
  /\ ~g_pWorker
  /\ W!Open
  /\ g_pWorker' = TRUE
  /\ g_QueueLock' = TRUE
  /\ UNCHANGED <<listVars, pc, kmThread, history>>

\* A new object as the setters fill it.
newThread(q, hasData) == [fwd |-> q, query |-> q,
                          data |-> IF hasData THEN q ELSE NoQuery,
                          ran |-> NoQuery, outcome |-> "none"]

\* The setters on a recycled object.  SetCellData with a length of 0 leaves
\* m_datalen and m_data as they are; the last result stays until RunThread.
recycled(t, q, hasData) ==
  [t EXCEPT !.fwd = q, !.query = q, !.data = IF hasData THEN q ELSE @]

\* Fault: the recycled object stays on the free stack.
takeThread_NoPop(q, hasData) ==
  IF g_FreeThreads = <<>>
  THEN [o |-> Len(threads) + 1, free |-> <<>>,
        threads |-> Append(threads, newThread(q, hasData))]
  ELSE LET o == Head(g_FreeThreads)
       IN  [o |-> o, free |-> g_FreeThreads,
            threads |-> [threads EXCEPT ![o] = recycled(@, q, hasData)]]

\* Fault: a new object gets the number of the one before.
takeThread_OffByOne(q, hasData) ==
  IF g_FreeThreads = <<>>
  THEN [o |-> Len(threads), free |-> <<>>,
        threads |-> Append(threads, newThread(q, hasData))]
  ELSE LET o == Head(g_FreeThreads)
       IN  [o |-> o, free |-> Tail(g_FreeThreads),
            threads |-> [threads EXCEPT ![o] = recycled(@, q, hasData)]]

\* An object from g_FreeThreads, or a new one, filled for the query.
takeThread(q, hasData) ==
  IF g_FreeThreads = <<>>
  THEN [o |-> Len(threads) + 1, free |-> <<>>,
        threads |-> Append(threads, newThread(q, hasData))]
  ELSE LET o == Head(g_FreeThreads)
       IN  [o |-> o, free |-> Tail(g_FreeThreads),
            threads |-> [threads EXCEPT ![o] = recycled(@, q, hasData)]]

\* Called by plugin code, also by a handler.  Without a worker, with a bad
\* tuple or an unknown handler it returns 0 and changes nothing.
SQL_ThreadQuery(q, hasData) ==
  LET t == takeThread(q, hasData)
  IN  /\ pc \in {"idle", "handler", "unload_handler"}
      /\ g_pWorker
      /\ \A s \in submitted : s.q # q
      /\ W!Accept(t.o)
      /\ threads' = t.threads
      /\ g_FreeThreads' = t.free
      /\ submitted' = submitted \union {[q |-> q, data |-> hasData]}
      /\ UNCHANGED <<g_ThreadQueue, mainVars, delivered>>

\* Pop the top of g_ThreadQueue and call its handler (Execute).
Execute(next) ==
  LET o == Head(g_ThreadQueue)
      t == threads[o]
  IN  /\ g_ThreadQueue # <<>>
      /\ g_ThreadQueue' = Tail(g_ThreadQueue)
      /\ kmThread' = o
      /\ delivered' = Append(delivered, [fwd |-> t.fwd, data |-> t.data,
                                         ran |-> t.ran, outcome |-> t.outcome])
      /\ pc' = next
      /\ UNCHANGED <<threads, g_FreeThreads>>

\* Fault: remaining is compared with 1.
StartFrame_OffByOne == /\ pc = "idle"
                       /\ g_pWorker
                       /\ Len(g_ThreadQueue) > 1
                       /\ Execute("handler")
                       /\ UNCHANGED <<workerVars, g_pWorker, g_QueueLock, submitted>>

\* StartFrame, when g_lasttime lets it look at the queue.
StartFrame == /\ pc = "idle"
              /\ g_pWorker
              /\ Execute("handler")
              /\ UNCHANGED <<workerVars, g_pWorker, g_QueueLock, submitted>>

\* The handler returns; Invalidate, and g_FreeThreads takes the object.
EndExecute ==
  /\ pc \in {"handler", "unload_handler"}
  /\ kmThread # NoObject
  /\ g_FreeThreads' = <<kmThread>> \o g_FreeThreads
  /\ kmThread' = NoObject
  /\ UNCHANGED <<workerVars, threads, g_ThreadQueue, g_pWorker, g_QueueLock, pc, history>>

\* } while (!g_ThreadQueue.empty()), under g_QueueLock again.
NextResult ==
  /\ pc \in {"handler", "unload_handler"}
  /\ kmThread = NoObject
  /\ \/ Execute(pc)
     \/ /\ g_ThreadQueue = <<>>
        /\ pc' = "idle"
        /\ UNCHANGED <<listVars, kmThread, delivered>>
  /\ UNCHANGED <<workerVars, g_pWorker, g_QueueLock, submitted>>

\* Fault: the worker is stopped as at shutdown, cancelling what it has.
OnPluginsUnloading_Cancel ==
  /\ pc = "idle"
  /\ g_pWorker
  /\ W!Close(TRUE)
  /\ pc' = "unload_stop"
  /\ UNCHANGED <<listVars, g_pWorker, g_QueueLock, kmThread, history>>

\* Stop(false) is called ...
OnPluginsUnloading ==
  /\ pc = "idle"
  /\ g_pWorker
  /\ W!Close(FALSE)
  /\ pc' = "unload_stop"
  /\ UNCHANGED <<listVars, g_pWorker, g_QueueLock, kmThread, history>>

\* ... and returns; what has finished is delivered without a worker.
UnloadStopped ==
  /\ pc = "unload_stop"
  /\ W!Closed
  /\ g_pWorker' = FALSE
  /\ \/ Execute("unload_handler")
     \/ /\ g_ThreadQueue = <<>>
        /\ pc' = "idle"
        /\ UNCHANGED <<listVars, kmThread, delivered>>
  /\ UNCHANGED <<g_QueueLock, submitted>>

\* ShutdownThreading (the module is detached) calls Stop(true) ...
ShutdownThreading ==
  /\ pc = "idle"
  /\ g_pWorker
  /\ W!Close(TRUE)
  /\ pc' = "shutdown_stop"
  /\ UNCHANGED <<listVars, g_pWorker, g_QueueLock, kmThread, history>>

\* ... and deletes every object on its two stacks.  It uses g_QueueLock, which
\* only the first OnPluginsLoaded makes.
ShutdownStopped ==
  /\ g_QueueLock
  /\ \/ pc = "shutdown_stop" /\ W!Closed
     \/ pc = "idle" /\ ~g_pWorker /\ UNCHANGED workerVars
  /\ g_pWorker' = FALSE
  /\ pc' = "detached"
  /\ g_ThreadQueue' = <<>>
  /\ g_FreeThreads' = <<>>
  /\ UNCHANGED <<threads, g_QueueLock, kmThread, history>>

-----------------------------------------------------------------------------
(* The worker thread; Cancel is done by Stop(true) on the main thread.      *)

\* RunThread clears m_qrInfo first.
RunThread == /\ W!Begin
             /\ threads' = [threads EXCEPT ![current'].ran = NoQuery,
                                           ![current'].outcome = "none"]
             /\ UNCHANGED <<g_ThreadQueue, g_FreeThreads, mainVars, history>>

\* Fault: RunThread gives up on a failed connection before it stores the result.
OnTerminate_NoResult(outcome) ==
  /\ W!End
  /\ threads' = IF outcome = "connect_failed" THEN threads
                ELSE [threads EXCEPT ![current].ran = threads[current].query,
                                     ![current].outcome = outcome]
  /\ g_ThreadQueue' = <<current>> \o g_ThreadQueue
  /\ UNCHANGED <<g_FreeThreads, mainVars, history>>

\* RunThread has its result, OnTerminate(false) pushes the object.
OnTerminate(outcome) ==
  /\ W!End
  /\ threads' = [threads EXCEPT ![current].ran = threads[current].query,
                                ![current].outcome = outcome]
  /\ g_ThreadQueue' = <<current>> \o g_ThreadQueue
  /\ UNCHANGED <<g_FreeThreads, mainVars, history>>

\* OnTerminate(true) of a job that was never run.
OnTerminateCancelled ==
  /\ W!Cancel
  /\ g_FreeThreads' = <<W!NextJob>> \o g_FreeThreads
  /\ UNCHANGED <<threads, g_ThreadQueue, mainVars, history>>

WorkerStep == RunThread \/ (\E o \in Outcome : OnTerminate(o)) \/ OnTerminateCancelled
FrameStep  == StartFrame \/ EndExecute \/ NextResult

Next == \/ OnPluginsLoaded
        \/ \E q \in Queries, d \in BOOLEAN : SQL_ThreadQuery(q, d)
        \/ FrameStep
        \/ OnPluginsUnloading \/ UnloadStopped
        \/ ShutdownThreading \/ ShutdownStopped
        \/ WorkerStep

\* The worker serves its queue (JobsServed of ThreadWorker), the engine keeps
\* calling StartFrame, and handlers return.
Fairness == WF_vars(WorkerStep) /\ WF_vars(FrameStep)

Spec == Init /\ [][Next]_vars /\ Fairness

-----------------------------------------------------------------------------
(* Properties.                                                              *)

\* The objects in the worker's queue, in order.
Pending == SubSeq(accepted, Len(terminated) + 1, Len(accepted))

Count(o, seq) == Cardinality({i \in 1..Len(seq) : seq[i] = o})

\* Every object is in exactly one place: with the worker, finished, in the hand
\* of the main thread, or free.  Neither thread can touch an object the other
\* one is using, although g_FreeThreads is pushed without the lock.
ObjectsExclusive ==
  pc # "detached" => \A o \in Objects :
    Count(o, Pending) + Count(o, g_ThreadQueue) + Count(o, g_FreeThreads)
      + (IF kmThread = o THEN 1 ELSE 0) = 1

\* A handler is called for the query it was given for, with the result of
\* running that query and not with one left in a recycled object, and with the
\* data of that query if it was given any (without data, a recycled object
\* passes what an earlier query left: SetCellData keeps it).
HandlerGetsOwnResult ==
  \A i \in 1..Len(delivered) :
    /\ delivered[i].ran = delivered[i].fwd
    /\ delivered[i].outcome \in Outcome
    /\ \A s \in submitted :
         (s.q = delivered[i].fwd /\ s.data) => delivered[i].data = s.q

DeliveredTo(q) == {i \in 1..Len(delivered) : delivered[i].fwd = q}
InFlight(q) == {o \in Objects : /\ threads[o].fwd = q
                                /\ Count(o, Pending) + Count(o, g_ThreadQueue) = 1}

\* A query is in flight or its handler was called, exactly once, unless the
\* module is shut down: loading and unloading plugins loses no answer, failed
\* queries and failed connections are answered too.
NoQueryLost ==
  pc \notin {"shutdown_stop", "detached"} => \A s \in submitted :
    \/ InFlight(s.q) = {} /\ \E i \in DeliveredTo(s.q) : DeliveredTo(s.q) = {i}
    \/ DeliveredTo(s.q) = {} /\ \E o \in InFlight(s.q) : InFlight(s.q) = {o}

\* A query is answered unless the worker is stopped first.
QueryAnswered ==
  \A q \in Queries :
    (\E s \in submitted : s.q = q) ~> (DeliveredTo(q) # {} \/ mode # "open")
=============================================================================
