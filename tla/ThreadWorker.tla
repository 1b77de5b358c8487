---------------------------- MODULE ThreadWorker ----------------------------
(***************************************************************************)
(* The worker thread of the mysqlx and sqlite modules                       *)
(* (dlls/mysqlx/thread/ThreadWorker.cpp on top of BaseWorker.cpp) and the   *)
(* one thread that owns it, interleaved at the points where the code        *)
(* releases a lock, waits for a signal or touches a shared flag outside a   *)
(* lock.  A critical section is one step: none of them blocks inside.       *)
(***************************************************************************)
EXTENDS Naturals, Sequences, FiniteSets

CONSTANTS
  Jobs,      \* the jobs the owner may submit, each one once
  NoJob,     \* value of swt when the worker holds no job
  Platforms, \* the thread libraries the module may have been built with
  MayPause,  \* the owner calls Pause and Unpause
  MayStop    \* the owner calls Stop

ASSUME NoJobAssumption == NoJob \notin Jobs
ASSUME PlatformsAssumption == Platforms \subseteq {"windows", "posix"}

VARIABLES
  platform,       \* the library of this build: chosen once, it never changes
  m_state,        \* WorkerState
  m_ThreadQueue,  \* the jobs waiting
  m_Waiting,      \* the worker is about to wait, or waits, for m_AddSignal
  m_FlushType,    \* the flush_cancel argument of the last Stop
  m_AddSignal,    \* a wake-up is there for a waiter of m_AddSignal
  m_PauseSignal,  \* the same for m_PauseSignal
  locks,          \* the mutexes and the signals exist
  wpc,            \* where the worker thread is in RunThread
  this_state,     \* its local copy of m_state
  swt,            \* the job it popped and is running
  mpc,            \* where the owner is in Unpause or Stop
  accepted,       \* history: the jobs MakeThread accepted
  terminated,     \* history: the calls of OnTerminate
  overrun         \* history: jobs begun since the last Pause

queueVars  == <<m_ThreadQueue, accepted, terminated, swt>>
signalVars == <<m_AddSignal, m_PauseSignal>>
ownerVars  == <<m_state, m_FlushType, locks, mpc>>
workerVars == <<wpc, this_state>>
vars == <<platform, queueVars, signalVars, ownerVars, workerVars, m_Waiting,
          overrun>>

WorkerPC == {"none", "top", "check", "add_enter", "add_wait", "add_clear",
             "reread", "pause_enter", "pause_wait", "pop", "run",
             "drain", "drain_run", "exited"}
OwnerPC  == {"idle", "unpause_signal", "unpause_add", "stop_unpause",
             "stop_signal", "stop_join", "stop_flush"}
WorkerState == {"Stopped", "Paused", "Running"}

TypeOK == /\ platform \in Platforms
          /\ m_state \in WorkerState
          /\ m_ThreadQueue \in Seq(Jobs)
          /\ m_Waiting \in BOOLEAN
          /\ m_FlushType \in BOOLEAN
          /\ m_AddSignal \in BOOLEAN
          /\ m_PauseSignal \in BOOLEAN
          /\ locks \in BOOLEAN
          /\ wpc \in WorkerPC
          /\ this_state \in WorkerState
          /\ swt \in Jobs \union {NoJob}
          /\ mpc \in OwnerPC
          /\ accepted \in Seq(Jobs)
          /\ terminated \in Seq([job : Jobs, cancel : BOOLEAN])
          /\ overrun \in Nat

\* The object as its constructor leaves it: stopped, without a thread.
Init == /\ platform \in Platforms
        /\ m_state = "Stopped"
        /\ m_ThreadQueue = <<>>
        /\ m_Waiting = FALSE
        /\ m_FlushType = FALSE
        /\ m_AddSignal = FALSE
        /\ m_PauseSignal = FALSE
        /\ locks = FALSE
        /\ wpc = "none"
        /\ this_state = "Running"
        /\ swt = NoJob
        /\ mpc = "idle"
        /\ accepted = <<>>
        /\ terminated = <<>>
        /\ overrun = 0

-----------------------------------------------------------------------------
(* Event signals.  A Windows event (WinThreads.cpp) is set whether or not   *)
(* somebody waits and stays set until a Wait takes it; the bare condition   *)
(* variable of PosixThreads.cpp is broadcast, which reaches only a thread   *)
(* already inside pthread_cond_wait.                                        *)

Latched == platform = "windows"

SignalAdd   == m_AddSignal' = (m_AddSignal \/ Latched \/ wpc = "add_wait")
SignalPause == m_PauseSignal' = (m_PauseSignal \/ Latched \/ wpc = "pause_wait")

-----------------------------------------------------------------------------
(* The owner.                                                               *)

Start == /\ mpc = "idle"
         /\ m_state = "Stopped"
         /\ m_Waiting' = FALSE
         /\ locks' = TRUE
         /\ m_AddSignal' = FALSE
         /\ m_PauseSignal' = FALSE
         /\ m_state' = "Running"
         /\ wpc' = "top"
         /\ this_state' = "Running"
         /\ UNCHANGED <<platform, queueVars, m_FlushType, mpc, overrun>>

\* Fault: the job is queued and the waiting worker is not signalled.
MakeThread_NoSignal(j) ==
  /\ mpc = "idle"
  /\ m_state = "Running"
  /\ \A i \in 1..Len(accepted) : accepted[i] # j
  /\ m_ThreadQueue' = Append(m_ThreadQueue, j)
  /\ accepted' = Append(accepted, j)
  /\ UNCHANGED <<platform, terminated, swt, signalVars, ownerVars, workerVars,
                 m_Waiting, overrun>>

\* Fault: only the job that finds the queue empty signals the worker.
MakeThread_FirstSignal(j) ==
  /\ mpc = "idle"
  /\ m_state = "Running"
  /\ \A i \in 1..Len(accepted) : accepted[i] # j
  /\ m_ThreadQueue' = Append(m_ThreadQueue, j)
  /\ accepted' = Append(accepted, j)
  /\ IF m_Waiting /\ m_ThreadQueue = <<>>
     THEN SignalAdd ELSE UNCHANGED m_AddSignal
  /\ UNCHANGED <<platform, terminated, swt, m_PauseSignal, ownerVars,
                 workerVars, m_Waiting, overrun>>

\* MakeThread refuses unless Running; AddThreadToQueue signals under the lock.
MakeThread(j) ==
  /\ mpc = "idle"
  /\ m_state = "Running"
  /\ \A i \in 1..Len(accepted) : accepted[i] # j
  /\ m_ThreadQueue' = Append(m_ThreadQueue, j)
  /\ accepted' = Append(accepted, j)
  /\ IF m_Waiting THEN SignalAdd ELSE UNCHANGED m_AddSignal
  /\ UNCHANGED <<platform, terminated, swt, m_PauseSignal, ownerVars,
                 workerVars, m_Waiting, overrun>>

Pause == /\ MayPause
         /\ mpc = "idle"
         /\ m_state = "Running"
         /\ m_state' = "Paused"
         /\ overrun' = 0
         /\ UNCHANGED <<platform, queueVars, signalVars, workerVars, m_Waiting,
                        m_FlushType, locks, mpc>>

Unpause == /\ MayPause
           /\ mpc = "idle"
           /\ m_state = "Paused"
           /\ m_state' = "Running"
           /\ mpc' = "unpause_signal"
           /\ UNCHANGED <<platform, queueVars, signalVars, workerVars,
                          m_Waiting, m_FlushType, locks, overrun>>

UnpauseSignal == /\ mpc = "unpause_signal"
                 /\ SignalPause
                 /\ mpc' = "unpause_add"
                 /\ UNCHANGED <<platform, queueVars, workerVars, m_AddSignal,
                                m_Waiting, m_state, m_FlushType, locks,
                                overrun>>

\* The unlocked read of m_Waiting at the end of Unpause.
UnpauseAdd == /\ mpc = "unpause_add"
              /\ IF m_Waiting THEN SignalAdd ELSE UNCHANGED m_AddSignal
              /\ mpc' = "idle"
              /\ UNCHANGED <<platform, queueVars, workerVars, m_PauseSignal,
                             m_Waiting, m_state, m_FlushType, locks, overrun>>

Stop(flush_cancel) ==
  /\ MayStop
  /\ mpc = "idle"
  /\ m_state # "Stopped"
  /\ m_state' = "Stopped"
  /\ m_FlushType' = flush_cancel
  /\ mpc' = IF m_state = "Paused" THEN "stop_unpause" ELSE "stop_signal"
  /\ UNCHANGED <<platform, queueVars, signalVars, workerVars, m_Waiting, locks,
                 overrun>>

\* Stop of a paused worker calls Unpause, whose first test (m_state is no
\* longer Paused) makes it return without signalling anything.
StopUnpause == /\ mpc = "stop_unpause"
               /\ mpc' = "stop_join"
               /\ UNCHANGED <<platform, queueVars, signalVars, workerVars,
                              m_Waiting, m_state, m_FlushType, locks, overrun>>

StopSignal == /\ mpc = "stop_signal"
              /\ IF m_Waiting THEN SignalAdd ELSE UNCHANGED m_AddSignal
              /\ mpc' = "stop_join"
              /\ UNCHANGED <<platform, queueVars, workerVars, m_PauseSignal,
                             m_Waiting, m_state, m_FlushType, locks, overrun>>

\* Fault: the locks are freed without waiting for the thread.
StopJoin_NoWait == /\ mpc = "stop_join"
                   /\ mpc' = "stop_flush"
                   /\ UNCHANGED <<platform, queueVars, signalVars, workerVars,
                                  m_Waiting, m_state, m_FlushType, locks,
                                  overrun>>

StopJoin == /\ mpc = "stop_join"
            /\ wpc = "exited"
            /\ wpc' = "none"
            /\ mpc' = "stop_flush"
            /\ UNCHANGED <<platform, queueVars, signalVars, this_state,
                           m_Waiting, m_state, m_FlushType, locks, overrun>>

\* One iteration of Flush(true).
StopFlush == /\ mpc = "stop_flush"
             /\ m_ThreadQueue # <<>>
             /\ m_ThreadQueue' = Tail(m_ThreadQueue)
             /\ terminated' = Append(terminated,
                                [job |-> Head(m_ThreadQueue), cancel |-> TRUE])
             /\ UNCHANGED <<platform, accepted, swt, signalVars, ownerVars,
                            workerVars, m_Waiting, overrun>>

StopFree == /\ mpc = "stop_flush"
            /\ m_ThreadQueue = <<>>
            /\ locks' = FALSE
            /\ mpc' = "idle"
            /\ UNCHANGED <<platform, queueVars, signalVars, workerVars,
                           m_Waiting, m_state, m_FlushType, overrun>>

-----------------------------------------------------------------------------
(* The worker thread: ThreadWorker::RunThread.                              *)

WReadState == /\ wpc = "top"
              /\ this_state' = m_state
              /\ wpc' = IF m_state = "Stopped" THEN "reread" ELSE "check"
              /\ UNCHANGED <<platform, queueVars, signalVars, ownerVars,
                             m_Waiting, overrun>>

\* The test before the wait compares this_state, read before the queue lock.
WCheckQueue ==
  /\ wpc = "check"
  /\ \/ /\ m_ThreadQueue = <<>>
        /\ m_Waiting' = TRUE
        /\ wpc' = IF this_state = "Stopped" THEN "exited" ELSE "add_enter"
     \/ /\ m_ThreadQueue # <<>>
        /\ wpc' = "reread"
        /\ UNCHANGED m_Waiting
  /\ UNCHANGED <<platform, queueVars, signalVars, ownerVars, this_state,
                 overrun>>

WEnterAddWait == /\ wpc = "add_enter"
                 /\ wpc' = "add_wait"
                 /\ UNCHANGED <<platform, queueVars, signalVars, ownerVars,
                                this_state, m_Waiting, overrun>>

WWakeAdd == /\ wpc = "add_wait"
            /\ m_AddSignal
            /\ m_AddSignal' = FALSE
            /\ wpc' = "add_clear"
            /\ UNCHANGED <<platform, queueVars, m_PauseSignal, ownerVars,
                           this_state, m_Waiting, overrun>>

\* m_Waiting = false, outside every lock.
WClearWaiting == /\ wpc = "add_clear"
                 /\ m_Waiting' = FALSE
                 /\ wpc' = "reread"
                 /\ UNCHANGED <<platform, queueVars, signalVars, ownerVars,
                                this_state, overrun>>

\* Fault: Stopped is only looked at before the wait, not after it.
WReread_NoStop ==
  /\ wpc = "reread"
  /\ this_state' = m_state
  /\ wpc' = IF m_state = "Paused" THEN "pause_enter" ELSE "pop"
  /\ UNCHANGED <<platform, queueVars, signalVars, ownerVars, m_Waiting,
                 overrun>>

\* Fault: the remaining jobs are left behind whatever m_FlushType says.
WReread_NoDrain ==
  /\ wpc = "reread"
  /\ this_state' = m_state
  /\ wpc' = CASE m_state = "Running" -> "pop"
              [] m_state = "Paused"  -> "pause_enter"
              [] m_state = "Stopped" -> "exited"
  /\ UNCHANGED <<platform, queueVars, signalVars, ownerVars, m_Waiting,
                 overrun>>

WReread ==
  /\ wpc = "reread"
  /\ this_state' = m_state
  /\ wpc' = CASE m_state = "Running" -> "pop"
              [] m_state = "Paused"  -> "pause_enter"
              [] m_state = "Stopped" ->
                   IF m_FlushType THEN "exited" ELSE "drain"
  /\ UNCHANGED <<platform, queueVars, signalVars, ownerVars, m_Waiting,
                 overrun>>

WEnterPauseWait == /\ wpc = "pause_enter"
                   /\ wpc' = "pause_wait"
                   /\ UNCHANGED <<platform, queueVars, signalVars, ownerVars,
                                  this_state, m_Waiting, overrun>>

\* Fault: the pause event is created manual-reset.
WWakePause_ManualReset ==
  /\ wpc = "pause_wait"
  /\ m_PauseSignal
  /\ wpc' = "pop"
  /\ UNCHANGED <<platform, queueVars, signalVars, ownerVars, this_state,
                 m_Waiting, overrun>>

\* After the wait the code goes on to RunFrame without reading m_state again.
WWakePause == /\ wpc = "pause_wait"
              /\ m_PauseSignal
              /\ m_PauseSignal' = FALSE
              /\ wpc' = "pop"
              /\ UNCHANGED <<platform, queueVars, m_AddSignal, ownerVars,
                             this_state, m_Waiting, overrun>>

\* pthread_cond_wait may return without a broadcast; the code has no loop.
WSpuriousWake ==
  /\ ~Latched
  /\ \/ wpc = "add_wait" /\ ~m_AddSignal /\ wpc' = "add_clear"
     \/ wpc = "pause_wait" /\ ~m_PauseSignal /\ wpc' = "pop"
  /\ UNCHANGED <<platform, queueVars, signalVars, ownerVars, this_state,
                 m_Waiting, overrun>>

\* Fault: the job is handed out and stays in the queue.
Pop_NoErase == /\ m_ThreadQueue # <<>>
               /\ swt' = Head(m_ThreadQueue)
               /\ overrun' = IF m_state = "Paused" THEN overrun + 1 ELSE overrun
               /\ UNCHANGED <<m_ThreadQueue, accepted, terminated>>

\* PopThreadFromQueue, under the queue lock, in RunFrame.
Pop == /\ m_ThreadQueue # <<>>
       /\ swt' = Head(m_ThreadQueue)
       /\ m_ThreadQueue' = Tail(m_ThreadQueue)
       /\ overrun' = IF m_state = "Paused" THEN overrun + 1 ELSE overrun
       /\ UNCHANGED <<accepted, terminated>>

\* Fault: the NULL that an empty queue gives is run as a job.
WRunFrame_NoNullCheck ==
  /\ wpc = "pop"
  /\ \/ Pop
     \/ m_ThreadQueue = <<>> /\ UNCHANGED <<queueVars, overrun>>
  /\ wpc' = "run"
  /\ UNCHANGED <<platform, signalVars, ownerVars, this_state, m_Waiting>>

\* RunFrame with m_perFrame = 1: pop, or nothing to do.
WRunFrame ==
  /\ wpc = "pop"
  /\ \/ Pop /\ wpc' = "run"
     \/ /\ m_ThreadQueue = <<>>
        /\ wpc' = "top"
        /\ UNCHANGED <<queueVars, overrun>>
  /\ UNCHANGED <<platform, signalVars, ownerVars, this_state, m_Waiting>>

\* while (m_ThreadQueue.size()) RunFrame(); break;
WDrain ==
  /\ wpc = "drain"
  /\ \/ Pop /\ wpc' = "drain_run"
     \/ /\ m_ThreadQueue = <<>>
        /\ wpc' = "exited"
        /\ UNCHANGED <<queueVars, overrun>>
  /\ UNCHANGED <<platform, signalVars, ownerVars, this_state, m_Waiting>>

\* The job's RunThread returns and its OnTerminate(false) is called.
WFinishJob ==
  /\ wpc \in {"run", "drain_run"}
  /\ terminated' = Append(terminated, [job |-> swt, cancel |-> FALSE])
  /\ swt' = NoJob
  /\ wpc' = IF wpc = "run" THEN "top" ELSE "drain"
  /\ UNCHANGED <<platform, m_ThreadQueue, accepted, signalVars, ownerVars,
                 this_state, m_Waiting, overrun>>

-----------------------------------------------------------------------------
\* What the owner does once it is inside a call of Unpause or Stop.
OwnerContinue == \/ UnpauseSignal \/ UnpauseAdd
                 \/ StopUnpause \/ StopSignal \/ StopJoin \/ StopFlush \/ StopFree

WorkerStep == \/ WReadState \/ WCheckQueue \/ WEnterAddWait \/ WWakeAdd
              \/ WClearWaiting \/ WReread \/ WEnterPauseWait \/ WWakePause
              \/ WRunFrame \/ WDrain \/ WFinishJob

Next == \/ Start
        \/ \E j \in Jobs : MakeThread(j)
        \/ Pause \/ Unpause
        \/ \E f \in BOOLEAN : Stop(f)
        \/ OwnerContinue
        \/ WorkerStep
        \/ WSpuriousWake

\* The operating system runs both threads: the worker goes on whenever it is
\* not blocked, and a call the owner has begun is not abandoned.  Nothing makes
\* the owner begin a call, and nothing makes a spurious wake-up happen.
Fairness == WF_vars(WorkerStep) /\ WF_vars(OwnerContinue)

SafetySpec == Init /\ [][Next]_vars
Spec == SafetySpec /\ Fairness

-----------------------------------------------------------------------------
(* Properties.                                                              *)

\* The mutexes and signals live as long as anybody can use them: until the
\* worker thread has left RunThread (Stop joins before it destroys them), and
\* whenever the owner is inside Stop or Unpause or may call AddThreadToQueue.
LocksOutliveUsers ==
  /\ wpc \notin {"none", "exited"} => locks
  /\ mpc # "idle" => locks
  /\ m_state # "Stopped" => locks

\* The queue is the tail of what was accepted: nothing is lost, run twice or
\* overtaken on its way from MakeThread through the pop to OnTerminate.
InFlight == IF swt = NoJob THEN 0 ELSE 1
FIFO ==
  /\ Len(accepted) = Len(terminated) + InFlight + Len(m_ThreadQueue)
  /\ \A i \in 1..Len(terminated) : terminated[i].job = accepted[i]
  /\ swt # NoJob => swt = accepted[Len(terminated) + 1]
  /\ \A i \in 1..Len(m_ThreadQueue) :
        m_ThreadQueue[i] = accepted[Len(terminated) + InFlight + i]

\* Pause does not stop the worker at once: it may be past its test of m_state,
\* and a Windows event left by an earlier Unpause lets it through one wait.  But
\* no more than two jobs begin between a Pause and the next Unpause.  (A POSIX
\* worker has no such bound: nothing tests m_state again after a spurious
\* return from pthread_cond_wait.)
PauseBound == Latched /\ m_state = "Paused" => overrun <= 2

\* The worker implements the contract of IWorker (safety part).
Contract == INSTANCE JobQueue WITH
  current <- swt,
  mode <- IF m_state # "Stopped" THEN "open"
          ELSE IF mpc = "idle" THEN "closed"
          ELSE IF m_FlushType THEN "cancelling" ELSE "draining"
Implements == Contract!Spec

Terminated(j) == \E i \in 1..Len(terminated) : terminated[i].job = j
Queued(j) == \E i \in 1..Len(m_ThreadQueue) : m_ThreadQueue[i] = j

\* With Windows events a job in the queue of a running worker is run, unless
\* the owner pauses or stops the worker first: the worker never sleeps beside a
\* queue with a job.
JobsServed ==
  \A j \in Jobs :
    (Latched /\ Queued(j)) ~> (Terminated(j) \/ m_state # "Running")

\* A POSIX broadcast sent between the worker's m_Waiting = true and its wait is
\* lost, and the worker sleeps beside a job.  The loss heals: the next job that
\* MakeThread accepts wakes the worker for the old one too.
AcceptedOnly(n) == Len(accepted) = n
LostSignalHeals ==
  \A j \in Jobs : \A n \in 1..Cardinality(Jobs) :
    [](wpc = "add_wait" /\ Queued(j) /\ AcceptedOnly(n)
         => [](AcceptedOnly(n)) \/ <>(Terminated(j) \/ m_state # "Running"))

\* Stop comes back in two cases: with Windows events, when the worker was
\* running and its queue held a job; with either library, when the worker was
\* paused but still in the middle of a job.  Nothing is promised for a paused
\* worker that sleeps: StopUnpause signals nobody.
BusyStopReturns ==
  \/ Latched /\ mpc = "stop_signal" /\ m_ThreadQueue # <<>>
  \/ mpc = "stop_unpause" /\ wpc = "run"
  ~> mpc = "idle"

\* "it will wait until the tasks have been depleted, then end": a Stop, of a
\* running or of a paused worker, always comes back.
StopReturns == (mpc \in {"stop_signal", "stop_unpause"}) ~> (mpc = "idle")
=============================================================================
