------------------------- MODULE ThreadWorkerProofs -------------------------
(***************************************************************************)
(* Proofs about ThreadWorker for every set of jobs, both thread libraries   *)
(* and every way the owner uses the worker.                                 *)
(***************************************************************************)
EXTENDS ThreadWorker, TLAPS

\* How the program counters of the two threads, m_state and the queue agree:
\* the strengthening that makes LocksOutliveUsers inductive.
Control ==
  /\ swt # NoJob <=> wpc \in {"run", "drain_run"}
  /\ mpc \in {"unpause_signal", "unpause_add"} => m_state = "Running"
  /\ mpc \in {"stop_unpause", "stop_signal", "stop_join", "stop_flush"}
       => m_state = "Stopped"
  /\ (mpc = "idle" /\ m_state = "Stopped") => (wpc = "none" /\ m_ThreadQueue = <<>>)
  /\ mpc = "stop_flush" => wpc = "none"
  /\ wpc = "none" => m_state = "Stopped" /\ mpc \in {"idle", "stop_flush"}
  /\ wpc = "check" => this_state # "Stopped"
  /\ wpc \in {"drain", "drain_run"} => m_state = "Stopped" /\ ~m_FlushType
  /\ wpc = "exited" => m_state = "Stopped" /\ (m_FlushType \/ m_ThreadQueue = <<>>)
  /\ mpc = "stop_flush" => (m_FlushType \/ m_ThreadQueue = <<>>)

ControlInv == TypeOK /\ Control /\ LocksOutliveUsers

\* The worker as its constructor leaves it satisfies the control invariant.
LEMMA ControlInit == Init => ControlInv
<1> SUFFICES ASSUME Init PROVE ControlInv
  OBVIOUS
<1>1. TypeOK
  <2>1. \A S : <<>> \in Seq(S)
    OBVIOUS
  <2>2. QED
    BY <2>1, Zenon DEF Init, TypeOK, WorkerPC, OwnerPC, WorkerState
<1>2. Control /\ LocksOutliveUsers
  BY DEF Init, Control, LocksOutliveUsers
<1>3. QED
  BY <1>1, <1>2 DEF ControlInv

\* No step of either thread breaks it, one case per action.
LEMMA ControlStep == ControlInv /\ [Next]_vars => ControlInv'
<1> SUFFICES ASSUME ControlInv, [Next]_vars PROVE ControlInv'
  OBVIOUS
<1> USE NoJobAssumption
    DEF ControlInv, TypeOK, Control, LocksOutliveUsers, WorkerPC, OwnerPC, WorkerState,
        queueVars, signalVars, ownerVars, workerVars
<1>1. CASE Start
  BY <1>1 DEF Start
<1>2. ASSUME NEW j \in Jobs, MakeThread(j) PROVE ControlInv'
  BY <1>2 DEF MakeThread, SignalAdd
<1>3. CASE Pause
  BY <1>3 DEF Pause
<1>4. CASE Unpause
  BY <1>4 DEF Unpause
<1>5. ASSUME NEW f \in BOOLEAN, Stop(f) PROVE ControlInv'
  BY <1>5 DEF Stop
<1>6. CASE UnpauseSignal
  BY <1>6 DEF UnpauseSignal, SignalPause
<1>7. CASE UnpauseAdd
  BY <1>7 DEF UnpauseAdd, SignalAdd
<1>8. CASE StopUnpause
  BY <1>8 DEF StopUnpause
<1>9. CASE StopSignal
  BY <1>9 DEF StopSignal, SignalAdd
<1>10. CASE StopJoin
  BY <1>10 DEF StopJoin
<1>11. CASE StopFlush
  <2>1. /\ m_ThreadQueue # <<>>
        /\ m_ThreadQueue' \in Seq(Jobs)
        /\ terminated' \in Seq([job : Jobs, cancel : BOOLEAN])
        /\ Head(m_ThreadQueue) \in Jobs
    BY <1>11 DEF StopFlush
  <2>2. TypeOK'
    BY <1>11, <2>1 DEF StopFlush
  <2>3. Control' /\ LocksOutliveUsers'
    BY <1>11, <2>1 DEF StopFlush
  <2>4. QED
    BY <2>2, <2>3
<1>12. CASE StopFree
  BY <1>12 DEF StopFree
<1>13. CASE WReadState
  BY <1>13 DEF WReadState
<1>14. CASE WCheckQueue
  <2>1. CASE m_ThreadQueue = <<>>
    BY <1>14, <2>1 DEF WCheckQueue
  <2>2. CASE m_ThreadQueue # <<>>
    BY <1>14, <2>2 DEF WCheckQueue
  <2>3. QED
    BY <2>1, <2>2
<1>15. CASE WEnterAddWait
  BY <1>15 DEF WEnterAddWait
<1>16. CASE WWakeAdd
  BY <1>16 DEF WWakeAdd
<1>17. CASE WClearWaiting
  BY <1>17 DEF WClearWaiting
<1>18. CASE WReread
  BY <1>18 DEF WReread
<1>19. CASE WEnterPauseWait
  BY <1>19 DEF WEnterPauseWait
<1>20. CASE WWakePause
  BY <1>20 DEF WWakePause
<1>21. CASE WRunFrame
  <2>1. CASE Pop /\ wpc' = "run"
    <3>1. Head(m_ThreadQueue) \in Jobs /\ Tail(m_ThreadQueue) \in Seq(Jobs)
      BY <2>1 DEF Pop
    <3>2. QED
      BY <1>21, <2>1, <3>1 DEF WRunFrame, Pop
  <2>2. QED
    BY <1>21, <2>1 DEF WRunFrame
<1>22. CASE WDrain
  <2>1. CASE Pop /\ wpc' = "drain_run"
    <3>1. Head(m_ThreadQueue) \in Jobs /\ Tail(m_ThreadQueue) \in Seq(Jobs)
      BY <2>1 DEF Pop
    <3>2. QED
      BY <1>22, <2>1, <3>1 DEF WDrain, Pop
  <2>2. QED
    BY <1>22, <2>1 DEF WDrain
<1>23. CASE WFinishJob
  BY <1>23 DEF WFinishJob
<1>24. CASE WSpuriousWake
  BY <1>24 DEF WSpuriousWake
<1>25. CASE UNCHANGED vars
  BY <1>25 DEF vars
<1>26. QED
  BY <1>1, <1>2, <1>3, <1>4, <1>5, <1>6, <1>7, <1>8, <1>9, <1>10, <1>11, <1>12,
     <1>13, <1>14, <1>15, <1>16, <1>17, <1>18, <1>19, <1>20, <1>21, <1>22, <1>23,
     <1>24, <1>25 DEF Next, OwnerContinue, WorkerStep

\* The queue, the job in flight, both program counters and m_state keep their
\* types in every interleaving of the owner and the worker thread.
THEOREM WorkerTyped == SafetySpec => []TypeOK
<1>1. ControlInv => TypeOK
  BY DEF ControlInv
<1>2. QED
  BY <1>1, ControlInit, ControlStep, PTL DEF SafetySpec

\* The locks and signals exist as long as either thread can use them, whatever
\* the owner calls and however the threads interleave.
THEOREM LocksSafe == SafetySpec => []LocksOutliveUsers
<1>1. ControlInv => LocksOutliveUsers
  BY DEF ControlInv
<1>2. QED
  BY <1>1, ControlInit, ControlStep, PTL DEF SafetySpec

-----------------------------------------------------------------------------
(* FIFO is inductive next to ControlInv.                                    *)

\* A step that leaves the queue, the running job and both histories alone.
LEMMA FIFOUnchanged == FIFO /\ UNCHANGED queueVars => FIFO'
  BY DEF FIFO, InFlight, queueVars

\* The worker takes the head of the queue.
LEMMA FIFOPop == TypeOK /\ FIFO /\ swt = NoJob /\ Pop => FIFO'
<1> SUFFICES ASSUME TypeOK, FIFO, swt = NoJob, Pop PROVE FIFO'
  OBVIOUS
<1>1. /\ Head(m_ThreadQueue) \in Jobs
      /\ Head(m_ThreadQueue) = m_ThreadQueue[1]
      /\ Len(m_ThreadQueue) \in Nat \ {0}
      /\ Len(Tail(m_ThreadQueue)) = Len(m_ThreadQueue) - 1
      /\ \A i \in 1..Len(m_ThreadQueue) - 1 :
            Tail(m_ThreadQueue)[i] = m_ThreadQueue[i + 1]
  BY DEF TypeOK, Pop
<1>2. swt' # NoJob
  BY <1>1, NoJobAssumption DEF Pop
<1>3. InFlight = 0 /\ InFlight' = 1 /\ Len(terminated) \in Nat
  BY <1>2 DEF InFlight, TypeOK
<1>4. swt' = accepted'[Len(terminated') + 1]
  BY <1>1, <1>3 DEF FIFO, Pop
<1>5. ASSUME NEW i \in 1..Len(m_ThreadQueue')
      PROVE  m_ThreadQueue'[i] = accepted'[Len(terminated') + InFlight' + i]
  <2>1. i + 1 \in 1..Len(m_ThreadQueue) /\ i \in 1..Len(m_ThreadQueue) - 1
    BY <1>1 DEF Pop
  <2>2. m_ThreadQueue[i + 1] = accepted[Len(terminated) + InFlight + (i + 1)]
    BY <2>1 DEF FIFO
  <2>3. Len(terminated) + InFlight + (i + 1) = Len(terminated) + InFlight' + i
    BY <1>3, <2>1
  <2>4. QED
    BY <1>1, <2>1, <2>2, <2>3 DEF Pop
<1>6. Len(accepted') = Len(terminated') + InFlight' + Len(m_ThreadQueue')
  <2>1. Len(accepted) = Len(terminated) + InFlight + Len(m_ThreadQueue)
    BY DEF FIFO
  <2>2. UNCHANGED <<accepted, terminated>> /\ Len(m_ThreadQueue') = Len(m_ThreadQueue) - 1
    BY <1>1 DEF Pop
  <2>3. QED
    BY <1>1, <1>3, <2>1, <2>2
<1>7. \A i \in 1..Len(terminated') : terminated'[i].job = accepted'[i]
  BY DEF FIFO, Pop
<1>8. QED
  BY <1>4, <1>5, <1>6, <1>7 DEF FIFO

\* Only MakeThread, the pop, the end of a job and Flush touch the queue, and each
\* keeps it the tail of what was accepted.
LEMMA FIFOStep == ControlInv /\ FIFO /\ [Next]_vars => FIFO'
<1> SUFFICES ASSUME ControlInv, FIFO, [Next]_vars PROVE FIFO'
  OBVIOUS
<1>t. TypeOK /\ Len(terminated) \in Nat /\ Len(accepted) \in Nat
      /\ Len(m_ThreadQueue) \in Nat /\ InFlight \in Nat
  BY DEF ControlInv, TypeOK, InFlight
<1>1. ASSUME NEW j \in Jobs, MakeThread(j) PROVE FIFO'
  <2>1. /\ Len(accepted') = Len(accepted) + 1
        /\ Len(m_ThreadQueue') = Len(m_ThreadQueue) + 1
        /\ \A i \in 1..Len(accepted) : accepted'[i] = accepted[i]
        /\ accepted'[Len(accepted) + 1] = j
        /\ \A i \in 1..Len(m_ThreadQueue) : m_ThreadQueue'[i] = m_ThreadQueue[i]
        /\ m_ThreadQueue'[Len(m_ThreadQueue) + 1] = j
    BY <1>1, <1>t DEF MakeThread, TypeOK
  <2>2. UNCHANGED <<terminated, swt>>
    BY <1>1 DEF MakeThread
  <2>3. InFlight' = InFlight
    BY <2>2 DEF InFlight
  <2>4. swt # NoJob => Len(terminated) + 1 \in 1..Len(accepted)
    BY <1>t DEF FIFO, InFlight
  <2>5. ASSUME NEW i \in 1..Len(m_ThreadQueue')
        PROVE  m_ThreadQueue'[i] = accepted'[Len(terminated') + InFlight' + i]
    <3>1. CASE i \in 1..Len(m_ThreadQueue)
      <4>1. Len(terminated) + InFlight + i \in 1..Len(accepted)
        BY <1>t, <3>1 DEF FIFO
      <4>2. QED
        BY <1>t, <2>1, <2>2, <2>3, <3>1, <4>1 DEF FIFO
    <3>2. CASE i = Len(m_ThreadQueue) + 1
      <4>1. Len(terminated) + InFlight + i = Len(accepted) + 1
        BY <1>t, <3>2 DEF FIFO
      <4>2. QED
        BY <2>1, <2>2, <2>3, <3>2, <4>1
    <3>3. QED
      BY <1>t, <2>1, <3>1, <3>2
  <2>6. Len(terminated) <= Len(accepted)
    BY <1>t DEF FIFO
  <2>7. QED
    BY <1>t, <2>1, <2>2, <2>3, <2>4, <2>5, <2>6 DEF FIFO
<1>2. CASE StopFlush
  <2>1. swt = NoJob
    BY <1>2 DEF StopFlush, ControlInv, Control
  <2>2. /\ Len(terminated') = Len(terminated) + 1
        /\ \A i \in 1..Len(terminated) : terminated'[i] = terminated[i]
        /\ terminated'[Len(terminated) + 1].job = m_ThreadQueue[1]
        /\ Len(m_ThreadQueue) > 0
        /\ Len(m_ThreadQueue') = Len(m_ThreadQueue) - 1
        /\ \A i \in 1..Len(m_ThreadQueue) - 1 : m_ThreadQueue'[i] = m_ThreadQueue[i + 1]
    BY <1>2, <1>t DEF StopFlush, TypeOK
  <2>3. UNCHANGED <<accepted, swt>> /\ InFlight = 0 /\ InFlight' = 0
    BY <1>2, <2>1 DEF StopFlush, InFlight
  <2>4. m_ThreadQueue[1] = accepted[Len(terminated) + 1]
    <3>1. 1 \in 1..Len(m_ThreadQueue) /\ Len(terminated) + InFlight + 1 = Len(terminated) + 1
      BY <1>t, <2>2, <2>3
    <3>2. QED
      BY <3>1 DEF FIFO
  <2>5. ASSUME NEW i \in 1..Len(m_ThreadQueue')
        PROVE  m_ThreadQueue'[i] = accepted'[Len(terminated') + InFlight' + i]
    <3>1. /\ i + 1 \in 1..Len(m_ThreadQueue)
          /\ i \in 1..Len(m_ThreadQueue) - 1
          /\ Len(terminated) + InFlight + (i + 1) = Len(terminated') + InFlight' + i
      BY <1>t, <2>2, <2>3
    <3>2. QED
      BY <2>2, <2>3, <3>1 DEF FIFO
  <2>6. ASSUME NEW i \in 1..Len(terminated') PROVE terminated'[i].job = accepted'[i]
    <3>1. CASE i = Len(terminated) + 1
      BY <2>2, <2>3, <2>4, <3>1
    <3>2. CASE i \in 1..Len(terminated)
      <4>1. terminated[i].job = accepted[i]
        BY <3>2 DEF FIFO
      <4>2. QED
        BY <2>2, <2>3, <3>2, <4>1
    <3>3. QED
      BY <1>t, <2>2, <3>1, <3>2
  <2>7. Len(accepted') = Len(terminated') + InFlight' + Len(m_ThreadQueue')
    <3>1. Len(accepted) = Len(terminated) + InFlight + Len(m_ThreadQueue)
      BY DEF FIFO
    <3>2. QED
      BY <1>t, <2>2, <2>3, <3>1
  <2>8. QED
    BY <2>1, <2>3, <2>5, <2>6, <2>7 DEF FIFO
<1>3. CASE WRunFrame
  <2>1. swt = NoJob
    BY <1>3 DEF WRunFrame, ControlInv, Control
  <2>2. QED
    BY <1>3, <1>t, <2>1, FIFOPop, FIFOUnchanged DEF WRunFrame
<1>4. CASE WDrain
  <2>1. swt = NoJob
    BY <1>4 DEF WDrain, ControlInv, Control
  <2>2. QED
    BY <1>4, <1>t, <2>1, FIFOPop, FIFOUnchanged DEF WDrain
<1>5. CASE WFinishJob
  <2>1. swt # NoJob /\ swt \in Jobs
    BY <1>5, <1>t DEF WFinishJob, ControlInv, Control, TypeOK
  <2>2. /\ Len(terminated') = Len(terminated) + 1
        /\ \A i \in 1..Len(terminated) : terminated'[i] = terminated[i]
        /\ terminated'[Len(terminated) + 1].job = swt
    BY <1>5, <1>t, <2>1 DEF WFinishJob, TypeOK
  <2>3. /\ UNCHANGED <<accepted, m_ThreadQueue>>
        /\ swt' = NoJob /\ InFlight = 1 /\ InFlight' = 0
    BY <1>5, <2>1 DEF WFinishJob, InFlight
  <2>4. ASSUME NEW i \in 1..Len(terminated') PROVE terminated'[i].job = accepted'[i]
    <3>1. CASE i = Len(terminated) + 1
      <4>1. swt = accepted[Len(terminated) + 1]
        BY <2>1 DEF FIFO
      <4>2. QED
        BY <2>2, <2>3, <3>1, <4>1
    <3>2. CASE i \in 1..Len(terminated)
      <4>1. terminated[i].job = accepted[i]
        BY <3>2 DEF FIFO
      <4>2. QED
        BY <2>2, <2>3, <3>2, <4>1
    <3>3. QED
      BY <1>t, <2>2, <3>1, <3>2
  <2>5. Len(accepted') = Len(terminated') + InFlight' + Len(m_ThreadQueue')
    BY <1>t, <2>2, <2>3 DEF FIFO
  <2>6. ASSUME NEW i \in 1..Len(m_ThreadQueue')
        PROVE  m_ThreadQueue'[i] = accepted'[Len(terminated') + InFlight' + i]
    <3>1. Len(terminated) + InFlight + i = Len(terminated') + InFlight' + i
      BY <1>t, <2>2, <2>3
    <3>2. QED
      BY <2>3, <3>1 DEF FIFO
  <2>7. QED
    BY <2>3, <2>4, <2>5, <2>6 DEF FIFO
<1>6. CASE UNCHANGED queueVars
  BY <1>6, FIFOUnchanged
<1>7. QED
  BY <1>1, <1>2, <1>3, <1>4, <1>5, <1>6
     DEF Next, OwnerContinue, WorkerStep, Start, Pause, Unpause, Stop, UnpauseSignal,
         UnpauseAdd, StopUnpause, StopSignal, StopJoin, StopFree, WReadState,
         WCheckQueue, WEnterAddWait, WWakeAdd, WClearWaiting, WReread,
         WEnterPauseWait, WWakePause, WSpuriousWake, vars

\* From MakeThread to OnTerminate no job is lost, duplicated or overtaken.
THEOREM JobsInOrder == SafetySpec => []FIFO
<1>1. Init => FIFO
  BY DEF Init, FIFO, InFlight
<1>2. QED
  BY <1>1, ControlInit, ControlStep, FIFOStep, PTL DEF SafetySpec

-----------------------------------------------------------------------------
(* PauseBound.  A job can still begin during a pause for each of two        *)
(* reasons; each job that does begin uses one of them up.                   *)

\* The worker is past its test of m_state and about to pop.
PastTest == IF wpc = "pop" THEN 1 ELSE 0
\* m_PauseSignal is set and will let one wait through.
StaleSignal == IF m_PauseSignal THEN 1 ELSE 0
PauseBudget ==
  Latched /\ m_state = "Paused" => overrun + PastTest + StaleSignal <= 2

\* A latched signal buys at most one more job after a Pause, a worker past its
\* test of m_state another one; no step mints a third.
LEMMA PauseBudgetStep ==
  ASSUME ControlInv, PauseBudget, [Next]_vars PROVE PauseBudget'
<1> USE DEF PauseBudget, PastTest, StaleSignal, Latched
<1>t. /\ overrun \in Nat /\ m_PauseSignal \in BOOLEAN
      /\ m_state \in {"Stopped", "Paused", "Running"}
      /\ mpc \in {"unpause_signal", "unpause_add"} => m_state = "Running"
      /\ mpc \in {"stop_unpause", "stop_signal", "stop_join", "stop_flush"} => m_state = "Stopped"
      /\ wpc \in {"drain", "drain_run"} => m_state = "Stopped"
  BY DEF ControlInv, TypeOK, Control, WorkerState
<1>u. (overrun \in Nat)' /\ (m_PauseSignal \in BOOLEAN)'
  BY ControlStep DEF ControlInv, TypeOK
<1> USE DEF queueVars, signalVars, ownerVars, workerVars
<1>1. CASE Start \/ Pause \/ Unpause \/ OwnerContinue
  <2>1. CASE Pause
    BY <2>1, <1>u DEF Pause
  <2>2. CASE Start \/ Unpause \/ UnpauseSignal \/ UnpauseAdd
    BY <1>t, <2>2 DEF Start, Unpause, UnpauseSignal, UnpauseAdd
  <2>3. CASE StopUnpause \/ StopSignal \/ StopJoin \/ StopFlush \/ StopFree
    BY <1>t, <2>3 DEF StopUnpause, StopSignal, StopJoin, StopFlush, StopFree
  <2>4. QED
    BY <1>1, <2>1, <2>2, <2>3 DEF OwnerContinue
<1>2. CASE (\E j \in Jobs : MakeThread(j)) \/ (\E f \in BOOLEAN : Stop(f))
  BY <1>t, <1>2 DEF MakeThread, Stop
<1>3. CASE WReadState \/ WCheckQueue \/ WEnterAddWait \/ WWakeAdd \/ WClearWaiting
           \/ WReread \/ WEnterPauseWait \/ WFinishJob
  BY <1>t, <1>3 DEF WReadState, WCheckQueue, WEnterAddWait, WWakeAdd, WClearWaiting,
     WReread, WEnterPauseWait, WFinishJob
<1>4. CASE WWakePause
  BY <1>t, <1>4 DEF WWakePause
<1>5. CASE WRunFrame
  BY <1>t, <1>5 DEF WRunFrame, Pop
<1>6. CASE WDrain
  BY <1>t, <1>6 DEF WDrain
<1>7. CASE WSpuriousWake
  BY <1>7 DEF WSpuriousWake
<1>8. CASE UNCHANGED vars
  BY <1>8 DEF vars
<1>9. QED
  BY <1>1, <1>2, <1>3, <1>4, <1>5, <1>6, <1>7, <1>8 DEF Next, WorkerStep

\* With events that stay set until a wait takes them (WinThreads.cpp), at most
\* two jobs begin between a Pause and the next Unpause.
THEOREM PauseIsBounded == SafetySpec => []PauseBound
<1>1. Init => PauseBudget
  BY DEF Init, PauseBudget
<1>2. ControlInv /\ PauseBudget => PauseBound
  BY DEF ControlInv, TypeOK, PauseBudget, PauseBound, PastTest, StaleSignal
<1>3. ControlInv /\ PauseBudget /\ [Next]_vars => PauseBudget'
  BY PauseBudgetStep
<1>4. QED
  BY <1>1, <1>2, <1>3, ControlInit, ControlStep, PTL DEF SafetySpec

-----------------------------------------------------------------------------
(* ThreadWorker implements JobQueue.                                        *)

\* The head of the queue is the job the contract expects next.
LEMMA NextOfQueue ==
  ASSUME TypeOK, FIFO, swt = NoJob, m_ThreadQueue # <<>>
  PROVE  /\ Len(terminated) < Len(accepted)
         /\ Head(m_ThreadQueue) = accepted[Len(terminated) + 1]
<1>1. /\ Len(m_ThreadQueue) \in Nat \ {0} /\ Len(terminated) \in Nat
      /\ Head(m_ThreadQueue) = m_ThreadQueue[1]
      /\ InFlight = 0
  BY DEF TypeOK, InFlight
<1>2. Len(accepted) = Len(terminated) + InFlight + Len(m_ThreadQueue)
  BY DEF FIFO
<1>3. 1 \in 1..Len(m_ThreadQueue) /\ Len(terminated) + InFlight + 1 = Len(terminated) + 1
  BY <1>1
<1>4. m_ThreadQueue[1] = accepted[Len(terminated) + 1]
  BY <1>3 DEF FIFO
<1>5. QED
  BY <1>1, <1>2, <1>4

\* PopThreadFromQueue is the contract's Begin.
LEMMA PopBegins ==
  ASSUME TypeOK, FIFO, swt = NoJob, Pop, UNCHANGED ownerVars, ~(m_state = "Stopped" /\ mpc = "idle")
  PROVE  Contract!Begin
  BY NextOfQueue DEF Pop, ownerVars, Contract!Begin, Contract!HasNext, Contract!NextJob

\* Every step of the two threads is a step of the contract or changes nothing
\* the contract sees.
LEMMA RefinementStep ==
  ASSUME ControlInv, FIFO, [Next]_vars PROVE [Contract!Next]_(Contract!vars)
<1>t. TypeOK /\ Control
  BY DEF ControlInv
<1> USE DEF queueVars, signalVars, ownerVars, workerVars
<1>1. CASE Start
  <2>1. Contract!Open
    BY <1>1 DEF Start, Contract!Open
  <2>2. QED
    BY <2>1 DEF Contract!Next
<1>2. ASSUME NEW j \in Jobs, MakeThread(j) PROVE Contract!Next
  <2>1. Contract!Accept(j)
    BY <1>2 DEF MakeThread, Contract!Accept
  <2>2. QED
    BY <2>1 DEF Contract!Next
<1>3. ASSUME NEW f \in BOOLEAN, Stop(f) PROVE Contract!Next
  <2>1. Contract!Close(f)
    BY <1>3 DEF Stop, Contract!Close
  <2>2. QED
    BY <2>1 DEF Contract!Next
<1>4. CASE StopFlush
  <2>1. swt = NoJob /\ m_FlushType /\ m_state = "Stopped"
    BY <1>4, <1>t DEF StopFlush, Control
  <2>2. Contract!Cancel
    BY <1>4, <1>t, <2>1, NextOfQueue
       DEF StopFlush, Contract!Cancel, Contract!HasNext, Contract!NextJob
  <2>3. QED
    BY <2>2 DEF Contract!Next
<1>5. CASE StopFree
  <2>1. swt = NoJob /\ m_state = "Stopped"
    BY <1>5, <1>t DEF StopFree, Control
  <2>2. ~(Len(terminated) < Len(accepted))
    <3>1. Len(accepted) = Len(terminated) + InFlight + Len(m_ThreadQueue)
      BY DEF FIFO
    <3>2. QED
      BY <1>5, <1>t, <2>1, <3>1 DEF StopFree, InFlight, TypeOK
  <2>3. Contract!Closed
    BY <1>5, <2>1, <2>2 DEF StopFree, Contract!Closed, Contract!HasNext
  <2>4. QED
    BY <2>3 DEF Contract!Next
<1>6. CASE WRunFrame
  <2>1. CASE Pop
    <3>1. Contract!Begin
      BY <1>6, <1>t, <2>1, PopBegins DEF WRunFrame, Control
    <3>2. QED
      BY <3>1 DEF Contract!Next
  <2>2. QED
    BY <1>6, <2>1 DEF WRunFrame, Contract!vars
<1>7. CASE WDrain
  <2>1. CASE Pop
    <3>1. Contract!Begin
      BY <1>7, <1>t, <2>1, PopBegins DEF WDrain, Control
    <3>2. QED
      BY <3>1 DEF Contract!Next
  <2>2. QED
    BY <1>7, <2>1 DEF WDrain, Contract!vars
<1>8. CASE WFinishJob
  <2>1. Contract!End
    BY <1>8, <1>t DEF WFinishJob, Control, Contract!End
  <2>2. QED
    BY <2>1 DEF Contract!Next
<1>9. CASE Pause \/ Unpause \/ UnpauseSignal \/ UnpauseAdd \/ StopUnpause
           \/ StopSignal \/ StopJoin
  BY <1>9, <1>t DEF Control, Pause, Unpause, UnpauseSignal, UnpauseAdd, StopUnpause,
     StopSignal, StopJoin, Contract!vars
<1>10. CASE WReadState \/ WCheckQueue \/ WEnterAddWait \/ WWakeAdd \/ WClearWaiting
            \/ WReread \/ WEnterPauseWait \/ WWakePause \/ WSpuriousWake
  BY <1>10 DEF WReadState, WCheckQueue, WEnterAddWait, WWakeAdd, WClearWaiting, WReread,
     WEnterPauseWait, WWakePause, WSpuriousWake, Contract!vars
<1>11. CASE UNCHANGED vars
  BY <1>11 DEF vars, Contract!vars
<1>12. QED
  BY <1>1, <1>2, <1>3, <1>4, <1>5, <1>6, <1>7, <1>8, <1>9, <1>10, <1>11
     DEF Next, OwnerContinue, WorkerStep

\* On both platforms and for every use of the API the worker keeps the safety
\* part of the IWorker contract: jobs run one at a time in the order they were
\* accepted, each is terminated once, and only Stop(true) cancels any.
THEOREM WorkerImplementsContract == SafetySpec => Implements
<1>1. Init => Contract!Init
  BY DEF Init, Contract!Init
<1>2. Init => FIFO
  BY DEF Init, FIFO, InFlight
<1>3. ControlInv /\ FIFO /\ [Next]_vars => [Contract!Next]_(Contract!vars)
  BY RefinementStep
<1>4. QED
  BY <1>1, <1>2, <1>3, ControlInit, ControlStep, FIFOStep, PTL
     DEF SafetySpec, Implements, Contract!Spec
=============================================================================
