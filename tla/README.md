# TLA+ specifications of amxmodc

amxmodc is AMX Mod X moved into the GoldSrc *client*: `amxmodx/` is the host
that loads Pawn plugins and gives them natives, forwards and tasks, `dlls/`
holds its extension modules.  This directory models the parts of it whose
correctness depends on order: a thread and its owner, callbacks that call back
into the code that called them, objects that are recycled, and files that must
survive a crash.

Paths below are relative to `src/`.

## 1. Inventory

### The parts that carry state over time

| Part | State | Operations | Talks to |
|---|---|---|---|
| **SQL worker** `dlls/mysqlx/thread/` | `m_state`, `m_ThreadQueue`, `m_Waiting`, two event signals, two mutexes, the thread | `Start`, `MakeThread`, `Pause`, `Unpause`, `Stop(flush_cancel)`; on its own thread `RunThread` | calls `RunThread` and `OnTerminate` of its jobs |
| **Threaded queries** `dlls/mysqlx/threading.cpp` | `g_pWorker`, `g_QueueLock`, the stacks `g_ThreadQueue` and `g_FreeThreads`, the `MysqlThread` objects | `SQL_ThreadQuery`, `StartFrame`, `OnPluginsLoaded`, `OnPluginsUnloading`, `ShutdownThreading`; on the worker `MysqlThread::RunThread`, `OnTerminate` | owns the worker; registers and executes forwards |
| **Forward manager** `amxmodx/CForward.cpp` | `m_Forwards`, `m_SPForwards`, `m_FreeSPForwards`, per slot `isFree`, `m_ToDelete`, `m_InExec`; `m_TmpArrays` | `registerSPForward`, `duplicateSPForward`, `unregisterSPForward`, `executeForwards`, `prepareArray`, `clear` | runs plugin code, which calls it again |
| **Task scheduler** `amxmodx/CTask.cpp` | list `m_Tasks` of `CTask`, the clock | `set_task`, `remove_task`, `change_task`, `startFrame`, `clear` | one SP forward per task; callbacks call the natives |
| **nvault** `dlls/nvault/` | table `m_Hash`, `m_Journal`, vault file, journal file; table of vault ids | `Open`, `SetValue`, `Remove`, `Touch`, `Prune`, `Clear`, `Close` | the file system |
| **Cell tries** `amxmodx/sm_trie_tpl.h`, `trie_natives.*` | per trie the array `m_base`, `m_empty`; values with their cell blocks; the handle table | `TrieCreate`, `TrieSet*`, `TrieDeleteKey`, `TrieClear`, `TrieDestroy`, clearing at a map change | plugins |
| **Dynamic natives and callfunc** `amxmodx/natives.cpp`, `amxmodx.cpp` | registered natives, the globals of the call in progress (`g_pCurNative`, `g_pCaller`, `g_Params`, `g_CurError`), `g_CallFunc_Plugin` | `amxx_DynaCallback`, `get_param*`, `log_error`, `callfunc_begin`, `callfunc_end` | the AMX machine, other plugins, the debugger |
| **Debugger, filters, LogError** `amxmodx/debugger.cpp`, `modules.cpp` | per plugin the levels of the debugger, the flags of the handler, `amx->error` | `BeginExec`, `EndExec`, `LogError`, `HandleError`, `HandleNative` | everything that calls `amx_Exec` |
| **Ham Sandwich** `dlls/hamsandwich/` | hooks with their pre and post forwards, four stacks of call data, `gDoForwards` | `RegisterHam`, `ExecuteHam`, `ExecuteHamB`, enable and disable, `SetHamReturn*`, `SetHamParam*`, the hooked call | the game's entities, forwards |
| **Plugin manager** `amxmodx/CPlugin.cpp` | list of plugins, status, pause functions | `loadPlugin`, `pause`, `unpause`, `Finalize`, `clear` | forwards ask it whether a plugin is executable |
| **Console commands** `amxmodx/CCmd.cpp` | sorted lists, prefix lists, the cached iterator of `getCmd` | `registerCommand`, `registerPrefix`, `clearBufforedInfo`, `clear` | natives and the client host |
| **Module loader** `amxmodx/modules.cpp`, `CModule.cpp` | list of modules with status | load, attach, detach | all modules |

The remaining parts - string, file and format natives, cell arrays, sorting,
log events, `CVault`, the plugin file format, the MySQL wrappers, the
client and server hosts - are conversions, sequential containers or glue; the
AMX interpreter and the Pawn compiler are third-party code.  Every part is
listed with its status in `PROJECT.json`.

### What is hard

* **Two threads.**  The worker reads `m_state` under one lock and decides to
  sleep under another; `m_Waiting` is read and cleared outside both.  Windows
  events remember a signal, POSIX condition variables lose it.
* **Callbacks.**  A plugin function called through a forward may unregister
  that forward, execute it again, remove or change the task it runs for, or
  start new queries, all before it returns into the middle of the caller.
* **Recycling.**  Forward slots, `CTask` objects and `MysqlThread` objects are
  reused; an old user or an old field may still be there.
* **Errors in the middle.**  A run-time error leaves an execution that five
  different C++ functions may have begun, two of them for filters that handle
  the error of another execution; each keeps globals, flags and a level of the
  debugger that must be as before.
* **One array for all.**  The nodes of a trie are packed into one array: an
  insertion may move nodes of other keys, or the node it stands on.
* **Crashes.**  nvault has two files and no transaction around them.

### What makes each part correct

* worker: jobs in order, each terminated once; locks outlive their users; the
  worker never sleeps beside a job; `Stop` returns; `Pause` pauses.
* queries: an object is with one thread at a time; each query is answered once,
  with its own result and its own data.
* forwards: an id belongs to one client, no slot is lost, a slot in use is kept,
  an array passed to a callback is the one copied back.
* tasks: every task owns its forward; never early, never passed over, retired
  after its last call.
* nvault: after a crash a vault is a table it once had.
* tries: a store changes its own key only; no node becomes unreachable.
* plugin calls: a dynamic native sees its own caller and parameters; the
  debugger's levels are the executions; no error is silenced by an older one.
* Ham: a callback's natives reach its own call; a superceded original is not
  called; what a forward set is what the call returns.

## 2. Modules

```
JobQueue  <--implements--  ThreadWorker  <--  ThreadWorkerProofs
   ^                             ^
   | INSTANCE (the worker)       MCThreadWorker
SqlThreading  <--  MCSqlThreading, SqlThreadingProofs

ForwardTable (a value and its operators)
   ^                              ^
Forwards <-- ForwardsProofs      Tasks <-- TasksProofs
   ^                              ^
MCForwards                       MCTasks

KTrie (a value and its operators)
   ^
CellTries -- INSTANCE --> Dictionaries
   ^
MCCellTries, CellTriesProofs

NVault      <--  MCNVault, NVaultProofs
PluginCalls <--  MCPluginCalls, PluginCallsProofs
HamHooks    <--  MCHamHooks, HamHooksProofs
```

Definitions have the names of the code where there is one; `map` in
`PROJECT.json` gives the lines of each.  An operator named `X_Something` with a
comment `Fault:` is a wrong version of `X`; it is used by no specification, only
to show that the properties notice it.  A module `XProofs` extends `X` with its
inductive invariant and theorems.

### JobQueue - what `IWorker` promises

Jobs are accepted, run one at a time in order and terminated exactly once;
only `Stop(true)` cancels; a stopped worker has no job left.  No thread, no
signal.

### ThreadWorker - how the worker does it

Two processes: the owner (`mpc`) and the worker thread (`wpc`).  A step is the
code between two points where another thread can get in: the release of a lock,
a wait, an access to `m_Waiting` outside the lock.  `RunThread` becomes
`WReadState` (copy `m_state`), `WCheckQueue` (under the queue lock: empty?
`m_Waiting = true`), `WEnterAddWait`, `WWakeAdd`, `WClearWaiting`, `WReread`
(state again; drain or leave when stopped), `WEnterPauseWait`, `WWakePause`,
`WRunFrame`, `WFinishJob`.  `Stop` becomes `Stop`, `StopUnpause`, `StopSignal`,
`StopJoin`, `StopFlush`, `StopFree`.  The variable `platform`, chosen from
`Platforms` once and for all, is `WinThreads.cpp` (`Latched`: a signal stays
until a wait takes it) or `PosixThreads.cpp` (only a thread already waiting is
reached; a wait may end by itself, and the code has no loop around it).  A
member of `Jobs` is one submission.  Creating the thread is assumed to succeed;
think time and priorities are left out.

### ForwardTable and Forwards

`ForwardTable` has the slot table with its free stack as a value
(`[sp, free]`) and one operator per function of `CForwardMngr` that changes it,
so that two specifications can use it.  `Forwards` drives it with clients that
register (by number, by a name that exists or does not, or as a copy), execute
and unregister in any nesting; `stack` holds the executions in progress.  An
execution is `executeSP` (the callback is entered) and `executeReturn` (the end
of `execute` and of `executeForwards`, with its deferred unregistration and its
reset of `m_TmpArraysNum`), or `executeSPRefused` for a paused plugin.  A client
unregisters an id once, as the core and the modules do.  Ids are indices; the
code's `(index << 1) | 1` is a bijection of them.

### Tasks

`startFrame` is split at the only place where other code runs, the callback:
`SkipTask`, `BeginCallback`/`RefuseCallback`, the natives, `EndCallback`,
`AfterCall`.  Every task has a forward in `fm`, taken and released by the
operators of `ForwardTable`.  Tasks of different plugins with the same id are
different ids here.  The clock is an integer.

### SqlThreading

The worker is `JobQueue`, instantiated with the `MysqlThread` objects as jobs.
What an object holds is a record: whose forward, which query, whose data, whose
result.  `Execute` is the call of the handler, `EndExecute` its return; between
them the handler may call `SQL_ThreadQuery`, and the worker goes on.  Plugins
may be unloaded and loaded again at any time no handler runs.  The rows of a
result are left out.

### NVault

One vault.  The variables `file` and `journal` are what a later `Open` would
read from the disk; `buffer` is what stdio holds back.  `Open` and `Close` are
split at every file operation, and `Crash` may come between any two.  `Replay`
is a recursive function.  The code has places where the files stop telling the
whole story; each sets a member of the history variable `gaps`:

| gap | code | what happens |
|---|---|---|
| `touch` | `NVault.cpp:334` | `Touch` is not journaled |
| `tick` | `:279`, `:284` | journal and table get different seconds |
| `restored` | `:251` | the journal is erased, the restored table not saved |
| `no_journal` | `:255` | changes without a journal |
| `torn` | `:168` | crash while the file is written in place |
| `save_failed` | `:268` | the result of the save is ignored |
| `unflushed` | `:268` | crash after the save with a journal cut short |

A failed write of a single journal record is not modelled.

### KTrie, Dictionaries, CellTries

`KTrie` has the double-array trie of `sm_trie_tpl.h` as a value and one operator
per function.  A node keeps its `idx`, `parent` and mode; the string table is
gone, a Term node has the rest of its key (`rest`) instead of an offset.
`Path` is the loop that follows a key from the root, in `internal_retrieve` and
in `insert`.  `insert` distinguishes what the code's comments call CASES 1 and 2
(a free slot), 3 (a Term with another rest: `Split`, whose `Paths` are the arcs
of the common prefix, each a `Rebase` of the last node and a new child) and 4
(another parent's slot: `Relocate`, which moves the smaller list of children).
`CellTries` adds the
values (`TrieData` with its shared block of cells), the handle table and the
natives; getters change nothing and are `retrieve`.  `Dictionaries` says what
the natives promise, a function from keys to entries per handle, and
`TriesAreDictionaries` relates the two in every state: an entry has the type and
the cells of the last store.  Behind the cells of an array `retrieve` may find
more, the tail of a longer one that the block held before (`needCells`); nothing
is promised of them.  A store of an array without cells is refused by
`setArray` and makes the key set, no more; the promise says the same.  `TrieClear`
leaves no key in the dictionary.  The code leaves the empty key in the trie; the
history variable `survivors` names the tries where that has happened, and
`ClearForgets` is the run that shows it.

Characters are numbers from 1.  An arc without children has base 0, so that its
child for character 1 is slot 1, the root.  To `insert` that is a slot of
another parent.  When the root has at most one child, `Relocate` moves it away
and writes the new node over the root itself; a trie is `Rooted` until then.
What a walk that starts at such a node finds depends on the offset in the
string table that has become its base, which the model does not have: stores and
deletions stop for such a trie, while it can still be cleared (which gives it
its root back) and destroyed, and the store that overwrites the root writes into
any value of the trie.  `RootKept` says that only a key with character 1 does
it.

### PluginCalls

A frame is one `amx_Exec` and the C++ function that called it: a forward, a
dynamic native, callfunc, the error filter or the native filter.  Plugin code
takes one native at a time; `amx_Exec(err)` ends it.  What the function does
after `amx_Exec` is one action, or two where `LogError` runs an error filter in
between.  `amx` has per plugin the error, the status, `m_Top` and the traced
errors of the debugger, and the flags of the handler; `g` the four globals of
natives.cpp, which a frame saves as the code does, `g_Params` only inside
another native.  Left out: natives of style 1, `AMX_ERR_SLEEP`, the module
filter and the filters run while a plugin loads.  Pausing happens between
executions, as the console commands do it.

A plugin with both a debugger and a native filter is left out of `DebugBalanced`
and `NoStaleTrace`, and `TypeOK` says no more of its `m_Top` than that it is an
integer: after a run-time error in the filter `LogError` closes a level
(`modules.cpp:1406`) that `HandleNative` closes again (`debugger.cpp:794`).

### HamHooks

A frame is a hooked call, or the original called by `ExecuteHam` where no hook
is.  All `Hook_*` functions are the macros of `hook_callbacks.cpp` around one
call and are one model: `Enter` (push, `PRE_START`), `PreForward` and
`CallbackReturns` for each forward, `CallOriginal`, `OriginalReturns`,
`PostForward`, `Pop` (`POST_END`, `KILL_VECTOR`, `POP`), `Return`
(`CHECK_RETURN`).  Between them the callback or the game calls on.
`OrigReturnStack` is pushed and popped with `ReturnStack` and left out.
Values set by the natives are the depth of the call whose callback set them.
An aborted callback returns anything, since `CSPForward::execute` returns an
uninitialized variable then.  A callback that registers for the list it is run
from is left out: the loop's iterators dangle.

## 3. Runs

| Run | Instance | Shows |
|---|---|---|
| `worker` | 3 jobs, events and condition variables, all calls | `LocksOutliveUsers`, `FIFO`, `PauseBound`, the worker implements `JobQueue`; with fairness `JobsServed`, `LostSignalHeals`, `BusyStopReturns` |
| `worker_stop_hang` | 2 jobs, events, no pause | `Stop` of a running worker may wait for ever (violation) |
| `forwards` | 3 clients, 2 slots, depth 3, 2 arrays | `HandlesExclusive`, `FreeListSound`, `NoSlotLost`, `RunningSlotKept`, `ArrayKeptUntilReset` |
| `tasks` | 2 tasks, all flags, time to 3 | `TaskOwnsForward`, `NeverEarly`, `FrameServesDue`, `RetiredAfterAllRuns` |
| `sql` | 3 queries | `ObjectsExclusive`, `HandlerGetsOwnResult`, `NoQueryLost`; with fairness `QueryAnswered` |
| `nvault` | 2 keys, 2 values, 3 changes, 2 seconds | `RecoversTable` |
| `nvault_second_crash` | the same | a second crash loses what the first replay restored (violation) |
| `celltries` | 6 keys over 3 characters, array of 4 slots, 8 stores, 1 handle used twice | `NoOrphans`, `TriesAreDictionaries`, `RootKept`, `BlocksLostWithTrie` |
| `celltries_clear` | the same, 1 handle | the empty key outlives `TrieClear` (violation) |
| `calls` | 2 plugins, 2 dynamic natives, 3 executions deep | `DynContext`, `DebugBalanced`, `NoStaleTrace`, `FilterFlags` |
| `ham` | 2 functions, 2 forwards, 2 calls deep, 2 uses of `ExecuteHam` | `HookStacks`, `SupercedeBlocks`, `OneSkipPerExecuteHam` |
| `ham_override` | the same | an override is dropped by a later forward (violation) |

**Bounds.**  Three jobs are one running, one waiting and one to overtake. Three
clients at depth three are a forward entered again from inside its own callback
while a third party takes and releases slots; with two array entries two
prepared arrays are alive at once, and the third execution reaches the limit and
the reset of `prepareArray`.  Two slots are the one in use and the one the third
party takes or waits for; with three slots the properties hold as well, in
3.8 million states.  Two tasks are the one that runs and the one it
sets or removes; a repeat count of 0 and 2 and a time of 3 give the exhausted
loop, the last call and a late frame.  Three queries are an object that runs,
one finished and one recycled.  Three changes are insert, prune or remove, and
one more, so that a replayed prefix can differ from every table the vault had.
The keys of `celltries` share prefixes and, in an array that small, slots: both
lists of `Relocate` move, all three ends of `Split` happen, the array doubles,
and the keys with character 1 take the root in some orders and find room
elsewhere in others.  In `calls` one plugin has the debugger and the error
filter and the other the native filter, so that an error crosses from one to the
other and back in three executions; error filters come on top of the bound.  In
`ham` two forwards of one function disagree, and a call is nested in a callback
of the other function or of its own; larger instances (three calls, or three
forwards, with one `ExecuteHam`) pass as well and take minutes.  Symmetry is
used only in runs without liveness properties.  Deadlock is checked in `calls`
and `ham`, not in the others: an owner may stop calling, a module may be
detached, and the clocks and the number of tries are bounded.

**Fairness.**  The operating system runs both threads, so a worker step that
stays enabled is taken, and a call the owner has entered goes on
(`ThreadWorker!Fairness`).  Nothing obliges the owner to begin a call, and
nothing obliges a spurious wake-up.  `JobsServed` is for events.  With condition
variables a signal may be lost; `LostSignalHeals` says that the job it was for
is run all the same once another job is accepted.  `BusyStopReturns` promises
that `Stop` returns in two cases: with events, when the worker was running and
its queue held a job; with either library, when the worker was paused in the
middle of a job.  It promises nothing for a paused worker that sleeps: `Stop`
waits for it for ever (`ThreadWorker.cpp:198`), and `StopReturns`, violated for
a running worker already, is what ought to hold.  In `SqlThreading` the engine
keeps calling `StartFrame`, handlers return, and the worker serves its queue:
that last one is `JobsServed`, which holds for Windows events and not for
condition variables, so `QueryAnswered` is claimed for the former only.  The
other modules claim no liveness: their steps are calls that plugins or the game
may make or not.

**Violations.**  The four runs that end in one are listed under `findings`
with the line of the code and the sentence of the repository it disagrees with.

**Known weaknesses without a run.**  These follow from the models as well; no
property claims the contrary:

* `Stop` of a paused worker that sleeps never returns: it sets the state before
  it calls `Unpause`, which then signals nobody (`ThreadWorker.cpp:198`).
* With condition variables the broadcast of `AddThreadToQueue` is lost when the
  worker has tested the queue and does not wait yet (`PosixThreads.cpp:245`), and
  the job stays in the queue beside a sleeping worker until the next one arrives.
  `LostSignalHeals` is what remains true.
* A forward entered again from its own callback clears `m_InExec` while the outer
  execution goes on (`CForward.cpp:365`); a later unregistration frees the slot in
  use.  `RunningSlotKept` leaves such executions out.
* A returning execution sets `m_TmpArraysNum` to 0 (`CForward.cpp:477`): an
  array prepared after a nested execution overwrites the entry of the outer
  call.  `ArrayKeptUntilReset` is what remains true.
* `change_task` called from the task's own callback sets the next time, and
  `executeIfRequired` adds the interval again (`CTask.cpp:171`): the call comes
  one interval late.
* A threaded query without data that recycles an object passes the data of an
  earlier query to its handler (`threading.cpp:119`).
* `callfunc_end` leaves the error of the plugin it called (`amxmodx.cpp:1499`);
  a plugin aborted between `callfunc_begin` and `callfunc_end` blocks the next
  `callfunc_begin` of any plugin; a failed plugin can be revived by pausing and
  unpausing it (`CPlugin.cpp:430`, `natives.cpp:85`).
* A refused `ExecuteHam` leaves `gDoForwards` false, and the next hooked call of
  the game skips its forwards (`hook_native.cpp:421`); `OneSkipPerExecuteHam`
  allows it, and says that it is one call and not more.
* An aborted callback of a Ham forward returns an uninitialized value
  (`CForward.cpp:307`), which may be `HAM_SUPERCEDE`; the properties of `ham` take
  it for what the callback returned.
* A shorter array stored under a key is read back with the tail of the longer one
  before it, when it is read with the longer size (`trie_natives.h:28`).
* A key with character 1 may take the root of its trie, and every other key with it
  (`sm_trie_tpl.h:183`).  `RootKept` says that no other key does.
* A run-time error in the native filter of a plugin with a debugger leaves the
  debugger a level below its executions (`debugger.cpp:794`).

## 4. Proofs

Every theorem holds for all values of the constants that the named assumptions
of the modules allow: any set of jobs, clients, queries, tasks, keys, plugins or
functions, any depth of nesting, any length of a run.  The bounds that keep TLC
finite (`MaxTasks`, `MaxDepth`, `MaxOps` ...) are arbitrary numbers there.  Each
proof has an inductive invariant `IInv` (`ControlInv` for the worker, `TriesInv`
and `CountInv` for the tries), and the theorems follow from it.  TLC checked the
invariants on the instances of section 3 before they were proved, except
`TriesInv`, which speaks of every sequence of characters.

| Module | Theorems | Properties of the runs they state |
|---|---|---|
| `ThreadWorkerProofs` | `WorkerTyped`, `LocksSafe`, `JobsInOrder`, `PauseIsBounded`, `WorkerImplementsContract` | `TypeOK`, `LocksOutliveUsers`, `FIFO`, `PauseBound`, `Implements` |
| `ForwardsProofs` | `ForwardsTyped`, `HandlesStayExclusive`, `FreeListStaysSound`, `SlotsNeverLost`, `RunningSlotsKept`, `ArraysKeptUntilReset` | all invariants of `forwards` |
| `TasksProofs` | `TasksTyped`, `TasksOwnForwards`, `NeverEarlyHolds`, `FramesServeDue`, `RetiredAllRuns` | all properties of `tasks` |
| `SqlThreadingProofs` | `SqlTyped`, `ObjectsInOnePlace`, `OwnResults`, `QueriesKept` | all invariants of `sql` |
| `NVaultProofs` | `VaultTyped`, `VaultRecovers` | all properties of `nvault` |
| `PluginCallsProofs` | `CallsTyped`, `DynContextKept`, `FilterFlagsSound`, `TracersBalanced`, `TracesFresh` | all invariants of `calls` |
| `HamHooksProofs` | `HamTyped`, `HookStacksSound`, `SupercedeAlwaysBlocks`, `ExecuteHamSkipsOnce` | all invariants of `ham` |
| `CellTriesProofs` | `TriesTypeOK`, `TriesNoOrphans`, `TriesStayDictionaries`, `TriesKeepRoot`, `TriesLoseNoBlock` | all properties of `celltries` |

`ForwardsProofs` and `TasksProofs` begin with lemmas about the slot table and its
free stack: what registering, unregistering (an idle slot, a running slot),
entering and leaving a callback do to one slot and that they leave the others
alone.

**ThreadWorker.**  From `NoJob \notin Jobs` and `Platforms` being a set of the
two libraries.  That `StopFree` destroys the locks only when the thread is gone
is not inductive: it needs `Control`, which ties the two program counters to
`m_state`, to the job in hand and to the queue.  `FIFO` follows because a pop
happens only with no job in hand and a flush only when the thread is gone.
`PauseIsBounded` says something where the signals are events (`PauseBound`
begins with `Latched`); its strengthening `PauseBudget` counts the jobs begun, a
worker already past its test of `m_state`, and a signal left behind: together
never more than two.  `WorkerImplementsContract` maps each step of the two
threads to a step of `JobQueue` or to a stutter.

**Forwards.**  From `FORWARD_MAX_PARAMS \in Nat \ {0}` (32 in the code).  The
properties need each other: a slot stays with its client because the free stack
holds no slot in use, and the stack is sound because a slot is pushed only once.
`TableInv` - the free stack and the executions name existing slots and no free
slot twice; `HeldSound` - a slot a client holds is its alone, not free and not
marked; `MarksSound` - a slot marked for deletion or as running belongs to an
execution on the stack, and one marked for deletion is not free; `SlotsCovered` -
every slot is free, held or marked; `RunningSound` - the innermost execution of a
slot keeps it.  Without `MarksSound` the end of an execution could free a slot
that a new client holds already.  `ArraysKeptUntilReset` has an invariant of its
own, `ArraysBelowNum`: an array that is still promised lies below
`m_TmpArraysNum` and is its call's.

**Tasks.**  `IInv` has two halves.  `Table` relates the forward table to the
tasks at a set of positions: each has a forward of its own (`Own`), every slot is
free, a task's or the running one that is released later (`Covered`), and only
the running slot is marked (`Marked`).  It has the table, the list and the
positions as parameters, so that it can be followed through `removeTasks` and
`clear`, which release forwards one after the other (`TableClear`).  `Sound` says
of one task what its fields mean: a next call is an interval after the last time
it was due (`Early`), calls made and calls left add up, except for the call that
is not counted down yet (`Counted`), and a due task the walk has passed was served
(`Served`).  Only the task `startFrame` has called and not finished is in
execution; that is why `m_bInExecute` has to keep `registerTask` off it.

**SqlThreading.**  `IInv` counts: each object occurs once in the worker's queue,
in the hand of the main thread or on the two stacks together (`Exclusive`); its
fields are those of its query (`Stored`, `Book`); until a shutdown a query is in
flight or answered, and never both (`Kept`).  Lemmas about `Count` say what each
of push, pop and submit does to it.  The worker is `JobQueue` here, which
`WorkerImplementsContract` justifies.

**NVault.**  From `Keys # {}` and `MaxTime \in Nat \ {0}`.  Two facts carry
`VaultRecovers`.  Until `Close` saves the table, the vault file and any first part
of the journal make a table the vault had (`Recovers`); that is what a crash
leaves.  After the save the journal is replayed on a table that has its changes
already: `ReplayTwice` proves that this changes nothing, because a record either
writes the entry of a key, the same in every table, or keeps or deletes it.

**PluginCalls.**  The invariant is stated for a stack, a value of `amx` and a
context, because an action does several things to them: the innermost frame moves,
an error is logged, a frame is pushed or popped.  Each of these keeps it, and an
action is a composition.  Its parts: the frames that may stand on each other
(`Shape`, `Placed`), the context each saved (`Contexts`), the flags of the filters
(`Flags`, `Bounded`), a tracer for each execution (`Balanced`) and the error of a
tracer as that of an execution about to end (`Traces`).  No theorem assumes
anything of which plugins have debuggers and filters; `TypeOK`, `DebugBalanced`
and `NoStaleTrace` themselves say what they leave open for a plugin with both a
debugger and a native filter.

**HamHooks.**  Each of the four stacks lists exactly the hooked calls that have
pushed and not popped, in their order (`StacksSound`); with the state of each
frame (`FramesSound`) and the flag `gDoForwards` (`CountsSound`) the properties
follow.

**CellTries.**  From `CharAssumption` (characters are numbers from 1 to
`MaxChar`, 255 in the code), `SizeAssumption` (the array of a new trie is longer
than the largest character, so that one doubling is enough for any base) and the
type of what plugins store.  `TriesInv` says of each handle that it is closed,
or that its trie has lost its root (`Ruined`), or that the trie is `Sound` and
reads as its dictionary (`Agrees`), but for an empty key that survived a
clearing.  `Sound` says of each slot of an array what the operations rely on: an
unused one is empty, an Arc has no rest, any other than the root lies behind the
base of an Arc that is its parent.  That is `NoOrphans`.

`TriesAreDictionaries` needs what a walk is.  A key *hits* the node its walk ends
at if the node's rest is the rest of the key; a key hits one node (`HitOnce`) and
a node is hit by one key (`HitKey`), because the character between a parent and a
child is the distance of their slots (`SameWord`).  Every operation is a sequence
of four effects on the array, and each effect has a lemma on `Sound`, on the
walks of every key and on what `retrieve` finds:

* `Added` - a child in an unused slot, which only keys that came to its parent
  and go on with its character can reach;
* `Rebased` - a node without children gets a base: no walk changes, but the
  node's rest does, and with it the key that hits it;
* `Valued` - a value is written;
* `Shifts` - the children of a node move: `Move` renames their slots, in the
  nodes and in the parent fields of their own children, and every walk takes the
  renamed slots.

`Relocate` is a shift and an addition; when the incoming list moves, the parent
of the new node may be one of the moved (`Moved`).  `Split` is an induction over
the common prefix: after each arc `Lengthened` says that every other key has the
value it had, that the two keys go through the path's last node and that it has
no children; the two rests are then placed behind a base for both.

Character 1 adds one case to `Place` (`PlaceRoot`): the slot is the root's.
`RelocateKey`, `InsertUnsetKey` and `InsertKey` have it as an alternative,
`RootTaken`: the trie is the old one with its nodes moved, which reads as before,
and slot 1 overwritten by the child of another node; and the key has character 1.
Nothing else reaches slot 1, because a base is 0 for nodes without children only and
every other base is found by `FreeBase`.  `TriesKeepRoot` is that alternative, seen
from the natives.  Of a `Ruined` trie the array keeps its type, and its blocks are
still counted by its slots (`TakenRuins`, `RuinedWritten`): the root held no value
that is lost with it.

`BlocksLostWithTrie` counts.  `Reached` (no value in a node that no key hits)
makes the slots that hold a block and the keys whose value has one equally many,
by a bijection (`KeySlots`), so that a store changes their number by its own
key's (`StoresBlocks`), however many nodes it moved; the rest is a sum over the
handles.  `blocks \in Nat`, no block freed that was not allocated, follows from
the same count.  Both are proved for tries without a root as well.

**Induction.**  `removeTasks`, the replay of a journal, the walk of a key, the
arcs of a common prefix and the sum over the handles are recursive functions.
What they compute is proved for any length from `SetInduction`, induction over
the natural numbers for a set, which is proved from the well-foundedness of `<`.

**Only model-checked.**  `JobsServed`, `LostSignalHeals`, `BusyStopReturns` and
`QueryAnswered`: liveness under fairness is out of the prover's reach.  The four
runs that end in a violation.  Every other property of a run is a theorem.

## 5. Not modelled, and the plan

Next:

1. Vault ids (`dlls/nvault/amxxapi.cpp`: open twice, close, reuse of an id) as a
   module over `NVault`; console commands (`CCmd`: the cached iterator of
   `getCmd` against registration).
2. `SqlThreading` over `ForwardTable`, so that the forwards of recycled objects
   that are never unregistered become visible.

Left out for good:

* Third-party code, which is most of the repository's lines: SQLite, the AMX
  interpreter and its copies, the Pawn compiler, zlib, pcre, the MySQL client
  headers, the HLSDK.  The share of the implementation the modules cover stays
  small for that reason; the parts listed in section 1 are a few thousand lines.
* Stateless code: string, float, vector and file natives, formatting.
* Wrappers of the game engine, of MySQL and of system libraries, whose state is
  on the other side, and code that exists a second time (the SQLite module has
  the worker and the threading of mysqlx).
* Editor, installer, support tools.

Seen while modelling, outside every module: the rounding of the client's
`double` clock to the `float` of `startFrame` (`cl_dlls.cpp:487`); the length of
a vault key written as one byte (`Journal.cpp:208`); `Close` using a journal
that `Open` could not create (`NVault.cpp:269`); `ShutdownThreading` before any
plugin was loaded (`threading.cpp:25`); recycled query objects that never
unregister their forward (`threading.cpp:128`); results delivered newest first
(`threading.cpp:325`); a plugin that destroys a forward twice
(`CForward.cpp:545`); sixteen parameters of a dynamic native
(`natives.cpp:73`); the raw pointers behind HamHook handles
(`hook_native.cpp:450`); the iterator cached by `getCmd` (`CCmd.cpp:86`).
A registration from a running list of Ham forwards is a hazard outside the models
as well.  Hazards the models have and no property covers are listed above as known
weaknesses, and in `PROJECT.json` with a note that says why.
