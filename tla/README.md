# Verification of the P/E-core scheduler

TLA+ modules, TLC configurations and TLAPS proofs about the programs in `src/`:
a library preloaded into every workload (`libmonitor.c`) that samples hardware
counters per thread, and a daemon (`scheduler.c`) that reads the samples from a
Unix socket, predicts how fast each process would run on performance and on
efficiency cores and sets its affinity accordingly; and about the programs around
them.

Run `tlc -config X.cfg MCY.tla` for a model-checking run of `PROJECT.json` and
`tlapm XProofs.tla` for a proof module.

## 1. The system

| Component | State it keeps | Operations | Talks to |
|---|---|---|---|
| Scheduler daemon (`scheduler.c`: `main`, `add_to_queue`, `process_queue`, `remove_queue_entry`, `cleanup_scheduler`) | `queue[MAX_QUEUE_SIZE]`, `queue_size`, a heap block of samples per entry, the connection being read | drain the backlog, insert or update an entry, walk the queue, drop the dead, stop on pid -1 | monitors through `/tmp/scheduler_socket`; the kernel through `kill`, `sched_setaffinity` |
| Start and end of the servers (`main`, `load_linear_model5`, `monitor_receiver.c`) | the socket path, two models | load, bind, serve, end or be killed | each other, through the path |
| Placement decision (`predict5`, `choose_placement_coreset_model`) | `last_on_p`, `has_last_on_p` of an entry, two linear models | predict, compare with a margin of 15 % | called from the pass |
| Weighted ratios (`compute_weighted_ratios`) | `history`, `last_used` of an entry | exponentially weighted mean of the samples of a pass | called from the pass |
| Affinity (`set_affinity_for_all_threads`, `summarize_psr_for_process`) | the masks in the kernel | walk `/proc/<pid>/task`, pin thread by thread | races with thread creation |
| Dynamic core allocation (`compute_dynamic_coresets`, `log_core_allocation`) | `compute_threads`, `io_threads`, `memory_threads`, the previous masks | share out cores | its result is logged only |
| Strings of cores (`parse_coreset`, `cores_to_string`, `init_global_cpuset`) | none | parse, print, split by core type | the command line, `CORESET` |
| Monitor library (`libmonitor.c`) | `thread_data[]`, `thread_count`, `mutex`, the perf groups, `initial_io`/`final_io`, the dataset file | constructor, interposed `pthread_create`, `pthread_exit`, `clone`, sweep every 100 ms, destructor | the workload's threads; the daemon, once per window |
| perf backend (`perf_backend.c`) | the fds of a thread | open, start, read, close | the kernel |
| Stop client (`shutdown_scheduler.c`) | none | sends pid -1 | the daemon |
| `monitor_receiver.c` | `monitor_data.csv` | reads the same messages, writes rows | monitors |
| Classifiers (`libclassifier*.c`) | forests or ONNX sessions | initialise, classify, clean up | linked into the daemon, whose calls are commented out |
| Quality test (`scheduler_quality_test1.c`) | a log of starts and ends | fork, stamp, wait, compute starvation | its children, through the log |
| Scripts, training and log parsing (Python), test workloads, cJSON, the old monitor | | | |

### What is hard about it

* The daemon is one thread, but everything it looks at changes under it. A
  process may die after any of the three `kill(pid, 0)` of an iteration, its
  PID may be used again, and messages of the dead wait in the backlog. While it
  walks the threads of a process, threads come, go, and leave their ids to others.
* Queue entries are shifted while the loop index walks them; each owns a heap
  block, and `realloc` and `malloc` may fail half-way.
* The daemon's and the recorder's reads block, a client may die between two of its
  writes, and the drain loop has no bound.
* The socket path outlives a killed server, and every start unlinks it.
* In the monitor, slots and thread ids are both reused, `thread_wrapper` uses a
  slot index it got in an earlier critical section, threads can end without
  passing through the library, and the destructor runs under running threads
  and under a monitor thread that may be writing a row.
* Counters are differences of unsigned numbers that can be read as 0, across
  migrations and reopenings.

`PROJECT.json` lists every hazard at its line, with the properties that cover
it, or why none does.

### What makes each component correct

* Daemon: it is a map from processes to what is known of them; one entry per PID;
  histories neither leaked, shared, overrun nor freed twice; a pass consumes
  everybody's samples; the hysteresis flags say on which side the process really
  is, unless the affinity call failed or the PID has a new owner; a stop request is obeyed; the dead are forgotten and samples used.
* Servers: a server that serves is complete and reachable; only a kill leaves a
  stale path.
* Placement: never more than 15 % behind the better prediction, a switch always
  gains the margin, no window makes it oscillate. The ratios it decides on stay
  within the samples and lean on the newest.
* Affinity: a walk misses only threads created behind its back and threads the kernel
  refuses to pin, and a later one finds them.
* Cores: every active class gets some, none gets another's; a string of cores means
  the same to everybody who reads it.
* Samples: no event is reported twice or under the wrong core type, a window is exact
  when nothing failed, settled threads are read; the dataset has one header and
  every window.
* Monitor: a slot's perf group is open, its own and its thread's; no thread is
  counted twice; tracked threads stay tracked; no group leaks; the sweep gives
  back dead slots; exit ends the process.
* Recorder: every row is one client's whole message, every whole message is a row.
* Classifiers: nothing is left behind or used after release, and an answer is a
  distribution as far as the trees gave it one.
* Quality test: the starvation it reports happened.

## 2. The modules

| Module | What it is |
|---|---|
| `Placement`, `PlacementRounds` | the decision as pure operators, doubles scaled to integers; one process's flags through any sequence of windows |
| `SchedulerQueue` | the daemon, its clients and the processes around it; EXTENDS `Placement` |
| `ProcessRegistry` | what the queue promises, without the array: the abstract specification |
| `MonitorThreads` | the table of threads inside one workload |
| `WindowCounts` | what the windows report of one slot |
| `Affinity` | placing all threads of a process |
| `SocketServers` | starting and ending the programs that listen on the socket path |
| `WeightedRatios` | the mean of the samples of a pass, in exact rationals and `int` shifts |
| `CoreSets`, `CoreSetStrings`, `DynamicCores` | strings of cores as operators; one string read and printed; the shares of the three classes |
| `Dataset` | the training file, written by several processes |
| `Receiver` | `monitor_receiver.c` and its clients |
| `Classifiers` | the four classifiers and their objects |
| `QualityTest` | the test program and its log |
| `Programs` | EXTENDS `Affinity` and puts the programs after it in this table side by side; the specification the run `programs` checks and the theorems about these programs are about |
| `XProofs` | theorems about `Placement(Rounds)`, `SchedulerQueue` and its refinement of `ProcessRegistry`, `MonitorThreads`, `WindowCounts`, `SocketServers`, `Receiver` and `Dataset` (`RecordingProofs`), `QualityTest` and `WeightedRatios` (`MeasurementProofs`), `CoreSetStrings` and `DynamicCores` (`CoresProofs`), `Affinity`, `Classifiers` and the types of all programs (`ProgramsProofs`) |
| `MC...` | definitions TLC needs: symmetry, scores, weights |

### SchedulerQueue and ProcessRegistry

`queue`, `size` and `i` are the C variables. `heap` gives the capacity of every
allocated history block; an entry points to one. `pc` is the place in `main` or
`process_queue`. The head of `conns` is the connection being read; a connection
remembers how many of its two parts were written and whether the client's end is
still open. A read blocks until the part is there or the peer closed it.

| Code | Actions |
|---|---|
| `accept` loop of `main` | `Accept`, `StartPass` (EAGAIN), `ReadPid`, `ShortRead`, `Stop` |
| `add_to_queue` | `AddRefused`, `Update`, `UpdateGrow`, `UpdateNoMemory`, `Insert`, `InsertNoMemory` |
| `process_queue` | `CheckAlive`, `DropDead`, `ChooseStartup`, `Choose`, `Apply`, `Settle`, `EndPass` |
| `send_to_scheduler`, `shutdown_scheduler.c` | `Connect`, `Write`, `BrokenPipe`, `RequestShutdown` |
| kernel | `Spawn`, `Die` (zombie, sockets closed), `Reap` (the PID is free) |

One iteration of `process_queue` is split where the code asks the kernel about
the process again: at the two alive checks, at the affinity call (`Apply`), which does
nothing for a process that has died (`ApplySkipped`) and may fail for one that lives
(`ApplyFailed`), and after the `usleep`. What a sample holds
is not kept: `Choose` draws any score from `Scores`, which covers whatever
`compute_weighted_ratios` makes of the history (`WeightedRatios` is about that). A
process's affinity is a single mask (`Affinity` is about its threads).

`astray` is a history variable for the two things the code has no means to notice: a
process was born under the PID while the entry of a dead one was still there and
takes it over, flags and all; and the last affinity call that should have moved a
process to a side failed, with the flags already moved. `HysteresisMatchesMask` says
of every other living process that the flags and the mask say the same, in both directions:
on the P side exactly if the flags say so, on the E side exactly if they do, and on none while
it has not been decided. An entry that starts with the flags of a dead process, or loses its
own when the array is shifted, violates it. A process with `ALL_CORESET` is left out, because the
flags keep the side of before it.

`ProcessRegistry` has no array, no heap and no index: `entry` maps the known
processes to what is known of them, a pass (`BeginPass`) serves them in any order,
each once, or drops them when dead. `SchedulerQueue!Registry` is the refinement
mapping: the map is read off the array through `EntryOf`, and the processes already
served are those before the loop index. That a removal, which shifts the entries and
leaves the index alone, drops exactly one process and serves nobody twice is
what `ImplementsRegistry` says.

### Placement

The score of a window is the pair of clamped predictions, or the news that a
feature is not finite. `choose_placement_coreset_model` returns the coreset and
the flags as the C function leaves them. The decision depends only on the
order of `100 * y` and `115 * y'`, which scaled integers keep; what rounding of
doubles does at exact equality is not modelled.

### MonitorThreads

`life` says where each thread of the workload is; `perf` which thread each open
group of counters counts. Critical sections of the workload's threads are one
step, enabled when the mutex is free. The sweep holds the mutex over one step
per slot, so that threads end and start during it. `Open` uses the slot index of
an earlier step (`idx`), as `thread_wrapper` does. `Register` is the parent's half
of the interposed `clone`, and may come after the child has ended. A step of the
monitor that needs to know whether a thread exists (`SweepLost`, `SweepReopen`,
`Repin`) asks `life` at that step.

Four constants describe the workload and its surroundings: whether it calls
`clone` or cancels threads (`RawThreads`), whether it calls `pthread_exit`
(`PthreadExits`), whether the stat of a living thread may be unusable
(`StatFails`; `get_thread_cpu` rejects a CPU outside `CORESET` and misparses names
with spaces), and whether the run is a training run. Properties that need one of
them to be off say so in their text and are checked with the others on.

### WindowCounts

The sweep's other half: one slot, one of the values it adds up and the I/O counters.
Events of different kinds do not influence each other, so a behaviour is about one
value, chosen from four that stand for the ways they are counted: on both core types
by the same event, by a different event on each (`CACHE_MISSES`), on one only
(`UOPS_RETIRED`), and by a software event that is counted everywhere. A CPU is its
core type: 1 stands for P and 2 for E in the code, whatever the comment at
`libmonitor.c:148` says. The steps of the sweep are the points between which the
thread can work or migrate: `get_process_io_stats`, `get_thread_cpu`,
`get_thread_io_stats`, `Reopen` or `Read`, `Resume` (between the two the counter is
disabled, and what happens then is lost), `Send`. `AskCpu` and `OpenOwn` are
`thread_wrapper` asking for its CPU before it has the mutex. `CallsFail` lets every
perf call fail, and every `/proc` file in two ways: it cannot be opened (`IoFails`, `CpuFails`),
or it can and then nothing can be read of it. In the second case `get_thread_io_stats` and
`get_process_io_stats` return zeroes and success: the unsigned difference wraps around and the
next one starts from 0 (`IoReadFails`, and the 0 in `get_process_io_stats`). From then on
the windows' I/O of threads is wrong for good, which `torn` remembers; `IoCountedOnce` is about
behaviours where that has not happened, with every other failure in them. The variables `done`,
`reported`, `io_reported`, `io_sent`, `torn` and `mark` are not in the code: they record what happened and
what was sent, for the properties.

### Affinity

`task`, `mask` and `cpu` are the kernel's: whose thread a TID is, its mask, where it
last ran. `PinMain`, `OpenTasks`, `PinEntry`, `EndWalk` are
`set_affinity_for_all_threads`, `Summarize`, `CountEntry`, `EndPass` are
`summarize_psr_for_process`. `readdir` returns the entries that were there at
`opendir` and still are, and may return others that have ended or were created
since. `Reuse` gives the TID of a dead thread to another process, between
`readdir` and `sched_setaffinity` too. `set_affinity` has three outcomes: `ESRCH` for a
TID that is free; the mask is set; or a living thread keeps its mask, because `strdup` found no memory
or the kernel said EPERM or EINVAL. Nobody looks at the result. The history variable `refused`
has the threads of which the last attempt of the pass failed.

### The small programs

* `SocketServers`: one process per start of a server; `path` is whose socket
  `SOCKET_PATH` names. Actions follow `main` from `LoadModel` over `init_csv`,
  `Socket`, `Unlink`, `Bind`, `Listen` to `Shutdown`, each of which can fail, and `Kill`.
  The files a training leaves are records of what `load_linear_model5` looks for.
* `WeightedRatios`: `Sample` is `add_to_queue` as one ratio sees it, the four
  `Pass...` are what `process_queue` does to the entry, by the answers of the two
  probes. `Weight` is `1 << (i + 1)` on `WIDTH` bits, sign bit included. Doubles are
  exact rationals.
* `CoreSets` takes a string as a sequence of tokens (a core, a range, something
  `sscanf` rejects) and has one operator per function that reads or prints one. `qsort` puts at
  each place the smallest core that at least so many entries do not exceed; `Runs` lengthens the
  last token or starts a new one, core by core.
* `DynamicCores`: one round per step, with any thread counts. `Allocate` passes a board (the cores
  that are free on each side, what each class holds and what it still wants) through the
  takings in the order of the code.
* `Dataset`: `init_monitor` up to the thread it starts, window by window the row that
  is printed into the stream's buffer (`PrintRow`) and flushed (`Flush`), and
  `finish_monitor`, which closes the stream (`fp` is `"freed"`) before it clears
  the pointer. Several processes share the file.
* `Receiver`: the three reads of one connection at a time, in pieces, with `data`,
  `pid` and `startup_flag` kept from the message before.
* `Classifiers`: a call is a sequence of steps that take, use and release objects,
  any of which may fail (`Steps`, `InitOf`, `ClassifyOf`, `CleanupOf`), for four variants.
  Forests are data: trees of leaves and tests, and the voting is as in the code. A walk
  ends at a leaf or at a test of a feature the daemon does not know (`EndOfWalk`), and then adds what
  the node of the static array holds: zeroes, or the leaf of a file that was loaded before
  (`class_probs`, which `load_rf_model` writes for leaves only). A file with more trees than
  the array has places is cut. `sure` is what the trees that came to a leaf contribute. The 0 / 0 of a
  forest without trees is `NaN`, a value of its own.
* `QualityTest`: parent and children, a stamp and the line that carries it being two
  steps; `calculate_starvation` is an operator on the log.

`Programs` holds nine of them. `program` is chosen in the initial state and only that
one takes steps, so that one run and one specification, `ProgramSpec`, cover them; they share
no state, and no property speaks of two. Its assumptions are about what the programs are given:
names of servers are distinct, bounds are numbers, a test has at least one workload (the rows of
`test_configs`), `WARMUP_WINDOWS` is whatever integer `atoi` makes of it, a string is any sequence of tokens
(`StringsAssumption`), the machine has a core for each of the three classes (`CoresAssumption`; 16 in
the code), and a file's trees are trees: no more nodes than the array takes, every walk ends inside,
and the leaves hold shares of classes that add up to one, as the training writes them
(`ForestsAssumption`). Tests of unknown features and files without trees are allowed. In the forests of
the two steps every walk comes to a leaf: `evaluate_tree` looks a test's feature up by its name in the
`feature_names` of the first file, and `train_2step_rf.py` takes the names of the tests in both files
from that one list. `MCPrograms` has the small instance of each.

## 3. The runs

| Run | Bounds | Shows |
|---|---|---|
| `queue` | 2 PIDs, 2 slots, 3 blocks, initial capacity 1, backlog 0, 2 unconsumed samples per PID | `OneEntryPerPid`, `HistoryOwnership`, `PassSkipsNobody`, and `ImplementsRegistry` (the refinement) under deaths and rebirths at any step |
| `placement_state` | 2 PIDs, 2 slots, 2 blocks, 4 scores, any affinity call may fail | `HysteresisMatchesMask` |
| `stop` | 2 PIDs, 1 slot, 1 block, backlog 1 | `ShutdownIsObeyed`, also with the queue full |
| `queue_live` | 2 PIDs, 2 slots, 2 blocks, 1 unconsumed sample | `DeadAreForgotten`, `SamplesAreUsed` |
| `rounds` | 160 windows, models with the signs and proportions of the trained ones | `NeverFarBehind`, `NoFlapping`, `SwitchNeedsMargin` |
| `threads_training` | training run, main and 2 threads, 2 slots, 2 groups, no raw threads | `SlotOwnsItsGroup`, `NoThreadTwice`, `NeverAborts` |
| `threads_live` | main and 2 threads, 2 slots, 2 groups, raw threads, no `pthread_exit`, every stat readable | `TrackedWhileRunning`, `NoLeak`, `DeadSlotsSwept`, `ExitIsReached` |
| `counts` | 2 values, 1 event per core type, 2 units of I/O, everything may fail | `NeverInvented`, `IoCountedOnce` |
| `counts_live` | 4 values, 2 events per core type, 2 units of I/O, nothing fails | `WindowIsExact`, `ProcessIoCountedOnce`, `SettledThreadIsRead` |
| `programs` | below | thirteen properties of nine programs |
| `threads_exit`, `threads_end` | | the findings of section 6 |

`programs`, program by program:

| Program | Bounds | Properties |
|---|---|---|
| `Affinity` | main and 2 more TIDs, 1 creation, 1 change of the decision, 1 failing `opendir` or `set_affinity` | `WalkMissesOnlyStrays`; `AllThreadsSettle` |
| `SocketServers` | 2 daemons, 1 recorder, 6 model files | `StartsAreSound`: `ServesWithCompleteModels`, `ServerIsReachable`, `StalePathOnlyByKill` |
| `Receiver` | 2 clients, windows in 2 pieces, backlog 1, 1 restart | `RowsAreWholeMessages`; `MessagesAreRecorded` |
| `Dataset` | 2 processes, 4 environments, 2 windows each, gaps of 0 or 1 | `DatasetIsSound`: `HeaderFirst`, `RowsSurvive`, `RatesCoverTheWindow` |
| `QualityTest` | tests of 1 and 3 workloads, 2 units of time | `ReportIsTrue`: `LogIsOfThisTest`, `StarvationIsReal`, `NoneWithoutLateStart` |
| `CoreSetStrings` | 3 cores, all strings of up to 2 tokens with numbers from -1 to 3 | `StringsKeepTheirMeaning`: `MasksAreWhatIsMeant`, `ListIsComplete`, `ClassesAgree`, `PrintedReadsBack` |
| `DynamicCores` | 16 cores, 0, 1, 11 or 32 threads of each class | `CoresAreDealt`: `CoresArePartitioned`, `NoClassIsStarved`, `RowTellsTheMasks` |
| `WeightedRatios` | 2 values, 6-bit shifts, 3 samples per pass, 5 in all | `RatiosFollowTheSamples`: `MeanWithinSamples`, `PassLeansOnNewest`, `IdlePassKeepsRatios`, `PastFades` |
| `Classifiers` | all failures; forests of up to 3 trees in 2 places of 5 nodes, two of the trees with an unknown feature, 0 to 3 binary trees, 4 units of probability | `ObjectsAreAccountedFor`: `NothingLeftBehind`, `NoUseOfTheDead`; `AnswersAreDistributions`: `ProbsSumToOne`, `NaNOfNoVotes`, `PredictedIsLikeliest` |

Why the bounds are enough:

* Two entries let one be removed before, at and after the loop index, and let
  one process's block be freed and handed to the other. With the initial
  capacity 1 (4 in the code) a second sample already takes the `realloc` path,
  and with three blocks it moves to a new one. `MaxPending` bounds the samples
  of a process that no pass has consumed; it caps only `Connect`, and 2 is enough
  for an update behind an insert in one drain.
* A backlog of 0 admits one connection waiting behind the one being read; Linux
  queues `backlog + 1`. `stop` has one more, so that the request can wait behind
  others.
* `queue` and `queue_live` use one non-finite score: their properties do not depend
  on the hysteresis flags. `placement_state` has scores that prefer each
  side by the margin, one within the band and a non-finite one.
* Two threads besides the main one and two slots fill the table and make both
  slots and ids be reused; two groups make `perf_event_open` fail for want
  of more. That slots own their groups and that types hold is proved without bounds.
* In `WindowCounts`, a sign bit of 8 instead of 2^63 keeps all values below half of
  the range, as in reality, while a difference that wraps around is far outside it. With
  nothing failing, two events per core type fall before and after a reopening or a
  migration. Where everything may fail one is enough: an event reported twice is
  already more than has happened, and a failed read makes it wrap around. One of the
  units of I/O is the loader's, which `initial_io` contains; a slot that
  keeps `prev_io` shows with the other.
* A walk is outrun by a thread created by one it has not reached: that takes the
  main thread and two others. One change of the decision leaves threads with the
  mask of the decision before. One failing call is enough to leave the main thread or another
  one outside while the rest is moved; `AllThreadsSettle` is about behaviours with finitely many
  failures, since a call that always fails settles nothing.
* Trees with an unknown feature at the root and on one side of it, loaded before and after others,
  put zeroes and the leaves of an earlier file under the tests where walks end.
* Two daemons and a recorder overlap in every order, and a killed, a failed and an
  orderly end can come before a start.
* Two clients of the recorder: one leaves something in the buffer and the other's
  message follows. Two pieces let a client die within its window.
* Two windows are the first one, which has no predecessor, and one that has; with one
  warm-up window, one is skipped and one logged.
* Six bits make the shift overflow at the sixth weight, one more than the newest sample,
  3 samples of the pass and the last mean take: up to there the mean is as it should be. With 32 bits the limit is 29 samples with a mean
  from before. A drain that long takes about three seconds of a monitor's
  windows; what happens then is listed as a hazard and not checked, because
  nothing in the repository says what should.
* Of 0, 1, 11 and 32 threads, 0 and 1 leave classes idle or without weight (the memory class
  weighs a quarter), and 1, 11 and 32 for compute, io and memory are a round in which compute
  weighs too little for a P-core.
* Strings of two tokens over cores inside and outside the machine give every order,
  overlap and repetition of two ranges.
* Symmetry is used where only safety is checked.

`CHECK_DEADLOCK FALSE` stands where the system may really stop: the daemon after a
stop request, a workload that has exited, servers that have all been started.
`rounds` never stops and is checked for deadlock.

## 4. Fairness

* `SchedulerQueue!FairSpec`: weak fairness of the daemon, a loop that is blocked
  only in `read`, and of each client's `Write`: a client that has connected goes
  on to write (or dies, which closes the connection). Nothing forces processes to
  connect, die or be reaped.
* `DeadAreForgotten` and `SamplesAreUsed` assume in their statement that drains end
  (`DrainsEnd`). The code does not bound the drain loop; monitors sleep 100 ms
  between messages, so with few of them the backlog does run empty.
* `MonitorThreads!FairSpec`: weak fairness of the monitor's loop; strong fairness
  of `finish_monitor`, which waits for a mutex the monitor releases for 100 ms
  in every window; weak fairness of the end of the process. The workload's
  threads need not make progress.
* `WindowCounts!FairSpec`: weak fairness of the monitor's loop, nothing else.
* `Affinity!FairSpec`: weak fairness of the daemon. The workload owes nothing: that
  threads stop being created and decisions stop changing is a matter of the bounds,
  and what `AllThreadsSettle` is about.
* `Receiver!FairSpec`: weak fairness of the recorder's loop and of each client's
  writes and close, as for the daemon. Kills and restarts are never forced.

`Programs` restates the last two in `ProgramSpec`.

## 5. What is proved

TLAPS checks all proofs with SMT, Zenon and, for temporal steps, LS4.

`SchedulerQueueProofs`, for any sets of PIDs and blocks and any sizes, from the
module's three assumptions (sizes positive, names distinct, scores well formed):
`TypeCorrect`, `PidsAreUnique`, `HistoriesAreOwned`, `NobodyIsSkipped`,
`HysteresisIsTruthful`, each `Spec => []P`.

The inductive invariant `IInv` has two halves. `QInv` is the type invariant, the
three queue invariants, and two facts none of them is inductive without:
`LoopLocals` (the loop index is inside the array at every step that uses it,
and 0 outside a pass) and `ServesClient` (a connection is being read whenever
`pc` says so). A removal preserves `HistoryOwnership` only because blocks are not
shared, an update only because it finds the one entry with that PID. `PInv` is
`HysteresisMatchesMask` with `ChoiceInFlight` (between `Choose` and `Apply` a chosen
side is the one the flags say, and with `ALL_CORESET` the flags still tell the truth) and
`MaskTracked` (a process with a mask from the scheduler has not been reaped, and has an
entry): without the second, a new entry with cleared flags could be for a process that
already has a mask. There is one lemma per group of actions
(`EnvironmentKeepsQInv`, `QuietStepsKeepQInv`, `AddStepsKeepQInv`,
`RemoveKeepsQInv`, `IterationKeepsQInv`, `StopKeepsQInv` and the same for `PInv`).

The same module has `QueueImplementsRegistry`, `Spec => ImplementsRegistry`, for the
same constants and with `IInv`. The map is read off the array slot by slot
(`View`); one lemma each says what changing, appending and removing a slot does to the
map, another that the map has as many processes as the array has entries, and one per
group of actions which step of `ProcessRegistry`, or which stutter, it is.

`HysteresisIsTruthful` does not say that flags always agree with the affinity. Excused are what
`astray` names and the moment between `Choose` and `Apply`; that a new owner of a PID starts
with the flags of the dead one is what the code does, and the next side that is applied ends it.

`PlacementProofs`, for all models and features: `PlacementTypeCorrect`,
`PlacementIsNearBest`, `SwitchesNeedTheMargin`, `NoWindowFlaps`. All rest on
`PredictionIsNat`: since predictions are clamped at 0, being ahead by the margin
implies being ahead.

`MonitorThreadsProofs`, for any number of threads, slots and perf groups, either
training mode and any behaviour of the workload, from the three assumptions of
`MonitorThreads`: `ThreadsTypeCorrect`, `GroupsAreOwned`, `OneSlotPerThread`,
`TrainingNeverAborts`, `ThreadsStayTracked`, `NothingLeaks`. `IInv` has three
parts, and the last two need only the first:

* `TInv` holds always. `SlotsSound` is `SlotOwnsItsGroup` over the whole array, with
  the fact that only an initialised slot refers to a group: without it a slot taken
  again could be closed for its previous thread. `PlacedInTable` says that the index
  a thread carries over the unlocked stretch of `thread_wrapper` is inside the
  used part; that it is still that thread's slot is *not* needed for the
  ownership of fds, which is why cancelled and cloned threads do not break it.
* `OInv` holds while all threads end through the library. `Orderly` adds that
  an active slot's thread has been placed or runs; `NoThreadTwice` follows, as a
  thread that takes a slot is neither, and so does `NeverAborts`.
* `KInv` holds while every stat can be read. `PlacedKeepsSlot` says that the slot behind
  that index is still the thread's, so that the group opened there gets an
  active holder, which is what `NoLeak` needs of `Open`.

`WindowCountsProofs`, for any bounds on events and I/O that a counter of the given
width can hold (`BoundsAssumption`): `WindowTypesCorrect`, `NothingIsInvented`,
`ThreadIoIsCountedOnce`, `ProcessIoIsCountedOnce`, `WindowsAreExact`. What is sent is a sum of
differences, so `NeverInvented` says nothing about the difference that comes next. The
invariant keeps the books: `Owed` is what the next read would add (the counter less
its baseline), and `EventsKept` says that reported, in the window and owed together are
never more than what happened on that core type. A read moves the owed into the window, a
failed one takes back what was reported since the group was opened and owes it again, and
whatever closes or forgets the counter writes off what is owed. `CounterSound` (a baseline
is never above its counter) keeps what is owed from being negative, and `DifferenceIsExact`
shows that unsigned subtraction and the cast to `long long` give the signed
difference back. `IoKept` (until `torn`) and `ProcessIoKept` (if no call
fails) do the same for I/O. For `WindowsAreExact`, `Exact`
says what the counter holds between reads if no call fails.

The theorems about the small programs are about `ProgramSpec`, from the assumptions of `Programs`.

`ProgramsProofs`, about `Affinity`, for any TIDs and bounds: `AffinityTypeCorrect` and
`WalkIsComplete`. The invariant says of the threads, not of their masks, what the walk has done:
what was pinned in this pass, or created by such a thread, is inside the coreset
(`PinnedStayInside`), the main thread is among it before the directory is opened unless it was refused
(`MainIsPinned`), and every thread has been reached (pinned, or refused), is about to be, or was created since
(`Reached`). About `Classifiers`, for any file, feature vector and unit of probability:
`ObjectsAccounted`, whose invariant `Holds` gives for each step of each call the objects that
are live there, and `AnswersAreProbabilities`, for forests of any size, with tests of unknown features and
files without trees: a sum over the trees of shares that add up to one at every leaf, and to one or
nothing at every node of the array (its invariant), lies between one per tree that came to a
leaf and one per tree. It is therefore exactly one where no tree tests an unknown feature, and NaN only
where the second of two forests has no trees and is asked.

`RecordingProofs`, for any disjoint sets of daemons and recorders and any model files:
`ServersStartSoundly`, all three parts of `StartsAreSound`. Without overlap the one
server that is up owns the path from `bind` on (`PathSound`); a daemon that ends in order has
removed it. And for any clients, length of a message, backlog and number of restarts:
`RowsWhole`. What the recorder holds of a message is what the client it serves has sent
(`ReadsOneMessage`), a client is served once (`BacklogWaits`), and a row is written only when that is all of it, although `data`, `pid` and `startup_flag` still hold
the message before.

And for any processes, environments and windows: `DatasetSurvives`, all three parts of
`DatasetIsSound`. The invariant follows a window from `idx` (`ClockSound`) through the stream's
buffer (`StreamSound`) to the file (`RowsSound`, with `Pending`: the row of the last window is
still to come); who can still write the header is one process, or the file has been raced for
(`HeaderSound`).

`MeasurementProofs`, for any tests and any number of workloads: `ReportsAreTrue`, all three parts of
`ReportIsTrue`. The state invariant `TestInv` relates the children to the log (`StartLines`,
`EndLines`, `InOrder`: a process that runs has one START, one that has been waited for one END, and the
START's time is not later). That a reported starvation is real is a counting argument, because
the program forgets which time is whose: the gap lies between the sorted ends' place i and the
sorted starts' place i + 1, so more than i processes had ended before it and all but at most
i + 1 started after it; no process is on both sides, so every process is on one of them. `ScanIsSound` gives the argument what it needs of the loop that reads the log, although
a START that is followed by another is overwritten.

The same module, for any samples and any width of `int`, as long as no shift of a pass reaches the
sign bit (`RatiosAssumption`, which section 3 compares with the code): `RatiosFollow`, all four
parts of `RatiosFollowTheSamples`. Fractions are reduced by Euclid's algorithm, so the
lemmas say nothing of numerators and denominators but on which side of `x / Q` a fraction is
(`Off`), and that its sum with another one and its multiples are there too. By induction over the
terms, a weighted sum of terms that are all beyond `L / Q`, and one of them beyond `A / Q`, is
beyond the weighted mean of those two (`SumOff`); the four parts are cases of it. With `A = L` the
mean stays in the range of its terms. With the newest sample for `A`, whose weight is more than
half of the total because weights halve, it leans on it. With the last mean for `A`, whose weight
is at most a seventh once there is another term, the past fades. The invariant `RatiosInv` says
that the last mean is in the range too, and is still the current one while there is no new sample.

`CoresProofs`, for any number of cores and any sequence of tokens: `StringsKeep`, all four parts of
`StringsKeepTheirMeaning`. Daemon and monitor flatten one interval per token, so the lemmas
are about the flattening of a list that grows (`FlatOfAppend`), and say that what it holds is what
is in some token (`ListedHolds`). Printing is followed core by core: a token that is lengthened by the next core,
or a new token, adds that core at the end of what the string lists (`Grown`, `RunsPrint`), so a
printed string lists the sorted cores, once as often as they were there. `QsortSorts` and
`QsortKeeps` say that sorting sorts, keeps the cores and leaves a sorted list alone.

And for any number of cores from three on and any numbers of threads: `CoresDealt`, all three
parts of `CoresAreDealt`. What is asked for is as much as there is (`DesiredSums`): shares that are rounded
down never exceed the machine, and what they leave goes to one class. `AssignMoves` is about one
taking: the cores move from the free list to the class, and each stays in one place (`Apart`,
`Everywhere`). After that only lengths count (`Holding`), and `RoundDeals` is arithmetic
about them: nothing stays free, and a class that is active ends with a core, unless all three are active
and compute or memory is too light for a P-core (`Squeezed`).
`OverlapIsStarvation` shows what happens then: a class without cores counts as holding core 0, which
somebody else has, so the validation throws the round away and keeps the masks of the one before.
The fallback strings are therefore never handed out. The invariant `CoresInv` says that the masks kept for that are
the initial empty ones or cover the machine, which is all `RowTellsTheMasks` needs.
The first attempt at this proof failed because the property was not true: it excused only rounds
with 1 to 3 memory threads, and the thread counts of the run did not include one with few compute threads
beside many of the others. The property now names the condition the weights decide, and the run contains both ways
to it.

`ProgramsProofs` ends with `AllTypeCorrect`, from the invariants of all these proofs. The bound on
the log of a quality test is a count: a line is determined by its process and by being a START or
an END.

Recursive definitions are recursive functions. That they are defined and what they
compute is proved by induction over a set: the numbers for which it holds have no least
one missing (`Induction`), and the function on n + 1 is glued from the one on n.

Only model-checked: the liveness properties (`ShutdownIsObeyed`, `DeadAreForgotten`,
`SamplesAreUsed`, `DeadSlotsSwept`, `ExitIsReached`, `SettledThreadIsRead`, `AllThreadsSettle`,
`MessagesAreRecorded`), because fairness and ENABLED are out of the prover's reach. Every invariant
and every action property of the passing runs, and the refinement, is a theorem.

## 6. Findings

* `CleanOnThreadExit` (`threads_exit`). `thread_wrapper` closes a returning thread's
  counters under the comment "cleanup on thread exit" (`libmonitor.c:797`). The
  interposed `pthread_exit` (`:965-971`) only clears `active`; the sweep skips
  inactive slots and reuse zeroes them, so the fds of such a thread stay open.
* `LoopEndsWithItsProcess` (`threads_end`). "Target process %d has terminated,
  exiting monitor loop" (`:998`): the loop runs in the process it asks about, so
  the test never succeeds; when the last thread of the workload leaves by
  `pthread_exit`, the monitor's thread keeps the process alive.

Remarks, which no run shows violated because the program as it stands does not get
there or nothing says what should happen:

* The counts `compute_dynamic_coresets` works with (`scheduler.c:178-180`) are never
  assigned: the code that counts (`:1335-1349`) is commented out, so only its idle
  branch runs. `DynamicCores` is about the algorithm for any counts. With all three classes
  active and compute or memory too light for a P-core (`Squeezed`: 1 to 3 memory threads weigh
  nothing) a class can end up without a core. The comment at `:582` says the reservations prevent
  that, but those are commented out (`:467-484`), and the fallback below it never takes effect: the
  class counts as holding core 0 and the validation at `:599` keeps the masks of the round before.
* `calculate_starvation` finds starvation only where a START follows an END in the
  log; a test whose workloads all start first reports 0 (`NoneWithoutLateStart`).
* The ONNX version of the two-step classifier prints Compute when the second step is
  undecided, although its probability is zero (`PredictedIsLikeliest` allows it).
* `predict_rf` leaves out the division by the sum (`libclassifier.c:155`), so a tree that tests a feature the
  daemon does not know takes its share away from the answer, or adds the share of a leaf of the file
  loaded before. The two-step classifier stores NaN for I/O and memory when its second forest has no trees
  (`libclassifier_2step.c:180`) and prints Memory. Nothing in the repository says what should happen.
* `get_thread_io_stats` and `get_process_io_stats` (`libmonitor.c:247-290`) return success when the file
  opens and then cannot be read, as it does for a thread that ends in between: the window gets a difference that wrapped
  around, and the one after it everything since the thread started.
* The result of `sched_setaffinity` is looked at only to print a message (`scheduler.c:819`); the hysteresis
  flags have moved by then.

## 7. What is not modelled

* cJSON (vendored), the Python scripts (offline numerics), the test workloads (programs to
  be monitored; what they do to the library is `MonitorThreads`'s choice of calls), and
  `libmonitor copy.c`, which nothing builds.
* The shell scripts: each starts, waits for and kills the programs modelled here; that a
  server can be killed and started again at any point is in `SocketServers` and `Receiver`.
* `perf_monitor_open` and `perf_monitor_stop_and_read`, used by a test program only.
* The arithmetic of a window's ratios, and the text of CSV and console output.
* Cancellation of a thread inside the library: where one can be cancelled is decided by
  the C library. A fork of a workload that copies the dataset's buffered row.
* A `log_message` of the quality test whose `fopen` fails drops its line without a word
  (`scheduler_quality_test1.c:62-68`); in `QualityTest` every line is written, and `ReportIsTrue`
  is about logs that are complete.
* Floating point: predictions are scaled integers, weighted means exact rationals.
* `SIGPIPE` after the daemon has stopped is a step (`BrokenPipe`) without a property, and
  so is the startup flag that a window of the same drain overwrites: nothing in the
  repository says what should happen.
