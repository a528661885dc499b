# wfc_core: models and proofs

TLA+ modules for the core of wfc_core, TLC configurations that check them on
small instances, and TLAPS proofs of what matters most for every value of the
constants. wfc_core is the package that turns a collection of components into a
daemon: it parses the command line, reads the configuration, configures,
initializes and starts the components, reloads them, watches over their health
and stops them.

## The system

| part | state it keeps | operations | who it talks to |
|---|---|---|---|
| **core** (`core/core/core.cpp`) | `_reconfigure_flag`, `_stop_flag`, `_abort_flag`, `_restart_flag`, the global `gs_stop_signal` and `stop_signal_flag`, the stage | `run`, `_sunrise` (`_configure`, `_initialize`, `_start`), `_idle`, `_stop`; `core_stop`, `core_restart`, `core_abort`, `core_reconfigure` and the SIGINT/SIGTERM handler | every component, through the registry; asks **config** for sections |
| **CPU affinity** (`core.cpp:335-374`) | the dirty flag and the names of threads in the cpuset, the masks in the kernel | the pass of `_idle` over all threads | threads of the **workflows** and of libraries |
| **config** (`config/config/config.cpp`) | `_mainconf`, `_changed_map`, `_path`, the poll timer | `load_and_configure`, `start`, `timer_handler_`, SIGHUP, `reload_and_reconfigure`, `get_config`, `generate_config` | the disk; calls `core_reconfigure` |
| **status log** (`core/core/detail/status_log.hpp`) | lists of errors, warnings and aborts | `set_status`, `get_status` | written by the **logger**, read by gateways and **prometheus**, replaced by the core |
| **logger** (`logger/logger/logger.cpp`) | `_last_message`, the handler that the log library calls | the handler of every log entry: counts it, aborts on FATAL; `initialize`, `reconfigure`, `release` | status log, `core_abort` |
| **startup: command line** (`startup/startup/*.cpp`) | `_pa`, `_ready` | `parse_arguments`, the commands of `startup()` | **config** |
| **startup: daemon** (`startup/startup/startup.cpp`) | the pid file, the monitor of `--autoup` | `perform_start_`, the handlers of the monitor, `after_start`, `after_stop` | **config** (first load), the file system, other launches |
| **workflow** (`workflow/*.cpp`) | a queue with threads, a timer, `_dropped` | configure, reconfigure, initialize, start, stop; handlers of its threads | the wflow library, the cpuset, **statistics** |
| **system statistics** | readings of /proc, a timer | restart, stop, the timer handler | meters of a collector |
| **statistics** | the collector, targets, a timer | reconfigure, initialize, restart, the timer handler | pushes to its targets |
| **statistics aggregator** | windows, a packer, targets, a timer | `push`, `multi_push`, `del`, the timer handler, reload | pushes to its targets |
| **statistics log** | the format of the table, legends | `push`, `multi_push`, reload | the log, a target |
| **prometheus** (`prometheus/*`) | a timer | collect and publish | core, statistics |
| glue: packages, modules, singletons, multitons, `_json`, `_config` | none | registration and serialization | |

What is hard here: the main thread walks through its loops while other threads
and signal handlers store one flag after another; a reload comes in the middle
of another one; an abort or a stop arrives in the middle of a loop over the
objects; objects fail, or abort the daemon from inside a call; files change while
they are read; a worker crashes and its monitor, which has inherited descriptors
and memory, starts it again; lists are trimmed lazily and asked later; timers go on
while the objects they belong to are taken apart and put together again; threads
come and go while somebody goes over a list of them. `PROJECT.json` lists each of
these hazards at its line.

What makes the parts correct:

* core: no reload is lost; an object is started only after it has been
  initialized with its last configuration; an abort is contained; objects stop in
  order and all of them; a stop is announced to the logger, and always honoured;
* CPU affinity: whatever happens during a pass, there is another one until every
  thread runs where the configuration says;
* config: what is in force is valid; the core hears of every change; a change of
  a file is read; no section and no override is lost on the way;
* status log: the answer is the one the history demands;
* logger: an abort has a reason that is kept and told;
* startup: only a lone command starts the daemon; one instance; the pid file is
  right; a worker that ended comes back; what is for the first start only is
  forgotten;
* workflow: every drop is metered once;
* statistics: what is measured or pushed under one configuration reaches every
  target once, and is written under a legend.

## Modules

| module | models | checked by | proved in |
|---|---|---|---|
| `Core` | core.cpp and the FATAL that an object logs | `MCCore` with `Core_*.cfg` | `CoreProofs` |
| `Lifecycle` | the abstract life cycle that `Core` implements | as a property of `Core` | `CoreProofs` |
| `Config` | config.cpp from the files to `core_reconfigure` | `Config_*.cfg` | `ConfigProofs` |
| `StatusLog` | status_log.hpp and the counting in logger.cpp | `StatusLog_answers.cfg` | `StatusLogProofs` |
| `Logger` | the handler of FATAL, reload, release in logger.cpp | `Logger_fatal.cfg` | `StatusLogProofs` |
| `Startup` | `perform_start_`, pid file, monitor | `Startup_restart.cfg` | `StartupProofs` |
| `Arguments` | parse_arguments.cpp: the texts of options (operators) | with `CommandLine` | `StartupProofs` |
| `Sections` | config.cpp: sections, merging, ini files (operators) | with `CommandLine` | `StartupProofs` |
| `CommandLine` | `startup()` from the arguments to a code | `MCCommandLine` with `CommandLine_*.cfg` | `StartupProofs` |
| `Aggregator` | aggregator_domain.cpp | `MCAggregator`, `Aggregator_delivery.cfg` | `AggregatorProofs` |
| `SystemStatistics`, `Statistics`, `Statlog` | the three domains of these names | within `Telemetry` | `TelemetryProofs` |
| `Telemetry` | their composition, and the reload of all three by the core | `MCTelemetry`, `Telemetry_chain.cfg` | `TelemetryProofs` |
| `Affinity` | the pass of `_idle` over the threads, and what changes the cpuset | within `Workflow` | `WorkflowProofs` |
| `Workflow` | workflow_domain.cpp | `MCWorkflow`, `Workflow_threads.cfg` | `WorkflowProofs` |
| `Folding` | nothing of the code: facts about loops over lists, for the proofs | | itself |

### Core

`flags` is the set of the atomic flags that are up; `pc` is where the main
thread is: `boot` to `sunriseDone` are `_sunrise`, `risen` the rest of `run()`,
`loop` and `reconfigure` are `_idle`, `unwind` to `exited` are `_stop` and the
return of `run()`. `caller` tells the two callers of `_sunrise` apart. A loop over
components or instances is a set `todo` and two actions: `VisitConfigure`,
`VisitInitialize`, `VisitStart` and `VisitStop` look at `_abort_flag` (the last one
does not) and choose the next object by priority; `ConfigureObject`,
`ConfigureFails`, `InitializeObject`, `StartObject` and `StopObject` are the
calls. std::sort is not stable, so objects of equal priority come in any order,
and so do the components of `_configure`. An object may log FATAL while it is
called (`Called`), which aborts the daemon from inside the call, unless the stop
has been announced.

`Section[v][o]` is the text of object `o` in version `v` of the configuration.
`conf` is the text an object was configured with, `applied` the one it was last
initialized with, `reconfigured` and `dirty` are what `is_reconfigured()` and the
registry say. A new text for the core itself replaces the status log and so the
stage (core.cpp:110).

A control call of another thread is the list of its stores, done one per
`DoStore`: `core_stop` raises `_stop_flag` and then `stop_signal_flag`,
`core_abort` raises up to four flags, `reload_and_reconfigure` replaces the
configuration and then raises `_reconfigure_flag`. The main thread may run
between any two of them.

The history variable `late` counts the objects called after the abort. `_restart_flag` is nondeterministic at the start,
because the constructor does not set it.

### Lifecycle

Objects come alive while the daemon is up; a stop that is wanted turns it down;
live objects leave by priority; the process is gone after the last. `Core`
implements it with `phase` read off `pc`, `alive` the objects whose `life` is
"started", and `wanted` the stop flags.

### Config

Files have a revision and a modification time in whole seconds (`st_mtime`); they
are written, spoilt and removed at any moment. Loading is `ReadFile` per file, the
main one first, then `StampFile` per included file, as `load_from_file_` takes the
modification times after `parse_file` has read everything; `Start` stamps the main
file. `FinishLoad` and `FinishReload` take the result if `parse_configure_` accepts
it; `RequestReconfigure` calls the core, whose side is `CoreReconfigures`. The
first load reads the files twice (to find the ini files); only the second reading
counts and is modelled.

### StatusLog

An entry is the moment it was logged at. `remove_expired_` cuts a list to its
limit and then drops expired entries from the front. `get_status` looks at the
threads (`LookAtThreads`) before it takes the mutex (`Answer`). `Replace` is the
reload of the core's section. Left out: a reader that still uses the replaced log,
and a clock that is set back (both are listed as hazards).

### Startup

A launch is one start by hand: a worker and, with `--autoup`, its monitor. Inodes,
the path, the lock of an inode and its content are modelled, because the code
depends on them: `flock` belongs to an open file description, which a fork shares
together with its offset, and a removed file keeps its lock. `Open` and `Lock` are
the halves of `loc_file_pid`, `Work` writes the pid and collects the arguments,
`AfterStop` removes the path, `MonitorLocks` and `Restart` are the two handlers
that are passed to `wfc::autoup`. Errors of the file system other than a held lock
are left out, and so is the death of the monitor.

### Logger

A writer is a thread inside the handler that `init_log_` gives to the log library:
`status` (tell the core), `keep` (the first message, under the mutex), `abort`. The
handler captures `stop_with_fatal_log_entry`, so a reload in the middle leaves a thread
with the old value. `main` goes from `configure`, when the
core cannot be found yet, through reloads to `released`. `counted` is the ABORT in
the status log of the core, which a reload of the core's section drops. The history
records whether a FATAL began, ended before the release, or came too early for the
core.

### Arguments, Sections, CommandLine

A text of an option is a sequence of words and the separators `:` and `=`, so that
the positions of separators, which is all the code looks at, are exact;
`parse_pair`, `parse_options`, `parse_instance`, `parse_custom_options` are named as
in the code. A configuration is a sequence of sections with items; an item may be
bad, or a variable with a default. `normalize_json_multimap` merges the sections of
one name as the code does, one after the other, and parses again for the list of ini
files. `CommandLine` is a state machine of few steps: `Parse`, `FindConfig` (the
default name is looked up before any command is looked at), then the first command
that is asked for (`Commands` in the order of the branches), or `PerformStart`. What
comes after the pid file is locked is `Startup`.

### Aggregator

`proc` is where each thread that pushes, and each run of the timer handler, is:
whether it has looked at `_suspend_push` and `_stat`, what it holds, to which target
it goes next by index. A value is in the window of its name (`aggregated`), ripens
when the window ends (`WindowEnds`, the clock), lies in the packer or is in
somebody's hands. `main` takes a reload in the steps between which others get in:
options, then `_stat` under the mutex, then targets cleared, then filled, then the
timer. A call through a `_stat` that has been replaced is undefined in C++; the model
lets it do nothing. A value is accepted under a list of targets, which has a number
(`Lists`). `NeverTwice` holds in the middle of a reload too: a handler that comes upon a
new list may tell a target again, so a target gets a value once at the most for each list
there has been since. `NothingLost` and `Delivered` are about values accepted under the
list in force, as a reload drops what lies in the old `_stat`.

### Telemetry

`SystemStatistics` reads the process time and meters the difference to the reading
before. What is metered is a set of ticks, each with the run of the timer handler that
counts it, so that a tick can be followed, and is told apart from the same tick when
another run counts it. `Statistics` takes records out of the collector its timer was
bound to (`Bound`), puts the first target last so that it moves the record, and calls the
targets. `Statlog` looks at its options, writes the legend of a name once, then the
row, then passes the push on. `Telemetry` joins them as the core starts them: meters
go into the collector, the first target is the statistics log, the log has a target
of its own, clients push to the log too. `Reload` and the steps behind it are
`_sunrise` for these three objects: reconfigure what has changed, initialize, start
in any order.

Nothing stops a run of the old timer handler when `restart()` makes a new timer. Runs that
had still to read then (`late`) tell of CPU time that the new timer tells of too: the same
time is metered twice, once by each. `NoTickTwice` says that this is all: no target gets
anything twice from one run, and runs that had their reading behind them tell of nothing
that the new timer counts.

`configure_` makes the columns of the table out of the list of the options. `reconfigure`
is three steps, the new options (`LogReconfigure`), the mutex and an empty list
(`LogLock`), the new list (`LogConfigured`), and `WriteLegend` waits for the mutex
(`Free`). A list may hold any texts. For "$", and for "#" before any column, the code
reads behind the end of the default order (statlog_domain.cpp:172, 182); what it finds for
"$" is any member of `Garbage`, and that it may not survive is left out. Rows read the
list without the mutex (243); a row of the model has no columns.

### Affinity and Workflow

A thread has a state, the pool it works for and its mask; `name` is what the cpuset
knows. The pass of `_idle` is `CleanDirty`, `ListThreads`, `ListPids`, one `SetWfc` or
`SetSys` per thread, `EndPass`; between any two, threads start, register, finish, end,
and new ones get their ids. `SetOptions` is `core::reconfigure` and that of the pools.
`Workflow` adds the timer that meters drops, in three steps (`ReadDropped`,
`MeterDropped`, `KeepDropped`), and the reload that makes it anew, so that a run of
the old timer may still be under way (`overlap`).

## Runs

| run | shows | bounds |
|---|---|---|
| `Core_control` | all invariants and `ImplementsLifecycleSafely` | 3 objects, 2 threads, 2 versions (a section appears, one changes, the core's stays) |
| `Core_reload` | `ReloadHonoured`, `ImplementsLifecycle` | 3 objects, 1 thread, 3 versions (the core's section changes too), no rejected sections |
| `Config_reload` | validity, notification, and that a visible change is read | 2 files, 2 writes, 3 seconds |
| `Config_missed_change` | violated: a change during a load is never seen | the same |
| `StatusLog_answers` | the answer matches the history | 1 thread, limits 2 and 1, ttl 2 and 1, 3 entries per log, 5 moments |
| `Logger_fatal` | `AbortIsTold`, `LastWordsTrue` | 2 threads, 2 reloads |
| `Startup_restart` | pid file, arguments and restart, until an orderly stop | 3 launches, 2 restarts each, 3 inodes |
| `CommandLine_start` | which command wins, texts of options, generated and merged sections, ini files | some 34000 command lines with their disks, in sets that each vary what one part of the code looks at |
| `CommandLine_generate` | violated: `-G` without `-C` writes a file | the same |
| `Aggregator_delivery` | once to every target, nothing lost, the packer emptied | 2 values of one name, 1 pusher, 2 runs of the timer, 1 reload, 3 configurations |
| `Telemetry_chain` | a tick reaches every target, and once from each run that counts it; one legend, of all columns of one list | 3 ticks, or one push of a client in place of two; 1 reload; two runs of each timer; lists of up to 4 texts |
| `Workflow_threads` | `MasksSettled`, `DropsCounted`, `Settles` | 3 thread ids, 1 pool of up to 2 threads, 3 CPUs, 1 reload, 1 drop |

Why the bounds are enough. Three objects have all relations of priority (before,
equal, after) and contain one that is configured from the start, one that changes
and one that appears. Two threads suffice for every pair of overlapping calls, and
with the FATAL inside a call there is a third origin of an abort; a thread may
make any number of calls. Two or three versions have a reload in the middle of
another. The threads of `Core_control` are symmetric; the run has no liveness
property. Two files have the two kinds that are stamped at different times. In
`StatusLog` the ttl and the limit can each be what removes an entry, at and around
its boundary. Three launches have one that ends, one that waits and one that comes
later. Two texts of options and five words have every order of separators, and an
object that is named twice. Two values of one name share a window and, in the
packer, a batch; a single reload changes the order of the targets, the packer and the
timer under all that is under way, and a run of each of two timers overlaps. Three
ticks are the first, which is only a base, and two that are metered, together or
apart. Besides the main thread two thread ids have one that is used again while the
other one settles. Three of the twelve columns, with "#", "$", a text that is none and lists
longer than the default order, have every case of `configure_`; one of the two lists that
the reload chooses from has a "$" in it.

Deadlock is not checked where the program ends, or a bounded clock does; it is checked
in `Telemetry_chain` and `Workflow_threads`.

Fairness. `Core`: the main thread runs (weak fairness of `Main`), because the core
timer ticks as long as io_context runs; a call once begun is finished. Nobody has
to make a call. `Config`: a load once begun goes on, the timer handler of a changed
file is not passed over for ever (strong fairness: a reload disables it), the core
serves a request. Disk and SIGHUP are free. `Startup`: a launch goes on by itself;
starting, stopping and crashing it are not fair. `Aggregator`: windows end as time
passes, the timer fires, threads finish what they have begun, a reload begun is
finished; nobody has to push. `Telemetry`: the timer of statistics fires, its handler
goes on, the delay at the start passes; the process may be idle, /proc unreadable.
`Workflow`: only the main thread goes on with its passes.

## What the code does otherwise

Two disagreements between the code and its texts are runs that must fail;
`PROJECT.json` quotes the texts under "findings": the change of a file that is never
read, and `-G` that overwrites the configuration found by its default name.

The models take the following from the code as it is. No property states the
contrary:

* `_restart_flag` is never initialized, so a daemon that was only stopped may end as
  one to be restarted; an abort ends with code 0, which `--autoup` takes for an
  orderly end; `after_start` fires although a section was rejected and nothing was
  started (core.cpp:226-229).
* After an orderly stop a second launch may get in while the monitor of the first
  restarts its worker; the pid file starts with NULs after a crash (the offset is
  shared, write_loc_pid does not rewind), and after a restart that follows
  `after_stop` it names the worker that ended (startup.cpp:410-411 recreate what
  startup.cpp:464 removed). `--startup-ini` was copied to `g->ini` before the monitor
  was forked and stays in force after a restart. A restart resets `shutdown_time` in a
  handler that is inserted after the one that reads it (startup.cpp:379, 436).
* A reload expands ini variables with the list of the configuration before it
  (config.cpp:442, 504); `--check-config` and `--print-config` ignore `--ini`; an ini
  file named with a directory, or a configuration without one, is not found.
  `-G all:x core` always fails: `all` beside others is the name of a component.
* A thread of WFC that a pass meets before it has registered gets the CPUs of
  `sys-cpu`, and keeps them if its pool and `wfc-cpu` name none (Readme.md:199 says
  they are for the others). An option that no longer names CPUs leaves the old mask. A
  library's thread that is made after the last change is not set; it inherits.
* `_stat_timer` of a workflow is released before anyone has set it; the ids of the
  meters of its threads start at 0 again after `restart()`.
* "Abnormal Shutdown!" is printed after any FATAL, even if
  `stop_with_fatal_log_entry` is off and the daemon was stopped later. A reload of the
  core drops the status log with its ABORT; a reload of the logger drops custom
  formatters until `initialize`.
* The statistics log: a legend counts as written even if `table_log` is off, and is not
  written anew when a reload changes the columns. "#" in `sequence_of_list` counts only
  at the end, and elsewhere does nothing, although statlog_config.hpp:33-34 calls it a
  flag whatever its position; "$", which line 35 gives a meaning, reads behind the end of
  the default order (statlog_domain.cpp:182), as does "#" before any column (172). A
  suspended log without a target destroys the callback of a push uncalled, which
  `nocall_callback_abort` makes an abort (statlog_domain.cpp:88, 120); rows read the
  format without the mutex (243).
* `get_config` copies from `_mainconf` while a thread of the common workflow may assign it
  (config.cpp:187), if that workflow has threads of its own.
* CPU time is metered twice around a reload if a run of the old timer handler still has
  its reading before it (system_statistics_domain.cpp:125).
* The targets of statistics are cleared and filled while a handler goes over them
  (statistics_domain.cpp:47): what it holds then may miss a target or reach one twice, and
  what is left in a replaced collector or aggregator is dropped.
* System statistics: vsize is in bytes and is multiplied by the page size as an int,
  which overflows (system_statistics_domain.cpp:155).
* The status log trusts system_clock: if it is set back, entries from the future keep
  expired ones alive behind them (status_log.hpp:188).
* `io_context.poll()` between the objects of a sunrise runs handlers of objects that
  are started while others are only initialized (core.cpp:551); what they do is up to
  the objects.

## Proofs

Every theorem is about a specification with its constants left open: any number of
objects, threads, files, launches, values, targets and reloads, any priorities, limits
and configurations. They rest on the assumptions on the constants alone, which each
module states by name (`CoreAssumption`, `ConfigAssumption`, `StatusLogAssumption`,
`LoggerAssumption`, `StartupAssumption`, `AggregatorAssumption`,
`AffinityAssumption`, `WorkflowAssumption`, `SystemStatisticsAssumption`,
`StatisticsAssumption`, `StatlogAssumption`, `FormatsAssumption`, `TelemetryAssumption`,
`CommandLineAssumption`) and TLC evaluates on
the instances. Most of them say what kind of value a constant is. Those that say more:
a configuration names a target once (the code tells it twice if it is named twice), the
aggregator has a target, the targets of `Telemetry` are the statistics log and one other,
and there are collectors for all reloads, which is a bound of the model. Columns have names
of their own, none of them "#" or "$"; lists of columns may hold anything.

`Folding`: a loop over a list is a fold in the models, and FoldLeft is defined by a
function over sets of indices that is chosen for its equation. The module shows that there
is such a function (`Exists`, by taking the least index at which there would be none), that
a fold is what a loop computes step by step (`Loop`), and that what holds at 0 and is
handed on by each step holds up to the end (`Along`). None of them takes an operator as a
parameter; the body of a loop is given as a function of functions, so that each loop of the
code gets a lemma of its own: `PairSteps`, `InstanceSteps`, `GenerateSteps`, `NormalSteps`,
`ItemSteps` in `StartupProofs`, `WithoutSteps` and `TakeSteps` in `TelemetryProofs`.

`CoreProofs`: `TypeOK` is inductive because it says at which places an object is `chosen`
(`ChosenInv`). `LateInv` relates `late` to `pc` and `_abort_flag`: an object that is about
to be called was chosen when the flag was down, or the flag rose since, and then the
loop ends; this gives `AbortIsContained`. `RegInv` keeps the objects that have been
told anything within the registered ones, and `StopInv` says that the objects already
stopped are those that the loop has taken out of `todo`, all of them of no greater
priority than the rest; this gives `StopsInOrder` and, with `WantedInv` (below
`loop` a stop is wanted), the step simulation of `CoreImplementsLifecycle`.

The reload, in the second half of `CoreProofs`: `CallInv` describes the calls under way (a tail of one of the
lists of stores), `AnnounceInv` that the thread that raised `_stop_flag` has still
to raise `stop_signal_flag`. `PrepareInv` follows an object through a sunrise: in
`configure` an object that is not yet current is `reconfigured` or the registry is
`dirty`; in `initialize` it is in `todo`; in `start` it is done. `StageInv` ties the
stage to it. `CurrentInv` is the argument for `NoReloadIsLost`: an object whose
text is not the one in force is still to be visited, or the request is up, or a
thread has still to raise it. The request is cleared before the sunrise reads the
configuration and raised after the configuration is replaced, and the invariant
fails if either order is turned round (`RisenClears`).

`ConfigProofs`: `WrittenInv` says that every revision that was read, taken or found
bad was written before; a later write makes a new revision, so what was accepted
does not turn bad and `FinishReload` is all that `AlwaysValid` depends on. `ToldInv`
extends `NoSilentChange` to the reload under way, which is where the next
replacement comes from; together they give `CoreIsTold`.

`StatusLogProofs`: `EndOf` says of each list that it is the end of the log of
everything that was ever logged, and that what was dropped last was outside the limit
or too old when it was dropped; as the clock goes on and entries are `InOrder`, it is so
now. `RemoveExpired` says what `remove_expired_` leaves, with a least element instead of
an induction. From both, the lengths that `get_status` compares are the counts that
`AnswersHistory` takes from the whole log.

The second half of `StatusLogProofs` is about `Logger`. `AbortIsTold` speaks of
`aborting`, which a thread raises two steps after it has told the core; `ToldInv` says
of each thread on its way what it has done so far, with the `stop` its own handler has
captured and not the option in force, which may have changed. For `LastWordsAreTrue`,
`KeptInv` says that a FATAL whose handler is over has left a message, and `CopyInv` that
what `release()` copies is that message; the order of release and handlers under the
mutex is what makes them inductive.

`StartupProofs`: `FileInv` is the argument for `PidFileAtFirst`. Until the path is
removed there is one inode, every description that was opened is of it, and only the
launch that has locked it gets past the lock; a crash closes one of two processes, so the
lock stays with the monitor. `ContentInv` follows the offset that the descriptions share.
For `OptionsOfFirstStart`, `ListsInv` says what is left of the lists of `_pa`.

The second half of `StartupProofs` is about `CommandLine` and its two modules of operators.
`CommandInv` is inductive: `PaInv` says that parsing leaves the commands as they were given,
that wrong arguments are known to be wrong before anything is dispatched, and that the maps
of options are those the parsers make of the texts; `SettingsInv` that a configuration is
there only once a command has loaded it, and from which ini files. `StartIsLast` (a start is
what remains if nothing else was asked for) gives `HarmlessFirst`.

* `LastMentionCounts` relates two descriptions of the same texts. The code cuts a text at
  the first colon, then at each next one, then each piece at its first "=", and lets later
  assignments replace earlier ones; the promise speaks of the places behind the colons.
  `PiecesAre` says which part of the text the k-th piece is, `PairsAre` (by `OverrideStep`)
  that after k pieces a key has the value of its last place among the first k,
  `UntilShift` and `MergedIs` carry this over from the rest behind the first colon to the
  whole text, and `Collected` (by `EntryStep` and `CollectStep`) from the texts before the
  k-th to those up to it, object by object.
* For `GeneratedAsNamed`, `GenerateIs` says that the map has the names that were given, each
  with what stands behind the first colon of its last text; with `NamesOf` this is what each
  branch of `Generated` hands out. The file is written only when every name is known.
* For `NoSectionLost`, `IsNormal` is what the merging keeps after each section: one section
  for each name seen so far, with the items of all its sections in their order (`MergeIs`,
  `NormalIs`). `FileIs` says that resolving variables changes no place and no name, and
  `LoadIs` puts the two parses of `load` together.
* For `CommandLineFirst`, `ValueIs` says that a variable has the value of the last ini file
  of a list that can be found and sets it; as `--startup-ini` comes behind `--ini`, and both
  behind the configuration's own list, the last of them is the one that overrides. The
  configuration's own list is itself resolved, with the arguments alone (`OwnIni`).

`AggregatorProofs`: `OnceInv` says that a value is in one place at most, be it an object
or the hand of a thread, and `HandsInv` when a thread holds anything. `AcceptInv` says
that nobody got a value before it was accepted. `ComeInv` adds who has got it. `Count`
holds at any time, in the middle of a reload too: nobody has it while it waits; afterwards a
target has it as often as there have been lists since at the most, and less often if the
loop of the thread that sends it is still to come upon that target in the list there is
(`Ahead`). A reload that fills the list puts targets ahead of the loop again, and raises
the bound by one. `Way` is exact for values accepted under the list in force: the others up
to the index, and not the first target, while it is sent; everybody afterwards. `NeverTwice`
follows from `Count` and `NothingLost` from `Way`.

`WorkflowProofs`: `PassInv` says for each stage of a pass who has been seen to already, as
long as nothing has made the cpuset dirty since the pass began; a thread that registers
or finishes makes it dirty, and one that comes later under an old id has not been seen. For `DropsCounted`,
`MeterInv` says what a run has metered between its two steps.

`TelemetryProofs`: a tick is followed from the reading of the timer to the targets, with
the sampler that counts it (`Mark`). `SamplerInv` orders the readings of a run. `Horizon`
is the last tick that a sampler has measured at all (`HorizonInv`), which is why a
difference that is measured now holds nothing that this sampler has put anywhere already
(`Measured`). `Cut` is the first reading of the timer in force; `OldInv` says that nothing
later comes from a sampler that was not `late`: it has made its reading already. From
then on `OnceInv` says of every tick later than `Cut`, whichever sampler counts it, that
it is in one record of one collector, or in one hand with its targets still `Open`, or was
told (`OnePlace`); this goes over all collectors, as late runs meter into the replaced
one. `LostInv` says that what the timer in force has seen is in one of these places
(`Somewhere`). Both are proved step by
step in `Undisturbed`, `Begun`, `Metered`, `Popped`, `Called`, `Passed` and `Dropped`,
and hold only while the system statistics are started and no reload has begun
(`Settled`): in between, handlers go over a list of targets that is cleared and filled
under them. `ToldOnce` and `NoneLost` follow. `CallInv` ties the handler to the push that
the statistics log does for it. For `OneLegend`, `LegendInv` says that a name is
remembered exactly when its legend was written.

For `ColumnsFollowList`, `Follows` says that the columns are those of some configuration
while the mutex is free, and of the one in force while no reload is to come (`Made`);
`WrittenFree` that a legend is written while it is free. `AllAsListed` is about
`configure_` alone: `TakeOne` says what a step of it leaves of the default order, which is
the columns not listed so far, with "#" in the places of the others (`Left`); at the end of
a `Plain` list (`EndIs`) that, without the "#", is what is `Documented`. Plain lists are no
longer than the default order, without "$" and with "#" at the end at most; of others the
theorem says only that a legend shows what the code makes of one of them.

Every invariant that a run checks, and the safety part of the refinement, is proved.
Model-checked only: liveness (`ReloadHonoured`, the progress part of
`ImplementsLifecycle`, `SeenChangeIsRead`, `EndedIsRestarted`, `Delivered`,
`PackerEmptied`, `TicksArrive`, `Settles`), since the prover handles neither fairness
nor ENABLED here; and the two disagreements above, which are counterexamples.

## Not modelled

The wfc, wflow, wlog and wrtstat libraries are not part of the repository; the
registry, the domain objects, the cpuset, `wfc::autoup`, the handler lists, wrtstat's
windows and packer and io_context are modelled from the way this code uses them.

* prometheus: collects and publishes what others hold, and keeps nothing but a timer;
* the gateways and services of statistics, packages, modules, singletons, multitons,
  `_json` and `_config`: registration and tables of names, without state;
* statistics_aggregator/statistics_domain.cpp: not part of the build; procmeter: used
  by nothing; logger.cpp:269-384: commented out;
* the meters that a thread of a workflow keeps of its own work, and those with which
  the statistics objects measure themselves: they are written and read by nobody here;
* rlimit, the text of status, log, usage and table rows, the tests and the build.

## Plan

1. `Core`, `Lifecycle`, `Config`, `StatusLog`, `Startup`: done.
2. `Aggregator`, `Telemetry` with its three parts, `CommandLine` with `Arguments` and
   `Sections`, `Workflow` with `Affinity`, `Logger`: done.
3. Proofs of all invariants, those about loops over lists included: done.
4. The shutdown timer of startup, and the thread meters of a workflow.
