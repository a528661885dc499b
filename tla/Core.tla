-------------------------------- MODULE Core --------------------------------
(***************************************************************************)
(* The core of the daemon (src/package/core/core/core.cpp): the life cycle *)
(* of the configured objects driven by the main thread, and the control    *)
(* calls core_stop, core_restart, core_abort, core_reconfigure and the     *)
(* SIGINT/SIGTERM handler, which other threads make at any moment and      *)
(* which store one flag after another.                                     *)
(*                                                                         *)
(* A component and the instance it registers are one object here; the      *)
(* domain objects, the registry and io_context live in the wfc library and *)
(* are modelled from the way core.cpp drives them.                         *)
(***************************************************************************)
EXTENDS Integers, Sequences

CONSTANTS
    Objects,           \* the components compiled into the daemon
    CoreObject,        \* the component whose domain object is the core itself
    StartupPriority,   \* startup_priority() of every object
    ShutdownPriority,  \* shutdown_priority() of every object
    NoObject,          \* not an object: no call is under way
    Threads,           \* threads that make control calls
    Section,           \* Section[v][o]: the text of o's section in version v
                       \* of the configuration, 0 when the section is missing
    CanFail,           \* objects whose configure() may reject its section
    CanLogFatal,       \* objects that may log FATAL while called by the core
    CanDropCallback    \* objects that destroy an uncalled callback in stop()

Version == DOMAIN Section

ASSUME CoreAssumption ==
    /\ CoreObject \in Objects
    /\ NoObject \notin Objects
    /\ StartupPriority \in [Objects -> Int]
    /\ ShutdownPriority \in [Objects -> Int]
    /\ Section \in Seq([Objects -> Nat])
    /\ Section # <<>>
    /\ CanFail \subseteq Objects
    /\ CanLogFatal \subseteq Objects
    /\ CanDropCallback \subseteq Objects

\* The atomic flags of class core, with the two process wide stop signals.
Flag == {"_reconfigure_flag", "_stop_flag", "_abort_flag", "_restart_flag",
         "gs_stop_signal", "stop_signal_flag"}

VARIABLES
    flags,         \* the flags that are up
    stage,         \* core_stage kept by _status_log
    \* --- the main thread
    pc,            \* where the main thread is
    caller,        \* who called _sunrise: "run" or "idle"
    todo,          \* the instances the current loop has still to visit
    chosen,        \* the instance the current loop is about to call
    \* --- configuration and objects
    mainconf,      \* version of the configuration that get_config() serves
    conf,          \* text each object was last configured with, 0: never
    applied,       \* text each object was last initialized with
    reconfigured,  \* objects whose is_reconfigured() holds
    dirty,         \* registry.dirty()
    life,          \* what each object has been told to do
    \* --- callers on other threads
    calls,         \* the stores each thread has still to do in its call
    \* --- results
    after_start,   \* after_start handlers have fired
    exit_code,     \* what run() returned, 1 before it returns
    \* --- history, read by properties only
    late           \* objects called after _abort_flag went up, per sunrise

mainVars == <<stage, pc, caller, todo, chosen>>
objVars  == <<conf, applied, reconfigured, dirty, life>>
vars == <<flags, mainVars, mainconf, objVars, calls, after_start, exit_code,
          late>>

Stage == {"UNDEFINED", "CONFIGURING", "INITIALIZING", "STARTING", "IS_RUN",
          "STOPPING"}
Location == {"boot", "sunrise", "configure", "configuring", "configured",
             "initialize", "initializing", "initialized", "start", "starting",
             "sunriseDone", "risen", "loop", "reconfigure", "unwind", "stop",
             "stopping", "stopped", "exited"}
LifeStep == {"none", "initialized", "started", "stopped"}
Store == Flag \cup {"_mainconf"}
Text == {Section[v][o] : v \in Version, o \in Objects} \cup {0}

Up(f) == f \in flags

\* Objects known to registry.for_each<iinstance>.
Registered == {o \in Objects : conf[o] # 0}

\* The flags that core_abort raises.
AbortFlags  == {"stop_signal_flag", "gs_stop_signal", "_stop_flag",
                "_abort_flag"}

Earliest(priority) ==
    {o \in todo : \A p \in todo : priority[o] <= priority[p]}

Init ==
    /\ flags \in {{}, {"_restart_flag"}}  \* not in core's initializer list
    /\ stage = "UNDEFINED"
    /\ pc = "boot"
    /\ caller = "run"
    /\ todo = {}
    /\ chosen = NoObject
    /\ mainconf = 1
    /\ conf = [o \in Objects |-> 0]
    /\ applied = [o \in Objects |-> 0]
    /\ reconfigured = {}
    /\ dirty = FALSE
    /\ life = [o \in Objects |-> "none"]
    /\ calls = [t \in Threads |-> <<>>]
    /\ after_start = FALSE
    /\ exit_code = 1
    /\ late = 0

-----------------------------------------------------------------------------
(***************************************************************************)
(* run() and _sunrise() on the main thread.                                *)
(***************************************************************************)

\* run(): the signal handlers are installed, then the first sunrise.
Run ==
    /\ pc = "boot"
    /\ flags' = flags \ {"gs_stop_signal"}
    /\ pc' = "sunrise"
    /\ caller' = "run"
    /\ UNCHANGED <<stage, todo, chosen, mainconf, objVars, calls, after_start,
                   exit_code, late>>

Sunrise ==
    /\ pc = "sunrise"
    /\ stage' = "CONFIGURING"
    /\ todo' = Objects
    /\ late' = 0
    /\ pc' = "configure"
    /\ UNCHANGED <<flags, caller, chosen, mainconf, objVars, calls,
                   after_start, exit_code>>

\* Mutant of Visit: the loop does not look at _abort_flag.
VisitHeedless(loop, calling, done, candidates) ==
    /\ pc = loop
    /\ IF todo = {}
         THEN pc' = done /\ UNCHANGED <<todo, chosen>>
         ELSE /\ pc' = calling
              /\ chosen' \in candidates
              /\ todo' = todo \ {chosen'}
    /\ UNCHANGED <<flags, stage, caller, mainconf, objVars, calls, after_start,
                   exit_code, late>>

\* The loops of _configure, _initialize and _start look at _abort_flag before
\* every instance. The flag never falls, so one look that finds it up skips
\* the rest of the list.
Visit(loop, calling, done, candidates) ==
    /\ pc = loop
    /\ IF todo = {} \/ Up("_abort_flag")
         THEN /\ pc' = done
              /\ todo' = {}
              /\ UNCHANGED chosen
         ELSE /\ pc' = calling
              /\ chosen' \in candidates
              /\ todo' = todo \ {chosen'}
    /\ UNCHANGED <<flags, stage, caller, mainconf, objVars, calls, after_start,
                   exit_code, late>>

\* The component order of the registry is not the program's to choose.
VisitConfigure  == Visit("configure", "configuring", "configured", todo)
VisitInitialize == Visit("initialize", "initializing", "initialized",
                         Earliest(StartupPriority))
VisitStart      == Visit("start", "starting", "sunriseDone",
                         Earliest(StartupPriority))

\* One call of an object's method that takes the loop back to `loop`; the
\* object may log FATAL, upon which the logger, unless a stop is announced,
\* calls core_abort in this thread.
Called(loop) ==
    /\ pc' = loop
    /\ chosen' = NoObject
    /\ late' = IF Up("_abort_flag") /\ late < 2 THEN late + 1 ELSE late
    /\ \/ flags' = flags
       \/ /\ chosen \in CanLogFatal
          /\ ~Up("stop_signal_flag")
          /\ flags' = flags \cup AbortFlags
    /\ UNCHANGED <<caller, todo, mainconf, calls, after_start, exit_code>>

\* configure() of the chosen component with its section of the configuration.
\* A new text makes the object reconfigured, the first text registers its
\* instance, and a new text of the core replaces _status_log.
ConfigureObject ==
    LET text == Section[mainconf][chosen]
    IN  /\ pc = "configuring"
        /\ Called("configure")
        /\ IF text \in {0, conf[chosen]}
             THEN UNCHANGED <<conf, reconfigured, dirty, stage>>
             ELSE /\ conf' = [conf EXCEPT ![chosen] = text]
                  /\ reconfigured' = reconfigured \cup {chosen}
                  /\ dirty' = (dirty \/ conf[chosen] = 0)
                  /\ stage' = IF chosen = CoreObject THEN "UNDEFINED" ELSE stage
        /\ UNCHANGED <<applied, life>>

\* configure() rejects the section: only _abort_flag goes up.
ConfigureFails ==
    /\ pc = "configuring"
    /\ chosen \in CanFail
    /\ Section[mainconf][chosen] # 0
    /\ flags' = flags \cup {"_abort_flag"}
    /\ late' = IF Up("_abort_flag") /\ late < 2 THEN late + 1 ELSE late
    /\ pc' = "configure"
    /\ chosen' = NoObject
    /\ UNCHANGED <<stage, caller, todo, mainconf, objVars, calls, after_start,
                   exit_code>>

\* Between two phases _sunrise returns when the daemon stops and passes over
\* every later phase when it was aborted.
Phase(before, next, nextStage, instances) ==
    /\ pc = before
    /\ IF Up("_stop_flag") \/ Up("_abort_flag")
         THEN pc' = "sunriseDone" /\ UNCHANGED <<stage, todo>>
         ELSE pc' = next /\ stage' = nextStage /\ todo' = instances
    /\ UNCHANGED <<flags, caller, chosen, mainconf, conf, applied,
                   reconfigured, life, calls, after_start, exit_code, late>>

\* Mutant of BeginInitialize: a clean registry initializes nothing.
BeginInitializeDirtyOnly ==
    /\ Phase("configured", "initialize", "INITIALIZING",
             IF dirty THEN Registered ELSE {})
    /\ UNCHANGED dirty

\* A dirty registry initializes every instance, a clean one the reconfigured.
BeginInitialize ==
    /\ Phase("configured", "initialize", "INITIALIZING",
             IF dirty THEN Registered ELSE Registered \cap reconfigured)
    /\ UNCHANGED dirty

InitializeObject ==
    /\ pc = "initializing"
    /\ Called("initialize")
    /\ applied' = [applied EXCEPT ![chosen] = conf[chosen]]
    /\ reconfigured' = reconfigured \ {chosen}
    /\ life' = IF life[chosen] = "none"
                 THEN [life EXCEPT ![chosen] = "initialized"] ELSE life
    /\ UNCHANGED <<stage, conf, dirty>>

\* Mutant of BeginStart: only reconfigured instances are started.
BeginStartReconfigured ==
    /\ Phase("initialized", "start", "STARTING", Registered \cap reconfigured)
    /\ dirty' = FALSE

\* reset_dirty() closes _initialize, then _start takes every instance.
BeginStart ==
    /\ Phase("initialized", "start", "STARTING", Registered)
    /\ dirty' = FALSE

StartObject ==
    /\ pc = "starting"
    /\ Called("start")
    /\ life' = [life EXCEPT ![chosen] = "started"]
    /\ UNCHANGED <<stage, conf, applied, reconfigured, dirty>>

\* The end of _sunrise: the daemon runs only if all three phases were passed.
SunriseDone ==
    /\ pc = "sunriseDone"
    /\ stage' = IF stage = "STARTING"
                   /\ ~Up("_stop_flag") /\ ~Up("_abort_flag")
                  THEN "IS_RUN" ELSE stage
    /\ pc' = "risen"
    /\ UNCHANGED <<flags, caller, todo, chosen, mainconf, objVars, calls,
                   after_start, exit_code, late>>

\* Mutant of Risen: the request is cleared after the sunrise it asked for.
RisenClears ==
    /\ pc = "risen"
    /\ after_start' = (after_start \/ (caller = "run" /\ ~Up("_stop_flag")))
    /\ flags' = flags \ {"_reconfigure_flag"}
    /\ pc' = "loop"
    /\ UNCHANGED <<stage, caller, todo, chosen, mainconf, objVars, calls,
                   exit_code, late>>

\* run() fires after_start unless the daemon stops; run() and _idle both
\* arrive in the main loop, where a stop is seen again.
Risen ==
    /\ pc = "risen"
    /\ after_start' = (after_start \/ (caller = "run" /\ ~Up("_stop_flag")))
    /\ pc' = "loop"
    /\ UNCHANGED <<flags, stage, caller, todo, chosen, mainconf, objVars,
                   calls, exit_code, late>>

-----------------------------------------------------------------------------
(***************************************************************************)
(* The main loop: the core timer calls _idle.                              *)
(***************************************************************************)

\* Mutant of IdleStop: _idle does not look at the signal.
IdleStopDeaf ==
    /\ pc = "loop"
    /\ Up("_stop_flag")
    /\ pc' = "unwind"
    /\ UNCHANGED <<flags, stage, caller, todo, chosen, mainconf, objVars, calls,
                   after_start, exit_code, late>>

\* _idle stops io_context, and io_context.run() returns in _main_loop.
IdleStop ==
    /\ pc = "loop"
    /\ Up("gs_stop_signal") \/ Up("_stop_flag")
    /\ flags' = flags \cup {"_stop_flag"}
    /\ pc' = "unwind"
    /\ UNCHANGED <<stage, caller, todo, chosen, mainconf, objVars, calls,
                   after_start, exit_code, late>>

\* _idle sees a reconfigure request ...
IdleReconfigure ==
    /\ pc = "loop"
    /\ ~Up("gs_stop_signal") /\ ~Up("_stop_flag")
    /\ Up("_reconfigure_flag")
    /\ pc' = "reconfigure"
    /\ UNCHANGED <<flags, stage, caller, todo, chosen, mainconf, objVars,
                   calls, after_start, exit_code, late>>

\* ... and clears the flag before it calls _sunrise.
ClearReconfigure ==
    /\ pc = "reconfigure"
    /\ flags' = flags \ {"_reconfigure_flag"}
    /\ caller' = "idle"
    /\ pc' = "sunrise"
    /\ UNCHANGED <<stage, todo, chosen, mainconf, objVars, calls, after_start,
                   exit_code, late>>

-----------------------------------------------------------------------------
(***************************************************************************)
(* _stop() and the return of run().                                        *)
(***************************************************************************)

\* Mutant of Unwind: the core does not stop itself.
UnwindOthers ==
    /\ pc = "unwind"
    /\ stage' = "STOPPING"
    /\ todo' = Registered \ {CoreObject}
    /\ pc' = "stop"
    /\ UNCHANGED <<flags, caller, chosen, mainconf, objVars, calls,
                   after_start, exit_code, late>>

\* _stop(): every instance of the registry is to be stopped.
Unwind ==
    /\ pc = "unwind"
    /\ stage' = "STOPPING"
    /\ todo' = Registered
    /\ pc' = "stop"
    /\ UNCHANGED <<flags, caller, chosen, mainconf, objVars, calls,
                   after_start, exit_code, late>>

\* Mutant of VisitStop: the loop runs past the end of its list.
VisitStopPastEnd ==
    /\ pc = "stop"
    /\ pc' = "stopping"
    /\ chosen' \in IF todo = {} THEN {NoObject} ELSE Earliest(ShutdownPriority)
    /\ todo' = todo \ {chosen'}
    /\ UNCHANGED <<flags, stage, caller, mainconf, objVars, calls, after_start,
                   exit_code, late>>

\* Mutant of VisitStop: the order of starting.
VisitStopStartup ==
    /\ pc = "stop"
    /\ IF todo = {}
         THEN pc' = "stopped" /\ UNCHANGED <<todo, chosen>>
         ELSE /\ pc' = "stopping"
              /\ chosen' \in Earliest(StartupPriority)
              /\ todo' = todo \ {chosen'}
    /\ UNCHANGED <<flags, stage, caller, mainconf, objVars, calls, after_start,
                   exit_code, late>>

\* _stop visits every instance, an abort notwithstanding.
VisitStop ==
    /\ pc = "stop"
    /\ IF todo = {}
         THEN pc' = "stopped" /\ UNCHANGED <<todo, chosen>>
         ELSE /\ pc' = "stopping"
              /\ chosen' \in Earliest(ShutdownPriority)
              /\ todo' = todo \ {chosen'}
    /\ UNCHANGED <<flags, stage, caller, mainconf, objVars, calls, after_start,
                   exit_code, late>>

\* An object that is stopped may destroy a callback it never called. The
\* nocall handler logs FATAL for it, unless stop_signal_flag is up by then.
StopObject ==
    /\ pc = "stopping"
    /\ life' = [life EXCEPT ![chosen] = "stopped"]
    /\ LET own == IF chosen = CoreObject THEN {"_stop_flag"} ELSE {}
       IN  \/ flags' = flags \cup own
           \/ /\ chosen \in CanDropCallback
              /\ ~Up("stop_signal_flag")
              /\ flags' = flags \cup own \cup AbortFlags
    /\ pc' = "stop"
    /\ chosen' = NoObject
    /\ UNCHANGED <<stage, caller, todo, mainconf, conf, applied, reconfigured,
                   dirty, calls, after_start, exit_code, late>>

\* after_stop fires, the common workflow stops, run() returns its code.
Return ==
    /\ pc = "stopped"
    /\ exit_code' = IF Up("_restart_flag") THEN -1 ELSE 0
    /\ pc' = "exited"
    /\ UNCHANGED <<flags, stage, caller, todo, chosen, mainconf, objVars,
                   calls, after_start, late>>

-----------------------------------------------------------------------------
(***************************************************************************)
(* Control calls from other threads, one store per step.                   *)
(***************************************************************************)

Begin(t, stores) ==
    /\ pc \notin {"boot", "exited"}
    /\ calls[t] = <<>>
    /\ calls' = [calls EXCEPT ![t] = stores]
    /\ UNCHANGED <<flags, mainVars, mainconf, objVars, after_start, exit_code,
                   late>>

\* Mutant of CoreStop: the stop is not announced.
CoreStopSilent(t) == Begin(t, <<"_stop_flag">>)

CoreStop(t) == Begin(t, <<"_stop_flag", "stop_signal_flag">>)

CoreRestart(t) ==
    Begin(t, <<"_stop_flag", "_restart_flag", "stop_signal_flag">>)

CoreAbort(t) ==
    Begin(t, IF Up("stop_signal_flag")
            THEN <<"gs_stop_signal", "_stop_flag", "_abort_flag">>
            ELSE <<"stop_signal_flag", "gs_stop_signal", "_stop_flag",
                   "_abort_flag">>)

\* The config domain replaces _mainconf, then calls core_reconfigure.
CoreReconfigure(t) ==
    /\ mainconf + 1 \in Version
    /\ Begin(t, <<"_mainconf", "_reconfigure_flag">>)

SignalHandler(t) == Begin(t, <<"stop_signal_flag", "gs_stop_signal">>)

\* The next store of the call a thread is in. A second reload that finds the
\* newest version in place stores it again.
DoStore(t) ==
    /\ calls[t] # <<>>
    /\ calls' = [calls EXCEPT ![t] = Tail(calls[t])]
    /\ IF Head(calls[t]) = "_mainconf"
         THEN /\ mainconf' = IF mainconf + 1 \in Version
                               THEN mainconf + 1 ELSE mainconf
              /\ UNCHANGED flags
         ELSE /\ flags' = flags \cup {Head(calls[t])}
              /\ UNCHANGED mainconf
    /\ UNCHANGED <<mainVars, objVars, after_start, exit_code, late>>

-----------------------------------------------------------------------------
Main ==
    \/ Run \/ Sunrise
    \/ VisitConfigure \/ ConfigureObject \/ ConfigureFails
    \/ BeginInitialize \/ VisitInitialize \/ InitializeObject
    \/ BeginStart \/ VisitStart \/ StartObject
    \/ SunriseDone \/ Risen
    \/ IdleStop \/ IdleReconfigure \/ ClearReconfigure
    \/ Unwind \/ VisitStop \/ StopObject \/ Return

Control(t) ==
    CoreStop(t) \/ CoreRestart(t) \/ CoreAbort(t) \/ CoreReconfigure(t)
        \/ SignalHandler(t)

Next == Main \/ \E t \in Threads : Control(t) \/ DoStore(t)

\* The main thread runs, the core timer keeps ticking, and a call once begun
\* is finished. Nobody is obliged to begin one.
Fairness == WF_vars(Main) /\ \A t \in Threads : WF_vars(DoStore(t))

Spec == Init /\ [][Next]_vars
FairSpec == Spec /\ Fairness

-----------------------------------------------------------------------------
(***************************************************************************)
(* Properties                                                              *)
(***************************************************************************)

Calling == {"configuring", "initializing", "starting", "stopping"}

\* An object is chosen exactly while a call of it is under way.
ChosenInv == IF pc \in Calling THEN chosen \in Objects ELSE chosen = NoObject

\* The types of all variables, and what the loops hold at each place of theirs.
TypeOK ==
    /\ flags \subseteq Flag
    /\ stage \in Stage
    /\ pc \in Location
    /\ caller \in {"run", "idle"}
    /\ todo \subseteq Objects
    /\ ChosenInv
    /\ mainconf \in Version
    /\ conf \in [Objects -> Text]
    /\ applied \in [Objects -> Text]
    /\ reconfigured \subseteq Objects
    /\ dirty \in BOOLEAN
    /\ life \in [Objects -> LifeStep]
    /\ calls \in [Threads -> Seq(Store)]
    /\ after_start \in BOOLEAN
    /\ exit_code \in {-1, 0, 1}
    /\ late \in 0..2

Has(stores, f) == \E i \in DOMAIN stores : stores[i] = f

\* Some thread has still to store f.
Pending(f) == \E t \in Threads : Has(calls[t], f)

Halting == Up("_stop_flag") \/ Up("_abort_flag") \/ Up("gs_stop_signal")

\* No reload is lost: when the main loop rests and nobody is inside a reload,
\* every object works with its section of the configuration in force, although
\* a reload may come at any point of a sunrise (_idle clears the request
\* before _sunrise reads the configuration, reload_and_reconfigure replaces
\* the configuration before it makes the request).
NoReloadLost ==
    pc = "loop" /\ ~Halting /\ ~Up("_reconfigure_flag")
        /\ ~Pending("_reconfigure_flag")
      => \A o \in Objects :
            Section[mainconf][o] # 0 => applied[o] = Section[mainconf][o]

\* The stage IS_RUN that get_status() reports means that every registered
\* object is initialized with its last configuration and started.
RunningMeansStarted ==
    stage = "IS_RUN" =>
        \A o \in Registered : life[o] = "started" /\ applied[o] = conf[o]

\* _start never meets an object that _initialize has not prepared.
StartFindsInitialized ==
    pc \in {"start", "starting"} =>
        \A o \in Registered : life[o] # "none" /\ applied[o] = conf[o]

\* An abort from any thread is contained: at most the one object whose turn
\* had already come is still configured, initialized or started afterwards.
AbortContained == late <= 1

\* Objects are stopped in the order of shutdown_priority, and none is left out.
StopInOrder ==
    /\ \A o, p \in Registered :
          life[o] = "stopped" /\ life[p] # "stopped"
            => ShutdownPriority[o] <= ShutdownPriority[p]
    /\ pc \in {"stopped", "exited"} =>
          \A o \in Registered : life[o] = "stopped"

\* Shutdown is announced: while objects are being stopped stop_signal_flag is
\* up, or the thread that asked for the stop is about to raise it. The only
\* hole in the announcement is that window.
ShutdownAnnounced ==
    pc \in {"stop", "stopping", "stopped", "exited"} =>
        Up("stop_signal_flag") \/ Pending("stop_signal_flag")

Implemented ==
    INSTANCE Lifecycle WITH
        phase  <- CASE pc = "exited" -> "gone"
                    [] pc \in {"unwind", "stop", "stopping", "stopped"} -> "down"
                    [] OTHER -> "up",
        alive  <- {o \in Objects : life[o] = "started"},
        wanted <- Up("_stop_flag") \/ Up("gs_stop_signal")

\* The core keeps the promises of Lifecycle, its progress included.
ImplementsLifecycle == Implemented!Spec
\* The same without the progress.
ImplementsLifecycleSafely == Implemented!SafeSpec

\* Every reload is honoured: a configuration in force is applied to all its
\* objects, unless it is replaced or the daemon is halting.
ReloadHonoured ==
    \A v \in Version :
        mainconf = v ~> \/ mainconf # v
                        \/ Halting
                        \/ \A o \in Objects : Section[v][o] # 0
                                => applied[o] = Section[v][o]
=============================================================================
