------------------------------ MODULE Telemetry ------------------------------
(***************************************************************************)
(* The way of a measurement through three objects: SystemStatistics reads  *)
(* the CPU time and meters it, Statistics takes it out of the collector    *)
(* and pushes it to its targets, Statlog, one of them, writes it down and  *)
(* pushes it on. Clients push to Statlog too. The core reloads all three   *)
(* while the timers fire: first what has new options is reconfigured, then *)
(* all are initialized, then all are started, in any order.                *)
(***************************************************************************)
EXTENDS SystemStatistics, Statistics, Statlog

CONSTANTS
    Client,        \* threads that push to the log
    MaxReloads,    \* bound: reloads by the core
    MaxCalls       \* bound: pushes by clients; each takes two of MaxTicks

ASSUME TelemetryAssumption ==
    /\ Record = (SUBSET (Sampler \X Tick)) \ {{}}
    /\ Target = {"statlog", "other"} /\ Name = {"utime", "value"}
    /\ Handler \cap Client = {} /\ Pusher = Handler \cup Client
    /\ MaxReloads \in Nat /\ MaxCalls \in Nat /\ Collectors > MaxReloads
    /\ \A o \in StatOptions : IsInjective(o.targets)    \* each is named once

VARIABLES
    main,          \* how far a reload has got
    todo,          \* objects still to be started
    reloads,       \* reloads begun
    calls,         \* pushes by clients
    received,      \* history: how often a target got a tick from a sampler
    late           \* history: the runs of older timers that were about to read
                   \* when the timer in force was made

coreVars == <<main, todo, reloads, late>>
vars == <<sysVars, statVars, logVars, coreVars, calls, received>>

Init ==
    /\ SysInit /\ StatInit /\ LogInit
    /\ main = "run" /\ todo = {} /\ reloads = 0 /\ calls = 0
    /\ received = [t \in {"other", "sink"} |-> [m \in Sampler \X Tick |-> 0]]
    /\ late = {}

\* As a bound, a push by a client counts as two ticks.
Input == ticks + 2 * calls

Sys(A) == A /\ UNCHANGED <<statVars, logVars, coreVars, calls, received>>
Stat(A) == A /\ UNCHANGED <<sysVars, logVars, coreVars, calls, received>>

Deliver(t, record) ==
    received' = [received EXCEPT ![t] =
                   [m \in Sampler \X Tick |-> IF m \in record THEN @[m] + 1 ELSE @[m]]]

-----------------------------------------------------------------------------
\* The meter of the process time.
MeasureUtime(s) ==
    /\ Remember(s)
    /\ IF Difference(s) = {} THEN UNCHANGED statVars
                             ELSE Measure(sampler[s].st, Difference(s))
    /\ UNCHANGED <<logVars, coreVars, calls, received>>

\* The handler of Statistics calls Statlog, without a callback, and waits.
CallStatlog(h) ==
    /\ NextTarget(h) = "statlog" /\ CallTarget(h) /\ Push(h, "utime", "none")
    /\ UNCHANGED <<sysVars, coreVars, calls, received>>

\* Statlog has a target of its own.
StatlogForwards(h) ==
    /\ Forward(h) /\ TargetReturns(h)
    /\ IF _target THEN Deliver("sink", run[h].hand) ELSE UNCHANGED received
    /\ UNCHANGED <<sysVars, coreVars, calls>>

CallOther(h) ==
    /\ NextTarget(h) = "other" /\ TargetReturns(h)
    /\ Deliver("other", run[h].hand)
    /\ UNCHANGED <<sysVars, logVars, coreVars, calls>>

ClientPushes(c) ==
    /\ calls < MaxCalls /\ calls' = calls + 1 /\ Input + 1 < MaxTicks
    /\ Push(c, "value", "held")
    /\ UNCHANGED <<sysVars, statVars, coreVars, received>>

LogStep(p) ==
    /\ LookSuspended(p) \/ WriteLegend(p) \/ WriteRow(p) \/ (p \in Client /\ Forward(p))
    /\ UNCHANGED <<sysVars, statVars, coreVars, calls, received>>

-----------------------------------------------------------------------------
\* A reload begins with whatever objects have new options. A new collector makes
\* the registry dirty, and then all objects are initialized; else those that are
\* reconfigured are, which for a change of the basic options may go either way.
Reload(stat, log) ==
    /\ main = "run" /\ reloads < MaxReloads
    /\ main' \in IF stat = sopt THEN {"filled"}
                ELSE IF stat.targets = sopt.targets THEN {"initialize", "filled"}
                ELSE {"initialize"}
    /\ reloads' = reloads + 1
    /\ IF stat = sopt THEN UNCHANGED statVars
       ELSE IF stat.targets = sopt.targets THEN StatReconfigureBasic(stat.suspended)
       ELSE StatReconfigure(stat)
    /\ IF log = lopt THEN UNCHANGED logVars ELSE LogReconfigure(log)
    /\ UNCHANGED <<sysVars, todo, late, calls, received>>

ConfigureStatlog ==
    /\ LogLock \/ LogConfigured
    /\ UNCHANGED <<sysVars, statVars, coreVars, calls, received>>

InitializeStatistics ==
    /\ configuring = "no"
    /\ \/ main = "initialize" /\ main' = "cleared" /\ StatClearTargets
       \/ main = "cleared" /\ main' = "filled" /\ StatFillTargets
    /\ UNCHANGED <<sysVars, logVars, todo, reloads, late, calls, received>>

InitializeStatlog ==
    /\ configuring = "no" /\ main = "filled" /\ main' = "start"
    /\ LogInitialize
    /\ todo' = {"statistics", "system"}
    /\ UNCHANGED <<sysVars, statVars, reloads, late, calls, received>>

Starting(object) ==
    /\ main = "start" /\ object \in todo
    /\ todo' = todo \ {object}
    /\ main' = IF todo' = {} THEN "run" ELSE "start"
    /\ UNCHANGED <<logVars, reloads, calls, received>>

StartStatistics ==
    Starting("statistics") /\ StatStart /\ UNCHANGED <<sysVars, late>>

StartSystem ==
    /\ Starting("system") /\ SysRestart(_stat)
    /\ late' = {s \in Sampler : SamplerAt(s, "read")}
    /\ UNCHANGED statVars

\* The end of the program; after all reloads and calls, as a bound.
StopSystem ==
    /\ reloads = MaxReloads /\ Input = MaxTicks
    /\ main = "run" /\ main' = "stopped"
    /\ SysStop
    /\ UNCHANGED <<statVars, logVars, todo, reloads, late, calls, received>>

-----------------------------------------------------------------------------
HandlerStep(h) ==
    \/ Stat(StatStep(h)) \/ CallStatlog(h) \/ CallOther(h)
    \/ LogStep(h) \/ StatlogForwards(h)

SamplerStep(s) == Sys(ReadProc(s)) \/ MeasureUtime(s)

ReloadStep ==
    \/ ConfigureStatlog \/ InitializeStatistics \/ InitializeStatlog \/ StartStatistics \/ StartSystem

Next ==
    \/ (Input < MaxTicks /\ Sys(Consume)) \/ Stat(StartupIgnored)
    \/ \E s \in Sampler : Sys(SysFire(s)) \/ SamplerStep(s) \/ Sys(ReadProcFails(s))
    \/ \E h \in Handler : Stat(Fire(h)) \/ HandlerStep(h)
    \/ \E c \in Client : ClientPushes(c) \/ LogStep(c)
    \/ \E stat \in StatOptions, log \in LogOptions : Reload(stat, log)
    \/ ReloadStep \/ StopSystem

Spec == Init /\ [][Next]_vars

\* The timer of Statistics fires, what its handler has begun goes on, and
\* startup_ignore_ms passes. Nobody has to push or to reload, the process may be
\* idle, and /proc need not be readable.
Fairness ==
    /\ WF_vars(Stat(StartupIgnored))
    /\ \A h \in Handler : WF_vars(Stat(Fire(h)) \/ HandlerStep(h))

FairSpec == Spec /\ Fairness

-----------------------------------------------------------------------------
(***************************************************************************)
(* Properties                                                              *)
(***************************************************************************)

\* The types of the variables of all parts.
TypeOK ==
    /\ SysTypeOK /\ StatTypeOK /\ LogTypeOK
    /\ main \in {"run", "initialize", "cleared", "filled", "start", "stopped"}
    /\ todo # {} <=> main = "start"
    /\ reloads \in 0..MaxReloads /\ calls \in 0..MaxCalls

\* CPU time that the timer in force has seen: all from its first reading on.
Seen ==
    IF sys_timer_id = NoSampler THEN {}
    ELSE sampler[sys_timer_id].base + 1..sampler[sys_timer_id].utime

Sink(t) == IF t = "statlog" THEN "sink" ELSE t

\* No reload is under way: then no target has been told twice of what the timer
\* in force has seen, in whatever pieces that was measured. Only a run of an older
\* timer that was about to read when this one was made tells of it too, and once.
NoTickTwice ==
    main = "run" =>
        \A i \in Seen, s \in Sampler, t \in {"other", "sink"} :
            received[t][<<s, i>>] <= IF s \in late \cup {sys_timer_id} THEN 1 ELSE 0

Under(m) ==
    \/ \E record \in pending[_stat] : m \in record
    \/ \E h \in Handler : m \in run[h].hand

Arrived(m) ==
    \A j \in 1..Len(_targets) :
        \/ _targets[j] = "statlog" /\ ~_target
        \/ received[Sink(_targets[j])][m] = 1

\* What was seen under this configuration is in the collector that is drained,
\* on its way, or with all targets, unless the collector is suspended.
NoTickLost ==
    main = "run" /\ ~sopt.suspended =>
        \A i \in Seen : LET m == <<sys_timer_id, i>> IN Under(m) \/ Arrived(m)

\* ... and it does arrive, unless another reload or the end comes first. (The
\* first reading that counts is 1 at least, so the first tick is never seen.)
TicksArrive ==
    \A i \in Tick \ {1} :
        main = "run" /\ ~sopt.suspended /\ _targets # <<>> /\ i \in Seen
            ~> main # "run" \/ Arrived(<<sys_timer_id, i>>)
=============================================================================
