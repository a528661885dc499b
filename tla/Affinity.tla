------------------------------- MODULE Affinity -------------------------------
(***************************************************************************)
(* Which CPUs the threads of the process run on. Threads of WFC register   *)
(* with the cpuset under the name of their object and leave it when they   *)
(* finish; the main thread (core::_idle, src/package/core/core/core.cpp)   *)
(* goes over all threads when something has changed. A thread id is used   *)
(* again once its thread is gone. What the kernel, the cpuset and the      *)
(* pools of threads do is external.                                        *)
(***************************************************************************)
EXTENDS FiniteSets, Integers

CONSTANTS
    Thread,         \* thread ids
    Main,           \* the main thread
    Pool,           \* workflows
    NoPool,
    Online,         \* CPUs there are
    CpuOptions      \* [wfc, sys : SUBSET Int, cpu : [Pool -> SUBSET Int],
                    \*  threads : [Pool -> Nat]]

ASSUME AffinityAssumption ==
    /\ Main \in Thread /\ NoPool \notin Pool
    /\ Online # {} /\ IsFiniteSet(Thread)

VARIABLES
    opt,            \* options() of the core and of the workflows
    stopped,        \* the workflows are, and _stop_flag is up
    dirty,          \* of the cpuset
    name,           \* pool a thread is registered for
    thread,         \* state, pool, CPU mask; seen: by the last listing
    pass            \* the main thread: pc, and the threads still to be set

affinityVars == <<opt, stopped, dirty, name, thread, pass>>

Unborn == [state |-> "none", of |-> NoPool, mask |-> Online, seen |-> FALSE]
Resting == [pc |-> "rest", all |-> {}, pids |-> {}]

\* core::reconfigure has registered the main thread under the name of the core,
\* which has no CPUs of its own.
AffinityInit ==
    /\ opt \in CpuOptions /\ stopped = FALSE
    /\ dirty = TRUE
    /\ name = [t \in Thread |-> NoPool]
    /\ thread = [t \in Thread |->
                   IF t = Main THEN [Unborn EXCEPT !.state = "main"] ELSE Unborn]
    /\ pass = Resting

Alive(t) == thread[t].state # "none"
Registered == {t \in Thread : thread[t].state \in {"main", "running"}}
PassAt(where) == pass.pc = where

-----------------------------------------------------------------------------
\* get_cpu, or wfc_cpu; a thread that is not registered has none of its own.
Cpus(t) ==
    LET own == IF name[t] = NoPool THEN {} ELSE opt.cpu[name[t]]
    IN  IF own = {} THEN opt.wfc ELSE own

\* sched_setaffinity. It fails for a thread that is gone, and when none of the
\* CPUs is there.
setaffinity(t, cpus) ==
    thread' = IF ~Alive(t) \/ cpus \cap Online = {} THEN thread
              ELSE [thread EXCEPT ![t].mask = cpus \cap Online]

\* Mutant of DirtyAfter: the cpuset is made clean when the pass is over.
DirtyAfterLate(where) == dirty /\ where # "wfc"

\* clean_dirty comes first: what changes from now on makes another pass.
DirtyAfter(where) == dirty /\ where # "rest"

CleanDirty ==
    /\ PassAt("rest") /\ dirty /\ ~stopped
    /\ dirty' = DirtyAfter("rest")
    /\ pass' = [pass EXCEPT !.pc = "threads"]
    /\ UNCHANGED <<opt, stopped, name, thread>>

\* get_threads
ListThreads ==
    /\ PassAt("threads")
    /\ pass' = [pass EXCEPT !.pc = "pids", !.all = {t \in Thread : Alive(t)}]
    /\ thread' = [t \in Thread |-> [thread[t] EXCEPT !.seen = Alive(t)]]
    /\ UNCHANGED <<opt, stopped, dirty, name>>

\* cpumgr.get_pids
ListPids ==
    /\ PassAt("pids")
    /\ pass' = [pc |-> "wfc", all |-> pass.all \ Registered, pids |-> Registered]
    /\ UNCHANGED <<opt, stopped, dirty, name, thread>>

\* A thread of WFC without CPUs keeps the mask that it has.
SetWfc(t) ==
    /\ PassAt("wfc") /\ t \in pass.pids
    /\ setaffinity(t, Cpus(t))
    /\ pass' = [pass EXCEPT !.pids = @ \ {t}]
    /\ UNCHANGED <<opt, stopped, dirty, name>>

SetSys(t) ==
    /\ PassAt("wfc") /\ pass.pids = {} /\ t \in pass.all
    /\ setaffinity(t, opt.sys)
    /\ pass' = [pass EXCEPT !.all = @ \ {t}]
    /\ UNCHANGED <<opt, stopped, dirty, name>>

EndPass ==
    /\ PassAt("wfc") /\ pass.pids = {} /\ pass.all = {}
    /\ pass' = Resting
    /\ dirty' = DirtyAfter("wfc")
    /\ UNCHANGED <<opt, stopped, name, thread>>

_idle ==
    \/ CleanDirty \/ ListThreads \/ ListPids
    \/ \E t \in Thread : SetWfc(t) \/ SetSys(t)
    \/ EndPass

-----------------------------------------------------------------------------
\* Mutant of Announced: that wfc_cpu or sys_cpu has changed goes unnoticed.
AnnouncedCpu(new) == dirty \/ new.cpu # opt.cpu

\* Whatever has changed, reconfigure sets the CPUs of a pool and registers the
\* main thread once more, which makes the cpuset dirty.
Announced(new) == TRUE

\* The main thread reloads, between two passes.
SetOptions(new) ==
    /\ PassAt("rest") /\ ~stopped
    /\ opt' = new
    /\ dirty' = Announced(new)
    /\ UNCHANGED <<stopped, name, thread, pass>>

\* A workflow that is stopped lets all its threads go.
StopPools ==
    /\ PassAt("rest") /\ ~stopped /\ stopped' = TRUE
    /\ UNCHANGED <<opt, dirty, name, thread, pass>>

Threads(p) == IF stopped THEN 0 ELSE opt.threads[p]
Of(p) == {t \in Thread : thread[t].of = p}

\* The main thread makes a thread for a pool; it inherits the mask.
StartThread(t, p) ==
    /\ PassAt("rest") /\ ~Alive(t) /\ Cardinality(Of(p)) < Threads(p)
    /\ thread' = [thread EXCEPT ![t] = [Unborn EXCEPT !.state = "started", !.of = p,
                                          !.mask = thread[Main].mask]]
    /\ UNCHANGED <<opt, stopped, dirty, name, pass>>

\* startup_handler: reg_thread, set_current_thread
RegThread(t) ==
    /\ thread[t].state = "started"
    /\ thread' = [thread EXCEPT ![t].state = "running"]
    /\ name' = [name EXCEPT ![t] = thread[t].of]
    /\ dirty' = TRUE
    /\ UNCHANGED <<opt, stopped, pass>>

\* finish_handler: unreg_thread, del_current_thread
UnregThread(t) ==
    /\ thread[t].state = "running"
    /\ Cardinality(Of(thread[t].of)) > Threads(thread[t].of)
    /\ thread' = [thread EXCEPT ![t].state = "leaving", ![t].of = NoPool]
    /\ name' = [name EXCEPT ![t] = NoPool]
    /\ dirty' = TRUE
    /\ UNCHANGED <<opt, stopped, pass>>

\* A library makes a thread of its own, from any other.
ForeignThread(t) ==
    /\ ~Alive(t)
    /\ \E parent \in Thread :
          /\ Alive(parent)
          /\ thread' = [thread EXCEPT ![t] = [Unborn EXCEPT !.state = "foreign",
                                                !.mask = thread[parent].mask]]
    /\ UNCHANGED <<opt, stopped, dirty, name, pass>>

Exit(t) ==
    /\ thread[t].state \in {"leaving", "foreign"}
    /\ thread' = [thread EXCEPT ![t] = Unborn]
    /\ UNCHANGED <<opt, stopped, dirty, name, pass>>

-----------------------------------------------------------------------------
AffinityTypeOK ==
    /\ opt \in CpuOptions /\ stopped \in BOOLEAN /\ dirty \in BOOLEAN
    /\ \A t \in Thread :
         /\ name[t] \in Pool \cup {NoPool}
         /\ name[t] = IF thread[t].state = "running" THEN thread[t].of ELSE NoPool
         /\ thread[t].mask \subseteq Online /\ thread[t].mask # {}
    /\ pass.pc \in {"rest", "threads", "pids", "wfc"}
    /\ pass.all \cap pass.pids = {}

\* What the configuration says of a thread.
Wanted(t) ==
    (IF t \in Registered THEN Cpus(t) ELSE opt.sys) \cap Online

Obeys(t) == Wanted(t) = {} \/ thread[t].mask = Wanted(t)

\* However registering, finishing, new threads under old ids and a pass fall
\* together: once the cpuset is clean, every thread that the last pass has seen
\* and every thread of WFC runs where the configuration says.
MasksSettled ==
    PassAt("rest") /\ ~dirty =>
        \A t \in Thread :
            t \in Registered \/ (Alive(t) /\ thread[t].seen) => Obeys(t)

\* A thread of WFC gets there, unless it finishes first or all is stopped.
Settles ==
    \A t \in Thread :
        t \in Registered ~> t \notin Registered \/ Obeys(t) \/ stopped
=============================================================================
