------------------------------- MODULE Workflow -------------------------------
(***************************************************************************)
(* A workflow object (src/package/workflow/workflow/workflow_domain.cpp):  *)
(* a pool of threads that register with the cpuset, see Affinity, and a    *)
(* timer in the common workflow that meters how many tasks were dropped    *)
(* since it last looked. A reload changes the number of threads and makes  *)
(* the timer anew. The queue, and what drops from it, is external.         *)
(***************************************************************************)
EXTENDS Affinity

CONSTANTS
    Shot,           \* runs of the timer handler that may overlap
    NoShot,
    MaxDrops,       \* bound: tasks dropped
    MaxReloads      \* bound: reloads

ASSUME WorkflowAssumption ==
    /\ Shot # {} /\ NoShot \notin Shot
    /\ MaxDrops \in Nat /\ MaxReloads \in Nat

VARIABLES
    dropped,        \* the counter of the workflow
    _dropped,       \* what the timer has seen of it
    metered,        \* sum of what the meter got
    _stat_timer,    \* the handler that fires
    shot,           \* where a run of the handler is; now: what it has read
    overlap,        \* history: two runs were under way at a time
    reloads         \* reloads so far

statVars == <<dropped, _dropped, metered, _stat_timer, shot, overlap>>
vars == <<affinityVars, statVars, reloads>>

NotFired == [pc |-> "idle", now |-> 0]

Init ==
    /\ AffinityInit
    /\ dropped = 0 /\ _dropped = 0 /\ metered = 0 /\ overlap = FALSE
    /\ _stat_timer = IF opt.meter THEN CHOOSE h \in Shot : TRUE ELSE NoShot
    /\ shot = [h \in Shot |-> NotFired]
    /\ reloads = 0

Affine(A) == A /\ UNCHANGED <<statVars, reloads>>

\* A queue is full.
Drop ==
    /\ dropped < MaxDrops /\ dropped' = dropped + 1
    /\ UNCHANGED <<affinityVars, _dropped, metered, _stat_timer, shot, overlap, reloads>>

\* The timer: reads the counter,
ReadDropped(h) ==
    /\ shot[h].pc = "idle" /\ _stat_timer = h
    /\ shot' = [shot EXCEPT ![h] = [pc |-> "meter", now |-> dropped]]
    /\ overlap' = (overlap \/ \E g \in Shot \ {h} : shot[g].pc # "idle")
    /\ UNCHANGED <<affinityVars, dropped, _dropped, metered, _stat_timer, reloads>>

\* meters the difference,
MeterDropped(h) ==
    /\ shot[h].pc = "meter"
    /\ metered' = metered + (shot[h].now - _dropped)
    /\ shot' = [shot EXCEPT ![h].pc = "keep"]
    /\ UNCHANGED <<affinityVars, dropped, _dropped, _stat_timer, overlap, reloads>>

\* Mutant of Kept: the counter is read a second time.
KeptNow(h) == dropped

Kept(h) == shot[h].now

\* and keeps what it has read.
KeepDropped(h) ==
    /\ shot[h].pc = "keep"
    /\ _dropped' = Kept(h)
    /\ shot' = [shot EXCEPT ![h] = NotFired]
    /\ UNCHANGED <<affinityVars, dropped, metered, _stat_timer, overlap, reloads>>

\* Mutant of Timer: the timer is made even if a meter has no name.
TimerAnyway(new) == Shot \ {_stat_timer}

\* initialize: no timer if a meter has no name; else a new one, which nothing
\* keeps from firing while the last run of the old one goes on.
Timer(new) == IF new.meter THEN Shot \ {_stat_timer} ELSE {NoShot}

\* reconfigure, initialize and start, in a reload. _dropped stays.
Reload(new) ==
    /\ reloads < MaxReloads /\ reloads' = reloads + 1
    /\ SetOptions(new)
    /\ \E h \in Timer(new) :
          /\ h # NoShot => shot[h].pc = "idle"
          /\ _stat_timer' = h
    /\ UNCHANGED <<dropped, _dropped, metered, shot, overlap>>

\* stop
Stop ==
    /\ StopPools
    /\ _stat_timer' = NoShot
    /\ UNCHANGED <<dropped, _dropped, metered, shot, overlap, reloads>>

-----------------------------------------------------------------------------
Next ==
    \/ Affine(_idle)
    \/ \E t \in Thread :
          \/ \E p \in Pool : Affine(StartThread(t, p))
          \/ Affine(RegThread(t)) \/ Affine(UnregThread(t))
          \/ Affine(ForeignThread(t)) \/ Affine(Exit(t))
    \/ Drop
    \/ \E h \in Shot : ReadDropped(h) \/ MeterDropped(h) \/ KeepDropped(h)
    \/ \E new \in CpuOptions : Reload(new)
    \/ Stop

\* The main thread goes on with its passes; nothing is asked of the others.
Fairness == WF_vars(Affine(_idle))

Spec == Init /\ [][Next]_vars /\ Fairness

-----------------------------------------------------------------------------
(***************************************************************************)
(* Properties, besides those of Affinity                                   *)
(***************************************************************************)

\* The types of all variables.
TypeOK ==
    /\ AffinityTypeOK
    /\ dropped \in 0..MaxDrops /\ _dropped \in 0..dropped
    /\ _stat_timer \in Shot \cup {NoShot} /\ overlap \in BOOLEAN
    /\ \A h \in Shot : shot[h].pc \in {"idle", "meter", "keep"} /\ shot[h].now \in 0..dropped
    /\ _stat_timer # NoShot => opt.meter /\ ~stopped
    /\ reloads \in 0..MaxReloads

\* Through all reloads, with the meter or without it, every dropped task is
\* metered once when the next run is over, as long as no run overtakes another.
DropsCounted ==
    ~overlap /\ (\A h \in Shot : shot[h].pc = "idle") => metered = _dropped
=============================================================================
