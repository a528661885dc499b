------------------------------ MODULE Statistics ------------------------------
(***************************************************************************)
(* The built-in collector (src/package/statistics/statistics/              *)
(* statistics_domain.cpp). Meters put values into a collector; a timer     *)
(* takes the records out of the collector it was created with and pushes   *)
(* them to the targets. A reload may replace the collector, clears and     *)
(* refills the targets, and creates the timer anew, while a run of its     *)
(* handler may be under way. Aggregation is left out: a value is a record. *)
(***************************************************************************)
EXTENDS Integers, Sequences

CONSTANTS
    Collectors,      \* bound: collectors made, numbered from 1
    Record,
    Target,
    StatOptions,     \* [suspended : BOOLEAN, targets : Seq(Target)]
    Handler,         \* runs of the timer handler that may overlap
    NoTarget

ASSUME StatisticsAssumption ==
    /\ Collectors \in Nat /\ Handler # {} /\ NoTarget \notin Target
    /\ StatOptions \subseteq [suspended : BOOLEAN, targets : Seq(Target)]

VARIABLES
    sopt,            \* options()
    _stat,           \* the collector of the object, and in the registry
    enabled,         \* collectors that take values
    pending,         \* the records in a collector
    _targets,
    _timer_id,       \* the handler that fires
    _started,        \* startup_ignore_ms is over
    elapsed,         \* ... counted from the last start()
    run              \* where a run of the handler is: pc; st: its collector;
                     \* hand: the record it pushes; index: the next target

collectors == <<_stat, enabled, pending>>
timers == <<_timer_id, _started, elapsed>>
statVars == <<sopt, collectors, _targets, timers, run>>

Idle == [pc |-> "idle", st |-> 1, hand |-> {}, index |-> 2]

StatInit ==
    /\ sopt \in StatOptions
    /\ _stat = 1
    /\ enabled = IF sopt.suspended THEN {} ELSE {1}
    /\ pending = [c \in 1..Collectors |-> {}]
    /\ _targets = sopt.targets
    /\ _timer_id = CHOOSE h \in Handler : TRUE
    /\ _started = FALSE /\ elapsed = FALSE
    /\ run = [h \in Handler |-> Idle]

RunAt(h, where) == run[h].pc = where

\* A meter of a collector. One that is not enabled takes nothing.
Measure(c, record) ==
    /\ pending' = IF c \in enabled THEN [pending EXCEPT ![c] = @ \cup {record}]
                                   ELSE pending
    /\ UNCHANGED <<sopt, _stat, enabled, _targets, timers, run>>

\* handler_, once startup_ignore_ms has been over.
Fire(h) ==
    /\ RunAt(h, "idle") /\ _timer_id = h /\ (_started \/ elapsed)
    /\ _started' = TRUE
    /\ run' = [run EXCEPT ![h].pc = "pop"]
    /\ UNCHANGED <<sopt, collectors, _targets, _timer_id, elapsed>>

StartupIgnored ==
    /\ ~elapsed /\ elapsed' = TRUE
    /\ UNCHANGED <<sopt, collectors, _targets, _timer_id, _started, run>>

\* Mutant of Kept: a record stays in the collector.
KeptAll(h, record) == pending[run[h].st]

Kept(h, record) == pending[run[h].st] \ {record}

\* The next record, until there is none. Without targets it is dropped.
PopRecord(h) ==
    /\ RunAt(h, "pop")
    /\ IF pending[run[h].st] = {}
         THEN run' = [run EXCEPT ![h].pc = "idle"] /\ UNCHANGED pending
         ELSE \E record \in pending[run[h].st] :
                /\ pending' = [pending EXCEPT ![run[h].st] = Kept(h, record)]
                /\ run' = IF _targets = <<>> THEN run
                          ELSE [run EXCEPT ![h].pc = "send", ![h].hand = record,
                                           ![h].index = 2]
    /\ UNCHANGED <<sopt, _stat, enabled, _targets, timers>>

\* Mutant of Others: the last target is left out.
OthersFew(h) == run[h].index < Len(_targets)

Others(h) == run[h].index <= Len(_targets)

\* All targets but the first, then the first. (_targets[0] of a list that was
\* cleared meanwhile is a target no more.)
NextTarget(h) ==
    IF RunAt(h, "send") /\ _targets # <<>>
      THEN _targets[IF Others(h) THEN run[h].index ELSE 1] ELSE NoTarget

\* Mutant of Done: the record stays in the hand of the handler.
DoneHolding(h) == [run[h] EXCEPT !.pc = "pop"]

Done(h) == [Idle EXCEPT !.pc = "pop", !.st = run[h].st]

\* A target is called that takes its time,
CallTarget(h) ==
    /\ run' = [run EXCEPT ![h].pc = IF Others(h) THEN "call" ELSE "call first"]
    /\ UNCHANGED <<sopt, collectors, _targets, timers>>

\* and returns; or one that returns at once.
TargetReturns(h) ==
    /\ run' = [run EXCEPT ![h] =
                 IF RunAt(h, "call") \/ (RunAt(h, "send") /\ Others(h))
                   THEN [@ EXCEPT !.pc = "send", !.index = run[h].index + 1] ELSE Done(h)]
    /\ UNCHANGED <<sopt, collectors, _targets, timers>>

\* There is no target any more.
NoTargets(h) ==
    /\ RunAt(h, "send") /\ _targets = <<>> /\ TargetReturns(h)

-----------------------------------------------------------------------------
\* reconfigure: a new collector takes the place of the old one in the registry;
\* what the old one still holds is left to the timer, until restart.
StatReconfigure(new) ==
    /\ _stat < Collectors
    /\ sopt' = new
    /\ _stat' = _stat + 1
    /\ enabled' = IF new.suspended THEN enabled ELSE enabled \cup {_stat + 1}
    /\ UNCHANGED <<pending, _targets, timers, run>>

\* reconfigure_basic: suspended may have changed.
StatReconfigureBasic(suspended) ==
    /\ sopt' = [sopt EXCEPT !.suspended = suspended]
    /\ enabled' = IF suspended THEN enabled \ {_stat} ELSE enabled \cup {_stat}
    /\ UNCHANGED <<_stat, pending, _targets, timers, run>>

\* initialize, under a mutex that the handler does not take.
StatClearTargets ==
    _targets' = <<>> /\ UNCHANGED <<sopt, collectors, timers, run>>
StatFillTargets ==
    _targets' = sopt.targets /\ UNCHANGED <<sopt, collectors, timers, run>>

\* Mutant of Bound: the timer keeps the collector it had.
BoundBefore == run[_timer_id].st

Bound == _stat

\* start: the timer is created anew, for the collector of this moment.
StatStart ==
    /\ \E h \in Handler \ {_timer_id} :
          /\ RunAt(h, "idle")
          /\ _timer_id' = h
          /\ run' = [run EXCEPT ![h].st = Bound]
    /\ elapsed' = _started    \* a new _start_point; who has started is past it
    /\ UNCHANGED <<sopt, collectors, _targets, _started>>

StatStep(h) == PopRecord(h) \/ NoTargets(h)

-----------------------------------------------------------------------------
StatTypeOK ==
    /\ sopt \in StatOptions
    /\ _stat \in 1..Collectors /\ enabled \subseteq 1.._stat
    /\ \A c \in 1..Collectors : pending[c] \subseteq Record
    /\ \A c \in 1..Collectors : c > _stat => pending[c] = {}
    /\ _targets \in {<<>>, sopt.targets} \cup {o.targets : o \in StatOptions}
    /\ _timer_id \in Handler
    /\ _started \in BOOLEAN /\ elapsed \in BOOLEAN
    /\ \A h \in Handler :
         /\ run[h].pc \in {"idle", "pop", "send", "call", "call first"}
         /\ run[h].st \in 1.._stat
         /\ run[h].hand # {} <=> run[h].pc \in {"send", "call", "call first"}
=============================================================================
