--------------------------- MODULE SystemStatistics ---------------------------
(***************************************************************************)
(* The statistics about the process itself (src/package/statistics/        *)
(* system_statistics/system_statistics_domain.cpp): a timer reads          *)
(* /proc/<pid>/stat and puts the CPU time since the last reading into a    *)
(* meter. A record is the set of the clock ticks it counts, each with the  *)
(* handler that counts it: two of them may count the same tick. Only utime *)
(* is modelled: stime is another of its kind, vsize and rss do not depend  *)
(* on earlier readings.                                                    *)
(***************************************************************************)
EXTENDS Integers

CONSTANTS
    MaxTicks,      \* bound: CPU time the process consumes
    Sampler,       \* runs of the timer handler that may overlap
    NoSampler      \* there is no timer

ASSUME SystemStatisticsAssumption ==
    MaxTicks \in Nat /\ Sampler # {} /\ NoSampler \notin Sampler

VARIABLES
    ticks,         \* CPU time of the process
    sys_timer_id,  \* the handler that fires
    sampler        \* a run of the handler: pc; st: the collector of its meter;
                   \* utime: the last reading; now: the one just made;
                   \* base: the first that was not 0

sysVars == <<ticks, sys_timer_id, sampler>>

Tick == 1..MaxTicks
Fresh(c) == [pc |-> "idle", st |-> c, utime |-> 0, now |-> 0, base |-> 0]

SysInit ==
    /\ ticks = 0
    /\ sys_timer_id = CHOOSE s \in Sampler : TRUE
    /\ sampler = [s \in Sampler |-> Fresh(1)]

SamplerAt(s, where) == sampler[s].pc = where

Consume ==
    /\ ticks < MaxTicks /\ ticks' = ticks + 1
    /\ UNCHANGED <<sys_timer_id, sampler>>

SysFire(s) ==
    /\ SamplerAt(s, "idle") /\ sys_timer_id = s
    /\ sampler' = [sampler EXCEPT ![s].pc = "read"]
    /\ UNCHANGED <<ticks, sys_timer_id>>

\* get_procstat; or it fails and this turn is skipped.
ReadProc(s) ==
    /\ SamplerAt(s, "read")
    /\ sampler' = [sampler EXCEPT ![s].pc = "measure", ![s].now = ticks]
    /\ UNCHANGED <<ticks, sys_timer_id>>

ReadProcFails(s) ==
    /\ SamplerAt(s, "read")
    /\ sampler' = [sampler EXCEPT ![s].pc = "idle"]
    /\ UNCHANGED <<ticks, sys_timer_id>>

\* What the meter gets. A reading of 0 counts as none.
Difference(s) ==
    IF sampler[s].utime = 0 THEN {} ELSE {s} \X (sampler[s].utime + 1..sampler[s].now)

\* proto->ps = ps
Remember(s) ==
    /\ SamplerAt(s, "measure")
    /\ sampler' = [sampler EXCEPT ![s].pc = "idle", ![s].utime = sampler[s].now,
                     ![s].base = IF @ = 0 THEN sampler[s].now ELSE @]
    /\ UNCHANGED <<ticks, sys_timer_id>>

\* restart: new meters in the collector that the registry has, and a new timer
\* that has read nothing yet. The old handler may still be under way.
SysRestart(c) ==
    /\ \E s \in Sampler \ {sys_timer_id} :
          /\ SamplerAt(s, "idle")
          /\ sys_timer_id' = s
          /\ sampler' = [r \in Sampler |-> IF SamplerAt(r, "idle") THEN Fresh(c)
                                                               ELSE sampler[r]]
    /\ UNCHANGED ticks

\* stop
SysStop ==
    sys_timer_id' = NoSampler /\ UNCHANGED <<ticks, sampler>>

-----------------------------------------------------------------------------
SysTypeOK ==
    /\ ticks \in 0..MaxTicks
    /\ sys_timer_id \in Sampler \cup {NoSampler}
    /\ \A s \in Sampler :
         /\ sampler[s].pc \in {"idle", "read", "measure"}
         /\ sampler[s].now \in 0..ticks
         /\ sampler[s].utime \in 0..ticks
         /\ sampler[s].base <= sampler[s].utime
=============================================================================
