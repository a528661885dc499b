--------------------------- MODULE TelemetryProofs ---------------------------
(***************************************************************************)
(* Theorems about Telemetry. Whoever pushes and whenever the core reloads, *)
(* each name has one legend, and a legend has the columns of its list. Of  *)
(* what the timer of the system statistics in force has seen of the CPU    *)
(* time, in whatever pieces it is measured, nothing is lost, and no target *)
(* is told twice by one timer: only runs of older timers that were about   *)
(* to read when this one was made tell of it too, and each of them once.   *)
(***************************************************************************)
EXTENDS Telemetry, Folding, TLAPS

Mark == Sampler \X Tick     \* a tick as a sampler counts it
Samples == [pc : {"idle", "read", "measure"}, st : Nat, utime : Nat, now : Nat, base : Nat]
Runs == [pc : {"idle", "pop", "send", "call", "call first"}, st : Nat,
         hand : SUBSET Mark, index : Nat \ {0, 1}]
Pushes == [pc : {"idle", "push", "legend", "row", "forward", "pass"},
           opt : LogOptions, name : Name,
           cb : {"none", "held", "passed on", "answered", "dropped"}]
Sinks == {"other", "sink"}

-----------------------------------------------------------------------------
(* What each variable is.                                                  *)

SamplerShape == ticks \in Nat /\ sampler \in [Sampler -> Samples]

StatShape ==
    /\ pending \in [1..Collectors -> SUBSET Record]
    /\ run \in [Handler -> Runs]
    /\ _targets \in Seq(Target) /\ IsInjective(_targets)

LogShape == push \in [Pusher -> Pushes] /\ legends \in [Name -> Nat]

\* A reading is no older than the one before, and a new timer has none.
SamplerInv ==
    /\ \A s \in Sampler :
          /\ sampler[s].st \in 1.._stat
          /\ sampler[s].base <= sampler[s].utime
          /\ sampler[s].utime <= sampler[s].now
          /\ sampler[s].now <= ticks
          /\ (sampler[s].base = 0) <=> (sampler[s].utime = 0)
    /\ sys_timer_id = NoSampler <=> main = "stopped"

\* There are collectors for all reloads, and one that shall take values does.
CollectorInv ==
    /\ _stat <= reloads + 1
    /\ ~sopt.suspended => _stat \in enabled

\* A handler is within a call exactly while Statlog works for it.
CallInv ==
    \A h \in Handler : ~PushAt(h, "idle") <=> RunAt(h, "call") \/ RunAt(h, "call first")

TypeInv ==
    /\ TypeOK /\ late \subseteq Sampler /\ received \in [Sinks -> [Mark -> Nat]]
    /\ SamplerShape /\ StatShape /\ LogShape
    /\ SamplerInv /\ CollectorInv /\ CallInv

-----------------------------------------------------------------------------
(* The legends.                                                            *)

\* A name is remembered exactly when its legend was written, and a thread that
\* is about to write a row that wants a legend finds it.
LegendInv ==
    /\ bare = {}
    /\ \A n \in Name : legends[n] = IF n \in _legend THEN 1 ELSE 0
    /\ \A p \in Pusher :
          PushAt(p, "row") /\ push[p].opt.show_legend => push[p].name \in _legend

-----------------------------------------------------------------------------
(* The ticks.                                                              *)

Timer == sampler[sys_timer_id]

\* What a sampler has seen is later than its first reading, which may be to come.
First(s) == IF sampler[s].base # 0 THEN sampler[s].base
            ELSE IF SamplerAt(s, "measure") THEN sampler[s].now ELSE ticks

\* What is under way from before the timer in force is no later than this,
Cut == First(sys_timer_id)

\* and what a sampler has measured at all no later than that.
Horizon(s) == IF sampler[s].utime # 0 THEN sampler[s].utime
              ELSE IF SamplerAt(s, "measure") THEN sampler[s].now ELSE ticks

Timely == main # "stopped"

Placed(x) ==
    \/ \E c \in 1..Collectors : \E record \in pending[c] : x \in record
    \/ \E h \in Handler : x \in run[h].hand
    \/ \E t \in Sinks : received[t][x] # 0

HorizonInv == Timely => \A s \in Sampler, i \in Tick : Placed(<<s, i>>) => i <= Horizon(s)

\* Runs of an older timer that were not about to read when this one was made have
\* made their reading already, and nothing that they measure is later.
OldInv ==
    Timely => \A s \in Sampler \ (late \cup {sys_timer_id}) :
                 /\ ~SamplerAt(s, "read")
                 /\ SamplerAt(s, "measure") => sampler[s].now <= Cut
                 /\ \A i \in Tick : Placed(<<s, i>>) => i <= Cut

\* The system statistics are started, and no reload has begun again.
Settled == main = "run" \/ (main = "start" /\ "system" \notin todo)

\* A target that a handler has still to tell of the record in its hand.
Open(h, j) == j = 1 \/ j >= run[h].index

\* Statlog is called in its turn.
InTurn(h) ==
    /\ RunAt(h, "call") =>
          run[h].index \in DOMAIN _targets /\ _targets[run[h].index] = "statlog"
    /\ RunAt(h, "call first") =>
          /\ run[h].index > Len(_targets)
          /\ _targets # <<>> /\ _targets[1] = "statlog"

\* A tick that a sampler counts is in one record of one collector, or in one hand,
\* or told.
OnePlace(x) ==
    /\ \A c \in 1..Collectors : \A record \in pending[c] :
          x \in record => /\ \A h \in Handler : x \notin run[h].hand
                          /\ \A t \in Sinks : received[t][x] = 0
                          /\ \A d \in 1..Collectors : \A r \in pending[d] :
                                x \in r => d = c /\ r = record
    /\ \A h \in Handler :
          x \in run[h].hand =>
             /\ InTurn(h)
             /\ \A g \in Handler : x \in run[g].hand => g = h
             /\ \A j \in DOMAIN _targets :
                   Open(h, j) => received[Sink(_targets[j])][x] = 0
    /\ \A t \in Sinks : received[t][x] <= 1

\* Whoever counts it, if it is later than what was under way.
OnceInv ==
    Settled => /\ Timer.st = _stat
               /\ \A s \in Sampler, i \in Tick : i > Cut => OnePlace(<<s, i>>)

Got(x, j) ==
    \/ _targets[j] = "statlog" /\ ~_target
    \/ received[Sink(_targets[j])][x] = 1

\* A tick waits, or is held by a handler that has told the targets before, or
\* has arrived.
Somewhere(x) ==
    \/ \E record \in pending[_stat] : x \in record
    \/ \E h \in Handler : /\ x \in run[h].hand
                          /\ \A j \in DOMAIN _targets : Open(h, j) \/ Got(x, j)
    \/ \A j \in DOMAIN _targets : Got(x, j)

LostInv == Settled /\ ~sopt.suspended => \A i \in Seen : Somewhere(<<sys_timer_id, i>>)

SeenInv == OldInv /\ HorizonInv /\ OnceInv /\ LostInv

-----------------------------------------------------------------------------
(* Types.                                                                  *)

\* The constants, as the proofs use them.
LEMMA Constants ==
    /\ MaxTicks \in Nat /\ Collectors \in Nat /\ MaxReloads \in Nat /\ MaxCalls \in Nat
    /\ Collectors > MaxReloads
    /\ Sampler # {} /\ Handler # {} /\ NoSampler \notin Sampler
    /\ Record = (SUBSET Mark) \ {{}} /\ Tick = 1..MaxTicks
    /\ Target = {"statlog", "other"} /\ NoTarget \notin Target
    /\ Name = {"utime", "value"}
    /\ Handler \cap Client = {} /\ Pusher = Handler \cup Client
<1>1. /\ MaxTicks \in Nat /\ Collectors \in Nat
      /\ Sampler # {} /\ Handler # {} /\ NoSampler \notin Sampler /\ NoTarget \notin Target
  BY SystemStatisticsAssumption, StatisticsAssumption
<1>2. /\ MaxReloads \in Nat /\ MaxCalls \in Nat /\ Collectors > MaxReloads
      /\ Target = {"statlog", "other"} /\ Name = {"utime", "value"}
      /\ Handler \cap Client = {} /\ Pusher = Handler \cup Client
  BY TelemetryAssumption
<1>3. Record = (SUBSET Mark) \ {{}}
  BY TelemetryAssumption DEF Mark
<1>. QED  BY <1>1, <1>2, <1>3 DEF Tick

LEMMA Options ==
    ASSUME NEW o \in StatOptions
    PROVE  /\ o \in [suspended : BOOLEAN, targets : Seq(Target)]
           /\ IsInjective(o.targets)
BY StatisticsAssumption, TelemetryAssumption

LEMMA LogOption ==
    ASSUME NEW o \in LogOptions
    PROVE  o.target \in BOOLEAN /\ o.show_legend \in BOOLEAN /\ o.suspended \in BOOLEAN
BY StatlogAssumption

LEMMA NoneInjective == <<>> \in Seq(Target) /\ IsInjective(<<>>)
BY DEF IsInjective

LEMMA SilentType ==
    ASSUME lopt \in LogOptions
    PROVE  Silent \in Pushes /\ Silent.pc = "idle" /\ Silent.cb = "none"
<1>1. (CHOOSE o \in LogOptions : TRUE) \in LogOptions
  OBVIOUS
<1>2. (CHOOSE n \in Name : TRUE) \in Name
  BY Constants
<1>. QED  BY <1>1, <1>2 DEF Silent, Pushes

LEMMA TypeInit == Init => TypeInv
<1>. SUFFICES ASSUME Init  PROVE TypeInv
  OBVIOUS
<1>. USE DEF Init, SysInit, StatInit, LogInit
<1>1. /\ ticks = 0 /\ sys_timer_id \in Sampler
      /\ \A s \in Sampler : sampler[s] = Fresh(1)
      /\ sampler \in [Sampler -> Samples] /\ SamplerShape
  BY Constants DEF Fresh, Samples, SamplerShape
<1>2. SysTypeOK
  BY <1>1, Constants DEF SysTypeOK, Fresh
<1>3. /\ sopt \in StatOptions /\ _timer_id \in Handler /\ _stat \in 1..Collectors
      /\ \A h \in Handler : run[h] = Idle
      /\ run \in [Handler -> Runs]
  BY Constants DEF Idle, Runs
<1>4. StatShape
  BY <1>3, Options DEF StatShape
<1>5. StatTypeOK
  <2>1. enabled \subseteq 1.._stat /\ _targets \in {<<>>, sopt.targets}
    BY <1>3
  <2>2. \A c \in 1..Collectors : pending[c] = {}
    OBVIOUS
  <2>3. ASSUME NEW h \in Handler
        PROVE  /\ run[h].pc = "idle" /\ run[h].st \in 1.._stat /\ run[h].hand = {}
               /\ run[h].hand # {} <=> run[h].pc \in {"send", "call", "call first"}
    <3>1. run[h].pc = "idle" /\ run[h].st = 1 /\ run[h].hand = {}
      BY <1>3 DEF Idle
    <3>2. _stat = 1 /\ 1 \in 1..1
      OBVIOUS
    <3>. QED  BY <3>1, <3>2
  <2>4. _started \in BOOLEAN /\ elapsed \in BOOLEAN
    OBVIOUS
  <2>. QED  BY <1>3, <2>1, <2>2, <2>3, <2>4 DEF StatTypeOK
<1>6. /\ lopt \in LogOptions /\ \A p \in Pusher : push[p] = Silent
      /\ push \in [Pusher -> Pushes]
  BY SilentType
<1>7. LogShape
  BY <1>6 DEF LogShape
<1>8. LogTypeOK
  BY <1>6, SilentType, LogOption, Constants DEF LogTypeOK, Pushes, PushAt
<1>9. TypeOK /\ late \subseteq Sampler
  <2>1. main = "run" /\ todo = {} /\ reloads = 0 /\ calls = 0 /\ late = {}
    OBVIOUS
  <2>2. reloads \in 0..MaxReloads /\ calls \in 0..MaxCalls
    BY <2>1, Constants
  <2>. QED  BY <1>2, <1>5, <1>8, <2>1, <2>2 DEF TypeOK
<1>10. received \in [Sinks -> [Mark -> Nat]]
  BY DEF Sinks, Mark
<1>11. SamplerInv
  BY <1>1, Constants DEF SamplerInv, Fresh
<1>12. CollectorInv
  BY <1>3, Options DEF CollectorInv
<1>13. CallInv
  BY <1>3, <1>6, SilentType, Constants DEF CallInv, PushAt, RunAt, Idle
<1>. QED  BY <1>1, <1>4, <1>7, <1>9, <1>10, <1>11, <1>12, <1>13 DEF TypeInv

\* What is known of a reading of the process time.
Sound(r) ==
    /\ r.st \in 1.._stat /\ r.now <= ticks
    /\ r.base <= r.utime /\ r.utime <= r.now /\ (r.base = 0 <=> r.utime = 0)

SysOK == SysTypeOK /\ SamplerShape /\ SamplerInv

LEMMA SysFacts ==
    ASSUME TypeInv
    PROVE  /\ ticks \in 0..MaxTicks /\ ticks \in Nat /\ _stat \in Nat \ {0}
           /\ _stat \in 1..Collectors
           /\ sampler \in [Sampler -> Samples]
           /\ sys_timer_id \in Sampler \cup {NoSampler}
           /\ sys_timer_id = NoSampler <=> main = "stopped"
<1>1. ticks \in 0..MaxTicks /\ sys_timer_id \in Sampler \cup {NoSampler}
  BY DEF TypeInv, TypeOK, SysTypeOK
<1>2. ticks \in Nat /\ sampler \in [Sampler -> Samples]
  BY DEF TypeInv, SamplerShape
<1>3. _stat \in 1..Collectors
  BY DEF TypeInv, TypeOK, StatTypeOK
<1>4. sys_timer_id = NoSampler <=> main = "stopped"
  BY DEF TypeInv, SamplerInv
<1>. QED  BY <1>1, <1>2, <1>3, <1>4, Constants

LEMMA SamplerSound ==
    ASSUME TypeInv, NEW s \in Sampler
    PROVE  /\ sampler[s] \in Samples /\ Sound(sampler[s])
           /\ sampler[s].st \in Nat /\ sampler[s].now \in Nat /\ ticks \in Nat
           /\ sampler[s].utime \in Nat /\ sampler[s].base \in Nat
           /\ sampler[s].pc \in {"idle", "read", "measure"} /\ _stat \in Nat
<1>1. sampler[s] \in Samples /\ ticks \in Nat /\ _stat \in Nat
  BY SysFacts
<1>2. Sound(sampler[s])
  BY DEF TypeInv, SamplerInv, Sound
<1>. QED  BY <1>1, <1>2 DEF Samples

\* The system statistics are in order if every reading is.
LEMMA SysFromSound ==
    ASSUME TypeInv, ticks' \in 0..MaxTicks, ticks' >= ticks,
           _stat' \in Nat, _stat' >= _stat,
           sampler' \in [Sampler -> Samples],
           \A s \in Sampler : sampler'[s] = sampler[s] \/ Sound(sampler'[s]),
           sys_timer_id' \in Sampler \cup {NoSampler},
           sys_timer_id' = NoSampler <=> main' = "stopped"
    PROVE  SysOK'
<1>. USE Constants
<1>1. ASSUME NEW s \in Sampler
      PROVE  /\ sampler'[s].st \in 1.._stat' /\ sampler'[s].now <= ticks'
             /\ sampler'[s].base <= sampler'[s].utime
             /\ sampler'[s].utime <= sampler'[s].now
             /\ (sampler'[s].base = 0 <=> sampler'[s].utime = 0)
             /\ sampler'[s].pc \in {"idle", "read", "measure"}
             /\ sampler'[s].now \in Nat /\ sampler'[s].utime \in Nat
             /\ sampler'[s].base \in Nat
  <2>1. Sound(sampler'[s])
    BY SamplerSound
  <2>2. sampler'[s] \in Samples
    OBVIOUS
  <2>3. _stat \in Nat /\ ticks \in Nat /\ ticks' \in Nat
    BY SamplerSound
  <2>. QED  BY <2>1, <2>2, <2>3 DEF Sound, Samples
<1>2. SysTypeOK'
  BY <1>1 DEF SysTypeOK
<1>3. SamplerShape' /\ SamplerInv'
  BY <1>1 DEF SamplerShape, SamplerInv
<1>. QED  BY <1>2, <1>3 DEF SysOK

LEMMA SysSame ==
    ASSUME TypeInv, UNCHANGED sysVars, _stat' \in Nat, _stat' >= _stat,
           main' = "stopped" <=> main = "stopped"
    PROVE  SysOK'
<1>1. /\ ticks' = ticks /\ sampler' = sampler /\ sys_timer_id' = sys_timer_id
      /\ ticks \in 0..MaxTicks /\ ticks \in Nat
      /\ sampler \in [Sampler -> Samples]
      /\ sys_timer_id \in Sampler \cup {NoSampler}
      /\ sys_timer_id = NoSampler <=> main = "stopped"
  BY SysFacts DEF sysVars
<1>. QED  BY <1>1, SysFromSound

LEMMA SysNext ==
    ASSUME TypeInv, UNCHANGED <<_stat, main>>, NEW s \in Sampler,
           \/ Consume \/ SysFire(s) \/ ReadProc(s) \/ ReadProcFails(s) \/ Remember(s)
    PROVE  SysOK'
<1>1. /\ ticks \in 0..MaxTicks /\ ticks \in Nat /\ _stat \in Nat
      /\ sampler \in [Sampler -> Samples]
      /\ sys_timer_id \in Sampler \cup {NoSampler}
      /\ sys_timer_id = NoSampler <=> main = "stopped"
  BY SysFacts
<1>2. /\ sampler[s] \in Samples /\ Sound(sampler[s])
      /\ sampler[s].now \in Nat /\ sampler[s].utime \in Nat /\ sampler[s].base \in Nat
  BY SamplerSound
<1>3. CASE Consume
  <2>1. ticks' = ticks + 1 /\ ticks' \in 0..MaxTicks
        /\ sampler' = sampler /\ sys_timer_id' = sys_timer_id
    BY <1>1, <1>3, Constants DEF Consume
  <2>. QED  BY <1>1, <2>1, SysFromSound
<1>4. ASSUME NEW r \in Samples, Sound(r), sampler' = [sampler EXCEPT ![s] = r],
             ticks' = ticks, sys_timer_id' = sys_timer_id
      PROVE  SysOK'
  <2>1. sampler' \in [Sampler -> Samples]
        /\ \A q \in Sampler : sampler'[q] = sampler[q] \/ Sound(sampler'[q])
    BY <1>1, <1>4
  <2>. QED  BY <1>1, <1>4, <2>1, SysFromSound
<1>5. CASE SysFire(s)
  <2>. DEFINE r == [sampler[s] EXCEPT !.pc = "read"]
  <2>1. r \in Samples /\ Sound(r)
    BY <1>2 DEF Samples, Sound
  <2>2. sampler' = [sampler EXCEPT ![s] = r]
        /\ ticks' = ticks /\ sys_timer_id' = sys_timer_id
    BY <1>5 DEF SysFire
  <2>. HIDE DEF r
  <2>. QED  BY <1>4, <2>1, <2>2
<1>6. CASE ReadProc(s)
  <2>. DEFINE r == [sampler[s] EXCEPT !.pc = "measure", !.now = ticks]
  <2>1. r \in Samples
    BY <1>1, <1>2 DEF Samples
  <2>2. Sound(r)
    <3>1. /\ r.st = sampler[s].st /\ r.now = ticks
          /\ r.base = sampler[s].base /\ r.utime = sampler[s].utime
      BY <1>2 DEF Samples
    <3>. HIDE DEF r
    <3>. QED  BY <1>1, <1>2, <3>1 DEF Sound
  <2>3. sampler' = [sampler EXCEPT ![s] = r]
        /\ ticks' = ticks /\ sys_timer_id' = sys_timer_id
    BY <1>6 DEF ReadProc
  <2>. HIDE DEF r
  <2>. QED  BY <1>4, <2>1, <2>2, <2>3
<1>7. CASE ReadProcFails(s)
  <2>. DEFINE r == [sampler[s] EXCEPT !.pc = "idle"]
  <2>1. r \in Samples /\ Sound(r)
    BY <1>2 DEF Samples, Sound
  <2>2. sampler' = [sampler EXCEPT ![s] = r]
        /\ ticks' = ticks /\ sys_timer_id' = sys_timer_id
    BY <1>7 DEF ReadProcFails
  <2>. HIDE DEF r
  <2>. QED  BY <1>4, <2>1, <2>2
<1>8. CASE Remember(s)
  <2>. DEFINE b == IF sampler[s].base = 0 THEN sampler[s].now ELSE sampler[s].base
              r == [sampler[s] EXCEPT !.pc = "idle", !.utime = sampler[s].now, !.base = b]
  <2>1. b \in Nat /\ b <= sampler[s].now /\ (b = 0 <=> sampler[s].now = 0)
    BY <1>2 DEF Sound
  <2>2. sampler' = [sampler EXCEPT ![s] = r]
        /\ ticks' = ticks /\ sys_timer_id' = sys_timer_id
    BY <1>8 DEF Remember
  <2>. HIDE DEF b
  <2>3. r \in Samples
    BY <1>2, <2>1 DEF Samples
  <2>4. Sound(r)
    <3>1. /\ r.st = sampler[s].st /\ r.now = sampler[s].now
          /\ r.base = b /\ r.utime = sampler[s].now
      BY <1>2 DEF Samples
    <3>. HIDE DEF r
    <3>. QED  BY <1>1, <1>2, <2>1, <3>1 DEF Sound
  <2>. HIDE DEF r
  <2>. QED  BY <1>4, <2>2, <2>3, <2>4
<1>. QED  BY <1>3, <1>5, <1>6, <1>7, <1>8

LEMMA SysRestarted ==
    ASSUME TypeInv, UNCHANGED _stat, SysRestart(_stat), main' # "stopped"
    PROVE  SysOK'
<1>1. /\ ticks \in 0..MaxTicks /\ ticks \in Nat /\ _stat \in Nat \ {0}
      /\ sampler \in [Sampler -> Samples] /\ Collectors \in Nat
  BY SysFacts, Constants
<1>2. PICK s \in Sampler \ {sys_timer_id} :
          /\ sys_timer_id' = s
          /\ sampler' = [r \in Sampler |-> IF SamplerAt(r, "idle") THEN Fresh(_stat)
                                                               ELSE sampler[r]]
  BY DEF SysRestart
<1>. DEFINE f == Fresh(_stat)
<1>3. f \in Samples
  BY <1>1 DEF Fresh, Samples
<1>4. Sound(f)
  BY <1>1 DEF Fresh, Sound
<1>5. ticks' = ticks
  BY DEF SysRestart
<1>. HIDE DEF f
<1>6. sampler' \in [Sampler -> Samples]
      /\ \A q \in Sampler : sampler'[q] = sampler[q] \/ Sound(sampler'[q])
  <2>1. sampler' = [r \in Sampler |-> IF SamplerAt(r, "idle") THEN f ELSE sampler[r]]
    BY <1>2 DEF f
  <2>. QED  BY <1>1, <1>3, <1>4, <2>1
<1>. QED  BY <1>1, <1>2, <1>5, <1>6, Constants, SysFromSound

StatOK == StatTypeOK /\ StatShape /\ CollectorInv

Lists == {<<>>} \cup {o.targets : o \in StatOptions}

\* What is known of a run of the handler.
Orderly(r) ==
    r.st \in 1.._stat /\ (r.hand # {} <=> r.pc \in {"send", "call", "call first"})

LEMMA StatFacts ==
    ASSUME TypeInv
    PROVE  /\ sopt \in StatOptions /\ _stat \in 1..Collectors /\ enabled \subseteq 1.._stat
           /\ pending \in [1..Collectors -> SUBSET Record]
           /\ \A c \in 1..Collectors : c > _stat => pending[c] = {}
           /\ _targets \in Lists /\ _timer_id \in Handler
           /\ _started \in BOOLEAN /\ elapsed \in BOOLEAN
           /\ run \in [Handler -> Runs] /\ \A h \in Handler : Orderly(run[h])
           /\ reloads \in Nat /\ _stat <= reloads + 1
           /\ (~sopt.suspended => _stat \in enabled)
<1>1. StatTypeOK /\ StatShape /\ CollectorInv /\ reloads \in 0..MaxReloads
  BY DEF TypeInv, TypeOK
<1>2. /\ sopt \in StatOptions /\ _stat \in 1..Collectors /\ enabled \subseteq 1.._stat
      /\ \A c \in 1..Collectors : c > _stat => pending[c] = {}
      /\ _targets \in {<<>>, sopt.targets} \cup {o.targets : o \in StatOptions}
      /\ _timer_id \in Handler /\ _started \in BOOLEAN /\ elapsed \in BOOLEAN
  BY <1>1 DEF StatTypeOK
<1>3. \A h \in Handler : Orderly(run[h])
  BY <1>1 DEF StatTypeOK, Orderly
<1>4. pending \in [1..Collectors -> SUBSET Record] /\ run \in [Handler -> Runs]
  BY <1>1 DEF StatShape
<1>5. reloads \in Nat /\ _stat <= reloads + 1 /\ (~sopt.suspended => _stat \in enabled)
  BY <1>1, Constants DEF CollectorInv
<1>6. _targets \in Lists
  BY <1>2 DEF Lists
<1>. QED  BY <1>2, <1>3, <1>4, <1>5, <1>6

LEMMA ListTypes ==
    ASSUME NEW l \in Lists
    PROVE  l \in Seq(Target) /\ IsInjective(l)
<1>1. CASE l = <<>>
  BY <1>1, NoneInjective
<1>2. CASE l # <<>>
  <2>1. PICK o \in StatOptions : l = o.targets
    BY <1>2 DEF Lists
  <2>. QED  BY <2>1, Options
<1>. QED  BY <1>1, <1>2

\* The collector is in order if all of its parts are.
LEMMA StatFromParts ==
    ASSUME TypeInv,
           sopt' \in StatOptions, _stat' \in 1..Collectors, _stat' >= _stat,
           enabled' \subseteq 1.._stat',
           pending' \in [1..Collectors -> SUBSET Record],
           \A c \in 1..Collectors : c > _stat' => pending'[c] = {},
           _targets' \in Lists, _timer_id' \in Handler,
           _started' \in BOOLEAN, elapsed' \in BOOLEAN,
           run' \in [Handler -> Runs],
           \A h \in Handler : run'[h] = run[h] \/ Orderly(run'[h]),
           reloads' \in Nat, _stat' <= reloads' + 1,
           ~sopt'.suspended => _stat' \in enabled'
    PROVE  StatOK'
<1>1. ASSUME NEW h \in Handler
      PROVE  /\ run'[h].st \in 1.._stat'
             /\ run'[h].hand # {} <=> run'[h].pc \in {"send", "call", "call first"}
             /\ run'[h].pc \in {"idle", "pop", "send", "call", "call first"}
  <2>1. Orderly(run'[h])
    BY StatFacts
  <2>2. _stat \in Nat /\ _stat' \in Nat
    BY StatFacts, Constants
  <2>3. run'[h].pc \in {"idle", "pop", "send", "call", "call first"}
    BY DEF Runs
  <2>4. run'[h].st \in 1.._stat'
    <3>1. run'[h].st \in 1.._stat
      BY <2>1 DEF Orderly
    <3>. QED  BY <2>2, <3>1
  <2>5. run'[h].hand # {} <=> run'[h].pc \in {"send", "call", "call first"}
    BY <2>1 DEF Orderly
  <2>. QED  BY <2>3, <2>4, <2>5
<1>2. _targets' \in {<<>>, sopt'.targets} \cup {o.targets : o \in StatOptions}
  BY DEF Lists
<1>3. \A c \in 1..Collectors : pending'[c] \subseteq Record
  OBVIOUS
<1>4. StatTypeOK'
  BY <1>1, <1>2, <1>3 DEF StatTypeOK
<1>5. _targets' \in Seq(Target) /\ IsInjective(_targets')
  BY ListTypes
<1>6. StatShape'
  BY <1>5 DEF StatShape, IsInjective
<1>7. CollectorInv'
  BY DEF CollectorInv
<1>. QED  BY <1>4, <1>6, <1>7 DEF StatOK

LEMMA StatSame ==
    ASSUME TypeInv, UNCHANGED statVars, reloads' \in Nat, reloads' >= reloads
    PROVE  StatOK'
<1>1. /\ sopt' = sopt /\ _stat' = _stat /\ enabled' = enabled /\ pending' = pending
      /\ _targets' = _targets /\ _timer_id' = _timer_id /\ _started' = _started
      /\ elapsed' = elapsed /\ run' = run
  BY DEF statVars, collectors, timers
<1>2. _stat <= reloads' + 1 /\ _stat >= _stat
  BY StatFacts, Constants
<1>. QED  BY <1>1, <1>2, StatFacts, StatFromParts

\* A handler takes a step.
LEMMA RunStep ==
    ASSUME TypeInv, NEW h \in Handler, NEW r \in Runs, Orderly(r),
           run' = [run EXCEPT ![h] = r],
           pending' \in [1..Collectors -> SUBSET Record],
           \A c \in 1..Collectors : pending'[c] \subseteq pending[c],
           UNCHANGED <<sopt, _stat, enabled, _targets, _timer_id, elapsed, reloads>>,
           _started' \in BOOLEAN
    PROVE  StatOK'
<1>1. run' \in [Handler -> Runs]
      /\ \A g \in Handler : run'[g] = run[g] \/ Orderly(run'[g])
  BY StatFacts
<1>2. \A c \in 1..Collectors : c > _stat => pending'[c] = {}
  BY StatFacts
<1>3. _stat \in Nat /\ _stat >= _stat
  BY StatFacts, Constants
<1>. QED  BY <1>1, <1>2, <1>3, StatFacts, StatFromParts

LEMMA MeasureType ==
    ASSUME TypeInv, NEW c \in 1.._stat, NEW record \in Record, Measure(c, record),
           UNCHANGED reloads
    PROVE  StatOK'
<1>1. /\ sopt' = sopt /\ _stat' = _stat /\ enabled' = enabled /\ _targets' = _targets
      /\ _timer_id' = _timer_id /\ _started' = _started /\ elapsed' = elapsed /\ run' = run
  BY DEF Measure, timers
<1>2. _stat \in Nat /\ _stat >= _stat /\ c \in 1..Collectors
  BY StatFacts, Constants
<1>3. pending' \in [1..Collectors -> SUBSET Record]
      /\ \A d \in 1..Collectors : d > _stat => pending'[d] = {}
  <2>1. CASE c \in enabled
    <3>1. pending' = [pending EXCEPT ![c] = @ \cup {record}]
      BY <2>1 DEF Measure
    <3>2. c <= _stat
      BY <1>2
    <3>. QED  BY <1>2, <3>1, <3>2, StatFacts
  <2>2. CASE c \notin enabled
    BY <2>2, StatFacts DEF Measure
  <2>. QED  BY <2>1, <2>2
<1>. QED  BY <1>1, <1>2, <1>3, StatFacts, StatFromParts

LEMMA RunFacts ==
    ASSUME TypeInv, NEW h \in Handler
    PROVE  /\ run[h] \in Runs /\ Orderly(run[h])
           /\ run[h].index \in Nat \ {0, 1} /\ run[h].st \in Nat
           /\ run[h].st \in 1..Collectors /\ run[h].hand \in SUBSET Mark
           /\ run[h].pc \in {"idle", "pop", "send", "call", "call first"}
           /\ pending[run[h].st] \in SUBSET Record
<1>1. run[h] \in Runs /\ Orderly(run[h])
  BY StatFacts
<1>2. run[h].index \in Nat \ {0, 1} /\ run[h].st \in Nat /\ run[h].hand \in SUBSET Mark
      /\ run[h].pc \in {"idle", "pop", "send", "call", "call first"}
  BY <1>1 DEF Runs
<1>3. run[h].st \in 1.._stat /\ _stat \in 1..Collectors
  BY <1>1, StatFacts DEF Orderly
<1>4. run[h].st \in 1..Collectors
  BY <1>3, Constants
<1>. QED  BY <1>1, <1>2, <1>4, StatFacts

LEMMA FireType ==
    ASSUME TypeInv, NEW h \in Handler, Fire(h), UNCHANGED reloads
    PROVE  StatOK'
<1>. DEFINE r == [run[h] EXCEPT !.pc = "pop"]
<1>1. /\ run' = [run EXCEPT ![h] = r] /\ run[h].pc = "idle" /\ _started' = TRUE
      /\ UNCHANGED <<sopt, _stat, enabled, pending, _targets, _timer_id, elapsed>>
  BY DEF Fire, RunAt, collectors
<1>2. r \in Runs
  BY RunFacts DEF Runs
<1>3. Orderly(r)
  <2>1. r.st = run[h].st /\ r.hand = run[h].hand /\ r.pc = "pop"
    BY RunFacts DEF Runs
  <2>. HIDE DEF r
  <2>. QED  BY <1>1, <2>1, RunFacts DEF Orderly
<1>. HIDE DEF r
<1>. QED  BY <1>1, <1>2, <1>3, StatFacts, RunStep

\* The next record is taken, dropped, or there is none.
LEMMA PopType ==
    ASSUME TypeInv, NEW h \in Handler, PopRecord(h), UNCHANGED reloads
    PROVE  StatOK'
<1>1. UNCHANGED <<sopt, _stat, enabled, _targets, _timer_id, _started, elapsed>>
      /\ run[h].pc = "pop"
  BY DEF PopRecord, timers, RunAt
<1>2. CASE pending[run[h].st] = {}
  <2>. DEFINE r == [run[h] EXCEPT !.pc = "idle"]
  <2>1. run' = [run EXCEPT ![h] = r] /\ pending' = pending
    BY <1>2 DEF PopRecord
  <2>2. r \in Runs
    BY RunFacts DEF Runs
  <2>3. Orderly(r)
    <3>1. r.st = run[h].st /\ r.hand = run[h].hand /\ r.pc = "idle"
      BY RunFacts DEF Runs
    <3>. HIDE DEF r
    <3>. QED  BY <1>1, <3>1, RunFacts DEF Orderly
  <2>. HIDE DEF r
  <2>. QED  BY <1>1, <2>1, <2>2, <2>3, StatFacts, RunStep
<1>3. CASE pending[run[h].st] # {}
  <2>1. PICK record \in pending[run[h].st] :
          /\ pending' = [pending EXCEPT ![run[h].st] = Kept(h, record)]
          /\ run' = IF _targets = <<>> THEN run
                    ELSE [run EXCEPT ![h].pc = "send", ![h].hand = record,
                                     ![h].index = 2]
    BY <1>3 DEF PopRecord
  <2>2. record \in SUBSET Mark /\ record # {}
    BY RunFacts, Constants
  <2>3. pending' \in [1..Collectors -> SUBSET Record]
        /\ \A c \in 1..Collectors : pending'[c] \subseteq pending[c]
    BY <2>1, RunFacts, StatFacts DEF Kept
  <2>4. CASE _targets = <<>>
    <3>1. run' = [run EXCEPT ![h] = run[h]]
      BY <2>1, <2>4, StatFacts
    <3>. QED  BY <1>1, <2>3, <3>1, RunFacts, StatFacts, RunStep
  <2>5. CASE _targets # <<>>
    <3>. DEFINE r == [run[h] EXCEPT !.pc = "send", !.hand = record, !.index = 2]
    <3>1. run' = [run EXCEPT ![h] = r]
      BY <2>1, <2>5
    <3>2. r \in Runs
      <4>1. 2 \in Nat \ {0, 1}
        OBVIOUS
      <4>. QED  BY <2>2, <4>1, RunFacts DEF Runs
    <3>3. Orderly(r)
      <4>1. r.st = run[h].st /\ r.hand = record /\ r.pc = "send"
        BY RunFacts DEF Runs
      <4>. HIDE DEF r
      <4>. QED  BY <2>2, <4>1, RunFacts DEF Orderly
    <3>. HIDE DEF r
    <3>. QED  BY <1>1, <2>3, <3>1, <3>2, <3>3, StatFacts, RunStep
  <2>. QED  BY <2>4, <2>5
<1>. QED  BY <1>2, <1>3

LEMMA CallType ==
    ASSUME TypeInv, NEW h \in Handler, CallTarget(h), RunAt(h, "send"), UNCHANGED reloads
    PROVE  StatOK'
<1>1. PICK where : /\ where \in {"call", "call first"}
                   /\ run' = [run EXCEPT ![h].pc = where]
  BY DEF CallTarget
<1>. DEFINE r == [run[h] EXCEPT !.pc = where]
<1>2. /\ run' = [run EXCEPT ![h] = r] /\ run[h].pc = "send"
      /\ UNCHANGED <<sopt, _stat, enabled, pending, _targets, _timer_id, _started, elapsed>>
  BY <1>1 DEF CallTarget, RunAt, collectors, timers
<1>3. r \in Runs
  BY <1>1, RunFacts DEF Runs
<1>4. Orderly(r)
  <2>1. r.st = run[h].st /\ r.hand = run[h].hand /\ r.pc = where
    BY RunFacts DEF Runs
  <2>. HIDE DEF r
  <2>. QED  BY <1>1, <1>2, <2>1, RunFacts DEF Orderly
<1>. HIDE DEF r
<1>. QED  BY <1>2, <1>3, <1>4, StatFacts, RunStep

\* A handler holds a record.
Busy(h) == run[h].pc \in {"send", "call", "call first"}

LEMMA ReturnType ==
    ASSUME TypeInv, NEW h \in Handler, TargetReturns(h),
           Busy(h), UNCHANGED reloads
    PROVE  StatOK'
<1>1. UNCHANGED <<sopt, _stat, enabled, pending, _targets, _timer_id, _started, elapsed>>
  BY DEF TargetReturns, collectors, timers
<1>2. CASE RunAt(h, "call") \/ (RunAt(h, "send") /\ Others(h))
  <2>. DEFINE next == run[h].index + 1
              r == [run[h] EXCEPT !.pc = "send", !.index = next]
  <2>1. run' = [run EXCEPT ![h] = r]
    BY <1>2, Zenon DEF TargetReturns
  <2>2. next \in Nat \ {0, 1}
    <3>1. run[h].index \in Nat \ {0, 1}
      BY RunFacts
    <3>. QED  BY <3>1
  <2>. HIDE DEF next
  <2>3. r \in Runs
    BY <2>2, RunFacts DEF Runs
  <2>4. Orderly(r)
    <3>1. r.st = run[h].st /\ r.hand = run[h].hand /\ r.pc = "send"
      BY RunFacts DEF Runs
    <3>. HIDE DEF r
    <3>. QED  BY <3>1, RunFacts DEF Orderly, Busy
  <2>. HIDE DEF r
  <2>. QED  BY <1>1, <2>1, <2>3, <2>4, StatFacts, RunStep
<1>3. CASE ~ (RunAt(h, "call") \/ (RunAt(h, "send") /\ Others(h)))
  <2>. DEFINE r == Done(h)
  <2>1. run' = [run EXCEPT ![h] = r]
    BY <1>3 DEF TargetReturns
  <2>2. r.st = run[h].st /\ r.hand = {} /\ r.pc = "pop"
    BY DEF Done, Idle
  <2>3. r \in Runs
    <3>1. 2 \in Nat \ {0, 1}
      OBVIOUS
    <3>. QED  BY <3>1, RunFacts DEF Done, Idle, Runs
  <2>. HIDE DEF r
  <2>4. Orderly(r)
    BY <2>2, RunFacts DEF Orderly
  <2>. QED  BY <1>1, <2>1, <2>3, <2>4, StatFacts, RunStep
<1>. QED  BY <1>2, <1>3

LEMMA StatReloaded ==
    ASSUME TypeInv, NEW new \in StatOptions, reloads' = reloads + 1,
           \/ StatReconfigure(new)
           \/ new.targets = sopt.targets /\ StatReconfigureBasic(new.suspended)
    PROVE  StatOK'
<1>1. _stat \in Nat /\ reloads \in Nat /\ Collectors \in Nat /\ reloads' \in Nat
      /\ _stat <= reloads + 1 /\ _stat <= Collectors /\ _stat >= 1
  BY StatFacts, Constants
<1>2. CASE StatReconfigure(new)
  <2>1. /\ _stat < Collectors /\ sopt' = new /\ _stat' = _stat + 1
        /\ enabled' = IF new.suspended THEN enabled ELSE enabled \cup {_stat + 1}
        /\ UNCHANGED <<pending, _targets, _timer_id, _started, elapsed, run>>
    BY <1>2 DEF StatReconfigure, timers
  <2>2. /\ _stat' \in 1..Collectors /\ _stat' >= _stat /\ _stat' <= reloads' + 1
        /\ 1.._stat \subseteq 1.._stat' /\ _stat' \in 1.._stat'
        /\ \A c \in 1..Collectors : c > _stat' => c > _stat
    BY <1>1, <2>1
  <2>3. enabled' \subseteq 1.._stat'
    BY <2>1, <2>2, StatFacts
  <2>4. ~sopt'.suspended => _stat' \in enabled'
    BY <2>1
  <2>. QED  BY <1>1, <2>1, <2>2, <2>3, <2>4, StatFacts, StatFromParts
<1>3. CASE new.targets = sopt.targets /\ StatReconfigureBasic(new.suspended)
  <2>1. sopt' = new
    <3>1. sopt \in [suspended : BOOLEAN, targets : Seq(Target)]
          /\ new \in [suspended : BOOLEAN, targets : Seq(Target)]
      BY StatFacts, Options
    <3>2. sopt' = [sopt EXCEPT !.suspended = new.suspended]
      BY <1>3 DEF StatReconfigureBasic
    <3>. QED  BY <1>3, <3>1, <3>2
  <2>2. /\ enabled' = IF new.suspended THEN enabled \ {_stat} ELSE enabled \cup {_stat}
        /\ UNCHANGED <<_stat, pending, _targets, _timer_id, _started, elapsed, run>>
    BY <1>3 DEF StatReconfigureBasic, timers
  <2>3. enabled' \subseteq 1.._stat'
    <3>1. _stat \in 1.._stat
      BY <1>1
    <3>. QED  BY <2>2, <3>1, StatFacts
  <2>4. ~sopt'.suspended => _stat' \in enabled'
    BY <2>1, <2>2
  <2>5. _stat' >= _stat /\ _stat' <= reloads' + 1
    BY <1>1, <2>2
  <2>. QED  BY <1>1, <2>1, <2>2, <2>3, <2>4, <2>5, StatFacts, StatFromParts
<1>. QED  BY <1>2, <1>3

LEMMA StatInitialized ==
    ASSUME TypeInv, StatClearTargets \/ StatFillTargets, UNCHANGED reloads
    PROVE  StatOK'
<1>1. /\ UNCHANGED <<sopt, _stat, enabled, pending, _timer_id, _started, elapsed, run>>
      /\ _targets' \in {<<>>, sopt.targets}
  BY DEF StatClearTargets, StatFillTargets, collectors, timers
<1>2. _targets' \in Lists
  BY <1>1, StatFacts DEF Lists
<1>3. _stat \in Nat /\ _stat >= _stat
  BY StatFacts, Constants
<1>. QED  BY <1>1, <1>2, <1>3, StatFacts, StatFromParts

LEMMA StatStarted ==
    ASSUME TypeInv, StatStart, UNCHANGED reloads
    PROVE  StatOK'
<1>1. PICK h \in Handler \ {_timer_id} :
          RunAt(h, "idle") /\ _timer_id' = h /\ run' = [run EXCEPT ![h].st = Bound]
  BY DEF StatStart
<1>2. UNCHANGED <<sopt, _stat, enabled, pending, _targets, _started>> /\ elapsed' = _started
  BY DEF StatStart, collectors
<1>. DEFINE r == [run[h] EXCEPT !.st = _stat]
<1>3. _stat \in Nat /\ _stat >= _stat /\ _stat \in 1.._stat
  BY StatFacts, Constants
<1>4. r \in Runs
  BY <1>3, RunFacts DEF Runs
<1>5. Orderly(r)
  <2>1. r.st = _stat /\ r.hand = run[h].hand /\ r.pc = run[h].pc
    BY RunFacts DEF Runs
  <2>. HIDE DEF r
  <2>. QED  BY <1>3, <2>1, RunFacts DEF Orderly
<1>6. run' = [run EXCEPT ![h] = r]
  BY <1>1 DEF Bound
<1>. HIDE DEF r
<1>7. run' \in [Handler -> Runs]
      /\ \A g \in Handler : run'[g] = run[g] \/ Orderly(run'[g])
  BY <1>4, <1>5, <1>6, StatFacts
<1>. QED  BY <1>1, <1>2, <1>3, <1>7, StatFacts, StatFromParts

LEMMA IgnoredType ==
    ASSUME TypeInv, StartupIgnored, UNCHANGED reloads
    PROVE  StatOK'
<1>1. /\ UNCHANGED <<sopt, _stat, enabled, pending, _targets, _timer_id, _started, run>>
      /\ elapsed' = TRUE
  BY DEF StartupIgnored, collectors
<1>2. _stat \in Nat /\ _stat >= _stat
  BY StatFacts, Constants
<1>. QED  BY <1>1, <1>2, StatFacts, StatFromParts

-----------------------------------------------------------------------------
(* The log.                                                                *)

LogOK == LogTypeOK /\ LogShape

\* A thread holds its callback as long as it pushes with one.
Holding(r) == r.cb = "held" <=> r.pc # "idle" /\ r.cb # "none"

LEMMA LogFacts ==
    ASSUME TypeInv
    PROVE  /\ lopt \in LogOptions /\ _target \in BOOLEAN
           /\ configuring \in {"no", "asked", "locked"}
           /\ _legend \subseteq Name /\ bare \subseteq Name
           /\ push \in [Pusher -> Pushes] /\ legends \in [Name -> Nat]
           /\ \A p \in Pusher : Holding(push[p])
<1>1. LogTypeOK /\ LogShape
  BY DEF TypeInv, TypeOK
<1>2. \A p \in Pusher : Holding(push[p])
  BY <1>1 DEF LogTypeOK, PushAt, Holding
<1>. QED  BY <1>1, <1>2 DEF LogTypeOK, LogShape

LEMMA LogFromParts ==
    ASSUME TypeInv,
           lopt' \in LogOptions, _target' \in BOOLEAN,
           configuring' \in {"no", "asked", "locked"},
           _legend' \subseteq Name, bare' \subseteq Name,
           push' \in [Pusher -> Pushes], legends' \in [Name -> Nat],
           \A p \in Pusher : push'[p] = push[p] \/ Holding(push'[p])
    PROVE  LogOK'
<1>1. LogShape'
  BY DEF LogShape
<1>2. ASSUME NEW p \in Pusher
      PROVE  /\ push'[p].pc \in {"idle", "push", "legend", "row", "forward", "pass"}
             /\ push'[p].opt \in LogOptions /\ push'[p].name \in Name
             /\ push'[p].cb \in {"none", "held", "passed on", "answered", "dropped"}
             /\ push'[p].cb = "held" <=> push'[p].pc # "idle" /\ push'[p].cb # "none"
  <2>1. Holding(push'[p])
    BY LogFacts
  <2>. QED  BY <2>1 DEF Holding, Pushes
<1>3. LogTypeOK'
  BY <1>2 DEF LogTypeOK, PushAt
<1>. QED  BY <1>1, <1>3 DEF LogOK

LEMMA LogSame ==
    ASSUME TypeInv, UNCHANGED logVars
    PROVE  LogOK'
<1>1. /\ lopt' = lopt /\ _target' = _target /\ _legend' = _legend /\ bare' = bare
      /\ configuring' = configuring /\ push' = push /\ legends' = legends
  BY DEF logVars, logSettings, logHistory
<1>. QED  BY <1>1, LogFacts, LogFromParts

LEMMA PushFacts ==
    ASSUME TypeInv, NEW p \in Pusher
    PROVE  /\ push[p] \in Pushes /\ Holding(push[p])
           /\ push[p].name \in Name /\ push[p].opt \in LogOptions
           /\ legends[push[p].name] \in Nat
BY LogFacts DEF Pushes

LEMMA PushChanged ==
    ASSUME TypeInv, NEW p \in Pusher, NEW r \in Pushes, Holding(r),
           push' = [push EXCEPT ![p] = r],
           UNCHANGED <<lopt, _target, configuring>>, _legend' \subseteq Name, bare' \subseteq Name,
           legends' \in [Name -> Nat]
    PROVE  LogOK'
<1>1. push' \in [Pusher -> Pushes]
      /\ \A q \in Pusher : push'[q] = push[q] \/ Holding(push'[q])
  BY LogFacts
<1>. QED  BY <1>1, LogFacts, LogFromParts

LEMMA PushType ==
    ASSUME TypeInv, NEW p \in Pusher, NEW name \in Name, NEW cb \in {"none", "held"},
           Push(p, name, cb)
    PROVE  LogOK'
<1>. DEFINE r == [Silent EXCEPT !.pc = "push", !.name = name, !.cb = cb]
<1>1. Silent \in Pushes
  BY LogFacts, SilentType
<1>2. r \in Pushes
  BY <1>1 DEF Pushes
<1>3. Holding(r)
  <2>1. r.pc = "push" /\ r.cb = cb
    BY <1>1 DEF Pushes
  <2>. HIDE DEF r
  <2>. QED  BY <2>1 DEF Holding
<1>4. push' = [push EXCEPT ![p] = r]
      /\ UNCHANGED <<lopt, _target, configuring, _legend, bare, legends>>
  BY DEF Push, logSettings, logHistory
<1>. HIDE DEF r
<1>. QED  BY <1>2, <1>3, <1>4, LogFacts, PushChanged

LEMMA PushStepType ==
    ASSUME TypeInv, NEW p \in Pusher, PushStep(p)
    PROVE  LogOK'
<1>1. push[p] \in Pushes /\ Holding(push[p])
  BY PushFacts
<1>2. CASE LookSuspended(p)
  <2>1. PICK where : /\ where \in {"pass", "legend"}
                     /\ push' = [push EXCEPT ![p].pc = where, ![p].opt = lopt]
    BY <1>2 DEF LookSuspended
  <2>2. push[p].pc = "push" /\ UNCHANGED <<lopt, _target, configuring, _legend, bare, legends>>
    BY <1>2 DEF LookSuspended, PushAt, logSettings, logHistory
  <2>. DEFINE r == [push[p] EXCEPT !.pc = where, !.opt = lopt]
  <2>3. push' = [push EXCEPT ![p] = r]
    BY <2>1
  <2>4. r \in Pushes
    BY <1>1, <2>1, LogFacts DEF Pushes
  <2>5. Holding(r)
    <3>1. r.pc = where /\ r.cb = push[p].cb
      BY <1>1 DEF Pushes
    <3>. HIDE DEF r
    <3>. QED  BY <1>1, <2>1, <2>2, <3>1 DEF Holding
  <2>. HIDE DEF r
  <2>. QED  BY <2>2, <2>3, <2>4, <2>5, LogFacts, PushChanged
<1>3. CASE WriteLegend(p)
  <2>. DEFINE name == push[p].name
              new == push[p].opt.show_legend /\ name \notin _legend
              r == [push[p] EXCEPT !.pc = "row"]
  <2>1. /\ push[p].pc = "legend" /\ UNCHANGED <<lopt, _target, configuring, bare>>
        /\ push' = [push EXCEPT ![p] = r]
        /\ _legend' = _legend \cup (IF new THEN {name} ELSE {})
        /\ legends' = [legends EXCEPT ![name] = IF new THEN @ + 1 ELSE @]
    BY <1>3 DEF WriteLegend, WithLegend, PushAt, logSettings
  <2>2. name \in Name /\ legends[name] \in Nat
    BY PushFacts
  <2>3. r \in Pushes
    BY <1>1 DEF Pushes
  <2>4. Holding(r)
    <3>1. r.pc = "row" /\ r.cb = push[p].cb
      BY <1>1 DEF Pushes
    <3>. HIDE DEF r
    <3>. QED  BY <1>1, <2>1, <3>1 DEF Holding
  <2>. HIDE DEF r, new, name
  <2>5. _legend' \subseteq Name /\ legends' \in [Name -> Nat]
    BY <2>1, <2>2, LogFacts
  <2>. QED  BY <2>1, <2>3, <2>4, <2>5, LogFacts, PushChanged
<1>4. CASE WriteRow(p)
  <2>. DEFINE r == [push[p] EXCEPT !.pc = "forward"]
  <2>1. /\ push[p].pc = "row" /\ UNCHANGED <<lopt, _target, configuring, _legend, legends>>
        /\ push' = [push EXCEPT ![p] = r]
        /\ bare' \in {bare, bare \cup {push[p].name}}
    BY <1>4 DEF WriteRow, PushAt, logSettings
  <2>2. r \in Pushes
    BY <1>1 DEF Pushes
  <2>3. Holding(r)
    <3>1. r.pc = "forward" /\ r.cb = push[p].cb
      BY <1>1 DEF Pushes
    <3>. HIDE DEF r
    <3>. QED  BY <1>1, <2>1, <3>1 DEF Holding
  <2>. HIDE DEF r
  <2>4. bare' \subseteq Name
    BY <2>1, PushFacts, LogFacts
  <2>. QED  BY <2>1, <2>2, <2>3, <2>4, LogFacts, PushChanged
<1>5. CASE Forward(p)
  <2>1. UNCHANGED <<lopt, _target, configuring, _legend, bare, legends>>
    BY <1>5 DEF Forward, logSettings, logHistory
  <2>2. CASE push[p].cb = "none"
    <3>1. push' = [push EXCEPT ![p] = Silent]
      BY <1>5, <2>2 DEF Forward
    <3>2. Silent \in Pushes /\ Holding(Silent)
      BY LogFacts, SilentType DEF Holding
    <3>. QED  BY <2>1, <3>1, <3>2, LogFacts, PushChanged
  <2>3. CASE push[p].cb # "none"
    <3>1. PICK fate : /\ fate \in {"passed on", "dropped", "answered"}
                      /\ push' = [push EXCEPT ![p].pc = "idle", ![p].cb = fate]
      BY <1>5, <2>3 DEF Forward
    <3>. DEFINE r == [push[p] EXCEPT !.pc = "idle", !.cb = fate]
    <3>2. push' = [push EXCEPT ![p] = r]
      BY <3>1
    <3>3. r \in Pushes
      BY <1>1, <3>1 DEF Pushes
    <3>4. Holding(r)
      <4>1. r.pc = "idle" /\ r.cb = fate
        BY <1>1 DEF Pushes
      <4>. HIDE DEF r
      <4>. QED  BY <3>1, <4>1 DEF Holding
    <3>. HIDE DEF r
    <3>. QED  BY <2>1, <3>2, <3>3, <3>4, LogFacts, PushChanged
  <2>. QED  BY <2>2, <2>3
<1>. QED  BY <1>2, <1>3, <1>4, <1>5 DEF PushStep

LEMMA LogReloaded ==
    ASSUME TypeInv,
           \/ LogInitialize \/ LogLock \/ LogConfigured
           \/ \E new \in LogOptions : LogReconfigure(new)
    PROVE  LogOK'
<1>1. CASE LogInitialize
  <2>1. /\ _target' = lopt.target
        /\ UNCHANGED <<lopt, configuring, _legend, bare, push, legends>>
    BY <1>1 DEF LogInitialize, logHistory
  <2>. QED  BY <2>1, LogFacts, LogOption, LogFromParts
<1>2. CASE LogLock \/ LogConfigured
  <2>1. /\ configuring' \in {"locked", "no"}
        /\ UNCHANGED <<lopt, _target, _legend, bare, push, legends>>
    BY <1>2 DEF LogLock, LogConfigured, logHistory
  <2>. QED  BY <2>1, LogFacts, LogFromParts
<1>3. ASSUME NEW new \in LogOptions, LogReconfigure(new)  PROVE LogOK'
  <2>1. /\ lopt' = new /\ configuring' = "asked"
        /\ UNCHANGED <<_target, _legend, bare, push, legends>>
    BY <1>3 DEF LogReconfigure, logHistory
  <2>. QED  BY <2>1, LogFacts, LogFromParts
<1>. QED  BY <1>1, <1>2, <1>3

-----------------------------------------------------------------------------
(* All parts together.                                                     *)

CoreOK ==
    /\ main \in {"run", "initialize", "cleared", "filled", "start", "stopped"}
    /\ todo # {} <=> main = "start"
    /\ reloads \in 0..MaxReloads /\ calls \in 0..MaxCalls
    /\ late \subseteq Sampler /\ received \in [Sinks -> [Mark -> Nat]]

LEMMA CoreFacts == ASSUME TypeInv PROVE CoreOK
BY DEF TypeInv, TypeOK, CoreOK

LEMMA CoreSame ==
    ASSUME TypeInv, UNCHANGED <<main, todo, reloads, calls, late, received>>
    PROVE  CoreOK'
BY CoreFacts DEF CoreOK

LEMMA TypeFromParts ==
    ASSUME SysOK', StatOK', LogOK', CoreOK', CallInv'
    PROVE  TypeInv'
BY DEF SysOK, StatOK, LogOK, CoreOK, TypeInv, TypeOK

\* The calls of Statlog are what they were if no handler enters or leaves one.
LEMMA CallsKept ==
    ASSUME TypeInv,
           \A h \in Handler :
              /\ push'[h].pc = "idle" <=> push[h].pc = "idle"
              /\ run'[h].pc \in {"call", "call first"}
                   <=> run[h].pc \in {"call", "call first"}
    PROVE  CallInv'
BY DEF TypeInv, CallInv, PushAt, RunAt

LEMMA CallsSame ==
    ASSUME TypeInv, UNCHANGED <<push, run>>
    PROVE  CallInv'
BY CallsKept

\* A handler is a pusher, and no client is one.
LEMMA Pushers ==
    /\ Handler \subseteq Pusher /\ Client \subseteq Pusher
    /\ \A c \in Client : c \notin Handler
BY Constants

LEMMA Delivered ==
    ASSUME TypeInv, NEW t \in Sinks, NEW record, Deliver(t, record)
    PROVE  received' \in [Sinks -> [Mark -> Nat]]
<1>1. received \in [Sinks -> [Mark -> Nat]]
  BY DEF TypeInv
<1>2. received[t] \in [Mark -> Nat]
  BY <1>1
<1>. DEFINE f == [x \in Mark |-> IF x \in record THEN received[t][x] + 1
                                                 ELSE received[t][x]]
<1>3. received' = [received EXCEPT ![t] = f]
  BY DEF Deliver, Mark
<1>4. f \in [Mark -> Nat]
  BY <1>2
<1>. HIDE DEF f
<1>. QED  BY <1>1, <1>3, <1>4

\* A target that returns sends the handler to the next one, or back for the
\* next record.
Onward(h) == RunAt(h, "call") \/ (RunAt(h, "send") /\ Others(h))

LEMMA Returned ==
    ASSUME TypeInv, NEW h \in Handler, TargetReturns(h)
    PROVE  /\ \A g \in Handler \ {h} : run'[g] = run[g]
           /\ run'[h].pc \in {"send", "pop"}
           /\ Onward(h) => /\ run'[h].pc = "send" /\ run'[h].hand = run[h].hand
                           /\ run'[h].index = run[h].index + 1
           /\ ~Onward(h) => run'[h].pc = "pop" /\ run'[h].hand = {}
<1>1. run \in [Handler -> Runs]
  BY StatFacts
<1>2. CASE Onward(h)
  <2>1. PICK k : k = run[h].index + 1
    OBVIOUS
  <2>. DEFINE r == [run[h] EXCEPT !.pc = "send", !.index = k]
  <2>2. run' = [run EXCEPT ![h] = r]
    BY <1>2, <2>1, Zenon DEF TargetReturns, Onward
  <2>3. r.pc = "send" /\ r.index = k /\ r.hand = run[h].hand
    BY <1>1 DEF Runs
  <2>. HIDE DEF r
  <2>4. run'[h] = r /\ \A g \in Handler \ {h} : run'[g] = run[g]
    BY <1>1, <2>2
  <2>. QED  BY <1>2, <2>1, <2>3, <2>4, Zenon
<1>3. CASE ~Onward(h)
  <2>1. run' = [run EXCEPT ![h] = Done(h)]
    BY <1>3, Zenon DEF TargetReturns, Onward
  <2>2. Done(h).pc = "pop" /\ Done(h).hand = {}
    BY DEF Done, Idle
  <2>. QED  BY <1>1, <1>3, <2>1, <2>2
<1>. QED  BY <1>2, <1>3

\* The steps of the handler of Statistics that do not call Statlog.
LEMMA HandlerKeeps ==
    ASSUME TypeInv, NEW h \in Handler,
           \/ Fire(h) \/ PopRecord(h)
           \/ TargetReturns(h) /\ RunAt(h, "send"),
           UNCHANGED <<push, reloads>>
    PROVE  StatOK' /\ CallInv'
<1>1. run \in [Handler -> Runs]
  BY StatFacts
<1>2. CASE Fire(h)
  <2>1. run[h].pc = "idle" /\ run' = [run EXCEPT ![h].pc = "pop"]
    BY <1>2 DEF Fire, RunAt
  <2>2. run'[h].pc = "pop" /\ \A g \in Handler \ {h} : run'[g] = run[g]
    BY <1>1, <2>1 DEF Runs
  <2>3. CallInv'
    BY <2>1, <2>2, CallsKept
  <2>. QED  BY <1>2, <2>3, FireType
<1>3. CASE PopRecord(h)
  <2>1. run[h].pc = "pop"
    BY <1>3 DEF PopRecord, RunAt
  <2>2. run'[h].pc \in {"idle", "send", "pop"} /\ \A g \in Handler \ {h} : run'[g] = run[g]
    <3>1. CASE pending[run[h].st] = {}
      <4>1. run' = [run EXCEPT ![h].pc = "idle"]
        BY <1>3, <3>1 DEF PopRecord
      <4>. QED  BY <1>1, <4>1 DEF Runs
    <3>2. CASE pending[run[h].st] # {}
      <4>1. PICK record : \/ run' = run
                          \/ run' = [run EXCEPT ![h].pc = "send", ![h].hand = record,
                                                ![h].index = 2]
        BY <1>3, <3>2 DEF PopRecord
      <4>. QED  BY <1>1, <2>1, <4>1, ZenonT(60) DEF Runs
    <3>. QED  BY <3>1, <3>2
  <2>3. CallInv'
    BY <2>1, <2>2, CallsKept
  <2>. QED  BY <1>3, <2>3, PopType
<1>4. CASE TargetReturns(h) /\ RunAt(h, "send")
  <2>1. run[h].pc = "send" /\ Busy(h)
    BY <1>4 DEF RunAt, Busy
  <2>2. run'[h].pc \in {"send", "pop"} /\ \A g \in Handler \ {h} : run'[g] = run[g]
    BY <1>4, Returned
  <2>3. CallInv'
    BY <2>1, <2>2, CallsKept
  <2>. QED  BY <1>4, <2>1, <2>3, ReturnType
<1>. QED  BY <1>2, <1>3, <1>4

\* A push that is forwarded is over.
LEMMA Forwarded ==
    ASSUME TypeInv, NEW p \in Pusher, Forward(p)
    PROVE  \E r : push' = [push EXCEPT ![p] = r] /\ r.pc = "idle"
<1>1. CASE push[p].cb = "none"
  <2>1. push' = [push EXCEPT ![p] = Silent]
    BY <1>1 DEF Forward
  <2>2. Silent.pc = "idle"
    BY LogFacts, SilentType
  <2>. QED  BY <2>1, <2>2
<1>2. CASE push[p].cb # "none"
  <2>1. PICK fate : push' = [push EXCEPT ![p] = [push[p] EXCEPT !.pc = "idle", !.cb = fate]]
    BY <1>2 DEF Forward
  <2>2. [push[p] EXCEPT !.pc = "idle", !.cb = fate].pc = "idle"
    BY PushFacts DEF Pushes
  <2>. QED  BY <2>1, <2>2
<1>. QED  BY <1>1, <1>2

\* A push goes on; only the last step of one makes a pusher idle.
LEMMA PushKeeps ==
    ASSUME TypeInv, NEW p \in Pusher, PushStep(p), p \in Client \/ ~Forward(p),
           UNCHANGED run
    PROVE  LogOK' /\ CallInv'
<1>1. push \in [Pusher -> Pushes]
  BY LogFacts
<1>2. CASE Forward(p)
  <2>1. \A q \in Pusher \ {p} : push'[q] = push[q]
    BY <1>1, <1>2 DEF Forward
  <2>2. \A h \in Handler : push'[h] = push[h]
    BY <1>2, <2>1, Pushers
  <2>3. CallInv'
    BY <2>2, CallsKept
  <2>. QED  BY <2>3, PushStepType
<1>3. CASE ~Forward(p)
  <2>1. /\ push[p].pc \in {"push", "legend", "row"}
        /\ push'[p].pc \in {"pass", "legend", "row", "forward"}
        /\ \A q \in Pusher \ {p} : push'[q] = push[q]
    <3>1. PICK r : /\ push' = [push EXCEPT ![p] = r]
                   /\ r.pc \in {"pass", "legend", "row", "forward"}
      <4>1. CASE LookSuspended(p)
        <5>1. PICK where \in {"pass", "legend"} :
                push' = [push EXCEPT ![p].pc = where, ![p].opt = lopt]
          BY <4>1 DEF LookSuspended
        <5>2. push' = [push EXCEPT ![p] = [push[p] EXCEPT !.pc = where, !.opt = lopt]]
          BY <5>1
        <5>3. [push[p] EXCEPT !.pc = where, !.opt = lopt].pc = where
          BY <1>1 DEF Pushes
        <5>. QED  BY <5>1, <5>2, <5>3
      <4>2. CASE WriteLegend(p)
        <5>1. push' = [push EXCEPT ![p] = [push[p] EXCEPT !.pc = "row"]]
          BY <4>2 DEF WriteLegend
        <5>2. [push[p] EXCEPT !.pc = "row"].pc = "row"
          BY <1>1 DEF Pushes
        <5>. QED  BY <5>1, <5>2
      <4>3. CASE WriteRow(p)
        <5>1. push' = [push EXCEPT ![p] = [push[p] EXCEPT !.pc = "forward"]]
          BY <4>3 DEF WriteRow
        <5>2. [push[p] EXCEPT !.pc = "forward"].pc = "forward"
          BY <1>1 DEF Pushes
        <5>. QED  BY <5>1, <5>2
      <4>. QED  BY <1>3, <4>1, <4>2, <4>3 DEF PushStep
    <3>2. push[p].pc \in {"push", "legend", "row"}
      BY <1>3 DEF PushStep, LookSuspended, WriteLegend, WriteRow, PushAt
    <3>. QED  BY <1>1, <3>1, <3>2
  <2>2. \A h \in Handler : push'[h].pc = "idle" <=> push[h].pc = "idle"
    <3>1. push[p].pc # "idle" /\ push'[p].pc # "idle"
      BY <2>1
    <3>. QED  BY <2>1, <3>1, Pushers
  <2>3. CallInv'
    BY <2>2, CallsKept
  <2>. QED  BY <2>3, PushStepType
<1>. QED  BY <1>2, <1>3

\* What the steps of Telemetry keep of the types: of the meters,
LEMMA MeterTypes ==
    ASSUME TypeInv, NEW s \in Sampler,
           \/ Sys(Consume) \/ Sys(SysFire(s)) \/ Sys(ReadProc(s))
           \/ Sys(ReadProcFails(s)) \/ MeasureUtime(s)
    PROVE  TypeInv'
<1>1. UNCHANGED <<logVars, coreVars, calls, received, reloads, main, run, push, _stat>>
  BY DEF Sys, MeasureUtime, statVars, coreVars, logVars, Measure, collectors
<1>2. LogOK'
  BY <1>1, LogSame
<1>3. CoreOK'
  BY <1>1, CoreSame DEF coreVars
<1>4. CallInv'
  BY <1>1, CallsSame
<1>5. SysOK'
  BY <1>1, SysNext DEF Sys, MeasureUtime
<1>6. StatOK'
  <2>0. reloads' = reloads /\ reloads' \in Nat /\ reloads' >= reloads
    BY <1>1, StatFacts
  <2>1. CASE UNCHANGED statVars
    BY <2>0, <2>1, StatSame
  <2>2. CASE MeasureUtime(s) /\ Difference(s) # {}
    <3>1. Measure(sampler[s].st, Difference(s))
      BY <2>2 DEF MeasureUtime
    <3>2. sampler[s].st \in 1.._stat
      BY SamplerSound DEF Sound
    <3>3. Difference(s) \in Record
      <4>1. sampler[s].utime \in Nat /\ sampler[s].now \in Nat /\ sampler[s].now <= MaxTicks
        <5>1. sampler[s].now <= ticks /\ ticks <= MaxTicks /\ ticks \in Nat
          BY SamplerSound, SysFacts, Constants DEF Sound
        <5>. QED  BY <5>1, SamplerSound, Constants
      <4>2. Difference(s) \subseteq Mark
        <5>1. sampler[s].utime + 1..sampler[s].now \subseteq Tick
          BY <4>1, Constants
        <5>. QED  BY <5>1 DEF Difference, Mark
      <4>. QED  BY <2>2, <4>2, Constants
    <3>. QED  BY <2>0, <3>1, <3>2, <3>3, MeasureType
  <2>. QED  BY <2>1, <2>2 DEF Sys, MeasureUtime
<1>. QED  BY <1>2, <1>3, <1>4, <1>5, <1>6, TypeFromParts

\* of the handlers, whose steps leave the meters alone,
LEMMA HandlerTypes ==
    ASSUME TypeInv, NEW h \in Handler, Stat(Fire(h)) \/ HandlerStep(h)
    PROVE  TypeInv'
<1>1. h \in Pusher
  BY Pushers
<1>2. UNCHANGED <<sysVars, coreVars, calls, reloads, main, todo, late, _stat>>
  BY DEF Stat, HandlerStep, StatStep, CallStatlog, CallOther, LogStep, StatlogForwards,
         coreVars, Fire, PopRecord, NoTargets, TargetReturns, CallTarget, collectors,
         statVars
<1>3. SysOK'
  <2>1. _stat' \in Nat /\ _stat' >= _stat
    BY <1>2, SysFacts
  <2>. QED  BY <1>2, <2>1, SysSame
<1>4. reloads' \in Nat /\ reloads' >= reloads
  BY <1>2, StatFacts
<1>5. received' \in [Sinks -> [Mark -> Nat]] => CoreOK'
  BY <1>2, CoreFacts DEF CoreOK
<1>6. CASE Stat(Fire(h)) \/ Stat(StatStep(h))
  <2>1. UNCHANGED <<logVars, received, push>>
        /\ (Fire(h) \/ PopRecord(h) \/ (TargetReturns(h) /\ RunAt(h, "send")))
    BY <1>6 DEF Stat, StatStep, NoTargets, logVars
  <2>2. StatOK' /\ CallInv'
    BY <1>2, <2>1, HandlerKeeps
  <2>3. LogOK'
    BY <2>1, LogSame
  <2>4. received' \in [Sinks -> [Mark -> Nat]]
    BY <2>1 DEF TypeInv
  <2>. QED  BY <1>3, <1>5, <2>2, <2>3, <2>4, TypeFromParts
<1>7. CASE CallStatlog(h)
  <2>1. RunAt(h, "send")
    <3>1. "statlog" # NoTarget
      BY Constants
    <3>. QED  BY <1>7, <3>1 DEF CallStatlog, NextTarget
  <2>2. StatOK'
    BY <1>2, <1>7, <2>1, CallType DEF CallStatlog
  <2>3. LogOK'
    BY <1>1, <1>7, PushType, Constants DEF CallStatlog
  <2>4. received' \in [Sinks -> [Mark -> Nat]]
    BY <1>7 DEF CallStatlog, TypeInv
  <2>5. CallInv'
    <3>1. /\ push'[h].pc = "push"
          /\ \A g \in Handler \ {h} : push'[g] = push[g]
      <4>1. push' = [push EXCEPT ![h] = [Silent EXCEPT !.pc = "push", !.name = "utime",
                                                      !.cb = "none"]]
        BY <1>7 DEF CallStatlog, Push
      <4>2. [Silent EXCEPT !.pc = "push", !.name = "utime", !.cb = "none"].pc = "push"
        BY DEF Silent
      <4>. QED  BY <1>1, <4>1, <4>2, LogFacts, Pushers
    <3>2. /\ run'[h].pc \in {"call", "call first"}
          /\ \A g \in Handler \ {h} : run'[g] = run[g]
      <4>1. PICK where \in {"call", "call first"} :
              run' = [run EXCEPT ![h] = [run[h] EXCEPT !.pc = where]]
        BY <1>7 DEF CallStatlog, CallTarget
      <4>2. [run[h] EXCEPT !.pc = where].pc = where
        BY RunFacts DEF Runs
      <4>. QED  BY <4>1, <4>2, StatFacts
    <3>. QED  BY <3>1, <3>2 DEF TypeInv, CallInv, PushAt, RunAt
  <2>. QED  BY <1>3, <1>5, <2>2, <2>3, <2>4, <2>5, TypeFromParts
<1>8. CASE CallOther(h)
  <2>1. RunAt(h, "send")
    <3>1. "other" # NoTarget
      BY Constants
    <3>. QED  BY <1>8, <3>1 DEF CallOther, NextTarget
  <2>2. UNCHANGED <<logVars, push>> /\ TargetReturns(h)
    BY <1>8 DEF CallOther, logVars
  <2>3. StatOK' /\ CallInv'
    BY <1>2, <2>1, <2>2, HandlerKeeps
  <2>4. LogOK'
    BY <2>2, LogSame
  <2>5. received' \in [Sinks -> [Mark -> Nat]]
    BY <1>8, Delivered DEF CallOther, Sinks
  <2>. QED  BY <1>3, <1>5, <2>3, <2>4, <2>5, TypeFromParts
<1>9. CASE LogStep(h)
  <2>1. PushStep(h) /\ ~Forward(h) /\ UNCHANGED <<statVars, run, received>>
    <3>1. h \notin Client
      BY Pushers
    <3>2. PushStep(h) /\ UNCHANGED <<statVars, run, received>>
      BY <1>9 DEF LogStep, PushStep, statVars
    <3>3. ~Forward(h)
      BY <1>9, <3>1 DEF LogStep, Forward, LookSuspended, WriteLegend, WriteRow, PushAt
    <3>. QED  BY <3>2, <3>3
  <2>2. LogOK' /\ CallInv'
    BY <1>1, <2>1, PushKeeps
  <2>3. StatOK'
    BY <1>4, <2>1, StatSame
  <2>4. received' \in [Sinks -> [Mark -> Nat]]
    BY <2>1 DEF TypeInv
  <2>. QED  BY <1>3, <1>5, <2>2, <2>3, <2>4, TypeFromParts
<1>10. CASE StatlogForwards(h)
  <2>1. Forward(h) /\ TargetReturns(h)
    BY <1>10 DEF StatlogForwards
  <2>2. run[h].pc \in {"call", "call first"} /\ Busy(h)
    BY <2>1 DEF Forward, PushAt, TypeInv, CallInv, RunAt, Busy
  <2>3. StatOK'
    BY <1>2, <2>1, <2>2, ReturnType
  <2>4. LogOK'
    BY <1>1, <2>1, PushStepType DEF PushStep
  <2>5. received' \in [Sinks -> [Mark -> Nat]]
    BY <1>10, Delivered DEF StatlogForwards, Sinks, TypeInv
  <2>6. CallInv'
    <3>1. /\ push'[h].pc = "idle" /\ \A g \in Handler \ {h} : push'[g] = push[g]
      <4>1. PICK r : push' = [push EXCEPT ![h] = r] /\ r.pc = "idle"
        BY <1>1, <2>1, Forwarded
      <4>. QED  BY <1>1, <4>1, LogFacts, Pushers
    <3>2. /\ run'[h].pc \in {"send", "pop"} /\ \A g \in Handler \ {h} : run'[g] = run[g]
      BY <2>1, Returned
    <3>. QED  BY <3>1, <3>2 DEF TypeInv, CallInv, PushAt, RunAt
  <2>. QED  BY <1>3, <1>5, <2>3, <2>4, <2>5, <2>6, TypeFromParts
<1>. QED  BY <1>6, <1>7, <1>8, <1>9, <1>10 DEF HandlerStep

\* of the clients, which only push,
LEMMA ClientTypes ==
    ASSUME TypeInv, NEW c \in Client, ClientPushes(c) \/ LogStep(c)
    PROVE  TypeInv'
<1>1. c \in Pusher /\ c \notin Handler
  BY Pushers
<1>2. UNCHANGED <<sysVars, statVars, run, coreVars, reloads, main, received, _stat>>
  BY DEF ClientPushes, LogStep, coreVars, statVars, collectors
<1>3. SysOK'
  <2>1. _stat' \in Nat /\ _stat' >= _stat
    BY <1>2, SysFacts
  <2>. QED  BY <1>2, <2>1, SysSame
<1>4. StatOK'
  <2>1. reloads' \in Nat /\ reloads' >= reloads
    BY <1>2, StatFacts
  <2>. QED  BY <1>2, <2>1, StatSame
<1>5. CASE ClientPushes(c)
  <2>1. LogOK'
    BY <1>1, <1>5, PushType, Constants DEF ClientPushes
  <2>2. \A h \in Handler : push'[h] = push[h]
    BY <1>1, <1>5, LogFacts DEF ClientPushes, Push
  <2>3. CallInv'
    BY <1>2, <2>2, CallsKept
  <2>4. calls' \in 0..MaxCalls
    BY <1>5, CoreFacts, Constants DEF ClientPushes, CoreOK
  <2>5. CoreOK'
    BY <1>2, <2>4, CoreFacts DEF CoreOK, coreVars
  <2>. QED  BY <1>3, <1>4, <2>1, <2>3, <2>5, TypeFromParts
<1>6. CASE LogStep(c)
  <2>1. PushStep(c) /\ calls' = calls
    BY <1>6 DEF LogStep, PushStep
  <2>2. LogOK' /\ CallInv'
    BY <1>1, <1>2, <2>1, PushKeeps
  <2>3. CoreOK'
    BY <1>2, <2>1, CoreSame DEF coreVars
  <2>. QED  BY <1>3, <1>4, <2>2, <2>3, TypeFromParts
<1>. QED  BY <1>5, <1>6

\* and of the core, which reloads the objects, starts and stops them.
LEMMA ReloadTypes ==
    ASSUME TypeInv, NEW stat \in StatOptions, NEW log \in LogOptions, Reload(stat, log)
    PROVE  TypeInv'
<1>1. /\ main = "run" /\ main' \in {"initialize", "filled"} /\ todo' = todo
      /\ reloads < MaxReloads /\ reloads' = reloads + 1
      /\ UNCHANGED <<sysVars, late, calls, received>>
  BY DEF Reload
<1>2. /\ run' = run /\ _stat' \in {_stat, _stat + 1}
  BY DEF Reload, statVars, collectors, StatReconfigure, StatReconfigureBasic
<1>3. push' = push
  BY DEF Reload, logVars, LogReconfigure
<1>4. SysOK'
  <2>1. _stat' \in Nat /\ _stat' >= _stat
    BY <1>2, SysFacts
  <2>. QED  BY <1>1, <2>1, SysSame
<1>5. StatOK'
  <2>1. CASE stat = sopt
    <3>1. UNCHANGED statVars
      BY <2>1 DEF Reload
    <3>2. reloads' \in Nat /\ reloads' >= reloads
      BY <1>1, StatFacts
    <3>. QED  BY <3>1, <3>2, StatSame
  <2>2. CASE stat # sopt
    BY <1>1, <2>2, StatReloaded DEF Reload
  <2>. QED  BY <2>1, <2>2
<1>6. LogOK'
  BY LogSame, LogReloaded DEF Reload
<1>7. CallInv'
  BY <1>2, <1>3, CallsSame
<1>8. CoreOK'
  <2>1. reloads' \in 0..MaxReloads
    BY <1>1, CoreFacts, Constants DEF CoreOK
  <2>2. todo' # {} <=> main' = "start"
    BY <1>1, CoreFacts DEF CoreOK
  <2>. QED  BY <1>1, <2>1, <2>2, CoreFacts DEF CoreOK
<1>. QED  BY <1>4, <1>5, <1>6, <1>7, <1>8, TypeFromParts

LEMMA ReloadStepTypes ==
    ASSUME TypeInv, ReloadStep \/ StopSystem
    PROVE  TypeInv'
<1>0. CASE ConfigureStatlog
  <2>1. UNCHANGED <<sysVars, statVars, coreVars, calls, received, push, run, main, _stat,
                    reloads>>
    BY <1>0 DEF ConfigureStatlog, LogLock, LogConfigured, coreVars, statVars, collectors
  <2>2. SysOK' /\ CallInv' /\ LogOK'
    BY <1>0, <2>1, SysFacts, SysSame, CallsSame, LogReloaded DEF ConfigureStatlog
  <2>3. StatOK' /\ CoreOK'
    BY <2>1, StatFacts, StatSame, CoreSame DEF coreVars
  <2>. QED  BY <2>2, <2>3, TypeFromParts
<1>. SUFFICES ASSUME ~ConfigureStatlog  PROVE TypeInv'
  BY <1>0
<1>1. reloads' = reloads /\ calls' = calls /\ received' = received
      /\ (main' = "stopped" <=> StopSystem) /\ main # "stopped"
  BY DEF ReloadStep, InitializeStatistics, InitializeStatlog, StartStatistics, StartSystem,
         Starting, StopSystem
<1>2. reloads' \in Nat /\ reloads' >= reloads
  BY <1>1, StatFacts
<1>3. _stat' = _stat /\ push' = push
  BY DEF ReloadStep, InitializeStatistics, InitializeStatlog, StartStatistics, StartSystem,
         Starting, StopSystem, StatClearTargets, StatFillTargets, StatStart, collectors,
         LogInitialize, logVars, statVars
<1>4. _stat' \in Nat /\ _stat' >= _stat
  BY <1>3, SysFacts
<1>5. CASE InitializeStatistics
  <2>1. UNCHANGED <<sysVars, logVars, run, todo, late>>
        /\ (StatClearTargets \/ StatFillTargets) /\ main # "start"
        /\ main' \in {"cleared", "filled"}
    BY <1>5 DEF InitializeStatistics, StatClearTargets, StatFillTargets
  <2>2. SysOK'
    BY <1>1, <1>4, <2>1, SysSame
  <2>3. StatOK' /\ LogOK' /\ CallInv'
    BY <1>1, <1>3, <2>1, StatInitialized, LogSame, CallsSame
  <2>4. CoreOK'
    BY <1>1, <2>1, CoreFacts DEF CoreOK
  <2>. QED  BY <2>2, <2>3, <2>4, TypeFromParts
<1>6. CASE InitializeStatlog
  <2>1. UNCHANGED <<sysVars, statVars, run, late>> /\ LogInitialize
        /\ main' = "start" /\ todo' # {}
    BY <1>6 DEF InitializeStatlog, statVars
  <2>2. SysOK'
    BY <1>1, <1>4, <2>1, SysSame
  <2>3. StatOK' /\ LogOK' /\ CallInv'
    BY <1>2, <1>3, <2>1, StatSame, LogReloaded, CallsSame
  <2>4. CoreOK'
    BY <1>1, <2>1, CoreFacts DEF CoreOK
  <2>. QED  BY <2>2, <2>3, <2>4, TypeFromParts
<1>7. ASSUME NEW object, Starting(object)
      PROVE  /\ LogOK' /\ (late' \subseteq Sampler => CoreOK') /\ main' # "stopped"
             /\ main # "stopped"
  <2>1. UNCHANGED logVars /\ main' = IF todo' = {} THEN "run" ELSE "start"
    BY <1>7 DEF Starting
  <2>2. LogOK'
    BY <2>1, LogSame
  <2>. QED  BY <1>1, <1>7, <2>1, <2>2, CoreFacts DEF CoreOK, Starting
<1>8. CASE StartStatistics
  <2>1. StatStart /\ UNCHANGED <<sysVars, late>> /\ Starting("statistics")
    BY <1>8 DEF StartStatistics
  <2>2. StatOK'
    BY <1>1, <2>1, StatStarted
  <2>3. SysOK'
    BY <1>4, <1>7, <2>1, SysSame
  <2>4. CallInv'
    <3>1. \A h \in Handler : run'[h].pc = run[h].pc
      <4>1. PICK h \in Handler : run' = [run EXCEPT ![h] = [run[h] EXCEPT !.st = Bound]]
        BY <2>1 DEF StatStart
      <4>2. [run[h] EXCEPT !.st = Bound].pc = run[h].pc
        BY RunFacts DEF Runs
      <4>. QED  BY <4>1, <4>2, StatFacts
    <3>. QED  BY <1>3, <3>1, CallsKept
  <2>5. CoreOK' /\ LogOK'
    BY <1>7, <2>1, CoreFacts DEF CoreOK
  <2>. QED  BY <2>2, <2>3, <2>4, <2>5, TypeFromParts
<1>9. CASE StartSystem
  <2>1. SysRestart(_stat) /\ UNCHANGED <<statVars, run>> /\ Starting("system")
        /\ late' \subseteq Sampler
    BY <1>9, CoreFacts DEF StartSystem, statVars, CoreOK
  <2>2. SysOK'
    BY <1>3, <1>7, <2>1, SysRestarted
  <2>3. StatOK' /\ CallInv'
    BY <1>2, <1>3, <2>1, StatSame, CallsSame
  <2>4. CoreOK' /\ LogOK'
    BY <1>7, <2>1
  <2>. QED  BY <2>2, <2>3, <2>4, TypeFromParts
<1>10. CASE StopSystem
  <2>1. /\ UNCHANGED <<statVars, logVars, run, todo, late>>
        /\ main = "run" /\ main' = "stopped"
        /\ sys_timer_id' = NoSampler /\ UNCHANGED <<ticks, sampler>>
    BY <1>10 DEF StopSystem, SysStop, statVars
  <2>2. SysOK'
    <3>1. ticks' \in 0..MaxTicks /\ ticks' >= ticks
      BY <2>1, SysFacts
    <3>. QED  BY <1>4, <2>1, <3>1, SysFacts, SysFromSound
  <2>3. StatOK' /\ LogOK' /\ CallInv'
    BY <1>2, <1>3, <2>1, StatSame, LogSame, CallsSame
  <2>4. CoreOK'
    BY <1>1, <2>1, CoreFacts DEF CoreOK
  <2>. QED  BY <2>2, <2>3, <2>4, TypeFromParts
<1>. QED  BY <1>5, <1>6, <1>8, <1>9, <1>10 DEF ReloadStep

LEMMA TypeNext == TypeInv /\ [Next]_vars => TypeInv'
<1>. SUFFICES ASSUME TypeInv, [Next]_vars  PROVE TypeInv'
  OBVIOUS
<1>1. CASE Sys(Consume)
  <2>1. PICK s \in Sampler : TRUE
    BY Constants
  <2>. QED  BY <1>1, MeterTypes
<1>2. CASE Stat(StartupIgnored)
  <2>1. UNCHANGED <<sysVars, logVars, coreVars, calls, received, push, run, reloads, main,
                    _stat>>
        /\ StartupIgnored
    BY <1>2 DEF Stat, StartupIgnored, coreVars, logVars, collectors
  <2>2. StatOK' /\ LogOK' /\ CallInv'
    BY <2>1, IgnoredType, LogSame, CallsSame
  <2>3. SysOK'
    BY <2>1, SysFacts, SysSame
  <2>4. CoreOK'
    BY <2>1, CoreSame DEF coreVars
  <2>. QED  BY <2>2, <2>3, <2>4, TypeFromParts
<1>3. ASSUME NEW s \in Sampler, Sys(SysFire(s)) \/ SamplerStep(s) \/ Sys(ReadProcFails(s))
      PROVE  TypeInv'
  BY <1>3, MeterTypes DEF SamplerStep
<1>4. ASSUME NEW h \in Handler, Stat(Fire(h)) \/ HandlerStep(h)  PROVE TypeInv'
  BY <1>4, HandlerTypes
<1>5. ASSUME NEW c \in Client, ClientPushes(c) \/ LogStep(c)  PROVE TypeInv'
  BY <1>5, ClientTypes
<1>6. ASSUME NEW stat \in StatOptions, NEW log \in LogOptions, Reload(stat, log)
      PROVE  TypeInv'
  BY <1>6, ReloadTypes
<1>7. CASE ReloadStep \/ StopSystem
  BY <1>7, ReloadStepTypes
<1>8. CASE UNCHANGED vars
  <2>1. UNCHANGED <<sysVars, statVars, logVars, coreVars, calls, received, push, run,
                    reloads, main, _stat>>
    BY <1>8 DEF vars, coreVars, logVars, statVars, collectors
  <2>2. SysOK' /\ LogOK' /\ CallInv'
    BY <2>1, SysFacts, SysSame, LogSame, CallsSame
  <2>3. StatOK' /\ CoreOK'
    BY <2>1, StatFacts, StatSame, CoreSame DEF coreVars
  <2>. QED  BY <2>2, <2>3, TypeFromParts
<1>. QED  BY <1>1, <1>2, <1>3, <1>4, <1>5, <1>6, <1>7, <1>8 DEF Next

\* The meters, the collectors, the targets, the pushes and the reload are what
\* system_statistics_domain.cpp, statistics_domain.cpp and statlog_domain.cpp take
\* them for, whatever their threads do.
THEOREM TypeCorrect == Spec => []TypeOK
<1>1. TypeInv => TypeOK
  BY DEF TypeInv
<1>. QED  BY <1>1, TypeInit, TypeNext, PTL DEF Spec

-----------------------------------------------------------------------------
(* Each name has one legend.                                               *)

\* The steps by which the log changes.
LEMMA LogSteps ==
    ASSUME [Next]_vars
    PROVE  \/ UNCHANGED <<_legend, legends, bare, push>>
           \/ \E p \in Pusher : PushStep(p)
           \/ \E p \in Pusher, name \in Name, cb \in {"none", "held"} : Push(p, name, cb)
<1>1. CASE UNCHANGED vars
  BY <1>1 DEF vars, logVars, logHistory
<1>2. CASE Sys(Consume) \/ Stat(StartupIgnored)
  BY <1>2 DEF Sys, Stat, logVars, logHistory
<1>3. ASSUME NEW s \in Sampler, Sys(SysFire(s)) \/ SamplerStep(s) \/ Sys(ReadProcFails(s))
      PROVE  UNCHANGED <<_legend, legends, bare, push>>
  BY <1>3 DEF Sys, SamplerStep, MeasureUtime, logVars, logHistory
<1>4. ASSUME NEW h \in Handler, Stat(Fire(h)) \/ HandlerStep(h)
      PROVE  \/ UNCHANGED <<_legend, legends, bare, push>>
             \/ PushStep(h) \/ Push(h, "utime", "none")
  BY <1>4 DEF Stat, HandlerStep, CallStatlog, CallOther, LogStep, StatlogForwards,
              PushStep, logVars, logHistory
<1>5. ASSUME NEW c \in Client, ClientPushes(c) \/ LogStep(c)
      PROVE  PushStep(c) \/ Push(c, "value", "held")
  BY <1>5 DEF ClientPushes, LogStep, PushStep
<1>6. ASSUME NEW stat \in StatOptions, NEW log \in LogOptions, Reload(stat, log)
      PROVE  UNCHANGED <<_legend, legends, bare, push>>
  BY <1>6 DEF Reload, LogReconfigure, logVars, logHistory
<1>7. CASE ReloadStep \/ StopSystem
  BY <1>7 DEF ReloadStep, ConfigureStatlog, InitializeStatistics, InitializeStatlog,
              StartStatistics, StartSystem, Starting, StopSystem, LogLock, LogConfigured,
              LogInitialize, logVars, logHistory
<1>. QED
  BY <1>1, <1>2, <1>3, <1>4, <1>5, <1>6, <1>7, Pushers, Constants DEF Next

LEMMA LegendNext == TypeInv /\ LegendInv /\ [Next]_vars => LegendInv'
<1>. SUFFICES ASSUME TypeInv, LegendInv, [Next]_vars  PROVE LegendInv'
  OBVIOUS
<1>1. push \in [Pusher -> Pushes] /\ legends \in [Name -> Nat]
  BY LogFacts
<1>2. /\ bare = {}
      /\ \A n \in Name : legends[n] = IF n \in _legend THEN 1 ELSE 0
      /\ \A q \in Pusher :
            push[q].pc = "row" /\ push[q].opt.show_legend => push[q].name \in _legend
  BY DEF LegendInv, PushAt
<1>3. CASE UNCHANGED <<_legend, legends, bare, push>>
  BY <1>3 DEF LegendInv, PushAt
\* A pusher that comes to no row, while nothing is written.
<1>4. ASSUME NEW p \in Pusher, NEW r, r.pc # "row", push' = [push EXCEPT ![p] = r],
             UNCHANGED <<_legend, legends, bare>>
      PROVE  LegendInv'
  <2>1. \A q \in Pusher : push'[q] = IF q = p THEN r ELSE push[q]
    BY <1>1, <1>4
  <2>. QED  BY <1>2, <1>4, <2>1 DEF LegendInv, PushAt
<1>5. ASSUME NEW p \in Pusher, NEW name \in Name, NEW cb, Push(p, name, cb)
      PROVE  LegendInv'
  <2>. DEFINE r == [Silent EXCEPT !.pc = "push", !.name = name, !.cb = cb]
  <2>1. push' = [push EXCEPT ![p] = r] /\ UNCHANGED <<_legend, legends, bare>>
    BY <1>5 DEF Push, logHistory
  <2>2. r.pc = "push"
    BY DEF Silent
  <2>. HIDE DEF r
  <2>. QED  BY <1>4, <2>1, <2>2
<1>6. ASSUME NEW p \in Pusher, PushStep(p)  PROVE LegendInv'
  <2>0. push[p] \in Pushes /\ push[p].name \in Name
    BY PushFacts
  <2>1. CASE LookSuspended(p)
    <3>1. PICK where \in {"pass", "legend"} :
            push' = [push EXCEPT ![p].pc = where, ![p].opt = lopt]
      BY <2>1 DEF LookSuspended
    <3>. DEFINE r == [push[p] EXCEPT !.pc = where, !.opt = lopt]
    <3>2. push' = [push EXCEPT ![p] = r] /\ UNCHANGED <<_legend, legends, bare>>
      BY <2>1, <3>1 DEF LookSuspended, logHistory
    <3>3. r.pc = where
      BY <2>0 DEF Pushes
    <3>. HIDE DEF r
    <3>4. r.pc # "row"
      BY <3>1, <3>3
    <3>. QED  BY <1>4, <3>2, <3>4
  <2>2. CASE WriteLegend(p)
    <3>. DEFINE name == push[p].name
                new == push[p].opt.show_legend /\ name \notin _legend
                r == [push[p] EXCEPT !.pc = "row"]
    <3>1. /\ push' = [push EXCEPT ![p] = r] /\ bare' = bare
          /\ _legend' = _legend \cup (IF new THEN {name} ELSE {})
          /\ legends' = [legends EXCEPT ![name] = IF new THEN @ + 1 ELSE @]
      BY <2>2 DEF WriteLegend, WithLegend
    <3>2. r.opt = push[p].opt /\ r.name = name
      BY <2>0 DEF Pushes
    <3>3. \A q \in Pusher : push'[q] = IF q = p THEN r ELSE push[q]
      BY <1>1, <3>1
    <3>. HIDE DEF r
    <3>4. CASE new
      <4>1. /\ _legend' = _legend \cup {name} /\ legends[name] = 0
            /\ legends' = [legends EXCEPT ![name] = 1]
        <5>1. name \notin _legend /\ legends[name] = 0
          BY <1>2, <2>0, <3>4
        <5>2. legends' = [legends EXCEPT ![name] = legends[name] + 1]
          BY <3>1, <3>4
        <5>3. legends[name] + 1 = 1
          BY <5>1
        <5>. QED  BY <3>1, <3>4, <5>1, <5>2, <5>3, Zenon
      <4>2. \A n \in Name : legends'[n] = IF n \in _legend' THEN 1 ELSE 0
        BY <1>1, <1>2, <4>1
      <4>3. \A q \in Pusher :
               push'[q].pc = "row" /\ push'[q].opt.show_legend => push'[q].name \in _legend'
        BY <1>2, <3>2, <3>3, <4>1
      <4>. QED  BY <1>2, <3>1, <4>2, <4>3 DEF LegendInv, PushAt
    <3>5. CASE ~new
      <4>1. _legend' = _legend /\ legends' = legends
        BY <1>1, <3>1, <3>5
      <4>2. \A q \in Pusher :
               push'[q].pc = "row" /\ push'[q].opt.show_legend => push'[q].name \in _legend'
        BY <1>2, <3>2, <3>3, <3>5, <4>1
      <4>. QED  BY <1>2, <3>1, <4>1, <4>2 DEF LegendInv, PushAt
    <3>. QED  BY <3>4, <3>5
  <2>3. CASE WriteRow(p)
    <3>. DEFINE r == [push[p] EXCEPT !.pc = "forward"]
    <3>1. push' = [push EXCEPT ![p] = r] /\ UNCHANGED <<_legend, legends>>
      BY <2>3 DEF WriteRow
    <3>2. bare' = bare
      <4>1. push[p].opt.show_legend => legends[push[p].name] = 1
        BY <1>2, <2>0, <2>3 DEF WriteRow, PushAt
      <4>. QED  BY <2>3, <4>1 DEF WriteRow
    <3>3. r.pc = "forward"
      BY <2>0 DEF Pushes
    <3>. HIDE DEF r
    <3>. QED  BY <1>4, <3>1, <3>2, <3>3
  <2>4. CASE Forward(p)
    <3>1. PICK r : push' = [push EXCEPT ![p] = r] /\ r.pc = "idle"
      BY <2>4, Forwarded
    <3>2. UNCHANGED <<_legend, legends, bare>>
      BY <2>4 DEF Forward, logHistory
    <3>. QED  BY <1>4, <3>1, <3>2
  <2>. QED  BY <1>6, <2>1, <2>2, <2>3, <2>4 DEF PushStep
<1>. QED  BY <1>3, <1>5, <1>6, LogSteps

\* statlog: however many threads push and whenever its options change, each name
\* has its legend once, and before the first row that wants one.
THEOREM OneLegend == Spec => []LegendOnce
<1>1. Init => LegendInv
  BY SilentType DEF Init, LogInit, LegendInv, PushAt
<1>2. LegendInv => LegendOnce
  BY DEF LegendInv, LegendOnce
<1>. QED  BY <1>1, <1>2, TypeInit, TypeNext, LegendNext, PTL DEF Spec

-----------------------------------------------------------------------------
(* The columns of a legend: what the two loops of configure_ compute for   *)
(* lists of any length, and what a push finds of it.                       *)

\* The texts that there are.
Texts ==
    {"#"} \cup Garbage \cup Range(Column) \cup UNION {Range(list) : list \in Formats}

LEMMA InTexts ==
    /\ "#" \in Texts /\ Column \in Seq(Texts)
    /\ \A list \in Formats : list \in Seq(Texts)
<1>1. ASSUME NEW list \in Seq(STRING), NEW X, Range(list) \subseteq X
      PROVE  list \in Seq(X)
  <2>1. \A i \in 1..Len(list) : list[i] \in X
    BY <1>1 DEF Range
  <2>. QED  BY <2>1
<1>2. Range(Column) \subseteq Texts /\ \A list \in Formats : Range(list) \subseteq Texts
  BY DEF Texts
<1>3. "#" \in Texts
  BY DEF Texts
<1>. QED  BY <1>1, <1>2, <1>3, FormatsAssumption

\* g is what Without has kept after each of the columns.
IsKept(g, list, S) ==
    /\ g \in [0..Len(list) -> Seq(Texts)]
    /\ g[0] = <<>> /\ g[Len(list)] = Without(list, S)
    /\ \A k \in 1..Len(list) :
          g[k] = IF list[k] \in S THEN g[k-1] ELSE Append(g[k-1], list[k])

LEMMA WithoutSteps ==
    ASSUME NEW list \in Seq(Texts), NEW S
    PROVE  \E g : IsKept(g, list, S)
<1>. DEFINE n == Len(list)
            X == Seq(Texts)
            base == <<>>
            op(rest, c) == IF c \in S THEN rest ELSE Append(rest, c)
            F == [k \in 1..n |-> [x \in X |-> op(x, list[k])]]
            Step(h) == [s \in SUBSET (1..n) |->
                          IF s = {} THEN base ELSE op(h[s \ {Max(s)}], list[Max(s)])]
            iter == CHOOSE h : h = Step(h)
<1>0. n \in Nat /\ DOMAIN list = 1..n /\ base \in X /\ \A k \in 1..n : list[k] \in Texts
  OBVIOUS
<1>1. F \in [1..n -> [X -> X]]
  BY <1>0
<1>2. Without(list, S) = iter[1..n]
  BY <1>0 DEF Without, FoldLeft, MapThenFoldSet
<1>3. \A x \in X, k \in 1..n :
        F[k][x] = IF list[k] \in S THEN x ELSE Append(x, list[k])
  OBVIOUS
<1>4. \A x \in X, k \in 1..n : F[k][x] = op(x, list[k])
  OBVIOUS
<1>5. X = Seq(Texts) /\ n = Len(list) /\ base = <<>>
  OBVIOUS
<1>. HIDE DEF n, X, base, op, F
<1>6. \E h : h = Step(h)
  <2>1. PICK h : IsFold(h, n, X, base, F)
    BY <1>0, <1>1, Exists
  <2>2. \A s \in SUBSET (1..n) : s # {} => Max(s) \in 1..n /\ s \ {Max(s)} \in SUBSET (1..n)
    BY <1>0, Greatest
  <2>3. h = Step(h)
    BY <1>4, <2>1, <2>2 DEF IsFold
  <2>. QED  BY <2>3
<1>7. iter = Step(iter)
  <2>. HIDE DEF Step
  <2>. QED  BY <1>6
<1>. HIDE DEF iter
<1>8. Iterates(iter, n, X, base, F)
  <2>1. \A s \in SUBSET (1..n) : s # {} => Max(s) \in 1..n
    BY <1>0, Greatest
  <2>. QED  BY <1>4, <1>7, <2>1 DEF Iterates
<1>10. PICK g : IsLoop(g, n, X, base, F) /\ g[n] = iter[1..n]
  BY <1>0, <1>1, <1>8, Loop
<1>11. \A k \in 1..n : k - 1 \in 0..n
  BY <1>0
<1>12. g \in [0..n -> X] /\ g[0] = base /\ \A k \in 1..n : g[k-1] \in X /\ g[k] = F[k][g[k-1]]
  BY <1>10, <1>11 DEF IsLoop
<1>13. \A k \in 1..n : g[k] = IF list[k] \in S THEN g[k-1] ELSE Append(g[k-1], list[k])
  BY <1>3, <1>12
<1>. QED  BY <1>2, <1>5, <1>10, <1>12, <1>13 DEF IsKept

\* Two lists of which the same columns are kept are kept alike.
LEMMA SameKept ==
    ASSUME NEW one \in Seq(Texts), NEW other \in Seq(Texts), NEW S, NEW T,
           Len(one) = Len(other),
           \A k \in 1..Len(one) : /\ one[k] \in S <=> other[k] \in T
                                  /\ one[k] \notin S => one[k] = other[k]
    PROVE  Without(one, S) = Without(other, T)
<1>. DEFINE n == Len(one)
<1>1. PICK g : IsKept(g, one, S)
  BY WithoutSteps
<1>2. PICK h : IsKept(h, other, T)
  BY WithoutSteps
<1>. DEFINE Alike == {k \in 0..n : g[k] = h[k]}
<1>3. n \in Nat
  OBVIOUS
<1>4. 0 \in Alike /\ \A k \in 1..n : k - 1 \in Alike => k \in Alike
  BY <1>1, <1>2, <1>3 DEF IsKept
<1>5. \A k \in 0..n : k \in Alike
  <2>. HIDE DEF Alike, n
  <2>. QED  BY <1>3, <1>4, Along
<1>6. n \in Alike
  <2>. HIDE DEF Alike, n
  <2>. QED  BY <1>3, <1>5
<1>. QED  BY <1>1, <1>2, <1>6 DEF IsKept

States == [def : Seq(Texts), list : Seq(Texts)]

\* Where a text is among columns of which none is twice.
LEMMA Place ==
    ASSUME NEW def \in Seq(Texts), NEW c
    PROVE  LET j == SelectInSeq(def, LAMBDA d : d = c)
           IN  IF \E i \in 1..Len(def) : def[i] = c
                 THEN j \in 1..Len(def) /\ def[j] = c ELSE j = 0
<1>. DEFINE I == {i \in 1..Len(def) : def[i] = c}
<1>1. CASE I # {}
  <2>1. I \in SUBSET Nat /\ Len(def) \in Nat
    OBVIOUS
  <2>2. \E x \in I : \A y \in I : x <= y
    <3>. HIDE DEF I
    <3>. QED  BY <1>1, <2>1, Least
  <2>3. Min(I) \in I
    <3>. HIDE DEF I
    <3>. QED  BY <2>2 DEF Min
  <2>4. SelectInSeq(def, LAMBDA d : d = c) = Min(I)
    BY <1>1 DEF SelectInSeq
  <2>. HIDE DEF I
  <2>5. Min(I) \in 1..Len(def) /\ def[Min(I)] = c
    BY <2>3 DEF I
  <2>. QED  BY <2>4, <2>5
<1>2. CASE I = {}
  BY <1>2 DEF SelectInSeq
<1>. QED  BY <1>1, <1>2

\* A column out of its place leaves a list of texts.
LEMMA Struck ==
    ASSUME NEW Text, NEW def \in Seq(Text), NEW j \in DOMAIN def, NEW c \in Text
    PROVE  /\ [def EXCEPT ![j] = c] \in Seq(Text)
           /\ Len([def EXCEPT ![j] = c]) = Len(def)
OBVIOUS

LEMMA SizeIs ==
    ASSUME NEW orig \in Seq(Texts)
    PROVE  Size(orig) \in Nat /\ Size(orig) <= Len(orig) /\ Size(orig) <= Len(Column)
BY InTexts DEF Size

\* One text taken.
LEMMA TakeShape ==
    ASSUME NEW orig \in Seq(Texts), NEW beyond \in Beyond, NEW state \in States,
           NEW i \in 1..Size(orig)
    PROVE  Take(orig, beyond, state, i) \in States
<1>. DEFINE j == SelectInSeq(state.def, LAMBDA c : c = orig[i])
            def == IF orig[i] = "#" /\ i = Size(orig) THEN <<>> ELSE state.def
            list == CASE orig[i] = "#" -> state.list
                      [] orig[i] = "$" -> Append(state.list, beyond[i])
                      [] OTHER -> Append(state.list, orig[i])
<1>0. /\ orig[i] \in Texts /\ state.def \in Seq(Texts) /\ state.list \in Seq(Texts)
      /\ beyond[i] \in Texts
  <2>1. i \in 1..Len(orig) /\ i \in 1..Len(Column)
    BY SizeIs
  <2>2. beyond[i] \in Garbage
    BY <2>1 DEF Beyond
  <2>. QED  BY <2>1, <2>2 DEF States, Texts
<1>1. def \in Seq(Texts) /\ list \in Seq(Texts)
  <2>1. CASE orig[i] = "#"
    BY <1>0, <2>1
  <2>2. CASE orig[i] = "$"
    <3>1. list = Append(state.list, beyond[i])
      BY <2>2
    <3>. HIDE DEF list
    <3>. QED  BY <1>0, <3>1
  <2>3. CASE orig[i] # "#" /\ orig[i] # "$"
    <3>1. list = Append(state.list, orig[i])
      BY <2>3
    <3>. HIDE DEF list
    <3>. QED  BY <1>0, <3>1
  <2>. QED  BY <2>1, <2>2, <2>3
<1>2. Take(orig, beyond, state, i) = [def |-> Used(def, j), list |-> list]
  BY DEF Take
<1>. HIDE DEF def, list, j
<1>3. Used(def, j) \in Seq(Texts)
  <2>1. "#" \in Texts
    BY InTexts
  <2>. QED  BY <1>1, <2>1, Struck DEF Used
<1>. QED  BY <1>1, <1>2, <1>3 DEF States

End(orig, beyond) ==
    FoldLeft(LAMBDA state, i : Take(orig, beyond, state, i),
             [def |-> Column, list |-> <<>>], [i \in 1..Size(orig) |-> i])

\* What configure_ has in its hands after each of the texts.
LEMMA TakeSteps ==
    ASSUME NEW orig \in Seq(Texts), NEW beyond \in Beyond
    PROVE  \E g \in [0..Size(orig) -> States] :
              /\ g[0] = [def |-> Column, list |-> <<>>] /\ g[Size(orig)] = End(orig, beyond)
              /\ \A k \in 1..Size(orig) : g[k] = Take(orig, beyond, g[k-1], k)
<1>. DEFINE n == Size(orig)
            idx == [i \in 1..n |-> i]
            X == States
            base == [def |-> Column, list |-> <<>>]
            F == [k \in 1..n |-> [x \in X |-> Take(orig, beyond, x, k)]]
            Step(h) == [s \in SUBSET (1..n) |->
                          IF s = {} THEN base ELSE Take(orig, beyond, h[s \ {Max(s)}], idx[Max(s)])]
            iter == CHOOSE h : h = Step(h)
<1>0. n \in Nat /\ n = Size(orig)
  BY SizeIs
<1>1. base \in X
  BY InTexts DEF States
<1>2. F \in [1..n -> [X -> X]]
  BY <1>0, TakeShape
<1>3. idx \in Seq(Nat) /\ DOMAIN idx = 1..n /\ Len(idx) = n
  BY <1>0
<1>4. End(orig, beyond) = iter[1..n]
  <2>. HIDE DEF n
  <2>. QED  BY <1>3 DEF End, FoldLeft, MapThenFoldSet, n
<1>5. \A x \in X, k \in 1..n : F[k][x] = Take(orig, beyond, x, k)
  OBVIOUS
<1>6. \A k \in 1..n : idx[k] = k
  OBVIOUS
<1>7. n = Size(orig) /\ X = States /\ base = [def |-> Column, list |-> <<>>]
  OBVIOUS
<1>. HIDE DEF n, X, base, F, idx
<1>8. \A s \in SUBSET (1..n) : s # {} => Max(s) \in 1..n /\ s \ {Max(s)} \in SUBSET (1..n)
  BY <1>0, Greatest
<1>9. \E h : h = Step(h)
  <2>1. PICK h : IsFold(h, n, X, base, F)
    BY <1>0, <1>1, <1>2, Exists
  <2>3. h = Step(h)
    BY <1>5, <1>6, <1>8, <2>1 DEF IsFold
  <2>. QED  BY <2>3
<1>10. iter = Step(iter)
  <2>. HIDE DEF Step
  <2>. QED  BY <1>9
<1>. HIDE DEF iter
<1>11. Iterates(iter, n, X, base, F)
  <2>1. iter[{}] = base
    BY <1>10
  <2>2. \A s \in SUBSET (1..n) : s # {} => iter[s] = Take(orig, beyond, iter[s \ {Max(s)}], Max(s))
    BY <1>6, <1>8, <1>10
  <2>. HIDE DEF Step
  <2>. QED  BY <1>5, <1>8, <2>1, <2>2 DEF Iterates
<1>. HIDE DEF Step
<1>12. PICK g : IsLoop(g, n, X, base, F) /\ g[n] = iter[1..n]
  <2>1. base \in X /\ F \in [1..n -> [X -> X]] /\ Iterates(iter, n, X, base, F)
    BY <1>1, <1>2, <1>11
  <2>2. \A b \in X : \A G \in [1..n -> [X -> X]] : \A i : Iterates(i, n, X, b, G) => \E g : IsLoop(g, n, X, b, G) /\ g[n] = i[1..n]
    BY <1>0, Loop, SMTT(60)
  <2>3. \E g : IsLoop(g, n, X, base, F) /\ g[n] = iter[1..n]
    BY <2>1, <2>2
  <2>. QED BY <2>3
<1>13. \A k \in 1..n : k - 1 \in 0..n
  BY <1>0
<1>14. g \in [0..n -> X] /\ g[0] = base /\ \A k \in 1..n : g[k-1] \in X /\ g[k] = F[k][g[k-1]]
  BY <1>12, <1>13 DEF IsLoop
<1>15. \A k \in 1..n : g[k] = Take(orig, beyond, g[k-1], k)
  BY <1>5, <1>14
<1>. QED  BY <1>4, <1>7, <1>12, <1>14, <1>15

\* The columns that are not listed among the first k texts, each in its place.
Left(orig, k) ==
    [j \in 1..Len(Column) |->
        IF \E i \in 1..k : orig[i] = Column[j] THEN "#" ELSE Column[j]]

LEMMA TakeOne ==
    ASSUME NEW orig \in Seq(Texts), NEW beyond \in Beyond, NEW k \in 1..Size(orig),
           NEW state \in States, state.def = Left(orig, k - 1), orig[k] # "$"
    PROVE  /\ Take(orig, beyond, state, k).def =
                IF orig[k] = "#" /\ k = Size(orig) THEN <<>> ELSE Left(orig, k)
           /\ Take(orig, beyond, state, k).list =
                IF orig[k] = "#" THEN state.list ELSE Append(state.list, orig[k])
<1>. DEFINE j == SelectInSeq(state.def, LAMBDA c : c = orig[k])
            def == IF orig[k] = "#" /\ k = Size(orig) THEN <<>> ELSE state.def
            list == IF orig[k] = "#" THEN state.list ELSE Append(state.list, orig[k])
            N == Len(Column)
<1>1. Take(orig, beyond, state, k) = [def |-> Used(def, j), list |-> list]
  BY DEF Take
<1>2. N \in Nat /\ Size(orig) \in Nat /\ Len(orig) \in Nat /\ k \in 1..Len(orig)
      /\ state.def \in Seq(Texts) /\ orig[k] \in Texts /\ Column \in Seq(Texts)
  BY SizeIs, InTexts DEF States
<1>3. Len(state.def) = N
  BY <1>2 DEF Left
<1>4. IF \E i \in 1..N : state.def[i] = orig[k]
        THEN j \in 1..N /\ state.def[j] = orig[k] ELSE j = 0
  BY <1>2, <1>3, Place, ZenonT(60)
<1>5. CASE orig[k] = "#" /\ k = Size(orig)
  <2>1. Used(def, j) = <<>>
    BY <1>5 DEF Used
  <2>. QED  BY <1>1, <1>5, <2>1
<1>6. CASE ~(orig[k] = "#" /\ k = Size(orig))
  <2>0. def = state.def /\ DOMAIN state.def = 1..N /\ "#" \in Texts
    BY <1>2, <1>3, <1>6, InTexts
  <2>. HIDE DEF j
  <2>1. Used(def, j) = IF j \in 1..N THEN [state.def EXCEPT ![j] = "#"] ELSE state.def
    BY <2>0 DEF Used
  <2>2. Used(def, j) = [i \in 1..N |-> IF i = j THEN "#" ELSE state.def[i]]
    <3>1. state.def = [i \in 1..N |-> state.def[i]]
      BY <1>2, <2>0, SMTT(60)
    <3>2. \A d, x : d = [i \in 1..N |-> d[i]] =>
             [d EXCEPT ![x] = "#"] = [i \in 1..N |-> IF i = x THEN "#" ELSE d[i]]
      OBVIOUS
    <3>3. j \in 1..N => state.def # [i \in 1..N |-> state.def[i]]
                     \/ [state.def EXCEPT ![j] = "#"] = [i \in 1..N |-> IF i = j THEN "#" ELSE state.def[i]]
      BY <3>2
    <3>4. j \notin 1..N => state.def = [i \in 1..N |-> IF i = j THEN "#" ELSE state.def[i]]
      BY <3>1
    <3>. QED  BY <2>1, <3>1, <3>3, <3>4
  <2>3. ASSUME NEW i \in 1..N
        PROVE  (IF i = j THEN "#" ELSE state.def[i]) = Left(orig, k)[i]
    <3>. DEFINE Before(x) == \E l \in 1..(k-1) : orig[l] = Column[x]
    <3>1. /\ \A x \in 1..N : state.def[x] = IF Before(x) THEN "#" ELSE Column[x]
          /\ Left(orig, k)[i] = IF Before(i) \/ orig[k] = Column[i] THEN "#" ELSE Column[i]
      <4>1. 1..k = 1..(k-1) \cup {k}
        BY <1>2
      <4>. QED  BY <4>1 DEF Left
    <3>2. \A x, y \in 1..N : Column[x] = Column[y] => x = y
      BY <1>2, FormatsAssumption DEF IsInjective
    <3>3. \A x \in 1..N : Column[x] # "#"
      BY <1>2, FormatsAssumption, SMTT(60) DEF Range
    <3>. HIDE DEF Before, N
    <3>4. CASE j = 0
      <4>1. state.def[i] # orig[k] /\ i # j
        BY <1>2, <1>4, <3>4
      <4>. QED  BY <3>1, <4>1
    <3>5. CASE j \in 1..N
      <4>1. state.def[j] = orig[k]
        BY <1>2, <1>4, <3>5
      <4>. QED  BY <3>1, <3>2, <3>3, <3>5, <4>1
    <3>. QED  BY <1>2, <1>4, <3>4, <3>5
  <2>4. Used(def, j) = Left(orig, k)
    BY <2>2, <2>3 DEF Left
  <2>. QED  BY <1>1, <1>6, <2>4
<1>. QED  BY <1>5, <1>6

LEMMA ShownSteps ==
    ASSUME NEW orig \in Seq(Texts)
    PROVE  \E h \in [0..Size(orig) -> Seq(Texts)] :
              /\ h[0] = <<>> /\ h[Size(orig)] = Without(SubSeq(orig, 1, Size(orig)), {"#"})
              /\ \A k \in 1..Size(orig) :
                    h[k] = IF orig[k] = "#" THEN h[k-1] ELSE Append(h[k-1], orig[k])
<1>. DEFINE shown == SubSeq(orig, 1, Size(orig))
<1>1. /\ shown \in Seq(Texts) /\ Len(shown) = Size(orig)
      /\ \A k \in 1..Size(orig) : shown[k] = orig[k]
  BY SizeIs
<1>. HIDE DEF shown
<1>2. PICK h : IsKept(h, shown, {"#"})
  BY <1>1, WithoutSteps
<1>3. \A k \in 1..Size(orig) :
         h[k] = IF orig[k] = "#" THEN h[k-1] ELSE Append(h[k-1], orig[k])
  BY <1>1, <1>2 DEF IsKept
<1>. QED  BY <1>1, <1>2, <1>3 DEF IsKept, shown

\* What configure_ has in its hands in the end.
LEMMA EndIs ==
    ASSUME NEW orig \in Formats, NEW beyond \in Beyond, "$" \notin Range(orig)
    PROVE  LET shown == SubSeq(orig, 1, Size(orig))
               n == Size(orig)
           IN  /\ End(orig, beyond).list = Without(shown, {"#"})
               /\ End(orig, beyond).def = IF n # 0 /\ orig[n] = "#" THEN <<>> ELSE Left(orig, n)
<1>. DEFINE n == Size(orig)
<1>1. orig \in Seq(Texts) /\ n \in Nat /\ \A k \in 1..n : orig[k] # "$"
  BY InTexts, SizeIs DEF Range
<1>2. PICK g \in [0..n -> States] :
         /\ g[0] = [def |-> Column, list |-> <<>>] /\ g[n] = End(orig, beyond)
         /\ \A k \in 1..n : g[k] = Take(orig, beyond, g[k-1], k)
  BY <1>1, TakeSteps
<1>3. PICK h \in [0..n -> Seq(Texts)] :
         /\ h[0] = <<>> /\ h[n] = Without(SubSeq(orig, 1, n), {"#"})
         /\ \A k \in 1..n : h[k] = IF orig[k] = "#" THEN h[k-1] ELSE Append(h[k-1], orig[k])
  BY <1>1, ShownSteps
<1>. DEFINE Good(k) ==
               /\ g[k].list = h[k]
               /\ g[k].def = IF k # 0 /\ k = n /\ orig[k] = "#" THEN <<>> ELSE Left(orig, k)
            G == {k \in 0..n : Good(k)}
<1>4. 0 \in G
  <2>1. Left(orig, 0) = Column
    <3>1. \A i \in 1..0 : FALSE
      OBVIOUS
    <3>2. Column = [j \in 1..Len(Column) |-> Column[j]]
      BY InTexts
    <3>. QED  BY <3>1, <3>2 DEF Left
  <2>. QED  BY <1>1, <1>2, <1>3, <2>1
<1>5. ASSUME NEW k \in 1..n, k - 1 \in G  PROVE k \in G
  <2>1. k - 1 \in 0..n /\ k \in 0..n /\ k # 0 /\ k - 1 # n
    BY <1>1
  <2>2. g[k-1].list = h[k-1] /\ g[k-1].def = Left(orig, k - 1) /\ g[k-1] \in States
    BY <1>2, <1>5, <2>1
  <2>3. g[k] = Take(orig, beyond, g[k-1], k)
    BY <1>2
  <2>. HIDE DEF n
  <2>4. /\ g[k].def = IF orig[k] = "#" /\ k = n THEN <<>> ELSE Left(orig, k)
        /\ g[k].list = IF orig[k] = "#" THEN g[k-1].list ELSE Append(g[k-1].list, orig[k])
    BY <1>1, <2>2, <2>3, TakeOne DEF n
  <2>5. h[k] = IF orig[k] = "#" THEN h[k-1] ELSE Append(h[k-1], orig[k])
    BY <1>3
  <2>. QED  BY <2>1, <2>2, <2>4, <2>5
<1>6. \A k \in 0..n : k \in G
  <2>. HIDE DEF G, n
  <2>. QED  BY <1>1, <1>4, <1>5, Along
<1>7. Good(n)
  <2>. HIDE DEF Good
  <2>1. n \in G
    BY <1>1, <1>6
  <2>. QED  BY <2>1
<1>. QED  BY <1>2, <1>3, <1>7

\* A list as it is usually written, however long: the table gets the columns that
\* it is said to mean.
LEMMA ConfiguredAsListed ==
    ASSUME NEW orig \in Formats, NEW beyond \in Beyond, Plain(orig)
    PROVE  configure_(orig, beyond) = Documented(orig)
<1>. DEFINE n == Len(orig)
            last == n # 0 /\ orig[n] = "#"
<1>1. /\ orig \in Seq(Texts) /\ n \in Nat /\ Column \in Seq(Texts) /\ "#" \in Texts
      /\ Size(orig) = n /\ DOMAIN orig = 1..n
  BY InTexts DEF Plain, Size
<1>2. configure_(orig, beyond) = End(orig, beyond).list \o Without(End(orig, beyond).def, {"#"})
  BY DEF configure_, End
<1>3. SubSeq(orig, 1, n) = orig
  BY <1>1
<1>4. /\ End(orig, beyond).list = Without(orig, {"#"})
      /\ End(orig, beyond).def = IF last THEN <<>> ELSE Left(orig, n)
  BY <1>1, <1>3, EndIs DEF Plain
<1>5. "#" \in Range(orig) <=> last
  <2>1. "#" \in Range(orig) <=> \E k \in 1..n : orig[k] = "#"
    BY <1>1 DEF Range
  <2>2. \A k \in 1..n : orig[k] = "#" => k = n
    BY <1>1 DEF Plain
  <2>3. \A k \in 1..n : n # 0
    OBVIOUS
  <2>4. n # 0 => n \in 1..n
    BY <1>1
  <2>. HIDE DEF n
  <2>. QED  BY <2>1, <2>2, <2>3, <2>4
<1>6. Without(<<>>, {"#"}) = <<>>
  <2>1. <<>> \in Seq(Texts) /\ Len(<<>>) = 0
    OBVIOUS
  <2>2. PICK g : IsKept(g, <<>>, {"#"})
    BY <2>1, WithoutSteps
  <2>. QED  BY <2>1, <2>2 DEF IsKept
<1>7. Without(Left(orig, n), {"#"}) = Without(Column, Range(orig))
  <2>1. Left(orig, n) \in Seq(Texts) /\ Len(Left(orig, n)) = Len(Column)
    <3>1. \A j \in 1..Len(Column) : Left(orig, n)[j] \in Texts
      BY <1>1 DEF Left
    <3>. QED  BY <1>1, <3>1 DEF Left
  <2>2. ASSUME NEW k \in 1..Len(Column)
        PROVE  /\ Left(orig, n)[k] \in {"#"} <=> Column[k] \in Range(orig)
               /\ Left(orig, n)[k] \notin {"#"} => Left(orig, n)[k] = Column[k]
    <3>1. Column[k] # "#"
      BY <1>1, FormatsAssumption DEF Range
    <3>2. Column[k] \in Range(orig) <=> \E i \in 1..n : orig[i] = Column[k]
      BY <1>1 DEF Range
    <3>. HIDE DEF n
    <3>. QED  BY <3>1, <3>2 DEF Left
  <2>. HIDE DEF n
  <2>. QED  BY <1>1, <2>1, <2>2, SameKept
<1>. HIDE DEF last, n
<1>. QED  BY <1>2, <1>4, <1>5, <1>6, <1>7 DEF Documented

\* The table as configure_ leaves it, for some list that was configured; for the one
\* in force unless a reload is to come for it.
Made ==
    \E o \in LogOptions, beyond \in Beyond :
        /\ _table_format = configure_(o.sequence_of_list, beyond)
        /\ configuring = "no" => o = lopt

\* A reload configures the log before it initializes anything.
Before(where) == where \in {"initialize", "filled"}

Follows ==
    /\ configuring # "no" => Before(main)
    /\ Free => Made

LEMMA FollowsInit == Init => Follows
BY DEF Init, LogInit, Follows, Made

\* The steps by which its options change.
LEMMA SettingSteps ==
    ASSUME [Next]_vars
    PROVE  \/ /\ UNCHANGED <<lopt, _table_format, configuring>>
              /\ main' = main \/ configuring = "no" \/ ~Before(main)
           \/ (LogLock \/ LogConfigured) /\ main' = main
           \/ /\ \E new \in LogOptions : LogReconfigure(new)
              /\ main = "run" /\ Before(main')
<1>. DEFINE Same == UNCHANGED <<lopt, _table_format, configuring>>
<1>1. CASE UNCHANGED vars
  BY <1>1 DEF vars, logVars, logSettings, coreVars
<1>2. CASE Sys(Consume) \/ Stat(StartupIgnored)
  BY <1>2 DEF Sys, Stat, logVars, logSettings, coreVars
<1>3. ASSUME NEW s \in Sampler, Sys(SysFire(s)) \/ SamplerStep(s) \/ Sys(ReadProcFails(s))
      PROVE  Same /\ main' = main
  BY <1>3 DEF Sys, SamplerStep, MeasureUtime, logVars, logSettings, coreVars
<1>4. ASSUME NEW p, PushStep(p) \/ Push(p, "utime", "none") \/ Push(p, "value", "held")
      PROVE  Same
  BY <1>4 DEF PushStep, LookSuspended, WriteLegend, WriteRow, Forward, Push, logSettings
<1>5. ASSUME NEW h \in Handler, Stat(Fire(h)) \/ HandlerStep(h)
      PROVE  Same /\ main' = main
  BY <1>4, <1>5 DEF Stat, HandlerStep, CallStatlog, CallOther, LogStep, StatlogForwards,
              PushStep, logVars, logSettings, coreVars
<1>6. ASSUME NEW c \in Client, ClientPushes(c) \/ LogStep(c)
      PROVE  Same /\ main' = main
  BY <1>4, <1>6 DEF ClientPushes, LogStep, PushStep, coreVars
<1>7. ASSUME NEW stat \in StatOptions, NEW log \in LogOptions, Reload(stat, log)
      PROVE  /\ Same \/ LogReconfigure(log)
             /\ main = "run" /\ Before(main')
  BY <1>7 DEF Reload, Before, logVars, logSettings
<1>8. CASE ReloadStep \/ StopSystem
  <2>1. CASE ConfigureStatlog
    BY <2>1 DEF ConfigureStatlog, coreVars
  <2>2. CASE InitializeStatistics \/ InitializeStatlog
    BY <2>2 DEF InitializeStatistics, InitializeStatlog, LogInitialize, logVars, logSettings
  <2>3. CASE StartStatistics \/ StartSystem \/ StopSystem
    BY <2>3 DEF StartStatistics, StartSystem, Starting, StopSystem, Before, logVars,
                logSettings
  <2>. QED  BY <1>8, <2>1, <2>2, <2>3 DEF ReloadStep
<1>9. "run" \notin {"initialize", "filled"}
  OBVIOUS
<1>. QED  BY <1>1, <1>2, <1>3, <1>5, <1>6, <1>7, <1>8, <1>9 DEF Next, Before

LEMMA FollowsNext == TypeInv /\ Follows /\ [Next]_vars => Follows'
<1>. SUFFICES ASSUME TypeInv, Follows, [Next]_vars  PROVE Follows'
  OBVIOUS
<1>1. CASE /\ UNCHANGED <<lopt, _table_format, configuring>>
           /\ main' = main \/ configuring = "no" \/ ~Before(main)
  BY <1>1 DEF Follows, Made, Free
<1>2. CASE LogLock /\ main' = main
  BY <1>2 DEF LogLock, Free, Follows
<1>3. CASE LogConfigured /\ main' = main
  BY <1>3, LogFacts DEF LogConfigured, Follows, Made
<1>4. ASSUME NEW new \in LogOptions, LogReconfigure(new), main = "run", Before(main')
      PROVE  Follows'
  <2>1. configuring = "no"
    BY <1>4 DEF Follows, Before
  <2>. QED  BY <1>4, <2>1 DEF LogReconfigure, Follows, Made, Free
<1>. QED  BY <1>1, <1>2, <1>3, <1>4, SettingSteps

\* A legend is written under the mutex, which configure_ does not hold then.
LEMMA WrittenFree ==
    ASSUME TypeInv, [Next]_vars, NEW name \in Name, legends'[name] # legends[name]
    PROVE  Free
<1>1. legends \in [Name -> Nat]
  BY LogFacts
<1>2. PICK p \in Pusher : PushStep(p)
  <2>1. ASSUME NEW p, NEW n, NEW cb, Push(p, n, cb)  PROVE legends' = legends
    BY <2>1 DEF Push, logHistory
  <2>. QED  BY <2>1, LogSteps
<1>3. CASE WriteLegend(p)
  <2>1. CASE push[p].opt.show_legend
    BY <1>3, <2>1 DEF WriteLegend
  <2>2. CASE ~push[p].opt.show_legend
    <3>1. legends' = [legends EXCEPT ![push[p].name] = legends[push[p].name]]
      BY <1>3, <2>2 DEF WriteLegend
    <3>. QED  BY <1>1, <3>1
  <2>. QED  BY <2>1, <2>2
<1>4. CASE ~WriteLegend(p)
  BY <1>2, <1>4 DEF PushStep, LookSuspended, WriteRow, Forward, logHistory
<1>. QED  BY <1>3, <1>4

\* statlog: whatever lists the options give, "$" and "#" anywhere in them included,
\* and whenever the core reloads them, a legend is written of all columns that one
\* configuration has made, of the one in force unless its reload is under way, and
\* never of a list that configure_ is making. And configure_ makes of every list as
\* it is usually written, however long, the columns that the comment on
\* sequence_of_list promises.
THEOREM ColumnsFollowList == Spec => LegendAsListed
<1>. DEFINE Step == /\ AllAsListed
                    /\ \A name \in Name : legends'[name] # legends[name] => Made
<1>1. AllAsListed
  BY ConfiguredAsListed DEF AllAsListed
<1>2. TypeInv /\ Follows /\ [Next]_vars => [Step]_logVars
  BY <1>1, WrittenFree DEF Follows
<1>3. Spec => [][Step]_logVars
  <2>. HIDE DEF Step
  <2>. QED
    BY <1>2, TypeInit, TypeNext, FollowsInit, FollowsNext, PTL DEF Spec
<1>. QED  BY <1>3 DEF LegendAsListed, Made

-----------------------------------------------------------------------------
(* What is measured, and when.                                             *)

\* Who is stopped does not go on.
LEMMA TimelyBefore ==
    ASSUME [Next]_vars, Timely'
    PROVE  Timely
<1>1. CASE UNCHANGED vars
  BY <1>1 DEF vars, coreVars, Timely
<1>2. CASE Sys(Consume) \/ Stat(StartupIgnored)
  BY <1>2 DEF Sys, Stat, coreVars, Timely
<1>3. ASSUME NEW s \in Sampler, Sys(SysFire(s)) \/ SamplerStep(s) \/ Sys(ReadProcFails(s))
      PROVE  Timely
  BY <1>3 DEF Sys, SamplerStep, MeasureUtime, coreVars, Timely
<1>4. ASSUME NEW h \in Handler, Stat(Fire(h)) \/ HandlerStep(h)
      PROVE  Timely
  BY <1>4 DEF Stat, HandlerStep, CallStatlog, CallOther, LogStep, StatlogForwards,
              coreVars, Timely
<1>5. ASSUME NEW c \in Client, ClientPushes(c) \/ LogStep(c)
      PROVE  Timely
  BY <1>5 DEF ClientPushes, LogStep, coreVars, Timely
<1>6. ASSUME NEW stat \in StatOptions, NEW log \in LogOptions, Reload(stat, log)
      PROVE  Timely
  BY <1>6 DEF Reload, Timely
<1>7. CASE ReloadStep \/ StopSystem
  BY <1>7 DEF ReloadStep, ConfigureStatlog, InitializeStatistics, InitializeStatlog,
              StartStatistics, StartSystem, Starting, StopSystem, coreVars, Timely
<1>. QED
  BY <1>1, <1>2, <1>3, <1>4, <1>5, <1>6, <1>7 DEF Next

\* The steps by which the system statistics change.
LEMMA SysSteps ==
    ASSUME [Next]_vars, Timely'
    PROVE  \/ StartSystem
           \/ /\ late' = late
              /\ \/ UNCHANGED sysVars
                 \/ \E s \in Sampler :
                       Consume \/ SysFire(s) \/ ReadProc(s) \/ ReadProcFails(s) \/ Remember(s)
<1>1. CASE UNCHANGED vars
  BY <1>1 DEF vars, coreVars
<1>2. CASE Sys(Consume) \/ Stat(StartupIgnored)
  BY <1>2, Constants DEF Sys, Stat, coreVars
<1>3. ASSUME NEW s \in Sampler, Sys(SysFire(s)) \/ SamplerStep(s) \/ Sys(ReadProcFails(s))
      PROVE  late' = late /\ (SysFire(s) \/ ReadProc(s) \/ ReadProcFails(s) \/ Remember(s))
  BY <1>3 DEF Sys, SamplerStep, MeasureUtime, coreVars
<1>4. ASSUME NEW h \in Handler, Stat(Fire(h)) \/ HandlerStep(h)
      PROVE  late' = late /\ UNCHANGED sysVars
  BY <1>4 DEF Stat, HandlerStep, CallStatlog, CallOther, LogStep, StatlogForwards, coreVars
<1>5. ASSUME NEW c \in Client, ClientPushes(c) \/ LogStep(c)
      PROVE  late' = late /\ UNCHANGED sysVars
  BY <1>5 DEF ClientPushes, LogStep, coreVars
<1>6. ASSUME NEW stat \in StatOptions, NEW log \in LogOptions, Reload(stat, log)
      PROVE  late' = late /\ UNCHANGED sysVars
  BY <1>6 DEF Reload
<1>7. CASE ReloadStep \/ StopSystem
  BY <1>7 DEF ReloadStep, ConfigureStatlog, InitializeStatistics, InitializeStatlog,
              StartStatistics, StopSystem, Timely, coreVars
<1>. QED
  BY <1>1, <1>2, <1>3, <1>4, <1>5, <1>6, <1>7 DEF Next

\* What is measured is no later than the time there is.
LEMMA Bounds ==
    ASSUME TypeInv, NEW s \in Sampler
    PROVE  /\ First(s) \in Nat /\ First(s) <= ticks
           /\ Horizon(s) \in Nat /\ Horizon(s) <= ticks /\ ticks \in Nat
           /\ (sampler[s].base = 0 <=> sampler[s].utime = 0)
<1>1. /\ sampler[s].now \in Nat /\ sampler[s].utime \in Nat /\ sampler[s].base \in Nat
      /\ ticks \in Nat /\ sampler[s].now <= ticks
      /\ sampler[s].base <= sampler[s].utime /\ sampler[s].utime <= sampler[s].now
      /\ (sampler[s].base = 0 <=> sampler[s].utime = 0)
  BY SamplerSound DEF Sound
<1>2. CASE SamplerAt(s, "measure")
  <2>1. /\ First(s) = IF sampler[s].base # 0 THEN sampler[s].base ELSE sampler[s].now
        /\ Horizon(s) = IF sampler[s].utime # 0 THEN sampler[s].utime ELSE sampler[s].now
    BY <1>2 DEF First, Horizon
  <2>. QED  BY <1>1, <2>1
<1>3. CASE ~SamplerAt(s, "measure")
  <2>1. /\ First(s) = IF sampler[s].base # 0 THEN sampler[s].base ELSE ticks
        /\ Horizon(s) = IF sampler[s].utime # 0 THEN sampler[s].utime ELSE ticks
    BY <1>3 DEF First, Horizon
  <2>. QED  BY <1>1, <2>1
<1>. QED  BY <1>2, <1>3

LEMMA InForce ==
    ASSUME TypeInv, Timely
    PROVE  sys_timer_id \in Sampler /\ Cut \in Nat /\ Cut <= ticks
<1>1. sys_timer_id \in Sampler
  BY SysFacts DEF Timely
<1>. QED  BY <1>1, Bounds DEF Cut

InBounds ==
    /\ \A s \in Sampler : First(s) \in Nat /\ Horizon(s) \in Nat /\ Horizon(s) <= ticks
    /\ Timely => sys_timer_id \in Sampler /\ Cut \in Nat

LEMMA BoundsNext == TypeInv' => InBounds'
<1>1. TypeInv => InBounds
  BY Bounds, InForce DEF InBounds
<1>. QED  BY <1>1, PTL

\* They only rise while a timer is in force.
LEMMA Rising ==
    ASSUME TypeInv, NEW s \in Sampler, NEW r \in Sampler,
           \/ Consume \/ SysFire(s) \/ ReadProc(s) \/ ReadProcFails(s) \/ Remember(s)
    PROVE  /\ sys_timer_id' = sys_timer_id
           /\ First(r)' >= First(r) /\ Horizon(r)' >= Horizon(r)
<1>. DEFINE b == sampler[r].base
            u == sampler[r].utime
            n == sampler[r].now
<1>1. sys_timer_id' = sys_timer_id
  BY DEF Consume, SysFire, ReadProc, ReadProcFails, Remember
<1>2. /\ n \in Nat /\ u \in Nat /\ b \in Nat /\ ticks \in Nat
      /\ n <= ticks /\ b <= u /\ u <= n /\ (b = 0 <=> u = 0)
  BY SamplerSound DEF Sound
<1>3. sampler \in [Sampler -> Samples]
  BY SysFacts
<1>4. CASE Consume
  <2>1. sampler'[r] = sampler[r] /\ ticks' = ticks + 1
    BY <1>4 DEF Consume
  <2>. QED  BY <1>1, <1>2, <2>1 DEF First, Horizon, SamplerAt
<1>5. CASE s # r /\ ~Consume
  <2>1. sampler'[r] = sampler[r] /\ ticks' = ticks
    BY <1>3, <1>5 DEF SysFire, ReadProc, ReadProcFails, Remember
  <2>. QED  BY <1>1, <1>2, <2>1 DEF First, Horizon, SamplerAt
<1>6. CASE s = r /\ ~Consume
  <2>1. ticks' = ticks
    BY <1>6 DEF SysFire, ReadProc, ReadProcFails, Remember
  <2>2. CASE SysFire(s) \/ ReadProcFails(s)
    <3>1. /\ sampler'[r].base = b /\ sampler'[r].utime = u
          /\ sampler'[r].pc \in {"read", "idle"} /\ sampler[r].pc # "measure"
      BY <1>3, <1>6, <2>2 DEF SysFire, ReadProcFails, SamplerAt, Samples
    <3>. QED  BY <1>1, <1>2, <2>1, <3>1 DEF First, Horizon, SamplerAt
  <2>3. CASE ReadProc(s)
    <3>1. /\ sampler'[r].base = b /\ sampler'[r].utime = u /\ sampler'[r].pc = "measure"
          /\ sampler'[r].now = ticks /\ sampler[r].pc = "read"
      BY <1>3, <1>6, <2>3 DEF ReadProc, SamplerAt, Samples
    <3>. QED  BY <1>1, <1>2, <2>1, <3>1 DEF First, Horizon, SamplerAt
  <2>4. CASE Remember(s)
    <3>1. /\ sampler'[r].base = IF b = 0 THEN n ELSE b
          /\ sampler'[r].utime = n /\ sampler'[r].pc = "idle" /\ sampler[r].pc = "measure"
      BY <1>3, <1>6, <2>4 DEF Remember, SamplerAt, Samples
    <3>2. /\ First(r) = IF b # 0 THEN b ELSE n
          /\ Horizon(r) = IF u # 0 THEN u ELSE n
      BY <3>1 DEF First, Horizon, SamplerAt
    <3>3. /\ First(r)' = IF sampler'[r].base # 0 THEN sampler'[r].base ELSE ticks'
          /\ Horizon(r)' = IF n # 0 THEN n ELSE ticks'
      BY <3>1 DEF First, Horizon, SamplerAt
    <3>4. sampler'[r].base = IF b = 0 THEN n ELSE b
      BY <3>1
    <3>. QED  BY <1>1, <1>2, <2>1, <3>2, <3>3, <3>4
  <2>. QED  BY <1>6, <2>2, <2>3, <2>4
<1>. QED  BY <1>4, <1>5, <1>6

\* The steps by which the records change places.
Moves(h) ==
    \/ Fire(h) \/ PopRecord(h) \/ CallTarget(h)
    \/ TargetReturns(h)

LEMMA PlaceSteps ==
    ASSUME [Next]_vars
    PROVE  \/ UNCHANGED <<pending, run, received>>
           \/ \E h \in Handler : Moves(h) /\ (UNCHANGED received \/ CallOther(h)
                                                                \/ StatlogForwards(h))
           \/ StatStart /\ UNCHANGED <<pending, received>>
           \/ \E s \in Sampler : MeasureUtime(s) /\ UNCHANGED <<run, received>>
<1>1. CASE UNCHANGED vars
  BY <1>1 DEF vars, statVars, collectors
<1>2. CASE Sys(Consume) \/ Stat(StartupIgnored)
  BY <1>2 DEF Sys, Stat, StartupIgnored, statVars, collectors
<1>3. ASSUME NEW s \in Sampler, Sys(SysFire(s)) \/ SamplerStep(s) \/ Sys(ReadProcFails(s))
      PROVE  \/ UNCHANGED <<pending, run, received>>
             \/ MeasureUtime(s) /\ UNCHANGED <<run, received>>
  BY <1>3 DEF Sys, SamplerStep, MeasureUtime, Measure, statVars, collectors
<1>4. ASSUME NEW h \in Handler, Stat(Fire(h)) \/ HandlerStep(h)
      PROVE  \/ UNCHANGED <<pending, run, received>>
             \/ Moves(h) /\ (UNCHANGED received \/ CallOther(h) \/ StatlogForwards(h))
  BY <1>4 DEF Stat, HandlerStep, StatStep, NoTargets, CallStatlog, CallOther, LogStep,
              StatlogForwards, Moves, statVars, collectors
<1>5. ASSUME NEW c \in Client, ClientPushes(c) \/ LogStep(c)
      PROVE  UNCHANGED <<pending, run, received>>
  BY <1>5 DEF ClientPushes, LogStep, statVars, collectors
<1>6. ASSUME NEW stat \in StatOptions, NEW log \in LogOptions, Reload(stat, log)
      PROVE  UNCHANGED <<pending, run, received>>
  BY <1>6 DEF Reload, StatReconfigure, StatReconfigureBasic, statVars, collectors
<1>7. CASE ReloadStep \/ StopSystem
  BY <1>7 DEF ReloadStep, ConfigureStatlog, InitializeStatistics, StatClearTargets,
              StatFillTargets, InitializeStatlog, StartStatistics, StartSystem, StatStart, Starting,
              StopSystem, statVars, collectors
<1>. QED
  BY <1>1, <1>2, <1>3, <1>4, <1>5, <1>6, <1>7 DEF Next

\* A handler takes what waits, keeps what it has, or puts it away.
LEMMA HandMoves ==
    ASSUME TypeInv, NEW h \in Handler, Moves(h)
    PROVE  /\ \A g \in Handler \ {h} : run'[g] = run[g]
           /\ \A c \in 1..Collectors : pending'[c] \subseteq pending[c]
           /\ \/ run'[h].hand \in {run[h].hand, {}}
              \/ PopRecord(h) /\ run'[h].hand \in pending[run[h].st]
<1>1. run \in [Handler -> Runs] /\ pending \in [1..Collectors -> SUBSET Record]
      /\ run[h].st \in 1..Collectors
  BY StatFacts, RunFacts
<1>2. CASE Fire(h)
  <2>1. run' = [run EXCEPT ![h] = [run[h] EXCEPT !.pc = "pop"]] /\ pending' = pending
    BY <1>2 DEF Fire, collectors
  <2>2. [run[h] EXCEPT !.pc = "pop"].hand = run[h].hand
    BY <1>1 DEF Runs
  <2>. QED  BY <1>1, <2>1, <2>2
<1>3. CASE CallTarget(h)
  <2>1. PICK where : run' = [run EXCEPT ![h] = [run[h] EXCEPT !.pc = where]]
    BY <1>3 DEF CallTarget
  <2>2. [run[h] EXCEPT !.pc = where].hand = run[h].hand /\ pending' = pending
    BY <1>1, <1>3 DEF Runs, CallTarget, collectors
  <2>. QED  BY <1>1, <2>1, <2>2
<1>4. CASE TargetReturns(h)
  <2>1. pending' = pending
    BY <1>4 DEF TargetReturns, collectors
  <2>. QED  BY <1>4, <2>1, Returned
<1>5. CASE PopRecord(h)
  <2>1. CASE pending[run[h].st] = {}
    <3>1. run' = [run EXCEPT ![h] = [run[h] EXCEPT !.pc = "idle"]] /\ pending' = pending
      BY <1>5, <2>1 DEF PopRecord
    <3>2. [run[h] EXCEPT !.pc = "idle"].hand = run[h].hand
      BY <1>1 DEF Runs
    <3>. QED  BY <1>1, <3>1, <3>2
  <2>2. CASE pending[run[h].st] # {}
    <3>1. PICK record \in pending[run[h].st] :
            /\ pending' = [pending EXCEPT ![run[h].st] = Kept(h, record)]
            /\ run' = IF _targets = <<>> THEN run
                      ELSE [run EXCEPT ![h].pc = "send", ![h].hand = record,
                                       ![h].index = 2]
      BY <1>5, <2>2 DEF PopRecord
    <3>2. \A c \in 1..Collectors : pending'[c] \subseteq pending[c]
      BY <1>1, <3>1 DEF Kept
    <3>3. /\ \A g \in Handler \ {h} : run'[g] = run[g]
          /\ run'[h].hand \in {run[h].hand, record}
      <4>1. CASE _targets = <<>>
        BY <3>1, <4>1
      <4>2. CASE _targets # <<>>
        <5>. DEFINE r == [run[h] EXCEPT !.pc = "send", !.hand = record, !.index = 2]
        <5>1. run' = [run EXCEPT ![h] = r]
          BY <3>1, <4>2
        <5>2. r.hand = record
          BY <1>1 DEF Runs
        <5>. HIDE DEF r
        <5>. QED  BY <1>1, <5>1, <5>2
      <4>. QED  BY <4>1, <4>2
    <3>. QED  BY <1>5, <3>1, <3>2, <3>3
  <2>. QED  BY <2>1, <2>2
<1>. QED  BY <1>2, <1>3, <1>4, <1>5 DEF Moves

\* Who tells a target has the record in hand.
LEMMA Telling ==
    ASSUME TypeInv, NEW h \in Handler, CallOther(h) \/ StatlogForwards(h), NEW x \in Mark,
           NEW t \in Sinks, received'[t][x] # received[t][x]
    PROVE  /\ x \in run[h].hand /\ received'[t][x] = received[t][x] + 1
           /\ \/ CallOther(h) /\ t = "other"
              \/ StatlogForwards(h) /\ t = "sink" /\ _target
<1>1. received \in [Sinks -> [Mark -> Nat]]
  BY DEF TypeInv
<1>2. ASSUME NEW d \in Sinks, Deliver(d, run[h].hand)
      PROVE  t = d /\ x \in run[h].hand /\ received'[t][x] = received[t][x] + 1
  <2>. DEFINE f == [k \in Mark |-> IF k \in run[h].hand THEN received[d][k] + 1
                                                        ELSE received[d][k]]
  <2>1. received' = [received EXCEPT ![d] = f]
    BY <1>2 DEF Deliver, Mark
  <2>2. f[x] = IF x \in run[h].hand THEN received[d][x] + 1 ELSE received[d][x]
    OBVIOUS
  <2>. HIDE DEF f
  <2>3. t = d
    BY <1>1, <2>1
  <2>4. received'[t][x] = f[x]
    BY <1>1, <2>1, <2>3
  <2>. QED  BY <2>2, <2>3, <2>4
<1>3. CASE CallOther(h)
  BY <1>2, <1>3 DEF CallOther, Sinks
<1>4. CASE StatlogForwards(h)
  <2>1. _target /\ Deliver("sink", run[h].hand)
    BY <1>4 DEF StatlogForwards
  <2>. QED  BY <1>2, <1>4, <2>1 DEF Sinks
<1>. QED  BY <1>3, <1>4

\* A tick comes to a place from another one, or it is measured.
LEMMA PlacedBefore ==
    ASSUME TypeInv, [Next]_vars, NEW x \in Mark, Placed(x)'
    PROVE  Placed(x) \/ \E s \in Sampler : MeasureUtime(s) /\ x \in Difference(s)
<1>1. /\ received \in [Sinks -> [Mark -> Nat]]
      /\ pending \in [1..Collectors -> SUBSET Record] /\ run \in [Handler -> Runs]
  BY StatFacts DEF TypeInv
<1>2. CASE UNCHANGED <<pending, run, received>>
  BY <1>2 DEF Placed
<1>3. ASSUME NEW h \in Handler, Moves(h),
             UNCHANGED received \/ CallOther(h) \/ StatlogForwards(h)
      PROVE  Placed(x)
  <2>1. CASE \E c \in 1..Collectors : \E record \in pending'[c] : x \in record
    BY <1>3, <2>1, HandMoves DEF Placed
  <2>2. CASE \E g \in Handler : x \in run'[g].hand
    <3>1. PICK g \in Handler : x \in run'[g].hand
      BY <2>2
    <3>2. CASE g # h
      BY <1>3, <3>1, <3>2, HandMoves DEF Placed
    <3>3. CASE g = h
      <4>1. CASE run'[h].hand = run[h].hand
        BY <3>1, <3>3, <4>1 DEF Placed
      <4>2. CASE run'[h].hand \in pending[run[h].st]
        BY <3>1, <3>3, <4>2, RunFacts DEF Placed
      <4>. QED  BY <1>3, <3>1, <3>3, <4>1, <4>2, HandMoves
    <3>. QED  BY <3>2, <3>3
  <2>3. CASE \E t \in Sinks : received'[t][x] # 0
    <3>1. PICK t \in Sinks : received'[t][x] # 0
      BY <2>3
    <3>2. CASE received'[t][x] = received[t][x]
      BY <3>1, <3>2 DEF Placed
    <3>3. CASE received'[t][x] # received[t][x]
      <4>1. x \in run[h].hand
        BY <1>3, <3>3, Telling
      <4>. QED  BY <4>1 DEF Placed
    <3>. QED  BY <3>2, <3>3
  <2>. QED  BY <2>1, <2>2, <2>3 DEF Placed
<1>4. CASE StatStart /\ UNCHANGED <<pending, received>>
  <2>1. \A h \in Handler : run'[h].hand = run[h].hand
    <3>1. PICK h \in Handler : run' = [run EXCEPT ![h] = [run[h] EXCEPT !.st = Bound]]
      BY <1>4 DEF StatStart
    <3>2. [run[h] EXCEPT !.st = Bound].hand = run[h].hand
      BY <1>1 DEF Runs
    <3>. QED  BY <1>1, <3>1, <3>2
  <2>. QED  BY <1>4, <2>1 DEF Placed
<1>5. ASSUME NEW s \in Sampler, MeasureUtime(s), UNCHANGED <<run, received>>
      PROVE  Placed(x) \/ x \in Difference(s)
  <2>1. ASSUME NEW c \in 1..Collectors
        PROVE  pending'[c] \subseteq pending[c] \cup {Difference(s)}
    BY <1>1, <1>5 DEF MeasureUtime, Measure, statVars, collectors
  <2>. QED  BY <1>5, <2>1 DEF Placed
<1>. QED  BY <1>2, <1>3, <1>4, <1>5, PlaceSteps

\* What is measured now is later than all that this sampler has measured.
LEMMA Measured ==
    ASSUME TypeInv, NEW s \in Sampler, MeasureUtime(s), NEW x \in Difference(s)
    PROVE  \E i \in Tick : /\ x = <<s, i>> /\ i \in Nat
                           /\ Horizon(s) < i /\ i <= sampler[s].now /\ i <= Horizon(s)'
<1>1. Remember(s)
  BY DEF MeasureUtime
<1>2. sampler[s].utime # 0 /\ x \in {s} \X (sampler[s].utime + 1..sampler[s].now)
  BY DEF Difference
<1>3. PICK i \in sampler[s].utime + 1..sampler[s].now : x = <<s, i>>
  BY <1>2
<1>4. /\ sampler[s].now \in Nat /\ sampler[s].utime \in Nat /\ sampler[s].now <= MaxTicks
      /\ MaxTicks \in Nat
  <2>1. ticks \in 0..MaxTicks /\ sampler[s].now <= ticks /\ MaxTicks \in Nat
    BY SysFacts, SamplerSound, Constants DEF Sound
  <2>. QED  BY <2>1, SamplerSound
<1>5. i \in Nat /\ i \in Tick /\ sampler[s].utime < i /\ i <= sampler[s].now
  BY <1>3, <1>4 DEF Tick
<1>6. Horizon(s) = sampler[s].utime
  BY <1>2 DEF Horizon
<1>7. sampler'[s].utime = sampler[s].now
  BY <1>1, SysFacts DEF Remember, Samples
<1>8. Horizon(s)' = sampler[s].now
  BY <1>4, <1>5, <1>7 DEF Horizon
<1>. QED  BY <1>3, <1>5, <1>6, <1>8

\* A timer is made: who is about to read then is late.
LEMMA Restarted ==
    ASSUME TypeInv, StartSystem
    PROVE  /\ sys_timer_id' \in Sampler /\ sys_timer_id' # sys_timer_id /\ ticks' = ticks
           /\ Timer'.base = 0 /\ Timer'.utime = 0 /\ Timer'.st = _stat
           /\ \A s \in Sampler :
                 /\ sampler'[s].pc = "idle" \/ sampler'[s] = sampler[s]
                 /\ sampler'[s].pc = "read" => s \in late'
                 /\ Horizon(s)' >= Horizon(s)
           /\ Cut' = ticks
<1>1. SysRestart(_stat) /\ late' = {s \in Sampler : SamplerAt(s, "read")}
  BY DEF StartSystem
<1>2. PICK t \in Sampler \ {sys_timer_id} :
          /\ SamplerAt(t, "idle") /\ sys_timer_id' = t
          /\ sampler' = [r \in Sampler |-> IF SamplerAt(r, "idle") THEN Fresh(_stat)
                                                               ELSE sampler[r]]
  BY <1>1 DEF SysRestart
<1>3. ticks' = ticks
  BY <1>1 DEF SysRestart
<1>4. Timer' = Fresh(_stat) /\ sampler'[t] = Fresh(_stat)
  BY <1>2 DEF Timer
<1>5. /\ Timer'.base = 0 /\ Timer'.utime = 0 /\ Timer'.st = _stat
      /\ sampler'[t].pc = "idle" /\ sampler'[t].base = 0
  BY <1>4 DEF Fresh
<1>6. Cut' = ticks
  BY <1>2, <1>3, <1>5 DEF Cut, First, SamplerAt
<1>7. ASSUME NEW s \in Sampler
      PROVE  /\ sampler'[s].pc = "idle" \/ sampler'[s] = sampler[s]
             /\ sampler'[s].pc = "read" => s \in late'
             /\ Horizon(s)' >= Horizon(s)
  <2>0. Horizon(s) \in Nat /\ Horizon(s) <= ticks /\ ticks \in Nat
    BY Bounds
  <2>1. CASE SamplerAt(s, "idle")
    <3>1. sampler'[s].pc = "idle" /\ sampler'[s].utime = 0
      BY <1>2, <2>1 DEF Fresh
    <3>2. Horizon(s)' = ticks
      BY <1>3, <3>1 DEF Horizon, SamplerAt
    <3>. QED  BY <2>0, <3>1, <3>2
  <2>2. CASE ~SamplerAt(s, "idle")
    <3>1. sampler'[s] = sampler[s]
      BY <1>2, <2>2
    <3>2. Horizon(s)' = Horizon(s)
      BY <1>3, <3>1 DEF Horizon, SamplerAt
    <3>. QED  BY <1>1, <2>0, <3>1, <3>2 DEF SamplerAt
  <2>. QED  BY <2>1, <2>2
<1>. QED  BY <1>2, <1>3, <1>5, <1>6, <1>7

\* What is placed now was before, or is measured by its sampler.
LEMMA PlacedNow ==
    ASSUME TypeInv, [Next]_vars, NEW s \in Sampler, NEW i \in Tick, Placed(<<s, i>>)'
    PROVE  \/ Placed(<<s, i>>)
           \/ /\ MeasureUtime(s) /\ <<s, i>> \in Difference(s)
              /\ i <= sampler[s].now /\ i <= Horizon(s)'
<1>1. PICK x : x = <<s, i>>
  OBVIOUS
<1>2. x \in Mark
  BY <1>1 DEF Mark
<1>3. Placed(x)'
  BY <1>1
<1>4. Placed(x) \/ \E r \in Sampler : MeasureUtime(r) /\ x \in Difference(r)
  BY <1>2, <1>3, PlacedBefore
<1>5. ASSUME NEW r \in Sampler, MeasureUtime(r), x \in Difference(r)
      PROVE  /\ MeasureUtime(s) /\ x \in Difference(s)
             /\ i <= sampler[s].now /\ i <= Horizon(s)'
  <2>1. PICK k \in Tick : /\ x = <<r, k>>
                         /\ k <= sampler[r].now /\ k <= Horizon(r)'
    BY <1>5, Measured
  <2>2. k = i /\ r = s
    BY <1>1, <2>1
  <2>. QED  BY <1>5, <2>1, <2>2
<1>. QED  BY <1>1, <1>4, <1>5

LEMMA HorizonNext ==
    ASSUME TypeInv, TypeInv', HorizonInv, [Next]_vars, Timely'
    PROVE  \A s \in Sampler :
              /\ Horizon(s)' >= Horizon(s)
              /\ \A i \in Tick : Placed(<<s, i>>)' => i <= Horizon(s)'
<1>. TAKE s \in Sampler
<1>1. Timely
  BY TimelyBefore
<1>2. Horizon(s) \in Nat /\ Horizon(s)' \in Nat
  BY Bounds, BoundsNext DEF InBounds
<1>3. Horizon(s)' >= Horizon(s)
  <2>1. CASE UNCHANGED sysVars
    <3>1. Horizon(s)' = Horizon(s)
      BY <2>1 DEF sysVars, Horizon, SamplerAt
    <3>. QED  BY <1>2, <3>1
  <2>2. CASE StartSystem
    BY <2>2, Restarted
  <2>3. ASSUME NEW r \in Sampler,
               Consume \/ SysFire(r) \/ ReadProc(r) \/ ReadProcFails(r) \/ Remember(r)
        PROVE  Horizon(s)' >= Horizon(s)
    BY <2>3, Rising
  <2>. QED  BY <2>1, <2>2, <2>3, SysSteps
<1>4. ASSUME NEW i \in Tick, Placed(<<s, i>>)'  PROVE i <= Horizon(s)'
  <2>1. i \in Nat
    BY Constants
  <2>2. CASE Placed(<<s, i>>)
    <3>1. i <= Horizon(s)
      BY <1>1, <2>2 DEF HorizonInv
    <3>. QED  BY <1>2, <1>3, <2>1, <3>1
  <2>3. CASE ~Placed(<<s, i>>)
    BY <1>4, <2>3, PlacedNow
  <2>. QED  BY <2>2, <2>3
<1>. QED  BY <1>3, <1>4

LEMMA CutRises ==
    ASSUME TypeInv, [Next]_vars, Timely', UNCHANGED sys_timer_id
    PROVE  Cut' >= Cut
<1>1. Timely
  BY TimelyBefore
<1>2. sys_timer_id \in Sampler /\ Cut \in Nat
  BY <1>1, InForce
<1>3. CASE UNCHANGED sysVars
  <2>1. Cut' = Cut
    BY <1>3 DEF sysVars, Cut, First, SamplerAt
  <2>. QED  BY <1>2, <2>1
<1>4. CASE StartSystem
  BY <1>4, Restarted
<1>5. ASSUME NEW r \in Sampler,
             Consume \/ SysFire(r) \/ ReadProc(r) \/ ReadProcFails(r) \/ Remember(r)
      PROVE  Cut' >= Cut
  <2>1. First(sys_timer_id)' >= First(sys_timer_id)
    <3>1. ASSUME NEW t \in Sampler, t = sys_timer_id
          PROVE  First(t)' >= First(t) /\ First(t)' = Cut' /\ First(t) = Cut
      BY <1>5, <3>1, Rising DEF Cut
    <3>. QED  BY <1>2, <3>1 DEF Cut
  <2>. QED  BY <2>1 DEF Cut
<1>. QED  BY <1>3, <1>4, <1>5, SysSteps

\* An older run that is not late only ends what it has begun.
LEMMA OldNext ==
    ASSUME TypeInv, TypeInv', OldInv, HorizonInv, [Next]_vars, Timely',
           NEW s \in Sampler \ (late' \cup {sys_timer_id'})
    PROVE  /\ sampler'[s].pc # "read"
           /\ sampler'[s].pc = "measure" => sampler'[s].now <= Cut'
           /\ \A i \in Tick : Placed(<<s, i>>)' => i <= Cut'
<1>1. Timely
  BY TimelyBefore
<1>2. /\ Cut \in Nat /\ Cut' \in Nat /\ sys_timer_id \in Sampler /\ ticks \in Nat
      /\ sampler[s].now \in Nat /\ sampler[s].now <= ticks
      /\ sampler \in [Sampler -> Samples]
  BY <1>1, InForce, BoundsNext, SamplerSound, SysFacts DEF InBounds, Sound
<1>3. \A i \in Tick : i \in Nat
  BY Constants
<1>4. CASE StartSystem
  <2>1. /\ Cut' = ticks /\ ticks' = ticks
        /\ sampler'[s].pc = "idle" \/ sampler'[s] = sampler[s]
        /\ sampler'[s].pc # "read"
    BY <1>4, Restarted
  <2>2. Horizon(s)' \in Nat /\ Horizon(s)' <= ticks'
    BY BoundsNext DEF InBounds
  <2>3. \A i \in Tick : Placed(<<s, i>>)' => i <= Horizon(s)'
    BY HorizonNext
  <2>4. \A i \in Tick : Placed(<<s, i>>)' => i <= Cut'
    BY <1>2, <1>3, <2>1, <2>2, <2>3
  <2>. QED  BY <1>2, <2>1, <2>4
<1>5. ASSUME late' = late, sys_timer_id' = sys_timer_id,
             \/ UNCHANGED sysVars
             \/ \E r \in Sampler :
                    Consume \/ SysFire(r) \/ ReadProc(r) \/ ReadProcFails(r) \/ Remember(r)
      PROVE  /\ sampler'[s].pc # "read"
             /\ sampler'[s].pc = "measure" => sampler'[s].now <= Cut'
             /\ \A i \in Tick : Placed(<<s, i>>)' => i <= Cut'
  <2>1. Cut' >= Cut
    BY <1>5, CutRises
  <2>2. /\ sampler[s].pc # "read" /\ s # sys_timer_id
        /\ sampler[s].pc = "measure" => sampler[s].now <= Cut
        /\ \A i \in Tick : Placed(<<s, i>>) => i <= Cut
    BY <1>1, <1>5 DEF OldInv, SamplerAt
  <2>3. sampler'[s] = sampler[s] \/ sampler'[s].pc = "idle"
    <3>1. CASE UNCHANGED sysVars
      BY <3>1 DEF sysVars
    <3>2. ASSUME NEW r \in Sampler,
                 Consume \/ SysFire(r) \/ ReadProc(r) \/ ReadProcFails(r) \/ Remember(r)
          PROVE  sampler'[s] = sampler[s] \/ sampler'[s].pc = "idle"
      <4>1. CASE r # s \/ Consume
        BY <1>2, <3>2, <4>1 DEF Consume, SysFire, ReadProc, ReadProcFails, Remember
      <4>2. CASE r = s /\ ~Consume
        <5>1. Remember(s)
          BY <2>2, <3>2, <4>2 DEF SysFire, ReadProc, ReadProcFails, SamplerAt
        <5>. QED  BY <1>2, <5>1 DEF Remember, Samples
      <4>. QED  BY <4>1, <4>2
    <3>. QED  BY <1>5, <3>1, <3>2
  <2>4. ASSUME NEW i \in Tick, Placed(<<s, i>>)'  PROVE i <= Cut'
    <3>1. CASE Placed(<<s, i>>)
      BY <1>2, <1>3, <2>1, <2>2, <3>1
    <3>2. CASE ~Placed(<<s, i>>)
      <4>1. MeasureUtime(s) /\ i <= sampler[s].now
        BY <2>4, <3>2, PlacedNow
      <4>2. sampler[s].now <= Cut
        BY <2>2, <4>1 DEF MeasureUtime, Remember, SamplerAt
      <4>. QED  BY <1>2, <1>3, <2>1, <4>1, <4>2
    <3>. QED  BY <3>1, <3>2
  <2>5. sampler'[s].pc = "measure" => sampler'[s].now <= Cut'
    BY <1>2, <2>1, <2>2, <2>3
  <2>. QED  BY <2>2, <2>3, <2>4, <2>5
<1>6. ASSUME NEW r \in Sampler,
             Consume \/ SysFire(r) \/ ReadProc(r) \/ ReadProcFails(r) \/ Remember(r)
      PROVE  sys_timer_id' = sys_timer_id
  BY <1>6, Rising
<1>. QED  BY <1>4, <1>5, <1>6, SysSteps DEF sysVars

LEMMA TimeNext ==
    TypeInv /\ TypeInv' /\ OldInv /\ HorizonInv /\ [Next]_vars => OldInv' /\ HorizonInv'
BY HorizonNext, OldNext DEF OldInv, HorizonInv, SamplerAt

-----------------------------------------------------------------------------
(* Where a tick is that the timer in force has seen.                       *)

Config == <<sys_timer_id, _stat, sopt, enabled, _targets, _target>>

\* The steps while the system statistics are started and no reload begins.
ReadStep ==
    /\ UNCHANGED <<pending, run, received>>
    /\ UNCHANGED sampler \/ \E s \in Sampler : SysFire(s) \/ ReadProc(s) \/ ReadProcFails(s)

BeginStep ==
    UNCHANGED <<sampler, pending, received>> /\ (StatStart \/ \E h \in Handler : Fire(h))

MeterStep == \E s \in Sampler : MeasureUtime(s) /\ UNCHANGED <<run, received>>

CarryStep ==
    /\ UNCHANGED sampler
    /\ \E h \in Handler : \/ (PopRecord(h) \/ NoTargets(h)) /\ UNCHANGED received
                          \/ CallStatlog(h) \/ CallOther(h) \/ StatlogForwards(h)

LEMMA SettledSteps ==
    ASSUME TypeInv, [Next]_vars, Settled'
    PROVE  \/ StartSystem
           \/ /\ Settled /\ UNCHANGED Config
              /\ ReadStep \/ BeginStep \/ MeterStep \/ CarryStep
<1>. USE DEF Config
<1>1. CASE UNCHANGED vars
  BY <1>1 DEF vars, sysVars, statVars, collectors, logVars, logSettings, coreVars, Settled,
              ReadStep
<1>2. CASE Sys(Consume) \/ Stat(StartupIgnored)
  BY <1>2 DEF Sys, Stat, Consume, StartupIgnored, sysVars, statVars, collectors, logVars,
              logSettings, coreVars, Settled, ReadStep
<1>3. ASSUME NEW s \in Sampler, Sys(SysFire(s)) \/ Sys(ReadProc(s)) \/ Sys(ReadProcFails(s))
      PROVE  Settled /\ UNCHANGED Config /\ ReadStep
  BY <1>3 DEF Sys, SysFire, ReadProc, ReadProcFails, statVars, collectors, logVars,
              logSettings, coreVars, Settled, ReadStep
<1>4. ASSUME NEW s \in Sampler, MeasureUtime(s)
      PROVE  Settled /\ UNCHANGED Config /\ MeterStep
  <2>1. UNCHANGED <<main, todo, run, received, sys_timer_id, _target>>
    BY <1>4 DEF MeasureUtime, Remember, Measure, statVars, logVars, logSettings, coreVars
  <2>2. UNCHANGED <<_stat, sopt, enabled, _targets>>
    BY <1>4 DEF MeasureUtime, Measure, statVars, collectors
  <2>. QED  BY <1>4, <2>1, <2>2 DEF Settled, MeterStep
<1>5. ASSUME NEW h \in Handler, Stat(Fire(h)) \/ Stat(StatStep(h)) \/ CallStatlog(h)
      PROVE  Settled /\ UNCHANGED Config /\ (BeginStep \/ CarryStep)
  <2>1. CASE Stat(Fire(h))
    BY <2>1 DEF Stat, Fire, sysVars, collectors, logVars, logSettings, coreVars, Settled,
                BeginStep
  <2>2. CASE Stat(StatStep(h))
    BY <2>2 DEF Stat, StatStep, PopRecord, NoTargets, TargetReturns, sysVars, collectors,
                logVars, logSettings, coreVars, Settled, CarryStep
  <2>3. CASE CallStatlog(h)
    BY <2>3 DEF CallStatlog, CallTarget, Push, sysVars, collectors, logSettings, coreVars,
                Settled, CarryStep
  <2>. QED  BY <1>5, <2>1, <2>2, <2>3
<1>6. ASSUME NEW h \in Handler, CallOther(h) \/ StatlogForwards(h)
      PROVE  Settled /\ UNCHANGED Config /\ CarryStep
  <2>1. UNCHANGED <<sysVars, sopt, _stat, enabled, _targets, logSettings, coreVars>>
    BY <1>6 DEF CallOther, StatlogForwards, TargetReturns, Forward, collectors, logVars
  <2>. QED  BY <1>6, <2>1 DEF sysVars, logSettings, coreVars, Settled, CarryStep
<1>7. ASSUME NEW p, LogStep(p)  PROVE Settled /\ UNCHANGED Config /\ ReadStep
  BY <1>7 DEF LogStep, LookSuspended, WriteLegend, WriteRow, Forward, sysVars, statVars,
              collectors, logSettings, coreVars, Settled, ReadStep
<1>8. ASSUME NEW c \in Client, ClientPushes(c)
      PROVE  Settled /\ UNCHANGED Config /\ ReadStep
  BY <1>8 DEF ClientPushes, Push, sysVars, statVars, collectors, logSettings, coreVars,
              Settled, ReadStep
<1>9. ASSUME NEW stat \in StatOptions, NEW log \in LogOptions, Reload(stat, log)
      PROVE  FALSE
  BY <1>9 DEF Reload, Settled
<1>0. CASE ConfigureStatlog
  BY <1>0 DEF ConfigureStatlog, LogLock, LogConfigured, sysVars, statVars, collectors,
              coreVars, Settled, ReadStep
<1>10. CASE StopSystem \/ InitializeStatistics \/ InitializeStatlog
  BY <1>10 DEF StopSystem, InitializeStatistics, InitializeStatlog, Settled
<1>11. CASE StartStatistics
  <2>1. /\ main = "start" /\ todo' = todo \ {"statistics"}
        /\ main' = IF todo' = {} THEN "run" ELSE "start"
    BY <1>11 DEF StartStatistics, Starting
  <2>2. Settled
    BY <2>1 DEF Settled
  <2>3. UNCHANGED Config /\ BeginStep
    BY <1>11 DEF StartStatistics, Starting, StatStart, sysVars, collectors, logVars,
                 logSettings, BeginStep
  <2>. QED  BY <2>2, <2>3
<1>12. ASSUME NEW h \in Handler, HandlerStep(h)
       PROVE  Settled /\ UNCHANGED Config /\ (ReadStep \/ BeginStep \/ CarryStep)
  BY <1>5, <1>6, <1>7, <1>12 DEF HandlerStep
<1>. QED
  BY <1>0, <1>1, <1>2, <1>3, <1>4, <1>5, <1>7, <1>8, <1>9, <1>10, <1>11, <1>12
  DEF Next, SamplerStep, ReloadStep

\* What has been measured since is what is seen more.
LEMMA SeenRead ==
    ASSUME TypeInv, Timely, UNCHANGED sys_timer_id,
           \/ UNCHANGED sampler
           \/ \E s \in Sampler : SysFire(s) \/ ReadProc(s) \/ ReadProcFails(s)
    PROVE  Timer'.st = Timer.st /\ Seen' = Seen
<1>1. sampler \in [Sampler -> Samples] /\ sys_timer_id \in Sampler
  BY SysFacts, InForce
<1>2. /\ Timer'.st = Timer.st /\ Timer'.base = Timer.base /\ Timer'.utime = Timer.utime
  <2>1. CASE UNCHANGED sampler
    BY <2>1 DEF Timer
  <2>2. ASSUME NEW s \in Sampler, SysFire(s) \/ ReadProc(s) \/ ReadProcFails(s)
        PROVE  /\ Timer'.st = Timer.st /\ Timer'.base = Timer.base
               /\ Timer'.utime = Timer.utime
    BY <1>1, <2>2 DEF SysFire, ReadProc, ReadProcFails, Timer, Samples
  <2>. QED  BY <2>1, <2>2
<1>3. Seen = Timer.base + 1..Timer.utime /\ Seen' = Timer'.base + 1..Timer'.utime
  BY <1>1, Constants DEF Seen, Timer
<1>. QED  BY <1>2, <1>3

LEMMA SeenMeasured ==
    ASSUME TypeInv, Timely, NEW s \in Sampler, MeasureUtime(s), NEW i \in Seen'
    PROVE  /\ Timer'.st = Timer.st
           /\ i \in Seen \/ (s = sys_timer_id /\ <<s, i>> \in Difference(s))
<1>1. Remember(s) /\ sys_timer_id \in Sampler /\ sampler \in [Sampler -> Samples]
  BY SysFacts, InForce DEF MeasureUtime
<1>2. sys_timer_id' = sys_timer_id /\ Timer'.st = Timer.st
  BY <1>1 DEF Remember, Timer, Samples
<1>3. Seen = Timer.base + 1..Timer.utime /\ Seen' = Timer'.base + 1..Timer'.utime
  BY <1>1, <1>2, Constants DEF Seen, Timer
<1>4. /\ Timer.now \in Nat /\ Timer.utime \in Nat /\ Timer.base \in Nat
      /\ Timer.base <= Timer.utime /\ Timer.utime <= Timer.now
      /\ (Timer.base = 0 <=> Timer.utime = 0)
  BY <1>1, SamplerSound DEF Timer, Sound
<1>5. CASE s # sys_timer_id
  <2>1. Timer' = Timer
    BY <1>1, <1>2, <1>5 DEF Remember, Timer
  <2>. QED  BY <1>2, <1>3, <2>1
<1>6. CASE s = sys_timer_id
  <2>1. /\ Timer'.base = IF Timer.base = 0 THEN Timer.now ELSE Timer.base
        /\ Timer'.utime = Timer.now
    <3>1. sampler'[s].base = IF sampler[s].base = 0 THEN sampler[s].now
                                                   ELSE sampler[s].base
      BY <1>1 DEF Remember, Samples
    <3>2. sampler'[s].utime = sampler[s].now
      BY <1>1 DEF Remember, Samples
    <3>. QED  BY <1>2, <1>6, <3>1, <3>2, Zenon DEF Timer
  <2>2. Timer.utime # 0 => Difference(s) = {s} \X (Timer.utime + 1..Timer.now)
    BY <1>6 DEF Difference, Timer
  <2>3. Timer.utime # 0 /\ i \in Timer.base + 1..Timer.now /\ i \in Nat
    BY <1>3, <1>4, <2>1
  <2>4. CASE i <= Timer.utime
    BY <1>2, <1>3, <1>4, <2>3, <2>4
  <2>5. CASE i > Timer.utime
    <3>1. i \in Timer.utime + 1..Timer.now
      BY <1>4, <2>3, <2>5
    <3>. QED  BY <1>2, <1>6, <2>2, <2>3, <3>1
  <2>. QED  BY <1>4, <2>3, <2>4, <2>5
<1>. QED  BY <1>5, <1>6

\* A step that leaves the records where they are.
LEMMA Undisturbed ==
    ASSUME TypeInv, NEW x \in Mark, OnePlace(x),
           UNCHANGED <<_stat, _targets, _target, pending, received>>,
           \A h \in Handler : \/ run'[h] = run[h]
                              \/ run[h].hand = {} /\ run'[h].hand = {}
    PROVE  OnePlace(x)' /\ (Somewhere(x) => Somewhere(x)')
<1>1. \A h \in Handler : x \in run'[h].hand => run'[h] = run[h]
  OBVIOUS
<1>2. \A h \in Handler : x \in run[h].hand => run'[h] = run[h]
  OBVIOUS
<1>3. OnePlace(x)'
  <2>1. ASSUME NEW c \in 1..Collectors, NEW record \in pending[c], x \in record
        PROVE  /\ \A h \in Handler : x \notin run'[h].hand
               /\ \A t \in Sinks : received[t][x] = 0
               /\ \A d \in 1..Collectors : \A r \in pending[d] :
                     x \in r => d = c /\ r = record
    BY <1>1, <2>1 DEF OnePlace
  <2>2. ASSUME NEW h \in Handler, x \in run'[h].hand
        PROVE  /\ InTurn(h)'
               /\ \A g \in Handler : x \in run'[g].hand => g = h
               /\ \A j \in DOMAIN _targets :
                     Open(h, j)' => received[Sink(_targets[j])][x] = 0
    <3>1. run'[h] = run[h] /\ InTurn(h) /\ (\A j : Open(h, j)' <=> Open(h, j))
      BY <1>1, <2>2 DEF OnePlace, Open
    <3>2. InTurn(h)'
      BY <3>1 DEF InTurn, RunAt
    <3>. QED  BY <1>1, <2>2, <3>1, <3>2 DEF OnePlace
  <2>. QED  BY <2>1, <2>2 DEF OnePlace, Sink
<1>4. ASSUME Somewhere(x)  PROVE Somewhere(x)'
  <2>1. \A j : Got(x, j)' <=> Got(x, j)
    BY DEF Got, Sink
  <2>2. \A h \in Handler : x \in run[h].hand => \A j : Open(h, j)' <=> Open(h, j)
    BY <1>2 DEF Open
  <2>. QED  BY <1>2, <1>4, <2>1, <2>2 DEF Somewhere
<1>. QED  BY <1>3, <1>4

\* A handler without a record begins.
LEMMA Begun ==
    ASSUME TypeInv, BeginStep
    PROVE  \A h \in Handler : \/ run'[h] = run[h]
                              \/ run[h].hand = {} /\ run'[h].hand = {}
<1>1. run \in [Handler -> Runs]
  BY StatFacts
<1>2. \A h \in Handler : RunAt(h, "idle") => run[h].hand = {}
  BY RunFacts DEF Orderly, RunAt
<1>3. PICK h \in Handler : \E r : /\ RunAt(h, "idle") /\ run' = [run EXCEPT ![h] = r]
                                  /\ r.hand = run[h].hand
  <2>1. CASE StatStart
    <3>1. PICK h \in Handler : /\ RunAt(h, "idle")
                               /\ run' = [run EXCEPT ![h] = [run[h] EXCEPT !.st = Bound]]
      BY <2>1 DEF StatStart
    <3>2. [run[h] EXCEPT !.st = Bound].hand = run[h].hand
      BY <1>1 DEF Runs
    <3>. QED  BY <3>1, <3>2
  <2>2. ASSUME NEW h \in Handler, Fire(h)
        PROVE  \E r : /\ RunAt(h, "idle") /\ run' = [run EXCEPT ![h] = r]
                      /\ r.hand = run[h].hand
    <3>1. RunAt(h, "idle") /\ run' = [run EXCEPT ![h] = [run[h] EXCEPT !.pc = "pop"]]
      BY <2>2 DEF Fire
    <3>2. [run[h] EXCEPT !.pc = "pop"].hand = run[h].hand
      BY <1>1 DEF Runs
    <3>. QED  BY <3>1, <3>2
  <2>. QED  BY <2>1, <2>2 DEF BeginStep
<1>4. PICK r : /\ RunAt(h, "idle") /\ run' = [run EXCEPT ![h] = r] /\ r.hand = run[h].hand
  BY <1>3
<1>. QED  BY <1>1, <1>2, <1>4

\* A record comes into the collector.
LEMMA Metered ==
    ASSUME TypeInv, UNCHANGED Config, NEW s \in Sampler, MeasureUtime(s),
           UNCHANGED <<run, received>>, NEW x \in Mark,
           \/ OnePlace(x) /\ x \notin Difference(s)
           \/ x \in Difference(s) /\ ~Placed(x)
    PROVE  /\ OnePlace(x)'
           /\ x \notin Difference(s) /\ Somewhere(x) => Somewhere(x)'
           /\ x \in Difference(s) /\ ~sopt.suspended /\ sampler[s].st = _stat
                 => Somewhere(x)'
<1>. DEFINE D == Difference(s)
            k == sampler[s].st
<1>1. /\ pending \in [1..Collectors -> SUBSET Record] /\ k \in 1..Collectors
      /\ received \in [Sinks -> [Mark -> Nat]] /\ _stat \in 1..Collectors
      /\ (~sopt.suspended => _stat \in enabled)
  <2>1. k \in 1.._stat /\ _stat \in 1..Collectors
    BY SamplerSound, StatFacts DEF Sound
  <2>2. k \in 1..Collectors
    BY <2>1, Constants
  <2>. QED  BY <2>1, <2>2, StatFacts DEF TypeInv
<1>2. /\ UNCHANGED <<_stat, sopt, _targets, _target, run, received>>
      /\ \/ pending' = pending /\ (D = {} \/ k \notin enabled)
         \/ pending' = [pending EXCEPT ![k] = pending[k] \cup {D}]
  BY DEF Config, MeasureUtime, Measure, statVars, collectors
<1>3. \A j : Got(x, j)' <=> Got(x, j)
  BY <1>2 DEF Got, Sink
<1>4. /\ \A h \in Handler : \A j : Open(h, j)' <=> Open(h, j)
      /\ \A h \in Handler : InTurn(h)' <=> InTurn(h)
  BY <1>2 DEF Open, InTurn, RunAt
<1>5. ASSUME NEW c \in 1..Collectors, NEW record \in pending'[c]
      PROVE  record \in pending[c] \/ (c = k /\ record = D)
  <2>. HIDE DEF D, k
  <2>1. CASE pending' = pending
    BY <1>5, <2>1
  <2>2. CASE pending' = [pending EXCEPT ![k] = pending[k] \cup {D}]
    BY <1>1, <1>5, <2>2
  <2>. QED  BY <1>2, <2>1, <2>2
<1>. HIDE DEF D, k
<1>6. CASE OnePlace(x) /\ x \notin D
  <2>1. OnePlace(x)'
    BY <1>2, <1>4, <1>5, <1>6 DEF OnePlace, Sink
  <2>2. \A c \in 1..Collectors : pending[c] \subseteq pending'[c]
    BY <1>1, <1>2
  <2>3. ASSUME Somewhere(x)  PROVE Somewhere(x)'
    BY <1>1, <1>2, <1>3, <1>4, <2>2, <2>3 DEF Somewhere
  <2>. QED  BY <1>6, <2>1, <2>3 DEF D
<1>7. CASE x \in D /\ ~Placed(x)
  <2>1. /\ \A c \in 1..Collectors : \A record \in pending[c] : x \notin record
        /\ \A h \in Handler : x \notin run[h].hand
        /\ \A t \in Sinks : received[t][x] = 0
    BY <1>1, <1>7 DEF Placed
  <2>2. OnePlace(x)'
    <3>1. ASSUME NEW c \in 1..Collectors, NEW record \in pending'[c], x \in record
          PROVE  c = k /\ record = D
      BY <1>5, <1>7, <2>1, <3>1
    <3>2. \A t \in Sinks : received[t][x] <= 1
      BY <2>1
    <3>. QED  BY <1>2, <2>1, <3>1, <3>2 DEF OnePlace
  <2>3. ASSUME ~sopt.suspended, k = _stat  PROVE Somewhere(x)'
    <3>1. D \in pending'[_stat]
      BY <1>1, <1>2, <1>7, <2>3
    <3>. QED  BY <1>2, <1>7, <3>1 DEF Somewhere
  <2>. QED  BY <1>7, <2>2, <2>3 DEF D, k
<1>. QED  BY <1>6, <1>7 DEF D, k

\* A handler takes a record out of the collector.
LEMMA Popped ==
    ASSUME TypeInv, UNCHANGED Config, NEW h \in Handler, PopRecord(h), UNCHANGED received,
           NEW x \in Mark, OnePlace(x)
    PROVE  OnePlace(x)' /\ (Somewhere(x) => Somewhere(x)')
<1>1. /\ pending \in [1..Collectors -> SUBSET Record] /\ run \in [Handler -> Runs]
      /\ run[h] \in Runs /\ run[h].st \in 1..Collectors /\ run[h].hand = {}
      /\ _stat \in 1..Collectors
  BY StatFacts, RunFacts DEF PopRecord, RunAt, Orderly
<1>2. UNCHANGED <<_stat, _targets, _target, received>>
  BY DEF Config
<1>3. \A j : Got(x, j)' <=> Got(x, j)
  BY <1>2 DEF Got, Sink
<1>4. CASE pending[run[h].st] = {}
  <2>1. run' = [run EXCEPT ![h] = [run[h] EXCEPT !.pc = "idle"]] /\ pending' = pending
    BY <1>4 DEF PopRecord
  <2>2. [run[h] EXCEPT !.pc = "idle"].hand = {}
    BY <1>1 DEF Runs
  <2>3. \A g \in Handler : run'[g] = run[g] \/ (run[g].hand = {} /\ run'[g].hand = {})
    BY <1>1, <2>1, <2>2
  <2>. QED  BY <1>2, <2>1, <2>3, Undisturbed
<1>5. CASE pending[run[h].st] # {}
  <2>1. PICK record \in pending[run[h].st] :
           /\ pending' = [pending EXCEPT ![run[h].st] = pending[run[h].st] \ {record}]
           /\ run' = IF _targets = <<>> THEN run
                     ELSE [run EXCEPT ![h].pc = "send", ![h].hand = record, ![h].index = 2]
    BY <1>5 DEF PopRecord, Kept
  <2>2. \A c \in 1..Collectors : /\ pending'[c] \subseteq pending[c]
                                 /\ pending[c] \subseteq pending'[c] \cup {record}
                                 /\ (record \in pending'[c] => c # run[h].st)
    BY <1>1, <2>1
  <2>3. CASE _targets = <<>>
    <3>1. run' = run /\ DOMAIN _targets = {}
      BY <2>1, <2>3
    <3>2. OnePlace(x)'
      BY <1>2, <2>2, <3>1 DEF OnePlace, InTurn, RunAt
    <3>3. Somewhere(x)'
      BY <1>2, <3>1 DEF Somewhere
    <3>. QED  BY <3>2, <3>3
  <2>4. CASE _targets # <<>>
    <3>1. /\ \A g \in Handler \ {h} : run'[g] = run[g]
          /\ run'[h].hand = record /\ run'[h].pc = "send" /\ run'[h].index = 2
      <4>. DEFINE r == [run[h] EXCEPT !.pc = "send", !.hand = record, !.index = 2]
      <4>1. run' = [run EXCEPT ![h] = r]
        BY <2>1, <2>4
      <4>2. r.hand = record /\ r.pc = "send" /\ r.index = 2
        BY <1>1 DEF Runs
      <4>. HIDE DEF r
      <4>. QED  BY <1>1, <4>1, <4>2
    <3>2. \A g \in Handler \ {h} : /\ \A j : Open(g, j)' <=> Open(g, j)
                                   /\ InTurn(g)' <=> InTurn(g)
      BY <1>2, <3>1 DEF Open, InTurn, RunAt
    <3>3. CASE x \notin record
      <4>1. OnePlace(x)'
        BY <1>1, <1>2, <2>2, <3>1, <3>2, <3>3 DEF OnePlace
      <4>2. ASSUME Somewhere(x)  PROVE Somewhere(x)'
        BY <1>1, <1>2, <1>3, <2>2, <3>1, <3>2, <3>3, <4>2 DEF Somewhere
      <4>. QED  BY <4>1, <4>2
    <3>4. CASE x \in record
      <4>1. /\ \A g \in Handler : x \notin run[g].hand
            /\ \A t \in Sinks : received[t][x] = 0
            /\ \A d \in 1..Collectors : \A r \in pending[d] :
                  x \in r => d = run[h].st /\ r = record
        BY <1>1, <3>4 DEF OnePlace
      <4>2. \A c \in 1..Collectors : \A r \in pending'[c] : x \notin r
        BY <1>1, <2>2, <3>4, <4>1 DEF OnePlace
      <4>3. InTurn(h)'
        BY <3>1 DEF InTurn, RunAt
      <4>4. /\ \A g \in Handler : x \in run'[g].hand => g = h
            /\ \A t \in Sinks : received'[t][x] <= 1
            /\ \A j \in DOMAIN _targets : Sink(_targets[j]) \in Sinks
        <5>1. _targets \in Seq(Target)
          BY StatFacts, ListTypes
        <5>. QED  BY <1>2, <3>1, <4>1, <5>1, Constants DEF Sink, Sinks
      <4>5. OnePlace(x)'
        BY <1>2, <4>1, <4>2, <4>3, <4>4 DEF OnePlace, Sink
      <4>6. \A j \in DOMAIN _targets : Open(h, j)'
        <5>1. _targets \in Seq(Target)
          BY StatFacts, ListTypes
        <5>. QED  BY <3>1, <5>1 DEF Open
      <4>7. Somewhere(x)'
        BY <1>2, <3>1, <3>4, <4>6 DEF Somewhere
      <4>. QED  BY <4>5, <4>7
    <3>. QED  BY <3>3, <3>4
  <2>. QED  BY <2>3, <2>4
<1>. QED  BY <1>4, <1>5

\* Statlog is called in its turn, with the record still in hand.
LEMMA Called ==
    ASSUME TypeInv, UNCHANGED Config, NEW h \in Handler, CallStatlog(h),
           NEW x \in Mark, OnePlace(x)
    PROVE  OnePlace(x)' /\ (Somewhere(x) => Somewhere(x)')
<1>1. run \in [Handler -> Runs] /\ run[h] \in Runs /\ run[h].index \in Nat \ {0, 1}
  BY StatFacts, RunFacts
<1>2. UNCHANGED <<_stat, _targets, _target, pending, received>>
  BY DEF Config, CallStatlog, CallTarget, collectors
<1>3. PICK where : /\ where = IF Others(h) THEN "call" ELSE "call first"
                   /\ run' = [run EXCEPT ![h] = [run[h] EXCEPT !.pc = where]]
  BY DEF CallStatlog, CallTarget
<1>4. /\ \A g \in Handler : run'[g].hand = run[g].hand /\ run'[g].index = run[g].index
      /\ \A g \in Handler \ {h} : run'[g].pc = run[g].pc
      /\ run'[h].pc = where
  <2>. DEFINE r == [run[h] EXCEPT !.pc = where]
  <2>1. r.hand = run[h].hand /\ r.index = run[h].index /\ r.pc = where
    BY <1>1 DEF Runs
  <2>. HIDE DEF r
  <2>2. run'[h] = r /\ \A g \in Handler \ {h} : run'[g] = run[g]
    BY <1>1, <1>3 DEF r
  <2>. QED  BY <2>1, <2>2
<1>5. _targets # <<>> /\ _targets[IF Others(h) THEN run[h].index ELSE 1] = "statlog"
  BY Constants DEF CallStatlog, NextTarget
<1>6. InTurn(h)'
  <2>1. _targets \in Seq(Target)
    BY StatFacts, ListTypes
  <2>2. CASE Others(h)
    <3>1. run[h].index \in DOMAIN _targets
      BY <1>1, <2>1, <2>2 DEF Others
    <3>2. run'[h].pc = "call" /\ _targets[run[h].index] = "statlog"
      BY <1>3, <1>4, <1>5, <2>2
    <3>. QED  BY <1>2, <1>4, <3>1, <3>2 DEF InTurn, RunAt
  <2>3. CASE ~Others(h)
    <3>1. run[h].index > Len(_targets)
      BY <1>1, <2>1, <2>3 DEF Others
    <3>2. run'[h].pc = "call first" /\ _targets[1] = "statlog"
      BY <1>3, <1>4, <1>5, <2>3
    <3>. QED  BY <1>2, <1>4, <1>5, <3>1, <3>2 DEF InTurn, RunAt
  <2>. QED  BY <2>2, <2>3
<1>7. /\ \A g \in Handler : \A j : Open(g, j)' <=> Open(g, j)
      /\ \A g \in Handler \ {h} : InTurn(g)' <=> InTurn(g)
      /\ \A j : Got(x, j)' <=> Got(x, j)
  BY <1>2, <1>4 DEF Open, InTurn, RunAt, Got, Sink
<1>8. OnePlace(x)'
  BY <1>2, <1>4, <1>6, <1>7 DEF OnePlace, Sink
<1>9. Somewhere(x) => Somewhere(x)'
  BY <1>2, <1>4, <1>7 DEF Somewhere
<1>. QED  BY <1>8, <1>9

\* The target whose turn it is, of the record in hand.
Turn(h) == IF Onward(h) THEN run[h].index ELSE 1

LEMMA Turns ==
    ASSUME TypeInv, NEW h \in Handler, CallOther(h) \/ StatlogForwards(h), InTurn(h)
    PROVE  /\ Turn(h) \in DOMAIN _targets /\ Open(h, Turn(h))
           /\ ~Onward(h) => run[h].index > Len(_targets)
           /\ _targets[Turn(h)] = IF CallOther(h) THEN "other" ELSE "statlog"
           /\ ~(CallOther(h) /\ StatlogForwards(h))
<1>1. run[h].index \in Nat \ {0, 1} /\ _targets \in Seq(Target)
  BY RunFacts, StatFacts, ListTypes
<1>2. CASE CallOther(h)
  <2>1. /\ RunAt(h, "send") /\ _targets # <<>>
        /\ _targets[IF Others(h) THEN run[h].index ELSE 1] = "other"
    BY <1>2, Constants DEF CallOther, NextTarget
  <2>2. ~RunAt(h, "call") /\ ~RunAt(h, "call first") /\ (Onward(h) <=> Others(h))
    BY <2>1 DEF RunAt, Onward
  <2>3. ~StatlogForwards(h)
    <3>1. PushAt(h, "idle")
      BY <2>2 DEF TypeInv, CallInv
    <3>. QED  BY <3>1 DEF StatlogForwards, Forward, PushAt
  <2>4. Others(h) <=> run[h].index <= Len(_targets)
    BY DEF Others
  <2>5. Turn(h) = IF Others(h) THEN run[h].index ELSE 1
    BY <2>2 DEF Turn
  <2>6. Turn(h) \in DOMAIN _targets /\ (Others(h) \/ Turn(h) = 1)
        /\ (Others(h) => Turn(h) = run[h].index)
        /\ (~Others(h) => run[h].index > Len(_targets))
    BY <1>1, <2>1, <2>4, <2>5
  <2>7. Open(h, Turn(h))
    BY <1>1, <2>6 DEF Open
  <2>. QED  BY <1>2, <2>1, <2>2, <2>3, <2>5, <2>6, <2>7
<1>3. CASE StatlogForwards(h)
  <2>1. RunAt(h, "call") \/ RunAt(h, "call first")
    <3>1. ~PushAt(h, "idle")
      BY <1>3 DEF StatlogForwards, Forward, PushAt
    <3>. QED  BY <3>1 DEF TypeInv, CallInv
  <2>2. ~CallOther(h)
    BY <2>1, Constants DEF CallOther, NextTarget, RunAt
  <2>3. CASE RunAt(h, "call")
    <3>1. Onward(h)
      BY <2>3 DEF Onward
    <3>2. run[h].index \in DOMAIN _targets /\ _targets[run[h].index] = "statlog"
      BY <2>3 DEF InTurn
    <3>. QED  BY <1>1, <1>3, <2>2, <3>1, <3>2 DEF Turn, Open
  <2>4. CASE RunAt(h, "call first")
    <3>1. ~Onward(h)
      BY <2>4 DEF Onward, RunAt
    <3>2. /\ run[h].index > Len(_targets)
          /\ _targets # <<>> /\ _targets[1] = "statlog"
      BY <2>4 DEF InTurn
    <3>. QED  BY <1>1, <1>3, <2>2, <3>1, <3>2 DEF Turn, Open
  <2>. QED  BY <2>1, <2>3, <2>4
<1>. QED  BY <1>2, <1>3

\* It gets the ticks of the record, and nobody else gets anything.
LEMMA Tells ==
    ASSUME TypeInv, NEW h \in Handler, CallOther(h) \/ StatlogForwards(h), InTurn(h),
           NEW x \in Mark, NEW t \in Sinks
    PROVE  received'[t][x] =
              IF /\ x \in run[h].hand /\ t = Sink(_targets[Turn(h)])
                 /\ ~(_targets[Turn(h)] = "statlog" /\ ~_target)
                THEN received[t][x] + 1 ELSE received[t][x]
<1>1. /\ _targets[Turn(h)] = IF CallOther(h) THEN "other" ELSE "statlog"
      /\ ~(CallOther(h) /\ StatlogForwards(h))
  BY Turns
<1>2. received \in [Sinks -> [Mark -> Nat]]
  BY DEF TypeInv
<1>3. ASSUME NEW d \in Sinks, Deliver(d, run[h].hand)
      PROVE  received'[t][x] = IF x \in run[h].hand /\ t = d THEN received[t][x] + 1
                                                            ELSE received[t][x]
  <2>. DEFINE f == [k \in Mark |-> IF k \in run[h].hand THEN received[d][k] + 1
                                                        ELSE received[d][k]]
  <2>1. received' = [received EXCEPT ![d] = f]
    BY <1>3 DEF Deliver, Mark
  <2>2. f[x] = IF x \in run[h].hand THEN received[d][x] + 1 ELSE received[d][x]
    OBVIOUS
  <2>. HIDE DEF f
  <2>3. received'[t] = IF t = d THEN f ELSE received[t]
    BY <1>2, <2>1
  <2>. QED  BY <2>2, <2>3
<1>4. CASE CallOther(h)
  <2>1. Deliver("other", run[h].hand) /\ "other" \in Sinks
    BY <1>4 DEF CallOther, Sinks
  <2>2. Sink(_targets[Turn(h)]) = "other" /\ _targets[Turn(h)] # "statlog"
    BY <1>1, <1>4 DEF Sink
  <2>. QED  BY <1>3, <2>1, <2>2
<1>5. CASE StatlogForwards(h)
  <2>1. /\ Sink(_targets[Turn(h)]) = "sink" /\ _targets[Turn(h)] = "statlog"
        /\ "sink" \in Sinks
    BY <1>1, <1>5 DEF Sink, Sinks
  <2>2. CASE _target
    <3>1. Deliver("sink", run[h].hand)
      BY <1>5, <2>2 DEF StatlogForwards
    <3>. QED  BY <1>3, <2>1, <2>2, <3>1
  <2>3. CASE ~_target
    <3>1. received' = received
      BY <1>5, <2>3 DEF StatlogForwards
    <3>. QED  BY <2>1, <2>3, <3>1
  <2>. QED  BY <2>2, <2>3
<1>. QED  BY <1>4, <1>5

\* A target is told, and the handler goes on.
LEMMA Passed ==
    ASSUME TypeInv, UNCHANGED Config, NEW h \in Handler, CallOther(h) \/ StatlogForwards(h),
           NEW x \in Mark, OnePlace(x)
    PROVE  OnePlace(x)' /\ (Somewhere(x) => Somewhere(x)')
<1>1. PICK at : at = Turn(h)
  OBVIOUS
<1>2. /\ run[h].index \in Nat \ {0, 1} /\ _targets \in Seq(Target) /\ IsInjective(_targets)
      /\ received \in [Sinks -> [Mark -> Nat]] /\ _stat \in 1..Collectors
  BY RunFacts, StatFacts, ListTypes DEF TypeInv
<1>3. TargetReturns(h) /\ UNCHANGED <<_stat, _targets, _target, pending>>
  BY DEF Config, CallOther, StatlogForwards, TargetReturns, collectors
<1>4. \A g \in Handler \ {h} : run'[g] = run[g]
  BY <1>3, Returned
<1>5. \A g \in Handler \ {h} : /\ \A j : Open(g, j)' <=> Open(g, j)
                               /\ InTurn(g)' <=> InTurn(g)
  BY <1>3, <1>4 DEF Open, InTurn, RunAt
<1>6. \A j \in DOMAIN _targets : Sink(_targets[j]) \in Sinks
  BY <1>2, Constants DEF Sink, Sinks
<1>7. CASE x \notin run[h].hand
  <2>1. \A t \in Sinks : received'[t][x] = received[t][x]
    BY <1>7, Telling
  <2>2. x \notin run'[h].hand
    BY <1>3, <1>7, Returned
  <2>3. OnePlace(x)'
    BY <1>3, <1>4, <1>5, <1>6, <2>1, <2>2 DEF OnePlace, Sink
  <2>4. \A j \in DOMAIN _targets : Got(x, j)' <=> Got(x, j)
    BY <1>3, <1>6, <2>1 DEF Got, Sink
  <2>5. Somewhere(x) => Somewhere(x)'
    BY <1>3, <1>4, <1>5, <1>7, <2>4 DEF Somewhere
  <2>. QED  BY <2>3, <2>5
<1>8. CASE x \in run[h].hand
  <2>1. /\ InTurn(h) /\ \A g \in Handler : x \in run[g].hand => g = h
        /\ \A j \in DOMAIN _targets : Open(h, j) => received[Sink(_targets[j])][x] = 0
        /\ \A c \in 1..Collectors : \A record \in pending[c] : x \notin record
        /\ \A t \in Sinks : received[t][x] <= 1
    BY <1>8 DEF OnePlace
  <2>2. /\ at \in DOMAIN _targets /\ Open(h, at)
        /\ ~Onward(h) => run[h].index > Len(_targets)
    BY <1>1, <2>1, Turns
  <2>3. ASSUME NEW t \in Sinks
        PROVE  received'[t][x] =
                  IF t = Sink(_targets[at]) /\ ~(_targets[at] = "statlog" /\ ~_target)
                    THEN 1 ELSE received[t][x]
    <3>1. received'[t][x] =
             IF t = Sink(_targets[at]) /\ ~(_targets[at] = "statlog" /\ ~_target)
               THEN received[t][x] + 1 ELSE received[t][x]
      BY <1>1, <1>8, <2>1, Tells
    <3>2. t = Sink(_targets[at]) => received[t][x] = 0
      BY <2>1, <2>2
    <3>. QED  BY <3>1, <3>2
  <2>4. \A t \in Sinks : received'[t][x] <= 1
    BY <2>1, <2>3
  <2>5. \A j \in DOMAIN _targets : j # at => Sink(_targets[j]) # Sink(_targets[at])
    <3>1. \A j \in DOMAIN _targets : j # at => _targets[j] # _targets[at]
      BY <1>2, <2>2 DEF IsInjective
    <3>2. \A j \in DOMAIN _targets : _targets[j] \in {"statlog", "other"}
      BY <1>2, Constants
    <3>. QED  BY <2>2, <3>1, <3>2 DEF Sink
  <2>6. \A j \in DOMAIN _targets : j # at =>
           received'[Sink(_targets[j])][x] = received[Sink(_targets[j])][x]
    BY <1>6, <2>3, <2>5
  <2>7. Got(x, at)' /\ \A j \in DOMAIN _targets : j # at => (Got(x, j)' <=> Got(x, j))
    <3>1. Got(x, at)'
      BY <1>3, <1>6, <2>2, <2>3 DEF Got, Sink
    <3>2. \A j \in DOMAIN _targets : j # at => (Got(x, j)' <=> Got(x, j))
      BY <1>3, <2>6 DEF Got, Sink
    <3>. QED  BY <3>1, <3>2
  <2>8. \A t \in Sinks : received'[t][x] <= 1
    BY <2>4
  <2>9. CASE Onward(h)
    <3>1. /\ run'[h].pc = "send" /\ run'[h].hand = run[h].hand
          /\ run'[h].index = run[h].index + 1
      BY <1>3, <2>9, Returned
    <3>2. InTurn(h)'
      BY <3>1 DEF InTurn, RunAt
    <3>3. at = run[h].index
      BY <1>1, <2>9 DEF Turn
    <3>4. \A j \in DOMAIN _targets : Open(h, j)' <=> Open(h, j) /\ j # at
      BY <1>2, <3>1, <3>3 DEF Open
    <3>5. OnePlace(x)'
      BY <1>3, <1>4, <1>8, <2>1, <2>6, <2>8, <3>1, <3>2, <3>4 DEF OnePlace, Sink
    <3>6. ASSUME Somewhere(x)  PROVE Somewhere(x)'
      <4>1. \A j \in DOMAIN _targets : Open(h, j) \/ Got(x, j)
        BY <1>2, <2>1, <3>6 DEF Somewhere
      <4>2. \A j \in DOMAIN _targets : Open(h, j)' \/ Got(x, j)'
        BY <2>7, <3>4, <4>1
      <4>3. x \in run'[h].hand /\ DOMAIN _targets' = DOMAIN _targets
        BY <1>3, <1>8, <3>1
      <4>. QED  BY <4>2, <4>3 DEF Somewhere
    <3>. QED  BY <3>5, <3>6
  <2>10. CASE ~Onward(h)
    <3>1. run'[h].hand = {}
      BY <1>3, <2>10, Returned
    <3>2. OnePlace(x)'
      BY <1>3, <1>4, <2>1, <2>8, <3>1 DEF OnePlace
    <3>3. ASSUME Somewhere(x)  PROVE Somewhere(x)'
      <4>1. \A j \in DOMAIN _targets : Open(h, j) \/ Got(x, j)
        BY <1>2, <2>1, <3>3 DEF Somewhere
      <4>2. at = 1
        BY <1>1, <2>10 DEF Turn
      <4>3. \A j \in DOMAIN _targets : j # at => ~Open(h, j)
        BY <1>2, <2>2, <2>10, <4>2 DEF Open
      <4>4. \A j \in DOMAIN _targets : Got(x, j)'
        BY <2>7, <4>1, <4>3
      <4>5. DOMAIN _targets' = DOMAIN _targets
        BY <1>3
      <4>. QED  BY <4>4, <4>5 DEF Somewhere
    <3>. QED  BY <3>2, <3>3
  <2>. QED  BY <2>9, <2>10
<1>. QED  BY <1>7, <1>8

\* The list of targets was cleared: there is nobody left to be told.
LEMMA Dropped ==
    ASSUME TypeInv, UNCHANGED Config, NEW h \in Handler, NoTargets(h), UNCHANGED received,
           NEW x \in Mark, OnePlace(x)
    PROVE  OnePlace(x)' /\ (Somewhere(x) => Somewhere(x)')
<1>1. TargetReturns(h) /\ UNCHANGED <<_stat, _targets, _target, pending>>
      /\ _targets = <<>> /\ RunAt(h, "send")
  BY DEF Config, NoTargets, TargetReturns, collectors
<1>2. ~Onward(h)
  <2>1. run[h].index \in Nat \ {0, 1} /\ Len(<<>>) = 0
    BY RunFacts
  <2>2. ~Others(h)
    BY <1>1, <2>1 DEF Others
  <2>. QED  BY <1>1, <2>2 DEF Onward, RunAt
<1>3. run'[h].hand = {} /\ \A g \in Handler \ {h} : run'[g] = run[g]
  BY <1>1, <1>2, Returned
<1>4. \A g \in Handler \ {h} : InTurn(g)' <=> InTurn(g)
  BY <1>1, <1>3 DEF InTurn, RunAt
<1>5. DOMAIN _targets = {} /\ DOMAIN _targets' = {}
  BY <1>1
<1>6. OnePlace(x)'
  BY <1>1, <1>3, <1>4, <1>5 DEF OnePlace
<1>7. Somewhere(x)'
  BY <1>5 DEF Somewhere
<1>. QED  BY <1>6, <1>7

\* The steps that neither measure nor start a timer.
LEMMA Carried ==
    ASSUME TypeInv, UNCHANGED Config, ReadStep \/ BeginStep \/ CarryStep,
           NEW x \in Mark, OnePlace(x)
    PROVE  OnePlace(x)' /\ (Somewhere(x) => Somewhere(x)')
<1>1. UNCHANGED <<_stat, _targets, _target>>
  BY DEF Config
<1>2. CASE ReadStep
  BY <1>1, <1>2, Undisturbed DEF ReadStep
<1>3. CASE BeginStep
  <2>1. UNCHANGED <<pending, received>>
    BY <1>3 DEF BeginStep
  <2>. QED  BY <1>1, <1>3, <2>1, Begun, Undisturbed
<1>4. CASE CarryStep
  <2>1. PICK h \in Handler : \/ (PopRecord(h) \/ NoTargets(h)) /\ UNCHANGED received
                             \/ CallStatlog(h) \/ CallOther(h) \/ StatlogForwards(h)
    BY <1>4 DEF CarryStep
  <2>. QED  BY <2>1, Popped, Dropped, Called, Passed
<1>. QED  BY <1>2, <1>3, <1>4

\* Nothing is in two places that is in none.
LEMMA Nowhere ==
    ASSUME TypeInv, NEW x \in Mark, ~Placed(x), UNCHANGED <<pending, run, received>>
    PROVE  OnePlace(x) /\ OnePlace(x)'
<1>1. /\ \A c \in 1..Collectors : \A record \in pending[c] : x \notin record
      /\ \A h \in Handler : x \notin run[h].hand
      /\ \A t \in Sinks : received[t][x] = 0
  BY DEF Placed
<1>2. \A t \in Sinks : received[t][x] <= 1
  BY <1>1
<1>. QED  BY <1>1, <1>2 DEF OnePlace

LEMMA SeenInit == Init => SeenInv
<1>. SUFFICES ASSUME Init  PROVE SeenInv
  OBVIOUS
<1>1. /\ sys_timer_id \in Sampler /\ \A s \in Sampler : sampler[s] = Fresh(1)
      /\ Timer = Fresh(1) /\ _stat = 1
  BY Constants DEF Init, SysInit, StatInit, Timer
<1>2. Fresh(1).pc = "idle" /\ Fresh(1).st = 1 /\ Fresh(1).base = 0 /\ Fresh(1).utime = 0
  BY DEF Fresh
<1>4. \A x \in Mark : ~Placed(x)
  BY DEF Init, StatInit, Idle, Placed, Sinks, Mark
<1>5. \A s \in Sampler, i \in Tick : <<s, i>> \in Mark
  BY DEF Mark
<1>3. OldInv /\ HorizonInv
  BY <1>1, <1>2, <1>4, <1>5 DEF OldInv, HorizonInv, SamplerAt
<1>6. \A x \in Mark : OnePlace(x)
  <2>1. ASSUME NEW x \in Mark  PROVE OnePlace(x)
    <3>1. /\ \A c \in 1..Collectors : \A record \in pending[c] : x \notin record
          /\ \A h \in Handler : x \notin run[h].hand
          /\ \A t \in Sinks : received[t][x] = 0
      BY <1>4 DEF Placed
    <3>2. \A t \in Sinks : received[t][x] <= 1
      BY <3>1
    <3>. QED  BY <3>1, <3>2 DEF OnePlace
  <2>. QED  BY <2>1
<1>7. Seen = {}
  <2>1. Seen = Timer.base + 1..Timer.utime
    BY <1>1, Constants DEF Seen, Timer
  <2>. QED  BY <1>1, <1>2, <2>1
<1>. QED  BY <1>1, <1>2, <1>3, <1>5, <1>6, <1>7 DEF SeenInv, OnceInv, LostInv

\* What a timer sees is CPU time that the process consumes, after its first reading.
LEMMA SeenTicks ==
    ASSUME TypeInv
    PROVE  \A i \in Seen : i \in Tick /\ i > Cut
<1>1. CASE sys_timer_id = NoSampler
  BY <1>1 DEF Seen
<1>2. CASE sys_timer_id \in Sampler
  <2>1. Seen = Timer.base + 1..Timer.utime
    BY <1>2, Constants DEF Seen, Timer
  <2>2. /\ Timer.base \in Nat /\ Timer.utime \in Nat /\ Timer.now \in Nat /\ ticks \in Nat
        /\ Timer.utime <= Timer.now /\ Timer.now <= ticks /\ ticks <= MaxTicks
        /\ (Timer.base = 0 <=> Timer.utime = 0)
    BY <1>2, SysFacts, SamplerSound, Constants DEF Timer, Sound
  <2>3. Timer.base # 0 => Cut = Timer.base
    BY DEF Cut, First, Timer
  <2>. QED  BY <2>1, <2>2, <2>3, Constants
<1>. QED  BY <1>1, <1>2, SysFacts

LEMMA SeenLater == TypeInv' => \A i \in Seen' : i \in Tick /\ i > Cut'
<1>. DEFINE InTick == \A i \in Seen : i \in Tick /\ i > Cut
<1>1. TypeInv => InTick
  BY SeenTicks
<1>. HIDE DEF InTick
<1>2. TypeInv' => InTick'
  BY <1>1, PTL
<1>. QED  BY <1>2 DEF InTick

LEMMA SeenNext ==
    TypeInv /\ TypeInv' /\ SeenInv /\ [Next]_vars => SeenInv'
<1>. SUFFICES ASSUME TypeInv, TypeInv', SeenInv, [Next]_vars
              PROVE  OnceInv' /\ LostInv'
  BY TimeNext DEF SeenInv
<1>. SUFFICES ASSUME Settled'
              PROVE  /\ Timer'.st = _stat'
                     /\ \A s \in Sampler, i \in Tick : i > Cut' => OnePlace(<<s, i>>)'
                     /\ ~sopt'.suspended =>
                           \A i \in Seen' : Somewhere(<<sys_timer_id, i>>)'
  BY DEF OnceInv, LostInv
<1>1. OldInv /\ HorizonInv
  BY DEF SeenInv
<1>2. \A s \in Sampler, i \in Tick : <<s, i>> \in Mark /\ i \in Nat
  BY Constants DEF Mark
<1>3. Timely /\ Timely'
  <2>1. Timely'
    BY DEF Settled, Timely
  <2>. QED  BY <2>1, TimelyBefore
<1>4. ASSUME NEW s \in Sampler, NEW i \in Tick, i > Horizon(s)  PROVE ~Placed(<<s, i>>)
  <2>1. Horizon(s) \in Nat
    BY Bounds
  <2>. QED  BY <1>1, <1>2, <1>3, <1>4, <2>1 DEF HorizonInv
<1>5. CASE StartSystem
  <2>1. /\ Timer'.base = 0 /\ Timer'.utime = 0 /\ Timer'.st = _stat
        /\ sys_timer_id' \in Sampler /\ Cut' = ticks
    BY <1>5, Restarted
  <2>2. UNCHANGED <<_stat, pending, run, received>>
    BY <1>5 DEF StartSystem, Starting, statVars, collectors
  <2>3. Seen' = {}
    <3>1. Seen' = Timer'.base + 1..Timer'.utime
      BY <2>1, Constants DEF Seen, Timer
    <3>. QED  BY <2>1, <3>1
  <2>4. ASSUME NEW s \in Sampler, NEW i \in Tick, i > Cut'  PROVE OnePlace(<<s, i>>)'
    <3>1. i > Horizon(s)
      <4>1. Horizon(s) \in Nat /\ Horizon(s) <= ticks /\ ticks \in Nat
        BY Bounds
      <4>2. i \in Nat
        BY Constants
      <4>. QED  BY <2>1, <2>4, <4>1, <4>2
    <3>. QED  BY <1>2, <1>4, <2>2, <3>1, Nowhere
  <2>. QED  BY <2>1, <2>2, <2>3, <2>4
<1>6. CASE Settled /\ UNCHANGED Config
  <2>1. /\ Timer.st = _stat
        /\ \A s \in Sampler, i \in Tick : i > Cut => OnePlace(<<s, i>>)
        /\ ~sopt.suspended => \A i \in Seen : Somewhere(<<sys_timer_id, i>>)
    BY <1>6 DEF SeenInv, OnceInv, LostInv
  <2>2. /\ _stat' = _stat /\ sopt' = sopt /\ sys_timer_id' = sys_timer_id
        /\ sys_timer_id \in Sampler
    BY <1>3, <1>6, InForce DEF Config
  <2>3. ASSUME NEW i \in Tick, i > Cut'  PROVE i > Cut
    <3>1. Cut' >= Cut /\ Cut \in Nat /\ Cut' \in Nat
      BY <1>3, <2>2, CutRises, InForce, BoundsNext DEF InBounds
    <3>2. i \in Nat
      BY Constants
    <3>. QED  BY <2>3, <3>1, <3>2
  <2>4. ASSUME NEW i \in Seen'  PROVE i \in Tick /\ i > Cut'
    BY SeenLater
  <2>5. CASE ReadStep \/ BeginStep \/ CarryStep
    <3>1. Timer'.st = Timer.st /\ Seen' = Seen
      BY <1>3, <2>2, <2>5, SeenRead DEF ReadStep, BeginStep, CarryStep
    <3>2. ASSUME NEW s \in Sampler, NEW i \in Tick, i > Cut'
          PROVE  OnePlace(<<s, i>>)' /\ (Somewhere(<<s, i>>) => Somewhere(<<s, i>>)')
      BY <1>2, <1>6, <2>1, <2>3, <2>5, <3>2, Carried
    <3>3. ASSUME ~sopt.suspended, NEW i \in Seen'
          PROVE  Somewhere(<<sys_timer_id, i>>)'
      <4>1. PICK s \in Sampler : s = sys_timer_id
        BY <2>2
      <4>2. Somewhere(<<s, i>>)'
        BY <2>1, <2>4, <3>1, <3>2, <3>3, <4>1
      <4>. QED  BY <2>2, <4>1, <4>2
    <3>. QED  BY <2>1, <2>2, <3>1, <3>2, <3>3
  <2>6. ASSUME NEW r \in Sampler, MeasureUtime(r), UNCHANGED <<run, received>>
        PROVE  /\ Timer'.st = _stat'
               /\ \A s \in Sampler, i \in Tick : i > Cut' => OnePlace(<<s, i>>)'
               /\ ~sopt'.suspended =>
                     \A i \in Seen' : Somewhere(<<sys_timer_id, i>>)'
    <3>1. Timer'.st = Timer.st
      <4>1. Remember(r) /\ sampler \in [Sampler -> Samples]
        BY <2>6, SysFacts DEF MeasureUtime
      <4>. QED  BY <2>2, <4>1 DEF Remember, Timer, Samples
    <3>2. ASSUME NEW s \in Sampler, NEW i \in Tick, i > Cut'
          PROVE  /\ OnePlace(<<s, i>>)'
                 /\ <<s, i>> \notin Difference(r) /\ Somewhere(<<s, i>>)
                       => Somewhere(<<s, i>>)'
                 /\ <<s, i>> \in Difference(r) /\ ~sopt.suspended /\ sampler[r].st = _stat
                       => Somewhere(<<s, i>>)'
      <4>1. PICK x \in Mark : x = <<s, i>>
        BY <1>2
      <4>2. x \in Difference(r) => ~Placed(x)
        <5>1. SUFFICES ASSUME x \in Difference(r)  PROVE ~Placed(x)
          OBVIOUS
        <5>2. PICK k \in Tick : x = <<r, k>> /\ k \in Nat /\ Horizon(r) < k
          BY <2>6, <5>1, Measured
        <5>3. k > Horizon(r)
          BY <5>2, Bounds
        <5>. QED  BY <1>4, <5>2, <5>3
      <4>3. OnePlace(x)
        BY <2>1, <2>3, <3>2, <4>1
      <4>4. /\ OnePlace(x)'
            /\ x \notin Difference(r) /\ Somewhere(x) => Somewhere(x)'
            /\ x \in Difference(r) /\ ~sopt.suspended /\ sampler[r].st = _stat
                  => Somewhere(x)'
        BY <1>6, <2>6, <4>2, <4>3, Metered
      <4>. QED  BY <4>1, <4>4
    <3>3. ASSUME ~sopt.suspended, NEW i \in Seen'
          PROVE  Somewhere(<<sys_timer_id, i>>)'
      <4>1. PICK s \in Sampler : s = sys_timer_id
        BY <2>2
      <4>2. i \in Seen \/ (r = s /\ <<s, i>> \in Difference(r))
        BY <1>3, <2>6, <4>1, SeenMeasured
      <4>3. r = s => sampler[r].st = _stat
        BY <2>1, <4>1 DEF Timer
      <4>4. i \in Seen => Somewhere(<<s, i>>)
        BY <2>1, <3>3, <4>1
      <4>5. <<s, i>> \in Difference(r) => r = s
        BY DEF Difference
      <4>6. Somewhere(<<s, i>>)'
        BY <2>4, <3>2, <3>3, <4>2, <4>3, <4>4, <4>5
      <4>. QED  BY <2>2, <4>1, <4>6
    <3>. QED  BY <2>1, <2>2, <3>1, <3>2, <3>3
  <2>. QED
    BY <1>5, <1>6, <2>5, <2>6, SettledSteps DEF MeterStep
<1>. QED  BY <1>5, <1>6, SettledSteps

\* statistics and system statistics: when no reload is under way, no target has been
\* told twice of the CPU time that the timer in force has seen, in whatever pieces it
\* was measured and in whatever order the threads run; and of the older timers only a
\* run that was about to read when this one was made tells of it too, and once.
THEOREM ToldOnce == Spec => []NoTickTwice
<1>1. TypeInv /\ SeenInv => NoTickTwice
  <2>. SUFFICES ASSUME TypeInv, SeenInv, main = "run",
                       NEW i \in Seen, NEW s \in Sampler, NEW t \in {"other", "sink"}
                PROVE  received[t][<<s, i>>] <= IF s \in late \cup {sys_timer_id} THEN 1 ELSE 0
    BY DEF NoTickTwice
  <2>1. Settled /\ Timely /\ t \in Sinks
    BY DEF Settled, Timely, Sinks
  <2>2. i \in Tick /\ i > Cut /\ Cut \in Nat /\ i \in Nat
    BY <2>1, SeenTicks, InForce, Constants
  <2>3. CASE s \in late \cup {sys_timer_id}
    <3>1. OnePlace(<<s, i>>)
      BY <2>1, <2>2 DEF SeenInv, OnceInv
    <3>. QED  BY <2>1, <2>3, <3>1 DEF OnePlace
  <2>4. CASE s \notin late \cup {sys_timer_id}
    <3>1. ~Placed(<<s, i>>)
      BY <2>1, <2>2, <2>4 DEF SeenInv, OldInv
    <3>2. received[t][<<s, i>>] = 0
      BY <2>1, <3>1 DEF Placed
    <3>. QED  BY <2>4, <3>2
  <2>. QED  BY <2>3, <2>4
<1>. QED  BY <1>1, TypeInit, TypeNext, SeenInit, SeenNext, PTL DEF Spec

\* ... and none of what it has seen is lost: it waits in the collector that is drained,
\* or is on its way, or all targets have it, unless the collector is suspended.
THEOREM NoneLost == Spec => []NoTickLost
<1>1. TypeInv /\ SeenInv => NoTickLost
  <2>. SUFFICES ASSUME TypeInv, SeenInv, main = "run", ~sopt.suspended,
                       NEW i \in Seen
                PROVE  Under(<<sys_timer_id, i>>) \/ Arrived(<<sys_timer_id, i>>)
    BY DEF NoTickLost
  <2>1. PICK x : x = <<sys_timer_id, i>>
    OBVIOUS
  <2>2. Somewhere(x)
    BY <2>1 DEF Settled, SeenInv, LostInv
  <2>3. _targets \in Seq(Target)
    BY StatFacts, ListTypes
  <2>4. DOMAIN _targets = 1..Len(_targets)
    BY <2>3
  <2>5. Under(x) \/ Arrived(x)
    BY <2>2, <2>4 DEF Somewhere, Got, Under, Arrived
  <2>. QED  BY <2>1, <2>5
<1>. QED  BY <1>1, TypeInit, TypeNext, SeenInit, SeenNext, PTL DEF Spec
=============================================================================
