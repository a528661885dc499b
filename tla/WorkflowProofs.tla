---------------------------- MODULE WorkflowProofs ----------------------------
(***************************************************************************)
(* The safety of Workflow and of Affinity for any threads, pools, CPUs,    *)
(* configurations, number of reloads and overlapping runs of the timer.    *)
(***************************************************************************)
EXTENDS Workflow, TLAPS

State == {"none", "main", "started", "running", "leaving", "foreign"}
Kind == [state : State, of : Pool \cup {NoPool}, mask : (SUBSET Online) \ {{}},
         seen : BOOLEAN]

\* Where the threads are, and what a pass still has to do.
ThreadInv ==
    /\ opt \in CpuOptions /\ stopped \in BOOLEAN /\ dirty \in BOOLEAN
    /\ thread \in [Thread -> Kind]
    /\ name \in [Thread -> Pool \cup {NoPool}]
    /\ \A t \in Thread :
          name[t] = IF thread[t].state = "running" THEN thread[t].of ELSE NoPool
    /\ pass \in [pc : {"rest", "threads", "pids", "wfc"},
                 all : SUBSET Thread, pids : SUBSET Thread]
    /\ pass.pc # "wfc" => pass.pids = {}
    /\ pass.all \cap pass.pids = {}

\* As long as the cpuset stays clean, what the pass has listed is what there is,
\* and whoever is not on a list any more runs where the configuration says.
PassInv ==
    ~dirty =>
        /\ PassAt("pids") =>
              \A t \in Thread : Alive(t) /\ thread[t].seen => t \in pass.all
        /\ PassAt("wfc") =>
              /\ pass.pids \subseteq Registered /\ pass.all \cap Registered = {}
              /\ \A t \in Registered : t \in pass.pids \/ Obeys(t)
              /\ \A t \in Thread : Alive(t) /\ thread[t].seen /\ t \notin Registered
                                      => t \in pass.all \/ Obeys(t)
        /\ PassAt("rest") =>
              \A t \in Thread :
                  t \in Registered \/ (Alive(t) /\ thread[t].seen) => Obeys(t)

AffinityInv == ThreadInv /\ PassInv

\* The timer and the meter.
TimerInv ==
    /\ dropped \in 0..MaxDrops /\ _dropped \in 0..dropped
    /\ metered \in Int /\ overlap \in BOOLEAN
    /\ _stat_timer \in Shot \cup {NoShot}
    /\ _stat_timer # NoShot => opt.meter /\ ~stopped
    /\ shot \in [Shot -> [pc : {"idle", "meter", "keep"}, now : 0..dropped]]
    /\ reloads \in 0..MaxReloads

\* A run that is alone has metered what it has read, or nothing yet.
MeterInv ==
    ~overlap =>
        /\ \A g, h \in Shot : shot[g].pc # "idle" /\ shot[h].pc # "idle" => g = h
        /\ \A h \in Shot : shot[h].pc = "keep" => metered = shot[h].now
        /\ (\A h \in Shot : shot[h].pc # "keep") => metered = _dropped

Inv == AffinityInv /\ TimerInv /\ MeterInv

-----------------------------------------------------------------------------
\* One thread of WFC, or of anybody else, is given its CPUs.
LEMMA SetThread ==
    ASSUME ThreadInv, NEW t \in Thread, NEW cpus, setaffinity(t, cpus)
    PROVE  /\ thread' \in [Thread -> Kind]
           /\ \A u \in Thread :
                 /\ thread'[u].state = thread[u].state /\ thread'[u].of = thread[u].of
                 /\ thread'[u].seen = thread[u].seen
                 /\ u # t => thread'[u] = thread[u]
           /\ Alive(t) =>
                 cpus \cap Online = {} \/ thread'[t].mask = cpus \cap Online
<1>1. CASE ~Alive(t) \/ cpus \cap Online = {}
  BY <1>1 DEF setaffinity, ThreadInv
<1>2. CASE Alive(t) /\ cpus \cap Online # {}
  <2>. DEFINE m == cpus \cap Online
             r == [thread[t] EXCEPT !.mask = m]
  <2>1. thread[t] \in Kind /\ thread' = [thread EXCEPT ![t] = r]
    BY <1>2 DEF setaffinity, ThreadInv
  <2>2. m \in (SUBSET Online) \ {{}}
    <3>1. m \subseteq Online /\ m # {}
      BY <1>2
    <3>. HIDE DEF m
    <3>. QED  BY <3>1
  <2>. HIDE DEF m
  <2>3. /\ r \in Kind /\ r.state = thread[t].state /\ r.of = thread[t].of
        /\ r.seen = thread[t].seen /\ r.mask = m
    BY <2>1, <2>2 DEF Kind
  <2>. HIDE DEF r
  <2>. QED  BY <2>1, <2>3 DEF ThreadInv, m
<1>. QED  BY <1>1, <1>2

\* The pass of the main thread.
LEMMA IdleStep == ASSUME AffinityInv, _idle PROVE AffinityInv'
<1>. USE DEF AffinityInv
<1>1. CASE CleanDirty
  <2>1. /\ dirty' = FALSE /\ pass' = [pass EXCEPT !.pc = "threads"]
        /\ pass.pc = "rest" /\ UNCHANGED <<opt, stopped, name, thread>>
    BY <1>1 DEF CleanDirty, DirtyAfter, PassAt
  <2>2. ThreadInv'
    BY <2>1 DEF ThreadInv
  <2>3. pass'.pc = "threads"
    BY <2>1 DEF ThreadInv
  <2>. QED  BY <2>2, <2>3 DEF PassInv, PassAt
<1>2. CASE ListThreads
  <2>. DEFINE r(t) == [thread[t] EXCEPT !.seen = Alive(t)]
  <2>1. /\ thread' = [t \in Thread |-> r(t)]
        /\ pass' = [pass EXCEPT !.pc = "pids", !.all = {t \in Thread : Alive(t)}]
        /\ UNCHANGED <<opt, stopped, dirty, name>> /\ pass.pc = "threads"
    BY <1>2 DEF ListThreads, PassAt
  <2>2. ASSUME NEW t \in Thread
        PROVE  /\ r(t) \in Kind /\ r(t).state = thread[t].state
               /\ r(t).of = thread[t].of /\ r(t).seen = Alive(t)
    <3>1. thread[t] \in Kind /\ Alive(t) \in BOOLEAN
      BY DEF ThreadInv, Alive
    <3>. QED  BY <3>1 DEF Kind
  <2>. HIDE DEF r
  <2>3. ThreadInv'
    BY <2>1, <2>2 DEF ThreadInv
  <2>4. \A t \in Thread : Alive(t)' /\ thread'[t].seen => t \in pass'.all
    BY <2>1, <2>2 DEF Alive, ThreadInv
  <2>. QED  BY <2>1, <2>3, <2>4 DEF PassInv, PassAt, ThreadInv
<1>3. CASE ListPids
  <2>1. /\ pass' = [pc |-> "wfc", all |-> pass.all \ Registered, pids |-> Registered]
        /\ UNCHANGED <<opt, stopped, dirty, name, thread>> /\ pass.pc = "pids"
    BY <1>3 DEF ListPids, PassAt
  <2>2. ThreadInv'
    BY <2>1 DEF ThreadInv, Registered
  <2>3. PassInv'
    BY <2>1 DEF PassInv, PassAt, Registered, Alive
  <2>. QED  BY <2>2, <2>3
<1>4. ASSUME NEW t \in Thread, SetWfc(t) PROVE AffinityInv'
  <2>1. /\ pass.pc = "wfc" /\ t \in pass.pids
        /\ pass' = [pass EXCEPT !.pids = @ \ {t}]
        /\ UNCHANGED <<opt, stopped, dirty, name>>
    BY <1>4 DEF SetWfc, PassAt
  <2>2. setaffinity(t, Cpus(t))
    BY <1>4 DEF SetWfc
  <2>3. /\ thread' \in [Thread -> Kind]
        /\ \A u \in Thread :
              /\ thread'[u].state = thread[u].state /\ thread'[u].of = thread[u].of
              /\ thread'[u].seen = thread[u].seen
              /\ u # t => thread'[u] = thread[u]
        /\ Alive(t) => Cpus(t) \cap Online = {} \/ thread'[t].mask = Cpus(t) \cap Online
    BY <2>2, SetThread
  <2>4. ThreadInv'
    BY <2>1, <2>3 DEF ThreadInv
  <2>5. /\ Registered' = Registered
        /\ \A u \in Thread : Cpus(u)' = Cpus(u) /\ Alive(u)' = Alive(u)
    BY <2>1, <2>3 DEF Registered, Cpus, Alive
  <2>6. t \in Registered => Obeys(t)'
    BY <2>1, <2>3, <2>5 DEF Obeys, Wanted, Registered, Alive
  <2>7. \A u \in Thread : u # t => (Obeys(u)' <=> Obeys(u))
    BY <2>1, <2>3, <2>5 DEF Obeys, Wanted
  <2>8. PassInv'
    <3>1. /\ pass'.pc = "wfc"
          /\ pass'.pids \subseteq pass.pids /\ pass'.all \subseteq pass.all
          /\ \A u \in Thread : u # t => (u \in pass.pids => u \in pass'.pids)
          /\ \A u \in Thread : u # t => (u \in pass.all => u \in pass'.all)
      BY <2>1 DEF ThreadInv
    <3>2. \A u \in Registered : u \in Thread
      BY DEF Registered
    <3>3. \A u \in Thread : thread'[u].seen = thread[u].seen /\ (Alive(u)' <=> Alive(u))
      BY <2>3, <2>5
    <3>. QED  BY <2>1, <2>5, <2>6, <2>7, <3>1, <3>2, <3>3 DEF PassInv, PassAt
  <2>. QED  BY <2>4, <2>8
<1>5. ASSUME NEW t \in Thread, SetSys(t) PROVE AffinityInv'
  <2>1. /\ pass.pc = "wfc" /\ pass.pids = {} /\ t \in pass.all
        /\ pass' = [pass EXCEPT !.all = @ \ {t}]
        /\ UNCHANGED <<opt, stopped, dirty, name>>
    BY <1>5 DEF SetSys, PassAt
  <2>2. setaffinity(t, opt.sys)
    BY <1>5 DEF SetSys
  <2>3. /\ thread' \in [Thread -> Kind]
        /\ \A u \in Thread :
              /\ thread'[u].state = thread[u].state /\ thread'[u].of = thread[u].of
              /\ thread'[u].seen = thread[u].seen
              /\ u # t => thread'[u] = thread[u]
        /\ Alive(t) => opt.sys \cap Online = {} \/ thread'[t].mask = opt.sys \cap Online
    BY <2>2, SetThread
  <2>4. ThreadInv'
    BY <2>1, <2>3 DEF ThreadInv
  <2>5. /\ Registered' = Registered
        /\ \A u \in Thread : Cpus(u)' = Cpus(u) /\ Alive(u)' = Alive(u)
    BY <2>1, <2>3 DEF Registered, Cpus, Alive
  <2>6. t \notin Registered /\ Alive(t) => Obeys(t)'
    BY <2>1, <2>3, <2>5 DEF Obeys, Wanted
  <2>7. \A u \in Thread : u # t => (Obeys(u)' <=> Obeys(u))
    BY <2>1, <2>3, <2>5 DEF Obeys, Wanted
  <2>8. PassInv'
    <3>1. /\ pass'.pc = "wfc"
          /\ pass'.pids \subseteq pass.pids /\ pass'.all \subseteq pass.all
          /\ \A u \in Thread : u # t => (u \in pass.pids => u \in pass'.pids)
          /\ \A u \in Thread : u # t => (u \in pass.all => u \in pass'.all)
      BY <2>1 DEF ThreadInv
    <3>2. \A u \in Registered : u \in Thread
      BY DEF Registered
    <3>3. \A u \in Thread : thread'[u].seen = thread[u].seen /\ (Alive(u)' <=> Alive(u))
      BY <2>3, <2>5
    <3>. QED  BY <2>1, <2>5, <2>6, <2>7, <3>1, <3>2, <3>3 DEF PassInv, PassAt
  <2>. QED  BY <2>4, <2>8
<1>6. CASE EndPass
  <2>1. /\ pass.pc = "wfc" /\ pass.pids = {} /\ pass.all = {} /\ pass' = Resting
        /\ dirty' = dirty /\ UNCHANGED <<opt, stopped, name, thread>>
    BY <1>6 DEF EndPass, PassAt, DirtyAfter, ThreadInv
  <2>2. ThreadInv'
    BY <2>1 DEF ThreadInv, Resting
  <2>3. PassInv'
    BY <2>1 DEF PassInv, PassAt, Resting, Registered, Alive, Obeys, Wanted, Cpus
  <2>. QED  BY <2>2, <2>3
<1>. QED  BY <1>1, <1>2, <1>3, <1>4, <1>5, <1>6 DEF _idle

\* Threads that begin and end without the cpuset: nobody has listed a new one.
LEMMA UnlistedStep ==
    ASSUME AffinityInv, NEW t \in Thread,
           \/ \E p \in Pool : StartThread(t, p)
           \/ ForeignThread(t) \/ Exit(t)
    PROVE  AffinityInv'
<1>. USE DEF AffinityInv
<1>1. PICK k \in Kind : /\ thread' = [thread EXCEPT ![t] = k]
                        /\ k.seen = FALSE /\ k.state \in {"none", "started", "foreign"}
  <2>1. Unborn \in Kind
    BY AffinityAssumption DEF Unborn, Kind, State
  <2>2. CASE \E p \in Pool : StartThread(t, p)
    <3>1. PICK p \in Pool : StartThread(t, p)
      BY <2>2
    <3>. DEFINE k == [Unborn EXCEPT !.state = "started", !.of = p,
                                    !.mask = thread[Main].mask]
    <3>2. thread[Main].mask \in (SUBSET Online) \ {{}}
      BY AffinityAssumption DEF ThreadInv, Kind
    <3>3. k \in Kind /\ k.seen = FALSE /\ k.state = "started"
      BY <3>2 DEF Unborn, Kind, State
    <3>. QED  BY <3>1, <3>3 DEF StartThread
  <2>3. CASE ForeignThread(t)
    <3>1. PICK parent \in Thread : thread' = [thread EXCEPT ![t] =
             [Unborn EXCEPT !.state = "foreign", !.mask = thread[parent].mask]]
      BY <2>3 DEF ForeignThread
    <3>. DEFINE k == [Unborn EXCEPT !.state = "foreign", !.mask = thread[parent].mask]
    <3>2. thread[parent].mask \in (SUBSET Online) \ {{}}
      BY DEF ThreadInv, Kind
    <3>3. k \in Kind /\ k.seen = FALSE /\ k.state = "foreign"
      BY <3>2 DEF Unborn, Kind, State
    <3>. QED  BY <3>1, <3>3
  <2>4. CASE Exit(t)
    BY <2>1, <2>4 DEF Exit, Unborn
  <2>. QED  BY <2>2, <2>3, <2>4
<1>2. /\ thread[t].state \in {"none", "leaving", "foreign"}
      /\ UNCHANGED <<opt, stopped, dirty, name, pass>>
  BY DEF StartThread, ForeignThread, Exit, Alive
<1>3. ThreadInv'
  BY <1>1, <1>2 DEF ThreadInv
<1>4. Registered' = Registered /\ t \notin Registered
  BY <1>1, <1>2 DEF Registered, ThreadInv
<1>5. /\ thread'[t].seen = FALSE
      /\ \A u \in Thread : u # t => /\ thread'[u].seen = thread[u].seen
                                    /\ Alive(u)' <=> Alive(u)
  BY <1>1 DEF ThreadInv, Alive
<1>6. \A u \in Thread : u # t => (Obeys(u)' <=> Obeys(u))
  BY <1>1, <1>2, <1>4 DEF Obeys, Wanted, Cpus, ThreadInv
<1>7. PassInv'
  <2>1. \A u \in Registered : u \in Thread
    BY DEF Registered
  <2>. QED  BY <1>2, <1>4, <1>5, <1>6, <2>1 DEF PassInv, PassAt
<1>. QED  BY <1>3, <1>7

\* Whatever changes for the threads of WFC makes the cpuset dirty.
LEMMA DirtyStep ==
    ASSUME AffinityInv,
           \/ \E t \in Thread : RegThread(t) \/ UnregThread(t)
           \/ \E new \in CpuOptions : SetOptions(new)
    PROVE  AffinityInv'
<1>. USE DEF AffinityInv
<1>1. CASE \E t \in Thread : RegThread(t) \/ UnregThread(t)
  <2>1. PICK t \in Thread, s \in State, p \in Pool \cup {NoPool} :
           /\ s = "running" \/ p = NoPool
           /\ name' = [name EXCEPT ![t] = p]
           /\ s = "running" => /\ thread' = [thread EXCEPT ![t].state = s]
                               /\ p = thread[t].of
           /\ s # "running" => thread' = [thread EXCEPT ![t].state = s, ![t].of = p]
    BY <1>1 DEF RegThread, UnregThread, ThreadInv, Kind, State
  <2>2. thread[t] \in Kind
    BY DEF ThreadInv
  <2>3. /\ [thread[t] EXCEPT !.state = s] \in Kind
        /\ [thread[t] EXCEPT !.state = s, !.of = p] \in Kind
    BY <2>2 DEF Kind
  <2>4. thread' \in [Thread -> Kind]
    BY <2>1, <2>3 DEF ThreadInv
  <2>5. /\ thread'[t].state = s /\ p = IF s = "running" THEN thread'[t].of ELSE NoPool
        /\ \A u \in Thread \ {t} : thread'[u] = thread[u]
    BY <2>1, <2>2 DEF ThreadInv, Kind
  <2>6. dirty' = TRUE /\ UNCHANGED <<opt, stopped, pass>>
    BY <1>1 DEF RegThread, UnregThread
  <2>7. ThreadInv'
    BY <2>1, <2>4, <2>5, <2>6 DEF ThreadInv
  <2>. QED  BY <2>6, <2>7 DEF PassInv
<1>2. CASE \E new \in CpuOptions : SetOptions(new)
  BY <1>2 DEF SetOptions, Announced, ThreadInv, PassInv
<1>. QED  BY <1>1, <1>2

LEMMA StopStep == ASSUME AffinityInv, StopPools PROVE AffinityInv'
BY DEF StopPools, AffinityInv, ThreadInv, PassInv, PassAt, Registered, Alive, Obeys,
       Wanted, Cpus

-----------------------------------------------------------------------------
LEMMA InitInv == Init => Inv
<1>. SUFFICES ASSUME Init PROVE Inv
  OBVIOUS
<1>1. ThreadInv
  BY AffinityAssumption DEF Init, AffinityInit, ThreadInv, Unborn, Kind, State, Resting
<1>2. PassInv
  BY DEF Init, AffinityInit, PassInv
<1>3. TimerInv
  <2>1. (CHOOSE h \in Shot : TRUE) \in Shot
    BY WorkflowAssumption
  <2>2. /\ _stat_timer \in Shot \cup {NoShot}
        /\ _stat_timer # NoShot => opt.meter /\ ~stopped
    BY <2>1 DEF Init, AffinityInit
  <2>3. /\ dropped = 0 /\ _dropped = 0 /\ reloads = 0 /\ metered = 0 /\ overlap = FALSE
        /\ shot = [h \in Shot |-> NotFired]
    BY DEF Init
  <2>4. 0 \in 0..0 /\ 0 \in 0..MaxDrops /\ 0 \in 0..MaxReloads
    BY WorkflowAssumption
  <2>5. shot \in [Shot -> [pc : {"idle", "meter", "keep"}, now : 0..dropped]]
    BY <2>3, <2>4 DEF NotFired
  <2>6. dropped \in 0..MaxDrops /\ _dropped \in 0..dropped /\ reloads \in 0..MaxReloads
    BY <2>3, <2>4
  <2>7. metered \in Int
    BY <2>3
  <2>8. overlap \in BOOLEAN
    BY <2>3, Zenon
  <2>. QED  BY <2>2, <2>5, <2>6, <2>7, <2>8, Zenon DEF TimerInv
<1>4. MeterInv
  BY DEF Init, MeterInv, NotFired
<1>. QED  BY <1>1, <1>2, <1>3, <1>4 DEF Inv, AffinityInv

\* The counter is read, metered and kept.
LEMMA TimerStep ==
    ASSUME Inv,
           Drop \/ \E h \in Shot : ReadDropped(h) \/ MeterDropped(h) \/ KeepDropped(h)
    PROVE  TimerInv' /\ MeterInv'
<1>. USE WorkflowAssumption DEF Inv, TimerInv
<1>1. UNCHANGED <<opt, stopped, reloads, _stat_timer>>
  BY DEF Drop, ReadDropped, MeterDropped, KeepDropped, affinityVars
<1>2. CASE Drop
  <2>1. dropped' = dropped + 1 /\ UNCHANGED <<_dropped, metered, shot, overlap>>
        /\ dropped' \in 0..MaxDrops /\ 0..dropped \subseteq 0..dropped'
    BY <1>2 DEF Drop
  <2>2. shot' \in [Shot -> [pc : {"idle", "meter", "keep"}, now : 0..dropped']]
    <3>1. \A h \in Shot : shot[h] \in [pc : {"idle", "meter", "keep"}, now : 0..dropped']
      BY <2>1
    <3>. QED  BY <2>1, <3>1
  <2>. QED  BY <1>1, <2>1, <2>2 DEF MeterInv
<1>3. ASSUME NEW h \in Shot, ReadDropped(h) PROVE TimerInv' /\ MeterInv'
  <2>1. /\ shot' = [shot EXCEPT ![h] = [pc |-> "meter", now |-> dropped]]
        /\ shot[h].pc = "idle" /\ UNCHANGED <<dropped, _dropped, metered>>
        /\ overlap' = (overlap \/ \E g \in Shot \ {h} : shot[g].pc # "idle")
    BY <1>3 DEF ReadDropped
  <2>2. TimerInv'
    BY <1>1, <2>1
  <2>3. MeterInv'
    BY <2>1 DEF MeterInv
  <2>. QED  BY <2>2, <2>3
<1>4. ASSUME NEW h \in Shot, MeterDropped(h) PROVE TimerInv' /\ MeterInv'
  <2>1. /\ shot' = [shot EXCEPT ![h].pc = "keep"] /\ shot[h].pc = "meter"
        /\ metered' = metered + (shot[h].now - _dropped)
        /\ UNCHANGED <<dropped, _dropped, overlap>>
    BY <1>4 DEF MeterDropped
  <2>2. TimerInv'
    BY <1>1, <2>1
  <2>3. MeterInv'
    BY <2>1 DEF MeterInv
  <2>. QED  BY <2>2, <2>3
<1>5. ASSUME NEW h \in Shot, KeepDropped(h) PROVE TimerInv' /\ MeterInv'
  <2>1. /\ shot' = [shot EXCEPT ![h] = NotFired] /\ shot[h].pc = "keep"
        /\ _dropped' = shot[h].now /\ UNCHANGED <<dropped, metered, overlap>>
    BY <1>5 DEF KeepDropped, Kept
  <2>2. TimerInv'
    BY <1>1, <2>1 DEF NotFired
  <2>3. MeterInv'
    BY <2>1 DEF MeterInv, NotFired
  <2>. QED  BY <2>2, <2>3
<1>. QED  BY <1>2, <1>3, <1>4, <1>5

LEMMA NextInv == Inv /\ [Next]_vars => Inv'
<1>. SUFFICES ASSUME Inv, [Next]_vars PROVE Inv'
  OBVIOUS
<1>. USE DEF Inv
<1>1. ASSUME AffinityInv', UNCHANGED <<opt, stopped, statVars, reloads>>
      PROVE  Inv'
  BY <1>1 DEF TimerInv, MeterInv, statVars
<1>2. CASE Affine(_idle)
  <2>1. UNCHANGED <<opt, stopped, statVars, reloads>>
    BY <1>2 DEF Affine, _idle, CleanDirty, ListThreads, ListPids, SetWfc, SetSys, EndPass
  <2>. QED  BY <1>1, <1>2, <2>1, IdleStep DEF Affine
<1>3. ASSUME NEW t \in Thread,
             \/ \E p \in Pool : Affine(StartThread(t, p))
             \/ Affine(ForeignThread(t)) \/ Affine(Exit(t))
      PROVE  Inv'
  <2>1. UNCHANGED <<opt, stopped, statVars, reloads>>
    BY <1>3 DEF Affine, StartThread, ForeignThread, Exit
  <2>. QED  BY <1>1, <1>3, <2>1, UnlistedStep DEF Affine
<1>4. ASSUME NEW t \in Thread, Affine(RegThread(t)) \/ Affine(UnregThread(t))
      PROVE  Inv'
  <2>1. UNCHANGED <<opt, stopped, statVars, reloads>>
    BY <1>4 DEF Affine, RegThread, UnregThread
  <2>. QED  BY <1>1, <1>4, <2>1, DirtyStep DEF Affine
<1>5. CASE Drop \/ \E h \in Shot : ReadDropped(h) \/ MeterDropped(h) \/ KeepDropped(h)
  <2>1. UNCHANGED affinityVars
    BY <1>5 DEF Drop, ReadDropped, MeterDropped, KeepDropped
  <2>2. AffinityInv'
    BY <2>1 DEF affinityVars, AffinityInv, ThreadInv, PassInv, PassAt, Registered, Alive,
                Obeys, Wanted, Cpus
  <2>. QED  BY <1>5, <2>2, TimerStep
<1>6. ASSUME NEW new \in CpuOptions, Reload(new) PROVE Inv'
  <2>1. AffinityInv'
    BY <1>6, DirtyStep DEF Reload
  <2>2. TimerInv'
    <3>1. PICK h \in Timer(new) : _stat_timer' = h
      BY <1>6 DEF Reload
    <3>2. h \in Shot \cup {NoShot} /\ (h # NoShot => new.meter)
      BY <3>1 DEF Timer
    <3>3. opt' = new /\ ~stopped'
      BY <1>6 DEF Reload, SetOptions
    <3>. QED  BY <1>6, <3>1, <3>2, <3>3, WorkflowAssumption DEF TimerInv, Reload
  <2>3. MeterInv'
    BY <1>6 DEF MeterInv, Reload
  <2>. QED  BY <2>1, <2>2, <2>3
<1>7. CASE Stop
  <2>1. AffinityInv'
    BY <1>7, StopStep DEF Stop
  <2>. QED  BY <1>7, <2>1 DEF TimerInv, MeterInv, Stop
<1>8. CASE UNCHANGED vars
  BY <1>8, <1>1 DEF vars, affinityVars, AffinityInv, ThreadInv, PassInv, PassAt,
     Registered, Alive, Obeys, Wanted, Cpus, statVars
<1>. QED  BY <1>2, <1>3, <1>4, <1>5, <1>6, <1>7, <1>8 DEF Next

LEMMA Invariance == Spec => []Inv
BY InitInv, NextInv, PTL DEF Spec

\* Every variable keeps its type: no thread is left without a CPU, a thread is
\* registered as long as it runs for a pool, and no timer is left by a stop.
THEOREM TypeCorrect == Spec => []TypeOK
<1>1. Inv => TypeOK
  <2>. SUFFICES ASSUME Inv PROVE TypeOK
    OBVIOUS
  <2>1. AffinityTypeOK
    BY DEF Inv, AffinityInv, ThreadInv, AffinityTypeOK, Kind
  <2>. QED  BY <2>1 DEF Inv, TimerInv, TypeOK
<1>. QED  BY <1>1, Invariance, PTL

\* Once the cpuset is clean, every thread of WFC and every thread that the last
\* pass has seen runs where the configuration says.
THEOREM Settled == Spec => []MasksSettled
<1>1. Inv => MasksSettled
  BY DEF Inv, AffinityInv, PassInv, MasksSettled
<1>. QED  BY <1>1, Invariance, PTL

\* Every dropped task is metered once, through all reloads, unless two runs of
\* the timer handler have overlapped.
THEOREM DropsMetered == Spec => []DropsCounted
<1>1. Inv => DropsCounted
  BY DEF Inv, MeterInv, DropsCounted
<1>. QED  BY <1>1, Invariance, PTL
=============================================================================
