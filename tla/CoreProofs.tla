----------------------------- MODULE CoreProofs -----------------------------
(* Theorems about Core for any set of objects, any priorities, any           *)
(* configuration texts and any number of threads: the types, the order of    *)
(* the life cycle and its refinement of Lifecycle; then what the calls of    *)
(* other threads are told, and that no reload is lost.                       *)
EXTENDS Core, TLAPS

-----------------------------------------------------------------------------
(* Type correctness.                                                         *)

\* The texts a step can hand to an object are texts.
LEMMA SectionText ==
    ASSUME NEW v \in Version, NEW o \in Objects
    PROVE  Section[v][o] \in Text
BY DEF Text

\* What the calls of core and the signal handler store.
LEMMA CallTypes ==
    /\ <<>> \in Seq(Store)
    /\ <<"_stop_flag", "stop_signal_flag">> \in Seq(Store)
    /\ <<"_stop_flag", "_restart_flag", "stop_signal_flag">> \in Seq(Store)
    /\ <<"gs_stop_signal", "_stop_flag", "_abort_flag">> \in Seq(Store)
    /\ <<"stop_signal_flag", "gs_stop_signal", "_stop_flag", "_abort_flag">>
          \in Seq(Store)
    /\ <<"_mainconf", "_reconfigure_flag">> \in Seq(Store)
    /\ <<"stop_signal_flag", "gs_stop_signal">> \in Seq(Store)
    /\ AbortFlags \subseteq Flag
BY DEF Store, Flag, AbortFlags

\* The initial state is well typed.
LEMMA TypeInit == Init => TypeOK
<1> SUFFICES ASSUME Init PROVE TypeOK
  OBVIOUS
<1>1. 1 \in Version
  BY CoreAssumption DEF Version
<1>2. 0 \in Text
  BY DEF Text
<1>3. calls \in [Threads -> Seq(Store)]
  BY CallTypes DEF Init
<1>4. conf \in [Objects -> Text] /\ applied \in [Objects -> Text]
          /\ life \in [Objects -> LifeStep]
  BY <1>2 DEF Init, LifeStep
<1>5. flags \subseteq Flag /\ stage \in Stage /\ pc \in Location
  BY DEF Init, Flag, Stage, Location
<1>6. reconfigured \subseteq Objects /\ todo \subseteq Objects
          /\ exit_code \in {-1, 0, 1} /\ late \in 0..2
  BY DEF Init
<1>7. ChosenInv /\ caller \in {"run", "idle"} /\ mainconf \in Version
  BY <1>1 DEF Init, ChosenInv, Calling
<1>8. dirty \in BOOLEAN /\ after_start \in BOOLEAN
  BY DEF Init
<1> QED
  BY <1>3, <1>4, <1>5, <1>6, <1>7, <1>8, Zenon DEF TypeOK

\* Every step of the main thread keeps the types.
LEMMA TypeMain == ASSUME TypeOK, Main PROVE TypeOK'
<1> USE CoreAssumption DEF TypeOK, ChosenInv, Calling, mainVars,
                           objVars, Stage, Location, LifeStep
<1>1. CASE Run
  BY <1>1 DEF Run
<1>2. CASE Sunrise
  BY <1>2 DEF Sunrise
<1>3. CASE VisitConfigure
  BY <1>3 DEF VisitConfigure, Visit
<1>4. CASE ConfigureObject
  <2>1. chosen \in Objects /\ Section[mainconf][chosen] \in Text
    BY <1>4, SectionText DEF ConfigureObject
  <2>2. flags' \subseteq Flag /\ late' \in 0..2 /\ stage' \in Stage
    BY <1>4, CallTypes DEF ConfigureObject, Called
  <2>3. conf' \in [Objects -> Text] /\ reconfigured' \subseteq Objects
            /\ dirty' \in BOOLEAN
    BY <1>4, <2>1 DEF ConfigureObject
  <2> QED
    BY <1>4, <2>2, <2>3 DEF ConfigureObject, Called
<1>5. CASE ConfigureFails
  BY <1>5 DEF ConfigureFails, Flag
<1>6. CASE BeginInitialize
  BY <1>6 DEF BeginInitialize, Phase, Registered
<1>7. CASE VisitInitialize
  BY <1>7 DEF VisitInitialize, Visit, Earliest
<1>8. CASE InitializeObject
  <2>1. flags' \subseteq Flag /\ late' \in 0..2
    BY <1>8, CallTypes DEF InitializeObject, Called
  <2>2. applied' \in [Objects -> Text] /\ life' \in [Objects -> LifeStep]
    BY <1>8 DEF InitializeObject
  <2> QED
    BY <1>8, <2>1, <2>2 DEF InitializeObject, Called
<1>9. CASE BeginStart
  BY <1>9 DEF BeginStart, Phase, Registered
<1>10. CASE VisitStart
  BY <1>10 DEF VisitStart, Visit, Earliest
<1>11. CASE StartObject
  <2>1. flags' \subseteq Flag /\ late' \in 0..2
    BY <1>11, CallTypes DEF StartObject, Called
  <2> QED
    BY <1>11, <2>1 DEF StartObject, Called
<1>12. CASE SunriseDone
  BY <1>12 DEF SunriseDone
<1>13. CASE Risen
  BY <1>13 DEF Risen
<1>14. CASE IdleStop
  BY <1>14 DEF IdleStop, Flag
<1>15. CASE IdleReconfigure
  BY <1>15 DEF IdleReconfigure
<1>16. CASE ClearReconfigure
  BY <1>16 DEF ClearReconfigure
<1>17. CASE Unwind
  BY <1>17 DEF Unwind, Registered
<1>18. CASE VisitStop
  BY <1>18 DEF VisitStop, Earliest
<1>19. CASE StopObject
  BY <1>19, CallTypes DEF StopObject, Flag
<1>20. CASE Return
  BY <1>20 DEF Return
<1> QED
  BY <1>1, <1>2, <1>3, <1>4, <1>5, <1>6, <1>7, <1>8, <1>9, <1>10, <1>11,
     <1>12, <1>13, <1>14, <1>15, <1>16, <1>17, <1>18, <1>19, <1>20 DEF Main

\* Beginning a call keeps the types.
LEMMA TypeControl == ASSUME TypeOK, NEW t \in Threads, Control(t) PROVE TypeOK'
BY CallTypes DEF TypeOK, ChosenInv, Calling, Control, CoreStop,
   CoreRestart, CoreAbort, CoreReconfigure, SignalHandler, Begin, mainVars,
   objVars

\* A store of a call keeps the types.
LEMMA TypeStore == ASSUME TypeOK, NEW t \in Threads, DoStore(t) PROVE TypeOK'
<1>1. calls[t] \in Seq(Store) /\ calls[t] # <<>>
  BY DEF TypeOK, DoStore
<1>2. Head(calls[t]) \in Store /\ Tail(calls[t]) \in Seq(Store)
  BY <1>1
<1>3. calls' \in [Threads -> Seq(Store)]
  BY <1>2 DEF TypeOK, DoStore
<1>4. flags' \subseteq Flag /\ mainconf' \in Version
  BY <1>2 DEF TypeOK, DoStore, Store
<1> QED
  BY <1>3, <1>4 DEF TypeOK, ChosenInv, Calling, DoStore, mainVars,
     objVars

\* So does every step.
LEMMA TypeNext == TypeOK /\ [Next]_vars => TypeOK'
<1> SUFFICES ASSUME TypeOK, [Next]_vars PROVE TypeOK'
  OBVIOUS
<1>1. CASE UNCHANGED vars
  BY <1>1 DEF TypeOK, ChosenInv, Calling, vars, mainVars, objVars
<1> QED
  BY <1>1, TypeMain, TypeControl, TypeStore DEF Next

\* The variables keep their types, whatever the main thread and the callers do.
THEOREM TypeCorrect == Spec => []TypeOK
BY TypeInit, TypeNext, PTL DEF Spec

-----------------------------------------------------------------------------
(* Containment of an abort.                                                  *)

\* Nothing is counted late before the abort, and no call is begun after it.
LateInv ==
    /\ Up("_abort_flag") \/ late = 0
    /\ pc \in {"configuring", "initializing", "starting"} => late = 0
    /\ late <= 1

\* LateInv is kept by every step.
LEMMA LateNext == TypeOK /\ LateInv /\ [Next]_vars => LateInv'
<1> SUFFICES ASSUME TypeOK, LateInv, [Next]_vars PROVE LateInv'
  OBVIOUS
<1> USE DEF LateInv, Up, mainVars, objVars
<1>1. CASE UNCHANGED vars
  BY <1>1 DEF vars
<1>2. CASE Main
  <2>1. CASE Run \/ Sunrise \/ SunriseDone \/ Risen
    BY <2>1 DEF Run, Sunrise, SunriseDone, Risen
  <2>2. CASE VisitConfigure \/ VisitInitialize \/ VisitStart \/ VisitStop
    BY <2>2 DEF VisitConfigure, VisitInitialize, VisitStart, VisitStop, Visit
  <2>3. CASE ConfigureObject \/ InitializeObject \/ StartObject
    BY <2>3 DEF ConfigureObject, InitializeObject, StartObject, Called,
                AbortFlags
  <2>4. CASE ConfigureFails
    BY <2>4 DEF ConfigureFails
  <2>5. CASE BeginInitialize \/ BeginStart
    BY <2>5 DEF BeginInitialize, BeginStart, Phase, Up
  <2>6. CASE IdleStop \/ IdleReconfigure \/ ClearReconfigure
    BY <2>6 DEF IdleStop, IdleReconfigure, ClearReconfigure
  <2>7. CASE Unwind \/ StopObject \/ Return
    BY <2>7 DEF Unwind, StopObject, Return
  <2> QED
    BY <1>2, <2>1, <2>2, <2>3, <2>4, <2>5, <2>6, <2>7 DEF Main
<1>3. ASSUME NEW t \in Threads, Control(t) \/ DoStore(t) PROVE LateInv'
  BY <1>3 DEF Control, CoreStop, CoreRestart, CoreAbort, CoreReconfigure,
              SignalHandler, Begin, DoStore
<1> QED
  BY <1>1, <1>2, <1>3 DEF Next

\* An abort, from whatever thread, lets at most one more object be called.
THEOREM AbortIsContained == Spec => []AbortContained
<1>1. Init => LateInv
  BY DEF Init, LateInv
<1>2. LateInv => AbortContained
  BY DEF LateInv, AbortContained
<1> QED
  BY <1>1, <1>2, TypeInit, TypeNext, LateNext, PTL DEF Spec

-----------------------------------------------------------------------------
(* The order of the shutdown.                                                *)

\* The instances the current loop has not finished with.
Due == todo \cup ({chosen} \cap Objects)

\* Only registered objects are called by the loops over instances.
RegInv ==
    /\ \A o \in Objects : life[o] # "none" => o \in Registered
    /\ pc \in {"initialize", "initializing", "start", "starting", "stop",
              "stopping"} => Due \subseteq Registered

\* Nothing is stopped before _stop; its loop stops exactly what is no longer
\* due, and nothing that is due comes before what is stopped.
StopInv ==
    /\ pc \notin {"stop", "stopping", "stopped", "exited"} =>
          \A o \in Objects : life[o] # "stopped"
    /\ pc \in {"stop", "stopping"} =>
          /\ \A o \in Registered : life[o] = "stopped" <=> o \notin Due
          /\ \A o \in Registered \ Due, p \in Due :
                ShutdownPriority[o] <= ShutdownPriority[p]
    /\ pc = "stopping" =>
          /\ chosen \notin todo
          /\ \A p \in todo : ShutdownPriority[chosen] <= ShutdownPriority[p]
    /\ pc \in {"stopped", "exited"} =>
          \A o \in Registered : life[o] = "stopped"

\* RegInv is kept by every step.
LEMMA RegNext == TypeOK /\ RegInv /\ [Next]_vars => RegInv'
<1> SUFFICES ASSUME TypeOK, RegInv, [Next]_vars PROVE RegInv'
  OBVIOUS
<1> USE CoreAssumption
    DEF RegInv, Due, Registered, TypeOK, ChosenInv, Calling, mainVars,
        objVars
<1>1. CASE UNCHANGED vars
  BY <1>1 DEF vars
<1>2. CASE Main
  <2>1. CASE Run \/ Sunrise \/ SunriseDone \/ Risen
    BY <2>1 DEF Run, Sunrise, SunriseDone, Risen
  <2>2. CASE VisitConfigure
    BY <2>2 DEF VisitConfigure, Visit
  <2>3. CASE VisitInitialize \/ VisitStart
    BY <2>3 DEF VisitInitialize, VisitStart, Visit, Earliest
  <2>4. CASE VisitStop
    BY <2>4 DEF VisitStop, Earliest
  <2>5. CASE ConfigureObject
    <3>1. \A o \in Objects : conf[o] # 0 => conf'[o] # 0
      BY <2>5 DEF ConfigureObject
    <3> QED
      BY <2>5, <3>1 DEF ConfigureObject, Called
  <2>6. CASE ConfigureFails
    BY <2>6 DEF ConfigureFails
  <2>7. CASE InitializeObject
    BY <2>7 DEF InitializeObject, Called
  <2>8. CASE StartObject
    BY <2>8 DEF StartObject, Called
  <2>9. CASE BeginInitialize \/ BeginStart
    BY <2>9 DEF BeginInitialize, BeginStart, Phase
  <2>10. CASE IdleStop \/ IdleReconfigure \/ ClearReconfigure
    BY <2>10 DEF IdleStop, IdleReconfigure, ClearReconfigure
  <2>11. CASE Unwind \/ Return
    BY <2>11 DEF Unwind, Return
  <2>12. CASE StopObject
    BY <2>12 DEF StopObject
  <2> QED
    BY <1>2, <2>1, <2>2, <2>3, <2>4, <2>5, <2>6, <2>7, <2>8, <2>9, <2>10,
       <2>11, <2>12 DEF Main
<1>3. ASSUME NEW t \in Threads, Control(t) \/ DoStore(t) PROVE RegInv'
  BY <1>3 DEF Control, CoreStop, CoreRestart, CoreAbort, CoreReconfigure,
              SignalHandler, Begin, DoStore
<1> QED
  BY <1>1, <1>2, <1>3 DEF Next

\* StopInv is kept by every step.
LEMMA StopNext == TypeOK /\ RegInv /\ StopInv /\ [Next]_vars => StopInv'
<1> SUFFICES ASSUME TypeOK, RegInv, StopInv, [Next]_vars PROVE StopInv'
  OBVIOUS
<1> USE CoreAssumption
    DEF StopInv, RegInv, Due, Registered, TypeOK, ChosenInv, Calling,
        mainVars, objVars
<1>1. CASE UNCHANGED vars
  BY <1>1 DEF vars
<1>2. CASE Main
  <2>1. CASE Run \/ Sunrise \/ SunriseDone \/ Risen
    BY <2>1 DEF Run, Sunrise, SunriseDone, Risen
  <2>2. CASE VisitConfigure \/ VisitInitialize \/ VisitStart
    BY <2>2 DEF VisitConfigure, VisitInitialize, VisitStart, Visit
  <2>3. CASE VisitStop
    <3>1. CASE todo = {}
      BY <2>3, <3>1 DEF VisitStop
    <3>2. CASE todo # {}
      <4>1. /\ pc = "stop" /\ pc' = "stopping"
            /\ chosen' \in todo /\ todo' = todo \ {chosen'}
            /\ \A p \in todo : ShutdownPriority[chosen'] <= ShutdownPriority[p]
            /\ UNCHANGED <<conf, life>>
        BY <2>3, <3>2 DEF VisitStop, Earliest
      <4>2. Due' = Due /\ Registered' = Registered
        BY <4>1
      <4> QED
        BY <4>1, <4>2
    <3> QED
      BY <3>1, <3>2
  <2>4. CASE ConfigureObject \/ InitializeObject \/ StartObject
    BY <2>4, SMTT(60) DEF ConfigureObject, InitializeObject, StartObject, Called
  <2>5. CASE ConfigureFails
    BY <2>5 DEF ConfigureFails
  <2>6. CASE BeginInitialize \/ BeginStart
    BY <2>6 DEF BeginInitialize, BeginStart, Phase
  <2>7. CASE IdleStop \/ IdleReconfigure \/ ClearReconfigure
    BY <2>7 DEF IdleStop, IdleReconfigure, ClearReconfigure
  <2>8. CASE Unwind
    BY <2>8 DEF Unwind
  <2>9. CASE StopObject
    <3>1. /\ pc = "stopping" /\ pc' = "stop"
          /\ chosen \in Objects /\ chosen' = NoObject
          /\ life' = [life EXCEPT ![chosen] = "stopped"]
          /\ UNCHANGED <<todo, conf>>
      BY <2>9 DEF StopObject
    <3>2. Due' = todo /\ Due = todo \cup {chosen} /\ Registered' = Registered
      BY <3>1
    <3>3. chosen \notin todo
      BY <3>1
    <3> QED
      BY <3>1, <3>2, <3>3, SMTT(60)
  <2>10. CASE Return
    BY <2>10 DEF Return
  <2> QED
    BY <1>2, <2>1, <2>2, <2>3, <2>4, <2>5, <2>6, <2>7, <2>8, <2>9, <2>10
       DEF Main
<1>3. ASSUME NEW t \in Threads, Control(t) \/ DoStore(t) PROVE StopInv'
  BY <1>3 DEF Control, CoreStop, CoreRestart, CoreAbort, CoreReconfigure,
              SignalHandler, Begin, DoStore
<1> QED
  BY <1>1, <1>2, <1>3 DEF Next

\* Both hold when the process starts.
LEMMA StopInit == Init => RegInv /\ StopInv
BY CoreAssumption DEF Init, RegInv, StopInv, Registered, Due

\* Objects are stopped in the order of shutdown_priority, all of them.
THEOREM StopsInOrder == Spec => []StopInOrder
<1>1. TypeOK /\ RegInv /\ StopInv => StopInOrder
  <2> SUFFICES ASSUME TypeOK, RegInv, StopInv PROVE StopInOrder
    OBVIOUS
  <2>1. ASSUME NEW o \in Registered, NEW p \in Registered,
               life[o] = "stopped", life[p] # "stopped"
        PROVE  ShutdownPriority[o] <= ShutdownPriority[p]
    <3>1. pc \in {"stop", "stopping"}
      BY <2>1 DEF StopInv, Registered
    <3>2. o \in Registered \ Due /\ p \in Due
      BY <2>1, <3>1 DEF StopInv
    <3> QED
      BY <3>1, <3>2 DEF StopInv
  <2> QED
    BY <2>1 DEF StopInOrder, StopInv
<1> QED
  BY <1>1, TypeInit, TypeNext, StopInit, RegNext, StopNext, PTL DEF Spec

-----------------------------------------------------------------------------
(* The core implements Lifecycle.                                            *)

\* No control call is begun before run(), so no stop is wanted by then; while
\* the daemon goes down it is.
WantedInv ==
    /\ pc = "boot" => /\ flags \subseteq {"_restart_flag"}
                      /\ \A t \in Threads : calls[t] = <<>>
    /\ pc \in {"unwind", "stop", "stopping", "stopped", "exited"} =>
          Up("_stop_flag")

\* WantedInv is kept by every step.
LEMMA WantedNext == WantedInv /\ [Next]_vars => WantedInv'
<1> SUFFICES ASSUME WantedInv, [Next]_vars PROVE WantedInv'
  OBVIOUS
<1> USE DEF WantedInv, mainVars
<1>1. CASE UNCHANGED vars
  BY <1>1 DEF vars, Up
<1>2. CASE Main
  <2>1. pc' # "boot"
    BY <1>2 DEF Main, Run, Sunrise, SunriseDone, Risen, VisitConfigure,
       VisitInitialize, VisitStart, Visit, VisitStop, ConfigureObject,
       ConfigureFails, InitializeObject, StartObject, Called, BeginInitialize,
       BeginStart, Phase, IdleStop, IdleReconfigure, ClearReconfigure, Unwind,
       StopObject, Return
  <2>2. Up("_stop_flag") => Up("_stop_flag")'
    BY <1>2 DEF Main, Run, Sunrise, SunriseDone, Risen, VisitConfigure,
       VisitInitialize, VisitStart, Visit, VisitStop, ConfigureObject,
       ConfigureFails, InitializeObject, StartObject, Called, BeginInitialize,
       BeginStart, Phase, IdleStop, IdleReconfigure, ClearReconfigure, Unwind,
       StopObject, Return, Up
  <2>3. CASE pc \in {"unwind", "stop", "stopping", "stopped", "exited"}
    BY <2>1, <2>2, <2>3
  <2>4. CASE IdleStop
    BY <2>1, <2>4 DEF IdleStop, Up
  <2>5. CASE pc \notin {"unwind", "stop", "stopping", "stopped", "exited"}
             /\ ~IdleStop
    <3>1. pc' \notin {"unwind", "stop", "stopping", "stopped", "exited"}
      BY <1>2, <2>5 DEF Main, Run, Sunrise, SunriseDone, Risen, VisitConfigure,
       VisitInitialize, VisitStart, Visit, VisitStop, ConfigureObject,
       ConfigureFails, InitializeObject, StartObject, Called, BeginInitialize,
       BeginStart, Phase, IdleReconfigure, ClearReconfigure, Unwind,
       StopObject, Return
    <3> QED
      BY <2>1, <3>1
  <2> QED
    BY <2>3, <2>4, <2>5
<1>3. ASSUME NEW t \in Threads, Control(t) \/ DoStore(t) PROVE WantedInv'
  BY <1>3 DEF Control, CoreStop, CoreRestart, CoreAbort, CoreReconfigure,
              SignalHandler, Begin, DoStore, Up
<1> QED
  BY <1>1, <1>2, <1>3 DEF Next

\* What the refinement mapping maps to.
Phase_ == CASE pc = "exited" -> "gone"
            [] pc \in {"unwind", "stop", "stopping", "stopped"} -> "down"
            [] OTHER -> "up"
Alive_  == {o \in Objects : life[o] = "started"}
Wanted_ == Up("_stop_flag") \/ Up("gs_stop_signal")

RefInv == TypeOK /\ RegInv /\ StopInv /\ WantedInv

\* Every step of the core is a step of Lifecycle or changes nothing of it.
LEMMA RefNext == RefInv /\ [Next]_vars => [Implemented!Next]_(Implemented!vars)
<1> SUFFICES ASSUME RefInv, [Next]_vars
             PROVE  Implemented!Next \/ UNCHANGED <<Phase_, Alive_, Wanted_>>
  BY DEF Implemented!vars, Phase_, Alive_, Wanted_
<1>w. ASSUME Wanted_', UNCHANGED <<Phase_, Alive_>> PROVE Implemented!Next
  BY <1>w DEF Implemented!Next, Implemented!Want, Phase_, Alive_, Wanted_
<1>m. ASSUME UNCHANGED <<Phase_, Alive_>>, Wanted_ => Wanted_'
      PROVE  Implemented!Next \/ UNCHANGED <<Phase_, Alive_, Wanted_>>
  BY <1>w, <1>m DEF Wanted_
<1> USE DEF RefInv, TypeOK, ChosenInv, Calling, mainVars, objVars, Up
<1>1. CASE UNCHANGED vars
  BY <1>1 DEF vars, Phase_, Alive_, Wanted_
<1>2. CASE Main
  <2>1. CASE Run
    BY <2>1, <1>m DEF Run, WantedInv, Phase_, Alive_, Wanted_
  <2>2. CASE Sunrise \/ SunriseDone \/ Risen
    BY <2>2, <1>m DEF Sunrise, SunriseDone, Risen, Phase_, Alive_, Wanted_
  <2>3. CASE VisitConfigure \/ VisitInitialize \/ VisitStart
    BY <2>3, <1>m DEF VisitConfigure, VisitInitialize, VisitStart, Visit,
       Phase_, Alive_, Wanted_
  <2>4. CASE ConfigureObject
    BY <2>4, <1>m DEF ConfigureObject, Called, Phase_, Alive_, Wanted_
  <2>5. CASE ConfigureFails
    BY <2>5, <1>m DEF ConfigureFails, Phase_, Alive_, Wanted_
  <2>6. CASE InitializeObject
    <3>1. Alive_' = Alive_
      BY <2>6 DEF InitializeObject, Called, Alive_
    <3> QED
      BY <2>6, <3>1, <1>m DEF InitializeObject, Called, Phase_, Wanted_
  <2>7. CASE StartObject
    <3>1. PICK o \in Objects : o = chosen
      BY <2>7 DEF StartObject
    <3>2. Alive_' = Alive_ \cup {o}
      BY <2>7, <3>1 DEF StartObject, Called, Alive_
    <3>3. Phase_ = "up" /\ Phase_' = "up"
      BY <2>7 DEF StartObject, Called, Phase_
    <3>4. Wanted_' \in {Wanted_, TRUE}
      BY <2>7 DEF StartObject, Called, Wanted_, AbortFlags
    <3>5. Implemented!Enter(o)
      BY <3>2, <3>3, <3>4, Zenon DEF Implemented!Enter, Phase_, Alive_, Wanted_
    <3> QED
      BY <3>5 DEF Implemented!Next
  <2>8. CASE BeginInitialize \/ BeginStart
    BY <2>8, <1>m DEF BeginInitialize, BeginStart, Phase, Phase_, Alive_, Wanted_
  <2>9. CASE IdleStop
    <3>1. Phase_ = "up" /\ Phase_' = "down" /\ Wanted_ /\ Wanted_'
            /\ Alive_' = Alive_
      BY <2>9 DEF IdleStop, Phase_, Wanted_, Alive_
    <3>2. Implemented!Turn
      BY <3>1 DEF Implemented!Turn, Phase_, Wanted_, Alive_
    <3> QED
      BY <3>2 DEF Implemented!Next, Implemented!Down
  <2>10. CASE IdleReconfigure \/ ClearReconfigure
    BY <2>10, <1>m DEF IdleReconfigure, ClearReconfigure, Phase_, Alive_, Wanted_
  <2>11. CASE Unwind \/ VisitStop
    BY <2>11, <1>m DEF Unwind, VisitStop, Phase_, Alive_, Wanted_
  <2>12. CASE StopObject
    <3>1. PICK o \in Objects : o = chosen
      BY <2>12 DEF StopObject
    <3>2. /\ pc = "stopping" /\ pc' = "stop"
          /\ life' = [life EXCEPT ![o] = "stopped"]
      BY <2>12, <3>1 DEF StopObject
    <3>3. Phase_ = "down" /\ Phase_' = "down" /\ Alive_' = Alive_ \ {o}
      BY <3>2 DEF Phase_, Alive_
    <3>4. Wanted_ /\ Wanted_'
      BY <2>12 DEF StopObject, WantedInv, Wanted_
    <3>5. CASE o \notin Alive_
      BY <3>3, <3>4, <3>5, <1>m
    <3>6. CASE o \in Alive_
      <4>1. \A p \in Alive_ : p \in todo \cup {o}
        BY <3>1, <3>2 DEF Alive_, RegInv, StopInv, Registered, Due
      <4>2. \A p \in todo : ShutdownPriority[o] <= ShutdownPriority[p]
        BY <3>1, <3>2 DEF StopInv
      <4>3. ShutdownPriority[o] \in Int
        BY CoreAssumption
      <4>4. \A p \in Alive_ : ShutdownPriority[o] <= ShutdownPriority[p]
        BY <4>1, <4>2, <4>3
      <4>5. Wanted_' = Wanted_
        BY <3>4 DEF Wanted_
      <4>6. Implemented!Leave(o)
        BY <3>3, <3>6, <4>4, <4>5, Zenon
           DEF Implemented!Leave, Phase_, Alive_, Wanted_
      <4> QED
        BY <4>6 DEF Implemented!Next, Implemented!Down
    <3> QED
      BY <3>5, <3>6
  <2>13. CASE Return
    <3>1. Phase_ = "down" /\ Phase_' = "gone" /\ Wanted_' = Wanted_
            /\ Alive_' = Alive_
      BY <2>13 DEF Return, Phase_, Wanted_, Alive_
    <3>2. Alive_ = {}
      BY <2>13 DEF Return, Alive_, StopInv, RegInv, Registered
    <3>3. Implemented!End
      BY <3>1, <3>2 DEF Implemented!End, Phase_, Wanted_, Alive_
    <3> QED
      BY <3>3 DEF Implemented!Next, Implemented!Down
  <2> QED
    BY <1>2, <2>1, <2>2, <2>3, <2>4, <2>5, <2>6, <2>7, <2>8, <2>9, <2>10,
       <2>11, <2>12, <2>13 DEF Main
<1>3. ASSUME NEW t \in Threads, Control(t) \/ DoStore(t)
      PROVE  Implemented!Next \/ UNCHANGED <<Phase_, Alive_, Wanted_>>
  BY <1>3, <1>m DEF Control, CoreStop, CoreRestart, CoreAbort, CoreReconfigure,
     SignalHandler, Begin, DoStore, Phase_, Alive_, Wanted_
<1> QED
  BY <1>1, <1>2, <1>3 DEF Next

\* The core implements Lifecycle (its safety part): no object comes alive once
\* the daemon has turned down, the live ones leave in order, and the process
\* ends after the last of them.
THEOREM CoreImplementsLifecycle == Spec => ImplementsLifecycleSafely
<1>1. Init => Implemented!Init
  BY DEF Init, Implemented!Init, Up
<1>2. Init => WantedInv
  BY DEF Init, WantedInv, Up
<1>3. RefInv /\ [Next]_vars => RefInv'
  BY TypeNext, RegNext, StopNext, WantedNext DEF RefInv
<1>4. Init => RefInv
  BY <1>2, TypeInit, StopInit DEF RefInv
<1> QED
  BY <1>1, <1>3, <1>4, RefNext, PTL
     DEF Spec, ImplementsLifecycleSafely, Implemented!SafeSpec

-----------------------------------------------------------------------------
(* What is still to be stored by a call.                                     *)

\* The stores of a call are its next store and the rest.
LEMMA HasTail ==
    ASSUME NEW s \in Seq(Store), s # <<>>, NEW f
    PROVE  Has(s, f) <=> Head(s) = f \/ Has(Tail(s), f)
<1>1. Len(s) \in Nat \ {0} /\ DOMAIN s = 1..Len(s) /\ Head(s) = s[1]
  OBVIOUS
<1>2. DOMAIN Tail(s) = 1..(Len(s) - 1)
         /\ \A i \in 1..(Len(s) - 1) : Tail(s)[i] = s[i + 1]
  BY <1>1
<1>3. ASSUME Has(s, f), Head(s) # f PROVE Has(Tail(s), f)
  <2>1. PICK i \in 1..Len(s) : s[i] = f
    BY <1>1, <1>3 DEF Has
  <2>2. i # 1 /\ i - 1 \in 1..(Len(s) - 1)
    BY <1>1, <1>3, <2>1
  <2>3. Tail(s)[i - 1] = f
    BY <1>2, <2>1, <2>2
  <2> QED
    BY <1>2, <2>2, <2>3 DEF Has
<1>4. ASSUME Has(Tail(s), f) PROVE Has(s, f)
  <2>1. PICK i \in 1..(Len(s) - 1) : Tail(s)[i] = f
    BY <1>2, <1>4 DEF Has
  <2>2. i + 1 \in 1..Len(s) /\ s[i + 1] = f
    BY <1>1, <1>2, <2>1
  <2> QED
    BY <1>1, <2>2 DEF Has
<1>5. Head(s) = f => Has(s, f)
  BY <1>1 DEF Has
<1> QED
  BY <1>3, <1>4, <1>5

\* A finished call stores nothing.
LEMMA HasNone == ASSUME NEW f PROVE ~Has(<<>>, f)
BY DEF Has

\* What calls of one, two, three and four stores have to store.
LEMMA HasOne == ASSUME NEW f, NEW a PROVE Has(<<a>>, f) <=> f = a
<1>1. DOMAIN <<a>> = {1} /\ <<a>>[1] = a
  OBVIOUS
<1> QED
  BY <1>1 DEF Has

\* What is left of a call of two stores after the first.
LEMMA TailTwo == ASSUME NEW a, NEW b PROVE Tail(<<a, b>>) = <<b>>
OBVIOUS

\* The same for two stores.
LEMMA HasTwo ==
    ASSUME NEW f, NEW a, NEW b
    PROVE  Has(<<a, b>>, f) <=> f \in {a, b}
<1>1. DOMAIN <<a, b>> = {1, 2} /\ <<a, b>>[1] = a /\ <<a, b>>[2] = b
  OBVIOUS
<1> QED
  BY <1>1 DEF Has

\* The same for three stores.
LEMMA HasThree ==
    ASSUME NEW f, NEW a, NEW b, NEW c
    PROVE  Has(<<a, b, c>>, f) <=> f \in {a, b, c}
<1>1. DOMAIN <<a, b, c>> = {1, 2, 3} /\ <<a, b, c>>[1] = a
         /\ <<a, b, c>>[2] = b /\ <<a, b, c>>[3] = c
  OBVIOUS
<1> QED
  BY <1>1 DEF Has

\* The same for four stores.
LEMMA HasFour ==
    ASSUME NEW f, NEW a, NEW b, NEW c, NEW d
    PROVE  Has(<<a, b, c, d>>, f) <=> f \in {a, b, c, d}
<1>1. DOMAIN <<a, b, c, d>> = {1, 2, 3, 4} /\ <<a, b, c, d>>[1] = a
         /\ <<a, b, c, d>>[2] = b /\ <<a, b, c, d>>[3] = c
         /\ <<a, b, c, d>>[4] = d
  OBVIOUS
<1> QED
  BY <1>1 DEF Has

\* A stop is announced by the call that asks for it, or was announced before:
\* core_abort leaves stop_signal_flag alone only when it finds it up. A reload
\* that has still to replace the configuration has still to make its request.
CallInv ==
    \A t \in Threads :
        /\ Has(calls[t], "_stop_flag") \/ Has(calls[t], "gs_stop_signal")
              => Has(calls[t], "stop_signal_flag") \/ Up("stop_signal_flag")
        /\ Has(calls[t], "_mainconf") =>
              calls[t] = <<"_mainconf", "_reconfigure_flag">>

\* No flag but the reconfigure request falls once run() is under way.
LEMMA FlagsRise ==
    ASSUME Main, NEW f, f \notin {"_reconfigure_flag", "gs_stop_signal"}
    PROVE  Up(f) => Up(f)'
BY DEF Main, Run, Sunrise, SunriseDone, Risen, VisitConfigure,
   VisitInitialize, VisitStart, Visit, VisitStop, ConfigureObject,
   ConfigureFails, InitializeObject, StartObject, Called, BeginInitialize,
   BeginStart, Phase, IdleStop, IdleReconfigure, ClearReconfigure, Unwind,
   StopObject, Return, Up

\* The main thread leaves the calls of others and the configuration alone.
LEMMA MainFrame == Main => UNCHANGED <<calls, mainconf>>
BY DEF Main, Run, Sunrise, SunriseDone, Risen, VisitConfigure,
   VisitInitialize, VisitStart, Visit, VisitStop, ConfigureObject,
   ConfigureFails, InitializeObject, StartObject, Called, BeginInitialize,
   BeginStart, Phase, IdleStop, IdleReconfigure, ClearReconfigure, Unwind,
   StopObject, Return

\* The two promises of CallInv for one call.
Announces(stores) ==
    /\ Has(stores, "_stop_flag") \/ Has(stores, "gs_stop_signal")
          => Has(stores, "stop_signal_flag") \/ Up("stop_signal_flag")
    /\ Has(stores, "_mainconf") => stores = <<"_mainconf", "_reconfigure_flag">>

\* CallInv is kept by every step.
LEMMA CallNext == TypeOK /\ CallInv /\ [Next]_vars => CallInv'
<1> SUFFICES ASSUME TypeOK, CallInv, [Next]_vars PROVE CallInv'
  OBVIOUS
<1>1. CASE UNCHANGED vars
  BY <1>1 DEF vars, CallInv, Has, Up
<1>2. CASE Main
  <2>1. calls' = calls /\ (Up("stop_signal_flag") => Up("stop_signal_flag")')
    BY <1>2, FlagsRise, MainFrame
  <2> QED
    BY <2>1 DEF CallInv, Has
<1>3. ASSUME NEW t \in Threads, Control(t) PROVE CallInv'
  <2>1. flags' = flags /\ \A u \in Threads \ {t} : calls'[u] = calls[u]
    BY <1>3 DEF TypeOK, Control, CoreStop, CoreRestart, CoreAbort,
                CoreReconfigure, SignalHandler, Begin
  <2>2. \/ calls'[t] = <<"_stop_flag", "stop_signal_flag">>
        \/ calls'[t] = <<"_stop_flag", "_restart_flag", "stop_signal_flag">>
        \/ /\ calls'[t] = <<"gs_stop_signal", "_stop_flag", "_abort_flag">>
           /\ Up("stop_signal_flag")
        \/ calls'[t] = <<"stop_signal_flag", "gs_stop_signal", "_stop_flag",
                         "_abort_flag">>
        \/ calls'[t] = <<"_mainconf", "_reconfigure_flag">>
        \/ calls'[t] = <<"stop_signal_flag", "gs_stop_signal">>
    BY <1>3 DEF TypeOK, Control, CoreStop, CoreRestart, CoreAbort,
                CoreReconfigure, SignalHandler, Begin
  <2>3. Announces(calls'[t])
    <3>1. CASE calls'[t] = <<"_stop_flag", "stop_signal_flag">>
      BY <3>1, HasTwo DEF Announces
    <3>2. CASE calls'[t] = <<"_stop_flag", "_restart_flag", "stop_signal_flag">>
      BY <3>2, HasThree DEF Announces
    <3>3. CASE /\ calls'[t] = <<"gs_stop_signal", "_stop_flag", "_abort_flag">>
               /\ Up("stop_signal_flag")
      BY <3>3, HasThree DEF Announces
    <3>4. CASE calls'[t] = <<"stop_signal_flag", "gs_stop_signal",
                             "_stop_flag", "_abort_flag">>
      BY <3>4, HasFour DEF Announces
    <3>5. CASE calls'[t] = <<"_mainconf", "_reconfigure_flag">>
      BY <3>5, HasTwo DEF Announces
    <3>6. CASE calls'[t] = <<"stop_signal_flag", "gs_stop_signal">>
      BY <3>6, HasTwo DEF Announces
    <3> QED
      BY <2>2, <3>1, <3>2, <3>3, <3>4, <3>5, <3>6
  <2>4. \A u \in Threads : Announces(calls'[u])
    BY <2>1, <2>3 DEF CallInv, Announces
  <2> QED
    BY <2>1, <2>4 DEF CallInv, Announces, Up
<1>4. ASSUME NEW t \in Threads, DoStore(t) PROVE CallInv'
  <2>1. /\ calls[t] \in Seq(Store) /\ calls[t] # <<>>
        /\ calls'[t] = Tail(calls[t])
        /\ \A u \in Threads \ {t} : calls'[u] = calls[u]
    BY <1>4 DEF TypeOK, DoStore
  <2>2. ASSUME NEW f
        PROVE  Has(calls[t], f) <=> Head(calls[t]) = f \/ Has(calls'[t], f)
    BY <2>1, HasTail
  <2>3. /\ Up("stop_signal_flag") => Up("stop_signal_flag")'
        /\ Head(calls[t]) = "stop_signal_flag" => Up("stop_signal_flag")'
    BY <1>4 DEF DoStore, Up
  <2>4. ASSUME NEW u \in Threads
        PROVE  /\ Has(calls'[u], "_stop_flag") \/ Has(calls'[u], "gs_stop_signal")
                    => Has(calls'[u], "stop_signal_flag") \/ Up("stop_signal_flag")'
               /\ Has(calls'[u], "_mainconf") =>
                     calls'[u] = <<"_mainconf", "_reconfigure_flag">>
    <3>1. CASE u # t
      BY <2>1, <2>3, <3>1 DEF CallInv
    <3>2. CASE u = t
      <4>1. \A f \in Store :
                Has(calls[t], f) <=> Head(calls[t]) = f \/ Has(calls'[t], f)
        BY <2>2
      <4>2. {"_stop_flag", "gs_stop_signal", "stop_signal_flag", "_mainconf",
             "_reconfigure_flag"} \subseteq Store
        BY DEF Store, Flag
      <4>3. Has(calls'[u], "_stop_flag") \/ Has(calls'[u], "gs_stop_signal")
              => Has(calls'[u], "stop_signal_flag") \/ Up("stop_signal_flag")'
        BY <2>3, <3>2, <4>1, <4>2 DEF CallInv
      <4>4. ~Has(calls'[u], "_mainconf")
        <5>1. CASE Has(calls[t], "_mainconf")
          <6>1. calls'[t] = <<"_reconfigure_flag">>
            BY <2>1, <5>1, TailTwo DEF CallInv
          <6> QED
            BY <3>2, <6>1, HasOne
        <5>2. CASE ~Has(calls[t], "_mainconf")
          BY <3>2, <4>1, <4>2, <5>2
        <5> QED
          BY <5>1, <5>2
      <4> QED
        BY <4>3, <4>4
    <3> QED
      BY <3>1, <3>2
  <2> QED
    BY <2>4 DEF CallInv, Up
<1> QED
  BY <1>1, <1>2, <1>3, <1>4 DEF Next

\* A stop that is seen is announced or about to be.
AnnounceInv ==
    Up("_stop_flag") \/ Up("gs_stop_signal") =>
        Up("stop_signal_flag") \/ Pending("stop_signal_flag")

\* AnnounceInv is kept by every step.
LEMMA AnnounceNext ==
    TypeOK /\ CallInv /\ AnnounceInv /\ WantedInv /\ [Next]_vars => AnnounceInv'
<1> SUFFICES ASSUME TypeOK, CallInv, AnnounceInv, WantedInv, [Next]_vars
             PROVE  AnnounceInv'
  OBVIOUS
<1>1. CASE UNCHANGED vars
  BY <1>1 DEF vars, AnnounceInv, Pending, Has, Up
<1>2. CASE Main
  <2>1. Pending("stop_signal_flag")' = Pending("stop_signal_flag")
    BY <1>2, MainFrame DEF Pending, Has
  <2>2. Up("stop_signal_flag") => Up("stop_signal_flag")'
    BY <1>2, FlagsRise
  <2>3. \/ Up("_stop_flag") \/ Up("gs_stop_signal")
        \/ ~(Up("_stop_flag") \/ Up("gs_stop_signal"))'
        \/ Up("stop_signal_flag")'
    BY <1>2 DEF Main, Run, Sunrise, SunriseDone, Risen, VisitConfigure,
       VisitInitialize, VisitStart, Visit, VisitStop, ConfigureObject,
       ConfigureFails, InitializeObject, StartObject, Called, BeginInitialize,
       BeginStart, Phase, IdleStop, IdleReconfigure, ClearReconfigure, Unwind,
       StopObject, Return, Up, AbortFlags, WantedInv
  <2> QED
    BY <2>1, <2>2, <2>3 DEF AnnounceInv
<1>3. ASSUME NEW t \in Threads, Control(t) PROVE AnnounceInv'
  <2>1. flags' = flags /\ calls[t] = <<>>
           /\ \A u \in Threads \ {t} : calls'[u] = calls[u]
    BY <1>3 DEF TypeOK, Control, CoreStop, CoreRestart, CoreAbort,
                CoreReconfigure, SignalHandler, Begin
  <2>2. ~Has(calls[t], "stop_signal_flag")
    BY <2>1, HasNone
  <2> QED
    BY <2>1, <2>2 DEF AnnounceInv, Pending, Up
<1>4. ASSUME NEW t \in Threads, DoStore(t) PROVE AnnounceInv'
  <2>1. /\ calls[t] \in Seq(Store) /\ calls[t] # <<>>
        /\ calls'[t] = Tail(calls[t])
        /\ \A u \in Threads \ {t} : calls'[u] = calls[u]
    BY <1>4 DEF TypeOK, DoStore
  <2>2. \A f : Has(calls[t], f) <=> Head(calls[t]) = f \/ Has(calls'[t], f)
    BY <2>1, HasTail
  <2>3. /\ Up("stop_signal_flag") => Up("stop_signal_flag")'
        /\ Head(calls[t]) = "stop_signal_flag" => Up("stop_signal_flag")'
        /\ \A f : Up(f)' => Up(f) \/ Head(calls[t]) = f
    BY <1>4 DEF DoStore, Up
  <2>4. Pending("stop_signal_flag") =>
            Up("stop_signal_flag")' \/ Pending("stop_signal_flag")'
    BY <2>1, <2>2, <2>3 DEF Pending
  <2>5. CASE Head(calls[t]) \in {"_stop_flag", "gs_stop_signal"}
    <3>1. Has(calls[t], "stop_signal_flag") \/ Up("stop_signal_flag")
      BY <2>2, <2>5 DEF CallInv
    <3> QED
      BY <2>3, <2>4, <3>1 DEF Pending, AnnounceInv
  <2>6. CASE Head(calls[t]) \notin {"_stop_flag", "gs_stop_signal"}
    BY <2>3, <2>4, <2>6 DEF AnnounceInv
  <2> QED
    BY <2>5, <2>6
<1> QED
  BY <1>1, <1>2, <1>3, <1>4 DEF Next

\* Nothing is pending when the process starts.
LEMMA CallInit == Init => CallInv /\ AnnounceInv
BY HasNone DEF Init, CallInv, AnnounceInv, Up

\* While objects are being stopped the stop is announced or about to be.
THEOREM ShutdownIsAnnounced == Spec => []ShutdownAnnounced
<1>1. WantedInv /\ AnnounceInv => ShutdownAnnounced
  BY DEF WantedInv, AnnounceInv, ShutdownAnnounced
<1>2. Init => WantedInv
  BY DEF Init, WantedInv, Up
<1> QED
  BY <1>1, <1>2, TypeInit, TypeNext, WantedNext, CallInit, CallNext,
     AnnounceNext, PTL DEF Spec
-----------------------------------------------------------------------------
(* Preparation: what the phases of a sunrise leave behind.                   *)

\* An object that is not marked reconfigured is initialized with its last
\* configuration; the marked ones are due in _initialize, so none is left
\* when _start begins, nor later unless the daemon is halting.
PrepareInv ==
    /\ reconfigured \subseteq Registered
    /\ \A o \in Registered \ reconfigured :
          life[o] # "none" /\ applied[o] = conf[o]
    /\ pc \in {"initialize", "initializing"} => reconfigured \subseteq Due
    /\ pc = "initialized" => reconfigured = {} \/ Up("_abort_flag")
    /\ pc \in {"start", "starting"} => reconfigured = {}
    /\ pc \in {"sunriseDone", "risen", "loop"} => reconfigured = {} \/ Halting

\* The stage tells the phase, and IS_RUN is reached only through all of them.
StageInv ==
    /\ pc \in {"configure", "configuring", "configured"} =>
          stage \in {"CONFIGURING", "UNDEFINED"}
    /\ pc \in {"initialize", "initializing", "initialized"} =>
          stage = "INITIALIZING"
    /\ pc \in {"start", "starting"} =>
          /\ stage = "STARTING"
          /\ \A o \in Registered \ Due : life[o] = "started"
    /\ pc = "sunriseDone" =>
          /\ stage # "IS_RUN"
          /\ stage = "STARTING" =>
                /\ reconfigured = {}
                /\ Up("_abort_flag") \/ \A o \in Registered : life[o] = "started"
    /\ stage = "IS_RUN" =>
          /\ pc \in {"risen", "loop", "reconfigure", "sunrise", "unwind"}
          /\ reconfigured = {}
          /\ \A o \in Registered : life[o] = "started"

Requested == Up("_reconfigure_flag") \/ Pending("_reconfigure_flag")

\* o was configured with its section of the configuration in force.
Current(o) == Section[mainconf][o] # 0 => conf[o] = Section[mainconf][o]

\* What _configure has passed is current, and stays so up to the main loop,
\* unless another reload is requested or the daemon is halting.
CurrentInv ==
    /\ pc \in {"configure", "configuring"} =>
          \/ Requested \/ Halting
          \/ \A o \in Objects \ Due : Current(o)
    /\ pc \in {"configured", "initialize", "initializing", "initialized",
              "start", "starting", "sunriseDone", "risen", "loop"} =>
          \/ Requested \/ Halting
          \/ \A o \in Objects : Current(o)

\* A halting daemon stays so.
LEMMA HaltingStays ==
    ASSUME [Next]_vars, WantedInv, pc # "boot" PROVE Halting => Halting'
<1> USE DEF Halting, Up, mainVars
<1>1. CASE UNCHANGED vars
  BY <1>1 DEF vars
<1>2. CASE Main
  BY <1>2 DEF Main, Run, Sunrise, SunriseDone, Risen, VisitConfigure,
     VisitInitialize, VisitStart, Visit, VisitStop, ConfigureObject,
     ConfigureFails, InitializeObject, StartObject, Called, BeginInitialize,
     BeginStart, Phase, IdleStop, IdleReconfigure, ClearReconfigure, Unwind,
     StopObject, Return
<1>3. ASSUME NEW t \in Threads, Control(t) \/ DoStore(t)
      PROVE  Halting => Halting'
  BY <1>3 DEF Control, CoreStop, CoreRestart, CoreAbort, CoreReconfigure,
              SignalHandler, Begin, DoStore
<1> QED
  BY <1>1, <1>2, <1>3 DEF Next

\* PrepareInv is kept by every step.
LEMMA PrepareNext ==
    TypeOK /\ RegInv /\ WantedInv /\ PrepareInv /\ [Next]_vars => PrepareInv'
<1> SUFFICES ASSUME TypeOK, RegInv, WantedInv, PrepareInv, [Next]_vars
             PROVE  PrepareInv'
  OBVIOUS
<1>h. pc # "boot" => (Halting => Halting')
  BY HaltingStays
<1> USE CoreAssumption
    DEF PrepareInv, RegInv, Due, Registered, TypeOK, ChosenInv,
        Calling, mainVars, objVars
<1>1. CASE UNCHANGED vars
  BY <1>1, <1>h DEF vars, Up, Halting
<1>2. CASE Main
  <2>1. CASE Run \/ Sunrise \/ SunriseDone \/ Risen
    BY <2>1, <1>h DEF Run, Sunrise, SunriseDone, Risen, Up
  <2>2. CASE VisitConfigure \/ VisitStop
    BY <2>2 DEF VisitConfigure, VisitStop, Visit
  <2>3. CASE VisitInitialize
    BY <2>3 DEF VisitInitialize, Visit, Earliest, Up
  <2>4. CASE VisitStart
    BY <2>4 DEF VisitStart, Visit, Earliest
  <2>5. CASE ConfigureObject
    <3>1. \/ UNCHANGED <<conf, reconfigured>>
          \/ /\ conf' = [conf EXCEPT ![chosen] = Section[mainconf][chosen]]
             /\ Section[mainconf][chosen] # 0
             /\ reconfigured' = reconfigured \cup {chosen}
      BY <2>5 DEF ConfigureObject
    <3>2. pc' = "configure" /\ UNCHANGED <<applied, life>> /\ chosen \in Objects
      BY <2>5 DEF ConfigureObject, Called
    <3>3. CASE UNCHANGED <<conf, reconfigured>>
      BY <3>2, <3>3
    <3>4. CASE /\ conf' = [conf EXCEPT ![chosen] = Section[mainconf][chosen]]
               /\ Section[mainconf][chosen] # 0
               /\ reconfigured' = reconfigured \cup {chosen}
      <4>1. \A o \in Objects \ {chosen} : conf'[o] = conf[o]
        BY <3>4
      <4>2. conf'[chosen] # 0
        BY <3>2, <3>4
      <4> QED
        BY <3>2, <3>4, <4>1, <4>2
    <3> QED
      BY <3>1, <3>3, <3>4
  <2>6. CASE ConfigureFails
    BY <2>6 DEF ConfigureFails
  <2>7. CASE InitializeObject
    <3>1. /\ pc = "initializing" /\ pc' = "initialize" /\ chosen \in Objects
          /\ chosen' = NoObject
          /\ applied' = [applied EXCEPT ![chosen] = conf[chosen]]
          /\ reconfigured' = reconfigured \ {chosen}
          /\ UNCHANGED <<conf, todo>>
      BY <2>7 DEF InitializeObject, Called
    <3>2. life'[chosen] # "none"
            /\ \A o \in Objects \ {chosen} : life'[o] = life[o]
      BY <2>7, <3>1 DEF InitializeObject
    <3> QED
      BY <3>1, <3>2
  <2>8. CASE StartObject
    BY <2>8 DEF StartObject, Called
  <2>9. CASE BeginInitialize
    BY <2>9 DEF BeginInitialize, Phase, Halting, Up
  <2>10. CASE BeginStart
    BY <2>10 DEF BeginStart, Phase, Halting, Up
  <2>11. CASE IdleStop \/ IdleReconfigure \/ ClearReconfigure
    BY <2>11 DEF IdleStop, IdleReconfigure, ClearReconfigure
  <2>12. CASE Unwind \/ Return
    BY <2>12 DEF Unwind, Return
  <2>13. CASE StopObject
    BY <2>13 DEF StopObject
  <2> QED
    BY <1>2, <2>1, <2>2, <2>3, <2>4, <2>5, <2>6, <2>7, <2>8, <2>9, <2>10,
       <2>11, <2>12, <2>13 DEF Main
<1>3. ASSUME NEW t \in Threads, Control(t) \/ DoStore(t) PROVE PrepareInv'
  BY <1>3, <1>h DEF Control, CoreStop, CoreRestart, CoreAbort, CoreReconfigure,
              SignalHandler, Begin, DoStore, Up
<1> QED
  BY <1>1, <1>2, <1>3 DEF Next

\* StageInv is kept by every step.
LEMMA StageNext ==
    TypeOK /\ RegInv /\ PrepareInv /\ StageInv /\ [Next]_vars => StageInv'
<1> SUFFICES ASSUME TypeOK, RegInv, PrepareInv, StageInv, [Next]_vars
             PROVE  StageInv'
  OBVIOUS
<1> USE CoreAssumption
    DEF StageInv, RegInv, Due, Registered, TypeOK, ChosenInv,
        Calling, mainVars, objVars
<1>1. CASE UNCHANGED vars
  BY <1>1 DEF vars, Up
<1>2. CASE Main
  <2>1. CASE Run \/ Sunrise \/ Risen
    BY <2>1 DEF Run, Sunrise, Risen
  <2>2. CASE SunriseDone
    BY <2>2 DEF SunriseDone, Up
  <2>3. CASE VisitConfigure \/ VisitInitialize \/ VisitStop
    BY <2>3 DEF VisitConfigure, VisitInitialize, VisitStop, Visit
  <2>4. CASE VisitStart
    BY <2>4 DEF VisitStart, Visit, Earliest, Up, PrepareInv
  <2>5. CASE ConfigureObject
    BY <2>5 DEF ConfigureObject, Called
  <2>6. CASE ConfigureFails
    BY <2>6 DEF ConfigureFails
  <2>7. CASE InitializeObject
    BY <2>7 DEF InitializeObject, Called
  <2>8. CASE StartObject
    BY <2>8 DEF StartObject, Called
  <2>9. CASE BeginInitialize
    BY <2>9 DEF BeginInitialize, Phase
  <2>10. CASE BeginStart
    BY <2>10 DEF BeginStart, Phase
  <2>11. CASE IdleStop \/ IdleReconfigure \/ ClearReconfigure
    BY <2>11 DEF IdleStop, IdleReconfigure, ClearReconfigure
  <2>12. CASE Unwind
    BY <2>12 DEF Unwind
  <2>13. CASE StopObject
    BY <2>13 DEF StopObject
  <2>14. CASE Return
    BY <2>14 DEF Return
  <2> QED
    BY <1>2, <2>1, <2>2, <2>3, <2>4, <2>5, <2>6, <2>7, <2>8, <2>9, <2>10,
       <2>11, <2>12, <2>13, <2>14 DEF Main
<1>3. ASSUME NEW t \in Threads, Control(t) \/ DoStore(t) PROVE StageInv'
  BY <1>3 DEF Control, CoreStop, CoreRestart, CoreAbort, CoreReconfigure,
              SignalHandler, Begin, DoStore, Up
<1> QED
  BY <1>1, <1>2, <1>3 DEF Next

\* Both hold when the process starts.
LEMMA PrepareInit == Init => PrepareInv /\ StageInv
BY CoreAssumption DEF Init, PrepareInv, StageInv, Registered

\* _start never meets an object that _initialize has not prepared.
THEOREM StartFindsAllInitialized == Spec => []StartFindsInitialized
<1>1. PrepareInv => StartFindsInitialized
  BY DEF PrepareInv, StartFindsInitialized
<1>2. Init => WantedInv
  BY DEF Init, WantedInv, Up
<1> QED
  BY <1>1, <1>2, TypeInit, TypeNext, StopInit, RegNext, WantedNext,
     PrepareInit, PrepareNext, PTL DEF Spec

\* The reported stage IS_RUN means that everything is started and up to date.
THEOREM RunningIsStarted == Spec => []RunningMeansStarted
<1>1. PrepareInv /\ StageInv => RunningMeansStarted
  BY DEF PrepareInv, StageInv, RunningMeansStarted
<1>2. Init => WantedInv
  BY DEF Init, WantedInv, Up
<1> QED
  BY <1>1, <1>2, TypeInit, TypeNext, StopInit, RegNext, WantedNext,
     PrepareInit, PrepareNext, StageNext, PTL DEF Spec

-----------------------------------------------------------------------------
(* No reload is lost.                                                        *)

\* Other threads never withdraw a request, and none replaces the configuration
\* without having its own request still to make.
LEMMA RequestStays ==
    ASSUME TypeOK, CallInv, NEW t \in Threads, Control(t) \/ DoStore(t)
    PROVE  /\ Requested => Requested'
           /\ mainconf' = mainconf \/ Requested'
<1>1. CASE Control(t)
  <2>1. flags' = flags /\ mainconf' = mainconf /\ calls[t] = <<>>
           /\ \A u \in Threads \ {t} : calls'[u] = calls[u]
    BY <1>1 DEF TypeOK, Control, CoreStop, CoreRestart, CoreAbort,
                CoreReconfigure, SignalHandler, Begin
  <2>2. ~Has(calls[t], "_reconfigure_flag")
    BY <2>1, HasNone
  <2> QED
    BY <2>1, <2>2 DEF Requested, Pending, Up
<1>2. CASE DoStore(t)
  <2>1. /\ calls[t] \in Seq(Store) /\ calls[t] # <<>>
        /\ calls'[t] = Tail(calls[t])
        /\ \A u \in Threads \ {t} : calls'[u] = calls[u]
    BY <1>2 DEF TypeOK, DoStore
  <2>2. Has(calls[t], "_reconfigure_flag") <=>
            Head(calls[t]) = "_reconfigure_flag"
              \/ Has(calls'[t], "_reconfigure_flag")
    BY <2>1, HasTail
  <2>3. Has(calls[t], "_mainconf") <=>
            Head(calls[t]) = "_mainconf" \/ Has(calls'[t], "_mainconf")
    BY <2>1, HasTail
  <2>4. /\ Up("_reconfigure_flag") => Up("_reconfigure_flag")'
        /\ Head(calls[t]) = "_reconfigure_flag" => Up("_reconfigure_flag")'
        /\ Head(calls[t]) = "_mainconf" \/ mainconf' = mainconf
    BY <1>2 DEF DoStore, Up
  <2>5. Requested => Requested'
    BY <2>1, <2>2, <2>4 DEF Requested, Pending
  <2>6. CASE Head(calls[t]) = "_mainconf"
    <3>1. calls'[t] = <<"_reconfigure_flag">>
      BY <2>1, <2>3, <2>6, TailTwo DEF CallInv
    <3>2. Has(calls'[t], "_reconfigure_flag")
      BY <3>1, HasOne
    <3> QED
      BY <2>5, <3>2 DEF Requested, Pending
  <2> QED
    BY <2>4, <2>5, <2>6
<1> QED
  BY <1>1, <1>2

\* CurrentInv is kept by every step.
LEMMA CurrentNext ==
    TypeOK /\ CallInv /\ WantedInv /\ CurrentInv /\ [Next]_vars => CurrentInv'
<1> SUFFICES ASSUME TypeOK, CallInv, WantedInv, CurrentInv, [Next]_vars
             PROVE  CurrentInv'
  OBVIOUS
<1>h. pc # "boot" => (Halting => Halting')
  BY HaltingStays
<1> USE CoreAssumption
    DEF CurrentInv, Current, Due, TypeOK, ChosenInv, Calling,
        mainVars, objVars
<1>1. CASE UNCHANGED vars
  <2>1. Requested' = Requested /\ Halting' = Halting
    BY <1>1 DEF vars, Requested, Pending, Has, Halting, Up
  <2> QED
    BY <1>1, <2>1 DEF vars
<1>2. CASE Main
  <2>f. UNCHANGED <<calls, mainconf>>
    BY <1>2, MainFrame
  <2>r. ("_reconfigure_flag" \in flags => "_reconfigure_flag" \in flags')
          => (Requested => Requested')
    BY <2>f DEF Requested, Pending, Has, Up
  <2>1. CASE Run \/ ClearReconfigure
    BY <2>1 DEF Run, ClearReconfigure
  <2>2. CASE Sunrise
    BY <2>2 DEF Sunrise
  <2>3. CASE SunriseDone \/ Risen
    BY <2>3, <2>r, <1>h DEF SunriseDone, Risen
  <2>4. CASE VisitConfigure
    <3>1. CASE todo # {} /\ ~Up("_abort_flag")
      <4>1. pc' = "configuring" /\ Due' = Due /\ UNCHANGED <<conf, flags, mainconf>>
        BY <2>4, <3>1 DEF VisitConfigure, Visit
      <4> QED
        BY <2>4, <4>1, <2>r, <1>h DEF VisitConfigure, Visit
    <3>2. CASE todo = {} /\ ~Up("_abort_flag")
      <4>1. Due = {}
        BY <2>4, <3>2 DEF VisitConfigure, Visit
      <4> QED
        BY <2>4, <3>2, <4>1, <2>r, <1>h DEF VisitConfigure, Visit
    <3>3. CASE Up("_abort_flag")
      <4>1. Halting /\ pc # "boot"
        BY <2>4, <3>3 DEF VisitConfigure, Visit, Halting
      <4> QED
        BY <4>1, <1>h
    <3> QED
      BY <3>1, <3>2, <3>3
  <2>5. CASE VisitInitialize \/ VisitStart \/ VisitStop
    BY <2>5, <2>r, <1>h DEF VisitInitialize, VisitStart, VisitStop, Visit
  <2>6. CASE ConfigureObject
    <3>1. /\ pc = "configuring" /\ pc' = "configure" /\ chosen \in Objects
          /\ todo' = todo /\ chosen' = NoObject
          /\ "_reconfigure_flag" \in flags => "_reconfigure_flag" \in flags'
      BY <2>6 DEF ConfigureObject, Called
    <3>2. PICK o \in Objects : o = chosen
      BY <3>1
    <3>3. Section[mainconf][o] # 0 => conf'[o] = Section[mainconf][o]
      BY <2>6, <3>2 DEF ConfigureObject
    <3>4. ASSUME NEW p \in Objects, p # o PROVE conf'[p] = conf[p]
      BY <2>6, <3>2, <3>4 DEF ConfigureObject
    <3>5. CASE Requested \/ Halting
      BY <3>1, <3>5, <2>r, <1>h
    <3>6. CASE ~(Requested \/ Halting)
      <4>1. \A p \in Objects \ (todo \cup {o}) : Current(p)
        BY <3>1, <3>2, <3>6
      <4>2. \A p \in Objects \ todo : Current(p)'
        BY <3>3, <3>4, <4>1, <2>f
      <4> QED
        BY <3>1, <4>2
    <3> QED
      BY <3>5, <3>6
  <2>7. CASE ConfigureFails
    <3>1. Halting'
      BY <2>7 DEF ConfigureFails, Halting, Up
    <3> QED
      BY <3>1
  <2>8. CASE InitializeObject \/ StartObject
    BY <2>8, <2>f, <2>r, <1>h DEF InitializeObject, StartObject, Called
  <2>9. CASE BeginInitialize \/ BeginStart
    BY <2>9, <2>r, <1>h DEF BeginInitialize, BeginStart, Phase
  <2>10. CASE IdleStop \/ IdleReconfigure
    BY <2>10 DEF IdleStop, IdleReconfigure
  <2>11. CASE Unwind \/ StopObject \/ Return
    BY <2>11 DEF Unwind, StopObject, Return
  <2> QED
    BY <1>2, <2>1, <2>2, <2>3, <2>4, <2>5, <2>6, <2>7, <2>8, <2>9, <2>10,
       <2>11 DEF Main
<1>3. ASSUME NEW t \in Threads, Control(t) \/ DoStore(t) PROVE CurrentInv'
  <2>1. Requested => Requested'
    BY <1>3, RequestStays
  <2>2. mainconf' = mainconf \/ Requested'
    BY <1>3, RequestStays
  <2>3. UNCHANGED <<pc, todo, chosen, conf>>
    BY <1>3 DEF Control, CoreStop, CoreRestart, CoreAbort, CoreReconfigure,
                SignalHandler, Begin, DoStore
  <2> QED
    BY <2>1, <2>2, <2>3, <1>h
<1> QED
  BY <1>1, <1>2, <1>3 DEF Next

\* No reload is lost, wherever it comes.
THEOREM NoReloadIsLost == Spec => []NoReloadLost
<1>1. PrepareInv /\ CurrentInv => NoReloadLost
  BY DEF PrepareInv, CurrentInv, Current, Requested, Registered, NoReloadLost
<1>2. Init => WantedInv /\ CurrentInv
  BY DEF Init, WantedInv, CurrentInv, Up
<1> QED
  BY <1>1, <1>2, TypeInit, TypeNext, StopInit, RegNext, WantedNext, CallInit,
     CallNext, PrepareInit, PrepareNext, CurrentNext, PTL DEF Spec
=============================================================================
