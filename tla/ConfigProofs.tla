---------------------------- MODULE ConfigProofs ----------------------------
(***************************************************************************)
(* Proofs of the safety of Config: types, the configuration in force is    *)
(* valid, and the core hears of every change of it.                        *)
(***************************************************************************)
EXTENDS Config, TLAPS

\* Whatever was read or taken was written before, and so was what is bad. A
\* revision that is in force can therefore not turn bad by a later write.
WrittenInv ==
    /\ \A f \in Files : rev[f] <= edits /\ parsed[f] <= edits
                          /\ mainconf[f] <= edits
    /\ \A r \in bad : r <= edits

\* From the moment the component runs the core is either up to date or has
\* still to serve a request or to get one.
ToldInv == pc \in {"idle", "reload"} /\ ~requested => served = mainconf

\* The inductive invariant of the component.
ConfigInv == TypeOK /\ WrittenInv /\ InForceIsValid /\ ToldInv

-----------------------------------------------------------------------------
LEMMA InitConfigInv == Init => ConfigInv
<1>. SUFFICES ASSUME Init PROVE ConfigInv
  OBVIOUS
<1>1. 0 \in Revision /\ 0 \in -1..MaxTime /\ 1 \in 1..MaxTime
  BY ConfigAssumption DEF Revision
<1>2. edits \in 0..MaxEdits /\ bad \subseteq 1..MaxEdits
  BY ConfigAssumption DEF Init
<1>3. TypeOK
  BY <1>1, <1>2 DEF Init, TypeOK
<1>4. WrittenInv
  BY DEF Init, WrittenInv
<1>5. InForceIsValid /\ ToldInv
  BY DEF Init, InForceIsValid, ToldInv
<1>6. QED
  BY <1>3, <1>4, <1>5 DEF ConfigInv

\* The types hold after every step.
LEMMA TypeStep == ASSUME TypeOK, [Next]_vars PROVE TypeOK'
<1>. USE ConfigAssumption DEF TypeOK, Revision, Includes
<1>1. CASE UNCHANGED vars
  BY <1>1 DEF vars, diskVars
<1>2. CASE LoadAndConfigure
  BY <1>2 DEF LoadAndConfigure, BeginLoad, diskVars
<1>3. CASE FinishLoad
  BY <1>3 DEF FinishLoad, diskVars
<1>4. CASE Start
  BY <1>4 DEF Start, diskVars
<1>5. CASE FinishReload
  BY <1>5 DEF FinishReload, diskVars
<1>6. CASE RequestReconfigure
  BY <1>6 DEF RequestReconfigure, diskVars
<1>7. ASSUME NEW f \in Files, ReadFile(f) PROVE TypeOK'
  BY <1>7 DEF ReadFile, diskVars
<1>8. ASSUME NEW f \in Files, ReadFails(f) PROVE TypeOK'
  BY <1>8 DEF ReadFails, diskVars
<1>9. ASSUME NEW f \in Files, StampFile(f) PROVE TypeOK'
  BY <1>9 DEF StampFile, diskVars
<1>10. ASSUME NEW f \in Files, TimerHandler(f) PROVE TypeOK'
  BY <1>10 DEF TimerHandler, BeginLoad, diskVars
<1>11. CASE Sighup
  BY <1>11 DEF Sighup, BeginLoad, diskVars
<1>12. CASE CoreReconfigures
  BY <1>12 DEF CoreReconfigures, diskVars
<1>13. ASSUME NEW f \in Files, Edit(f) PROVE TypeOK'
  <2>1. edits + 1 \in 1..MaxEdits /\ edits' = edits + 1
    BY <1>13 DEF Edit
  <2>2. bad' \subseteq 1..MaxEdits
    BY <2>1, <1>13 DEF Edit
  <2>3. QED
    BY <2>1, <2>2, <1>13 DEF Edit, compVars
<1>14. ASSUME NEW f \in Files, Remove(f) PROVE TypeOK'
  BY <1>14 DEF Remove, compVars
<1>15. CASE Tick
  BY <1>15 DEF Tick, compVars
<1>16. QED
  BY <1>1, <1>2, <1>3, <1>4, <1>5, <1>6, <1>7, <1>8, <1>9, <1>10, <1>11,
     <1>12, <1>13, <1>14, <1>15
  DEF Next, Load, Poll, Disk

\* What is read was written, and a write makes a revision of its own.
LEMMA WrittenStep ==
    ASSUME TypeOK, WrittenInv, InForceIsValid, [Next]_vars
    PROVE  WrittenInv' /\ InForceIsValid'
<1>. USE DEF TypeOK, WrittenInv, InForceIsValid, Revision
<1>1. CASE UNCHANGED vars
  BY <1>1 DEF vars, diskVars
<1>2. CASE LoadAndConfigure
  BY <1>2 DEF LoadAndConfigure, BeginLoad, diskVars
<1>3. CASE FinishLoad
  BY <1>3 DEF FinishLoad, Accepted, diskVars
<1>4. CASE Start
  BY <1>4 DEF Start, diskVars
<1>5. CASE FinishReload
  BY <1>5 DEF FinishReload, Accepted, diskVars
<1>6. CASE RequestReconfigure
  BY <1>6 DEF RequestReconfigure, diskVars
<1>7. ASSUME NEW f \in Files, ReadFile(f) PROVE WrittenInv' /\ InForceIsValid'
  BY <1>7 DEF ReadFile, diskVars
<1>8. ASSUME NEW f \in Files, ReadFails(f) PROVE WrittenInv' /\ InForceIsValid'
  BY <1>8 DEF ReadFails, diskVars
<1>9. ASSUME NEW f \in Files, StampFile(f) PROVE WrittenInv' /\ InForceIsValid'
  BY <1>9 DEF StampFile, diskVars
<1>10. ASSUME NEW f \in Files, TimerHandler(f)
       PROVE  WrittenInv' /\ InForceIsValid'
  BY <1>10 DEF TimerHandler, BeginLoad, diskVars
<1>11. CASE Sighup
  BY <1>11 DEF Sighup, BeginLoad, diskVars
<1>12. CASE CoreReconfigures
  BY <1>12 DEF CoreReconfigures, diskVars
<1>13. ASSUME NEW f \in Files, Edit(f) PROVE WrittenInv' /\ InForceIsValid'
  <2>1. edits \in Nat /\ edits' = edits + 1 /\ parsed' = parsed
        /\ mainconf' = mainconf /\ rev' = [rev EXCEPT ![f] = edits + 1]
        /\ bad' \in {bad, bad \cup {edits + 1}}
    BY <1>13, ConfigAssumption DEF Edit, compVars
  <2>2. WrittenInv'
    BY <2>1, ConfigAssumption
  <2>3. \A g \in Files : mainconf[g] # edits + 1
    BY <2>1, ConfigAssumption
  <2>4. QED
    BY <2>1, <2>2, <2>3
<1>14. ASSUME NEW f \in Files, Remove(f) PROVE WrittenInv' /\ InForceIsValid'
  BY <1>14 DEF Remove, compVars
<1>15. CASE Tick
  BY <1>15 DEF Tick, compVars
<1>16. QED
  BY <1>1, <1>2, <1>3, <1>4, <1>5, <1>6, <1>7, <1>8, <1>9, <1>10, <1>11,
     <1>12, <1>13, <1>14, <1>15
  DEF Next, Load, Poll, Disk

\* The configuration is replaced only on the way to a request.
LEMMA ToldStep == ASSUME ToldInv, [Next]_vars PROVE ToldInv'
<1>. USE DEF ToldInv
<1>1. CASE UNCHANGED vars
  BY <1>1 DEF vars, diskVars
<1>2. CASE Load
  BY <1>2 DEF Load, LoadAndConfigure, BeginLoad, FinishLoad, Start, FinishReload,
     RequestReconfigure, ReadFile, ReadFails, StampFile, diskVars
<1>3. CASE Poll \/ Sighup
  BY <1>3 DEF Poll, TimerHandler, Sighup, BeginLoad, diskVars
<1>4. CASE CoreReconfigures
  BY <1>4 DEF CoreReconfigures, diskVars
<1>5. CASE Disk
  BY <1>5 DEF Disk, Edit, Remove, Tick, compVars
<1>6. QED
  BY <1>1, <1>2, <1>3, <1>4, <1>5 DEF Next

LEMMA ConfigInvariant == Spec => []ConfigInv
<1>1. ConfigInv /\ [Next]_vars => ConfigInv'
  BY TypeStep, WrittenStep, ToldStep DEF ConfigInv
<1>2. QED
  BY InitConfigInv, <1>1, PTL DEF Spec

-----------------------------------------------------------------------------
\* Every variable of Config keeps its type; in particular the main file is never
\* among those that load_from_file_ stamps.
THEOREM ConfigTypeCorrect == Spec => []TypeOK
<1>1. ConfigInv => TypeOK
  BY DEF ConfigInv
<1>2. QED
  BY ConfigInvariant, <1>1, PTL

\* What is in force (_mainconf) is valid, however the files are written, spoilt
\* and removed and whenever a reload fails.
THEOREM AlwaysValid == Spec => []InForceIsValid
<1>1. ConfigInv => InForceIsValid
  BY DEF ConfigInv
<1>2. QED
  BY ConfigInvariant, <1>1, PTL

\* reload_and_reconfigure never leaves the core with an old configuration and
\* no request to read the new one.
THEOREM CoreIsTold == Spec => []NoSilentChange
<1>1. ConfigInv => NoSilentChange
  BY DEF ConfigInv, ToldInv, NoSilentChange
<1>2. QED
  BY ConfigInvariant, <1>1, PTL
=============================================================================
