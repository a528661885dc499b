------------------------------- MODULE Config -------------------------------
(***************************************************************************)
(* The configuration component (src/package/config/config/config.cpp): the *)
(* first load, the timer that polls the modification times of the files    *)
(* the configuration was read from, SIGHUP, and reload_and_reconfigure.    *)
(* The reload runs on the thread of io_context step by step, while editors *)
(* write, remove and replace the files and the clock of the file system    *)
(* counts whole seconds (st_mtime).                                        *)
(***************************************************************************)
EXTENDS Integers, FiniteSets

CONSTANTS
    Files,        \* the main file and the files it includes
    Main,         \* the file given with -C (_path)
    MaxEdits,     \* bound: how often the files are written
    MaxTime,      \* bound: the last second of the clock
    PollChanges,  \* reload_changed_ms # 0
    ReloadSighup  \* reload_sighup

ASSUME ConfigAssumption ==
    /\ Main \in Files
    /\ MaxEdits \in Nat
    /\ MaxTime \in Nat \ {0}
    /\ PollChanges \in BOOLEAN
    /\ ReloadSighup \in BOOLEAN

VARIABLES
    \* --- the disk and its clock
    clock,        \* the current second
    edits,        \* number of writes so far; a write makes a new revision
    rev,          \* the revision each file holds
    mtime,        \* the second each file was written in, -1: no such file
    bad,          \* revisions that are no valid configuration
    \* --- the component
    pc,           \* where the thread of io_context is in the component
    changed_map,  \* the modification time last seen, 0: not watched
    to_read,      \* files parse_file has still to read
    to_stamp,     \* included files still to be stamped
    parsed,       \* revision of each file as it was read last
    mainconf,     \* revisions that _mainconf was made of
    requested,    \* core_reconfigure was called and not yet served
    served        \* the configuration the core took last (history)

diskVars == <<clock, edits, rev, mtime, bad>>
vars == <<diskVars, pc, changed_map, to_read, to_stamp, parsed, mainconf,
          requested, served>>

Revision == 0..MaxEdits
Includes == Files \ {Main}

Exists(f) == mtime[f] # -1

\* parse_configure_ accepts what was read.
Accepted == \A f \in Files : parsed[f] \notin bad

Init ==
    /\ clock = 1
    /\ edits = 0
    /\ rev = [f \in Files |-> 0]
    /\ mtime = [f \in Files |-> 1]
    /\ bad = {}
    /\ pc = "boot"
    /\ changed_map = [f \in Files |-> 0]
    /\ to_read = {}
    /\ to_stamp = {}
    /\ parsed = [f \in Files |-> 0]
    /\ mainconf = [f \in Files |-> 0]
    /\ requested = FALSE
    /\ served = [f \in Files |-> 0]

-----------------------------------------------------------------------------
(* load_from_file_: read the main file, then what it includes, stamp the     *)
(* included files, hand the result over.                                     *)

BeginLoad(next) ==
    /\ pc' = next
    /\ to_read' = Files
    /\ UNCHANGED <<to_stamp, parsed, mainconf, requested,
                   served>>

\* startup calls load_and_configure.
LoadAndConfigure ==
    /\ pc = "boot"
    /\ BeginLoad("load")
    /\ UNCHANGED <<diskVars, changed_map>>

\* Mutant of ReadFile: the main file is to be stamped with the included ones.
ReadFileStampsAll(f) ==
    /\ pc \in {"load", "reload"}
    /\ f \in to_read
    /\ f = Main \/ Main \notin to_read
    /\ Exists(f)
    /\ parsed' = [parsed EXCEPT ![f] = rev[f]]
    /\ to_read' = to_read \ {f}
    /\ to_stamp' = IF to_read = {f} THEN Files ELSE to_stamp
    /\ UNCHANGED <<diskVars, pc, changed_map, mainconf, requested,
                   served>>

\* Mutant of ReadFile: a reload keeps the included files of the first load.
ReadFileOnce(f) ==
    /\ pc \in {"load", "reload"}
    /\ f \in to_read
    /\ f = Main \/ Main \notin to_read
    /\ Exists(f)
    /\ parsed' = IF pc = "reload" /\ f # Main
                   THEN parsed ELSE [parsed EXCEPT ![f] = rev[f]]
    /\ to_read' = to_read \ {f}
    /\ to_stamp' = IF to_read = {f} THEN Includes ELSE to_stamp
    /\ UNCHANGED <<diskVars, pc, changed_map, mainconf, requested,
                   served>>

\* One file is read; when all are, the included ones are to be stamped.
ReadFile(f) ==
    /\ pc \in {"load", "reload"}
    /\ f \in to_read
    /\ f = Main \/ Main \notin to_read
    /\ Exists(f)
    /\ parsed' = [parsed EXCEPT ![f] = rev[f]]
    /\ to_read' = to_read \ {f}
    /\ to_stamp' = IF to_read = {f} THEN Includes ELSE to_stamp
    /\ UNCHANGED <<diskVars, pc, changed_map, mainconf, requested,
                   served>>

\* parse_file fails on a file it cannot read: the program does not start, a
\* reload is given up.
ReadFails(f) ==
    /\ pc \in {"load", "reload"}
    /\ f \in to_read
    /\ f = Main \/ Main \notin to_read
    /\ ~Exists(f)
    /\ to_read' = {}
    /\ pc' = IF pc = "load" THEN "failed" ELSE "idle"
    /\ UNCHANGED <<diskVars, changed_map, to_stamp, parsed, mainconf, requested,
                   served>>

\* The modification time is taken after the file was read.
StampFile(f) ==
    /\ pc \in {"load", "reload"}
    /\ to_read = {}
    /\ f \in to_stamp
    /\ changed_map' = [changed_map EXCEPT ![f] = mtime[f]]
    /\ to_stamp' = to_stamp \ {f}
    /\ UNCHANGED <<diskVars, pc, to_read, parsed, mainconf, requested,
                   served>>

Loaded == to_read = {} /\ to_stamp = {}

\* The rest of load_and_configure: only a valid configuration is taken.
FinishLoad ==
    /\ pc = "load"
    /\ Loaded
    /\ IF Accepted
         THEN pc' = "loaded" /\ mainconf' = parsed
         ELSE pc' = "failed" /\ UNCHANGED mainconf
    /\ UNCHANGED <<diskVars, changed_map, to_read, to_stamp, parsed, requested,
                   served>>

\* start(), when the core comes to start the component: the main file is
\* stamped for the first time, and the poll timer and SIGHUP are set up.
Start ==
    /\ pc = "loaded"
    /\ changed_map' = [changed_map EXCEPT ![Main] = mtime[Main]]
    /\ pc' = "idle"
    /\ served' = mainconf
    /\ UNCHANGED <<diskVars, to_read, to_stamp, parsed, mainconf, requested>>

\* Mutant of FinishReload: what was read is taken without a check.
FinishReloadUnchecked ==
    /\ pc = "reload"
    /\ Loaded
    /\ pc' = "replaced"
    /\ mainconf' = parsed
    /\ UNCHANGED <<diskVars, changed_map, to_read, to_stamp, parsed, requested,
                   served>>

\* Mutant of FinishReload: the request is forgotten.
FinishReloadSilent ==
    /\ pc = "reload"
    /\ Loaded
    /\ pc' = "idle"
    /\ mainconf' = IF Accepted THEN parsed ELSE mainconf
    /\ UNCHANGED <<diskVars, changed_map, to_read, to_stamp, parsed, requested,
                   served>>

\* The rest of reload_and_reconfigure: a rejected configuration changes
\* nothing, an accepted one replaces _mainconf ...
FinishReload ==
    /\ pc = "reload"
    /\ Loaded
    /\ IF Accepted
         THEN pc' = "replaced" /\ mainconf' = parsed
         ELSE pc' = "idle" /\ UNCHANGED mainconf
    /\ UNCHANGED <<diskVars, changed_map, to_read, to_stamp, parsed, requested,
                   served>>

\* ... and then core_reconfigure is called.
RequestReconfigure ==
    /\ pc = "replaced"
    /\ requested' = TRUE
    /\ pc' = "idle"
    /\ UNCHANGED <<diskVars, changed_map, to_read, to_stamp, parsed, mainconf,
                   served>>

-----------------------------------------------------------------------------
(* What makes the component reload.                                          *)

\* timer_handler_: the first watched file whose modification time differs from
\* the one last seen is stamped and the configuration is reloaded. Which file
\* comes first is a matter of their names.
TimerHandler(f) ==
    /\ PollChanges
    /\ pc = "idle"
    /\ changed_map[f] # 0
    /\ mtime[f] # changed_map[f]
    /\ changed_map' = [changed_map EXCEPT ![f] = mtime[f]]
    /\ BeginLoad("reload")
    /\ UNCHANGED diskVars

\* signal_sighup_handler posts the reload to io_context.
Sighup ==
    /\ ReloadSighup
    /\ pc = "idle"
    /\ BeginLoad("reload")
    /\ UNCHANGED <<diskVars, changed_map>>

\* The core serves the request in its own time.
CoreReconfigures ==
    /\ requested
    /\ requested' = FALSE
    /\ served' = mainconf
    /\ UNCHANGED <<diskVars, pc, changed_map, to_read, to_stamp, parsed, mainconf>>

-----------------------------------------------------------------------------
(* The disk.                                                                 *)

compVars == <<pc, changed_map, to_read, to_stamp, parsed, mainconf, requested,
              served>>

\* Somebody writes a file, well or badly.
Edit(f) ==
    /\ edits < MaxEdits
    /\ edits' = edits + 1
    /\ rev' = [rev EXCEPT ![f] = edits + 1]
    /\ mtime' = [mtime EXCEPT ![f] = clock]
    /\ bad' \in {bad, bad \cup {edits + 1}}
    /\ UNCHANGED <<clock, compVars>>

Remove(f) ==
    /\ Exists(f)
    /\ edits < MaxEdits
    /\ mtime' = [mtime EXCEPT ![f] = -1]
    /\ UNCHANGED <<clock, edits, rev, bad, compVars>>

Tick ==
    /\ clock < MaxTime
    /\ clock' = clock + 1
    /\ UNCHANGED <<edits, rev, mtime, bad, compVars>>

Load ==
    \/ LoadAndConfigure \/ FinishLoad \/ Start
    \/ FinishReload \/ RequestReconfigure
    \/ \E f \in Files : ReadFile(f) \/ ReadFails(f) \/ StampFile(f)

Poll == \E f \in Files : TimerHandler(f)

Disk == Tick \/ \E f \in Files : Edit(f) \/ Remove(f)

Next == Load \/ Poll \/ Sighup \/ CoreReconfigures \/ Disk

\* A load once begun goes on, the poll timer ticks, the core serves requests.
Fairness ==
    /\ WF_vars(Load)
    /\ \A f \in Files : SF_vars(TimerHandler(f))
    /\ WF_vars(CoreReconfigures)

Spec == Init /\ [][Next]_vars
FairSpec == Spec /\ Fairness

-----------------------------------------------------------------------------
(* Properties                                                                *)

\* The types of all variables.
TypeOK ==
    /\ clock \in 1..MaxTime
    /\ edits \in 0..MaxEdits
    /\ rev \in [Files -> Revision]
    /\ mtime \in [Files -> {-1} \cup 1..MaxTime]
    /\ bad \subseteq 1..MaxEdits
    /\ pc \in {"boot", "load", "loaded", "idle", "reload", "replaced", "failed"}
    /\ changed_map \in [Files -> -1..MaxTime]
    /\ to_read \subseteq Files
    /\ to_stamp \subseteq Includes
    /\ parsed \in [Files -> Revision]
    /\ mainconf \in [Files -> Revision]
    /\ requested \in BOOLEAN
    /\ served \in [Files -> Revision]

Running == pc \in {"idle", "reload", "replaced"}

\* The configuration in force is valid, whatever is written to the files and
\* whenever: a reload that fails halfway leaves it alone.
InForceIsValid == \A f \in Files : mainconf[f] \notin bad

\* The core never rests on an old configuration: when the component is idle and
\* no request is open, the core has taken the configuration in force.
NoSilentChange == pc = "idle" /\ ~requested => served = mainconf

\* A change that the poll can see while the component is idle is read, be it
\* by the poll, by a SIGHUP that comes first or by the reload for another file,
\* unless the file changes again or some file is missing meanwhile. (A change
\* made during a reload can be hidden by the stamp that follows the reading.)
SeenChangeIsRead ==
    PollChanges =>
    \A f \in Files, r \in Revision :
        pc = "idle" /\ changed_map[f] \notin {0, mtime[f]} /\ rev[f] = r
            ~> \/ parsed[f] = r
               \/ rev[f] # r
               \/ \E g \in Files : ~Exists(g)

\* The configuration is re-read when a file changes: a change of a file that is
\* valid and stays gets into force. (It does not: a change between the reading
\* of a file and the taking of its modification time is never seen.)
FileChangeIsReloaded ==
    PollChanges =>
    \A f \in Files, r \in Revision :
        Running /\ rev[f] = r
            ~> \/ mainconf[f] = r
               \/ rev[f] # r
               \/ bad # {}
               \/ \E g \in Files : ~Exists(g)
=============================================================================
