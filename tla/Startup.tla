------------------------------- MODULE Startup -------------------------------
(***************************************************************************)
(* The start of the program (src/package/startup/startup/startup.cpp,      *)
(* perform_start_): the pid file that is locked against a second instance  *)
(* of the same name, the monitor of --autoup that restarts a worker that   *)
(* has ended, and the arguments that only the first start is to see.       *)
(*                                                                         *)
(* A launch is one start of the program by hand: the worker and, with      *)
(* --autoup, its monitor. flock() belongs to an open file description; the *)
(* worker shares the first description with the monitor, and all           *)
(* descriptions of a launch are closed when its last process is gone. The  *)
(* steps of wfc::autoup and of the file system are external.               *)
(***************************************************************************)
EXTENDS Integers, FiniteSets

CONSTANTS
    Launches,        \* starts of the program with one name and one pid-dir
    autoup,          \* --autoup
    success_autoup,  \* --success-autoup
    NoLaunch,        \* nobody holds the lock
    MaxRestarts,     \* bound: restarts of a worker by its monitor
    MaxInode         \* bound: how often the pid file is created, 1 at least

ASSUME StartupAssumption ==
    /\ autoup \in BOOLEAN
    /\ success_autoup \in BOOLEAN
    /\ NoLaunch \notin Launches
    /\ MaxRestarts \in Nat
    /\ MaxInode \in Nat \ {0}

Inode == 1..MaxInode
Worker == Launches \X (0..MaxRestarts)
NoWorker == <<NoLaunch, 0>>
Argument == {"ini_list", "startup_ini_list", "object_options",
             "startup_options"}

VARIABLES
    \* --- the file system
    path,      \* inode that the pid path names, 0: none
    inodes,    \* inodes created so far
    owner,     \* launch that holds the lock of an inode
    content,   \* what an inode holds: a pid, behind NULs or not
    \* --- the launches
    pc,        \* where a launch is
    pid_file,  \* inode of the first description
    offset,    \* the offset of that description is not 0
    count,     \* restarts by the monitor
    status,    \* how the worker ended
    _pa,        \* lists of _pa (program_arguments) that are not empty
    args,      \* lists in g->args
    \* --- history
    removed    \* the pid file has been removed

fileVars == <<path, inodes, owner, content, removed>>
argVars == <<_pa, args>>
vars == <<fileVars, argVars, pc, pid_file, offset, count, status>>

Init ==
    /\ path = 0 /\ inodes = 0
    /\ owner = [i \in Inode |-> NoLaunch]
    /\ content = [i \in Inode |-> [pid |-> NoWorker, nuls |-> FALSE]]
    /\ pc = [l \in Launches |-> "off"]
    /\ pid_file = [l \in Launches |-> 0]
    /\ offset = [l \in Launches |-> FALSE]
    /\ count = [l \in Launches |-> 0]
    /\ status = [l \in Launches |-> "none"]
    /\ _pa = [l \in Launches |-> Argument]
    /\ args = [l \in Launches |-> {}]
    /\ removed = FALSE

-----------------------------------------------------------------------------
Go(l, from, to) == pc[l] = from /\ pc' = [pc EXCEPT ![l] = to]

\* open(O_CREAT) of the pid path: the inode it names or a new one.
Opened == IF path = 0 THEN inodes + 1 ELSE path

OpenPath ==
    /\ path' = Opened
    /\ inodes' = IF path = 0 THEN inodes + 1 ELSE inodes

\* loc_file_pid, its first half.
Open(l) ==
    /\ Go(l, "off", "opened")
    /\ OpenPath
    /\ pid_file' = [pid_file EXCEPT ![l] = Opened]
    /\ UNCHANGED <<owner, content, removed, argVars, offset, count, status>>

\* Mutant of Lock: a second instance is not refused.
LockAnyway(l) ==
    /\ Go(l, "opened", "forked")
    /\ owner' = [owner EXCEPT ![pid_file[l]] = l]
    /\ UNCHANGED <<path, inodes, content, removed, argVars, pid_file, offset,
                   count, status>>

\* loc_file_pid, its second half: flock(LOCK_NB), then the monitor is forked.
\* A launch that does not get the lock gives up.
Lock(l) ==
    /\ pc[l] = "opened"
    /\ IF owner[pid_file[l]] = NoLaunch
         THEN /\ pc' = [pc EXCEPT ![l] = "forked"]
              /\ owner' = [owner EXCEPT ![pid_file[l]] = l]
         ELSE /\ pc' = [pc EXCEPT ![l] = "gone"]
              /\ UNCHANGED owner
    /\ UNCHANGED <<path, inodes, content, removed, argVars, pid_file, offset,
                   count, status>>

\* Mutant of Work: g->args is filled only once.
WorkAsBefore(l) ==
    /\ Go(l, "forked", "running")
    /\ content' = [content EXCEPT ![pid_file[l]] =
                     [pid |-> <<l, count[l]>>, nuls |-> offset[l]]]
    /\ offset' = [offset EXCEPT ![l] = TRUE]
    /\ args' = [args EXCEPT ![l] =
                  IF count[l] = 0
                    THEN _pa[l] \cap {"object_options", "startup_options"}
                    ELSE args[l]]
    /\ UNCHANGED <<path, inodes, owner, removed, _pa, pid_file, count,
                   status>>

\* The worker: write_loc_pid truncates the file and writes where the shared
\* description stands; the arguments of the objects are collected; it runs.
Work(l) ==
    /\ Go(l, "forked", "running")
    /\ content' = [content EXCEPT ![pid_file[l]] =
                     [pid |-> <<l, count[l]>>, nuls |-> offset[l]]]
    /\ offset' = [offset EXCEPT ![l] = TRUE]
    /\ args' = [args EXCEPT ![l] =
                  _pa[l] \cap {"object_options", "startup_options"}]
    /\ UNCHANGED <<path, inodes, owner, removed, _pa, pid_file, count,
                   status>>

-----------------------------------------------------------------------------
\* The worker dies without a word.
Crash(l) ==
    /\ Go(l, "running", "ended")
    /\ count[l] < MaxRestarts
    /\ status' = [status EXCEPT ![l] = "killed"]
    /\ UNCHANGED <<fileVars, argVars, pid_file, offset, count>>

\* The core has stopped, to restart or not (exit codes -1 and 0): the after_stop
\* handler removes whatever the pid path names by now.
AfterStop(l, code) ==
    /\ Go(l, "running", "stopped")
    /\ count[l] < MaxRestarts
    /\ inodes < MaxInode
    /\ status' = [status EXCEPT ![l] = code]
    /\ path' = 0
    /\ removed' = TRUE
    /\ UNCHANGED <<inodes, owner, content, argVars, pid_file, offset, count>>

\* ... and then the worker ends.
Exit(l) ==
    /\ Go(l, "stopped", "ended")
    /\ UNCHANGED <<fileVars, argVars, pid_file, offset, count, status>>

Restarts(l) == autoup /\ (status[l] # "0" \/ success_autoup)

\* The last process of the launch ends and its locks are released: there is no
\* monitor, or it does not restart the worker, or the worker was not up for
\* the minimum time.
Gone(l) ==
    /\ Go(l, "ended", "gone")
    /\ Restarts(l) => status[l] = "early"
    /\ owner' = [i \in Inode |-> IF owner[i] = l THEN NoLaunch ELSE owner[i]]
    /\ UNCHANGED <<path, inodes, content, removed, argVars, pid_file, offset,
                   count, status>>

\* A worker that has not been up for autoup_timeout.
TooEarly(l) ==
    /\ pc[l] = "ended"
    /\ status[l] # "early"
    /\ status' = [status EXCEPT ![l] = "early"]
    /\ UNCHANGED <<fileVars, argVars, pc, pid_file, offset, count>>

\* Mutant of MonitorLocks: no lock, no restart.
MonitorRefuses(l) ==
    /\ pc[l] = "ended"
    /\ Restarts(l) /\ status[l] # "early"
    /\ OpenPath
    /\ owner' = IF owner[Opened] = NoLaunch
                  THEN [owner EXCEPT ![Opened] = l] ELSE owner
    /\ content' = IF owner[Opened] = NoLaunch
                    THEN [content EXCEPT ![Opened] =
                            [pid |-> <<l, count[l]>>, nuls |-> FALSE]]
                    ELSE content
    /\ pc' = [pc EXCEPT ![l] = IF owner[Opened] = NoLaunch
                                 THEN "restart" ELSE "gone"]
    /\ UNCHANGED <<removed, argVars, pid_file, offset, count, status>>

\* The handler of the monitor: the pid path is opened and locked once more, by
\* a description of its own, and the pid of the ended worker is written to it.
\* flock fails on a file that a description of the launch itself holds. The
\* handler does not look whether it got the lock.
MonitorLocks(l) ==
    /\ pc[l] = "ended"
    /\ Restarts(l) /\ status[l] # "early"
    /\ OpenPath
    /\ owner' = IF owner[Opened] = NoLaunch
                  THEN [owner EXCEPT ![Opened] = l] ELSE owner
    /\ content' = IF owner[Opened] = NoLaunch
                    THEN [content EXCEPT ![Opened] =
                            [pid |-> <<l, count[l]>>, nuls |-> FALSE]]
                    ELSE content
    /\ pc' = [pc EXCEPT ![l] = "restart"]
    /\ UNCHANGED <<removed, argVars, pid_file, offset, count, status>>

\* The monitor forks the next worker, which clears the lists of the first start.
Restart(l) ==
    /\ Go(l, "restart", "forked")
    /\ count' = [count EXCEPT ![l] = count[l] + 1]
    /\ _pa' = [_pa EXCEPT ![l] = _pa[l] \ {"startup_options",
                                           "startup_ini_list"}]
    /\ UNCHANGED <<fileVars, args, pid_file, offset, status>>

-----------------------------------------------------------------------------
Goes(l) ==
    \/ Lock(l) \/ Work(l) \/ Exit(l) \/ Gone(l)
    \/ MonitorLocks(l) \/ Restart(l)

Next == \E l \in Launches :
    \/ Open(l) \/ Goes(l) \/ Crash(l) \/ TooEarly(l)
    \/ \E code \in {"0", "-1"} : AfterStop(l, code)

Spec == Init /\ [][Next]_vars

\* A launch goes on by itself; starting it, stopping and crashing is up to
\* others.
FairSpec == Spec /\ \A l \in Launches : WF_vars(Goes(l))

-----------------------------------------------------------------------------
(***************************************************************************)
(* Properties                                                              *)
(***************************************************************************)

InCharge(l) == pc[l] \in {"forked", "running", "ended", "restart"}

\* While nobody has stopped orderly, a launch that is past its lock holds the
\* file that the pid path names, and so is the only one, whatever crashes and
\* restarts there are: a monitor that reports a crash does not get at the file
\* that its own first description has locked. The file names the worker that
\* runs, behind NULs once the first has crashed.
PidFileAtFirst ==
    \A l \in Launches :
        ~removed /\ InCharge(l) =>
            /\ path = pid_file[l] /\ owner[path] = l
            /\ pc[l] = "running" =>
                 content[path] = [pid |-> <<l, count[l]>>, nuls |-> count[l] > 0]

\* --startup-options are for the first worker only, --object-options for all.
OptionsOfFirstStart ==
    \A l \in Launches :
        pc[l] = "running" =>
            args[l] = {"object_options"} \cup
                      (IF count[l] = 0 THEN {"startup_options"} ELSE {})

\* A worker that was killed or wants to be restarted, and was up for long
\* enough, runs again, the locks notwithstanding.
EndedIsRestarted ==
    \A l \in Launches :
        autoup /\ pc[l] = "ended" /\ status[l] \in {"killed", "-1"}
            ~> pc[l] = "running" \/ status[l] = "early"
=============================================================================
