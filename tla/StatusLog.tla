------------------------------ MODULE StatusLog ------------------------------
(***************************************************************************)
(* The state of health of the daemon: what the logger counts               *)
(* (src/package/logger/logger/logger.cpp, the handler of init_log_), what  *)
(* core::status_log keeps of it (src/package/core/core/detail/             *)
(* status_log.hpp), and what get_status answers.                           *)
(*                                                                         *)
(* An entry of a list is the moment it was logged at; its text is left     *)
(* out. set_status runs under the mutex and is one step. get_status looks  *)
(* at the threads before it takes the mutex, and is two. The clock does    *)
(* not run backwards.                                                      *)
(***************************************************************************)
EXTENDS Integers, Sequences

CONSTANTS
    Threads,         \* the threads known to cpuset
    hang_timeout,    \* status_log_options, 0: no thread ever hangs
    errors_ttl,
    errors_limit,
    warnings_ttl,
    warnings_limit,
    stop_with_fatal_log_entry,  \* logger_config
    MaxTime,         \* bound: the last moment of the clock
    MaxLogged        \* bound: the entries logged to one status_log

ASSUME StatusLogAssumption ==
    /\ {hang_timeout, errors_ttl, errors_limit, warnings_ttl, warnings_limit,
        MaxTime, MaxLogged} \subseteq Nat
    /\ stop_with_fatal_log_entry \in BOOLEAN

VARIABLES
    now,           \* system_clock::now()
    last_active,   \* the last sign of life of each thread
    errors,        \* _errors
    warnings,      \* _warnings
    aborted,       \* _fatals is not empty
    reading,       \* a get_status has looked at the threads
    hang,          \* some of them was hanging then
    answer,        \* what get_status answered last
    error_log,     \* history: every ERROR counted since the log was made
    warning_log,   \* history: every WARNING
    aborts         \* history: an ABORT was counted

lists == <<errors, warnings, aborted>>
history == <<error_log, warning_log, aborts>>
vars == <<now, last_active, lists, reading, hang, answer, history>>

Time == 0..MaxTime
Status == {"OK", "WARNING", "ERROR", "HANG", "ABORT"}

Init ==
    /\ now = 0
    /\ last_active = [t \in Threads |-> 0]
    /\ errors = <<>> /\ warnings = <<>> /\ aborted = FALSE
    /\ reading = FALSE /\ hang = FALSE
    /\ answer = "OK"
    /\ error_log = <<>> /\ warning_log = <<>> /\ aborts = FALSE

-----------------------------------------------------------------------------
\* Mutant of remove_expired_: an entry dies in the very moment of its ttl.
remove_expired_Early(list, ttl, limit) ==
    LET n == Len(list)
        Stays(i) == i > n - limit /\ list[i] > now - ttl
        first == CHOOSE i \in 1..n + 1 :
                    /\ i = n + 1 \/ Stays(i)
                    /\ \A j \in 1..i - 1 : ~Stays(j)
    IN  SubSeq(list, first, n)

\* Mutant of remove_expired_: the list may outgrow its limit by one.
remove_expired_Roomy(list, ttl, limit) ==
    LET n == Len(list)
        Stays(i) == i >= n - limit /\ list[i] >= now - ttl
        first == CHOOSE i \in 1..n + 1 :
                    /\ i = n + 1 \/ Stays(i)
                    /\ \A j \in 1..i - 1 : ~Stays(j)
    IN  SubSeq(list, first, n)

\* pop_front while the list is longer than its limit, then while the front is
\* older than the ttl: the first entry that may stay keeps all behind it.
remove_expired_(list, ttl, limit) ==
    LET n == Len(list)
        Stays(i) == i > n - limit /\ list[i] >= now - ttl
        first == CHOOSE i \in 1..n + 1 :
                    /\ i = n + 1 \/ Stays(i)
                    /\ \A j \in 1..i - 1 : ~Stays(j)
    IN  SubSeq(list, first, n)

\* What set_status makes of its lists: the entry is appended, both are trimmed.
Keep(more_errors, more_warnings) ==
    /\ errors'   = remove_expired_(errors \o more_errors, errors_ttl, errors_limit)
    /\ warnings' = remove_expired_(warnings \o more_warnings, warnings_ttl,
                                   warnings_limit)
    /\ error_log'   = error_log \o more_errors
    /\ warning_log' = warning_log \o more_warnings

Unread == UNCHANGED <<now, last_active, reading, hang, answer>>

\* A thread logs ERROR, or FATAL when that does not stop the daemon.
LogError ==
    /\ Len(error_log) < MaxLogged
    /\ Keep(<<now>>, <<>>)
    /\ UNCHANGED <<aborted, aborts>>
    /\ Unread

LogWarning ==
    /\ Len(warning_log) < MaxLogged
    /\ Keep(<<>>, <<now>>)
    /\ UNCHANGED <<aborted, aborts>>
    /\ Unread

\* A thread logs FATAL: an ABORT, which never expires.
LogFatal ==
    /\ stop_with_fatal_log_entry
    /\ Keep(<<>>, <<>>)
    /\ aborted' = TRUE
    /\ aborts' = TRUE
    /\ Unread

-----------------------------------------------------------------------------
\* get_status, before the mutex: is a thread silent for too long?
LookAtThreads ==
    /\ ~reading
    /\ reading' = TRUE
    /\ hang' = (/\ hang_timeout > 0
                /\ \E t \in Threads : last_active[t] < now - hang_timeout)
    /\ UNCHANGED <<now, last_active, lists, answer, history>>

\* The status by what is left of the lists: an ABORT wins, the others only
\* replace OK.
Verdict(left_errors, left_warnings) ==
    CASE aborted -> "ABORT"
      [] ~aborted /\ hang -> "HANG"
      [] ~aborted /\ ~hang /\ left_errors # <<>>
           /\ Len(left_errors) = errors_limit -> "ERROR"
      [] OTHER -> IF left_warnings # <<>> /\ Len(left_warnings) = warnings_limit
                    THEN "WARNING" ELSE "OK"

\* get_status, with the mutex: the expired entries go, the rest is weighed.
Answer ==
    /\ reading
    /\ reading' = FALSE
    /\ Keep(<<>>, <<>>)
    /\ answer' = Verdict(errors', warnings')
    /\ UNCHANGED <<now, last_active, hang, aborted, aborts>>

\* core::reconfigure replaces the whole status_log. (A get_status under way in
\* another thread would read a log that is gone; this is left out.)
Replace ==
    /\ ~reading
    /\ errors' = <<>> /\ warnings' = <<>> /\ aborted' = FALSE
    /\ error_log' = <<>> /\ warning_log' = <<>> /\ aborts' = FALSE
    /\ Unread

Tick == now < MaxTime /\ now' = now + 1
        /\ UNCHANGED <<last_active, lists, reading, hang, answer, history>>

\* A thread of a workflow reports to cpuset after every turn.
Works(t) ==
    /\ last_active' = [last_active EXCEPT ![t] = now]
    /\ UNCHANGED <<now, lists, reading, hang, answer, history>>

Next ==
    \/ LogError \/ LogWarning \/ LogFatal
    \/ LookAtThreads \/ Answer \/ Replace
    \/ Tick \/ \E t \in Threads : Works(t)

Spec == Init /\ [][Next]_vars

-----------------------------------------------------------------------------
(***************************************************************************)
(* Properties                                                              *)
(***************************************************************************)

\* The types of all variables; the lists never outgrow their limits.
TypeOK ==
    /\ now \in Time
    /\ last_active \in [Threads -> Time]
    /\ errors \in Seq(Time) /\ Len(errors) <= errors_limit
    /\ warnings \in Seq(Time) /\ Len(warnings) <= warnings_limit
    /\ {aborted, reading, hang, aborts} \subseteq BOOLEAN
    /\ answer \in Status
    /\ error_log \in Seq(Time)
    /\ warning_log \in Seq(Time)

\* At least `limit` entries of a log lie within the ttl; a limit of 0 switches
\* the verdict off.
Crowded(log, ttl, limit) ==
    /\ limit > 0
    /\ Len(log) >= limit
    /\ log[Len(log) - limit + 1] >= now - ttl

\* The lists of bounded length that are trimmed now and then lose nothing that
\* the verdict needs: get_status answers what the whole history of the log
\* demands, ERROR for instance exactly when errors_limit errors or more lie
\* within errors_ttl.
AnswersHistory ==
    [][reading /\ ~reading' =>
         answer' = CASE aborts -> "ABORT"
                     [] ~aborts /\ hang -> "HANG"
                     [] ~aborts /\ ~hang
                          /\ Crowded(error_log, errors_ttl, errors_limit) -> "ERROR"
                     [] OTHER ->
                          IF Crowded(warning_log, warnings_ttl, warnings_limit)
                            THEN "WARNING" ELSE "OK"]_vars
=============================================================================
