-------------------------------- MODULE Logger --------------------------------
(***************************************************************************)
(* What the logger does with a FATAL message (src/package/logger/logger/   *)
(* logger.cpp): the handler that init_log_ gives to the logging library    *)
(* tells the core, keeps the first message and aborts the daemon; the last *)
(* words of the log tell of it. Any thread may log FATAL, during a reload  *)
(* and while the daemon goes down. What the core makes of the status is    *)
(* StatusLog, what an abort does is Core; formats and files are left out.  *)
(***************************************************************************)
EXTENDS Integers

CONSTANTS
    Writer,        \* threads that log FATAL; a message is known by its thread
    NoWriter,
    MaxReloads     \* bound: reloads

ASSUME LoggerAssumption == NoWriter \notin Writer

VARIABLES
    option,        \* options().stop_with_fatal_log_entry
    stop_by_fatal, \* what the handler in force has captured of it
    writer,        \* where a thread is in the handler: pc; stop: of its handler
    _last_message,
    counted,       \* what is left of the ABORT in the status log of the core
    aborting,      \* wfc_abort has been called
    signal,        \* stop_signal_flag
    main,          \* the main thread
    _initialized,
    lm,            \* what release() has copied
    words,         \* the last words of the log
    reloads,       \* reloads so far
    events        \* began: a FATAL was logged; early: before the logger was
                   \* configured; ended: one was handled before release()

daemon == <<signal, main, _initialized, lm, words, reloads, option, stop_by_fatal>>
loggerVars == <<daemon, writer, _last_message, counted, aborting, events>>

Silent == [pc |-> "idle", stop |-> FALSE]

\* configure: the handler is in force before the logger counts as configured.
LoggerInit ==
    /\ option \in BOOLEAN /\ stop_by_fatal = option
    /\ writer = [w \in Writer |-> Silent]
    /\ _last_message = NoWriter /\ lm = NoWriter
    /\ counted = "no" /\ words = "none"
    /\ aborting = FALSE /\ signal = FALSE /\ _initialized = FALSE
    /\ main = "configure" /\ reloads = 0
    /\ events = {}

At(w, where) == writer[w].pc = where

-----------------------------------------------------------------------------
(***************************************************************************)
(* The handler                                                             *)
(***************************************************************************)

\* Mutant of Then: the daemon is aborted before the message is kept.
ThenAborts(where) ==
    CASE where = "status" -> "abort" [] where = "keep" -> "idle"
      [] where = "abort" -> "keep"

Then(where) ==
    CASE where = "status" -> "keep" [] where = "keep" -> "abort"
      [] where = "abort" -> "idle"

GoOn(w) ==
    /\ writer' = [writer EXCEPT ![w].pc = Then(@)]
    /\ events' = IF Then(writer[w].pc) = "idle" /\ main # "released"
                    THEN events \cup {"ended"} ELSE events

\* A message reaches the handler while there is a log.
Fatal(w) ==
    /\ At(w, "idle") /\ main # "released"
    /\ writer' = [writer EXCEPT ![w] = [pc |-> "status", stop |-> stop_by_fatal]]
    /\ events' = events \cup {"began"}
    /\ UNCHANGED <<daemon, _last_message, counted, aborting>>

\* The core is looked up when it is needed first, and is not known to a logger
\* that is not configured. FATAL is an ABORT or, if it does not stop, an ERROR.
SetStatus(w) ==
    /\ At(w, "status")
    /\ writer' = [writer EXCEPT ![w].pc = Then(@)]
    /\ IF main = "configure"
         THEN counted' = counted /\ events' = events \cup {"early"}
         ELSE /\ counted' = IF writer[w].stop THEN "yes" ELSE counted
              /\ events' = events
    /\ UNCHANGED <<daemon, _last_message, aborting>>

\* The first message is kept, under the mutex.
KeepMessage(w) ==
    /\ At(w, "keep") /\ GoOn(w)
    /\ _last_message' = IF _last_message = NoWriter THEN w ELSE _last_message
    /\ UNCHANGED <<daemon, counted, aborting>>

\* wfc_abort, unless a signal has come before.
Abort(w) ==
    /\ At(w, "abort") /\ GoOn(w)
    /\ aborting' = (aborting \/ (writer[w].stop /\ ~signal))
    /\ UNCHANGED <<daemon, _last_message, counted>>

-----------------------------------------------------------------------------
(***************************************************************************)
(* The main thread                                                         *)
(***************************************************************************)
Main(from, to) ==
    /\ main = from /\ main' = to
    /\ UNCHANGED <<writer, _last_message, aborting, events>>

Configured ==
    /\ Main("configure", "initialize")
    /\ UNCHANGED <<option, stop_by_fatal, signal, _initialized, lm, words, reloads, counted>>

\* initialize: with loggers of other objects the handler is made anew, too.
Initialize ==
    /\ Main("initialize", "run")
    /\ _initialized' = TRUE
    /\ stop_by_fatal' = option
    /\ UNCHANGED <<option, signal, lm, words, reloads, counted>>

\* A reload of the core, which drops its status log, of the logger, or of both.
Reload(new) ==
    /\ reloads < MaxReloads /\ ~signal /\ reloads' = reloads + 1
    /\ Main("run", "initialize")
    /\ option' = new /\ stop_by_fatal' = new
    /\ counted' \in {counted, IF counted = "yes" THEN "dropped" ELSE counted}
    /\ UNCHANGED <<signal, _initialized, lm, words>>

\* Somebody stops the daemon.
Signal ==
    /\ signal' = TRUE
    /\ UNCHANGED <<main, _initialized, lm, words, reloads, option, stop_by_fatal,
                   writer, _last_message, counted, aborting, events>>

\* Mutant of Copied: it is copied only if a signal was there.
CopiedOfSignal == IF signal THEN _last_message ELSE NoWriter

Copied == _last_message

\* release, under the mutex: the log is taken out of use, after a run or after a
\* start that was broken off.
Release ==
    /\ signal \/ aborting
    /\ Main("run", "released") \/ Main("initialize", "released")
    /\ lm' = Copied
    /\ UNCHANGED <<option, stop_by_fatal, signal, _initialized, words, reloads, counted>>

\* Abnormal Shutdown!, Bye! or nothing.
LastWord ==
    /\ main = "released" /\ words = "none"
    /\ words' = IF lm # NoWriter THEN "abnormal"
                ELSE IF _initialized THEN "bye" ELSE "silence"
    /\ UNCHANGED <<signal, main, _initialized, lm, reloads, option, stop_by_fatal,
                   writer, _last_message, counted, aborting, events>>

LoggerNext ==
    \/ \E w \in Writer : Fatal(w) \/ SetStatus(w) \/ KeepMessage(w) \/ Abort(w)
    \/ Configured \/ Initialize \/ \E new \in BOOLEAN : Reload(new)
    \/ Signal \/ Release \/ LastWord

LoggerSpec == LoggerInit /\ [][LoggerNext]_loggerVars

-----------------------------------------------------------------------------
(***************************************************************************)
(* Properties                                                              *)
(***************************************************************************)

\* Whichever thread aborts the daemon, and whatever reload is under way: by then
\* the reason is kept for the last words, and get_status answers ABORT, unless
\* the FATAL came before the core was known or the core has begun a new log.
AbortIsTold ==
    aborting =>
        /\ _last_message # NoWriter
        /\ counted # "no" \/ "early" \in events

\* The log says Bye only if no FATAL was handled before it was taken out of use,
\* and Abnormal Shutdown only if one was logged.
LastWordsTrue ==
    /\ words \in {"bye", "silence"} => "ended" \notin events
    /\ words = "abnormal" => "began" \in events /\ lm = _last_message
=============================================================================
