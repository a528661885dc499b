------------------------------- MODULE Statlog -------------------------------
(***************************************************************************)
(* The log of statistics (src/package/statistics/statistics_log/           *)
(* statlog_domain.cpp): every record that is pushed becomes a row of a     *)
(* table, under a legend that is written once for each name, and goes on   *)
(* to the target. Threads push while the main thread reloads the object.   *)
(* The texts of legend and row are left out, but not which columns they    *)
(* have. A multi_push is a push of each of its records here.               *)
(***************************************************************************)
EXTENDS Integers, Sequences, SequencesExt, Functions

CONSTANTS
    Pusher,        \* threads that push
    Garbage,       \* what may be read behind the end of the default order
    Name,          \* names of records
    Column,        \* the columns there are, in their default order
    LogOptions,    \* [suspended, target, show_legend, table_log : BOOLEAN,
                   \*  sequence_of_list \in Formats]
    Formats        \* lists of columns, "#" and "$"

ASSUME StatlogAssumption ==
    \A o \in LogOptions :
        {o.suspended, o.target, o.show_legend, o.table_log} \subseteq BOOLEAN

ASSUME FormatsAssumption ==
    /\ Column \in Seq(STRING) /\ IsInjective(Column)
    /\ {"#", "$"} \cap Range(Column) = {}
    /\ Formats \subseteq Seq(STRING)
    /\ \A o \in LogOptions : o.sequence_of_list \in Formats
    /\ Garbage # {} /\ Garbage \subseteq STRING

VARIABLES
    lopt,          \* options()
    _table_format, \* the columns of the table
    configuring,   \* reconfigure: "asked", "locked" with the mutex, or "no"
    _target,       \* whether there is a target
    _legend,       \* names that have a legend
    push,          \* where a push is: pc; opt: its copy of the options; name;
                   \* cb: what has become of its callback
    legends,       \* history: how often the legend of a name was written
    bare           \* history: names with a row that lacked its legend

logSettings == <<lopt, _table_format, configuring, _target>>
logHistory == <<legends, bare>>
logVars == <<logSettings, _legend, push, logHistory>>

-----------------------------------------------------------------------------
\* Mutant of Used: a column that is listed also stays where it was.
UsedNot(def, j) == def

\* A column that is listed leaves its place in the default order.
Used(def, j) == IF j \in DOMAIN def THEN [def EXCEPT ![j] = "#"] ELSE def

Without(list, S) ==
    FoldLeft(LAMBDA rest, c : IF c \in S THEN rest ELSE Append(rest, c), <<>>, list)

\* More texts than columns are cut off.
Size(orig) == IF Len(orig) > Len(Column) THEN Len(Column) ELSE Len(orig)

\* A text for each "$" of a list, as it may be read.
Beyond == [1..Len(Column) -> Garbage]

\* The i-th text of the list. "#" is the flag for "no others", and is heeded at
\* the end of the list only. "$" is not looked for in the default order but read
\* behind its end, which is undefined; whoever survives it shows what was there.
\* (So is the width of "#" before any column.)
Take(orig, beyond, state, i) ==
    LET j == SelectInSeq(state.def, LAMBDA c : c = orig[i])
        def == IF orig[i] = "#" /\ i = Size(orig) THEN <<>> ELSE state.def
    IN  [def |-> Used(def, j),
         list |-> CASE orig[i] = "#" -> state.list
                    [] orig[i] = "$" -> Append(state.list, beyond[i])
                    [] OTHER -> Append(state.list, orig[i])]

\* configure_: the columns that are listed, then the others.
configure_(orig, beyond) ==
    LET end == FoldLeft(LAMBDA state, i : Take(orig, beyond, state, i),
                        [def |-> Column, list |-> <<>>], [i \in 1..Size(orig) |-> i])
    IN  end.list \o Without(end.def, {"#"})

Silent == [pc |-> "idle", opt |-> CHOOSE o \in LogOptions : TRUE,
           name |-> CHOOSE n \in Name : TRUE, cb |-> "none"]

LogInit ==
    /\ lopt \in LogOptions
    /\ \E beyond \in Beyond : _table_format = configure_(lopt.sequence_of_list, beyond)
    /\ configuring = "no"
    /\ _target = lopt.target
    /\ _legend = {} /\ bare = {} /\ legends = [n \in Name |-> 0]
    /\ push = [p \in Pusher |-> Silent]

PushAt(p, where) == push[p].pc = where

\* push, with a callback or without.
Push(p, name, cb) ==
    /\ PushAt(p, "idle")
    /\ push' = [push EXCEPT ![p] = [Silent EXCEPT !.pc = "push", !.name = name,
                                                  !.cb = cb]]
    /\ UNCHANGED <<logSettings, _legend, logHistory>>

\* suspended(), or push_log_ with the options of this moment.
LookSuspended(p) ==
    /\ PushAt(p, "push")
    /\ push' = [push EXCEPT ![p].pc = IF lopt.suspended THEN "pass" ELSE "legend",
                            ![p].opt = lopt]
    /\ UNCHANGED <<logSettings, _legend, logHistory>>

\* Mutant of WithLegend: nobody remembers that a legend was written.
WithLegendNot(name) == {}

WithLegend(name) == {name}

\* Mutant of Free: a legend does not wait for the mutex.
FreeAlways == TRUE

Free == configuring # "locked"

\* Under the mutex, so that no other row comes in between, nor configure_.
WriteLegend(p) ==
    /\ PushAt(p, "legend") /\ (push[p].opt.show_legend => Free)
    /\ LET name == push[p].name
           new == push[p].opt.show_legend /\ name \notin _legend
       IN  /\ _legend' = _legend \cup (IF new THEN WithLegend(name) ELSE {})
           /\ legends' = [legends EXCEPT ![name] = IF new THEN @ + 1 ELSE @]
    /\ push' = [push EXCEPT ![p].pc = "row"]
    /\ UNCHANGED <<logSettings, bare>>

\* Without the mutex: a row is undefined while configure_ makes the columns.
WriteRow(p) ==
    /\ PushAt(p, "row")
    /\ LET opt == push[p].opt
       IN  bare' = IF opt.table_log /\ opt.show_legend /\ legends[push[p].name] = 0
                     THEN bare \cup {push[p].name} ELSE bare
    /\ push' = [push EXCEPT ![p].pc = "forward"]
    /\ UNCHANGED <<logSettings, _legend, legends>>

\* Suspended and without a target, a push returns and says nothing.
Unanswered(p) == ~_target /\ PushAt(p, "pass")

\* To the target, and the callback with it; or the answer is given here.
Forward(p) ==
    /\ PushAt(p, "forward") \/ PushAt(p, "pass")
    /\ push' = [push EXCEPT ![p] =
                  IF @.cb = "none" THEN Silent
                  ELSE [@ EXCEPT !.pc = "idle", !.cb =
                          IF _target THEN "passed on"
                          ELSE IF Unanswered(p) THEN "dropped" ELSE "answered"]]
    /\ UNCHANGED <<logSettings, _legend, logHistory>>

-----------------------------------------------------------------------------
\* The new options are there before reconfigure is called for them.
LogReconfigure(new) ==
    /\ lopt' = new /\ configuring' = "asked"
    /\ UNCHANGED <<_table_format, _target, _legend, push, logHistory>>

\* It takes the mutex and the old list away,
LogLock ==
    /\ configuring = "asked" /\ configuring' = "locked"
    /\ _table_format' = <<>>
    /\ UNCHANGED <<lopt, _target, _legend, push, logHistory>>

\* and makes the new one. The legends stay as they were written.
LogConfigured ==
    /\ configuring = "locked" /\ configuring' = "no"
    /\ \E beyond \in Beyond : _table_format' = configure_(lopt.sequence_of_list, beyond)
    /\ UNCHANGED <<lopt, _target, _legend, push, logHistory>>

LogInitialize ==
    /\ _target' = lopt.target
    /\ UNCHANGED <<lopt, _table_format, configuring, _legend, push, logHistory>>

PushStep(p) ==
    LookSuspended(p) \/ WriteLegend(p) \/ WriteRow(p) \/ Forward(p)

-----------------------------------------------------------------------------
LogTypeOK ==
    /\ lopt \in LogOptions /\ _target \in BOOLEAN
    /\ configuring \in {"no", "asked", "locked"}
    /\ _legend \subseteq Name /\ bare \subseteq Name
    /\ \A n \in Name : legends[n] \in Nat
    /\ \A p \in Pusher :
         /\ push[p].pc \in {"idle", "push", "legend", "row", "forward", "pass"}
         /\ push[p].opt \in LogOptions /\ push[p].name \in Name
         /\ push[p].cb \in {"none", "held", "passed on", "answered", "dropped"}
         /\ push[p].cb = "held" <=> ~PushAt(p, "idle") /\ push[p].cb # "none"

\* However many threads push, each name has its legend once, and has it before
\* the first row that wants one.
LegendOnce == bare = {} /\ \A n \in Name : legends[n] <= 1

\* A list as it is usually written: no longer than there are columns, with "#" at
\* its end at most, and without "$".
Plain(list) ==
    /\ Len(list) <= Len(Column) /\ "$" \notin Range(list)
    /\ \A i \in DOMAIN list : list[i] = "#" => i = Len(list)

\* What the comment on sequence_of_list says that it means: the columns that it
\* does not list come behind the others in their default order, or with "#" not.
Documented(list) ==
    Without(list, {"#"}) \o
        IF "#" \in Range(list) THEN <<>> ELSE Without(Column, Range(list))

AllAsListed ==
    \A list \in Formats, beyond \in Beyond :
        Plain(list) => configure_(list, beyond) = Documented(list)

\* A legend is written of all columns that configure_ makes of one configuration,
\* of the one in force unless a reload is to come for it, and never of a list that
\* is still being made; and a list as it is usually written shows what it is said to.
LegendAsListed ==
    [][/\ AllAsListed
       /\ \A name \in Name : legends'[name] # legends[name] =>
            \E o \in LogOptions, beyond \in Beyond :
                /\ _table_format = configure_(o.sequence_of_list, beyond)
                /\ configuring = "no" => o = lopt]_logVars
=============================================================================
