----------------------------- MODULE Aggregator -----------------------------
(***************************************************************************)
(* The aggregator (src/package/statistics/statistics_aggregator/           *)
(* aggregator_domain.cpp). Values are pushed into a multi_aggregator, which *)
(* makes one record of the values of a name when their window is over; a   *)
(* record goes to the packer or straight to the targets.                   *)
(*                                                                         *)
(* Threads push, a timer pushes out and empties the packer, and the main    *)
(* thread reloads the object under their feet: it replaces _stat under a    *)
(* mutex that most readers do not take, and clears and refills _targets.    *)
(* A call through a _stat that has been replaced meanwhile is undefined;    *)
(* here it does nothing. A multi_push that cannot be recompacted changes    *)
(* nothing and is left out. The libraries wrtstat and wflow are external.   *)
(***************************************************************************)
EXTENDS Integers, Sequences, FiniteSets, Functions

CONSTANTS
    Value,         \* what is pushed, each value once
    Name,          \* names of values
    NameOf,        \* the name a value is pushed under
    Target,        \* the objects that targets resolve to
    Options,       \* the configurations of the object
    Pusher,        \* threads that call push and multi_push
    Timer,         \* runs of the timer handler that may overlap
    NoTimer,       \* the timer is off
    MaxReloads     \* bound: reloads of the object

\* Targets are listed once, and there are some.
ASSUME AggregatorAssumption ==
    /\ NameOf \in [Value -> Name]
    /\ Options \subseteq [suspend_push : BOOLEAN, packer : BOOLEAN,
                          pushout_timer : BOOLEAN, targets : Seq(Target)]
    /\ \A o \in Options : o.targets # <<>> /\ IsInjective(o.targets)
    /\ Pusher \cap Timer = {}
    /\ Timer # {} /\ NoTimer \notin Timer
    /\ MaxReloads \in Nat

Process == Pusher \cup Timer
Never == -1    \* the value was not accepted

VARIABLES
    \* --- the object
    opt,           \* options()
    _suspend_push,
    _enabled_packer,
    _targets,
    _timer_id,     \* the handler that fires, or NoTimer
    stat,          \* how often _stat has been made anew
    aggregated,    \* values in its multi_aggregator
    open,          \* names whose window is not over
    packer,        \* records in its packer
    main,          \* where the main thread is
    \* --- the threads and the runs of the timer handler
    proc,          \* pc; todo: values still to be pushed; seen: the _stat it
                   \* has looked at; hand: records to pass on; sending: the
                   \* record on its way to the targets; index: the next of them
    \* --- history
    fresh,         \* values that nobody has pushed yet
    accepted,      \* the list of targets, by number, under which a value was
                   \* accepted
    reloads,       \* reloads begun
    deleted,       \* values that del has taken out
    received       \* how often a target got a value

flags == <<opt, _suspend_push, _enabled_packer>>
settings == <<flags, _targets, _timer_id, stat, main, reloads>>
buffers == <<aggregated, open, packer>>
history == <<fresh, accepted, deleted>>
vars == <<settings, buffers, proc, history, received>>

Init ==
    /\ opt \in Options
    /\ _suspend_push = opt.suspend_push
    /\ _enabled_packer = opt.packer
    /\ _targets = opt.targets
    /\ _timer_id = IF opt.pushout_timer THEN CHOOSE p \in Timer : TRUE ELSE NoTimer
    /\ stat = 0 /\ reloads = 0 /\ main = "run"
    /\ aggregated = {} /\ open = {} /\ packer = {}
    /\ proc = [p \in Process |-> [pc |-> "idle", todo |-> {}, seen |-> 0,
                                  hand |-> {}, sending |-> {}, index |-> 2]]
    /\ fresh = Value
    /\ accepted = [v \in Value |-> Never]
    /\ deleted = {}
    /\ received = [t \in Target |-> [v \in Value |-> 0]]

At(p, where) == proc[p].pc = where

-----------------------------------------------------------------------------
\* push is a multi_push of one value.
Push(p, values) ==
    /\ At(p, "idle")
    /\ proc' = [proc EXCEPT ![p].pc = "push", ![p].todo = values]
    /\ fresh' = fresh \ values
    /\ UNCHANGED <<settings, buffers, accepted, deleted, received>>

\* push_: a value that finds the object suspended is dropped, and its push is
\* answered like any other.
PushSuspended(p) ==
    /\ At(p, "push") /\ _suspend_push
    /\ \E v \in proc[p].todo : proc' = [proc EXCEPT ![p].todo = @ \ {v}]
    /\ UNCHANGED <<settings, buffers, history, received>>

\* ... another is pushed into the _stat of this moment.
PushValue(p) ==
    /\ At(p, "push") /\ ~_suspend_push /\ proc[p].todo # {}
    /\ proc' = [proc EXCEPT ![p].pc = "aggregate", ![p].seen = stat]
    /\ UNCHANGED <<settings, buffers, history, received>>

Pushed(p) == proc[p].todo = {}

Answer(p) ==
    /\ At(p, "push") /\ Pushed(p)
    /\ proc' = [proc EXCEPT ![p].pc = "idle"]
    /\ UNCHANGED <<settings, buffers, history, received>>

\* The number of the last list of targets; the one cleared counts until the next.
Lists ==
    IF main \in {"reconfigure", "initialize", "cleared"} THEN reloads - 1 ELSE reloads

Of(name) == {v \in aggregated : NameOf[v] = name}

\* multi_aggregator::push: the values of a window that is over become a record
\* in the hands of the caller, and the value opens the next window.
Aggregate(p) ==
    /\ At(p, "aggregate") /\ proc[p].seen = stat
    /\ \E v \in proc[p].todo :
          LET record == IF NameOf[v] \in open THEN {} ELSE Of(NameOf[v])
          IN  /\ aggregated' = (aggregated \ record) \cup {v}
              /\ open' = open \cup {NameOf[v]}
              /\ proc' = [proc EXCEPT ![p].pc = "next", ![p].seen = 0,
                                      ![p].todo = @ \ {v},
                                      ![p].hand = {record} \ {{}}]
              /\ accepted' = [accepted EXCEPT ![v] = Lists]
    /\ UNCHANGED <<settings, packer, fresh, deleted, received>>

-----------------------------------------------------------------------------
\* The timer fires.
Fire(p) ==
    /\ At(p, "idle") /\ _timer_id = p
    /\ proc' = [proc EXCEPT ![p].pc = "pushout", ![p].seen = stat]
    /\ UNCHANGED <<settings, buffers, history, received>>

\* Mutant of Unripe: windows that are not over are cut off.
UnripeNone == {}

\* What stays in the multi_aggregator.
Unripe == {v \in aggregated : NameOf[v] \in open}

\* multi_aggregator::pushout: one record of each name whose window is over.
Pushout(p) ==
    /\ At(p, "pushout") /\ proc[p].seen = stat
    /\ proc' = [proc EXCEPT ![p].pc = "next", ![p].seen = 0,
                            ![p].hand = {Of(n) : n \in Name \ open} \ {{}}]
    /\ aggregated' = Unripe
    /\ UNCHANGED <<settings, open, packer, history, received>>

\* ... or pushout, through a _stat that has been replaced meanwhile.
Stale(p) ==
    /\ At(p, "aggregate") \/ At(p, "pushout")
    /\ proc[p].seen # stat
    /\ \E rest \in IF At(p, "pushout") THEN {{}}
                   ELSE {proc[p].todo \ {v} : v \in proc[p].todo} :
          proc' = [proc EXCEPT ![p].pc = "next", ![p].seen = 0, ![p].todo = rest]
    /\ UNCHANGED <<settings, buffers, history, received>>

\* Mutants of Flush: the packer is emptied only while it is enabled; or never.
FlushEnabled == _targets # <<>> /\ _enabled_packer
FlushNever == FALSE

\* Whether the timer handler looks into the packer.
Flush == _targets # <<>>

\* All records are passed on.
Passed(p) ==
    /\ At(p, "next") /\ proc[p].hand = {}
    /\ proc' = [proc EXCEPT ![p].pc = IF p \in Pusher THEN "push"
                                      ELSE IF Flush THEN "pop" ELSE "idle"]
    /\ UNCHANGED <<settings, buffers, history, received>>

\* Mutant of Second: the loop over the others begins with the first target.
SecondIsFirst == 1

Second == 2

Take(p, record, to) ==
    proc' = [proc EXCEPT ![p].pc = to, ![p].hand = @ \ {record},
                         ![p].sending = record, ![p].index = Second]

\* push_next_: the next record goes to the packer, to the targets, or nowhere.
PushNext(p) ==
    /\ At(p, "next")
    /\ \E record \in proc[p].hand :
          IF _enabled_packer \/ _targets # <<>>
            THEN Take(p, record, IF _enabled_packer THEN "pack" ELSE "send")
            ELSE proc' = [proc EXCEPT ![p].hand = @ \ {record}]
    /\ UNCHANGED <<settings, buffers, history, received>>

\* pack_next_mt_, under the mutex: into the packer of the _stat there is now.
Pack(p) ==
    /\ At(p, "pack")
    /\ packer' = packer \cup {proc[p].sending}
    /\ proc' = [proc EXCEPT ![p].pc = "next", ![p].sending = {}]
    /\ UNCHANGED <<settings, aggregated, open, history, received>>

Popped == {}

\* mulit_push_next_mt_: all of the packer is taken under the mutex, whether it
\* is enabled or not. Each record is a multi_push of its own here.
Pop(p) ==
    /\ At(p, "pop")
    /\ proc' = [proc EXCEPT ![p].pc = "batch", ![p].hand = packer]
    /\ packer' = Popped
    /\ UNCHANGED <<settings, aggregated, open, history, received>>

NextBatch(p) ==
    /\ At(p, "batch")
    /\ IF proc[p].hand = {}
         THEN proc' = [proc EXCEPT ![p].pc = "idle"]
         ELSE \E record \in proc[p].hand : Take(p, record, "sendBatch")
    /\ UNCHANGED <<settings, buffers, history, received>>

Deliver(t, record) ==
    received' = [received EXCEPT ![t] =
                   [v \in Value |-> IF v \in record THEN @[v] + 1 ELSE @[v]]]

\* The loop over the targets but the first.
SendOther(p) ==
    /\ At(p, "send") \/ At(p, "sendBatch")
    /\ proc[p].index <= Len(_targets)
    /\ Deliver(_targets[proc[p].index], proc[p].sending)
    /\ proc' = [proc EXCEPT ![p].index = @ + 1]
    /\ UNCHANGED <<settings, buffers, history>>

\* The first target gets the record itself. (_targets[0] of a list that has been
\* cleared meanwhile is a target that is no longer there.)
SendFirst(p) ==
    /\ At(p, "send") \/ At(p, "sendBatch")
    /\ proc[p].index > Len(_targets)
    /\ IF _targets # <<>> THEN Deliver(_targets[1], proc[p].sending)
                          ELSE UNCHANGED received
    /\ proc' = [proc EXCEPT ![p].pc = IF At(p, "send") THEN "next" ELSE "batch",
                            ![p].sending = {}, ![p].index = 2]
    /\ UNCHANGED <<settings, buffers, history>>

-----------------------------------------------------------------------------
\* del, for each of its names. What the targets do about it is theirs.
Del(name) ==
    /\ aggregated' = aggregated \ Of(name)
    /\ deleted' = deleted \cup Of(name)
    /\ UNCHANGED <<settings, open, packer, proc, fresh, accepted, received>>

\* Time passes.
WindowEnds(name) ==
    /\ name \in open
    /\ open' = open \ {name}
    /\ UNCHANGED <<settings, aggregated, packer, proc, history, received>>

-----------------------------------------------------------------------------
(***************************************************************************)
(* A reload: reconfigure if the options are new, then initialize, then     *)
(* start, which is restart.                                                *)
(***************************************************************************)
Main(from, to) == main = from /\ main' = to

\* Only some other object may be new: then initialize is called all the same.
Reconfigure(new) ==
    /\ main = "run" /\ reloads < MaxReloads
    /\ reloads' = reloads + 1
    /\ main' = IF new = opt THEN "initialize" ELSE "reconfigure"
    /\ opt' = new
    /\ _suspend_push' = new.suspend_push
    /\ _enabled_packer' = new.packer
    /\ UNCHANGED <<_targets, _timer_id, stat, buffers, proc, history, received>>

\* ... under the mutex: whatever was aggregated or packed is gone.
ReplaceStat ==
    /\ Main("reconfigure", "initialize")
    /\ stat' = stat + 1
    /\ aggregated' = {} /\ open' = {} /\ packer' = {}
    /\ UNCHANGED <<flags, _targets, _timer_id, reloads, proc, history, received>>

ClearTargets ==
    /\ Main("initialize", "cleared")
    /\ _targets' = <<>>
    /\ UNCHANGED <<flags, _timer_id, stat, reloads, buffers, proc, history,
                   received>>

FillTargets ==
    /\ Main("cleared", "restart")
    /\ _targets' = opt.targets
    /\ UNCHANGED <<flags, _timer_id, stat, reloads, buffers, proc, history,
                   received>>

\* The old timer is released, though its handler may still be under way.
Restart ==
    /\ Main("restart", "run")
    /\ _timer_id' \in IF opt.pushout_timer
                        THEN {p \in Timer : At(p, "idle")} \ {_timer_id}
                        ELSE {NoTimer}
    /\ UNCHANGED <<flags, _targets, stat, reloads, buffers, proc, history,
                   received>>

-----------------------------------------------------------------------------
Step(p) ==
    \/ PushSuspended(p) \/ PushValue(p) \/ Answer(p)
    \/ Aggregate(p) \/ Pushout(p) \/ Stale(p)
    \/ Passed(p) \/ PushNext(p) \/ Pack(p) \/ Pop(p) \/ NextBatch(p)
    \/ SendOther(p) \/ SendFirst(p)

Reloads == ReplaceStat \/ ClearTargets \/ FillTargets \/ Restart

Next ==
    \/ \E p \in Pusher, values \in SUBSET fresh \ {{}} : Push(p, values)
    \/ \E p \in Timer : Fire(p)
    \/ \E p \in Process : Step(p)
    \/ \E name \in Name : Del(name) \/ WindowEnds(name)
    \/ \E new \in Options : Reconfigure(new)
    \/ Reloads

Spec == Init /\ [][Next]_vars

\* Time passes, the timer fires, and what was begun goes on. Nobody has to push
\* or to reload.
Fairness ==
    /\ \A name \in Name : WF_vars(WindowEnds(name))
    /\ \A p \in Process : WF_vars(Step(p))
    /\ \A p \in Timer : WF_vars(Fire(p))
    /\ WF_vars(Reloads)

FairSpec == Spec /\ Fairness

-----------------------------------------------------------------------------
(***************************************************************************)
(* Properties                                                              *)
(***************************************************************************)
\* Where a value may be, besides with the targets.
Holder == ({"object"} \X {"fresh", "aggregated", "packer", "deleted"})
          \cup (Process \X {"todo", "hand", "sending"})

Held(x) ==
    CASE x[2] = "fresh" -> fresh
      [] x[2] = "aggregated" -> aggregated
      [] x[2] = "packer" -> UNION packer
      [] x[2] = "deleted" -> deleted
      [] x[2] = "todo" -> proc[x[1]].todo
      [] x[2] = "hand" -> UNION proc[x[1]].hand
      [] x[2] = "sending" -> proc[x[1]].sending

\* A target gets a value once at the most for each list of targets there has been
\* since the value was accepted, whatever reload is under way. (Twice, if the
\* handler comes upon a new list after it has told the target in the old one.)
NeverTwice ==
    \A v \in Value : \A t \in Target :
        received[t][v] <= IF accepted[v] = Never THEN 0 ELSE 1 + Lists - accepted[v]

\* Accepted under the list of targets in force, and no reload has begun.
Undisturbed(v) == accepted[v] = reloads /\ main = "run"

IsDelivered(v) == \A i \in 1..Len(_targets) : received[_targets[i]][v] = 1

\* Then it does not get lost: it is in somebody's hands, or del has taken it,
\* or all the targets have got it.
NothingLost ==
    \A v \in Value :
        Undisturbed(v) => IsDelivered(v) \/ \E x \in Holder : v \in Held(x)

\* With a timer, what was accepted reaches all targets unless the object is
\* reloaded or the value deleted.
Delivered ==
    \A v \in Value :
        Undisturbed(v) /\ _timer_id # NoTimer
            ~> IsDelivered(v) \/ ~Undisturbed(v) \/ v \in deleted

\* With a timer, what lies in the packer leaves it, even if a reload has
\* disabled the packer before the last record was put there.
PackerEmptied ==
    \A v \in Value :
        v \in UNION packer /\ main = "run" /\ _timer_id # NoTimer
            ~> v \notin UNION packer \/ main # "run"
=============================================================================
