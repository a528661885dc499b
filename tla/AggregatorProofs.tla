--------------------------- MODULE AggregatorProofs ---------------------------
(***************************************************************************)
(* The safety of Aggregator for any values, threads, overlapping runs of   *)
(* the timer handler, targets and number of reloads.                       *)
(***************************************************************************)
EXTENDS Aggregator, TLAPS

Place == {"idle", "push", "aggregate", "pushout", "next", "pack", "send", "pop",
          "batch", "sendBatch"}

Thread == [pc : Place, todo : SUBSET Value, seen : Nat,
           hand : SUBSET (SUBSET Value), sending : SUBSET Value, index : Nat \ {0, 1}]

TypeInv ==
    /\ opt \in Options
    /\ _suspend_push \in BOOLEAN /\ _enabled_packer \in BOOLEAN
    /\ _targets \in Seq(Target) /\ IsInjective(_targets)
    /\ stat \in Nat /\ reloads \in Nat
    /\ aggregated \subseteq Value /\ deleted \subseteq Value /\ fresh \subseteq Value
    /\ packer \subseteq SUBSET Value
    /\ main \in {"run", "reconfigure", "initialize", "cleared", "restart"}
    /\ main \in {"reconfigure", "initialize", "cleared"} => reloads # 0
    /\ proc \in [Process -> Thread]
    /\ accepted \in [Value -> Nat \cup {Never}]
    /\ received \in [Target -> [Value -> Nat]]

\* Who has v.
Packed(v) == \E r \in packer : v \in r
InHand(v, p) == \E r \in proc[p].hand : v \in r
Has(v, p) == v \in proc[p].todo \/ InHand(v, p) \/ v \in proc[p].sending
Kept(v) == v \in fresh \/ v \in aggregated \/ Packed(v) \/ v \in deleted

\* What lies in the hands of a thread is what it is busy with.
HandsInv ==
    \A p \in Process :
        /\ proc[p].pc \notin {"next", "pack", "send", "batch", "sendBatch"}
              => proc[p].hand = {}
        /\ proc[p].pc \notin {"pack", "send", "sendBatch"} => proc[p].sending = {}

\* A value is in one place at most.
OnceObject ==
    \A v \in Value :
        /\ v \in fresh => v \notin aggregated /\ ~Packed(v) /\ v \notin deleted
        /\ v \in aggregated => ~Packed(v) /\ v \notin deleted
        /\ Packed(v) => v \notin deleted
OnceProcess ==
    \A v \in Value, p \in Process :
        /\ Has(v, p) => ~Kept(v)
        /\ v \in proc[p].todo => ~InHand(v, p) /\ v \notin proc[p].sending
        /\ InHand(v, p) => v \notin proc[p].sending
OnceOthers ==
    \A v \in Value, p, q \in Process : Has(v, p) /\ Has(v, q) => p = q
OnceRecord ==
    /\ \A r, s \in packer : r # s => r \cap s = {}
    /\ \A p \in Process : \A r, s \in proc[p].hand : r # s => r \cap s = {}
OnceInv == OnceObject /\ OnceProcess /\ OnceOthers /\ OnceRecord

\* Exactly the targets in T have got v, and once.
Got(v, T) == \A t \in Target : received[t][v] = IF t \in T THEN 1 ELSE 0

\* The targets that the loop over the others has passed.
Before(i) == {_targets[j] : j \in 2..(i - 1)}

\* A value is accepted once, before any target gets it.
AcceptInv ==
    /\ \A v \in Value : accepted[v] <= Lists
    /\ \A v \in fresh : accepted[v] = Never /\ Got(v, {})
    /\ \A p \in Process : \A v \in proc[p].todo : accepted[v] = Never /\ Got(v, {})

\* Once they are filled again, the targets are those of the options.
TargetsInv ==
    /\ main \in {"restart", "run"} => _targets = opt.targets
    /\ main = "cleared" => _targets = <<>>

\* A value waits until a thread sends it; after that it is nowhere any more.
Waits(v) == \/ v \in aggregated \/ v \in deleted \/ Packed(v)
            \/ \E p \in Process : InHand(v, p)
            \/ \E p \in Process : v \in proc[p].sending /\ proc[p].pc = "pack"
Sends(v, p) == v \in proc[p].sending /\ proc[p].pc # "pack"

\* The loop of p is still to come upon t in the list there is.
Ahead(p, t) ==
    \E k \in 1..Len(_targets) : (k = 1 \/ k >= proc[p].index) /\ _targets[k] = t

\* How often a target may have got a value.
Bound(v) == 1 + Lists - accepted[v]

\* Whatever reload is under way, the bound has room for the targets ahead.
Count(v) ==
    /\ accepted[v] = Never =>
          Got(v, {}) /\ ~Waits(v) /\ \A p \in Process : ~Sends(v, p)
    /\ Waits(v) => Got(v, {})
    /\ accepted[v] # Never => \A t \in Target : received[t][v] <= Bound(v)
    /\ \A p \in Process, t \in Target :
          Sends(v, p) /\ Ahead(p, t) => received[t][v] < Bound(v)

\* How far a value has come that was accepted under the list there is.
Settled(v) == accepted[v] = reloads /\ main \in {"restart", "run"}
Way(v) ==
    Settled(v) =>
        /\ \A p \in Process : Sends(v, p) =>
              /\ proc[p].index \in 2..(Len(_targets) + 1)
              /\ Got(v, Before(proc[p].index))
        /\ Waits(v) \/ (\E p \in Process : Sends(v, p)) \/ Got(v, Range(_targets))
Come(v) == Count(v) /\ Way(v)
ComeInv == \A v \in Value : Come(v)

Inv == TypeInv /\ HandsInv /\ OnceInv /\ AcceptInv /\ TargetsInv /\ ComeInv

-----------------------------------------------------------------------------
LEMMA ListsNat == TypeInv => Lists \in Nat
BY DEF TypeInv, Lists

LEMMA Changed ==
    ASSUME proc \in [Process -> Thread], NEW p \in Process, NEW r \in Thread,
           proc' = [proc EXCEPT ![p] = r]
    PROVE  /\ proc' \in [Process -> Thread] /\ proc'[p] = r
           /\ \A q \in Process \ {p} : proc'[q] = proc[q]
OBVIOUS

\* Nothing but losses: every value stays in one place at most.
LEMMA OnceShrinks ==
    ASSUME OnceInv,
           fresh' \subseteq fresh, aggregated' \subseteq aggregated,
           packer' \subseteq packer, deleted' \subseteq deleted,
           \A p \in Process : /\ proc'[p].todo \subseteq proc[p].todo
                              /\ proc'[p].hand \subseteq proc[p].hand
                              /\ proc'[p].sending \subseteq proc[p].sending
    PROVE  OnceInv'
<1>1. OnceObject'
  BY DEF OnceInv, OnceObject, Packed
<1>2. OnceProcess'
  BY DEF OnceInv, OnceProcess, Has, InHand, Kept, Packed
<1>3. OnceOthers'
  BY DEF OnceInv, OnceOthers, Has, InHand
<1>4. OnceRecord'
  BY DEF OnceInv, OnceRecord
<1>. QED  BY <1>1, <1>2, <1>3, <1>4 DEF OnceInv

\* Nothing is accepted, and who has not been accepted is where it was.
LEMMA AcceptStays ==
    ASSUME AcceptInv, UNCHANGED <<reloads, main, accepted, received>>,
           fresh' \subseteq fresh,
           \A p \in Process : proc'[p].todo \subseteq proc[p].todo \cup (fresh \ fresh')
    PROVE  AcceptInv'
BY DEF AcceptInv, Got, Lists

\* No target gets the value, and it does not come up again.
LEMMA CountStays ==
    ASSUME NEW v \in Value, Count(v), TypeInv, AcceptInv,
           accepted'[v] = accepted[v], Lists' \in Nat, Lists' >= Lists,
           _targets' \in {_targets, <<>>} \/ Lists' > Lists,
           \A t \in Target : received'[t][v] = received[t][v],
           Waits(v)' => Waits(v),
           \A p \in Process : Sends(v, p)' =>
                Waits(v) \/ (Sends(v, p) /\ proc'[p].index = proc[p].index)
    PROVE  Count(v)'
<1>1. Got(v, {}) => Got(v, {})'
  BY DEF Got
<1>2. accepted[v] # Never =>
         Bound(v) \in Int /\ Bound(v)' \in Int /\ Bound(v) > 0 /\ Bound(v)' >= Bound(v)
  BY ListsNat DEF Bound, TypeInv, AcceptInv, Never
<1>3. \A t \in Target : received[t][v] \in Nat
  BY DEF TypeInv
<1>4. accepted'[v] = Never =>
         Got(v, {})' /\ ~Waits(v)' /\ \A p \in Process : ~Sends(v, p)'
  BY <1>1 DEF Count
<1>5. Waits(v)' => Got(v, {})'
  BY <1>1 DEF Count
<1>6. accepted'[v] # Never => \A t \in Target : received'[t][v] <= Bound(v)'
  BY <1>2, <1>3 DEF Count
<1>7. ASSUME NEW p \in Process, NEW t \in Target, Sends(v, p)', Ahead(p, t)'
      PROVE  received'[t][v] < Bound(v)'
  <2>1. accepted[v] # Never
    BY <1>7 DEF Count
  <2>2. CASE Waits(v)
    BY <1>2, <2>1, <2>2 DEF Count, Got
  <2>3. CASE Lists' > Lists
    <3>1. Bound(v)' > Bound(v)
      BY <2>1, <2>3, ListsNat DEF Bound, TypeInv, Never
    <3>. QED  BY <1>2, <1>3, <2>1, <3>1 DEF Count
  <2>4. CASE /\ _targets' \in {_targets, <<>>}
             /\ Sends(v, p) /\ proc'[p].index = proc[p].index
    <3>1. Ahead(p, t)
      BY <1>7, <2>4 DEF Ahead
    <3>. QED  BY <1>2, <1>3, <2>1, <2>4, <3>1 DEF Count
  <2>. QED  BY <1>7, <2>2, <2>3, <2>4
<1>. QED  BY <1>4, <1>5, <1>6, <1>7 DEF Count

\* ... but goes on waiting, or begins to be sent, or goes on being sent.
LEMMA ComeStays ==
    ASSUME NEW v \in Value, Come(v), TypeInv, AcceptInv, TargetsInv,
           accepted'[v] = accepted[v], UNCHANGED <<main, reloads, _targets>>,
           \A t \in Target : received'[t][v] = received[t][v],
           Waits(v)' => Waits(v),
           \A p \in Process : Sends(v, p)' =>
                \/ Sends(v, p) /\ proc'[p].index = proc[p].index
                \/ Waits(v) /\ proc'[p].index = 2,
           Waits(v) \/ (\E p \in Process : Sends(v, p))
               => Waits(v)' \/ (\E p \in Process : Sends(v, p)')
    PROVE  Come(v)'
<1>1. \A T : Got(v, T) => Got(v, T)'
  BY DEF Got
<1>2. Lists' = Lists /\ Lists \in Nat
  BY DEF Lists, TypeInv
<1>3. Count(v)'
  BY <1>2, CountStays DEF Come
<1>4. Way(v)'
  <2>. SUFFICES ASSUME Settled(v)'
                PROVE  /\ \A p \in Process : Sends(v, p)' =>
                             /\ (proc[p].index \in 2..(Len(_targets) + 1))'
                             /\ Got(v, Before(proc[p].index))'
                       /\ \/ Waits(v)' \/ (\E p \in Process : Sends(v, p)')
                          \/ Got(v, Range(_targets))'
    BY DEF Way
  <2>1. Settled(v)
    BY DEF Settled
  <2>2. _targets # <<>> /\ Len(_targets) \in Nat /\ Len(_targets) > 0
    BY <2>1, AggregatorAssumption DEF Settled, TargetsInv, TypeInv
  <2>3. ASSUME NEW p \in Process, Sends(v, p)'
        PROVE  /\ (proc[p].index \in 2..(Len(_targets) + 1))'
               /\ Got(v, Before(proc[p].index))'
    <3>1. CASE Sends(v, p) /\ proc'[p].index = proc[p].index
      BY <2>1, <3>1 DEF Come, Way, Got, Before
    <3>2. CASE Waits(v) /\ proc'[p].index = 2
      <4>1. Before(proc[p].index)' = {}
        BY <3>2 DEF Before
      <4>2. Got(v, Before(proc[p].index))'
        BY <1>1, <3>2, <4>1 DEF Come, Count
      <4>. QED  BY <2>2, <3>2, <4>2
    <3>. QED  BY <2>3, <3>1, <3>2
  <2>4. \/ Waits(v)' \/ (\E p \in Process : Sends(v, p)')
        \/ Got(v, Range(_targets))'
    <3>1. Got(v, Range(_targets)) => Got(v, Range(_targets))'
      BY <1>1
    <3>. QED  BY <2>1, <3>1 DEF Come, Way
  <2>. QED  BY <2>3, <2>4
<1>. QED  BY <1>3, <1>4 DEF Come

-----------------------------------------------------------------------------
\* A thread has nothing on its way to the targets, before and after the step,
\* and may drop what it was to push.
LEMMA Quiet ==
    ASSUME Inv, NEW p \in Process, NEW r \in Thread,
           UNCHANGED <<settings, buffers, history, received>>,
           proc' = [proc EXCEPT ![p] = r],
           r.todo \subseteq proc[p].todo, r.hand = proc[p].hand,
           r.sending = proc[p].sending,
           proc[p].pc \notin {"pack", "send", "sendBatch"},
           r.pc \notin {"pack", "send", "sendBatch"},
           r.pc \notin {"next", "batch"} => r.hand = {}
    PROVE  Inv'
<1>. USE DEF settings, flags, buffers, history
<1>1. /\ proc' \in [Process -> Thread] /\ proc'[p] = r
      /\ \A q \in Process \ {p} : proc'[q] = proc[q]
  BY Changed DEF Inv, TypeInv
<1>2. TypeInv'
  BY <1>1 DEF Inv, TypeInv
<1>3. HandsInv'
  BY <1>1 DEF Inv, HandsInv
<1>4. OnceInv'
  BY <1>1, OnceShrinks DEF Inv
<1>5. AcceptInv'
  BY <1>1, AcceptStays DEF Inv
<1>6. TargetsInv'
  BY DEF Inv, TargetsInv
<1>7. ComeInv'
  <2>1. proc[p].sending = {}
    BY DEF Inv, HandsInv
  <2>2. \A v \in Value : Waits(v)' <=> Waits(v)
    BY <1>1, <2>1 DEF Waits, InHand, Packed
  <2>3. \A v \in Value, q \in Process :
           Sends(v, q)' => Sends(v, q) /\ proc'[q].index = proc[q].index
    BY <1>1, <2>1 DEF Sends
  <2>4. \A v \in Value, q \in Process : Sends(v, q) => Sends(v, q)'
    BY <1>1, <2>1 DEF Sends
  <2>5. UNCHANGED <<accepted, main, reloads, _targets>>
    OBVIOUS
  <2>. QED  BY <2>2, <2>3, <2>4, <2>5, ComeStays DEF Inv, ComeInv
<1>. QED  BY <1>2, <1>3, <1>4, <1>5, <1>6, <1>7 DEF Inv

LEMMA QuietSteps ==
    ASSUME Inv, NEW p \in Process,
           \/ PushSuspended(p) \/ PushValue(p) \/ Answer(p)
           \/ Fire(p) \/ Stale(p) \/ Passed(p)
    PROVE  Inv'
<1>. USE DEF At
<1>1. /\ proc[p] \in Thread /\ stat \in Nat
      /\ proc[p].pc \notin {"next", "pack", "send", "batch", "sendBatch"}
            => proc[p].hand = {}
  BY DEF Inv, TypeInv, HandsInv
<1>2. CASE PushSuspended(p)
  <2>0. PICK v \in proc[p].todo : proc' = [proc EXCEPT ![p].todo = @ \ {v}]
    BY <1>2 DEF PushSuspended
  <2>. DEFINE r == [proc[p] EXCEPT !.todo = @ \ {v}]
  <2>1. proc' = [proc EXCEPT ![p] = r] /\ proc[p].pc = "push"
    BY <2>0, <1>2 DEF PushSuspended
  <2>2. r \in Thread
    BY <1>1, <2>0 DEF Thread, Place
  <2>3. /\ r.todo \subseteq proc[p].todo /\ r.hand = proc[p].hand
        /\ r.sending = proc[p].sending /\ r.pc = proc[p].pc
    BY <1>1 DEF Thread
  <2>. HIDE DEF r
  <2>. QED  BY <1>2, <1>1, <2>1, <2>2, <2>3, Quiet DEF PushSuspended
<1>3. CASE PushValue(p)
  <2>. DEFINE r == [proc[p] EXCEPT !.pc = "aggregate", !.seen = stat]
  <2>1. proc' = [proc EXCEPT ![p] = r] /\ proc[p].pc = "push"
    BY <1>3 DEF PushValue
  <2>2. r \in Thread
    BY <1>1 DEF Thread, Place
  <2>3. /\ r.todo \subseteq proc[p].todo /\ r.hand = proc[p].hand
        /\ r.sending = proc[p].sending /\ r.pc = "aggregate"
    BY <1>1 DEF Thread
  <2>. HIDE DEF r
  <2>. QED  BY <1>3, <1>1, <2>1, <2>2, <2>3, Quiet DEF PushValue
<1>4. CASE Answer(p)
  <2>. DEFINE r == [proc[p] EXCEPT !.pc = "idle"]
  <2>1. proc' = [proc EXCEPT ![p] = r] /\ proc[p].pc = "push"
    BY <1>4 DEF Answer
  <2>2. r \in Thread
    BY <1>1 DEF Thread, Place
  <2>3. /\ r.todo \subseteq proc[p].todo /\ r.hand = proc[p].hand
        /\ r.sending = proc[p].sending /\ r.pc = "idle"
    BY <1>1 DEF Thread
  <2>. HIDE DEF r
  <2>. QED  BY <1>4, <1>1, <2>1, <2>2, <2>3, Quiet DEF Answer
<1>5. CASE Fire(p)
  <2>. DEFINE r == [proc[p] EXCEPT !.pc = "pushout", !.seen = stat]
  <2>1. proc' = [proc EXCEPT ![p] = r] /\ proc[p].pc = "idle"
    BY <1>5 DEF Fire
  <2>2. r \in Thread
    BY <1>1 DEF Thread, Place
  <2>3. /\ r.todo \subseteq proc[p].todo /\ r.hand = proc[p].hand
        /\ r.sending = proc[p].sending /\ r.pc = "pushout"
    BY <1>1 DEF Thread
  <2>. HIDE DEF r
  <2>. QED  BY <1>5, <1>1, <2>1, <2>2, <2>3, Quiet DEF Fire
<1>6. CASE Stale(p)
  <2>0. PICK d \in SUBSET proc[p].todo :
            proc' = [proc EXCEPT ![p].pc = "next", ![p].seen = 0, ![p].todo = d]
    BY <1>6, <1>1 DEF Stale, Thread
  <2>. DEFINE r == [proc[p] EXCEPT !.pc = "next", !.seen = 0, !.todo = d]
  <2>1. proc' = [proc EXCEPT ![p] = r] /\ proc[p].pc \in {"aggregate", "pushout"}
    BY <2>0, <1>6 DEF Stale
  <2>2. r \in Thread
    BY <1>1, <2>0 DEF Thread, Place
  <2>3. /\ r.todo \subseteq proc[p].todo /\ r.hand = proc[p].hand
        /\ r.sending = proc[p].sending /\ r.pc = "next"
    BY <1>1 DEF Thread
  <2>. HIDE DEF r
  <2>. QED  BY <1>6, <1>1, <2>1, <2>2, <2>3, Quiet DEF Stale
<1>7. CASE Passed(p)
  <2>0. PICK w \in {"push", "pop", "idle"} : proc' = [proc EXCEPT ![p].pc = w]
    BY <1>7 DEF Passed
  <2>. DEFINE r == [proc[p] EXCEPT !.pc = w]
  <2>1. proc' = [proc EXCEPT ![p] = r] /\ proc[p].pc = "next" /\ proc[p].hand = {}
    BY <2>0, <1>7 DEF Passed
  <2>2. r \in Thread
    BY <1>1, <2>0 DEF Thread, Place
  <2>3. /\ r.todo \subseteq proc[p].todo /\ r.hand = proc[p].hand
        /\ r.sending = proc[p].sending /\ r.pc \in {"push", "pop", "idle"}
    BY <1>1 DEF Thread
  <2>. HIDE DEF r
  <2>. QED  BY <1>7, <1>1, <2>1, <2>2, <2>3, Quiet, ZenonT(60) DEF Passed
<1>. QED  BY <1>2, <1>3, <1>4, <1>5, <1>6, <1>7

LEMMA PushStep ==
    ASSUME Inv, NEW p \in Pusher, NEW values \in SUBSET fresh, Push(p, values)
    PROVE  Inv'
<1>. USE DEF settings, flags, buffers, history, At
<1>. DEFINE r == [proc[p] EXCEPT !.pc = "push", !.todo = values]
<1>1. proc[p] \in Thread /\ fresh \subseteq Value /\ p \in Process
  BY DEF Inv, TypeInv, Process
<1>2. r \in Thread
  BY <1>1 DEF Thread, Place
<1>3. r.todo = values /\ r.hand = {} /\ r.sending = {} /\ r.pc = "push"
  BY <1>1 DEF Push, Inv, HandsInv, Thread
<1>4. proc' = [proc EXCEPT ![p] = r] /\ proc[p].hand = {} /\ proc[p].sending = {}
  BY <1>1 DEF Push, Inv, HandsInv
<1>. HIDE DEF r
<1>5. /\ proc' \in [Process -> Thread] /\ proc'[p] = r
      /\ \A q \in Process \ {p} : proc'[q] = proc[q]
  BY <1>1, <1>2, <1>4, Changed DEF Inv, TypeInv
<1>6. TypeInv'
  BY <1>5 DEF Inv, TypeInv, Push
<1>7. HandsInv'
  BY <1>3, <1>5 DEF Inv, HandsInv
<1>8. OnceInv'
  <2>. USE <1>1, <1>3, <1>4, <1>5 DEF Push, Inv, OnceInv
  <2>1. OnceObject'
    BY DEF OnceObject, Packed
  <2>2. OnceProcess'
    BY DEF OnceProcess, OnceObject, Has, InHand, Kept, Packed
  <2>3. OnceOthers'
    BY DEF OnceProcess, OnceOthers, Has, InHand, Kept, Packed
  <2>4. OnceRecord'
    BY DEF OnceRecord
  <2>. QED  BY <2>1, <2>2, <2>3, <2>4
<1>9. AcceptInv'
  BY <1>3, <1>5, AcceptStays DEF Inv, Push
<1>10. TargetsInv'
  BY DEF Inv, TargetsInv, Push
<1>11. ComeInv'
  <2>. SUFFICES ASSUME NEW v \in Value PROVE Come(v)'
    BY DEF ComeInv
  <2>. USE <1>1, <1>3, <1>4, <1>5
  <2>1. Waits(v)' <=> Waits(v)
    BY DEF Waits, InHand, Packed, Push
  <2>2. \A q \in Process : Sends(v, q)' => Sends(v, q) /\ proc'[q].index = proc[q].index
    BY DEF Sends
  <2>3. \A q \in Process : Sends(v, q) => Sends(v, q)'
    BY DEF Sends
  <2>4. accepted'[v] = accepted[v] /\ UNCHANGED <<main, reloads, _targets>>
    BY DEF Push
  <2>. QED  BY <2>1, <2>2, <2>3, <2>4, ComeStays DEF Inv, ComeInv, Push
<1>. QED  BY <1>6, <1>7, <1>8, <1>9, <1>10, <1>11 DEF Inv

\* The value and the record that it closes.
LEMMA AggregateStep ==
    ASSUME Inv, NEW p \in Process, Aggregate(p)
    PROVE  Inv'
<1>. USE DEF settings, flags, buffers, history, At
<1>1. PICK v \in proc[p].todo :
          LET record == IF NameOf[v] \in open THEN {} ELSE Of(NameOf[v])
          IN  /\ aggregated' = (aggregated \ record) \cup {v}
              /\ proc' = [proc EXCEPT ![p].pc = "next", ![p].seen = 0,
                                      ![p].todo = @ \ {v},
                                      ![p].hand = {record} \ {{}}]
              /\ accepted' = [accepted EXCEPT ![v] = Lists]
  BY DEF Aggregate
<1>. DEFINE record == IF NameOf[v] \in open THEN {} ELSE Of(NameOf[v])
            h == {record} \ {{}}
            r == [proc[p] EXCEPT !.pc = "next", !.seen = 0, !.todo = @ \ {v}, !.hand = h]
<1>2. proc[p] \in Thread /\ v \in Value /\ record \subseteq aggregated
      /\ aggregated \subseteq Value /\ h \in SUBSET (SUBSET Value)
  BY DEF Inv, TypeInv, Thread, Of
<1>3. /\ proc' = [proc EXCEPT ![p] = r]
      /\ aggregated' = (aggregated \ record) \cup {v}
      /\ accepted' = [accepted EXCEPT ![v] = Lists]
  BY <1>1
<1>. HIDE DEF record
<1>4. h \subseteq {record}
  OBVIOUS
<1>5. \A w \in record : record \in h
  OBVIOUS
<1>. HIDE DEF h
<1>6. r \in Thread
  BY <1>2 DEF Thread, Place
<1>7. UNCHANGED <<settings, packer, fresh, deleted, received>>
  BY DEF Aggregate
<1>8. proc[p].hand = {} /\ proc[p].sending = {}
  BY DEF Aggregate, Inv, HandsInv
<1>9. r.todo = proc[p].todo \ {v} /\ r.hand = h /\ r.sending = {} /\ r.pc = "next"
  BY <1>2, <1>8 DEF Thread
<1>. HIDE DEF r
<1>10. /\ proc' \in [Process -> Thread] /\ proc'[p] = r
      /\ \A q \in Process \ {p} : proc'[q] = proc[q]
  BY <1>2, <1>6, <1>3, Changed DEF Inv, TypeInv
<1>11. TypeInv'
  <2>1. accepted' \in [Value -> Nat \cup {Never}]
    BY <1>2, <1>3, ListsNat DEF Inv, TypeInv
  <2>. QED  BY <1>2, <1>3, <1>7, <1>10, <2>1 DEF Inv, TypeInv
<1>12. HandsInv'
  BY <1>9, <1>10 DEF Inv, HandsInv
<1>13. OnceInv'
  <2>. USE <1>2, <1>9, <1>3, <1>4, <1>5, <1>7, <1>8, <1>10 DEF Inv, OnceInv
  <2>1. OnceObject'
    BY DEF OnceObject, OnceProcess, Has, Kept, Packed
  <2>2. OnceProcess'
    BY DEF OnceProcess, OnceObject, OnceOthers, Has, InHand, Kept, Packed
  <2>3. OnceOthers'
    BY DEF OnceProcess, OnceOthers, Has, InHand, Kept, Packed
  <2>4. OnceRecord'
    BY DEF OnceRecord
  <2>. QED  BY <2>1, <2>2, <2>3, <2>4
<1>14. AcceptInv'
  <2>. USE <1>2, <1>9, <1>3, <1>7, <1>10 DEF Inv
  <2>1. v \notin fresh /\ (\A q \in Process : v \notin proc'[q].todo)
    BY DEF OnceInv, OnceProcess, OnceOthers, Has, Kept
  <2>2. \A q \in Process : proc'[q].todo \subseteq proc[q].todo
    OBVIOUS
  <2>3. \A u \in Value : accepted'[u] = IF u # v THEN accepted[u] ELSE Lists
    BY DEF TypeInv
  <2>4. /\ Lists \in Nat /\ Lists' = Lists /\ fresh \subseteq Value
        /\ \A q \in Process : proc[q].todo \subseteq Value
    BY DEF TypeInv, Thread, Lists
  <2>. QED  BY <2>1, <2>2, <2>3, <2>4 DEF AcceptInv, Got, Never
<1>15. TargetsInv'
  BY <1>7 DEF Inv, TargetsInv
<1>16. ASSUME NEW u \in Value, u # v PROVE Come(u)'
  <2>. USE <1>2, <1>9, <1>3, <1>4, <1>5, <1>7, <1>8, <1>10, <1>16
  <2>1. Waits(u)' <=> Waits(u)
    BY DEF Waits, InHand, Packed
  <2>2. \A q \in Process : Sends(u, q)' => Sends(u, q) /\ proc'[q].index = proc[q].index
    BY DEF Sends
  <2>3. \A q \in Process : Sends(u, q) => Sends(u, q)'
    BY DEF Sends
  <2>4. accepted'[u] = accepted[u] /\ UNCHANGED <<main, reloads, _targets>>
    BY DEF Inv, TypeInv
  <2>. QED  BY <2>1, <2>2, <2>3, <2>4, ComeStays DEF Inv, ComeInv
<1>17. Come(v)'
  <2>. USE <1>2, <1>9, <1>3, <1>4, <1>5, <1>7, <1>8, <1>10
  <2>1. Waits(v)'
    BY DEF Waits
  <2>2. \A q \in Process : ~Sends(v, q)'
    BY DEF Sends, Inv, OnceInv, OnceProcess, OnceOthers, Has
  <2>3. Got(v, {})'
    BY DEF Got, Inv, AcceptInv
  <2>4. accepted'[v] = Lists' /\ Lists' \in Nat
    BY DEF Inv, TypeInv, Lists
  <2>5. Bound(v)' = 1 /\ accepted'[v] # Never
    BY <2>4 DEF Bound, Never
  <2>. QED  BY <2>1, <2>2, <2>3, <2>5 DEF Come, Count, Way, Got
<1>. QED  BY <1>11, <1>12, <1>13, <1>14, <1>15, <1>16, <1>17 DEF Inv, ComeInv

\* The records of the windows that are over are disjoint.
LEMMA PushoutStep ==
    ASSUME Inv, NEW p \in Process, Pushout(p)
    PROVE  Inv'
<1>. USE DEF settings, flags, buffers, history, At
<1>. DEFINE h == {Of(n) : n \in Name \ open} \ {{}}
            r == [proc[p] EXCEPT !.pc = "next", !.seen = 0, !.hand = h]
<1>1. proc[p] \in Thread /\ h \in SUBSET (SUBSET Value) /\ aggregated \subseteq Value
  BY DEF Inv, TypeInv, Of
<1>2. proc' = [proc EXCEPT ![p] = r] /\ aggregated' = Unripe
  BY DEF Pushout
<1>3. proc[p].hand = {} /\ proc[p].sending = {}
  BY DEF Pushout, Inv, HandsInv
<1>4. UNCHANGED <<settings, open, packer, history, received>>
  BY DEF Pushout
<1>5. \A v \in Value : (\E s \in h : v \in s) <=> v \in aggregated \ Unripe
  <2>1. ASSUME NEW v \in aggregated \ Unripe PROVE \E s \in h : v \in s
    <3>1. NameOf[v] \in Name \ open
      BY AggregatorAssumption, <1>1, <2>1 DEF Unripe
    <3>2. v \in Of(NameOf[v])
      BY <2>1 DEF Of
    <3>3. Of(NameOf[v]) \in h
      BY <3>1, <3>2
    <3>. QED  BY <3>2, <3>3
  <2>2. ASSUME NEW s \in h, NEW v \in s PROVE v \in aggregated \ Unripe
    BY <2>2 DEF Of, Unripe
  <2>. QED  BY <2>1, <2>2
<1>6. \A s, t \in h : s # t => s \cap t = {}
  BY DEF Of
<1>. HIDE DEF h
<1>7. r \in Thread
  BY <1>1 DEF Thread, Place
<1>8. r.todo = proc[p].todo /\ r.hand = h /\ r.sending = {} /\ r.pc = "next"
  BY <1>1, <1>3 DEF Thread
<1>. HIDE DEF r
<1>9. /\ proc' \in [Process -> Thread] /\ proc'[p] = r
      /\ \A q \in Process \ {p} : proc'[q] = proc[q]
  BY <1>2, <1>7, Changed DEF Inv, TypeInv
<1>10. Unripe \subseteq aggregated
  BY DEF Unripe
<1>11. TypeInv'
  BY <1>2, <1>4, <1>9, <1>10 DEF Inv, TypeInv
<1>12. HandsInv'
  BY <1>8, <1>9 DEF Inv, HandsInv
<1>13. OnceInv'
  <2>. USE <1>2, <1>3, <1>4, <1>5, <1>8, <1>9, <1>10 DEF Inv, OnceInv
  <2>1. OnceObject'
    BY DEF OnceObject, Packed
  <2>2. OnceProcess'
    BY DEF OnceObject, OnceProcess, Has, InHand, Kept, Packed
  <2>3. OnceOthers'
    BY DEF OnceProcess, OnceOthers, Has, InHand, Kept
  <2>4. OnceRecord'
    BY <1>6 DEF OnceRecord
  <2>. QED  BY <2>1, <2>2, <2>3, <2>4
<1>14. AcceptInv'
  BY <1>4, <1>8, <1>9, AcceptStays DEF Inv
<1>15. TargetsInv'
  BY <1>4 DEF Inv, TargetsInv
<1>16. ComeInv'
  <2>. SUFFICES ASSUME NEW v \in Value PROVE Come(v)'
    BY DEF ComeInv
  <2>. USE <1>2, <1>3, <1>4, <1>5, <1>8, <1>9, <1>10
  <2>1. Waits(v)' <=> Waits(v)
    <3>1. (\E q \in Process : InHand(v, q)') <=>
             (\E q \in Process : InHand(v, q)) \/ v \in aggregated \ Unripe
      BY DEF InHand
    <3>. QED  BY <3>1 DEF Waits, Packed
  <2>2. \A q \in Process : Sends(v, q)' => Sends(v, q) /\ proc'[q].index = proc[q].index
    BY DEF Sends
  <2>3. \A q \in Process : Sends(v, q) => Sends(v, q)'
    BY DEF Sends
  <2>4. accepted'[v] = accepted[v] /\ UNCHANGED <<main, reloads, _targets>>
    OBVIOUS
  <2>. QED  BY <2>1, <2>2, <2>3, <2>4, ComeStays DEF Inv, ComeInv
<1>. QED  BY <1>11, <1>12, <1>13, <1>14, <1>15, <1>16 DEF Inv

\* A record leaves the hands of a thread, for the packer or for the targets.
LEMMA TakeStep ==
    ASSUME Inv, NEW p \in Process, NEW record \in proc[p].hand,
           proc[p].pc \in {"next", "batch"},
           NEW to \in {"pack", "send", "sendBatch"}, Take(p, record, to),
           UNCHANGED <<settings, buffers, history, received>>
    PROVE  Inv'
<1>. USE DEF settings, flags, buffers, history
<1>. DEFINE r == [proc[p] EXCEPT !.pc = to, !.hand = @ \ {record}, !.sending = record,
                                 !.index = Second]
<1>1. proc[p] \in Thread
  BY DEF Inv, TypeInv
<1>2. proc' = [proc EXCEPT ![p] = r] /\ proc[p].sending = {}
  BY DEF Take, Inv, HandsInv
<1>3. r \in Thread
  <2>1. /\ to \in Place /\ Second \in Nat \ {0, 1} /\ record \in SUBSET Value
        /\ proc[p].hand \ {record} \in SUBSET (SUBSET Value)
    BY <1>1 DEF Thread, Place, Second
  <2>. QED  BY <1>1, <2>1 DEF Thread
<1>4. /\ r.todo = proc[p].todo /\ r.hand = proc[p].hand \ {record} /\ r.sending = record
      /\ r.pc = to /\ r.index = 2
  BY <1>1 DEF Thread, Second
<1>. HIDE DEF r
<1>5. /\ proc' \in [Process -> Thread] /\ proc'[p] = r
      /\ \A q \in Process \ {p} : proc'[q] = proc[q]
  BY <1>2, <1>3, Changed DEF Inv, TypeInv
<1>6. TypeInv'
  BY <1>5 DEF Inv, TypeInv
<1>7. HandsInv'
  BY <1>4, <1>5 DEF Inv, HandsInv
<1>8. OnceInv'
  <2>. USE <1>2, <1>4, <1>5 DEF Inv, OnceInv
  <2>1. OnceObject'
    BY DEF OnceObject, Packed
  <2>2. OnceProcess'
    BY DEF OnceProcess, OnceRecord, Has, InHand, Kept, Packed
  <2>3. OnceOthers'
    BY DEF OnceOthers, Has, InHand
  <2>4. OnceRecord'
    BY DEF OnceRecord
  <2>. QED  BY <2>1, <2>2, <2>3, <2>4
<1>9. AcceptInv'
  BY <1>4, <1>5, AcceptStays DEF Inv
<1>10. TargetsInv'
  BY DEF Inv, TargetsInv
<1>11. ComeInv'
  <2>. SUFFICES ASSUME NEW v \in Value PROVE Come(v)'
    BY DEF ComeInv
  <2>. USE <1>2, <1>4, <1>5
  <2>1. v \in record => InHand(v, p) /\ Waits(v)
    BY DEF InHand, Waits
  <2>2. \A q \in Process : InHand(v, q)' => InHand(v, q)
    BY DEF InHand
  <2>3. Packed(v)' <=> Packed(v)
    BY DEF Packed
  <2>4. Waits(v)' => Waits(v)
    BY <2>1, <2>2, <2>3 DEF Waits
  <2>5. \A q \in Process : Sends(v, q)' =>
           \/ Sends(v, q) /\ proc'[q].index = proc[q].index
           \/ Waits(v) /\ proc'[q].index = 2
    BY <2>1 DEF Sends
  <2>6. v \in record => Waits(v)' \/ Sends(v, p)'
    BY DEF Waits, Sends
  <2>7. v \notin record =>
           /\ \A q \in Process : InHand(v, q) => InHand(v, q)'
           /\ \A q \in Process : Sends(v, q) => Sends(v, q)'
    BY DEF InHand, Sends
  <2>8. v \notin record => (Waits(v) => Waits(v)')
    BY <2>3, <2>7 DEF Waits
  <2>9. accepted'[v] = accepted[v] /\ UNCHANGED <<main, reloads, _targets>>
    OBVIOUS
  <2>. QED  BY <2>4, <2>5, <2>6, <2>7, <2>8, <2>9, ComeStays DEF Inv, ComeInv
<1>. QED  BY <1>6, <1>7, <1>8, <1>9, <1>10, <1>11 DEF Inv

\* push_next_: without a packer and without targets a record is dropped, which
\* happens in a reload only.
LEMMA PushNextStep ==
    ASSUME Inv, NEW p \in Process, PushNext(p) PROVE Inv'
<1>. USE DEF settings, flags, buffers, history, At
<1>1. PICK record \in proc[p].hand :
          IF _enabled_packer \/ _targets # <<>>
            THEN Take(p, record, IF _enabled_packer THEN "pack" ELSE "send")
            ELSE proc' = [proc EXCEPT ![p].hand = @ \ {record}]
  BY DEF PushNext
<1>2. CASE _enabled_packer \/ _targets # <<>>
  <2>1. PICK to \in {"pack", "send"} : Take(p, record, to)
    BY <1>1, <1>2
  <2>. QED  BY <2>1, TakeStep DEF PushNext
<1>3. CASE ~_enabled_packer /\ _targets = <<>>
  <2>. DEFINE r == [proc[p] EXCEPT !.hand = @ \ {record}]
  <2>1. proc[p] \in Thread /\ proc[p].pc = "next" /\ proc[p].sending = {}
    BY DEF PushNext, Inv, TypeInv, HandsInv
  <2>2. proc' = [proc EXCEPT ![p] = r]
    BY <1>1, <1>3
  <2>3. r \in Thread
    BY <2>1 DEF Thread
  <2>4. /\ r.todo = proc[p].todo /\ r.hand = proc[p].hand \ {record} /\ r.sending = {}
        /\ r.pc = "next"
    BY <2>1 DEF Thread
  <2>. HIDE DEF r
  <2>5. /\ proc' \in [Process -> Thread] /\ proc'[p] = r
        /\ \A q \in Process \ {p} : proc'[q] = proc[q]
    BY <2>2, <2>3, Changed DEF Inv, TypeInv
  <2>6. UNCHANGED <<settings, buffers, history, received>>
    BY DEF PushNext
  <2>7. TypeInv'
    BY <2>5, <2>6 DEF Inv, TypeInv
  <2>8. HandsInv'
    BY <2>4, <2>5 DEF Inv, HandsInv
  <2>9. OnceInv'
    BY <2>1, <2>4, <2>5, <2>6, OnceShrinks DEF Inv
  <2>10. AcceptInv'
    BY <2>4, <2>5, <2>6, AcceptStays DEF Inv
  <2>11. TargetsInv'
    BY <2>6 DEF Inv, TargetsInv
  <2>12. main \notin {"restart", "run"}
    BY <1>3, AggregatorAssumption DEF Inv, TypeInv, TargetsInv
  <2>13. ASSUME NEW v \in Value PROVE Come(v)'
    <3>0. (\A q \in Process : InHand(v, q)' => InHand(v, q)) /\ (Packed(v)' <=> Packed(v))
      BY <2>1, <2>4, <2>5, <2>6 DEF InHand, Packed
    <3>1. (Waits(v)' => Waits(v)) /\ Lists' = Lists /\ Lists \in Nat
      BY <2>1, <2>4, <2>5, <2>6, <3>0, ListsNat DEF Waits, Lists, Inv
    <3>2. \A q \in Process : Sends(v, q)' => Sends(v, q) /\ proc'[q].index = proc[q].index
      BY <2>1, <2>4, <2>5 DEF Sends
    <3>3. Count(v)'
      BY <2>6, <3>1, <3>2, CountStays DEF Inv, ComeInv, Come
    <3>. QED  BY <2>6, <2>12, <3>3 DEF Come, Way, Settled
  <2>. QED  BY <2>7, <2>8, <2>9, <2>10, <2>11, <2>13 DEF Inv, ComeInv
<1>. QED  BY <1>2, <1>3

LEMMA NextBatchStep ==
    ASSUME Inv, NEW p \in Process, NextBatch(p) PROVE Inv'
<1>. USE DEF At
<1>1. CASE proc[p].hand = {}
  <2>. DEFINE r == [proc[p] EXCEPT !.pc = "idle"]
  <2>1. proc[p] \in Thread /\ proc[p].pc = "batch"
    BY DEF NextBatch, Inv, TypeInv
  <2>2. proc' = [proc EXCEPT ![p] = r]
    BY <1>1 DEF NextBatch
  <2>3. r \in Thread
    BY <2>1 DEF Thread, Place
  <2>4. /\ r.todo = proc[p].todo /\ r.hand = proc[p].hand
        /\ r.sending = proc[p].sending /\ r.pc = "idle"
    BY <2>1 DEF Thread
  <2>. HIDE DEF r
  <2>. QED  BY <1>1, <2>1, <2>2, <2>3, <2>4, Quiet DEF NextBatch
<1>2. CASE proc[p].hand # {}
  <2>1. PICK record \in proc[p].hand : Take(p, record, "sendBatch")
    BY <1>2 DEF NextBatch
  <2>. QED  BY <2>1, TakeStep DEF NextBatch
<1>. QED  BY <1>1, <1>2

\* A record moves to the packer.
LEMMA PackStep ==
    ASSUME Inv, NEW p \in Process, Pack(p) PROVE Inv'
<1>. USE DEF settings, flags, history, At
<1>. DEFINE r == [proc[p] EXCEPT !.pc = "next", !.sending = {}]
<1>1. proc[p] \in Thread /\ proc[p].pc = "pack"
  BY DEF Pack, Inv, TypeInv
<1>2. proc' = [proc EXCEPT ![p] = r]
  BY DEF Pack
<1>3. r \in Thread
  BY <1>1 DEF Thread, Place
<1>4. /\ r.todo = proc[p].todo /\ r.hand = proc[p].hand /\ r.sending = {}
      /\ r.pc = "next"
  BY <1>1 DEF Thread
<1>. HIDE DEF r
<1>5. /\ proc' \in [Process -> Thread] /\ proc'[p] = r
      /\ \A q \in Process \ {p} : proc'[q] = proc[q]
  BY <1>2, <1>3, Changed DEF Inv, TypeInv
<1>6. /\ packer' = packer \cup {proc[p].sending}
      /\ UNCHANGED <<settings, aggregated, open, history, received>>
  BY DEF Pack
<1>7. TypeInv'
  BY <1>1, <1>5, <1>6 DEF Inv, TypeInv, Thread
<1>8. HandsInv'
  BY <1>4, <1>5 DEF Inv, HandsInv
<1>9. OnceInv'
  <2>. USE <1>4, <1>5, <1>6 DEF Inv, OnceInv
  <2>1. OnceObject'
    BY DEF OnceObject, OnceProcess, Packed, Has, Kept
  <2>2. OnceProcess'
    BY DEF OnceProcess, OnceOthers, Packed, Kept, Has, InHand
  <2>3. OnceOthers'
    BY DEF OnceOthers, Has, InHand
  <2>4. OnceRecord'
    <3>1. \A s \in packer : s \cap proc[p].sending = {}
      BY <1>1 DEF OnceProcess, Has, Kept, Packed, Thread
    <3>. QED  BY <3>1 DEF OnceRecord
  <2>. QED  BY <2>1, <2>2, <2>3, <2>4
<1>10. AcceptInv'
  BY <1>4, <1>5, <1>6, AcceptStays DEF Inv
<1>11. TargetsInv'
  BY <1>6 DEF Inv, TargetsInv
<1>12. ComeInv'
  <2>. SUFFICES ASSUME NEW v \in Value PROVE Come(v)'
    BY DEF ComeInv
  <2>. USE <1>1, <1>4, <1>5, <1>6
  <2>1. Packed(v)' <=> Packed(v) \/ v \in proc[p].sending
    BY DEF Packed
  <2>2. \A q \in Process : InHand(v, q)' <=> InHand(v, q)
    BY DEF InHand
  <2>3. Waits(v)' <=> Waits(v)
    BY <2>1, <2>2 DEF Waits
  <2>4. \A q \in Process : Sends(v, q)' => Sends(v, q) /\ proc'[q].index = proc[q].index
    BY DEF Sends
  <2>5. \A q \in Process : Sends(v, q) => Sends(v, q)'
    BY DEF Sends
  <2>6. accepted'[v] = accepted[v] /\ UNCHANGED <<main, reloads, _targets>>
    OBVIOUS
  <2>. QED  BY <2>3, <2>4, <2>5, <2>6, ComeStays DEF Inv, ComeInv
<1>. QED  BY <1>7, <1>8, <1>9, <1>10, <1>11, <1>12 DEF Inv

\* All records of the packer come into the hands of the timer handler.
LEMMA PopStep ==
    ASSUME Inv, NEW p \in Process, Pop(p) PROVE Inv'
<1>. USE DEF settings, flags, history, At
<1>. DEFINE r == [proc[p] EXCEPT !.pc = "batch", !.hand = packer]
<1>1. proc[p] \in Thread /\ packer \in SUBSET (SUBSET Value)
  BY DEF Inv, TypeInv
<1>2. proc' = [proc EXCEPT ![p] = r]
  BY DEF Pop
<1>3. r \in Thread
  BY <1>1 DEF Thread, Place
<1>4. proc[p].hand = {} /\ proc[p].sending = {}
  BY DEF Pop, Inv, HandsInv
<1>5. /\ r.todo = proc[p].todo /\ r.hand = packer /\ r.sending = {}
      /\ r.pc = "batch"
  BY <1>1, <1>4 DEF Thread
<1>. HIDE DEF r
<1>6. /\ proc' \in [Process -> Thread] /\ proc'[p] = r
      /\ \A q \in Process \ {p} : proc'[q] = proc[q]
  BY <1>2, <1>3, Changed DEF Inv, TypeInv
<1>7. packer' = {} /\ UNCHANGED <<settings, aggregated, open, history, received>>
  BY DEF Pop, Popped
<1>8. TypeInv'
  BY <1>6, <1>7 DEF Inv, TypeInv
<1>9. HandsInv'
  BY <1>5, <1>6 DEF Inv, HandsInv
<1>10. OnceInv'
  <2>. USE <1>4, <1>5, <1>6, <1>7 DEF Inv, OnceInv
  <2>1. OnceObject'
    BY DEF OnceObject, Packed
  <2>2. OnceProcess'
    BY DEF OnceObject, OnceProcess, Packed, Kept, Has, InHand
  <2>3. OnceOthers'
    BY DEF OnceOthers, OnceProcess, Kept, Packed, Has, InHand
  <2>4. OnceRecord'
    BY DEF OnceRecord
  <2>. QED  BY <2>1, <2>2, <2>3, <2>4
<1>11. AcceptInv'
  BY <1>5, <1>6, <1>7, AcceptStays DEF Inv
<1>12. TargetsInv'
  BY <1>7 DEF Inv, TargetsInv
<1>13. ComeInv'
  <2>. SUFFICES ASSUME NEW v \in Value PROVE Come(v)'
    BY DEF ComeInv
  <2>. USE <1>4, <1>5, <1>6, <1>7
  <2>1. (Packed(v) \/ \E q \in Process : InHand(v, q))'
           <=> Packed(v) \/ \E q \in Process : InHand(v, q)
    BY DEF Packed, InHand
  <2>2. Waits(v)' <=> Waits(v)
    BY <2>1 DEF Waits
  <2>3. \A q \in Process : Sends(v, q)' => Sends(v, q) /\ proc'[q].index = proc[q].index
    BY DEF Sends
  <2>4. \A q \in Process : Sends(v, q) => Sends(v, q)'
    BY DEF Sends
  <2>5. accepted'[v] = accepted[v] /\ UNCHANGED <<main, reloads, _targets>>
    OBVIOUS
  <2>. QED  BY <2>2, <2>3, <2>4, <2>5, ComeStays DEF Inv, ComeInv
<1>. QED  BY <1>8, <1>9, <1>10, <1>11, <1>12, <1>13 DEF Inv

\* A record on its way to the targets is nowhere else.
LEMMA Alone ==
    ASSUME OnceInv, NEW p \in Process, NEW v \in Value, v \in proc[p].sending
    PROVE  /\ v \notin fresh /\ \A q \in Process : v \notin proc[q].todo
           /\ \A q \in Process \ {p} : ~Sends(v, q)
           /\ proc[p].pc # "pack" => ~Waits(v)
<1>1. \A q \in Process \ {p} : ~Has(v, q)
  BY DEF OnceInv, OnceOthers, Has
<1>2. ~Kept(v)
  BY DEF OnceInv, OnceProcess, Has
<1>3. v \notin proc[p].todo /\ ~InHand(v, p)
  BY DEF OnceInv, OnceProcess
<1>. QED  BY <1>1, <1>2, <1>3 DEF Has, Kept, Sends, Waits

\* What a target gets.
LEMMA Delivery ==
    ASSUME TypeInv, NEW t \in Target, NEW record, Deliver(t, record)
    PROVE  /\ received' \in [Target -> [Value -> Nat]]
           /\ \A u \in Target : \A v \in Value :
                 received'[u][v] = IF u = t /\ v \in record THEN received[u][v] + 1
                                                            ELSE received[u][v]
<1>. DEFINE g == [v \in Value |-> IF v \in record THEN received[t][v] + 1
                                                  ELSE received[t][v]]
<1>1. received' = [received EXCEPT ![t] = g]
  BY DEF Deliver
<1>2. g \in [Value -> Nat]
  BY DEF TypeInv
<1>3. \A v \in Value : g[v] = IF v \in record THEN received[t][v] + 1 ELSE received[t][v]
  OBVIOUS
<1>. HIDE DEF g
<1>. QED  BY <1>1, <1>2, <1>3 DEF TypeInv

\* The targets that the loop has passed, one step further, and at its end.
LEMMA BeforeNext ==
    ASSUME NEW i \in Nat, i >= 2
    PROVE  Before(i + 1) = Before(i) \cup {_targets[i]}
BY DEF Before

LEMMA BeforeOthers ==
    ASSUME TypeInv, NEW i \in 2..Len(_targets)
    PROVE  _targets[i] \in Target /\ _targets[i] \notin Before(i)
<1>1. /\ Len(_targets) \in Nat /\ DOMAIN _targets = 1..Len(_targets)
      /\ \A j \in 1..Len(_targets) : _targets[j] \in Target
      /\ \A j, k \in 1..Len(_targets) : _targets[j] = _targets[k] => j = k
  BY DEF TypeInv, IsInjective
<1>. QED  BY <1>1 DEF Before

LEMMA BeforeFirst ==
    ASSUME TypeInv, _targets # <<>>
    PROVE  /\ _targets[1] \in Target
           /\ _targets[1] \notin Before(Len(_targets) + 1)
           /\ Range(_targets) = Before(Len(_targets) + 1) \cup {_targets[1]}
<1>1. /\ Len(_targets) \in Nat /\ Len(_targets) >= 1 /\ DOMAIN _targets = 1..Len(_targets)
      /\ \A j \in 1..Len(_targets) : _targets[j] \in Target
      /\ \A j, k \in 1..Len(_targets) : _targets[j] = _targets[k] => j = k
  BY DEF TypeInv, IsInjective
<1>2. Before(Len(_targets) + 1) = {_targets[j] : j \in 2..Len(_targets)}
  BY <1>1 DEF Before
<1>3. Range(_targets) = {_targets[j] : j \in 1..Len(_targets)}
  BY <1>1 DEF Range
<1>4. 1..Len(_targets) = (2..Len(_targets)) \cup {1}
  BY <1>1
<1>5. \A j \in 2..Len(_targets) : _targets[j] # _targets[1]
  BY <1>1
<1>. QED  BY <1>1, <1>2, <1>3, <1>4, <1>5

\* One target gets the record that p sends.
LEMMA Getting ==
    ASSUME Inv, NEW p \in Process, NEW t \in Target, Deliver(t, proc[p].sending),
           proc[p].pc \in {"send", "sendBatch"},
           NEW r \in Thread, proc' = [proc EXCEPT ![p] = r],
           r.todo = proc[p].todo, r.hand = proc[p].hand,
           r.sending \subseteq proc[p].sending,
           r.pc \in {"next", "batch", "send", "sendBatch"},
           r.pc \in {"next", "batch"} => r.sending = {},
           UNCHANGED <<settings, buffers, history>>
    PROVE  /\ TypeInv' /\ HandsInv' /\ OnceInv' /\ AcceptInv' /\ TargetsInv'
           /\ \A v \in Value \ proc[p].sending : Come(v)'
<1>. USE DEF settings, flags, buffers, history
<1>1. /\ proc' \in [Process -> Thread] /\ proc'[p] = r
      /\ \A q \in Process \ {p} : proc'[q] = proc[q]
  BY Changed DEF Inv, TypeInv
<1>2. /\ received' \in [Target -> [Value -> Nat]]
      /\ \A u \in Target : \A v \in Value \ proc[p].sending :
            received'[u][v] = received[u][v]
  BY Delivery DEF Inv
<1>3. TypeInv'
  BY <1>1, <1>2 DEF Inv, TypeInv
<1>4. HandsInv'
  BY <1>1 DEF Inv, HandsInv
<1>5. OnceInv'
  BY <1>1, OnceShrinks DEF Inv
<1>6. AcceptInv'
  <2>1. \A v \in Value : v \in fresh \/ (\E q \in Process : v \in proc[q].todo)
                            => v \notin proc[p].sending
    BY Alone DEF Inv
  <2>2. \A v \in Value : v \notin proc[p].sending => (Got(v, {}) => Got(v, {})')
    BY <1>2 DEF Got
  <2>3. \A q \in Process : proc'[q].todo = proc[q].todo /\ proc[q].todo \subseteq Value
    BY <1>1 DEF Inv, TypeInv, Thread
  <2>4. fresh \subseteq Value
    BY DEF Inv, TypeInv
  <2>5. Lists' = Lists
    BY DEF Lists
  <2>. QED  BY <2>1, <2>2, <2>3, <2>4, <2>5 DEF Inv, AcceptInv
<1>7. TargetsInv'
  BY DEF Inv, TargetsInv
<1>8. ASSUME NEW v \in Value \ proc[p].sending PROVE Come(v)'
  <2>. USE <1>1
  <2>1. \A q \in Process : InHand(v, q)' <=> InHand(v, q)
    BY DEF InHand
  <2>2. Waits(v)' <=> Waits(v)
    BY <2>1 DEF Waits, Packed
  <2>3. \A q \in Process : Sends(v, q)' => Sends(v, q) /\ proc'[q].index = proc[q].index
    BY DEF Sends
  <2>4. \A q \in Process : Sends(v, q) => Sends(v, q)'
    BY DEF Sends
  <2>5. accepted'[v] = accepted[v] /\ UNCHANGED <<main, reloads, _targets>>
    OBVIOUS
  <2>. QED  BY <1>2, <2>2, <2>3, <2>4, <2>5, ComeStays DEF Inv, ComeInv
<1>. QED  BY <1>3, <1>4, <1>5, <1>6, <1>7, <1>8

\* One of the other targets gets the record.
LEMMA SendOtherStep ==
    ASSUME Inv, NEW p \in Process, SendOther(p) PROVE Inv'
<1>. USE DEF settings, flags, buffers, history, At
<1>1. PICK i \in 2..Len(_targets) : i = proc[p].index
  BY DEF SendOther, Inv, TypeInv, Thread
<1>. DEFINE r == [proc[p] EXCEPT !.index = i + 1]
<1>2. proc[p] \in Thread /\ proc[p].pc \in {"send", "sendBatch"} /\ Len(_targets) \in Nat
  BY DEF SendOther, Inv, TypeInv
<1>3. i + 1 \in Nat \ {0, 1} /\ proc' = [proc EXCEPT ![p] = r]
  BY <1>1, <1>2 DEF SendOther
<1>4. r \in Thread
  BY <1>2, <1>3 DEF Thread
<1>5. /\ r.todo = proc[p].todo /\ r.hand = proc[p].hand /\ r.sending = proc[p].sending
      /\ r.pc = proc[p].pc /\ r.index = i + 1
  BY <1>2 DEF Thread
<1>. HIDE DEF r
<1>6. /\ Deliver(_targets[i], proc[p].sending) /\ _targets[i] \in Target
      /\ UNCHANGED <<settings, buffers, history>>
  BY <1>1, <1>2 DEF SendOther, Inv, TypeInv
<1>7. /\ TypeInv' /\ HandsInv' /\ OnceInv' /\ AcceptInv' /\ TargetsInv'
      /\ \A v \in Value \ proc[p].sending : Come(v)'
  BY <1>2, <1>3, <1>4, <1>5, <1>6, Getting
<1>8. /\ proc'[p] = r /\ \A q \in Process \ {p} : proc'[q] = proc[q]
  BY <1>3, <1>4, Changed DEF Inv, TypeInv
<1>9. ASSUME NEW v \in Value, v \in proc[p].sending PROVE Come(v)'
  <2>1. Sends(v, p) /\ accepted[v] # Never
    BY <1>2, <1>9 DEF Sends, Inv, ComeInv, Come, Count
  <2>2. _targets[i] \notin Before(i)
    BY BeforeOthers DEF Inv, TypeInv
  <2>3. \A t \in Target : received'[t][v] =
           IF t = _targets[i] THEN received[t][v] + 1 ELSE received[t][v]
    BY <1>6, <1>9, Delivery DEF Inv
  <2>4. ~Waits(v) /\ \A q \in Process \ {p} : ~Sends(v, q)
    BY <1>2, <1>9, Alone DEF Inv
  <2>5. ~Waits(v)' /\ \A q \in Process \ {p} : ~Sends(v, q)'
    BY <1>2, <1>5, <1>6, <1>8, <2>4 DEF Waits, Sends, InHand, Packed
  <2>6. Count(v)'
    <3>1. /\ Bound(v)' = Bound(v) /\ Bound(v) \in Int /\ accepted' = accepted
          /\ \A t \in Target : received[t][v] \in Nat
      BY <1>6, <2>1 DEF Bound, Lists, Inv, TypeInv, Never
    <3>2. Ahead(p, _targets[i])
      BY <1>1 DEF Ahead
    <3>3. \A t \in Target : received'[t][v] <= Bound(v)
      BY <1>6, <2>1, <2>3, <3>1, <3>2 DEF Inv, ComeInv, Come, Count
    <3>4. ASSUME NEW t \in Target, Ahead(p, t)' PROVE received'[t][v] < Bound(v)
      <4>1. PICK k \in 1..Len(_targets) : (k = 1 \/ k >= i + 1) /\ _targets[k] = t
        BY <1>5, <1>6, <1>8, <3>4 DEF Ahead
      <4>2. t # _targets[i]
        BY <4>1 DEF Inv, TypeInv, IsInjective
      <4>3. Ahead(p, t)
        BY <1>1, <4>1 DEF Ahead
      <4>. QED  BY <2>1, <2>3, <4>2, <4>3 DEF Inv, ComeInv, Come, Count
    <3>. QED  BY <2>1, <2>5, <3>1, <3>3, <3>4 DEF Count
  <2>7. Way(v)'
    <3>. SUFFICES ASSUME Settled(v)' PROVE Way(v)'
      BY DEF Way
    <3>1. Got(v, Before(i))
      BY <1>1, <1>6, <2>1 DEF Inv, ComeInv, Come, Way, Settled
    <3>2. Got(v, Before(i + 1))'
      <4>1. Before(i + 1) = Before(i) \cup {_targets[i]}
        BY <1>2, BeforeNext
      <4>2. Before(i + 1)' = Before(i + 1)
        BY <1>6, <1>8 DEF Before
      <4>. QED  BY <2>2, <2>3, <3>1, <4>1, <4>2 DEF Got
    <3>. QED  BY <1>2, <1>5, <1>6, <1>8, <2>5, <3>2, <2>1 DEF Way, Sends
  <2>. QED  BY <2>6, <2>7 DEF Come
<1>. QED  BY <1>7, <1>9 DEF Inv, ComeInv

\* The first target gets it last, and then the record is with all of them.
LEMMA SendFirstStep ==
    ASSUME Inv, NEW p \in Process, SendFirst(p) PROVE Inv'
<1>. USE DEF settings, flags, buffers, history, At
<1>1. PICK to \in {"next", "batch"} :
         proc' = [proc EXCEPT ![p].pc = to, ![p].sending = {}, ![p].index = 2]
  BY DEF SendFirst
<1>. DEFINE r == [proc[p] EXCEPT !.pc = to, !.sending = {}, !.index = 2]
<1>2. proc[p] \in Thread /\ proc[p].pc \in {"send", "sendBatch"}
      /\ proc[p].index > Len(_targets)
  BY DEF SendFirst, Inv, TypeInv
<1>3. r \in Thread
  <2>1. to \in Place /\ 2 \in Nat \ {0, 1} /\ {} \in SUBSET Value
    BY DEF Place
  <2>. QED  BY <1>2, <2>1 DEF Thread
<1>4. /\ r.todo = proc[p].todo /\ r.hand = proc[p].hand /\ r.sending = {} /\ r.pc = to
  BY <1>2 DEF Thread
<1>5. proc' = [proc EXCEPT ![p] = r] /\ UNCHANGED <<settings, buffers, history>>
  BY <1>1, ZenonT(60) DEF SendFirst
<1>. HIDE DEF r
<1>6. /\ proc' \in [Process -> Thread] /\ proc'[p] = r
      /\ \A q \in Process \ {p} : proc'[q] = proc[q]
  BY <1>3, <1>5, Changed DEF Inv, TypeInv
<1>7. CASE _targets # <<>>
  <2>1. Deliver(_targets[1], proc[p].sending) /\ _targets[1] \in Target
        /\ Len(_targets) \in Nat
    BY <1>7 DEF SendFirst, Inv, TypeInv
  <2>2. /\ TypeInv' /\ HandsInv' /\ OnceInv' /\ AcceptInv' /\ TargetsInv'
        /\ \A v \in Value \ proc[p].sending : Come(v)'
    BY <1>2, <1>3, <1>4, <1>5, <2>1, Getting
  <2>3. ASSUME NEW v \in Value, v \in proc[p].sending PROVE Come(v)'
    <3>1. Sends(v, p) /\ accepted[v] # Never
      BY <1>2, <2>3 DEF Sends, Inv, ComeInv, Come, Count
    <3>2. \A t \in Target : received'[t][v] =
             IF t = _targets[1] THEN received[t][v] + 1 ELSE received[t][v]
      BY <2>1, <2>3, Delivery DEF Inv
    <3>3. ~Waits(v) /\ \A q \in Process \ {p} : ~Sends(v, q)
      BY <1>2, <2>3, Alone DEF Inv
    <3>4. ~Waits(v)' /\ \A q \in Process : ~Sends(v, q)'
      BY <1>2, <1>4, <1>5, <1>6, <3>3 DEF Waits, Sends, InHand, Packed
    <3>5. Count(v)'
      <4>1. /\ Bound(v)' = Bound(v) /\ Bound(v) \in Int /\ accepted' = accepted
            /\ \A t \in Target : received[t][v] \in Nat
        BY <1>5, <3>1 DEF Bound, Lists, Inv, TypeInv, Never
      <4>2. Ahead(p, _targets[1])
        BY <1>7, <2>1 DEF Ahead, Inv, TypeInv
      <4>3. \A t \in Target : received'[t][v] <= Bound(v)
        BY <2>1, <3>1, <3>2, <4>1, <4>2 DEF Inv, ComeInv, Come, Count
      <4>. QED  BY <3>1, <3>4, <4>1, <4>3 DEF Count
    <3>6. Way(v)'
      <4>. SUFFICES ASSUME Settled(v)' PROVE Way(v)'
        BY DEF Way
      <4>1. Settled(v)
        BY <1>5 DEF Settled
      <4>2. Got(v, Before(Len(_targets) + 1))
        <5>1. proc[p].index \in 2..(Len(_targets) + 1) /\ Got(v, Before(proc[p].index))
          BY <3>1, <4>1 DEF Inv, ComeInv, Come, Way
        <5>2. proc[p].index = Len(_targets) + 1
          BY <1>2, <2>1, <5>1
        <5>. QED  BY <5>1, <5>2
      <4>3. Got(v, Range(_targets))'
        <5>1. /\ _targets[1] \notin Before(Len(_targets) + 1)
              /\ Range(_targets) = Before(Len(_targets) + 1) \cup {_targets[1]}
          BY <1>7, BeforeFirst DEF Inv, TypeInv
        <5>2. Range(_targets)' = Range(_targets)
          BY <1>5
        <5>. QED  BY <3>2, <4>2, <5>1, <5>2 DEF Got
      <4>. QED  BY <3>4, <4>3 DEF Way
    <3>. QED  BY <3>5, <3>6 DEF Come
  <2>. QED  BY <2>2, <2>3 DEF Inv, ComeInv
<1>8. CASE _targets = <<>>
  <2>1. received' = received
    BY <1>8 DEF SendFirst
  <2>2. main \notin {"restart", "run"}
    BY <1>8, AggregatorAssumption DEF Inv, TypeInv, TargetsInv
  <2>3. TypeInv' /\ TargetsInv'
    BY <1>5, <1>6, <2>1 DEF Inv, TypeInv, TargetsInv
  <2>4. HandsInv'
    BY <1>4, <1>6 DEF Inv, HandsInv
  <2>5. OnceInv'
    BY <1>4, <1>5, <1>6, OnceShrinks DEF Inv
  <2>6. AcceptInv'
    BY <1>4, <1>5, <1>6, <2>1, AcceptStays DEF Inv
  <2>7. ASSUME NEW v \in Value PROVE Come(v)'
    <3>1. (Waits(v)' => Waits(v)) /\ Lists' = Lists /\ Lists \in Nat
      BY <1>2, <1>4, <1>5, <1>6 DEF Waits, InHand, Packed, Lists, Inv, TypeInv
    <3>2. \A q \in Process : Sends(v, q)' => Sends(v, q) /\ proc'[q].index = proc[q].index
      BY <1>4, <1>6 DEF Sends
    <3>3. Count(v)'
      BY <1>5, <2>1, <3>1, <3>2, CountStays DEF Inv, ComeInv, Come
    <3>. QED  BY <1>5, <2>2, <3>3 DEF Come, Way, Settled
  <2>. QED  BY <2>3, <2>4, <2>5, <2>6, <2>7 DEF Inv, ComeInv
<1>. QED  BY <1>7, <1>8

-----------------------------------------------------------------------------
\* del and the passing of time.
LEMMA DelStep ==
    ASSUME Inv, NEW name \in Name, Del(name) PROVE Inv'
<1>. USE DEF settings, flags, buffers, history, Del
<1>1. Of(name) \subseteq aggregated
  BY DEF Of
<1>2. TypeInv'
  BY <1>1 DEF Inv, TypeInv
<1>3. HandsInv' /\ TargetsInv'
  BY DEF Inv, HandsInv, TargetsInv
<1>4. OnceInv'
  <2>. USE <1>1 DEF Inv, OnceInv
  <2>1. OnceObject'
    BY DEF OnceObject, Packed
  <2>2. OnceProcess'
    BY DEF OnceProcess, Packed, Kept, Has, InHand
  <2>3. OnceOthers' /\ OnceRecord'
    BY DEF OnceOthers, OnceRecord, Has, InHand
  <2>. QED  BY <2>1, <2>2, <2>3
<1>5. AcceptInv'
  BY AcceptStays DEF Inv
<1>6. ComeInv'
  <2>. SUFFICES ASSUME NEW v \in Value PROVE Come(v)'
    BY DEF ComeInv
  <2>1. Waits(v)' <=> Waits(v)
    BY <1>1 DEF Waits, Packed, InHand
  <2>2. \A q \in Process : Sends(v, q)' <=> Sends(v, q)
    BY DEF Sends
  <2>3. accepted'[v] = accepted[v] /\ UNCHANGED <<main, reloads, _targets>>
    OBVIOUS
  <2>. QED  BY <2>1, <2>2, <2>3, ComeStays DEF Inv, ComeInv
<1>. QED  BY <1>2, <1>3, <1>4, <1>5, <1>6 DEF Inv

LEMMA WindowEndsStep ==
    ASSUME Inv, NEW name \in Name, WindowEnds(name) PROVE Inv'
<1>. USE DEF settings, flags, buffers, history, WindowEnds
<1>1. TypeInv' /\ HandsInv' /\ TargetsInv'
  BY DEF Inv, TypeInv, HandsInv, TargetsInv
<1>2. OnceInv'
  BY OnceShrinks DEF Inv
<1>3. AcceptInv'
  BY AcceptStays DEF Inv
<1>4. ComeInv'
  <2>. SUFFICES ASSUME NEW v \in Value PROVE Come(v)'
    BY DEF ComeInv
  <2>1. Waits(v)' <=> Waits(v)
    BY DEF Waits, Packed, InHand
  <2>2. \A q \in Process : Sends(v, q)' <=> Sends(v, q)
    BY DEF Sends
  <2>3. accepted'[v] = accepted[v] /\ UNCHANGED <<main, reloads, _targets>>
    OBVIOUS
  <2>. QED  BY <2>1, <2>2, <2>3, ComeStays DEF Inv, ComeInv
<1>. QED  BY <1>1, <1>2, <1>3, <1>4 DEF Inv

\* A reload begins, goes on, and ends. What was accepted before belongs to an older
\* list of targets than the one it fills.
LEMMA ReloadSteps ==
    ASSUME Inv, (\E new \in Options : Reconfigure(new)) \/ Reloads
    PROVE  Inv'
<1>. USE DEF settings, flags, buffers, history
<1>1. TypeInv' /\ TargetsInv'
  <2>. USE DEF Inv, TypeInv, TargetsInv, Main, Lists
  <2>1. CASE \E new \in Options : Reconfigure(new)
    BY <2>1, AggregatorAssumption DEF Reconfigure
  <2>2. CASE ReplaceStat
    BY <2>2 DEF ReplaceStat
  <2>3. CASE ClearTargets
    BY <2>3 DEF ClearTargets, IsInjective
  <2>4. CASE FillTargets
    BY <2>4, AggregatorAssumption DEF FillTargets
  <2>5. CASE Restart
    BY <2>5 DEF Restart
  <2>. QED  BY <2>1, <2>2, <2>3, <2>4, <2>5 DEF Reloads
<1>2. HandsInv'
  BY DEF Inv, HandsInv, Reloads, Reconfigure, ReplaceStat, ClearTargets, FillTargets,
         Restart
<1>3. OnceInv'
  <2>1. /\ UNCHANGED <<fresh, deleted, proc>>
        /\ aggregated' \subseteq aggregated /\ packer' \subseteq packer
    BY DEF Reloads, Reconfigure, ReplaceStat, ClearTargets, FillTargets, Restart
  <2>. QED  BY <2>1, OnceShrinks DEF Inv
<1>4. UNCHANGED <<proc, fresh, deleted, accepted, received>>
  BY DEF Reloads, Reconfigure, ReplaceStat, ClearTargets, FillTargets, Restart
<1>5. /\ Lists' \in Nat /\ Lists' >= Lists
      /\ _targets' \in {_targets, <<>>} \/ Lists' > Lists
  BY DEF Inv, TypeInv, Lists, Reloads, Reconfigure, ReplaceStat, ClearTargets,
         FillTargets, Restart, Main
<1>6. AcceptInv'
  <2>1. \A v \in Value : accepted[v] \in Nat \cup {Never}
    BY DEF Inv, TypeInv
  <2>2. \A v \in Value : accepted[v] <= Lists'
    BY <1>5, <2>1, ListsNat DEF Inv, AcceptInv, Never
  <2>. QED  BY <1>4, <2>2 DEF Inv, AcceptInv, Got
<1>7. ASSUME NEW v \in Value PROVE Come(v)'
  <2>1. (Waits(v)' => Waits(v)) /\ \A q \in Process : Sends(v, q)' <=> Sends(v, q)
    <3>1. aggregated' \subseteq aggregated /\ packer' \subseteq packer
      BY DEF Reloads, Reconfigure, ReplaceStat, ClearTargets, FillTargets, Restart
    <3>. QED  BY <1>4, <3>1 DEF Waits, Sends, InHand, Packed
  <2>2. Count(v)'
    BY <1>4, <1>5, <2>1, CountStays DEF Inv, ComeInv, Come
  <2>3. CASE Restart
    <3>1. UNCHANGED <<reloads, aggregated, packer, _targets>> /\ main = "restart"
      BY <2>3 DEF Restart, Main, buffers
    <3>2. Waits(v)' <=> Waits(v)
      BY <1>4, <3>1 DEF Waits, InHand, Packed
    <3>3. Settled(v)' => Settled(v)
      BY <1>4, <3>1 DEF Settled
    <3>4. Way(v)'
      BY <1>4, <2>1, <3>1, <3>2, <3>3 DEF Inv, ComeInv, Come, Way, Got, Before
    <3>. QED  BY <2>2, <3>4 DEF Come
  <2>4. CASE ~Restart
    <3>1. accepted[v] # reloads' \/ main' \notin {"restart", "run"}
      <4>1. accepted[v] \in Nat \cup {Never} /\ accepted[v] <= Lists
        BY DEF Inv, TypeInv, AcceptInv
      <4>. QED  BY <2>4, <4>1 DEF Inv, TypeInv, Reloads, Reconfigure, ReplaceStat,
                  ClearTargets, FillTargets, Main, Lists, Never
    <3>. QED  BY <1>4, <2>2, <3>1 DEF Come, Way, Settled
  <2>. QED  BY <2>3, <2>4
<1>. QED  BY <1>1, <1>2, <1>3, <1>6, <1>7 DEF Inv, ComeInv

-----------------------------------------------------------------------------
LEMMA InitInv == Init => Inv
<1>. SUFFICES ASSUME Init PROVE Inv
  OBVIOUS
<1>. USE DEF Init
<1>1. TypeInv
  BY AggregatorAssumption DEF TypeInv, Thread, Place, Never, Lists
<1>2. HandsInv /\ TargetsInv
  BY DEF HandsInv, TargetsInv
<1>3. OnceInv
  BY DEF OnceInv, OnceObject, OnceProcess, OnceOthers, OnceRecord, Has, InHand, Kept,
         Packed
<1>4. AcceptInv
  BY DEF AcceptInv, Got, Never, Lists
<1>5. ComeInv
  BY DEF ComeInv, Come, Count, Way, Settled, Never, Got, Waits, Sends, InHand, Packed
<1>. QED  BY <1>1, <1>2, <1>3, <1>4, <1>5 DEF Inv

LEMMA UnchangedInv == Inv /\ UNCHANGED vars => Inv'
BY DEF vars, settings, flags, buffers, history, Inv, TypeInv, HandsInv, TargetsInv,
       OnceInv, OnceObject, OnceProcess, OnceOthers, OnceRecord, Has, InHand, Kept,
       Packed, AcceptInv, Got, ComeInv, Come, Count, Way, Settled, Lists, Ahead, Bound,
       Waits, Sends, Before

LEMMA NextInv == Inv /\ [Next]_vars => Inv'
<1>. SUFFICES ASSUME Inv, [Next]_vars PROVE Inv'
  OBVIOUS
<1>1. CASE \E p \in Pusher, values \in SUBSET fresh \ {{}} : Push(p, values)
  BY <1>1, PushStep
<1>2. CASE \E p \in Timer : Fire(p)
  BY <1>2, QuietSteps DEF Process
<1>3. ASSUME NEW p \in Process, Step(p) PROVE Inv'
  BY <1>3, QuietSteps, AggregateStep, PushoutStep, PushNextStep, PackStep, PopStep,
     NextBatchStep, SendOtherStep, SendFirstStep DEF Step
<1>4. CASE \E name \in Name : Del(name) \/ WindowEnds(name)
  BY <1>4, DelStep, WindowEndsStep
<1>5. CASE (\E new \in Options : Reconfigure(new)) \/ Reloads
  BY <1>5, ReloadSteps
<1>6. CASE UNCHANGED vars
  BY <1>6, UnchangedInv
<1>. QED  BY <1>1, <1>2, <1>3, <1>4, <1>5, <1>6 DEF Next

LEMMA Invariance == Spec => []Inv
BY InitInv, NextInv, PTL DEF Spec

\* No target gets a value more often than there have been lists of targets since
\* the value was accepted, at every moment of any number of reloads, however the
\* pushes, the timer handlers and del interleave with them.
THEOREM ReceivedOnce == Spec => []NeverTwice
<1>1. Inv => NeverTwice
  <2>. SUFFICES ASSUME Inv, NEW v \in Value, NEW t \in Target
                PROVE  received[t][v] <= IF accepted[v] = Never THEN 0
                                         ELSE 1 + Lists - accepted[v]
    BY DEF NeverTwice
  <2>1. Count(v)
    BY DEF Inv, ComeInv, Come
  <2>. QED  BY <2>1 DEF Count, Got, Bound
<1>. QED  BY <1>1, Invariance, PTL

\* A value accepted under the list of targets in force is with all of them, or in
\* the object or the hands of a thread, or del has taken it.
THEOREM NotLost == Spec => []NothingLost
<1>1. Inv => NothingLost
  <2>. SUFFICES ASSUME Inv, NEW v \in Value, Undisturbed(v),
                       \A x \in Holder : v \notin Held(x)
                PROVE  IsDelivered(v)
    BY DEF NothingLost
  <2>1. ~Waits(v) /\ \A p \in Process : ~Sends(v, p)
    <3>1. v \notin aggregated /\ v \notin deleted /\ v \notin UNION packer
      <4>1. /\ <<"object", "aggregated">> \in Holder /\ <<"object", "packer">> \in Holder
            /\ <<"object", "deleted">> \in Holder
        BY DEF Holder
      <4>2. /\ Held(<<"object", "aggregated">>) = aggregated
            /\ Held(<<"object", "packer">>) = UNION packer
            /\ Held(<<"object", "deleted">>) = deleted
        BY DEF Held
      <4>. QED  BY <4>1, <4>2
    <3>2. ASSUME NEW p \in Process
          PROVE  v \notin UNION proc[p].hand /\ v \notin proc[p].sending
      <4>1. <<p, "hand">> \in Holder /\ <<p, "sending">> \in Holder
        BY DEF Holder
      <4>2. /\ Held(<<p, "hand">>) = UNION proc[p].hand
            /\ Held(<<p, "sending">>) = proc[p].sending
        BY DEF Held
      <4>. QED  BY <4>1, <4>2
    <3>. QED  BY <3>1, <3>2 DEF Waits, Sends, Packed, InHand
  <2>2. Got(v, Range(_targets))
    BY <2>1 DEF Inv, ComeInv, Come, Way, Settled, Undisturbed
  <2>3. \A i \in 1..Len(_targets) : _targets[i] \in Target \cap Range(_targets)
    BY DEF Inv, TypeInv, Range
  <2>. QED  BY <2>2, <2>3 DEF IsDelivered, Got
<1>. QED  BY <1>1, Invariance, PTL
=============================================================================
