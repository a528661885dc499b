---------------------------- MODULE StartupProofs ----------------------------
(***************************************************************************)
(* The safety of Startup, for any number of launches, crashes, stops and   *)
(* restarts, and of CommandLine, for any command lines and files: both are *)
(* startup_domain. Of CommandLine: what readies a daemon, what is          *)
(* generated, which mention of an option counts, and what of the file and  *)
(* of the command line reaches the configuration. The loops and folds of   *)
(* the parsers are reasoned about with the facts of Folding.               *)
(***************************************************************************)
EXTENDS Startup, CommandLine, Folding, TLAPS

Place == {"off", "opened", "forked", "running", "stopped", "ended", "restart", "gone"}
Note == [pid : (Launches \X Nat) \cup {NoWorker}, nuls : BOOLEAN]

TypeInv ==
    /\ path \in {0} \cup Inode /\ inodes \in 0..MaxInode
    /\ path = 0 => inodes < MaxInode
    /\ owner \in [Inode -> Launches \cup {NoLaunch}]
    /\ content \in [Inode -> Note]
    /\ pc \in [Launches -> Place]
    /\ pid_file \in [Launches -> {0} \cup Inode]
    /\ offset \in [Launches -> BOOLEAN]
    /\ count \in [Launches -> Nat]
    /\ _pa \in [Launches -> SUBSET Argument]
    /\ args \in [Launches -> SUBSET Argument]
    /\ removed \in BOOLEAN
    /\ \A l \in Launches : pc[l] # "off" => pid_file[l] # 0

\* Until it is removed for the first time, there is one pid file, the one that
\* every launch has opened, and the launch that is past its lock has locked it.
FileInv ==
    ~removed =>
        \A l \in Launches :
            /\ pc[l] # "off" => pid_file[l] = path
            /\ pc[l] # "stopped"
            /\ InCharge(l) => owner[path] = l

\* The first description is written once before the first restart. What it has
\* written is there as long as the worker runs.
ContentInv ==
    \A l \in Launches :
        /\ pc[l] \in {"off", "opened"} => count[l] = 0 /\ ~offset[l]
        /\ pc[l] = "forked" => (offset[l] <=> count[l] > 0)
        /\ pc[l] \in {"running", "stopped", "ended", "restart"} => offset[l]
        /\ ~removed /\ pc[l] = "running" =>
              content[path] = [pid |-> <<l, count[l]>>, nuls |-> count[l] > 0]

\* What is left of the lists is decided by the first restart.
ListsInv ==
    \A l \in Launches :
        /\ _pa[l] = IF count[l] = 0 THEN Argument
                   ELSE Argument \ {"startup_options", "startup_ini_list"}
        /\ pc[l] = "running" =>
              args[l] = _pa[l] \cap {"object_options", "startup_options"}

Inv == TypeInv /\ FileInv /\ ContentInv /\ ListsInv

-----------------------------------------------------------------------------
LEMMA InitInv == Init => Inv
<1>. SUFFICES ASSUME Init PROVE Inv
  OBVIOUS
<1>1. TypeInv
  <2>1. [pid |-> NoWorker, nuls |-> FALSE] \in Note
    BY DEF Note
  <2>2. content \in [Inode -> Note] /\ owner \in [Inode -> Launches \cup {NoLaunch}]
    BY <2>1 DEF Init
  <2>3. path \in {0} \cup Inode /\ inodes \in 0..MaxInode /\ inodes < MaxInode
    BY StartupAssumption DEF Init
  <2>4. /\ pc \in [Launches -> Place] /\ \A l \in Launches : pc[l] = "off"
        /\ pid_file \in [Launches -> {0} \cup Inode] /\ offset \in [Launches -> BOOLEAN]
        /\ count \in [Launches -> Nat]
        /\ _pa \in [Launches -> SUBSET Argument] /\ args \in [Launches -> SUBSET Argument]
        /\ removed \in BOOLEAN
    BY DEF Init, Place
  <2>. QED  BY <2>2, <2>3, <2>4 DEF TypeInv
<1>2. FileInv /\ ContentInv /\ ListsInv
  BY DEF Init, FileInv, ContentInv, ListsInv, InCharge
<1>. QED  BY <1>1, <1>2 DEF Inv

\* A launch opens the file of all the others, or makes the first one.
LEMMA OpenStep == ASSUME Inv, NEW l \in Launches, Open(l) PROVE Inv'
<1>. USE StartupAssumption DEF Inv, Open, Go, argVars, fileVars
<1>1. /\ Opened \in Inode /\ path' = Opened /\ inodes' \in 0..MaxInode
      /\ path # 0 => Opened = path
  BY DEF TypeInv, OpenPath, Opened, Inode
<1>2. TypeInv'
  BY <1>1 DEF TypeInv, Place, Inode
<1>3. FileInv'
  BY <1>1 DEF TypeInv, FileInv, InCharge
<1>4. ContentInv'
  BY <1>1 DEF TypeInv, ContentInv, FileInv
<1>5. ListsInv'
  BY DEF TypeInv, ListsInv
<1>. QED  BY <1>2, <1>3, <1>4, <1>5

LEMMA LockStep == ASSUME Inv, NEW l \in Launches, Lock(l) PROVE Inv'
<1>. USE StartupAssumption DEF Inv, Lock, argVars, fileVars
<1>1. pid_file[l] \in Inode /\ pc[l] = "opened"
  BY DEF TypeInv
<1>2. TypeInv'
  BY <1>1 DEF TypeInv, Place
<1>3. FileInv'
  BY <1>1 DEF TypeInv, FileInv, InCharge
<1>4. ContentInv'
  BY <1>1 DEF TypeInv, ContentInv
<1>5. ListsInv'
  BY DEF TypeInv, ListsInv
<1>. QED  BY <1>2, <1>3, <1>4, <1>5

\* The worker writes into the file that its launch has locked.
LEMMA WorkStep == ASSUME Inv, NEW l \in Launches, Work(l) PROVE Inv'
<1>. USE StartupAssumption DEF Inv, Work, Go, argVars, fileVars
<1>1. pid_file[l] \in Inode /\ pc[l] = "forked"
  BY DEF TypeInv
<1>. DEFINE note == [pid |-> <<l, count[l]>>, nuls |-> offset[l]]
<1>2. note \in Note /\ content' = [content EXCEPT ![pid_file[l]] = note]
  BY DEF TypeInv, Note
<1>3. TypeInv'
  BY <1>1, <1>2 DEF TypeInv, Place
<1>4. FileInv'
  BY <1>1 DEF TypeInv, FileInv, InCharge
<1>5. ContentInv'
  <2>1. \A k \in Launches : ~removed /\ pc[k] = "running" => k = l \/ pid_file[l] # path
    BY <1>1 DEF FileInv, InCharge
  <2>. QED  BY <1>1, <1>2, <2>1 DEF TypeInv, ContentInv, FileInv
<1>6. ListsInv'
  BY DEF TypeInv, ListsInv
<1>. QED  BY <1>3, <1>4, <1>5, <1>6

\* The worker ends, by a crash or orderly, and the launch with it, or the monitor
\* restarts it.
LEMMA EndStep ==
    ASSUME Inv, NEW l \in Launches,
           \/ Crash(l) \/ Exit(l) \/ TooEarly(l)
           \/ \E exit \in {"0", "-1"} : AfterStop(l, exit)
    PROVE  Inv'
<1>. USE StartupAssumption DEF Inv, Go, argVars, fileVars, Crash, Exit, TooEarly, AfterStop
<1>1. TypeInv'
  BY DEF TypeInv, Place, Inode
<1>2. FileInv'
  BY DEF TypeInv, FileInv, InCharge
<1>3. ContentInv'
  BY DEF TypeInv, ContentInv
<1>4. ListsInv'
  BY DEF TypeInv, ListsInv
<1>. QED  BY <1>1, <1>2, <1>3, <1>4

LEMMA GoneStep == ASSUME Inv, NEW l \in Launches, Gone(l) PROVE Inv'
<1>. USE DEF Inv, Go, argVars, fileVars, Gone
<1>1. TypeInv'
  BY DEF TypeInv, Place
<1>2. FileInv'
  BY DEF TypeInv, FileInv, InCharge
<1>3. ContentInv'
  BY DEF TypeInv, ContentInv
<1>4. ListsInv'
  BY DEF TypeInv, ListsInv
<1>. QED  BY <1>1, <1>2, <1>3, <1>4

\* Until the first removal the monitor opens the file that its own launch has
\* locked, and so gets no lock and writes nothing.
LEMMA MonitorStep == ASSUME Inv, NEW l \in Launches, MonitorLocks(l) PROVE Inv'
<1>. USE StartupAssumption DEF Inv, argVars, fileVars, MonitorLocks
<1>1. /\ Opened \in Inode /\ path' = Opened /\ inodes' \in 0..MaxInode
      /\ path # 0 => Opened = path
  BY DEF TypeInv, OpenPath, Opened, Inode
<1>2. [pid |-> <<l, count[l]>>, nuls |-> FALSE] \in Note
  BY DEF TypeInv, Note
<1>3. TypeInv'
  BY <1>1, <1>2 DEF TypeInv, Place, Inode
<1>4. ~removed => /\ path' = path /\ owner[Opened] = l
                  /\ owner' = owner /\ content' = content
  BY <1>1 DEF TypeInv, FileInv, InCharge
<1>5. FileInv'
  BY <1>4 DEF TypeInv, FileInv, InCharge
<1>6. ContentInv'
  BY <1>4 DEF TypeInv, ContentInv
<1>7. ListsInv'
  BY DEF TypeInv, ListsInv
<1>. QED  BY <1>3, <1>5, <1>6, <1>7

LEMMA RestartStep == ASSUME Inv, NEW l \in Launches, Restart(l) PROVE Inv'
<1>. USE DEF Inv, Go, argVars, fileVars, Restart
<1>1. TypeInv'
  BY DEF TypeInv, Place
<1>2. /\ count[l] \in Nat /\ count'[l] = count[l] + 1
      /\ pc[l] = "restart" /\ pc'[l] = "forked"
      /\ _pa'[l] = _pa[l] \ {"startup_options", "startup_ini_list"}
      /\ \A k \in Launches \ {l} :
            pc'[k] = pc[k] /\ count'[k] = count[k] /\ _pa'[k] = _pa[k]
      /\ UNCHANGED <<path, content, removed, offset, args>>
  BY DEF TypeInv
<1>3. count'[l] > 0 /\ count'[l] # 0
  BY <1>2
<1>4. FileInv'
  BY DEF TypeInv, FileInv, InCharge
<1>5. ContentInv'
  <2>1. offset[l]
    BY <1>2 DEF ContentInv
  <2>. QED  BY <1>2, <1>3, <2>1 DEF ContentInv
<1>6. ListsInv'
  <2>1. _pa'[l] = Argument \ {"startup_options", "startup_ini_list"}
    BY <1>2 DEF ListsInv
  <2>. QED  BY <1>2, <1>3, <2>1 DEF ListsInv
<1>. QED  BY <1>1, <1>4, <1>5, <1>6

LEMMA NextInv == Inv /\ [Next]_vars => Inv'
<1>. SUFFICES ASSUME Inv, [Next]_vars PROVE Inv'
  OBVIOUS
<1>1. CASE UNCHANGED vars
  BY <1>1 DEF vars, fileVars, argVars, Inv, TypeInv, FileInv, ContentInv, ListsInv,
              InCharge
<1>2. CASE Next
  BY <1>2, OpenStep, LockStep, WorkStep, EndStep, GoneStep, MonitorStep, RestartStep
     DEF Next, Goes
<1>. QED  BY <1>1, <1>2

LEMMA Invariance == Spec => []Inv
BY InitInv, NextInv, PTL DEF Spec

\* While nobody has stopped orderly, the launch that is past its lock is the
\* only one and holds the file that names its worker, through all crashes.
THEOREM OneHolder == Spec => []PidFileAtFirst
<1>1. Inv => PidFileAtFirst
  <2>. SUFFICES ASSUME Inv, NEW l \in Launches, ~removed, InCharge(l)
                PROVE  /\ path = pid_file[l] /\ owner[path] = l
                       /\ pc[l] = "running" =>
                            content[path] = [pid |-> <<l, count[l]>>,
                                             nuls |-> count[l] > 0]
    BY DEF PidFileAtFirst
  <2>. QED  BY DEF Inv, FileInv, ContentInv, InCharge
<1>. QED  BY <1>1, Invariance, PTL

\* The first worker of a launch, and none that a monitor restarts, sees the
\* startup options; all see the object options.
THEOREM OptionsSeenOnce == Spec => []OptionsOfFirstStart
<1>1. Inv => OptionsOfFirstStart
  BY DEF Inv, TypeInv, ListsInv, OptionsOfFirstStart, Argument
<1>. QED  BY <1>1, Invariance, PTL

-----------------------------------------------------------------------------
\* Texts as sequences of words; maps of them.
Word == STRING
Text == Seq(Word)
Maps(V) == UNION {[D -> V] : D \in SUBSET Text}

LEMMA NothingIsMap == ASSUME NEW V PROVE Nothing \in Maps(V) /\ DOMAIN Nothing = {}
<1>1. Nothing = [x \in {} |-> 0] /\ DOMAIN Nothing = {}
  BY DEF Nothing
<1>2. Nothing \in [{} -> V]
  BY <1>1
<1>3. {} \in SUBSET Text
  OBVIOUS
<1>. QED BY <1>1, <1>2, <1>3 DEF Maps

LEMMA PutType ==
    ASSUME NEW V, NEW res \in Maps(V), NEW key \in Text, NEW val \in V
    PROVE  /\ Put(res, key, val) \in Maps(V)
           /\ DOMAIN Put(res, key, val) = DOMAIN res \cup {key}
           /\ \A k \in DOMAIN Put(res, key, val) :
                 Put(res, key, val)[k] = IF k = key THEN val ELSE res[k]
<1>1. PICK D \in SUBSET Text : res \in [D -> V]
  BY DEF Maps
<1>2. Put(res, key, val) \in [D \cup {key} -> V] /\ D \cup {key} \in SUBSET Text
  BY <1>1 DEF Put
<1>3. Put(res, key, val) \in Maps(V)
  <2>. HIDE DEF Put
  <2>. QED  BY <1>2 DEF Maps
<1>. QED  BY <1>1, <1>3 DEF Put

\* The least of a set of places.
LEMMA MinIs ==
    ASSUME NEW I \in SUBSET Nat, I # {}
    PROVE  Min(I) \in I /\ \A y \in I : Min(I) <= y
<1>1. \E x \in I : \A y \in I : x <= y
  BY Least
<1>. QED  BY <1>1 DEF Min

LEMMA MarkIs ==
    ASSUME NEW text \in Text, NEW c
    PROVE  /\ Mark(text, c) \in 0..Len(text)
           /\ Mark(text, c) = 0 => \A i \in 1..Len(text) : text[i] # c
           /\ Mark(text, c) # 0 => /\ text[Mark(text, c)] = c
                                   /\ \A i \in 1..(Mark(text, c) - 1) : text[i] # c
<1>. DEFINE I == {i \in 1..Len(text) : text[i] = c}
<1>1. Mark(text, c) = IF I # {} THEN Min(I) ELSE 0
  BY DEF Mark, SelectInSeq
<1>2. Len(text) \in Nat /\ I \in SUBSET Nat /\ \A i \in 1..Len(text) : text[i] = c <=> i \in I
  BY DEF Text
<1>3. I # {} => Min(I) \in I /\ \A y \in I : Min(I) <= y
  <2>. HIDE DEF I
  <2>. QED  BY <1>2, MinIs
<1>4. \A i \in I : i \in 1..Len(text)
  OBVIOUS
<1>. HIDE DEF I
<1>5. CASE I = {}
  BY <1>1, <1>2, <1>5
<1>6. CASE I # {}
  <2>. DEFINE m == Min(I)
  <2>1. m \in 1..Len(text) /\ text[m] = c /\ Mark(text, c) = m
    BY <1>1, <1>2, <1>3, <1>4, <1>6
  <2>2. \A y \in I : m <= y
    BY <1>3, <1>6
  <2>. HIDE DEF m
  <2>3. \A i \in 1..(m-1) : i \in 1..Len(text) /\ ~(m <= i)
    BY <1>2, <2>1
  <2>. QED  BY <1>2, <2>1, <2>2, <2>3
<1>. QED  BY <1>5, <1>6

LEMMA BeforeAfter ==
    ASSUME NEW text \in Text, NEW c
    PROVE  Before(text, c) \in Text /\ After(text, c) \in Text
<1>1. Mark(text, c) \in 0..Len(text) /\ Len(text) \in Nat
  BY MarkIs DEF Text
<1>. QED  BY <1>1 DEF Before, After, Nothing, Text

\* --generate, text by text.
GenerateStep(texts) ==
    [k \in 1..Len(texts) |-> [res \in Maps(Text) |->
        Put(res, Before(texts[k], ":"), After(texts[k], ":"))]]

LEMMA GenerateSteps ==
    ASSUME NEW texts \in Seq(Text)
    PROVE  \E g : /\ IsLoop(g, Len(texts), Maps(Text), Nothing, GenerateStep(texts))
                  /\ g[Len(texts)] = parse_generate(texts)
<1>. DEFINE n == Len(texts)
            X == Maps(Text)
            F == GenerateStep(texts)
            op(res, text) == Put(res, Before(text, ":"), After(text, ":"))
            Step(h) == [s \in SUBSET (1..n) |->
                          IF s = {} THEN Nothing ELSE op(h[s \ {Max(s)}], texts[Max(s)])]
            iter == CHOOSE h : h = Step(h)
<1>1. /\ n \in Nat /\ DOMAIN texts = 1..n /\ Nothing \in X
      /\ \A k \in 1..n : texts[k] \in Text
  BY NothingIsMap
<1>2. \A k \in 1..n : Before(texts[k], ":") \in Text /\ After(texts[k], ":") \in Text
  BY <1>1, BeforeAfter
<1>3. F \in [1..n -> [X -> X]]
  <2>1. \A k \in 1..n, res \in X : op(res, texts[k]) \in X
    BY <1>2, PutType
  <2>. QED  BY <2>1 DEF GenerateStep
<1>4. \A x \in X, k \in 1..n : F[k][x] = op(x, texts[k])
  BY DEF GenerateStep
<1>5. parse_generate(texts) = iter[1..n]
  BY <1>1 DEF parse_generate, FoldLeft, MapThenFoldSet
<1>. HIDE DEF n, X, op, F
<1>6. \A s \in SUBSET (1..n) : s # {} => Max(s) \in 1..n /\ s \ {Max(s)} \in SUBSET (1..n)
  BY <1>1, Greatest
<1>7. PICK h : IsFold(h, n, X, Nothing, F)
  BY <1>1, <1>3, Exists
<1>8. h = Step(h)
  BY <1>4, <1>6, <1>7 DEF IsFold
<1>9. iter = Step(iter)
  <2>. HIDE DEF Step
  <2>. QED  BY <1>8
<1>. HIDE DEF iter
<1>10. Iterates(iter, n, X, Nothing, F)
  BY <1>4, <1>6, <1>9 DEF Iterates
<1>11. \E g : IsLoop(g, n, X, Nothing, F) /\ g[n] = iter[1..n]
  BY <1>1, <1>3, <1>10, Loop, SMTT(60)
<1>. QED  BY <1>5, <1>11 DEF n, X, F

\* Up to the next of some separators.
LEMMA UntilIs ==
    ASSUME NEW text \in Text, NEW from \in 1..(Len(text)+1), NEW S,
           NEW e \in (from-1)..Len(text), \A i \in from..e : text[i] \notin S,
           e = Len(text) \/ text[e+1] \in S
    PROVE  Until(text, from, S) = SubSeq(text, from, e)
<1>. DEFINE n == Len(text)
            J == {i \in from..n : text[i] \in S} \cup {n + 1}
<1>1. n \in Nat /\ from \in Nat /\ e \in Nat /\ e <= n
  BY DEF Text
<1>2. J \in SUBSET Nat /\ e + 1 \in J
  BY <1>1
<1>3. \A i \in J : e + 1 <= i
  BY <1>1
<1>4. Min(J) \in J /\ Min(J) <= e + 1
  <2>. HIDE DEF J
  <2>. QED  BY <1>2, MinIs
<1>5. Min(J) = e + 1
  <2>1. Min(J) \in Nat /\ e + 1 <= Min(J)
    BY <1>2, <1>3, <1>4
  <2>. HIDE DEF J
  <2>. QED  BY <1>1, <1>4, <2>1
<1>6. Until(text, from, S) = SubSeq(text, from, Min(J) - 1)
  BY DEF Until
<1>. HIDE DEF J
<1>. QED  BY <1>1, <1>5, <1>6

\* There is such a place.
LEMMA EndIs ==
    ASSUME NEW text \in Text, NEW from \in 1..(Len(text)+1), NEW S
    PROVE  \E e \in (from-1)..Len(text) :
              /\ \A i \in from..e : text[i] \notin S
              /\ e = Len(text) \/ text[e+1] \in S
<1>. DEFINE n == Len(text)
            J == {i \in from..n : text[i] \in S} \cup {n + 1}
<1>1. n \in Nat /\ from \in 1..(n+1) /\ J \in SUBSET Nat /\ J # {}
  BY DEF Text
<1>2. Min(J) \in J /\ \A i \in J : Min(J) <= i
  <2>. HIDE DEF J
  <2>. QED  BY <1>1, MinIs
<1>3. PICK m \in J : \A i \in J : m <= i
  BY <1>2
<1>4. m \in from..(n+1) /\ (m = n + 1 \/ text[m] \in S)
  BY <1>1, <1>3
<1>5. m - 1 \in (from-1)..n /\ (m - 1) + 1 = m /\ (m - 1 = n <=> m = n + 1)
  BY <1>1, <1>4
<1>6. \A i \in from..(m-1) : i \in from..n /\ ~(m <= i)
  BY <1>1, <1>4
<1>7. \A i \in from..(m-1) : text[i] \notin S
  BY <1>3, <1>6
<1>. QED  BY <1>4, <1>5, <1>7

\* What is in front of a separator, and what comes behind it.
LEMMA SplitIs ==
    ASSUME NEW text \in Text, NEW c
    PROVE  /\ Before(text, c) = Until(text, 1, {c})
           /\ After(text, c) = SubSeq(text, Len(Before(text, c)) + 2, Len(text))
<1>. DEFINE n == Len(text)
            m == Mark(text, c)
            e == IF m = 0 THEN n ELSE m - 1
<1>1. n \in Nat /\ m \in 0..n /\ e \in 0..n /\ 1 \in 1..(n+1)
  BY MarkIs DEF Text
<1>2. \A i \in 1..e : text[i] # c
  BY MarkIs
<1>3. e = n \/ text[e+1] = c
  <2>1. m # 0 => text[m] = c
    BY MarkIs
  <2>. HIDE DEF m
  <2>. QED  BY <1>1, <2>1
<1>4. Before(text, c) = SubSeq(text, 1, e)
  <2>1. text = SubSeq(text, 1, n)
    BY DEF Text
  <2>. QED  BY <2>1 DEF Before
<1>5. Until(text, 1, {c}) = SubSeq(text, 1, e)
  <2>. HIDE DEF e, n
  <2>1. e \in (1-1)..n
    BY <1>1
  <2>2. \A i \in 1..e : text[i] \notin {c}
    BY <1>2
  <2>3. e = n \/ text[e+1] \in {c}
    BY <1>3
  <2>. QED  BY <1>1, <2>1, <2>2, <2>3, UntilIs DEF n
<1>6. Len(SubSeq(text, 1, e)) = e
  <2>. HIDE DEF e
  <2>. QED  BY <1>1 DEF Text
<1>7. After(text, c) = SubSeq(text, e + 2, n)
  <2>1. CASE m = 0
    <3>1. SubSeq(text, n + 2, n) = <<>>
      BY <1>1 DEF Text
    <3>. QED  BY <2>1, <3>1 DEF After, Nothing
  <2>2. CASE m # 0
    <3>1. e + 2 = m + 1
      BY <1>1, <2>2
    <3>. QED  BY <2>2, <3>1 DEF After
  <2>. QED  BY <2>1, <2>2
<1>. HIDE DEF e
<1>. QED  BY <1>4, <1>5, <1>6, <1>7

\* The name at the beginning of a text, and what comes behind it.
LEMMA NameIs ==
    ASSUME NEW text \in Text
    PROVE  /\ Before(text, ":") = ObjectOf(text)
           /\ After(text, ":") = SubSeq(text, Len(ObjectOf(text)) + 2, Len(text))
BY SplitIs DEF ObjectOf

\* Each name has what comes behind its last mention.
LEMMA GenerateIs ==
    ASSUME NEW texts \in Seq(Text)
    PROVE  LET go == parse_generate(texts)
           IN  /\ go \in Maps(Text)
               /\ DOMAIN go = {ObjectOf(t) : t \in Range(texts)}
               /\ \A c \in DOMAIN go : \E i \in 1..Len(texts) :
                     /\ ObjectOf(texts[i]) = c
                     /\ go[c] = SubSeq(texts[i], Len(c) + 2, Len(texts[i]))
                     /\ \A j \in 1..Len(texts) : ObjectOf(texts[j]) = c => j <= i
<1>. DEFINE n == Len(texts)
            Name_(i) == ObjectOf(texts[i])
            Rest(i) == SubSeq(texts[i], Len(ObjectOf(texts[i])) + 2, Len(texts[i]))
<1>1. PICK g : /\ IsLoop(g, n, Maps(Text), Nothing, GenerateStep(texts))
               /\ g[n] = parse_generate(texts)
  BY GenerateSteps
<1>2. n \in Nat /\ \A i \in 1..n : texts[i] \in Text
  OBVIOUS
<1>3. \A i \in 1..n : /\ Before(texts[i], ":") = Name_(i) /\ After(texts[i], ":") = Rest(i)
                      /\ Name_(i) \in Text /\ Rest(i) \in Text
  <2>. TAKE i \in 1..n
  <2>1. texts[i] \in Text
    BY <1>2
  <2>. QED  BY <2>1, NameIs, BeforeAfter
<1>. HIDE DEF Name_, Rest
<1>. DEFINE Good(k) ==
               /\ DOMAIN g[k] = {Name_(i) : i \in 1..k}
               /\ \A c \in DOMAIN g[k] : \E i \in 1..k :
                     /\ Name_(i) = c /\ g[k][c] = Rest(i)
                     /\ \A j \in 1..k : Name_(j) = c => j <= i
            G == {k \in 0..n : Good(k)}
<1>4. 0 \in G
  <2>1. g[0] = Nothing /\ DOMAIN Nothing = {} /\ 1..0 = {}
    BY <1>1, NothingIsMap DEF IsLoop
  <2>. QED  BY <1>2, <2>1
<1>5. ASSUME NEW k \in 1..n, k - 1 \in G  PROVE k \in G
  <2>1. k - 1 \in 0..n /\ k \in 0..n /\ 1..k = 1..(k-1) \cup {k} /\ \A i \in 1..(k-1) : i <= k /\ ~(k <= i)
    BY <1>2
  <2>2. g[k-1] \in Maps(Text) /\ g[k] = Put(g[k-1], Name_(k), Rest(k))
    BY <1>1, <1>3, <2>1 DEF IsLoop, GenerateStep
  <2>3. /\ DOMAIN g[k] = DOMAIN g[k-1] \cup {Name_(k)}
        /\ \A c \in DOMAIN g[k] : g[k][c] = IF c = Name_(k) THEN Rest(k) ELSE g[k-1][c]
    BY <2>2 DEF Put
  <2>4. Good(k - 1)
    BY <1>5
  <2>5. DOMAIN g[k] = {Name_(i) : i \in 1..k}
    BY <2>1, <2>3, <2>4
  <2>6. ASSUME NEW c \in DOMAIN g[k]
        PROVE  \E i \in 1..k : /\ Name_(i) = c /\ g[k][c] = Rest(i)
                               /\ \A j \in 1..k : Name_(j) = c => j <= i
    <3>1. CASE c = Name_(k)
      <4>1. k \in 1..k /\ \A j \in 1..k : j <= k
        BY <2>1
      <4>. QED  BY <2>3, <3>1, <4>1
    <3>2. CASE c # Name_(k)
      <4>1. c \in DOMAIN g[k-1] /\ g[k][c] = g[k-1][c]
        BY <2>3, <3>2
      <4>2. PICK i \in 1..(k-1) : /\ Name_(i) = c /\ g[k-1][c] = Rest(i)
                                  /\ \A j \in 1..(k-1) : Name_(j) = c => j <= i
        BY <2>4, <4>1
      <4>. QED  BY <2>1, <3>2, <4>1, <4>2
    <3>. QED  BY <3>1, <3>2
  <2>. QED  BY <2>1, <2>5, <2>6
<1>6. \A k \in 0..n : k \in G
  <2>. HIDE DEF G, n
  <2>. QED  BY <1>2, <1>4, <1>5, Along
<1>7. Good(n)
  <2>. HIDE DEF Good, n
  <2>1. n \in G
    BY <1>2, <1>6
  <2>. QED  BY <2>1
<1>8. g[n] \in Maps(Text)
  BY <1>1, <1>2 DEF IsLoop
<1>9. {Name_(i) : i \in 1..n} = {ObjectOf(t) : t \in Range(texts)}
  BY DEF Name_, Range
<1>10. \A i \in 1..n : Rest(i) = SubSeq(texts[i], Len(Name_(i)) + 2, Len(texts[i]))
  BY DEF Name_, Rest
<1>11. \A i \in 1..n : Name_(i) = ObjectOf(texts[i])
  BY DEF Name_
<1>. HIDE DEF n
<1>. QED  BY <1>1, <1>7, <1>8, <1>9, <1>10, <1>11 DEF n

\* Where a list has a text that is looked for from behind.
LEMMA LastTextIs ==
    ASSUME argv.generate \in Seq(Text), NEW c
    PROVE  LET n == Len(argv.generate)
           IN  /\ \A i \in 1..n :
                     /\ ObjectOf(argv.generate[i]) = c
                     /\ \A j \in 1..n : ObjectOf(argv.generate[j]) = c => j <= i
                     => LastText(c) = SubSeq(argv.generate[i], Len(c) + 2,
                                             Len(argv.generate[i]))
               /\ (\A i \in 1..n : ObjectOf(argv.generate[i]) # c) => LastText(c) = Nothing
<1>. DEFINE n == Len(argv.generate)
            I == {i \in 1..n : ObjectOf(argv.generate[i]) = c}
            last == IF I # {} THEN Max(I) ELSE 0
<1>1. LastText(c) = IF last = 0 THEN Nothing
                    ELSE SubSeq(argv.generate[last], Len(c) + 2, Len(argv.generate[last]))
  BY DEF LastText, SelectLastInSeq
<1>2. n \in Nat /\ I \in SUBSET (1..n)
  OBVIOUS
<1>3. I # {} => Max(I) \in I /\ \A y \in I : y <= Max(I)
  <2>. HIDE DEF I
  <2>. QED  BY <1>2, Greatest
<1>4. ASSUME NEW i \in 1..n, ObjectOf(argv.generate[i]) = c,
             \A j \in 1..n : ObjectOf(argv.generate[j]) = c => j <= i
      PROVE  last = i
  <2>1. i \in I /\ \A j \in I : j <= i
    BY <1>4
  <2>. HIDE DEF I
  <2>2. Max(I) \in I /\ i <= Max(I) /\ Max(I) <= i
    BY <1>3, <2>1
  <2>3. Max(I) \in 1..n
    BY <1>2, <2>2
  <2>4. Max(I) = i
    <3>. HIDE DEF n
    <3>. QED  BY <1>2, <2>2, <2>3
  <2>. QED  BY <2>1, <2>4
<1>5. (\A i \in 1..n : ObjectOf(argv.generate[i]) # c) => last = 0
  OBVIOUS
<1>6. \A i \in 1..n : i # 0
  BY <1>2
<1>. HIDE DEF last, n
<1>. QED  BY <1>1, <1>4, <1>5, <1>6 DEF n

-----------------------------------------------------------------------------
\* A pair in a text: the piece up to the next colon, taken apart.
LEMMA PairIs ==
    ASSUME NEW text \in Text, NEW p \in 1..(Len(text)+1)
    PROVE  LET piece == Until(text, p, {":"})
           IN  /\ piece \in Text
               /\ Before(piece, "=") = KeyAt(text, p)
               /\ After(piece, "=") = ValueAt(text, p)
<1>. DEFINE n == Len(text)
            piece == Until(text, p, {":"})
<1>1. n \in Nat /\ p \in 1..(n+1) /\ \A i \in 1..n : text[i] \in Word
  BY DEF Text
<1>2. PICK e \in (p-1)..n : /\ \A i \in p..e : text[i] \notin {":"}
                            /\ e = n \/ text[e+1] \in {":"}
  BY EndIs
<1>3. piece = SubSeq(text, p, e)
  BY <1>2, UntilIs
<1>. HIDE DEF piece
<1>4. /\ piece \in Text /\ Len(piece) = e - p + 1
      /\ \A i \in 1..(e - p + 1) : piece[i] = text[p + i - 1]
  BY <1>1, <1>2, <1>3 DEF Text
<1>5. PICK k \in (1-1)..Len(piece) : /\ \A i \in 1..k : piece[i] \notin {"="}
                                     /\ k = Len(piece) \/ piece[k+1] \in {"="}
  <2>1. 1 \in 1..(Len(piece)+1)
    BY <1>1, <1>2, <1>4
  <2>. QED  BY <1>4, <2>1, EndIs
<1>6. Until(piece, 1, {"="}) = SubSeq(piece, 1, k)
  <2>1. 1 \in 1..(Len(piece)+1)
    BY <1>1, <1>2, <1>4
  <2>. QED  BY <1>4, <1>5, <2>1, UntilIs
<1>. DEFINE f == p - 1 + k
<1>7. f \in (p-1)..e /\ f \in (p-1)..n
  BY <1>1, <1>2, <1>4, <1>5
<1>8. \A i \in p..f : text[i] \notin {":", "="}
  <2>. TAKE i \in p..f
  <2>1. i \in p..e /\ i - p + 1 \in 1..k /\ i - p + 1 \in 1..(e - p + 1)
        /\ p + (i - p + 1) - 1 = i
    BY <1>1, <1>2, <1>4, <1>5, <1>7
  <2>2. piece[i - p + 1] = text[i]
    BY <1>4, <2>1
  <2>. QED  BY <1>2, <1>5, <2>1, <2>2
<1>9. f = n \/ text[f+1] \in {":", "="}
  <2>1. CASE k = Len(piece)
    <3>1. f = e
      BY <1>1, <1>2, <1>4, <2>1
    <3>. QED  BY <1>2, <3>1
  <2>2. CASE k # Len(piece)
    <3>1. k + 1 \in 1..(e - p + 1) /\ p + (k + 1) - 1 = f + 1
      BY <1>1, <1>2, <1>4, <1>5, <2>2
    <3>2. text[f+1] = piece[k+1]
      BY <1>4, <3>1
    <3>. QED  BY <1>5, <2>2, <3>2
  <2>. QED  BY <2>1, <2>2
<1>10. KeyAt(text, p) = SubSeq(text, p, f)
  <2>. HIDE DEF f, n
  <2>. QED  BY <1>1, <1>7, <1>8, <1>9, UntilIs DEF KeyAt, n
<1>11. SubSeq(piece, 1, k) = SubSeq(text, p, f)
  <2>. DEFINE a == SubSeq(piece, 1, k)
              b == SubSeq(text, p, f)
  <2>1. a \in Text /\ Len(a) = k /\ \A i \in 1..k : a[i] = piece[i]
    BY <1>4, <1>5 DEF Text
  <2>2. b \in Text /\ Len(b) = k /\ \A i \in 1..k : b[i] = text[p + i - 1]
    BY <1>1, <1>5, <1>7 DEF Text
  <2>3. \A i \in 1..k : a[i] = b[i]
    <3>. HIDE DEF a, b
    <3>1. \A i \in 1..k : i \in 1..(e - p + 1)
      BY <1>1, <1>2, <1>4, <1>5
    <3>. QED  BY <1>4, <2>1, <2>2, <3>1
  <2>. HIDE DEF a, b
  <2>4. a = b
    BY <2>1, <2>2, <2>3 DEF Text
  <2>. QED  BY <2>4 DEF a, b
<1>12. Before(piece, "=") = KeyAt(text, p)
  BY <1>4, <1>6, <1>10, <1>11, SplitIs
<1>13. After(piece, "=") = SubSeq(piece, Len(KeyAt(text, p)) + 2, Len(piece))
  BY <1>4, <1>12, SplitIs
<1>14. ValueAt(text, p) = SubSeq(piece, Len(KeyAt(text, p)) + 2, Len(piece))
  BY DEF ValueAt, piece
<1>. QED  BY <1>4, <1>12, <1>13, <1>14 DEF piece

\* pieces are those of the first k elements of text, from the places st on.
IsCut(pieces, st, text, k) ==
    LET n == Len(pieces)
    IN  /\ pieces \in Seq(Text) /\ n >= 1
        /\ st \in [1..n -> 1..(k+1)] /\ st[1] = 1
        /\ \A i, j \in 1..n : i < j => st[i] < st[j]
        /\ \A j \in 1..n : st[j] = 1 \/ (st[j] >= 2 /\ text[st[j]-1] = ":")
        /\ \A p \in 2..(k+1) : text[p-1] = ":" => \E j \in 1..n : st[j] = p
        /\ \A j \in 1..n : pieces[j] = SubSeq(text, st[j], IF j = n THEN k ELSE st[j+1] - 2)

PieceStep(text) ==
    [k \in 1..Len(text) |-> [pieces \in Seq(Text) \ {<<>>} |->
        IF text[k] = ":" THEN Append(pieces, Nothing)
        ELSE Front(pieces) \o <<Append(Last(pieces), text[k])>>]]

LEMMA PieceType ==
    ASSUME NEW text \in Text
    PROVE  PieceStep(text) \in [1..Len(text) -> [Seq(Text) \ {<<>>} -> Seq(Text) \ {<<>>}]]
<1>. DEFINE X == Seq(Text) \ {<<>>}
<1>1. ASSUME NEW k \in 1..Len(text), NEW pieces \in X
      PROVE  /\ Append(pieces, Nothing) \in X
             /\ Front(pieces) \o <<Append(Last(pieces), text[k])>> \in X
  <2>1. Nothing \in Text /\ text[k] \in Word
    BY DEF Nothing, Text
  <2>2. Len(pieces) \in Nat /\ Len(pieces) >= 1
    OBVIOUS
  <2>3. Front(pieces) \in Seq(Text) /\ Last(pieces) \in Text
    BY <2>2 DEF Front, Last
  <2>4. Append(Last(pieces), text[k]) \in Text
    BY <2>1, <2>3 DEF Text
  <2>. DEFINE piece == Append(Last(pieces), text[k])
              front == Front(pieces)
  <2>. HIDE DEF piece, front
  <2>5. front \in Seq(Text) /\ piece \in Text
    BY <2>3, <2>4 DEF front, piece
  <2>6. front \o <<piece>> \in Seq(Text) /\ Len(front \o <<piece>>) = Len(front) + 1
    BY <2>5
  <2>7. front \o <<piece>> # <<>>
    BY <2>5, <2>6
  <2>8. Append(pieces, Nothing) \in X
    BY <2>1
  <2>. QED  BY <2>6, <2>7, <2>8 DEF front, piece
<1>. QED  BY <1>1 DEF PieceStep

LEMMA PieceSteps ==
    ASSUME NEW text \in Text
    PROVE  \E g : /\ IsLoop(g, Len(text), Seq(Text) \ {<<>>}, <<Nothing>>, PieceStep(text))
                  /\ g[Len(text)] = Pieces(text)
<1>. DEFINE n == Len(text)
            X == Seq(Text) \ {<<>>}
            base == <<Nothing>>
            F == PieceStep(text)
            op(pieces, t) == IF t = ":" THEN Append(pieces, Nothing)
                             ELSE Front(pieces) \o <<Append(Last(pieces), t)>>
            Step(h) == [s \in SUBSET (1..n) |->
                          IF s = {} THEN base ELSE op(h[s \ {Max(s)}], text[Max(s)])]
            iter == CHOOSE h : h = Step(h)
<1>1. n \in Nat /\ DOMAIN text = 1..n /\ base \in X
  BY DEF Text, Nothing
<1>3. F \in [1..n -> [X -> X]]
  BY PieceType
<1>4. \A x \in X, k \in 1..n : F[k][x] = op(x, text[k])
  BY DEF PieceStep
<1>5. Pieces(text) = iter[1..n]
  BY <1>1 DEF Pieces, FoldLeft, MapThenFoldSet
<1>. HIDE DEF n, X, op, F, base
<1>6. \A s \in SUBSET (1..n) : s # {} => Max(s) \in 1..n /\ s \ {Max(s)} \in SUBSET (1..n)
  BY <1>1, Greatest
<1>7. PICK h : IsFold(h, n, X, base, F)
  BY <1>1, <1>3, Exists
<1>8. h = Step(h)
  BY <1>4, <1>6, <1>7 DEF IsFold
<1>9. iter = Step(iter)
  <2>. HIDE DEF Step
  <2>. QED  BY <1>8
<1>. HIDE DEF iter
<1>10. Iterates(iter, n, X, base, F)
  BY <1>4, <1>6, <1>9 DEF Iterates
<1>11. \E g : IsLoop(g, n, X, base, F) /\ g[n] = iter[1..n]
  BY <1>1, <1>3, <1>10, Loop
<1>. QED  BY <1>5, <1>11 DEF n, X, F, base

\* A step over the k-th element cuts there, or lengthens the last piece.
LEMMA CutStep ==
    ASSUME NEW text \in Text, NEW k \in 1..Len(text), NEW pieces \in Seq(Text) \ {<<>>},
           NEW st, IsCut(pieces, st, text, k - 1)
    PROVE  \E s : IsCut(PieceStep(text)[k][pieces], s, text, k)
<1>. DEFINE n == Len(pieces)
            new == PieceStep(text)[k][pieces]
<1>1. /\ n \in Nat /\ n >= 1 /\ k \in Nat /\ k >= 1 /\ (k - 1) + 1 = k
      /\ st \in [1..n -> 1..k] /\ text[k] \in Word /\ k <= Len(text) /\ Len(text) \in Nat
  BY DEF IsCut, Text
<1>2. CASE text[k] = ":"
  <2>. DEFINE s == [j \in 1..(n+1) |-> IF j = n + 1 THEN k + 1 ELSE st[j]]
  <2>1. new = Append(pieces, Nothing)
    BY <1>2 DEF PieceStep
  <2>2. /\ new \in Seq(Text) /\ Len(new) = n + 1 /\ new[n+1] = Nothing
        /\ \A j \in 1..n : new[j] = pieces[j]
    <3>1. Nothing \in Text
      BY DEF Nothing, Text
    <3>. HIDE DEF new
    <3>. QED  BY <2>1, <3>1
  <2>3. s \in [1..(n+1) -> 1..(k+1)] /\ s[1] = 1 /\ s[n+1] = k + 1
        /\ \A j \in 1..n : s[j] = st[j]
    BY <1>1 DEF IsCut
  <2>. HIDE DEF s, new, n
  <2>4. \A i, j \in 1..(n+1) : i < j => s[i] < s[j]
    <3>. TAKE i, j \in 1..(n+1)
    <3>1. CASE j = n + 1 /\ i < j
      <4>1. i \in 1..n /\ st[i] \in 1..k
        BY <1>1, <3>1
      <4>. QED  BY <1>1, <2>3, <3>1, <4>1
    <3>2. CASE j # n + 1 /\ i < j
      <4>1. i \in 1..n /\ j \in 1..n
        BY <1>1, <3>2
      <4>. QED  BY <2>3, <3>2, <4>1 DEF IsCut, n
    <3>. QED  BY <3>1, <3>2
  <2>5. \A j \in 1..(n+1) : s[j] = 1 \/ (s[j] >= 2 /\ text[s[j]-1] = ":")
    <3>. TAKE j \in 1..(n+1)
    <3>1. CASE j = n + 1
      <4>1. s[j] = k + 1 /\ (k + 1) - 1 = k /\ k + 1 >= 2
        BY <1>1, <2>3, <3>1
      <4>. QED  BY <1>2, <4>1
    <3>2. CASE j # n + 1
      <4>1. j \in 1..n
        BY <1>1, <3>2
      <4>. QED  BY <2>3, <4>1 DEF IsCut, n
    <3>. QED  BY <3>1, <3>2
  <2>6. \A p \in 2..(k+1) : text[p-1] = ":" => \E j \in 1..(n+1) : s[j] = p
    <3>. TAKE p \in 2..(k+1)
    <3>1. CASE p = k + 1
      <4>1. n + 1 \in 1..(n+1)
        BY <1>1
      <4>. QED  BY <2>3, <3>1, <4>1
    <3>2. CASE p # k + 1 /\ text[p-1] = ":"
      <4>1. p \in 2..((k-1)+1)
        BY <1>1, <3>2
      <4>2. PICK j \in 1..n : st[j] = p
        BY <3>2, <4>1 DEF IsCut, n
      <4>3. j \in 1..(n+1)
        BY <1>1
      <4>. QED  BY <2>3, <4>2, <4>3
    <3>. QED  BY <3>1, <3>2
  <2>7. \A j \in 1..(n+1) : new[j] = SubSeq(text, s[j], IF j = n + 1 THEN k ELSE s[j+1] - 2)
    <3>. TAKE j \in 1..(n+1)
    <3>1. CASE j = n + 1
      <4>1. SubSeq(text, k + 1, k) = <<>>
        BY <1>1 DEF Text
      <4>. QED  BY <2>2, <2>3, <3>1, <4>1 DEF Nothing
    <3>2. CASE j = n
      <4>1. j # n + 1 /\ j \in 1..n /\ s[j+1] - 2 = k - 1
        BY <1>1, <2>3, <3>2
      <4>2. pieces[j] = SubSeq(text, st[j], k - 1)
        BY <3>2, <4>1 DEF IsCut, n
      <4>. QED  BY <2>2, <2>3, <4>1, <4>2
    <3>3. CASE j # n /\ j # n + 1
      <4>1. j \in 1..n /\ j + 1 \in 1..n
        BY <1>1, <3>3
      <4>2. pieces[j] = SubSeq(text, st[j], st[j+1] - 2)
        BY <3>3, <4>1 DEF IsCut, n
      <4>. QED  BY <2>2, <2>3, <3>3, <4>1, <4>2
    <3>. QED  BY <3>1, <3>2, <3>3
  <2>8. n + 1 >= 1
    BY <1>1
  <2>9. IsCut(new, s, text, k)
    BY <2>2, <2>3, <2>4, <2>5, <2>6, <2>7, <2>8 DEF IsCut
  <2>. QED  BY <2>9 DEF new
<1>3. CASE text[k] # ":"
  <2>1. new = Front(pieces) \o <<Append(Last(pieces), text[k])>>
    BY <1>3 DEF PieceStep
  <2>. DEFINE piece == Append(pieces[n], text[k])
  <2>2. piece \in Text /\ pieces[n] \in Text
    <3>1. pieces[n] \in Text
      BY <1>1
    <3>. QED  BY <1>1, <3>1 DEF Text
  <2>3. /\ new \in Seq(Text) /\ Len(new) = n /\ new[n] = piece
        /\ \A j \in 1..(n-1) : new[j] = pieces[j]
    <3>1. new = SubSeq(pieces, 1, n - 1) \o <<piece>>
      BY <2>1 DEF Front, Last
    <3>. DEFINE front == SubSeq(pieces, 1, n - 1)
    <3>2. front \in Seq(Text) /\ Len(front) = n - 1
          /\ \A j \in 1..(n-1) : front[j] = pieces[j]
      <4>1. \A list \in Seq(Text), m \in Nat : m <= Len(list) =>
               /\ SubSeq(list, 1, m) \in Seq(Text) /\ Len(SubSeq(list, 1, m)) = m
               /\ \A j \in 1..m : SubSeq(list, 1, m)[j] = list[j]
        OBVIOUS
      <4>2. n - 1 \in Nat /\ n - 1 <= Len(pieces) /\ pieces \in Seq(Text)
        BY <1>1
      <4>. HIDE DEF n
      <4>. QED  BY <4>1, <4>2
    <3>. HIDE DEF front, piece, new
    <3>3. new = front \o <<piece>>
      BY <3>1 DEF front
    <3>7. \A list \in Seq(Text), x \in Text :
             /\ list \o <<x>> \in Seq(Text) /\ Len(list \o <<x>>) = Len(list) + 1
             /\ (list \o <<x>>)[Len(list) + 1] = x
             /\ \A j \in 1..Len(list) : (list \o <<x>>)[j] = list[j]
      OBVIOUS
    <3>8. /\ new \in Seq(Text) /\ Len(new) = Len(front) + 1 /\ new[Len(front) + 1] = piece
          /\ \A j \in 1..Len(front) : new[j] = front[j]
      BY <2>2, <3>2, <3>3, <3>7
    <3>. HIDE DEF n
    <3>4. new \in Seq(Text) /\ Len(new) = (n - 1) + 1 /\ new[(n - 1) + 1] = piece
      BY <3>2, <3>8
    <3>5. \A j \in 1..(n-1) : new[j] = front[j]
      BY <3>2, <3>8
    <3>6. (n - 1) + 1 = n
      BY <1>1
    <3>. QED  BY <3>2, <3>4, <3>5, <3>6
  <2>4. piece = SubSeq(text, st[n], k)
    <3>1. n \in 1..n /\ st[n] \in 1..k
      <4>. HIDE DEF n
      <4>. QED  BY <1>1
    <3>2. pieces[n] = SubSeq(text, st[n], k - 1)
      BY <3>1 DEF IsCut
    <3>. DEFINE a == SubSeq(text, st[n], k - 1)
                b == SubSeq(text, st[n], k)
    <3>3. /\ a \in Text /\ Len(a) = k - st[n]
          /\ \A i \in 1..(k - st[n]) : a[i] = text[st[n] + i - 1]
      BY <1>1, <3>1 DEF Text
    <3>4. /\ b \in Text /\ Len(b) = (k - st[n]) + 1
          /\ \A i \in 1..((k - st[n]) + 1) : b[i] = text[st[n] + i - 1]
      BY <1>1, <3>1, SMTT(60) DEF Text
    <3>. HIDE DEF a, b
    <3>. DEFINE m == k - st[n]
                c == Append(a, text[k])
    <3>5. m \in Nat /\ st[n] + (m + 1) - 1 = k
      BY <1>1, <3>1
    <3>. HIDE DEF m
    <3>6. c \in Text /\ Len(c) = m + 1 /\ c[m + 1] = text[k] /\ \A i \in 1..m : c[i] = a[i]
      BY <1>1, <3>3, <3>5 DEF Text, m
    <3>7. \A i \in 1..(m+1) : c[i] = b[i]
      <4>. HIDE DEF c
      <4>. TAKE i \in 1..(m+1)
      <4>1. CASE i = m + 1
        BY <3>4, <3>5, <3>6, <4>1 DEF m
      <4>2. CASE i # m + 1
        <5>1. i \in 1..m
          BY <3>5, <4>2
        <5>. QED  BY <3>3, <3>4, <3>6, <5>1 DEF m
      <4>. QED  BY <4>1, <4>2
    <3>. HIDE DEF c
    <3>9. Len(b) = m + 1
      BY <3>4 DEF m
    <3>8. c = b
      BY <3>4, <3>5, <3>6, <3>7, <3>9 DEF Text
    <3>. QED  BY <3>2, <3>8 DEF a, b, c
  <2>. HIDE DEF new, piece, n
  <2>5. \A j \in 1..n : new[j] = SubSeq(text, st[j], IF j = n THEN k ELSE st[j+1] - 2)
    <3>. TAKE j \in 1..n
    <3>1. CASE j = n
      BY <2>3, <2>4, <3>1
    <3>2. CASE j # n
      <4>1. j \in 1..(n-1)
        BY <1>1, <3>2
      <4>2. pieces[j] = SubSeq(text, st[j], st[j+1] - 2)
        BY <3>2 DEF IsCut, n
      <4>. QED  BY <2>3, <3>2, <4>1, <4>2
    <3>. QED  BY <3>1, <3>2
  <2>6. st \in [1..n -> 1..(k+1)]
    BY <1>1
  <2>7. \A p \in 2..(k+1) : text[p-1] = ":" => \E j \in 1..n : st[j] = p
    <3>. TAKE p \in 2..(k+1)
    <3>1. CASE p = k + 1
      <4>1. p - 1 = k
        BY <1>1, <3>1
      <4>. QED  BY <1>3, <4>1
    <3>2. CASE p # k + 1
      <4>1. p \in 2..((k-1)+1)
        BY <1>1, <3>2
      <4>. QED  BY <4>1 DEF IsCut, n
    <3>. QED  BY <3>1, <3>2
  <2>8. /\ st[1] = 1 /\ \A i, j \in 1..n : i < j => st[i] < st[j]
        /\ \A j \in 1..n : st[j] = 1 \/ (st[j] >= 2 /\ text[st[j]-1] = ":")
    BY DEF IsCut, n
  <2>9. IsCut(new, st, text, k)
    BY <1>1, <2>3, <2>5, <2>6, <2>7, <2>8 DEF IsCut
  <2>. QED  BY <2>9 DEF new
<1>. QED  BY <1>2, <1>3

\* The pieces of a text are what is between its colons, from left to right.
IsSplit(pieces, st, text) ==
    LET n == Len(pieces)
    IN  /\ pieces \in Seq(Text) /\ st \in [1..n -> 1..(Len(text)+1)]
        /\ \A i, j \in 1..n : i < j => st[i] < st[j]
        /\ \A j \in 1..n : st[j] \in {1} \cup Starts(text)
        /\ \A p \in {1} \cup Starts(text) : \E j \in 1..n : st[j] = p
        /\ \A j \in 1..n : pieces[j] = Until(text, st[j], {":"})

LEMMA PiecesAre == ASSUME NEW text \in Text  PROVE \E st : IsSplit(Pieces(text), st, text)
<1>. DEFINE m == Len(text)
            X == Seq(Text) \ {<<>>}
            base == <<Nothing>>
            F == PieceStep(text)
<1>1. PICK g : IsLoop(g, m, X, base, F) /\ g[m] = Pieces(text)
  BY PieceSteps
<1>2. m \in Nat
  BY DEF Text
<1>. DEFINE G == {k \in 0..m : \E st : IsCut(g[k], st, text, k)}
<1>3. 0 \in G
  <2>. DEFINE st == [j \in 1..1 |-> 1]
  <2>1. g[0] = base /\ base \in Seq(Text) /\ Len(base) = 1 /\ base[1] = Nothing
    <3>1. Nothing \in Text
      BY DEF Nothing, Text
    <3>. QED  BY <1>1, <3>1 DEF IsLoop
  <2>2. SubSeq(text, 1, 0) = Nothing
    BY DEF Text, Nothing
  <2>3. st \in [1..1 -> 1..(0+1)] /\ st[1] = 1
    OBVIOUS
  <2>4. \A j \in 1..1 : j = 1
    OBVIOUS
  <2>5. \A p \in 2..(0+1) : FALSE
    OBVIOUS
  <2>. HIDE DEF st, base
  <2>. DEFINE pieces == g[0]
  <2>7. /\ pieces \in Seq(Text) /\ Len(pieces) = 1
        /\ pieces[1] = SubSeq(text, st[1], 0)
    BY <2>1, <2>2, <2>3
  <2>. HIDE DEF pieces
  <2>8. \A i, j \in 1..1 : ~(i < j) /\ i = 1
    OBVIOUS
  <2>9. \A j \in 1..1 : pieces[j] = SubSeq(text, st[j], IF j = 1 THEN 0 ELSE st[j+1] - 2)
    BY <2>7, <2>8
  <2>6. IsCut(pieces, st, text, 0)
    BY <2>3, <2>5, <2>7, <2>8, <2>9 DEF IsCut
  <2>. QED  BY <1>2, <2>6 DEF pieces
<1>4. ASSUME NEW k \in 1..m, k - 1 \in G  PROVE k \in G
  <2>1. k \in 0..m /\ k - 1 \in 0..m
    BY <1>2
  <2>2. PICK st : IsCut(g[k-1], st, text, k - 1)
    BY <1>4
  <2>3. g[k-1] \in X /\ g[k] = F[k][g[k-1]]
    BY <1>1, <2>1 DEF IsLoop
  <2>. DEFINE old == g[k-1]
  <2>. HIDE DEF old
  <2>4. \E s : IsCut(PieceStep(text)[k][old], s, text, k)
    BY <2>2, <2>3, CutStep DEF old
  <2>. QED  BY <2>1, <2>3, <2>4 DEF old
<1>5. \A k \in 0..m : k \in G
  <2>. HIDE DEF G, m
  <2>. QED  BY <1>2, <1>3, <1>4, Along
<1>. DEFINE pieces == Pieces(text)
            n == Len(pieces)
<1>. HIDE DEF pieces
<1>6. PICK st : IsCut(pieces, st, text, m)
  <2>1. m \in G
    BY <1>2, <1>5
  <2>. QED  BY <1>1, <2>1 DEF pieces
<1>7. /\ pieces \in Seq(Text) /\ n >= 1 /\ n \in Nat
      /\ st \in [1..n -> 1..(m+1)] /\ st[1] = 1
      /\ \A i, j \in 1..n : i < j => st[i] < st[j]
      /\ \A j \in 1..n : st[j] = 1 \/ (st[j] >= 2 /\ text[st[j]-1] = ":")
      /\ \A p \in 2..(m+1) : text[p-1] = ":" => \E j \in 1..n : st[j] = p
      /\ \A j \in 1..n : pieces[j] = SubSeq(text, st[j], IF j = n THEN m ELSE st[j+1] - 2)
  BY <1>6 DEF IsCut
<1>. HIDE DEF n
<1>8. \A j \in 1..n : st[j] \in {1} \cup Starts(text)
  BY <1>2, <1>7 DEF Starts
<1>9. \A p \in {1} \cup Starts(text) : \E j \in 1..n : st[j] = p
  <2>1. 1 \in 1..n
    BY <1>7
  <2>2. \A p \in Starts(text) : p \in 2..(m+1) /\ text[p-1] = ":"
    BY DEF Starts
  <2>. QED  BY <1>7, <2>1, <2>2
<1>10. ASSUME NEW j \in 1..n  PROVE pieces[j] = Until(text, st[j], {":"})
  <2>. DEFINE e == IF j = n THEN m ELSE st[j+1] - 2
  <2>1. j # n => j + 1 \in 1..n /\ st[j] < st[j+1] /\ st[j+1] \in 1..(m+1)
    <3>1. j # n => j + 1 \in 1..n /\ j < j + 1
      BY <1>7
    <3>. QED  BY <1>7, <3>1
  <2>2. e \in (st[j]-1)..m /\ st[j] \in 1..(m+1)
    BY <1>2, <1>7, <2>1, SMTT(60)
  <2>3. e = m \/ text[e+1] \in {":"}
    <3>1. CASE j # n
      <4>1. j + 1 \in 1..n /\ st[j+1] # 1
        BY <2>1, <2>2, <3>1
      <4>2. text[st[j+1] - 1] = ":"
        BY <1>7, <4>1
      <4>3. e = st[j+1] - 2
        BY <3>1
      <4>. HIDE DEF e
      <4>4. e + 1 = st[j+1] - 1
        BY <2>1, <3>1, <4>3
      <4>. QED  BY <4>2, <4>4
    <3>. QED  BY <3>1
  <2>4. ASSUME NEW i \in st[j]..e, text[i] = ":"  PROVE FALSE
    <3>1. i + 1 \in 2..(m+1) /\ (i + 1) - 1 = i /\ st[j] < i + 1 /\ i <= e
      BY <1>2, <2>2
    <3>2. PICK l \in 1..n : st[l] = i + 1
      BY <1>7, <2>4, <3>1
    <3>3. ~(l <= j)
      <4>1. l < j => st[l] < st[j]
        BY <1>7
      <4>. QED  BY <2>2, <3>1, <3>2, <4>1
    <3>4. j # n /\ j + 1 \in 1..n /\ (l = j + 1 \/ j + 1 < l)
      BY <1>7, <3>3
    <3>5. st[l] >= st[j+1]
      <4>1. j + 1 < l => st[j+1] < st[l]
        BY <1>7, <3>4
      <4>. QED  BY <1>7, <2>1, <3>4, <4>1, SMTT(60)
    <3>6. e = st[j+1] - 2
      BY <3>4
    <3>. HIDE DEF e
    <3>. QED  BY <1>2, <2>1, <2>2, <3>1, <3>2, <3>4, <3>5, <3>6
  <2>5. pieces[j] = SubSeq(text, st[j], e)
    BY <1>7
  <2>. HIDE DEF e, m
  <2>6. \A i \in st[j]..e : text[i] \notin {":"}
    BY <2>4
  <2>7. Until(text, st[j], {":"}) = SubSeq(text, st[j], e)
    <3>. DEFINE from == st[j]
    <3>1. from \in 1..(Len(text)+1) /\ e \in (from-1)..Len(text) /\ (\A i \in from..e : text[i] \notin {":"})
          /\ (e = Len(text) \/ text[e+1] \in {":"})
      BY <2>2, <2>3, <2>6 DEF m
    <3>. HIDE DEF from
    <3>2. Until(text, from, {":"}) = SubSeq(text, from, e)
      BY <3>1, UntilIs
    <3>. QED  BY <3>2 DEF from
  <2>. QED  BY <2>5, <2>7
<1>11. IsSplit(pieces, st, text)
  BY <1>7, <1>8, <1>9, <1>10 DEF IsSplit, n
<1>. QED  BY <1>11 DEF pieces

-----------------------------------------------------------------------------
\* Piece by piece.
PairStep(pieces) ==
    [k \in 1..Len(pieces) |-> [res \in Maps(Text) |-> parse_pair(res, pieces[k])]]

LEMMA PairSteps ==
    ASSUME NEW pieces \in Seq(Text), NEW base \in Maps(Text)
    PROVE  \E g : /\ IsLoop(g, Len(pieces), Maps(Text), base, PairStep(pieces))
                  /\ g[Len(pieces)] = FoldLeft(parse_pair, base, pieces)
<1>. DEFINE n == Len(pieces)
            X == Maps(Text)
            F == PairStep(pieces)
            op(res, piece) == parse_pair(res, piece)
            Step(h) == [s \in SUBSET (1..n) |->
                          IF s = {} THEN base ELSE op(h[s \ {Max(s)}], pieces[Max(s)])]
            iter == CHOOSE h : h = Step(h)
<1>1. /\ n \in Nat /\ DOMAIN pieces = 1..n
      /\ \A k \in 1..n : pieces[k] \in Text
  OBVIOUS
<1>2. \A k \in 1..n : Before(pieces[k], "=") \in Text /\ After(pieces[k], "=") \in Text
  BY <1>1, BeforeAfter
<1>3. F \in [1..n -> [X -> X]]
  <2>1. \A k \in 1..n, res \in X : op(res, pieces[k]) \in X
    BY <1>2, PutType DEF parse_pair
  <2>. QED  BY <2>1 DEF PairStep
<1>4. \A x \in X, k \in 1..n : F[k][x] = op(x, pieces[k])
  BY DEF PairStep
<1>5. FoldLeft(parse_pair, base, pieces) = iter[1..n]
  BY <1>1 DEF FoldLeft, MapThenFoldSet
<1>. HIDE DEF n, X, op, F
<1>6. \A s \in SUBSET (1..n) : s # {} => Max(s) \in 1..n /\ s \ {Max(s)} \in SUBSET (1..n)
  BY <1>1, Greatest
<1>0. base \in X
  BY DEF X
<1>7. PICK h : IsFold(h, n, X, base, F)
  BY <1>0, <1>1, <1>3, Exists
<1>8. h = Step(h)
  BY <1>4, <1>6, <1>7 DEF IsFold
<1>9. iter = Step(iter)
  <2>. HIDE DEF Step
  <2>. QED  BY <1>8
<1>. HIDE DEF iter
<1>10. Iterates(iter, n, X, base, F)
  BY <1>4, <1>6, <1>9 DEF Iterates
<1>11. \E g : IsLoop(g, n, X, base, F) /\ g[n] = iter[1..n]
  BY <1>0, <1>1, <1>3, <1>10, Loop, SMTT(60)
<1>. QED  BY <1>5, <1>11 DEF n, X, F

\* M is base with the pairs that begin at some places of a text: of each key the
\* last.
Overrides(M, base, text, places) ==
    /\ M \in Maps(Text)
    /\ DOMAIN M = DOMAIN base \cup {KeyAt(text, p) : p \in places}
    /\ \A key \in DOMAIN M :
          \/ \E p \in places :
                /\ KeyAt(text, p) = key /\ M[key] = ValueAt(text, p)
                /\ \A q \in places : KeyAt(text, q) = key => q <= p
          \/ /\ \A p \in places : KeyAt(text, p) # key
             /\ key \in DOMAIN base /\ M[key] = base[key]

\* One more pair, behind all others.
LEMMA OverrideStep ==
    ASSUME NEW text \in Text, NEW base \in Maps(Text), NEW places \in SUBSET Nat,
           NEW M, Overrides(M, base, text, places),
           NEW p \in 1..(Len(text)+1), \A q \in places : q < p
    PROVE  Overrides(parse_pair(M, Until(text, p, {":"})), base, text, places \cup {p})
<1>. DEFINE piece == Until(text, p, {":"})
            key0 == KeyAt(text, p)
            val0 == ValueAt(text, p)
            new == parse_pair(M, piece)
            all == places \cup {p}
<1>1. /\ piece \in Text /\ Before(piece, "=") = key0 /\ After(piece, "=") = val0
  BY PairIs
<1>2. key0 \in Text /\ val0 \in Text
  <2>. HIDE DEF piece, key0, val0
  <2>. QED  BY <1>1, BeforeAfter
<1>3. new = Put(M, key0, val0)
  BY <1>1 DEF parse_pair
<1>. HIDE DEF key0, val0, piece, new
<1>4. M \in Maps(Text)
  BY DEF Overrides
<1>5. /\ new \in Maps(Text) /\ DOMAIN new = DOMAIN M \cup {key0}
      /\ \A k \in DOMAIN new : new[k] = IF k = key0 THEN val0 ELSE M[k]
  <2>1. Put(M, key0, val0) \in Maps(Text)
    BY <1>2, <1>4, PutType
  <2>2. /\ DOMAIN Put(M, key0, val0) = DOMAIN M \cup {key0}
        /\ \A k \in DOMAIN Put(M, key0, val0) :
              Put(M, key0, val0)[k] = IF k = key0 THEN val0 ELSE M[k]
    BY DEF Put
  <2>. QED  BY <1>3, <2>1, <2>2
<1>6. DOMAIN new = DOMAIN base \cup {KeyAt(text, q) : q \in all}
  BY <1>5 DEF Overrides, key0
<1>7. p \in Nat /\ \A q \in places : q \in Nat /\ q <= p
  <2>1. Len(text) \in Nat
    BY DEF Text
  <2>2. p \in Nat
    BY <2>1
  <2>. QED  BY <2>2
<1>8. ASSUME NEW key \in DOMAIN new
      PROVE  \/ \E q \in all :
                   /\ KeyAt(text, q) = key /\ new[key] = ValueAt(text, q)
                   /\ \A r \in all : KeyAt(text, r) = key => r <= q
             \/ /\ \A q \in all : KeyAt(text, q) # key
                /\ key \in DOMAIN base /\ new[key] = base[key]
  <2>1. CASE key = key0
    <3>1. p \in all /\ KeyAt(text, p) = key /\ new[key] = ValueAt(text, p)
      BY <1>5, <2>1 DEF key0, val0
    <3>2. \A r \in all : r <= p
      BY <1>7
    <3>. QED  BY <3>1, <3>2
  <2>2. CASE key # key0
    <3>1. key \in DOMAIN M /\ new[key] = M[key] /\ KeyAt(text, p) # key
      BY <1>5, <2>2 DEF key0
    <3>2. \/ \E q \in places :
                /\ KeyAt(text, q) = key /\ M[key] = ValueAt(text, q)
                /\ \A r \in places : KeyAt(text, r) = key => r <= q
          \/ /\ \A q \in places : KeyAt(text, q) # key
             /\ key \in DOMAIN base /\ M[key] = base[key]
      BY <3>1 DEF Overrides
    <3>. QED  BY <3>1, <3>2
  <2>. QED  BY <2>1, <2>2
<1>9. Overrides(new, base, text, all)
  BY <1>5, <1>6, <1>8 DEF Overrides
<1>. QED  BY <1>9 DEF new, piece

\* All pairs of a text.
LEMMA PairsAre ==
    ASSUME NEW text \in Text, NEW base \in Maps(Text)
    PROVE  Overrides(parse_options(base, text), base, text, {1} \cup Starts(text))
<1>. DEFINE pieces == Pieces(text)
            n == Len(pieces)
<1>1. PICK st : IsSplit(pieces, st, text)
  BY PiecesAre
<1>. HIDE DEF pieces
<1>2. /\ pieces \in Seq(Text) /\ n \in Nat /\ st \in [1..n -> 1..(Len(text)+1)]
      /\ Len(text) \in Nat
  BY <1>1 DEF IsSplit, Text
<1>3. PICK g : /\ IsLoop(g, n, Maps(Text), base, PairStep(pieces))
               /\ g[n] = parse_options(base, text)
  BY <1>2, PairSteps DEF parse_options, pieces
<1>. DEFINE Places(k) == {st[j] : j \in 1..k}
            Good(k) == Overrides(g[k], base, text, Places(k))
            G == {k \in 0..n : Good(k)}
<1>4. 0 \in G
  <2>1. g[0] = base /\ Places(0) = {}
    BY <1>3 DEF IsLoop
  <2>2. Overrides(base, base, text, {})
    <3>. DEFINE none == {}
    <3>1. \A p : p \notin none
      OBVIOUS
    <3>. HIDE DEF none
    <3>2. DOMAIN base = DOMAIN base \cup {KeyAt(text, p) : p \in none}
      BY <3>1
    <3>3. Overrides(base, base, text, none)
      BY <3>1, <3>2 DEF Overrides
    <3>. QED  BY <3>3 DEF none
  <2>3. Good(0)
    <3>. HIDE DEF Places
    <3>. QED  BY <2>1, <2>2
  <2>. HIDE DEF Good
  <2>. QED  BY <1>2, <2>3
<1>5. ASSUME NEW k \in 1..n, k - 1 \in G  PROVE k \in G
  <2>1. k - 1 \in 0..n /\ k \in 0..n /\ 1..k = 1..(k-1) \cup {k}
        /\ \A j \in 1..(k-1) : j \in 1..n /\ j < k
    BY <1>2
  <2>2. Overrides(g[k-1], base, text, Places(k - 1))
    BY <1>5
  <2>3. g[k] = parse_pair(g[k-1], pieces[k]) /\ pieces[k] = Until(text, st[k], {":"})
    <3>1. g[k-1] \in Maps(Text) /\ g[k] = PairStep(pieces)[k][g[k-1]]
      BY <1>3, <2>1 DEF IsLoop
    <3>. QED  BY <1>1, <3>1 DEF PairStep, IsSplit
  <2>4. st[k] \in 1..(Len(text)+1) /\ Places(k - 1) \in SUBSET Nat
    BY <1>2, <2>1
  <2>5. \A q \in Places(k - 1) : q < st[k]
    BY <1>1, <2>1 DEF IsSplit
  <2>6. Places(k) = Places(k - 1) \cup {st[k]}
    BY <2>1
  <2>. DEFINE p == st[k]
              places == Places(k - 1)
  <2>. HIDE DEF p, places
  <2>7. Overrides(parse_pair(g[k-1], Until(text, p, {":"})), base, text, places \cup {p})
    BY <2>2, <2>4, <2>5, OverrideStep DEF p, places
  <2>. QED  BY <2>1, <2>3, <2>6, <2>7 DEF p, places
<1>6. \A k \in 0..n : k \in G
  <2>. HIDE DEF G, n
  <2>. QED  BY <1>2, <1>4, <1>5, Along
<1>7. Overrides(g[n], base, text, Places(n))
  <2>1. n \in G
    <3>. HIDE DEF G, n
    <3>. QED  BY <1>2, <1>6
  <2>. HIDE DEF n, Places
  <2>. QED  BY <2>1
<1>8. Places(n) = {1} \cup Starts(text)
  BY <1>1 DEF IsSplit
<1>. QED  BY <1>3, <1>7, <1>8

\* A text from some place on is cut as the text is.
LEMMA UntilShift ==
    ASSUME NEW text \in Text, NEW m \in 1..Len(text),
           NEW p \in 1..(Len(text) - m + 1), NEW S
    PROVE  Until(SubSeq(text, m + 1, Len(text)), p, S) = Until(text, p + m, S)
<1>. DEFINE n == Len(text)
            rest == SubSeq(text, m + 1, n)
<1>1. n \in Nat /\ m \in Nat /\ p \in Nat /\ m <= n /\ p <= n - m + 1 /\ p >= 1
  BY DEF Text
<1>2. /\ rest \in Text /\ Len(rest) = n - m
      /\ \A i \in 1..(n - m) : rest[i] = text[i + m]
  BY <1>1 DEF Text
<1>. HIDE DEF rest
<1>3. PICK e \in (p-1)..Len(rest) : /\ \A i \in p..e : rest[i] \notin S
                                    /\ e = Len(rest) \/ rest[e+1] \in S
  <2>1. p \in 1..(Len(rest)+1)
    BY <1>1, <1>2
  <2>. QED  BY <1>2, <2>1, EndIs
<1>4. Until(rest, p, S) = SubSeq(rest, p, e)
  <2>1. p \in 1..(Len(rest)+1)
    BY <1>1, <1>2
  <2>. QED  BY <1>2, <1>3, <2>1, UntilIs
<1>. DEFINE from == p + m
            f == e + m
<1>5. from \in 1..(n+1) /\ f \in (from-1)..n /\ e \in Int
  BY <1>1, <1>2, <1>3
<1>6. \A i \in from..f : text[i] \notin S
  <2>. TAKE i \in from..f
  <2>1. i - m \in p..e /\ i - m \in 1..(n - m) /\ (i - m) + m = i
    BY <1>1, <1>2, <1>3
  <2>. QED  BY <1>2, <1>3, <2>1
<1>7. f = n \/ text[f+1] \in S
  <2>1. CASE e = Len(rest)
    BY <1>1, <1>2, <2>1
  <2>2. CASE e # Len(rest)
    <3>1. e + 1 \in 1..(n - m) /\ (e + 1) + m = f + 1
      <4>. HIDE DEF n
      <4>. QED  BY <1>1, <1>2, <1>3, <2>2
    <3>. QED  BY <1>2, <1>3, <2>2, <3>1
  <2>. QED  BY <2>1, <2>2
<1>8. Until(text, from, S) = SubSeq(text, from, f)
  <2>. HIDE DEF from, f, n
  <2>. QED  BY <1>5, <1>6, <1>7, UntilIs DEF n
<1>9. SubSeq(rest, p, e) = SubSeq(text, from, f)
  <2>. DEFINE a == SubSeq(rest, p, e)
              b == SubSeq(text, from, f)
              l == e - p + 1
  <2>0. l \in Nat
    BY <1>1, <1>2, <1>3
  <2>1. a \in Text /\ Len(a) = l /\ \A i \in 1..l : a[i] = rest[p + i - 1]
    BY <1>1, <1>2, <1>3 DEF Text
  <2>2. b \in Text /\ Len(b) = l /\ \A i \in 1..l : b[i] = text[from + i - 1]
    BY <1>1, <1>2, <1>3, <1>5 DEF Text
  <2>3. \A i \in 1..l : a[i] = b[i]
    <3>. HIDE DEF a, b
    <3>1. \A i \in 1..l : p + i - 1 \in 1..(n - m) /\ (p + i - 1) + m = from + i - 1
      BY <1>1, <1>2, <1>3
    <3>. QED  BY <1>2, <2>1, <2>2, <3>1
  <2>. HIDE DEF a, b, l
  <2>4. a = b
    BY <2>0, <2>1, <2>2, <2>3 DEF Text
  <2>. QED  BY <2>4 DEF a, b
<1>. QED  BY <1>4, <1>8, <1>9 DEF rest

\* The args behind the name of an object.
LEMMA MergedIs ==
    ASSUME NEW text \in Text, NEW entry \in Maps(Text)
    PROVE  Overrides(Merged(entry, text), entry, text, Starts(text))
<1>. DEFINE n == Len(text)
            m == Mark(text, ":")
<1>1. n \in Nat /\ m \in 0..n
  BY MarkIs DEF Text
<1>2. CASE m = 0
  <2>1. \A i \in 1..n : text[i] # ":"
    BY <1>2, MarkIs
  <2>2. \A p \in 2..(n+1) : p - 1 \in 1..n
    BY <1>1
  <2>3. Starts(text) = {}
    BY <2>1, <2>2 DEF Starts
  <2>4. Merged(entry, text) = entry
    BY <1>2 DEF Merged
  <2>. QED  BY <2>3, <2>4 DEF Overrides
<1>3. CASE m # 0
  <2>. DEFINE rest == After(text, ":")
              M == Merged(entry, text)
              old == {1} \cup Starts(rest)
  <2>1. m \in 1..n /\ text[m] = ":" /\ \A i \in 1..(m-1) : text[i] # ":"
    BY <1>1, <1>3, MarkIs
  <2>2. M = parse_options(entry, rest)
    BY <1>3 DEF Merged
  <2>3. rest = SubSeq(text, m + 1, n)
    BY <1>3 DEF After
  <2>. HIDE DEF m, M
  <2>4. /\ rest \in Text /\ Len(rest) = n - m
        /\ \A i \in 1..(n - m) : rest[i] = text[i + m]
    <3>1. m \in Nat /\ m <= n /\ m >= 1
      BY <1>1, <2>1
    <3>2. /\ SubSeq(text, m + 1, n) \in Text /\ Len(SubSeq(text, m + 1, n)) = n - m
          /\ \A i \in 1..(n - m) : SubSeq(text, m + 1, n)[i] = text[i + m]
      BY <1>1, <3>1 DEF Text
    <3>. QED  BY <2>3, <3>2
  <2>. HIDE DEF rest
  <2>5. Overrides(M, entry, rest, old)
    BY <2>2, <2>4, PairsAre
  <2>6. ASSUME NEW p \in old
        PROVE  /\ p \in Nat /\ p + m \in Starts(text)
               /\ KeyAt(rest, p) = KeyAt(text, p + m)
               /\ ValueAt(rest, p) = ValueAt(text, p + m)
    <3>1. p \in 1..(n - m + 1) /\ p + m \in 2..(n+1) /\ text[(p + m) - 1] = ":"
      <4>1. CASE p = 1
        <5>1. (p + m) - 1 = m
          BY <1>1, <2>1, <4>1
        <5>. QED  BY <1>1, <2>1, <4>1, <5>1
      <4>2. CASE p \in Starts(rest)
        <5>1. p \in 2..(n - m + 1) /\ rest[p-1] = ":"
          BY <2>4, <4>2 DEF Starts
        <5>2. p - 1 \in 1..(n - m) /\ (p - 1) + m = (p + m) - 1
          BY <1>1, <2>1, <5>1
        <5>3. text[(p - 1) + m] = ":"
          BY <2>4, <5>1, <5>2
        <5>. QED  BY <1>1, <2>1, <5>1, <5>2, <5>3
      <4>. QED  BY <4>1, <4>2
    <3>2. \A S : Until(rest, p, S) = Until(text, p + m, S)
      BY <2>1, <2>3, <3>1, UntilShift
    <3>3. p + m \in Starts(text)
      BY <3>1 DEF Starts
    <3>. QED  BY <3>1, <3>2, <3>3 DEF KeyAt, ValueAt
  <2>7. ASSUME NEW q \in Starts(text)
        PROVE  q - m \in old /\ (q - m) + m = q /\ q \in Nat
    <3>1. q \in 2..(n+1) /\ text[q-1] = ":" /\ q - 1 \in 1..n
      BY <1>1 DEF Starts
    <3>2. q - 1 >= m
      BY <1>1, <2>1, <3>1
    <3>3. CASE q - 1 = m
      BY <1>1, <2>1, <3>1, <3>3
    <3>4. CASE q - 1 # m
      <4>1. (q - m) - 1 \in 1..(n - m) /\ ((q - m) - 1) + m = q - 1 /\ q - m \in 2..((n - m) + 1)
        BY <1>1, <2>1, <3>1, <3>2, <3>4
      <4>2. rest[(q - m) - 1] = ":"
        BY <2>4, <3>1, <4>1
      <4>3. q - m \in Starts(rest)
        BY <2>4, <4>1, <4>2 DEF Starts
      <4>. QED  BY <1>1, <2>1, <3>1, <4>3
    <3>. QED  BY <3>3, <3>4
  <2>. HIDE DEF old, n
  <2>8. {KeyAt(text, q) : q \in Starts(text)} = {KeyAt(rest, p) : p \in old}
    BY <2>6, <2>7
  <2>9. m \in Nat
    BY <1>1, <2>1 DEF n
  <2>10. ASSUME NEW key \in DOMAIN M
         PROVE  \/ \E q \in Starts(text) :
                      /\ KeyAt(text, q) = key /\ M[key] = ValueAt(text, q)
                      /\ \A r \in Starts(text) : KeyAt(text, r) = key => r <= q
                \/ /\ \A q \in Starts(text) : KeyAt(text, q) # key
                   /\ key \in DOMAIN entry /\ M[key] = entry[key]
    <3>1. CASE \E p \in old : /\ KeyAt(rest, p) = key /\ M[key] = ValueAt(rest, p)
                              /\ \A r \in old : KeyAt(rest, r) = key => r <= p
      <4>1. PICK p \in old : /\ KeyAt(rest, p) = key /\ M[key] = ValueAt(rest, p)
                             /\ \A r \in old : KeyAt(rest, r) = key => r <= p
        BY <3>1
      <4>2. /\ p \in Nat /\ p + m \in Starts(text)
            /\ KeyAt(text, p + m) = key /\ M[key] = ValueAt(text, p + m)
        BY <2>6, <4>1
      <4>3. ASSUME NEW r \in Starts(text), KeyAt(text, r) = key  PROVE r <= p + m
        <5>1. r - m \in old /\ (r - m) + m = r /\ r \in Nat
          BY <2>7
        <5>2. KeyAt(rest, r - m) = key
          BY <2>6, <4>3, <5>1
        <5>3. r - m <= p
          BY <4>1, <5>1, <5>2
        <5>. QED  BY <2>9, <4>2, <5>1, <5>3
      <4>. QED  BY <4>2, <4>3
    <3>2. CASE /\ \A p \in old : KeyAt(rest, p) # key
               /\ key \in DOMAIN entry /\ M[key] = entry[key]
      BY <2>6, <2>7, <3>2
    <3>. QED  BY <2>5, <3>1, <3>2 DEF Overrides
  <2>11. M \in Maps(Text) /\ DOMAIN M = DOMAIN entry \cup {KeyAt(text, q) : q \in Starts(text)}
    BY <2>5, <2>8 DEF Overrides
  <2>12. Overrides(M, entry, text, Starts(text))
    BY <2>10, <2>11 DEF Overrides
  <2>. QED  BY <2>12 DEF M
<1>. QED  BY <1>2, <1>3

-----------------------------------------------------------------------------
\* Text by text.
InstanceStep(texts) ==
    [k \in 1..Len(texts) |-> [res \in Maps(Maps(Text)) |-> parse_instance(res, texts[k])]]

LEMMA InstanceType ==
    ASSUME NEW res \in Maps(Maps(Text)), NEW text \in Text
    PROVE  /\ \A name : Entry(res, name) \in Maps(Text)
           /\ parse_instance(res, text) \in Maps(Maps(Text))
<1>1. PICK D \in SUBSET Text : res \in [D -> Maps(Text)]
  BY DEF Maps
<1>2. Nothing \in Maps(Text)
  BY NothingIsMap
<1>3. \A name : Entry(res, name) \in Maps(Text)
  BY <1>1, <1>2 DEF Entry
<1>. DEFINE name == Before(text, ":")
            entry == Merged(Entry(res, name), text)
<1>4. name \in Text
  BY BeforeAfter
<1>. HIDE DEF name
<1>5. entry \in Maps(Text)
  BY <1>3, MergedIs DEF Overrides
<1>. HIDE DEF entry
<1>6. Put(res, name, entry) \in Maps(Maps(Text))
  BY <1>4, <1>5, PutType
<1>7. parse_instance(res, text) = IF text = Nothing THEN res ELSE Put(res, name, entry)
  BY DEF parse_instance, name, entry
<1>. QED  BY <1>3, <1>6, <1>7

LEMMA InstanceSteps ==
    ASSUME NEW texts \in Seq(Text)
    PROVE  \E g : /\ IsLoop(g, Len(texts), Maps(Maps(Text)), Nothing, InstanceStep(texts))
                  /\ g[Len(texts)] = parse_custom_options(texts)
<1>. DEFINE n == Len(texts)
            X == Maps(Maps(Text))
            F == InstanceStep(texts)
            op(res, text) == parse_instance(res, text)
            Step(h) == [s \in SUBSET (1..n) |->
                          IF s = {} THEN Nothing ELSE op(h[s \ {Max(s)}], texts[Max(s)])]
            iter == CHOOSE h : h = Step(h)
<1>1. /\ n \in Nat /\ DOMAIN texts = 1..n /\ Nothing \in X
      /\ \A k \in 1..n : texts[k] \in Text
  BY NothingIsMap
<1>3. F \in [1..n -> [X -> X]]
  <2>1. \A k \in 1..n, res \in X : op(res, texts[k]) \in X
    BY <1>1, InstanceType
  <2>. QED  BY <2>1 DEF InstanceStep
<1>4. \A x \in X, k \in 1..n : F[k][x] = op(x, texts[k])
  BY DEF InstanceStep
<1>5. parse_custom_options(texts) = iter[1..n]
  BY <1>1 DEF parse_custom_options, FoldLeft, MapThenFoldSet
<1>. HIDE DEF n, X, op, F
<1>6. \A s \in SUBSET (1..n) : s # {} => Max(s) \in 1..n /\ s \ {Max(s)} \in SUBSET (1..n)
  BY <1>1, Greatest
<1>7. PICK h : IsFold(h, n, X, Nothing, F)
  BY <1>1, <1>3, Exists
<1>8. h = Step(h)
  BY <1>4, <1>6, <1>7 DEF IsFold
<1>9. iter = Step(iter)
  <2>. HIDE DEF Step
  <2>. QED  BY <1>8
<1>. HIDE DEF iter
<1>10. Iterates(iter, n, X, Nothing, F)
  BY <1>4, <1>6, <1>9 DEF Iterates
<1>11. \E g : IsLoop(g, n, X, Nothing, F) /\ g[n] = iter[1..n]
  BY <1>1, <1>3, <1>10, Loop, SMTT(60)
<1>. QED  BY <1>5, <1>11 DEF n, X, F

\* The p-th place of the i-th text mentions an arg of an object.
IsMention(texts, object, key, i, p) ==
    /\ p \in Starts(texts[i]) /\ ObjectOf(texts[i]) = object
    /\ KeyAt(texts[i], p) = key

IsLastMention(texts, object, key, k, i, p) ==
    /\ i \in 1..k /\ IsMention(texts, object, key, i, p)
    /\ \A j \in 1..k : \A q : IsMention(texts, object, key, j, q) =>
          j < i \/ (j = i /\ q <= p)

\* entry has the last mentions in the first k texts.
IsEntry(entry, texts, object, k) ==
    /\ \A key : key \in DOMAIN entry <=>
                   \E i \in 1..k : \E p : IsMention(texts, object, key, i, p)
    /\ \A key \in DOMAIN entry : \E i, p :
          IsLastMention(texts, object, key, k, i, p) /\ entry[key] = ValueAt(texts[i], p)

LEMMA EntryStep ==
    ASSUME NEW texts \in Seq(Text), NEW k \in 1..Len(texts), NEW object,
           NEW entry \in Maps(Text), IsEntry(entry, texts, object, k - 1)
    PROVE  /\ ObjectOf(texts[k]) = object =>
                 IsEntry(Merged(entry, texts[k]), texts, object, k)
           /\ ObjectOf(texts[k]) # object \/ Starts(texts[k]) = {} =>
                 IsEntry(entry, texts, object, k)
<1>. DEFINE text == texts[k]
            M == Merged(entry, text)
            old(key, i, p) == i \in 1..(k-1) /\ IsMention(texts, object, key, i, p)
<1>1. /\ text \in Text /\ k \in 1..k /\ k \in Nat
      /\ \A i : i \in 1..k <=> (i \in 1..(k-1) \/ i = k)
      /\ \A i \in 1..(k-1) : i < k
  OBVIOUS
<1>2. ASSUME ObjectOf(text) = object  PROVE IsEntry(M, texts, object, k)
  <2>1. Overrides(M, entry, text, Starts(text))
    BY <1>1, MergedIs
  <2>2. \A key, p : IsMention(texts, object, key, k, p) <=>
                      p \in Starts(text) /\ KeyAt(text, p) = key
    BY <1>2 DEF IsMention
  <2>. HIDE DEF M, text
  <2>3. ASSUME NEW key
        PROVE  key \in DOMAIN M <=> \E i \in 1..k : \E p : IsMention(texts, object, key, i, p)
    <3>1. key \in DOMAIN M <=> \/ key \in DOMAIN entry
                               \/ \E p \in Starts(text) : KeyAt(text, p) = key
      BY <2>1 DEF Overrides
    <3>2. key \in DOMAIN entry <=>
             \E i \in 1..(k-1) : \E p : IsMention(texts, object, key, i, p)
      BY DEF IsEntry
    <3>. QED  BY <1>1, <2>2, <3>1, <3>2
  <2>4. ASSUME NEW key \in DOMAIN M
        PROVE  \E i, p : /\ IsLastMention(texts, object, key, k, i, p)
                         /\ M[key] = ValueAt(texts[i], p)
    <3>1. CASE \E p \in Starts(text) :
                  /\ KeyAt(text, p) = key /\ M[key] = ValueAt(text, p)
                  /\ \A q \in Starts(text) : KeyAt(text, q) = key => q <= p
      <4>1. PICK p \in Starts(text) :
               /\ KeyAt(text, p) = key /\ M[key] = ValueAt(text, p)
               /\ \A q \in Starts(text) : KeyAt(text, q) = key => q <= p
        BY <3>1
      <4>2. IsLastMention(texts, object, key, k, k, p)
        <5>1. \A j \in 1..k : \A q : IsMention(texts, object, key, j, q) =>
                 j < k \/ (j = k /\ q <= p)
          BY <1>1, <2>2, <4>1
        <5>. QED  BY <1>1, <2>2, <4>1, <5>1 DEF IsLastMention
      <4>. QED  BY <4>1, <4>2 DEF text
    <3>2. CASE /\ \A p \in Starts(text) : KeyAt(text, p) # key
               /\ key \in DOMAIN entry /\ M[key] = entry[key]
      <4>1. PICK i, p : /\ IsLastMention(texts, object, key, k - 1, i, p)
                        /\ entry[key] = ValueAt(texts[i], p)
        BY <3>2 DEF IsEntry
      <4>2. \A q : ~IsMention(texts, object, key, k, q)
        BY <2>2, <3>2
      <4>3. IsLastMention(texts, object, key, k, i, p)
        BY <1>1, <4>1, <4>2 DEF IsLastMention
      <4>. QED  BY <3>2, <4>1, <4>3
    <3>. QED  BY <2>1, <3>1, <3>2 DEF Overrides
  <2>. QED  BY <2>3, <2>4 DEF IsEntry
<1>3. ASSUME ObjectOf(text) # object \/ Starts(text) = {}
      PROVE  IsEntry(entry, texts, object, k)
  <2>1. \A key, p : ~IsMention(texts, object, key, k, p)
    BY <1>3 DEF IsMention
  <2>2. \A key : (\E i \in 1..k : \E p : IsMention(texts, object, key, i, p))
                 <=> \E i \in 1..(k-1) : \E p : IsMention(texts, object, key, i, p)
    BY <1>1, <2>1
  <2>3. \A key, i, p : IsLastMention(texts, object, key, k - 1, i, p)
                          => IsLastMention(texts, object, key, k, i, p)
    BY <1>1, <2>1 DEF IsLastMention
  <2>. QED  BY <2>2, <2>3 DEF IsEntry
<1>. QED  BY <1>2, <1>3

\* An object that is not named yet has no args.
IsNamed(texts, object, k) ==
    \E i \in 1..k : texts[i] # Nothing /\ ObjectOf(texts[i]) = object

LEMMA NothingStarts == Starts(Nothing) = {}
<1>1. Len(Nothing) = 0
  BY DEF Nothing
<1>. QED  BY <1>1 DEF Starts

LEMMA FirstMention ==
    ASSUME NEW texts, NEW object, NEW k \in Nat, ~IsNamed(texts, object, k)
    PROVE  IsEntry(Nothing, texts, object, k)
<1>1. \A i \in 1..k : \A key, p : ~IsMention(texts, object, key, i, p)
  BY NothingStarts DEF IsNamed, IsMention
<1>2. DOMAIN Nothing = {}
  BY NothingIsMap
<1>. QED  BY <1>1, <1>2 DEF IsEntry

\* All objects that are named have the last mentions of their args.
IsCollected(res, texts, k) ==
    /\ res \in Maps(Maps(Text))
    /\ \A object : object \in DOMAIN res <=> IsNamed(texts, object, k)
    /\ \A object \in DOMAIN res : IsEntry(res[object], texts, object, k)

LEMMA CollectStep ==
    ASSUME NEW texts \in Seq(Text), NEW k \in 1..Len(texts), NEW res,
           IsCollected(res, texts, k - 1)
    PROVE  IsCollected(parse_instance(res, texts[k]), texts, k)
<1>. DEFINE text == texts[k]
            name == ObjectOf(text)
            entry == Merged(Entry(res, name), text)
            new == parse_instance(res, text)
<1>1. /\ text \in Text /\ k \in 1..k /\ k - 1 \in Nat
      /\ \A i : i \in 1..k <=> (i \in 1..(k-1) \/ i = k)
  OBVIOUS
<1>2. res \in Maps(Maps(Text)) /\ \A object : Entry(res, object) \in Maps(Text)
  BY <1>1, InstanceType DEF IsCollected
<1>3. \A object : IsNamed(texts, object, k) <=>
                    IsNamed(texts, object, k - 1) \/ (text # Nothing /\ object = name)
  BY <1>1 DEF IsNamed
<1>4. ASSUME NEW object  PROVE IsEntry(Entry(res, object), texts, object, k - 1)
  <2>1. CASE object \in DOMAIN res
    BY <2>1 DEF IsCollected, Entry
  <2>2. CASE object \notin DOMAIN res
    BY <1>1, <2>2, FirstMention DEF IsCollected, Entry
  <2>. QED  BY <2>1, <2>2
<1>5. ASSUME NEW object
      PROVE  /\ object = name => IsEntry(entry, texts, object, k)
             /\ object # name \/ text = Nothing => IsEntry(Entry(res, object), texts, object, k)
  <2>1. /\ ObjectOf(texts[k]) = object =>
              IsEntry(Merged(Entry(res, object), texts[k]), texts, object, k)
        /\ ObjectOf(texts[k]) # object \/ Starts(texts[k]) = {} =>
              IsEntry(Entry(res, object), texts, object, k)
    <3>. DEFINE e == Entry(res, object)
    <3>1. e \in Maps(Text) /\ IsEntry(e, texts, object, k - 1)
      BY <1>2, <1>4
    <3>. HIDE DEF e
    <3>2. /\ ObjectOf(texts[k]) = object => IsEntry(Merged(e, texts[k]), texts, object, k)
          /\ ObjectOf(texts[k]) # object \/ Starts(texts[k]) = {} =>
                IsEntry(e, texts, object, k)
      BY <3>1, EntryStep
    <3>. QED  BY <3>2 DEF e
  <2>. QED  BY <2>1, NothingStarts
<1>6. new \in Maps(Maps(Text))
  BY <1>1, <1>2, InstanceType
<1>7. new = IF text = Nothing THEN res ELSE Put(res, name, entry)
  BY <1>1, NameIs DEF parse_instance
<1>. HIDE DEF new, entry
<1>8. CASE text = Nothing
  <2>1. new = res
    BY <1>7, <1>8
  <2>2. \A object \in DOMAIN res : IsEntry(res[object], texts, object, k)
    BY <1>5, <1>8 DEF Entry
  <2>3. \A object : object \in DOMAIN res <=> IsNamed(texts, object, k)
    BY <1>3, <1>8 DEF IsCollected
  <2>. QED  BY <1>6, <2>1, <2>2, <2>3 DEF IsCollected, new
<1>9. CASE text # Nothing
  <2>1. new = Put(res, name, entry)
    BY <1>7, <1>9
  <2>2. /\ DOMAIN new = DOMAIN res \cup {name}
        /\ \A object \in DOMAIN new : new[object] = IF object = name THEN entry ELSE res[object]
    BY <2>1 DEF Put
  <2>3. \A object : object \in DOMAIN new <=> IsNamed(texts, object, k)
    BY <1>3, <1>9, <2>2 DEF IsCollected
  <2>4. ASSUME NEW object \in DOMAIN new  PROVE IsEntry(new[object], texts, object, k)
    <3>1. CASE object = name
      BY <1>5, <2>2, <3>1
    <3>2. CASE object # name
      <4>1. object \in DOMAIN res /\ new[object] = Entry(res, object)
        BY <2>2, <3>2 DEF Entry
      <4>. QED  BY <1>5, <3>2, <4>1
    <3>. QED  BY <3>1, <3>2
  <2>5. IsCollected(new, texts, k)
    BY <1>6, <2>3, <2>4 DEF IsCollected
  <2>. QED  BY <2>5 DEF new
<1>. QED  BY <1>8, <1>9

LEMMA Collected ==
    ASSUME NEW texts \in Seq(Text)
    PROVE  IsCollected(parse_custom_options(texts), texts, Len(texts))
<1>. DEFINE n == Len(texts)
<1>1. PICK g : /\ IsLoop(g, n, Maps(Maps(Text)), Nothing, InstanceStep(texts))
               /\ g[n] = parse_custom_options(texts)
  BY InstanceSteps
<1>2. n \in Nat
  OBVIOUS
<1>. DEFINE G == {k \in 0..n : IsCollected(g[k], texts, k)}
<1>3. 0 \in G
  <2>1. g[0] = Nothing /\ Nothing \in Maps(Maps(Text)) /\ DOMAIN Nothing = {}
    BY <1>1, NothingIsMap DEF IsLoop
  <2>2. \A object : ~IsNamed(texts, object, 0)
    BY DEF IsNamed
  <2>3. IsCollected(Nothing, texts, 0)
    BY <2>1, <2>2 DEF IsCollected
  <2>. QED  BY <1>2, <2>1, <2>3
<1>4. ASSUME NEW k \in 1..n, k - 1 \in G  PROVE k \in G
  <2>1. k \in 0..n /\ k - 1 \in 0..n
    BY <1>2
  <2>2. IsCollected(g[k-1], texts, k - 1)
    BY <1>4
  <2>3. g[k] = parse_instance(g[k-1], texts[k])
    BY <1>1, <2>1 DEF IsLoop, InstanceStep
  <2>. DEFINE res == g[k-1]
  <2>. HIDE DEF res
  <2>4. IsCollected(parse_instance(res, texts[k]), texts, k)
    BY <2>2, CollectStep DEF res
  <2>. QED  BY <2>1, <2>3, <2>4 DEF res
<1>5. \A k \in 0..n : k \in G
  <2>. HIDE DEF G, n
  <2>. QED  BY <1>2, <1>3, <1>4, Along
<1>6. n \in G
  <2>. HIDE DEF G, n
  <2>. QED  BY <1>2, <1>5
<1>. QED  BY <1>1, <1>6

\* What the fold has collected is what the help text promises.
LEMMA CollectedIsPromised ==
    ASSUME NEW texts \in Seq(Text)
    PROVE  parse_custom_options(texts) = LastMentions(texts)
<1>. DEFINE n == Len(texts)
            res == parse_custom_options(texts)
            Keys(object) == {KeyOf(texts, m) : m \in Mentions(texts, object)}
            Value(object, key) == LET m == LastMention(texts, object, key)
                                  IN  ValueAt(texts[m[1]], m[2])
            Objects == {ObjectOf(t) : t \in Range(texts) \ {Nothing}}
<1>1. IsCollected(res, texts, n)
  BY Collected
<1>. HIDE DEF res
<1>2. n \in Nat /\ DOMAIN texts = 1..n
  OBVIOUS
<1>3. \A object : object \in Objects <=> IsNamed(texts, object, n)
  <2>1. \A t : t \in Range(texts) <=> \E i \in 1..n : t = texts[i]
    BY <1>2 DEF Range
  <2>. QED  BY <2>1 DEF IsNamed
<1>4. ASSUME NEW object, NEW key, NEW i, NEW p
      PROVE  IsMention(texts, object, key, i, p) /\ i \in 1..n <=>
                <<i, p>> \in Mentions(texts, object) /\ KeyOf(texts, <<i, p>>) = key
  <2>1. <<i, p>> \in Mentions(texts, object) <=>
           i \in 1..n /\ ObjectOf(texts[i]) = object /\ p \in Starts(texts[i])
    BY <1>2 DEF Mentions
  <2>. QED  BY <2>1 DEF IsMention, KeyOf
<1>5. ASSUME NEW object, NEW m \in Mentions(texts, object)
      PROVE  m = <<m[1], m[2]>> /\ m[1] \in 1..n /\ m[2] \in Nat
  <2>1. PICK i \in 1..n : m \in {i} \X Starts(texts[i])
    BY <1>2 DEF Mentions
  <2>2. \A p \in Starts(texts[i]) : p \in Nat
    <3>1. Len(texts[i]) \in Nat
      BY DEF Text
    <3>. QED  BY <3>1 DEF Starts
  <2>. QED  BY <2>1, <2>2
<1>6. ASSUME NEW object, NEW key
      PROVE  key \in Keys(object) <=>
                \E i \in 1..n : \E p : IsMention(texts, object, key, i, p)
  <2>1. ASSUME key \in Keys(object)
        PROVE  \E i \in 1..n : \E p : IsMention(texts, object, key, i, p)
    <3>1. PICK m \in Mentions(texts, object) : KeyOf(texts, m) = key
      BY <2>1
    <3>. QED  BY <1>4, <1>5, <3>1
  <2>2. ASSUME NEW i \in 1..n, NEW p, IsMention(texts, object, key, i, p)
        PROVE  key \in Keys(object)
    <3>. DEFINE m == <<i, p>>
    <3>1. m \in Mentions(texts, object) /\ KeyOf(texts, m) = key
      BY <1>4, <2>2
    <3>. HIDE DEF m
    <3>. QED  BY <3>1
  <2>. QED  BY <2>1, <2>2
<1>7. ASSUME NEW object, NEW key, NEW i, NEW p, IsLastMention(texts, object, key, n, i, p)
      PROVE  LastMention(texts, object, key) = <<i, p>>
  <2>. DEFINE Is(m) == /\ KeyOf(texts, m) = key
                       /\ \A o \in Mentions(texts, object) : KeyOf(texts, o) = key =>
                             o[1] < m[1] \/ (o[1] = m[1] /\ o[2] <= m[2])
              last == LastMention(texts, object, key)
  <2>1. <<i, p>> \in Mentions(texts, object) /\ KeyOf(texts, <<i, p>>) = key
    BY <1>4, <1>7 DEF IsLastMention
  <2>2. ASSUME NEW o \in Mentions(texts, object), KeyOf(texts, o) = key
        PROVE  o[1] < i \/ (o[1] = i /\ o[2] <= p)
    <3>1. o = <<o[1], o[2]>>
      BY <1>5
    <3>2. IsMention(texts, object, key, o[1], o[2]) /\ o[1] \in 1..n
      BY <1>4, <2>2, <3>1
    <3>. QED  BY <1>7, <3>2 DEF IsLastMention
  <2>3. Is(<<i, p>>)
    BY <2>1, <2>2
  <2>4. last = CHOOSE m \in Mentions(texts, object) : Is(m)
    BY DEF LastMention
  <2>5. last \in Mentions(texts, object) /\ Is(last)
    <3>. HIDE DEF Is, last
    <3>. QED  BY <2>1, <2>3, <2>4
  <2>. HIDE DEF last
  <2>6. last[1] < i \/ (last[1] = i /\ last[2] <= p)
    BY <2>2, <2>5
  <2>7. i < last[1] \/ (i = last[1] /\ p <= last[2])
    BY <2>1, <2>5
  <2>8. /\ last = <<last[1], last[2]>> /\ last[1] \in Nat /\ last[2] \in Nat
        /\ i \in Nat /\ p \in Nat
    <3>1. last = <<last[1], last[2]>> /\ last[1] \in 1..n /\ last[2] \in Nat
      BY <1>5, <2>5
    <3>2. <<i, p>>[1] \in 1..n /\ <<i, p>>[2] \in Nat
      BY <1>5, <2>1
    <3>. QED  BY <3>1, <3>2
  <2>9. last[1] = i /\ last[2] = p
    BY <2>6, <2>7, <2>8
  <2>. QED  BY <2>8, <2>9 DEF last
<1>8. ASSUME NEW object \in DOMAIN res
      PROVE  res[object] = [key \in Keys(object) |-> Value(object, key)]
  <2>. DEFINE entry == res[object]
  <2>1. IsEntry(entry, texts, object, n)
    BY <1>1 DEF IsCollected
  <2>2. \E D : entry \in [D -> Text]
    BY <1>1 DEF IsCollected, Maps
  <2>. HIDE DEF entry
  <2>3. DOMAIN entry = Keys(object)
    <3>. HIDE DEF Keys
    <3>. QED  BY <1>6, <2>1 DEF IsEntry
  <2>4. \A key \in DOMAIN entry : entry[key] = Value(object, key)
    <3>. TAKE key \in DOMAIN entry
    <3>1. PICK i, p : /\ IsLastMention(texts, object, key, n, i, p)
                      /\ entry[key] = ValueAt(texts[i], p)
      BY <2>1 DEF IsEntry
    <3>2. LastMention(texts, object, key) = <<i, p>>
      BY <1>7, <3>1
    <3>. QED  BY <3>1, <3>2
  <2>. HIDE DEF Keys, Value
  <2>5. entry = [key \in Keys(object) |-> Value(object, key)]
    BY <2>2, <2>3, <2>4
  <2>. QED  BY <2>5 DEF entry
<1>9. DOMAIN res = Objects
  <2>. HIDE DEF Objects
  <2>. QED  BY <1>1, <1>3 DEF IsCollected
<1>10. \E D : res \in [D -> Maps(Text)]
  BY <1>1 DEF IsCollected, Maps
<1>11. LastMentions(texts) = [object \in Objects |-> [key \in Keys(object) |-> Value(object, key)]]
  BY DEF LastMentions
<1>12. res = [object \in Objects |-> [key \in Keys(object) |-> Value(object, key)]]
  <2>. HIDE DEF Objects, Keys, Value
  <2>. QED  BY <1>8, <1>9, <1>10
<1>. QED  BY <1>11, <1>12 DEF res

-----------------------------------------------------------------------------
Section == [name : Text, array : BOOLEAN, items : Seq(Word)]
Accumulators == [ok : BOOLEAN, map : Seq(Section)]

LEMMA FindIs ==
    ASSUME NEW map \in Seq(Section), NEW name
    PROVE  /\ conf_find(name, map) \in 0..Len(map)
           /\ conf_find(name, map) = 0 => \A i \in 1..Len(map) : map[i].name # name
           /\ conf_find(name, map) # 0 => map[conf_find(name, map)].name = name
<1>. DEFINE I == {i \in 1..Len(map) : map[i].name = name}
<1>1. conf_find(name, map) = IF I # {} THEN Min(I) ELSE 0
  BY DEF conf_find, SelectInSeq
<1>2. Len(map) \in Nat /\ I \in SUBSET Nat
  OBVIOUS
<1>3. I # {} => Min(I) \in I
  <2>. HIDE DEF I
  <2>. QED  BY <1>2, MinIs
<1>4. \A i \in I : i \in 1..Len(map) /\ map[i].name = name /\ i # 0
  OBVIOUS
<1>5. I = {} => \A i \in 1..Len(map) : map[i].name # name
  OBVIOUS
<1>. HIDE DEF I
<1>6. CASE I = {}
  BY <1>1, <1>2, <1>5, <1>6
<1>7. CASE I # {}
  <2>1. /\ conf_find(name, map) \in 1..Len(map) /\ conf_find(name, map) # 0
        /\ map[conf_find(name, map)].name = name
    BY <1>1, <1>3, <1>4, <1>7
  <2>. QED  BY <1>2, <2>1
<1>. QED  BY <1>6, <1>7

LEMMA MergeIs ==
    ASSUME NEW acc \in Accumulators, NEW section \in Section
    PROVE  LET i == conf_find(section.name, acc.map)
               m == acc.map
           IN  /\ Merge(acc, section) \in Accumulators
               /\ Merge(acc, section).ok =>
                    Merge(acc, section).map =
                      IF i = 0 THEN Append(m, section)
                      ELSE [m EXCEPT ![i] = [m[i] EXCEPT !.items = m[i].items \o section.items]]
<1>. DEFINE i == conf_find(section.name, acc.map)
            m == acc.map
<1>1. i \in 0..Len(m) /\ m \in Seq(Section) /\ acc.ok \in BOOLEAN
  BY FindIs DEF Accumulators
<1>2. CASE i = 0
  <2>1. Merge(acc, section) = [acc EXCEPT !.map = Append(m, section)]
    BY <1>2 DEF Merge
  <2>2. Append(m, section) \in Seq(Section)
    BY <1>1
  <2>. HIDE DEF i, m
  <2>. QED  BY <1>2, <2>1, <2>2 DEF Accumulators, i, m
<1>3. CASE i # 0 /\ ~(~section.array \/ ~m[i].array)
  <2>1. Merge(acc, section) = [acc EXCEPT !.map = [m EXCEPT ![i] = [m[i] EXCEPT !.items = m[i].items \o section.items]]]
    BY <1>3 DEF Merge, Joined
  <2>2. m[i] \in Section /\ i \in 1..Len(m)
    BY <1>1, <1>3
  <2>3. [m[i] EXCEPT !.items = m[i].items \o section.items] \in Section
    <3>. HIDE DEF i, m
    <3>1. m[i].items \o section.items \in Seq(Word)
      BY <2>2 DEF Section
    <3>. QED  BY <2>2, <3>1 DEF Section
  <2>. DEFINE s == [m[i] EXCEPT !.items = m[i].items \o section.items]
  <2>. HIDE DEF s
  <2>4. [m EXCEPT ![i] = s] \in Seq(Section)
    BY <1>1, <2>2, <2>3 DEF s
  <2>5. Merge(acc, section) = [acc EXCEPT !.map = [m EXCEPT ![i] = s]]
    BY <2>1 DEF s
  <2>. HIDE DEF i, m
  <2>6. Merge(acc, section).map = [m EXCEPT ![i] = s] /\ Merge(acc, section) \in Accumulators
    BY <2>4, <2>5 DEF Accumulators
  <2>. QED  BY <1>3, <2>6 DEF s, i, m
<1>4. CASE i # 0 /\ (~section.array \/ ~m[i].array)
  <2>1. Merge(acc, section) = [acc EXCEPT !.ok = FALSE]
    BY <1>4 DEF Merge
  <2>. HIDE DEF i, m
  <2>. QED  BY <2>1 DEF Accumulators
<1>. QED  BY <1>2, <1>3, <1>4

NormalStep(conf) ==
    [k \in 1..Len(conf) |-> [acc \in Accumulators |->
        IF acc.ok THEN Merge(acc, conf[k]) ELSE acc]]

LEMMA NormalSteps ==
    ASSUME NEW conf \in Seq(Section)
    PROVE  \E g : /\ IsLoop(g, Len(conf), Accumulators, [ok |-> TRUE, map |-> <<>>],
                            NormalStep(conf))
                  /\ g[Len(conf)] = normalize_json_multimap(conf)
<1>. DEFINE n == Len(conf)
            X == Accumulators
            base == [ok |-> TRUE, map |-> <<>>]
            F == NormalStep(conf)
            op(acc, section) == IF acc.ok THEN Merge(acc, section) ELSE acc
            Step(h) == [s \in SUBSET (1..n) |->
                          IF s = {} THEN base ELSE op(h[s \ {Max(s)}], conf[Max(s)])]
            iter == CHOOSE h : h = Step(h)
<1>1. /\ n \in Nat /\ DOMAIN conf = 1..n /\ \A k \in 1..n : conf[k] \in Section
  OBVIOUS
<1>2. base \in X
  BY DEF Accumulators
<1>3. F \in [1..n -> [X -> X]]
  <2>1. \A k \in 1..n, acc \in X : op(acc, conf[k]) \in X
    BY <1>1, MergeIs
  <2>. QED  BY <2>1 DEF NormalStep
<1>4. \A x \in X, k \in 1..n : F[k][x] = op(x, conf[k])
  BY DEF NormalStep
<1>5. normalize_json_multimap(conf) = iter[1..n]
  BY <1>1 DEF normalize_json_multimap, FoldLeft, MapThenFoldSet
<1>. HIDE DEF n, X, base, op, F
<1>6. \A s \in SUBSET (1..n) : s # {} => Max(s) \in 1..n /\ s \ {Max(s)} \in SUBSET (1..n)
  BY <1>1, Greatest
<1>7. PICK h : IsFold(h, n, X, base, F)
  BY <1>1, <1>2, <1>3, Exists
<1>8. h = Step(h)
  BY <1>4, <1>6, <1>7 DEF IsFold
<1>9. iter = Step(iter)
  <2>. HIDE DEF Step
  <2>. QED  BY <1>8
<1>. HIDE DEF iter
<1>10. Iterates(iter, n, X, base, F)
  BY <1>4, <1>6, <1>9 DEF Iterates
<1>11. \E g : IsLoop(g, n, X, base, F) /\ g[n] = iter[1..n]
  BY <1>1, <1>2, <1>3, <1>10, Loop, SMTT(60)
<1>. QED  BY <1>5, <1>11 DEF n, X, base, F

ItemStep(conf, name) ==
    [k \in 1..Len(conf) |-> [items \in Seq(Word) |->
        IF conf[k].name = name THEN items \o conf[k].items ELSE items]]

LEMMA ItemSteps ==
    ASSUME NEW conf \in Seq(Section), NEW name
    PROVE  \E g : /\ IsLoop(g, Len(conf), Seq(Word), <<>>, ItemStep(conf, name))
                  /\ g[Len(conf)] = AllItems(conf, name)
<1>. DEFINE n == Len(conf)
            X == Seq(Word)
            base == <<>>
            F == ItemStep(conf, name)
            op(items, section) ==
                IF section.name = name THEN items \o section.items ELSE items
            Step(h) == [s \in SUBSET (1..n) |->
                          IF s = {} THEN base ELSE op(h[s \ {Max(s)}], conf[Max(s)])]
            iter == CHOOSE h : h = Step(h)
<1>1. n \in Nat /\ DOMAIN conf = 1..n /\ \A k \in 1..n : conf[k].items \in Seq(Word)
  <2>1. \A k \in 1..n : conf[k] \in Section
    OBVIOUS
  <2>2. \A section \in Section : section.items \in Seq(Word)
    BY DEF Section
  <2>. QED  BY <2>1, <2>2
<1>2. base \in X
  OBVIOUS
<1>3. F \in [1..n -> [X -> X]]
  <2>1. \A k \in 1..n, items \in X : op(items, conf[k]) \in X
    BY <1>1
  <2>. QED  BY <2>1 DEF ItemStep
<1>4. \A x \in X, k \in 1..n : F[k][x] = op(x, conf[k])
  BY DEF ItemStep
<1>5. AllItems(conf, name) = iter[1..n]
  BY <1>1 DEF AllItems, FoldLeft, MapThenFoldSet
<1>. HIDE DEF n, X, base, op, F
<1>6. \A s \in SUBSET (1..n) : s # {} => Max(s) \in 1..n /\ s \ {Max(s)} \in SUBSET (1..n)
  BY <1>1, Greatest
<1>7. PICK h : IsFold(h, n, X, base, F)
  BY <1>1, <1>2, <1>3, Exists
<1>8. h = Step(h)
  BY <1>4, <1>6, <1>7 DEF IsFold
<1>9. iter = Step(iter)
  <2>. HIDE DEF Step
  <2>. QED  BY <1>8
<1>. HIDE DEF iter
<1>10. Iterates(iter, n, X, base, F)
  BY <1>4, <1>6, <1>9 DEF Iterates
<1>11. \E g : IsLoop(g, n, X, base, F) /\ g[n] = iter[1..n]
  <2>1. n \in Nat
    BY <1>1
  <2>. QED  BY <2>1, <1>2, <1>3, <1>10, Loop
<1>. QED  BY <1>5, <1>11 DEF n, X, base, F

\* The loop that gathers what the sections of one name have.
IsGathering(h, conf, name) ==
    /\ IsLoop(h, Len(conf), Seq(Word), <<>>, ItemStep(conf, name))
    /\ h[Len(conf)] = AllItems(conf, name)

Gathering(conf, name) == CHOOSE h : IsGathering(h, conf, name)

LEMMA GatheringIs ==
    ASSUME NEW conf \in Seq(Section), NEW name
    PROVE  LET h == Gathering(conf, name)
               n == Len(conf)
           IN  /\ h[0] = <<>> /\ h[n] = AllItems(conf, name)
               /\ \A k \in 0..n : h[k] \in Seq(Word)
               /\ \A k \in 1..n :
                     h[k] = IF conf[k].name = name THEN h[k-1] \o conf[k].items ELSE h[k-1]
<1>. DEFINE h == Gathering(conf, name)
            n == Len(conf)
<1>1. \E g : IsGathering(g, conf, name)
  BY ItemSteps DEF IsGathering
<1>2. IsGathering(h, conf, name)
  BY <1>1 DEF Gathering
<1>. HIDE DEF h
<1>3. n \in Nat /\ \A k \in 1..n : k - 1 \in 0..n
  OBVIOUS
<1>4. /\ h \in [0..n -> Seq(Word)] /\ h[0] = <<>> /\ h[n] = AllItems(conf, name)
      /\ \A k \in 1..n : h[k] = ItemStep(conf, name)[k][h[k-1]]
  BY <1>2 DEF IsGathering, IsLoop
<1>5. \A k \in 1..n : h[k-1] \in Seq(Word)
  <2>. HIDE DEF n
  <2>. QED  BY <1>3, <1>4
<1>6. \A k \in 1..n :
         h[k] = IF conf[k].name = name THEN h[k-1] \o conf[k].items ELSE h[k-1]
  BY <1>4, <1>5 DEF ItemStep
<1>. QED  BY <1>4, <1>6 DEF h

\* Sections of one name are one in map, with the items of all of them.
IsNormal(map, conf) ==
    /\ map \in Seq(Section)
    /\ \A i, j \in 1..Len(map) : map[i].name = map[j].name => i = j
    /\ {map[i].name : i \in 1..Len(map)} = {conf[i].name : i \in 1..Len(conf)}
    /\ \A i \in 1..Len(map) : map[i].items = AllItems(conf, map[i].name)
    /\ \A name : (\A i \in 1..Len(map) : map[i].name # name)
                     => AllItems(conf, name) = <<>>

LEMMA NormalIs ==
    ASSUME NEW conf \in Seq(Section), normalize_json_multimap(conf).ok
    PROVE  IsNormal(normalize_json_multimap(conf).map, conf)
<1>. DEFINE n == Len(conf)
            H(name) == Gathering(conf, name)
            start == [ok |-> TRUE, map |-> <<>>]
<1>1. PICK g : /\ IsLoop(g, n, Accumulators, start, NormalStep(conf))
               /\ g[n] = normalize_json_multimap(conf)
  BY NormalSteps
<1>2. n \in Nat /\ \A k \in 1..n : conf[k] \in Section /\ k - 1 \in 0..n /\ k \in 0..n
  OBVIOUS
<1>3. /\ \A name : H(name)[0] = <<>> /\ H(name)[n] = AllItems(conf, name)
      /\ \A name : \A k \in 0..n : H(name)[k] \in Seq(Word)
      /\ \A name : \A k \in 1..n :
            H(name)[k] = IF conf[k].name = name THEN H(name)[k-1] \o conf[k].items
                                                ELSE H(name)[k-1]
  BY GatheringIs
<1>. HIDE DEF H
<1>4. /\ \A k \in 0..n : g[k] \in Accumulators
      /\ g[0] = start
      /\ \A k \in 1..n : g[k] = IF g[k-1].ok THEN Merge(g[k-1], conf[k]) ELSE g[k-1]
  <2>1. /\ g \in [0..n -> Accumulators] /\ g[0] = start
        /\ \A k \in 1..n : g[k] = NormalStep(conf)[k][g[k-1]]
    BY <1>1 DEF IsLoop
  <2>2. \A k \in 1..n : g[k-1] \in Accumulators
    <3>. HIDE DEF n
    <3>. QED  BY <1>2, <2>1
  <2>3. \A k \in 1..n : g[k] = IF g[k-1].ok THEN Merge(g[k-1], conf[k]) ELSE g[k-1]
    BY <2>1, <2>2 DEF NormalStep
  <2>. QED  BY <2>1, <2>3
<1>. DEFINE Unique(m) == \A i, j \in 1..Len(m) : m[i].name = m[j].name => i = j
            Names(m) == {m[i].name : i \in 1..Len(m)}
            All_(m, k) == \A i \in 1..Len(m) : m[i].items = H(m[i].name)[k]
            None_(m, k) == \A name : name \notin Names(m) => H(name)[k] = <<>>
            Good(k) == g[k].ok => /\ Unique(g[k].map)
                                  /\ Names(g[k].map) = {conf[i].name : i \in 1..k}
                                  /\ All_(g[k].map, k) /\ None_(g[k].map, k)
            G == {k \in 0..n : Good(k)}
<1>5. 0 \in G
  <2>1. g[0].map = <<>> /\ 1..0 = {} /\ Len(<<>>) = 0
    BY <1>4
  <2>2. Unique(<<>>) /\ Names(<<>>) = {} /\ All_(<<>>, 0) /\ None_(<<>>, 0)
    BY <1>3
  <2>3. {conf[i].name : i \in 1..0} = {}
    BY <2>1
  <2>. HIDE DEF Unique, Names, All_, None_
  <2>. QED  BY <1>2, <2>1, <2>2, <2>3
<1>6. ASSUME NEW k \in 1..n, k - 1 \in G, g[k].ok
      PROVE  /\ Unique(g[k].map)
             /\ Names(g[k].map) = {conf[i].name : i \in 1..k}
             /\ All_(g[k].map, k) /\ None_(g[k].map, k)
  <2>. DEFINE m == g[k-1].map
              section == conf[k]
              p == conf_find(section.name, m)
  <2>1. k - 1 \in 0..n /\ g[k-1] \in Accumulators /\ section \in Section
    BY <1>2, <1>4
  <2>2. g[k-1].ok /\ g[k] = Merge(g[k-1], section)
    BY <1>4, <1>6
  <2>3. /\ Unique(m) /\ Names(m) = {conf[i].name : i \in 1..(k-1)}
        /\ All_(m, k - 1) /\ None_(m, k - 1)
    BY <1>6, <2>2
  <2>4. m \in Seq(Section) /\ Len(m) \in Nat
    BY <2>1 DEF Accumulators
  <2>5. /\ p \in 0..Len(m)
        /\ p = 0 => \A i \in 1..Len(m) : m[i].name # section.name
        /\ p # 0 => m[p].name = section.name
    BY <2>4, FindIs
  <2>6. g[k].map = IF p = 0 THEN Append(m, section)
                   ELSE [m EXCEPT ![p] = [m[p] EXCEPT !.items = m[p].items \o section.items]]
    BY <1>6, <2>1, <2>2, MergeIs, ZenonT(60)
  <2>7. {conf[i].name : i \in 1..k} = {conf[i].name : i \in 1..(k-1)} \cup {section.name}
    <3>1. 1..k = 1..(k-1) \cup {k}
      BY <1>2
    <3>. QED  BY <3>1
  <2>8. \A name : H(name)[k] = IF section.name = name THEN H(name)[k-1] \o section.items
                                                      ELSE H(name)[k-1]
    BY <1>3
  <2>. HIDE DEF m, section, p, H, n
  <2>9. CASE p = 0
    <3>. DEFINE w == Append(m, section)
    <3>1. /\ Len(w) = Len(m) + 1 /\ w[Len(m) + 1] = section
          /\ \A i \in 1..Len(m) : w[i] = m[i]
          /\ 1..Len(w) = 1..Len(m) \cup {Len(m) + 1}
          /\ Len(m) + 1 \notin 1..Len(m)
      BY <2>1, <2>4
    <3>2. g[k].map = w
      BY <2>6, <2>9
    <3>. HIDE DEF w
    <3>3. section.name \notin Names(m)
      BY <2>5, <2>9
    <3>4. Unique(w)
      BY <2>3, <2>5, <2>9, <3>1
    <3>5. Names(w) = Names(m) \cup {section.name}
      BY <3>1
    <3>6. All_(w, k)
      <4>1. H(section.name)[k] = section.items
        <5>1. H(section.name)[k-1] = <<>>
          BY <2>3, <3>3
        <5>2. section.items \in Seq(Word)
          BY <2>1 DEF Section
        <5>3. \A s \in Seq(Word) : <<>> \o s = s
          OBVIOUS
        <5>. QED  BY <2>8, <5>1, <5>2, <5>3
      <4>2. \A i \in 1..Len(m) : w[i].items = H(w[i].name)[k]
        BY <2>3, <2>5, <2>8, <2>9, <3>1
      <4>. QED  BY <3>1, <4>1, <4>2
    <3>7. None_(w, k)
      BY <2>3, <2>8, <3>5
    <3>. HIDE DEF Unique, Names, All_, None_
    <3>. QED  BY <2>3, <2>7, <3>2, <3>4, <3>5, <3>6, <3>7
  <2>10. CASE p # 0
    <3>. DEFINE s == [m[p] EXCEPT !.items = m[p].items \o section.items]
                w == [m EXCEPT ![p] = s]
    <3>1. p \in 1..Len(m) /\ m[p] \in Section
      BY <2>4, <2>5, <2>10
    <3>2. s.name = m[p].name /\ s.items = m[p].items \o section.items
      BY <3>1 DEF Section
    <3>. HIDE DEF s
    <3>3. /\ Len(w) = Len(m) /\ w[p] = s
          /\ \A i \in 1..Len(m) : i # p => w[i] = m[i]
      BY <2>4, <3>1
    <3>4. g[k].map = w
      BY <2>6, <2>10 DEF s
    <3>. HIDE DEF w
    <3>5. \A i \in 1..Len(m) : w[i].name = m[i].name
      BY <3>2, <3>3
    <3>6. Unique(w) /\ Names(w) = Names(m)
      BY <2>3, <3>3, <3>5
    <3>7. section.name \in Names(m)
      BY <2>5, <2>10, <3>1
    <3>8. All_(w, k)
      <4>1. w[p].items = H(w[p].name)[k]
        BY <2>3, <2>5, <2>8, <2>10, <3>1, <3>2, <3>3, ZenonT(60)
      <4>2. ASSUME NEW i \in 1..Len(m), i # p  PROVE w[i].items = H(w[i].name)[k]
        <5>1. m[i].name # section.name
          BY <2>3, <2>5, <2>10, <3>1, <4>2
        <5>. QED  BY <2>3, <2>8, <3>3, <4>2, <5>1
      <4>. QED  BY <3>3, <4>1, <4>2
    <3>9. None_(w, k)
      BY <2>3, <2>8, <3>6, <3>7
    <3>. HIDE DEF Unique, Names, All_, None_
    <3>. QED  BY <2>3, <2>7, <3>4, <3>6, <3>7, <3>8, <3>9
  <2>. QED  BY <2>9, <2>10
<1>7. \A k \in 1..n : k - 1 \in G => k \in G
  <2>. HIDE DEF Unique, Names, All_, None_
  <2>. QED  BY <1>2, <1>6
<1>8. \A k \in 0..n : k \in G
  <2>. HIDE DEF G, n
  <2>. QED  BY <1>2, <1>5, <1>7, Along
<1>9. Good(n)
  <2>. HIDE DEF Good, n
  <2>1. n \in G
    BY <1>2, <1>8
  <2>. QED  BY <2>1
<1>10. g[n].map \in Seq(Section)
  BY <1>2, <1>4 DEF Accumulators
<1>11. \A name : H(name)[n] = AllItems(conf, name)
  BY <1>3
<1>. DEFINE map == normalize_json_multimap(conf).map
<1>12. map = g[n].map /\ g[n].ok
  BY <1>1
<1>. HIDE DEF map
<1>13. /\ Unique(map) /\ Names(map) = {conf[i].name : i \in 1..n}
       /\ All_(map, n) /\ None_(map, n)
  <2>. HIDE DEF Unique, Names, All_, None_
  <2>. QED  BY <1>9, <1>12
<1>14. \A i \in 1..Len(map) : map[i].items = AllItems(conf, map[i].name)
  BY <1>11, <1>13
<1>15. \A name : (\A i \in 1..Len(map) : map[i].name # name) => AllItems(conf, name) = <<>>
  BY <1>11, <1>13
<1>. HIDE DEF H, n
<1>. QED  BY <1>10, <1>12, <1>13, <1>14, <1>15 DEF map, n, IsNormal

-----------------------------------------------------------------------------
\* What a disk has.
IsDisk(d) ==
    /\ \A cfg \in DOMAIN d.files : d.files[cfg] \in Seq(Section)
    /\ \A file \in DOMAIN d.ini : d.ini[file] \in Word

\* What the ini files that can be found beside the configuration set it to.
Sets(cfg, inis, d) ==
    {d.ini[f] : f \in {f \in inis \cap DOMAIN d.ini : Beside(cfg, f)}}

\* The later list of ini files goes first.
LEMMA ValueIs ==
    ASSUME NEW cfg, NEW d, NEW inis \in Seq(Word), NEW late \in Seq(Word)
    PROVE  /\ VALUE(cfg, inis, d) \in
                IF Sets(cfg, Range(inis), d) # {} THEN Sets(cfg, Range(inis), d)
                                                   ELSE {Default}
           /\ Sets(cfg, Range(late), d) # {} =>
                VALUE(cfg, inis \o late, d) \in Sets(cfg, Range(late), d)
           /\ Sets(cfg, Range(late), d) = {} =>
                VALUE(cfg, inis \o late, d) = VALUE(cfg, inis, d)
<1>. DEFINE Sets_(f) == Beside(cfg, f) /\ f \in DOMAIN d.ini
            I(list) == {i \in 1..Len(list) : Sets_(list[i])}
            At(list) == IF I(list) # {} THEN Max(I(list)) ELSE 0
            n == Len(inis)
            both == inis \o late
<1>1. \A list : VALUE(cfg, list, d) = IF At(list) = 0 THEN Default ELSE d.ini[list[At(list)]]
  BY DEF VALUE, SelectLastInSeq
<1>2. ASSUME NEW list \in Seq(Word)
      PROVE  /\ I(list) # {} => /\ At(list) \in 1..Len(list) /\ At(list) # 0
                                /\ Sets_(list[At(list)])
                                /\ \A i \in 1..Len(list) : Sets_(list[i]) => i <= At(list)
             /\ I(list) = {} => At(list) = 0
             /\ Sets(cfg, Range(list), d) = {d.ini[list[i]] : i \in I(list)}
  <2>1. Len(list) \in Nat /\ I(list) \in SUBSET (1..Len(list))
    OBVIOUS
  <2>2. I(list) # {} => Max(I(list)) \in I(list) /\ \A y \in I(list) : y <= Max(I(list))
    <3>. HIDE DEF I
    <3>. QED  BY <2>1, Greatest
  <2>3. \A i \in 1..Len(list) : Sets_(list[i]) <=> i \in I(list)
    OBVIOUS
  <2>4. Sets(cfg, Range(list), d) = {d.ini[list[i]] : i \in I(list)}
    <3>1. {f \in Range(list) \cap DOMAIN d.ini : Beside(cfg, f)} = {list[i] : i \in I(list)}
      BY DEF Range
    <3>. QED  BY <3>1 DEF Sets
  <2>. HIDE DEF I, Sets_
  <2>. QED  BY <2>1, <2>2, <2>3, <2>4
<1>3. n \in Nat /\ Len(late) \in Nat /\ both \in Seq(Word) /\ Len(both) = n + Len(late)
      /\ (\A i \in 1..n : both[i] = inis[i])
      /\ \A i \in 1..Len(late) : both[n + i] = late[i] /\ n + i \in 1..Len(both)
  OBVIOUS
<1>4. \A i \in 1..Len(both) : i \in 1..n \/ (i - n \in 1..Len(late) /\ n + (i - n) = i)
  BY <1>3
<1>5. \A list : \A i : i \in I(list) <=> i \in 1..Len(list) /\ Sets_(list[i])
  OBVIOUS
<1>6. \A list \in Seq(Word) : (Sets(cfg, Range(list), d) # {}) <=> (I(list) # {})
  <2>. HIDE DEF I, Sets_, At
  <2>1. \A list \in Seq(Word) : Sets(cfg, Range(list), d) = {d.ini[list[i]] : i \in I(list)}
    BY <1>2
  <2>2. \A list : ({d.ini[list[i]] : i \in I(list)} # {}) <=> (I(list) # {})
    OBVIOUS
  <2>. QED  BY <2>1, <2>2
<1>. HIDE DEF I, Sets_, At, both
<1>7. VALUE(cfg, inis, d) \in
        IF Sets(cfg, Range(inis), d) # {} THEN Sets(cfg, Range(inis), d) ELSE {Default}
  <2>1. CASE I(inis) = {}
    BY <1>1, <1>2, <1>6, <2>1
  <2>2. CASE I(inis) # {}
    <3>1. At(inis) \in I(inis) /\ At(inis) # 0
      BY <1>2, <1>5, <2>2
    <3>2. Sets(cfg, Range(inis), d) = {d.ini[inis[i]] : i \in I(inis)}
      BY <1>2
    <3>. QED  BY <1>1, <3>1, <3>2
  <2>. QED  BY <2>1, <2>2
<1>8. ASSUME Sets(cfg, Range(late), d) # {}
      PROVE  VALUE(cfg, both, d) \in Sets(cfg, Range(late), d)
  <2>1. PICK i \in 1..Len(late) : Sets_(late[i])
    BY <1>5, <1>6, <1>8
  <2>2. I(both) # {} /\ n + i <= At(both) /\ At(both) \in 1..Len(both) /\ Sets_(both[At(both)])
        /\ At(both) # 0
    BY <1>2, <1>3, <1>5, <2>1
  <2>3. At(both) - n \in 1..Len(late) /\ n + (At(both) - n) = At(both)
    BY <1>3, <2>1, <2>2
  <2>4. both[At(both)] = late[At(both) - n]
    BY <1>3, <2>3
  <2>5. At(both) - n \in I(late)
    BY <1>5, <2>2, <2>3, <2>4
  <2>6. Sets(cfg, Range(late), d) = {d.ini[late[j]] : j \in I(late)}
    BY <1>2
  <2>. QED  BY <1>1, <2>2, <2>4, <2>5, <2>6
<1>9. ASSUME Sets(cfg, Range(late), d) = {}
      PROVE  VALUE(cfg, both, d) = VALUE(cfg, inis, d)
  <2>1. I(late) = {}
    BY <1>6, <1>9
  <2>2. \A i : i \in I(both) <=> i \in I(inis)
    <3>1. ASSUME NEW i \in I(both)  PROVE i \in I(inis)
      <4>1. i \in 1..Len(both) /\ Sets_(both[i])
        BY <1>5
      <4>2. i \in 1..n
        <5>1. CASE i - n \in 1..Len(late) /\ n + (i - n) = i
          <6>1. Sets_(late[i - n])
            BY <1>3, <4>1, <5>1
          <6>. QED  BY <1>5, <2>1, <5>1, <6>1
        <5>. QED  BY <1>4, <4>1, <5>1
      <4>. QED  BY <1>3, <1>5, <4>1, <4>2
    <3>2. ASSUME NEW i \in I(inis)  PROVE i \in I(both)
      <4>1. i \in 1..n /\ Sets_(inis[i])
        BY <1>5
      <4>2. i \in 1..Len(both)
        BY <1>3, <4>1
      <4>. QED  BY <1>3, <1>5, <4>1, <4>2
    <3>. QED  BY <3>1, <3>2
  <2>3. I(both) = I(inis)
    BY <2>2
  <2>4. At(both) = At(inis)
    BY <2>3 DEF At
  <2>5. CASE I(inis) = {}
    BY <1>1, <1>2, <2>4, <2>5
  <2>6. CASE I(inis) # {}
    <3>1. At(inis) \in 1..n
      BY <1>2, <2>6
    <3>. QED  BY <1>1, <1>3, <2>4, <3>1
  <2>. QED  BY <2>5, <2>6
<1>. QED  BY <1>7, <1>8, <1>9 DEF both

LEMMA ValueType ==
    ASSUME NEW cfg, NEW d, IsDisk(d), NEW inis \in Seq(Word)
    PROVE  VALUE(cfg, inis, d) \in Word
<1>1. Default \in Word
  BY CommandLineAssumption DEF Word
<1>2. \A f \in DOMAIN d.ini : d.ini[f] \in Word
  BY DEF IsDisk
<1>3. Sets(cfg, Range(inis), d) \subseteq Word
  BY <1>2 DEF Sets
<1>4. VALUE(cfg, inis, d) \in Sets(cfg, Range(inis), d) \cup {Default}
  <2>1. <<>> \in Seq(Word)
    OBVIOUS
  <2>2. VALUE(cfg, inis, d) \in
           IF Sets(cfg, Range(inis), d) # {} THEN Sets(cfg, Range(inis), d) ELSE {Default}
    BY <2>1, ValueIs
  <2>. QED  BY <2>2
<1>. QED  BY <1>1, <1>3, <1>4

\* What is read from a file differs from it in its variables.
IsReading(new, conf, cfg, inis, d) ==
    /\ conf \in Seq(Section) /\ new \in Seq(Section) /\ Len(new) = Len(conf)
    /\ \A k \in 1..Len(conf) :
          /\ new[k].name = conf[k].name
          /\ new[k].items = [j \in DOMAIN conf[k].items |->
                               Resolved(conf[k].items[j], cfg, inis, d)]

LEMMA FileIs ==
    ASSUME NEW d, IsDisk(d), NEW cfg \in DOMAIN d.files, NEW inis \in Seq(Word)
    PROVE  IsReading(parse_file(cfg, inis, d), d.files[cfg], cfg, inis, d)
<1>. DEFINE conf == d.files[cfg]
            Value(item) == Resolved(item, cfg, inis, d)
            Of(section) == [section EXCEPT !.items = [j \in DOMAIN section.items |->
                                                        Value(section.items[j])]]
            new == [k \in DOMAIN conf |-> Of(conf[k])]
<1>1. conf \in Seq(Section) /\ parse_file(cfg, inis, d) = new
  BY DEF IsDisk, parse_file
<1>2. \A item \in Word : Value(item) \in Word
  BY ValueType DEF Resolved
<1>. HIDE DEF conf, Value
<1>3. ASSUME NEW section \in Section
      PROVE  /\ Of(section) \in Section /\ Of(section).name = section.name
             /\ Of(section).items = [j \in DOMAIN section.items |-> Value(section.items[j])]
  <2>. DEFINE items == [j \in DOMAIN section.items |-> Value(section.items[j])]
  <2>1. section.items \in Seq(Word)
    BY DEF Section
  <2>2. items \in Seq(Word)
    <3>1. Len(section.items) \in Nat /\ DOMAIN section.items = 1..Len(section.items)
          /\ \A j \in DOMAIN section.items : section.items[j] \in Word
      BY <2>1
    <3>2. items \in [1..Len(section.items) -> Word]
      BY <1>2, <3>1
    <3>. HIDE DEF items
    <3>. QED  BY <3>1, <3>2
  <2>. HIDE DEF items
  <2>3. [section EXCEPT !.items = items] \in Section
    BY <2>2 DEF Section
  <2>4. [section EXCEPT !.items = items].name = section.name
        /\ [section EXCEPT !.items = items].items = items
    BY DEF Section
  <2>. QED  BY <2>3, <2>4 DEF items
<1>4. Len(conf) \in Nat /\ DOMAIN conf = 1..Len(conf) /\ \A k \in 1..Len(conf) : conf[k] \in Section
  BY <1>1
<1>. HIDE DEF Of
<1>5. new \in [1..Len(conf) -> Section]
  BY <1>3, <1>4
<1>6. \A k \in 1..Len(conf) : new[k] = Of(conf[k])
  BY <1>4
<1>. HIDE DEF new
<1>7. new \in Seq(Section) /\ Len(new) = Len(conf)
  BY <1>4, <1>5
<1>8. \A k \in 1..Len(conf) :
         /\ new[k].name = conf[k].name
         /\ new[k].items = [j \in DOMAIN conf[k].items |-> Value(conf[k].items[j])]
  BY <1>3, <1>4, <1>6
<1>. QED  BY <1>1, <1>7, <1>8 DEF conf, Value, IsReading

\* ... and so do the items that sections of one name have.
IsResolved(new, old, cfg, inis, d) ==
    /\ old \in Seq(Word) /\ new \in Seq(Word) /\ Len(new) = Len(old)
    /\ \A i \in 1..Len(old) : new[i] = Resolved(old[i], cfg, inis, d)

LEMMA ItemsResolved ==
    ASSUME NEW d, IsDisk(d), NEW cfg \in DOMAIN d.files, NEW inis \in Seq(Word), NEW name
    PROVE  IsResolved(AllItems(parse_file(cfg, inis, d), name),
                      AllItems(d.files[cfg], name), cfg, inis, d)
<1>. DEFINE conf == d.files[cfg]
            file == parse_file(cfg, inis, d)
            Value(item) == Resolved(item, cfg, inis, d)
            n == Len(conf)
            g == Gathering(conf, name)
            h == Gathering(file, name)
<1>1. /\ conf \in Seq(Section) /\ file \in Seq(Section) /\ Len(file) = n
      /\ \A k \in 1..n :
            /\ file[k].name = conf[k].name
            /\ file[k].items = [j \in DOMAIN conf[k].items |-> Value(conf[k].items[j])]
  BY FileIs DEF IsReading
<1>. HIDE DEF conf, file, Value
<1>2. n \in Nat /\ \A k \in 1..n : k - 1 \in 0..n /\ k \in 0..n
                                   /\ conf[k] \in Section /\ file[k] \in Section
  BY <1>1
<1>3. /\ g[0] = <<>> /\ g[n] = AllItems(conf, name)
      /\ \A k \in 0..n : g[k] \in Seq(Word)
      /\ \A k \in 1..n :
            g[k] = IF conf[k].name = name THEN g[k-1] \o conf[k].items ELSE g[k-1]
  BY <1>1, GatheringIs
<1>4. /\ h[0] = <<>> /\ h[n] = AllItems(file, name)
      /\ \A k \in 0..n : h[k] \in Seq(Word)
      /\ \A k \in 1..n :
            h[k] = IF file[k].name = name THEN h[k-1] \o file[k].items ELSE h[k-1]
  <2>. HIDE DEF n
  <2>1. /\ h[0] = <<>> /\ h[Len(file)] = AllItems(file, name)
        /\ \A k \in 0..Len(file) : h[k] \in Seq(Word)
        /\ \A k \in 1..Len(file) :
              h[k] = IF file[k].name = name THEN h[k-1] \o file[k].items ELSE h[k-1]
    <3>1. file \in Seq(Section)
      BY <1>1
    <3>. QED  BY <3>1, GatheringIs
  <2>. QED  BY <1>1, <2>1
<1>. DEFINE Alike(a, b) == Len(a) = Len(b) /\ \A i \in 1..Len(b) : a[i] = Value(b[i])
            G == {k \in 0..n : Alike(h[k], g[k])}
<1>. HIDE DEF g, h
<1>5. 0 \in G
  BY <1>2, <1>3, <1>4
<1>6. ASSUME NEW k \in 1..n, k - 1 \in G  PROVE k \in G
  <2>. DEFINE a == h[k-1]
              b == g[k-1]
              x == file[k].items
              y == conf[k].items
  <2>1. Alike(a, b) /\ a \in Seq(Word) /\ b \in Seq(Word)
    BY <1>2, <1>3, <1>4, <1>6
  <2>2. x \in Seq(Word) /\ y \in Seq(Word) /\ x = [j \in DOMAIN y |-> Value(y[j])]
    <3>1. x = [j \in DOMAIN y |-> Value(y[j])]
      BY <1>1
    <3>2. \A section \in Section : section.items \in Seq(Word)
      BY DEF Section
    <3>. HIDE DEF n
    <3>. QED  BY <1>2, <3>1, <3>2
  <2>3. Alike(x, y)
    <3>. HIDE DEF x, y
    <3>1. Len(x) \in Nat /\ Len(y) \in Nat /\ DOMAIN x = 1..Len(x) /\ DOMAIN y = 1..Len(y)
      BY <2>2
    <3>2. DOMAIN x = DOMAIN y /\ \A j \in DOMAIN y : x[j] = Value(y[j])
      BY <2>2
    <3>3. Len(x) = Len(y)
      <4>1. \A m \in Nat, l \in Nat : 1..m = 1..l => m = l
        <5>. TAKE m \in Nat, l \in Nat
        <5>. HAVE 1..m = 1..l
        <5>1. m > 0 => m \in 1..l
          OBVIOUS
        <5>2. l > 0 => l \in 1..m
          OBVIOUS
        <5>. QED  BY <5>1, <5>2
      <4>. QED  BY <3>1, <3>2, <4>1
    <3>. QED  BY <3>1, <3>2, <3>3
  <2>. HIDE DEF x, y
  <2>4. Alike(a \o x, b \o y)
    <3>. HIDE DEF a, b
    <3>1. Len(a) \in Nat /\ Len(x) \in Nat /\ Len(a) = Len(b) /\ Len(x) = Len(y)
      BY <2>1, <2>2, <2>3
    <3>2. /\ Len(a \o x) = Len(a) + Len(x) /\ Len(b \o y) = Len(a) + Len(x)
          /\ \A i \in 1..(Len(a) + Len(x)) :
                /\ (a \o x)[i] = IF i <= Len(a) THEN a[i] ELSE x[i - Len(a)]
                /\ (b \o y)[i] = IF i <= Len(a) THEN b[i] ELSE y[i - Len(a)]
      <4>1. \A s, t \in Seq(Word) :
               /\ Len(s \o t) = Len(s) + Len(t)
               /\ \A i \in 1..(Len(s) + Len(t)) :
                     (s \o t)[i] = IF i <= Len(s) THEN s[i] ELSE t[i - Len(s)]
        OBVIOUS
      <4>2. a \in Seq(Word) /\ b \in Seq(Word) /\ x \in Seq(Word) /\ y \in Seq(Word)
        BY <2>1, <2>2
      <4>3. /\ Len(a \o x) = Len(a) + Len(x)
            /\ \A i \in 1..(Len(a) + Len(x)) :
                  (a \o x)[i] = IF i <= Len(a) THEN a[i] ELSE x[i - Len(a)]
        BY <4>1, <4>2
      <4>4. /\ Len(b \o y) = Len(b) + Len(y)
            /\ \A i \in 1..(Len(b) + Len(y)) :
                  (b \o y)[i] = IF i <= Len(b) THEN b[i] ELSE y[i - Len(b)]
        BY <4>1, <4>2
      <4>. QED  BY <3>1, <4>3, <4>4
    <3>3. \A i \in 1..(Len(a) + Len(x)) :
             IF i <= Len(a) THEN i \in 1..Len(b) ELSE i - Len(a) \in 1..Len(y)
      BY <3>1
    <3>. QED  BY <2>1, <2>3, <3>1, <3>2, <3>3
  <2>5. \/ h[k] = a \o x /\ g[k] = b \o y
        \/ h[k] = a /\ g[k] = b
    BY <1>1, <1>3, <1>4 DEF x, y
  <2>. HIDE DEF Alike
  <2>. QED  BY <1>2, <2>1, <2>4, <2>5
<1>7. \A k \in 0..n : k \in G
  <2>. HIDE DEF G, n
  <2>. QED  BY <1>2, <1>5, <1>6, Along
<1>8. Alike(h[n], g[n]) /\ g[n] \in Seq(Word) /\ h[n] \in Seq(Word)
  BY <1>2, <1>3, <1>4, <1>7
<1>. HIDE DEF n
<1>. QED  BY <1>3, <1>4, <1>8 DEF conf, file, Value, IsResolved

\* The names of a list of sections.
NamesIn(list) == {list[i].name : i \in 1..Len(list)}

\* What a configuration is once it is loaded: the sections of the file, joined,
\* with the values of the ini files that it asks for and of those that are given.
LEMMA LoadIs ==
    ASSUME NEW d, IsDisk(d), NEW cfg, NEW given \in Seq(Word), load(cfg, given, d).ok
    PROVE  LET map == load(cfg, given, d).map
               conf == d.files[cfg]
           IN  /\ cfg \in DOMAIN d.files /\ conf \in Seq(Section) /\ map \in Seq(Section)
               /\ \A i, j \in 1..Len(map) : map[i].name = map[j].name => i = j
               /\ NamesIn(map) = NamesIn(conf)
               /\ \E own \in Seq(Word) :
                     /\ Range(own) = {Resolved(f, cfg, given, d) :
                                        f \in Range(AllItems(conf, <<"config">>))}
                     /\ \A i \in 1..Len(map) :
                           IsResolved(map[i].items, AllItems(conf, map[i].name),
                                      cfg, own \o given, d)
<1>. DEFINE conf == d.files[cfg]
            file1 == parse_file(cfg, given, d)
            first == parse_configure_(file1)
            p == conf_find(<<"config">>, first.map)
            own == IF p = 0 THEN <<>> ELSE first.map[p].items
            file2 == parse_file(cfg, own \o given, d)
            map == load(cfg, given, d).map
            cname == <<"config">>
<1>1. cfg \in DOMAIN d.files
  BY DEF load, Invalid
<1>2. first.ok /\ load(cfg, given, d) = parse_configure_(file2)
  <2>1. load(cfg, given, d) = IF ~first.ok THEN Invalid ELSE parse_configure_(file2)
    BY <1>1 DEF load, IniOrder
  <2>. HIDE DEF first, file2
  <2>. QED  BY <2>1 DEF Invalid
<1>3. \A c : parse_configure_(c).ok =>
         parse_configure_(c) = normalize_json_multimap(c)
  BY DEF parse_configure_, Invalid
<1>4. IsReading(file1, conf, cfg, given, d)
  BY <1>1, FileIs
<1>. HIDE DEF file1, conf
<1>5. first = normalize_json_multimap(file1) /\ first.ok
  BY <1>2, <1>3
<1>. HIDE DEF first
<1>6. IsNormal(first.map, file1)
  BY <1>4, <1>5, NormalIs DEF IsReading
<1>7. IsResolved(AllItems(file1, cname), AllItems(conf, cname), cfg, given, d)
  BY <1>1, ItemsResolved DEF conf, file1
<1>8. own = AllItems(file1, cname)
  <2>1. /\ p \in 0..Len(first.map)
        /\ p = 0 => \A i \in 1..Len(first.map) : first.map[i].name # cname
        /\ p # 0 => first.map[p].name = cname
    BY <1>6, FindIs DEF IsNormal
  <2>2. Len(first.map) \in Nat
    BY <1>6 DEF IsNormal
  <2>. HIDE DEF p
  <2>3. p # 0 => p \in 1..Len(first.map)
    BY <2>1, <2>2
  <2>. QED  BY <1>6, <2>1, <2>3 DEF IsNormal
<1>. HIDE DEF own, cname
<1>9. own \in Seq(Word) /\ Range(own) = {Resolved(f, cfg, given, d) :
                                           f \in Range(AllItems(conf, cname))}
  <2>. DEFINE a == AllItems(conf, cname)
  <2>1. /\ a \in Seq(Word) /\ own \in Seq(Word) /\ Len(own) = Len(a)
        /\ \A i \in 1..Len(a) : own[i] = Resolved(a[i], cfg, given, d)
    BY <1>7, <1>8 DEF IsResolved
  <2>. HIDE DEF a
  <2>2. DOMAIN own = 1..Len(a) /\ DOMAIN a = 1..Len(a)
    BY <2>1
  <2>3. Range(own) = {Resolved(f, cfg, given, d) : f \in Range(a)}
    BY <2>1, <2>2 DEF Range
  <2>. QED  BY <2>1, <2>3 DEF a
<1>10. own \o given \in Seq(Word)
  BY <1>9
<1>11. IsReading(file2, conf, cfg, own \o given, d)
  BY <1>1, <1>10, FileIs DEF conf
<1>12. \A name : IsResolved(AllItems(file2, name), AllItems(conf, name),
                            cfg, own \o given, d)
  BY <1>1, <1>10, ItemsResolved DEF conf
<1>. HIDE DEF file2
<1>13. normalize_json_multimap(file2).ok /\ map = normalize_json_multimap(file2).map
  BY <1>2, <1>3
<1>14. IsNormal(map, file2)
  BY <1>11, <1>13, NormalIs DEF IsReading
<1>15. {file2[i].name : i \in 1..Len(file2)} = {conf[i].name : i \in 1..Len(conf)}
  BY <1>11, ZenonT(60) DEF IsReading
<1>. HIDE DEF map
<1>16. \A i \in 1..Len(map) : IsResolved(map[i].items, AllItems(conf, map[i].name),
                                          cfg, own \o given, d)
  BY <1>12, <1>14 DEF IsNormal
<1>17. NamesIn(map) = NamesIn(conf)
  BY <1>14, <1>15 DEF IsNormal, NamesIn
<1>. QED  BY <1>1, <1>4, <1>9, <1>14, <1>16, <1>17 DEF map, conf, cname, IsNormal, IsReading

-----------------------------------------------------------------------------
\* A command is taken if none that goes before it is asked for.
LEMMA DispatchedIs ==
    ASSUME NEW k \in 1..11, Dispatched(Commands[k]), Commands[k] # None
    PROVE  \A i \in 1..(k-1) : ~Asked(Commands[i])
<1>. DEFINE I == {i \in 1..Len(Commands) : Asked(Commands[i])}
            first == IF I # {} THEN Min(I) ELSE 0
<1>1. Len(Commands) = 11
  BY DEF Commands
<1>2. Commands[k] = IF first = 0 THEN None ELSE Commands[first]
  BY DEF Dispatched, SelectInSeq
<1>3. I \in SUBSET (1..11) /\ \A i \in 1..11 : Asked(Commands[i]) => i \in I
  BY <1>1
<1>4. I # {} => first \in I /\ \A i \in I : first <= i
  <2>1. I \in SUBSET Nat
    BY <1>3
  <2>2. I # {} => Min(I) \in I /\ \A i \in I : Min(I) <= i
    <3>. HIDE DEF I
    <3>. QED  BY <2>1, MinIs
  <2>. QED  BY <2>2
<1>5. first # 0 /\ first \in I
  <2>1. first # 0
    <3>. HIDE DEF first
    <3>. QED  BY <1>2
  <2>. QED  BY <1>4, <2>1
<1>. HIDE DEF I, first
<1>6. first \in 1..11 /\ Commands[k] = Commands[first]
  BY <1>2, <1>3, <1>5
<1>7. first = k
  <2>1. \A i, j \in 1..11 : Commands[i] = Commands[j] => i = j
    BY DEF Commands
  <2>. QED  BY <1>6, <2>1
<1>. QED  BY <1>3, <1>4, <1>5, <1>7

LEMMA StartIsLast == ASSUME Dispatched("start")  PROVE \A i \in 1..10 : ~Asked(Commands[i])
<1>1. 11 \in 1..11 /\ 11 - 1 = 10 /\ Commands[11] = "start"
  BY DEF Commands
<1>2. "start" # None
  BY CommandLineAssumption
<1>. QED  BY <1>1, <1>2, DispatchedIs

\* What is generated was parsed.
LEMMA GenerateIsLate == ASSUME Dispatched("generate")  PROVE ~pa.errorstring
<1>1. 8 \in 1..11 /\ 1 \in 1..(8-1) /\ Commands[8] = "generate" /\ Commands[1] = "error"
  BY DEF Commands
<1>2. "generate" # None
  BY CommandLineAssumption
<1>3. ~Asked("error")
  BY <1>1, <1>2, DispatchedIs
<1>. QED  BY <1>3 DEF Asked

-----------------------------------------------------------------------------
PaOf(a, file, error, usage, name, generate, objects) ==
    [flags |-> a.flags, check_config |-> a.check_config,
     print_config |-> a.print_config, config_path |-> file,
     errorstring |-> error, usage |-> usage, instance_name |-> name,
     generate_options |-> generate, object_options |-> objects]

\* What the texts are parsed into leaves the commands as they were given, and
\* arguments that are wrong are known to be so before anything is dispatched.
PaInv ==
    \E file, error, usage, name, generate, objects :
        /\ pa = PaOf(argv, file, error, usage, name, generate, objects)
        /\ stage # "parse" =>
              /\ argv.wrong => error
              /\ ~error => /\ generate = parse_generate(argv.generate)
                           /\ objects = parse_custom_options(argv.object_options)

\* A configuration is there only once a command has loaded it.
SettingsInv ==
    /\ stage # "done" => settings = Invalid
    /\ settings.ok =>
          \E given \in Seq(Word) :
             /\ settings = load(Path, given, disk)
             /\ command = "start" => given = argv.ini_list \o argv.startup_ini_list

\* The inductive invariant of CommandLine.
CommandInv ==
    /\ stage \in {"parse", "find", "dispatch", "done"}
    /\ \E c \in Cases : argv = c.argv /\ disk = c.disk
    /\ PaInv
    /\ stage # "done" => ~ready /\ command = None
    /\ SettingsInv
    /\ StartsOnlyAlone
    /\ GeneratesWhole

\* What the command lines and files are.
LEMMA WorldIs ==
    ASSUME CommandInv
    PROVE  /\ IsDisk(disk)
           /\ argv.generate \in Seq(Text) /\ argv.object_options \in Seq(Text)
           /\ argv.ini_list \in Seq(Word) /\ argv.startup_ini_list \in Seq(Word)
           /\ argv.flags \subseteq {"help", "version", "info", "module-list",
                                    "component-list", "generate"}
           /\ argv.broken \subseteq 6..9
<1>1. PICK c \in Cases : argv = c.argv /\ disk = c.disk
  BY DEF CommandInv
<1>. QED  BY <1>1, CommandLineAssumption DEF IsDisk, Section, Text, Word

\* Before the arguments are parsed nothing is ready, generated or loaded.
LEMMA InitCommandInv == CommandInit => CommandInv
<1>. SUFFICES ASSUME CommandInit  PROVE CommandInv
  OBVIOUS
<1>. USE DEF CommandInit
<1>1. PaInv
  <2>1. pa = PaOf(argv, argv.config_path, FALSE, argv.usage, argv.instance_name,
                  Nothing, Nothing)
    BY DEF Stored, PaOf
  <2>. QED  BY <2>1 DEF PaInv
<1>2. SettingsInv
  BY DEF SettingsInv, Invalid
<1>3. StartsOnlyAlone /\ GeneratesWhole
  BY CommandLineAssumption DEF StartsOnlyAlone, GeneratesWhole
<1>. QED  BY <1>1, <1>2, <1>3 DEF CommandInv

\* Parsing and looking for the configuration.
LEMMA ParseSteps ==
    ASSUME CommandInv, Parse \/ FindConfig
    PROVE  CommandInv'
<1>1. /\ UNCHANGED <<argv, disk, ready, command, settings, code, shown, written>>
      /\ stage \in {"parse", "find"} /\ stage' \in {"find", "dispatch"}
  BY DEF Parse, FindConfig, world, result
<1>2. ~ready /\ command = None /\ settings = Invalid
  BY <1>1 DEF CommandInv, SettingsInv
<1>3. PICK file, error, usage, name, generate, objects :
         /\ pa = PaOf(argv, file, error, usage, name, generate, objects)
         /\ stage # "parse" =>
               /\ argv.wrong => error
               /\ ~error => /\ generate = parse_generate(argv.generate)
                            /\ objects = parse_custom_options(argv.object_options)
  BY DEF CommandInv, PaInv
<1>4. PaInv'
  <2>1. CASE Parse /\ (argv.wrong \/ argv.autoup_timeout = Bad)
    <3>1. pa' = [pa EXCEPT !.errorstring = TRUE]
      BY <2>1 DEF Parse
    <3>2. pa' = PaOf(argv, file, TRUE, usage, name, generate, objects)
      BY <1>3, <3>1 DEF PaOf
    <3>. QED  BY <1>1, <3>2 DEF PaInv
  <2>2. CASE Parse /\ ~(argv.wrong \/ argv.autoup_timeout = Bad)
    <3>1. pa' = [pa EXCEPT !.generate_options = parse_generate(argv.generate),
                           !.object_options = parse_custom_options(argv.object_options),
                           !.instance_name = InstanceName]
      BY <2>2 DEF Parse
    <3>2. pa' = PaOf(argv, file, error, usage, InstanceName, parse_generate(argv.generate),
                     parse_custom_options(argv.object_options))
      BY <1>3, <3>1 DEF PaOf
    <3>. QED  BY <1>1, <2>2, <3>2 DEF PaInv
  <2>3. CASE FindConfig
    <3>1. PICK p, u : pa' = [pa EXCEPT !.config_path = p, !.usage = u]
      BY <2>3 DEF FindConfig
    <3>2. pa' = PaOf(argv, p, error, u, name, generate, objects)
      BY <1>3, <3>1 DEF PaOf
    <3>3. stage # "parse"
      BY <2>3 DEF FindConfig
    <3>. QED  BY <1>1, <1>3, <3>2, <3>3 DEF PaInv
  <2>. QED  BY <2>1, <2>2, <2>3
<1>5. SettingsInv'
  BY <1>1, <1>2 DEF SettingsInv, Invalid
<1>6. StartsOnlyAlone' /\ GeneratesWhole'
  BY <1>1, <1>2, CommandLineAssumption DEF StartsOnlyAlone, GeneratesWhole
<1>. QED  BY <1>1, <1>2, <1>4, <1>5, <1>6 DEF CommandInv

\* A command that gets nothing ready, and what it leaves to show.
LEMMA ReturnStep ==
    ASSUME CommandInv, NEW c, NEW n, Return(c, n), UNCHANGED ready,
           SettingsInv', GeneratesWhole'
    PROVE  CommandInv'
<1>1. /\ UNCHANGED <<argv, disk, pa, ready>> /\ ~ready
      /\ stage = "dispatch" /\ stage' = "done"
  BY DEF CommandInv, Return, Dispatched, world
<1>2. PaInv'
  BY <1>1 DEF CommandInv, PaInv
<1>. QED  BY <1>1, <1>2 DEF CommandInv, StartsOnlyAlone

LEMMA ShowSteps ==
    ASSUME CommandInv, ShowError \/ Show \/ Help \/ Info
    PROVE  CommandInv'
<1>1. PICK c, n : Return(c, n) /\ UNCHANGED <<ready, settings>> /\ c # "generate"
  BY CommandLineAssumption DEF ShowError, Show, Help, Info
<1>2. settings' = Invalid /\ stage' = "done" /\ command' # "generate"
  BY <1>1 DEF CommandInv, SettingsInv, Return, Dispatched
<1>3. SettingsInv' /\ GeneratesWhole'
  BY <1>2 DEF SettingsInv, GeneratesWhole, Invalid
<1>. QED  BY <1>1, <1>3, ReturnStep

\* The names in a list of what there is by name.
LEMMA NamesOf ==
    ASSUME NEW S, NEW f  PROVE {x[1] : x \in {<<c, f[c]>> : c \in S}} = S
<1>. DEFINE P == {<<c, f[c]>> : c \in S}
<1>1. \A x \in P : x[1] \in S
  OBVIOUS
<1>2. \A c \in S : <<c, f[c]>> \in P /\ <<c, f[c]>>[1] = c
  OBVIOUS
<1>. HIDE DEF P
<1>3. \A c \in S : \E x \in P : c = x[1]
  <2>. TAKE c \in S
  <2>1. <<c, f[c]>> \in P /\ c = <<c, f[c]>>[1]
    BY <1>2
  <2>. QED  BY <2>1
<1>4. \A y : y \in {x[1] : x \in P} <=> y \in S
  BY <1>1, <1>3
<1>5. {x[1] : x \in P} = S
  BY <1>4
<1>. QED  BY <1>5 DEF P

\* Each component gets what comes behind the last text that names it.
LEMMA GenerateOf ==
    ASSUME CommandInv, Generate
    PROVE  GeneratesWhole'
<1>. DEFINE texts == argv.generate
            parsed == parse_generate(texts)
            go == Generated(parsed)
<1>1. /\ argv' = argv /\ ~pa.errorstring /\ stage # "parse"
      /\ pa.generate_options = parsed
  <2>1. Dispatched("generate") /\ argv' = argv
    BY DEF Generate, Return, world
  <2>2. ~pa.errorstring /\ stage # "parse"
    BY <2>1, GenerateIsLate DEF Dispatched
  <2>. QED  BY <2>1, <2>2 DEF CommandInv, PaInv, PaOf
<1>2. /\ code' = IF DOMAIN go \subseteq Component THEN 0 ELSE 3
      /\ shown' = IF DOMAIN go \subseteq Component
                    THEN {<<c, go[c]>> : c \in DOMAIN go} ELSE {}
      /\ written' = Target(go)
  BY <1>1 DEF Generate, Return
<1>3. /\ DOMAIN parsed = {ObjectOf(t) : t \in Range(texts)}
      /\ \A c \in DOMAIN parsed : \E i \in 1..Len(texts) :
            /\ ObjectOf(texts[i]) = c
            /\ parsed[c] = SubSeq(texts[i], Len(c) + 2, Len(texts[i]))
            /\ \A j \in 1..Len(texts) : ObjectOf(texts[j]) = c => j <= i
  BY WorldIs, GenerateIs
<1>4. \A c \in DOMAIN parsed : parsed[c] = LastText(c)
  <2>. TAKE c \in DOMAIN parsed
  <2>1. PICK i \in 1..Len(texts) :
           /\ ObjectOf(texts[i]) = c
           /\ parsed[c] = SubSeq(texts[i], Len(c) + 2, Len(texts[i]))
           /\ \A j \in 1..Len(texts) : ObjectOf(texts[j]) = c => j <= i
    BY <1>3
  <2>2. LastText(c) = SubSeq(texts[i], Len(c) + 2, Len(texts[i]))
    BY <2>1, WorldIs, LastTextIs
  <2>. QED  BY <2>1, <2>2
<1>5. \A c : c \notin DOMAIN parsed => LastText(c) = Nothing
  <2>1. texts \in Seq(Text)
    BY WorldIs
  <2>2. \A i \in 1..Len(texts) : ObjectOf(texts[i]) \in DOMAIN parsed
    <3>. HIDE DEF texts, parsed
    <3>1. \A i \in 1..Len(texts) : texts[i] \in Range(texts)
      BY <2>1 DEF Range
    <3>. QED  BY <1>3, <3>1
  <2>. QED  BY <2>1, <2>2, LastTextIs
<1>6. \A c : LastText(c)' = LastText(c)
  BY <1>1 DEF LastText, SelectLastInSeq
<1>. HIDE DEF texts, parsed
<1>7. CASE ~(DOMAIN go \subseteq Component)
  BY <1>2, <1>7 DEF GeneratesWhole, Target
<1>8. CASE DOMAIN go \subseteq Component /\ DOMAIN parsed \subseteq {All}
  <2>1. go = [c \in Component |-> LastText(All)]
    BY <1>4, <1>5, <1>8 DEF Generated
  <2>2. code' = 0 /\ shown' = {<<c, LastText(All)>> : c \in Component}
    BY <1>2, <1>8, <2>1
  <2>3. {x[1] : x \in shown'} = Component
    <3>1. shown' = {<<c, go[c]>> : c \in Component}
      BY <1>2, <1>8, <2>1
    <3>. HIDE DEF go
    <3>. QED  BY <3>1, NamesOf
  <2>4. \A x \in shown' : x[2] = LastText(All)
    BY <2>2
  <2>. QED  BY <1>6, <2>2, <2>3, <2>4 DEF GeneratesWhole
<1>9. CASE DOMAIN go \subseteq Component /\ ~(DOMAIN parsed \subseteq {All})
  <2>1. go = parsed
    BY <1>9 DEF Generated
  <2>2. code' = 0 /\ shown' = {<<c, LastText(c)>> : c \in DOMAIN parsed}
    BY <1>2, <1>4, <1>9, <2>1
  <2>3. {x[1] : x \in shown'} = DOMAIN parsed
    <3>. DEFINE D == DOMAIN parsed
    <3>1. shown' = {<<c, parsed[c]>> : c \in D}
      BY <1>2, <1>9, <2>1
    <3>. HIDE DEF D
    <3>2. {x[1] : x \in shown'} = D
      BY <3>1, NamesOf
    <3>. QED  BY <3>2 DEF D
  <2>5. \A x \in shown' : x[2] = LastText(x[1])
    BY <2>2
  <2>4. DOMAIN parsed = {ObjectOf(t) : t \in Range(argv.generate)}'
    BY <1>1, <1>3 DEF texts
  <2>. QED  BY <1>6, <2>2, <2>3, <2>4, <2>5 DEF GeneratesWhole
<1>. QED  BY <1>7, <1>8, <1>9

LEMMA GenerateKeeps == ASSUME CommandInv, Generate  PROVE CommandInv'
<1>1. PICK n : Return("generate", n) /\ UNCHANGED <<ready, settings>>
  BY DEF Generate
<1>2. SettingsInv'
  <2>1. settings' = Invalid
    BY <1>1 DEF CommandInv, SettingsInv, Return, Dispatched
  <2>. QED  BY <1>1, <2>1 DEF SettingsInv, Invalid, Return
<1>. QED  BY <1>1, <1>2, GenerateOf, ReturnStep

LEMMA CheckStep == ASSUME CommandInv, CheckConfig  PROVE CommandInv'
<1>1. /\ settings' = load(pa.check_config, <<>>, disk) /\ UNCHANGED ready
      /\ Return("check-config", IF settings'.ok THEN 0 ELSE 4)
  BY DEF CheckConfig
<1>2. /\ command' = "check-config" /\ stage' = "done" /\ UNCHANGED <<disk, pa>>
  BY <1>1 DEF Return, world
<1>3. Path' = pa.check_config
  BY <1>2 DEF Path
<1>4. settings' = load(Path, <<>>, disk)'
  BY <1>1, <1>2, <1>3
<1>5. <<>> \in Seq(Word)
  OBVIOUS
<1>6. SettingsInv' /\ GeneratesWhole'
  BY <1>2, <1>4, <1>5 DEF SettingsInv, GeneratesWhole
<1>. QED  BY <1>1, <1>6, ReturnStep

\* A start needs all its steps.
LEMMA StartStep == ASSUME CommandInv, PerformStart  PROVE CommandInv'
<1>. DEFINE order == <<5, 7, 6, 8, 9>>
            failing == argv.broken \cup (IF settings'.ok THEN {} ELSE {5})
            J == {j \in 1..Len(order) : order[j] \in failing}
            k == IF J # {} THEN Min(J) ELSE 0
            inis == argv.ini_list \o argv.startup_ini_list
<1>1. /\ Return("start", IF k = 0 THEN 0 ELSE order[k]) /\ ready' = (k = 0)
      /\ settings' = load(pa.config_path, inis, disk)
  BY DEF PerformStart, SelectInSeq
<1>2. /\ Dispatched("start") /\ stage = "dispatch" /\ stage' = "done" /\ command' = "start"
      /\ code' = (IF k = 0 THEN 0 ELSE order[k])
      /\ UNCHANGED <<argv, disk, pa>>
  BY <1>1 DEF Return, Dispatched, world
<1>3. ~pa.errorstring /\ pa.flags = {} /\ pa.check_config = None
      /\ pa.print_config = None
  <2>1. \A i \in 1..10 : ~Asked(Commands[i])
    BY <1>2, StartIsLast
  <2>2. /\ ~Asked("error") /\ ~Asked("check-config") /\ ~Asked("print-config")
        /\ \A f \in {"help", "version", "info", "module-list", "component-list",
                      "generate"} : ~Asked(f)
    BY <2>1 DEF Commands
  <2>3. \A f \in {"help", "version", "info", "module-list", "component-list",
                  "generate"} : f \notin pa.flags
    BY <2>2 DEF Asked
  <2>4. ~pa.errorstring /\ pa.check_config = None /\ pa.print_config = None
    BY <2>2 DEF Asked
  <2>5. pa.flags = argv.flags
    BY DEF CommandInv, PaInv, PaOf
  <2>. QED  BY <2>3, <2>4, <2>5, WorldIs
<1>4. ASSUME ready'  PROVE argv.broken = {} /\ settings'.ok /\ code' = 0
  <2>1. k = 0
    BY <1>1, <1>4
  <2>2. J = {}
    <3>1. J \in SUBSET Nat /\ 0 \notin J
      OBVIOUS
    <3>2. J # {} => Min(J) \in J
      <4>. HIDE DEF J
      <4>. QED  BY <3>1, MinIs
    <3>. QED  BY <2>1, <3>1, <3>2
  <2>3. \A j \in 1..5 : order[j] \notin failing
    <3>. HIDE DEF failing
    <3>. QED  BY <2>2
  <2>4. \A n \in 5..9 : n \notin failing
    <3>. HIDE DEF failing
    <3>. QED  BY <2>3
  <2>5. code' = 0
    <3>. HIDE DEF k
    <3>. QED  BY <1>2, <2>1
  <2>6. argv.broken \subseteq 5..9
    BY WorldIs
  <2>. QED  BY <2>4, <2>5, <2>6
<1>. HIDE DEF failing, J, k
<1>5. PICK file, error, usage, name, generate, objects :
         /\ pa = PaOf(argv, file, error, usage, name, generate, objects)
         /\ argv.wrong => error
  BY <1>2 DEF CommandInv, PaInv
<1>6. ~argv.wrong /\ argv.flags = {} /\ argv.check_config = None /\ argv.print_config = None
  BY <1>3, <1>5 DEF PaOf
<1>7. StartsOnlyAlone'
  <2>. SUFFICES ASSUME ready'
                PROVE  /\ ~argv.wrong /\ argv.flags = {} /\ argv.broken = {}
                       /\ argv.check_config = None /\ argv.print_config = None
                       /\ settings'.ok /\ code' = 0
    BY <1>2 DEF StartsOnlyAlone
  <2>. QED  BY <1>4, <1>6
<1>8. SettingsInv'
  <2>1. Path' = pa.config_path
    BY <1>2 DEF Path
  <2>2. settings' = load(Path, argv.ini_list \o argv.startup_ini_list, disk)'
    BY <1>1, <1>2, <2>1
  <2>3. argv.ini_list \o argv.startup_ini_list \in Seq(Word)
    BY WorldIs
  <2>. QED  BY <1>2, <2>2, <2>3 DEF SettingsInv
<1>9. PaInv'
  BY <1>2 DEF CommandInv, PaInv
<1>10. GeneratesWhole'
  BY <1>2 DEF GeneratesWhole
<1>. QED  BY <1>2, <1>7, <1>8, <1>9, <1>10 DEF CommandInv

LEMMA NextCommandInv == CommandInv /\ [CommandNext]_commandVars => CommandInv'
<1>. SUFFICES ASSUME CommandInv, [CommandNext]_commandVars  PROVE CommandInv'
  OBVIOUS
<1>1. CASE UNCHANGED commandVars
  <2>. USE <1>1 DEF commandVars, world, result
  <2>1. PaInv'
    BY DEF CommandInv, PaInv
  <2>2. SettingsInv'
    BY DEF CommandInv, SettingsInv, Path
  <2>3. StartsOnlyAlone'
    BY DEF CommandInv, StartsOnlyAlone
  <2>4. \A c : LastText(c)' = LastText(c)
    BY DEF LastText, SelectLastInSeq
  <2>5. GeneratesWhole'
    BY <2>4 DEF CommandInv, GeneratesWhole
  <2>. QED  BY <2>1, <2>2, <2>3, <2>5 DEF CommandInv
<1>2. CASE CommandNext
  BY <1>2, ParseSteps, ShowSteps, GenerateKeeps, CheckStep, StartStep DEF CommandNext
<1>. QED  BY <1>1, <1>2

LEMMA CommandInvariance == CommandSpec => []CommandInv
BY InitCommandInv, NextCommandInv, PTL DEF CommandSpec

\* startup() with arguments of any kind: the daemon gets ready to run only if the
\* arguments make sense, none of the commands that merely show, check or write
\* something is among them, and no step of the start has failed.
THEOREM HarmlessFirst == CommandSpec => []StartsOnlyAlone
<1>1. CommandInv => StartsOnlyAlone
  BY DEF CommandInv
<1>. QED  BY <1>1, CommandInvariance, PTL

\* --object-options with any texts, of any length and in any order: each object
\* that is named has the last value of each of its args, and no other arg.
THEOREM LastMentionCounts == CommandSpec => []LastMentionWins
<1>1. CommandInv => LastMentionWins
  <2>. SUFFICES ASSUME CommandInv, stage # "parse", ~pa.errorstring
                PROVE  pa.object_options = LastMentions(argv.object_options)
    BY DEF LastMentionWins
  <2>1. pa.object_options = parse_custom_options(argv.object_options)
    BY DEF CommandInv, PaInv, PaOf
  <2>. QED  BY <2>1, WorldIs, CollectedIsPromised
<1>. QED  BY <1>1, CommandInvariance, PTL

\* --generate with any texts: every component that they name, or all of them,
\* with the args of its last text, or an error and nothing written.
THEOREM GeneratedAsNamed == CommandSpec => []GeneratesWhole
<1>1. CommandInv => GeneratesWhole
  BY DEF CommandInv
<1>. QED  BY <1>1, CommandInvariance, PTL

\* A configuration of any sections: what is in force has one section for each
\* name of the file, with all the items of that name in their order.
THEOREM NoSectionLost == CommandSpec => []SectionsKept
<1>1. CommandInv => SectionsKept
  <2>. SUFFICES ASSUME CommandInv, settings.ok  PROVE SectionsKept
    BY DEF SectionsKept
  <2>. DEFINE map == settings.map
              conf == disk.files[Path]
  <2>1. PICK given \in Seq(Word) : settings = load(Path, given, disk)
    BY DEF CommandInv, SettingsInv
  <2>2. load(Path, given, disk).ok /\ map = load(Path, given, disk).map /\ IsDisk(disk)
    BY <2>1, WorldIs
  <2>3. /\ conf \in Seq(Section) /\ map \in Seq(Section)
    <3>. HIDE DEF map
    <3>. QED  BY <2>2, LoadIs
  <2>8. \A i, j \in 1..Len(map) : map[i].name = map[j].name => i = j
    <3>. HIDE DEF map
    <3>. QED  BY <2>2, LoadIs
  <2>10. NamesIn(map) = NamesIn(conf)
    <3>. HIDE DEF map
    <3>. QED  BY <2>2, LoadIs
  <2>9. \E own \in Seq(Word) :
              /\ Range(own) = {Resolved(f, Path, given, disk) :
                                 f \in Range(AllItems(conf, <<"config">>))}
              /\ \A i \in 1..Len(map) :
                    IsResolved(map[i].items, AllItems(conf, map[i].name),
                               Path, own \o given, disk)
    <3>. HIDE DEF map
    <3>. QED  BY <2>2, LoadIs
  <2>. HIDE DEF map, conf
  <2>4. {s.name : s \in Range(map)} = {s.name : s \in Range(conf)}
    <3>1. DOMAIN map = 1..Len(map) /\ DOMAIN conf = 1..Len(conf)
      BY <2>3
    <3>2. \A list, n : DOMAIN list = 1..n =>
             {s.name : s \in Range(list)} = {list[i].name : i \in 1..n}
      BY DEF Range
    <3>3. {s.name : s \in Range(map)} = NamesIn(map)
      BY <3>1, <3>2 DEF NamesIn
    <3>4. {s.name : s \in Range(conf)} = NamesIn(conf)
      BY <3>1, <3>2 DEF NamesIn
    <3>. QED  BY <2>10, <3>3, <3>4
  <2>5. ASSUME NEW i \in 1..Len(map)
        PROVE  LET s == map[i]
                   all == AllItems(conf, s.name)
               IN  /\ Len(s.items) = Len(all)
                   /\ \A j \in DOMAIN s.items : all[j] \in {s.items[j], Variable}
    <3>1. PICK inis : IsResolved(map[i].items, AllItems(conf, map[i].name), Path, inis, disk)
      BY <2>5, <2>9
    <3>. QED  BY <3>1 DEF IsResolved, Resolved
  <2>6. \A s \in Range(map) :
           /\ Len(s.items) = Len(Items(s.name))
           /\ \A i \in DOMAIN s.items : Items(s.name)[i] \in {s.items[i], Variable}
    <3>1. \A s \in Range(map) : \E i \in 1..Len(map) : s = map[i]
      BY <2>3 DEF Range
    <3>. QED  BY <2>5, <3>1 DEF Items, conf
  <2>7. \A i, j \in DOMAIN map : map[i].name = map[j].name => i = j
    <3>1. DOMAIN map = 1..Len(map)
      BY <2>3
    <3>. QED  BY <2>8, <3>1
  <2>. QED  BY <2>4, <2>6, <2>7 DEF SectionsKept, map, conf
<1>. QED  BY <1>1, CommandInvariance, PTL

\* Ini files of any number on the command line, in the configuration and on the
\* disk: those of --startup-ini go before those of --ini, and both before the
\* ones that the configuration names.
THEOREM CommandLineFirst == CommandSpec => []ArgumentsOverride
<1>1. CommandInv => ArgumentsOverride
  <2>. SUFFICES ASSUME CommandInv, command = "start", settings.ok,
                       NEW s \in Range(settings.map), NEW i \in DOMAIN s.items,
                       Items(s.name)[i] = Variable
                PROVE  s.items[i] \in
                         IF Setting(Range(argv.startup_ini_list)) # {}
                           THEN Setting(Range(argv.startup_ini_list))
                         ELSE IF Setting(Range(argv.ini_list)) # {}
                           THEN Setting(Range(argv.ini_list))
                         ELSE IF Setting(OwnIni) # {} THEN Setting(OwnIni)
                                                      ELSE {Default}
    BY DEF ArgumentsOverride
  <2>. DEFINE map == settings.map
              conf == disk.files[Path]
              ini == argv.ini_list
              startup == argv.startup_ini_list
              given == ini \o startup
              S(inis) == Sets(Path, inis, disk)
  <2>1. settings = load(Path, given, disk)
    BY DEF CommandInv, SettingsInv
  <2>2. /\ load(Path, given, disk).ok /\ map = load(Path, given, disk).map /\ IsDisk(disk)
        /\ ini \in Seq(Word) /\ startup \in Seq(Word) /\ given \in Seq(Word)
    BY <2>1, WorldIs
  <2>3. /\ map \in Seq(Section)
        /\ \E own \in Seq(Word) :
              /\ Range(own) = {Resolved(f, Path, given, disk) :
                                 f \in Range(AllItems(conf, <<"config">>))}
              /\ \A j \in 1..Len(map) :
                    IsResolved(map[j].items, AllItems(conf, map[j].name),
                               Path, own \o given, disk)
    <3>. HIDE DEF given, map
    <3>. QED  BY <2>2, LoadIs
  <2>4. PICK own \in Seq(Word) :
           /\ Range(own) = {Resolved(f, Path, given, disk) :
                              f \in Range(AllItems(conf, <<"config">>))}
           /\ \A j \in 1..Len(map) :
                 IsResolved(map[j].items, AllItems(conf, map[j].name),
                            Path, own \o given, disk)
    BY <2>3
  <2>5. Range(own) = OwnIni
    BY <2>4 DEF OwnIni, Items
  <2>6. PICK j \in 1..Len(map) : s = map[j]
    BY <2>3 DEF Range
  <2>. HIDE DEF map
  <2>7. s.items[i] = VALUE(Path, own \o given, disk)
    <3>1. IsResolved(s.items, Items(s.name), Path, own \o given, disk)
      BY <2>4, <2>6 DEF Items
    <3>. HIDE DEF given
    <3>. QED  BY <3>1 DEF IsResolved, Resolved
  <2>8. own \o given = (own \o ini) \o startup /\ own \o ini \in Seq(Word)
    <3>1. ini \in Seq(Word) /\ startup \in Seq(Word)
      BY <2>2
    <3>2. \A a, b, c \in Seq(Word) : a \o (b \o c) = (a \o b) \o c /\ a \o b \in Seq(Word)
      OBVIOUS
    <3>. HIDE DEF ini, startup
    <3>. QED  BY <3>1, <3>2
  <2>. HIDE DEF given, ini, startup
  <2>9. IF S(Range(startup)) # {}
          THEN VALUE(Path, own \o given, disk) \in S(Range(startup))
          ELSE VALUE(Path, own \o given, disk) = VALUE(Path, own \o ini, disk)
    <3>1. startup \in Seq(Word) /\ own \o ini \in Seq(Word)
      BY <2>2, <2>8
    <3>. DEFINE both == own \o ini
    <3>. HIDE DEF both
    <3>2. IF S(Range(startup)) # {}
            THEN VALUE(Path, both \o startup, disk) \in S(Range(startup))
            ELSE VALUE(Path, both \o startup, disk) = VALUE(Path, both, disk)
      BY <3>1, ValueIs DEF both
    <3>. QED  BY <2>8, <3>2 DEF both
  <2>10. IF S(Range(ini)) # {}
          THEN VALUE(Path, own \o ini, disk) \in S(Range(ini))
          ELSE VALUE(Path, own \o ini, disk) = VALUE(Path, own, disk)
    BY <2>2, ValueIs
  <2>11. VALUE(Path, own, disk) \in IF S(Range(own)) # {} THEN S(Range(own)) ELSE {Default}
    BY <2>2, ValueIs
  <2>12. \A inis : Setting(inis) = S(inis)
    BY DEF Setting, Sets
  <2>. QED  BY <2>5, <2>7, <2>9, <2>10, <2>11, <2>12 DEF ini, startup
<1>. QED  BY <1>1, CommandInvariance, PTL
=============================================================================
