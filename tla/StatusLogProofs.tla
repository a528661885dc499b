--------------------------- MODULE StatusLogProofs ---------------------------
(***************************************************************************)
(* What get_status answers, for any limits, times to live, timeout and     *)
(* number of threads; and what the logger makes of FATAL, for any number   *)
(* of threads and reloads.                                                 *)
(***************************************************************************)
EXTENDS StatusLog, Logger, Folding, TLAPS

\* A list is the end of its log. What was dropped last was not among the last
\* `limit` entries, or its time was over.
EndOf(list, log, ttl, limit) ==
    /\ Len(list) <= Len(log)
    /\ \A i \in 1..Len(list) : list[i] = log[Len(log) - Len(list) + i]
    /\ Len(list) < Len(log) =>
          Len(list) >= limit \/ log[Len(log) - Len(list)] < now - ttl

\* The entries of a log are in the order of their times, and none is yet to come.
InOrder(log) ==
    /\ \A i, j \in 1..Len(log) : i <= j => log[i] <= log[j]
    /\ \A i \in 1..Len(log) : log[i] <= now

HistoryInv ==
    /\ EndOf(errors, error_log, errors_ttl, errors_limit)
    /\ EndOf(warnings, warning_log, warnings_ttl, warnings_limit)
    /\ InOrder(error_log) /\ InOrder(warning_log)
    /\ aborted = aborts

Inv == TypeOK /\ HistoryInv

-----------------------------------------------------------------------------
\* What remove_expired_ leaves: the end of the list, within the limit, from the
\* first entry on that may stay.
LEMMA RemoveExpired ==
    ASSUME now \in Nat, NEW list \in Seq(Time), NEW ttl \in Nat, NEW limit \in Nat,
           NEW r, r = remove_expired_(list, ttl, limit)
    PROVE  /\ r \in Seq(Time) /\ Len(r) <= Len(list) /\ Len(r) <= limit
           /\ \A i \in 1..Len(r) : r[i] = list[Len(list) - Len(r) + i]
           /\ Len(r) > 0 => r[1] >= now - ttl
           /\ Len(r) < Len(list) =>
                 Len(r) >= limit \/ list[Len(list) - Len(r)] < now - ttl
<1>. DEFINE n == Len(list)
            Stays(i) == i > n - limit /\ list[i] >= now - ttl
            S == {i \in 1..n + 1 : i = n + 1 \/ Stays(i)}
            IsFirst(i) == /\ i = n + 1 \/ Stays(i)
                          /\ \A j \in 1..i - 1 : ~Stays(j)
            first == CHOOSE i \in 1..n + 1 : IsFirst(i)
<1>1. n \in Nat
  OBVIOUS
<1>2. \A i \in 1..n : list[i] \in Time /\ list[i] \in Int
  BY StatusLogAssumption DEF Time
<1>3. r = SubSeq(list, first, n)
  BY DEF remove_expired_
<1>4. \E i \in 1..n + 1 : IsFirst(i)
  <2>1. S \subseteq Nat /\ n + 1 \in S
    BY <1>1
  <2>. HIDE DEF S
  <2>2. PICK i \in S : \A j \in S : i <= j
    BY <2>1, Least
  <2>3. i \in 1..n + 1 /\ (i = n + 1 \/ Stays(i))
    BY <2>2 DEF S
  <2>4. ASSUME NEW j \in 1..i - 1, Stays(j)  PROVE FALSE
    <3>1. j \in 1..n + 1 /\ j < i
      BY <1>1, <2>3
    <3>2. j \in S
      BY <3>1, <2>4 DEF S
    <3>. QED  BY <1>1, <2>2, <2>3, <3>1, <3>2
  <2>. QED  BY <2>3, <2>4
<1>5. first \in 1..n + 1 /\ IsFirst(first)
  BY <1>4
<1>. HIDE DEF first
<1>6. Len(r) = n + 1 - first /\ r \in Seq(Time)
      /\ \A i \in 1..Len(r) : r[i] = list[first - 1 + i]
  BY <1>1, <1>2, <1>3, <1>5
<1>7. CASE first = n + 1
  <2>1. Len(r) = 0
    BY <1>1, <1>6, <1>7
  <2>2. n > 0 => ~Stays(n)
    BY <1>1, <1>5, <1>7
  <2>. QED  BY <1>1, <1>2, <1>6, <2>1, <2>2
<1>8. CASE first # n + 1
  <2>1. Stays(first) /\ first \in 1..n /\ Len(r) = n + 1 - first
    BY <1>1, <1>5, <1>6, <1>8
  <2>2. r[1] = list[first]
    BY <1>1, <1>6, <2>1
  <2>3. Len(r) < n => ~Stays(first - 1)
    BY <1>1, <1>5, <1>6, <1>8
  <2>4. \A i \in 1..Len(r) : r[i] = list[n - Len(r) + i]
    BY <1>1, <1>6, <2>1
  <2>5. Len(r) <= n /\ Len(r) <= limit /\ first - 1 = n - Len(r)
    BY <1>1, <1>6, <2>1
  <2>6. Len(r) < n => Len(r) >= limit \/ list[n - Len(r)] < now - ttl
    <3>. SUFFICES ASSUME Len(r) < n  PROVE Len(r) >= limit \/ list[n - Len(r)] < now - ttl
      OBVIOUS
    <3>1. first - 1 \in 1..n /\ list[first - 1] \in Int
      BY <1>1, <1>2, <2>1
    <3>. QED  BY <1>1, <2>1, <2>3, <2>5, <3>1
  <2>. QED  BY <1>6, <2>1, <2>2, <2>4, <2>5, <2>6
<1>. QED  BY <1>7, <1>8

-----------------------------------------------------------------------------
LEMMA TimeIsNat == Time \in SUBSET Nat
BY StatusLogAssumption DEF Time

\* An entry logged now is put behind the list and behind its log alike.
LEMMA Logged ==
    ASSUME now \in Time, NEW list \in Seq(Time), NEW log \in Seq(Time),
           NEW ttl \in Nat, NEW limit \in Nat,
           EndOf(list, log, ttl, limit), InOrder(log),
           NEW more \in {<<>>, <<now>>}
    PROVE  /\ list \o more \in Seq(Time) /\ log \o more \in Seq(Time)
           /\ EndOf(list \o more, log \o more, ttl, limit)
           /\ InOrder(log \o more)
<1>1. \A i \in 1..Len(log) : log[i] \in Time /\ log[i] \in Int
  <2>1. \A i \in 1..Len(log) : log[i] \in Time
    OBVIOUS
  <2>2. \A t \in Time : t \in Int
    BY TimeIsNat
  <2>. QED  BY <2>1, <2>2
<1>2. CASE more = <<>>
  <2>1. list \o more = list /\ log \o more = log
    BY <1>2
  <2>. QED  BY <2>1
<1>3. CASE more = <<now>>
  <2>. DEFINE n == Len(list)
              m == Len(log)
              list1 == list \o more
              log1 == log \o more
  <2>1. /\ n \in Nat /\ m \in Nat /\ n <= m /\ now \in Int
        /\ \A i \in 1..n : list[i] = log[m - n + i]
        /\ n < m => n >= limit \/ log[m - n] < now - ttl
    BY TimeIsNat DEF EndOf
  <2>2. list1 \in Seq(Time) /\ Len(list1) = n + 1 /\ list1[n + 1] = now
        /\ \A i \in 1..n : list1[i] = list[i]
    BY <1>3
  <2>3. log1 \in Seq(Time) /\ Len(log1) = m + 1 /\ log1[m + 1] = now
        /\ \A i \in 1..m : log1[i] = log[i]
    BY <1>3
  <2>. HIDE DEF list1, log1, n, m
  <2>4. EndOf(list1, log1, ttl, limit)
    <3>1. ASSUME NEW i \in 1..n + 1
          PROVE  list1[i] = log1[(m + 1) - (n + 1) + i]
      <4>1. CASE i = n + 1
        BY <2>1, <2>2, <2>3, <4>1
      <4>2. CASE i # n + 1
        <5>1. i \in 1..n /\ m - n + i \in 1..m /\ (m + 1) - (n + 1) + i = m - n + i
          BY <2>1, <4>2
        <5>. QED  BY <2>1, <2>2, <2>3, <5>1
      <4>. QED  BY <4>1, <4>2
    <3>2. ASSUME n + 1 < m + 1
          PROVE  n + 1 >= limit \/ log1[(m + 1) - (n + 1)] < now - ttl
      <4>1. m - n \in 1..m /\ (m + 1) - (n + 1) = m - n
        BY <2>1, <3>2
      <4>2. n >= limit \/ log1[m - n] < now - ttl
        BY <2>1, <2>3, <3>2, <4>1
      <4>. QED  BY <2>1, <4>1, <4>2
    <3>. QED  BY <2>1, <2>2, <2>3, <3>1, <3>2 DEF EndOf
  <2>5. InOrder(log1)
    <3>1. /\ \A i, j \in 1..m : i <= j => log[i] <= log[j]
          /\ \A i \in 1..m : log[i] <= now
      BY DEF InOrder, m
    <3>2. \A i \in 1..m + 1 : i = m + 1 \/ i \in 1..m
      BY <2>1
    <3>3. \A i \in 1..m + 1 : log1[i] <= now
      BY <2>1, <2>3, <3>1, <3>2
    <3>4. ASSUME NEW i \in 1..m + 1, NEW j \in 1..m + 1, i <= j
          PROVE  log1[i] <= log1[j]
      <4>1. CASE j = m + 1
        BY <2>3, <3>3, <4>1
      <4>2. CASE j # m + 1
        <5>1. i \in 1..m /\ j \in 1..m
          BY <2>1, <3>4, <4>2
        <5>. QED  BY <2>3, <3>1, <3>4, <5>1
      <4>. QED  BY <4>1, <4>2
    <3>. QED  BY <2>3, <3>3, <3>4 DEF InOrder
  <2>. QED  BY <2>2, <2>3, <2>4, <2>5 DEF list1, log1
<1>. QED  BY <1>2, <1>3

\* After it was trimmed, a list is still the end of its log, and full exactly
\* when the log is crowded: the entries that are gone would not have counted.
LEMMA Trimmed ==
    ASSUME now \in Time, NEW list \in Seq(Time), NEW log \in Seq(Time),
           NEW ttl \in Nat, NEW limit \in Nat,
           EndOf(list, log, ttl, limit), InOrder(log),
           NEW r, r = remove_expired_(list, ttl, limit)
    PROVE  /\ r \in Seq(Time) /\ Len(r) <= limit
           /\ EndOf(r, log, ttl, limit)
           /\ (r # <<>> /\ Len(r) = limit) <=> Crowded(log, ttl, limit)
<1>. DEFINE n == Len(list)
            m == Len(log)
            k == Len(r)
<1>1. \A i \in 1..m : log[i] \in Time /\ log[i] \in Int
  <2>1. \A i \in 1..m : log[i] \in Time
    OBVIOUS
  <2>2. \A t \in Time : t \in Int
    BY TimeIsNat
  <2>. QED  BY <2>1, <2>2
<1>2. now \in Nat
  BY TimeIsNat
<1>3. /\ r \in Seq(Time) /\ k <= n /\ k <= limit
      /\ \A i \in 1..k : r[i] = list[n - k + i]
      /\ k > 0 => r[1] >= now - ttl
      /\ k < n => k >= limit \/ list[n - k] < now - ttl
  BY <1>2, RemoveExpired, SMTT(60)
<1>4. /\ n <= m
      /\ \A i \in 1..n : list[i] = log[m - n + i]
      /\ n < m => n >= limit \/ log[m - n] < now - ttl
  BY DEF EndOf
<1>5. n \in Nat /\ m \in Nat /\ k \in Nat /\ (k > 0 <=> r # <<>>)
  BY <1>3
<1>6. \A i, j \in 1..m : i <= j => log[i] <= log[j]
  BY DEF InOrder
<1>. HIDE DEF n, m, k
<1>7. \A i \in 1..k : r[i] = log[m - k + i]
  <2>. TAKE i \in 1..k
  <2>1. n - k + i \in 1..n /\ m - n + (n - k + i) = m - k + i
    BY <1>3, <1>4, <1>5
  <2>. QED  BY <1>3, <1>4, <2>1
<1>8. ASSUME k < m  PROVE k >= limit \/ log[m - k] < now - ttl
  <2>1. CASE k < n
    <3>1. n - k \in 1..n /\ m - n + (n - k) = m - k
      BY <1>3, <1>4, <1>5, <2>1
    <3>2. list[n - k] = log[m - k]
      BY <1>4, <3>1
    <3>. QED  BY <1>3, <2>1, <3>2
  <2>2. CASE k = n
    BY <1>4, <1>8, <2>2
  <2>. QED  BY <1>3, <1>5, <2>1, <2>2
<1>9. EndOf(r, log, ttl, limit)
  BY <1>3, <1>4, <1>5, <1>7, <1>8 DEF EndOf, k, m
<1>10. ASSUME k > 0, k = limit
       PROVE  limit > 0 /\ m >= limit /\ log[m - limit + 1] >= now - ttl
  <2>1. r[1] = log[m - k + 1]
    BY <1>5, <1>7, <1>10
  <2>. QED  BY <1>3, <1>4, <1>5, <1>10, <2>1
<1>11. ASSUME limit > 0, m >= limit, log[m - limit + 1] >= now - ttl
       PROVE  k > 0 /\ k = limit
  <2>1. ASSUME k < limit  PROVE FALSE
    <3>1. k < m /\ m - k \in 1..m /\ m - limit + 1 \in 1..m /\ m - limit + 1 <= m - k
      BY <1>5, <1>11, <2>1
    <3>2. log[m - k] < now - ttl
      BY <1>5, <1>8, <2>1, <3>1
    <3>3. log[m - limit + 1] <= log[m - k]
      BY <1>6, <3>1
    <3>. QED  BY <1>1, <1>2, <1>11, <3>1, <3>2, <3>3
  <2>. QED  BY <1>3, <1>5, <1>11, <2>1
<1>12. (k > 0 /\ k = limit) <=> Crowded(log, ttl, limit)
  BY <1>10, <1>11 DEF Crowded, m
<1>. QED  BY <1>3, <1>5, <1>9, <1>12 DEF k

-----------------------------------------------------------------------------
\* What Keep leaves, whichever entry it was given: the types and the history,
\* and lists that are full exactly when their logs are crowded.
LEMMA Kept ==
    ASSUME Inv, NEW more_errors \in {<<>>, <<now>>},
           NEW more_warnings \in {<<>>, <<now>>},
           Keep(more_errors, more_warnings), now' = now
    PROVE  /\ errors' \in Seq(Time) /\ Len(errors') <= errors_limit
           /\ warnings' \in Seq(Time) /\ Len(warnings') <= warnings_limit
           /\ error_log' \in Seq(Time) /\ warning_log' \in Seq(Time)
           /\ EndOf(errors, error_log, errors_ttl, errors_limit)'
           /\ EndOf(warnings, warning_log, warnings_ttl, warnings_limit)'
           /\ InOrder(error_log)' /\ InOrder(warning_log)'
           /\ (errors' # <<>> /\ Len(errors') = errors_limit)
                <=> Crowded(error_log', errors_ttl, errors_limit)
           /\ (warnings' # <<>> /\ Len(warnings') = warnings_limit)
                <=> Crowded(warning_log', warnings_ttl, warnings_limit)
<1>1. now \in Time
      /\ errors_ttl \in Nat /\ errors_limit \in Nat
      /\ warnings_ttl \in Nat /\ warnings_limit \in Nat
  BY StatusLogAssumption DEF Inv, TypeOK
<1>2. /\ errors \o more_errors \in Seq(Time) /\ error_log' \in Seq(Time)
      /\ EndOf(errors \o more_errors, error_log', errors_ttl, errors_limit)
      /\ InOrder(error_log')
  BY <1>1, Logged DEF Inv, TypeOK, HistoryInv, Keep
<1>3. /\ warnings \o more_warnings \in Seq(Time) /\ warning_log' \in Seq(Time)
      /\ EndOf(warnings \o more_warnings, warning_log', warnings_ttl, warnings_limit)
      /\ InOrder(warning_log')
  BY <1>1, Logged DEF Inv, TypeOK, HistoryInv, Keep
<1>4. /\ errors' \in Seq(Time) /\ Len(errors') <= errors_limit
      /\ EndOf(errors', error_log', errors_ttl, errors_limit)
      /\ (errors' # <<>> /\ Len(errors') = errors_limit)
           <=> Crowded(error_log', errors_ttl, errors_limit)
  <2>1. PICK list \in Seq(Time) : list = errors \o more_errors
    BY <1>2
  <2>2. PICK log \in Seq(Time) : log = error_log'
    BY <1>2
  <2>3. PICK r : r = errors'
    OBVIOUS
  <2>4. EndOf(list, log, errors_ttl, errors_limit) /\ InOrder(log)
        /\ r = remove_expired_(list, errors_ttl, errors_limit)
    BY <1>2, <2>1, <2>2, <2>3 DEF Keep
  <2>5. /\ r \in Seq(Time) /\ Len(r) <= errors_limit
        /\ EndOf(r, log, errors_ttl, errors_limit)
        /\ (r # <<>> /\ Len(r) = errors_limit)
             <=> Crowded(log, errors_ttl, errors_limit)
    BY <1>1, <2>4, Trimmed
  <2>. QED  BY <2>2, <2>3, <2>5
<1>5. /\ warnings' \in Seq(Time) /\ Len(warnings') <= warnings_limit
      /\ EndOf(warnings', warning_log', warnings_ttl, warnings_limit)
      /\ (warnings' # <<>> /\ Len(warnings') = warnings_limit)
           <=> Crowded(warning_log', warnings_ttl, warnings_limit)
  <2>1. PICK list \in Seq(Time) : list = warnings \o more_warnings
    BY <1>3
  <2>2. PICK log \in Seq(Time) : log = warning_log'
    BY <1>3
  <2>3. PICK r : r = warnings'
    OBVIOUS
  <2>4. EndOf(list, log, warnings_ttl, warnings_limit) /\ InOrder(log)
        /\ r = remove_expired_(list, warnings_ttl, warnings_limit)
    BY <1>3, <2>1, <2>2, <2>3 DEF Keep
  <2>5. /\ r \in Seq(Time) /\ Len(r) <= warnings_limit
        /\ EndOf(r, log, warnings_ttl, warnings_limit)
        /\ (r # <<>> /\ Len(r) = warnings_limit)
             <=> Crowded(log, warnings_ttl, warnings_limit)
    BY <1>1, <2>4, Trimmed
  <2>. QED  BY <2>2, <2>3, <2>5
<1>6. /\ EndOf(errors, error_log, errors_ttl, errors_limit)'
      /\ EndOf(warnings, warning_log, warnings_ttl, warnings_limit)'
  BY <1>4, <1>5 DEF EndOf
<1>7. InOrder(error_log)' /\ InOrder(warning_log)'
  BY <1>2, <1>3 DEF InOrder
<1>. QED  BY <1>2, <1>3, <1>4, <1>5, <1>6, <1>7

\* Time goes by: what was over is over, what was not yet to come is not.
LEMMA Later ==
    ASSUME Inv, now' \in Time, now' >= now, UNCHANGED <<lists, history>>
    PROVE  HistoryInv'
<1>1. /\ errors' = errors /\ error_log' = error_log
      /\ warnings' = warnings /\ warning_log' = warning_log
      /\ aborted' = aborted /\ aborts' = aborts
  BY DEF lists, history
<1>2. /\ now \in Nat /\ now' \in Nat
      /\ errors_ttl \in Nat /\ warnings_ttl \in Nat
  BY TimeIsNat, StatusLogAssumption DEF Inv, TypeOK
<1>3. ASSUME NEW list \in Seq(Time), NEW log \in Seq(Time),
             NEW ttl \in Nat, NEW limit \in Nat,
             EndOf(list, log, ttl, limit), InOrder(log)
      PROVE  /\ Len(list) <= Len(log)
             /\ \A i \in 1..Len(list) : list[i] = log[Len(log) - Len(list) + i]
             /\ Len(list) < Len(log) =>
                   Len(list) >= limit \/ log[Len(log) - Len(list)] < now' - ttl
             /\ \A i, j \in 1..Len(log) : i <= j => log[i] <= log[j]
             /\ \A i \in 1..Len(log) : log[i] <= now'
  <2>1. \A i \in 1..Len(log) : log[i] \in Time
    OBVIOUS
  <2>2. \A i \in 1..Len(log) : log[i] \in Nat
    BY <2>1, TimeIsNat
  <2>3. Len(list) < Len(log) =>
           Len(list) >= limit \/ log[Len(log) - Len(list)] < now' - ttl
    BY <1>2, <1>3, <2>2 DEF EndOf
  <2>4. \A i \in 1..Len(log) : log[i] <= now'
    BY <1>2, <1>3, <2>2 DEF InOrder
  <2>. QED  BY <1>3, <2>3, <2>4 DEF EndOf, InOrder
<1>4. /\ EndOf(errors, error_log, errors_ttl, errors_limit)' /\ InOrder(error_log)'
  BY <1>1, <1>3, StatusLogAssumption DEF Inv, TypeOK, HistoryInv, EndOf, InOrder
<1>5. /\ EndOf(warnings, warning_log, warnings_ttl, warnings_limit)'
      /\ InOrder(warning_log)'
  BY <1>1, <1>3, StatusLogAssumption DEF Inv, TypeOK, HistoryInv, EndOf, InOrder
<1>. QED  BY <1>1, <1>4, <1>5 DEF Inv, HistoryInv

-----------------------------------------------------------------------------
\* A new status_log is in order.
LEMMA NothingLogged ==
    /\ <<>> \in Seq(Time) /\ Len(<<>>) = 0 /\ 0 \in Time
    /\ Len(<<>>) <= errors_limit /\ Len(<<>>) <= warnings_limit
    /\ EndOf(<<>>, <<>>, errors_ttl, errors_limit)
    /\ EndOf(<<>>, <<>>, warnings_ttl, warnings_limit)
    /\ InOrder(<<>>)
<1>1. Len(<<>>) = 0 /\ 1..0 = {}
  OBVIOUS
<1>2. errors_limit \in Nat /\ warnings_limit \in Nat /\ 0 \in Time
  BY StatusLogAssumption DEF Time
<1>. QED  BY <1>1, <1>2 DEF EndOf, InOrder

LEMMA Initially == Init => Inv
<1>. SUFFICES ASSUME Init  PROVE Inv
  OBVIOUS
<1>1. TypeOK
  BY NothingLogged DEF Init, TypeOK, Status
<1>2. HistoryInv
  BY NothingLogged DEF Init, HistoryInv
<1>. QED  BY <1>1, <1>2 DEF Inv

LEMMA Inductive == Inv /\ [Next]_vars => Inv'
<1>. SUFFICES ASSUME Inv, [Next]_vars  PROVE Inv'
  OBVIOUS
<1>. USE DEF Inv
<1>1. CASE LogError
  <2>1. Keep(<<now>>, <<>>) /\ UNCHANGED <<aborted, aborts>> /\ Unread
    BY <1>1 DEF LogError
  <2>2. TypeOK'
    BY <2>1, Kept DEF TypeOK, Unread
  <2>3. HistoryInv'
    BY <2>1, Kept DEF HistoryInv, Unread
  <2>. QED  BY <2>2, <2>3
<1>2. CASE LogWarning
  <2>1. Keep(<<>>, <<now>>) /\ UNCHANGED <<aborted, aborts>> /\ Unread
    BY <1>2 DEF LogWarning
  <2>2. TypeOK'
    BY <2>1, Kept DEF TypeOK, Unread
  <2>3. HistoryInv'
    BY <2>1, Kept DEF HistoryInv, Unread
  <2>. QED  BY <2>2, <2>3
<1>3. CASE LogFatal
  <2>1. Keep(<<>>, <<>>) /\ aborted' = TRUE /\ aborts' = TRUE /\ Unread
    BY <1>3 DEF LogFatal
  <2>2. TypeOK'
    BY <2>1, Kept DEF TypeOK, Unread
  <2>3. HistoryInv'
    BY <2>1, Kept DEF HistoryInv, Unread
  <2>. QED  BY <2>2, <2>3
<1>4. CASE LookAtThreads
  <2>1. TypeOK'
    BY <1>4 DEF LookAtThreads, TypeOK, lists, history
  <2>2. HistoryInv'
    BY <1>4 DEF LookAtThreads, HistoryInv, EndOf, InOrder, lists, history
  <2>. QED  BY <2>1, <2>2
<1>5. CASE Answer
  <2>1. Keep(<<>>, <<>>) /\ UNCHANGED <<now, last_active, hang, aborted, aborts>>
        /\ reading' = FALSE /\ answer' = Verdict(errors', warnings')
    BY <1>5 DEF Answer
  <2>2. answer' \in Status
    BY <2>1 DEF Verdict, Status
  <2>3. TypeOK'
    BY <2>1, <2>2, Kept DEF TypeOK
  <2>4. HistoryInv'
    BY <2>1, Kept DEF HistoryInv
  <2>. QED  BY <2>3, <2>4
<1>6. CASE Replace
  <2>1. TypeOK'
    BY <1>6, NothingLogged DEF Replace, Unread, TypeOK
  <2>2. HistoryInv'
    BY <1>6, NothingLogged DEF Replace, Unread, HistoryInv, EndOf, InOrder
  <2>. QED  BY <2>1, <2>2
<1>7. CASE Tick
  <2>1. now' \in Time /\ now' >= now /\ UNCHANGED <<lists, history>>
    BY <1>7, StatusLogAssumption DEF Tick, TypeOK, Time
  <2>2. TypeOK'
    BY <1>7, <2>1 DEF Tick, TypeOK, lists, history
  <2>3. HistoryInv'
    BY <2>1, Later
  <2>. QED  BY <2>2, <2>3
<1>8. ASSUME NEW t \in Threads, Works(t)  PROVE Inv'
  <2>1. TypeOK'
    BY <1>8 DEF Works, TypeOK, lists, history
  <2>2. HistoryInv'
    BY <1>8 DEF Works, HistoryInv, EndOf, InOrder, lists, history
  <2>. QED  BY <2>1, <2>2
<1>9. CASE UNCHANGED vars
  <2>1. TypeOK'
    BY <1>9 DEF vars, lists, history, TypeOK
  <2>2. HistoryInv'
    BY <1>9 DEF vars, lists, history, HistoryInv, EndOf, InOrder
  <2>. QED  BY <2>1, <2>2
<1>. QED
  BY <1>1, <1>2, <1>3, <1>4, <1>5, <1>6, <1>7, <1>8, <1>9 DEF Next

LEMMA Always == Spec => []Inv
<1>. QED  BY Initially, Inductive, PTL DEF Spec

-----------------------------------------------------------------------------
\* core::status_log: the lists never outgrow their limits, their entries are
\* moments of the clock, and get_status answers one of its five verdicts.
THEOREM TypeCorrect == Spec => []TypeOK
<1>1. Inv => TypeOK
  BY DEF Inv
<1>. QED  BY <1>1, Always, PTL

\* core::get_status: although the lists are of bounded length and are trimmed
\* whenever something is logged, the answer is the one the whole history since
\* the log was made demands.
THEOREM Answers == Spec => AnswersHistory
<1>. DEFINE Demanded ==
              CASE aborts -> "ABORT"
                [] ~aborts /\ hang -> "HANG"
                [] ~aborts /\ ~hang
                     /\ Crowded(error_log, errors_ttl, errors_limit) -> "ERROR"
                [] OTHER ->
                     IF Crowded(warning_log, warnings_ttl, warnings_limit)
                       THEN "WARNING" ELSE "OK"
<1>1. ASSUME Inv, Next, reading, ~reading'  PROVE answer' = Demanded
  <2>1. Answer
    BY <1>1 DEF Next, LogError, LogWarning, LogFatal, LookAtThreads, Replace,
                Tick, Works, Unread
  <2>2. Keep(<<>>, <<>>) /\ now' = now /\ answer' = Verdict(errors', warnings')
    BY <2>1 DEF Answer
  <2>3. error_log' = error_log /\ warning_log' = warning_log
    BY <1>1, <2>2 DEF Keep, Inv, TypeOK
  <2>4. /\ (errors' # <<>> /\ Len(errors') = errors_limit)
             <=> Crowded(error_log, errors_ttl, errors_limit)
        /\ (warnings' # <<>> /\ Len(warnings') = warnings_limit)
             <=> Crowded(warning_log, warnings_ttl, warnings_limit)
    BY <1>1, <2>2, <2>3, Kept
  <2>5. aborted = aborts
    BY <1>1 DEF Inv, HistoryInv
  <2>. QED  BY <2>2, <2>4, <2>5 DEF Verdict
<1>2. Inv /\ [Next]_vars => [reading /\ ~reading' => answer' = Demanded]_vars
  BY <1>1
<1>. QED  BY <1>2, Always, PTL DEF Spec, AnswersHistory
-----------------------------------------------------------------------------
(* The handler of FATAL and the last words of the log, for any number of   *)
(* threads and reloads.                                                    *)

LoggerPlace == {"idle", "status", "keep", "abort"}

LoggerTypeInv ==
    /\ writer \in [Writer -> [pc : LoggerPlace, stop : BOOLEAN]]
    /\ option \in BOOLEAN /\ stop_by_fatal \in BOOLEAN
    /\ _last_message \in Writer \cup {NoWriter}
    /\ counted \in {"no", "yes", "dropped"}

\* A thread that is about to abort has made its status known and kept a message.
ToldInv ==
    /\ \A w \in Writer : At(w, "abort") => _last_message # NoWriter
    /\ \A w \in Writer :
          (At(w, "keep") \/ At(w, "abort")) /\ writer[w].stop
              => counted # "no" \/ "early" \in events
    /\ AbortIsTold

\* What is kept has been logged, and what has been handled is kept.
KeptInv ==
    /\ \A w \in Writer : ~At(w, "idle") => "began" \in events
    /\ _last_message # NoWriter => "began" \in events
    /\ "ended" \in events => _last_message # NoWriter

\* What release() has copied decides on the last words, and does not change.
CopyInv ==
    /\ main # "released" => lm = NoWriter /\ words = "none"
    /\ lm # NoWriter => lm = _last_message
    /\ main = "released" /\ lm = NoWriter => "ended" \notin events
    /\ words \in {"bye", "silence"} => lm = NoWriter
    /\ words = "abnormal" => lm # NoWriter

LoggerInv == LoggerTypeInv /\ ToldInv /\ KeptInv /\ CopyInv

-----------------------------------------------------------------------------
LEMMA InitLoggerInv == LoggerInit => LoggerInv
BY DEF LoggerInit, LoggerInv, LoggerTypeInv, ToldInv, KeptInv, CopyInv, AbortIsTold, At, Silent,
       LoggerPlace

\* A thread in the handler.
LEMMA WriterStep ==
    ASSUME LoggerInv, NEW w \in Writer,
           Fatal(w) \/ SetStatus(w) \/ KeepMessage(w) \/ Abort(w)
    PROVE  LoggerInv'
<1>. USE LoggerAssumption DEF LoggerInv, LoggerTypeInv, ToldInv, KeptInv, CopyInv, AbortIsTold,
         At, GoOn, Then, LoggerPlace, daemon
<1>1. CASE Fatal(w)
  BY <1>1 DEF Fatal
<1>2. CASE SetStatus(w)
  BY <1>2 DEF SetStatus
<1>3. CASE KeepMessage(w)
  BY <1>3 DEF KeepMessage
<1>4. CASE Abort(w)
  BY <1>4 DEF Abort
<1>. QED  BY <1>1, <1>2, <1>3, <1>4

\* The main thread, and whoever stops the daemon.
LEMMA MainStep ==
    ASSUME LoggerInv,
           \/ Configured \/ Initialize \/ \E new \in BOOLEAN : Reload(new)
           \/ Signal \/ Release \/ LastWord
    PROVE  LoggerInv'
<1>. USE LoggerAssumption DEF LoggerInv, LoggerTypeInv, ToldInv, KeptInv, CopyInv, AbortIsTold,
         At, LoggerPlace
<1>1. CASE Configured
  BY <1>1 DEF Configured, Main
<1>2. CASE Initialize
  BY <1>2 DEF Initialize, Main
<1>3. CASE \E new \in BOOLEAN : Reload(new)
  BY <1>3 DEF Reload, Main
<1>4. CASE Signal
  BY <1>4 DEF Signal
<1>5. CASE Release
  BY <1>5 DEF Release, Main, Copied
<1>6. CASE LastWord
  BY <1>6 DEF LastWord
<1>. QED  BY <1>1, <1>2, <1>3, <1>4, <1>5, <1>6

LEMMA NextLoggerInv == LoggerInv /\ [LoggerNext]_loggerVars => LoggerInv'
<1>. SUFFICES ASSUME LoggerInv, [LoggerNext]_loggerVars PROVE LoggerInv'
  OBVIOUS
<1>1. CASE LoggerNext
  BY <1>1, WriterStep, MainStep DEF LoggerNext
<1>2. CASE UNCHANGED loggerVars
  BY <1>2 DEF loggerVars, daemon, LoggerInv, LoggerTypeInv, ToldInv, KeptInv, CopyInv, AbortIsTold, At
<1>. QED  BY <1>1, <1>2

LEMMA LoggerInvariance == LoggerSpec => []LoggerInv
BY InitLoggerInv, NextLoggerInv, PTL DEF LoggerSpec

\* The reason of an abort is kept for the last words and counted in the status,
\* whichever threads log FATAL and whenever the logger or the core is reloaded.
THEOREM AbortTold == LoggerSpec => []AbortIsTold
<1>1. LoggerInv => AbortIsTold
  BY DEF LoggerInv, ToldInv
<1>. QED  BY <1>1, LoggerInvariance, PTL

\* The last words of the log are Bye only if no FATAL was handled before it was
\* taken out of use, and Abnormal Shutdown only if one was logged.
THEOREM LastWordsAreTrue == LoggerSpec => []LastWordsTrue
<1>1. LoggerInv => LastWordsTrue
  BY LoggerAssumption DEF LoggerInv, LoggerTypeInv, KeptInv, CopyInv, LastWordsTrue
<1>. QED  BY <1>1, LoggerInvariance, PTL
=============================================================================
