---------------------- MODULE InterfaceDispatchProofs ----------------------
(***************************************************************************)
(* Proofs about InterfaceDispatch: types and the schedules of the form,    *)
(* what a bulk retry executes, and what a toggle leaves alone.             *)
(***************************************************************************)
EXTENDS InterfaceDispatch, NumberLemmas, SequenceTheorems

----------------------------------------------------------------------------
(* Parts of sequences.                                                     *)

LEMMA Bounded ==
  ASSUME NEW S, NEW n \in Nat, NEW s
  PROVE  s \in BoundedSeq(S, n) <=> s \in Seq(S) /\ Len(s) <= n
<1>1. BoundedSeq(S, n) = UNION {[1..m -> S] : m \in 0..n}
  BY DEF BoundedSeq, SeqOf
<1>2. ASSUME s \in BoundedSeq(S, n)
      PROVE  s \in Seq(S) /\ Len(s) <= n
  <2>1. PICK m \in 0..n : s \in [1..m -> S]
    BY <1>1, <1>2
  <2>2. s \in Seq(S) /\ Len(s) = m
    BY <2>1
  <2>. QED
    BY <2>1, <2>2
<1>3. ASSUME s \in Seq(S), Len(s) <= n
      PROVE  s \in BoundedSeq(S, n)
  <2>1. Len(s) \in 0..n /\ s \in [1..Len(s) -> S]
    BY <1>3
  <2>. QED
    BY <1>1, <2>1
<1>. QED
  BY <1>2, <1>3

LEMMA MaximumExists ==
  ASSUME NEW K \in SUBSET Int, IsFiniteSet(K), K # {}
  PROVE  \E m \in K : \A k \in K : k <= m
<1> DEFINE Good == {T \in SUBSET K : T = {} \/ \E m \in T : \A k \in T : k <= m}
<1>1. {} \in Good
  OBVIOUS
<1>2. ASSUME NEW T \in SUBSET K, NEW x \in T, T \ {x} \in Good
      PROVE  T \in Good
  <2>1. CASE T \ {x} = {}
    <3>1. \A k \in T : k <= x
      BY <2>1
    <3>. QED
      BY <3>1
  <2>2. CASE T \ {x} # {}
    <3>1. PICK m \in T \ {x} : \A k \in T \ {x} : k <= m
      BY <1>2, <2>2
    <3>2. CASE x <= m
      <4>1. \A k \in T : k <= m
        BY <3>1, <3>2
      <4>. QED
        BY <3>1, <4>1
    <3>3. CASE ~ (x <= m)
      <4>1. \A k \in T : k <= x
        BY <3>1, <3>3
      <4>. QED
        BY <4>1
    <3>. QED
      BY <3>2, <3>3
  <2>. QED
    BY <2>1, <2>2
<1>3. K \in Good
  <2> HIDE DEF Good
  <2>. QED
    BY <1>1, <1>2, RemoveInduction
<1>. QED
  BY <1>3

\* A finite set of integers can be enumerated in increasing order.
Increasing(at) == \A j, k \in DOMAIN at : j < k => at[j] < at[k]

LEMMA OrderExists ==
  ASSUME NEW K \in SUBSET Int, IsFiniteSet(K)
  PROVE  \E at \in [1..Cardinality(K) -> K] : Increasing(at)
<1> DEFINE Good == {T \in SUBSET K : \E at \in [1..Cardinality(T) -> T] : Increasing(at)}
<1>1. ASSUME NEW T \in SUBSET K, \A U \in SUBSET T : U # T => U \in Good
      PROVE  T \in Good
  <2>1. IsFiniteSet(T)
    BY FS_Subset
  <2>2. CASE T = {}
    <3>1. Cardinality(T) = 0
      BY <2>2, FS_EmptySet
    <3> DEFINE none == [j \in 1..Cardinality(T) |-> CHOOSE x \in T : TRUE]
    <3>2. none \in [1..Cardinality(T) -> T] /\ Increasing(none)
      BY <3>1 DEF Increasing
    <3>. QED
      BY <3>2
  <2>3. CASE T # {}
    <3>1. PICK m \in T : \A k \in T : k <= m
      BY <2>1, <2>3, MaximumExists
    <3> DEFINE U == T \ {m}
               n == Cardinality(U)
    <3>2. U \in SUBSET T /\ U # T
      OBVIOUS
    <3>3. PICK at \in [1..n -> U] : Increasing(at)
      BY <1>1, <3>2
    <3>4. n \in Nat /\ Cardinality(T) = n + 1
      <4>1. Cardinality(T) \in Nat /\ n \in Nat
        BY <2>1, FS_Subset, FS_CardinalityType
      <4>2. n = Cardinality(T) - 1
        BY <2>1, FS_RemoveElement
      <4>. QED
        BY <4>1, <4>2
    <3> HIDE DEF n
    <3> DEFINE new == [j \in 1..(n + 1) |-> IF j <= n THEN at[j] ELSE m]
    <3>5. ASSUME NEW j \in 1..(n + 1)
          PROVE  /\ new[j] \in T
                 /\ j <= n => new[j] = at[j] /\ at[j] \in U /\ j \in 1..n
                 /\ ~ (j <= n) => new[j] = m /\ j = n + 1
      BY <3>4
    <3>6. \A x \in U : x < m
      BY <3>1
    <3>7. Increasing(new)
      <4>1. ASSUME NEW j \in 1..(n + 1), NEW k \in 1..(n + 1), j < k
            PROVE  new[j] < new[k]
        <5>1. j <= n
          BY <3>4, <4>1
        <5>2. CASE k <= n
          <6>1. at[j] < at[k]
            BY <3>3, <3>5, <4>1, <5>1, <5>2 DEF Increasing
          <6>. QED
            BY <3>5, <5>1, <5>2, <6>1
        <5>3. CASE ~ (k <= n)
          <6>1. new[j] \in U /\ new[k] = m
            BY <3>5, <5>1, <5>3
          <6>. QED
            BY <3>6, <6>1
        <5>. QED
          BY <5>2, <5>3
      <4>2. DOMAIN new = 1..(n + 1)
        OBVIOUS
      <4> HIDE DEF new
      <4>. QED
        BY <4>1, <4>2 DEF Increasing
    <3>8. new \in [1..Cardinality(T) -> T]
      BY <3>4, <3>5
    <3> HIDE DEF new
    <3>. QED
      BY <3>7, <3>8
  <2>. QED
    BY <2>2, <2>3
<1>2. K \in Good
  <2> HIDE DEF Good
  <2>. QED
    BY <1>1, StrictSubsetInduction
<1>. QED
  BY <1>2

\* Keep has elements of the sequence, at positions of K, none twice.
LEMMA KeepTyped ==
  ASSUME NEW S, NEW s \in Seq(S), NEW K \in SUBSET DOMAIN s
  PROVE  /\ Cardinality(K) \in Nat /\ Cardinality(K) <= Len(s)
         /\ Keep(s, K) \in Seq(S) /\ Len(Keep(s, K)) = Cardinality(K)
         /\ \A j \in 1..Cardinality(K) :
              Ordered(K)[j] \in K /\ Keep(s, K)[j] = s[Ordered(K)[j]]
         /\ \A j, k \in 1..Cardinality(K) : Ordered(K)[j] = Ordered(K)[k] => j = k
<1> DEFINE n == Cardinality(K)
<1>1. IsFiniteSet(DOMAIN s) /\ Cardinality(DOMAIN s) = Len(s) /\ K \in SUBSET Int
  <2>1. DOMAIN s = 1..Len(s) /\ Len(s) \in Nat
    OBVIOUS
  <2>2. PICK m \in Nat : m = Len(s)
    BY <2>1
  <2>3. IsFiniteSet(1..m) /\ Cardinality(1..m) = IF 1 > m THEN 0 ELSE m - 1 + 1
    BY FS_Interval
  <2>4. Cardinality(1..m) = m
    BY <2>3
  <2>. QED
    BY <2>1, <2>2, <2>3, <2>4
<1>2. IsFiniteSet(K) /\ n \in Nat /\ n <= Len(s)
  BY <1>1, FS_Subset, FS_CardinalityType
<1>3. \E at \in [1..n -> K] : \A j, k \in DOMAIN at : j < k => at[j] < at[k]
  BY <1>1, <1>2, OrderExists DEF Increasing
<1>4. Ordered(K) \in [1..n -> K] /\ Increasing(Ordered(K))
  BY <1>3 DEF Ordered, Increasing
<1>5. \A j \in 1..n : Ordered(K)[j] \in K /\ Ordered(K)[j] \in Int
  BY <1>1, <1>4
<1>6. ASSUME NEW j \in 1..n, NEW k \in 1..n, Ordered(K)[j] = Ordered(K)[k]
      PROVE  j = k
  <2>1. ~ (j < k) /\ ~ (k < j)
    BY <1>4, <1>5, <1>6 DEF Increasing
  <2>. QED
    BY <1>2, <2>1
<1>7. /\ Keep(s, K) = [j \in 1..n |-> s[Ordered(K)[j]]]
      /\ \A j \in 1..n : s[Ordered(K)[j]] \in S
  BY <1>5 DEF Keep
<1>8. Keep(s, K) \in Seq(S) /\ Len(Keep(s, K)) = n
  BY <1>2, <1>7
<1>. QED
  BY <1>2, <1>5, <1>6, <1>7, <1>8

LEMMA NewestTyped ==
  ASSUME NEW S, NEW s \in Seq(S), NEW n \in Nat
  PROVE  /\ Newest(s, n) \in Seq(S)
         /\ Len(Newest(s, n)) <= n /\ Len(Newest(s, n)) <= Len(s)
         /\ \A k \in DOMAIN Newest(s, n) : k \in DOMAIN s /\ Newest(s, n)[k] = s[k]
<1> DEFINE m == IF Len(s) < n THEN Len(s) ELSE n
<1>1. m \in Nat /\ m <= n /\ m <= Len(s) /\ Newest(s, n) = SubSeq(s, 1, m)
  BY DEF Newest
<1> HIDE DEF m
<1>2. \A k \in 1..m : k \in DOMAIN s /\ s[k] \in S
  BY <1>1
<1>3. /\ SubSeq(s, 1, m) \in Seq(S)
      /\ Len(SubSeq(s, 1, m)) = m
      /\ \A k \in 1..m : SubSeq(s, 1, m)[k] = s[k]
  BY <1>1, <1>2, SubSeqProperties
<1>4. DOMAIN SubSeq(s, 1, m) = 1..m
  BY <1>3
<1>. QED
  BY <1>1, <1>2, <1>3, <1>4

----------------------------------------------------------------------------
(* The inductive invariant.                                                *)

\* What the form has made sure of in a row of interface i.
Accepted(i, row) ==
  row.byForm /\ row.schedule_cron # <<>> => i \in Batch /\ validate_cron(row.schedule_cron)

\* What a request holds besides its type: the form of an edit has been validated for the
\* interface it is about, and what a bulk retry has left to do is merged.
Validated(r) ==
  r.pc = "editing" => Accepted(r.itf, r.new)
Merged(r) ==
  r.pc = "bulk" => IsInjective(r.todo) /\ ToSet(r.todo) \subseteq r.chosen

ItfSound(table) ==
  /\ table \in [Itf -> Row \cup {Absent}]
  /\ \A i \in Itf : table[i].there => Accepted(i, table[i])
CountsTyped ==
  minute \in 0..Minutes - 1 /\ beat \in 0..MaxQueue /\ queue \in [Itf -> 0..MaxQueue]
LogsTyped == logs \in Seq(Log) /\ Len(logs) <= MaxLogs
RequestsSound ==
  /\ req \in [Worker -> Request]
  /\ \A w \in Worker : Validated(req[w]) /\ Merged(req[w])

DispatchInv ==
  ItfSound(itf) /\ CountsTyped /\ LogsTyped /\ RequestsSound

LEMMA TypesOfInvariant == DispatchInv => TypeOK /\ BulkMerges
<1>. SUFFICES ASSUME DispatchInv PROVE TypeOK /\ BulkMerges
  OBVIOUS
<1>1. logs \in BoundedSeq(Log, MaxLogs)
  BY Bounded, DispatchAssumption DEF DispatchInv, LogsTyped
<1>2. TypeOK
  BY <1>1 DEF DispatchInv, ItfSound, Accepted, CountsTyped, RequestsSound, TypeOK
<1>3. BulkMerges
  BY DEF DispatchInv, RequestsSound, Merged, BulkMerges, Worker
<1>. QED
  BY <1>2, <1>3

LEMMA RequestKinds ==
  ASSUME NEW r \in Request
  PROVE  /\ r.pc = "dispatching" => r \in [pc: {"dispatching"}, todo: SUBSET Itf]
         /\ r.pc = "executing" => r \in [pc: {"executing"}, itf: Itf, scheduled: BOOLEAN]
         /\ r.pc = "toggling" => r \in [pc: {"toggling"}, itf: Itf, old: Row]
         /\ r.pc = "editing" => r \in [pc: {"editing"}, itf: Itf, new: Row]
         /\ r.pc = "bulk" => r \in [pc: {"bulk"}, chosen: SUBSET Itf,
                                    todo: BoundedSeq(Itf, MaxLogs)]
BY DEF Request, Idle

\* A request that is sound itself leaves the others as they are.
LEMMA Going ==
  ASSUME RequestsSound, NEW w \in Worker, NEW r \in Request, Validated(r), Merged(r), Go(w, r)
  PROVE  RequestsSound'
<1>1. req' \in [Worker -> Request]
  BY DEF RequestsSound, Go
<1>2. ASSUME NEW v \in Worker
      PROVE  req'[v] = req[v] \/ req'[v] = r
  BY DEF RequestsSound, Go
<1>3. ASSUME NEW v \in Worker
      PROVE  Validated(req'[v]) /\ Merged(req'[v])
  BY <1>2 DEF RequestsSound
<1>. QED
  BY <1>1, <1>3 DEF RequestsSound

LEMMA Finishing ==
  ASSUME RequestsSound, NEW w \in Worker, Done(w)
  PROVE  RequestsSound'
<1>1. Idle \in Request /\ Idle.pc = "idle"
  BY DEF Request, Idle
<1>2. Validated(Idle) /\ Merged(Idle) /\ Go(w, Idle)
  BY <1>1 DEF Validated, Merged, Done
<1>. QED
  BY <1>1, <1>2, Going

\* Requests that are no edit and no bulk retry have nothing more to them than their type.
LEMMA Otherwise ==
  ASSUME NEW r, r.pc \notin {"editing", "bulk"}
  PROVE  Validated(r) /\ Merged(r)
BY DEF Validated, Merged

\* A log is added.
LEMMA Logging ==
  ASSUME LogsTyped, NEW i \in Itf, NEW ok \in BOOLEAN, Logged(i, ok)
  PROVE  LogsTyped'
<1> DEFINE r == [itf |-> i, ok |-> ok]
           all == <<r>> \o logs
<1>1. MaxLogs \in Nat /\ r \in Log /\ logs \in Seq(Log)
  BY DispatchAssumption DEF Log, LogsTyped
<1> HIDE DEF r
<1>2. all \in Seq(Log)
  BY <1>1
<1>3. logs' = Newest(all, MaxLogs)
  BY DEF Logged, r
<1> HIDE DEF all
<1>4. logs' \in Seq(Log) /\ Len(logs') <= MaxLogs
  BY <1>1, <1>2, <1>3, NewestTyped
<1>. QED
  BY <1>4 DEF LogsTyped

----------------------------------------------------------------------------
(* Which failures a bulk retry starts from, and what it makes of them.     *)

LEMMA OriginalsTyped ==
  ASSUME LogsTyped, NEW o \in Originals
  PROVE  o \in Seq(Log) /\ Len(o) <= MaxLogs
<1> DEFINE failed == {k \in DOMAIN logs : ~ logs[k].ok}
<1>1. /\ Failures \in Seq(Log) /\ Len(Failures) <= Len(logs)
      /\ MaxLogs \in Nat /\ Window \in Nat /\ logs \in Seq(Log) /\ Len(logs) <= MaxLogs
  BY KeepTyped, DispatchAssumption DEF Failures, LogsTyped
<1>2. CASE o = Newest(Failures, Window)
  <2>1. o \in Seq(Log) /\ Len(o) <= Len(Failures)
    BY <1>1, <1>2, NewestTyped
  <2>. QED
    BY <1>1, <2>1
<1>3. ASSUME NEW K \in SUBSET DOMAIN Failures, o = Keep(Failures, K)
      PROVE  o \in Seq(Log) /\ Len(o) <= MaxLogs
  <2>1. o \in Seq(Log) /\ Len(o) <= Len(Failures)
    BY <1>1, <1>3, KeepTyped
  <2>. QED
    BY <1>1, <2>1
<1>. QED
  BY <1>2, <1>3 DEF Originals

\* One execution for each interface of the failures it starts from.
LEMMA TargetsMerged ==
  ASSUME NEW o \in Seq(Log)
  PROVE  /\ Targets(o) \in Seq(Itf) /\ Len(Targets(o)) <= Len(o)
         /\ IsInjective(Targets(o))
         /\ ToSet(Targets(o)) \subseteq {o[k].itf : k \in DOMAIN o}
<1> DEFINE F == Firsts(o)
           n == Cardinality(F)
           kept == Keep(o, F)
           at == Ordered(F)
<1>1. F \in SUBSET DOMAIN o
  BY DEF Firsts
<1>2. /\ n \in Nat /\ n <= Len(o)
      /\ \A j \in 1..n : at[j] \in F /\ kept[j] = o[at[j]]
      /\ \A j, k \in 1..n : at[j] = at[k] => j = k
  BY <1>1, KeepTyped
<1>3. ASSUME NEW j \in F, NEW k \in F, o[j].itf = o[k].itf
      PROVE  j = k
  <2>1. j \in 1..Len(o) /\ k \in 1..Len(o) /\ Len(o) \in Nat
    BY <1>1
  <2>2. ~ (j < k) /\ ~ (k < j)
    BY <1>3, <2>1 DEF Firsts
  <2>. QED
    BY <2>1, <2>2
<1>4. ASSUME NEW j \in DOMAIN o
      PROVE  o[j].itf \in Itf
  <2>1. o[j] \in Log
    OBVIOUS
  <2>. QED
    BY <2>1 DEF Log
<1>5. Targets(o) = [k \in 1..n |-> kept[k].itf]
  BY DEF Targets
<1> HIDE DEF F, n, kept, at
<1>6. /\ DOMAIN Targets(o) = 1..n
      /\ \A k \in 1..n : /\ at[k] \in F /\ at[k] \in DOMAIN o
                         /\ Targets(o)[k] = o[at[k]].itf
                         /\ Targets(o)[k] \in Itf
  BY <1>1, <1>2, <1>4, <1>5
<1>7. Targets(o) \in Seq(Itf) /\ Len(Targets(o)) = n
  BY <1>2, <1>5, <1>6
<1>8. IsInjective(Targets(o))
  <2>1. ASSUME NEW j \in 1..n, NEW k \in 1..n, Targets(o)[j] = Targets(o)[k]
        PROVE  j = k
    <3>1. at[j] = at[k]
      BY <1>3, <1>6, <2>1
    <3>. QED
      BY <1>2, <3>1
  <2>. QED
    BY <1>6, <2>1 DEF IsInjective
<1>9. ToSet(Targets(o)) \subseteq {o[k].itf : k \in DOMAIN o}
  BY <1>6 DEF ToSet
<1>. QED
  BY <1>2, <1>7, <1>8, <1>9

\* The rest of a list without repetitions.
LEMMA TailMerged ==
  ASSUME NEW s \in Seq(Itf), s # <<>>, IsInjective(s), NEW C, ToSet(s) \subseteq C
  PROVE  /\ Tail(s) \in Seq(Itf) /\ Len(Tail(s)) <= Len(s) /\ Head(s) \in Itf
         /\ IsInjective(Tail(s)) /\ ToSet(Tail(s)) \subseteq C
<1>1. /\ Head(s) \in Itf /\ Tail(s) \in Seq(Itf) /\ Len(Tail(s)) = Len(s) - 1
      /\ \A i \in 1..Len(Tail(s)) : Tail(s)[i] = s[i + 1]
  BY HeadTailProperties
<1>2. Len(s) \in Nat /\ DOMAIN Tail(s) = 1..Len(Tail(s)) /\ DOMAIN s = 1..Len(s)
  BY <1>1
<1>3. \A i \in DOMAIN Tail(s) : i \in Int /\ i + 1 \in DOMAIN s /\ Tail(s)[i] = s[i + 1]
  BY <1>1, <1>2
<1>4. IsInjective(Tail(s))
  <2>1. ASSUME NEW i \in DOMAIN Tail(s), NEW j \in DOMAIN Tail(s), Tail(s)[i] = Tail(s)[j]
        PROVE  i = j
    <3>1. i + 1 = j + 1
      BY <1>3, <2>1 DEF IsInjective
    <3>. QED
      BY <1>3, <3>1
  <2>. QED
    BY <2>1 DEF IsInjective
<1>5. ToSet(Tail(s)) \subseteq C
  BY <1>3 DEF ToSet
<1>. QED
  BY <1>1, <1>2, <1>4, <1>5

----------------------------------------------------------------------------
(* Steps.                                                                  *)

\* What the form lets through, and what the admin page writes.
LEMMA FormRowSound ==
  ASSUME NEW i \in Itf, NEW r \in FormRow(i)
  PROVE  r \in Row /\ Accepted(i, r)
<1>1. PICK a \in BOOLEAN, e \in {x \in Cron : validate_cron(x)} \cup {<<>>} :
        r = [there |-> TRUE, is_active |-> a, schedule_cron |-> CleanCron(Protocols(i), e),
             byForm |-> TRUE]
  BY DEF FormRow
<1>2. CleanCron(Protocols(i), e) = IF i \in Batch THEN e ELSE <<>>
  BY DEF CleanCron, Protocols
<1>. QED
  BY <1>1, <1>2 DEF Row, Accepted

LEMMA AdminRowSound ==
  ASSUME NEW i \in Itf, NEW r \in AdminRow(i)
  PROVE  r \in Row /\ Accepted(i, r)
<1> DEFINE written == {x \in Cron \cup {<<>>} : <<i, x>> \in AdminInput}
<1>1. written \subseteq Cron \cup {<<>>}
  OBVIOUS
<1>2. PICK a \in BOOLEAN, e \in written :
        r = [there |-> TRUE, is_active |-> a, schedule_cron |-> e, byForm |-> FALSE]
  <2>1. AdminRow(i) = {[there |-> TRUE, is_active |-> a, schedule_cron |-> e, byForm |-> FALSE] :
                         a \in BOOLEAN, e \in written}
    BY DEF AdminRow
  <2> HIDE DEF written
  <2>. QED
    BY <2>1
<1>. QED
  BY <1>1, <1>2 DEF Row, Accepted

LEMMA RowKinds ==
  ASSUME ItfSound(itf), NEW i \in Itf
  PROVE  /\ itf[i].there \in BOOLEAN
         /\ itf[i].there => itf[i] \in Row
         /\ ~ itf[i].there => itf[i] = Absent
<1>1. itf[i] \in Row \/ itf[i] = Absent
  BY DEF ItfSound
<1>2. Absent.there = FALSE
  BY DEF Absent
<1>3. \A r \in Row : r.there = TRUE
  BY DEF Row
<1>. QED
  BY <1>1, <1>2, <1>3

\* A sound row in its place keeps the table sound.
LEMMA RowStored ==
  ASSUME ItfSound(itf), NEW i \in Itf, NEW r \in Row, Accepted(i, r),
         itf' = [itf EXCEPT ![i] = r]
  PROVE  ItfSound(itf')
<1>1. itf' \in [Itf -> Row \cup {Absent}]
  BY DEF ItfSound
<1>2. \A j \in Itf : itf'[j] = itf[j] \/ (j = i /\ itf'[j] = r)
  BY DEF ItfSound
<1>. QED
  BY <1>1, <1>2 DEF ItfSound

LEMMA DeleteKeepsSound ==
  ASSUME DispatchInv, interface_delete
  PROVE  DispatchInv'
<1>. USE DEF DispatchInv
<1>1. PICK i \in Itf : /\ itf' = [itf EXCEPT ![i] = Absent]
                       /\ logs' = Keep(logs, {k \in DOMAIN logs : logs[k].itf # i})
  BY DEF interface_delete
<1> DEFINE K == {k \in DOMAIN logs : logs[k].itf # i}
<1>2. \A j \in Itf : itf'[j] = IF j = i THEN Absent ELSE itf[j]
  BY <1>1 DEF ItfSound
<1>3. ItfSound(itf')
  BY <1>1, <1>2 DEF ItfSound, Absent
<1>4. /\ Cardinality(K) \in Nat /\ Cardinality(K) <= Len(logs)
      /\ logs' \in Seq(Log) /\ Len(logs') = Cardinality(K)
      /\ \A j \in 1..Cardinality(K) : Ordered(K)[j] \in K /\ logs'[j] = logs[Ordered(K)[j]]
  BY <1>1, KeepTyped DEF LogsTyped
<1> HIDE DEF K
<1>5. LogsTyped'
  BY <1>4, DispatchAssumption DEF LogsTyped
<1>6. CountsTyped' /\ RequestsSound'
  BY DEF interface_delete, CountsTyped, RequestsSound
<1>. QED
  BY <1>3, <1>5, <1>6

LEMMA BulkKeepsSound ==
  ASSUME DispatchInv, NEW w \in Worker, BulkNext(w)
  PROVE  DispatchInv'
<1>. USE DEF DispatchInv
<1> DEFINE r == req[w]
<1>1. /\ r \in [pc: {"bulk"}, chosen: SUBSET Itf, todo: BoundedSeq(Itf, MaxLogs)]
      /\ IsInjective(r.todo) /\ ToSet(r.todo) \subseteq r.chosen
  BY RequestKinds DEF RequestsSound, Merged, BulkNext
<1>2. r.todo \in Seq(Itf) /\ Len(r.todo) <= MaxLogs
  BY <1>1, Bounded, DispatchAssumption
<1>3. ItfSound(itf') /\ CountsTyped'
  BY DEF BulkNext, CountsTyped
<1>4. CASE r.todo = <<>> \/ ~ itf[Head(r.todo)].there
  <2>1. Done(w) /\ UNCHANGED <<itf, logs>>
    BY <1>4 DEF BulkNext
  <2>2. RequestsSound'
    BY <2>1, Finishing
  <2>. QED
    BY <1>3, <2>1, <2>2 DEF LogsTyped
<1>5. CASE ~ (r.todo = <<>> \/ ~ itf[Head(r.todo)].there)
  <2> DEFINE new == [r EXCEPT !.todo = Tail(@)]
  <2>1. PICK ok \in BOOLEAN : Logged(Head(r.todo), ok)
    BY <1>5 DEF BulkNext
  <2>2. Go(w, new) /\ UNCHANGED itf /\ r.todo # <<>> /\ itf[Head(r.todo)].there
    BY <1>5 DEF BulkNext
  <2>3. /\ Tail(r.todo) \in Seq(Itf) /\ Len(Tail(r.todo)) <= Len(r.todo)
        /\ Head(r.todo) \in Itf
        /\ IsInjective(Tail(r.todo)) /\ ToSet(Tail(r.todo)) \subseteq r.chosen
    BY <1>1, <1>2, <2>2, TailMerged
  <2>4. LogsTyped'
    BY <2>1, <2>3, Logging
  <2>5. Len(Tail(r.todo)) <= MaxLogs
    BY <1>2, <2>3, DispatchAssumption
  <2>6. Tail(r.todo) \in BoundedSeq(Itf, MaxLogs)
    BY <2>3, <2>5, Bounded, DispatchAssumption
  <2>7. /\ new \in [pc: {"bulk"}, chosen: SUBSET Itf, todo: BoundedSeq(Itf, MaxLogs)]
        /\ new.pc = "bulk" /\ new.todo = Tail(r.todo) /\ new.chosen = r.chosen
    BY <1>1, <2>6
  <2> HIDE DEF new
  <2>8. new \in Request
    BY <2>7 DEF Request
  <2>9. Validated(new) /\ Merged(new)
    BY <2>3, <2>7 DEF Validated, Merged
  <2>10. RequestsSound'
    BY <2>2, <2>8, <2>9, Going
  <2>. QED
    BY <1>3, <2>4, <2>10
<1>. QED
  BY <1>4, <1>5

\* What is left when a step changes neither the table of interfaces nor the logs.
LEMMA Elsewhere ==
  ASSUME DispatchInv, UNCHANGED <<itf, logs>>, CountsTyped', RequestsSound'
  PROVE  DispatchInv'
BY DEF DispatchInv, LogsTyped

LEMMA CountsKept ==
  ASSUME DispatchInv, UNCHANGED <<minute, beat, queue>>
  PROVE  CountsTyped'
BY DEF DispatchInv, CountsTyped

\* The tasks.
LEMMA TaskKeepsSound ==
  ASSUME DispatchInv, NEW w \in Worker,
         dispatch_interfaces(w) \/ Delay(w) \/ (\E i \in Itf : run_interface(w, i))
  PROVE  DispatchInv'
<1>. USE DEF DispatchInv
<1>1. CASE dispatch_interfaces(w)
  <2> DEFINE due == {i \in Itf : /\ itf[i].there /\ itf[i].is_active
                                 /\ _cron_matches(itf[i].schedule_cron, minute)}
             r == [pc |-> "dispatching", todo |-> due]
  <2>1. Go(w, r)
    BY <1>1 DEF dispatch_interfaces, Begin, Go
  <2>2. due \in SUBSET Itf
    OBVIOUS
  <2> HIDE DEF due
  <2>3. r \in Request /\ r.pc \notin {"editing", "bulk"}
    BY <2>2 DEF Request
  <2> HIDE DEF r
  <2>4. RequestsSound'
    BY <2>1, <2>3, Going, Otherwise
  <2>5. CountsTyped'
    BY <1>1, DispatchAssumption DEF dispatch_interfaces, CountsTyped
  <2>. QED
    BY <1>1, <2>4, <2>5, Elsewhere DEF dispatch_interfaces
<1>2. ASSUME NEW i \in Itf, run_interface(w, i)
      PROVE  DispatchInv'
  <2>1. CountsTyped'
    BY <1>2, DispatchAssumption DEF run_interface, CountsTyped
  <2> DEFINE r == [pc |-> "executing", itf |-> i, scheduled |-> TRUE]
  <2>2. Go(w, r) \/ UNCHANGED req
    BY <1>2 DEF run_interface
  <2>3. r \in Request /\ r.pc \notin {"editing", "bulk"}
    BY DEF Request
  <2> HIDE DEF r
  <2>4. RequestsSound'
    <3>1. CASE Go(w, r)
      BY <2>3, <3>1, Going, Otherwise
    <3>2. CASE UNCHANGED req
      BY <3>2 DEF RequestsSound
    <3>. QED
      BY <2>2, <3>1, <3>2
  <2>5. UNCHANGED <<itf, logs>>
    BY <1>2 DEF run_interface
  <2>. QED
    BY <2>1, <2>4, <2>5, Elsewhere
<1>3. CASE Delay(w)
  <2>1. req[w] \in [pc: {"dispatching"}, todo: SUBSET Itf]
    BY <1>3, RequestKinds DEF Delay, RequestsSound
  <2>2. ASSUME NEW i \in req[w].todo,
               queue' = [queue EXCEPT ![i] = IF @ < MaxQueue THEN @ + 1 ELSE @],
               Go(w, [req[w] EXCEPT !.todo = @ \ {i}])
        PROVE  CountsTyped' /\ RequestsSound'
    <3> DEFINE r == [req[w] EXCEPT !.todo = @ \ {i}]
    <3>1. i \in Itf
      BY <2>1
    <3>2. CountsTyped'
      BY <1>3, <2>2, <3>1, DispatchAssumption DEF Delay, CountsTyped
    <3>3. r \in [pc: {"dispatching"}, todo: SUBSET Itf]
      BY <2>1
    <3> HIDE DEF r
    <3>4. r \in Request /\ r.pc \notin {"editing", "bulk"}
      BY <3>3 DEF Request
    <3>5. Go(w, r)
      BY <2>2 DEF r
    <3>6. RequestsSound'
      BY <3>4, <3>5, Going, Otherwise
    <3>. QED
      BY <3>2, <3>6
  <2>3. ASSUME Done(w), UNCHANGED queue
        PROVE  CountsTyped' /\ RequestsSound'
    BY <1>3, <2>3, Finishing DEF Delay, CountsTyped
  <2>4. CountsTyped' /\ RequestsSound'
    BY <1>3, <2>2, <2>3 DEF Delay
  <2>5. UNCHANGED <<itf, logs>>
    BY <1>3 DEF Delay
  <2>. QED
    BY <2>4, <2>5, Elsewhere
<1>. QED
  BY <1>1, <1>2, <1>3

\* What executes a single interface: ending an execution, and beginning one from the screens.
LEMMA ExecutionKeepsSound ==
  ASSUME DispatchInv, NEW w \in Worker, ExecuteEnds(w) \/ interface_run(w) \/ log_retry(w)
  PROVE  DispatchInv'
<1>. USE DEF DispatchInv
<1>1. UNCHANGED <<itf, minute, beat, queue>>
  BY DEF ExecuteEnds, interface_run, log_retry
<1>2. CountsTyped'
  BY <1>1, CountsKept
<1>3. CASE ExecuteEnds(w)
  <2> DEFINE i == req[w].itf
  <2>1. i \in Itf
    BY <1>3, RequestKinds DEF ExecuteEnds, RequestsSound
  <2>2. RequestsSound'
    BY <1>3, Finishing DEF ExecuteEnds
  <2>3. LogsTyped'
    <3>1. CASE itf[i].there
      <4>1. PICK ok \in BOOLEAN : Logged(i, ok)
        BY <1>3, <3>1 DEF ExecuteEnds
      <4> HIDE DEF i
      <4>. QED
        BY <2>1, <4>1, Logging
    <3>2. CASE ~ itf[i].there
      BY <1>3, <3>2 DEF ExecuteEnds, LogsTyped
    <3>. QED
      BY <3>1, <3>2
  <2>. QED
    BY <1>1, <1>2, <2>2, <2>3
<1>4. ASSUME NEW i \in Itf, Begin(w, [pc |-> "executing", itf |-> i, scheduled |-> FALSE])
      PROVE  RequestsSound'
  <2> DEFINE r == [pc |-> "executing", itf |-> i, scheduled |-> FALSE]
  <2>1. r \in Request /\ r.pc \notin {"editing", "bulk"} /\ Go(w, r)
    BY <1>4 DEF Request, Begin, Go
  <2> HIDE DEF r
  <2>. QED
    BY <2>1, Going, Otherwise
<1>5. CASE interface_run(w)
  <2>1. RequestsSound' /\ UNCHANGED logs
    BY <1>4, <1>5 DEF interface_run
  <2>. QED
    BY <1>1, <1>2, <2>1, Elsewhere
<1>6. CASE log_retry(w)
  <2>1. PICK k \in DOMAIN logs :
          Begin(w, [pc |-> "executing", itf |-> logs[k].itf, scheduled |-> FALSE])
    BY <1>6 DEF log_retry
  <2>2. logs[k] \in Log
    BY DEF LogsTyped
  <2>3. logs[k].itf \in Itf /\ UNCHANGED logs
    BY <1>6, <2>2 DEF Log, log_retry
  <2>4. RequestsSound'
    BY <1>4, <2>1, <2>3
  <2>. QED
    BY <1>1, <1>2, <2>3, <2>4, Elsewhere
<1>. QED
  BY <1>3, <1>5, <1>6

\* A bulk retry begins with each interface once.
LEMMA RetryKeepsSound ==
  ASSUME DispatchInv, NEW w \in Worker, log_retry_bulk(w)
  PROVE  DispatchInv'
<1>. USE DEF DispatchInv
<1>1. PICK o \in Originals :
        Begin(w, [pc |-> "bulk", todo |-> Targets(o), chosen |-> {o[k].itf : k \in DOMAIN o}])
  BY DEF log_retry_bulk
<1> DEFINE chosen == {o[k].itf : k \in DOMAIN o}
           r == [pc |-> "bulk", todo |-> Targets(o), chosen |-> chosen]
<1>2. o \in Seq(Log) /\ Len(o) <= MaxLogs
  BY OriginalsTyped
<1>3. /\ Targets(o) \in Seq(Itf) /\ Len(Targets(o)) <= Len(o)
      /\ IsInjective(Targets(o)) /\ ToSet(Targets(o)) \subseteq chosen
  BY <1>2, TargetsMerged
<1>4. chosen \in SUBSET Itf
  <2>1. \A k \in DOMAIN o : o[k] \in Log
    BY <1>2
  <2>. QED
    BY <2>1 DEF Log
<1> HIDE DEF chosen
<1>5. Targets(o) \in BoundedSeq(Itf, MaxLogs)
  <2>1. Len(Targets(o)) <= MaxLogs
    BY <1>2, <1>3, DispatchAssumption
  <2>. QED
    BY <1>3, <2>1, Bounded, DispatchAssumption
<1>6. r \in Request /\ r.pc = "bulk" /\ r.todo = Targets(o) /\ r.chosen = chosen
  BY <1>4, <1>5 DEF Request
<1>7. Go(w, r)
  BY <1>1 DEF Begin, Go, chosen
<1> HIDE DEF r
<1>8. Validated(r) /\ Merged(r)
  BY <1>3, <1>6 DEF Validated, Merged
<1>9. RequestsSound'
  BY <1>6, <1>7, <1>8, Going
<1>10. UNCHANGED <<itf, logs>> /\ CountsTyped'
  BY CountsKept DEF log_retry_bulk
<1>. QED
  BY <1>9, <1>10, Elsewhere

\* Creating and editing an interface, in its two steps.
LEMMA EditKeepsSound ==
  ASSUME DispatchInv,
         interface_create \/ \E w \in Worker : interface_update(w) \/ SaveEdit(w)
  PROVE  DispatchInv'
<1>. USE DEF DispatchInv
<1>1. CountsTyped' /\ UNCHANGED logs
  BY CountsKept DEF interface_create, interface_update, SaveEdit
<1>2. CASE interface_create
  <2>1. PICK i \in Itf : \E r \in FormRow(i) \cup AdminRow(i) : itf' = [itf EXCEPT ![i] = r]
    BY <1>2 DEF interface_create
  <2>2. PICK r \in FormRow(i) \cup AdminRow(i) : itf' = [itf EXCEPT ![i] = r]
    BY <2>1
  <2>3. r \in Row /\ Accepted(i, r)
    BY FormRowSound, AdminRowSound
  <2>4. ItfSound(itf')
    BY <2>2, <2>3, RowStored
  <2>. QED
    BY <1>1, <1>2, <2>4 DEF interface_create, LogsTyped, RequestsSound
<1>3. ASSUME NEW w \in Worker, interface_update(w)
      PROVE  DispatchInv'
  <2>1. PICK i \in Itf :
          \E form \in FormRow(i) \cup AdminRow(i) :
            Begin(w, [pc |-> "editing", itf |-> i, new |-> form])
    BY <1>3 DEF interface_update
  <2>2. PICK form \in FormRow(i) \cup AdminRow(i) :
          Begin(w, [pc |-> "editing", itf |-> i, new |-> form])
    BY <2>1
  <2> DEFINE r == [pc |-> "editing", itf |-> i, new |-> form]
  <2>3. form \in Row /\ Accepted(i, form)
    BY FormRowSound, AdminRowSound
  <2>4. r \in Request /\ r.pc = "editing" /\ r.itf = i /\ r.new = form /\ Go(w, r)
    BY <2>2, <2>3 DEF Request, Begin, Go
  <2> HIDE DEF r
  <2>5. Validated(r) /\ Merged(r)
    BY <2>3, <2>4 DEF Validated, Merged
  <2>6. RequestsSound' /\ UNCHANGED <<itf, logs>>
    BY <1>3, <2>4, <2>5, Going DEF interface_update
  <2>. QED
    BY <1>1, <2>6, Elsewhere
<1>4. ASSUME NEW w \in Worker, SaveEdit(w)
      PROVE  DispatchInv'
  <2> DEFINE i == req[w].itf
             r == req[w].new
  <2>1. req[w] \in [pc: {"editing"}, itf: Itf, new: Row] /\ Validated(req[w])
    BY <1>4, RequestKinds DEF SaveEdit, RequestsSound
  <2>2. i \in Itf /\ r \in Row /\ Accepted(i, r)
    BY <2>1 DEF Validated
  <2>3. itf' = [itf EXCEPT ![i] = r] /\ Done(w)
    BY <1>4 DEF SaveEdit
  <2> HIDE DEF i, r
  <2>4. ItfSound(itf')
    BY <2>2, <2>3, RowStored
  <2>5. RequestsSound'
    BY <2>3, Finishing
  <2>. QED
    BY <1>1, <2>4, <2>5 DEF LogsTyped
<1>. QED
  BY <1>2, <1>3, <1>4

\* Switching an interface, in its two steps.
LEMMA ToggleKeepsSound ==
  ASSUME DispatchInv, NEW w \in Worker, interface_toggle(w) \/ SaveToggle(w)
  PROVE  DispatchInv'
<1>. USE DEF DispatchInv
<1>1. CountsTyped' /\ UNCHANGED logs
  BY CountsKept DEF interface_toggle, SaveToggle
<1>2. CASE interface_toggle(w)
  <2>1. PICK i \in Itf :
          itf[i].there /\ Begin(w, [pc |-> "toggling", itf |-> i, old |-> itf[i]])
    BY <1>2 DEF interface_toggle
  <2> DEFINE r == [pc |-> "toggling", itf |-> i, old |-> itf[i]]
  <2>2. itf[i] \in Row
    BY <2>1, RowKinds
  <2>3. r \in Request /\ r.pc \notin {"editing", "bulk"} /\ Go(w, r)
    BY <2>1, <2>2 DEF Request, Begin, Go
  <2> HIDE DEF r
  <2>4. RequestsSound' /\ UNCHANGED <<itf, logs>>
    BY <1>2, <2>3, Going, Otherwise DEF interface_toggle
  <2>. QED
    BY <1>1, <2>4, Elsewhere
<1>3. CASE SaveToggle(w)
  <2> DEFINE i == req[w].itf
             on == ~ req[w].old.is_active
             r == [itf[i] EXCEPT !.is_active = on]
  <2>1. req[w] \in [pc: {"toggling"}, itf: Itf, old: Row]
    BY <1>3, RequestKinds DEF SaveToggle, RequestsSound
  <2>2. i \in Itf /\ on \in BOOLEAN /\ Done(w)
    BY <1>3, <2>1 DEF Row, SaveToggle
  <2>3. RequestsSound'
    BY <2>2, Finishing
  <2>4. ItfSound(itf')
    <3>1. CASE itf[i].there
      <4>1. itf' = [itf EXCEPT ![i] = r]
        BY <1>3, <2>2, <3>1 DEF SaveToggle, ItfSound
      <4>2. itf[i] \in Row
        BY <2>2, <3>1, RowKinds
      <4>3. /\ r \in Row
            /\ r.schedule_cron = itf[i].schedule_cron /\ r.byForm = itf[i].byForm
        BY <2>2, <4>2 DEF Row
      <4>4. Accepted(i, r)
        BY <2>2, <3>1, <4>3 DEF ItfSound, Accepted
      <4> HIDE DEF i, r
      <4>. QED
        BY <2>2, <4>1, <4>3, <4>4, RowStored
    <3>2. CASE ~ itf[i].there
      BY <1>3, <3>2 DEF SaveToggle
    <3>. QED
      BY <3>1, <3>2
  <2>. QED
    BY <1>1, <2>3, <2>4 DEF LogsTyped
<1>. QED
  BY <1>2, <1>3

\* Logs deleted, added and rewritten on the admin page.
LEMMA AdminKeepsSound ==
  ASSUME DispatchInv, InterfaceLogAdmin
  PROVE  DispatchInv'
<1>. USE DEF DispatchInv
<1>1. UNCHANGED <<itf, minute, beat, queue, req>>
  BY DEF InterfaceLogAdmin
<1>2. ASSUME NEW K \in SUBSET DOMAIN logs, logs' = Keep(logs, K)
      PROVE  LogsTyped'
  <2>1. /\ logs' \in Seq(Log) /\ Len(logs') = Cardinality(K)
        /\ Cardinality(K) \in Nat /\ Cardinality(K) <= Len(logs)
    BY <1>2, KeepTyped DEF LogsTyped
  <2>. QED
    BY <2>1, DispatchAssumption DEF LogsTyped
<1>3. ASSUME NEW i \in Itf, NEW ok \in BOOLEAN, NEW k \in DOMAIN logs,
             logs' = [logs EXCEPT ![k] = [itf |-> i, ok |-> ok]]
      PROVE  LogsTyped'
  <2>1. [itf |-> i, ok |-> ok] \in Log
    BY DEF Log
  <2>. QED
    BY <1>3, <2>1 DEF LogsTyped
<1>4. LogsTyped'
  BY <1>2, <1>3, Logging DEF InterfaceLogAdmin
<1>. QED
  BY <1>1, <1>4, CountsKept DEF RequestsSound

\* Time, the cleaning up of old logs, and the death of a process.
LEMMA RestKeepsSound ==
  ASSUME DispatchInv, Tick \/ cleanup_old_logs \/ \E w \in Worker : WorkerDies(w)
  PROVE  DispatchInv'
<1>. USE DEF DispatchInv
<1>1. CASE Tick
  <2>1. CountsTyped' /\ UNCHANGED <<itf, logs, req>>
    BY <1>1, DispatchAssumption DEF Tick, CountsTyped
  <2>. QED
    BY <2>1, Elsewhere DEF RequestsSound
<1>2. CASE cleanup_old_logs
  <2>1. PICK n \in 0..Len(logs) - 1 : logs' = SubSeq(logs, 1, n)
    BY <1>2 DEF cleanup_old_logs
  <2>2. n \in Nat /\ n <= Len(logs) /\ logs \in Seq(Log)
    BY <2>1 DEF LogsTyped
  <2>3. \A k \in 1..n : k \in DOMAIN logs /\ logs[k] \in Log
    BY <2>2
  <2>4. /\ SubSeq(logs, 1, n) \in Seq(Log) /\ Len(SubSeq(logs, 1, n)) = n
        /\ \A k \in 1..n : SubSeq(logs, 1, n)[k] = logs[k]
    BY <2>2, <2>3, SubSeqProperties
  <2>5. logs' \in Seq(Log) /\ Len(logs') = n /\ \A k \in 1..n : logs'[k] = logs[k]
    BY <2>1, <2>4
  <2>6. LogsTyped'
    BY <2>2, <2>5, DispatchAssumption DEF LogsTyped
  <2>7. UNCHANGED <<itf, minute, beat, queue, req>>
    BY <1>2 DEF cleanup_old_logs
  <2>. QED
    BY <2>6, <2>7, CountsKept DEF RequestsSound
<1>3. ASSUME NEW w \in Worker, WorkerDies(w)
      PROVE  DispatchInv'
  <2>1. RequestsSound' /\ UNCHANGED <<itf, minute, beat, queue, logs>>
    BY <1>3, Finishing DEF WorkerDies
  <2>. QED
    BY <2>1, CountsKept, Elsewhere
<1>. QED
  BY <1>1, <1>2, <1>3

----------------------------------------------------------------------------
(* The theorems.                                                           *)

LEMMA InitSound == Init => DispatchInv
<1>. SUFFICES ASSUME Init PROVE DispatchInv
  OBVIOUS
<1>1. ItfSound(itf)
  BY DEF Init, ItfSound, Absent
<1>2. CountsTyped
  BY DispatchAssumption DEF Init, CountsTyped
<1>3. LogsTyped
  BY DispatchAssumption DEF Init, LogsTyped
<1>4. RequestsSound
  BY DEF Init, RequestsSound, Request, Idle, Validated, Merged
<1>. QED
  BY <1>1, <1>2, <1>3, <1>4 DEF DispatchInv

LEMMA StepSound == DispatchInv /\ [Next]_vars => DispatchInv'
<1>. SUFFICES ASSUME DispatchInv, [Next]_vars PROVE DispatchInv'
  OBVIOUS
<1>. Celery \subseteq Worker /\ Web \subseteq Worker
  BY DEF Worker
<1>1. CASE Tick \/ cleanup_old_logs \/ \E w \in Worker : WorkerDies(w)
  BY <1>1, RestKeepsSound
<1>2. CASE interface_create
  BY <1>2, EditKeepsSound
<1>3. CASE interface_delete
  BY <1>3, DeleteKeepsSound
<1>4. ASSUME NEW w \in Celery, dispatch_interfaces(w) \/ \E i \in Itf : run_interface(w, i)
      PROVE  DispatchInv'
  BY <1>4, TaskKeepsSound
<1>5. ASSUME NEW w \in Web,
             \/ interface_update(w) \/ interface_toggle(w) \/ interface_run(w)
             \/ log_retry(w) \/ log_retry_bulk(w)
      PROVE  DispatchInv'
  BY <1>5, EditKeepsSound, ToggleKeepsSound, ExecutionKeepsSound, RetryKeepsSound
<1>6. ASSUME NEW w \in Worker, Proceed(w)
      PROVE  DispatchInv'
  BY <1>6, TaskKeepsSound, ExecutionKeepsSound, EditKeepsSound, ToggleKeepsSound,
     BulkKeepsSound DEF Proceed
<1>7. CASE UNCHANGED vars
  BY <1>7, CountsKept, Elsewhere DEF vars, DispatchInv, RequestsSound
<1>8. CASE InterfaceLogAdmin
  BY <1>8, AdminKeepsSound
<1>. QED
  BY <1>1, <1>2, <1>3, <1>4, <1>5, <1>6, <1>7, <1>8 DEF Next

THEOREM DispatchInvariant == Spec => []DispatchInv
<1>. QED
  BY InitSound, StepSound, PTL DEF Spec

\* Requests hold what the code gives them, and a schedule that the form wrote last, and no save
\* of the admin page since, has its numbers in range and belongs to an interface of a protocol
\* with schedules, whatever edits overlap (forms.py 29-41, 256-276).
THEOREM TypeCorrect == Spec => []TypeOK
<1>. QED
  BY DispatchInvariant, TypesOfInvariant, PTL

\* A bulk retry executes no interface twice and none without a failure (views.py 174-215).
THEOREM BulkHolds == Spec => []BulkMerges
<1>. QED
  BY DispatchInvariant, TypesOfInvariant, PTL

----------------------------------------------------------------------------
(* What a toggle leaves alone.                                             *)

\* A request ends by a step of its own process: the others begin requests of idle processes and
\* go on with their own.
LEMMA EndsByItself ==
  ASSUME DispatchInv, Next, NEW w \in Web, req[w].pc = "toggling", req'[w] = Idle
  PROVE  SaveToggle(w) \/ WorkerDies(w)
<1>. USE DEF DispatchInv
<1>1. w \in Worker /\ req \in [Worker -> Request] /\ req[w] # Idle
  BY DEF Worker, RequestsSound, Idle
<1>2. ASSUME NEW v \in Worker, NEW r, Go(v, r), v # w
      PROVE  FALSE
  BY <1>1, <1>2 DEF Go
<1>3. ASSUME NEW v \in Worker, NEW r, Begin(v, r)
      PROVE  FALSE
  <2>1. req[v] = Idle /\ Go(v, r)
    BY <1>3 DEF Begin, Go
  <2>. QED
    BY <1>1, <1>2, <2>1
<1>4. req' # req
  BY <1>1
<1>5. ASSUME NEW v \in Worker, v # w, Proceed(v) \/ WorkerDies(v)
      PROVE  FALSE
  <2>1. \E r : Go(v, r)
    BY <1>5 DEF Proceed, Delay, ExecuteEnds, SaveEdit, SaveToggle, BulkNext, WorkerDies, Done
  <2>. QED
    BY <1>2, <1>5, <2>1
<1>6. ASSUME Proceed(w)
      PROVE  SaveToggle(w)
  BY <1>6 DEF Proceed, Delay, ExecuteEnds, SaveEdit, BulkNext
<1>7. ASSUME NEW v \in Celery, dispatch_interfaces(v) \/ \E i \in Itf : run_interface(v, i)
      PROVE  FALSE
  <2>1. v \in Worker
    BY DEF Worker
  <2>2. CASE dispatch_interfaces(v)
    BY <1>3, <2>1, <2>2 DEF dispatch_interfaces
  <2>3. ASSUME NEW i \in Itf, run_interface(v, i)
        PROVE  FALSE
    <3>1. /\ req[v] = Idle
          /\ Go(v, [pc |-> "executing", itf |-> i, scheduled |-> TRUE])
      BY <1>4, <2>3 DEF run_interface
    <3>. QED
      BY <1>1, <1>2, <2>1, <3>1
  <2>. QED
    BY <1>7, <2>2, <2>3
<1>8. ASSUME NEW v \in Web,
             \/ interface_update(v) \/ interface_toggle(v) \/ interface_run(v)
             \/ log_retry(v) \/ log_retry_bulk(v)
      PROVE  FALSE
  <2>1. \E r : Begin(v, r)
    BY <1>8 DEF interface_update, interface_toggle, interface_run, log_retry, log_retry_bulk
  <2>. QED
    BY <1>3, <2>1 DEF Worker
<1>9. Tick \/ cleanup_old_logs \/ InterfaceLogAdmin \/ interface_create \/ interface_delete => FALSE
  BY <1>4 DEF Tick, cleanup_old_logs, InterfaceLogAdmin, interface_create, interface_delete
<1>. QED
  BY <1>5, <1>6, <1>7, <1>8, <1>9 DEF Next

\* A toggle writes one column of the row it read, and none of a row that is gone.
LEMMA SaveToggleWrites ==
  ASSUME DispatchInv, NEW w \in Web, SaveToggle(w), NEW i \in Itf
  PROVE  /\ itf'[i].there <=> itf[i].there
         /\ itf[i].there => itf'[i].schedule_cron = itf[i].schedule_cron
<1>. USE DEF DispatchInv
<1> DEFINE j == req[w].itf
           on == ~ req[w].old.is_active
<1>1. j \in Itf
  BY RequestKinds DEF SaveToggle, RequestsSound, Worker
<1>2. CASE ~ itf[j].there
  BY <1>2 DEF SaveToggle
<1>3. CASE itf[j].there
  <2>1. itf' = [itf EXCEPT ![j].is_active = on]
    BY <1>3 DEF SaveToggle
  <2>2. itf[j] \in Row
    BY <1>1, <1>3, RowKinds
  <2>3. /\ itf'[j] = [itf[j] EXCEPT !.is_active = on]
        /\ i # j => itf'[i] = itf[i]
    BY <1>1, <2>1 DEF ItfSound
  <2>4. /\ itf'[j].there = itf[j].there
        /\ itf'[j].schedule_cron = itf[j].schedule_cron
    BY <2>2, <2>3 DEF Row
  <2>. QED
    BY <2>3, <2>4
<1>. QED
  BY <1>2, <1>3

\* Switching an interface on or off undoes no edit saved since it was read, and brings back no
\* interface that was deleted (views.py 143-152).
THEOREM ToggleHolds == Spec => ToggleUndoesNothing
<1>1. ASSUME DispatchInv, Next, NEW w \in Web, req[w].pc = "toggling", req'[w] = Idle, NEW i \in Itf
      PROVE  /\ itf'[i].there <=> itf[i].there
             /\ itf[i].there => itf'[i].schedule_cron = itf[i].schedule_cron
  <2>1. SaveToggle(w) \/ WorkerDies(w)
    BY <1>1, EndsByItself
  <2>2. CASE SaveToggle(w)
    BY <1>1, <2>2, SaveToggleWrites
  <2>3. CASE WorkerDies(w)
    BY <2>3 DEF WorkerDies
  <2>. QED
    BY <2>1, <2>2, <2>3
<1>2. DispatchInv /\ [Next]_vars =>
        [\A w \in Web : req[w].pc = "toggling" /\ req'[w] = Idle => SwitchedOnly]_vars
  BY <1>1 DEF SwitchedOnly
<1>. QED
  BY <1>2, DispatchInvariant, PTL DEF Spec, ToggleUndoesNothing
=============================================================================
