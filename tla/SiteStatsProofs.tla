-------------------------- MODULE SiteStatsProofs --------------------------
(***************************************************************************)
(* Proofs about JobConfig and SiteStats: requests are honoured whatever    *)
(* is asked for, and bans are earned, lengthen and are served whatever     *)
(* sites, windows and caps are configured and wherever the driver is       *)
(* restarted.                                                              *)
(***************************************************************************)
EXTENDS SiteStats, FiniteSetTheorems, FunctionTheorems, TLAPS

-----------------------------------------------------------------------------
(***************************************************************************)
(* Cores and memory.                                                       *)
(***************************************************************************)

\* _crab_cores_up: a count CRAB accepts, that is enough if any is.
LEMMA CoresUp ==
  ASSUME NEW n \in Int
  PROVE  /\ crab_cores_up(n) \in CRAB_ALLOWED_CORES
         /\ crab_cores_up(n) >= n \/ crab_cores_up(n) = 8
<1> DEFINE P(c) == /\ c >= n \/ c = 8
                   /\ \A d \in CRAB_ALLOWED_CORES : d >= n => c <= d
<1>1. \E c \in CRAB_ALLOWED_CORES : P(c)
  <2>1. CASE n <= 1
    <3>1. P(1)  BY <2>1 DEF CRAB_ALLOWED_CORES
    <3> QED  BY <3>1 DEF CRAB_ALLOWED_CORES
  <2>2. CASE n = 2
    <3>1. P(2)  BY <2>2 DEF CRAB_ALLOWED_CORES
    <3> QED  BY <3>1 DEF CRAB_ALLOWED_CORES
  <2>3. CASE n \in {3, 4}
    <3>1. P(4)  BY <2>3 DEF CRAB_ALLOWED_CORES
    <3> QED  BY <3>1 DEF CRAB_ALLOWED_CORES
  <2>4. CASE n > 4
    <3>1. P(8)  BY <2>4 DEF CRAB_ALLOWED_CORES
    <3> QED  BY <3>1 DEF CRAB_ALLOWED_CORES
  <2> QED  BY <2>1, <2>2, <2>3, <2>4
<1> QED  BY <1>1 DEF crab_cores_up

\* _crab_cores_down: a count CRAB accepts within the cap.
LEMMA CoresDown ==
  ASSUME NEW n \in Int, n >= 1
  PROVE  crab_cores_down(n) \in CRAB_ALLOWED_CORES /\ crab_cores_down(n) <= n
<1> DEFINE P(c) == /\ c <= n \/ c = 1
                   /\ \A d \in CRAB_ALLOWED_CORES : d <= n => c >= d
<1>1. \E c \in CRAB_ALLOWED_CORES : P(c)
  <2>1. CASE n = 1
    <3>1. P(1)  BY <2>1 DEF CRAB_ALLOWED_CORES
    <3> QED  BY <3>1 DEF CRAB_ALLOWED_CORES
  <2>2. CASE n \in {2, 3}
    <3>1. P(2)  BY <2>2 DEF CRAB_ALLOWED_CORES
    <3> QED  BY <3>1 DEF CRAB_ALLOWED_CORES
  <2>3. CASE n \in 4..7
    <3>1. P(4)  BY <2>3 DEF CRAB_ALLOWED_CORES
    <3> QED  BY <3>1 DEF CRAB_ALLOWED_CORES
  <2>4. CASE n >= 8
    <3>1. P(8)  BY <2>4 DEF CRAB_ALLOWED_CORES
    <3> QED  BY <3>1 DEF CRAB_ALLOWED_CORES
  <2> QED  BY <2>1, <2>2, <2>3, <2>4
<1> QED  BY <1>1 DEF crab_cores_down

\* The cores a memory request needs are enough for it.
LEMMA CoresSuffice ==
  ASSUME NEW mem \in Int
  PROVE  CoresFor(mem) \in Int /\ CoresFor(mem) * CRAB_MB_PER_CORE >= mem
<1> DEFINE M == CRAB_MB_PER_CORE
<1>1. M \in Nat \ {0}  BY MemoryAssumption
<1> HIDE DEF M
<1> DEFINE a == mem + M - 1
<1>2. a \in Int  BY <1>1
<1>3. a = M * (a \div M) + (a % M) /\ a \div M \in Int  BY <1>1, <1>2
<1>4. a % M \in 0..(M - 1)  BY <1>1, <1>2
<1>5. M * (a \div M) >= mem  BY <1>1, <1>3, <1>4
<1> QED  BY <1>1, <1>3, <1>5 DEF CoresFor, M

LEMMA RequestHonoured ==
  ASSUME NEW r \in Requests
  PROVE  Honoured(r)
<1> DEFINE M == CRAB_MB_PER_CORE
           cpus == AtLeast(1, r.cpus)
           needed == IF r.mem <= 0 THEN cpus ELSE AtLeast(cpus, CoresFor(r.mem))
           up == crab_cores_up(needed)
<1>1. r.mem \in Int /\ r.cpus \in Int /\ r.maxCores \in Int  BY RequestsAssumption
<1>2. M \in Nat \ {0} /\ CRAB_MB_SINGLE_CORE \in Nat  BY MemoryAssumption
<1>3. CoresFor(r.mem) \in Int /\ CoresFor(r.mem) * M >= r.mem  BY <1>1, CoresSuffice
<1>4. /\ MaxCores(r) \in CRAB_ALLOWED_CORES
      /\ MaxCores(r) <= AtLeast(1, r.maxCores)
  BY <1>1, CoresDown DEF MaxCores, AtLeast
<1>5. needed \in Int /\ needed >= r.cpus /\ (r.mem <= 0 \/ needed >= CoresFor(r.mem))
  BY <1>1, <1>3 DEF AtLeast
<1>6. up \in CRAB_ALLOWED_CORES /\ (up >= needed \/ up = 8)  BY <1>5, CoresUp
<1>7. Cores(r) = AtMost(up, MaxCores(r))  BY DEF Cores
<1> HIDE DEF M, needed, up
<1>8. Cores(r) \in CRAB_ALLOWED_CORES /\ Cores(r) <= MaxCores(r)
  BY <1>4, <1>6, <1>7 DEF AtMost, CRAB_ALLOWED_CORES
<1>9. Cores(r) >= AtMost(r.cpus, MaxCores(r))
  BY <1>1, <1>4, <1>5, <1>6, <1>7 DEF AtMost, CRAB_ALLOWED_CORES
<1>10. Ceiling(Cores(r)) \in Nat
  BY <1>2, <1>8 DEF Ceiling, AtLeast, CRAB_ALLOWED_CORES, M
<1>11. CASE ~IsRefused(r)
  BY <1>1, <1>4, <1>8, <1>9, <1>10, <1>11
     DEF Honoured, IsRefused, Memory, AtLeast, CRAB_ALLOWED_CORES
<1>12. CASE IsRefused(r) /\ r.mem >= 1000
  <2>1. r.mem > Ceiling(Cores(r))  BY <1>1, <1>12 DEF IsRefused
  <2>2. Cores(r) * M < r.mem  BY <1>1, <1>2, <1>8, <2>1 DEF Ceiling, AtLeast, M, CRAB_ALLOWED_CORES
  \* Else the cores the memory needs were taken, and would have been enough.
  <2>3. Cores(r) = MaxCores(r)
    <3>1. SUFFICES ASSUME Cores(r) # MaxCores(r) PROVE FALSE  OBVIOUS
    <3>2. Cores(r) = up /\ up < 8
      BY <1>4, <1>6, <1>7, <3>1 DEF AtMost, CRAB_ALLOWED_CORES
    <3>3. Cores(r) >= CoresFor(r.mem)
      BY <1>1, <1>3, <1>5, <1>6, <1>12, <3>2 DEF CRAB_ALLOWED_CORES
    <3>4. Cores(r) * M >= CoresFor(r.mem) * M
      BY <1>2, <1>3, <1>8, <3>3 DEF CRAB_ALLOWED_CORES
    <3> QED  BY <1>1, <1>2, <1>3, <1>8, <2>2, <3>4 DEF CRAB_ALLOWED_CORES
  <2>4. ASSUME NEW c \in CRAB_ALLOWED_CORES, c <= MaxCores(r)
        PROVE  r.mem > Ceiling(c)
    <3>1. c * M <= Cores(r) * M  BY <1>2, <1>8, <2>3, <2>4 DEF CRAB_ALLOWED_CORES
    <3> QED  BY <1>1, <1>2, <1>8, <2>1, <3>1 DEF Ceiling, AtLeast, M, CRAB_ALLOWED_CORES
  <2> QED  BY <1>12, <2>4 DEF Honoured
<1>13. CASE IsRefused(r) /\ ~(r.mem >= 1000)
  BY <1>1, <1>13 DEF Honoured
<1> QED  BY <1>11, <1>12, <1>13

\* Whatever memory, threads and cap are asked for: what a task is submitted with.
THEOREM RequestsAreHonoured == Spec => SubmissionHonoursRequest
<1>1. RequestIsHonoured  BY RequestHonoured DEF RequestIsHonoured
<1>2. [Submit => RequestIsHonoured]_vars  BY <1>1
<1> QED  BY <1>2, PTL DEF SubmissionHonoursRequest

-----------------------------------------------------------------------------
(***************************************************************************)
(* The length of a ban.  A power of two is the number of subsets of an     *)
(* interval: what is known of sets replaces an induction.                  *)
(***************************************************************************)

LEMMA MaxOfTwo ==
  ASSUME NEW a \in Int, NEW b \in Int
  PROVE  Max({a, b}) = IF a >= b THEN a ELSE b
BY DEF Max

LEMMA MinOfTwo ==
  ASSUME NEW a \in Int, NEW b \in Int
  PROVE  Min({a, b}) = IF a <= b THEN a ELSE b
BY DEF Min

LEMMA IntervalSize ==
  ASSUME NEW k \in Nat
  PROVE  IsFiniteSet(1..k) /\ Cardinality(1..k) = k
BY FS_Interval

LEMMA PowerIsSubsets ==
  ASSUME NEW k \in Nat
  PROVE  /\ IsFiniteSet(SUBSET (1..k)) /\ Cardinality(SUBSET (1..k)) = 2 ^ k
         /\ 2 ^ k \in Nat /\ 2 ^ k >= 1
<1>1. IsFiniteSet(1..k) /\ Cardinality(1..k) = k  BY IntervalSize
<1>2. IsFiniteSet(SUBSET (1..k)) /\ Cardinality(SUBSET (1..k)) = 2 ^ k  BY <1>1, FS_SUBSET
<1>3. {} \in SUBSET (1..k)  OBVIOUS
<1>4. Cardinality(SUBSET (1..k)) # 0 /\ Cardinality(SUBSET (1..k)) \in Nat
  BY <1>2, <1>3, FS_EmptySet, FS_CardinalityType
<1> QED  BY <1>2, <1>4

LEMMA PowerMonotone ==
  ASSUME NEW j \in Nat, NEW k \in Nat, j <= k
  PROVE  2 ^ j <= 2 ^ k
<1>1. 1..j \subseteq 1..k  OBVIOUS
<1>2. SUBSET (1..j) \in SUBSET (SUBSET (1..k))  BY <1>1
<1>3. Cardinality(SUBSET (1..j)) <= Cardinality(SUBSET (1..k))  BY <1>2, PowerIsSubsets, FS_Subset
<1>4. Cardinality(SUBSET (1..j)) = 2 ^ j /\ Cardinality(SUBSET (1..k)) = 2 ^ k  BY PowerIsSubsets
<1> QED  BY <1>3, <1>4, Zenon

LEMMA PowerDoubles ==
  ASSUME NEW k \in Nat
  PROVE  2 ^ (k + 1) = 2 * 2 ^ k
<1> DEFINE A == SUBSET (1..k)
           B == {X \cup {k + 1} : X \in A}
           f == [X \in A |-> X \cup {k + 1}]
<1>1. f \in Bijection(A, B)
  <2>1. f \in [A -> B]  OBVIOUS
  <2>2. \A X, Y \in A : f[X] = f[Y] => X = Y
    <3> SUFFICES ASSUME NEW X \in A, NEW Y \in A, X \cup {k + 1} = Y \cup {k + 1} PROVE X = Y
      OBVIOUS
    <3>1. k + 1 \notin X /\ k + 1 \notin Y  OBVIOUS
    <3> QED  BY <3>1
  <2>3. \A Z \in B : \E X \in A : f[X] = Z  OBVIOUS
  <2> QED  BY <2>1, <2>2, <2>3, Fun_IsBij
<1>2. IsFiniteSet(A) /\ Cardinality(A) = 2 ^ k /\ 2 ^ k \in Nat  BY PowerIsSubsets
<1>3. IsFiniteSet(B) /\ Cardinality(B) = 2 ^ k
  BY <1>1, <1>2, FS_Bijection, Fun_ExistsBij
<1>4. A \cap B = {}
  <2> SUFFICES ASSUME NEW X \in A, NEW Y \in A, X = Y \cup {k + 1} PROVE FALSE  OBVIOUS
  <2>1. k + 1 \in X  OBVIOUS
  <2> QED  BY <2>1
<1>5. A \cup B = SUBSET (1..(k + 1))
  <2>1. A \cup B \subseteq SUBSET (1..(k + 1))
    <3>1. 1..k \subseteq 1..(k + 1) /\ k + 1 \in 1..(k + 1)  OBVIOUS
    <3> QED  BY <3>1
  <2>2. ASSUME NEW X \in SUBSET (1..(k + 1)) PROVE X \in A \cup B
    <3>1. CASE k + 1 \notin X  BY <3>1
    <3>2. CASE k + 1 \in X
      <4>1. X \ {k + 1} \in A  OBVIOUS
      <4>2. X = (X \ {k + 1}) \cup {k + 1}  BY <3>2
      <4> QED  BY <4>1, <4>2
    <3> QED  BY <3>1, <3>2
  <2> QED  BY <2>1, <2>2
<1>6. Cardinality(A \cup B) = Cardinality(A) + Cardinality(B) - Cardinality(A \cap B)
  BY <1>2, <1>3, FS_Union
<1>7. Cardinality(SUBSET (1..(k + 1))) = 2 ^ (k + 1)
  <2>1. k + 1 \in Nat  OBVIOUS
  <2> QED  BY <2>1, PowerIsSubsets
<1>8. Cardinality(A \cap B) = 0  BY <1>4, FS_EmptySet
<1> HIDE DEF A, B
<1> DEFINE p == 2 ^ k
<1>9. p \in Nat /\ Cardinality(A) = p /\ Cardinality(B) = p  BY <1>2, <1>3
<1>10. 2 ^ (k + 1) = Cardinality(A) + Cardinality(B) - Cardinality(A \cap B)
  BY <1>5, <1>6, <1>7
<1>11. 2 ^ (k + 1) = 2 * p
  <2> HIDE DEF p
  <2> QED  BY <1>8, <1>9, <1>10
<1> QED  BY <1>11

\* _quarantine_seconds by the number of bans before.
Length(k) ==
  IF QuarantineTicks * 2 ^ k <= MaxQuarantineTicks THEN QuarantineTicks * 2 ^ k ELSE MaxQuarantineTicks
LEMMA LengthRange ==
  ASSUME NEW k \in Nat
  PROVE  Length(k) \in 1..MaxQuarantineTicks
<1> DEFINE p == 2 ^ k
<1>1. p \in Nat /\ p >= 1  BY PowerIsSubsets
<1>2. /\ QuarantineTicks \in Nat /\ QuarantineTicks >= 1
      /\ MaxQuarantineTicks \in Nat /\ MaxQuarantineTicks >= 1
  BY ConfigAssumption
<1> HIDE DEF p
<1>3. QuarantineTicks * p \in Nat /\ QuarantineTicks * p >= 1  BY <1>1, <1>2
<1> QED  BY <1>2, <1>3 DEF Length, p

LEMMA LengthOfBan ==
  ASSUME NEW rec, rec.quarantines \in Nat
  PROVE  QuarantineLength(rec) = Length(rec.quarantines)
<1> DEFINE a == QuarantineTicks * 2 ^ rec.quarantines
<1>1. a \in Int /\ MaxQuarantineTicks \in Int  BY PowerIsSubsets, ConfigAssumption
<1> HIDE DEF a
<1>2. Min({a, MaxQuarantineTicks}) = IF a <= MaxQuarantineTicks THEN a ELSE MaxQuarantineTicks
  BY <1>1, MinOfTwo
<1> QED  BY <1>2 DEF QuarantineLength, Length, a

\* One ban more doubles the length, up to the ceiling.
LEMMA LengthDoubles ==
  ASSUME NEW j \in Nat, NEW k \in Nat, j < k
  PROVE  \/ Length(k) = MaxQuarantineTicks
         \/ Length(k) >= 2 * Length(j)
<1> DEFINE p == 2 ^ j
           q == 2 ^ k
<1>1. p \in Nat /\ q \in Nat /\ 2 * p <= q
  <2>1. j + 1 \in Nat /\ j + 1 <= k  OBVIOUS
  <2>2. 2 ^ (j + 1) <= 2 ^ k  BY <2>1, PowerMonotone
  <2> QED  BY <2>2, PowerDoubles, PowerIsSubsets
<1> HIDE DEF p, q
<1>2. QuarantineTicks \in Nat /\ MaxQuarantineTicks \in Nat  BY ConfigAssumption
<1> DEFINE a == QuarantineTicks * p
           b == QuarantineTicks * q
<1>3. a \in Nat /\ b \in Nat /\ 2 * a <= b
  <2>1. QuarantineTicks * (2 * p) <= QuarantineTicks * q  BY <1>1, <1>2
  <2> QED  BY <1>1, <1>2, <2>1
<1> HIDE DEF a, b
<1>4. Length(j) = IF a <= MaxQuarantineTicks THEN a ELSE MaxQuarantineTicks
  BY DEF Length, a, p
<1>5. Length(k) = IF b <= MaxQuarantineTicks THEN b ELSE MaxQuarantineTicks
  BY DEF Length, b, q
<1> QED  BY <1>2, <1>3, <1>4, <1>5

-----------------------------------------------------------------------------
(***************************************************************************)
(* Counting outcomes.                                                      *)
(***************************************************************************)

\* There are finitely many outcomes, so fewer of them count for no more.
LEMMA OutcomesFinite ==
  ASSUME NEW recs, NEW S, S \subseteq Sites, NEW kind, NEW since
  PROVE  /\ IsFiniteSet(Outcomes(recs, S, kind, since))
         /\ Cardinality(Outcomes(recs, S, kind, since)) \in Nat
<1> DEFINE U == S \X Times
           V == U \X (1..MaxEvents)
           W == S \X Times \X (1..MaxEvents)
           f == [w \in W |-> <<<<w[1], w[2]>>, w[3]>>]
<1>1. IsFiniteSet(S)  BY ConfigAssumption, FS_Subset
<1>2. IsFiniteSet(Times) /\ IsFiniteSet(1..MaxEvents)  BY ConfigAssumption, FS_Interval DEF Times
<1>3. IsFiniteSet(U)  BY <1>1, <1>2, FS_Product
<1>4. IsFiniteSet(V)  BY <1>2, <1>3, FS_Product
<1>5. f \in Injection(W, V)
  <2>1. f \in [W -> V]  OBVIOUS
  <2>2. \A v, w \in W : f[v] = f[w] => v = w  OBVIOUS
  <2> QED  BY <2>1, <2>2, Fun_IsInj
<1>6. IsFiniteSet(W)  BY <1>4, <1>5, FS_Injection
<1>7. Outcomes(recs, S, kind, since) \in SUBSET W  BY DEF Outcomes
<1> QED  BY <1>6, <1>7, FS_Subset, FS_CardinalityType

LEMMA FewerOutcomes ==
  ASSUME NEW recs, NEW recs2, NEW S, S \subseteq Sites, NEW T, T \subseteq Sites, NEW kind, NEW a, NEW b,
         Outcomes(recs, S, kind, a) \subseteq Outcomes(recs2, T, kind, b)
  PROVE  Cardinality(Outcomes(recs, S, kind, a)) <= Cardinality(Outcomes(recs2, T, kind, b))
BY OutcomesFinite, FS_Subset

LEMMA CountTypes ==
  ASSUME NEW recs, NEW S, S \subseteq Sites, NEW since
  PROVE  /\ Succeeded(recs, S, since) \in Nat /\ Failed(recs, S, since) \in Nat
         /\ Ended(recs, S, since) \in Nat
         /\ Cardinality(Flying(S)) \in Nat /\ IsFiniteSet(Flying(S))
         /\ Sent(recs, S, since) \in Nat
<1>1. Succeeded(recs, S, since) \in Nat /\ Failed(recs, S, since) \in Nat
  BY OutcomesFinite DEF Succeeded, Failed
<1>2. Cardinality(Flying(S)) \in Nat /\ IsFiniteSet(Flying(S))
  <2>1. IsFiniteSet(S) /\ IsFiniteSet(1..MaxRunning)
    BY ConfigAssumption, FS_Subset, FS_Interval
  <2>2. IsFiniteSet(S \X (1..MaxRunning))  BY <2>1, FS_Product
  <2>3. Flying(S) \in SUBSET (S \X (1..MaxRunning))  BY DEF Flying
  <2> QED  BY <2>2, <2>3, FS_Subset, FS_CardinalityType
<1> QED  BY <1>1, <1>2 DEF Ended, Sent

\* What a site has on record of one tick is no more than its total.
LEMMA TickWithinTotal ==
  ASSUME NEW recs, NEW s \in Sites, NEW kind, NEW t \in Times, NEW since \in Int, t >= since,
         recs[s][kind][t] \in 0..MaxEvents
  PROVE  recs[s][kind][t] <= Cardinality(Outcomes(recs, {s}, kind, since))
<1> DEFINE k == recs[s][kind][t]
           O == Outcomes(recs, {s}, kind, since)
           f == [i \in 1..k |-> <<s, t, i>>]
<1>1. MaxEvents \in Nat  BY ConfigAssumption
<1>2. f \in [1..k -> O]  BY <1>1 DEF Outcomes
<1>3. \A i, j \in 1..k : f[i] = f[j] => i = j  OBVIOUS
<1>4. f \in Injection(1..k, O)  BY <1>2, <1>3, Fun_IsInj
<1>5. IsFiniteSet(O)  BY OutcomesFinite
<1>6. Cardinality(1..k) <= Cardinality(O)  BY <1>4, <1>5, FS_Injection
<1>7. Cardinality(1..k) = k
  <2>1. k \in Nat  BY <1>1
  <2> QED  BY <2>1, IntervalSize
<1> QED  BY <1>6, <1>7

-----------------------------------------------------------------------------
(***************************************************************************)
(* What each operation makes of a record.                                  *)
(***************************************************************************)

\* _prune keeps the counts of the window.
Kept(counts) == [t \in Times |-> IF t >= now - WindowTicks THEN counts[t] ELSE 0]
LEMMA PrunedRecord ==
  ASSUME NEW rec \in Record, now \in Times
  PROVE  /\ Pruned(rec) = [known |-> rec.known, ok |-> Kept(rec.ok), failed |-> Kept(rec.failed),
                           until |-> rec.until, quarantines |-> rec.quarantines,
                           clearedAt |-> rec.clearedAt]
         /\ Pruned(rec) \in Record
<1>1. Pruned(rec) = [known |-> rec.known, ok |-> Kept(rec.ok), failed |-> Kept(rec.failed),
                     until |-> rec.until, quarantines |-> rec.quarantines,
                     clearedAt |-> rec.clearedAt]
  <2>1. PICK r : r = [rec EXCEPT !.ok = Kept(@)]  OBVIOUS
  <2>2. r = [known |-> rec.known, ok |-> Kept(rec.ok), failed |-> rec.failed, until |-> rec.until,
             quarantines |-> rec.quarantines, clearedAt |-> rec.clearedAt]
    BY <2>1 DEF Record
  <2>3. [r EXCEPT !.failed = Kept(@)] =
          [known |-> r.known, ok |-> r.ok, failed |-> Kept(r.failed), until |-> r.until,
           quarantines |-> r.quarantines, clearedAt |-> r.clearedAt]
    BY <2>2
  <2>4. Pruned(rec) = [r EXCEPT !.failed = Kept(@)]
    BY <2>1, Zenon DEF Pruned, Kept
  <2> QED  BY <2>2, <2>3, <2>4
<1>2. ASSUME NEW counts \in [Times -> 0..MaxEvents]
      PROVE  Kept(counts) \in [Times -> 0..MaxEvents]
  BY ConfigAssumption DEF Kept
<1>3. Kept(rec.ok) \in [Times -> 0..MaxEvents] /\ Kept(rec.failed) \in [Times -> 0..MaxEvents]
  BY <1>2 DEF Record
<1> QED  BY <1>1, <1>3 DEF Record

\* _expire changes when the ban ends and what evidence counts.
LEMMA ExpiredRecord ==
  ASSUME NEW rec \in Record
  PROVE  /\ Expired(rec) = [known |-> rec.known, ok |-> rec.ok, failed |-> rec.failed,
                            until |-> IF IsOver(rec) THEN 0 ELSE rec.until,
                            quarantines |-> rec.quarantines, clearedAt |-> LastEnd(rec)]
         /\ Expired(rec) \in Record
<1>1. Expired(rec) = [known |-> rec.known, ok |-> rec.ok, failed |-> rec.failed,
                      until |-> IF IsOver(rec) THEN 0 ELSE rec.until,
                      quarantines |-> rec.quarantines, clearedAt |-> LastEnd(rec)]
  BY DEF Expired, LastEnd, Record
<1>2. LastEnd(rec) \in Nat /\ (IF IsOver(rec) THEN 0 ELSE rec.until) \in Nat
  BY DEF LastEnd, Record
<1> QED  BY <1>1, <1>2 DEF Record

\* The records a submission judges.
Fresh == [s \in Sites |-> Expired(Pruned(sites[s]))]
LEMMA FreshRecord ==
  ASSUME TypeOK, NEW s \in Sites
  PROVE  /\ Fresh[s] \in Record
         /\ Fresh[s].known = sites[s].known
         /\ Fresh[s].ok = Kept(sites[s].ok) /\ Fresh[s].failed = Kept(sites[s].failed)
         /\ Fresh[s].until = IF IsOver(sites[s]) THEN 0 ELSE sites[s].until
         /\ Fresh[s].quarantines = sites[s].quarantines
         /\ Fresh[s].clearedAt = LastEnd(sites[s])
         /\ Banned(Fresh[s]) <=> Banned(sites[s])
<1> DEFINE r == sites[s]
           p == Pruned(r)
<1>1. r \in Record /\ now \in Times  BY DEF TypeOK
<1> HIDE DEF r
<1>2. p = [known |-> r.known, ok |-> Kept(r.ok), failed |-> Kept(r.failed),
           until |-> r.until, quarantines |-> r.quarantines, clearedAt |-> r.clearedAt]
      /\ p \in Record
  BY <1>1, PrunedRecord
<1>3. /\ p.known = r.known /\ p.ok = Kept(r.ok) /\ p.failed = Kept(r.failed)
      /\ p.until = r.until /\ p.quarantines = r.quarantines /\ p.clearedAt = r.clearedAt
  BY <1>2
<1> HIDE DEF p
<1>4. /\ Expired(p) = [known |-> p.known, ok |-> p.ok, failed |-> p.failed,
                       until |-> IF IsOver(p) THEN 0 ELSE p.until,
                       quarantines |-> p.quarantines, clearedAt |-> LastEnd(p)]
      /\ Expired(p) \in Record
  BY <1>2, ExpiredRecord
<1>5. (IsOver(p) <=> IsOver(r)) /\ LastEnd(p) = LastEnd(r)
  BY <1>3 DEF IsOver, LastEnd
<1>6. Fresh[s] = Expired(p)  BY DEF Fresh, p, r
<1> DEFINE e == Expired(p)
<1>7. /\ e.known = p.known /\ e.ok = p.ok /\ e.failed = p.failed
      /\ e.until = IF IsOver(p) THEN 0 ELSE p.until
      /\ e.quarantines = p.quarantines /\ e.clearedAt = LastEnd(p)
  BY <1>4
<1>8. Banned(e) <=> Banned(r)
  BY <1>1, <1>3, <1>5, <1>7 DEF Banned, IsOver, Record, Times
<1> QED  BY <1>3, <1>4, <1>5, <1>6, <1>7, <1>8 DEF r

\* _quarantine: who is judged.
Guilty(recs, s) == ~Banned(recs[s]) /\ (IsBurst(recs, s) \/ IsFailing(recs, s))
LEMMA JudgedRecord ==
  ASSUME NEW recs, NEW s \in Sites, recs[s] \in Record, now \in Times
  PROVE  /\ Judged(recs)[s] \in Record
         /\ Judged(recs)[s] =
              [known |-> recs[s].known, ok |-> recs[s].ok, failed |-> recs[s].failed,
               until |-> IF Guilty(recs, s) THEN now + QuarantineLength(recs[s]) ELSE recs[s].until,
               quarantines |-> recs[s].quarantines + (IF Guilty(recs, s) THEN 1 ELSE 0),
               clearedAt |-> recs[s].clearedAt]
<1> DEFINE r == recs[s]
           L == now + QuarantineLength(r)
<1>1. Judged(recs)[s] = IF Guilty(recs, s) THEN [r EXCEPT !.until = L, !.quarantines = @ + 1] ELSE r
  BY DEF Judged, Guilty
<1>2. r \in Record  OBVIOUS
<1>3. L \in Nat
  <2>1. r.quarantines \in Nat  BY <1>2 DEF Record
  <2>2. QuarantineLength(r) \in Nat  BY <2>1, LengthOfBan, LengthRange
  <2> QED  BY <2>2 DEF Times
<1> HIDE DEF r, L
<1>4. CASE Guilty(recs, s)
  <2>1. [r EXCEPT !.until = L, !.quarantines = @ + 1] =
          [known |-> r.known, ok |-> r.ok, failed |-> r.failed, until |-> L,
           quarantines |-> r.quarantines + 1, clearedAt |-> r.clearedAt]
    <3>1. PICK q : q = [r EXCEPT !.until = L]  OBVIOUS
    <3>2. q = [known |-> r.known, ok |-> r.ok, failed |-> r.failed, until |-> L,
               quarantines |-> r.quarantines, clearedAt |-> r.clearedAt]
      BY <1>2, <3>1 DEF Record
    <3>3. [q EXCEPT !.quarantines = @ + 1] =
            [known |-> q.known, ok |-> q.ok, failed |-> q.failed, until |-> q.until,
             quarantines |-> q.quarantines + 1, clearedAt |-> q.clearedAt]
      BY <3>2
    <3>4. [r EXCEPT !.until = L, !.quarantines = @ + 1] = [q EXCEPT !.quarantines = @ + 1]
      BY <3>1, Zenon
    <3> QED  BY <3>2, <3>3, <3>4
  <2> QED  BY <1>1, <1>2, <1>3, <1>4, <2>1 DEF Record, r, L
<1>5. CASE ~Guilty(recs, s)
  <2>1. r = [known |-> r.known, ok |-> r.ok, failed |-> r.failed, until |-> r.until,
             quarantines |-> r.quarantines + 0, clearedAt |-> r.clearedAt]
    BY <1>2 DEF Record
  <2> QED  BY <1>1, <1>2, <1>5, <2>1 DEF r
<1> QED  BY <1>4, <1>5

\* record() of an outcome of now.
Noted(rec, outcome) ==
  IF outcome = "ok" THEN [rec EXCEPT !.known = TRUE, !.ok[now] = @ + 1]
  ELSE [rec EXCEPT !.known = TRUE, !.failed[now] = @ + 1]
LEMMA NotedRecord ==
  ASSUME NEW rec \in Record, NEW outcome, now \in Times,
         rec.ok[now] < MaxEvents, rec.failed[now] < MaxEvents
  PROVE  /\ Noted(rec, outcome) \in Record
         /\ Noted(rec, outcome).until = rec.until
         /\ Noted(rec, outcome).quarantines = rec.quarantines
<1>1. PICK q : q = [rec EXCEPT !.known = TRUE]  OBVIOUS
<1>2. q = [known |-> q.known, ok |-> rec.ok, failed |-> rec.failed, until |-> rec.until,
           quarantines |-> rec.quarantines, clearedAt |-> rec.clearedAt]
      /\ q.known = TRUE
  BY <1>1 DEF Record
<1>3. ASSUME NEW counts \in [Times -> 0..MaxEvents], counts[now] < MaxEvents
      PROVE  [counts EXCEPT ![now] = @ + 1] \in [Times -> 0..MaxEvents]
  BY <1>3, ConfigAssumption
<1>4. PICK ok \in [Times -> 0..MaxEvents] : ok = [rec.ok EXCEPT ![now] = @ + 1]
  BY <1>3 DEF Record
<1>5. PICK failed \in [Times -> 0..MaxEvents] : failed = [rec.failed EXCEPT ![now] = @ + 1]
  BY <1>3 DEF Record
<1>6. ASSUME NEW c
      PROVE  /\ [q EXCEPT !.ok = c] =
                  [known |-> q.known, ok |-> c, failed |-> rec.failed, until |-> rec.until,
                   quarantines |-> rec.quarantines, clearedAt |-> rec.clearedAt]
             /\ [q EXCEPT !.failed = c] =
                  [known |-> q.known, ok |-> rec.ok, failed |-> c, until |-> rec.until,
                   quarantines |-> rec.quarantines, clearedAt |-> rec.clearedAt]
  <2>1. DOMAIN q = {"known", "ok", "failed", "until", "quarantines", "clearedAt"}  BY <1>2
  <2>2. q.ok = rec.ok /\ q.failed = rec.failed /\ q.until = rec.until
        /\ q.quarantines = rec.quarantines /\ q.clearedAt = rec.clearedAt
    BY <1>2
  <2>3. q = [f \in DOMAIN q |-> q[f]]  BY <1>2
  <2> QED  BY <2>1, <2>2, <2>3
<1>7. q.ok = rec.ok /\ q.failed = rec.failed  BY <1>2
<1>8. Noted(rec, outcome) = IF outcome = "ok" THEN [q EXCEPT !.ok = [q.ok EXCEPT ![now] = @ + 1]]
                            ELSE [q EXCEPT !.failed = [q.failed EXCEPT ![now] = @ + 1]]
  BY <1>1, Zenon DEF Noted
<1>9. PICK known \in BOOLEAN : known = q.known  BY <1>2
<1>10. PICK until \in Nat, quarantines \in Nat, clearedAt \in Nat :
        until = rec.until /\ quarantines = rec.quarantines /\ clearedAt = rec.clearedAt
  BY DEF Record
<1>11. CASE outcome = "ok"
  <2>1. Noted(rec, outcome) = [known |-> known, ok |-> ok, failed |-> rec.failed, until |-> until,
                               quarantines |-> quarantines, clearedAt |-> clearedAt]
    BY <1>4, <1>6, <1>7, <1>8, <1>9, <1>10, <1>11
  <2>2. PICK other \in [Times -> 0..MaxEvents] : other = rec.failed  BY DEF Record
  <2> QED  BY <1>10, <2>1, <2>2 DEF Record
<1>12. CASE outcome # "ok"
  <2>1. Noted(rec, outcome) = [known |-> known, ok |-> rec.ok, failed |-> failed, until |-> until,
                               quarantines |-> quarantines, clearedAt |-> clearedAt]
    BY <1>5, <1>6, <1>7, <1>8, <1>9, <1>10, <1>12
  <2>2. PICK other \in [Times -> 0..MaxEvents] : other = rec.ok  BY DEF Record
  <2> QED  BY <1>10, <2>1, <2>2 DEF Record
<1> QED  BY <1>12, <1>11

-----------------------------------------------------------------------------
(***************************************************************************)
(* The invariant: what is saved is no newer than what is known, the        *)
(* longest ban on record is the last one saved, and a ban that was saved   *)
(* and still runs is the ban that is known.                                *)
(***************************************************************************)
LongestOf(quarantines) == IF quarantines = 0 THEN 0 ELSE Length(quarantines - 1)
StatsInv ==
  /\ TypeOK
  /\ \A s \in Sites : /\ disk[s].until <= now + MaxQuarantineTicks
                      /\ disk[s].quarantines <= sites[s].quarantines
                      /\ longest[s] <= LongestOf(disk[s].quarantines)
                      /\ Banned(disk[s]) => sites[s].until = disk[s].until

LEMMA RecordTypes ==
  ASSUME TypeOK, NEW s \in Sites
  PROVE  /\ sites[s] \in Record /\ disk[s] \in Record
         /\ sites[s].until \in Nat /\ sites[s].quarantines \in Nat /\ sites[s].clearedAt \in Nat
         /\ disk[s].until \in Nat /\ disk[s].quarantines \in Nat
         /\ longest[s] \in Nat /\ now \in Nat /\ now \in Times
<1>1. sites[s] \in Record /\ disk[s] \in Record /\ longest[s] \in Nat /\ now \in Times
  BY ConfigAssumption DEF TypeOK
<1> QED  BY <1>1 DEF Record, Times

LEMMA StatsInit == Init => StatsInv
<1> SUFFICES ASSUME Init PROVE StatsInv  OBVIOUS
<1>1. NewRecord \in Record /\ NewRecord.until = 0 /\ NewRecord.quarantines = 0
  <2>1. [t \in Times |-> 0] \in [Times -> 0..MaxEvents]  BY ConfigAssumption
  <2> QED  BY <2>1 DEF NewRecord, Record
<1>2. now \in Times /\ now \in Nat
  BY ConfigAssumption DEF Init, Times
<1>3. Cardinality({}) <= MaxSites  BY ConfigAssumption, FS_EmptySet
<1> QED  BY <1>1, <1>2, <1>3, ConfigAssumption DEF Init, StatsInv, TypeOK, LongestOf, Banned

\* What a save makes of the longest ban.
LEMMA LongestSaved ==
  ASSUME StatsInv, NEW s \in Sites
  PROVE  /\ Longest[s] \in 0..MaxQuarantineTicks
         /\ Longest[s] <= LongestOf(sites[s].quarantines)
<1> DEFINE q == sites[s].quarantines
           d == disk[s].quarantines
           before == [sites[s] EXCEPT !.quarantines = @ - 1]
<1>1. q \in Nat /\ d \in Nat /\ d <= q  BY RecordTypes DEF StatsInv
<1>2. CASE q > d
  <2>1. q - 1 \in Nat /\ q # 0  BY <1>1, <1>2
  <2>2. before.quarantines = q - 1
    <3>1. sites[s] \in Record  BY RecordTypes DEF StatsInv
    <3> QED  BY <3>1 DEF Record
  <2>3. Longest[s] = QuarantineLength(before)  BY <1>2 DEF Longest
  <2>4. Longest[s] = Length(q - 1) /\ Length(q - 1) \in 1..MaxQuarantineTicks
    BY <2>1, <2>2, <2>3, LengthOfBan, LengthRange
  <2>5. LongestOf(q) = Length(q - 1)  BY <2>1 DEF LongestOf
  <2> QED  BY <2>4, <2>5, ConfigAssumption
<1>3. CASE ~(q > d)
  <2>1. q = d /\ Longest[s] = longest[s]  BY <1>1, <1>3 DEF Longest
  <2> QED  BY <2>1 DEF StatsInv, TypeOK
<1> QED  BY <1>2, <1>3

LEMMA HarvestedRecord ==
  ASSUME StatsInv, NEW s \in Sites, NEW outcome, Harvest(s, outcome), NEW o \in Sites
  PROVE  /\ sites'[o] \in Record
         /\ sites'[o].until = sites[o].until /\ sites'[o].quarantines = sites[o].quarantines
<1> DEFINE rec == IF o # s THEN sites[o] ELSE Noted(sites[o], outcome)
<1>1. sites[s] \in Record /\ sites[o] \in Record /\ now \in Times
  BY RecordTypes DEF StatsInv
<1>2. sites'[o] = Pruned(rec)  BY Zenon DEF Harvest, Noted
<1>3. sites[s].ok[now] < MaxEvents /\ sites[s].failed[now] < MaxEvents
  <2> DEFINE since == now - WindowTicks
             a == Succeeded(sites, {s}, since)
             b == Failed(sites, {s}, since)
  <2>1. since \in Int /\ now >= since  BY <1>1, ConfigAssumption DEF Times
  <2>2. sites[s].ok[now] \in 0..MaxEvents /\ sites[s].failed[now] \in 0..MaxEvents
    BY <1>1 DEF Record
  <2>3. sites[s].ok[now] <= a /\ sites[s].failed[now] <= b
    <3>1. sites[s]["ok"][now] <= Cardinality(Outcomes(sites, {s}, "ok", since))
      BY <1>1, <2>1, <2>2, TickWithinTotal
    <3>2. sites[s]["failed"][now] <= Cardinality(Outcomes(sites, {s}, "failed", since))
      BY <1>1, <2>1, <2>2, TickWithinTotal
    <3> QED  BY <3>1, <3>2 DEF Succeeded, Failed
  <2>4. a \in Nat /\ b \in Nat  BY CountTypes
  <2>5. a + b < MaxEvents  BY DEF Harvest, Ended
  <2> HIDE DEF a, b
  <2> QED  BY <2>2, <2>3, <2>4, <2>5, ConfigAssumption
<1>4. /\ Noted(sites[s], outcome) \in Record
      /\ Noted(sites[s], outcome).until = sites[s].until
      /\ Noted(sites[s], outcome).quarantines = sites[s].quarantines
  BY <1>1, <1>3, NotedRecord
<1>5. rec \in Record /\ rec.until = sites[o].until /\ rec.quarantines = sites[o].quarantines
  BY <1>1, <1>4
<1> HIDE DEF rec
<1>6. /\ Pruned(rec) = [known |-> rec.known, ok |-> Kept(rec.ok), failed |-> Kept(rec.failed),
                        until |-> rec.until, quarantines |-> rec.quarantines,
                        clearedAt |-> rec.clearedAt]
      /\ Pruned(rec) \in Record
  BY <1>1, <1>5, PrunedRecord
<1>7. Pruned(rec).until = rec.until /\ Pruned(rec).quarantines = rec.quarantines  BY <1>6
<1> QED  BY <1>2, <1>5, <1>6, <1>7

\* What a submission makes of a record.
LEMMA SubmittedRecord ==
  ASSUME StatsInv, Submit, NEW s \in Sites
  PROVE  /\ sites' = Judged(Fresh)
         /\ sites'[s] \in Record
         /\ ~Guilty(Fresh, s) => /\ sites'[s].until <= sites[s].until
                                 /\ sites'[s].quarantines = sites[s].quarantines
         /\ Guilty(Fresh, s) => /\ ~Banned(sites[s])
                                /\ sites'[s].until = now + Length(sites[s].quarantines)
                                /\ sites'[s].quarantines = sites[s].quarantines + 1
         /\ Banned(sites[s]) => sites'[s].until = sites[s].until
<1> DEFINE f == Fresh[s]
           g == Guilty(Fresh, s)
           j == Judged(Fresh)[s]
<1>1. sites' = Judged(Fresh)  BY DEF Submit, Fresh
<1>2. /\ f \in Record /\ f.quarantines = sites[s].quarantines
      /\ f.until = (IF IsOver(sites[s]) THEN 0 ELSE sites[s].until)
      /\ Banned(f) <=> Banned(sites[s])
  BY FreshRecord DEF StatsInv
<1>3. now \in Times /\ sites[s].until \in Nat /\ sites[s].quarantines \in Nat
  BY RecordTypes DEF StatsInv
<1>4. /\ j \in Record
      /\ j = [known |-> f.known, ok |-> f.ok, failed |-> f.failed,
              until |-> IF g THEN now + QuarantineLength(f) ELSE f.until,
              quarantines |-> f.quarantines + (IF g THEN 1 ELSE 0),
              clearedAt |-> f.clearedAt]
  BY <1>2, <1>3, JudgedRecord
<1>5. QuarantineLength(f) = Length(sites[s].quarantines)  BY <1>2, <1>3, LengthOfBan
<1>6. g => ~Banned(f)  BY DEF Guilty
<1> HIDE DEF f, g, j
<1>7. /\ j.until = (IF g THEN now + QuarantineLength(f) ELSE f.until)
      /\ j.quarantines = f.quarantines + (IF g THEN 1 ELSE 0)
  BY <1>4
<1>8. sites'[s] = j  BY <1>1 DEF j
<1>9. ~g => j.until <= sites[s].until /\ j.quarantines = sites[s].quarantines
  BY <1>2, <1>3, <1>7
<1>10. g => /\ ~Banned(sites[s]) /\ j.until = now + Length(sites[s].quarantines)
            /\ j.quarantines = sites[s].quarantines + 1
  BY <1>2, <1>3, <1>5, <1>6, <1>7
<1>11. Banned(sites[s]) => ~g /\ ~IsOver(sites[s])
  BY <1>2, <1>3, <1>6 DEF Banned, IsOver, Times
<1>12. Banned(sites[s]) => j.until = sites[s].until  BY <1>2, <1>7, <1>11
<1> QED  BY <1>1, <1>4, <1>8, <1>9, <1>10, <1>12 DEF g

LEMMA StatsStep ==
  ASSUME StatsInv, [Next]_vars
  PROVE  StatsInv'
<1>1. CASE Poll
  <2>1. /\ UNCHANGED <<now, sites, running>>
        /\ pc' = "polled" /\ inFlight' = running /\ disk' = sites /\ longest' = Longest /\ blacklist' = {}
    BY <1>1 DEF Poll
  <2>2. Longest \in [Sites -> 0..MaxQuarantineTicks]
    BY LongestSaved DEF Longest
  <2>3. TypeOK'
    BY <2>1, <2>2, ConfigAssumption, FS_EmptySet DEF StatsInv, TypeOK
  <2>4. ASSUME NEW s \in Sites
        PROVE  /\ disk'[s].until <= now' + MaxQuarantineTicks
               /\ disk'[s].quarantines <= sites'[s].quarantines
               /\ longest'[s] <= LongestOf(disk'[s].quarantines)
               /\ sites'[s].until = disk'[s].until
    BY <2>1, LongestSaved, RecordTypes DEF StatsInv, TypeOK
  <2> QED  BY <2>3, <2>4 DEF StatsInv
<1>2. CASE PollUnread
  BY <1>2, ConfigAssumption, FS_EmptySet DEF PollUnread, StatsInv, TypeOK, Banned
<1>3. ASSUME NEW s \in Sites, NEW outcome \in {"ok", "failed"}, Harvest(s, outcome)
      PROVE  StatsInv'
  <2>1. /\ now' = now /\ DOMAIN sites' = Sites /\ disk' = sites' /\ longest' = Longest
        /\ running' = [running EXCEPT ![s] = @ - 1] /\ inFlight' = running' /\ running[s] > 0
        /\ pc' = "polled" /\ blacklist' = {}
    BY <1>3 DEF Harvest
  <2>2. ASSUME NEW o \in Sites
        PROVE  /\ sites'[o] \in Record
               /\ sites'[o].until = sites[o].until /\ sites'[o].quarantines = sites[o].quarantines
    BY <1>3, HarvestedRecord
  <2>3. sites' \in [Sites -> Record]
    <3> DEFINE G(o) == Pruned(
                 IF o # s THEN sites[o]
                 ELSE IF outcome = "ok" THEN [sites[o] EXCEPT !.known = TRUE, !.ok[now] = @ + 1]
                 ELSE [sites[o] EXCEPT !.known = TRUE, !.failed[now] = @ + 1])
    <3>2. sites' = [o \in Sites |-> G(o)]  BY <1>3, Zenon DEF Harvest
    <3> HIDE DEF G
    <3>1. sites' = [o \in Sites |-> sites'[o]]  BY <3>2
    <3> QED  BY <2>2, <3>1
  <2>4. Longest \in [Sites -> 0..MaxQuarantineTicks]
    BY LongestSaved DEF Longest
  <2>5. running' \in [Sites -> 0..MaxRunning]
    BY <2>1, ConfigAssumption DEF StatsInv, TypeOK
  <2>6. TypeOK'
    BY <2>1, <2>2, <2>3, <2>4, <2>5, ConfigAssumption, FS_EmptySet DEF StatsInv, TypeOK
  <2>7. ASSUME NEW o \in Sites
        PROVE  /\ disk'[o].until <= now' + MaxQuarantineTicks
               /\ disk'[o].quarantines <= sites'[o].quarantines
               /\ longest'[o] <= LongestOf(disk'[o].quarantines)
               /\ sites'[o].until = disk'[o].until
    BY <2>1, <2>2, LongestSaved, RecordTypes DEF StatsInv, TypeOK
  <2> QED  BY <2>6, <2>7 DEF StatsInv
<1>4. CASE Submit
  <2>1. /\ pc' = "waiting" /\ UNCHANGED <<now, inFlight, disk, longest>>
        /\ blacklist' \subseteq Sites /\ Worst(sites', blacklist')
    BY <1>4 DEF Submit
  <2>2. ASSUME NEW s \in Sites
        PROVE  /\ sites'[s] \in Record
               /\ sites'[s].until <= now + MaxQuarantineTicks
               /\ sites'[s].quarantines >= sites[s].quarantines
    <3>1. sites[s].until <= now + MaxQuarantineTicks /\ sites[s].quarantines \in Nat
          /\ sites[s].until \in Nat /\ now \in Nat
      BY RecordTypes DEF StatsInv, TypeOK
    <3>2. Length(sites[s].quarantines) \in 1..MaxQuarantineTicks
      BY <3>1, LengthRange
    <3>3. sites'[s] \in Record /\ sites'[s].until \in Nat
      BY <1>4, SubmittedRecord DEF Record
    <3> QED  BY <1>4, <3>1, <3>2, <3>3, SubmittedRecord, ConfigAssumption
  <2>3. sites' \in [Sites -> Record]
    <3>1. sites' = [o \in Sites |-> sites'[o]]  BY <1>4 DEF Submit, Judged
    <3> QED  BY <2>2, <3>1
  <2>4. Cardinality(blacklist') <= MaxSites
    <3> DEFINE active == {s \in Sites : Banned(sites'[s])}
               n == Cardinality(active)
    <3>1. Cardinality(blacklist') = Min({MaxSites, n})  BY <2>1 DEF Worst
    <3>2. n \in Nat /\ MaxSites \in Nat  BY ConfigAssumption, FS_Subset, FS_CardinalityType
    <3> HIDE DEF n
    <3> QED  BY <3>1, <3>2, MinOfTwo
  <2>5. running' \in [Sites -> 0..MaxRunning]
    <3>1. running \in [Sites -> 0..MaxRunning]  BY DEF StatsInv, TypeOK
    <3>2. ASSUME NEW o \in Sites, running[o] < MaxRunning, running' = [running EXCEPT ![o] = @ + 1]
          PROVE  running' \in [Sites -> 0..MaxRunning]
      BY <3>1, <3>2, ConfigAssumption
    <3> QED  BY <1>4, <3>1, <3>2 DEF Submit
  <2>6. TypeOK'
    BY <2>1, <2>2, <2>3, <2>4, <2>5 DEF StatsInv, TypeOK
  <2>7. ASSUME NEW s \in Sites
        PROVE  /\ disk'[s].quarantines <= sites'[s].quarantines
               /\ disk'[s].until > now' => sites'[s].until = disk'[s].until
    <3>1. sites'[s].quarantines \in Nat /\ sites[s].quarantines \in Nat /\ disk[s].quarantines \in Nat
      BY <2>2, RecordTypes DEF StatsInv, Record
    <3>2. Banned(disk[s]) => Banned(sites[s]) /\ sites[s].until = disk[s].until
      BY DEF StatsInv, Banned
    <3> QED  BY <1>4, <2>1, <2>2, <3>1, <3>2, SubmittedRecord DEF StatsInv, Banned
  <2> QED  BY <2>1, <2>6, <2>7 DEF StatsInv, Banned
<1>5. CASE Restart
  <2>1. /\ UNCHANGED <<now, disk, running, longest>> /\ pc' = "waiting" /\ sites' = disk
        /\ inFlight' = [s \in Sites |-> 0] /\ blacklist' = {}
    BY <1>5 DEF Restart
  <2>2. ASSUME NEW s \in Sites
        PROVE  disk[s].until <= now + MaxQuarantineTicks /\ disk[s].quarantines <= disk[s].quarantines
    BY RecordTypes DEF StatsInv
  <2> QED  BY <2>1, <2>2, ConfigAssumption, FS_EmptySet DEF StatsInv, TypeOK, Banned
<1>6. CASE Tick
  <2>1. /\ now' = now + 1 /\ now' \in Times /\ blacklist' = {}
        /\ UNCHANGED <<pc, sites, inFlight, disk, running, longest>>
    BY <1>6, ConfigAssumption DEF Tick, StatsInv, TypeOK, Times
  <2>2. ASSUME NEW s \in Sites
        PROVE  /\ sites[s].until <= now' + MaxQuarantineTicks
               /\ disk[s].until <= now' + MaxQuarantineTicks
               /\ disk[s].until > now' => sites[s].until = disk[s].until
    BY <2>1, RecordTypes, ConfigAssumption DEF StatsInv, TypeOK, Banned
  <2> QED  BY <2>1, <2>2, ConfigAssumption, FS_EmptySet DEF StatsInv, TypeOK, Banned
<1>7. CASE UNCHANGED vars  BY <1>7 DEF vars, StatsInv, TypeOK, Banned
<1> QED  BY <1>1, <1>2, <1>3, <1>4, <1>5, <1>6, <1>7 DEF Next

\* Counts stay within their bounds and dates within reach, whatever is configured
\* and wherever the driver is restarted.
THEOREM StatsAreSound == Spec => []StatsInv
<1>1. Init => StatsInv  BY StatsInit
<1>2. StatsInv /\ [Next]_vars => StatsInv'  BY StatsStep
<1> QED  BY <1>1, <1>2, PTL DEF Spec

\* The variables keep their types.
THEOREM TypeCorrect == Spec => []TypeOK
<1>1. StatsInv => TypeOK  BY DEF StatsInv
<1> QED  BY <1>1, StatsAreSound, PTL

-----------------------------------------------------------------------------
(***************************************************************************)
(* What earns a ban.                                                       *)
(***************************************************************************)

\* Only a submission starts a ban, and of a guilty site.
LEMMA OnlySubmitBans ==
  ASSUME StatsInv, [Next]_vars, NEW s \in Sites, BanStarts(s)
  PROVE  Submit /\ Guilty(Fresh, s)
<1>1. sites[s].quarantines \in Nat /\ disk[s].quarantines \in Nat
      /\ disk[s].quarantines <= sites[s].quarantines
  BY RecordTypes DEF StatsInv
<1>2. sites'[s].quarantines > sites[s].quarantines  BY DEF BanStarts
<1>3. ~UNCHANGED sites /\ sites' # disk  BY <1>1, <1>2
<1>4. ASSUME NEW o \in Sites, NEW outcome \in {"ok", "failed"}, Harvest(o, outcome)
      PROVE  FALSE
  BY <1>1, <1>2, <1>4, HarvestedRecord
<1>5. Submit
  BY <1>3, <1>4 DEF Next, Poll, PollUnread, Restart, Tick, vars
<1> QED  BY <1>1, <1>2, <1>5, SubmittedRecord

\* When a submission judges a site, outcomes that left the window are gone: what
\* counts since a time is what counts since the window began.
LEMMA FreshOutcomes ==
  ASSUME StatsInv, NEW S, S \subseteq Sites, NEW kind \in {"ok", "failed"},
         NEW since \in Int, NEW e \in S \X Times \X (1..MaxEvents)
  PROVE  e \in Outcomes(Fresh, S, kind, since)
           <=> e \in Outcomes(sites, S, kind, since) /\ e[2] >= now - WindowTicks
<1>1. e[1] \in Sites /\ e[2] \in Times /\ e[3] \in 1..MaxEvents  OBVIOUS
<1>2. /\ Fresh[e[1]].ok = Kept(sites[e[1]].ok)
      /\ Fresh[e[1]].failed = Kept(sites[e[1]].failed)
  BY <1>1, FreshRecord DEF StatsInv
<1>3. Fresh[e[1]][kind] = Kept(sites[e[1]][kind])  BY <1>2
<1>4. Fresh[e[1]][kind][e[2]] = IF e[2] >= now - WindowTicks THEN sites[e[1]][kind][e[2]] ELSE 0
  BY <1>1, <1>3 DEF Kept
<1> QED  BY <1>1, <1>4, ConfigAssumption DEF Outcomes

LEMMA RecentType ==
  ASSUME StatsInv, NEW s \in Sites
  PROVE  /\ LastEnd(sites[s]) \in Nat /\ now - WindowTicks \in Int /\ Recent(s) \in Int
         /\ Recent(s) = IF LastEnd(sites[s]) >= now - WindowTicks THEN LastEnd(sites[s])
                        ELSE now - WindowTicks
<1>1. LastEnd(sites[s]) \in Nat  BY RecordTypes DEF StatsInv, LastEnd
<1>2. now - WindowTicks \in Int  BY RecordTypes, ConfigAssumption DEF StatsInv
<1> QED  BY <1>1, <1>2, MaxOfTwo DEF Recent

\* The outcomes a site is judged by are those after its last ban, in the window.
LEMMA FreshOfSite ==
  ASSUME StatsInv, NEW s \in Sites, NEW kind \in {"ok", "failed"}
  PROVE  /\ Outcomes(Fresh, {s}, kind, LastEnd(sites[s])) = Outcomes(sites, {s}, kind, Recent(s))
         /\ \A since \in Int : since >= LastEnd(sites[s]) =>
              Outcomes(Fresh, {s}, kind, since) \subseteq Outcomes(sites, {s}, kind, Recent(s))
<1> DEFINE E == {s} \X Times \X (1..MaxEvents)
<1>1. ASSUME NEW since \in Int, since >= LastEnd(sites[s]), NEW e \in E,
             e \in Outcomes(Fresh, {s}, kind, since)
      PROVE  e \in Outcomes(sites, {s}, kind, Recent(s))
  <2>1. e \in Outcomes(sites, {s}, kind, since) /\ e[2] >= now - WindowTicks
    BY <1>1, FreshOutcomes
  <2>2. e[2] \in Int  BY DEF Times
  <2> QED  BY <1>1, <2>1, <2>2, RecentType DEF Outcomes
<1>2. ASSUME NEW e \in E, e \in Outcomes(sites, {s}, kind, Recent(s))
      PROVE  e \in Outcomes(Fresh, {s}, kind, LastEnd(sites[s]))
  <2>1. e[2] \in Int  BY DEF Times
  <2>2. e \in Outcomes(sites, {s}, kind, LastEnd(sites[s])) /\ e[2] >= now - WindowTicks
    BY <1>2, <2>1, RecentType DEF Outcomes
  <2>3. LastEnd(sites[s]) \in Int  BY RecentType
  <2> QED  BY <2>2, <2>3, FreshOutcomes
<1>3. \A recs, since : Outcomes(recs, {s}, kind, since) \subseteq E  BY DEF Outcomes
<1>4. LastEnd(sites[s]) \in Int /\ LastEnd(sites[s]) >= LastEnd(sites[s])  BY RecentType
<1> HIDE DEF E
<1> QED  BY <1>1, <1>2, <1>3, <1>4

\* The baseline of the others is what the window holds of them.
LEMMA FreshOfOthers ==
  ASSUME StatsInv, NEW S, S \subseteq Sites, NEW kind \in {"ok", "failed"}
  PROVE  Outcomes(Fresh, S, kind, 0) = Outcomes(sites, S, kind, now - WindowTicks)
<1> DEFINE E == S \X Times \X (1..MaxEvents)
<1>1. ASSUME NEW e \in E
      PROVE  e \in Outcomes(Fresh, S, kind, 0) <=> e \in Outcomes(sites, S, kind, now - WindowTicks)
  <2>1. e[2] \in Int /\ e[2] >= 0  BY DEF Times
  <2>2. e \in Outcomes(Fresh, S, kind, 0)
          <=> e \in Outcomes(sites, S, kind, 0) /\ e[2] >= now - WindowTicks
    BY FreshOutcomes
  <2> QED  BY <2>1, <2>2 DEF Outcomes
<1>2. \A recs, since : Outcomes(recs, S, kind, since) \subseteq E  BY DEF Outcomes
<1> HIDE DEF E
<1> QED  BY <1>1, <1>2

LEMMA GuiltyFailedLately ==
  ASSUME StatsInv, NEW s \in Sites, Guilty(Fresh, s)
  PROVE  Failed(sites, {s}, Recent(s)) >= Min({MinFailures, BurstFailures})
<1> DEFINE last == LastEnd(sites[s])
           least == Min({MinFailures, BurstFailures})
           n == Failed(sites, {s}, Recent(s))
<1>1. Fresh[s].clearedAt = last  BY FreshRecord DEF StatsInv
<1>2. last \in Nat  BY RecentType
<1>3. ASSUME NEW since \in Int, since >= last
      PROVE  Failed(Fresh, {s}, since) <= n
  BY <1>3, FreshOfSite, FewerOutcomes DEF Failed
<1>4. /\ least <= MinFailures /\ least <= BurstFailures
      /\ MinFailures \in Nat /\ BurstFailures \in Nat /\ least \in Nat
  <2>1. MinFailures \in Nat /\ BurstFailures \in Nat  BY ConfigAssumption
  <2> QED  BY <2>1, MinOfTwo
<1>5. n \in Nat /\ \A since : Failed(Fresh, {s}, since) \in Nat
  BY CountTypes
<1> HIDE DEF n, last, least
<1>6. CASE IsFailing(Fresh, s)
  <2>1. Failed(Fresh, {s}, last) >= MinFailures  BY <1>1, <1>6 DEF IsFailing
  <2>2. last \in Int /\ last >= last  BY <1>2
  <2>3. Failed(Fresh, {s}, last) <= n  BY <1>3, <2>2
  <2> QED  BY <1>4, <1>5, <2>1, <2>3 DEF n, least
<1>7. CASE IsBurst(Fresh, s)
  <2> DEFINE since == Max({now - BurstTicks, last})
  <2>1. Failed(Fresh, {s}, since) >= BurstFailures  BY <1>1, <1>7 DEF IsBurst
  <2>2. now - BurstTicks \in Int  BY RecordTypes, ConfigAssumption DEF StatsInv
  <2>3. since \in Int /\ since >= last  BY <1>2, <2>2, MaxOfTwo
  <2>4. Failed(Fresh, {s}, since) <= n  BY <1>3, <2>3
  <2> HIDE DEF since
  <2> QED  BY <1>4, <1>5, <2>1, <2>4 DEF n, least
<1> QED  BY <1>6, <1>7 DEF Guilty

\* A ban takes failures in the window and after the ban before, whoever was restarted in
\* between: the outcomes it is for are not counted twice.
THEOREM BansNeedFreshFailures == Spec => BanNeedsFreshFailures
<1>1. ASSUME StatsInv, [Next]_vars
      PROVE  \A s \in Sites : BanStarts(s) /\ ~Banned(sites[s]) =>
               Failed(sites, {s}, Recent(s)) >= Min({MinFailures, BurstFailures})
  BY <1>1, OnlySubmitBans, GuiltyFailedLately
<1> QED  BY <1>1, StatsAreSound, PTL DEF Spec, BanNeedsFreshFailures

\* A site where every job since its ban failed, and none is left, is found failing when the
\* others succeed.
LEMMA BlackHoleIsGuilty ==
  ASSUME StatsInv, NEW s \in Sites, ~Banned(sites[s]), inFlight[s] = 0,
         Failed(sites, {s}, Recent(s)) >= MinFailures,
         Succeeded(sites, {s}, Recent(s)) = 0,
         Failed(sites, Others(sites, s), now - WindowTicks) = 0,
         Succeeded(sites, Others(sites, s), now - WindowTicks) >= MinBaselineJobs
  PROVE  Guilty(Fresh, s)
<1> DEFINE last == LastEnd(sites[s])
           n == Failed(sites, {s}, Recent(s))
           O == Others(sites, s)
           m == Sent(Fresh, O, 0)
<1>1. Fresh[s].clearedAt = last /\ ~Banned(Fresh[s])  BY FreshRecord DEF StatsInv
<1>2. O \subseteq Sites /\ Others(Fresh, s) = O
  BY FreshRecord DEF StatsInv, Others
<1>3. Failed(Fresh, {s}, last) = n /\ Succeeded(Fresh, {s}, last) = 0
  BY FreshOfSite DEF Failed, Succeeded
<1>4. Cardinality(Flying({s})) = 0
  <2>1. Flying({s}) = {}  BY ConfigAssumption DEF Flying
  <2> QED  BY <2>1, FS_EmptySet
<1>5. n \in Nat  BY CountTypes
<1>6. Sent(Fresh, {s}, last) = n  BY <1>3, <1>4, <1>5 DEF Sent, Ended
<1>7. Failed(Fresh, O, 0) = 0 /\ Succeeded(Fresh, O, 0) >= MinBaselineJobs
  BY <1>2, FreshOfOthers DEF Failed, Succeeded
<1>8. m \in Nat /\ m >= MinBaselineJobs
  <2>1. Cardinality(Flying(O)) \in Nat /\ Succeeded(Fresh, O, 0) \in Nat /\ m \in Nat
    BY <1>2, CountTypes
  <2> QED  BY <1>7, <2>1, ConfigAssumption DEF Sent, Ended
<1> HIDE DEF n, m, last, O
<1>9. Stands(n, n, 0, m)
  <2>1. MinFailurePercent * n <= 100 * n  BY <1>5, ConfigAssumption
  <2>2. RelativeFactor * 0 * n = 0 /\ n * m >= 0  BY <1>5, <1>8, ConfigAssumption
  <2> QED  BY <1>8, <2>1, <2>2 DEF Stands
<1>10. IsFailing(Fresh, s)
  BY <1>1, <1>2, <1>3, <1>6, <1>7, <1>9 DEF IsFailing, m, n
<1> QED  BY <1>1, <1>10 DEF Guilty

LEMMA GuiltyIsHeldOut ==
  ASSUME StatsInv, Submit, NEW s \in Sites, Guilty(Fresh, s)
  PROVE  s \in blacklist' \/ Cardinality(blacklist') = MaxSites
<1> DEFINE active == {o \in Sites : Banned(sites'[o])}
           n == Cardinality(active)
<1>1. s \in active
  <2>1. sites'[s].until = now + Length(sites[s].quarantines)  BY SubmittedRecord
  <2>2. sites[s].quarantines \in Nat /\ now \in Nat  BY RecordTypes DEF StatsInv
  <2>3. Length(sites[s].quarantines) \in 1..MaxQuarantineTicks  BY <2>2, LengthRange
  <2>4. sites'[s].until > now  BY <2>1, <2>2, <2>3, ConfigAssumption
  <2> QED  BY <2>4 DEF Banned
<1>2. blacklist' \subseteq active /\ Cardinality(blacklist') = Min({MaxSites, n})
  BY DEF Submit, Worst
<1>3. IsFiniteSet(active)  BY ConfigAssumption, FS_Subset
<1>4. n \in Nat /\ MaxSites \in Nat  BY <1>3, FS_CardinalityType, ConfigAssumption
<1>5. Cardinality(blacklist') = n => blacklist' = active  BY <1>2, <1>3, FS_Subset
<1> HIDE DEF n
<1>6. Min({MaxSites, n}) = IF MaxSites <= n THEN MaxSites ELSE n  BY <1>4, MinOfTwo
<1> QED  BY <1>1, <1>2, <1>4, <1>5, <1>6

\* A site where all fails since its ban ended is out of the next submission, unless the
\* list is full.
THEOREM BlackHolesAreHeldOut == Spec => BlackHoleIsHeldOut
<1>1. ASSUME StatsInv, Submit
      PROVE  \A s \in Sites :
               /\ ~Banned(sites[s]) /\ inFlight[s] = 0
               /\ Failed(sites, {s}, Recent(s)) >= MinFailures
               /\ Succeeded(sites, {s}, Recent(s)) = 0
               /\ Failed(sites, Others(sites, s), now - WindowTicks) = 0
               /\ Succeeded(sites, Others(sites, s), now - WindowTicks) >= MinBaselineJobs
               => s \in blacklist' \/ Cardinality(blacklist') = MaxSites
  BY <1>1, BlackHoleIsGuilty, GuiltyIsHeldOut
<1> QED  BY <1>1, StatsAreSound, PTL DEF BlackHoleIsHeldOut

\* Each further ban is twice the longest that was saved, up to the ceiling, and no ban is
\* moved while it runs.
THEOREM BansDouble == Spec => BansEscalate
<1>1. ASSUME StatsInv, [Next]_vars, NEW s \in Sites, BanStarts(s)
      PROVE  /\ ~Banned(sites[s])
             /\ sites'[s].until - now >= Min({2 * longest[s], MaxQuarantineTicks})
  <2> DEFINE k == sites[s].quarantines
             d == disk[s].quarantines
             l == longest[s]
  <2>1. Submit /\ Guilty(Fresh, s)  BY <1>1, OnlySubmitBans
  <2>2. ~Banned(sites[s]) /\ sites'[s].until = now + Length(k)  BY <1>1, <2>1, SubmittedRecord
  <2>3. k \in Nat /\ d \in Nat /\ d <= k /\ l \in Nat /\ now \in Nat /\ l <= LongestOf(d)
    BY <1>1, RecordTypes DEF StatsInv
  <2>4. Length(k) \in 1..MaxQuarantineTicks  BY <2>3, LengthRange
  <2>5. Length(k) = MaxQuarantineTicks \/ Length(k) >= 2 * l
    <3>1. CASE d = 0  BY <2>3, <2>4, <3>1, ConfigAssumption DEF LongestOf
    <3>2. CASE d # 0
      <4>1. d - 1 \in Nat /\ d - 1 < k  BY <2>3, <3>2
      <4>2. Length(k) = MaxQuarantineTicks \/ Length(k) >= 2 * Length(d - 1)
        BY <2>3, <4>1, LengthDoubles
      <4>3. Length(d - 1) \in 1..MaxQuarantineTicks  BY <4>1, LengthRange
      <4>4. l <= Length(d - 1)  BY <2>3, <3>2 DEF LongestOf
      <4> QED  BY <2>3, <2>4, <4>2, <4>3, <4>4, ConfigAssumption
    <3> QED  BY <3>1, <3>2
  <2>6. sites'[s].until - now = Length(k)  BY <2>2, <2>3, <2>4, ConfigAssumption
  <2> HIDE DEF l
  <2>7. 2 * l \in Int /\ MaxQuarantineTicks \in Int  BY <2>3, ConfigAssumption
  <2>8. Min({2 * l, MaxQuarantineTicks}) = IF 2 * l <= MaxQuarantineTicks THEN 2 * l ELSE MaxQuarantineTicks
    BY <2>7, MinOfTwo
  <2>9. Length(k) >= Min({2 * l, MaxQuarantineTicks})  BY <2>4, <2>5, <2>7, <2>8
  <2> QED  BY <2>2, <2>6, <2>9 DEF l
<1>2. StatsInv /\ [Next]_vars =>
        \A s \in Sites : BanStarts(s) =>
          /\ ~Banned(sites[s])
          /\ sites'[s].until - now >= Min({2 * longest[s], MaxQuarantineTicks})
  BY <1>1
<1> QED  BY <1>2, StatsAreSound, PTL DEF Spec, BansEscalate

-----------------------------------------------------------------------------
(***************************************************************************)
(* Bans are served.                                                        *)
(***************************************************************************)

\* resolve_whitelist: no entry that is left matches an excluded site.
LEMMA WhitelistAvoids ==
  ASSUME NEW W, NEW B, NEW P, NEW e \in resolve_whitelist(W, B, P)
  PROVE  e \cap B = {}
<1>1. CASE e \in W /\ e \cap B = {}  BY <1>1
<1>2. CASE \E f \in W : \E site \in (f \cap P) \ B : e = {site}
  <2>1. PICK site : site \notin B /\ e = {site}  BY <1>2
  <2> QED  BY <2>1
<1> QED  BY <1>1, <1>2 DEF resolve_whitelist

\* A submission sends at most one job, and to no site on its blacklist.
LEMMA SubmittedJobs ==
  ASSUME StatsInv, Submit
  PROVE  /\ running' \in [Sites -> Nat]
         /\ \A s \in Sites : running'[s] > running[s] => s \notin blacklist'
<1>1. running \in [Sites -> Nat]  BY ConfigAssumption DEF StatsInv, TypeOK
<1>2. CASE UNCHANGED running  BY <1>1, <1>2
<1>3. ASSUME NEW e \in resolve_whitelist(Whitelist, StaticBlacklist \cup blacklist', Sites),
             NEW o \in Sites, o \in e, running' = [running EXCEPT ![o] = @ + 1]
      PROVE  /\ running' \in [Sites -> Nat]
             /\ \A s \in Sites : running'[s] > running[s] => s \notin blacklist'
  <2>1. o \notin blacklist'  BY <1>3, WhitelistAvoids
  <2> QED  BY <1>1, <1>3, <2>1
<1> QED  BY <1>2, <1>3 DEF Submit

\* A banned site that a submission sends a job to is one of too many.
LEMMA ServedUnlessCapped ==
  ASSUME StatsInv, Submit, NEW s \in Sites, running'[s] > running[s], Banned(disk[s])
  PROVE  Cardinality({o \in Sites : sites'[o].until > now'}) > MaxSites
<1> DEFINE active == {o \in Sites : Banned(sites'[o])}
           n == Cardinality(active)
<1>1. now' = now  BY DEF Submit
<1>2. s \in active
  <2>1. Banned(sites[s]) /\ sites'[s].until = sites[s].until
    BY SubmittedRecord DEF StatsInv, Banned
  <2> QED  BY <2>1 DEF Banned
<1>3. s \notin blacklist'  BY SubmittedJobs
<1>4. /\ blacklist' \subseteq active
      /\ Cardinality(blacklist') = Min({MaxSites, n})
  BY DEF Submit, Worst
<1>5. IsFiniteSet(active)  BY ConfigAssumption, FS_Subset
<1>6. IsFiniteSet(blacklist') /\ Cardinality(blacklist') < n
  <2>1. IsFiniteSet(blacklist') /\ Cardinality(blacklist') <= n
        /\ (Cardinality(blacklist') = n => blacklist' = active)
    BY <1>4, <1>5, FS_Subset
  <2>2. n \in Nat /\ Cardinality(blacklist') \in Nat  BY <1>5, <2>1, FS_CardinalityType
  <2> QED  BY <1>2, <1>3, <2>1, <2>2
<1>7. n \in Nat /\ MaxSites \in Nat  BY <1>5, FS_CardinalityType, ConfigAssumption
<1> HIDE DEF n
<1>8. Min({MaxSites, n}) = IF MaxSites <= n THEN MaxSites ELSE n  BY <1>7 DEF Min
<1>9. n > MaxSites  BY <1>4, <1>6, <1>7, <1>8
<1>10. active = {o \in Sites : sites'[o].until > now'}  BY <1>1 DEF Banned
<1> QED  BY <1>9, <1>10 DEF n

\* Until a saved ban ends no submission may use its site, unless more are banned than the
\* cap keeps out.
THEOREM BansAreServed == Spec => BanIsServed
<1> DEFINE Step == \A s \in Sites : running'[s] > running[s] /\ Banned(disk[s]) =>
                     Cardinality({o \in Sites : Banned(sites'[o])}) > MaxSites
<1>1. StatsInv /\ [Next]_vars => [Step]_vars
  <2> SUFFICES ASSUME StatsInv, Next, NEW s \in Sites, running'[s] > running[s], Banned(disk[s])
               PROVE  Cardinality({o \in Sites : Banned(sites'[o])}) > MaxSites
    OBVIOUS
  <2>1. running \in [Sites -> Nat]  BY ConfigAssumption DEF StatsInv, TypeOK
  <2>2. ~UNCHANGED running  BY <2>1
  <2>3. ASSUME NEW o \in Sites, NEW outcome \in {"ok", "failed"}, Harvest(o, outcome)
        PROVE  FALSE
    <3>1. running' = [running EXCEPT ![o] = @ - 1]  BY <2>3 DEF Harvest
    <3> QED  BY <2>1, <3>1
  <2>4. Submit
    BY <2>2, <2>3 DEF Next, Poll, PollUnread, Restart, Tick
  <2>5. now' = now  BY <2>4 DEF Submit
  <2>6. Cardinality({o \in Sites : sites'[o].until > now'}) > MaxSites
    BY <2>4, ServedUnlessCapped
  <2> QED  BY <2>5, <2>6 DEF Banned
<1>2. Spec => []StatsInv  BY StatsAreSound
<1> QED  BY <1>1, <1>2, PTL DEF Spec, BanIsServed
=============================================================================
