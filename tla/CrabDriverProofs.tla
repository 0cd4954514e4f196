-------------------------- MODULE CrabDriverProofs --------------------------
(***************************************************************************)
(* Proofs about CrabDriver, for any number of jobs, slots, retries, runs   *)
(* of the driver and losses: where every job is, on which clock a retry    *)
(* waits, what is charged to it, what the file holds and what a success    *)
(* means (DInv), whatever vanishes and whenever.  That a job is in one of  *)
(* law's mappings only, and the brake on regeneration, which counts them,  *)
(* need that no product vanishes between luigi's scheduling and law's      *)
(* listing (Once): with such a loss a job is counted twice                 *)
(* (MCCrabDriverEarlyLoss).                                                *)
(***************************************************************************)
EXTENDS CrabDriver, FiniteSetTheorems, SequenceTheorems, TLAPS

-----------------------------------------------------------------------------
(***************************************************************************)
(* Lists: sequences without repetition.                                    *)
(***************************************************************************)

\* The members of T, some of them, each once.
List(s, T) == s \in Seq(T) /\ IsInjective(s)

Rising(s) == \A i, k \in DOMAIN s : i < k => s[i] < s[k]

\* A finite set of numbers can be written in order.
LEMMA Rises ==
  ASSUME NEW S, S \subseteq Nat, IsFiniteSet(S)
  PROVE  \E s \in [1..Cardinality(S) -> S] : Rising(s)
<1> DEFINE N == Cardinality(S)
           UpTo(m) == {n \in S : n <= m}
           rank == [m \in S |-> Cardinality(UpTo(m))]
<1>1. N \in Nat  BY FS_CardinalityType
<1>2. ASSUME NEW m \in S
      PROVE  IsFiniteSet(UpTo(m)) /\ Cardinality(UpTo(m)) \in 1..N
  <2>1. IsFiniteSet(UpTo(m)) /\ Cardinality(UpTo(m)) \in Nat /\ Cardinality(UpTo(m)) <= N
    BY FS_Subset, FS_CardinalityType
  <2>2. m \in UpTo(m)  OBVIOUS
  <2>3. Cardinality(UpTo(m)) # 0  BY <2>1, <2>2, FS_EmptySet
  <2> QED  BY <1>1, <2>1, <2>3
<1>3. ASSUME NEW m \in S, NEW n \in S, m < n
      PROVE  Cardinality(UpTo(m)) < Cardinality(UpTo(n))
  <2>1. m \in Nat /\ n \in Nat  OBVIOUS
  <2>2. UpTo(m) \in SUBSET UpTo(n)
    <3>1. \A x \in Nat : x <= m => x <= n  BY <1>3, <2>1
    <3> QED  BY <3>1
  <2>3. n \in UpTo(n) /\ n \notin UpTo(m)  BY <1>3, <2>1
  <2>4. IsFiniteSet(UpTo(n)) /\ IsFiniteSet(UpTo(m))  BY <1>2
  <2> HIDE DEF UpTo
  <2>5. Cardinality(UpTo(m)) <= Cardinality(UpTo(n)) /\ Cardinality(UpTo(m)) # Cardinality(UpTo(n))
    BY <2>2, <2>3, <2>4, FS_Subset
  <2> QED  BY <2>5, <1>2
<1> HIDE DEF UpTo
<1>4. rank \in [S -> 1..N]  BY <1>2
<1>5. \A m, n \in S : rank[m] = rank[n] => m = n
  <2> SUFFICES ASSUME NEW m \in S, NEW n \in S, rank[m] = rank[n], m # n  PROVE FALSE  OBVIOUS
  <2>1. m \in Nat /\ n \in Nat /\ (m < n \/ n < m)  OBVIOUS
  <2>2. rank[m] < rank[n] \/ rank[n] < rank[m]  BY <1>3, <2>1
  <2> QED  BY <1>2, <2>2
<1>6. rank \in Surjection(S, 1..N)
  <2>1. rank \in Injection(S, 1..N)  BY <1>4, <1>5 DEF Injection, IsInjective
  <2>2. IsFiniteSet(1..N) /\ Cardinality(1..N) = N  BY <1>1, FS_Interval
  <2> HIDE DEF rank
  <2> QED  BY <2>1, <2>2, FS_Injection
<1>7. \A k \in 1..N : \E m \in S : rank[m] = k  BY <1>6 DEF Surjection
<1> DEFINE s == [k \in 1..N |-> CHOOSE m \in S : rank[m] = k]
<1>8. s \in [1..N -> S] /\ \A k \in 1..N : rank[s[k]] = k
  <2> HIDE DEF rank
  <2> QED  BY <1>7
<1>9. Rising(s)
  <2> SUFFICES ASSUME NEW i \in 1..N, NEW k \in 1..N, i < k  PROVE s[i] < s[k]
    BY <1>8 DEF Rising
  <2>1. s[i] \in S /\ s[k] \in S /\ rank[s[i]] = i /\ rank[s[k]] = k  BY <1>8
  <2>2. s[i] \in Nat /\ s[k] \in Nat  BY <2>1
  <2>3. s[k] < s[i] => k < i  BY <1>3, <2>1
  <2>4. s[k] = s[i] => k = i  BY <2>1
  <2>5. i \in Nat /\ k \in Nat  BY <1>1
  <2> HIDE DEF s, rank
  <2> QED  BY <2>2, <2>3, <2>4, <2>5
<1> HIDE DEF s
<1> QED  BY <1>8, <1>9

\* The jobs of S, each once (InOrder).
LEMMA InOrderIs ==
  ASSUME NEW S, S \subseteq Nat, IsFiniteSet(S)
  PROVE  /\ List(InOrder(S), S) /\ ToSet(InOrder(S)) = S
         /\ Len(InOrder(S)) = Cardinality(S)
<1> DEFINE N == Cardinality(S)
           s == InOrder(S)
<1>1. N \in Nat  BY FS_CardinalityType
<1>2. PICK t \in [1..N -> S] : Rising(t)  BY Rises
<1>3. t \in SetToSeqs(S)
  <2>1. ASSUME NEW i \in 1..N, NEW k \in 1..N, i # k  PROVE t[i] # t[k]
    <3>1. i < k \/ k < i  BY <1>1, <2>1
    <3>2. t[i] \in Nat /\ t[k] \in Nat  BY <1>2
    <3>3. t[i] < t[k] \/ t[k] < t[i]  BY <1>2, <3>1 DEF Rising
    <3> QED  BY <3>2, <3>3
  <2> QED  BY <1>2, <2>1 DEF SetToSeqs
<1>4. s \in SetToSeqs(S)
  <2>1. \E x \in SetToSeqs(S) : \A i, k \in DOMAIN x : i < k => x[i] < x[k]
    BY <1>2, <1>3 DEF Rising
  <2> QED  BY <2>1 DEF InOrder
<1>5. s \in [1..N -> S] /\ \A i, k \in 1..N : i # k => s[i] # s[k]  BY <1>4 DEF SetToSeqs
<1> HIDE DEF s
<1>6. s \in Seq(S) /\ Len(s) = N /\ DOMAIN s = 1..N  BY <1>1, <1>5
<1>7. IsInjective(s)  BY <1>5, <1>6 DEF IsInjective
<1>8. ToSet(s) = S
  <2>1. s \in Injection(1..N, S)  BY <1>5, <1>7 DEF Injection
  <2>2. IsFiniteSet(1..N) /\ Cardinality(1..N) = N  BY <1>1, FS_Interval
  <2>3. s \in Surjection(1..N, S)  BY <2>1, <2>2, FS_Injection
  <2> QED  BY <1>6, <2>3 DEF Surjection, ToSet
<1> QED  BY <1>6, <1>7, <1>8 DEF s, List

\* As many as there are members.
LEMMA ListLength ==
  ASSUME NEW T, NEW s, List(s, T)
  PROVE  IsFiniteSet(ToSet(s)) /\ Len(s) = Cardinality(ToSet(s)) /\ ToSet(s) \subseteq T
<1>1. s \in Seq(T) /\ Len(s) \in Nat /\ DOMAIN s = 1..Len(s)  BY DEF List
<1>2. ToSet(s) \subseteq T /\ s \in [1..Len(s) -> ToSet(s)]
  <2>1. \A i \in 1..Len(s) : s[i] \in T  BY <1>1
  <2> QED  BY <1>1, <2>1 DEF ToSet
<1>3. s \in Surjection(1..Len(s), ToSet(s))  BY <1>1, <1>2 DEF Surjection, ToSet
<1>4. s \in Injection(1..Len(s), ToSet(s))  BY <1>1, <1>2 DEF Injection, List, IsInjective
<1>5. IsFiniteSet(1..Len(s)) /\ Cardinality(1..Len(s)) = Len(s)  BY <1>1, FS_Interval
<1> QED  BY <1>2, <1>3, <1>4, <1>5, FS_Surjection

\* Leaving jobs out.
LEMMA WithoutIs ==
  ASSUME NEW T, NEW s, List(s, T), NEW S
  PROVE  List(Without(s, S), T) /\ ToSet(Without(s, S)) = ToSet(s) \ S
<1> DEFINE I == {i \in DOMAIN s : s[i] \notin S}
           kept == InOrder(I)
           w == Without(s, S)
<1>1. s \in Seq(T) /\ Len(s) \in Nat /\ DOMAIN s = 1..Len(s)  BY DEF List
<1>2. I \subseteq Nat /\ IsFiniteSet(I)
  <2>1. IsFiniteSet(1..Len(s))  BY <1>1, FS_Interval
  <2>2. I \in SUBSET (1..Len(s))  BY <1>1
  <2>3. I \subseteq Nat  BY <1>1
  <2> HIDE DEF I
  <2> QED  BY <2>1, <2>2, <2>3, FS_Subset
<1>3. List(kept, I) /\ ToSet(kept) = I  BY <1>2, InOrderIs
<1>4. w = [k \in DOMAIN kept |-> s[kept[k]]]  BY DEF Without
<1> HIDE DEF w
<1>5. kept \in Seq(I) /\ Len(kept) \in Nat /\ DOMAIN kept = 1..Len(kept)  BY <1>3 DEF List
<1>6. \A k \in DOMAIN kept : kept[k] \in I  BY <1>3 DEF ToSet
<1>7. \A i \in I : s[i] \in T /\ s[i] \notin S  BY <1>1
<1>8. w \in Seq(T)
  <2>1. \A k \in 1..Len(kept) : s[kept[k]] \in T  BY <1>5, <1>6, <1>7
  <2> QED  BY <1>4, <1>5, <2>1
<1>9. IsInjective(w)
  <2> SUFFICES ASSUME NEW i \in DOMAIN kept, NEW k \in DOMAIN kept, s[kept[i]] = s[kept[k]]  PROVE i = k
    BY <1>4 DEF IsInjective
  <2>1. kept[i] \in DOMAIN s /\ kept[k] \in DOMAIN s  BY <1>6
  <2>2. kept[i] = kept[k]  BY <2>1 DEF List, IsInjective
  <2> QED  BY <1>3, <2>2 DEF List, IsInjective
<1>10. ToSet(w) = ToSet(s) \ S
  <2>1. ToSet(w) = {s[kept[k]] : k \in DOMAIN kept}  BY <1>4 DEF ToSet
  <2>2. I = {kept[k] : k \in DOMAIN kept}  BY <1>3 DEF ToSet
  <2>3. ToSet(w) = {s[i] : i \in I}
    <3> HIDE DEF I, kept
    <3> QED  BY <2>1, <2>2
  <2>4. {s[i] : i \in I} = ToSet(s) \ S  BY DEF ToSet
  <2> QED  BY <2>3, <2>4
<1> QED  BY <1>8, <1>9, <1>10 DEF w, List

\* One list behind another.
LEMMA Behind ==
  ASSUME NEW T, NEW s, NEW t, List(s, T), List(t, T)
  PROVE  /\ s \o t \in Seq(T) /\ ToSet(s \o t) = ToSet(s) \union ToSet(t)
         /\ ToSet(s) \intersect ToSet(t) = {} => List(s \o t, T)
<1>1. /\ s \in Seq(T) /\ Len(s) \in Nat /\ DOMAIN s = 1..Len(s)
      /\ t \in Seq(T) /\ Len(t) \in Nat /\ DOMAIN t = 1..Len(t)
  BY DEF List
<1> DEFINE u == s \o t
<1>2. /\ u \in Seq(T) /\ DOMAIN u = 1..(Len(s) + Len(t))
      /\ \A i \in 1..(Len(s) + Len(t)) : u[i] = IF i <= Len(s) THEN s[i] ELSE t[i - Len(s)]
  <2>1. Len(u) = Len(s) + Len(t)  BY <1>1
  <2> QED  BY <1>1, <2>1
<1> HIDE DEF u
<1>3. ASSUME NEW i \in DOMAIN u
      PROVE  IF i <= Len(s) THEN i \in DOMAIN s /\ u[i] = s[i]
             ELSE i - Len(s) \in DOMAIN t /\ u[i] = t[i - Len(s)]
  BY <1>1, <1>2
<1>4. \A i \in DOMAIN s : i \in DOMAIN u /\ u[i] = s[i]  BY <1>1, <1>2
<1>5. \A i \in DOMAIN t : i + Len(s) \in DOMAIN u /\ u[i + Len(s)] = t[i]
  <2> TAKE i \in DOMAIN t
  <2>1. i \in Nat /\ i >= 1 /\ i <= Len(t)  BY <1>1
  <2>2. i + Len(s) \in 1..(Len(s) + Len(t)) /\ ~(i + Len(s) <= Len(s)) /\ (i + Len(s)) - Len(s) = i
    BY <1>1, <2>1
  <2> QED  BY <1>2, <2>2
<1>6. ToSet(u) = ToSet(s) \union ToSet(t)
  <2>1. \A x \in ToSet(u) : x \in ToSet(s) \union ToSet(t)  BY <1>3 DEF ToSet
  <2>2. \A x \in ToSet(s) : x \in ToSet(u)  BY <1>4 DEF ToSet
  <2>3. \A x \in ToSet(t) : x \in ToSet(u)  BY <1>5 DEF ToSet
  <2> QED  BY <2>1, <2>2, <2>3
<1>7. ASSUME ToSet(s) \intersect ToSet(t) = {}  PROVE IsInjective(u)
  <2> SUFFICES ASSUME NEW i \in DOMAIN u, NEW k \in DOMAIN u, u[i] = u[k]  PROVE i = k
    BY DEF IsInjective
  <2>0. i \in Int /\ k \in Int  BY <1>2
  <2>1. CASE i <= Len(s) /\ k <= Len(s)
    BY <1>3, <2>1 DEF List, IsInjective
  <2>2. CASE ~(i <= Len(s)) /\ ~(k <= Len(s))
    <3>1. i - Len(s) = k - Len(s)  BY <1>3, <2>2 DEF List, IsInjective
    <3> QED  BY <1>1, <2>0, <3>1
  <2>3. CASE i <= Len(s) /\ ~(k <= Len(s))
    <3>1. s[i] \in ToSet(s) /\ t[k - Len(s)] \in ToSet(t)  BY <1>3, <2>3 DEF ToSet
    <3> QED  BY <1>3, <1>7, <2>3, <3>1
  <2>4. CASE ~(i <= Len(s)) /\ k <= Len(s)
    <3>1. s[k] \in ToSet(s) /\ t[i - Len(s)] \in ToSet(t)  BY <1>3, <2>4 DEF ToSet
    <3> QED  BY <1>3, <1>7, <2>4, <3>1
  <2> QED  BY <2>1, <2>2, <2>3, <2>4
<1> QED  BY <1>2, <1>6, <1>7 DEF u, List

\* The first n of a list, and the rest.
LEMMA Split ==
  ASSUME NEW T, NEW s, List(s, T), NEW n \in Nat, n <= Len(s)
  PROVE  LET front == SubSeq(s, 1, n)
             rest == SubSeq(s, n + 1, Len(s))
         IN /\ List(front, T) /\ List(rest, T)
            /\ ToSet(front) \union ToSet(rest) = ToSet(s)
            /\ ToSet(front) \intersect ToSet(rest) = {}
            /\ Cardinality(ToSet(front)) = n
<1> DEFINE front == SubSeq(s, 1, n)
           rest == SubSeq(s, n + 1, Len(s))
<1>1. s \in Seq(T) /\ Len(s) \in Nat /\ DOMAIN s = 1..Len(s)  BY DEF List
<1>2. /\ front \in Seq(T) /\ Len(front) = n /\ DOMAIN front = 1..n
      /\ \A i \in 1..n : front[i] = s[i] /\ i \in DOMAIN s
  <2>1. front = [i \in 1..n |-> s[i]]  BY <1>1
  <2>2. \A i \in 1..n : i \in 1..Len(s) /\ s[i] \in T  BY <1>1
  <2> HIDE DEF front
  <2> QED  BY <1>1, <2>1, <2>2
<1> DEFINE m == Len(s) - n
<1>3. /\ rest \in Seq(T) /\ DOMAIN rest = 1..m
      /\ \A i \in 1..m : rest[i] = s[i + n] /\ i + n \in DOMAIN s
  <2>0. m \in Nat  BY <1>1
  <2>1. rest = [i \in 1..m |-> s[i + n]]
    <3>1. rest = [i \in 1..(Len(s) - (n + 1) + 1) |-> s[(n + 1) + i - 1]]  BY <1>1
    <3>2. Len(s) - (n + 1) + 1 = m  BY <1>1
    <3>3. \A i \in 1..m : (n + 1) + i - 1 = i + n  BY <2>0
    <3> HIDE DEF rest, m
    <3> QED  BY <3>1, <3>2, <3>3
  <2>2. \A i \in 1..m : i + n \in 1..Len(s)  BY <1>1
  <2>3. \A i \in 1..m : s[i + n] \in T  BY <1>1, <2>2
  <2> HIDE DEF rest, m
  <2> QED  BY <1>1, <2>0, <2>1, <2>2, <2>3
<1> HIDE DEF front, rest
<1>4. IsInjective(front)  BY <1>2 DEF List, IsInjective
<1>5. IsInjective(rest)
  <2> SUFFICES ASSUME NEW i \in 1..m, NEW k \in 1..m, rest[i] = rest[k]  PROVE i = k
    BY <1>3 DEF IsInjective
  <2>1. i + n = k + n  BY <1>3 DEF List, IsInjective
  <2> QED  BY <1>1, <2>1
<1>6. \A x \in ToSet(s) : x \in ToSet(front) \/ x \in ToSet(rest)
  <2> TAKE x \in ToSet(s)
  <2>1. PICK i \in 1..Len(s) : x = s[i]  BY <1>1 DEF ToSet
  <2>2. CASE i <= n
    <3>1. i \in 1..n  BY <2>2
    <3> QED  BY <1>2, <2>1, <3>1 DEF ToSet
  <2>3. CASE ~(i <= n)
    <3>1. i - n \in 1..m /\ (i - n) + n = i  BY <1>1, <2>3
    <3>2. rest[i - n] = x  BY <1>3, <2>1, <3>1
    <3> QED  BY <1>3, <3>1, <3>2 DEF ToSet
  <2> QED  BY <2>2, <2>3
<1>7. \A x \in ToSet(front) : x \in ToSet(s)  BY <1>2 DEF ToSet
<1>8. \A x \in ToSet(rest) : x \in ToSet(s)  BY <1>3 DEF ToSet
<1>9. ToSet(front) \intersect ToSet(rest) = {}
  <2> SUFFICES ASSUME NEW i \in 1..n, NEW k \in 1..m, front[i] = rest[k]  PROVE FALSE
    BY <1>2, <1>3 DEF ToSet
  <2>1. i = k + n  BY <1>2, <1>3 DEF List, IsInjective
  <2> QED  BY <1>1, <2>1
<1>10. List(front, T) /\ List(rest, T)  BY <1>2, <1>3, <1>4, <1>5 DEF List
<1>11. Cardinality(ToSet(front)) = n  BY <1>2, <1>10, ListLength
<1> QED  BY <1>6, <1>7, <1>8, <1>9, <1>10, <1>11 DEF front, rest
-----------------------------------------------------------------------------
(***************************************************************************)
(* The inductive invariant.                                                *)
(***************************************************************************)

Statements == {"down", "submit", "create", "record", "enter", "poll", "done"}

Types ==
  /\ pc \in Statements
  /\ jobs \in [Jobs -> Statuses] /\ List(backlog, Jobs)
  /\ attempts \subseteq Jobs /\ retries \in [Jobs -> 0..Retries]
  /\ dead \subseteq Jobs /\ offered \subseteq Jobs /\ wave \subseteq Jobs
  /\ nJobs \in {0} \union NJobs..2*NJobs /\ active \in 0..NJobs
  /\ resumed \in BOOLEAN /\ first \in BOOLEAN
  /\ existing \subseteq Jobs \/ existing = Unknown
  /\ clock \in {Off} \union 0..ReleasePolls
  /\ crab \in [Jobs -> {"none", "running", "finished", "failed"}]
  /\ orphans \subseteq Jobs /\ outputs \subseteq Jobs /\ uncounted \subseteq Jobs
  /\ losses \in Nat /\ condemned \subseteq Jobs

\* The job waits for law to do something about it.
Marked(j) == jobs[j] \in {"retry", "missing"}

Stopped == pc \in {"down", "done"}

\* What holds where in the driver.
Phases ==
  /\ Stopped => /\ nJobs = 0 /\ ~resumed /\ existing = Unknown /\ ToSet(backlog) = {}
                /\ \A j \in Jobs : jobs[j] = "none"
  /\ pc # "submit" => offered = {}
  /\ offered \subseteq attempts
  /\ pc \notin {"create", "record"} => wave = {}
  /\ pc \in {"create", "record"} => existing # Unknown
  /\ first => pc = "poll"
  /\ pc = "poll" => nJobs # 0
  /\ pc = "enter" => nJobs = 0
  /\ nJobs = 0 => /\ dead = {} /\ clock = Off /\ offered = {} /\ active = 0
                  /\ \A j \in Jobs : retries[j] = 0
  /\ nJobs = 0 /\ ~resumed => attempts = {}
  /\ nJobs = 0 /\ pc \in {"submit", "create", "record"} =>
       ~resumed /\ \A j \in Jobs : jobs[j] \in {"none", "finished"}

\* Where a job is: in jobs, in the backlog or in the wave, and in someone's hands
\* while law has something to do about it.
Accounts ==
  ~Stopped => \A j \in Jobs :
    /\ jobs[j] # "none" \/ j \in ToSet(backlog) \/ j \in wave
    /\ Marked(j) => j \in offered \/ j \in wave
    /\ j \in offered => Marked(j)

\* In the loop law has looked for the products of all it holds back, and found none.
Listed ==
  nJobs # 0 => \A j \in ToSet(backlog) : existing # Unknown /\ j \notin existing

OnFile ==
  disk # NoFile =>
    /\ disk.jobs \in [Jobs -> Statuses] /\ List(disk.backlog, Jobs)
    /\ disk.attempts \subseteq Jobs
    /\ \A j \in Jobs : disk.jobs[j] = "none" => j \in ToSet(disk.backlog)

\* What was complete once is, unless something was lost.
Kept ==
  /\ losses = 0 =>
       /\ \A j \in Jobs : jobs[j] = "finished" => j \in outputs
       /\ existing # Unknown => existing \subseteq outputs
       /\ disk # NoFile => \A j \in Jobs : disk.jobs[j] = "finished" => j \in outputs
  /\ pc = "done" => disk # NoFile /\ \A j \in Jobs : disk.jobs[j] = "finished"

\* What the next poll will find of a job is in order, or not counted yet.
InOrderOrNew(j) ==
  crab[j] = "running" \/ (crab[j] = "finished" /\ j \in outputs) \/ j \in uncounted

Charged ==
  /\ resumed /\ (first \/ nJobs = 0) => uncounted = Jobs
  /\ \A j \in Jobs \ dead :
       jobs[j] \notin {"none", "finished"} => j \in offered \/ j \in wave \/ InOrderOrNew(j)

InFlight == {j \in Jobs \ dead : jobs[j] = "active" /\ crab[j] = "running"}

Flight ==
  /\ pc \in {"submit", "create", "record"} => Cardinality(InFlight) <= active
  /\ pc \in {"create", "record"} => Cardinality(wave) + active <= NParallel

\* A retry of the backlog that a poll offers again is charged to that offer.
OnTheClock ==
  pc \in {"poll", "submit"} =>
    /\ (\E j \in Parked \ offered : retries[j] > 0 \/ j \in dead) => clock # Off
    /\ clock # Off => Parked # {}

\* Only a resumed run, in its first iteration, comes upon a mass loss.
Noticed == condemned # {} => resumed /\ ~first /\ nJobs # 0 /\ Mass(condemned)

DInv == /\ Types /\ Phases /\ Accounts /\ Listed /\ OnFile /\ Kept /\ Charged /\ Flight
        /\ OnTheClock /\ Noticed

\* As long as no product vanishes between luigi's scheduling and law's listing,
\* a job is in jobs and in the backlog only before law has looked for it, and is
\* then complete.
Once ==
  /\ nJobs \in {0, NJobs}
  /\ ~Stopped => \A j \in ToSet(backlog) :
       /\ j \notin wave
       /\ jobs[j] # "none" => Unlisted /\ jobs[j] = "finished" /\ j \in outputs
  /\ disk # NoFile => \A j \in ToSet(disk.backlog) : disk.jobs[j] = "none"

\* What a mass loss hit stands before the brake, or law did not notice and takes
\* it for finished.
Held ==
  condemned # {} =>
    \/ pc = "submit" /\ condemned = {j \in offered : jobs[j] = "missing"}
    \/ \A j \in condemned : jobs[j] = "finished" /\ j \notin wave
-----------------------------------------------------------------------------
(***************************************************************************)
(* Facts about the constants, and about sets of jobs.                      *)
(***************************************************************************)

LEMMA JobNumbers ==
  /\ NJobs \in Nat /\ NJobs >= 1 /\ NParallel \in Nat /\ NParallel >= 1
  /\ Jobs \subseteq Nat /\ IsFiniteSet(Jobs) /\ Cardinality(Jobs) = NJobs
  /\ 0 \notin Jobs /\ Jobs # {}
<1>1. NJobs \in Nat /\ NJobs >= 1 /\ NParallel \in Nat /\ NParallel >= 1
  BY SizesAssumption
<1>2. IsFiniteSet(1..NJobs) /\ Cardinality(1..NJobs) = NJobs  BY <1>1, FS_Interval
<1> QED  BY <1>1, <1>2 DEF Jobs

LEMMA JobSets ==
  ASSUME NEW S \in SUBSET Jobs, NEW T \in SUBSET S
  PROVE  /\ IsFiniteSet(S) /\ IsFiniteSet(T)
         /\ Cardinality(S) \in 0..NJobs /\ Cardinality(T) \in 0..NJobs
         /\ Cardinality(T) <= Cardinality(S)
<1>1. IsFiniteSet(S) /\ Cardinality(S) <= NJobs  BY JobNumbers, FS_Subset
<1>2. IsFiniteSet(T) /\ Cardinality(T) <= Cardinality(S)  BY <1>1, FS_Subset
<1>3. Cardinality(S) \in Nat /\ Cardinality(T) \in Nat  BY <1>1, <1>2, FS_CardinalityType
<1> QED  BY <1>1, <1>2, <1>3, JobNumbers

LEMMA NoJobs == Cardinality({}) = 0
BY FS_EmptySet

\* What law knows to be complete, among the jobs S.
LEMMA Skipping ==
  ASSUME Types, NEW S \in SUBSET Jobs
  PROVE  /\ Listing \subseteq Jobs /\ Listing # Unknown
         /\ Skip(S) \subseteq S /\ Skip(S) \subseteq Listing
         /\ \A j \in S : j \in Listing => j \in Skip(S)
BY JobNumbers DEF Types, Listing, Skip, Unknown

LEMMA Polls == ReleasePolls \in Nat /\ Retries \in Nat /\ Off = -1
BY GateAssumption, BudgetAssumption DEF Off

LEMMA MinOfTwo ==
  ASSUME NEW a \in Int, NEW b \in Int
  PROVE  Min({a, b}) = IF a <= b THEN a ELSE b
BY DEF Min

LEMMA TickedIs ==
  ASSUME clock \in {Off} \union 0..ReleasePolls
  PROVE  /\ Ticked \in {Off} \union 0..ReleasePolls
         /\ Ticked = Off <=> clock = Off
         /\ clock <= Ticked
<1>1. CASE clock = Off  BY <1>1, Polls DEF Ticked
<1>2. CASE clock # Off
  <2>1. clock \in 0..ReleasePolls /\ clock \in Int /\ clock + 1 \in Int  BY <1>2, Polls
  <2>2. Ticked = IF clock + 1 <= ReleasePolls THEN clock + 1 ELSE ReleasePolls
    BY <1>2, <2>1, MinOfTwo, Polls DEF Ticked
  <2> QED  BY <2>1, <2>2, Polls
<1> QED  BY <1>1, <1>2

-----------------------------------------------------------------------------
(***************************************************************************)
(* Every step preserves the invariant.                                     *)
(***************************************************************************)

LEMMA InitDInv == Init => DInv
<1> SUFFICES ASSUME Init  PROVE DInv  OBVIOUS
<1>0. List(<<>>, Jobs) /\ ToSet(<<>>) = {}  BY DEF List, IsInjective, ToSet
<1>1. outputs \subseteq Jobs  BY JobNumbers DEF Init, Jobs
<1>2. Types
  <2>1. backlog = <<>> /\ 0 \in 0..Retries /\ 0 \in 0..NJobs  BY Polls, JobNumbers DEF Init
  <2>2. jobs \in [Jobs -> Statuses] /\ retries \in [Jobs -> 0..Retries]
        /\ crab \in [Jobs -> {"none", "running", "finished", "failed"}]
    BY <2>1 DEF Init, Statuses
  <2>3. active \in 0..NJobs /\ nJobs = 0 /\ losses \in Nat  BY <2>1 DEF Init
  <2>4. pc = "down" /\ existing = Unknown /\ clock = Off /\ resumed = FALSE /\ first = FALSE
        /\ attempts = {} /\ dead = {} /\ offered = {} /\ wave = {} /\ orphans = {} /\ uncounted = {}
        /\ condemned = {}
    BY DEF Init
  <2> QED  BY <1>0, <1>1, <2>1, <2>2, <2>3, <2>4 DEF Types, Statements
<1>3. Phases  BY <1>0 DEF Init, Phases, Stopped
<1>4. Accounts  BY DEF Init, Accounts, Stopped
<1>5. OnFile  BY DEF Init, OnFile
<1>6. Kept  BY DEF Init, Kept
<1>7. Charged  BY DEF Init, Charged
<1>8. Flight  BY DEF Init, Flight
<1>9. OnTheClock  BY DEF Init, OnTheClock
<1>10. Noticed  BY DEF Init, Noticed
<1>11. Listed  BY DEF Init, Listed
<1> QED  BY <1>2, <1>3, <1>4, <1>5, <1>6, <1>7, <1>8, <1>9, <1>10, <1>11 DEF DInv

LEMMA StartFreshDInv ==
  ASSUME DInv, StartFresh
  PROVE  DInv'
<1> USE DEF DInv
<1>1. List(backlog', Jobs) /\ ToSet(backlog') = Jobs
  BY InOrderIs, JobNumbers DEF StartFresh
<1>2. /\ pc = "down" /\ pc' = "submit" /\ disk = NoFile
      /\ UNCHANGED <<resumed, attempts, retries, dead, nJobs, first, condemned, active, offered,
                     wave, existing, clock, disk, crab, orphans, outputs, uncounted, losses>>
      /\ jobs' = [j \in Jobs |-> IF j \in outputs THEN "finished" ELSE "none"]
  BY DEF StartFresh, world, Entered
<1>3. Types'  BY <1>1, <1>2 DEF Types, Statements, Statuses
<1>4. Phases'  BY <1>2 DEF Phases, Stopped
<1>5. Accounts'  BY <1>1, <1>2 DEF Accounts, Stopped, Phases, Marked
<1>6. OnFile'  BY <1>2 DEF OnFile
<1>7. Kept'  BY <1>2 DEF Kept
<1>8. Charged'  BY <1>2 DEF Charged, InOrderOrNew
<1>9. Flight'
  <2>1. InFlight' = {}  BY <1>2 DEF InFlight
  <2> QED  BY <1>2, <2>1, NoJobs DEF Flight, Phases, Stopped
<1>10. OnTheClock'  BY <1>2 DEF OnTheClock, Parked, Phases, Stopped
<1>11. Noticed'  BY <1>2 DEF Noticed, Mass
<1>12. Listed'  BY <1>2 DEF Listed, Phases, Stopped
<1> QED  BY <1>3, <1>4, <1>5, <1>6, <1>7, <1>8, <1>9, <1>10, <1>11, <1>12

LEMMA StartResumedDInv ==
  ASSUME DInv, StartResumed
  PROVE  DInv'
<1> USE DEF DInv
<1>1. /\ pc = "down" /\ pc' = "enter" /\ disk # NoFile /\ resumed' = TRUE
      /\ jobs' = [j \in Jobs |-> IF disk.jobs[j] \in {"none", "finished"} THEN disk.jobs[j] ELSE "active"]
      /\ backlog' = disk.backlog /\ attempts' = disk.attempts
      /\ uncounted' = Jobs
      /\ UNCHANGED <<retries, dead, nJobs, first, condemned, active, offered,
                     wave, existing, clock, disk, crab, orphans, outputs, losses>>
  BY DEF StartResumed
<1>2. Types'  BY <1>1 DEF Types, Statements, Statuses, OnFile
<1>3. Phases'  BY <1>1 DEF Phases, Stopped
<1>4. Accounts'  BY <1>1 DEF Accounts, Stopped, Phases, Marked, OnFile
<1>5. OnFile'  BY <1>1 DEF OnFile
<1>6. Kept'  BY <1>1 DEF Kept
<1>7. Charged'  BY <1>1 DEF Charged, InOrderOrNew
<1>8. Flight'  BY <1>1 DEF Flight
<1>9. OnTheClock'  BY <1>1 DEF OnTheClock
<1>10. Noticed'  BY <1>1 DEF Noticed, Mass, Phases, Stopped
<1>11. Listed'  BY <1>1 DEF Listed, Phases, Stopped
<1> QED  BY <1>2, <1>3, <1>4, <1>5, <1>6, <1>7, <1>8, <1>9, <1>10, <1>11

LEMMA EnterDInv ==
  ASSUME DInv, Enter
  PROVE  DInv'
<1> USE DEF DInv
<1> DEFINE skipped == Skip(ToSet(backlog))
<1>1. /\ pc = "enter" /\ pc' = "poll" /\ first' = TRUE
      /\ existing' = IF backlog = <<>> THEN existing ELSE Listing
      /\ jobs' = [j \in Jobs |-> IF j \in skipped THEN "finished" ELSE jobs[j]]
      /\ backlog' = Without(backlog, skipped)
      /\ nJobs' = Cardinality(Recorded \union skipped) + Len(backlog')
      /\ UNCHANGED <<resumed, attempts, retries, dead, condemned, active, offered, wave, clock, disk,
                     crab, orphans, outputs, uncounted, losses>>
  BY DEF Enter, world, Entered
<1>2. List(backlog, Jobs) /\ ToSet(backlog) \subseteq Jobs /\ jobs \in [Jobs -> Statuses]
  BY ListLength DEF Types
<1>3. /\ skipped \subseteq ToSet(backlog) /\ skipped \subseteq Listing /\ Listing \subseteq Jobs
      /\ \A j \in ToSet(backlog) : j \in Listing => j \in skipped
      /\ Listing # Unknown
  BY <1>2, Skipping
<1> HIDE DEF skipped
<1>4. List(backlog', Jobs) /\ ToSet(backlog') = ToSet(backlog) \ skipped
  BY <1>1, <1>2, WithoutIs
<1>5. \A j \in Jobs : j \in ToSet(backlog) => backlog # <<>> /\ (j \in skipped \/ j \notin Listing)
  <2>1. ToSet(<<>>) = {}  BY DEF ToSet
  <2> QED  BY <1>3, <2>1
<1>6. \A j \in Jobs : jobs[j] # "none" \/ j \in ToSet(backlog)
  BY <1>1 DEF Accounts, Stopped, Phases
<1>7. nJobs' \in NJobs..2*NJobs
  <2> DEFINE R == Recorded \union skipped
             B == ToSet(backlog')
  <2>1. R \in SUBSET Jobs /\ B \in SUBSET Jobs  BY <1>2, <1>3, <1>4 DEF Recorded
  <2>2. R \union B = Jobs  BY <1>2, <1>3, <1>4, <1>6 DEF Recorded
  <2>3. Len(backlog') = Cardinality(B)  BY <1>4, ListLength
  <2>4. /\ IsFiniteSet(R) /\ IsFiniteSet(B)
        /\ Cardinality(R) \in 0..NJobs /\ Cardinality(B) \in 0..NJobs
    BY <2>1, JobSets
  <2>5. nJobs' = Cardinality(R) + Cardinality(B)  BY <1>1, <2>3 DEF R
  <2> HIDE DEF R, B
  <2>6. Cardinality(Jobs) = Cardinality(R) + Cardinality(B) - Cardinality(R \intersect B)
    BY <2>2, <2>4, FS_Union
  <2>7. IsFiniteSet(R \intersect B)  BY <2>4, FS_Intersection
  <2>8. Cardinality(R \intersect B) \in Nat  BY <2>7, FS_CardinalityType
  <2> QED  BY <2>4, <2>5, <2>6, <2>8, JobNumbers
<1>8. jobs' \in [Jobs -> Statuses] /\ (existing' \subseteq Jobs \/ existing' = Unknown)
  BY <1>1, <1>2, <1>3 DEF Types, Statuses
<1>9. Types'  BY <1>1, <1>4, <1>7, <1>8 DEF Types, Statements
<1>10. Phases'  BY <1>1, <1>7, JobNumbers DEF Phases, Stopped
<1>11. Accounts'
  <2> SUFFICES ASSUME NEW j \in Jobs
      PROVE  /\ jobs'[j] # "none" \/ j \in ToSet(backlog') \/ j \in wave'
             /\ jobs'[j] \notin {"retry", "missing"} /\ j \notin offered'
    BY DEF Accounts, Marked
  <2> QED  BY <1>1, <1>2, <1>3, <1>4, <1>6 DEF Phases, Accounts, Stopped, Marked
<1>12. OnFile'  BY <1>1 DEF OnFile
<1>13. Kept'
  <2>1. losses = 0 => Listing \subseteq outputs  BY DEF Kept, Listing
  <2> QED  BY <1>1, <1>2, <1>3, <2>1 DEF Kept
<1>14. Charged'
  <2>1. resumed => uncounted = Jobs  BY <1>1 DEF Charged, Phases
  <2> QED  BY <1>1, <1>2, <2>1 DEF Charged, InOrderOrNew
<1>15. Flight'  BY <1>1 DEF Flight
<1>16. OnTheClock'
  <2>1. dead' = {} /\ clock' = Off /\ \A j \in Jobs : retries'[j] = 0  BY <1>1 DEF Phases
  <2>2. \A j \in Parked' : j \in Jobs  BY <1>1 DEF Parked, Types
  <2> QED  BY <2>1, <2>2 DEF OnTheClock
<1>17. Noticed'  BY <1>1 DEF Noticed, Mass, Phases
<1>18. Listed'  BY <1>1, <1>2, <1>3, <1>4, <1>5 DEF Listed
<1> QED  BY <1>9, <1>10, <1>11, <1>12, <1>13, <1>14, <1>15, <1>16, <1>17, <1>18

LEMMA UnansweredDInv ==
  ASSUME DInv, Unanswered
  PROVE  DInv'
<1> USE DEF DInv
<1>1. /\ pc = "poll" /\ clock' = Ticked /\ first' = FALSE
      /\ condemned' = Condemned(FinishedInVain)
      /\ UNCHANGED <<pc, resumed, jobs, backlog, attempts, retries, dead, nJobs,
                     active, offered, wave, existing, disk, crab, orphans, outputs, uncounted,
                     losses>>
  BY DEF Unanswered, world
<1>2. clock' \in {Off} \union 0..ReleasePolls /\ (clock' = Off <=> clock = Off)
  BY <1>1, TickedIs DEF Types
<1>3. Types'  BY <1>1, <1>2 DEF Types, Condemned, FinishedInVain
<1>4. Phases'  BY <1>1, JobNumbers DEF Phases, Stopped
<1>5. Accounts'  BY <1>1 DEF Accounts, Stopped, Marked
<1>6. OnFile'  BY <1>1 DEF OnFile
<1>7. Kept'  BY <1>1 DEF Kept
<1>8. Charged'  BY <1>1 DEF Charged, InOrderOrNew
<1>9. Flight'  BY <1>1 DEF Flight
<1>10. OnTheClock'  BY <1>1, <1>2 DEF OnTheClock, Parked
<1>11. Noticed'  BY <1>1 DEF Noticed, Mass, Condemned, Phases
<1>12. Listed'  BY <1>1 DEF Listed
<1> QED  BY <1>3, <1>4, <1>5, <1>6, <1>7, <1>8, <1>9, <1>10, <1>11, <1>12

\* What an answered poll finds.
LEMMA PollFinds ==
  ASSUME DInv, Answered
  PROVE  /\ PolledJobs \in [Jobs -> Statuses] /\ PolledAttempts \subseteq Jobs
         /\ Failed \subseteq Jobs /\ Spent \subseteq Failed /\ StillActive \subseteq Jobs
         /\ Accepted \subseteq outputs /\ Failed \subseteq PolledAttempts
         /\ Gone \subseteq Jobs /\ Missing \subseteq Failed
         /\ \A j \in Jobs :
              /\ PolledJobs[j] = "none" <=> jobs[j] = "none"
              /\ j \in Failed <=> PolledJobs[j] \in {"retry", "missing"}
              /\ PolledJobs[j] = "finished" => jobs[j] = "finished" \/ j \in Accepted
              /\ PolledJobs[j] = "finished" <=> j \in Finished
              /\ PolledJobs[j] = "missing" <=> j \in Missing
              /\ jobs[j] = "finished" /\ ~first => PolledJobs[j] = "finished"
              /\ PolledJobs[j] = "active" => j \in dead \/ j \in StillActive
              /\ j \in StillActive => crab[j] = "running" /\ j \notin Accepted
              /\ jobs[j] = "none" => j \notin Failed
<1> USE DEF DInv
<1>1. /\ pc = "poll" /\ jobs \in [Jobs -> Statuses] /\ attempts \subseteq Jobs /\ outputs \subseteq Jobs
      /\ offered = {} /\ wave = {}
  BY DEF Answered, Types, Phases
<1>2. \A j \in Jobs : jobs[j] \in {"none", "active", "finished"}
  BY <1>1 DEF Accounts, Marked, Stopped, Statuses
<1>3. /\ Asked \subseteq Jobs /\ StillActive \subseteq Asked /\ Accepted \subseteq Asked
      /\ Broken \subseteq Asked /\ Missing \subseteq Gone /\ Gone \subseteq Jobs
      /\ ~first => Missing = {}
      /\ \A j \in Asked : jobs[j] = "active" /\ j \notin dead
      /\ \A j \in Missing : /\ jobs[j] \in {"active", "finished"}
                           /\ j \notin Broken /\ j \notin StillActive /\ j \notin Accepted
      /\ \A j \in Asked : j \in Broken \/ j \in StillActive \/ j \in Accepted \/ j \in Missing
      /\ \A j \in Broken : j \notin Accepted /\ j \notin StillActive
      /\ \A j \in StillActive : j \notin Accepted /\ crab[j] = "running"
      /\ \A j \in Accepted : j \in outputs
      /\ \A j \in Jobs : jobs[j] = "active" => j \in dead \/ j \in Asked
  BY <1>2 DEF Asked, StillActive, Accepted, Broken, Missing, Gone, FinishedInVain
<1>4. \A j \in Jobs :
        PolledJobs[j] = IF j \in Broken THEN "retry" ELSE IF j \in Missing THEN "missing"
                        ELSE IF j \in Accepted THEN "finished" ELSE jobs[j]
  <2> TAKE j \in Jobs
  <2>1. /\ ~(j \in Broken /\ j \in Missing) /\ ~(j \in Accepted /\ j \in Missing)
        /\ ~(j \in Broken /\ j \in Accepted)
    BY <1>3
  <2> QED  BY <2>1 DEF PolledJobs
<1>5. PolledJobs \in [Jobs -> Statuses]
  <2>1. PolledJobs = [j \in Jobs |-> PolledJobs[j]]  BY DEF PolledJobs
  <2>2. \A j \in Jobs : PolledJobs[j] \in Statuses  BY <1>2, <1>4 DEF Statuses
  <2> QED  BY <2>1, <2>2
<1>6. /\ Failed = Broken \union Missing /\ Spent \subseteq Failed
      /\ PolledAttempts = attempts \union Failed
  BY DEF Failed, Spent, PolledAttempts
<1>7. \A j \in Jobs : j \in Finished <=> (jobs[j] = "finished" /\ j \notin Missing) \/ j \in Accepted
  BY <1>3 DEF Finished
<1>8. ASSUME NEW j \in Jobs
      PROVE  /\ PolledJobs[j] = "none" <=> jobs[j] = "none"
             /\ j \in Failed <=> PolledJobs[j] \in {"retry", "missing"}
             /\ PolledJobs[j] = "finished" => jobs[j] = "finished" \/ j \in Accepted
             /\ PolledJobs[j] = "finished" <=> j \in Finished
             /\ PolledJobs[j] = "missing" <=> j \in Missing
             /\ jobs[j] = "finished" /\ ~first => PolledJobs[j] = "finished"
             /\ PolledJobs[j] = "active" => j \in dead \/ j \in StillActive
             /\ j \in StillActive => crab[j] = "running" /\ j \notin Accepted
             /\ jobs[j] = "none" => j \notin Failed
  <2> HIDE DEF DInv
  <2> QED  BY <1>2, <1>3, <1>4, <1>6, <1>7
<1> QED  BY <1>1, <1>3, <1>5, <1>6, <1>8

LEMMA AnsweredOnFile ==
  ASSUME DInv, Answered
  PROVE  OnFile' /\ disk' # NoFile
         /\ disk'.jobs = PolledJobs /\ disk'.backlog = backlog
<1> USE DEF DInv
<1>1. disk' = [jobs |-> PolledJobs, backlog |-> backlog, attempts |-> PolledAttempts]
      /\ pc = "poll"
  BY DEF Answered, File
<1>2. \A j \in Jobs : jobs[j] = "none" => j \in ToSet(backlog)
  BY <1>1 DEF Accounts, Phases, Stopped
<1>3. disk' # NoFile
  <2>1. DOMAIN PolledJobs = Jobs /\ DOMAIN <<>> = {}  BY DEF PolledJobs
  <2>2. NoFile.jobs = <<>>  BY DEF NoFile
  <2>3. disk'.jobs = PolledJobs  BY <1>1
  <2> QED  BY <2>1, <2>2, <2>3, JobNumbers
<1>4. OnFile'  BY <1>1, <1>2, PollFinds DEF OnFile, Types
<1> QED  BY <1>1, <1>3, <1>4

\* Forgetting everything, whatever became of the file.
LEMMA ForgetDInv ==
  ASSUME DInv, Forget, pc' \in {"down", "done"}, OnFile',
         orphans' \subseteq Jobs, uncounted' \subseteq Jobs,
         crab' \in [Jobs -> {"none", "running", "finished", "failed"}],
         UNCHANGED <<outputs, losses>>,
         losses = 0 /\ disk' # NoFile => \A j \in Jobs : disk'.jobs[j] = "finished" => j \in outputs,
         pc' = "done" => disk' # NoFile /\ \A j \in Jobs : disk'.jobs[j] = "finished"
  PROVE  DInv'
<1> USE DEF DInv
<1>1. /\ resumed' = FALSE /\ first' = FALSE
      /\ jobs' = [j \in Jobs |-> "none"] /\ backlog' = <<>>
      /\ attempts' = {} /\ retries' = [j \in Jobs |-> 0]
      /\ dead' = {} /\ nJobs' = 0 /\ active' = 0 /\ offered' = {} /\ wave' = {}
      /\ condemned' = {} /\ existing' = Unknown /\ clock' = Off
  BY DEF Forget
<1>2. List(<<>>, Jobs) /\ ToSet(<<>>) = {}  BY DEF List, IsInjective, ToSet
<1>3. Types'
  <2>1. 0 \in 0..Retries /\ 0 \in 0..NJobs  BY Polls, JobNumbers
  <2>2. jobs' \in [Jobs -> Statuses] /\ retries' \in [Jobs -> 0..Retries] /\ active' \in 0..NJobs
    BY <1>1, <2>1 DEF Statuses
  <2>3. outputs' \subseteq Jobs /\ losses' \in Nat  BY DEF Types
  <2> QED  BY <1>1, <1>2, <2>2, <2>3 DEF Types, Statements
<1>4. Phases'  BY <1>1, <1>2 DEF Phases, Stopped
<1>5. Accounts'  BY DEF Accounts, Stopped
<1>6. Kept'  BY <1>1 DEF Kept
<1>7. Charged'  BY <1>1 DEF Charged
<1>8. Flight'  BY DEF Flight
<1>9. OnTheClock'  BY DEF OnTheClock
<1>10. Noticed'  BY <1>1 DEF Noticed, Mass
<1>11. Listed'  BY <1>1 DEF Listed
<1> QED  BY <1>3, <1>4, <1>5, <1>6, <1>7, <1>8, <1>9, <1>10, <1>11

LEMMA PollEndsDInv ==
  ASSUME DInv, PollEnds
  PROVE  DInv'
<1> USE DEF DInv
<1>1. /\ Answered /\ Forget /\ pc = "poll" /\ pc' = IF Complete THEN "done" ELSE "down"
      /\ UNCHANGED <<orphans, outputs, losses>>
      /\ crab' = [j \in Jobs |-> IF j \in Accepted THEN "none" ELSE crab[j]]
      /\ uncounted' = {}
  BY DEF PollEnds, Answered
<1>2. OnFile' /\ disk' # NoFile /\ disk'.jobs = PolledJobs  BY <1>1, AnsweredOnFile
<1>3. losses = 0 => \A j \in Jobs : disk'.jobs[j] = "finished" => j \in outputs
  BY <1>1, <1>2, PollFinds DEF Kept
<1>4. Complete => \A j \in Jobs : disk'.jobs[j] = "finished"
  <2> SUFFICES ASSUME Complete  PROVE \A j \in Jobs : disk'.jobs[j] = "finished"  OBVIOUS
  <2>1. Cardinality(Finished) = nJobs /\ nJobs \in NJobs..2*NJobs
    BY <1>1 DEF Complete, Phases, Types
  <2>2. Finished \in SUBSET Jobs  BY DEF Finished, Accepted, Asked
  <2>3. Cardinality(Finished) = NJobs
    <3>1. Cardinality(Finished) \in 0..NJobs  BY <2>2, JobSets
    <3> QED  BY <2>1, <3>1, JobNumbers
  <2>4. Finished = Jobs  BY <2>2, <2>3, JobNumbers, FS_Subset
  <2> QED  BY <1>1, <1>2, <2>4, PollFinds
<1>5. /\ orphans' \subseteq Jobs /\ uncounted' \subseteq Jobs
      /\ crab' \in [Jobs -> {"none", "running", "finished", "failed"}]
  BY <1>1 DEF Types
<1> QED  BY <1>1, <1>2, <1>3, <1>4, <1>5, ForgetDInv

LEMMA BrakeDInv ==
  ASSUME DInv, stop_on_mass_initial_retry
  PROVE  DInv'
<1> USE DEF DInv
<1>1. /\ Forget /\ pc' = "down"
      /\ UNCHANGED <<disk, crab, orphans, outputs, uncounted, losses>>
  BY DEF stop_on_mass_initial_retry, world
<1>2. /\ OnFile' /\ (losses = 0 /\ disk' # NoFile => \A j \in Jobs : disk'.jobs[j] = "finished" => j \in outputs)
      /\ orphans' \subseteq Jobs /\ uncounted' \subseteq Jobs
      /\ crab' \in [Jobs -> {"none", "running", "finished", "failed"}]
  BY <1>1 DEF OnFile, Kept, Types
<1> QED  BY <1>1, <1>2, ForgetDInv

LEMMA DieDInv ==
  ASSUME DInv, Die
  PROVE  DInv'
<1> USE DEF DInv
<1>1. /\ Forget /\ pc' = "down" /\ UNCHANGED <<disk, crab, outputs, uncounted, losses>>
      /\ orphans' = IF pc = "record" THEN orphans \union wave ELSE orphans
  BY DEF Die
<1>2. /\ OnFile' /\ (losses = 0 /\ disk' # NoFile => \A j \in Jobs : disk'.jobs[j] = "finished" => j \in outputs)
      /\ orphans' \subseteq Jobs /\ uncounted' \subseteq Jobs
      /\ crab' \in [Jobs -> {"none", "running", "finished", "failed"}]
  BY <1>1 DEF OnFile, Kept, Types
<1> QED  BY <1>1, <1>2, ForgetDInv

LEMMA PollOffersDInv ==
  ASSUME DInv, PollOffers
  PROVE  DInv'
<1> USE DEF DInv
<1>1. /\ Answered /\ pc = "poll" /\ pc' = "submit" /\ jobs' = PolledJobs /\ attempts' = PolledAttempts
      /\ retries' = [j \in Jobs |-> IF j \in Failed \ Spent THEN retries[j] + 1 ELSE retries[j]]
      /\ dead' = dead \union Spent /\ offered' = Failed
      /\ active' = Cardinality(StillActive) /\ first' = FALSE /\ clock' = Ticked
      /\ condemned' = Condemned(Gone)
      /\ UNCHANGED <<resumed, backlog, nJobs, wave, existing, orphans, outputs, losses>>
      /\ crab' = [j \in Jobs |-> IF j \in Accepted THEN "none" ELSE crab[j]]
      /\ uncounted' = {}
  BY DEF PollOffers, Answered
<1>2. OnFile' /\ disk' # NoFile /\ disk'.jobs = PolledJobs
  BY <1>1, AnsweredOnFile
<1>3. clock' \in {Off} \union 0..ReleasePolls /\ (clock' = Off <=> clock = Off)
  BY <1>1, TickedIs DEF Types
<1>4. retries' \in [Jobs -> 0..Retries]
  <2>1. \A j \in Failed : j \notin Spent => retries[j] # Retries  BY DEF Spent
  <2>2. \A j \in Jobs : retries[j] \in 0..Retries  BY DEF Types
  <2>3. ASSUME NEW j \in Jobs
        PROVE  (IF j \in Failed \ Spent THEN retries[j] + 1 ELSE retries[j]) \in 0..Retries
    BY <2>1, <2>2, Polls
  <2> QED  BY <1>1, <2>3
<1>5. StillActive \in SUBSET Jobs /\ active' \in 0..NJobs
  <2>1. StillActive \in SUBSET Jobs  BY <1>1, PollFinds
  <2> QED  BY <1>1, <2>1, JobSets
<1>6. Types'
  <2>1. /\ jobs' \in [Jobs -> Statuses] /\ attempts' \subseteq Jobs /\ offered' \subseteq Jobs
        /\ dead' \subseteq Jobs
    BY <1>1, PollFinds DEF Types
  <2>2. crab' \in [Jobs -> {"none", "running", "finished", "failed"}] /\ uncounted' \subseteq Jobs
    BY <1>1 DEF Types
  <2>3. condemned' \subseteq Jobs  BY <1>1, PollFinds DEF Types, Condemned
  <2> QED  BY <1>1, <1>3, <1>4, <1>5, <2>1, <2>2, <2>3 DEF Types, Statements
<1>7. Phases'  BY <1>1, JobNumbers, PollFinds DEF Phases, Stopped
<1>8. Accounts'
  <2> SUFFICES ASSUME NEW j \in Jobs
      PROVE  /\ jobs'[j] # "none" \/ j \in ToSet(backlog)
             /\ jobs'[j] \in {"retry", "missing"} <=> j \in offered'
    BY <1>1 DEF Accounts, Marked
  <2> QED  BY <1>1, PollFinds DEF Phases, Accounts, Stopped
<1>9. Kept'
  <2>1. losses = 0 => \A j \in Jobs : PolledJobs[j] = "finished" => j \in outputs
    BY <1>1, PollFinds DEF Kept
  <2> QED  BY <1>1, <1>2, <2>1 DEF Kept
<1>10. Charged'
  <2> SUFFICES ASSUME NEW j \in Jobs, j \notin dead', jobs'[j] \notin {"none", "finished"}
      PROVE  j \in offered' \/ crab'[j] = "running"
    BY <1>1 DEF Charged, InOrderOrNew, Phases
  <2>1. j \in Failed \/ j \in StillActive
    BY <1>1, PollFinds DEF Statuses
  <2> QED  BY <1>1, <2>1, PollFinds
<1>11. Flight'
  <2>1. InFlight' \in SUBSET StillActive
    <3> SUFFICES ASSUME NEW j \in Jobs, j \notin dead', jobs'[j] = "active"  PROVE j \in StillActive
      BY DEF InFlight
    <3> QED  BY <1>1, PollFinds
  <2>2. Cardinality(InFlight') <= Cardinality(StillActive)  BY <1>5, <2>1, JobSets
  <2> QED  BY <1>1, <2>2 DEF Flight
<1>12. OnTheClock'
  <2>1. Parked \subseteq Parked'  BY <1>1 DEF Parked, PolledAttempts
  <2>2. ASSUME NEW j \in Parked' \ offered'
        PROVE  j \in Parked \ offered /\ retries'[j] = retries[j] /\ (j \in dead' => j \in dead)
    <3>1. /\ j \in ToSet(backlog) /\ j \in attempts' /\ j \notin Failed /\ j \in Jobs
          /\ offered = {}
      BY <1>1, <1>6 DEF Parked, Phases, Types
    <3>2. j \in attempts /\ j \notin Spent  BY <1>1, <3>1, PollFinds DEF PolledAttempts
    <3> QED  BY <1>1, <3>1, <3>2 DEF Parked
  <2>3. (\E j \in Parked' \ offered' : retries'[j] > 0 \/ j \in dead') => clock # Off
    BY <1>1, <2>2 DEF OnTheClock
  <2> QED  BY <1>1, <1>3, <2>1, <2>3 DEF OnTheClock
<1>13. Noticed'  BY <1>1, JobNumbers DEF Noticed, Mass, Condemned, Phases
<1>14. Listed'  BY <1>1 DEF Listed
<1> QED  BY <1>2, <1>6, <1>7, <1>8, <1>9, <1>10, <1>11, <1>12, <1>13, <1>14

LEMMA ClockIs ==
  ASSUME NEW b, NEW late \in BOOLEAN, clock \in {Off} \union 0..ReleasePolls
  PROVE  /\ RetryReleaseClock(b, late) \in {Off} \union 0..ReleasePolls
         /\ RetryReleaseClock(b, late) = Off <=> ToSet(b) \intersect attempts = {}
         /\ ~late /\ clock # Off /\ ToSet(b) \intersect attempts # {} => RetryReleaseClock(b, late) = clock
<1>1. Off \notin 0..ReleasePolls /\ 0 \in 0..ReleasePolls /\ 0 # Off  BY Polls
<1>2. CASE ToSet(b) \intersect attempts = {}  BY <1>2 DEF RetryReleaseClock
<1>3. CASE ToSet(b) \intersect attempts # {} /\ late  BY <1>1, <1>3 DEF RetryReleaseClock
<1>4. CASE ToSet(b) \intersect attempts # {} /\ ~late  BY <1>1, <1>4 DEF RetryReleaseClock
<1> QED  BY <1>2, <1>3, <1>4

\* What a round that parks does with the jobs it was offered (_park_retries).
LEMMA ParkingIs ==
  ASSUME DInv, pc = "submit", NEW c, park_retries(c)
  PROVE  \E skipped, parked \in SUBSET offered :
           /\ skipped = Skip(offered) /\ parked = offered \ skipped
           /\ List(backlog', Jobs) /\ ToSet(backlog') = parked \union ToSet(backlog)
           /\ \A j \in Jobs : jobs'[j] = IF j \in skipped THEN "finished"
                                         ELSE IF j \in parked THEN "none" ELSE jobs[j]
           /\ jobs' \in [Jobs -> Statuses]
           /\ clock' = IF parked # {} /\ c = Off THEN 0 ELSE c
           /\ existing' = IF offered = {} THEN existing ELSE Listing
           /\ offered' = {}
<1> DEFINE skipped == Skip(offered)
           parked == offered \ skipped
           s == InOrder(parked)
           w == Without(backlog, parked)
<1>1. /\ jobs' = [j \in Jobs |-> IF j \in skipped THEN "finished"
                                 ELSE IF j \in parked THEN "none" ELSE jobs[j]]
      /\ backlog' = s \o w
      /\ clock' = IF parked # {} /\ c = Off THEN 0 ELSE c
      /\ existing' = IF offered = {} THEN existing ELSE Listing
      /\ offered' = {}
  BY DEF park_retries, Entered
<1>2. offered \subseteq Jobs /\ jobs \in [Jobs -> Statuses] /\ List(backlog, Jobs)
  BY DEF DInv, Types
<1>3. skipped \in SUBSET offered /\ parked \in SUBSET offered
  BY <1>2, Skipping DEF DInv
<1>4. jobs' \in [Jobs -> Statuses]
  BY <1>1, <1>2 DEF Statuses
<1> HIDE DEF skipped, parked
<1>5. List(s, Jobs) /\ ToSet(s) = parked
  <2>1. parked \subseteq Nat /\ IsFiniteSet(parked) /\ parked \subseteq Jobs
    <3>1. parked \in SUBSET Jobs  BY <1>2, <1>3
    <3> QED  BY <3>1, JobNumbers, FS_Subset
  <2>2. List(s, parked) /\ ToSet(s) = parked  BY <2>1, InOrderIs
  <2>3. parked \in SUBSET Jobs /\ s \in Seq(parked)  BY <2>1, <2>2 DEF List
  <2> HIDE DEF s
  <2>4. s \in Seq(Jobs)  BY <2>3
  <2> QED  BY <2>2, <2>4 DEF List
<1>6. List(w, Jobs) /\ ToSet(w) = ToSet(backlog) \ parked  BY <1>2, WithoutIs
<1> HIDE DEF s, w
<1>7. List(backlog', Jobs) /\ ToSet(backlog') = parked \union ToSet(backlog)
  <2>1. ToSet(s) \intersect ToSet(w) = {}  BY <1>5, <1>6
  <2>2. /\ ToSet(s \o w) = ToSet(s) \union ToSet(w)
        /\ ToSet(s) \intersect ToSet(w) = {} => List(s \o w, Jobs)
    <3>1. List(s, Jobs) /\ List(w, Jobs)  BY <1>5, <1>6
    <3> QED  BY <3>1, Behind, ZenonT(30)
  <2>3. ToSet(s) \union ToSet(w) = parked \union ToSet(backlog)  BY <1>5, <1>6
  <2> QED  BY <1>1, <2>1, <2>2, <2>3
<1>8. \A j \in Jobs : jobs'[j] = IF j \in skipped THEN "finished"
                                 ELSE IF j \in parked THEN "none" ELSE jobs[j]
  BY <1>1
<1>9. skipped = Skip(offered) /\ parked = offered \ skipped  BY DEF skipped, parked
<1> QED  BY <1>1, <1>3, <1>4, <1>7, <1>8, <1>9

\* Such a round keeps the invariant, with its clock at c.
LEMMA Parking ==
  ASSUME DInv, pc = "submit", NEW c \in {Off} \union 0..ReleasePolls, park_retries(c),
         pc' = NextRound,
         UNCHANGED <<resumed, attempts, retries, dead, nJobs, first, condemned, active, wave, world>>,
         nJobs = 0 => c = Off,
         (\E j \in Parked \ offered : retries[j] > 0 \/ j \in dead) => c # Off,
         c # Off => Parked # {}
  PROVE  /\ Types' /\ Phases' /\ Accounts' /\ Listed' /\ Charged' /\ Flight' /\ OnTheClock'
         /\ Noticed'
         /\ losses = 0 => /\ \A j \in Jobs : jobs'[j] = "finished" => j \in outputs
                          /\ existing' # Unknown => existing' \subseteq outputs
         /\ \A j \in Jobs : jobs'[j] = "none" => j \in ToSet(backlog')
<1> USE DEF DInv
<1>1. PICK skipped, parked \in SUBSET offered :
           /\ skipped = Skip(offered) /\ parked = offered \ skipped
           /\ List(backlog', Jobs) /\ ToSet(backlog') = parked \union ToSet(backlog)
           /\ \A j \in Jobs : jobs'[j] = IF j \in skipped THEN "finished"
                                         ELSE IF j \in parked THEN "none" ELSE jobs[j]
           /\ jobs' \in [Jobs -> Statuses]
           /\ clock' = IF parked # {} /\ c = Off THEN 0 ELSE c
           /\ existing' = IF offered = {} THEN existing ELSE Listing
           /\ offered' = {}
  BY ParkingIs
<1>2. /\ pc' = IF nJobs = 0 THEN "enter" ELSE "poll"
      /\ UNCHANGED <<resumed, attempts, retries, dead, nJobs, first, condemned, active, wave,
                     crab, orphans, outputs, uncounted, losses>>
  BY DEF NextRound, world
<1>3. /\ offered \subseteq Jobs /\ offered \subseteq attempts /\ wave = {} /\ ~Stopped
      /\ jobs \in [Jobs -> Statuses] /\ ToSet(backlog) \subseteq Jobs
      /\ (nJobs = 0 => offered = {})
  BY ListLength DEF Types, Phases, Stopped
<1>4. /\ skipped \subseteq Listing /\ Listing \subseteq Jobs /\ Listing # Unknown
      /\ \A j \in parked : j \notin Listing
  BY <1>1, <1>3, Skipping
<1>5. \A j \in Jobs : /\ j \in offered => jobs[j] \in {"retry", "missing"} /\ (j \in skipped \/ j \in parked)
                      /\ j \notin offered => jobs[j] \notin {"retry", "missing"} /\ jobs'[j] = jobs[j]
  BY <1>1, <1>3 DEF Accounts, Marked, Stopped
<1>6. /\ (existing' \subseteq Jobs \/ existing' = Unknown)
      /\ clock' \in {Off} \union 0..ReleasePolls
      /\ pc' \in Statements
  BY <1>1, <1>2, <1>4, Polls DEF Types, Statements
<1>7. Types'  BY <1>1, <1>2, <1>6 DEF Types
<1>8. Phases'
  <2>1. nJobs = 0 => clock' = Off  BY <1>1, <1>3
  <2> QED  BY <1>1, <1>2, <1>3, <2>1 DEF Phases, Stopped
<1>9. \A j \in Jobs : /\ jobs'[j] = "none" => j \in ToSet(backlog')
                      /\ jobs'[j] \notin {"retry", "missing"}
                      /\ j \in offered => jobs'[j] \in {"none", "finished"}
  <2> TAKE j \in Jobs
  <2>1. CASE j \in offered  BY <1>1, <1>5, <2>1
  <2>2. CASE j \notin offered  BY <1>1, <1>3, <1>5, <2>2 DEF Accounts
  <2> QED  BY <2>1, <2>2
<1>10. Accounts'  BY <1>1, <1>9 DEF Accounts, Marked
<1>11. Charged'
  <2> SUFFICES ASSUME NEW j \in Jobs \ dead, jobs'[j] \notin {"none", "finished"}
      PROVE  InOrderOrNew(j)'
    BY <1>2 DEF Charged
  <2>1. j \notin offered /\ jobs'[j] = jobs[j]  BY <1>5, <1>9
  <2> QED  BY <1>2, <1>3, <2>1 DEF Charged, InOrderOrNew
<1>12. Flight'  BY <1>2 DEF Flight
<1>13. Listed'
  <2> SUFFICES ASSUME nJobs # 0, NEW j \in ToSet(backlog')
      PROVE  existing' # Unknown /\ j \notin existing'
    BY <1>2 DEF Listed
  <2>1. j \in parked \/ j \in ToSet(backlog)  BY <1>1
  <2>2. j \in ToSet(backlog) => existing # Unknown /\ j \notin existing /\ j \notin Listing
    BY DEF Listed, Listing
  <2>3. CASE offered = {}  BY <1>1, <2>1, <2>2, <2>3
  <2>4. CASE offered # {}  BY <1>1, <1>4, <2>1, <2>2, <2>4
  <2> QED  BY <2>3, <2>4
<1>14. OnTheClock'
  <2>1. Parked' = parked \union Parked
    <3>1. parked \subseteq attempts  BY <1>3
    <3> QED  BY <1>1, <1>2, <3>1 DEF Parked
  <2>2. CASE parked # {}
    <3>1. Parked' # {}  BY <2>1, <2>2
    <3>2. clock' # Off  BY <1>1, <2>2, Polls
    <3> QED  BY <3>1, <3>2 DEF OnTheClock
  <2>3. CASE parked = {}
    <3>1. Parked' = Parked /\ clock' = c  BY <1>1, <2>1, <2>3
    <3>2. \A j \in Parked : j \notin offered
      <4> SUFFICES ASSUME NEW j \in ToSet(backlog), j \in offered  PROVE FALSE
        BY DEF Parked
      <4>1. nJobs # 0 /\ j \in skipped  BY <1>1, <1>3, <2>3
      <4>2. j \notin Listing  BY <4>1 DEF Listed, Listing
      <4> QED  BY <1>4, <4>1, <4>2
    <3> QED  BY <1>2, <3>1, <3>2 DEF OnTheClock
  <2> QED  BY <2>2, <2>3
<1>15. Noticed'  BY <1>2 DEF Noticed, Mass
<1>16. losses = 0 => /\ \A j \in Jobs : jobs'[j] = "finished" => j \in outputs
                     /\ existing' # Unknown => existing' \subseteq outputs
  <2>1. losses = 0 => Listing \subseteq outputs  BY DEF Kept, Listing
  <2> QED  BY <1>1, <1>4, <1>5, <2>1 DEF Kept
<1> QED  BY <1>7, <1>8, <1>9, <1>10, <1>11, <1>12, <1>13, <1>14, <1>15, <1>16

LEMMA SkipRoundDInv ==
  ASSUME DInv, SkipRound
  PROVE  DInv'
<1>1. /\ pc = "submit" /\ park_retries(clock) /\ pc' = NextRound
      /\ UNCHANGED <<resumed, attempts, retries, dead, nJobs, first, condemned, active, wave, disk, world>>
  BY DEF SkipRound
<1>2. /\ clock \in {Off} \union 0..ReleasePolls /\ (nJobs = 0 => clock = Off)
      /\ (\E j \in Parked \ offered : retries[j] > 0 \/ j \in dead) => clock # Off
      /\ clock # Off => Parked # {}
  BY <1>1 DEF DInv, Types, Phases, OnTheClock
<1>3. /\ Types' /\ Phases' /\ Accounts' /\ Listed' /\ Charged' /\ Flight' /\ OnTheClock'
      /\ Noticed'
      /\ losses = 0 => /\ \A j \in Jobs : jobs'[j] = "finished" => j \in outputs
                       /\ existing' # Unknown => existing' \subseteq outputs
  BY <1>1, <1>2, Parking
<1>4. OnFile'  BY <1>1 DEF DInv, OnFile
<1>5. Kept'
  <2>1. outputs' = outputs /\ losses' = losses /\ disk' = disk /\ pc' # "done"
    BY <1>1 DEF world, NextRound
  <2> QED  BY <1>3, <2>1 DEF DInv, Kept
<1> QED  BY <1>3, <1>4, <1>5 DEF DInv

\* The file law writes when a round is over.
LEMMA Written ==
  ASSUME Types', disk' = File(jobs', backlog', attempts'),
         \A j \in Jobs : jobs'[j] = "none" => j \in ToSet(backlog')
  PROVE  OnFile' /\ disk' # NoFile /\ disk'.jobs = jobs'
<1>1. /\ disk'.jobs = jobs' /\ disk'.backlog = backlog' /\ disk'.attempts = attempts'
  BY DEF File
<1>2. disk' # NoFile
  <2>1. DOMAIN jobs' = Jobs /\ DOMAIN <<>> = {}  BY DEF Types
  <2>2. NoFile.jobs = <<>>  BY DEF NoFile
  <2> QED  BY <1>1, <2>1, <2>2, JobNumbers
<1>3. OnFile'  BY <1>1 DEF OnFile, Types
<1> QED  BY <1>1, <1>2, <1>3

LEMMA HoldBackDInv ==
  ASSUME DInv, HoldBack
  PROVE  DInv'
<1> DEFINE c == RetryReleaseClock(backlog, FALSE)
<1>1. /\ pc = "submit" /\ park_retries(c) /\ pc' = NextRound
      /\ disk' = IF offered = {} THEN disk ELSE File(jobs', backlog', attempts)
      /\ UNCHANGED <<resumed, attempts, retries, dead, nJobs, first, condemned, active, wave, world>>
  BY DEF HoldBack
<1>2. /\ c \in {Off} \union 0..ReleasePolls
      /\ c = Off <=> Parked = {}
  <2>1. clock \in {Off} \union 0..ReleasePolls  BY DEF DInv, Types
  <2> QED  BY <2>1, ClockIs DEF Parked
<1>3. nJobs = 0 => Parked = {}  BY <1>1 DEF DInv, Phases, Parked
<1> HIDE DEF c
<1>4. /\ (nJobs = 0 => c = Off)
      /\ (\E j \in Parked \ offered : retries[j] > 0 \/ j \in dead) => c # Off
      /\ c # Off => Parked # {}
  BY <1>2, <1>3
<1>5. /\ Types' /\ Phases' /\ Accounts' /\ Listed' /\ Charged' /\ Flight' /\ OnTheClock'
      /\ Noticed'
      /\ losses = 0 => /\ \A j \in Jobs : jobs'[j] = "finished" => j \in outputs
                       /\ existing' # Unknown => existing' \subseteq outputs
      /\ \A j \in Jobs : jobs'[j] = "none" => j \in ToSet(backlog')
  BY <1>1, <1>2, <1>4, Parking
<1>6. outputs' = outputs /\ losses' = losses /\ pc' # "done" /\ attempts' = attempts
  BY <1>1 DEF world, NextRound
<1>7. CASE offered = {}
  <2>1. disk' = disk  BY <1>1, <1>7
  <2>2. OnFile'  BY <2>1 DEF DInv, OnFile
  <2>3. Kept'  BY <1>5, <1>6, <2>1 DEF DInv, Kept
  <2> QED  BY <1>5, <2>2, <2>3 DEF DInv
<1>8. CASE offered # {}
  <2>1. OnFile' /\ disk'.jobs = jobs'  BY <1>1, <1>5, <1>6, <1>8, Written
  <2>2. Kept'  BY <1>5, <1>6, <2>1 DEF Kept
  <2> QED  BY <1>5, <2>1, <2>2 DEF DInv
<1> QED  BY <1>7, <1>8

\* Some first places of a list, counted.
LEMMA FirstPlaces ==
  ASSUME NEW n \in Nat, NEW D \in SUBSET (1..n), \A k \in D : \A i \in 1..k : i \in D
  PROVE  \E m \in 0..n : D = 1..m
<1> DEFINE m == Cardinality(D)
<1>1. IsFiniteSet(1..n) /\ Cardinality(1..n) = n  BY FS_Interval
<1>2. IsFiniteSet(D) /\ m \in Nat /\ m <= n  BY <1>1, FS_Subset, FS_CardinalityType
<1> HIDE DEF m
<1>3. IsFiniteSet(1..m) /\ Cardinality(1..m) = m  BY <1>2, FS_Interval
<1>4. \A k \in D : k \in 1..m
  <2> TAKE k \in D
  <2>1. k \in Nat /\ k >= 1  OBVIOUS
  <2>2. 1..k \in SUBSET D  OBVIOUS
  <2>3. Cardinality(1..k) = k  BY <2>1, FS_Interval
  <2>4. Cardinality(1..k) <= m  BY <1>2, <2>2, FS_Subset DEF m
  <2> QED  BY <1>2, <2>1, <2>3, <2>4
<1>5. D \in SUBSET (1..m)  BY <1>4
<1>6. D = 1..m  BY <1>3, <1>5, FS_Subset DEF m
<1> QED  BY <1>2, <1>6

\* Jobs are taken into a wave in their order, as long as a slot is free.
LEMMA Filling ==
  ASSUME NEW w, List(w, Jobs), NEW taken \in SUBSET Jobs, NEW free \in Nat,
         Cardinality(taken) <= free
  PROVE  LET before(k) == taken \union {w[i] : i \in 1..k-1}
             filling == {w[k] : k \in {i \in DOMAIN w : Cardinality(before(i)) < free}}
         IN filling \subseteq ToSet(w) /\ Cardinality(taken \union filling) <= free
<1> DEFINE before(k) == taken \union {w[i] : i \in 1..k-1}
           D == {i \in DOMAIN w : Cardinality(before(i)) < free}
           filling == {w[k] : k \in D}
<1>1. w \in Seq(Jobs) /\ Len(w) \in Nat /\ DOMAIN w = 1..Len(w)  BY DEF List
<1>2. \A i \in 1..Len(w) : w[i] \in Jobs  BY <1>1
<1>3. ASSUME NEW k \in 1..Len(w)
      PROVE  before(k) \in SUBSET Jobs
  <2>1. k \in Int  OBVIOUS
  <2>2. \A i \in 1..k-1 : i \in 1..Len(w)  BY <1>1, <2>1
  <2> QED  BY <1>2, <2>2
<1>4. ASSUME NEW k \in D, NEW i \in 1..k
      PROVE  i \in D
  <2>1. k \in 1..Len(w) /\ i \in 1..Len(w) /\ Cardinality(before(k)) < free  BY <1>1
  <2>2. \A l \in 1..i-1 : l \in 1..k-1  BY <2>1
  <2>3. before(i) \in SUBSET before(k)  BY <2>2
  <2>4. before(k) \in SUBSET Jobs  BY <1>3, <2>1
  <2> HIDE DEF before
  <2>5. /\ Cardinality(before(i)) <= Cardinality(before(k))
        /\ Cardinality(before(i)) \in 0..NJobs /\ Cardinality(before(k)) \in 0..NJobs
    BY <2>3, <2>4, JobSets
  <2>6. Cardinality(before(i)) < free  BY <2>1, <2>5, JobNumbers
  <2> QED  BY <1>1, <2>1, <2>6
<1>5. PICK m \in 0..Len(w) : D = 1..m
  <2>1. D \in SUBSET (1..Len(w))  BY <1>1
  <2> HIDE DEF D
  <2> QED  BY <1>1, <1>4, <2>1, FirstPlaces
<1>6. filling \subseteq ToSet(w)  BY DEF ToSet
<1>7. CASE m = 0
  <2>1. D = {}  BY <1>5, <1>7
  <2>2. taken \union filling = taken  BY <2>1
  <2> QED  BY <1>6, <2>2
<1>8. CASE m # 0
  <2>1. m \in D /\ m \in 1..Len(w) /\ m \in Nat  BY <1>1, <1>5, <1>8
  <2>2. \A i \in 1..m : i = m \/ i \in 1..m-1  BY <2>1
  <2>3. \A i \in 1..m-1 : i \in 1..m  BY <2>1
  <2>4. taken \union filling = before(m) \union {w[m]}
    <3>1. filling = {w[k] : k \in 1..m}  BY <1>5
    <3> HIDE DEF D, filling
    <3> QED  BY <2>1, <2>2, <2>3, <3>1
  <2>5. Cardinality(before(m)) < free  BY <2>1
  <2>6. before(m) \in SUBSET Jobs  BY <1>3, <2>1
  <2>7. Cardinality(before(m) \union {w[m]}) <= free
    <3> DEFINE c == Cardinality(before(m))
               d == Cardinality(before(m) \union {w[m]})
    <3> HIDE DEF before
    <3>1. IsFiniteSet(before(m)) /\ c \in 0..NJobs  BY <2>6, JobSets
    <3>2. d = c \/ d = c + 1  BY <3>1, FS_AddElement
    <3>3. c \in Nat /\ c < free  BY <2>5, <3>1, JobNumbers
    <3> HIDE DEF c, d
    <3>4. d <= free  BY <3>2, <3>3
    <3> QED  BY <3>4 DEF d
  <2>8. Cardinality(taken \union filling) <= free
    <3> HIDE DEF filling, before
    <3> QED  BY <2>4, <2>7
  <2> QED  BY <1>6, <2>8
<1> QED  BY <1>5, <1>7, <1>8

\* What law's submit() takes from the retries and the backlog.
LEMMA Taking ==
  ASSUME DInv, LawSubmit
  PROVE  \E skipped, taken, overflow, waiting, filling \in SUBSET Jobs :
           /\ skipped = Skip(offered \union ToSet(backlog))
           /\ offered \ skipped = taken \union overflow /\ taken \intersect overflow = {}
           /\ ToSet(backlog) \ skipped = waiting /\ filling \subseteq waiting
           /\ wave' = taken \union filling
           /\ List(backlog', Jobs) /\ ToSet(backlog') = (waiting \ filling) \union (overflow \ waiting)
           /\ jobs' = Entered([j \in Jobs |-> IF j \in overflow THEN "none" ELSE jobs[j]], skipped)
           /\ wave' # {} => Cardinality(wave') + active <= NParallel
<1> USE DEF DInv
<1> DEFINE B == ToSet(backlog)
           skipped == Skip(offered \union B)
           again == InOrder(offered \ skipped)
           free == FreeSlots
           n == Min({free, Len(again)})
           taken == ToSet(SubSeq(again, 1, n))
           overflow == Without(again, taken)
           waiting == Without(backlog, skipped)
           before(k) == taken \union {waiting[i] : i \in 1..k-1}
           filling == {waiting[k] : k \in {i \in DOMAIN waiting : Cardinality(before(i)) < free}}
           rest == Without(waiting, filling)
           more == Without(overflow, ToSet(waiting))
<1>1. /\ pc = "submit"
      /\ wave' = taken \union filling
      /\ backlog' = rest \o more
      /\ jobs' = Entered([j \in Jobs |-> IF j \in ToSet(overflow) THEN "none" ELSE jobs[j]], skipped)
  BY DEF LawSubmit
<1>2. /\ offered \subseteq Jobs /\ List(backlog, Jobs) /\ B \subseteq Jobs /\ active \in 0..NJobs
  BY ListLength DEF Types
<1>3. skipped \in SUBSET Jobs  BY <1>2, Skipping
<1>4. free \in Nat /\ (free # 0 => free + active = NParallel)
  <2>1. active \in Int /\ NParallel \in Int /\ NParallel - active \in Int  BY <1>2, JobNumbers
  <2>2. \A x \in Int : Max({0, x}) = IF x < 0 THEN 0 ELSE x  BY DEF Max
  <2>3. free = IF NParallel - active < 0 THEN 0 ELSE NParallel - active
    BY <2>1, <2>2 DEF FreeSlots
  <2> QED  BY <2>1, <2>3
<1> HIDE DEF skipped, free
<1>5. List(again, Jobs) /\ ToSet(again) = offered \ skipped
  <2>1. (offered \ skipped) \in SUBSET Jobs  BY <1>2
  <2>2. (offered \ skipped) \subseteq Nat /\ IsFiniteSet(offered \ skipped)
    BY <2>1, JobNumbers, FS_Subset
  <2>3. List(again, offered \ skipped) /\ ToSet(again) = offered \ skipped  BY <2>2, InOrderIs
  <2> HIDE DEF again
  <2>4. again \in Seq(Jobs)  BY <2>1, <2>3 DEF List
  <2> QED  BY <2>3, <2>4 DEF List
<1> HIDE DEF again
<1>6. Len(again) \in Nat  BY <1>5 DEF List
<1>7. n \in Nat /\ n <= Len(again) /\ n <= free  BY <1>4, <1>6, MinOfTwo
<1> HIDE DEF n
<1>8. taken \subseteq ToSet(again) /\ Cardinality(taken) = n
  BY <1>5, <1>7, Split
<1> HIDE DEF taken
<1>9. List(overflow, Jobs) /\ ToSet(overflow) = ToSet(again) \ taken  BY <1>5, WithoutIs
<1>10. List(waiting, Jobs) /\ ToSet(waiting) = B \ skipped  BY <1>2, WithoutIs
<1> HIDE DEF overflow, waiting
<1>11. filling \subseteq ToSet(waiting) /\ Cardinality(taken \union filling) <= free
  <2>1. taken \in SUBSET Jobs /\ Cardinality(taken) <= free  BY <1>2, <1>5, <1>7, <1>8
  <2> QED  BY <1>4, <1>10, <2>1, Filling
<1> HIDE DEF filling
<1>12. List(rest, Jobs) /\ ToSet(rest) = ToSet(waiting) \ filling  BY <1>10, WithoutIs
<1>13. List(more, Jobs) /\ ToSet(more) = ToSet(overflow) \ ToSet(waiting)  BY <1>9, WithoutIs
<1> HIDE DEF rest, more
<1>14. List(backlog', Jobs) /\ ToSet(backlog') = ToSet(rest) \union ToSet(more)
  <2>1. ToSet(rest) \intersect ToSet(more) = {}  BY <1>12, <1>13
  <2>2. /\ ToSet(rest \o more) = ToSet(rest) \union ToSet(more)
        /\ ToSet(rest) \intersect ToSet(more) = {} => List(rest \o more, Jobs)
    BY <1>12, <1>13, Behind, ZenonT(30)
  <2> QED  BY <1>1, <2>1, <2>2
<1>15. taken \in SUBSET Jobs /\ filling \in SUBSET Jobs /\ ToSet(waiting) \in SUBSET Jobs
       /\ ToSet(overflow) \in SUBSET Jobs
  BY <1>2, <1>5, <1>8, <1>9, <1>10, <1>11
<1>16. wave' # {} => Cardinality(wave') + active <= NParallel
  <2> SUFFICES ASSUME wave' # {}  PROVE Cardinality(wave') + active <= NParallel  OBVIOUS
  <2>1. wave' \in SUBSET Jobs  BY <1>1, <1>15
  <2>2. IsFiniteSet(wave') /\ Cardinality(wave') \in Nat  BY <2>1, JobSets, FS_CardinalityType
  <2>3. Cardinality(wave') # 0  BY <2>2, FS_EmptySet
  <2>4. Cardinality(wave') <= free  BY <1>1, <1>11
  <2>5. active \in Int /\ NParallel \in Int  BY <1>2, JobNumbers
  <2> QED  BY <1>4, <2>2, <2>3, <2>4, <2>5
<1>17. /\ skipped = Skip(offered \union ToSet(backlog))
       /\ offered \ skipped = taken \union ToSet(overflow) /\ taken \intersect ToSet(overflow) = {}
  BY <1>5, <1>8, <1>9 DEF skipped
<1> QED  BY <1>1, <1>3, <1>10, <1>11, <1>12, <1>13, <1>14, <1>15, <1>16, <1>17

LEMMA LawSubmitDInv ==
  ASSUME DInv, LawSubmit
  PROVE  DInv'
<1> USE DEF DInv
<1> DEFINE B == ToSet(backlog)
<1>1. PICK skipped, taken, overflow, waiting, filling \in SUBSET Jobs :
           /\ skipped = Skip(offered \union B)
           /\ offered \ skipped = taken \union overflow /\ taken \intersect overflow = {}
           /\ B \ skipped = waiting /\ filling \subseteq waiting
           /\ wave' = taken \union filling
           /\ List(backlog', Jobs) /\ ToSet(backlog') = (waiting \ filling) \union (overflow \ waiting)
           /\ jobs' = Entered([j \in Jobs |-> IF j \in overflow THEN "none" ELSE jobs[j]], skipped)
           /\ wave' # {} => Cardinality(wave') + active <= NParallel
  BY Taking
<1>2. /\ pc = "submit" /\ ~MassInitialRetry /\ offered' = {}
      /\ existing' = IF offered = {} /\ backlog = <<>> THEN existing ELSE Listing
      /\ IF wave' = {}
           THEN /\ disk' = File(jobs', backlog', attempts)
                /\ clock' = RetryReleaseClock(backlog', TRUE)
                /\ pc' = NextRound
           ELSE /\ clock' = RetryReleaseClock(backlog, FALSE)
                /\ pc' = "create"
                /\ disk' = disk
      /\ UNCHANGED <<resumed, attempts, retries, dead, nJobs, first, condemned, active,
                     crab, orphans, outputs, uncounted, losses>>
  BY DEF LawSubmit, world
<1>3. /\ offered \subseteq Jobs /\ B \subseteq Jobs /\ jobs \in [Jobs -> Statuses]
      /\ wave = {} /\ ~Stopped /\ (nJobs = 0 => offered = {} /\ attempts = {} /\ ~resumed)
  BY <1>2, ListLength DEF Types, Phases, Stopped
<1>4. /\ skipped \subseteq offered \union B /\ skipped \subseteq Listing /\ Listing \subseteq Jobs
      /\ \A j \in offered \union B : j \in Listing => j \in skipped
      /\ Listing # Unknown
  BY <1>1, <1>3, Skipping
<1>5. \A j \in Jobs : /\ j \in offered <=> jobs[j] \in {"retry", "missing"}
                      /\ jobs[j] # "none" \/ j \in B
  BY <1>3 DEF Accounts, Marked
<1>7. \A j \in Jobs : jobs'[j] = IF j \in skipped THEN "finished"
                                 ELSE IF j \in overflow THEN "none" ELSE jobs[j]
  BY <1>1 DEF Entered
<1>8. jobs' \in [Jobs -> Statuses]
  <2>1. jobs' = [j \in Jobs |-> jobs'[j]]  BY <1>1 DEF Entered
  <2>2. \A j \in Jobs : jobs'[j] \in Statuses  BY <1>3, <1>7 DEF Statuses
  <2> QED  BY <2>1, <2>2
<1> DEFINE W == wave'
           L == ToSet(backlog')
<1> HIDE DEF B
\* Where every job is afterwards.
<1>9. ASSUME NEW j \in Jobs
      PROVE  /\ j \in L => j \notin Listing
             /\ jobs'[j] = "none" => j \in W \/ j \in L
             /\ jobs'[j] \in {"retry", "missing"} => j \in W
             /\ jobs'[j] = "finished" => jobs[j] = "finished" \/ j \in skipped
             /\ jobs'[j] \notin {"none", "finished"} => jobs'[j] = jobs[j]
             /\ j \in offered => j \in W \/ jobs'[j] \in {"none", "finished"}
  <2>1. W = taken \union filling /\ L = (waiting \ filling) \union (overflow \ waiting)  BY <1>1
  <2>2. CASE j \in skipped
    <3>1. j \notin W /\ j \notin L  BY <1>1, <2>1, <2>2
    <3> QED  BY <1>7, <2>2, <3>1
  <2>3. CASE j \notin skipped /\ j \in offered
    <3>1. j \in taken \/ j \in overflow  BY <1>1, <2>3
    <3>2. jobs[j] \in {"retry", "missing"} /\ j \notin Listing  BY <1>4, <1>5, <2>3
    <3>3. j \in overflow => j \in W \/ j \in L  BY <2>1
    <3> QED  BY <1>7, <2>1, <2>3, <3>1, <3>2, <3>3
  <2>4. CASE j \notin skipped /\ j \notin offered
    <3>1. jobs[j] \notin {"retry", "missing"} /\ j \notin overflow  BY <1>1, <1>5, <2>4
    <3>2. jobs'[j] = jobs[j]  BY <1>7, <2>4, <3>1
    <3>3. j \in B => j \in waiting /\ (j \in W \/ j \in L)  BY <1>1, <2>1, <2>4
    <3>4. j \in L => j \notin Listing  BY <1>1, <1>4, <2>1, <2>4, <3>1
    <3> QED  BY <1>5, <2>4, <3>1, <3>2, <3>3, <3>4
  <2> QED  BY <2>2, <2>3, <2>4
<1>10. /\ wave' \subseteq Jobs /\ offered' = {}
       /\ existing' \subseteq Jobs \/ existing' = Unknown
  BY <1>1, <1>2, <1>4 DEF Types
<1>11. /\ clock' \in {Off} \union 0..ReleasePolls
       /\ wave' = {} => (clock' = Off <=> Parked' = {})
       /\ nJobs = 0 => clock' = Off
  <2>0. clock \in {Off} \union 0..ReleasePolls  BY DEF Types
  <2>1. CASE wave' = {}
    <3>1. clock' = RetryReleaseClock(backlog', TRUE) /\ attempts' = attempts  BY <1>2, <2>1
    <3>2. /\ RetryReleaseClock(backlog', TRUE) \in {Off} \union 0..ReleasePolls
          /\ RetryReleaseClock(backlog', TRUE) = Off <=> ToSet(backlog') \intersect attempts = {}
      BY <2>0, ClockIs
    <3> QED  BY <1>3, <3>1, <3>2 DEF Parked
  <2>2. CASE wave' # {}
    <3>1. clock' = RetryReleaseClock(backlog, FALSE)  BY <1>2, <2>2
    <3>2. /\ RetryReleaseClock(backlog, FALSE) \in {Off} \union 0..ReleasePolls
          /\ RetryReleaseClock(backlog, FALSE) = Off <=> ToSet(backlog) \intersect attempts = {}
      BY <2>0, ClockIs
    <3> QED  BY <1>3, <2>2, <3>1, <3>2
  <2> QED  BY <2>1, <2>2
<1>12. pc' \in {"create", "enter", "poll"} /\ (pc' = "create" <=> wave' # {})
       /\ (pc' = "enter" => nJobs = 0) /\ (pc' = "poll" => nJobs # 0)
  BY <1>2 DEF NextRound
<1>13. Types'
  <2>1. pc' \in Statements  BY <1>12 DEF Statements
  <2> QED  BY <1>1, <1>2, <1>8, <1>10, <1>11, <2>1 DEF Types
<1>14. wave' # {} => existing' # Unknown
  <2> SUFFICES ASSUME wave' # {}, offered = {} /\ backlog = <<>>  PROVE FALSE  BY <1>2, <1>4
  <2>1. B = {}  BY DEF B, ToSet
  <2>2. taken = {} /\ filling = {}  BY <1>1, <2>1
  <2> QED  BY <1>1, <2>2
<1>15. Phases'
  <2>1. nJobs = 0 => \A j \in Jobs : jobs[j] \in {"none", "finished"}  BY <1>2 DEF Phases
  <2>2. nJobs = 0 => \A j \in Jobs : jobs'[j] \in {"none", "finished"}  BY <1>7, <2>1
  <2>3. first = FALSE /\ (nJobs = 0 => dead = {} /\ active = 0 /\ \A j \in Jobs : retries[j] = 0)
    BY <1>2 DEF Phases, Types
  <2> QED  BY <1>2, <1>3, <1>11, <1>12, <1>14, <2>2, <2>3 DEF Phases, Stopped
<1>16. Accounts'
  <2> SUFFICES ASSUME NEW j \in Jobs
      PROVE  /\ jobs'[j] # "none" \/ j \in L \/ j \in W
             /\ jobs'[j] \in {"retry", "missing"} => j \in W
             /\ j \notin offered'
    BY DEF Accounts, Marked
  <2> QED  BY <1>9, <1>10
<1>17. losses = 0 => /\ \A j \in Jobs : jobs'[j] = "finished" => j \in outputs
                     /\ existing' # Unknown => existing' \subseteq outputs
  <2>1. losses = 0 => Listing \subseteq outputs  BY DEF Kept, Listing
  <2>2. losses = 0 => \A j \in Jobs : jobs[j] = "finished" => j \in outputs  BY DEF Kept
  <2> QED  BY <1>2, <1>4, <1>9, <2>1, <2>2 DEF Kept
<1>18. OnFile' /\ Kept'
  <2>1. CASE wave' = {}
    <3>1. \A j \in Jobs : jobs'[j] = "none" => j \in ToSet(backlog')  BY <1>9, <2>1
    <3>2. disk' = File(jobs', backlog', attempts')  BY <1>2, <2>1
    <3>3. OnFile' /\ disk'.jobs = jobs'  BY <1>13, <3>1, <3>2, Written
    <3>4. Kept'  BY <1>2, <1>12, <1>17, <3>3 DEF Kept
    <3> QED  BY <3>3, <3>4
  <2>2. CASE wave' # {}
    <3>1. disk' = disk  BY <1>2, <2>2
    <3>2. OnFile'  BY <3>1 DEF OnFile
    <3>3. Kept'  BY <1>2, <1>12, <1>17, <3>1 DEF Kept
    <3> QED  BY <3>2, <3>3
  <2> QED  BY <2>1, <2>2
<1>19. Charged'
  <2> SUFFICES ASSUME NEW j \in Jobs \ dead, jobs'[j] \notin {"none", "finished"}, j \notin W
      PROVE  InOrderOrNew(j)'
    BY <1>2 DEF Charged
  <2>1. j \notin offered /\ jobs'[j] = jobs[j]  BY <1>9
  <2> QED  BY <1>2, <1>3, <2>1 DEF Charged, InOrderOrNew
<1>20. Flight'
  <2>1. InFlight' \in SUBSET InFlight
    <3> SUFFICES ASSUME NEW j \in Jobs, jobs'[j] = "active"  PROVE jobs[j] = "active"
      BY <1>2 DEF InFlight
    <3> QED  BY <1>9
  <2>2. Cardinality(InFlight') <= Cardinality(InFlight)
        /\ Cardinality(InFlight) \in 0..NJobs /\ Cardinality(InFlight') \in 0..NJobs
    <3>1. InFlight \in SUBSET Jobs  BY DEF InFlight
    <3> QED  BY <2>1, <3>1, JobSets
  <2>3. Cardinality(InFlight) <= active /\ active \in 0..NJobs  BY <1>2 DEF Flight, Types
  <2>4. Cardinality(InFlight') <= active  BY <2>2, <2>3, JobNumbers
  <2> QED  BY <1>1, <1>2, <1>12, <2>4 DEF Flight
<1>21. OnTheClock'
  BY <1>11, <1>12 DEF OnTheClock
<1>22. Noticed'  BY <1>2 DEF Noticed, Mass
<1>23. Listed'
  <2> SUFFICES ASSUME NEW j \in L
      PROVE  existing' # Unknown /\ j \notin existing'
    BY DEF Listed
  <2>1. j \in Jobs /\ j \notin Listing  BY <1>1, <1>9
  <2>2. ~(offered = {} /\ backlog = <<>>)
    <3> SUFFICES ASSUME offered = {}, backlog = <<>>  PROVE FALSE  OBVIOUS
    <3>1. B = {}  BY DEF B, ToSet
    <3>2. waiting = {} /\ overflow = {}  BY <1>1, <3>1
    <3> QED  BY <1>1, <3>2
  <2> QED  BY <1>2, <1>4, <2>1, <2>2
<1> QED  BY <1>13, <1>15, <1>16, <1>18, <1>19, <1>20, <1>21, <1>22, <1>23

LEMMA CreateTaskDInv ==
  ASSUME DInv, CreateTask
  PROVE  DInv'
<1> USE DEF DInv
<1>1. /\ pc = "create" /\ pc' = "record"
      /\ UNCHANGED <<resumed, jobs, backlog, attempts, retries, dead, nJobs, first, condemned,
                     active, offered, wave, existing, clock, disk,
                     crab, orphans, outputs, uncounted, losses>>
  BY DEF CreateTask, memory, world
<1>2. Types'  BY <1>1 DEF Types, Statements
<1>3. Phases'  BY <1>1 DEF Phases, Stopped
<1>4. Accounts'  BY <1>1 DEF Accounts, Stopped, Marked
<1>5. OnFile'  BY <1>1 DEF OnFile
<1>6. Kept'  BY <1>1 DEF Kept
<1>7. Charged'  BY <1>1 DEF Charged, InOrderOrNew
<1>8. Flight'
  <2>1. InFlight' = InFlight  BY <1>1 DEF InFlight
  <2> QED  BY <1>1, <2>1 DEF Flight
<1>9. OnTheClock'  BY <1>1 DEF OnTheClock
<1>10. Noticed'  BY <1>1 DEF Noticed, Mass
<1>11. Listed'  BY <1>1 DEF Listed
<1> QED  BY <1>2, <1>3, <1>4, <1>5, <1>6, <1>7, <1>8, <1>9, <1>10, <1>11

\* The task is written down, its jobs with an id that answers or one that does not.
LEMMA RecordDInv ==
  ASSUME DInv, pc \in {"create", "record"}, NEW answer \in {"none", "running"}, Record(answer),
         uncounted \subseteq uncounted', uncounted' \subseteq Jobs,
         answer = "none" => wave \subseteq uncounted'
  PROVE  DInv'
<1> USE DEF DInv
<1>1. /\ jobs' = [j \in Jobs |-> IF j \in wave THEN "active" ELSE jobs[j]]
      /\ crab' = [j \in Jobs |-> IF j \in wave THEN answer ELSE crab[j]]
      /\ disk' = File(jobs', backlog, attempts)
      /\ clock' = RetryReleaseClock(backlog, TRUE)
      /\ orphans' = orphans \union {j \in wave : crab[j] = "running"}
      /\ wave' = {}
      /\ pc' = IF nJobs = 0 THEN "enter" ELSE "poll"
      /\ UNCHANGED <<resumed, backlog, attempts, retries, dead, nJobs, first, condemned, active, offered,
                     existing, outputs, losses>>
  BY DEF Record, NextRound
<1>2. /\ offered = {} /\ ~Stopped
      /\ (nJobs = 0 => attempts = {} /\ ~resumed)
  BY DEF Phases, Stopped
<1>3. /\ clock' \in {Off} \union 0..ReleasePolls
      /\ clock' = Off <=> Parked' = {}
      /\ nJobs = 0 => clock' = Off
  <2>1. clock \in {Off} \union 0..ReleasePolls  BY DEF Types
  <2>2. /\ RetryReleaseClock(backlog, TRUE) \in {Off} \union 0..ReleasePolls
        /\ RetryReleaseClock(backlog, TRUE) = Off <=> ToSet(backlog) \intersect attempts = {}
    BY <2>1, ClockIs
  <2> QED  BY <1>1, <1>2, <2>2 DEF Parked
<1>4. Types'
  <2>1. jobs' \in [Jobs -> Statuses]  BY <1>1 DEF Types, Statuses
  <2>2. crab' \in [Jobs -> {"none", "running", "finished", "failed"}]  BY <1>1 DEF Types
  <2>3. pc' \in Statements  BY <1>1 DEF Statements
  <2>4. orphans' \subseteq Jobs  BY <1>1 DEF Types
  <2> QED  BY <1>1, <1>3, <2>1, <2>2, <2>3, <2>4 DEF Types
<1>5. \A j \in Jobs : jobs'[j] = IF j \in wave THEN "active" ELSE jobs[j]  BY <1>1
<1>6. \A j \in Jobs : /\ jobs'[j] = "none" => j \in ToSet(backlog')
                      /\ jobs'[j] \notin {"retry", "missing"}
  BY <1>1, <1>2, <1>5 DEF Accounts, Marked
<1>7. Phases'
  <2>1. first = FALSE  BY DEF Types, Phases
  <2> QED  BY <1>1, <1>2, <1>3, <2>1 DEF Phases, Stopped
<1>8. Accounts'  BY <1>1, <1>6 DEF Accounts, Marked, Phases
<1>9. OnFile' /\ disk'.jobs = jobs'
  BY <1>1, <1>4, <1>6, Written
<1>10. Kept'
  <2>1. \A j \in Jobs : jobs'[j] = "finished" => jobs[j] = "finished"  BY <1>5
  <2> QED  BY <1>1, <1>9, <2>1 DEF Kept
<1>11. Charged'
  <2> SUFFICES ASSUME NEW j \in Jobs \ dead, jobs'[j] \notin {"none", "finished"}
      PROVE  InOrderOrNew(j)'
    BY <1>1 DEF Charged
  <2>1. CASE j \in wave  BY <1>1, <2>1 DEF InOrderOrNew
  <2>2. CASE j \notin wave  BY <1>1, <1>2, <1>5, <2>2 DEF Charged, InOrderOrNew
  <2> QED  BY <2>1, <2>2
<1>12. Flight'  BY <1>1 DEF Flight
<1>13. OnTheClock'  BY <1>3 DEF OnTheClock
<1>14. Noticed'  BY <1>1 DEF Noticed, Mass
<1>15. Listed'  BY <1>1 DEF Listed
<1> QED  BY <1>4, <1>7, <1>8, <1>9, <1>10, <1>11, <1>12, <1>13, <1>14, <1>15

LEMMA RecordTaskDInv ==
  ASSUME DInv, RecordTask
  PROVE  DInv'
<1>1. pc = "record" /\ Record("running") /\ uncounted' = uncounted  BY DEF RecordTask
<1>2. uncounted \subseteq Jobs  BY DEF DInv, Types
<1> QED  BY <1>1, <1>2, RecordDInv

LEMMA SubmissionFailsDInv ==
  ASSUME DInv, SubmissionFails
  PROVE  DInv'
<1>1. pc = "create" /\ Record("none") /\ uncounted' = uncounted \union wave  BY DEF SubmissionFails
<1>2. uncounted \subseteq Jobs /\ wave \subseteq Jobs  BY DEF DInv, Types
<1> QED  BY <1>1, <1>2, RecordDInv

\* The world goes on while the driver runs: no job runs that did not.
LEMMA WorldDInv ==
  ASSUME DInv, UNCHANGED <<pc, memory, disk>>, ~Resting,
         crab' \in [Jobs -> {"none", "running", "finished", "failed"}],
         orphans' \subseteq Jobs, outputs' \subseteq Jobs, uncounted' \subseteq Jobs, losses' \in Nat,
         \A j \in Jobs : crab'[j] = "running" => crab[j] = "running",
         losses' = 0 => losses = 0 /\ outputs \subseteq outputs',
         uncounted \subseteq uncounted',
         \A j \in Jobs : InOrderOrNew(j) => InOrderOrNew(j)'
  PROVE  DInv'
<1> USE DEF DInv
<1>1. UNCHANGED <<pc, resumed, jobs, backlog, attempts, retries, dead, nJobs, first, condemned,
                  active, offered, wave, existing, clock, disk>>
  BY DEF memory
<1>2. Types'  BY <1>1 DEF Types
<1>3. Phases'  BY <1>1 DEF Phases, Stopped
<1>4. Accounts'  BY <1>1 DEF Accounts, Stopped, Marked
<1>5. OnFile'  BY <1>1 DEF OnFile
<1>6. Kept'  BY <1>1 DEF Kept, Resting
<1>7. Charged'  BY <1>1 DEF Charged
<1>8. Flight'
  <2>1. InFlight' \in SUBSET InFlight  BY <1>1 DEF InFlight
  <2>2. InFlight \in SUBSET Jobs  BY DEF InFlight
  <2>3. Cardinality(InFlight') <= Cardinality(InFlight)
        /\ Cardinality(InFlight) \in 0..NJobs /\ Cardinality(InFlight') \in 0..NJobs
    BY <2>1, <2>2, JobSets
  <2>4. active \in 0..NJobs  BY DEF Types
  <2> QED  BY <1>1, <2>3, <2>4, JobNumbers DEF Flight
<1>9. OnTheClock'  BY <1>1 DEF OnTheClock, Parked
<1>10. Noticed'  BY <1>1 DEF Noticed, Mass
<1>11. Listed'  BY <1>1 DEF Listed
<1> QED  BY <1>2, <1>3, <1>4, <1>5, <1>6, <1>7, <1>8, <1>9, <1>10, <1>11

LEMMA JobEndsDInv ==
  ASSUME DInv, NEW j \in Jobs, JobEnds(j)
  PROVE  DInv'
<1>1. /\ UNCHANGED <<pc, memory, disk>> /\ ~Resting /\ orphans' = orphans /\ losses' = losses
      /\ crab[j] = "running"
      /\ \/ /\ crab' = [crab EXCEPT ![j] = "finished"] /\ outputs' = outputs \union {j}
            /\ uncounted' = uncounted
         \/ /\ \E answer \in {"finished", "failed"} : crab' = [crab EXCEPT ![j] = answer]
            /\ uncounted' = uncounted \union {j} /\ outputs' = outputs
  BY DEF JobEnds
<1>2. /\ crab \in [Jobs -> {"none", "running", "finished", "failed"}] /\ losses \in Nat
      /\ orphans \subseteq Jobs /\ outputs \subseteq Jobs /\ uncounted \subseteq Jobs
  BY DEF DInv, Types
<1>3. crab' \in [Jobs -> {"none", "running", "finished", "failed"}]
      /\ orphans' \subseteq Jobs /\ outputs' \subseteq Jobs /\ uncounted' \subseteq Jobs /\ losses' \in Nat
      /\ outputs \subseteq outputs'
  BY <1>1, <1>2
<1>4. \A i \in Jobs : /\ crab'[i] = "running" => crab[i] = "running"
                      /\ i # j => crab'[i] = crab[i]
  BY <1>1, <1>2
<1>5. (crab'[j] = "finished" /\ j \in outputs') \/ j \in uncounted'  BY <1>1, <1>2
<1>6. \A i \in Jobs : InOrderOrNew(i) => InOrderOrNew(i)'
  <2>1. uncounted \subseteq uncounted' /\ outputs \subseteq outputs'  BY <1>1
  <2> QED  BY <1>4, <1>5, <2>1 DEF InOrderOrNew
<1>7. uncounted \subseteq uncounted'  BY <1>1
<1> QED  BY <1>1, <1>3, <1>4, <1>6, <1>7, WorldDInv

LEMMA OrphanEndsDInv ==
  ASSUME DInv, NEW j \in Jobs, OrphanEnds(j)
  PROVE  DInv'
<1>1. /\ UNCHANGED <<pc, memory, disk, crab, uncounted, losses>> /\ ~Resting
      /\ orphans' = orphans \ {j} /\ outputs' \in {outputs, outputs \union {j}}
  BY DEF OrphanEnds
<1>2. /\ crab \in [Jobs -> {"none", "running", "finished", "failed"}] /\ losses \in Nat
      /\ orphans \subseteq Jobs /\ outputs \subseteq Jobs /\ uncounted \subseteq Jobs
  BY DEF DInv, Types
<1>3. \A i \in Jobs : InOrderOrNew(i) => InOrderOrNew(i)'  BY <1>1 DEF InOrderOrNew
<1>4. outputs' \subseteq Jobs /\ outputs \subseteq outputs' /\ orphans' \subseteq Jobs  BY <1>1, <1>2
<1> QED  BY <1>1, <1>2, <1>3, <1>4, WorldDInv

\* Products vanish.
LEMMA LoseOutputsDInv ==
  ASSUME DInv, LoseOutputs
  PROVE  DInv'
<1>1. /\ UNCHANGED <<pc, memory, disk, crab, orphans>> /\ ~Resting
      /\ losses' = losses + 1
      /\ \E gone \in SUBSET outputs :
           outputs' = outputs \ gone /\ uncounted' = uncounted \union gone
  BY DEF LoseOutputs
<1>2. /\ crab \in [Jobs -> {"none", "running", "finished", "failed"}] /\ losses \in Nat
      /\ orphans \subseteq Jobs /\ outputs \subseteq Jobs /\ uncounted \subseteq Jobs
  BY DEF DInv, Types
<1>3. outputs' \subseteq Jobs /\ uncounted' \subseteq Jobs /\ losses' \in Nat /\ losses' # 0
      /\ uncounted \subseteq uncounted'
  BY <1>1, <1>2
<1>4. \A i \in Jobs : InOrderOrNew(i) => InOrderOrNew(i)'  BY <1>1 DEF InOrderOrNew
<1> QED  BY <1>1, <1>2, <1>3, <1>4, WorldDInv

LEMMA StutterDInv ==
  ASSUME DInv, UNCHANGED vars
  PROVE  DInv'
<1> USE DEF DInv
<1>1. UNCHANGED <<pc, resumed, jobs, backlog, attempts, retries, dead, nJobs, first, condemned,
                  active, offered, wave, existing, clock, disk,
                  crab, orphans, outputs, uncounted, losses>>
  BY DEF vars, memory, world
<1>2. Types'  BY <1>1 DEF Types
<1>3. Phases'  BY <1>1 DEF Phases, Stopped
<1>4. Accounts'  BY <1>1 DEF Accounts, Stopped, Marked
<1>5. OnFile'  BY <1>1 DEF OnFile
<1>6. Kept'  BY <1>1 DEF Kept
<1>7. Charged'  BY <1>1 DEF Charged, InOrderOrNew
<1>8. Flight'
  <2>1. InFlight' = InFlight  BY <1>1 DEF InFlight
  <2> QED  BY <1>1, <2>1 DEF Flight
<1>9. OnTheClock'  BY <1>1 DEF OnTheClock, Parked
<1>10. Noticed'  BY <1>1 DEF Noticed, Mass
<1>11. Listed'  BY <1>1 DEF Listed
<1> QED  BY <1>2, <1>3, <1>4, <1>5, <1>6, <1>7, <1>8, <1>9, <1>10, <1>11

LEMMA NextDInv ==
  ASSUME DInv, [Next]_vars
  PROVE  DInv'
<1>1. CASE StartFresh  BY <1>1, StartFreshDInv
<1>2. CASE StartResumed  BY <1>2, StartResumedDInv
<1>3. CASE Enter  BY <1>3, EnterDInv
<1>4. CASE Unanswered  BY <1>4, UnansweredDInv
<1>5. CASE PollEnds  BY <1>5, PollEndsDInv
<1>6. CASE PollOffers  BY <1>6, PollOffersDInv
<1>7. CASE stop_on_mass_initial_retry  BY <1>7, BrakeDInv
<1>8. CASE SkipRound  BY <1>8, SkipRoundDInv
<1>9. CASE HoldBack  BY <1>9, HoldBackDInv
<1>10. CASE LawSubmit  BY <1>10, LawSubmitDInv
<1>11. CASE CreateTask  BY <1>11, CreateTaskDInv
<1>12. CASE RecordTask  BY <1>12, RecordTaskDInv
<1>13. CASE SubmissionFails  BY <1>13, SubmissionFailsDInv
<1>14. CASE Die  BY <1>14, DieDInv
<1>15. CASE World  BY <1>15, JobEndsDInv, OrphanEndsDInv, LoseOutputsDInv DEF World
<1>16. CASE Rest \/ UNCHANGED vars  BY <1>16, StutterDInv DEF Rest
<1> QED
  BY <1>1, <1>2, <1>3, <1>4, <1>5, <1>6, <1>7, <1>8, <1>9, <1>10, <1>11, <1>12, <1>13,
     <1>14, <1>15, <1>16 DEF Next, Driver, Submit

-----------------------------------------------------------------------------
(***************************************************************************)
(* The theorems, whatever products vanish and whenever.                    *)
(***************************************************************************)

\* The inductive invariant, for any number of jobs, slots, retries, runs of the
\* driver and losses.
THEOREM DriverHolds == Spec => []DInv
<1>1. Init => DInv  BY InitDInv
<1>2. DInv /\ [Next]_vars => DInv'  BY NextDInv
<1> QED  BY <1>1, <1>2, PTL DEF Spec

\* The types of the driver's state: no job is in the backlog twice, and no job is
\* granted more resubmissions than it has (RunProd.retries).
THEOREM TypeCorrect == Spec => []TypeOK
<1>1. ASSUME DInv  PROVE TypeOK
  <2>1. Types  BY <1>1 DEF DInv
  <2>2. backlog \in BoundedSeq(Jobs, NJobs) /\ IsInjective(backlog)
    <3>1. List(backlog, Jobs)  BY <2>1 DEF Types
    <3>2. ToSet(backlog) \in SUBSET Jobs /\ Len(backlog) = Cardinality(ToSet(backlog))
      BY <3>1, ListLength
    <3>3. Len(backlog) \in 0..NJobs  BY <3>2, JobSets
    <3>4. backlog \in [1..Len(backlog) -> Jobs]  BY <3>1 DEF List
    <3> QED  BY <3>1, <3>3, <3>4 DEF List, BoundedSeq, SeqOf
  <2>3. nJobs \in 0..2*NJobs  BY <2>1, JobNumbers DEF Types
  <2>4. existing \in (SUBSET Jobs) \union {Unknown}  BY <2>1 DEF Types
  <2>5. /\ pc \in {"down", "submit", "create", "record", "enter", "poll", "done"}
        /\ jobs \in [Jobs -> Statuses]
        /\ attempts \subseteq Jobs /\ retries \in [Jobs -> 0..Retries]
        /\ dead \subseteq Jobs /\ offered \subseteq Jobs /\ wave \subseteq Jobs
        /\ active \in 0..NJobs /\ resumed \in BOOLEAN /\ first \in BOOLEAN
        /\ condemned \subseteq Jobs
        /\ clock \in {Off} \union 0..ReleasePolls
        /\ crab \in [Jobs -> {"none", "running", "finished", "failed"}]
    BY <2>1 DEF Types, Statements
  <2> QED  BY <2>2, <2>3, <2>4, <2>5 DEF TypeOK
<1> QED  BY <1>1, DriverHolds, PTL

\* Whatever statement the driver dies at, the submission file has every job
\* (dump_job_data in submit(), the parked retries included).
THEOREM FileAccountsForAll == Spec => []DiskAccountsForAll
<1>1. DInv => DiskAccountsForAll  BY DEF DInv, OnFile, DiskAccountsForAll
<1> QED  BY <1>1, DriverHolds, PTL

\* A wave never takes the jobs in flight over n_parallel (law's submit() behind
\* _should_submit_crab_group).
THEOREM FlightIsCapped == Spec => []InFlightCap
<1>1. ASSUME DInv, pc \in {"create", "record"}
      PROVE  Cardinality(wave \union InFlight) <= NParallel
  <2>1. wave \in SUBSET Jobs /\ InFlight \in SUBSET Jobs /\ active \in 0..NJobs
    BY <1>1 DEF DInv, Types, InFlight
  <2>2. IsFiniteSet(wave) /\ IsFiniteSet(InFlight)
        /\ Cardinality(wave) \in 0..NJobs /\ Cardinality(InFlight) \in 0..NJobs
    BY <2>1, JobSets
  <2>3. (wave \intersect InFlight) \in SUBSET wave  OBVIOUS
  <2>4. Cardinality(wave \intersect InFlight) \in 0..NJobs  BY <2>1, <2>3, JobSets
  <2>5. Cardinality(wave \union InFlight)
          = Cardinality(wave) + Cardinality(InFlight) - Cardinality(wave \intersect InFlight)
    BY <2>2, FS_Union
  <2>6. Cardinality(InFlight) <= active /\ Cardinality(wave) + active <= NParallel
    BY <1>1 DEF DInv, Flight
  <2> QED  BY <2>1, <2>2, <2>4, <2>5, <2>6, JobNumbers
<1>2. DInv => InFlightCap  BY <1>1 DEF InFlightCap, InFlight
<1> QED  BY <1>2, DriverHolds, PTL

\* A failure is charged once, however many rounds are skipped (submit()) or held
\* back (_park_retries).
THEOREM FailuresAreChargedOnce == Spec => []OneAttemptPerFailure
<1>1. ASSUME DInv, pc = "poll", NEW j \in Failed
      PROVE  j \in uncounted
  <2>1. CASE j \in Missing
    <3>1. resumed /\ first  BY <2>1 DEF Missing
    <3>2. j \in Jobs  BY <2>1 DEF Missing, Gone, FinishedInVain, Asked
    <3> QED  BY <1>1, <3>1, <3>2 DEF DInv, Charged
  <2>2. CASE j \in Broken
    <3>1. /\ j \in Asked /\ j \notin StillActive /\ j \notin Accepted
      BY <2>2 DEF Broken
    <3>2. j \in Jobs \ dead /\ jobs[j] \notin {"none", "finished"}  BY <3>1 DEF Asked
    <3>3. offered = {} /\ wave = {}  BY <1>1 DEF DInv, Phases
    <3>4. InOrderOrNew(j)  BY <1>1, <3>2, <3>3 DEF DInv, Charged
    <3> QED  BY <3>1, <3>4 DEF InOrderOrNew, StillActive, Accepted
  <2> QED  BY <2>1, <2>2 DEF Failed
<1>2. DInv => OneAttemptPerFailure  BY <1>1 DEF OneAttemptPerFailure
<1> QED  BY <1>2, DriverHolds, PTL

\* A retry that is held back is on a running clock, and the clock runs for nothing
\* else (_update_retry_release_clock).
THEOREM ParkedAreOnTheClock == Spec => []ParkedIsOnTheClock
<1>1. DInv => ParkedIsOnTheClock  BY DEF DInv, OnTheClock, Phases, ParkedIsOnTheClock
<1> QED  BY <1>1, DriverHolds, PTL

\* Success means that every job is finished in the file and, if nothing was lost,
\* that every product is there (crab_check_job_completeness).
THEOREM SuccessIsComplete == Spec => []DoneIsComplete
<1>1. ASSUME DInv, pc = "done"
      PROVE  /\ \A j \in Jobs : disk.jobs[j] = "finished"
             /\ losses = 0 => outputs = Jobs
  <2>1. outputs \subseteq Jobs  BY <1>1 DEF DInv, Types
  <2> QED  BY <1>1, <2>1 DEF DInv, Kept
<1>2. DInv => DoneIsComplete  BY <1>1 DEF DoneIsComplete
<1> QED  BY <1>2, DriverHolds, PTL

\* Parking more retries never restarts the window of those that wait
\* (_park_retries, _update_retry_release_clock).
THEOREM WindowsKeepRunning == Spec => WindowKeepsRunning
<1>1. ASSUME DInv, [Next]_vars, clock # Off, Parked \intersect Parked' # {},
             pc \notin {"record", "create"}
      PROVE  clock' >= clock \/ LawSubmit
  <2>1. clock \in 0..ReleasePolls /\ clock \in Int  BY <1>1, Polls DEF DInv, Types
  <2>2. pc # "down"  BY <1>1 DEF DInv, Phases, Stopped
  <2>3. ~Forget
    <3>1. Forget => ToSet(backlog') = {}  BY DEF Forget, ToSet
    <3> QED  BY <1>1, <3>1 DEF Parked
  <2>4. UNCHANGED clock => clock' >= clock  BY <2>1
  <2>5. CASE StartFresh \/ StartResumed  BY <2>2, <2>5 DEF StartFresh, StartResumed
  <2>6. CASE Enter \/ World \/ Rest \/ UNCHANGED vars
    BY <2>4, <2>6 DEF Enter, World, JobEnds, OrphanEnds, LoseOutputs, Rest, vars, memory
  <2>7. CASE Unanswered \/ PollOffers
    <3>1. clock' = Ticked  BY <2>7 DEF Unanswered, PollOffers
    <3>2. clock <= Ticked /\ Ticked \in {Off} \union 0..ReleasePolls  BY <2>1, TickedIs
    <3> QED  BY <2>1, <3>1, <3>2, Polls
  <2>8. CASE PollEnds \/ stop_on_mass_initial_retry \/ Die
    BY <2>3, <2>8 DEF PollEnds, stop_on_mass_initial_retry, Die
  <2>9. CASE SkipRound
    <3>1. clock' = clock  BY <1>1, <2>9 DEF SkipRound, park_retries
    <3> QED  BY <2>4, <3>1
  <2>10. CASE HoldBack
    <3>1. clock \in {Off} \union 0..ReleasePolls /\ ToSet(backlog) \intersect attempts # {}
      BY <1>1, <2>1 DEF Parked
    <3>2. RetryReleaseClock(backlog, FALSE) = clock  BY <1>1, <3>1, ClockIs
    <3>3. clock' = clock
      BY <1>1, <2>10, <3>2 DEF HoldBack, park_retries
    <3> QED  BY <2>4, <3>3
  <2>11. CASE LawSubmit  BY <2>11
  <2>12. CASE CreateTask \/ RecordTask \/ SubmissionFails
    BY <1>1, <2>12 DEF CreateTask, RecordTask, SubmissionFails
  <2> QED
    BY <1>1, <2>5, <2>6, <2>7, <2>8, <2>9, <2>10, <2>11, <2>12 DEF Next, Driver, Submit
<1>2. DInv /\ [Next]_vars =>
        [clock # Off /\ Parked \intersect Parked' # {} /\ pc \notin {"record", "create"}
           => clock' >= clock \/ LawSubmit]_vars
  BY <1>1
<1> QED  BY <1>2, DriverHolds, PTL DEF Spec, WindowKeepsRunning

-----------------------------------------------------------------------------
(***************************************************************************)
(* What rests on law listing the products it was scheduled with: a product *)
(* that vanishes in between leaves its job in both of law's mappings       *)
(* (MCCrabDriverEarlyLoss).                                                *)
(***************************************************************************)

\* In the loop a job is in jobs or in the backlog, and none is in both.
LEMMA CountedOnce ==
  ASSUME DInv, Once, ~Stopped, wave = {}, ~Unlisted
  PROVE  /\ \A j \in Jobs : jobs[j] = "none" <=> j \in ToSet(backlog)
         /\ Cardinality(Recorded) + Len(backlog) = NJobs
<1> USE DEF DInv
<1>1. \A j \in Jobs : jobs[j] = "none" <=> j \in ToSet(backlog)  BY DEF Accounts, Once
<1> DEFINE B == ToSet(backlog)
<1>2. B \in SUBSET Jobs /\ Len(backlog) = Cardinality(B)  BY ListLength DEF Types
<1>3. Recorded \in SUBSET Jobs /\ Recorded \union B = Jobs /\ Recorded \intersect B = {}
  BY <1>1, <1>2 DEF Recorded
<1>4. IsFiniteSet(Recorded) /\ IsFiniteSet(B)  BY <1>2, <1>3, JobSets
<1>5. Cardinality(Recorded) \in Nat /\ Cardinality(B) \in Nat  BY <1>4, FS_CardinalityType
<1> HIDE DEF B
<1>6. Cardinality(Jobs) = Cardinality(Recorded) + Cardinality(B) - 0
  BY <1>3, <1>4, FS_Union, NoJobs
<1> QED  BY <1>1, <1>2, <1>5, <1>6, JobNumbers

\* A mass loss law has noticed does not pass the brake (stop_on_mass_initial_retry).
LEMMA BrakeHolds ==
  ASSUME DInv, Once, pc = "submit",
         condemned # {}, condemned = {j \in offered : jobs[j] = "missing"}
  PROVE  MassInitialRetry
<1> USE DEF DInv
<1>1. wave = {} /\ ~Stopped /\ resumed /\ ~Unlisted /\ Mass(condemned)
  BY DEF Phases, Stopped, Noticed, Unlisted
<1>2. Cardinality(Recorded) + Len(backlog) = NJobs  BY <1>1, CountedOnce
<1> QED  BY <1>1, <1>2 DEF MassInitialRetry, Mass

LEMMA InitOnce == Init => Once
BY DEF Init, Once, Stopped

LEMMA StartFreshOnce ==
  ASSUME DInv, Once, StartFresh
  PROVE  Once'
<1>1. /\ pc = "down" /\ pc' = "submit" /\ disk' = disk
      /\ UNCHANGED <<resumed, nJobs, wave, existing, outputs>>
      /\ jobs' = [j \in Jobs |-> IF j \in outputs THEN "finished" ELSE "none"]
      /\ ToSet(backlog') = Jobs
  BY InOrderIs, JobNumbers DEF StartFresh, world, Entered
<1>2. wave = {} /\ Unlisted'  BY <1>1 DEF DInv, Phases, Stopped, Unlisted
<1> QED  BY <1>1, <1>2 DEF Once, Stopped

LEMMA StartResumedOnce ==
  ASSUME DInv, Once, StartResumed
  PROVE  Once'
<1>1. /\ pc = "down" /\ pc' = "enter" /\ disk # NoFile /\ disk' = disk
      /\ jobs' = [j \in Jobs |-> IF disk.jobs[j] \in {"none", "finished"} THEN disk.jobs[j] ELSE "active"]
      /\ backlog' = disk.backlog /\ wave' = wave /\ nJobs' = nJobs
  BY DEF StartResumed
<1>2. wave = {} /\ ToSet(backlog') \subseteq Jobs
  BY <1>1, ListLength DEF DInv, Phases, OnFile
<1> QED  BY <1>1, <1>2 DEF Once, Stopped

LEMMA EnterOnce ==
  ASSUME DInv, Once, Enter
  PROVE  Once'
<1> USE DEF DInv
<1> DEFINE skipped == Skip(ToSet(backlog))
<1>1. /\ pc = "enter" /\ pc' = "poll" /\ disk' = disk /\ wave' = wave
      /\ jobs' = [j \in Jobs |-> IF j \in skipped THEN "finished" ELSE jobs[j]]
      /\ backlog' = Without(backlog, skipped)
      /\ nJobs' = Cardinality(Recorded \union skipped) + Len(backlog')
  BY DEF Enter, Entered
<1>2. List(backlog, Jobs) /\ ToSet(backlog) \subseteq Jobs /\ wave = {}
  BY <1>1, ListLength DEF Types, Phases
<1>3. /\ skipped \subseteq ToSet(backlog)
      /\ \A j \in ToSet(backlog) : j \in Listing => j \in skipped
  BY <1>2, Skipping
<1> HIDE DEF skipped
<1>4. List(backlog', Jobs) /\ ToSet(backlog') = ToSet(backlog) \ skipped
  BY <1>1, <1>2, WithoutIs
<1>5. \A j \in Jobs : j \in ToSet(backlog) /\ jobs[j] # "none" => j \in skipped
  BY <1>1, <1>3 DEF Once, Stopped, Unlisted, Listing
<1>6. \A j \in Jobs : jobs[j] # "none" \/ j \in ToSet(backlog)
  BY <1>1 DEF Accounts, Stopped, Phases
<1>7. nJobs' = NJobs
  <2> DEFINE R == Recorded \union skipped
             B == ToSet(backlog')
  <2>1. R \in SUBSET Jobs /\ B \in SUBSET Jobs  BY <1>2, <1>3, <1>4 DEF Recorded
  <2>2. R \union B = Jobs /\ R \intersect B = {}  BY <1>2, <1>3, <1>4, <1>5, <1>6 DEF Recorded
  <2>3. Len(backlog') = Cardinality(B)  BY <1>4, ListLength
  <2>4. IsFiniteSet(R) /\ IsFiniteSet(B)  BY <2>1, JobSets
  <2>5. Cardinality(R) \in Nat /\ Cardinality(B) \in Nat  BY <2>4, FS_CardinalityType
  <2> HIDE DEF R, B
  <2>6. Cardinality(Jobs) = Cardinality(R) + Cardinality(B) - 0
    BY <2>2, <2>4, FS_Union, NoJobs
  <2>7. nJobs' = Cardinality(R) + Cardinality(B)  BY <1>1, <2>3 DEF R
  <2> QED  BY <2>5, <2>6, <2>7, JobNumbers
<1>8. \A j \in ToSet(backlog') : jobs'[j] = "none" /\ j \notin wave'
  BY <1>1, <1>2, <1>4, <1>5
<1> QED  BY <1>1, <1>7, <1>8 DEF Once

\* What an answered poll writes, and where it leaves the backlog.
LEMMA AnsweredOnce ==
  ASSUME DInv, Once, Answered
  PROVE  /\ \A j \in ToSet(backlog) : j \in Jobs /\ jobs[j] = "none" /\ PolledJobs[j] = "none"
         /\ disk' # NoFile => \A j \in ToSet(disk'.backlog) : disk'.jobs[j] = "none"
<1>1. pc = "poll" /\ ~Stopped /\ ~Unlisted
  BY DEF Answered, DInv, Phases, Stopped, Unlisted
<1>2. ToSet(backlog) \subseteq Jobs  BY ListLength DEF DInv, Types
<1>3. \A j \in ToSet(backlog) : jobs[j] = "none"  BY <1>1 DEF Once
<1>4. \A j \in ToSet(backlog) : PolledJobs[j] = "none"  BY <1>2, <1>3, PollFinds
<1> QED  BY <1>2, <1>3, <1>4, AnsweredOnFile

LEMMA ForgetOnce ==
  ASSUME Forget, pc' \in {"down", "done"},
         disk' # NoFile => \A j \in ToSet(disk'.backlog) : disk'.jobs[j] = "none"
  PROVE  Once'
BY DEF Forget, Once, Stopped

LEMMA PollOffersOnce ==
  ASSUME DInv, Once, PollOffers
  PROVE  Once'
<1>1. /\ Answered /\ pc = "poll" /\ pc' = "submit" /\ jobs' = PolledJobs
      /\ UNCHANGED <<backlog, nJobs, wave>>
  BY DEF PollOffers, Answered
<1>2. wave = {}  BY <1>1 DEF DInv, Phases
<1> QED  BY <1>1, <1>2, AnsweredOnce DEF Once

\* A round that parks: what was offered is not in the backlog.
LEMMA ParkingOnce ==
  ASSUME DInv, Once, pc = "submit", NEW c, park_retries(c), pc' = NextRound,
         UNCHANGED <<resumed, nJobs, wave, outputs>>
  PROVE  /\ nJobs' \in {0, NJobs}
         /\ \A j \in ToSet(backlog') :
              /\ j \notin wave'
              /\ jobs'[j] # "none" => Unlisted' /\ jobs'[j] = "finished" /\ j \in outputs'
         /\ offered # {} => \A j \in ToSet(backlog') : jobs'[j] = "none"
         /\ pc' \in {"enter", "poll"}
<1>1. PICK skipped, parked \in SUBSET offered :
           /\ skipped = Skip(offered) /\ parked = offered \ skipped
           /\ List(backlog', Jobs) /\ ToSet(backlog') = parked \union ToSet(backlog)
           /\ \A j \in Jobs : jobs'[j] = IF j \in skipped THEN "finished"
                                         ELSE IF j \in parked THEN "none" ELSE jobs[j]
           /\ jobs' \in [Jobs -> Statuses]
           /\ clock' = IF parked # {} /\ c = Off THEN 0 ELSE c
           /\ existing' = IF offered = {} THEN existing ELSE Listing
           /\ offered' = {}
  BY ParkingIs
<1>2. wave = {} /\ ~Stopped /\ offered \subseteq Jobs /\ ToSet(backlog) \subseteq Jobs
      /\ (offered # {} => nJobs # 0) /\ pc' \in {"enter", "poll"}
  BY ListLength DEF DInv, Types, Phases, Stopped, NextRound
<1>3. \A j \in ToSet(backlog) : j \notin offered
  <2> SUFFICES ASSUME NEW j \in ToSet(backlog), j \in offered  PROVE FALSE  OBVIOUS
  <2>1. jobs[j] \in {"retry", "missing"}  BY <1>2 DEF DInv, Accounts, Marked
  <2> QED  BY <1>2, <2>1 DEF Once
<1>4. ASSUME NEW j \in ToSet(backlog')
      PROVE  /\ j \notin wave'
             /\ jobs'[j] # "none" => Unlisted' /\ jobs'[j] = "finished" /\ j \in outputs'
             /\ offered # {} => jobs'[j] = "none"
  <2>1. CASE j \in parked  BY <1>1, <1>2, <2>1
  <2>2. CASE j \notin parked
    <3>1. j \in ToSet(backlog) /\ j \in Jobs /\ jobs'[j] = jobs[j]  BY <1>1, <1>2, <1>3, <2>2
    <3>2. Unlisted => nJobs = 0 /\ offered = {} /\ Unlisted'
      BY <1>1, <1>2 DEF Unlisted
    <3> QED  BY <1>2, <3>1, <3>2 DEF Once
  <2> QED  BY <2>1, <2>2
<1> QED  BY <1>2, <1>4 DEF Once

LEMMA SkipRoundOnce ==
  ASSUME DInv, Once, SkipRound
  PROVE  Once'
<1>1. /\ pc = "submit" /\ park_retries(clock) /\ pc' = NextRound /\ disk' = disk
      /\ UNCHANGED <<resumed, nJobs, wave, outputs>>
  BY DEF SkipRound, world
<1> QED  BY <1>1, ParkingOnce DEF Once

LEMMA HoldBackOnce ==
  ASSUME DInv, Once, HoldBack
  PROVE  Once'
<1>1. /\ pc = "submit" /\ park_retries(RetryReleaseClock(backlog, FALSE)) /\ pc' = NextRound
      /\ disk' = IF offered = {} THEN disk ELSE File(jobs', backlog', attempts)
      /\ UNCHANGED <<resumed, nJobs, wave, outputs>>
  BY DEF HoldBack, world
<1>2. CASE offered = {}  BY <1>1, <1>2, ParkingOnce DEF Once
<1>3. CASE offered # {}
  <2>1. disk'.jobs = jobs' /\ disk'.backlog = backlog'  BY <1>1, <1>3 DEF File
  <2> QED  BY <1>1, <1>3, <2>1, ParkingOnce DEF Once
<1> QED  BY <1>2, <1>3

LEMMA LawSubmitOnce ==
  ASSUME DInv, Once, LawSubmit
  PROVE  Once'
<1> USE DEF DInv
<1> DEFINE B == ToSet(backlog)
<1>1. PICK skipped, taken, overflow, waiting, filling \in SUBSET Jobs :
           /\ skipped = Skip(offered \union B)
           /\ offered \ skipped = taken \union overflow /\ taken \intersect overflow = {}
           /\ B \ skipped = waiting /\ filling \subseteq waiting
           /\ wave' = taken \union filling
           /\ List(backlog', Jobs) /\ ToSet(backlog') = (waiting \ filling) \union (overflow \ waiting)
           /\ jobs' = Entered([j \in Jobs |-> IF j \in overflow THEN "none" ELSE jobs[j]], skipped)
           /\ wave' # {} => Cardinality(wave') + active <= NParallel
  BY Taking
<1>2. /\ pc = "submit" /\ ~MassInitialRetry /\ nJobs' = nJobs
      /\ IF wave' = {} THEN disk' = File(jobs', backlog', attempts) /\ pc' = NextRound
                       ELSE disk' = disk /\ pc' = "create"
  BY DEF LawSubmit
<1>3. /\ offered \subseteq Jobs /\ B \subseteq Jobs /\ wave = {} /\ ~Stopped
      /\ pc' \in {"enter", "poll", "create"} /\ (pc' \in {"create", "record"} => wave' # {})
  BY <1>2, ListLength DEF Types, Phases, Stopped, NextRound
<1>4. \A j \in offered \union B : j \in Listing => j \in skipped
  BY <1>1, <1>3, Skipping
<1>5. \A j \in Jobs : j \in B /\ jobs[j] # "none" => j \in skipped
  <2> SUFFICES ASSUME NEW j \in Jobs, j \in B, jobs[j] # "none"  PROVE j \in skipped  OBVIOUS
  <2>1. Unlisted /\ j \in outputs  BY <1>3 DEF Once
  <2> QED  BY <1>4, <2>1 DEF Unlisted, Listing
<1>6. \A j \in offered : jobs[j] \in {"retry", "missing"}
  BY <1>3 DEF Accounts, Marked
<1>7. \A j \in Jobs : jobs'[j] = IF j \in skipped THEN "finished"
                                 ELSE IF j \in overflow THEN "none" ELSE jobs[j]
  BY <1>1 DEF Entered
<1>8. \A j \in ToSet(backlog') : j \notin wave' /\ jobs'[j] = "none"
  <2> SUFFICES ASSUME NEW j \in Jobs, j \in (waiting \ filling) \union (overflow \ waiting)
      PROVE  j \notin taken \union filling /\ jobs'[j] = "none"
    BY <1>1
  <2>1. CASE j \in waiting
    <3>1. j \in B /\ j \notin skipped /\ j \notin filling  BY <1>1, <2>1
    <3>2. jobs[j] = "none"  BY <1>5, <3>1
    <3>3. j \notin offered  BY <1>6, <3>2
    <3>4. j \notin taken  BY <1>1, <3>3
    <3> QED  BY <1>7, <3>1, <3>2, <3>4
  <2>2. CASE j \notin waiting
    <3>1. j \in overflow /\ j \notin taken /\ j \notin skipped /\ j \notin filling  BY <1>1, <2>2
    <3> QED  BY <1>7, <3>1
  <2> QED  BY <2>1, <2>2
<1>9. disk' # NoFile => \A j \in ToSet(disk'.backlog) : disk'.jobs[j] = "none"
  <2>1. CASE wave' = {}
    <3>1. disk'.jobs = jobs' /\ disk'.backlog = backlog'  BY <1>2, <2>1 DEF File
    <3> QED  BY <1>8, <3>1
  <2>2. CASE wave' # {}  BY <1>2, <2>2 DEF Once
  <2> QED  BY <2>1, <2>2
<1> QED  BY <1>2, <1>8, <1>9 DEF Once

LEMMA CreateTaskOnce ==
  ASSUME DInv, Once, CreateTask
  PROVE  Once'
<1>1. /\ pc = "create" /\ pc' = "record"
      /\ UNCHANGED <<resumed, jobs, backlog, nJobs, wave, existing, disk, outputs>>
  BY DEF CreateTask, memory, world
<1> QED  BY <1>1 DEF Once, Stopped, Unlisted

LEMMA RecordOnce ==
  ASSUME DInv, Once, pc \in {"create", "record"}, NEW answer, Record(answer)
  PROVE  Once'
<1>1. /\ jobs' = [j \in Jobs |-> IF j \in wave THEN "active" ELSE jobs[j]]
      /\ disk' = File(jobs', backlog, attempts)
      /\ wave' = {} /\ backlog' = backlog /\ nJobs' = nJobs
      /\ pc' \in {"enter", "poll"}
  BY DEF Record, NextRound
<1>2. ~Unlisted /\ ~Stopped /\ ToSet(backlog) \subseteq Jobs
  BY ListLength DEF DInv, Types, Phases, Unlisted, Stopped
<1>3. \A j \in ToSet(backlog) : jobs'[j] = "none"  BY <1>1, <1>2 DEF Once
<1>4. disk'.jobs = jobs' /\ disk'.backlog = backlog  BY <1>1 DEF File
<1> QED  BY <1>1, <1>3, <1>4 DEF Once

\* The world goes on, and takes nothing law has not looked at yet.
LEMMA WorldOnce ==
  ASSUME DInv, Once, UNCHANGED <<pc, memory, disk>>,
         Unlisted => outputs \subseteq outputs'
  PROVE  Once'
<1>1. UNCHANGED <<pc, resumed, jobs, backlog, nJobs, wave, existing, disk>>
  BY DEF memory
<1> QED  BY <1>1 DEF Once, Stopped, Unlisted

LEMMA NextOnce ==
  ASSUME DInv, Once, ~EarlyLosses, [Next]_vars
  PROVE  Once'
<1>1. CASE StartFresh  BY <1>1, StartFreshOnce
<1>2. CASE StartResumed  BY <1>2, StartResumedOnce
<1>3. CASE Enter  BY <1>3, EnterOnce
<1>4. CASE Unanswered
  <2>1. UNCHANGED <<pc, resumed, jobs, backlog, nJobs, wave, existing, disk, outputs>>
    BY <1>4 DEF Unanswered, world
  <2> QED  BY <2>1 DEF Once, Stopped, Unlisted
<1>5. CASE PollEnds
  <2>1. Answered /\ Forget /\ pc' \in {"down", "done"}  BY <1>5 DEF PollEnds
  <2> QED  BY <2>1, AnsweredOnce, ForgetOnce
<1>6. CASE PollOffers  BY <1>6, PollOffersOnce
<1>7. CASE stop_on_mass_initial_retry \/ Die
  <2>1. Forget /\ pc' \in {"down", "done"} /\ disk' = disk
    BY <1>7 DEF stop_on_mass_initial_retry, Die
  <2> QED  BY <2>1, ForgetOnce DEF Once
<1>8. CASE SkipRound  BY <1>8, SkipRoundOnce
<1>9. CASE HoldBack  BY <1>9, HoldBackOnce
<1>10. CASE LawSubmit  BY <1>10, LawSubmitOnce
<1>11. CASE CreateTask  BY <1>11, CreateTaskOnce
<1>12. CASE RecordTask \/ SubmissionFails
  BY <1>12, RecordOnce DEF RecordTask, SubmissionFails
<1>13. CASE World
  <2>1. UNCHANGED <<pc, memory, disk>> /\ (Unlisted => outputs \subseteq outputs')
    BY <1>13 DEF World, JobEnds, OrphanEnds, LoseOutputs
  <2> QED  BY <2>1, WorldOnce
<1>14. CASE Rest \/ UNCHANGED vars
  <2>1. UNCHANGED <<pc, memory, disk, outputs>>  BY <1>14 DEF Rest, vars, world
  <2> QED  BY <2>1, WorldOnce
<1> QED
  BY <1>1, <1>2, <1>3, <1>4, <1>5, <1>6, <1>7, <1>8, <1>9, <1>10, <1>11, <1>12, <1>13,
     <1>14 DEF Next, Driver, Submit

\* Both invariants, as long as no product vanishes between luigi's scheduling and
\* law's listing.
LEMMA OnceHolds ==
  ASSUME ~EarlyLosses
  PROVE  Spec => [](DInv /\ Once)
<1>1. Init => DInv /\ Once  BY InitDInv, InitOnce
<1>2. DInv /\ Once /\ [Next]_vars => (DInv /\ Once)'  BY NextDInv, NextOnce
<1> QED  BY <1>1, <1>2, PTL DEF Spec

\* In the loop every job is in jobs or in unsubmitted_jobs, in one of them only, and
\* law's job count is theirs (_drop_complete_backlog, _park_retries).
THEOREM JobsAreCountedOnce ==
  ASSUME ~EarlyLosses
  PROVE  Spec => []EveryJobCountedOnce
<1>1. ASSUME DInv, Once, pc \in {"poll", "submit"}, nJobs > 0
      PROVE  /\ Recorded \intersect ToSet(backlog) = {}
             /\ Recorded \union ToSet(backlog) = Jobs
             /\ nJobs = NJobs
  <2>1. ~Stopped /\ wave = {} /\ nJobs = NJobs /\ ~Unlisted
    BY <1>1, JobNumbers DEF DInv, Once, Stopped, Phases, Unlisted
  <2>2. \A j \in Jobs : jobs[j] = "none" <=> j \in ToSet(backlog)  BY <1>1, <2>1, CountedOnce
  <2>3. ToSet(backlog) \subseteq Jobs  BY <1>1, ListLength DEF DInv, Types
  <2> QED  BY <2>1, <2>2, <2>3 DEF Recorded
<1>2. DInv /\ Once => EveryJobCountedOnce  BY <1>1 DEF EveryJobCountedOnce
<1> QED  BY <1>2, OnceHolds, PTL

\* A job taken for finished is neither offered nor held back.
LEMMA HeldStays ==
  ASSUME DInv, Once, Held, condemned # {}, pc = "submit" => ~MassInitialRetry
  PROVE  \A j \in condemned : /\ j \in Jobs /\ jobs[j] = "finished"
                              /\ j \notin wave /\ j \notin offered /\ j \notin ToSet(backlog)
<1> USE DEF DInv
<1>1. \A j \in condemned : jobs[j] = "finished" /\ j \notin wave
  BY BrakeHolds DEF Held
<1>2. /\ ~Stopped /\ ~Unlisted /\ condemned \subseteq Jobs
  BY DEF Noticed, Phases, Unlisted, Types
<1> QED  BY <1>1, <1>2 DEF Accounts, Marked, Once

LEMMA NextHeld ==
  ASSUME DInv, Once, Held, [Next]_vars
  PROVE  Held'
<1> USE DEF DInv
<1>1. CASE StartFresh \/ StartResumed \/ Enter
  <2>1. condemned = {}  BY <1>1 DEF StartFresh, StartResumed, Enter, Noticed, Phases, Stopped
  <2>2. condemned' = condemned  BY <1>1 DEF StartFresh, StartResumed, Enter
  <2> QED  BY <2>1, <2>2 DEF Held
<1>2. CASE Unanswered
  <2>1. /\ pc = "poll" /\ condemned' = Condemned(FinishedInVain)
        /\ UNCHANGED <<jobs, wave>> /\ wave = {}
    BY <1>2 DEF Unanswered, Phases
  <2>2. \A j \in FinishedInVain : jobs[j] = "finished"  BY DEF FinishedInVain
  <2> QED  BY <2>1, <2>2 DEF Held, Condemned
<1>3. CASE PollEnds \/ stop_on_mass_initial_retry \/ Die
  <2>1. condemned' = {}
    BY <1>3 DEF PollEnds, stop_on_mass_initial_retry, Die, Forget
  <2> QED  BY <2>1 DEF Held
<1>4. CASE PollOffers
  <2>1. /\ Answered /\ pc = "poll" /\ pc' = "submit" /\ jobs' = PolledJobs /\ offered' = Failed
        /\ condemned' = Condemned(Gone) /\ wave' = wave /\ wave = {}
    BY <1>4 DEF PollOffers, Answered, Phases
  <2>2. CASE resumed /\ first /\ Mass(Gone)
    <3>1. condemned' = Missing  BY <2>1, <2>2 DEF Condemned, Missing
    <3>2. Missing = {j \in Failed : PolledJobs[j] = "missing"}  BY <2>1, PollFinds
    <3> QED  BY <2>1, <3>1, <3>2 DEF Held
  <2>3. CASE ~(resumed /\ first /\ Mass(Gone))
    <3>1. condemned' = condemned  BY <2>1, <2>3 DEF Condemned
    <3>2. ASSUME condemned # {}, NEW j \in condemned
          PROVE  PolledJobs[j] = "finished"
      <4>1. ~first /\ j \in Jobs /\ jobs[j] = "finished"
        BY <2>1, <3>2 DEF Noticed, Types, Held
      <4> QED  BY <2>1, <4>1, PollFinds
    <3> QED  BY <2>1, <3>1, <3>2 DEF Held
  <2> QED  BY <2>2, <2>3
<1>5. CASE SkipRound \/ HoldBack
  <2>1. PICK c : park_retries(c)  BY <1>5 DEF SkipRound, HoldBack
  <2>2. /\ pc = "submit" /\ ~MassInitialRetry /\ UNCHANGED <<condemned, wave>>
    BY <1>5 DEF SkipRound, HoldBack
  <2>3. ASSUME condemned # {}, NEW j \in condemned
        PROVE  jobs'[j] = "finished" /\ j \notin wave
    <3>1. j \in Jobs /\ jobs[j] = "finished" /\ j \notin wave /\ j \notin offered
      BY <2>2, <2>3, HeldStays
    <3> QED  BY <2>1, <2>2, <3>1, ParkingIs
  <2> QED  BY <2>2, <2>3 DEF Held
<1>6. CASE LawSubmit
  <2> DEFINE B == ToSet(backlog)
  <2>1. PICK skipped, taken, overflow, waiting, filling \in SUBSET Jobs :
             /\ skipped = Skip(offered \union B)
             /\ offered \ skipped = taken \union overflow /\ taken \intersect overflow = {}
             /\ B \ skipped = waiting /\ filling \subseteq waiting
             /\ wave' = taken \union filling
             /\ List(backlog', Jobs)
             /\ ToSet(backlog') = (waiting \ filling) \union (overflow \ waiting)
             /\ jobs' = Entered([j \in Jobs |-> IF j \in overflow THEN "none" ELSE jobs[j]], skipped)
             /\ wave' # {} => Cardinality(wave') + active <= NParallel
    BY <1>6, Taking
  <2>2. /\ pc = "submit" /\ ~MassInitialRetry /\ condemned' = condemned
    BY <1>6 DEF LawSubmit
  <2>3. ASSUME condemned # {}, NEW j \in condemned
        PROVE  jobs'[j] = "finished" /\ j \notin wave'
    <3>1. j \in Jobs /\ jobs[j] = "finished" /\ j \notin offered /\ j \notin ToSet(backlog)
      BY <2>2, <2>3, HeldStays
    <3> QED  BY <2>1, <3>1 DEF Entered
  <2> QED  BY <2>2, <2>3 DEF Held
<1>7. CASE CreateTask \/ RecordTask \/ SubmissionFails
  <2>1. /\ pc \in {"create", "record"} /\ condemned' = condemned
        /\ \/ UNCHANGED <<jobs, wave>>
           \/ wave' = {} /\ jobs' = [j \in Jobs |-> IF j \in wave THEN "active" ELSE jobs[j]]
    BY <1>7 DEF CreateTask, RecordTask, SubmissionFails, Record, memory
  <2>2. condemned # {} => \A j \in condemned : j \in Jobs /\ jobs[j] = "finished" /\ j \notin wave
    BY <2>1, HeldStays
  <2> QED  BY <2>1, <2>2 DEF Held
<1>8. CASE World \/ Rest \/ UNCHANGED vars
  <2>1. UNCHANGED <<pc, jobs, offered, wave, condemned>>
    BY <1>8 DEF World, JobEnds, OrphanEnds, LoseOutputs, Rest, vars, memory
  <2> QED  BY <2>1 DEF Held
<1> QED
  BY <1>1, <1>2, <1>3, <1>4, <1>5, <1>6, <1>7, <1>8 DEF Next, Driver, Submit

\* A resumed run that comes upon a mass loss sends none of it back to work
\* (stop_on_mass_initial_retry, before anything is parked).
THEOREM NothingGoneIsRemade ==
  ASSUME ~EarlyLosses
  PROVE  Spec => []NoMassRegeneration
<1>1. ASSUME DInv, Once, Held, NEW j \in condemned
      PROVE  j \notin wave /\ j \notin ToSet(backlog)
  <2>1. condemned # {} /\ ~Stopped /\ ~Unlisted /\ j \in Jobs
    BY <1>1 DEF DInv, Noticed, Phases, Unlisted, Types
  <2>2. CASE pc = "submit" /\ condemned = {i \in offered : jobs[i] = "missing"}
    <3>1. wave = {} /\ jobs[j] = "missing"  BY <1>1, <2>2 DEF DInv, Phases
    <3> QED  BY <1>1, <2>1, <3>1 DEF Once
  <2>3. CASE jobs[j] = "finished" /\ j \notin wave
    BY <1>1, <2>1, <2>3 DEF Once
  <2> QED  BY <1>1, <2>1, <2>2, <2>3 DEF Held
<1>2. DInv /\ Once /\ Held => NoMassRegeneration  BY <1>1 DEF NoMassRegeneration
<1>3. Init => DInv /\ Once /\ Held  BY InitDInv, InitOnce DEF Init, Held
<1>4. DInv /\ Once /\ Held /\ [Next]_vars => (DInv /\ Once /\ Held)'
  BY NextDInv, NextOnce, NextHeld
<1> QED  BY <1>2, <1>3, <1>4, PTL DEF Spec
=============================================================================
