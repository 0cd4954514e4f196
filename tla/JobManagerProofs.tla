-------------------------- MODULE JobManagerProofs --------------------------
(***************************************************************************)
(* Proofs about JobManager, for any number of branches and tasks and all   *)
(* values of its ceilings: what a run is stopped for, how far its counters *)
(* go while polls are thrown away, and what it records of sites.           *)
(***************************************************************************)
EXTENDS JobManager, FiniteSetTheorems, WellFoundedInduction, TLAPS

-----------------------------------------------------------------------------
(***************************************************************************)
(* Least elements and the k smallest.                                      *)
(***************************************************************************)

\* A set of naturals has a least element.
LEMMA Least ==
  ASSUME NEW S, S \subseteq Nat, S # {}
  PROVE  \E m \in S : \A n \in S : m <= n
<1> DEFINE R == OpToRel(<, Nat)
<1>1. IsWellFoundedOn(R, Nat)  BY NatLessThanWellFounded
<1>2. \A x, y \in Nat : x < y => <<x, y>> \in R  BY DEF OpToRel
<1> HIDE DEF R
<1>3. PICK m \in S : \A y \in S : <<y, m>> \notin R  BY <1>1, WFMin
<1>4. ASSUME NEW n \in S  PROVE m <= n
  <2>1. m \in Nat /\ n \in Nat /\ <<n, m>> \notin R  BY <1>3
  <2>2. ~ (n < m)  BY <1>2, <2>1
  <2> QED  BY <2>1, <2>2
<1> QED  BY <1>4

\* The task law submits next is one of those it may use.
LEMMA MinIsIn ==
  ASSUME NEW S, S \subseteq Nat, S # {}
  PROVE  Min(S) \in S
BY Least DEF Min

\* The k smallest of a set are at most k.
LEMMA KSmallest ==
  ASSUME NEW N \in Nat, NEW R \in SUBSET (1..N), NEW k \in Nat, NEW V \in SUBSET R,
         \A b \in V : Cardinality({c \in R : c < b}) < k
  PROVE  IsFiniteSet(V) /\ Cardinality(V) <= k
<1>1. IsFiniteSet(R)  
  <2>1. IsFiniteSet(1..N)  BY FS_Interval
  <2> QED  BY <2>1, FS_Subset
<1>2. IsFiniteSet(V) /\ Cardinality(V) \in Nat
  BY <1>1, FS_Subset, FS_CardinalityType
<1>3. CASE V = {}  BY <1>2, <1>3, FS_EmptySet
<1>4. CASE V # {}
  <2>1. \E m \in V : \A n \in V : n <= m
    <3> DEFINE mirrored == {N - v : v \in V}
    <3>1. \A v \in V : v \in Nat /\ N - v \in Nat  OBVIOUS
    <3>2. mirrored \subseteq Nat /\ mirrored # {}  BY <1>4, <3>1
    <3>3. PICK p \in mirrored : \A n \in mirrored : p <= n
      <4> HIDE DEF mirrored
      <4> QED  BY <3>2, Least
    <3>4. PICK m \in V : p = N - m  BY <3>3
    <3>5. ASSUME NEW n \in V  PROVE n <= m
      <4>1. N - m <= N - n  BY <3>3, <3>4, <3>5
      <4> QED  BY <3>1, <3>5, <4>1
    <3> QED  BY <3>5
  <2>2. PICK m \in V : \A n \in V : n <= m  BY <2>1
  <2> DEFINE Below == {c \in R : c < m}
  <2>3. V \ {m} \subseteq Below  BY <2>2
  <2>4. IsFiniteSet(Below) /\ Cardinality(Below) \in Nat /\ Cardinality(Below) < k
    BY <1>1, <2>2, FS_Subset, FS_CardinalityType
  <2> HIDE DEF Below
  <2>5. Cardinality(V \ {m}) = Cardinality(V) - 1  BY <1>2, <2>2, FS_RemoveElement
  <2>6. Cardinality(V \ {m}) <= Cardinality(Below)  BY <2>3, <2>4, FS_Subset
  <2> QED  BY <1>2, <2>4, <2>5, <2>6
<1> QED  BY <1>3, <1>4

-----------------------------------------------------------------------------
(***************************************************************************)
(* The inductive invariant.                                                *)
(***************************************************************************)

\* Outside a poll nothing is asked, thrown away or about to stop the run.
Phases ==
  /\ phase # "poll" => asking = {} /\ raised = {} /\ pollFails = 0 /\ ~stop
  /\ raised \subseteq Live

\* Every poll that is thrown away may add one to each count, and only a count
\* that is within its ceiling outlives a poll that is not.
Counts ==
  \A t \in Tasks :
    /\ unreadable[t] <= MaxUnreadable + pollFails + 1
    /\ unscheduled[t] <= MaxUnscheduled + pollFails + 1
    /\ t \in asking => /\ unreadable[t] <= MaxUnreadable + pollFails
                       /\ unscheduled[t] <= MaxUnscheduled + pollFails
    /\ t \notin asking \union raised => unreadable[t] <= MaxUnreadable
    /\ ~stop => unscheduled[t] <= MaxUnscheduled

\* What is held against the configuration was met by tasks of this run.
Blame ==
  /\ \A t \in refusedProjects : t \in ours /\ server[t] = "refused"
  /\ \A t \in failedSubmissions : t \in ours /\ server[t] = "failed"

\* _stats_seen knows every outcome that was recorded, and the record is true.
Records ==
  /\ recorded \in [Branches -> [Outcomes -> {0, 1}]]
  /\ \A b \in Branches :
       /\ \A o \in Outcomes : recorded[b][o] = 1 => <<b, o>> \in statsSeen
       /\ recorded[b]["ok"] = 1 => job[b] = "finished"
       /\ recorded[b]["bad"] = 1 => job[b] = "error"
       /\ recorded[b]["watchdog"] = 1 => perBranch[b] > 0

IInv == TypeOK /\ Phases /\ Counts /\ Blame /\ Records

\* The numbers among the types.
LEMMA Numbers ==
  ASSUME IInv
  PROVE  /\ unreadable \in [Tasks -> Nat] /\ unscheduled \in [Tasks -> Nat]
         /\ pollFails \in Nat /\ pollFails <= PollFails
         /\ issued \in Nat /\ issued <= MaxPerInterval
         /\ \A b \in Branches : perBranch[b] \in Nat /\ perBranch[b] <= MaxPerBranch
         /\ perBranch \in [Branches -> 0..MaxPerBranch]
<1>1. /\ unreadable \in [Tasks -> 0..MaxUnreadable+PollFails+1]
      /\ unscheduled \in [Tasks -> 0..MaxUnscheduled+PollFails+1]
      /\ pollFails \in 0..PollFails
      /\ issued \in 0..MaxPerInterval
      /\ perBranch \in [Branches -> 0..MaxPerBranch]
  BY DEF IInv, TypeOK
<1>2. /\ 0..MaxUnreadable+PollFails+1 \subseteq Nat
      /\ 0..MaxUnscheduled+PollFails+1 \subseteq Nat
  OBVIOUS
<1>3. unreadable \in [Tasks -> Nat] /\ unscheduled \in [Tasks -> Nat]  BY <1>1, <1>2
<1>4. \A b \in Branches : perBranch[b] \in 0..MaxPerBranch  BY <1>1
<1> QED  BY <1>1, <1>3, <1>4, CeilingsAssumption, WatchdogAssumption

LEMMA InitIInv == Init => IInv
<1> SUFFICES ASSUME Init PROVE IInv  OBVIOUS
<1> USE CeilingsAssumption, WatchdogAssumption, BoundsAssumption
<1>1. TypeOK
  <2>1. /\ unreadable \in [Tasks -> 0..MaxUnreadable+PollFails+1]
        /\ unscheduled \in [Tasks -> 0..MaxUnscheduled+PollFails+1]
    BY DEF Init, NoCounts
  <2>2. taskOf \in [Branches -> 0..MaxTasks] /\ perBranch \in [Branches -> 0..MaxPerBranch]
    BY DEF Init
  <2>3. pollFails \in 0..PollFails /\ issued \in 0..MaxPerInterval  BY DEF Init
  <2> QED  BY <2>1, <2>2, <2>3 DEF Init, TypeOK, Nothing, JobStates
<1>2. Phases /\ Counts /\ Blame  BY DEF Init, Phases, Counts, Blame, NoCounts, Tasks
<1>3. Records  BY DEF Init, Records, NoRecords, Outcomes
<1> QED  BY <1>1, <1>2, <1>3 DEF IInv

-----------------------------------------------------------------------------
(***************************************************************************)
(* Every step preserves it.                                                *)
(***************************************************************************)

\* The end of a run forgets all that the invariant is about.
LEMMA ForgetStep ==
  ASSUME IInv, Forget, phase' \in {"down", "done"},
         taskOf' \in [Branches -> 0..MaxTasks], accepted' \subseteq Branches,
         server' = server, job' \in [Branches -> JobStates]
  PROVE  IInv'
<1> USE CeilingsAssumption, WatchdogAssumption, BoundsAssumption
<1>1. TypeOK'
  <2>1. /\ unreadable' \in [Tasks -> 0..MaxUnreadable+PollFails+1]
        /\ unscheduled' \in [Tasks -> 0..MaxUnscheduled+PollFails+1]
    BY DEF Forget, NoCounts
  <2>2. perBranch' \in [Branches -> 0..MaxPerBranch]  BY DEF Forget
  <2>3. pollFails' \in 0..PollFails /\ issued' \in 0..MaxPerInterval  BY DEF Forget
  <2> QED  BY <2>1, <2>2, <2>3 DEF Forget, IInv, TypeOK, Nothing
<1>2. Phases' /\ Counts' /\ Blame'
  BY DEF Forget, Phases, Counts, Blame, NoCounts, Tasks
<1>3. Records'
  BY DEF Forget, Records, NoRecords, Outcomes
<1> QED  BY <1>1, <1>2, <1>3 DEF IInv

LEMMA GiveUpStep == IInv /\ GiveUp => IInv'
BY ForgetStep DEF GiveUp, IInv, TypeOK, world

LEMMA DieStep == IInv /\ Die => IInv'
BY ForgetStep DEF Die, IInv, TypeOK, world

LEMMA StartStep == IInv /\ Start => IInv'
<1> SUFFICES ASSUME IInv, Start PROVE IInv'  OBVIOUS
<1>1. TypeOK'  BY DEF IInv, Start, TypeOK, manager, watchdog, world, Live, Members
<1>2. Phases' /\ Counts' /\ Blame'
  BY DEF IInv, Start, Phases, Counts, Blame, manager, watchdog, world, Live, Members
<1>3. Records'  BY DEF IInv, Start, Records, manager, watchdog, world
<1> QED  BY <1>1, <1>2, <1>3 DEF IInv

LEMMA SubmitStep == IInv /\ Submit => IInv'
<1> SUFFICES ASSUME IInv, Submit PROVE IInv'  OBVIOUS
<1> USE CeilingsAssumption, WatchdogAssumption, BoundsAssumption
<1>1. /\ phase = "submit" /\ phase' = "poll" /\ heard' = Nothing /\ raised' = {}
      /\ UNCHANGED <<accepted, pollFails, unreadable, unscheduled, refusedProjects,
                     failedSubmissions, stop, statsSeen, perBranch, issued, job, recorded>>
  BY DEF Submit, StartPoll, watchdog
<1> DEFINE waiting == {b \in Branches \ accepted : taskOf[b] = 0}
           unused == {t \in Tasks : server[t] = "none"}
<1>2. /\ taskOf' \in [Branches -> 0..MaxTasks]
      /\ server' \in [Tasks -> {"none", "waiting", "scheduled", "refused", "failed"}]
      /\ \A t \in Tasks : server[t] \in {"refused", "failed"} => server'[t] = server[t]
      /\ ours \subseteq ours' /\ ours' \subseteq Tasks
      /\ asking' \subseteq Live'
  <2>1. CASE /\ waiting # {} /\ unused # {}
             /\ LET new == Min(unused) IN
                  /\ taskOf' = [b \in Branches |-> IF b \in waiting THEN new ELSE taskOf[b]]
                  /\ server' = [server EXCEPT ![new] = "waiting"]
                  /\ ours' = ours \union {new}
                  /\ asking' = Live \union {new}
    <3> DEFINE new == Min(unused)
    <3>1. new \in unused
      <4>1. unused \subseteq Nat  BY DEF Tasks
      <4> HIDE DEF unused
      <4> QED  BY <2>1, <4>1, MinIsIn
    <3>2. /\ taskOf' = [b \in Branches |-> IF b \in waiting THEN new ELSE taskOf[b]]
          /\ server' = [server EXCEPT ![new] = "waiting"]
          /\ ours' = ours \union {new}
          /\ asking' = Live \union {new}
          /\ waiting # {}
      BY <2>1
    <3> HIDE DEF new
    <3>3. taskOf' \in [Branches -> 0..MaxTasks]
      <4>1. new \in 0..MaxTasks  BY <3>1 DEF Tasks
      <4>2. taskOf \in [Branches -> 0..MaxTasks]  BY DEF IInv, TypeOK
      <4> QED  BY <3>2, <4>1, <4>2
    <3>4. asking' \subseteq Live'
      <4>1. ASSUME NEW t \in Live PROVE t \in Live'
        <5>1. PICK b \in Branches : taskOf[b] = t /\ b \notin accepted  BY DEF Live, Members
        <5>2. t # 0 /\ t \in Tasks  BY DEF Live, Tasks
        <5>3. taskOf'[b] = t  BY <3>2, <5>1, <5>2
        <5> QED  BY <1>1, <5>1, <5>2, <5>3 DEF Live, Members
      <4>2. new \in Live'
        <5>1. PICK b \in waiting : TRUE  BY <3>2
        <5>2. taskOf'[b] = new /\ b \in Branches /\ b \notin accepted'  BY <1>1, <3>2, <5>1
        <5> QED  BY <3>1, <5>2 DEF Live, Members
      <4> QED  BY <3>2, <4>1, <4>2
    <3>5. /\ server' \in [Tasks -> {"none", "waiting", "scheduled", "refused", "failed"}]
          /\ \A t \in Tasks : server[t] \in {"refused", "failed"} => server'[t] = server[t]
          /\ ours' \subseteq Tasks
      BY <3>1, <3>2 DEF IInv, TypeOK
    <3> QED  BY <3>2, <3>3, <3>4, <3>5
  <2>2. CASE asking' = Live /\ UNCHANGED <<taskOf, server, ours>>
    BY <1>1, <2>2 DEF IInv, TypeOK, Live, Members
  <2> QED  BY <2>1, <2>2 DEF Submit
<1>3. TypeOK'
  BY <1>1, <1>2 DEF IInv, TypeOK, Nothing
<1>4. Phases'  BY <1>1, <1>2 DEF Phases
<1>5. Counts'
  <2>1. ASSUME NEW t \in Tasks
        PROVE  unreadable[t] \in Nat /\ unscheduled[t] \in Nat
    BY Numbers
  <2>2. asking = {} /\ raised = {} /\ pollFails = 0 /\ ~stop  BY <1>1 DEF IInv, Phases
  <2>3. ASSUME NEW t \in Tasks
        PROVE  unreadable[t] <= MaxUnreadable /\ unscheduled[t] <= MaxUnscheduled
    BY <2>2 DEF IInv, Counts
  <2> QED  BY <1>1, <2>1, <2>2, <2>3 DEF Counts
<1>6. Blame' /\ Records'
  BY <1>1, <1>2 DEF IInv, TypeOK, Blame, Records
<1> QED  BY <1>3, <1>4, <1>5, <1>6 DEF IInv

-----------------------------------------------------------------------------

\* What every answer leaves alone, and what it may do to the rest.
LEMMA AnswerStep ==
  ASSUME IInv, NEW t \in Tasks, NEW states, Answer(t, states),
         \A b \in Members(t) : states[b] \in {"pending", "running", "finished", "failed"}
  PROVE  /\ t \in asking /\ asking' = asking \ {t} /\ phase = "poll" /\ phase' = "poll"
         /\ asking' \subseteq Live' /\ Live' = Live
         /\ heard' \in [Branches -> {"", "pending", "running", "finished", "failed"}]
         /\ UNCHANGED <<taskOf, accepted, pollFails, server, job>>
<1>1. UNCHANGED <<taskOf, accepted, pollFails, server, job>>  BY DEF Answer, world
<1>2. Live' = Live  BY <1>1 DEF Live, Members
<1>3. heard' \in [Branches -> {"", "pending", "running", "finished", "failed"}]
  BY DEF Answer, IInv, TypeOK, Members
<1> QED  BY <1>1, <1>2, <1>3 DEF Answer, IInv, TypeOK

\* An answer that only resets counts, or adds one to that of its task, keeps them.
LEMMA CountsStep ==
  ASSUME IInv, NEW t \in asking, asking' = asking \ {t}, raised \subseteq raised',
         pollFails' = pollFails, stop => stop',
         unreadable' = [unreadable EXCEPT ![t] = 0]
         \/ /\ unreadable' = [unreadable EXCEPT ![t] = @ + 1]
            /\ unreadable'[t] > MaxUnreadable => t \in raised',
         \/ unscheduled' = unscheduled
         \/ unscheduled' = [unscheduled EXCEPT ![t] = 0]
         \/ /\ unscheduled' = [unscheduled EXCEPT ![t] = @ + 1]
            /\ unscheduled'[t] > MaxUnscheduled => stop'
  PROVE  /\ Counts'
         /\ unreadable' \in [Tasks -> 0..MaxUnreadable+PollFails+1]
         /\ unscheduled' \in [Tasks -> 0..MaxUnscheduled+PollFails+1]
<1> USE CeilingsAssumption
<1>1. /\ unreadable \in [Tasks -> Nat] /\ unscheduled \in [Tasks -> Nat]
      /\ pollFails \in 0..PollFails /\ t \in Tasks
      /\ stop \in BOOLEAN
  BY Numbers DEF IInv, TypeOK, Live
<1>2. ASSUME NEW u \in Tasks
      PROVE  /\ unreadable'[u] \in 0..MaxUnreadable+PollFails+1
             /\ unreadable'[u] <= MaxUnreadable + pollFails + 1
             /\ u \in asking' => unreadable'[u] <= MaxUnreadable + pollFails
             /\ u \notin asking' \union raised' => unreadable'[u] <= MaxUnreadable
  <2>1. CASE u = t  BY <1>1, <2>1 DEF IInv, Counts
  <2>2. CASE u # t
    <3>1. unreadable'[u] = unreadable[u]  BY <1>1, <2>2
    <3> QED  BY <1>1, <2>2, <3>1 DEF IInv, Counts
  <2> QED  BY <2>1, <2>2
<1>3. ASSUME NEW u \in Tasks
      PROVE  /\ unscheduled'[u] \in 0..MaxUnscheduled+PollFails+1
             /\ unscheduled'[u] <= MaxUnscheduled + pollFails + 1
             /\ u \in asking' => unscheduled'[u] <= MaxUnscheduled + pollFails
             /\ ~stop' => unscheduled'[u] <= MaxUnscheduled
  <2>1. CASE u = t  BY <1>1, <2>1 DEF IInv, Counts
  <2>2. CASE u # t
    <3>1. unscheduled'[u] = unscheduled[u]  BY <1>1, <2>2
    <3> QED  BY <1>1, <2>2, <3>1 DEF IInv, Counts
  <2> QED  BY <2>1, <2>2
<1>4. Counts'  BY <1>2, <1>3 DEF Counts
<1>5. unreadable' \in [Tasks -> 0..MaxUnreadable+PollFails+1]  BY <1>1, <1>2
<1>6. unscheduled' \in [Tasks -> 0..MaxUnscheduled+PollFails+1]  BY <1>1, <1>3
<1> QED  BY <1>4, <1>5, <1>6

LEMMA RefusedStep == ASSUME IInv, NEW t \in Tasks, Refused(t) PROVE IInv'
<1>1. Answer(t, AllFailed)  BY DEF Refused
<1>2. /\ t \in asking /\ asking' = asking \ {t} /\ phase = "poll" /\ phase' = "poll"
      /\ asking' \subseteq Live' /\ Live' = Live
      /\ heard' \in [Branches -> {"", "pending", "running", "finished", "failed"}]
      /\ UNCHANGED <<taskOf, accepted, pollFails, server, job>>
  BY <1>1, AnswerStep DEF AllFailed, Members
<1>3. /\ server[t] = "refused"
      /\ UNCHANGED <<raised, unscheduled, ours, failedSubmissions, statsSeen, perBranch, issued,
                     recorded>>
      /\ unreadable' = [unreadable EXCEPT ![t] = 0]
      /\ refusedProjects' \subseteq refusedProjects \union (ours \intersect {t})
      /\ stop' \in BOOLEAN /\ (stop => stop')
  BY DEF Refused, watchdog, IsOurs
<1>4. /\ Counts'
      /\ unreadable' \in [Tasks -> 0..MaxUnreadable+PollFails+1]
      /\ unscheduled' \in [Tasks -> 0..MaxUnscheduled+PollFails+1]
  BY <1>2, <1>3, CountsStep
<1>5. TypeOK'  BY <1>2, <1>3, <1>4 DEF IInv, TypeOK
<1>6. Phases'  BY <1>2, <1>3 DEF IInv, Phases
<1>7. Blame'  BY <1>2, <1>3 DEF IInv, Blame
<1>8. Records'  BY <1>2, <1>3 DEF IInv, Records
<1> QED  BY <1>4, <1>5, <1>6, <1>7, <1>8 DEF IInv

LEMMA NotScheduledYetStep == ASSUME IInv, NEW t \in Tasks, NotScheduledYet(t) PROVE IInv'
<1>1. Answer(t, AllPending)  BY DEF NotScheduledYet
<1>2. /\ t \in asking /\ asking' = asking \ {t} /\ phase = "poll" /\ phase' = "poll"
      /\ asking' \subseteq Live' /\ Live' = Live
      /\ heard' \in [Branches -> {"", "pending", "running", "finished", "failed"}]
      /\ UNCHANGED <<taskOf, accepted, pollFails, server, job>>
  BY <1>1, AnswerStep DEF AllPending, Members
<1>3. /\ UNCHANGED <<raised, ours, refusedProjects, failedSubmissions, statsSeen, perBranch,
                     issued, recorded>>
      /\ unreadable' = [unreadable EXCEPT ![t] = 0]
      /\ unscheduled' = [unscheduled EXCEPT ![t] = @ + 1]
      /\ stop' \in BOOLEAN /\ (stop => stop')
      /\ unscheduled'[t] > MaxUnscheduled => stop'
  BY DEF NotScheduledYet, watchdog
<1>4. /\ Counts'
      /\ unreadable' \in [Tasks -> 0..MaxUnreadable+PollFails+1]
      /\ unscheduled' \in [Tasks -> 0..MaxUnscheduled+PollFails+1]
  BY <1>2, <1>3, CountsStep
<1>5. TypeOK'  BY <1>2, <1>3, <1>4 DEF IInv, TypeOK
<1>6. Phases'  BY <1>2, <1>3 DEF IInv, Phases
<1>7. Blame' /\ Records'  BY <1>2, <1>3 DEF IInv, Blame, Records
<1> QED  BY <1>4, <1>5, <1>6, <1>7 DEF IInv

LEMMA SubmitFailedStep == ASSUME IInv, NEW t \in Tasks, SubmitFailed(t) PROVE IInv'
<1>1. Answer(t, AllFailed)  BY DEF SubmitFailed
<1>2. /\ t \in asking /\ asking' = asking \ {t} /\ phase = "poll" /\ phase' = "poll"
      /\ asking' \subseteq Live' /\ Live' = Live
      /\ heard' \in [Branches -> {"", "pending", "running", "finished", "failed"}]
      /\ UNCHANGED <<taskOf, accepted, pollFails, server, job>>
  BY <1>1, AnswerStep DEF AllFailed, Members
<1>3. /\ server[t] = "failed"
      /\ UNCHANGED <<raised, ours, refusedProjects, statsSeen, perBranch, issued, recorded>>
      /\ unreadable' = [unreadable EXCEPT ![t] = 0]
      /\ unscheduled' = [unscheduled EXCEPT ![t] = 0]
      /\ failedSubmissions' \subseteq failedSubmissions \union (ours \intersect {t})
      /\ stop' \in BOOLEAN /\ (stop => stop')
  BY DEF SubmitFailed, watchdog, IsOurs
<1>4. /\ Counts'
      /\ unreadable' \in [Tasks -> 0..MaxUnreadable+PollFails+1]
      /\ unscheduled' \in [Tasks -> 0..MaxUnscheduled+PollFails+1]
  BY <1>2, <1>3, CountsStep
<1>5. TypeOK'  BY <1>2, <1>3, <1>4 DEF IInv, TypeOK
<1>6. Phases'  BY <1>2, <1>3 DEF IInv, Phases
<1>7. Blame'  BY <1>2, <1>3 DEF IInv, Blame
<1>8. Records'  BY <1>2, <1>3 DEF IInv, Records
<1> QED  BY <1>4, <1>5, <1>6, <1>7, <1>8 DEF IInv

LEMMA UnreadableStep == ASSUME IInv, NEW t \in Tasks, Unreadable(t) PROVE IInv'
<1>1. Answer(t, AllPending)  BY DEF Unreadable
<1>2. /\ t \in asking /\ asking' = asking \ {t} /\ phase = "poll" /\ phase' = "poll"
      /\ asking' \subseteq Live' /\ Live' = Live
      /\ heard' \in [Branches -> {"", "pending", "running", "finished", "failed"}]
      /\ UNCHANGED <<taskOf, accepted, pollFails, server, job>>
  BY <1>1, AnswerStep DEF AllPending, Members
<1>3. /\ UNCHANGED <<unscheduled, stop, ours, refusedProjects, failedSubmissions, statsSeen,
                     perBranch, issued, recorded>>
      /\ unreadable' = [unreadable EXCEPT ![t] = @ + 1]
      /\ raised \subseteq raised' /\ raised' \subseteq raised \union {t}
      /\ unreadable'[t] > MaxUnreadable => t \in raised'
  BY DEF Unreadable, watchdog, WaitGoesOn
<1>4. /\ Counts'
      /\ unreadable' \in [Tasks -> 0..MaxUnreadable+PollFails+1]
      /\ unscheduled' \in [Tasks -> 0..MaxUnscheduled+PollFails+1]
  BY <1>2, <1>3, CountsStep
<1>5. TypeOK'  BY <1>2, <1>3, <1>4 DEF IInv, TypeOK
<1>6. Phases'  BY <1>2, <1>3 DEF IInv, Phases, TypeOK
<1>7. Blame' /\ Records'  BY <1>2, <1>3 DEF IInv, Blame, Records
<1> QED  BY <1>4, <1>5, <1>6, <1>7 DEF IInv

\* StallWatchdog.verdicts condemns within the branches' and the interval's shares.
LEMMA VerdictsAreRationed ==
  ASSUME IInv, NEW known \in SUBSET Branches, NEW stale \in SUBSET known
  PROVE  /\ verdicts(known, stale) \subseteq stale
         /\ \A b \in verdicts(known, stale) : perBranch[b] < MaxPerBranch
         /\ Cardinality(verdicts(known, stale)) \in Nat
         /\ issued + Cardinality(verdicts(known, stale)) <= MaxPerInterval
<1> USE WatchdogAssumption
<1> DEFINE rescuable == {b \in stale : perBranch[b] < MaxPerBranch}
           k == MaxPerInterval - issued
           V == {b \in rescuable : Cardinality({c \in rescuable : c < b}) < k}
<1>1. issued \in Nat /\ k \in Nat /\ issued + k = MaxPerInterval  BY Numbers
<1>2. NBranches \in Nat  BY BoundsAssumption
<1>3. rescuable \in SUBSET (1..NBranches)  BY DEF Branches
<1>4. V \subseteq rescuable /\ \A b \in V : Cardinality({c \in rescuable : c < b}) < k
  OBVIOUS
<1>5. verdicts(known, stale) \in {{}, V}  BY DEF verdicts
<1>6. /\ IsFiniteSet(V) /\ Cardinality(V) <= k
  <2> HIDE DEF V, rescuable, k
  <2> QED  BY <1>1, <1>2, <1>3, <1>4, KSmallest
<1>7. V \subseteq stale /\ \A b \in V : perBranch[b] < MaxPerBranch  OBVIOUS
<1> HIDE DEF V, rescuable, k
<1>8. Cardinality(V) \in Nat  BY <1>6, FS_CardinalityType
<1> QED  BY <1>1, <1>5, <1>6, <1>7, <1>8, FS_EmptySet

\* What Answered makes of its verdicts.
States(t, condemned) ==
  [b \in Members(t) |->
     IF b \in condemned \/ job[b] \in {"error", "killed"} THEN "failed" ELSE job[b]]

New(t, condemned) ==
  {s \in Members(t) \X Outcomes : s[2] \in OutcomeOf(s[1], condemned)} \ statsSeen

LEMMA AnsweredStep == ASSUME IInv, NEW t \in Tasks, Answered(t) PROVE IInv'
<1>1. PICK known \in SUBSET Running(t) : \E stale \in SUBSET known :
        LET condemned == verdicts(known, stale)
            new == New(t, condemned)
        IN /\ Answer(t, States(t, condemned))
           /\ perBranch' = [b \in Branches |-> IF b \in condemned THEN perBranch[b] + 1
                                               ELSE perBranch[b]]
           /\ issued' = issued + Cardinality(condemned)
           /\ statsSeen' = statsSeen \union new
           /\ recorded' = [b \in Branches |-> [o \in Outcomes |->
                             IF <<b, o>> \in new THEN recorded[b][o] + 1 ELSE recorded[b][o]]]
  BY DEF Answered, States, New
<1> DEFINE condemned(stale) == verdicts(known, stale)
<1>2. PICK stale \in SUBSET known :
        /\ Answer(t, States(t, condemned(stale)))
        /\ perBranch' = [b \in Branches |-> IF b \in condemned(stale) THEN perBranch[b] + 1
                                            ELSE perBranch[b]]
        /\ issued' = issued + Cardinality(condemned(stale))
        /\ statsSeen' = statsSeen \union New(t, condemned(stale))
        /\ recorded' = [b \in Branches |-> [o \in Outcomes |->
                          IF <<b, o>> \in New(t, condemned(stale)) THEN recorded[b][o] + 1
                          ELSE recorded[b][o]]]
  BY <1>1
<1>3. /\ UNCHANGED <<raised, ours, refusedProjects, failedSubmissions, stop>>
      /\ unreadable' = [unreadable EXCEPT ![t] = 0]
      /\ unscheduled' = [unscheduled EXCEPT ![t] = 0]
  BY DEF Answered, Readable
<1>4. known \subseteq Branches  BY DEF Running, Members
<1>5. PICK C \in SUBSET Branches : C = condemned(stale)
  <2>1. condemned(stale) \subseteq stale  BY <1>4, VerdictsAreRationed
  <2> QED  BY <1>4, <2>1
<1>6. /\ \A b \in C : perBranch[b] < MaxPerBranch
      /\ Cardinality(C) \in Nat /\ issued + Cardinality(C) <= MaxPerInterval
  BY <1>4, <1>5, VerdictsAreRationed
<1> HIDE DEF condemned
<1> DEFINE new == New(t, C)
<1>7. /\ t \in asking /\ asking' = asking \ {t} /\ phase = "poll" /\ phase' = "poll"
      /\ asking' \subseteq Live' /\ Live' = Live
      /\ heard' \in [Branches -> {"", "pending", "running", "finished", "failed"}]
      /\ UNCHANGED <<taskOf, accepted, pollFails, server, job>>
  <2>1. \A b \in Members(t) : States(t, C)[b] \in {"pending", "running", "finished", "failed"}
    BY DEF IInv, TypeOK, JobStates, Members, States
  <2> QED  BY <1>2, <1>5, <2>1, AnswerStep
<1>8. /\ Counts'
      /\ unreadable' \in [Tasks -> 0..MaxUnreadable+PollFails+1]
      /\ unscheduled' \in [Tasks -> 0..MaxUnscheduled+PollFails+1]
  BY <1>3, <1>7, CountsStep
<1>9. /\ \A s \in new : s \in Branches \X Outcomes /\ s \notin statsSeen
      /\ \A b \in Branches, o \in Outcomes : <<b, o>> \in new => o \in OutcomeOf(b, C)
  BY DEF Members, New
<1> HIDE DEF new
<1>10. /\ statsSeen' = statsSeen \union new
       /\ recorded' = [b \in Branches |-> [o \in Outcomes |->
                         IF <<b, o>> \in new THEN recorded[b][o] + 1 ELSE recorded[b][o]]]
       /\ statsSeen' \subseteq Branches \X Outcomes
  <2>1. /\ statsSeen' = statsSeen \union new
        /\ recorded' = [b \in Branches |-> [o \in Outcomes |->
                         IF <<b, o>> \in new THEN recorded[b][o] + 1 ELSE recorded[b][o]]]
    BY <1>2, <1>5 DEF new
  <2> QED  BY <1>9, <2>1 DEF IInv, TypeOK
<1>11. /\ perBranch' \in [Branches -> 0..MaxPerBranch] /\ issued' \in 0..MaxPerInterval
       /\ \A b \in Branches : /\ perBranch[b] > 0 => perBranch'[b] > 0
                              /\ b \in C => perBranch'[b] > 0
  <2>1. /\ perBranch' = [b \in Branches |-> IF b \in C THEN perBranch[b] + 1 ELSE perBranch[b]]
        /\ issued' = issued + Cardinality(C)
    BY <1>2, <1>5
  <2> QED  BY <1>6, <2>1, Numbers, WatchdogAssumption
<1>12. TypeOK'
  BY <1>3, <1>7, <1>8, <1>10, <1>11 DEF IInv, TypeOK
<1>13. Phases' /\ Blame'
  BY <1>3, <1>7 DEF IInv, Phases, Blame
<1>14. ASSUME NEW b \in Branches, NEW o \in Outcomes
       PROVE  /\ recorded'[b][o] \in {0, 1}
              /\ recorded'[b][o] = 1 => <<b, o>> \in statsSeen'
              /\ recorded'[b][o] = 1 => recorded[b][o] = 1 \/ o \in OutcomeOf(b, C)
  <2>1. recorded'[b][o] = IF <<b, o>> \in new THEN recorded[b][o] + 1 ELSE recorded[b][o]
    BY <1>10
  <2>2. recorded[b][o] \in {0, 1} /\ (recorded[b][o] = 1 => <<b, o>> \in statsSeen)
    BY DEF IInv, Records
  <2>3. CASE <<b, o>> \in new
    BY <1>9, <1>10, <2>1, <2>2, <2>3
  <2>4. CASE <<b, o>> \notin new
    BY <1>10, <2>1, <2>2, <2>4
  <2> QED  BY <2>3, <2>4
<1>15. Records'
  <2>1. recorded' \in [Branches -> [Outcomes -> {0, 1}]]
    <3>1. \A b \in Branches : recorded'[b] \in [Outcomes -> {0, 1}]
      <4> TAKE b \in Branches
      <4>1. recorded'[b] = [o \in Outcomes |->
                              IF <<b, o>> \in new THEN recorded[b][o] + 1 ELSE recorded[b][o]]
        BY <1>10
      <4> QED  BY <1>14, <4>1
    <3> QED  BY <1>10, <3>1
  <2>2. ASSUME NEW b \in Branches
        PROVE  /\ recorded'[b]["ok"] = 1 => job'[b] = "finished"
               /\ recorded'[b]["bad"] = 1 => job'[b] = "error"
               /\ recorded'[b]["watchdog"] = 1 => perBranch'[b] > 0
    <3>1. /\ "ok" \in OutcomeOf(b, C) => job[b] = "finished"
          /\ "bad" \in OutcomeOf(b, C) => job[b] = "error"
          /\ "watchdog" \in OutcomeOf(b, C) => b \in C
      BY DEF OutcomeOf
    <3>2. {"ok", "bad", "watchdog"} = Outcomes  BY DEF Outcomes
    <3> QED  BY <1>7, <1>11, <1>14, <3>1, <3>2 DEF IInv, Records
  <2> QED  BY <1>14, <2>1, <2>2 DEF Records
<1> QED  BY <1>8, <1>12, <1>13, <1>15 DEF IInv

-----------------------------------------------------------------------------

LEMMA DiscardStep == IInv /\ Discard => IInv'
<1> SUFFICES ASSUME IInv, Discard PROVE IInv'  OBVIOUS
<1> USE CeilingsAssumption
<1>1. /\ phase = "poll" /\ asking = {}
      /\ UNCHANGED <<taskOf, accepted, server, job>>
  BY DEF Discard, world
<1>2. CASE pollFails < PollFails
  <2>1. /\ phase' = "poll" /\ heard' = Nothing /\ raised' = {} /\ asking' = Live
        /\ pollFails' = pollFails + 1
        /\ UNCHANGED <<unreadable, unscheduled, ours, refusedProjects, failedSubmissions, stop,
                       statsSeen, perBranch, issued, recorded>>
    BY <1>2 DEF Discard, StartPoll, manager, watchdog
  <2>2. Live' = Live  BY <1>1 DEF Live, Members
  <2>3. pollFails \in Nat /\ pollFails' \in 0..PollFails  BY <1>2, <2>1, Numbers
  <2>4. TypeOK'  BY <1>1, <2>1, <2>2, <2>3 DEF IInv, TypeOK, Nothing
  <2>5. Phases'  BY <2>1 DEF Phases
  <2>6. Counts'
    <3>1. ASSUME NEW t \in Tasks
          PROVE  unreadable[t] \in Nat /\ unscheduled[t] \in Nat
      BY Numbers
    <3>2. ASSUME NEW t \in Tasks, t \notin Live PROVE unreadable[t] <= MaxUnreadable
      BY <1>1, <3>2 DEF IInv, Phases, Counts
    <3> QED  BY <1>1, <2>1, <2>3, <3>1, <3>2 DEF IInv, Counts
  <2>7. Blame' /\ Records'  BY <1>1, <2>1 DEF IInv, Blame, Records
  <2> QED  BY <2>4, <2>5, <2>6, <2>7 DEF IInv
<1>3. CASE ~ (pollFails < PollFails)
  BY <1>1, <1>3, ForgetStep DEF Discard, IInv, TypeOK
<1> QED  BY <1>2, <1>3

\* What law does with what it heard, however the run goes on.
LEMMA SettledStep ==
  ASSUME IInv, Settled
  PROVE  /\ taskOf' \in [Branches -> 0..MaxTasks] /\ accepted' \subseteq Branches
         /\ server' = server /\ job' \in [Branches -> JobStates]
         /\ \A b \in Branches : taskOf'[b] # 0 => job'[b] = job[b]
         /\ phase = "poll" /\ asking = {} /\ raised = {}
<1>1. /\ phase = "poll" /\ asking = {} /\ raised = {} /\ server' = server
      /\ accepted' = accepted \union {b \in Branches : heard[b] = "finished"}
  BY DEF Settled
<1>2. /\ taskOf' = [b \in Branches |-> IF heard[b] = "failed" THEN 0 ELSE taskOf[b]]
      /\ job' = [b \in Branches |-> IF heard[b] = "failed" THEN "pending" ELSE job[b]]
  BY DEF Settled
<1>3. /\ taskOf \in [Branches -> 0..MaxTasks] /\ job \in [Branches -> JobStates]
      /\ accepted \subseteq Branches
  BY DEF IInv, TypeOK
<1>4. 0 \in 0..MaxTasks  BY BoundsAssumption
<1>5. "pending" \in JobStates  BY DEF JobStates
<1> QED  BY <1>1, <1>2, <1>3, <1>4, <1>5

LEMMA FinishStep == IInv /\ Finish => IInv'
BY SettledStep, ForgetStep DEF Finish

LEMMA StopStep == IInv /\ Stop => IInv'
BY SettledStep, ForgetStep DEF Stop

LEMMA GoOnStep == IInv /\ GoOn => IInv'
<1> SUFFICES ASSUME IInv, GoOn PROVE IInv'  OBVIOUS
<1>1. /\ taskOf' \in [Branches -> 0..MaxTasks] /\ accepted' \subseteq Branches
      /\ server' = server /\ job' \in [Branches -> JobStates]
      /\ \A b \in Branches : taskOf'[b] # 0 => job'[b] = job[b]
      /\ phase = "poll" /\ asking = {} /\ raised = {}
  BY SettledStep DEF GoOn
<1>2. /\ ~stop /\ phase' = "submit" /\ heard' = Nothing /\ pollFails' = 0
      /\ issued' \in {issued, 0}
      /\ recorded' = [b \in Branches |-> IF taskOf'[b] = 0 THEN NoRecords ELSE recorded[b]]
      /\ statsSeen' = {s \in statsSeen : taskOf'[s[1]] # 0}
      /\ UNCHANGED <<asking, raised, unreadable, unscheduled, ours, refusedProjects,
                     failedSubmissions, stop, perBranch>>
  BY DEF GoOn
<1>3. pollFails' \in 0..PollFails /\ issued' \in 0..MaxPerInterval
  BY <1>2, Numbers, CeilingsAssumption, WatchdogAssumption
<1>4. TypeOK'  BY <1>1, <1>2, <1>3 DEF IInv, TypeOK, Nothing
<1>5. Phases'  BY <1>1, <1>2 DEF Phases
<1>6. Counts'
  <2>1. ASSUME NEW t \in Tasks
        PROVE  /\ unreadable[t] \in Nat /\ unscheduled[t] \in Nat
               /\ unreadable[t] <= MaxUnreadable /\ unscheduled[t] <= MaxUnscheduled
    BY <1>1, <1>2, Numbers DEF IInv, Counts
  <2> QED  BY <1>1, <1>2, <2>1, CeilingsAssumption DEF Counts
<1>7. Blame'  BY <1>1, <1>2 DEF IInv, Blame
<1>8. Records'
  <2>1. recorded' \in [Branches -> [Outcomes -> {0, 1}]]
    BY <1>2 DEF IInv, Records, NoRecords
  <2>2. ASSUME NEW b \in Branches
        PROVE  /\ \A o \in Outcomes : recorded'[b][o] = 1 => <<b, o>> \in statsSeen'
               /\ recorded'[b]["ok"] = 1 => job'[b] = "finished"
               /\ recorded'[b]["bad"] = 1 => job'[b] = "error"
               /\ recorded'[b]["watchdog"] = 1 => perBranch'[b] > 0
    <3>1. CASE taskOf'[b] = 0
      <4>1. recorded'[b] = [o \in Outcomes |-> 0]  BY <1>2, <3>1 DEF NoRecords
      <4>2. \A o \in Outcomes : recorded'[b][o] = 0  BY <4>1
      <4> QED  BY <4>2 DEF Outcomes
    <3>2. CASE taskOf'[b] # 0
      <4>1. recorded'[b] = recorded[b] /\ job'[b] = job[b]  BY <1>1, <1>2, <3>2
      <4>2. ASSUME NEW o \in Outcomes, <<b, o>> \in statsSeen PROVE <<b, o>> \in statsSeen'
        BY <1>2, <3>2, <4>2
      <4> QED  BY <1>2, <4>1, <4>2 DEF IInv, Records
    <3> QED  BY <3>1, <3>2
  <2> QED  BY <2>1, <2>2 DEF Records
<1> QED  BY <1>4, <1>5, <1>6, <1>7, <1>8 DEF IInv

LEMMA ServerDecidesStep == ASSUME IInv, NEW t \in Tasks, ServerDecides(t) PROVE IInv'
<1>1. /\ UNCHANGED <<phase, taskOf, accepted, asking, heard, raised, pollFails, unreadable,
                     unscheduled, ours, refusedProjects, failedSubmissions, stop, statsSeen,
                     perBranch, issued, job, recorded>>
      /\ server[t] = "waiting"
      /\ \E s \in {"scheduled", "refused", "failed"} : server' = [server EXCEPT ![t] = s]
  BY DEF ServerDecides, law, manager, watchdog
<1>2. Live' = Live  BY <1>1 DEF Live, Members
<1>3. TypeOK'  BY <1>1, <1>2 DEF IInv, TypeOK
<1>4. Phases' /\ Counts' /\ Records'  BY <1>1, <1>2 DEF IInv, Phases, Counts, Records
<1>5. Blame'  BY <1>1 DEF IInv, TypeOK, Blame
<1> QED  BY <1>3, <1>4, <1>5 DEF IInv

LEMMA JobMovesStep == ASSUME IInv, NEW b \in Branches, JobMoves(b) PROVE IInv'
<1>1. /\ UNCHANGED <<phase, taskOf, accepted, asking, heard, raised, pollFails, unreadable,
                     unscheduled, ours, refusedProjects, failedSubmissions, stop, statsSeen,
                     perBranch, issued, server, recorded>>
      /\ job[b] \in {"pending", "running"}
      /\ \E s \in JobStates : job' = [job EXCEPT ![b] = s]
  BY DEF JobMoves, law, manager, watchdog, JobStates
<1>2. Live' = Live  BY <1>1 DEF Live, Members
<1>3. TypeOK'  BY <1>1, <1>2 DEF IInv, TypeOK
<1>4. Phases' /\ Counts' /\ Blame'  BY <1>1, <1>2 DEF IInv, Phases, Counts, Blame
<1>5. Records'  BY <1>1 DEF IInv, TypeOK, Records
<1> QED  BY <1>3, <1>4, <1>5 DEF IInv

LEMMA StutterStep == IInv /\ UNCHANGED vars => IInv'
<1> SUFFICES ASSUME IInv, UNCHANGED vars PROVE IInv'  OBVIOUS
<1>1. /\ UNCHANGED <<phase, taskOf, accepted, asking, heard, raised, pollFails>>
      /\ UNCHANGED <<unreadable, unscheduled, ours, refusedProjects, failedSubmissions, stop,
                     statsSeen, perBranch, issued, server, job, recorded>>
  BY DEF vars, law, manager, watchdog, world
<1>2. Live' = Live  BY <1>1 DEF Live, Members
<1> QED  BY <1>1, <1>2 DEF IInv, TypeOK, Phases, Counts, Blame, Records

LEMMA NextIInv == IInv /\ [Next]_vars => IInv'
<1> SUFFICES ASSUME IInv, [Next]_vars PROVE IInv'  OBVIOUS
<1>1. CASE Submit  BY <1>1, SubmitStep
<1>2. CASE GiveUp  BY <1>2, GiveUpStep
<1>3. CASE Ask
  <2>1. PICK t \in Tasks : Query(t) \/ Unreadable(t)  BY <1>3 DEF Ask
  <2> QED  BY <2>1, RefusedStep, NotScheduledYetStep, SubmitFailedStep, AnsweredStep,
              UnreadableStep DEF Query
<1>4. CASE Discard  BY <1>4, DiscardStep
<1>5. CASE Finish  BY <1>5, FinishStep
<1>6. CASE Stop  BY <1>6, StopStep
<1>7. CASE GoOn  BY <1>7, GoOnStep
<1>8. CASE Die  BY <1>8, DieStep
<1>9. CASE Start  BY <1>9, StartStep
<1>10. CASE World  BY <1>10, ServerDecidesStep, JobMovesStep DEF World
<1>11. CASE Rest \/ UNCHANGED vars  BY <1>11, StutterStep DEF Rest
<1> QED
  BY <1>1, <1>2, <1>3, <1>4, <1>5, <1>6, <1>7, <1>8, <1>9, <1>10, <1>11 DEF Next, Driver

-----------------------------------------------------------------------------
(***************************************************************************)
(* The theorems.                                                           *)
(***************************************************************************)

\* The inductive invariant, for all values of the constants.
THEOREM ManagerHolds == Spec => []IInv
<1>1. Init => IInv  BY InitIInv
<1>2. IInv /\ [Next]_vars => IInv'  BY NextIInv
<1> QED  BY <1>1, <1>2, PTL DEF Spec

\* The types of the manager's state, and how far its counters go beyond their
\* ceilings while law throws polls away.
THEOREM TypeCorrect == Spec => []TypeOK
<1>1. IInv => TypeOK  BY DEF IInv
<1> QED  BY <1>1, ManagerHolds, PTL

\* A run records an outcome of a job once and truly (harvest_site_stats,
\* _apply_watchdog), however often law throws polls away.
THEOREM SiteRecordsAreTrue == Spec => []SiteRecordIsTrue
<1>1. IInv => SiteRecordIsTrue
  <2> SUFFICES ASSUME IInv PROVE SiteRecordIsTrue  OBVIOUS
  <2>1. ASSUME NEW b \in Branches, NEW o \in Outcomes PROVE recorded[b][o] <= 1
    <3>1. recorded[b][o] \in {0, 1}  BY DEF IInv, Records
    <3> QED  BY <3>1
  <2> QED  BY <2>1 DEF IInv, Records, SiteRecordIsTrue
<1> QED  BY <1>1, ManagerHolds, PTL

\* A run is stopped (_refused, _submit_failed, _not_scheduled_yet) only for what
\* tasks of this run met, each counted once, or for a task that still waits.
THEOREM StopsAreEarned == Spec => StopIsEarned
<1> DEFINE Earned ==
             \/ Cardinality({t \in ours : server[t] = "refused"}) >= MaxRefused
             \/ Cardinality({t \in ours : server[t] = "failed"}) >= MaxFailedSubmissions
             \/ \E t \in Tasks : server[t] = "waiting" /\ unscheduled'[t] > MaxUnscheduled
<1>1. ASSUME IInv, [Next]_vars, ~stop, stop'  PROVE Earned
  <2> DEFINE refused == {t \in ours : server[t] = "refused"}
             failed == {t \in ours : server[t] = "failed"}
  <2>1. /\ IsFiniteSet(refused) /\ IsFiniteSet(failed)
        /\ refusedProjects \subseteq refused /\ failedSubmissions \subseteq failed
    <3>1. IsFiniteSet(Tasks)  BY BoundsAssumption, FS_Interval DEF Tasks
    <3>2. refused \subseteq Tasks /\ failed \subseteq Tasks  BY <1>1 DEF IInv, TypeOK
    <3>3. refusedProjects \subseteq refused /\ failedSubmissions \subseteq failed
      BY <1>1 DEF IInv, Blame
    <3> HIDE DEF refused, failed
    <3> QED  BY <3>1, <3>2, <3>3, FS_Subset
  \* Of all steps only an answer sets it.
  <2>2. \E t \in Tasks : Refused(t) \/ SubmitFailed(t) \/ NotScheduledYet(t)
    BY <1>1 DEF Next, Driver, Ask, Query, Submit, GiveUp, Answered, Unreadable, Discard, Finish,
                Stop, GoOn, Die, Start, World, ServerDecides, JobMoves, Rest, Forget, manager, vars
  <2>3. PICK t \in Tasks : Refused(t) \/ SubmitFailed(t) \/ NotScheduledYet(t)  BY <2>2
  <2>4. CASE Refused(t)
    <3>1. refusedProjects' \subseteq refused  BY <2>1, <2>4 DEF Refused, IsOurs
    <3>2. Cardinality(refusedProjects') >= MaxRefused  BY <1>1, <2>4 DEF Refused
    <3> HIDE DEF refused
    <3>3. /\ Cardinality(refusedProjects') \in Nat /\ Cardinality(refused) \in Nat
          /\ Cardinality(refusedProjects') <= Cardinality(refused)
      BY <2>1, <3>1, FS_Subset, FS_CardinalityType
    <3>4. Cardinality(refused) >= MaxRefused  BY <3>2, <3>3, CeilingsAssumption
    <3> QED  BY <3>4 DEF refused
  <2>5. CASE SubmitFailed(t)
    <3>1. failedSubmissions' \subseteq failed  BY <2>1, <2>5 DEF SubmitFailed, IsOurs
    <3>2. Cardinality(failedSubmissions') >= MaxFailedSubmissions
      BY <1>1, <2>5 DEF SubmitFailed
    <3> HIDE DEF failed
    <3>3. /\ Cardinality(failedSubmissions') \in Nat /\ Cardinality(failed) \in Nat
          /\ Cardinality(failedSubmissions') <= Cardinality(failed)
      BY <2>1, <3>1, FS_Subset, FS_CardinalityType
    <3>4. Cardinality(failed) >= MaxFailedSubmissions  BY <3>2, <3>3, CeilingsAssumption
    <3> QED  BY <3>4 DEF failed
  <2>6. CASE NotScheduledYet(t)
    BY <1>1, <2>6 DEF NotScheduledYet
  <2> QED  BY <2>3, <2>4, <2>5, <2>6
<1>2. IInv /\ [Next]_vars => [~stop /\ stop' => Earned]_vars  BY <1>1
<1> QED  BY <1>2, ManagerHolds, PTL DEF Spec, StopIsEarned
=============================================================================
