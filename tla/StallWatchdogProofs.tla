------------------------ MODULE StallWatchdogProofs ------------------------
(***************************************************************************)
(* Proofs about StallWatchdog, for any settings: only dead jobs are failed *)
(* and dead jobs are failed in time.  Steady and Prompt say what the       *)
(* settings must leave room for to spare the others; the code leaves that  *)
(* to whoever chooses them.                                                *)
(***************************************************************************)
EXTENDS StallWatchdog, TLAPS

\* What f failed writes in a row cost a beat at most.
Slack(f) == f * (WriteTime + Interval \div 4)

\* The flag of a job that lives, or has just left, is never as old as a stale one
\* by the next poll.
Steady == Interval + Slack(MaxFails) + WriteTime + Linger + Poll <= StaleTime

\* Nor does a first beat take that long.
Prompt == Startup + Slack(MaxFails) + WriteTime + Linger + Poll <= StaleTime

-----------------------------------------------------------------------------
(***************************************************************************)
(* The inductive invariant.                                                *)
(***************************************************************************)

\* How old the flag of a job that lives can be, and when a first beat is due.
Fresh == Resolution + Interval + Slack(MaxFails) + WriteTime + Linger
Late == Startup + Slack(MaxFails) + WriteTime + Linger

\* How much later than its last beat, or its start, called for a step is due.
Delay ==
  CASE worker = "waiting" -> Slack(fails)
    [] worker = "writing" -> Slack(fails) + WriteTime
    [] worker = "left" -> Slack(MaxFails) + WriteTime + Linger
    [] OTHER -> 0

\* The attempt has not been seen running before this.
Since == IF firstSeen = None THEN now ELSE firstSeen

\* m is of an attempt before, for whom looks at it from here on.
Old(m) == m + Poll <= (IF firstSeen = None THEN pollAt ELSE firstSeen)

\* m is of the last beat of this attempt, and the next one is on time.
Own(m) ==
  /\ worker \in {"waiting", "writing", "left"}
  /\ due <= m + Resolution + Interval + Delay

\* A verdict could hit it.
Exposed == worker # "dead" /\ crab # "ended"

\* What is known of the numbers.
Numbers ==
  /\ now \in Nat /\ pollAt \in Nat /\ now <= pollAt /\ pollAt <= now + Poll
  /\ due \in Int /\ fails \in Nat /\ fails <= MaxFails
  /\ flag \in Int /\ flag >= None /\ flag <= now
  /\ refreshedAt = None \/ refreshedAt \in Nat
  /\ firstRunning = None \/ firstRunning \in Nat
  /\ firstSeen = None \/ (firstSeen \in Nat /\ firstSeen <= now)
  /\ listed \in Int
  /\ worker \in {"none", "dead", "left"} \union Alive
  /\ crab \in {"idle", "running", "ended"}

\* The worker and CRAB.
Steps ==
  /\ worker \in Alive => now <= due
  /\ worker = "left" /\ crab # "ended" => now <= due
  /\ worker \in {"none", "starting", "dead", "left"} => fails = 0
  /\ worker \in {"none", "starting"} => ~beaten
  /\ worker = "none" => crab = "idle"
  /\ crab = "idle" => firstSeen = None

\* Polls and listings.
Clocks ==
  /\ firstSeen = None <=> firstRunning = None
  /\ firstSeen # None => firstSeen < firstRunning + Interval + Poll
  /\ refreshedAt # None => pollAt < refreshedAt + Interval + Poll
  /\ listed # Unread =>
       /\ listedAt \in Nat /\ listedAt = refreshedAt
       /\ listedAt <= now /\ listed <= listedAt /\ listedAt + Poll <= pollAt

\* Before the first beat the start is not long ago.
StartInTime ==
  worker \in Alive \union {"left"} /\ ~beaten => due <= Since + Startup + Delay

FlagInTime ==
  Exposed /\ flag # None => Own(flag) \/ (Old(flag) /\ ~beaten)

ListingInTime ==
  Exposed /\ listed \notin {None, Unread} =>
    \/ listedAt <= listed + Fresh
    \/ Old(listed) /\ listedAt <= Since + Late

WInv == Numbers /\ Steps /\ Clocks /\ StartInTime /\ FlagInTime /\ ListingInTime

-----------------------------------------------------------------------------
(***************************************************************************)
(* Arithmetic.                                                             *)
(***************************************************************************)

LEMMA Settings ==
  /\ Interval \in Nat /\ Interval >= 1
  /\ Poll \in Nat /\ Resolution \in Nat /\ Resolution < Poll
  /\ WriteTime \in Nat /\ Startup \in Nat /\ Linger \in Nat /\ MaxFails \in Nat
  /\ None \in Int /\ None < -Resolution /\ None < 0 /\ Unread \in Int /\ Unread < None
BY ConfigAssumption, BoundsAssumption DEF None, Unread

LEMMA Quarter == Interval \div 4 \in Nat /\ Interval \div 4 <= Interval
BY Settings

LEMMA StaleTimes ==
  StaleTime \in Nat /\ StaleTime >= 1 /\ Grace = StaleTime + Interval
<1>1. /\ Interval \in Nat /\ Interval >= 1 /\ Missed \in Nat /\ Missed >= 2
  BY ConfigAssumption
<1>2. Interval * Missed \in Nat /\ Interval * Missed >= 1  BY <1>1
<1> QED  BY <1>2 DEF StaleTime, Grace

LEMMA Slacks ==
  ASSUME NEW f \in Nat, f <= MaxFails
  PROVE  /\ Slack(f) \in Nat /\ Slack(MaxFails) \in Nat /\ Slack(0) = 0
         /\ Slack(f) <= Slack(MaxFails)
         /\ Slack(f + 1) = Slack(f) + WriteTime + Interval \div 4
<1> DEFINE C == WriteTime + Interval \div 4
<1>1. C \in Nat /\ MaxFails \in Nat  BY Settings, Quarter
<1>2. Slack(f) = f * C /\ Slack(MaxFails) = MaxFails * C /\ Slack(0) = 0 * C
      /\ Slack(f + 1) = (f + 1) * C
  BY DEF Slack
<1> HIDE DEF C
<1>3. (f + 1) * C = f * C + C /\ f * C \in Nat /\ MaxFails * C \in Nat /\ 0 * C = 0  BY <1>1
<1>4. PICK g \in Nat : MaxFails = f + g
  <2>1. MaxFails - f \in Nat /\ MaxFails = f + (MaxFails - f)  BY <1>1
  <2> QED  BY <2>1
<1>5. MaxFails * C = f * C + g * C /\ g * C \in Nat  BY <1>1, <1>4
<1>6. f * C <= MaxFails * C  BY <1>3, <1>5
<1>7. Slack(f + 1) = Slack(f) + C  BY <1>2, <1>3
<1>8. C = WriteTime + Interval \div 4  BY DEF C
<1>9. Slack(f + 1) = Slack(f) + WriteTime + Interval \div 4  BY <1>2, <1>3, <1>7, <1>8, Settings, Quarter
<1> QED  BY <1>2, <1>3, <1>6, <1>9

\* A listing shows a time rounded down.
LEMMA Rounded ==
  ASSUME NEW n \in Nat, NEW f \in n-Resolution..n
  PROVE  f \in Int /\ f <= n /\ f >= None /\ n <= f + Resolution
BY Settings

\* A retry comes within a quarter of the interval.
LEMMA Backoffs ==
  ASSUME NEW n \in Nat
  PROVE  Backoff(n) \in Nat /\ Backoff(n) <= Interval \div 4
BY Quarter DEF Backoff

\* The age of a listed flag.
LEMMA AgeIs ==
  ASSUME NEW since \in Int, listedAt \in Int, listed \in Int
  PROVE  /\ Age(since) # None <=> listed # None /\ listed >= since - Resolution
         /\ Age(since) # None =>
              Age(since) = IF listedAt - listed < 0 THEN 0 ELSE listedAt - listed
<1>1. \A x \in Int : Max({0, x}) = IF x < 0 THEN 0 ELSE x  BY DEF Max
<1> QED  BY <1>1, Settings DEF Age, VerdictClock

-----------------------------------------------------------------------------
(***************************************************************************)
(* Every step preserves it.                                                *)
(***************************************************************************)

LEMMA InitWInv == Init => WInv
<1> SUFFICES ASSUME Init PROVE WInv  OBVIOUS
<1> USE Settings
<1>1. Numbers
  <2>1. None \in Int /\ None <= 0 /\ Unread \in Int /\ Poll \in Nat /\ MaxFails \in Nat  OBVIOUS
  <2> QED  BY <2>1 DEF Init, Numbers, Alive
<1>2. Steps  BY DEF Init, Steps, Alive
<1>3. Clocks  BY DEF Init, Clocks
<1>4. StartInTime /\ FlagInTime /\ ListingInTime
  BY DEF Init, StartInTime, FlagInTime, ListingInTime, Alive
<1> QED  BY <1>1, <1>2, <1>3, <1>4 DEF WInv

\* What the worker does leaves the driver's state alone.
LEMMA WorkerFrame ==
  ASSUME WInv, UNCHANGED <<now, watch>>
  PROVE  Clocks' /\ Since' = Since
         /\ UNCHANGED <<now, pollAt, querying, known, listed, listedAt, refreshedAt,
                        firstRunning, firstSeen, seenFlag, verdicts, outages>>
<1>1. UNCHANGED <<now, pollAt, querying, known, listed, listedAt, refreshedAt,
                  firstRunning, firstSeen, seenFlag, verdicts, outages>>
  BY DEF watch
<1> QED  BY <1>1 DEF WInv, Clocks, Since

\* And a job that a verdict can hit was one before, until law submits it again.
LEMMA ListingFrame ==
  ASSUME WInv, UNCHANGED <<now, watch>>, Exposed' => Exposed
  PROVE  ListingInTime'
BY WorkerFrame DEF WInv, ListingInTime, watch, Old, Since

LEMMA WorkerStartsStep == WInv /\ WorkerStarts => WInv'
<1> SUFFICES ASSUME WInv, WorkerStarts PROVE WInv'  OBVIOUS
<1> USE Settings
<1>1. /\ worker = "none" /\ worker' = "starting" /\ due' = now + Startup
      /\ UNCHANGED <<now, attempt, crab, fails, flag, watch, beaten, silentSince>>
  BY DEF WorkerStarts
<1>2. Clocks' /\ Since' = Since
      /\ UNCHANGED <<now, pollAt, querying, listed, refreshedAt, firstRunning, firstSeen,
                     seenFlag>>
  BY <1>1, WorkerFrame
<1>3. ListingInTime'
  <2>1. UNCHANGED <<now, watch>>  BY <1>1
  <2>2. Exposed' => Exposed  BY <1>1 DEF Exposed
  <2> QED  BY <2>1, <2>2, ListingFrame
<1>4. Numbers'  BY <1>1, <1>2 DEF WInv, Numbers, Alive
<1>5. Steps'  BY <1>1, <1>2 DEF WInv, Numbers, Steps, Alive
<1>6. StartInTime'
  <2>1. firstSeen = None  BY <1>1 DEF WInv, Steps
  <2>2. Since' = now /\ Delay' = 0  BY <1>1, <1>2, <2>1 DEF Since, Delay
  <2> QED  BY <1>1, <2>2 DEF WInv, Numbers, StartInTime
<1>7. FlagInTime'
  BY <1>1, <1>2 DEF WInv, FlagInTime, Exposed, Own, Old
<1> QED  BY <1>2, <1>3, <1>4, <1>5, <1>6, <1>7 DEF WInv

LEMMA CrabRunsStep == WInv /\ CrabRuns => WInv'
<1> SUFFICES ASSUME WInv, CrabRuns PROVE WInv'  OBVIOUS
<1>1. /\ crab = "idle" /\ crab' = "running" /\ worker # "none"
      /\ UNCHANGED <<now, worker, due, fails, flag, watch, beaten>>
  BY DEF CrabRuns
<1>2. Clocks' /\ Since' = Since
      /\ UNCHANGED <<now, pollAt, querying, listed, refreshedAt, firstRunning, firstSeen,
                     seenFlag>>
  BY <1>1, WorkerFrame
<1>3. ListingInTime'
  <2>1. UNCHANGED <<now, watch>>  BY <1>1
  <2>2. Exposed' => Exposed  BY <1>1 DEF Exposed
  <2> QED  BY <2>1, <2>2, ListingFrame
<1>4. Numbers' /\ Steps'  BY <1>1, <1>2 DEF WInv, Numbers, Steps, Alive
<1>5. Delay' = Delay  BY <1>1 DEF Delay
<1>6. StartInTime' /\ FlagInTime'
  BY <1>1, <1>2, <1>5 DEF WInv, StartInTime, FlagInTime, Exposed, Own, Old, Alive
<1> QED  BY <1>2, <1>3, <1>4, <1>6 DEF WInv

LEMMA StartBeatStep == WInv /\ StartBeat => WInv'
<1> SUFFICES ASSUME WInv, StartBeat PROVE WInv'  OBVIOUS
<1> USE Settings
<1>1. /\ worker = "starting" \/ (worker = "waiting" /\ now = due)
      /\ worker' = "writing" /\ due' = now + WriteTime
      /\ flag' \in {flag, None}
      /\ UNCHANGED <<now, crab, fails, watch, beaten>>
  BY DEF StartBeat
<1>2. Clocks' /\ Since' = Since
      /\ UNCHANGED <<now, pollAt, querying, listed, refreshedAt, firstRunning, firstSeen,
                     seenFlag>>
  BY <1>1, WorkerFrame
<1>3. ListingInTime'
  <2>1. UNCHANGED <<now, watch>>  BY <1>1
  <2>2. Exposed' => Exposed  BY <1>1 DEF Exposed
  <2> QED  BY <2>1, <2>2, ListingFrame
<1>4. now <= due /\ now \in Nat /\ due \in Int /\ fails \in Nat /\ fails <= MaxFails
      /\ flag \in Int /\ flag <= now /\ flag >= None
      /\ (worker = "starting" => fails = 0)
  BY <1>1 DEF WInv, Numbers, Steps, Alive
<1>5. Slack(fails) \in Nat /\ (worker = "starting" => Slack(fails) = 0)
  BY <1>4, Slacks
<1>6. Numbers'
  <2>1. flag' \in Int /\ flag' <= now /\ flag' >= None  BY <1>1, <1>4
  <2>2. due' \in Int  BY <1>1, <1>4
  <2> QED  BY <1>1, <1>2, <2>1, <2>2 DEF WInv, Numbers, Alive
<1>7. Steps'  BY <1>1, <1>2, <1>4 DEF WInv, Steps, Alive
<1>8. Delay = Slack(fails) /\ Delay' = Slack(fails) + WriteTime
  BY <1>1, <1>5 DEF Delay
<1>9. Since \in Nat  BY DEF WInv, Numbers, Since
<1>10. StartInTime'
  BY <1>1, <1>2, <1>4, <1>5, <1>8, <1>9 DEF WInv, StartInTime, Alive
<1>11. FlagInTime'
  BY <1>1, <1>2, <1>4, <1>5, <1>8 DEF WInv, FlagInTime, Exposed, Own, Old
<1> QED  BY <1>2, <1>3, <1>6, <1>7, <1>10, <1>11 DEF WInv

LEMMA EndBeatStep == WInv /\ EndBeat => WInv'
<1> SUFFICES ASSUME WInv, EndBeat PROVE WInv'  OBVIOUS
<1> USE Settings
<1>1. /\ worker = "writing" /\ worker' = "waiting" /\ due' = now + Interval /\ fails' = 0
      /\ flag' \in now-Resolution..now
      /\ beaten' = TRUE
      /\ UNCHANGED <<now, crab, watch>>
  BY DEF EndBeat
<1>2. Clocks' /\ Since' = Since
      /\ UNCHANGED <<now, pollAt, querying, listed, refreshedAt, firstRunning, firstSeen,
                     seenFlag>>
  BY <1>1, WorkerFrame
<1>3. ListingInTime'
  <2>1. UNCHANGED <<now, watch>>  BY <1>1
  <2>2. Exposed' => Exposed  BY <1>1 DEF Exposed
  <2> QED  BY <2>1, <2>2, ListingFrame
<1>4. now \in Nat  BY DEF WInv, Numbers
<1>5. Numbers'  BY <1>1, <1>2, <1>4 DEF WInv, Numbers, Alive
<1>6. Steps'  BY <1>1, <1>2, <1>4 DEF WInv, Steps, Alive
<1>7. StartInTime'  BY <1>1 DEF StartInTime
<1>8. Delay' = 0
  BY <1>1, Slacks DEF Delay
<1>9. FlagInTime'
  <2>1. flag' \in Int /\ now <= flag' + Resolution  BY <1>1, <1>4, Rounded
  <2>2. \A f \in Int : now <= f + Resolution => now + Interval <= f + Resolution + Interval + 0
    BY <1>4
  <2>3. now + Interval <= flag' + Resolution + Interval + 0  BY <2>1, <2>2
  <2>4. due' <= flag' + Resolution + Interval + Delay'  BY <1>1, <1>8, <2>3
  <2> QED  BY <1>1, <2>4 DEF FlagInTime, Own
<1> QED  BY <1>2, <1>3, <1>5, <1>6, <1>7, <1>9 DEF WInv

LEMMA BeatFailsStep == WInv /\ BeatFails => WInv'
<1> SUFFICES ASSUME WInv, BeatFails PROVE WInv'  OBVIOUS
<1> USE Settings, Quarter
<1>1. /\ worker = "writing" /\ fails < MaxFails /\ fails' = fails + 1
      /\ worker' = "waiting" /\ due' = now + Backoff(fails')
      /\ UNCHANGED <<now, crab, flag, watch, beaten>>
  BY DEF BeatFails
<1>2. Clocks' /\ Since' = Since
      /\ UNCHANGED <<now, pollAt, querying, listed, refreshedAt, firstRunning, firstSeen,
                     seenFlag>>
  BY <1>1, WorkerFrame
<1>3. ListingInTime'
  <2>1. UNCHANGED <<now, watch>>  BY <1>1
  <2>2. Exposed' => Exposed  BY <1>1 DEF Exposed
  <2> QED  BY <2>1, <2>2, ListingFrame
<1>4. now <= due /\ now \in Nat /\ due \in Int /\ fails \in Nat /\ fails <= MaxFails
      /\ flag \in Int
  BY <1>1 DEF WInv, Numbers, Steps, Alive
<1>5. Backoff(fails') \in Nat /\ Backoff(fails') <= Interval \div 4  BY <1>1, <1>4, Backoffs
<1>6. Slack(fails) \in Nat /\ Slack(fails') = Slack(fails) + WriteTime + Interval \div 4
  BY <1>1, <1>4, Slacks
<1>7. Numbers'  BY <1>1, <1>2, <1>4, <1>5 DEF WInv, Numbers, Alive
<1>8. Steps'  BY <1>1, <1>2, <1>4, <1>5 DEF WInv, Steps, Alive
<1>9. Delay = Slack(fails) + WriteTime /\ Delay' = Slack(fails')
  BY <1>1 DEF Delay
<1>10. Since \in Nat  BY DEF WInv, Numbers, Since
<1>11. due' <= due + Interval \div 4 /\ Delay' = Delay + Interval \div 4 /\ Delay \in Nat
  BY <1>1, <1>4, <1>5, <1>6, <1>9
<1>12. StartInTime'
  BY <1>1, <1>2, <1>4, <1>10, <1>11 DEF WInv, StartInTime, Alive, Numbers
<1>13. FlagInTime'
  BY <1>1, <1>2, <1>4, <1>5, <1>11 DEF WInv, FlagInTime, Exposed, Own, Old
<1> QED  BY <1>2, <1>3, <1>7, <1>8, <1>12, <1>13 DEF WInv

LEMMA LeaveStep == WInv /\ Leave => WInv'
<1> SUFFICES ASSUME WInv, Leave PROVE WInv'  OBVIOUS
<1> USE Settings
<1>1. /\ worker \in Alive /\ worker' = "left" /\ due' = now + Linger /\ fails' = 0
      /\ flag' \in {None, flag} \/ (worker = "writing" /\ flag' \in now-Resolution..now)
      /\ UNCHANGED <<now, crab, watch, beaten>>
  BY DEF Leave
<1>2. Clocks' /\ Since' = Since
      /\ UNCHANGED <<now, pollAt, querying, listed, refreshedAt, firstRunning, firstSeen,
                     seenFlag>>
  BY <1>1, WorkerFrame
<1>3. ListingInTime'
  <2>1. UNCHANGED <<now, watch>>  BY <1>1
  <2>2. Exposed' => Exposed  BY <1>1 DEF Exposed, Alive
  <2> QED  BY <2>1, <2>2, ListingFrame
<1>4. now <= due /\ now \in Nat /\ due \in Int /\ fails \in Nat /\ fails <= MaxFails
      /\ flag \in Int /\ flag <= now /\ flag >= None
  BY <1>1 DEF WInv, Numbers, Steps, Alive
<1>5. /\ Slack(fails) \in Nat /\ Slack(MaxFails) \in Nat
      /\ Slack(fails) <= Slack(MaxFails)
  BY <1>4, Slacks
<1>6. Numbers'  
  <2>1. flag' \in Int /\ flag' <= now /\ flag' >= None  BY <1>1, <1>4
  <2>2. due' \in Int  BY <1>1, <1>4
  <2> QED  BY <1>1, <1>2, <2>1, <2>2 DEF WInv, Numbers, Alive
<1>7. Steps'  BY <1>1, <1>2, <1>4 DEF WInv, Steps, Alive
<1>8. Delay \in Nat /\ Delay + Linger <= Delay' /\ Delay' \in Nat
  BY <1>1, <1>5 DEF Delay, Alive
<1>9. Since \in Nat  BY DEF WInv, Numbers, Since
<1>10. \A x \in Int : due <= x + Delay => due' <= x + Delay'
  <2>1. \A x, d, e \in Int : due <= x + d /\ d + Linger <= e => now + Linger <= x + e  BY <1>4
  <2> QED  BY <1>1, <1>8, <2>1
<1>11. StartInTime'
  <2>1. ~beaten => due <= Since + Startup + Delay  BY <1>1 DEF WInv, StartInTime
  <2>2. ~beaten => due' <= Since + Startup + Delay'  BY <1>9, <1>10, <2>1
  <2> QED  BY <1>1, <1>2, <2>2 DEF StartInTime
<1>12. FlagInTime'
  <2>1. CASE flag' \in {None, flag}
    <3>1. SUFFICES ASSUME Exposed', flag' # None
                   PROVE  Own(flag)' \/ (Old(flag)' /\ ~beaten')
      BY DEF FlagInTime
    <3>2. flag' = flag /\ Exposed /\ flag # None  BY <1>1, <2>1, <3>1 DEF Exposed, Alive
    <3>3. CASE Own(flag)
      <4>1. due' <= flag + Resolution + Interval + Delay'
        BY <1>4, <1>9, <1>10, <3>3 DEF Own
      <4> QED  BY <1>1, <3>2, <4>1 DEF Own
    <3>4. CASE Old(flag) /\ ~beaten
      BY <1>1, <1>2, <3>2, <3>4 DEF Old
    <3> QED  BY <3>2, <3>3, <3>4 DEF WInv, FlagInTime
  <2>2. CASE flag' \in now-Resolution..now
    <3>1. flag' \in Int /\ now <= flag' + Resolution  BY <1>4, <2>2, Rounded
    <3>2. Linger <= Delay'  BY <1>8
    <3>3. \A f, d \in Int : now <= f + Resolution /\ Linger <= d
                              => now + Linger <= f + Resolution + Interval + d
      BY <1>4
    <3>4. Delay' \in Int  BY <1>8
    <3>5. now + Linger <= flag' + Resolution + Interval + Delay'  BY <3>1, <3>2, <3>3, <3>4
    <3>6. due' <= flag' + Resolution + Interval + Delay'  BY <1>1, <3>5
    <3> QED  BY <1>1, <3>6 DEF FlagInTime, Own
  <2> QED  BY <1>1, <2>1, <2>2
<1> QED  BY <1>2, <1>3, <1>6, <1>7, <1>11, <1>12 DEF WInv

LEMMA DieStep == WInv /\ Die => WInv'
<1> SUFFICES ASSUME WInv, Die PROVE WInv'  OBVIOUS
<1> USE Settings
<1>1. /\ worker \in Alive /\ worker' = "dead" /\ fails' = 0 /\ due' = 0
      /\ UNCHANGED <<now, crab, flag, watch, beaten>>
  BY DEF Die
<1>2. Clocks' /\ Since' = Since
      /\ UNCHANGED <<now, pollAt, querying, listed, refreshedAt, firstRunning, firstSeen,
                     seenFlag>>
  BY <1>1, WorkerFrame
<1>3. Numbers' /\ Steps'  BY <1>1, <1>2 DEF WInv, Numbers, Steps, Alive
<1>4. StartInTime' /\ FlagInTime' /\ ListingInTime'
  BY <1>1 DEF StartInTime, FlagInTime, ListingInTime, Exposed, Alive
<1> QED  BY <1>2, <1>3, <1>4 DEF WInv

LEMMA CrabEndsStep == WInv /\ CrabEnds => WInv'
<1> SUFFICES ASSUME WInv, CrabEnds PROVE WInv'  OBVIOUS
<1>1. /\ worker \in {"dead", "left"} /\ crab' = "ended"
      /\ UNCHANGED <<now, worker, due, fails, flag, watch, beaten>>
  BY DEF CrabEnds
<1>2. Clocks' /\ Since' = Since
      /\ UNCHANGED <<now, pollAt, querying, listed, refreshedAt, firstRunning, firstSeen,
                     seenFlag>>
  BY <1>1, WorkerFrame
<1>3. Numbers' /\ Steps'  BY <1>1, <1>2 DEF WInv, Numbers, Steps, Alive
<1>4. Delay' = Delay  BY <1>1 DEF Delay
<1>5. StartInTime' /\ FlagInTime' /\ ListingInTime'
  BY <1>1, <1>2, <1>4 DEF WInv, StartInTime, FlagInTime, ListingInTime, Exposed
<1> QED  BY <1>2, <1>3, <1>5 DEF WInv

\* Whatever lies there when a job is submitted again is of an attempt before.
LEMMA ResubmitStep == WInv /\ Resubmit => WInv'
<1> SUFFICES ASSUME WInv, Resubmit PROVE WInv'  OBVIOUS
<1> USE Settings
<1>1. /\ pollAt = now + Poll /\ worker = "dead"
      /\ crab' = "idle" /\ worker' = "none" /\ due' = 0
      /\ firstRunning' = None /\ firstSeen' = None /\ seenFlag' = FALSE
      /\ beaten' = FALSE
      /\ UNCHANGED <<now, fails, flag, pollAt, querying, listed, listedAt, refreshedAt>>
  BY DEF Resubmit, NextPoll
<1>2. now \in Nat /\ flag \in Int /\ flag <= now /\ fails = 0 /\ listed \in Int
  BY <1>1 DEF WInv, Numbers, Steps
<1>3. Numbers'  BY <1>1 DEF WInv, Numbers, Alive
<1>4. Steps' /\ Clocks' /\ StartInTime'
  BY <1>1, <1>2 DEF WInv, Steps, Clocks, StartInTime, Alive
<1>5. FlagInTime'  BY <1>1, <1>2 DEF FlagInTime, Old
<1>6. ListingInTime'
  <2>1. SUFFICES ASSUME listed \notin {None, Unread}
                 PROVE  Old(listed)' /\ listedAt' <= (Since + Late)'
    BY <1>1 DEF ListingInTime
  <2>2. listedAt \in Nat /\ listedAt <= now /\ listed <= listedAt
    BY <2>1 DEF WInv, Clocks
  <2>3. Late \in Nat  BY Slacks DEF Late
  <2>4. Since' = now /\ Late' = Late  BY <1>1 DEF Since, Late, Slack
  <2> QED  BY <1>1, <1>2, <2>2, <2>3, <2>4 DEF Old
<1> QED  BY <1>3, <1>4, <1>5, <1>6 DEF WInv

LEMMA QueryStep == WInv /\ Query => WInv'
<1> SUFFICES ASSUME WInv, Query PROVE WInv'  OBVIOUS
<1>1. /\ querying' = TRUE
      /\ UNCHANGED <<now, job, pollAt, known, listed, listedAt, refreshedAt, firstRunning,
                     firstSeen, seenFlag, verdicts, outages, beaten, silentSince>>
  BY DEF Query
<1>2. UNCHANGED <<crab, worker, due, fails, flag>>  BY <1>1 DEF job
<1>3. Delay' = Delay /\ Since' = Since  BY <1>1, <1>2 DEF Delay, Since
<1>4. Numbers' /\ Steps' /\ Clocks'  BY <1>1, <1>2 DEF WInv, Numbers, Steps, Clocks
<1>5. StartInTime' /\ FlagInTime' /\ ListingInTime'
  BY <1>1, <1>2, <1>3 DEF WInv, StartInTime, FlagInTime, ListingInTime, Exposed, Own, Old
<1> QED  BY <1>4, <1>5 DEF WInv

LEMMA JudgeStep == WInv /\ Judge => WInv'
<1> SUFFICES ASSUME WInv, Judge PROVE WInv'  OBVIOUS
<1> USE Settings
<1> DEFINE running == IF firstRunning = None THEN VerdictClock ELSE firstRunning
           seen == IF firstSeen = None THEN now ELSE firstSeen
           age == Age(seen)
           fail == Stale(age, running, seenFlag) /\ Rescuable
<1>1. /\ now = pollAt /\ crab = "running" /\ listed # Unread
      /\ querying' = TRUE
      /\ UNCHANGED <<now, flag, pollAt, listed, listedAt, refreshedAt, beaten>>
  BY DEF Judge, QueryDue, Judged
<1>2. /\ listedAt \in Nat /\ listedAt = refreshedAt /\ pollAt < refreshedAt + Interval + Poll
      /\ now \in Nat
  BY <1>1 DEF WInv, Clocks, Numbers
<1>3. CASE fail
  <2>1. /\ firstRunning' = None /\ firstSeen' = None /\ seenFlag' = FALSE
        /\ crab' = "ended" /\ worker' = "dead" /\ due' = 0 /\ fails' = 0
    BY <1>3 DEF Judge
  <2>2. Numbers' /\ Steps' /\ Clocks'
    BY <1>1, <2>1 DEF WInv, Numbers, Steps, Clocks, Alive
  <2>3. StartInTime' /\ FlagInTime' /\ ListingInTime'
    BY <2>1 DEF StartInTime, FlagInTime, ListingInTime, Exposed, Alive
  <2> QED  BY <2>2, <2>3 DEF WInv
<1>4. CASE ~fail
  <2>1. /\ firstRunning' = running /\ firstSeen' = seen
        /\ seenFlag' = (seenFlag \/ age # None)
        /\ UNCHANGED <<crab, worker, due, fails>>
    BY <1>4 DEF Judge
  <2> HIDE DEF age, fail
  <2>2. running \in Nat /\ seen \in Nat /\ seen <= now /\ seen < running + Interval + Poll
    BY <1>1, <1>2 DEF WInv, Numbers, Clocks, VerdictClock
  <2>3. Since' = Since /\ seen = Since  BY <1>1, <2>1, <2>2 DEF Since
  <2>4. Delay' = Delay  BY <2>1 DEF Delay
  <2>5. seen # None /\ running # None  BY <2>2
  <2>6. Numbers'  BY <1>1, <2>1, <2>2 DEF WInv, Numbers
  <2>7. Steps'  BY <1>1, <2>1 DEF WInv, Steps
  <2>8. Clocks'  BY <1>1, <2>1, <2>2, <2>5 DEF WInv, Clocks
  <2>9. ASSUME NEW m \in Int, Old(m)  PROVE Old(m)'
    BY <1>1, <2>1, <2>5, <2>9 DEF Old
  <2>10. flag \in Int /\ listed \in Int  BY DEF WInv, Numbers
  <2>11. StartInTime'  BY <1>1, <2>1, <2>3, <2>4 DEF WInv, StartInTime
  <2>12. Exposed' = Exposed  BY <2>1 DEF Exposed
  <2>13. FlagInTime'
    BY <1>1, <2>1, <2>4, <2>5, <2>10, <2>12 DEF WInv, FlagInTime, Own, Old
  <2>14. ListingInTime'
    BY <1>1, <2>1, <2>3, <2>5, <2>10, <2>12 DEF WInv, ListingInTime, Old
  <2> QED  BY <2>6, <2>7, <2>8, <2>11, <2>13, <2>14 DEF WInv
<1> QED  BY <1>3, <1>4

\* What a callback does leaves the job's state alone, and its next poll comes later.
LEMMA CallingFrame ==
  ASSUME WInv, Calling
  PROVE  /\ Steps' /\ StartInTime' /\ FlagInTime'
         /\ pollAt' = now + Poll /\ pollAt <= pollAt' /\ Since' = Since /\ Delay' = Delay
         /\ UNCHANGED <<now, crab, worker, due, fails, flag, beaten, firstRunning, firstSeen>>
         /\ \A m \in Int : Old(m) => Old(m)'
<1>1. /\ pollAt' = now + Poll
      /\ UNCHANGED <<now, crab, worker, due, fails, flag, beaten, firstRunning, firstSeen>>
  BY DEF Calling, NextPoll, job
<1>2. /\ now \in Nat /\ pollAt \in Nat /\ pollAt <= pollAt' /\ flag \in Int /\ Poll \in Nat
      /\ pollAt' \in Nat
  BY <1>1, Settings DEF WInv, Numbers
<1>3. Since' = Since /\ Delay' = Delay  BY <1>1 DEF Since, Delay
<1>4. ASSUME NEW m \in Int, Old(m)  PROVE Old(m)'
  <2>1. CASE firstSeen = None
    <3>1. \A p, q \in Nat : m + Poll <= p /\ p <= q => m + Poll <= q  BY <1>2
    <3>2. m + Poll <= pollAt  BY <1>4, <2>1 DEF Old
    <3>3. m + Poll <= pollAt'  BY <1>2, <3>1, <3>2
    <3>4. Poll' = Poll /\ None' = None  BY DEF None
    <3> QED  BY <1>1, <2>1, <3>3, <3>4 DEF Old
  <2>2. CASE firstSeen # None  BY <1>1, <1>4, <2>2 DEF Old
  <2> QED  BY <2>1, <2>2
<1>5. Steps' /\ StartInTime'  BY <1>1, <1>3 DEF WInv, Steps, StartInTime
<1>6. FlagInTime'
  <2>1. Own(flag)' = Own(flag) /\ Exposed' = Exposed  BY <1>1, <1>3 DEF Own, Exposed
  <2>2. Old(flag) => Old(flag)'
    <3>1. PICK m \in Int : m = flag  BY <1>2
    <3>2. Old(m) => Old(m)'  BY <1>4
    <3> QED  BY <1>1, <3>1, <3>2 DEF Old
  <2> QED  BY <1>1, <2>1, <2>2 DEF WInv, FlagInTime
<1> QED  BY <1>1, <1>2, <1>3, <1>4, <1>5, <1>6

LEMMA CallBackStep == WInv /\ CallBack => WInv'
<1> SUFFICES ASSUME WInv, CallBack PROVE WInv'  OBVIOUS
<1>1. Calling /\ ~RefreshDue /\ UNCHANGED <<listed, listedAt, refreshedAt>>  BY DEF CallBack
<1>2. /\ Steps' /\ StartInTime' /\ FlagInTime'
      /\ pollAt' = now + Poll /\ pollAt <= pollAt' /\ Since' = Since
      /\ UNCHANGED <<now, crab, worker, due, fails, flag, beaten, firstRunning, firstSeen>>
      /\ \A m \in Int : Old(m) => Old(m)'
  BY <1>1, CallingFrame
<1>3. /\ now \in Nat /\ refreshedAt \in Nat /\ refreshedAt # None /\ now - refreshedAt < Interval
      /\ listed \in Int /\ pollAt \in Nat
  BY <1>1, Settings DEF RefreshDue, WInv, Numbers
<1>4. Numbers'  BY <1>1, <1>2, <1>3, Settings DEF WInv, Numbers
<1>5. pollAt' < refreshedAt + Interval + Poll /\ pollAt' \in Nat
  BY <1>2, <1>3, Settings
<1>6. Clocks'
  BY <1>1, <1>2, <1>3, <1>5, Settings DEF WInv, Clocks
<1>7. ListingInTime'
  <2>1. Exposed' = Exposed /\ Fresh' = Fresh /\ Late' = Late
    BY <1>2 DEF Exposed, Fresh, Late, Slack
  <2>2. Old(listed) => Old(listed)'  BY <1>1, <1>2, <1>3, Settings DEF Old
  <2> QED  BY <1>1, <1>2, <2>1, <2>2 DEF WInv, ListingInTime
<1> QED  BY <1>2, <1>4, <1>6, <1>7 DEF WInv

LEMMA RefreshFailsStep == WInv /\ RefreshFails => WInv'
<1> SUFFICES ASSUME WInv, RefreshFails PROVE WInv'  OBVIOUS
<1> USE Settings
<1>1. Calling /\ listed' = Unread /\ refreshedAt' = now  BY DEF RefreshFails
<1>2. /\ Steps' /\ StartInTime' /\ FlagInTime'
      /\ pollAt' = now + Poll
      /\ UNCHANGED <<now, crab, worker, due, fails, flag, beaten, firstRunning, firstSeen>>
  BY <1>1, CallingFrame
<1>3. now \in Nat  BY DEF WInv, Numbers
<1>4. Numbers'  BY <1>1, <1>2, <1>3 DEF WInv, Numbers
<1>5. Clocks'  BY <1>1, <1>2, <1>3 DEF WInv, Clocks
<1>6. ListingInTime'  BY <1>1 DEF ListingInTime
<1> QED  BY <1>2, <1>4, <1>5, <1>6 DEF WInv

\* What a listing shows of a job that lives is on time, or of an attempt before.
LEMMA RefreshStep == WInv /\ Refresh => WInv'
<1> SUFFICES ASSUME WInv, Refresh PROVE WInv'  OBVIOUS
<1> USE Settings
<1>1. Calling /\ listed' = flag /\ listedAt' = now /\ refreshedAt' = now  BY DEF Refresh
<1>2. /\ Steps' /\ StartInTime' /\ FlagInTime'
      /\ pollAt' = now + Poll /\ Since' = Since
      /\ UNCHANGED <<now, crab, worker, due, fails, flag, beaten, firstRunning, firstSeen>>
      /\ \A m \in Int : Old(m) => Old(m)'
  BY <1>1, CallingFrame
<1>3. /\ now \in Nat /\ flag \in Int /\ flag <= now /\ due \in Int
      /\ fails \in Nat /\ fails <= MaxFails
      /\ Since \in Nat
  BY DEF WInv, Numbers, Since
<1>4. Numbers'  BY <1>1, <1>2, <1>3 DEF WInv, Numbers
<1>5. Clocks'  BY <1>1, <1>2, <1>3 DEF WInv, Clocks
<1>6. /\ Slack(fails) \in Nat /\ Slack(MaxFails) \in Nat /\ Slack(fails) <= Slack(MaxFails)
  BY <1>3, Slacks
<1>7. /\ Delay \in Nat /\ Delay <= Slack(MaxFails) + WriteTime + Linger
      /\ Fresh \in Nat /\ Late \in Nat
      /\ Delay + Resolution + Interval <= Fresh /\ Delay + Startup <= Late
  BY <1>6 DEF Delay, Fresh, Late
<1>8. ListingInTime'
  <2>1. SUFFICES ASSUME Exposed, flag # None
                 PROVE  now <= flag + Fresh \/ (Old(flag) /\ now <= Since + Late)
    <3>1. Exposed' = Exposed /\ Fresh' = Fresh /\ Late' = Late
      BY <1>2 DEF Exposed, Fresh, Late, Slack
    <3>2. Old(flag) => Old(listed)'  BY <1>1, <1>2, <1>3 DEF Old, WInv, Numbers
    <3> QED  BY <1>1, <1>2, <2>1, <3>1, <3>2 DEF ListingInTime
  <2>2. CASE Own(flag)
    <3>1. now <= due  BY <2>1, <2>2 DEF WInv, Steps, Exposed, Own, Alive
    <3>2. due <= flag + Resolution + Interval + Delay  BY <2>2 DEF Own
    <3> QED  BY <1>3, <1>7, <3>1, <3>2
  <2>3. CASE Old(flag) /\ ~beaten
    <3>1. CASE worker = "none"
      <4>1. Since = now  BY <3>1 DEF WInv, Steps, Since
      <4> QED  BY <1>3, <1>7, <2>3, <4>1
    <3>2. CASE worker # "none"
      <4>1. worker \in Alive \union {"left"}  BY <2>1, <3>2 DEF WInv, Numbers, Exposed
      <4>2. now <= due  BY <2>1, <4>1 DEF WInv, Steps, Exposed
      <4>3. due <= Since + Startup + Delay  BY <2>3, <4>1 DEF WInv, StartInTime
      <4> QED  BY <1>3, <1>7, <2>3, <4>2, <4>3
    <3> QED  BY <3>1, <3>2
  <2> QED  BY <2>1, <2>2, <2>3 DEF WInv, FlagInTime
<1> QED  BY <1>2, <1>4, <1>5, <1>8 DEF WInv

LEMMA TickStep == WInv /\ Tick => WInv'
<1> SUFFICES ASSUME WInv, Tick PROVE WInv'  OBVIOUS
<1> USE Settings
<1>1. /\ now < pollAt /\ now' = now + 1
      /\ worker \in Alive => now < due
      /\ worker = "left" /\ crab # "ended" => now < due
      /\ UNCHANGED <<crab, worker, due, fails, flag, pollAt, listed, listedAt, refreshedAt,
                     firstRunning, firstSeen, beaten>>
  BY DEF Tick, job, watch
<1>2. now \in Nat /\ pollAt \in Nat /\ due \in Int /\ flag \in Int /\ listed \in Int
  BY DEF WInv, Numbers
<1>3. Numbers'  BY <1>1, <1>2 DEF WInv, Numbers
<1>4. Steps'  BY <1>1, <1>2 DEF WInv, Steps
<1>5. Clocks'  BY <1>1, <1>2 DEF WInv, Clocks
<1>6. Delay' = Delay /\ Since \in Nat /\ Since' \in Nat /\ Since <= Since'
  BY <1>1, <1>2 DEF WInv, Numbers, Delay, Since
<1>7. fails \in Nat /\ fails <= MaxFails  BY DEF WInv, Numbers
<1>8. Slack(fails) \in Nat /\ Slack(MaxFails) \in Nat  BY <1>7, Slacks
<1>9. Delay \in Nat /\ Late \in Nat  BY <1>8 DEF Delay, Late
<1>10. StartInTime'
  <2>1. \A x, y \in Nat : x <= y /\ due <= x + Startup + Delay => due <= y + Startup + Delay
    BY <1>2, <1>9
  <2> QED  BY <1>1, <1>6, <2>1 DEF WInv, StartInTime
<1>11. FlagInTime'
  BY <1>1, <1>6 DEF WInv, FlagInTime, Exposed, Own, Old
<1>12. ListingInTime'
  <2>1. SUFFICES ASSUME Exposed, listed \notin {None, Unread}
                 PROVE  listedAt <= listed + Fresh \/ (Old(listed) /\ listedAt <= Since' + Late)
    BY <1>1 DEF ListingInTime, Exposed, Old, Fresh, Late, Slack
  <2>2. listedAt \in Nat  BY <2>1 DEF WInv, Clocks
  <2>3. \A x, y \in Nat : x <= y /\ listedAt <= x + Late => listedAt <= y + Late
    BY <1>9, <2>2
  <2> QED  BY <1>6, <2>1, <2>3 DEF WInv, ListingInTime
<1> QED  BY <1>3, <1>4, <1>5, <1>10, <1>11, <1>12 DEF WInv

LEMMA StutterStep == WInv /\ UNCHANGED vars => WInv'
<1> SUFFICES ASSUME WInv, UNCHANGED vars PROVE WInv'  OBVIOUS
<1>1. UNCHANGED <<now, crab, worker, due, fails, flag, pollAt, listed, listedAt, refreshedAt,
                  firstRunning, firstSeen, beaten>>
  BY DEF vars, job, watch
<1>2. Delay' = Delay /\ Since' = Since /\ Fresh' = Fresh /\ Late' = Late
  BY <1>1 DEF Delay, Since, Fresh, Late, Slack
<1>3. Numbers' /\ Steps' /\ Clocks'  BY <1>1 DEF WInv, Numbers, Steps, Clocks
<1>4. StartInTime' /\ FlagInTime' /\ ListingInTime'
  BY <1>1, <1>2 DEF WInv, StartInTime, FlagInTime, ListingInTime, Exposed, Own, Old
<1> QED  BY <1>3, <1>4 DEF WInv

LEMMA NextWInv == WInv /\ [Next]_vars => WInv'
<1> SUFFICES ASSUME WInv, [Next]_vars PROVE WInv'  OBVIOUS
<1>1. CASE Worker
  BY <1>1, WorkerStartsStep, StartBeatStep, EndBeatStep, BeatFailsStep, LeaveStep, DieStep
     DEF Worker
<1>2. CASE CrabRuns  BY <1>2, CrabRunsStep
<1>3. CASE CrabEnds  BY <1>3, CrabEndsStep
<1>4. CASE Resubmit  BY <1>4, ResubmitStep
<1>5. CASE Driver
  BY <1>5, QueryStep, JudgeStep, CallBackStep, RefreshStep, RefreshFailsStep DEF Driver
<1>6. CASE Tick  BY <1>6, TickStep
<1>7. CASE Over \/ UNCHANGED vars  BY <1>7, StutterStep DEF Over
<1> QED  BY <1>1, <1>2, <1>3, <1>4, <1>5, <1>6, <1>7 DEF Next

-----------------------------------------------------------------------------
(***************************************************************************)
(* The types, within the model's clock.                                    *)
(***************************************************************************)

Dues == 0..Horizon + Interval + Startup + Linger
Flags == -Resolution..Horizon \union {None}

\* Times within the clock, and what is due from then on.
LEMMA Times ==
  ASSUME now \in Time
  PROVE  /\ 0 \in Dues /\ now + Startup \in Dues /\ now + WriteTime \in Dues
         /\ now + Interval \in Dues /\ now + Linger \in Dues
         /\ \A n \in Nat : now + Backoff(n) \in Dues
         /\ now-Resolution..now \subseteq Flags
<1>1. now \in Nat /\ Horizon \in Nat /\ now <= Horizon  BY BoundsAssumption DEF Time
<1>2. WriteTime <= Interval  BY ConfigAssumption
<1>3. ASSUME NEW d \in Nat, d <= Interval + Startup + Linger  PROVE now + d \in Dues
  BY <1>1, <1>3, Settings DEF Dues
<1>4. /\ 0 <= Interval + Startup + Linger /\ Startup <= Interval + Startup + Linger
      /\ WriteTime <= Interval + Startup + Linger /\ Interval <= Interval + Startup + Linger
      /\ Linger <= Interval + Startup + Linger
  BY <1>2, Settings
<1>5. \A n \in Nat : now + Backoff(n) \in Dues
  <2> TAKE n \in Nat
  <2>1. Backoff(n) \in Nat /\ Backoff(n) <= Interval  BY Backoffs, Quarter, Settings
  <2>2. \A d \in Nat : d <= Interval => d <= Interval + Startup + Linger  BY Settings
  <2> QED  BY <1>3, <2>1, <2>2
<1>6. 0 \in Dues  BY <1>1, Settings DEF Dues
<1>7. ASSUME NEW f \in now-Resolution..now  PROVE f \in Flags
  <2>1. \A n \in Nat : \A g \in n-Resolution..n : n <= Horizon => g \in -Resolution..Horizon
    BY <1>1, Settings
  <2> QED  BY <1>1, <2>1 DEF Flags
<1> QED  BY <1>3, <1>4, <1>5, <1>6, <1>7, Settings

LEMMA InitTypes == Init => TypeOK
<1> SUFFICES ASSUME Init PROVE TypeOK  OBVIOUS
<1>1. /\ 0 \in Time /\ 0 \in Dues /\ 1 \in 1..MaxAttempts /\ 0 \in 0..MaxFails
      /\ 0 \in 0..0 + Poll /\ 0 \in 0..MaxPerBranch /\ 0 \in 0..MaxOutages /\ 0 \in 0..1
  BY BoundsAssumption, ConfigAssumption, Settings DEF Time, Dues
<1>2. None \in Flags  BY DEF Flags
<1> QED  BY <1>1, <1>2 DEF Init, TypeOK, Dues, Flags

LEMMA NextTypes == TypeOK /\ [Next]_vars => TypeOK'
<1> SUFFICES ASSUME TypeOK, [Next]_vars PROVE TypeOK'  OBVIOUS
<1> USE DEF Dues, Flags
<1>0. /\ now \in Time /\ fails \in Nat /\ fails <= MaxFails /\ attempt \in Nat /\ known \in Nat
      /\ known <= attempt /\ now \in Nat /\ pollAt \in Nat
  BY BoundsAssumption DEF TypeOK, Time
<1>1. CASE WorkerStarts
  BY <1>0, <1>1, Times DEF WorkerStarts, TypeOK, watch, Alive
<1>2. CASE StartBeat
  BY <1>0, <1>2, Times DEF StartBeat, TypeOK, watch, Alive
<1>3. CASE EndBeat
  <2>1. 0 \in 0..MaxFails  BY Settings
  <2> QED  BY <1>0, <1>3, <2>1, Times DEF EndBeat, TypeOK, watch, Alive
<1>4. CASE BeatFails
  <2>1. fails' \in 0..MaxFails /\ fails' \in Nat  BY <1>0, <1>4, Settings DEF BeatFails
  <2>2. due' \in Dues  BY <1>0, <1>4, <2>1, Times DEF BeatFails
  <2> QED  BY <1>4, <2>1, <2>2 DEF BeatFails, TypeOK, watch, Alive
<1>5. CASE Leave
  <2>1. 0 \in 0..MaxFails  BY Settings
  <2>2. flag' \in Flags  BY <1>0, <1>5, Times DEF Leave, TypeOK
  <2> QED  BY <1>0, <1>5, <2>1, <2>2, Times DEF Leave, TypeOK, watch
<1>6. CASE Die
  <2>1. 0 \in 0..MaxFails  BY Settings
  <2> QED  BY <1>0, <1>6, <2>1, Times DEF Die, TypeOK, watch
<1>7. CASE CrabRuns
  BY <1>0, <1>7 DEF CrabRuns, TypeOK, watch
<1>8. CASE CrabEnds
  BY <1>8 DEF CrabEnds, TypeOK, watch
<1>9. CASE Resubmit
  <2>1. attempt' \in 1..MaxAttempts /\ known' \in 0..attempt'
    BY <1>0, <1>9, BoundsAssumption DEF Resubmit, TypeOK
  <2> QED  BY <1>0, <1>9, <2>1, Times DEF Resubmit, TypeOK
<1>10. CASE Query
  BY <1>10 DEF Query, TypeOK, job
<1>11. CASE Judge
  <2> DEFINE running == IF firstRunning = None THEN VerdictClock ELSE firstRunning
             seen == IF firstSeen = None THEN now ELSE firstSeen
             age == Age(seen)
             fail == Stale(age, running, seenFlag) /\ Rescuable
  <2>1. /\ querying' = TRUE
        /\ UNCHANGED <<now, attempt, flag, pollAt, known, listed, listedAt, refreshedAt, outages,
                       beaten>>
    BY <1>11 DEF Judge
  <2>2. CASE fail
    <3>1. /\ verdicts' = verdicts + 1 /\ Rescuable
          /\ firstRunning' = None /\ firstSeen' = None /\ seenFlag' = FALSE
          /\ crab' = "ended" /\ worker' = "dead" /\ due' = 0 /\ fails' = 0
          /\ silentSince' = None
      BY <1>11, <2>2 DEF Judge
    <3>2. verdicts' \in 0..MaxPerBranch  BY <3>1, ConfigAssumption DEF Rescuable, TypeOK
    <3>3. 0 \in 0..MaxFails /\ 0 \in Dues  BY <1>0, Settings, Times
    <3> QED  BY <2>1, <3>1, <3>2, <3>3 DEF TypeOK
  <2>3. CASE ~fail
    <3>1. /\ firstRunning' = running /\ firstSeen' = seen
          /\ seenFlag' = (seenFlag \/ age # None)
          /\ UNCHANGED <<verdicts, crab, worker, due, fails, silentSince>>
      BY <1>11, <2>3 DEF Judge
    <3> HIDE DEF age, fail
    <3>2. seenFlag' \in BOOLEAN  BY <3>1
    <3>3. running \in Time \union {None} /\ seen \in Time  BY <1>0 DEF TypeOK, VerdictClock
    <3> HIDE DEF running, seen
    <3> QED  BY <2>1, <3>1, <3>2, <3>3 DEF TypeOK
  <2> QED  BY <2>2, <2>3
<1>12. CASE CallBack \/ Refresh \/ RefreshFails
  <2>1. /\ querying' = FALSE /\ pollAt' = now + Poll /\ known' = attempt
        /\ UNCHANGED <<now, attempt, crab, worker, due, fails, flag, firstRunning, firstSeen,
                       seenFlag, verdicts, beaten, silentSince>>
    BY <1>12 DEF CallBack, Refresh, RefreshFails, Calling, NextPoll, job
  <2>2. pollAt' \in now'..now' + Poll /\ known' \in 0..attempt'
    BY <1>0, <2>1, Settings
  <2>3. /\ listed' \in -Resolution..Horizon \union {None, Unread}
        /\ listedAt' \in Time \union {None} /\ refreshedAt' \in Time \union {None}
        /\ outages' \in 0..MaxOutages
    BY <1>0, <1>12, BoundsAssumption DEF CallBack, Refresh, RefreshFails, TypeOK
  <2> QED  BY <2>1, <2>2, <2>3 DEF TypeOK
<1>13. CASE Tick
  <2>1. now' = now + 1 /\ now < Horizon /\ now < pollAt /\ pollAt' = pollAt
    BY <1>13 DEF Tick, watch
  <2>2. pollAt \in now..now + Poll  BY DEF TypeOK
  <2>3. now' \in Time /\ pollAt' \in now'..now' + Poll
    BY <1>0, <2>1, <2>2, BoundsAssumption, Settings DEF Time
  <2> QED  BY <1>13, <2>3 DEF Tick, TypeOK, job, watch
<1>14. CASE Over \/ UNCHANGED vars
  BY <1>14 DEF Over, TypeOK, vars, job, watch
<1> QED
  BY <1>1, <1>2, <1>3, <1>4, <1>5, <1>6, <1>7, <1>8, <1>9, <1>10, <1>11, <1>12, <1>13, <1>14
     DEF Next, Worker, Driver

-----------------------------------------------------------------------------
(***************************************************************************)
(* A dead job: what is listed of it, and when.                             *)
(***************************************************************************)

\* What n listings that cannot be read cost.
Outage(n) == n * (Interval + Poll)

\* What is known of listings, and of the flag since the last one.
Listings ==
  /\ outages \in Nat
  /\ refreshedAt = None => pollAt = 0 /\ listed = Unread
  /\ refreshedAt # None => refreshedAt <= now
  /\ firstRunning # None => firstRunning <= now
  /\ listed = Unread /\ refreshedAt # None => outages >= 1
  /\ listed \notin {None, Unread} =>
       flag = None \/ flag = listed \/ flag >= listedAt - Resolution
  /\ firstSeen # None /\ listed # Unread =>
       listedAt >= firstSeen \/ listedAt + Poll <= firstSeen
  /\ seenFlag => firstSeen # None /\ (flag # None => flag >= firstSeen - Resolution)

\* From its last moment on its flag stays as it is.
Silence ==
  silentSince # None =>
    /\ worker = "dead" /\ crab = "running"
    /\ silentSince \in Nat /\ silentSince <= now
    /\ flag <= silentSince /\ listed <= silentSince
    /\ known # attempt => pollAt <= silentSince + Poll

\* Before the driver has judged it: it will as soon as it has named the attempt and
\* a listing could be read.
Unnoticed ==
  silentSince # None /\ firstRunning = None =>
    /\ listed = Unread /\ refreshedAt # None =>
         refreshedAt + Interval + Poll <= silentSince + Poll + Outage(outages)
    /\ listed # Unread => refreshedAt <= silentSince + Poll + Outage(outages)
    /\ querying => listed = Unread \/ pollAt <= silentSince + Poll

\* So its grace begins soon after.
GraceInTime ==
  silentSince # None /\ firstRunning # None /\ ~seenFlag =>
    firstRunning <= silentSince + Poll + Outage(outages)

\* A listing from Threshold on fails it; one that can be read is taken by Deadline.
Threshold == IF seenFlag THEN silentSince + StaleTime ELSE firstRunning + Grace
Deadline == silentSince + (IF seenFlag THEN StaleTime ELSE Poll + Grace)

\* The listing that fails it has been taken, and the next poll looks at it.
Caught ==
  /\ ~querying /\ known = attempt /\ firstRunning # None
  /\ listed # Unread /\ listed = flag
  /\ listedAt >= Threshold /\ listedAt < Deadline + Outage(outages) + Interval + Poll
  /\ pollAt <= listedAt + Poll

Pending == refreshedAt # None => refreshedAt < Deadline + Outage(outages)

InTime ==
  silentSince # None /\ Rescuable /\ ~(seenFlag /\ flag = None) => Pending \/ Caught

SInv == Listings /\ Silence /\ Unnoticed /\ GraceInTime /\ InTime

LEMMA Outages ==
  ASSUME NEW n \in Nat
  PROVE  /\ Outage(n) \in Nat /\ Outage(n + 1) = Outage(n) + Interval + Poll
         /\ n >= 1 => Outage(n) >= Interval + Poll
<1> DEFINE C == Interval + Poll
<1>1. C \in Nat /\ Outage(n) = n * C /\ Outage(n + 1) = (n + 1) * C  BY Settings DEF Outage
<1>2. C = Interval + Poll  OBVIOUS
<1> HIDE DEF C
<1>3. n * C \in Nat /\ (n + 1) * C = n * C + C  BY <1>1
<1>4. n >= 1 => n * C >= C
  <2>1. SUFFICES ASSUME n >= 1 PROVE n * C >= C  OBVIOUS
  <2>2. PICK m \in Nat : n = m + 1
    <3>1. n - 1 \in Nat /\ n = (n - 1) + 1  BY <2>1
    <3> QED  BY <3>1
  <2>3. n * C = m * C + C /\ m * C \in Nat  BY <1>1, <2>2
  <2> QED  BY <1>1, <2>3
<1>5. Outage(n + 1) = Outage(n) + Interval + Poll  BY <1>1, <1>2, <1>3, Settings
<1> QED  BY <1>1, <1>2, <1>3, <1>4, <1>5

\* The numbers of a state, for the arithmetic of the steps below.
LEMMA SilentNumbers ==
  ASSUME WInv, SInv
  PROVE  /\ now \in Nat /\ pollAt \in Nat /\ now <= pollAt /\ pollAt <= now + Poll
         /\ flag \in Int /\ flag <= now /\ listed \in Int
         /\ outages \in Nat /\ Outage(outages) \in Nat
         /\ Outage(outages + 1) = Outage(outages) + Interval + Poll
         /\ refreshedAt # None =>
              refreshedAt \in Nat /\ refreshedAt <= now /\ pollAt < refreshedAt + Interval + Poll
         /\ refreshedAt = None => pollAt = 0 /\ listed = Unread
         /\ listed # Unread =>
              /\ listedAt \in Nat /\ listedAt = refreshedAt
              /\ listedAt <= now /\ listed <= listedAt /\ listedAt + Poll <= pollAt
         /\ firstRunning # None => firstRunning \in Nat
         /\ silentSince # None =>
              silentSince \in Nat /\ silentSince <= now /\ flag <= silentSince /\ listed <= silentSince
<1>1. outages \in Nat  BY DEF SInv, Listings
<1> QED  BY <1>1, Outages DEF WInv, Numbers, Clocks, SInv, Listings, Silence

\* While the job lives, or CRAB has dropped it, only the listings matter.
LEMMA NotSilent ==
  ASSUME silentSince = None
  PROVE  Silence /\ Unnoticed /\ GraceInTime /\ InTime
BY DEF Silence, Unnoticed, GraceInTime, InTime

LEMMA NotSilentNext ==
  ASSUME silentSince' = None
  PROVE  Silence' /\ Unnoticed' /\ GraceInTime' /\ InTime'
BY DEF Silence, Unnoticed, GraceInTime, InTime

\* The moment it falls silent everything is still to come.
LEMMA FallsSilent ==
  ASSUME WInv, SInv, UNCHANGED <<now, attempt, flag, watch>>,
         silentSince' = now, worker' = "dead", crab' = "running"
  PROVE  SInv'
<1> USE Settings, StaleTimes
<1>1. /\ UNCHANGED <<now, attempt, flag, pollAt, querying, known, listed, listedAt, refreshedAt,
                     firstRunning, firstSeen, seenFlag, verdicts, outages>>
  BY DEF watch
<1>2. Listings'  BY <1>1 DEF SInv, Listings
<1>3. Silence'  BY <1>1, SilentNumbers DEF Silence
<1>4. Outage(outages)' = Outage(outages) /\ StaleTime' = StaleTime /\ Grace' = Grace
  BY <1>1 DEF Outage
<1>5. Unnoticed'
  <2>1. listed = Unread /\ refreshedAt # None => Outage(outages) >= Interval + Poll
    BY Outages DEF SInv, Listings
  <2> QED  BY <1>1, <1>4, <2>1, SilentNumbers DEF Unnoticed
<1>6. GraceInTime'
  BY <1>1, <1>4, SilentNumbers DEF GraceInTime, SInv, Listings
<1>7. InTime'
  <2>1. Deadline' > now
    <3>1. Deadline' = silentSince' + (IF seenFlag' THEN StaleTime ELSE Poll + Grace)
      BY DEF Deadline, StaleTime, Grace
    <3> QED  BY <1>1, <3>1, SilentNumbers
  <2>2. Deadline' \in Int  BY <1>1, SilentNumbers DEF Deadline
  <2>3. Pending'  BY <1>1, <1>4, <2>1, <2>2, SilentNumbers DEF Pending
  <2> QED  BY <2>3 DEF InTime
<1> QED  BY <1>2, <1>3, <1>5, <1>6, <1>7 DEF SInv

LEMMA InitSInv == Init => SInv
<1> SUFFICES ASSUME Init PROVE SInv  OBVIOUS
<1>1. silentSince = None  BY DEF Init
<1>2. Listings  BY Settings DEF Init, Listings
<1> QED  BY <1>1, <1>2, NotSilent DEF SInv

\* The worker's steps: only its death, seen by CRAB, is silence.
LEMMA WorkerSilence == WInv /\ SInv /\ Worker => SInv'
<1> SUFFICES ASSUME WInv, SInv, Worker PROVE SInv'  OBVIOUS
<1> USE Settings
<1>1. CASE WorkerStarts \/ StartBeat \/ EndBeat \/ BeatFails \/ Leave
  <2>1. worker # "dead" /\ silentSince' = silentSince /\ UNCHANGED <<now, watch>>
    BY <1>1 DEF WorkerStarts, StartBeat, EndBeat, BeatFails, Leave, Alive
  <2>2. UNCHANGED <<now, pollAt, querying, known, listed, listedAt, refreshedAt,
                    firstRunning, firstSeen, seenFlag, verdicts, outages>>
    BY <2>1 DEF watch
  <2>3. silentSince' = None  BY <2>1 DEF SInv, Silence
  <2>4. flag' = flag \/ flag' = None \/ flag' \in now-Resolution..now
    BY <1>1 DEF WorkerStarts, StartBeat, EndBeat, BeatFails, Leave
  <2>5. Listings'
    <3>1. firstSeen # None => firstSeen \in Nat /\ firstSeen <= now
      BY DEF WInv, Numbers
    <3>2. CASE flag' = flag \/ flag' = None
      BY <2>2, <3>2 DEF SInv, Listings
    <3>3. CASE flag' \in now-Resolution..now
      <4>1. flag' \in Int /\ flag' >= now - Resolution  BY <3>3, SilentNumbers
      <4>2. listed \notin {None, Unread} => flag' >= listedAt - Resolution
        BY <4>1, SilentNumbers
      <4>3. seenFlag => firstSeen # None /\ flag' >= firstSeen - Resolution
        BY <3>1, <4>1, SilentNumbers DEF SInv, Listings
      <4> QED  BY <2>2, <4>2, <4>3 DEF SInv, Listings
    <3> QED  BY <2>4, <3>2, <3>3
  <2> QED  BY <2>3, <2>5, NotSilentNext DEF SInv
<1>2. CASE Die
  <2>1. UNCHANGED <<now, attempt, crab, flag, watch>> /\ worker' = "dead" /\ worker # "dead"
    BY <1>2 DEF Die, Alive
  <2>2. CASE crab = "running"
    <3>1. silentSince' = now  BY <1>2, <2>2 DEF Die
    <3> QED  BY <2>1, <2>2, <3>1, FallsSilent
  <2>3. CASE crab # "running"
    <3>1. silentSince' = None  BY <1>2, <2>1, <2>3 DEF Die, SInv, Silence
    <3>2. Listings'  BY <2>1 DEF SInv, Listings, watch
    <3> QED  BY <3>1, <3>2, NotSilentNext DEF SInv
  <2> QED  BY <2>2, <2>3
<1> QED  BY <1>1, <1>2 DEF Worker

LEMMA CrabSilence == WInv /\ SInv /\ (CrabRuns \/ CrabEnds \/ Resubmit) => SInv'
<1> SUFFICES ASSUME WInv, SInv, CrabRuns \/ CrabEnds \/ Resubmit PROVE SInv'  OBVIOUS
<1> USE Settings
<1>1. CASE CrabRuns
  <2>1. UNCHANGED <<now, attempt, worker, flag, watch>> /\ crab = "idle" /\ crab' = "running"
    BY <1>1 DEF CrabRuns
  <2>2. CASE worker = "dead"
    <3>1. silentSince' = now  BY <1>1, <2>2 DEF CrabRuns
    <3> QED  BY <2>1, <2>2, <3>1, FallsSilent
  <2>3. CASE worker # "dead"
    <3>1. silentSince' = None  BY <1>1, <2>1, <2>3 DEF CrabRuns, SInv, Silence
    <3>2. Listings'  BY <2>1 DEF SInv, Listings, watch
    <3> QED  BY <3>1, <3>2, NotSilentNext DEF SInv
  <2> QED  BY <2>2, <2>3
<1>2. CASE CrabEnds
  <2>1. silentSince' = None /\ UNCHANGED <<now, flag, watch>>  BY <1>2 DEF CrabEnds
  <2>2. Listings'  BY <2>1 DEF SInv, Listings, watch
  <2> QED  BY <2>1, <2>2, NotSilentNext DEF SInv
<1>3. CASE Resubmit
  <2>1. /\ UNCHANGED <<now, flag, pollAt, listed, listedAt, refreshedAt, outages, silentSince>>
        /\ crab = "ended" /\ firstRunning' = None /\ firstSeen' = None /\ seenFlag' = FALSE
    BY <1>3 DEF Resubmit
  <2>2. silentSince' = None  BY <2>1 DEF SInv, Silence
  <2>3. Listings'  BY <2>1 DEF SInv, Listings
  <2> QED  BY <2>2, <2>3, NotSilentNext DEF SInv
<1> QED  BY <1>1, <1>2, <1>3

\* Time passes up to the next poll.
LEMMA TickSilence == WInv /\ SInv /\ Tick => SInv'
<1> SUFFICES ASSUME WInv, SInv, Tick PROVE SInv'  OBVIOUS
<1>1. now' = now + 1 /\ now \in Nat
      /\ UNCHANGED <<attempt, crab, worker, flag, pollAt, querying, known, listed, listedAt,
                     refreshedAt, firstRunning, firstSeen, seenFlag, verdicts, outages, silentSince>>
  BY SilentNumbers DEF Tick, job, watch
<1>2. Listings'
  <2>1. refreshedAt # None => refreshedAt <= now'  BY <1>1, SilentNumbers
  <2>2. firstRunning # None => firstRunning <= now'
    BY <1>1, SilentNumbers DEF SInv, Listings
  <2> QED  BY <1>1, <2>1, <2>2 DEF SInv, Listings
<1>3. Silence'
  <2>1. silentSince # None => silentSince <= now'  BY <1>1, SilentNumbers
  <2> QED  BY <1>1, <2>1 DEF SInv, Silence
<1>4. Unnoticed' /\ GraceInTime' /\ InTime'
  BY <1>1 DEF SInv, Unnoticed, GraceInTime, InTime, Outage, Pending, Caught, Deadline, Threshold,
              Rescuable, StaleTime, Grace
<1> QED  BY <1>2, <1>3, <1>4 DEF SInv

LEMMA QuerySilence == WInv /\ SInv /\ Query => SInv'
<1> SUFFICES ASSUME WInv, SInv, Query PROVE SInv'  OBVIOUS
<1>1. /\ querying' = TRUE /\ ~Judged /\ ~querying
      /\ UNCHANGED <<now, attempt, crab, worker, flag, pollAt, known, listed, listedAt,
                     refreshedAt, firstRunning, firstSeen, seenFlag, verdicts, outages, silentSince>>
  BY DEF Query, QueryDue, job
<1>2. Listings' /\ Silence' /\ GraceInTime'
  BY <1>1 DEF SInv, Listings, Silence, GraceInTime, Outage
<1>3. silentSince # None /\ listed # Unread => known # attempt /\ pollAt <= silentSince + Poll
  BY <1>1 DEF SInv, Silence, Judged
<1>4. Unnoticed'  BY <1>1, <1>3 DEF SInv, Unnoticed, Outage
<1>5. InTime'
  <2>1. silentSince # None => ~Caught  BY <1>3 DEF Caught
  <2>2. Pending' = Pending
    BY <1>1 DEF Pending, Deadline, Outage, StaleTime, Grace
  <2> QED  BY <1>1, <2>1, <2>2 DEF SInv, InTime, Rescuable
<1> QED  BY <1>2, <1>4, <1>5 DEF SInv

\* The watchdog looks at it: what it does not fail it has reason to spare.
LEMMA JudgeSilence == WInv /\ SInv /\ Judge => SInv'
<1> SUFFICES ASSUME WInv, SInv, Judge PROVE SInv'  OBVIOUS
<1> USE Settings, StaleTimes
<1> DEFINE running == IF firstRunning = None THEN VerdictClock ELSE firstRunning
           seen == IF firstSeen = None THEN now ELSE firstSeen
           age == Age(seen)
           stale == Stale(age, running, seenFlag)
           fail == stale /\ Rescuable
<1>1. /\ now = pollAt /\ listed # Unread
      /\ UNCHANGED <<now, attempt, flag, pollAt, known, listed, listedAt, refreshedAt, outages>>
  BY DEF Judge, QueryDue, Judged
<1>2. CASE fail
  <2>1. firstRunning' = None /\ firstSeen' = None /\ seenFlag' = FALSE /\ silentSince' = None
    BY <1>2 DEF Judge
  <2>2. Listings'  BY <1>1, <2>1 DEF SInv, Listings
  <2> QED  BY <2>1, <2>2, NotSilentNext DEF SInv
<1>3. CASE ~fail
  <2>1. /\ firstRunning' = running /\ firstSeen' = seen
        /\ seenFlag' = (seenFlag \/ age # None)
        /\ UNCHANGED <<verdicts, crab, worker, silentSince>>
    BY <1>3 DEF Judge
  <2>2. running = IF firstRunning = None THEN listedAt ELSE firstRunning  BY DEF VerdictClock
  <2>3. seen = IF firstSeen = None THEN now ELSE firstSeen  OBVIOUS
  <2>4. stale <=> IF age # None THEN age >= StaleTime
                  ELSE ~seenFlag /\ listedAt - running >= Grace
    BY DEF Stale, VerdictClock
  <2>5. /\ now \in Nat /\ listed \in Int /\ flag \in Int /\ listedAt \in Nat /\ listedAt = refreshedAt
        /\ listedAt <= now /\ listed <= listedAt /\ listedAt + Poll <= now
        /\ firstSeen # None => firstSeen \in Nat
        /\ firstRunning # None => firstRunning \in Nat
        /\ firstSeen = None <=> firstRunning = None
        /\ Outage(outages) \in Nat
    BY <1>1, SilentNumbers DEF WInv, Numbers, Clocks
  <2>6. seen \in Nat /\ running \in Nat /\ seen # None /\ running # None  BY <2>2, <2>3, <2>5
  <2>7. age # None <=> listed # None /\ listed >= seen - Resolution
    BY <2>5, <2>6, AgeIs
  <2>8. age # None => age = IF listedAt - listed < 0 THEN 0 ELSE listedAt - listed
    BY <2>5, <2>6, AgeIs
  <2>9. Rescuable => ~stale  BY <1>3
  <2> HIDE DEF running, seen, age, stale, fail
  <2>10. listedAt >= seen \/ listedAt + Poll <= seen
    BY <1>1, <2>3, <2>5 DEF SInv, Listings
  <2>11. seenFlag' /\ flag # None => flag >= seen - Resolution
    <3>1. SUFFICES ASSUME seenFlag', flag # None PROVE flag >= seen - Resolution  OBVIOUS
    <3>2. CASE seenFlag  BY <2>3, <3>1, <3>2 DEF SInv, Listings
    <3>3. CASE age # None
      <4>1. listed # None /\ listed >= seen - Resolution  BY <2>7, <3>3
      <4>2. listedAt >= seen  BY <2>5, <2>6, <2>10, <4>1
      <4>3. flag = listed \/ flag >= listedAt - Resolution
        BY <1>1, <3>1, <4>1 DEF SInv, Listings
      <4> QED  BY <2>5, <2>6, <4>1, <4>2, <4>3
    <3> QED  BY <2>1, <3>1, <3>2, <3>3
  <2>12. Listings'
    <3>1. running <= now  BY <2>2, <2>5 DEF SInv, Listings
    <3> QED  BY <1>1, <2>1, <2>6, <2>10, <2>11, <3>1 DEF SInv, Listings
  <2>13. Silence'  BY <1>1, <2>1 DEF SInv, Silence
  <2>14. Unnoticed'  BY <2>1, <2>6 DEF Unnoticed
  <2>15. Outage(outages)' = Outage(outages) /\ StaleTime' = StaleTime /\ Grace' = Grace
    BY <1>1 DEF Outage
  <2>16. GraceInTime'
    <3>1. SUFFICES ASSUME silentSince # None, ~seenFlag'
                   PROVE running <= silentSince + Poll + Outage(outages)
      BY <1>1, <2>1, <2>15 DEF GraceInTime
    <3> QED  BY <1>1, <2>1, <2>2, <2>5, <3>1 DEF SInv, Unnoticed, GraceInTime
  <2>17. InTime'
    <3>1. SUFFICES ASSUME silentSince # None, Rescuable, ~(seenFlag' /\ flag = None)
                   PROVE Pending'
      BY <1>1, <2>1 DEF InTime, Rescuable
    <3>2. ~stale  BY <2>9, <3>1
    <3>3. silentSince \in Nat /\ listed <= silentSince  BY <3>1, SilentNumbers
    <3>4. Deadline' = silentSince + (IF seenFlag' THEN StaleTime ELSE Poll + Grace)
      BY <2>1, <2>15 DEF Deadline
    <3>5. CASE seenFlag
      <4>1. seenFlag' /\ flag # None /\ seen = firstSeen  BY <2>1, <2>3, <3>1, <3>5 DEF SInv, Listings
      <4>2. Pending \/ Caught  BY <3>1, <4>1 DEF SInv, InTime
      <4>3. ~Caught
        <5>1. SUFFICES ASSUME Caught PROVE FALSE  OBVIOUS
        <5>2. listed = flag /\ listedAt >= silentSince + StaleTime
          BY <3>5, <5>1 DEF Caught, Threshold
        <5>3. flag >= seen - Resolution  BY <2>11, <4>1
        <5>4. age # None  BY <2>7, <4>1, <5>2, <5>3
        <5>5. age >= StaleTime  BY <2>5, <2>8, <3>3, <5>2, <5>4
        <5> QED  BY <2>4, <3>2, <5>4, <5>5
      <4>4. Deadline' = Deadline  BY <3>4, <3>5, <4>1 DEF Deadline
      <4> QED  BY <1>1, <2>15, <4>2, <4>3, <4>4 DEF Pending
    <3>6. CASE ~seenFlag /\ age # None
      <4>1. seenFlag'  BY <2>1, <3>6
      <4>2. age < StaleTime
        <5>1. age \in Int  BY <2>5, <2>8, <3>6
        <5> QED  BY <2>4, <3>2, <3>6, <5>1
      <4>3. listedAt < silentSince + StaleTime  BY <2>5, <2>8, <3>3, <3>6, <4>2
      <4>4. refreshedAt' < Deadline' + Outage(outages)'
        BY <1>1, <2>5, <2>15, <3>3, <3>4, <4>1, <4>3
      <4> QED  BY <4>4 DEF Pending
    <3>7. CASE ~seenFlag /\ age = None
      <4>1. ~seenFlag' /\ ~(listedAt - running >= Grace)  BY <2>1, <2>4, <3>2, <3>7
      <4>2. Pending \/ Caught  BY <3>1, <3>7 DEF SInv, InTime
      <4>3. ~Caught
        <5>1. SUFFICES ASSUME Caught PROVE FALSE  OBVIOUS
        <5>2. firstRunning # None /\ listedAt >= firstRunning + Grace
          BY <3>7, <5>1 DEF Caught, Threshold
        <5>3. running = firstRunning  BY <2>2, <5>2
        <5> QED  BY <2>5, <2>6, <4>1, <5>2, <5>3
      <4>4. Deadline' = Deadline  BY <3>4, <3>7, <4>1 DEF Deadline
      <4> QED  BY <1>1, <2>15, <4>2, <4>3, <4>4 DEF Pending
    <3> QED  BY <3>5, <3>6, <3>7
  <2> QED  BY <2>12, <2>13, <2>14, <2>16, <2>17 DEF SInv
<1> QED  BY <1>2, <1>3

\* A job not judged yet is one whose listing comes soon.
LEMMA SoonListed ==
  ASSUME WInv, SInv, querying, silentSince # None
  PROVE  /\ firstRunning = None => now <= silentSince + Poll + Outage(outages)
         /\ ~Caught
<1>1. ~Caught  BY DEF Caught
<1>2. ASSUME firstRunning = None  PROVE now <= silentSince + Poll + Outage(outages)
  <2> USE Settings
  <2>1. CASE refreshedAt = None  BY <2>1, SilentNumbers
  <2>2. CASE refreshedAt # None /\ listed = Unread
    BY <1>2, <2>2, SilentNumbers DEF SInv, Unnoticed
  <2>3. CASE listed # Unread
    BY <1>2, <2>3, SilentNumbers DEF SInv, Unnoticed
  <2> QED  BY <2>1, <2>2, <2>3
<1> QED  BY <1>1, <1>2

\* After a poll's callback.
LEMMA CallSilence == WInv /\ SInv /\ (CallBack \/ Refresh \/ RefreshFails) => SInv'
<1> SUFFICES ASSUME WInv, SInv, CallBack \/ Refresh \/ RefreshFails PROVE SInv'  OBVIOUS
<1> USE Settings, StaleTimes
<1>1. /\ querying /\ querying' = FALSE /\ pollAt' = now + Poll /\ known' = attempt
      /\ UNCHANGED <<now, attempt, crab, worker, flag, firstRunning, firstSeen, seenFlag,
                     verdicts, silentSince>>
  BY DEF CallBack, Refresh, RefreshFails, Calling, NextPoll, job
<1>2. StaleTime' = StaleTime /\ Grace' = Grace /\ Rescuable' = Rescuable /\ Deadline' = Deadline
  BY <1>1 DEF Rescuable, Deadline, StaleTime, Grace
<1>3. silentSince # None /\ Rescuable /\ ~(seenFlag /\ flag = None) => Pending
  BY <1>1, SoonListed DEF SInv, InTime
<1>4. silentSince # None => Deadline \in Int /\ Deadline > silentSince
  BY SilentNumbers DEF Deadline
<1>5. CASE CallBack
  <2>1. UNCHANGED <<listed, listedAt, refreshedAt, outages>> /\ ~RefreshDue
    BY <1>5 DEF CallBack
  <2>2. Outage(outages)' = Outage(outages)  BY <2>1 DEF Outage
  <2>3. Listings'  BY <1>1, <2>1 DEF SInv, Listings, RefreshDue
  <2>4. Silence' /\ GraceInTime' /\ Unnoticed'
    BY <1>1, <2>1, <2>2 DEF SInv, Silence, GraceInTime, Unnoticed
  <2>5. InTime'  BY <1>1, <1>2, <1>3, <2>1, <2>2 DEF InTime, Pending
  <2> QED  BY <2>3, <2>4, <2>5 DEF SInv
<1>6. CASE Refresh
  <2>1. listed' = flag /\ listedAt' = now /\ refreshedAt' = now /\ outages' = outages
    BY <1>6 DEF Refresh
  <2>2. Outage(outages)' = Outage(outages)  BY <2>1 DEF Outage
  <2>3. flag # Unread /\ now # None
    <3>1. flag \in Int /\ flag >= None  BY DEF WInv, Numbers
    <3> QED  BY <3>1, SilentNumbers
  <2>4. firstSeen # None => now >= firstSeen  BY DEF WInv, Numbers
  <2>5. Listings'
    BY <1>1, <2>1, <2>3, <2>4, SilentNumbers DEF SInv, Listings
  <2>6. Silence'  BY <1>1, <2>1, SilentNumbers DEF SInv, Silence
  <2>7. Unnoticed'  BY <1>1, <2>1, <2>2, <2>3, SoonListed DEF Unnoticed
  <2>8. GraceInTime'  BY <1>1, <2>1, <2>2 DEF SInv, GraceInTime
  <2>9. InTime'
    <3>1. SUFFICES ASSUME silentSince # None, Rescuable, ~(seenFlag /\ flag = None),
                          ~(now < Deadline + Outage(outages))
                   PROVE  Caught'
      BY <1>1, <1>2, <2>1, <2>2 DEF InTime, Pending
    <3>2. Pending  BY <1>3, <3>1
    <3>3. refreshedAt # None  BY <1>4, <3>1, SilentNumbers
    <3>4. now < Deadline + Outage(outages) + Interval + Poll
      BY <1>4, <3>1, <3>2, <3>3, SilentNumbers DEF Pending
    <3>5. firstRunning # None
      <4>1. CASE seenFlag  BY <4>1 DEF SInv, Listings, WInv, Clocks
      <4>2. CASE ~seenFlag
        <5>1. Deadline = silentSince + Poll + Grace  BY <4>2, SilentNumbers, <3>1 DEF Deadline
        <5> QED  BY <1>1, <3>1, <5>1, SoonListed, SilentNumbers
      <4> QED  BY <4>1, <4>2
    <3>6. now >= Threshold
      <4>1. CASE seenFlag
        BY <3>1, <4>1, SilentNumbers DEF Threshold, Deadline
      <4>2. CASE ~seenFlag
        <5>1. firstRunning <= silentSince + Poll + Outage(outages) /\ firstRunning \in Nat
          BY <3>1, <3>5, <4>2, SilentNumbers DEF SInv, GraceInTime
        <5> QED  BY <3>1, <4>2, <5>1, SilentNumbers DEF Threshold, Deadline
      <4> QED  BY <4>1, <4>2
    <3>7. Threshold' = Threshold  BY <1>1, <1>2 DEF Threshold
    <3>8. pollAt' <= listedAt' + Poll  BY <1>1, <2>1, SilentNumbers
    <3> QED
      BY <1>1, <1>2, <2>1, <2>2, <2>3, <3>4, <3>5, <3>6, <3>7, <3>8 DEF Caught
  <2> QED  BY <2>5, <2>6, <2>7, <2>8, <2>9 DEF SInv
<1>7. CASE RefreshFails
  <2>1. listed' = Unread /\ listedAt' = None /\ refreshedAt' = now /\ outages' = outages + 1
    BY <1>7 DEF RefreshFails
  <2>2. Outage(outages)' = Outage(outages) + Interval + Poll
    <3>1. Outage(outages)' = Outage(outages + 1)  BY <2>1 DEF Outage
    <3> QED  BY <3>1, SilentNumbers
  <2>3. now \in Nat /\ now # None  BY SilentNumbers
  <2>4. Listings'
    BY <1>1, <2>1, <2>3, SilentNumbers DEF SInv, Listings
  <2>5. Silence'  BY <1>1, <2>1, SilentNumbers DEF SInv, Silence
  <2>6. Unnoticed'
    BY <1>1, <2>1, <2>2, <2>3, SoonListed, SilentNumbers DEF Unnoticed
  <2>7. GraceInTime'
    BY <1>1, <2>1, <2>2, SilentNumbers DEF SInv, GraceInTime
  <2>8. InTime'
    <3>1. SUFFICES ASSUME silentSince # None, Rescuable, ~(seenFlag /\ flag = None)
                   PROVE  now < Deadline + Outage(outages) + Interval + Poll
      <4>1. silentSince # None => Deadline + (Outage(outages) + Interval + Poll)
                                   = Deadline + Outage(outages) + Interval + Poll
        BY <1>4, SilentNumbers
      <4> QED  BY <1>1, <1>2, <2>1, <2>2, <4>1 DEF InTime, Pending
    <3>2. Pending  BY <1>3, <3>1
    <3>3. CASE refreshedAt = None  BY <1>4, <3>1, <3>3, SilentNumbers
    <3>4. CASE refreshedAt # None
      BY <1>4, <3>1, <3>2, <3>4, SilentNumbers DEF Pending
    <3> QED  BY <3>3, <3>4
  <2> QED  BY <2>4, <2>5, <2>6, <2>7, <2>8 DEF SInv
<1> QED  BY <1>5, <1>6, <1>7

LEMMA NextSInv == WInv /\ SInv /\ [Next]_vars => SInv'
<1> SUFFICES ASSUME WInv, SInv, [Next]_vars PROVE SInv'  OBVIOUS
<1>1. CASE Worker  BY <1>1, WorkerSilence
<1>2. CASE CrabRuns \/ CrabEnds \/ Resubmit  BY <1>2, CrabSilence
<1>3. CASE Driver  BY <1>3, QuerySilence, JudgeSilence, CallSilence DEF Driver
<1>4. CASE Tick  BY <1>4, TickSilence
<1>5. CASE Over \/ UNCHANGED vars
  <2>1. UNCHANGED <<now, attempt, crab, worker, flag, pollAt, querying, known, listed, listedAt,
                    refreshedAt, firstRunning, firstSeen, seenFlag, verdicts, outages, silentSince>>
    BY <1>5 DEF Over, vars, job, watch
  <2>2. Listings' /\ Silence' /\ Unnoticed' /\ GraceInTime'
    BY <2>1 DEF SInv, Listings, Silence, Unnoticed, GraceInTime, Outage
  <2>3. InTime'
    BY <2>1 DEF SInv, InTime, Outage, Pending, Caught, Deadline, Threshold, Rescuable, StaleTime,
                Grace
  <2> QED  BY <2>2, <2>3 DEF SInv
<1> QED  BY <1>1, <1>2, <1>3, <1>4, <1>5 DEF Next

\* So the deadline passes only with the job failed.
LEMMA SilentIsFailed == WInv /\ SInv => StalledIsFailed
<1> SUFFICES ASSUME WInv, SInv, silentSince # None, Rescuable, ~(seenFlag /\ flag = None)
             PROVE  now <= silentSince + (outages + 1) * (Interval + Poll) + Poll
                             + (IF seenFlag THEN StaleTime ELSE Grace + Poll)
  BY DEF StalledIsFailed
<1> USE Settings, StaleTimes
<1> DEFINE Bound == IF seenFlag THEN StaleTime ELSE Grace + Poll
<1>1. Bound \in Nat /\ Bound >= 1 /\ Deadline = silentSince + Bound  BY SilentNumbers DEF Deadline
<1>2. (outages + 1) * (Interval + Poll) = Outage(outages) + Interval + Poll
  <2>1. Outage(outages + 1) = (outages + 1) * (Interval + Poll)  BY DEF Outage
  <2> QED  BY <2>1, SilentNumbers
<1>3. now <= silentSince + (Outage(outages) + Interval + Poll) + Poll + Bound
  <2> HIDE DEF Bound
  <2>1. CASE Pending
    <3>1. CASE refreshedAt = None  BY <1>1, <3>1, SilentNumbers
    <3>2. CASE refreshedAt # None  BY <1>1, <2>1, <3>2, SilentNumbers DEF Pending
    <3> QED  BY <3>1, <3>2
  <2>2. CASE Caught  BY <1>1, <2>2, SilentNumbers DEF Caught
  <2> QED  BY <2>1, <2>2 DEF SInv, InTime
<1> QED  BY <1>2, <1>3

-----------------------------------------------------------------------------
(***************************************************************************)
(* The theorems.                                                           *)
(***************************************************************************)

\* The types of the watchdog's state, the bounds on verdicts and outages included.
THEOREM TypeCorrect == Spec => []TypeOK
BY InitTypes, NextTypes, PTL DEF Spec

\* The inductive invariant, for all settings.
THEOREM BeatsAreInTime == Spec => []WInv
<1>1. Init => WInv  BY InitWInv
<1>2. WInv /\ [Next]_vars => WInv'  BY NextWInv
<1> QED  BY <1>1, <1>2, PTL DEF Spec

Counted == verdicts \in Nat

LEMMA VerdictsAreCounted == Spec => []Counted
<1>1. Init => Counted  BY DEF Init, Counted
<1>2. Counted /\ [Next]_vars => Counted'
  <2> SUFFICES ASSUME Counted, [Next]_vars PROVE Counted'  OBVIOUS
  <2>1. CASE Judge  BY <2>1 DEF Judge, Counted
  <2>2. CASE ~Judge
    <3>1. verdicts' = verdicts
      BY <2>2 DEF Next, Worker, Driver, WorkerStarts, CrabRuns, CrabEnds, StartBeat, EndBeat,
                  BeatFails, Leave, Die, Resubmit, Query, Calling, CallBack, Refresh,
                  RefreshFails, Tick, Over, watch, vars
    <3> QED  BY <3>1 DEF Counted
  <2> QED  BY <2>1, <2>2
<1> QED  BY <1>1, <1>2, PTL DEF Spec

\* A verdict (StallWatchdog.verdicts) hits only a dead job, or one none of whose
\* flags was ever listed, if the settings leave room for the beats.
THEOREM HealthyAreSpared ==
  ASSUME Steady, Prompt
  PROVE  Spec => HealthyIsSpared
<1>1. ASSUME WInv, verdicts \in Nat, [Next]_vars, verdicts' > verdicts
      PROVE  worker = "dead" \/ (listed = None /\ ~seenFlag /\ beaten)
  <2> USE Settings, StaleTimes
  <2> DEFINE running == IF firstRunning = None THEN VerdictClock ELSE firstRunning
             seen == IF firstSeen = None THEN now ELSE firstSeen
             age == Age(seen)
  <2> SUFFICES ASSUME worker # "dead"  PROVE listed = None /\ ~seenFlag /\ beaten  OBVIOUS
  <2>1. Judge
    <3>1. verdicts' # verdicts  BY <1>1
    <3> QED
      BY <1>1, <3>1 DEF Next, Worker, Driver, WorkerStarts, CrabRuns, CrabEnds, StartBeat,
                        EndBeat, BeatFails, Leave, Die, Resubmit, Query, Calling, CallBack, Refresh,
                        RefreshFails, Tick, Over, watch, vars
  <2>2. now = pollAt /\ crab = "running" /\ listed # Unread
        /\ Stale(age, running, seenFlag)
    <3>1. verdicts' # verdicts  BY <1>1
    <3> QED  BY <2>1, <3>1 DEF Judge, QueryDue, Judged
  <2>3. /\ now \in Nat /\ listed \in Int /\ listedAt \in Nat /\ listedAt <= now
        /\ listed <= listedAt /\ listedAt + Poll <= now
        /\ firstSeen = None \/ (firstSeen \in Nat /\ firstSeen <= now)
        /\ firstRunning = None \/ firstRunning \in Nat
        /\ firstSeen = None <=> firstRunning = None
        /\ firstSeen # None => firstSeen < firstRunning + Interval + Poll
    BY <1>1, <2>2 DEF WInv, Numbers, Clocks
  <2>4. Exposed  BY <2>2 DEF Exposed
  <2>5. seen \in Nat /\ seen = Since /\ (Old(listed) => listed + Poll <= seen)
    BY <2>2, <2>3 DEF Since, Old
  <2>6. /\ Slack(MaxFails) \in Nat /\ Fresh \in Nat /\ Late \in Nat
        /\ Fresh + Poll <= StaleTime + Resolution /\ Late + Poll <= StaleTime
    BY Slacks DEF Steady, Prompt, Fresh, Late
  <2>7. listed # None => \/ listedAt <= listed + Fresh
                         \/ listed + Poll <= seen /\ listedAt <= seen + Late
    BY <1>1, <2>2, <2>4, <2>5 DEF WInv, ListingInTime
  \* A flag of this attempt is not that old.
  <2>8. CASE age # None
    <3>1. age >= StaleTime  BY <2>2, <2>8 DEF Stale
    <3>2. /\ listed # None /\ listed >= seen - Resolution
          /\ age = IF listedAt - listed < 0 THEN 0 ELSE listedAt - listed
      BY <2>3, <2>5, <2>8, AgeIs
    <3> HIDE DEF age, seen
    <3>3. listedAt - listed >= StaleTime  BY <2>3, <3>1, <3>2
    <3>4. ~(listed + Poll <= seen)  BY <2>3, <2>5, <3>2
    <3>5. listedAt <= listed + Fresh  BY <2>7, <3>2, <3>4
    <3> QED  BY <2>3, <2>6, <3>3, <3>5
  \* One without a flag that counts has had its grace.
  <2>9. CASE age = None
    <3>1. ~seenFlag /\ listedAt - running >= Grace  BY <2>2, <2>9 DEF Stale, VerdictClock
    <3>2. firstRunning # None /\ running = firstRunning /\ running \in Nat
      BY <2>3, <3>1 DEF VerdictClock
    <3>3. seen < running + Interval + Poll  BY <2>3, <3>2
    <3>4. listed = None \/ listed < seen - Resolution
      <4>1. listedAt - listed \in Int  BY <2>3
      <4>2. \A x \in Int : Max({0, x}) # None  BY DEF Max
      <4> QED  BY <2>9, <4>1, <4>2 DEF Age, VerdictClock
    <3> HIDE DEF seen, running, age
    <3>5. listedAt + Poll > seen + StaleTime
      BY <2>3, <2>5, <3>1, <3>2, <3>3
    <3>6. listed = None
      <4>1. SUFFICES ASSUME listed # None PROVE FALSE  OBVIOUS
      <4>2. listed < seen - Resolution  BY <3>4, <4>1
      <4>3. CASE listedAt <= listed + Fresh
        BY <2>3, <2>5, <2>6, <3>5, <4>2, <4>3
      <4>4. CASE listedAt <= seen + Late
        BY <2>3, <2>5, <2>6, <3>5, <4>4
      <4> QED  BY <2>7, <4>1, <4>3, <4>4
    <3>7. beaten
      <4>1. SUFFICES ASSUME ~beaten PROVE FALSE  OBVIOUS
      <4>2. worker \in Alive \union {"left"}
        BY <1>1, <2>2 DEF WInv, Numbers, Steps
      <4>3. now <= due /\ due \in Int  BY <1>1, <2>2, <4>2 DEF WInv, Numbers, Steps
      <4>4. due <= seen + Startup + Delay  BY <1>1, <2>5, <4>1, <4>2 DEF WInv, StartInTime
      <4>5. fails \in Nat /\ fails <= MaxFails  BY <1>1 DEF WInv, Numbers
      <4>6. Delay \in Nat /\ Startup + Delay <= Late
        <5>1. Slack(fails) \in Nat /\ Slack(fails) <= Slack(MaxFails)  BY <4>5, Slacks
        <5> QED  BY <2>6, <5>1 DEF Delay, Late
      <4>7. now <= seen + Late  BY <2>3, <2>5, <2>6, <4>3, <4>4, <4>6
      <4> QED  BY <2>3, <2>5, <2>6, <3>5, <4>7
    <3> QED  BY <3>1, <3>6, <3>7
  <2> QED  BY <2>8, <2>9
<1>2. WInv /\ Counted /\ [Next]_vars =>
        [verdicts' > verdicts => worker = "dead" \/ (listed = None /\ ~seenFlag /\ beaten)]_vars
  BY <1>1 DEF Counted
<1> QED  BY <1>2, BeatsAreInTime, VerdictsAreCounted, PTL DEF Spec, HealthyIsSpared
\* A dead job CRAB shows running is failed within the bound: as many listings as
\* could not be read and one more, an interval and a poll apart, after its flag
\* went stale or its grace was over.
THEOREM StalledAreFailed == Spec => []StalledIsFailed
<1>1. Init => SInv  BY InitSInv
<1>2. WInv /\ SInv /\ [Next]_vars => SInv'  BY NextSInv
<1>3. WInv /\ SInv => StalledIsFailed  BY SilentIsFailed
<1> QED  BY <1>1, <1>2, <1>3, BeatsAreInTime, PTL DEF Spec
=============================================================================
