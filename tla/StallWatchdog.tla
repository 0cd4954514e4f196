--------------------------- MODULE StallWatchdog ---------------------------
(***************************************************************************)
(* The stall watchdog, on a clock: a job refreshes a flag named after its  *)
(* branch while its payload runs (Heartbeat), and the driver lists the     *)
(* flags once per interval and fails a job CRAB reports running whose flag *)
(* has not moved (class StallWatchdog, crab_poll_callback).                *)
(*                                                                         *)
(* One branch and its attempts, in time: beats drift against the driver's  *)
(* polls, a write takes a while and may fail, and over davs an overwrite   *)
(* deletes first.  CRAB shows a job running after it started and for a     *)
(* while after it left.  A worker that dies leaves its flag where it is.   *)
(* What several branches share (the caps and the fault guard) is in        *)
(* JobManager.  Time is in ticks up to Horizon, the bound of the model.    *)
(***************************************************************************)
EXTENDS Integers, FiniteSetsExt

CONSTANTS
  Interval,      \* interval_minutes
  Missed,        \* missed_checks
  Poll,          \* law's poll interval
  WriteTime,     \* write_timeout_seconds
  RetryWait,     \* retry_seconds
  Resolution,    \* _stamp_resolution: a listing rounds times down by up to this
  MaxPerBranch,  \* max_per_branch
  Startup,       \* a worker starts its first beat within this time
  Linger,        \* CRAB drops a job that left within this time
  MaxFails,      \* bound: writes that fail in a row
  MaxOutages,    \* bound: listings that cannot be read
  MaxAttempts,   \* bound: attempts of the branch
  Horizon        \* bound: the clock

\* What watchdog_config accepts; a write never takes longer than an interval.
ASSUME ConfigAssumption ==
  /\ Interval \in Nat \ {0} /\ Missed \in Nat /\ Missed >= 2
  /\ Poll \in Resolution+1..Interval /\ WriteTime \in 0..Interval
  /\ RetryWait \in Nat \ {0} /\ Resolution \in Nat /\ MaxPerBranch \in Nat
ASSUME BoundsAssumption ==
  /\ Startup \in Nat /\ Linger \in Nat /\ MaxFails \in Nat /\ MaxOutages \in Nat
  /\ MaxAttempts \in Nat \ {0} /\ Horizon \in Nat

VARIABLES
  now,
  attempt,   \* the attempt law waits for
  crab,      \* what CRAB reports of it: "idle", "running", "ended"
  worker,    \* "none", "starting", "waiting", "writing", "dead", "left"
  due,       \* when the worker, or CRAB for one that left, does its next step at the latest
  fails,     \* _failures: writes that failed in a row
  flag       \* modification time of the branch's flag, None without one

VARIABLES
  pollAt,       \* law's next poll
  querying,     \* the poll has queried and not called back yet
  known,        \* attempt set_jobs has named, 0 before
  listed,       \* _ages: the flag's listed time; Unread without a listing
  listedAt,     \* _listed_at
  refreshedAt,  \* timed_call_wrapper: when the listing was last asked for
  firstRunning, \* _first_running of the attempt, on the listing's clock
  firstSeen,    \* _first_seen of it, on the query's
  seenFlag,     \* it is in _seen_flag
  verdicts,     \* _per_branch
  outages,      \* listings that could not be read
  beaten,       \* a beat of the attempt has landed (for the properties only)
  silentSince   \* when it was both dead and running for CRAB (likewise)

job == <<attempt, crab, worker, due, fails, flag>>
watch == <<pollAt, querying, known, listed, listedAt, refreshedAt, firstRunning, firstSeen,
           seenFlag, verdicts, outages>>
vars == <<now, job, watch, beaten, silentSince>>

None == -Resolution - 1    \* before every time
Unread == -Resolution - 2
Time == 0..Horizon
Alive == {"starting", "waiting", "writing"}

TypeOK ==
  /\ now \in Time /\ attempt \in 1..MaxAttempts
  /\ crab \in {"idle", "running", "ended"}
  /\ worker \in {"none", "dead", "left"} \union Alive
  /\ due \in 0..Horizon + Interval + Startup + Linger /\ fails \in 0..MaxFails
  /\ flag \in -Resolution..Horizon \union {None}
  /\ pollAt \in now..now + Poll /\ querying \in BOOLEAN /\ known \in 0..attempt
  /\ listed \in -Resolution..Horizon \union {None, Unread}
  /\ listedAt \in Time \union {None} /\ refreshedAt \in Time \union {None}
  /\ firstRunning \in Time \union {None} /\ firstSeen \in Time \union {None}
  /\ seenFlag \in BOOLEAN /\ verdicts \in 0..MaxPerBranch
  /\ outages \in 0..MaxOutages /\ beaten \in BOOLEAN /\ silentSince \in Time \union {None}

Init ==
  /\ now = 0 /\ attempt = 1 /\ crab = "idle" /\ worker = "none" /\ due = 0
  /\ fails = 0 /\ flag = None
  /\ pollAt = 0 /\ querying = FALSE /\ known = 0
  /\ listed = Unread /\ listedAt = None /\ refreshedAt = None
  /\ firstRunning = None /\ firstSeen = None /\ seenFlag = FALSE
  /\ verdicts = 0 /\ outages = 0 /\ beaten = FALSE /\ silentSince = None

-----------------------------------------------------------------------------
(***************************************************************************)
(* The worker.                                                             *)
(***************************************************************************)

\* How long a beat that failed n times in a row waits to be tried again: twice as
\* long each time, up to a quarter of the interval.
Backoff(n) ==
  LET doubled == RetryWait * 2^(n - 1) IN
  IF doubled \in 0..Interval \div 4 THEN doubled ELSE Interval \div 4

WorkerStarts ==
  /\ worker = "none"
  /\ worker' = "starting" /\ due' = now + Startup
  /\ UNCHANGED <<now, attempt, crab, fails, flag, watch, beaten, silentSince>>

CrabRuns ==
  /\ crab = "idle" /\ worker # "none"
  /\ crab' = "running"
  /\ silentSince' = IF worker = "dead" THEN now ELSE silentSince
  /\ UNCHANGED <<now, attempt, worker, due, fails, flag, watch, beaten>>

\* _write: gfal copies over the flag, over davs by deleting it first.
StartBeat ==
  /\ worker = "starting" \/ (worker = "waiting" /\ now = due)
  /\ worker' = "writing" /\ due' = now + WriteTime
  /\ flag' \in {flag, None}
  /\ UNCHANGED <<now, attempt, crab, fails, watch, beaten, silentSince>>

\* The storage lists the time rounded down.
EndBeat ==
  /\ worker = "writing"
  /\ worker' = "waiting" /\ due' = now + Interval /\ fails' = 0
  /\ flag' \in now-Resolution..now
  /\ beaten' = TRUE
  /\ UNCHANGED <<now, attempt, crab, watch, silentSince>>

BeatFails ==
  /\ worker = "writing" /\ fails < MaxFails
  /\ fails' = fails + 1
  /\ worker' = "waiting" /\ due' = now + Backoff(fails')
  /\ UNCHANGED <<now, attempt, crab, flag, watch, beaten, silentSince>>

\* The payload ends and the flag is removed.  The removal may fail, and a copy
\* that outlives the join may land after it.
Leave ==
  /\ worker \in Alive
  /\ worker' = "left" /\ due' = now + Linger /\ fails' = 0
  /\ flag' \in {None, flag} \union (IF worker = "writing" THEN now-Resolution..now ELSE {})
  /\ UNCHANGED <<now, attempt, crab, watch, beaten, silentSince>>

\* The node freezes or the worker is killed without removing its flag.
Die ==
  /\ worker \in Alive
  /\ worker' = "dead" /\ fails' = 0 /\ due' = 0
  /\ silentSince' = IF crab = "running" THEN now ELSE silentSince
  /\ UNCHANGED <<now, attempt, crab, flag, watch, beaten>>

\* CRAB notices, be it by its wall-clock rule.
CrabEnds ==
  /\ worker \in {"dead", "left"} /\ crab # "ended"
  /\ crab' = "ended"
  /\ silentSince' = None
  /\ UNCHANGED <<now, attempt, worker, due, fails, flag, watch, beaten>>

\* (Mutant: the driver polls at the watchdog's interval.)
NextPollByInterval == now + Interval

NextPoll == now + Poll

\* After the callback of a poll law submits a job again that ended, under a new
\* id; the watchdog's records are kept by id, so nothing is known of it.
Resubmit ==
  /\ ~querying /\ pollAt = NextPoll
  /\ crab = "ended" /\ worker = "dead" /\ attempt < MaxAttempts
  /\ attempt' = attempt + 1
  /\ crab' = "idle" /\ worker' = "none" /\ due' = 0
  /\ firstRunning' = None /\ firstSeen' = None /\ seenFlag' = FALSE
  /\ beaten' = FALSE
  /\ UNCHANGED <<now, fails, flag, pollAt, querying, known, listed, listedAt, refreshedAt,
                 verdicts, outages, silentSince>>

-----------------------------------------------------------------------------
(***************************************************************************)
(* The driver.                                                             *)
(***************************************************************************)

StaleTime == Interval * Missed
Grace == StaleTime + Interval

\* (Mutant: ages are measured against the clock of the query.)
QueryClock == now

\* The time ages and the grace are measured at.
VerdictClock == listedAt

\* _age: of the listed flag, unless it is older than the attempt.
Age(since) ==
  IF listed = None \/ listed < since - Resolution THEN None
  ELSE Max({0, VerdictClock - listed})

\* (Mutant: a job without a flag is never stale.)
StaleByFlag(age, running, seen) == age # None /\ age >= StaleTime

\* A flag that stopped moving, or none ever seen although the grace is past.
Stale(age, running, seen) ==
  IF age # None THEN age >= StaleTime
  ELSE ~seen /\ VerdictClock - running >= Grace

\* A branch is rescued max_per_branch times.
Rescuable == verdicts < MaxPerBranch

QueryDue == now = pollAt /\ ~querying
Judged == crab = "running" /\ known = attempt /\ listed # Unread

\* A poll's query with nothing for the watchdog to judge.
Query ==
  /\ QueryDue
  /\ ~Judged
  /\ querying' = TRUE
  /\ UNCHANGED <<now, job, pollAt, known, listed, listedAt, refreshedAt, firstRunning,
                 firstSeen, seenFlag, verdicts, outages, beaten, silentSince>>

\* verdicts() and _apply_watchdog: a stale job is failed, unless its branch was
\* rescued before.  law hears of it in this poll and forgets the id; what its
\* worker does from then on is not looked at.
Judge ==
  /\ QueryDue
  /\ Judged
  /\ querying' = TRUE
  /\ LET running == IF firstRunning = None THEN VerdictClock ELSE firstRunning
         seen == IF firstSeen = None THEN now ELSE firstSeen
         age == Age(seen)
         fail == Stale(age, running, seenFlag) /\ Rescuable
     IN IF fail
          THEN /\ verdicts' = verdicts + 1
               /\ firstRunning' = None /\ firstSeen' = None /\ seenFlag' = FALSE
               /\ crab' = "ended" /\ worker' = "dead" /\ due' = 0 /\ fails' = 0
               /\ silentSince' = None
          ELSE /\ firstRunning' = running /\ firstSeen' = seen
               /\ seenFlag' = (seenFlag \/ age # None)
               /\ UNCHANGED <<verdicts, crab, worker, due, fails, silentSince>>
  /\ UNCHANGED <<now, attempt, flag, pollAt, known, listed, listedAt, refreshedAt, outages,
                 beaten>>

RefreshDue == refreshedAt = None \/ now - refreshedAt >= Interval

Calling ==
  /\ querying
  /\ querying' = FALSE
  /\ pollAt' = NextPoll
  /\ known' = attempt
  /\ UNCHANGED <<now, job, firstRunning, firstSeen, seenFlag, verdicts, beaten, silentSince>>

\* crab_poll_callback between two listings.
CallBack ==
  /\ Calling
  /\ ~RefreshDue
  /\ UNCHANGED <<listed, listedAt, refreshedAt, outages>>

\* refresh(), one listing.
Refresh ==
  /\ Calling
  /\ RefreshDue
  /\ listed' = flag /\ listedAt' = now /\ refreshedAt' = now
  /\ UNCHANGED outages

\* refresh() that cannot read the listing: no evidence until the next one.
RefreshFails ==
  /\ Calling
  /\ RefreshDue
  /\ outages < MaxOutages
  /\ outages' = outages + 1
  /\ listed' = Unread /\ listedAt' = None /\ refreshedAt' = now

-----------------------------------------------------------------------------

\* Time passes while nothing is due.
Tick ==
  /\ now < Horizon
  /\ now < pollAt
  /\ worker \in Alive => now < due
  /\ worker = "left" /\ crab # "ended" => now < due
  /\ now' = now + 1
  /\ UNCHANGED <<job, watch, beaten, silentSince>>

Over == now = Horizon /\ UNCHANGED vars

Worker == WorkerStarts \/ StartBeat \/ EndBeat \/ BeatFails \/ Leave \/ Die
Driver == Query \/ Judge \/ CallBack \/ Refresh \/ RefreshFails
Next == Worker \/ CrabRuns \/ CrabEnds \/ Resubmit \/ Driver \/ Tick \/ Over

Spec == Init /\ [][Next]_vars

-----------------------------------------------------------------------------

\* A verdict only ever hits a job that is dead: neither one that beats, however
\* its beats drift against listings and queries and though one fails, nor one
\* on its way to the first beat while an earlier attempt's flag lies there,
\* nor one that left and that CRAB still shows.  The exception is a job none of whose
\* flags was ever listed: each listing of the grace fell between the delete and
\* the upload of a beat, or the last one came after the payload had left.
HealthyIsSpared ==
  [][verdicts' > verdicts => worker = "dead" \/ (listed = None /\ ~seenFlag /\ beaten)]_vars

\* A dead job with a flag CRAB shows running is failed within the bound the
\* tests derive, one without within an interval and a poll more; a listing that
\* cannot be read costs an interval and a poll.  Only a branch rescued before, or a
\* flag lost in the gap of an overwrite, is left to the wall-clock rule.
StalledIsFailed ==
  silentSince # None /\ Rescuable /\ ~(seenFlag /\ flag = None) =>
    now <= silentSince + (outages + 1) * (Interval + Poll) + Poll
             + (IF seenFlag THEN StaleTime ELSE Grace + Poll)
=============================================================================
