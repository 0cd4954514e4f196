------------------------------ MODULE SiteStats ------------------------------
(***************************************************************************)
(* The site quarantine (dsprod/site_stats.py): outcomes per site in a      *)
(* rolling window, bans that lengthen, and the blacklist of each           *)
(* submission; with what feeds it in dsprod/crab.py, the harvest of each   *)
(* readable poll, and a driver that may be restarted at any time.          *)
(*                                                                         *)
(* Time is a clock of ticks that starts at 1.  A site's outcomes are       *)
(* counted by the tick they were recorded in.                              *)
(***************************************************************************)
EXTENDS JobConfig, FiniteSetsExt, Functions

CONSTANTS
  Sites,              \* the CMS processing sites
  Whitelist,          \* crab.whitelist: the sites each entry matches
  StaticBlacklist,    \* crab.blacklist
  MinFailures,        \* min_failures
  MinFailurePercent,  \* min_failure_rate, in percent
  RelativeFactor,     \* relative_factor
  MinBaselineJobs,    \* min_baseline_jobs
  QuarantineTicks,    \* quarantine_hours
  MaxQuarantineTicks, \* max_quarantine_hours
  BurstFailures,      \* burst_failures
  BurstTicks,         \* burst_minutes
  WindowTicks,        \* window_hours
  MaxSites,           \* max_sites
  \* Bounds on the state space: the clock, jobs at a site at a time, and
  \* outcomes of a site in the window.
  MaxTime, MaxRunning, MaxEvents

ASSUME ConfigAssumption ==
  /\ IsFiniteSet(Sites) /\ Whitelist \subseteq SUBSET Sites /\ StaticBlacklist \subseteq Sites
  /\ MinFailures \in Nat \ {0} /\ MinFailurePercent \in 1..100 /\ RelativeFactor \in Nat \ {0}
  /\ MinBaselineJobs \in Nat \ {0} /\ BurstFailures \in Nat \ {0} /\ MaxSites \in Nat
  /\ QuarantineTicks \in Nat \ {0} /\ MaxQuarantineTicks \in Nat \ {0}
  /\ BurstTicks \in Nat /\ WindowTicks \in Nat
  /\ MaxTime \in Nat \ {0} /\ MaxRunning \in Nat /\ MaxEvents \in Nat

VARIABLES
  pc,         \* "polled": law may submit now; "waiting": the next poll is due
  now,
  sites,      \* SiteStats.sites: the record of each site
  inFlight,   \* SiteStats.in_flight, known since the last readable poll
  disk,       \* the saved record
  blacklist,  \* what the submission of this step keeps out
  running,    \* the jobs CRAB has at each site
  longest     \* the longest ban of each site that was saved

vars == <<pc, now, sites, inFlight, disk, blacklist, running, longest>>

Times == 1..MaxTime
\* A site is known once an outcome was recorded.
Record == [known : BOOLEAN, ok : [Times -> 0..MaxEvents], failed : [Times -> 0..MaxEvents],
           until : Nat, quarantines : Nat, clearedAt : Nat]
NewRecord == [known |-> FALSE, ok |-> [t \in Times |-> 0], failed |-> [t \in Times |-> 0],
              until |-> 0, quarantines |-> 0, clearedAt |-> 0]

TypeOK ==
  /\ pc \in {"polled", "waiting"} /\ now \in Times
  /\ sites \in [Sites -> Record] /\ disk \in [Sites -> Record]
  /\ inFlight \in [Sites -> 0..MaxRunning] /\ running \in [Sites -> 0..MaxRunning]
  /\ blacklist \subseteq Sites /\ Cardinality(blacklist) <= MaxSites
  /\ longest \in [Sites -> 0..MaxQuarantineTicks]
  /\ \A s \in Sites : sites[s].until <= now + MaxQuarantineTicks

Init ==
  /\ pc = "polled" /\ now = 1
  /\ sites = [s \in Sites |-> NewRecord] /\ disk = sites
  /\ inFlight = [s \in Sites |-> 0]
  /\ blacklist = {}
  /\ running = [s \in Sites |-> 0]
  /\ longest = [s \in Sites |-> 0]

-----------------------------------------------------------------------------
(***************************************************************************)
(* Counting.                                                               *)
(***************************************************************************)

\* The outcomes of a kind that are on record of some sites since a time, as triples
\* of the site, the tick and a number within it.
Outcomes(recs, S, kind, since) ==
  {e \in S \X Times \X (1..MaxEvents) : e[2] >= since /\ e[3] <= recs[e[1]][kind][e[2]]}
Succeeded(recs, S, since) == Cardinality(Outcomes(recs, S, "ok", since))
Failed(recs, S, since) == Cardinality(Outcomes(recs, S, "failed", since))
Ended(recs, S, since) == Succeeded(recs, S, since) + Failed(recs, S, since)

\* _counts: the jobs sent to sites, those in flight included.
Flying(S) == {e \in S \X (1..MaxRunning) : e[2] <= inFlight[e[1]]}
Sent(recs, S, since) == Ended(recs, S, since) + Cardinality(Flying(S))

\* A failure rate of n_fail in n is at least the minimum, and RelativeFactor
\* times the rate of the others, of whom there are enough.
Stands(nFail, n, othersFailed, others) ==
  /\ 100 * nFail >= MinFailurePercent * n
  /\ others >= MinBaselineJobs
  /\ nFail * others >= RelativeFactor * othersFailed * n

Others(recs, s) == {o \in Sites \ {s} : recs[o].known}

\* _is_failing, with _baseline: the outcomes since the last ban ended, against
\* all that is on record of the other sites.
IsFailing(recs, s) ==
  LET nFail == Failed(recs, {s}, recs[s].clearedAt) IN
  /\ nFail >= MinFailures
  /\ Stands(nFail, Sent(recs, {s}, recs[s].clearedAt),
            Failed(recs, Others(recs, s), 0), Sent(recs, Others(recs, s), 0))

\* _is_burst, with _ended_since and _burst_baseline: what ended in a short time.
IsBurst(recs, s) ==
  LET since == Max({now - BurstTicks, recs[s].clearedAt})
      nFail == Failed(recs, {s}, since) IN
  /\ nFail >= BurstFailures
  /\ Stands(nFail, Ended(recs, {s}, since),
            Failed(recs, Others(recs, s), since), Ended(recs, Others(recs, s), since))

-----------------------------------------------------------------------------
(***************************************************************************)
(* blacklist()                                                             *)
(***************************************************************************)

\* _prune: outcomes that left the window are dropped.
Pruned(rec) ==
  LET Kept(counts) == [t \in Times |-> IF t >= now - WindowTicks THEN counts[t] ELSE 0] IN
  [rec EXCEPT !.ok = Kept(@), !.failed = Kept(@)]

IsOver(rec) == 0 < rec.until /\ rec.until <= now
Banned(rec) == rec.until > now

\* (Mutant: the record starts from scratch when a ban ends.)
ExpiredAfresh(rec) == IF IsOver(rec) THEN NewRecord ELSE rec
\* (Mutant: the outcomes that earned the ban go on judging the site.)
ExpiredUncleared(rec) == IF IsOver(rec) THEN [rec EXCEPT !.until = 0] ELSE rec
\* (Mutant: the evidence starts when the end of the ban is noticed.)
ExpiredLate(rec) ==
  IF IsOver(rec) THEN [rec EXCEPT !.clearedAt = now, !.until = 0] ELSE rec

\* _expire: a ban that ran out is lifted as of the moment it ended.
Expired(rec) ==
  IF IsOver(rec) THEN [rec EXCEPT !.clearedAt = rec.until, !.until = 0] ELSE rec

\* _quarantine_seconds: doubled once per ban before, up to the ceiling.  (The code
\* stops at 20 doublings, long after the ceiling it ships with.)
QuarantineLength(rec) == Min({QuarantineTicks * 2 ^ rec.quarantines, MaxQuarantineTicks})

\* _quarantine
Judged(recs) ==
  [s \in Sites |->
     IF ~Banned(recs[s]) /\ (IsBurst(recs, s) \/ IsFailing(recs, s))
     THEN [recs[s] EXCEPT !.until = now + QuarantineLength(recs[s]), !.quarantines = @ + 1]
     ELSE recs[s]]

\* (Mutant: every banned site is kept out.)
AllBanned(recs, bl) == bl = {s \in Sites : Banned(recs[s])}

\* The blacklist holds the banned sites, and of too many those with the most
\* failures on record.
Worst(recs, bl) ==
  LET active == {s \in Sites : Banned(recs[s])} IN
  /\ bl \subseteq active
  /\ Cardinality(bl) = Min({MaxSites, Cardinality(active)})
  /\ \A s \in bl, o \in active \ bl : Failed(recs, {s}, 0) >= Failed(recs, {o}, 0)

-----------------------------------------------------------------------------
(***************************************************************************)
(* The driver.                                                             *)
(***************************************************************************)

\* What a save makes of the history: the longest ban on record.
Longest ==
  [s \in Sites |->
     IF sites[s].quarantines > disk[s].quarantines
     THEN QuarantineLength([sites[s] EXCEPT !.quarantines = @ - 1]) ELSE longest[s]]

\* A poll that finds no new outcome: what is in flight is counted, and what a
\* submission changed is saved.
Poll ==
  /\ pc' = "polled"
  /\ inFlight' = running
  /\ disk' = sites
  /\ longest' = Longest
  /\ blacklist' = {}
  /\ UNCHANGED <<now, sites, running>>

\* A poll that cannot be read keeps its jobs pending, and law goes on.
PollUnread ==
  /\ pc' = "polled"
  /\ blacklist' = {}
  /\ UNCHANGED <<now, sites, inFlight, disk, running, longest>>

\* harvest_site_stats finds a job that ended: record(), which prunes, then
\* set_in_flight and save.
Harvest(s, outcome) ==
  /\ running[s] > 0 /\ Ended(sites, {s}, now - WindowTicks) < MaxEvents
  /\ running' = [running EXCEPT ![s] = @ - 1]
  /\ sites' = [o \in Sites |-> Pruned(
       IF o # s THEN sites[o]
       ELSE IF outcome = "ok" THEN [sites[o] EXCEPT !.known = TRUE, !.ok[now] = @ + 1]
       ELSE [sites[o] EXCEPT !.known = TRUE, !.failed[now] = @ + 1])]
  /\ inFlight' = running'
  /\ disk' = sites'
  /\ longest' = Longest
  /\ pc' = "polled"
  /\ blacklist' = {}
  /\ UNCHANGED now

\* crab_job_config: the blacklist is asked for, and CRAB sends the jobs to what
\* the whitelist names, whatever the blacklist says.  A whitelist
\* with nothing left is an error.  Nothing is saved here.
Submit ==
  /\ pc = "polled" /\ pc' = "waiting"
  /\ sites' = Judged([s \in Sites |-> Expired(Pruned(sites[s]))])
  /\ \E bl \in SUBSET Sites : Worst(sites', bl) /\ blacklist' = bl
  /\ \/ \E e \in resolve_whitelist(Whitelist, StaticBlacklist \cup blacklist', Sites), s \in Sites :
          /\ s \in e /\ running[s] < MaxRunning
          /\ running' = [running EXCEPT ![s] = @ + 1]
     \/ UNCHANGED running
  /\ UNCHANGED <<now, inFlight, disk, longest>>

\* The driver ends, or is killed, and another one starts and reads the file
\* back (load()).
Restart ==
  /\ pc' = "waiting"
  /\ sites' = disk
  /\ inFlight' = [s \in Sites |-> 0]
  /\ blacklist' = {}
  /\ UNCHANGED <<now, disk, running, longest>>

Tick ==
  /\ now < MaxTime /\ now' = now + 1
  /\ blacklist' = {}
  /\ UNCHANGED <<pc, sites, inFlight, disk, running, longest>>

Next == \/ Poll \/ PollUnread \/ (\E s \in Sites, o \in {"ok", "failed"} : Harvest(s, o))
        \/ Submit \/ Restart \/ Tick

Spec == Init /\ [][Next]_vars

-----------------------------------------------------------------------------
(***************************************************************************)
(* Properties.                                                             *)
(***************************************************************************)

\* The end of the last ban of a site, noticed or not.
LastEnd(rec) == IF IsOver(rec) THEN rec.until ELSE rec.clearedAt
Recent(s) == Max({LastEnd(sites[s]), now - WindowTicks})
BanStarts(s) == sites'[s].quarantines > sites[s].quarantines

\* The docstrings of _counts and _expire: the outcomes a ban was served for do not
\* earn the next one.  A ban takes MinFailures, or a burst, of failures in the
\* window and after the end of the ban before, whoever was restarted in between.
BanNeedsFreshFailures ==
  [][\A s \in Sites : BanStarts(s) /\ ~Banned(sites[s]) =>
       Failed(sites, {s}, Recent(s)) >= Min({MinFailures, BurstFailures})]_vars

\* The other half: what a site failed after its ban counts from the moment the ban ended, not
\* from when that was noticed.  A site where every job since then failed, and none is
\* left, while all others succeed, is out of the next submission, unless
\* the list is full.
BlackHoleIsHeldOut ==
  [][Submit =>
     \A s \in Sites :
       /\ ~Banned(sites[s]) /\ inFlight[s] = 0
       /\ Failed(sites, {s}, Recent(s)) >= MinFailures
       /\ Succeeded(sites, {s}, Recent(s)) = 0
       /\ Failed(sites, Others(sites, s), now - WindowTicks) = 0
       /\ Succeeded(sites, Others(sites, s), now - WindowTicks) >= MinBaselineJobs
       => s \in blacklist' \/ Cardinality(blacklist') = MaxSites]_vars

\* A ban that was saved is served: until it ends no submission may send a job to the
\* site, whoever was restarted, unless more sites are banned than the cap keeps out.
BanIsServed ==
  [][\A s \in Sites : running'[s] > running[s] /\ Banned(disk[s]) =>
       Cardinality({o \in Sites : Banned(sites'[o])}) > MaxSites]_vars

\* The comment on quarantine_hours: each further ban doubles the last, up to the
\* ceiling, and polling through a running ban does not move its end.
BansEscalate ==
  [][\A s \in Sites : BanStarts(s) =>
       /\ ~Banned(sites[s])
       /\ sites'[s].until - now >= Min({2 * longest[s], MaxQuarantineTicks})]_vars

\* The comments in crab_job_config on memory and cores: what a task is submitted
\* with is what was asked for, never less, and what CRAB accepts.
SubmissionHonoursRequest == [][Submit => RequestIsHonoured]_vars
=============================================================================
