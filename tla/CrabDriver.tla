----------------------------- MODULE CrabDriver -----------------------------
(***************************************************************************)
(* The driver of a CRAB production: DSProdCrabWorkflowProxy over law's     *)
(* remote-workflow loop.  law keeps the jobs it submitted in "jobs" and    *)
(* the ones it did not in "unsubmitted_jobs" (here: jobs and backlog),     *)
(* polls, offers failed jobs to submit() and counts a failed job against   *)
(* its retries.  The proxy puts three gates before law's submit(): a brake *)
(* on a resumed run whose products are gone, a probe of law's own source   *)
(* tree, and the wave gate, which holds jobs back until they are worth a   *)
(* CRAB task of their own.  What a gate holds back is parked at the front  *)
(* of the backlog.                                                         *)
(*                                                                         *)
(* The driver dies about daily and is started again from the submission    *)
(* file; the batch system, the storage and the tree answer as they like.   *)
(* One job covers one branch (tasks_per_job is 1), jobs are numbered from  *)
(* 1 and the loop's clock counts polls.                                    *)
(***************************************************************************)
EXTENDS Integers, FiniteSets, SequencesExt

CONSTANTS
  NJobs,          \* branches of the workflow
  NParallel,      \* poll_data.n_parallel: jobs in flight
  RefillPercent,  \* refill_fraction, in percent of NParallel
  ReleasePolls,   \* retry_release_minutes, in polls
  Retries,        \* law: resubmissions of one job in one run of the driver
  Tolerance,      \* law: failed jobs the loop survives
  MaxLegs,        \* bound: times the driver is started
  MaxLosses,      \* bound: times products vanish from the storage
  EarlyLosses     \* TRUE: also between luigi's scheduling and law's listing

Jobs == 1..NJobs

ASSUME SizesAssumption == NJobs \in Nat \ {0} /\ NParallel \in Nat \ {0}
ASSUME GateAssumption == RefillPercent \in 0..100 /\ ReleasePolls \in Nat
ASSUME BudgetAssumption == Retries \in Nat /\ Tolerance \in Nat
ASSUME BoundsAssumption == MaxLegs \in Nat \ {0} /\ MaxLosses \in Nat /\ EarlyLosses \in BOOLEAN

VARIABLES
  pc,        \* where the driver is: "down", "submit", "create", "record", "enter", "poll", "done"
  resumed,   \* law's _submitted: this run started from a submission file
  jobs,      \* job_data.jobs: law's status of each job, "none" when it is not in there
  backlog,   \* job_data.unsubmitted_jobs, in dict order
  attempts,  \* the jobs job_data.attempts has a failure count of
  retries,   \* _job_retries: resubmissions law granted in this run
  dead,      \* jobs the poll loop counts as failed for good
  nJobs,     \* the job count poll() fixed on entry; 0 outside the loop
  first,     \* law's i == 0: the loop is in its first iteration
  condemned, \* for NoMassRegeneration: the finished jobs a resumed run found gone en masse
  active,    \* poll_data.n_active of the last answered poll
  offered,   \* the retries this poll hands to submit()
  wave,      \* the jobs of the CRAB task being created
  existing,  \* branches whose outputs existed when law looked; Unknown before
  clock,     \* polls since _retry_parked_since; Off while that is None
  disk       \* the submission file

VARIABLES
  crab,      \* what CRAB answers for the recorded id of each job
  orphans,   \* jobs that run under an id no submission file knows
  outputs,   \* jobs whose outputs are on the storage
  uncounted, \* jobs that failed since law was last answered; a new run has counted none
  legs,      \* times the driver was started
  losses     \* times products vanished

memory == <<resumed, jobs, backlog, attempts, retries, dead, nJobs, first,
            condemned, active, offered, wave, existing, clock>>
world == <<crab, orphans, outputs, uncounted, losses>>
vars == <<pc, memory, disk, world, legs>>

Off == -1
Unknown == {0}
NoFile == [jobs |-> <<>>, backlog |-> <<>>, attempts |-> {}]
Recorded == {j \in Jobs : jobs[j] # "none"}
Statuses == {"none", "active", "finished", "retry", "missing"}

TypeOK ==
  /\ pc \in {"down", "submit", "create", "record", "enter", "poll", "done"}
  /\ jobs \in [Jobs -> Statuses]
  /\ backlog \in BoundedSeq(Jobs, NJobs) /\ IsInjective(backlog)
  /\ attempts \subseteq Jobs /\ retries \in [Jobs -> 0..Retries]
  /\ dead \subseteq Jobs /\ offered \subseteq Jobs /\ wave \subseteq Jobs
  /\ nJobs \in 0..2*NJobs /\ active \in 0..NJobs /\ condemned \subseteq Jobs
  /\ resumed \in BOOLEAN /\ first \in BOOLEAN
  /\ existing \in (SUBSET Jobs) \union {Unknown}
  /\ clock \in {Off} \union 0..ReleasePolls
  /\ crab \in [Jobs -> {"none", "running", "finished", "failed"}]

-----------------------------------------------------------------------------
(***************************************************************************)
(* Helpers.                                                                *)
(***************************************************************************)

InOrder(S) ==
  CHOOSE s \in SetToSeqs(S) : \A i, k \in DOMAIN s : i < k => s[i] < s[k]

\* A sequence of jobs without those of S.
Without(s, S) ==
  LET kept == InOrder({i \in DOMAIN s : s[i] \notin S})
  IN [k \in DOMAIN kept |-> s[kept[k]]]

\* law's _can_skip_job: the verdict rests on one listing, taken when it is first
\* needed, and a job it skips is entered in jobs as finished.
Listing == IF existing = Unknown THEN outputs ELSE existing
Skip(S) == S \intersect Listing
Entered(js, S) == [j \in Jobs |-> IF j \in S THEN "finished" ELSE js[j]]

\* _parked_retries: jobs of the backlog that have been attempted.
Parked == ToSet(backlog) \intersect attempts

\* (Mutant: only parking starts the clock, and nothing stops it.)
RetryReleaseClockByParking(b, afterRelease) == clock

\* _update_retry_release_clock, with the backlog as it will be.
RetryReleaseClock(b, afterRelease) ==
  IF ToSet(b) \intersect attempts = {} THEN Off
  ELSE IF afterRelease \/ clock = Off THEN 0 ELSE clock

\* (Mutant: no timer, the size bar alone.)
ParkedRetriesNeverDue(c) == FALSE

\* _parked_retries_are_due.
ParkedRetriesAreDue(c) == c # Off /\ c >= ReleasePolls

\* (Mutant: a wave that can no longer be filled is waited for.)
ShouldSubmitFullWave(nBacklog, nRetry, c) ==
  \/ 100 * Min({nBacklog, NParallel - active}) >= RefillPercent * NParallel
  \/ ParkedRetriesAreDue(c)

\* _should_submit_crab_group: a full wave that fits, the tail of the production,
\* or retries that have waited out the release window.
ShouldSubmitCrabGroup(nBacklog, nRetry, c) ==
  LET minWave(n) == 100 * n >= RefillPercent * NParallel IN
  \/ nBacklog + nRetry = 0
  \/ minWave(Min({nBacklog, NParallel - active}))
  \/ ~minWave(active + nBacklog + nRetry)
  \/ ParkedRetriesAreDue(c)

\* The submission file as dump_job_data writes it.
File(js, b, att) == [jobs |-> js, backlog |-> b, attempts |-> att]

\* Everything the driver keeps in memory is gone.
Forget ==
  /\ resumed' = FALSE /\ first' = FALSE
  /\ jobs' = [j \in Jobs |-> "none"] /\ backlog' = <<>>
  /\ attempts' = {} /\ retries' = [j \in Jobs |-> 0]
  /\ dead' = {} /\ nJobs' = 0 /\ active' = 0 /\ offered' = {} /\ wave' = {}
  /\ condemned' = {} /\ existing' = Unknown /\ clock' = Off

\* Nothing runs and no submission file exists; all products but one of
\* an earlier production may be there (with all of them there is nothing to run).
Init ==
  /\ pc = "down" /\ legs = 0 /\ losses = 0
  /\ resumed = FALSE /\ first = FALSE
  /\ jobs = [j \in Jobs |-> "none"] /\ backlog = <<>>
  /\ attempts = {} /\ retries = [j \in Jobs |-> 0]
  /\ dead = {} /\ nJobs = 0 /\ active = 0 /\ offered = {} /\ wave = {}
  /\ condemned = {} /\ existing = Unknown /\ clock = Off
  /\ disk = NoFile
  /\ crab = [j \in Jobs |-> "none"] /\ orphans = {}
  /\ outputs \in {{}, 1..NJobs-1}
  /\ uncounted = {}

-----------------------------------------------------------------------------
(***************************************************************************)
(* Starting the driver.                                                    *)
(***************************************************************************)

\* Without a submission file: luigi's scheduling entered the complete jobs as
\* finished, every job is put in the backlog, and law submits before it polls.
StartFresh ==
  /\ pc = "down" /\ disk = NoFile /\ legs < MaxLegs
  /\ legs' = legs + 1
  /\ jobs' = Entered([j \in Jobs |-> "none"], outputs)
  /\ backlog' = InOrder(Jobs)
  /\ pc' = "submit"
  /\ UNCHANGED <<resumed, attempts, retries, dead, nJobs, first, condemned, active,
                 offered, wave, existing, clock, disk, world>>

\* With one: every job in it that is not finished is queried again, and the
\* retry budget is fresh.  The verdicts of the scheduling are forgotten.  The
\* file says of a job what it was, not why: a retry is one whatever its error.
StartResumed ==
  /\ pc = "down" /\ disk # NoFile /\ legs < MaxLegs
  /\ legs' = legs + 1
  /\ resumed' = TRUE
  /\ jobs' = [j \in Jobs |-> IF disk.jobs[j] \in {"none", "finished"} THEN disk.jobs[j] ELSE "active"]
  /\ backlog' = disk.backlog
  /\ attempts' = disk.attempts
  /\ uncounted' = Jobs
  /\ pc' = "enter"
  /\ UNCHANGED <<retries, dead, nJobs, first, condemned, active, offered, wave, existing,
                 clock, disk, crab, orphans, outputs, losses>>

\* (Mutant: the job count is fixed with the complete jobs still in the backlog.)
EnterWithoutDrop ==
  /\ pc = "enter" /\ pc' = "poll"
  /\ nJobs' = Cardinality(Recorded) + Len(backlog)
  /\ first' = TRUE
  /\ UNCHANGED <<resumed, jobs, backlog, attempts, retries, dead, condemned, active,
                 offered, wave, existing, clock, disk, world, legs>>

\* poll(): _drop_complete_backlog, then law fixes the job count.
Enter ==
  /\ pc = "enter"
  /\ LET skipped == Skip(ToSet(backlog)) IN
       /\ existing' = IF backlog = <<>> THEN existing ELSE Listing
       /\ jobs' = Entered(jobs, skipped)
       /\ backlog' = Without(backlog, skipped)
       /\ nJobs' = Cardinality(Recorded \union skipped) + Len(backlog')
  /\ first' = TRUE
  /\ pc' = "poll"
  /\ UNCHANGED <<resumed, attempts, retries, dead, condemned, active, offered, wave, clock,
                 disk, world, legs>>

-----------------------------------------------------------------------------
(***************************************************************************)
(* One iteration of law's poll loop, up to submit().                       *)
(***************************************************************************)

Ticked == IF clock = Off THEN Off ELSE Min({clock + 1, ReleasePolls})

\* More than a tenth of the production, and at least two jobs.
Mass(S) == Cardinality(S) >= 2 /\ 10 * Cardinality(S) > NJobs
\* What the first iteration of a resumed run comes upon is kept for the property.
Condemned(S) == IF resumed /\ first /\ Mass(S) THEN S ELSE condemned

\* Finished jobs, by the file, without their products.
FinishedInVain == {j \in Jobs : jobs[j] = "finished"} \ outputs

\* A query that got no answer skips the iteration, the first one too; too many
\* in a row end the run (Die).
Unanswered ==
  /\ pc = "poll"
  /\ clock' = Ticked
  /\ first' = FALSE
  /\ condemned' = Condemned(FinishedInVain)
  /\ UNCHANGED <<pc, resumed, jobs, backlog, attempts, retries, dead, nJobs, active,
                 offered, wave, existing, disk, world, legs>>

\* A poll asks for every recorded job that has not ended, an offered retry left
\* where it was included: its old CRAB id is the one asked for.
Asked == {j \in Jobs \ dead : jobs[j] \notin {"none", "finished"}}
StillActive == {j \in Asked : crab[j] = "running"}
\* (Mutant: what CRAB reports finished is taken as done.)
AcceptedUnseen == {j \in Asked : crab[j] = "finished"}
\* A finished job counts only with its outputs on the storage, asked for anew.
Accepted == {j \in Asked : crab[j] = "finished" /\ j \in outputs}
\* The first iteration of a resumed run looks for the outputs of every job that
\* is finished, by the file or by the answer: "initially missing task outputs".
\* (Mutant: by the file only.)
MissingOnFile == IF resumed /\ first THEN FinishedInVain ELSE {}
Gone == FinishedInVain \union ({j \in Asked : crab[j] = "finished"} \ outputs)
Missing == IF resumed /\ first THEN Gone ELSE {}
Broken == Asked \ (StillActive \union Accepted \union Missing)
Failed == Broken \union Missing
\* (Mutant: one resubmission too many.)
SpentLate == {j \in Failed : retries[j] > Retries}
Spent == {j \in Failed : retries[j] = Retries}
Finished == ({j \in Jobs : jobs[j] = "finished"} \ Missing) \union Accepted

PolledJobs == [j \in Jobs |-> CASE j \in Broken -> "retry"
                                [] j \in Missing -> "missing"
                                [] j \in Accepted -> "finished"
                                [] OTHER -> jobs[j]]
PolledAttempts == attempts \union Failed

\* law stops when every job is finished or failed, or too many failed.
Complete == Cardinality(Finished) = nJobs
Over == \/ Cardinality(Finished) + Cardinality(dead \union Spent) = nJobs
        \/ Cardinality(dead \union Spent) > Tolerance

\* Statuses and attempts are in the submission file before anything is offered;
\* an accepted job loses its CRAB id.
Answered ==
  /\ pc = "poll"
  /\ disk' = File(PolledJobs, backlog, PolledAttempts)
  /\ crab' = [j \in Jobs |-> IF j \in Accepted THEN "none" ELSE crab[j]]
  /\ uncounted' = {}
  /\ UNCHANGED <<orphans, outputs, losses, legs>>

\* The loop ends: every job finished, or luigi is told the workflow failed.
PollEnds ==
  /\ Answered
  /\ Over
  /\ pc' = IF Complete THEN "done" ELSE "down"
  /\ Forget

\* The loop goes on and offers what failed, a job out of retries one last time.
PollOffers ==
  /\ Answered
  /\ ~Over
  /\ pc' = "submit"
  /\ jobs' = PolledJobs
  /\ attempts' = PolledAttempts
  /\ retries' = [j \in Jobs |-> IF j \in Failed \ Spent THEN retries[j] + 1 ELSE retries[j]]
  /\ dead' = dead \union Spent
  /\ offered' = Failed
  /\ active' = Cardinality(StillActive)
  /\ first' = FALSE
  /\ condemned' = Condemned(Gone)
  /\ clock' = Ticked
  /\ UNCHANGED <<resumed, backlog, nJobs, wave, existing>>

-----------------------------------------------------------------------------
(***************************************************************************)
(* submit().                                                               *)
(***************************************************************************)

NextRound == IF nJobs = 0 THEN "enter" ELSE "poll"

\* stop_on_mass_initial_retry: more than a tenth of a resumed production (and at
\* least two jobs) lost its outputs.
MassInitialRetry ==
  LET n == Cardinality({j \in offered : jobs[j] = "missing"}) IN
  resumed /\ n >= 2 /\ 10 * n > Cardinality(Recorded) + Len(backlog)

stop_on_mass_initial_retry ==
  /\ pc = "submit"
  /\ MassInitialRetry
  /\ pc' = "down" /\ Forget /\ UNCHANGED <<disk, world, legs>>

\* (Mutants: the retries are kept outside the backlog; each generation parked
\* restarts the window.)
park_retries_aside(c) ==
  LET skipped == Skip(offered)
      parked == offered \ skipped
  IN /\ jobs' = Entered([j \in Jobs |-> IF j \in parked THEN "none" ELSE jobs[j]], skipped)
     /\ backlog' = backlog
     /\ clock' = IF parked # {} /\ c = Off THEN 0 ELSE c
     /\ existing' = IF offered = {} THEN existing ELSE Listing
     /\ offered' = {}

park_retries_restarting(c) ==
  LET skipped == Skip(offered)
      parked == offered \ skipped
  IN /\ jobs' = Entered([j \in Jobs |-> IF j \in parked THEN "none" ELSE jobs[j]], skipped)
     /\ backlog' = InOrder(parked) \o Without(backlog, parked)
     /\ clock' = IF parked # {} THEN 0 ELSE c
     /\ existing' = IF offered = {} THEN existing ELSE Listing
     /\ offered' = {}

\* _park_retries: the offered jobs that are not complete go to the front of the
\* backlog, and a release window runs for them.
park_retries(c) ==
  LET skipped == Skip(offered)
      parked == offered \ skipped
  IN /\ jobs' = Entered([j \in Jobs |-> IF j \in parked THEN "none" ELSE jobs[j]], skipped)
     /\ backlog' = InOrder(parked) \o Without(backlog, parked)
     /\ clock' = IF parked # {} /\ c = Off THEN 0 ELSE c
     /\ existing' = IF offered = {} THEN existing ELSE Listing
     /\ offered' = {}

\* (Mutants: the round is skipped and the retries stay where they are; it is
\* skipped before the brake is looked at.)
SkipRoundUnparked ==
  /\ pc = "submit" /\ ~MassInitialRetry
  /\ offered' = {}
  /\ pc' = NextRound
  /\ UNCHANGED <<resumed, jobs, backlog, attempts, retries, dead, nJobs, first, condemned,
                 active, wave, existing, clock, disk, world, legs>>
SkipRoundBeforeBrake ==
  /\ pc = "submit"
  /\ park_retries(clock)
  /\ pc' = NextRound
  /\ UNCHANGED <<resumed, attempts, retries, dead, nJobs, first, condemned, active, wave,
                 disk, world, legs>>

\* law's tree cannot be read: the round is skipped, its retries are parked, and
\* nothing is dumped.
SkipRound ==
  /\ pc = "submit"
  /\ ~MassInitialRetry
  /\ park_retries(clock)
  /\ pc' = NextRound
  /\ UNCHANGED <<resumed, attempts, retries, dead, nJobs, first, condemned, active, wave,
                 disk, world, legs>>

\* n_parallel less what the last answered poll found active.
\* (Mutant: every wave may fill n_parallel.)
AllSlots == NParallel
FreeSlots == Max({0, NParallel - active})

GateOpens ==
  ShouldSubmitCrabGroup(Len(backlog), Cardinality(offered), RetryReleaseClock(backlog, FALSE))

\* The gate is closed: park what is offered and dump, or only wait.
HoldBack ==
  /\ pc = "submit"
  /\ ~MassInitialRetry
  /\ ~GateOpens
  /\ park_retries(RetryReleaseClock(backlog, FALSE))
  /\ disk' = IF offered = {} THEN disk ELSE File(jobs', backlog', attempts)
  /\ pc' = NextRound
  /\ UNCHANGED <<resumed, attempts, retries, dead, nJobs, first, condemned, active, wave,
                 world, legs>>

\* law's submit(): the retries first, those beyond the free slots to the end of
\* the backlog, then the backlog in its order up to n_parallel.  A job is one key
\* of either mapping: it takes one slot, and one place in the backlog.
LawSubmit ==
  /\ pc = "submit"
  /\ ~MassInitialRetry
  /\ GateOpens
  /\ LET skipped == Skip(offered \union ToSet(backlog))
         again == InOrder(offered \ skipped)
         taken == ToSet(SubSeq(again, 1, Min({FreeSlots, Len(again)})))
         overflow == Without(again, taken)
         waiting == Without(backlog, skipped)
         before(k) == taken \union {waiting[i] : i \in 1..k-1}
         filling == {waiting[k] : k \in {i \in DOMAIN waiting : Cardinality(before(i)) < FreeSlots}}
     IN /\ existing' = IF offered = {} /\ backlog = <<>> THEN existing ELSE Listing
        /\ wave' = taken \union filling
        /\ backlog' = Without(waiting, filling) \o Without(overflow, ToSet(waiting))
        /\ jobs' = Entered([j \in Jobs |-> IF j \in ToSet(overflow) THEN "none" ELSE jobs[j]],
                           skipped)
        /\ IF wave' = {}
             THEN /\ disk' = File(jobs', backlog', attempts)
                  /\ clock' = RetryReleaseClock(backlog', TRUE)
                  /\ pc' = NextRound
             ELSE /\ clock' = RetryReleaseClock(backlog, FALSE)
                  /\ pc' = "create"
                  /\ UNCHANGED disk
  /\ offered' = {}
  /\ UNCHANGED <<resumed, attempts, retries, dead, nJobs, first, condemned, active, world,
                 legs>>

\* CRAB accepts the task; only then does law write down its jobs' ids.
CreateTask ==
  /\ pc = "create"
  /\ pc' = "record"
  /\ UNCHANGED <<memory, disk, world, legs>>

\* law enters the new ids; a job that still runs under an older one runs on.
Record(answer) ==
  /\ jobs' = [j \in Jobs |-> IF j \in wave THEN "active" ELSE jobs[j]]
  /\ crab' = [j \in Jobs |-> IF j \in wave THEN answer ELSE crab[j]]
  /\ orphans' = orphans \union {j \in wave : crab[j] = "running"}
  /\ disk' = File(jobs', backlog, attempts)
  /\ clock' = RetryReleaseClock(backlog, TRUE)
  /\ wave' = {}
  /\ pc' = NextRound
  /\ UNCHANGED <<resumed, backlog, attempts, retries, dead, nJobs, first, condemned, active,
                 offered, existing, outputs, losses, legs>>

RecordTask == pc = "record" /\ Record("running") /\ UNCHANGED uncounted

\* The submission failed: the jobs get no usable id, and fail at the next poll.
SubmissionFails ==
  /\ pc = "create"
  /\ Record("none")
  /\ uncounted' = uncounted \union wave

\* The driver dies: killed, its credentials gone, an exception nothing catches
\* (create() for a tree that vanished, crab_poll_callback for a stop reason).
\* A task CRAB accepted but law did not write down runs on unknown.
Die ==
  /\ pc \notin {"down", "done"}
  /\ orphans' = IF pc = "record" THEN orphans \union wave ELSE orphans
  /\ pc' = "down"
  /\ Forget
  /\ UNCHANGED <<disk, crab, outputs, uncounted, losses, legs>>

-----------------------------------------------------------------------------
(***************************************************************************)
(* The world.                                                              *)
(***************************************************************************)

\* Nobody starts the driver again: what happens from here on is not looked at.
Resting == pc = "done" \/ (pc = "down" /\ legs = MaxLegs)
Rest == Resting /\ UNCHANGED vars

\* A job ends; its outputs may be missing although it is reported finished.
JobEnds(j) ==
  /\ ~Resting
  /\ crab[j] = "running"
  /\ \/ /\ crab' = [crab EXCEPT ![j] = "finished"]
        /\ outputs' = outputs \union {j}
        /\ UNCHANGED uncounted
     \/ /\ \E answer \in {"finished", "failed"} : crab' = [crab EXCEPT ![j] = answer]
        /\ uncounted' = uncounted \union {j}
        /\ UNCHANGED outputs
  /\ UNCHANGED <<pc, memory, disk, orphans, losses, legs>>

OrphanEnds(j) ==
  /\ ~Resting
  /\ j \in orphans
  /\ orphans' = orphans \ {j}
  /\ outputs' \in {outputs, outputs \union {j}}
  /\ UNCHANGED <<pc, memory, disk, crab, uncounted, losses, legs>>

\* A fresh run has entered as finished what luigi's scheduling saw, and has not
\* looked again yet.
Unlisted == nJobs = 0 /\ existing = Unknown /\ ~resumed /\ pc # "down"

LoseOutputs ==
  /\ ~Resting
  /\ EarlyLosses \/ ~Unlisted
  /\ losses < MaxLosses
  /\ losses' = losses + 1
  /\ \E gone \in SUBSET outputs \ {{}} :
       outputs' = outputs \ gone /\ uncounted' = uncounted \union gone
  /\ UNCHANGED <<pc, memory, disk, crab, orphans, legs>>

World == (\E j \in Jobs : JobEnds(j) \/ OrphanEnds(j)) \/ LoseOutputs

Submit == HoldBack \/ LawSubmit
Driver == \/ StartFresh \/ StartResumed \/ Enter \/ Unanswered \/ PollEnds \/ PollOffers
          \/ stop_on_mass_initial_retry \/ SkipRound \/ Submit \/ CreateTask \/ RecordTask
          \/ SubmissionFails \/ Die

Next == Driver \/ World \/ Rest

Spec == Init /\ [][Next]_vars

\* law goes through its loop, a query is answered at last, the tree of law is
\* not always unreadable when a round is due (a real outage ends the run at the
\* next dump).
Fairness ==
  /\ WF_vars(Enter) /\ WF_vars(PollEnds \/ PollOffers)
  /\ WF_vars(CreateTask \/ SubmissionFails) /\ WF_vars(RecordTask)
  /\ WF_vars(stop_on_mass_initial_retry \/ SkipRound \/ Submit) /\ SF_vars(Submit)
FairSpec == Spec /\ Fairness
\* The batch system brings every job it holds to an end.
JobsEnd == \A j \in Jobs : WF_vars(JobEnds(j))

-----------------------------------------------------------------------------
(***************************************************************************)
(* Properties.                                                             *)
(***************************************************************************)

\* Inside the loop every job is in exactly one of jobs and unsubmitted_jobs and
\* the count poll() fixed on entry is theirs: a job counted twice, or lost while
\* it is parked, leaves the loop waiting for a job that is not there.
EveryJobCountedOnce ==
  pc \in {"poll", "submit"} /\ nJobs > 0 =>
    /\ Recorded \intersect ToSet(backlog) = {}
    /\ Recorded \union ToSet(backlog) = Jobs
    /\ nJobs = NJobs

\* Whenever the driver dies, the submission file accounts for every job: a
\* restart loses none of them.
DiskAccountsForAll ==
  disk # NoFile => \A j \in Jobs : disk.jobs[j] # "none" \/ j \in ToSet(disk.backlog)

\* A new CRAB task never takes the jobs law has in flight over n_parallel, whatever
\* opened the gate and whatever a restart found running.  law does not count what it
\* no longer polls, nor does this: a task it did not write down (orphans), and the
\* one last offer of a job out of retries (dead).
InFlightCap ==
  pc \in {"create", "record"} =>
    Cardinality(wave \union {j \in Jobs \ dead : jobs[j] = "active" /\ crab[j] = "running"})
      <= NParallel

\* law counts a failure only when there is a new one, however many rounds were
\* skipped or held back since; only dying between counting a failure and
\* submitting the retry has the next driver count it again.
OneAttemptPerFailure == pc = "poll" => Failed \subseteq uncounted

\* A retry this run granted and still holds back is on a release clock, also
\* after a release that could not take it, and the clock runs for nothing else.
\* (Those a previous driver parked join it at the first round not skipped.)
ParkedIsOnTheClock ==
  pc = "poll" =>
    /\ (\E j \in Parked : retries[j] > 0 \/ j \in dead) => clock # Off
    /\ clock # Off => Parked # {}

\* Parking more retries never restarts the window of those already waiting:
\* only a round that submitted does.
WindowKeepsRunning ==
  [][clock # Off /\ Parked \intersect Parked' # {} /\ pc \notin {"record", "create"}
       => clock' >= clock \/ LawSubmit]_vars

\* A resumed run that finds the products of more than a tenth of its jobs gone, all
\* of them finished, sends none of these back to work: into no CRAB task, and not
\* into the backlog, from which a later round would take them unnoticed.  It is the
\* promise of one run: the next one reads the jobs as retries like any other.
NoMassRegeneration == condemned \intersect (wave \union ToSet(backlog)) = {}

\* The workflow reports success only when the file has every job finished and
\* every product is there, unless some vanished from the storage.
DoneIsComplete ==
  pc = "done" =>
    /\ \A j \in Jobs : disk.jobs[j] = "finished"
    /\ losses = 0 => outputs = Jobs

\* As jobs end, so does the poll loop: it never waits for a job that does not
\* exist, and never holds back the last jobs of the production.
LoopEnds == JobsEnd => (pc = "poll" ~> pc \in {"down", "done"})

\* A parked retry leaves the backlog again however small the wave it makes and
\* however long the other jobs run (there is a slot for it: NParallel = NJobs).
ParkedIsReleased ==
  \A j \in Jobs : (pc = "poll" /\ j \in Parked) ~> (j \notin ToSet(backlog))
=============================================================================
