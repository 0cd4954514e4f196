# A TLA+ model of DSProd

DSProd produces simulated datasets on the grid: it generates events seed by seed
(`RunProd`), merges the nano files (`NanoMergeTask`), and drives both through law, CRAB
and a storage element reached with gfal. Most of its code deals with what goes wrong:
storage that does not answer, jobs that report success without output, drivers that die
daily, watchdogs that resubmit a job which is still running. These modules model that
code, TLC checks them on small instances, and TLAPS proves all their safety
properties for every size, three of them under a hypothesis that is stated with them.

## The parts of the system

| Part | Source | State | Operations | What is hard |
|---|---|---|---|---|
| CRAB submission driver | `dsprod/crab.py`, `dsprod/tools.py` (proxies), law's loop | `jobs`, `unsubmitted_jobs`, `attempts`, the submission file, the release clock | `poll`, `submit`, wave gate, `_park_retries`, `_drop_complete_backlog`, `stop_on_mass_initial_retry` | a restart at any point, rounds skipped while law's tree is unreadable, products that vanish |
| Publishing | `dsprod/grid_tools.py`, `dsprod/law_gfal.py` | the target and the temporary names beside it | `gfal_copy_safe`: copy, checksum, rename, confirm | several jobs per target, every step may fail with or without effect |
| Product lifecycle | `dsprod/tasks.py` | staged nano files, produced records, merged files | `RunProd`, `NanoMergeTask`, `PruneProducedRecords`, `BackfillProducedRecords`, `ProductionTask` | the record stands for a file that is deleted on purpose; listings race with merges; deaths in between |
| Job manager | `dsprod/crab.py` 366–955 | per-project counters of unreadable, unscheduled, refused and failed polls | query, interpretation of the answer, stop reason | which answer resets which counter |
| Watchdog | `dsprod/watchdog.py` | heartbeat and flag files, kill budgets | beat, list, verdict, kill | verdicts from an old listing, a storage fault that looks like every job stalling |
| Site quarantine | `dsprod/site_stats.py` | evidence per site, bans with expiry | harvest, burst, escalation, blacklist | expiry noticed late, the cap on the blacklist |
| Path cache | `dsprod/law_gfal.py` | cached stats and listings | `exists`, `listdir`, `filecopy`, `remove` | stale entries, positive and negative |
| Gridpacks, premix lists, CMSSW areas | `dsprod/tasks.py`, `dsprod/gridpack_store.py` | files built once and shared | build, publish, unpack | two builders |
| Credentials | `dsprod/tools.py`, `dsprod/crab.py` | proxy and MyProxy lifetimes | renewal, gates | renewal failing while the old proxy is needed |
| CRAB job configuration | `dsprod/crab.py` | none | memory and cores, whitelists, `parallel_jobs` | boundaries |
| Step runner, processes, registry | `dsprod/run_step.py`, `config.py`, `registry.py` | none | command lines, YAML | text, no state |
| Environment | `env.sh`, `bootstrap.sh` | install markers | install, pin, verify | an installation cut short |

How they meet: a job of the driver runs `RunProd` or a merge; every product leaves the
job through the publishing code; the driver believes only what the remote file interface
says is on the storage; the watchdog and the job manager turn what CRAB and the
heartbeats say into failed jobs or a stop of the driver; the site quarantine feeds the
next submission's blacklist. No component locks anything shared with another process:
they agree through file names on the storage element, and by writing things in the right order.

What makes each of them correct:

* driver: every job is known exactly once, whatever rounds are skipped and wherever the
  driver dies; failures are counted once; what is held back goes out again; the loop ends;
  the run that finds its production lost does not regenerate it;
* publishing: the target name shows a complete and, where possible, verified file, and is
  never withdrawn;
* lifecycle: a record always has its file behind it, nothing merged is made again, a prune
  never takes a good record, a merged file has the contracted size, and running the task again finishes;
* job manager: a stop only for consecutive trouble of this run, a stop at last for lasting trouble;
* watchdog: a healthy job is not killed for a storage fault or another attempt's flag, a stalled one is, within the budget;
* quarantine: a ban needs failures of the window and of after the last ban, a site where everything fails gets one, a ban is served
  and the next one is longer, whoever restarts the driver;
* job configuration: a task asks for no less than was requested and for nothing CRAB refuses, and goes to no excluded site;
* cache: a verdict about a job is no older than the status it judges; a directory never reads as absent above a path known to exist.

## Modules

| Module | What it is |
|---|---|
| `AtomicPublish` | what publishing promises: the target is a register a call replaces in one step or leaves alone |
| `CopyRename` | `gfal_copy_safe`, step by step; implements `AtomicPublish` |
| `CopyRenameProofs` | proofs about `CopyRename` |
| `CrabDriver` | the driver over law's loop, with restarts |
| `CrabDriverProofs` | proofs about `CrabDriver` |
| `ProductLifecycle` | records, staged and merged files; all tasks that make or delete them |
| `ProductLifecycleProofs` | proofs about `ProductLifecycle` |
| `JobManager` | what the driver makes of the answers to its status queries: counters, stops, verdicts, site records |
| `JobManagerProofs` | proofs about `JobManager` |
| `StallWatchdog` | heartbeats, listings and verdicts on a clock |
| `StallWatchdogProofs` | proofs about `StallWatchdog` |
| `PathCache` | the remote file interface of one process over its path cache, and everybody else |
| `PathCacheProofs` | proofs about `PathCache` |
| `JobConfig` | cores, memory and whitelist of a CRAB task, as operators |
| `SiteStats` | the site quarantine, what feeds it and what it steers; uses `JobConfig` for every submission |
| `SiteStatsProofs` | proofs about `SiteStats` and `JobConfig` |
| `MCCopyRename`, `MCCrabDriver`, `MCProductLifecycle`, `MCJobManager`, `MCStallWatchdog`, `MCPathCache`, `MCSiteStats` | instances for TLC |

Definitions whose comment begins with "Mutant" are wrong on purpose. Each is the definition
that follows it with a plausible bug; put in its place, it breaks the property it is paired
with in `PROJECT.json`, which shows that the property looks at that piece of code. They are used by no specification.

### CopyRename

State: the file under the target name and, per writer, the one under its upload name
(`tmp`), where its call is (`pc`), its failed attempts and whether it knows the source's
checksum. A file is its author, its content (partial, damaged or whole) and whether its
checksum was compared. Actions are the steps of `download()` inside
`gfal_copy_safe`; every one may fail, and the rename may be done although the caller is told it
was not. `repeat_until_success` is `FailAttempt`. `Kill` stops a writer anywhere.
`gfal_copy_safe` removes nothing but its own upload name; that nobody cleans up the
uploads of dead writers is the code's behaviour and is kept.

The refinement mapping hides the uploads: the register is the author of the target,
and the call is idle, busy, committed, ok, error or dead by its `pc`.

### CrabDriver

State: law's `job_data` (`jobs`, `backlog` for `unsubmitted_jobs`, `attempts`), its retries of this run, the
job count `poll()` fixes on entry, the submission file (`disk`), `existing` for the one
listing law takes per run, `clock` for `_retry_parked_since` counted in polls, and the world: what CRAB answers,
jobs that run under an id no file knows (`orphans`: their task was never recorded, or the record was overwritten while an older one ran), the products on the storage. `jobs` and
`backlog` are dicts in the code, so a job that is in both is one key of each; offered as a retry it takes one slot. `poll()` is
`Enter`, then `Unanswered`, `PollEnds` or `PollOffers`; `submit()` is
`stop_on_mass_initial_retry`, `SkipRound` (law's source tree unreadable), `HoldBack` (the
gate is closed) or `LawSubmit` followed by `CreateTask` and `RecordTask` or `SubmissionFails`.
`Die` is possible anywhere. law itself is not in the repository: its actions are modelled from how the
proxies call it and are marked external in the map.

Properties: a job is in `jobs` or in the backlog and in one only (`EveryJobCountedOnce`); the
submission file accounts for all jobs at all times (`DiskAccountsForAll`); a wave never takes the jobs
in flight over `n_parallel` (`InFlightCap`); a failure is charged once (`OneAttemptPerFailure`);
held-back retries are on a running clock (`ParkedIsOnTheClock`, `WindowKeepsRunning`) and are
released however long the others run, where there is a slot for each (`ParkedIsReleased`); the loop ends (`LoopEnds`); success means that every product is there
(`DoneIsComplete`); a resumed run that finds the products of more than a tenth of its jobs gone, all of them
finished by the file or by the first answer, sends none of these back to work (`NoMassRegeneration`).

`condemned` and `uncounted` are history for two of these: what the first iteration of a resumed run came upon, and the jobs that failed
since law was last answered (all, at the start of a resumed run). law looks for lost products in that iteration only: one whose query is not answered
skips the check, after which a job recorded as finished stays so, and one reported finished without outputs is a retry like any other.
`InFlightCap` counts what law counts: not the orphans, and not the one last offer law makes of a job that is out of retries (`dead`).

### JobManager

Between `CrabDriver`, where a poll is answered or not, and CRAB. State: law's tasks and the jobs in them, what this
iteration has heard so far (`asking`, `heard`, `raised`), the manager's counters by their names in the code, and CRAB's side.
law queries the tasks from threads, so `Ask` takes them in any order, and between two answers CRAB goes on.
One answer is one of `Refused`, `NotScheduledYet`, `SubmitFailed`, `Answered` and `Unreadable` (all attempts of `query()`); which it is,
`parse_query_output` decides from the server status. `Answered` is all that follows a readable answer: reset of the counts, `_apply_watchdog` on the
verdicts of this project, `harvest_site_stats`. If a query raised, `Discard` throws the iteration away: law hears of none of it, but the
manager has counted, recorded and spent rescues, and calls no callback; else law settles and the callback raises (`Stop`) or not (`GoOn`).
`_stats_seen` is kept for the jobs law still asks for, which are the ones it is consulted about. The threads of one iteration update
disjoint entries of the counters; `_stats_lock` and the watchdog's lock make the shared parts of an answer atomic.

Properties: a run is stopped only for two tasks of its own that were refused, or failed, or one that still waits for a
scheduler (`StopIsEarned`); an outcome of a job is charged to a site once and truthfully (`SiteRecordIsTrue`;
for a stall the comments say once per branch, the code's key is the job, and with one rescue per branch these are the same); no run polls for ever (`EveryRunEnds`): the
count of unscheduled polls survives unreadable ones, and counts reset by an iteration that is thrown away do not
add up to an endless sequence of those, since law's own count ends it.

Two things the model keeps that the documentation does not say. A verdict in an iteration that is thrown away is
lost although the branch's rescue is spent (`perBranch`); such a job is left to CRAB's wall-clock limit. And the guard against a storage
fault counts the running jobs of one project (`verdicts` gets the running jobs of one task), so several small projects do not see a fault that hits all.

### StallWatchdog

One branch, its attempts one after the other, and a clock. The worker (`worker`, `due`, `fails`) starts within `Startup`, writes a beat
for at most `WriteTime`, waits an interval or, after a failure, `Backoff`; `StartBeat` may delete the old flag, as gfal does over davs. It leaves
or dies at any moment; CRAB shows it running after it began and up to `Linger` after it left, and for as long as it likes after it died.
The driver polls every `Poll`: `Query` or `Judge` (`verdicts()` and `_apply_watchdog` on the status of this
poll), then the callback, which lists the flags when an interval has passed (`Refresh`, `RefreshFails`) or not (`CallBack`). Ages are measured against the
listing (`VerdictClock`), flags older than the attempt are ignored, listed times are rounded down by up to `Resolution`.

`HealthyIsSpared`: a verdict hits dead jobs only. `StalledIsFailed`: a dead job CRAB shows running is failed in time, unless its branch
was rescued before or its flag was lost. A job that never had a flag counts its grace from the first query that looks at it with a listing at hand, which with intervals that
are no multiple of the poll can be a poll later than its first query; hence the poll more in its bound. The first has an exception that the code has, too: if every listing of the grace falls into the gap between the delete and the upload of
a davs overwrite, or the payload is over before a listing sees its flag, the job counts as one that never beat.
The comment in `Heartbeat._write` and `docs/concepts/backends.md` say that a missing flag is read as a job on its way out; that is so only for a job whose
flag was listed before.

### ProductLifecycle

State, per file (a seed and a nano version) or merge group: the size of the staged file, the size in its
produced record, and the sizes that went into the merged file. Sizes stand for
`events_per_job`, since that is what the merge's checks compare. Per attempt: the step
of a `RunProd` job (stage, record, for each version in order), and what a merge attempt fetched and has
yet to remove. `ProductionTask` is `task` and `rounds`; a prune or backfill is `sweep`, with what its three listings have
returned so far. `lost` remembers the files the storage lost, for the properties only, and so does `overtaken` the files whose size somebody has wrong: those staged at one
size while their record, an earlier attempt about to write it, or a merge about to fetch them knew another, and those a backfill recorded at another size than theirs.

* `RunProd.run` is `SubmitSeed`, `RunStep`, `RunDies`. An attempt is submitted whenever the seed is not
  complete and a slot is free: the watchdog and the driver both resubmit jobs that are still running.
* `NanoMergeTask.run` is `StartMerge` (the staged and contracted checks), `Fetch` (download, `hadd`, the two counts), `PublishMerged`
  and `RemoveStaged`, one input at a time; a removal that fails is silent and the file stays.
* `PruneProducedRecords.run` and `BackfillProducedRecords.run` are `StartSweep`, `List` three times (records,
  staged, merged), then `Drop` or `Write` record by record. A listing may fail, for any versions: the prune
  leaves those alone and fails at the end, the backfill reads them as empty. The listings of different versions, which the code
  takes in threads, are taken together; every property is about the files of one version, or about a group of it.
* `ProductionTask.run` is `StartTask`, `ProduceDone`, `StartSweep("repair")` with `RepairDone`, `BeginMerge` and
  `MergeEnds`; luigi re-executes it from the top, so `MergeEnds` goes back to `produce`.
* `Lose` and `EditSetup` are the storage and the operator. The setup is edited only while the task is off; its jobs
  of before may still be running. A remote branch process reads the setup that was shipped with it, so an attempt keeps its size; a backfill keeps
  the one it started with. A merge job starts while its task runs; one that CRAB starts after the driver died is left out, one that began before lives on.

What the properties leave open, because the code does: a file in `lost` is exempt from then on, also after it was made
again. A backfill after an edit writes today's size for yesterday's file, and then the record is no evidence; `MergedHonoursContract` counts
such a file as overtaken. The merge compares the records, then fetches the files, and then compares one sum: a file that a late attempt
replaced is caught by the sum, two of them can be on either side of it. `MergedHonoursContract` says that nothing less lets a mix pass.

### PathCache

State: what is on the storage (`store`), one process's `cache`, and the storage call it is waiting for (`call`). An entry says
absent, present, or present with its own listing stored, and how many ticks it has left. `exists` is `FromCache`, or
`AskStorage` followed by the listing's outcome: `Listed`, `DirectoryAbsent` with the climb of `_mark_absent_ancestors` (one
directory per step, since each is a round trip), or `ListingFails`. `remove` is `RemoveNothing` (the stat found nothing, or failed: `gfal_exists`
does not tell), or `StartRemove` and its outcome; an upload is `StartCopy`, `Publish` (the one step `CopyRename` refines) and `CopyDone` or
`CopyFails`. Other jobs write and remove files at any time; a directory is never removed. `crab_check_job_completeness` empties the cache; law's status query before it is `StatusQuery`.
`steady` and `missing` remember, for the properties only, which paths were on the storage, or were not, without interruption since that query.
`exists` is asked for products, as the targets of DSProd are files; asked about a directory it could give the answer `NoAbsentParent` excludes.

Properties: `VerdictIsCurrent` and `NoAbsentParent`. The first ends with the validity of an entry: the next item tells why.
What the model keeps that the code's comments do not say: an answer derived from a listing gets a validity of its own, so a wrong "absent" may live
twice the 600 s of the docstring of `expire_path_caches`; a copy that fails after its rename leaves the file cached as absent (the
caller sees the failure); the last lines of `filecopy`, which look for an absent directory above what was just published, never find one.

### JobConfig and SiteStats

`JobConfig` has no state: `Cores`, `Memory` and `IsRefused` are the arithmetic of `crab_job_config`, `Honoured` its contract, and
`resolve_whitelist` works on entries that are the sets of sites they match. `SiteStats` is the record of each site: outcomes by the tick they were recorded
in, end of the ban, number of bans, end of the last one. `Harvest` is a poll that finds one job ended and `Poll` one that finds none (a poll with several is several), each of which saves;
`PollUnread` is one that cannot be read; `Submit` is a submission, which prunes, expires, judges, and takes the blacklist and the whitelist; what it changed is
saved by the next poll that is read, and `Restart` goes back to the file. CRAB may send a job anywhere the whitelist allows.
Rates are compared by cross-multiplication; the ties of the blacklist's order are open. `longest` remembers each site's longest saved ban for `BansEscalate`.

Properties: `BanNeedsFreshFailures` and `BlackHoleIsHeldOut` are the two halves of "the moment the ban ended, not the moment it was noticed" (`_expire`);
`BanIsServed` (no submission may send a job to a site whose ban was saved; jobs of an earlier submission that CRAB matches later are not modelled), `BansEscalate`, `SubmissionHonoursRequest`. The model keeps two things
the comments do not say. "Never quarantine more than this many sites at once" is true of the blacklist, not of the bans: others run on, unserved, and count as bans. And the cap sorts by
failures in the window, which a site banned for longer than the window has none of: it is the first to return to a full list.
In-flight counts are not saved, so after a restart the rates miss what is running until the first poll is read.

## Runs

| Run | Question | Instance |
|---|---|---|
| `copy_rename` | do racing, failing, killed uploads keep the target whole, and do they implement the register? | 2 jobs, 2 attempts each, silent damage, unreadable source checksum |
| `crab_driver` | is every job known exactly once, wherever the driver dies and whatever is skipped, and a lost production not regenerated by the run that finds it lost? | 3 jobs, 2 slots, 2 runs of the driver, one loss of products |
| `crab_driver_live` | does the loop end, are held-back jobs released? | 2 jobs, one loss of products |
| `crab_driver_early_loss` | also when products vanish between scheduling and listing? **No.** | 2 jobs |
| `product_lifecycle` | do records and files account for each other? | 2 seeds in one group, 2 attempts at once, 2 faults, 1 loss |
| `product_lifecycle_edits` | does a merged file have one job size? | 3 sizes, 2 edits, 2 attempts at once, 2 faults |
| `product_lifecycle_live` | does running the task again finish the production? | 1 seed, 2 versions, 1 fault, 1 loss, 1 sweep by hand |
| `stall_watchdog` | is a healthy job spared and a dead one failed in time? | 2 attempts, interval 6, threshold 12, poll 2, 1 failed beat in a row, 1 unreadable listing, 32 ticks |
| `job_manager` | does a run stop only for what its own tasks met, and does every run end? | 2 branches in 2 tasks, ceilings of 1 and 2, 2 runs of the driver |
| `path_cache` | are completeness verdicts current whatever the cache holds? | 2 files in one directory, 2 directories above it, entries valid for 1 tick |
| `path_cache_renewed` | is a name a listing did not show, absent when it was taken? **No.** | the same tree |
| `site_stats` | are bans earned, served and lengthened, and do tasks ask for what was requested? | 2 sites, 2 failures for a ban, bans of 2 and 3 ticks, window of 2, cap of 1, 5 ticks, 1 job per site at a time; requests at and beside every limit |

Why the bounds are enough. Publishing: an interleaving needs one job to overtake another, which two jobs
show, and a retry, which two attempts show; the proofs drop both bounds. Driver: three
jobs in two slots leave one waiting while others run, fail and are parked; a second run of the driver is
the first that reads a submission file. What a third reads is one the second wrote, which differs from what a first one writes after a stop of the brake: it has the lost jobs as
missing. Three runs do not fit with three jobs; with two jobs all properties of `crab_driver` were run for three by hand, and the proofs drop the bound. The clock counts polls up to the
release window and no further. Products vanish early only in `crab_driver_early_loss`: with them `EveryJobCountedOnce` and `NoMassRegeneration` fail, the other safety properties
of `crab_driver` were run with them by hand, and are proved with them. Lifecycle: a group of two has an input removed and an input yet to be removed; two attempts race;
two faults let an attempt and its repair both fail; three sizes are the fewest that average out (1 and 3 pass for 2), and two edits with two attempts at once are what it takes for three sizes to meet; losses, sweeps and
backfills are not in that run. The proof has them all, and an instance with one slot, one loss, one sweep, two faults and two edits was run by hand.
Two versions matter where a seed counts as complete or not, which `product_lifecycle_live` has. With one seed a single
lost file is the whole of its version, so that run sets `MaxStalePercent` to 100: at the code's default of a half a prune refuses and the task
stops, which is the guard's purpose. The safety properties are also proved without bounds.
 Job manager: two tasks are what one iteration needs for one query to
raise while the other is answered, what the stops for refused and failed tasks count, and, with a second run, one task of an earlier run beside one of this. Ceilings of 1
have a poll below and one above them. Stall watchdog: the ratios are those of the shipped settings (threshold two intervals here, grace one more,
polls several times per interval); 32 ticks hold a first attempt that dies, its grace of 18, its verdict, and the first beats of the second.

Path cache: a file is asked for and its sibling decides what is known of their directory; a directory below a directory gives
the climb a second step; one tick lets entries of two ages exist. The proofs drop all of it. Site quarantine: the second site is the others' rate; with a cap of 1 and two banned sites one runs
on unseen; the second ban is both longer and at its ceiling; a ban of 2 ticks ends while its outcomes are at the edge of the window.

Attempts of one job are interchangeable, so `product_lifecycle` uses symmetry over the slots; it checks no liveness. `site_stats` uses symmetry over the sites, and checks none either.
Deadlock is not checked for the lifecycle, where an operator may leave a production alone, and is checked everywhere else.

### Where code and documentation disagree

* `crab_driver_early_loss`: `_drop_complete_backlog` drops a job that is complete *now*; a job that luigi's
  scheduling had found complete, whose product vanished since, stays both in `jobs` and in the backlog, and after a skipped first round the loop never ends.
* `path_cache_renewed`: `PathCache.set` renews a directory's listing when its parent is listed, but not the names in it. Once these run
  out, `exists` answers a file that was there all along as absent, because "the directory was listed and this name was not in it".
  A completeness check that takes longer than 600 s, or any other question, can meet it.

Four more, which the models show without a run of their own. `gfal_copy_safe` swallows a failed `gfal_stat` or `gfal_sum` of the source
(`ReadSourceSum`) and renames the upload unverified, where `docs/concepts/architecture.md` says "and only then"; hence the condition in `ChecksumProtectsTarget`.
And `BackfillProducedRecords._names` reads a failed listing as an empty one (`Listed`), so records that exist are written again with
today's `events_per_job`, which its docstring excludes; hence such a file counts as overtaken.
`_check_contracted_inputs` means to "refuse a group whose seeds were not all produced at the same job size", which it does by the records: after two edits, two attempts of before them
that still run can replace two recorded files by one larger and one smaller, and the merged file has the right number of events; hence the second case of `MergedHonoursContract`, which the proof shows to be the only one.
And the brake of `stop_on_mass_initial_retry` holds for one run: law has dumped the lost jobs as failed before the brake is asked, so a driver that is simply started again finds none that is
recorded as finished. Those law had accepted have no CRAB id any more, are polled as unknown, and are retries like any other: if their products are still missing the whole production is made again. The brake's message
and `docs/concepts/backends.md:66` say that redoing the work takes deleting the submission file, and that after an outage one runs again; hence `NoMassRegeneration` speaks of the run that finds the loss.

### Fairness

Publishing: weak fairness of each call; gfal commands carry timeouts, so a call goes on. `Kill` is not fair. Driver: law's loop is a
single thread, hence weak fairness of its steps; strong fairness of `Submit`, since an unreadable source tree is
skipped for a round and an outage that lasts ends the run; jobs end (`JobsEnd`) only where the property assumes it, as
CRAB's walltime sees to it. Losses, deaths and faults are never fair. Lifecycle: the task's, the workflows' and the jobs' steps are weakly
fair and so is `StartTask`: the operator runs the command again, which is what the task's docstring asks for. Finishing is claimed with a fixed setup. Job manager: weak fairness of the driver's
loop, one thread, and of each scheduled job, which CRAB ends at its wall-clock limit at the latest; nothing is assumed of the server's decision
on a waiting task nor of answers becoming readable. `StallWatchdog`, `PathCache` and `SiteStats` have no liveness: `StalledIsFailed` is a bound on the clock, the others promise nothing for later.

## Proofs

`CopyRenameProofs`, for any set of writers and number of attempts: the invariant `IInv` of `CopyRename` is inductive
(`InductiveInvariant`); hence no partial or damaged upload is ever the product (`SafePublication`), a published file is never
withdrawn (`PublishedStays`), a success stays one (`SuccessStays`), and every step is a step of the atomic register or a stutter (`Refinement`); `TypeCorrect` and `DamageIsCaught` are parts of `IInv`. `TargetNeverPartial` alone is not inductive: a rename
publishes whatever is under the upload name, so one has to know that this upload is the writer's own and complete (`OwnUpload`),
which rests on the name being its own.

`ProductLifecycleProofs`, for any number of seeds, versions, files per merge, sizes, attempts, faults, losses, sweeps and
edits: `LedgerInv` is inductive (`LedgerHolds`), hence `TypeCorrect`, `RecordsAreBacked`, `PruneIsSafe` and `NothingIsRegenerated`; on top of it `ContractInv` is (`ContractHolds`), hence
`MergesHonourContract`. The argument:

1. A file is `Backed` if it is staged, merged or lost, and nothing ever undoes that (`BackedStays`): it leaves the staging area
   only through a merge that has published it (part of `MergesBacked`) or by being lost.
2. An attempt about to write a record has staged the file in the step before (`AttemptsBacked`), and a backfill writes
   records only of what it saw (`SweepBacked`): so every new record is backed, and by 1 stays so.
3. A prune lists records, then staged, then merged files. A recorded file it did not find staged is, by 1, merged or lost
   already when the second listing is taken, so the third one shows the merged file unless the file was lost. What neither shows
   was lost. This is the part of `SweepBacked` that speaks of `sweep.at = "merged"`; with the listings swapped it fails, as the mutant shows.
4. What is merged was recorded (`MergesBacked`), and by 3 a record goes only if its file was lost; so a seed whose files are all merged
   is complete and is not submitted.
5. A staged file that was not overtaken has the size its record says, an attempt about to record it has, and a merge about to fetch it has admitted (`SizesKnown`). The merged
   file alone would not be inductive: whoever may still write or fetch has to be in the invariant too.
6. So at the fetch every input has the admitted size, but for overtaken ones. If there is one of these at most, the count the merge compares settles it: the events fetched are as many as those
   expected, those of the other inputs are as expected, so the last one's are too (`OneCannotAverageOut`). Events are counted as the elements of a set of pairs, so this is
   about cardinalities and needs no sum over data. A merge keeps what it fetched (`MergesHonour`).

`PathCacheProofs`, for any tree of directories and files and any validity: `CacheInv` is inductive (`CacheAgrees`), hence `CacheTypes`, `VerdictsAreCurrent`
and `NoAbsentParents`. The argument: what the cache was told since it was emptied agrees with what stayed on the storage, or off it, since the status query.

1. While a verdict counts (the caches were emptied after the query, not more than `Validity` ticks ago), no entry runs out (`Lasts`): it was
   written later and has at least the ticks left that the verdict has.
2. So a directory stored as listed still has an entry for every name its listing saw that was steady (`ListedAgrees`), which makes an unknown name in it not steady.
   This is what fails in `path_cache_renewed`, and why the property ends with the validity.
3. A path cached as absent, and everything below it, is not steady (`AbsentAgrees`); one cached as present is not missing (`PresentAgrees`). For a directory this needs
   that what exists has its directories (`HasParents`), and for what is in the middle of a climb or a copy a statement about the call.

`SiteStatsProofs`, for any sites, settings and requests: `StatsInv` is inductive (`StatsAreSound`), hence `TypeCorrect`, `BansNeedFreshFailures`, `BlackHolesAreHeldOut`, `BansDouble`
and `BansAreServed`; `RequestsAreHonoured` is about one submission. `StatsInv` relates the file to what the driver knows: the file has no more bans than the driver, a ban in the file
that has not ended is the one in force, and the longest ban that was saved is no longer than the file's count of bans gives. The argument:

1. A request: the four core counts, one by one, and the division by `mb_per_core`.
2. Outcomes are a set, of the site, the tick and a number within it (`Outcomes`), and counts are cardinalities. So fewer outcomes count for no more (`FewerOutcomes`), and a record has at
   most `MaxEvents` of a tick since it had fewer in its whole window when it took the last (`TickWithinTotal`); hence the types.
3. A submission judges records that are pruned and whose ended bans are noticed (`FreshRecord`), and only a submission bans (`OnlySubmitBans`). What it counts of a site then is what the record before
   has of the window and since its last ban, noticed or not (`FreshOfSite`). Both halves of `_expire` follow: who is judged guilty had the failures
   there (`GuiltyFailedLately`), and who had nothing but failures there is (`BlackHoleIsGuilty`), so it is banned and the blacklist lacks it only if it is full (`GuiltyIsHeldOut`).
4. A restart takes the file, which by `StatsInv` holds the running ban and its count; so the next ban is at least twice the longest that was saved, up to the ceiling. The powers of two of `_quarantine_seconds` are counted as the
   subsets of an interval (`PowerIsSubsets`), which makes "one more doubles" a fact about sets (`PowerDoubles`) where an induction would be needed otherwise.
5. A site whose ban was saved is among the banned ones; it gets a job only if the blacklist lacks it (`WhitelistAvoids`: the resolved whitelist is disjoint from the blacklist), and then
   the blacklist is smaller than the set of banned sites, which by the definition of the cap means there are more than `MaxSites`.

`JobManagerProofs`, for any number of branches and tasks and all ceilings: `IInv` is inductive (`ManagerHolds`), hence `TypeCorrect`, `SiteRecordsAreTrue` and `StopsAreEarned`. The argument:

1. A count never stops at its ceiling: each poll that is thrown away may add one, as it calls no callback. But law allows `PollFails` of them in a row, and a poll that is not
   thrown away stops the run if a count is over its ceiling. So (`Counts`) a count is bounded by ceiling, polls thrown away and one, and tasks still to be asked are one behind.
2. The sets the stops count (`refusedProjects`, `failedSubmissions`) hold tasks of this run that the server refused, or failed, for good (`Blame`); sets count a task once.
3. `statsSeen` holds every outcome the run recorded (`Records`), so none is recorded twice; an outcome is recorded as the job ended, and `"watchdog"` only with a rescue
   spent on the branch. That an interval's share is kept, `issued` in its type, is a lemma: the `k` smallest of a set of branches are at most `k` (`KSmallest`).

`StallWatchdogProofs`, for all settings: `TypeCorrect`, the inductive invariant `WInv` (`BeatsAreInTime`), and `HealthyAreSpared` under two hypotheses the code does not check:
an interval (`Steady`), and the time to the first beat (`Prompt`), each with the time lost to failed writes, one write, the linger and a poll, fit into the threshold. The shipped settings, 30 minutes twice, a poll
of 5 minutes, a write of at most 5, leave room for a failed write if every retry is taken to be as late as `Backoff` can be, a quarter of an interval; at the shortest interval `watchdog_config` accepts, 10 minutes,
there is room for none. The instance satisfies both. The argument:

1. While an attempt lives, its next step is due within `Delay` of an interval after its last beat, or of its start (`Own`, `StartInTime`).
2. A flag, or its listing, that is not of this attempt's last beat is of an attempt before (`Old`), older by a poll than anything the driver has seen of this one (`FlagInTime`, `ListingInTime`). Such a
   flag is ignored by `Baseline`, so the attempt's age is measured from where it was seen, and 1 bounds it.
3. Ages end at the listing, not at the query (`VerdictClock`): it saw a flag that was late by no more than 1 allows, and what happened since cannot count against it. The resolution cancels, since
   a listing that rounds down loses at most what a poll is longer than it.

The second half, `StalledAreFailed`, holds for all settings, with no hypothesis. `SInv` adds to `WInv` what is known of a job from the moment it is dead and running for CRAB (`silentSince`):

4. Its flag stays as it is (`Silence`), and a flag the driver counted as this attempt's is no older than its first sight of it (`Listings`). So every listing that can be read and is taken
   `StaleTime` after that moment shows a stale flag.
5. Without a counted flag the grace decides. It begins once the attempt is named and a listing is at hand: a poll, and an interval and a poll for each listing that could not be read, later (`Unnoticed`, `GraceInTime`).
6. Listings are less than an interval and a poll apart (`Clocks`). Until the one that convicts, the last one was asked for before its deadline (`Pending`); after it, the next poll judges (`Caught`). A verdict that spares the job
   had an age below the threshold to go by, which keeps `Pending`.

`CrabDriverProofs`, for any number of jobs, slots, retries, runs of the driver, skipped rounds and losses, whenever they happen, and any tolerance and release window: `DInv` is inductive
(`DriverHolds`), hence every safety property of the module but two. Those two count jobs, and need that no product vanishes between luigi's scheduling and law's listing
(`~EarlyLosses`): with such a loss a job is counted twice, which `crab_driver_early_loss` shows. They follow from `DInv`, `Once` and `Held`, which are inductive beside it under this hypothesis. The argument:

1. Every job is recorded, in the backlog or in the wave being submitted, and what awaits law's attention is offered to it or in the wave (`Accounts`). The job count is `NJobs`, or more if jobs are
   counted twice, and never more than the double.
2. The submission file is written only where 1 holds of what is written, and never while a wave is under way, whose jobs the old file still has (`OnFile`); hence `FileAccountsForAll`, and a restart begins with every job.
3. A live recorded job the next poll asks about is running, delivered, or failed and not yet counted (`Charged`; a resumed run has counted nothing in its first iteration), since what is offered or parked leaves the recorded jobs, or is submitted, before law polls again;
   hence `FailuresAreChargedOnce`.
4. Jobs in flight are at most those the last answered poll found active, and the wave fits beside them (`Flight`). Between two polls jobs only end, so the bound stays true: `FlightIsCapped`.
5. Retries enter the backlog by parking or as the overflow of a submission, and both set the clock (`OnTheClock`); hence `ParkedAreOnTheClock` and `WindowsKeepRunning`. Parking takes
   what is complete off the backlog and would leave a clock without a retry, did law not know of all it holds back that it is missing from the listing (`Listed`). A wave fills its slots in the order of
   retries and backlog, one for each job however often it is listed, so it never takes more than are free (`FirstPlaces`, `Filling`); that is the half of `Flight` a doubled job could break.
6. In the loop a job is in `jobs` and in the backlog at once only before law has its listing, on a fresh run where luigi's scheduling recorded it as finished; without an early loss it still exists at the
   listing, and `_drop_complete_backlog` takes it out before `poll()` counts (`Once`). Hence `JobsAreCountedOnce`.
7. What a resumed run finds gone en masse (`Noticed`) it finds in one iteration. Either that was answered: then all of it is offered at once, and the brake counts it against a number
   that by 6 is that of the jobs, and stops the run before any of it is parked or submitted (`BrakeHolds`). Or it was not: then the jobs stay recorded as finished, and law asks for them no more (`Held`, `HeldStays`). Hence `NothingGoneIsRemade`.
8. law walks its jobs in order of their numbers (`InOrder`). That this list exists and holds each of them once is a lemma, by the rank of a number in a set.

Assumptions: those stated in the modules (positive counts, non-empty positive sizes, a finite set of sites, a tree, a resolution below the poll). Steps of the proofs are proved by SMT, Zenon and, where temporal, LS4.

Only model-checked: the liveness properties (`EveryCallEnds`, `LoopEnds`, `ParkedIsReleased`, `Finishes`, `EveryRunEnds`), which are out of the provers' reach. Every invariant and every
action property of a run that passes is stated by a theorem.

## Not modelled, and why

* Gridpacks, premix lists and CMSSW areas: built by one process before a production and published by the code of `CopyRename`; what is particular to them is cmsDriver, tar and file lists.
* Credentials: lifetimes are read from the output of `voms-proxy-info`, a renewal is a dialogue with a server and ends in one rename. There is a state, the proxy file, but one action.
* In the driver: the choice of `parallel_jobs`, which is a maximum and a minimum; in the job manager: the report of failures, which prints.
  The in-flight counts per CRAB project, dropped after an hour, are one count in `SiteStats`.
* In the watchdog: `dry_run`, which issues no verdicts.

Left out for good: command lines for `cmsDriver` and `cmsRun`, YAML lookup, printing and progress output, the text of CRAB configuration
files, the shell installation. They keep no state between steps, or only text.
