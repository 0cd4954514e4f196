----------------------------- MODULE JobManager -----------------------------
(***************************************************************************)
(* DSProdCrabJobManager: what becomes of a CRAB status query.  In one      *)
(* iteration of law's poll loop every live CRAB task (a project) is        *)
(* queried, concurrently and in no order.  A query is answered with the    *)
(* state of each job, or refused, failed to be submitted, still waiting    *)
(* for a scheduler, or unreadable; the manager counts each per task, turns *)
(* stalled jobs into failed ones (StallWatchdog.verdicts) and records per  *)
(* site what the answer says.  law throws the whole iteration away when    *)
(* one query raises.  What must stop the run is left for the poll callback *)
(* to raise.                                                               *)
(*                                                                         *)
(* A branch is one job; a failed one waits to be submitted in a new task.  *)
(* How a flag becomes stale in time is in StallWatchdog: here any running  *)
(* job may look stale, as hung ones do, and all while the flags' storage   *)
(* accepts no writes.                                                      *)
(***************************************************************************)
EXTENDS Integers, FiniteSetsExt

CONSTANTS
  NBranches,
  MaxUnreadable,         \* max_unreadable_polls
  MaxUnscheduled,        \* max_unscheduled_polls
  MaxRefused,            \* max_refused_submissions
  MaxFailedSubmissions,  \* max_failed_submissions
  PollFails,             \* law's poll_fails
  MinRunning,            \* min_running_for_fault_guard
  StalePercent,          \* max_stale_fraction, in percent
  MaxPerInterval,        \* max_per_interval
  MaxPerBranch,          \* max_per_branch
  MaxTasks,              \* bound: CRAB tasks
  MaxLegs                \* bound: runs of the driver

Branches == 1..NBranches
Tasks == 1..MaxTasks

ASSUME CeilingsAssumption ==
  /\ MaxUnreadable \in Nat /\ MaxUnscheduled \in Nat /\ PollFails \in Nat \ {0}
  /\ MaxRefused \in Nat \ {0} /\ MaxFailedSubmissions \in Nat \ {0}
ASSUME WatchdogAssumption ==
  /\ MinRunning \in Nat /\ StalePercent \in 0..100
  /\ MaxPerInterval \in Nat /\ MaxPerBranch \in Nat
ASSUME BoundsAssumption ==
  NBranches \in Nat \ {0} /\ MaxTasks \in Nat \ {0} /\ MaxLegs \in Nat \ {0}

VARIABLES
  phase,     \* "down", "poll", "submit", "done"
  taskOf,    \* the task of each branch's job id, 0 while it waits for one
  accepted,  \* branches law has finished
  asking,    \* tasks this poll has not heard of yet
  heard,     \* what it heard of each job, "" before
  raised,    \* tasks whose query raised
  pollFails  \* polls in a row law threw away

VARIABLES
  unreadable,        \* _unreadable
  unscheduled,       \* _unscheduled
  ours,              \* _submitted_projects
  refusedProjects,   \* _refused_projects
  failedSubmissions, \* _failed_submissions
  stop,              \* stop_reason is set
  statsSeen,         \* _stats_seen, of the jobs law still asks for
  perBranch,         \* StallWatchdog._per_branch
  issued             \* StallWatchdog._issued_this_interval

VARIABLES
  server,    \* status of each task on the CRAB server
  job,       \* what CRAB says of each branch's job
  recorded,  \* site records this run made of each branch's job, by outcome
  legs       \* runs of the driver

law == <<phase, taskOf, accepted, asking, heard, raised, pollFails>>
manager == <<unreadable, unscheduled, ours, refusedProjects, failedSubmissions, stop, statsSeen>>
watchdog == <<perBranch, issued>>
world == <<server, job>>
vars == <<law, manager, watchdog, world, recorded, legs>>

Members(t) == {b \in Branches : taskOf[b] = t /\ b \notin accepted}
Live == {t \in Tasks : Members(t) # {}}
Nothing == [b \in Branches |-> ""]
NoCounts == [t \in Tasks |-> 0]
Outcomes == {"ok", "bad", "watchdog"}
NoRecords == [o \in Outcomes |-> 0]

JobStates == {"pending", "running", "finished", "error", "killed"}

TypeOK ==
  /\ phase \in {"down", "poll", "submit", "done"}
  /\ taskOf \in [Branches -> 0..MaxTasks] /\ accepted \subseteq Branches
  /\ asking \subseteq Live /\ raised \subseteq Tasks /\ pollFails \in 0..PollFails
  /\ heard \in [Branches -> {"", "pending", "running", "finished", "failed"}]
  /\ unreadable \in [Tasks -> 0..MaxUnreadable+PollFails+1]
  /\ unscheduled \in [Tasks -> 0..MaxUnscheduled+PollFails+1]
  /\ ours \subseteq Tasks /\ refusedProjects \subseteq ours /\ failedSubmissions \subseteq ours
  /\ stop \in BOOLEAN /\ statsSeen \subseteq Branches \X Outcomes
  /\ perBranch \in [Branches -> 0..MaxPerBranch] /\ issued \in 0..MaxPerInterval
  /\ server \in [Tasks -> {"none", "waiting", "scheduled", "refused", "failed"}]
  /\ job \in [Branches -> JobStates]

Init ==
  /\ phase = "submit" /\ taskOf = [b \in Branches |-> 0] /\ accepted = {}
  /\ asking = {} /\ heard = Nothing /\ raised = {} /\ pollFails = 0
  /\ unreadable = NoCounts /\ unscheduled = NoCounts
  /\ ours = {} /\ refusedProjects = {} /\ failedSubmissions = {} /\ stop = FALSE
  /\ statsSeen = {}
  /\ perBranch = [b \in Branches |-> 0] /\ issued = 0
  /\ server = [t \in Tasks |-> "none"] /\ job = [b \in Branches |-> "pending"]
  /\ recorded = [b \in Branches |-> NoRecords] /\ legs = 1

-----------------------------------------------------------------------------
(***************************************************************************)
(* law's poll loop around the manager.                                     *)
(***************************************************************************)

StartPoll ==
  /\ phase' = "poll" /\ heard' = Nothing /\ raised' = {}

\* The run ends, and with it the manager.
Forget ==
  /\ asking' = {} /\ heard' = Nothing /\ raised' = {} /\ pollFails' = 0
  /\ unreadable' = NoCounts /\ unscheduled' = NoCounts
  /\ ours' = {} /\ refusedProjects' = {} /\ failedSubmissions' = {} /\ stop' = FALSE
  /\ statsSeen' = {} /\ perBranch' = [b \in Branches |-> 0] /\ issued' = 0
  /\ recorded' = [b \in Branches |-> NoRecords]

\* law submits what waits as one task, or leaves it waiting (the wave gate).
Submit ==
  /\ phase = "submit"
  /\ StartPoll
  /\ LET waiting == {b \in Branches \ accepted : taskOf[b] = 0}
         unused == {t \in Tasks : server[t] = "none"}
     IN \/ /\ waiting # {} /\ unused # {}
           /\ LET new == Min(unused) IN
                /\ taskOf' = [b \in Branches |-> IF b \in waiting THEN new ELSE taskOf[b]]
                /\ server' = [server EXCEPT ![new] = "waiting"]
                /\ ours' = ours \union {new}
                /\ asking' = Live \union {new}
        \/ /\ Live # {}
           /\ asking' = Live
           /\ UNCHANGED <<taskOf, server, ours>>
  /\ UNCHANGED <<accepted, pollFails, unreadable, unscheduled, refusedProjects,
                 failedSubmissions, stop, statsSeen, watchdog, job, recorded, legs>>

\* law gives up once the attempts are used up (here: the tasks).
GiveUp ==
  /\ phase = "submit" /\ Live = {} /\ \A t \in Tasks : server[t] # "none"
  /\ phase' = "down" /\ Forget
  /\ UNCHANGED <<taskOf, accepted, world, legs>>

\* A query of t is answered; its jobs are in these states.
Answer(t, states) ==
  /\ phase = "poll" /\ t \in asking
  /\ asking' = asking \ {t}
  /\ heard' = [b \in Branches |-> IF b \in Members(t) THEN states[b] ELSE heard[b]]
  /\ UNCHANGED <<phase, taskOf, accepted, pollFails, world, legs>>

AllPending == [b \in Branches |-> "pending"]
AllFailed == [b \in Branches |-> "failed"]

\* (Mutant: a refusal counts whoever submitted the task.)
AnyonesTask(t) == TRUE

\* Only submissions of this run say anything about its configuration.
IsOurs(t) == t \in ours

\* _refused: counted once per task; law gets the jobs back as failed.
Refused(t) ==
  /\ server[t] = "refused"
  /\ Answer(t, AllFailed)
  /\ unreadable' = [unreadable EXCEPT ![t] = 0]
  /\ refusedProjects' = refusedProjects \union (IF IsOurs(t) THEN {t} ELSE {})
  /\ stop' = (stop \/ Cardinality(refusedProjects') >= MaxRefused)
  /\ UNCHANGED <<raised, unscheduled, ours, failedSubmissions, statsSeen, watchdog, recorded>>

\* _not_scheduled_yet: the jobs stay pending, for so many polls.
NotScheduledYet(t) ==
  /\ server[t] = "waiting"
  /\ Answer(t, AllPending)
  /\ unreadable' = [unreadable EXCEPT ![t] = 0]
  /\ unscheduled' = [unscheduled EXCEPT ![t] = @ + 1]
  /\ stop' = (stop \/ unscheduled'[t] > MaxUnscheduled)
  /\ UNCHANGED <<raised, ours, refusedProjects, failedSubmissions, statsSeen, watchdog,
                 recorded>>

\* _submit_failed: law has failed the jobs itself.
SubmitFailed(t) ==
  /\ server[t] = "failed"
  /\ Answer(t, AllFailed)
  /\ failedSubmissions' = failedSubmissions \union (IF IsOurs(t) THEN {t} ELSE {})
  /\ stop' = (stop \/ (IsOurs(t) /\ Cardinality(failedSubmissions') >= MaxFailedSubmissions))
  /\ unreadable' = [unreadable EXCEPT ![t] = 0]
  /\ unscheduled' = [unscheduled EXCEPT ![t] = 0]
  /\ UNCHANGED <<raised, ours, refusedProjects, statsSeen, watchdog, recorded>>

\* (Mutant: the count of unreadable polls is never reset.)
NeverReadable(t) == unreadable

\* An answer resets the counts.
Readable(t) == [unreadable EXCEPT ![t] = 0]

Running(t) == {b \in Members(t) : job[b] = "running"}

\* StallWatchdog.verdicts: of the stale jobs of this answer those with a rescue
\* left, in order, until the interval's share is used up; none if most of the
\* running jobs it knows look stale.
verdicts(known, stale) ==
  LET n == Cardinality(known)
      fault == n >= MinRunning /\ Cardinality(stale) > (StalePercent * n) \div 100
      rescuable == {b \in stale : perBranch[b] < MaxPerBranch}
  IN IF fault THEN {}
     ELSE {b \in rescuable : Cardinality({c \in rescuable : c < b}) < MaxPerInterval - issued}

\* (Mutant: any failure is the site's.)
OutcomeOfAll(b, condemned) ==
  CASE b \in condemned -> {"watchdog"}
    [] job[b] = "finished" -> {"ok"}
    [] job[b] \in {"error", "killed"} -> {"bad"}
    [] OTHER -> {}

\* harvest_site_stats and _apply_watchdog: what is recorded of a job's site.
OutcomeOf(b, condemned) ==
  CASE b \in condemned -> {"watchdog"}
    [] job[b] = "finished" -> {"ok"}
    [] job[b] = "error" -> {"bad"}
    [] OTHER -> {}

\* query() with the states of the jobs.  The watchdog knows the running ones that
\* law had at the last callback.
Answered(t) ==
  /\ server[t] = "scheduled"
  /\ \E known \in SUBSET Running(t) : \E stale \in SUBSET known :
       LET condemned == verdicts(known, stale)
           new == {s \in Members(t) \X Outcomes : s[2] \in OutcomeOf(s[1], condemned)} \ statsSeen
       IN /\ Answer(t, [b \in Members(t) |->
                         IF b \in condemned \/ job[b] \in {"error", "killed"} THEN "failed" ELSE job[b]])
          /\ perBranch' = [b \in Branches |-> IF b \in condemned THEN perBranch[b] + 1
                                              ELSE perBranch[b]]
          /\ issued' = issued + Cardinality(condemned)
          /\ statsSeen' = statsSeen \union new
          /\ recorded' = [b \in Branches |-> [o \in Outcomes |->
                            IF <<b, o>> \in new THEN recorded[b][o] + 1 ELSE recorded[b][o]]]
  /\ unreadable' = Readable(t)
  /\ unscheduled' = [unscheduled EXCEPT ![t] = 0]
  /\ UNCHANGED <<raised, ours, refusedProjects, failedSubmissions, stop>>

\* (Mutant: a poll that cannot be read starts the wait anew.)
WaitStartsAnew(t) == [unscheduled EXCEPT ![t] = 0]

\* A poll that cannot be read does not end the wait for a scheduler.
WaitGoesOn(t) == unscheduled

\* No attempt could read the answer: pending, until that has lasted too long.
Unreadable(t) ==
  /\ Answer(t, AllPending)
  /\ unreadable' = [unreadable EXCEPT ![t] = @ + 1]
  /\ raised' = IF unreadable'[t] > MaxUnreadable THEN raised \union {t} ELSE raised
  /\ unscheduled' = WaitGoesOn(t)
  /\ UNCHANGED <<ours, refusedProjects, failedSubmissions, stop, statsSeen,
                 watchdog, recorded>>

Query(t) == Refused(t) \/ NotScheduledYet(t) \/ SubmitFailed(t) \/ Answered(t)

\* A query raised: law hears of nothing, calls back nobody and polls again, or
\* ends the run after so many.
Discard ==
  /\ phase = "poll" /\ asking = {} /\ raised # {}
  /\ IF pollFails < PollFails
       THEN /\ pollFails' = pollFails + 1
            /\ StartPoll
            /\ asking' = Live
            /\ UNCHANGED <<manager, watchdog, recorded>>
       ELSE phase' = "down" /\ Forget
  /\ UNCHANGED <<taskOf, accepted, world, legs>>

\* law takes over what it heard; a failed job waits for a new task.
Settled ==
  /\ phase = "poll" /\ asking = {} /\ raised = {}
  /\ accepted' = accepted \union {b \in Branches : heard[b] = "finished"}
  /\ LET failed == {b \in Branches : heard[b] = "failed"} IN
       /\ taskOf' = [b \in Branches |-> IF b \in failed THEN 0 ELSE taskOf[b]]
       /\ job' = [b \in Branches |-> IF b \in failed THEN "pending" ELSE job[b]]
  /\ UNCHANGED <<server, legs>>

Finish ==
  /\ Settled
  /\ accepted' = Branches
  /\ phase' = "done" /\ Forget

\* crab_poll_callback raises what the manager found.
Stop ==
  /\ Settled
  /\ accepted' # Branches
  /\ stop
  /\ phase' = "down" /\ Forget

\* It refreshes the watchdog's listing once per interval, whether it reads or not.
GoOn ==
  /\ Settled
  /\ accepted' # Branches
  /\ ~stop
  /\ phase' = "submit"
  /\ heard' = Nothing /\ pollFails' = 0
  /\ issued' \in {issued, 0}
  /\ recorded' = [b \in Branches |-> IF taskOf'[b] = 0 THEN NoRecords ELSE recorded[b]]
  /\ statsSeen' = {s \in statsSeen : taskOf'[s[1]] # 0}
  /\ UNCHANGED <<asking, raised, unreadable, unscheduled, ours, refusedProjects,
                 failedSubmissions, stop, perBranch>>

Die ==
  /\ phase \in {"poll", "submit"} /\ legs < MaxLegs
  /\ phase' = "down" /\ Forget
  /\ UNCHANGED <<taskOf, accepted, world, legs>>

\* The driver is started again, from law's submission file.
Start ==
  /\ phase = "down" /\ legs < MaxLegs
  /\ legs' = legs + 1
  /\ phase' = "submit"
  /\ UNCHANGED <<taskOf, accepted, asking, heard, raised, pollFails, manager, watchdog, world,
                 recorded>>

-----------------------------------------------------------------------------
(***************************************************************************)
(* CRAB.                                                                   *)
(***************************************************************************)

ServerDecides(t) ==
  /\ server[t] = "waiting"
  /\ \E s \in {"scheduled", "refused", "failed"} : server' = [server EXCEPT ![t] = s]
  /\ UNCHANGED <<law, manager, watchdog, job, recorded, legs>>

JobMoves(b) ==
  /\ taskOf[b] # 0 /\ server[taskOf[b]] = "scheduled" /\ b \notin accepted
  /\ \/ job[b] = "pending" /\ job' = [job EXCEPT ![b] = "running"]
     \/ /\ job[b] = "running"
        /\ \E s \in {"finished", "error", "killed"} : job' = [job EXCEPT ![b] = s]
  /\ UNCHANGED <<law, manager, watchdog, server, recorded, legs>>

Resting == phase = "done" \/ (phase = "down" /\ legs = MaxLegs)
Rest == Resting /\ UNCHANGED vars

World == (\E t \in Tasks : ServerDecides(t)) \/ (\E b \in Branches : JobMoves(b))
Ask == \E t \in Tasks : Query(t) \/ Unreadable(t)
Driver == Submit \/ GiveUp \/ Ask \/ Discard \/ Finish \/ Stop \/ GoOn
Next == Driver \/ Die \/ Start \/ World \/ Rest

\* The driver keeps polling, and a job that is scheduled goes on, be it to CRAB's
\* wall-clock limit.  A task may wait for its scheduler for ever, no answer need be
\* readable, and nothing says that the flags' storage recovers.
Fairness ==
  /\ WF_vars(Driver)
  /\ \A b \in Branches : WF_vars(JobMoves(b))

Spec == Init /\ [][Next]_vars /\ Fairness

-----------------------------------------------------------------------------

\* The run is stopped only for what tasks of this run met, or for a task that has
\* not been scheduled for too long and still is not: nothing an earlier run left
\* behind counts, nor an answer heard twice.
StopIsEarned ==
  [][~stop /\ stop' =>
       \/ Cardinality({t \in ours : server[t] = "refused"}) >= MaxRefused
       \/ Cardinality({t \in ours : server[t] = "failed"}) >= MaxFailedSubmissions
       \/ \E t \in Tasks : server[t] = "waiting" /\ unscheduled'[t] > MaxUnscheduled]_vars

\* A run records an outcome of a job once, however often polls are thrown away and
\* repeated, and it is the job's own: nothing of one that was killed or never ran.
SiteRecordIsTrue ==
  \A b \in Branches :
    /\ \A o \in Outcomes : recorded[b][o] <= 1
    /\ recorded[b]["ok"] = 1 => job[b] = "finished"
    /\ recorded[b]["bad"] = 1 => job[b] = "error"
    /\ recorded[b]["watchdog"] = 1 => perBranch[b] > 0

\* No run polls for ever: not on a task that is never scheduled, not on answers that
\* are never, or only now and then, readable, and not on polls that are thrown away.
EveryRunEnds == []<>(phase \in {"down", "done"})
=============================================================================
