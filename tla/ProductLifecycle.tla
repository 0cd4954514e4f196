-------------------------- MODULE ProductLifecycle --------------------------
(***************************************************************************)
(* How the products of one production point come and go on the storage.    *)
(* RunProd makes a seed's nano files, stages each and writes a record that *)
(* it did; the record is the seed's output.  NanoMergeTask merges a group  *)
(* of staged files and then deletes them.  PruneProducedRecords deletes    *)
(* the records of files nothing accounts for, BackfillProducedRecords      *)
(* writes missing ones, and ProductionTask runs produce, prune and merge.  *)
(*                                                                         *)
(* A job the watchdog or the driver gave up on may still be running, so    *)
(* several attempts (slots) of one job may write at once.  Uploads are     *)
(* atomic (CopyRename).  The storage loses files, the setup may be edited  *)
(* between runs, jobs and the task may die at any point.                   *)
(***************************************************************************)
EXTENDS Integers, FiniteSets

CONSTANTS
  NSeeds,           \* seeds of the point
  NVersions,        \* nano versions of its era
  FilesPerMerge,    \* prod_setup's files_per_merge
  Sizes,            \* the events_per_job the setup may ask for
  MaxRepairs,       \* ProductionTask.max_repairs
  MaxStalePercent,  \* PruneProducedRecords.max_stale_fraction
  Slots,            \* bound: attempts of one job at once
  MaxFaults,        \* bound: deaths, failed listings and failed removals
  MaxLosses,        \* bound: files the storage loses
  MaxSweeps,        \* bound: prunes and backfills run by hand
  MaxEdits          \* bound: changes of events_per_job

ASSUME ShapeAssumption == NSeeds \in Nat \ {0} /\ NVersions \in Nat \ {0} /\ FilesPerMerge \in Nat \ {0}
ASSUME SizesAssumption == Sizes # {} /\ Sizes \subseteq Nat \ {0}
ASSUME RepairAssumption == MaxRepairs \in Nat /\ MaxStalePercent \in 0..100
ASSUME BoundsAssumption ==
  Slots # {} /\ {MaxFaults, MaxLosses, MaxSweeps, MaxEdits} \subseteq Nat

Seeds == 1..NSeeds
Versions == 1..NVersions
Files == Seeds \X Versions
\* merge_groups.
Group(s) == (s - 1) \div FilesPerMerge
Merges == {Group(s) : s \in Seeds} \X Versions
MergeOf(f) == <<Group(f[1]), f[2]>>
Inputs(m) == {f \in Files : MergeOf(f) = m}

VARIABLES
  staged,  \* size of each staged nano file, 0 when it is not there
  record,  \* events_requested of each produced record, 0 when it is not there
  merged,  \* job sizes of each merged file's inputs, {} when it is not there
  run,     \* RunProd attempts: the step they are at (0: none) and their size
  merge,   \* NanoMergeTask attempts: what they hold and have yet to remove
  task,    \* where ProductionTask is
  rounds,  \* its repair rounds
  setup,   \* events_per_job of the setup
  sweep    \* the prune or backfill in progress

VARIABLES
  \* History: the files the storage lost, and those staged at one size that a record, an
  \* attempt or a merge in progress knew by another.
  lost, overtaken,
  faults, losses, sweeps, edits  \* what the bounds limit

storage == <<staged, record, merged>>
bounds == <<lost, overtaken, faults, losses, sweeps, edits>>
vars == <<storage, run, merge, task, rounds, setup, sweep, bounds>>

NoRun == [at |-> 0, size |-> 0]
NoMerge == [at |-> "none", size |-> 0, holds |-> {}, left |-> {}]
SweepOf(kind, at, size, todo, found, failed) ==
  [kind |-> kind, at |-> at, size |-> size, records |-> {}, staged |-> {}, merged |-> {},
   unread |-> {}, todo |-> todo, found |-> found, failed |-> failed]
NoSweep == SweepOf("none", "records", 0, {}, 0, FALSE)

Recorded == {f \in Files : record[f] # 0}
Staged == {f \in Files : staged[f] # 0}
Merged == {m \in Merges : merged[m] # {}}
SeedComplete(s) == \A v \in Versions : <<s, v>> \in Recorded
RunProdComplete == Recorded = Files
MergeComplete == Merged = Merges

TypeOK ==
  /\ staged \in [Files -> {0} \union Sizes] /\ record \in [Files -> {0} \union Sizes]
  /\ merged \in [Merges -> SUBSET Sizes]
  /\ run \in [Seeds \X Slots -> {NoRun} \union [at : 1..2*NVersions, size : Sizes]]
  /\ merge \in [Merges \X Slots ->
                  [at : {"none", "fetch", "publish", "remove"}, size : {0} \union Sizes,
                   holds : SUBSET Sizes, left : SUBSET Files]]
  /\ task \in {"off", "produce", "repair", "merge", "merging"} /\ rounds \in 0..MaxRepairs
  /\ setup \in Sizes
  /\ sweep \in [kind : {"none", "prune", "repair", "backfill"},
                at : {"records", "staged", "merged", "act"}, size : {0} \union Sizes,
                records : SUBSET Files, staged : SUBSET Files, merged : SUBSET Merges,
                unread : SUBSET Versions, todo : SUBSET Files, found : Nat, failed : BOOLEAN]

Init ==
  /\ staged = [f \in Files |-> 0] /\ record = staged
  /\ merged = [m \in Merges |-> {}]
  /\ run = [a \in Seeds \X Slots |-> NoRun]
  /\ merge = [a \in Merges \X Slots |-> NoMerge]
  /\ task = "off" /\ rounds = 0 /\ setup \in Sizes /\ sweep = NoSweep
  /\ lost = {} /\ overtaken = {} /\ faults = 0 /\ losses = 0 /\ sweeps = 0 /\ edits = 0

Fault == faults < MaxFaults /\ faults' = faults + 1 /\ UNCHANGED <<lost, overtaken, losses, sweeps, edits>>

-----------------------------------------------------------------------------
(***************************************************************************)
(* RunProd.                                                                *)
(***************************************************************************)

\* The workflow submits a seed one of whose records is missing, also while an
\* attempt it gave up on is still running.
SubmitSeed(s, k) ==
  /\ task \in {"produce", "merge"}
  /\ ~SeedComplete(s)
  /\ run[<<s, k>>] = NoRun
  /\ run' = [run EXCEPT ![<<s, k>>] = [at |-> 1, size |-> setup]]
  /\ UNCHANGED <<storage, merge, task, rounds, setup, sweep, bounds>>

\* A file staged now is known by another size: to its record, to an attempt that staged
\* it before and will record it, or to a merge that admitted it and is about to fetch.
IsOvertaken(s, k, f) ==
  LET a == run[<<s, k>>] IN
  \/ record[f] \notin {0, a.size}
  \/ \E j \in Slots : run[<<s, j>>].at > a.at /\ run[<<s, j>>].size # a.size
  \/ \E j \in Slots : merge[<<MergeOf(f), j>>].at = "fetch" /\ merge[<<MergeOf(f), j>>].size # a.size

\* (Mutant: the record is written before the file is staged.)
RunStepRecordFirst(s, k) ==
  LET a == run[<<s, k>>]
      f == <<s, (a.at + 1) \div 2>>
  IN /\ a # NoRun
     /\ IF a.at % 2 = 1
          THEN record' = [record EXCEPT ![f] = a.size] /\ UNCHANGED <<staged, bounds>>
          ELSE staged' = [staged EXCEPT ![f] = a.size] /\ UNCHANGED <<record, bounds>>
     /\ run' = [run EXCEPT ![<<s, k>>] = IF a.at = 2*NVersions THEN NoRun ELSE [at |-> a.at + 1, size |-> a.size]]
     /\ UNCHANGED <<merged, merge, task, rounds, setup, sweep>>

\* For each version: stage the nano file, then write its record.
RunStep(s, k) ==
  LET a == run[<<s, k>>]
      f == <<s, (a.at + 1) \div 2>>
  IN /\ a # NoRun
     /\ IF a.at % 2 = 1
          THEN /\ staged' = [staged EXCEPT ![f] = a.size] /\ UNCHANGED record
               /\ overtaken' = IF IsOvertaken(s, k, f) THEN overtaken \union {f} ELSE overtaken
          ELSE record' = [record EXCEPT ![f] = a.size] /\ UNCHANGED <<staged, overtaken>>
     /\ run' = [run EXCEPT ![<<s, k>>] = IF a.at = 2*NVersions THEN NoRun ELSE [at |-> a.at + 1, size |-> a.size]]
     /\ UNCHANGED <<merged, merge, task, rounds, setup, sweep, lost, faults, losses, sweeps, edits>>

RunDies(s, k) ==
  /\ run[<<s, k>>] # NoRun /\ Fault
  /\ run' = [run EXCEPT ![<<s, k>>] = NoRun]
  /\ UNCHANGED <<storage, merge, task, rounds, setup, sweep>>

-----------------------------------------------------------------------------
(***************************************************************************)
(* NanoMergeTask.                                                          *)
(***************************************************************************)

\* (Mutant: whatever is recorded is merged.)
AdmittedAnyway(m) == \A f \in Inputs(m) : SeedComplete(f[1]) /\ f \in Staged

\* A merge job generates no seed (RunProd.run's guard); _check_staged_inputs and
\* _check_contracted_inputs.
Admitted(m) ==
  \A f \in Inputs(m) : SeedComplete(f[1]) /\ f \in Staged /\ record[f] = setup

\* (Mutant: the merged file is not held to the size its seeds were asked for.)
CountsAgreeAnyway(m, size) == Inputs(m) \subseteq Staged

\* The events of the inputs, as pairs of the file and a number within it.
Events(m) == UNION {{f} \X (1..staged[f]) : f \in Inputs(m)}

\* What is fetched now merges into as many events as were asked for.
CountsAgree(m, size) ==
  /\ Inputs(m) \subseteq Staged
  /\ Cardinality(Events(m)) = size * Cardinality(Inputs(m))

\* The checks of a merge job; one that may not merge leaves no trace.
StartMerge(m, k) ==
  /\ task = "merging"
  /\ m \notin Merged
  /\ merge[<<m, k>>] = NoMerge
  /\ Admitted(m)
  /\ merge' = [merge EXCEPT ![<<m, k>>] = [at |-> "fetch", size |-> setup, holds |-> {}, left |-> {}]]
  /\ UNCHANGED <<storage, run, task, rounds, setup, sweep, bounds>>

\* It fetches and merges its inputs, and fails when one is gone or the entries
\* do not add up.
Fetch(m, k) ==
  LET a == merge[<<m, k>>]
      fetched == [at |-> "publish", size |-> a.size,
                  holds |-> {staged[f] : f \in Inputs(m)}, left |-> Inputs(m)]
  IN /\ a.at = "fetch"
     /\ merge' = [merge EXCEPT ![<<m, k>>] = IF CountsAgree(m, a.size) THEN fetched ELSE NoMerge]
     /\ UNCHANGED <<storage, run, task, rounds, setup, sweep, bounds>>

Removing(a, left) == [at |-> "remove", size |-> a.size, holds |-> a.holds, left |-> left]

\* (Mutant: the inputs go before the merged file is up.)
PublishMergedLast(m, k) ==
  /\ merge[<<m, k>>].at = "publish"
  /\ staged' = [f \in Files |-> IF f \in merge[<<m, k>>].left THEN 0 ELSE staged[f]]
  /\ \/ merge' = [merge EXCEPT ![<<m, k>>].left = {}] /\ merge[<<m, k>>].left # {} /\ UNCHANGED merged
     \/ /\ merge[<<m, k>>].left = {} /\ merge' = [merge EXCEPT ![<<m, k>>] = NoMerge]
        /\ merged' = [merged EXCEPT ![m] = merge[<<m, k>>].holds]
  /\ UNCHANGED <<record, run, task, rounds, setup, sweep, bounds>>

PublishMerged(m, k) ==
  /\ merge[<<m, k>>].at = "publish"
  /\ merged' = [merged EXCEPT ![m] = merge[<<m, k>>].holds]
  /\ merge' = [merge EXCEPT ![<<m, k>>] = Removing(merge[<<m, k>>], merge[<<m, k>>].left)]
  /\ UNCHANGED <<staged, record, run, task, rounds, setup, sweep, bounds>>

\* Removed one after the other; a removal that fails is silent, the file stays.
RemoveStaged(m, k) ==
  /\ merge[<<m, k>>].at = "remove"
  /\ \E f \in merge[<<m, k>>].left :
       /\ \A e \in merge[<<m, k>>].left : f[1] <= e[1]
       /\ merge' = [merge EXCEPT ![<<m, k>>] =
            LET left == merge[<<m, k>>].left \ {f}
            IN IF left = {} THEN NoMerge ELSE Removing(merge[<<m, k>>], left)]
       /\ \/ staged' = [staged EXCEPT ![f] = 0] /\ UNCHANGED bounds
          \/ Fault /\ UNCHANGED staged
  /\ UNCHANGED <<record, merged, run, task, rounds, setup, sweep>>

MergeDies(m, k) ==
  /\ merge[<<m, k>>] # NoMerge /\ Fault
  /\ merge' = [merge EXCEPT ![<<m, k>>] = NoMerge]
  /\ UNCHANGED <<storage, run, task, rounds, setup, sweep>>

-----------------------------------------------------------------------------
(***************************************************************************)
(* PruneProducedRecords and BackfillProducedRecords: three listings,       *)
(* records, staged, merged, and then what follows from them.               *)
(***************************************************************************)

StartSweep(kind) ==
  /\ sweep = NoSweep
  /\ IF kind = "repair" THEN task = "repair" /\ UNCHANGED sweeps
     ELSE sweeps < MaxSweeps /\ sweeps' = sweeps + 1
  /\ sweep' = SweepOf(kind, "records", setup, {}, 0, FALSE)
  /\ UNCHANGED <<storage, run, merge, task, rounds, setup, lost, overtaken, faults, losses, edits>>

\* The seeds' files a listing accounts for, and the records it does not.
\* (Mutant: merged files are forgotten.)
CoveredByStaged(sw) == sw.staged

Covered(sw) == {f \in Files : MergeOf(f) \in sw.merged} \union sw.staged
Stale(sw) == sw.records \ Covered(sw)

\* max_stale_fraction, for each (era, point, version).
OfVersion(S, v) == {f \in S : f[2] = v}
TooStale(sw, v) ==
  100 * Cardinality(OfVersion(Stale(sw), v)) > MaxStalePercent * Cardinality(OfVersion(sw.records, v))

\* A version that could not be listed, or whose stale share is too large, is left
\* alone and fails the run.
Decide(sw) ==
  LET refused == sw.unread \union {v \in Versions : TooStale(sw, v)}
      todo == {f \in Stale(sw) : f[2] \notin refused}
  IN IF sw.kind = "backfill" THEN SweepOf(sw.kind, "act", sw.size, Covered(sw) \ sw.records, 0, FALSE)
     ELSE SweepOf(sw.kind, "act", sw.size, todo, Cardinality(todo), refused # {})

Seen(S, unread) == {x \in S : x[2] \notin unread}

\* (Mutant: merged files are listed before staged ones.)
ListedMergedFirst(sw, unread) ==
  LET read == [sw EXCEPT !.unread = @ \union unread]
  IN CASE sw.at = "records" -> [read EXCEPT !.records = Seen(Recorded, unread), !.at = "staged"]
       [] sw.at = "staged" -> [read EXCEPT !.merged = Seen(Merged, unread), !.at = "merged"]
       [] sw.at = "merged" -> Decide([read EXCEPT !.staged = Seen(Staged, unread)])

\* The listings of every version: one that cannot be read is noted by the prune,
\* and reads as empty to the backfill.
Listed(sw, unread) ==
  LET read == [sw EXCEPT !.unread = @ \union unread]
  IN CASE sw.at = "records" -> [read EXCEPT !.records = Seen(Recorded, unread), !.at = "staged"]
       [] sw.at = "staged" -> [read EXCEPT !.staged = Seen(Staged, unread), !.at = "merged"]
       [] sw.at = "merged" -> Decide([read EXCEPT !.merged = Seen(Merged, unread)])

List ==
  /\ sweep.kind # "none" /\ sweep.at # "act"
  /\ \/ sweep' = Listed(sweep, {}) /\ UNCHANGED bounds
     \/ Fault /\ \E unread \in SUBSET Versions \ {{}} : sweep' = Listed(sweep, unread)
  /\ UNCHANGED <<storage, run, merge, task, rounds, setup>>

Without(sw, f, failed) == [sw EXCEPT !.todo = @ \ {f}, !.failed = failed]

\* drop(): the record goes; or the removal fails and the run with it; or a stat
\* that cannot reach the record has it counted as removed.
Drop ==
  /\ sweep.kind \in {"prune", "repair"} /\ sweep.at = "act"
  /\ \E f \in sweep.todo :
       \/ /\ record' = [record EXCEPT ![f] = 0]
          /\ sweep' = Without(sweep, f, sweep.failed)
          /\ UNCHANGED bounds
       \/ /\ Fault /\ UNCHANGED record
          /\ \E failed \in {TRUE, sweep.failed} : sweep' = Without(sweep, f, failed)
  /\ UNCHANGED <<staged, merged, run, merge, task, rounds, setup>>

\* The backfill writes the size the setup asked for when it started, whatever size
\* is staged.
Write ==
  /\ sweep.kind = "backfill" /\ sweep.at = "act"
  /\ \E f \in sweep.todo :
       /\ record' = [record EXCEPT ![f] = sweep.size]
       /\ overtaken' = IF staged[f] \in {0, sweep.size} THEN overtaken ELSE overtaken \union {f}
       /\ sweep' = Without(sweep, f, FALSE)
  /\ UNCHANGED <<staged, merged, run, merge, task, rounds, setup, lost, faults, losses, sweeps, edits>>

EndSweep ==
  /\ sweep.kind \in {"prune", "backfill"} /\ sweep.at = "act" /\ sweep.todo = {}
  /\ sweep' = NoSweep
  /\ UNCHANGED <<storage, run, merge, task, rounds, setup, bounds>>

-----------------------------------------------------------------------------
(***************************************************************************)
(* ProductionTask.                                                         *)
(***************************************************************************)

StartTask ==
  /\ task = "off" /\ ~MergeComplete
  /\ task' = "produce" /\ rounds' = 0
  /\ UNCHANGED <<storage, run, merge, setup, sweep, bounds>>

\* (Mutant: no repair before the merge.)
ProduceDoneUnrepaired ==
  /\ task = "produce" /\ RunProdComplete
  /\ task' = "merge"
  /\ UNCHANGED <<storage, run, merge, rounds, setup, sweep, bounds>>

\* RunProd is complete: run() goes on, or is executed again from the top.
ProduceDone ==
  /\ task = "produce" /\ RunProdComplete
  /\ task' = IF MaxRepairs > 0 /\ ~MergeComplete THEN "repair" ELSE "merge"
  /\ UNCHANGED <<storage, run, merge, rounds, setup, sweep, bounds>>

\* (Mutant: the bound on the rounds is compared one too late.)
RepairDoneLate ==
  /\ sweep.kind = "repair" /\ sweep.at = "act" /\ sweep.todo = {}
  /\ sweep' = NoSweep
  /\ \/ /\ ~sweep.failed /\ sweep.found = 0
        /\ task' = "merge" /\ UNCHANGED rounds
     \/ /\ ~sweep.failed /\ sweep.found > 0 /\ rounds <= MaxRepairs
        /\ task' = IF RunProdComplete THEN "merge" ELSE "produce"
        /\ rounds' = rounds + 1
     \/ /\ sweep.failed \/ (sweep.found > 0 /\ rounds > MaxRepairs)
        /\ task' = "off" /\ UNCHANGED rounds
  /\ UNCHANGED <<storage, run, merge, setup, bounds>>

\* The sweep is over: merge, or produce again what it pruned, or give up.
RepairDone ==
  /\ sweep.kind = "repair" /\ sweep.at = "act" /\ sweep.todo = {}
  /\ sweep' = NoSweep
  /\ \/ /\ ~sweep.failed /\ sweep.found = 0
        /\ task' = "merge" /\ UNCHANGED rounds
     \/ /\ ~sweep.failed /\ sweep.found > 0 /\ rounds < MaxRepairs
        /\ task' = IF RunProdComplete THEN "merge" ELSE "produce"
        /\ rounds' = rounds + 1
     \/ /\ sweep.failed \/ (sweep.found > 0 /\ rounds = MaxRepairs)
        /\ task' = "off" /\ UNCHANGED rounds
  /\ UNCHANGED <<storage, run, merge, setup, bounds>>

\* Nothing left to merge: done.  Otherwise the merge workflow starts once its
\* RunProd requirement is complete.
BeginMerge ==
  /\ task = "merge"
  /\ \/ MergeComplete /\ task' = "off"
     \/ ~MergeComplete /\ RunProdComplete /\ task' = "merging"
  /\ UNCHANGED <<storage, run, merge, rounds, setup, sweep, bounds>>

\* Every group is merged and run() is executed again, or a group that cannot be
\* merged has used up its attempts.
MergeEnds ==
  /\ task = "merging"
  /\ \/ MergeComplete /\ task' = "produce"
     \/ /\ \E m \in Merges \ Merged : ~(Admitted(m) /\ CountsAgree(m, setup))
        /\ task' = "off"
  /\ UNCHANGED <<storage, run, merge, rounds, setup, sweep, bounds>>

\* The driver dies, in the middle of a repair too; its jobs run on.
TaskDies ==
  /\ task # "off" /\ Fault
  /\ task' = "off" /\ rounds' = 0
  /\ sweep' = IF sweep.kind = "repair" THEN NoSweep ELSE sweep
  /\ UNCHANGED <<storage, run, merge, setup>>

-----------------------------------------------------------------------------
(***************************************************************************)
(* The storage and the operator.                                           *)
(***************************************************************************)

Lose ==
  /\ losses < MaxLosses /\ losses' = losses + 1
  /\ \/ \E f \in Staged :
          staged' = [staged EXCEPT ![f] = 0] /\ lost' = lost \union {f} /\ UNCHANGED merged
     \/ \E m \in Merged :
          merged' = [merged EXCEPT ![m] = {}] /\ lost' = lost \union Inputs(m) /\ UNCHANGED staged
  /\ UNCHANGED <<record, run, merge, task, rounds, setup, sweep, overtaken, faults, sweeps, edits>>

EditSetup ==
  /\ task = "off" /\ edits < MaxEdits /\ edits' = edits + 1
  /\ \E size \in Sizes \ {setup} : setup' = size
  /\ UNCHANGED <<storage, run, merge, task, rounds, sweep, lost, overtaken, faults, losses, sweeps>>

RunProd == \E s \in Seeds, k \in Slots : SubmitSeed(s, k) \/ RunStep(s, k)
NanoMerge == \E m \in Merges, k \in Slots :
  StartMerge(m, k) \/ Fetch(m, k) \/ PublishMerged(m, k) \/ RemoveStaged(m, k)
Sweep == StartSweep("repair") \/ List \/ Drop \/ Write \/ EndSweep
Production == StartTask \/ ProduceDone \/ RepairDone \/ BeginMerge \/ MergeEnds
Faults == (\E s \in Seeds, k \in Slots : RunDies(s, k)) \/ (\E m \in Merges, k \in Slots : MergeDies(m, k))
            \/ TaskDies
Outside == Lose \/ EditSetup \/ StartSweep("prune") \/ StartSweep("backfill")

Next == RunProd \/ NanoMerge \/ Sweep \/ Production \/ Faults \/ Outside

Spec == Init /\ [][Next]_vars

\* Jobs and listings come to an end, a workflow submits what is incomplete, and
\* the operator runs the task again until the production is complete.
FairSpec ==
  /\ Spec
  /\ WF_vars(StartTask) /\ WF_vars(ProduceDone) /\ WF_vars(RepairDone) /\ WF_vars(BeginMerge)
  /\ WF_vars(MergeEnds) /\ WF_vars(Sweep)
  /\ \A s \in Seeds, k \in Slots : WF_vars(SubmitSeed(s, k)) /\ WF_vars(RunStep(s, k))
  /\ \A m \in Merges, k \in Slots :
       WF_vars(StartMerge(m, k)) /\ WF_vars(Fetch(m, k)) /\ WF_vars(PublishMerged(m, k)) /\ WF_vars(RemoveStaged(m, k))

-----------------------------------------------------------------------------
(***************************************************************************)
(* Properties.                                                             *)
(***************************************************************************)

\* A record is trusted in place of the file, so unless the storage lost it there
\* is a staged or a merged file behind every record, whoever dies or races.
RecordIsBacked == \A f \in Recorded \ lost : f \in Staged \/ MergeOf(f) \in Merged

\* The inputs of a merged file were all made at one job size, edits between runs,
\* a late attempt of a seed and a backfill included.  Only two of them whose records are
\* wrong, or that were replaced after the records were compared, can average out.
MergedHonoursContract ==
  \A m \in Merged : \/ \E size \in Sizes : merged[m] = {size}
                    \/ Cardinality(Inputs(m) \intersect overtaken) >= 2

\* No seed whose products are all merged is generated again, however often jobs
\* and the task die, unless the storage lost one of them.
NoRegeneration ==
  [][\A s \in Seeds, k \in Slots :
       (run[<<s, k>>] = NoRun /\ run'[<<s, k>>] # NoRun) =>
         \E v \in Versions : <<Group(s), v>> \notin Merged \/ <<s, v>> \in lost]_vars

\* Only the record of a file the storage lost is ever pruned, whatever merges
\* while the listings are taken.
PruneOnlyLost ==
  [][\A f \in Files : record[f] # 0 /\ record'[f] = 0 => f \in lost]_vars

\* What makes the above inductive.  Backed: the file is somewhere or was lost;
\* Kept: not only as a staged file.
Kept(f) == MergeOf(f) \in Merged \/ f \in lost
Backed(f) == f \in Staged \/ Kept(f)

\* An attempt that is about to write a record has staged its file.
AttemptsBacked ==
  \A s \in Seeds, k \in Slots :
    run[<<s, k>>] # NoRun /\ run[<<s, k>>].at % 2 = 0 => Backed(<<s, (run[<<s, k>>].at + 1) \div 2>>)

\* A merge removes what its merged file holds, and merges what is recorded.
MergesBacked ==
  \A m \in Merges :
    /\ m \in Merged => \A f \in Inputs(m) : f \in Recorded \union lost
    /\ \A k \in Slots :
         /\ merge[<<m, k>>].left \subseteq Inputs(m)
         /\ merge[<<m, k>>].at # "none" => \A f \in Inputs(m) : f \in Recorded \union lost
         /\ merge[<<m, k>>].at = "publish" => merge[<<m, k>>].holds # {}
         /\ merge[<<m, k>>].at = "remove" => \A f \in Inputs(m) : Kept(f)

\* What a sweep has listed is still backed, and a record neither listing covers
\* had its file lost: a file that left the staging area during the listings is
\* in a merged file the last one sees.
SweepBacked ==
  /\ \A f \in Covered(sweep) : Backed(f)
  /\ IF sweep.kind = "backfill" THEN sweep.size # 0 /\ \A f \in sweep.todo : Backed(f)
     ELSE /\ \A f \in sweep.records : Backed(f)
          /\ sweep.at = "merged" =>
               \A f \in sweep.records \ sweep.staged : f[2] \in sweep.unread \/ Kept(f)
          /\ sweep.todo \subseteq lost

\* A file is of the size its record says, that an attempt gives it which is about to record
\* it, and that a merge about to fetch it has admitted, unless it was overtaken.
SizesKnown ==
  \A f \in Files \ overtaken :
    /\ staged[f] # 0 /\ record[f] # 0 => staged[f] = record[f]
    /\ \A k \in Slots : run[<<f[1], k>>].at >= 2 * f[2] => staged[f] \in {0, run[<<f[1], k>>].size}
    /\ \A k \in Slots : merge[<<MergeOf(f), k>>].at = "fetch" =>
                          staged[f] \in {0, merge[<<MergeOf(f), k>>].size}

\* What a merge has fetched, or merged, is of one size, unless two inputs were overtaken.
Honoured(m, held) ==
  (\E size \in Sizes : held = {size}) \/ Cardinality(Inputs(m) \intersect overtaken) >= 2
MergesHonour ==
  \A m \in Merges :
    /\ m \in Merged => Honoured(m, merged[m])
    /\ \A k \in Slots : merge[<<m, k>>].at = "publish" => Honoured(m, merge[<<m, k>>].holds)

ContractInv == SizesKnown /\ MergesHonour

LedgerInv == TypeOK /\ RecordIsBacked /\ AttemptsBacked /\ MergesBacked /\ SweepBacked

\* Running the task again repairs and finishes the production: when faults and
\* losses are over, it is complete and stays so.
Finishes == <>[]MergeComplete
=============================================================================
