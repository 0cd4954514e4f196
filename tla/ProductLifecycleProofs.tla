----------------------- MODULE ProductLifecycleProofs -----------------------
(***************************************************************************)
(* Proofs about ProductLifecycle, for every number of seeds, versions,     *)
(* attempts, faults, losses, sweeps and edits: records, staged and merged  *)
(* files account for each other, a prune takes the records of lost files   *)
(* only, nothing that is merged is generated again, and what a merged file *)
(* holds was all made at one job size.                                     *)
(***************************************************************************)
EXTENDS ProductLifecycle, FiniteSetTheorems, TLAPS

USE DEF Fault, storage, bounds, vars

\* Steps of the driver and of the operator that leave every product, record,
\* attempt and listing alone.
Quiet == StartTask \/ ProduceDone \/ BeginMerge \/ MergeEnds \/ EditSetup

\* The disjuncts of Next, one by one.
LEMMA NextCases ==
  ASSUME Next
  PROVE  \/ \E s \in Seeds, k \in Slots : SubmitSeed(s, k) \/ RunStep(s, k) \/ RunDies(s, k)
         \/ \E m \in Merges, k \in Slots :
              StartMerge(m, k) \/ Fetch(m, k) \/ PublishMerged(m, k) \/ RemoveStaged(m, k) \/ MergeDies(m, k)
         \/ \E kind \in {"prune", "repair", "backfill"} : StartSweep(kind)
         \/ List \/ Drop \/ Write \/ EndSweep \/ RepairDone \/ TaskDies \/ Lose \/ Quiet
BY DEF Next, RunProd, NanoMerge, Sweep, Production, Faults, Outside, Quiet

\* Staging numbers: an odd step stages the version the next step records.
LEMMA Halves ==
  ASSUME NEW n \in 1..2*NVersions
  PROVE  /\ (n + 1) \div 2 \in Versions
         /\ n % 2 # 0 => n % 2 = 1
         /\ n % 2 = 1 => n + 1 \in 1..2*NVersions /\ (n + 1) % 2 = 0 /\ (n + 2) \div 2 = (n + 1) \div 2
         /\ n # 2*NVersions => n + 1 \in 1..2*NVersions
BY ShapeAssumption DEF Versions

\* A seed's files belong to groups that exist.
LEMMA GroupsExist ==
  /\ \A f \in Files : MergeOf(f) \in Merges /\ f \in Inputs(MergeOf(f))
  /\ \A m \in Merges : Inputs(m) # {} /\ Inputs(m) \subseteq Files
  /\ \A m \in Merges : \A f \in Inputs(m) : MergeOf(f) = m
<1>1. \A f \in Files : MergeOf(f) \in Merges /\ f \in Inputs(MergeOf(f))
  BY DEF Files, MergeOf, Merges, Inputs
<1>2. ASSUME NEW m \in Merges PROVE Inputs(m) # {}
  <2>1. PICK s \in Seeds : m[1] = Group(s) /\ m[2] \in Versions /\ m = <<m[1], m[2]>>
    BY DEF Merges
  <2>2. <<s, m[2]>> \in Files /\ MergeOf(<<s, m[2]>>) = m
    BY <2>1 DEF Files, MergeOf
  <2> QED
    BY <2>2 DEF Inputs
<1> QED
  BY <1>1, <1>2 DEF Inputs

\* Files are finitely many.
LEMMA FilesFinite == IsFiniteSet(Files)
<1>1. IsFiniteSet(Seeds) /\ IsFiniteSet(Versions)
  BY ShapeAssumption, FS_Interval DEF Seeds, Versions
<1> QED
  BY <1>1, FS_Product DEF Files

\* Attempt k of seed s stages or records file f, at step n.
StepOf(s, k, n, size, f) ==
  /\ size # 0 /\ f = <<s, (n + 1) \div 2>>
  /\ run[<<s, k>>].at = n /\ run[<<s, k>>] # NoRun
  /\ n % 2 = 1 => staged' = [staged EXCEPT ![f] = size] /\ record' = record
  /\ n % 2 # 1 => record' = [record EXCEPT ![f] = size] /\ staged' = staged
  /\ run' = [run EXCEPT ![<<s, k>>] =
               IF n = 2*NVersions THEN NoRun ELSE [at |-> n + 1, size |-> size]]

\* An attempt stages or records one file, under the size it was started with.
LEMMA RunStepEffect ==
  ASSUME TypeOK, NEW s \in Seeds, NEW k \in Slots, RunStep(s, k)
  PROVE  \E n \in 1..2*NVersions, size \in Sizes, f \in Files : StepOf(s, k, n, size, f)
<1>1. PICK n \in 1..2*NVersions, size \in Sizes : run[<<s, k>>] = [at |-> n, size |-> size]
  BY DEF TypeOK, RunStep
<1>2. PICK f \in Files : f = <<s, (n + 1) \div 2>>
  BY Halves DEF Files
<1>3. run[<<s, k>>].at = n /\ run[<<s, k>>].size = size /\ size # 0
  BY <1>1, SizesAssumption
<1>4. StepOf(s, k, n, size, f)
  BY <1>2, <1>3 DEF RunStep, StepOf
<1> QED
  BY <1>4

\* The states of a sweep.
SweepStates == [kind : {"none", "prune", "repair", "backfill"},
                at : {"records", "staged", "merged", "act"}, size : {0} \union Sizes,
                records : SUBSET Files, staged : SUBSET Files, merged : SUBSET Merges,
                unread : SUBSET Versions, todo : SUBSET Files, found : Nat, failed : BOOLEAN]

\* A record a sweep is done with is the only thing to leave it.
LEMMA WithoutFields ==
  ASSUME NEW sw \in SweepStates, NEW f, NEW failed \in BOOLEAN
  PROVE  Without(sw, f, failed) =
           [kind |-> sw.kind, at |-> sw.at, size |-> sw.size, records |-> sw.records, staged |-> sw.staged,
            merged |-> sw.merged, unread |-> sw.unread, todo |-> sw.todo \ {f},
            found |-> sw.found, failed |-> failed]
<1>1. PICK r : r = [sw EXCEPT !.todo = @ \ {f}]
  OBVIOUS
<1>2. r = [kind |-> sw.kind, at |-> sw.at, size |-> sw.size, records |-> sw.records, staged |-> sw.staged,
           merged |-> sw.merged, unread |-> sw.unread, todo |-> sw.todo \ {f},
           found |-> sw.found, failed |-> sw.failed]
  BY <1>1 DEF SweepStates
<1>3. [r EXCEPT !.failed = failed] =
        [kind |-> r.kind, at |-> r.at, size |-> r.size, records |-> r.records, staged |-> r.staged,
         merged |-> r.merged, unread |-> r.unread, todo |-> r.todo, found |-> r.found, failed |-> failed]
  BY <1>2
<1>4. Without(sw, f, failed) = [r EXCEPT !.failed = failed]
  BY <1>1 DEF Without
<1> QED
  BY <1>2, <1>3, <1>4

\* A prune and a backfill go through their records one by one.
LEMMA ActsWithout ==
  ASSUME Drop \/ Write
  PROVE  \E f : \/ sweep' = Without(sweep, f, TRUE) \/ sweep' = Without(sweep, f, FALSE)
               \/ sweep' = Without(sweep, f, sweep.failed)
<1>1. CASE Drop
  BY <1>1 DEF Drop
<1>2. CASE Write
  BY <1>2 DEF Write
<1> QED
  BY <1>1, <1>2

\* What a listing adds to the sweep.
LEMMA ListedFields ==
  ASSUME NEW sw \in SweepStates, NEW unread \in SUBSET Versions
  PROVE  LET Now(at, records, stagedNow, mergedNow) ==
               [kind |-> sw.kind, at |-> at, size |-> sw.size, records |-> records, staged |-> stagedNow,
                merged |-> mergedNow, unread |-> sw.unread \union unread, todo |-> sw.todo,
                found |-> sw.found, failed |-> sw.failed]
         IN /\ sw.at = "records" =>
                 Listed(sw, unread) = Now("staged", Seen(Recorded, unread), sw.staged, sw.merged)
            /\ sw.at = "staged" =>
                 Listed(sw, unread) = Now("merged", sw.records, Seen(Staged, unread), sw.merged)
            /\ sw.at = "merged" =>
                 Listed(sw, unread) = Decide(Now("merged", sw.records, sw.staged, Seen(Merged, unread)))
<1> DEFINE Now(at, records, stagedNow, mergedNow) ==
      [kind |-> sw.kind, at |-> at, size |-> sw.size, records |-> records, staged |-> stagedNow,
       merged |-> mergedNow, unread |-> sw.unread \union unread, todo |-> sw.todo,
       found |-> sw.found, failed |-> sw.failed]
<1>1. PICK read : read = [sw EXCEPT !.unread = @ \union unread]
  OBVIOUS
<1>2. read = Now(sw.at, sw.records, sw.staged, sw.merged)
  BY <1>1 DEF SweepStates
<1>3. CASE sw.at = "records"
  <2>1. PICK r : r = [read EXCEPT !.records = Seen(Recorded, unread)]
    OBVIOUS
  <2>2. r = Now("records", Seen(Recorded, unread), sw.staged, sw.merged)
    BY <1>2, <1>3, <2>1
  <2>3. Listed(sw, unread) = [r EXCEPT !.at = "staged"]
    BY <1>1, <1>3, <2>1 DEF Listed
  <2>4. [r EXCEPT !.at = "staged"] = Now("staged", Seen(Recorded, unread), sw.staged, sw.merged)
    BY <2>2
  <2> QED
    BY <1>3, <2>3, <2>4
<1>4. CASE sw.at = "staged"
  <2>1. PICK r : r = [read EXCEPT !.staged = Seen(Staged, unread)]
    OBVIOUS
  <2>2. r = Now("staged", sw.records, Seen(Staged, unread), sw.merged)
    BY <1>2, <1>4, <2>1
  <2>3. Listed(sw, unread) = [r EXCEPT !.at = "merged"]
    BY <1>1, <1>4, <2>1 DEF Listed
  <2>4. [r EXCEPT !.at = "merged"] = Now("merged", sw.records, Seen(Staged, unread), sw.merged)
    BY <2>2
  <2> QED
    BY <1>4, <2>3, <2>4
<1>5. CASE sw.at = "merged"
  <2>1. PICK r : r = [read EXCEPT !.merged = Seen(Merged, unread)]
    OBVIOUS
  <2>2. r = Now("merged", sw.records, sw.staged, Seen(Merged, unread))
    BY <1>2, <1>5, <2>1
  <2>3. Listed(sw, unread) = Decide(r)
    BY <1>1, <1>5, <2>1 DEF Listed
  <2> QED
    BY <1>5, <2>2, <2>3
<1> QED
  BY <1>3, <1>4, <1>5

-----------------------------------------------------------------------------
(***************************************************************************)
(* What once holds a product, or says that it was lost, goes on doing so.  *)
(***************************************************************************)

\* Lost files stay on the list, and a merged file leaves it to its inputs.
LEMMA KeptStays ==
  ASSUME LedgerInv, Next
  PROVE  lost \subseteq lost' /\ \A f \in Files : Kept(f) => Kept(f)'
<1> USE GroupsExist DEF LedgerInv, TypeOK, Kept, Merged
<1>1. ASSUME UNCHANGED <<merged, lost>>
      PROVE  lost \subseteq lost' /\ \A f \in Files : Kept(f) => Kept(f)'
  BY <1>1
<1>2. ASSUME NEW s \in Seeds, NEW k \in Slots, SubmitSeed(s, k) \/ RunStep(s, k) \/ RunDies(s, k)
      PROVE  UNCHANGED <<merged, lost>>
  BY <1>2 DEF SubmitSeed, RunStep, RunDies
<1>3. ASSUME NEW m \in Merges, NEW k \in Slots,
             StartMerge(m, k) \/ Fetch(m, k) \/ RemoveStaged(m, k) \/ MergeDies(m, k)
      PROVE  UNCHANGED <<merged, lost>>
  BY <1>3 DEF StartMerge, Fetch, RemoveStaged, MergeDies
<1>4. ASSUME NEW m \in Merges, NEW k \in Slots, PublishMerged(m, k)
      PROVE  lost \subseteq lost' /\ \A f \in Files : Kept(f) => Kept(f)'
  BY <1>4 DEF PublishMerged, MergesBacked
<1>5. ASSUME NEW kind \in {"prune", "repair", "backfill"}, StartSweep(kind)
      PROVE  UNCHANGED <<merged, lost>>
  BY <1>5 DEF StartSweep
<1>6. CASE List \/ Drop \/ Write \/ EndSweep \/ RepairDone \/ TaskDies \/ Quiet
  <2>1. UNCHANGED <<merged, lost>>
    BY <1>6 DEF List, Drop, Write, EndSweep, RepairDone, TaskDies, Quiet, StartTask, ProduceDone,
                BeginMerge, MergeEnds, EditSetup
  <2> QED
    BY <2>1, <1>1
<1>7. CASE Lose
  BY <1>7 DEF Lose
<1> QED
  BY NextCases, <1>1, <1>2, <1>3, <1>4, <1>5, <1>6, <1>7

\* A file is unstaged only by a merge that published it, or by being lost.
LEMMA BackedStays ==
  ASSUME LedgerInv, Next
  PROVE  \A f \in Files : Backed(f) => Backed(f)'
<1> SUFFICES ASSUME NEW f \in Files, f \in Staged, ~(f \in Staged)' PROVE Kept(f)'
  BY KeptStays DEF Backed
<1> USE DEF LedgerInv, TypeOK, Staged
<1>1. ASSUME NEW s \in Seeds, NEW k \in Slots, SubmitSeed(s, k) \/ RunStep(s, k) \/ RunDies(s, k)
      PROVE  FALSE
  <2>1. CASE SubmitSeed(s, k) \/ RunDies(s, k)
    BY <2>1 DEF SubmitSeed, RunDies
  <2>2. CASE RunStep(s, k)
    BY <2>2, RunStepEffect DEF StepOf
  <2> QED
    BY <1>1, <2>1, <2>2
<1>2. ASSUME NEW m \in Merges, NEW k \in Slots,
             StartMerge(m, k) \/ Fetch(m, k) \/ PublishMerged(m, k) \/ MergeDies(m, k)
      PROVE  FALSE
  BY <1>2 DEF StartMerge, Fetch, PublishMerged, MergeDies
<1>3. ASSUME NEW m \in Merges, NEW k \in Slots, RemoveStaged(m, k)
      PROVE  Kept(f)
  BY <1>3 DEF RemoveStaged, MergesBacked
<1>4. ASSUME NEW kind \in {"prune", "repair", "backfill"}, StartSweep(kind)
      PROVE  FALSE
  BY <1>4 DEF StartSweep
<1>5. CASE List \/ Drop \/ Write \/ EndSweep \/ RepairDone \/ TaskDies \/ Quiet
  BY <1>5 DEF List, Drop, Write, EndSweep, RepairDone, TaskDies, Quiet, StartTask, ProduceDone,
              BeginMerge, MergeEnds, EditSetup
<1>6. CASE Lose
  BY <1>6, GroupsExist DEF Lose, Kept
<1> QED
  BY NextCases, KeptStays, <1>1, <1>2, <1>3, <1>4, <1>5, <1>6

\* A record goes only if its file was lost: what a sweep is about to drop is.
LEMMA RecordStays ==
  ASSUME LedgerInv, Next
  PROVE  \A f \in Recorded : f \in Recorded' \/ f \in lost
<1> SUFFICES ASSUME NEW f \in Files, f \in Recorded, f \notin Recorded' PROVE f \in lost
  BY DEF Recorded
<1> USE DEF LedgerInv, TypeOK, Recorded
<1>1. ASSUME NEW s \in Seeds, NEW k \in Slots, SubmitSeed(s, k) \/ RunStep(s, k) \/ RunDies(s, k)
      PROVE  FALSE
  <2>1. CASE SubmitSeed(s, k) \/ RunDies(s, k)
    BY <2>1 DEF SubmitSeed, RunDies
  <2>2. CASE RunStep(s, k)
    BY <2>2, RunStepEffect DEF StepOf
  <2> QED
    BY <1>1, <2>1, <2>2
<1>2. ASSUME NEW m \in Merges, NEW k \in Slots,
             StartMerge(m, k) \/ Fetch(m, k) \/ PublishMerged(m, k) \/ RemoveStaged(m, k) \/ MergeDies(m, k)
      PROVE  FALSE
  BY <1>2 DEF StartMerge, Fetch, PublishMerged, RemoveStaged, MergeDies
<1>3. ASSUME NEW kind \in {"prune", "repair", "backfill"}, StartSweep(kind)
      PROVE  FALSE
  BY <1>3 DEF StartSweep
<1>4. CASE List \/ EndSweep \/ RepairDone \/ TaskDies \/ Lose \/ Quiet
  BY <1>4 DEF List, EndSweep, RepairDone, TaskDies, Lose, Quiet, StartTask, ProduceDone,
              BeginMerge, MergeEnds, EditSetup
<1>5. CASE Drop
  BY <1>5 DEF Drop, SweepBacked
<1>6. CASE Write
  BY <1>6 DEF Write, SweepBacked
<1> QED
  BY NextCases, <1>1, <1>2, <1>3, <1>4, <1>5, <1>6

-----------------------------------------------------------------------------
(***************************************************************************)
(* The invariant, conjunct by conjunct.                                    *)
(***************************************************************************)

\* It holds of an empty storage.
LEMMA InitLedger == Init => LedgerInv
<1> SUFFICES ASSUME Init PROVE LedgerInv
  OBVIOUS
<1> USE DEF Init, NoRun, NoMerge, NoSweep, SweepOf
<1>1. TypeOK
  BY RepairAssumption DEF TypeOK
<1>2. RecordIsBacked /\ AttemptsBacked
  BY DEF RecordIsBacked, AttemptsBacked, Recorded
<1>3. MergesBacked
  BY GroupsExist DEF MergesBacked, Merged
<1>4. SweepBacked
  BY GroupsExist DEF SweepBacked, Covered
<1> QED
  BY <1>1, <1>2, <1>3, <1>4 DEF LedgerInv

\* A new record is that of a file which is still somewhere.
LEMMA NewRecord ==
  ASSUME LedgerInv, Next
  PROVE  \A f \in Files : f \in Recorded' => Backed(f)
<1> SUFFICES ASSUME NEW f \in Files, record'[f] # 0, record[f] = 0 PROVE Backed(f)
  BY DEF LedgerInv, RecordIsBacked, Recorded, Backed, Kept
<1> USE DEF LedgerInv, TypeOK
<1>1. ASSUME NEW s \in Seeds, NEW k \in Slots, SubmitSeed(s, k) \/ RunStep(s, k) \/ RunDies(s, k)
      PROVE  Backed(f)
  <2>1. CASE SubmitSeed(s, k) \/ RunDies(s, k)
    BY <2>1 DEF SubmitSeed, RunDies
  <2>2. CASE RunStep(s, k)
    <3>1. PICK n \in 1..2*NVersions, size \in Sizes, e \in Files : StepOf(s, k, n, size, e)
      BY <2>2, RunStepEffect
    <3>2. n % 2 # 1 /\ e = f
      BY <3>1 DEF StepOf
    <3>3. n % 2 = 0
      BY <3>2, Halves
    <3>4. run[<<s, k>>] # NoRun /\ run[<<s, k>>].at % 2 = 0 /\ f = <<s, (run[<<s, k>>].at + 1) \div 2>>
      BY <3>1, <3>2, <3>3 DEF StepOf
    <3> QED
      BY <3>4 DEF AttemptsBacked
  <2> QED
    BY <1>1, <2>1, <2>2
<1>2. ASSUME NEW m \in Merges, NEW k \in Slots,
             StartMerge(m, k) \/ Fetch(m, k) \/ PublishMerged(m, k) \/ RemoveStaged(m, k) \/ MergeDies(m, k)
      PROVE  FALSE
  BY <1>2 DEF StartMerge, Fetch, PublishMerged, RemoveStaged, MergeDies
<1>3. ASSUME NEW kind \in {"prune", "repair", "backfill"}, StartSweep(kind)
      PROVE  FALSE
  BY <1>3 DEF StartSweep
<1>4. CASE List \/ Drop \/ EndSweep \/ RepairDone \/ TaskDies \/ Lose \/ Quiet
  BY <1>4 DEF List, Drop, EndSweep, RepairDone, TaskDies, Lose, Quiet, StartTask, ProduceDone,
              BeginMerge, MergeEnds, EditSetup
<1>5. CASE Write
  BY <1>5 DEF Write, SweepBacked
<1> QED
  BY NextCases, <1>1, <1>2, <1>3, <1>4, <1>5

\* Every record goes on being backed.
LEMMA RecordStep ==
  ASSUME LedgerInv, Next
  PROVE  RecordIsBacked'
BY NewRecord, BackedStays DEF RecordIsBacked, Recorded, Backed, Kept

\* An attempt that comes to its next record has just staged the file.
LEMMA AttemptsStep ==
  ASSUME LedgerInv, Next
  PROVE  AttemptsBacked'
<1> USE DEF LedgerInv, TypeOK
<1>1. SUFFICES ASSUME NEW s \in Seeds, NEW k \in Slots, run'[<<s, k>>] # NoRun, run'[<<s, k>>].at % 2 = 0
               PROVE  Backed(<<s, (run[<<s, k>>].at + 1) \div 2>>)'
  BY DEF AttemptsBacked
<1>2. CASE run'[<<s, k>>] = run[<<s, k>>]
  <2>1. run[<<s, k>>].at \in 1..2*NVersions
    BY <1>1, <1>2
  <2>2. PICK f \in Files : f = <<s, (run[<<s, k>>].at + 1) \div 2>>
    BY <2>1, Halves DEF Files
  <2>3. Backed(f)
    BY <1>1, <1>2, <2>2 DEF AttemptsBacked
  <2>4. Backed(f)' /\ f = <<s, (run'[<<s, k>>].at + 1) \div 2>>
    BY <2>2, <2>3, BackedStays, <1>2
  <2> QED
    BY <2>4
<1>3. ASSUME NEW t \in Seeds, NEW j \in Slots, SubmitSeed(t, j) \/ RunDies(t, j),
             run'[<<s, k>>] # run[<<s, k>>]
      PROVE  FALSE
  <2>1. PICK a \in {[at |-> 1, size |-> setup], NoRun} : run' = [run EXCEPT ![<<t, j>>] = a]
    BY <1>3 DEF SubmitSeed, RunDies
  <2>2. run'[<<s, k>>] = a
    BY <1>3, <2>1
  <2> QED
    BY <1>1, <2>2
<1>4. ASSUME NEW t \in Seeds, NEW j \in Slots, RunStep(t, j), run'[<<s, k>>] # run[<<s, k>>]
      PROVE  Backed(<<s, (run[<<s, k>>].at + 1) \div 2>>)'
  <2>1. PICK n \in 1..2*NVersions, size \in Sizes, f \in Files : StepOf(t, j, n, size, f)
    BY <1>4, RunStepEffect
  <2>2. t = s /\ j = k /\ run'[<<s, k>>] = [at |-> n + 1, size |-> size] /\ n # 2*NVersions
    BY <1>1, <1>4, <2>1 DEF StepOf
  <2>3. (n + 1) % 2 = 0
    BY <1>1, <2>2
  <2>4. n % 2 = 1 /\ (n + 2) \div 2 = (n + 1) \div 2
    BY <2>3, ShapeAssumption
  <2>5. f = <<s, (run'[<<s, k>>].at + 1) \div 2>>
    BY <2>1, <2>2, <2>4 DEF StepOf
  <2>6. Backed(f)'
    BY <2>1, <2>4 DEF StepOf, Staged, Backed
  <2> QED
    BY <2>5, <2>6
<1>5. ASSUME NEW m \in Merges, NEW j \in Slots,
             StartMerge(m, j) \/ Fetch(m, j) \/ PublishMerged(m, j) \/ RemoveStaged(m, j) \/ MergeDies(m, j)
      PROVE  run' = run
  BY <1>5 DEF StartMerge, Fetch, PublishMerged, RemoveStaged, MergeDies
<1>6. ASSUME NEW kind \in {"prune", "repair", "backfill"}, StartSweep(kind)
      PROVE  run' = run
  BY <1>6 DEF StartSweep
<1>7. CASE List \/ Drop \/ Write \/ EndSweep \/ RepairDone \/ TaskDies \/ Lose \/ Quiet
  <2>1. run' = run
    BY <1>7 DEF List, Drop, Write, EndSweep, RepairDone, TaskDies, Lose, Quiet, StartTask, ProduceDone,
              BeginMerge, MergeEnds, EditSetup
  <2> QED
    BY <2>1, <1>2
<1> QED
  BY NextCases, <1>2, <1>3, <1>4, <1>5, <1>6, <1>7

\* What MergesBacked says of one attempt.
AttemptHolds(m, a) ==
  /\ a.left \subseteq Inputs(m)
  /\ a.at # "none" => \A f \in Inputs(m) : f \in Recorded \union lost
  /\ a.at = "publish" => a.holds # {}
  /\ a.at = "remove" => \A f \in Inputs(m) : Kept(f)

\* What was recorded or lost is recorded or lost after the step.
LEMMA AccountedStays ==
  ASSUME LedgerInv, Next
  PROVE  \A f \in Recorded \union lost : (f \in Recorded \union lost)'
BY RecordStays, KeptStays

\* A merge attempt that does not move goes on holding.
LEMMA AttemptStays ==
  ASSUME LedgerInv, Next, NEW m \in Merges, NEW a, AttemptHolds(m, a)
  PROVE  AttemptHolds(m, a)'
BY GroupsExist, AccountedStays, KeptStays DEF AttemptHolds

\* A merge attempt that moves holds what it should.
LEMMA AttemptMoves ==
  ASSUME LedgerInv, NEW m \in Merges, NEW k \in Slots,
         StartMerge(m, k) \/ Fetch(m, k) \/ PublishMerged(m, k) \/ RemoveStaged(m, k) \/ MergeDies(m, k)
  PROVE  \E a : merge' = [merge EXCEPT ![<<m, k>>] = a] /\ AttemptHolds(m, a)'
<1> USE DEF LedgerInv, AttemptHolds
<1>1. AttemptHolds(m, merge[<<m, k>>]) /\ Inputs(m) # {} /\ AttemptHolds(m, NoMerge)'
  BY GroupsExist DEF MergesBacked, NoMerge
<1>2. CASE MergeDies(m, k)
  BY <1>1, <1>2 DEF MergeDies
<1>3. CASE StartMerge(m, k)
  <2>1. \A f \in Inputs(m) : f \in Recorded
    BY <1>3 DEF StartMerge, Admitted, SeedComplete, Inputs, Files
  <2>2. Recorded' = Recorded
    BY <1>3 DEF StartMerge, Recorded
  <2>3. AttemptHolds(m, [at |-> "fetch", size |-> setup, holds |-> {}, left |-> {}])'
    BY <2>1, <2>2
  <2> QED
    BY <1>3, <2>3 DEF StartMerge
<1>4. CASE Fetch(m, k)
  <2>1. PICK a : a = [at |-> "publish", size |-> merge[<<m, k>>].size,
                      holds |-> {staged[f] : f \in Inputs(m)}, left |-> Inputs(m)]
    OBVIOUS
  <2>2. UNCHANGED lost /\ Recorded' = Recorded
    BY <1>4 DEF Fetch, Recorded
  <2>3. \A f \in Inputs(m) : f \in Recorded \union lost
    BY <1>1, <1>4 DEF Fetch
  <2>4. AttemptHolds(m, a)'
    BY <1>1, <2>1, <2>2, <2>3
  <2>5. merge' = [merge EXCEPT ![<<m, k>>] = a] \/ merge' = [merge EXCEPT ![<<m, k>>] = NoMerge]
    BY <1>4, <2>1 DEF Fetch
  <2> QED
    BY <1>1, <2>4, <2>5
<1>5. CASE PublishMerged(m, k)
  <2>1. PICK a : a = Removing(merge[<<m, k>>], merge[<<m, k>>].left)
    OBVIOUS
  <2>2. UNCHANGED lost /\ Recorded' = Recorded
    BY <1>5 DEF PublishMerged, Recorded
  <2>3. m \in Merged'
    BY <1>1, <1>5 DEF PublishMerged, Merged, TypeOK
  <2>4. \A f \in Inputs(m) : Kept(f)'
    BY <2>3, GroupsExist DEF Kept
  <2>5. \A f \in Inputs(m) : f \in Recorded \union lost
    BY <1>1, <1>5 DEF PublishMerged
  <2>6. a.at = "remove" /\ a.left \subseteq Inputs(m)
    BY <1>1, <2>1 DEF Removing
  <2>7. AttemptHolds(m, a)'
    BY <2>2, <2>4, <2>5, <2>6
  <2> QED
    BY <1>5, <2>1, <2>7 DEF PublishMerged
<1>6. CASE RemoveStaged(m, k)
  <2>1. PICK f \in Files :
          \/ merge' = [merge EXCEPT ![<<m, k>>] = Removing(merge[<<m, k>>], merge[<<m, k>>].left \ {f})]
          \/ merge' = [merge EXCEPT ![<<m, k>>] = NoMerge]
    BY <1>1, <1>6, GroupsExist DEF RemoveStaged
  <2>2. PICK a : a = Removing(merge[<<m, k>>], merge[<<m, k>>].left \ {f})
    OBVIOUS
  <2>3. UNCHANGED lost /\ Recorded' = Recorded /\ Merged' = Merged
    BY <1>6 DEF RemoveStaged, Recorded, Merged
  <2>4. AttemptHolds(m, a)'
    BY <1>1, <1>6, <2>2, <2>3 DEF RemoveStaged, Removing, Kept
  <2> QED
    BY <1>1, <2>1, <2>2, <2>4
<1> QED
  BY <1>2, <1>3, <1>4, <1>5, <1>6

\* The inputs of a merged file, and those of every attempt, are accounted for.
LEMMA MergesStep ==
  ASSUME LedgerInv, Next
  PROVE  MergesBacked'
<1> USE DEF LedgerInv
<1> DEFINE Holding == \A m \in Merges, k \in Slots : AttemptHolds(m, merge[<<m, k>>])
           Covering == \A m \in Merged : \A f \in Inputs(m) : f \in Recorded \union lost
<1>1. Holding /\ Covering
  BY DEF MergesBacked, AttemptHolds, Merged
<1>2. ASSUME UNCHANGED merge PROVE Holding'
  <2>1. SUFFICES ASSUME NEW m \in Merges, NEW k \in Slots PROVE AttemptHolds(m, merge[<<m, k>>])'
    OBVIOUS
  <2>2. PICK a : a = merge[<<m, k>>]
    OBVIOUS
  <2>3. AttemptHolds(m, a)'
    BY <1>1, <2>2, AttemptStays
  <2> QED
    BY <1>2, <2>2, <2>3
<1>3. ASSUME NEW m \in Merges, NEW k \in Slots,
             StartMerge(m, k) \/ Fetch(m, k) \/ PublishMerged(m, k) \/ RemoveStaged(m, k) \/ MergeDies(m, k)
      PROVE  Holding'
  <2>1. PICK a : merge' = [merge EXCEPT ![<<m, k>>] = a] /\ AttemptHolds(m, a)'
    BY <1>3, AttemptMoves
  <2>2. SUFFICES ASSUME NEW n \in Merges, NEW j \in Slots PROVE AttemptHolds(n, merge[<<n, j>>])'
    OBVIOUS
  <2>3. PICK b : b = merge[<<n, j>>]
    OBVIOUS
  <2>4. AttemptHolds(n, b)'
    BY <1>1, <2>3, AttemptStays
  <2>5. merge'[<<n, j>>] = IF <<n, j>> = <<m, k>> THEN a ELSE b
    BY <2>1, <2>3 DEF TypeOK
  <2> QED
    BY <2>1, <2>4, <2>5
<1>4. ASSUME NEW m \in Merges, NEW k \in Slots, PublishMerged(m, k)
      PROVE  Merged' \subseteq Merged \union {m} /\ \A f \in Inputs(m) : f \in Recorded \union lost
  BY <1>1, <1>4 DEF PublishMerged, Merged, TypeOK, AttemptHolds
<1>5. ASSUME NEW m \in Merges, NEW k \in Slots,
             StartMerge(m, k) \/ Fetch(m, k) \/ RemoveStaged(m, k) \/ MergeDies(m, k)
      PROVE  Merged' = Merged
  BY <1>5 DEF StartMerge, Fetch, RemoveStaged, MergeDies, Merged
<1>6. ASSUME NEW s \in Seeds, NEW k \in Slots, SubmitSeed(s, k) \/ RunStep(s, k) \/ RunDies(s, k)
      PROVE  UNCHANGED <<merge, merged>>
  BY <1>6 DEF SubmitSeed, RunStep, RunDies
<1>7. ASSUME NEW kind \in {"prune", "repair", "backfill"}, StartSweep(kind)
      PROVE  UNCHANGED <<merge, merged>>
  BY <1>7 DEF StartSweep
<1>8. ASSUME List \/ Drop \/ Write \/ EndSweep \/ RepairDone \/ TaskDies \/ Quiet
      PROVE  UNCHANGED <<merge, merged>>
  BY <1>8 DEF List, Drop, Write, EndSweep, RepairDone, TaskDies, Quiet, StartTask, ProduceDone,
              BeginMerge, MergeEnds, EditSetup
<1>9. ASSUME Lose PROVE UNCHANGED merge /\ Merged' \subseteq Merged
  BY <1>9 DEF Lose, Merged, TypeOK
<1>10. Holding'
  BY NextCases, <1>2, <1>3, <1>6, <1>7, <1>8, <1>9
<1>11. Covering'
  <2>1. SUFFICES ASSUME NEW m \in Merges, m \in Merged' PROVE \A f \in Inputs(m) : (f \in Recorded \union lost)'
    BY DEF Merged
  <2>2. m \in Merged \/ \A f \in Inputs(m) : f \in Recorded \union lost
    BY NextCases, <2>1, <1>4, <1>5, <1>6, <1>7, <1>8, <1>9 DEF Merged
  <2> QED
    BY <1>1, <2>2, AccountedStays
<1> QED
  BY <1>10, <1>11 DEF MergesBacked, AttemptHolds, Merged

\* What SweepBacked says of a sweep.
SweepHolds(sw) ==
  /\ \A f \in Covered(sw) : Backed(f)
  /\ sw.kind = "backfill" => sw.size # 0 /\ \A f \in sw.todo : Backed(f)
  /\ sw.kind # "backfill" =>
       /\ \A f \in sw.records : Backed(f)
       /\ sw.at = "merged" => \A f \in sw.records \ sw.staged : f[2] \in sw.unread \/ Kept(f)
       /\ sw.todo \subseteq lost

LEMMA SweepBackedHolds == SweepBacked <=> SweepHolds(sweep)
BY DEF SweepBacked, SweepHolds

\* What a sweep knows goes on being so.
LEMMA SweepStays ==
  ASSUME LedgerInv, Next, NEW sw \in SweepStates, SweepHolds(sw)
  PROVE  SweepHolds(sw)'
<1>1. \A f \in Files : (Backed(f) => Backed(f)') /\ (Kept(f) => Kept(f)')
  BY BackedStays, KeptStays
<1>2. lost \subseteq lost'
  BY KeptStays
<1>3. Covered(sw) \subseteq Files /\ sw.todo \subseteq Files /\ sw.records \subseteq Files
  BY DEF Covered, SweepStates
<1> QED
  BY <1>1, <1>2, <1>3 DEF SweepHolds

\* The three listings: records first, and merged files after staged ones.
LEMMA ListHolds ==
  ASSUME LedgerInv, NEW sw \in SweepStates, SweepHolds(sw), sw.at # "act", sw.kind # "none",
         NEW unread \in SUBSET Versions
  PROVE  SweepHolds(Listed(sw, unread))
<1> USE DEF SweepHolds, SweepStates
<1> DEFINE Now(at, records, stagedNow, mergedNow) ==
      [kind |-> sw.kind, at |-> at, size |-> sw.size, records |-> records, staged |-> stagedNow,
       merged |-> mergedNow, unread |-> sw.unread \union unread, todo |-> sw.todo,
       found |-> sw.found, failed |-> sw.failed]
<1>1. CASE sw.at = "records"
  <2>1. PICK new : new = Now("staged", Seen(Recorded, unread), sw.staged, sw.merged)
    OBVIOUS
  <2>2. \A f \in Seen(Recorded, unread) : Backed(f)
    BY DEF LedgerInv, RecordIsBacked, Seen, Backed, Kept
  <2>3. Covered(new) = Covered(sw)
    BY <2>1 DEF Covered
  <2>4. SweepHolds(new)
    BY <2>1, <2>2, <2>3
  <2> QED
    BY <1>1, <2>1, <2>4, ListedFields
<1>2. CASE sw.at = "staged"
  <2>1. PICK new : new = Now("merged", sw.records, Seen(Staged, unread), sw.merged)
    OBVIOUS
  <2>2. \A f \in Covered(new) : Backed(f)
    BY <2>1 DEF Covered, Seen, Backed
  <2>3. sw.kind # "backfill" =>
          \A f \in sw.records \ Seen(Staged, unread) : f[2] \in sw.unread \union unread \/ Kept(f)
    BY DEF Seen, Backed
  <2>4. SweepHolds(new)
    BY <2>1, <2>2, <2>3
  <2> QED
    BY <1>2, <2>1, <2>4, ListedFields
<1>3. CASE sw.at = "merged"
  <2>1. PICK read : read = Now("merged", sw.records, sw.staged, Seen(Merged, unread))
    OBVIOUS
  <2>2. \A f \in Covered(read) : Backed(f)
    BY <2>1 DEF Covered, Seen, Backed, Kept
  <2>3. Listed(sw, unread) = Decide(read)
    BY <1>3, <2>1, ListedFields
  <2>4. CASE sw.kind = "backfill"
    <3>1. Decide(read) = SweepOf(sw.kind, "act", sw.size, Covered(read) \ sw.records, 0, FALSE)
      BY <2>1, <2>4 DEF Decide
    <3> QED
      BY <2>2, <2>3, <2>4, <3>1 DEF SweepOf, Covered
  <2>5. CASE sw.kind # "backfill"
    <3> DEFINE refused == read.unread \union {v \in Versions : TooStale(read, v)}
               todo == {f \in Stale(read) : f[2] \notin refused}
    <3>1. Decide(read) = SweepOf(sw.kind, "act", sw.size, todo, Cardinality(todo), refused # {})
      BY <2>1, <2>5 DEF Decide
    <3>2. ASSUME NEW f \in todo PROVE f \in lost
      <4>1. f \in sw.records /\ f \in Files /\ f \notin sw.staged /\ f[2] \notin sw.unread \union unread
        BY <2>1 DEF Stale, Covered
      <4>2. MergeOf(f) \notin Seen(Merged, unread)
        BY <2>1, <4>1 DEF Stale, Covered
      <4>3. MergeOf(f) \notin Merged
        BY <4>1, <4>2 DEF Seen, MergeOf
      <4> QED
        BY <1>3, <2>5, <4>1, <4>3 DEF Kept
    <3> HIDE DEF todo
    <3> QED
      BY <2>3, <2>5, <3>1, <3>2 DEF SweepOf, Covered
  <2> QED
    BY <2>4, <2>5
<1> QED
  BY <1>1, <1>2, <1>3

\* Every sweep knows what it should.
LEMMA SweepStep ==
  ASSUME LedgerInv, Next
  PROVE  SweepBacked'
<1>1. PICK sw : sw = sweep
  OBVIOUS
<1>2. sw \in SweepStates /\ SweepHolds(sw) /\ SweepHolds(sw)'
  BY <1>1, SweepBackedHolds, SweepStays DEF LedgerInv, TypeOK, SweepStates
<1>3. SUFFICES SweepHolds(sweep)'
  BY SweepBackedHolds, PTL
<1>4. \A kind, at, size, found, failed :
        (kind = "backfill" => size # 0) => SweepHolds(SweepOf(kind, at, size, {}, found, failed))'
  BY DEF SweepHolds, SweepOf, Covered
<1>5. ASSUME sweep' = sweep PROVE SweepHolds(sweep)'
  BY <1>1, <1>2, <1>5
<1>6. ASSUME NEW f, NEW failed \in BOOLEAN, sweep' = Without(sweep, f, failed) PROVE SweepHolds(sweep)'
  BY <1>1, <1>2, <1>6, WithoutFields DEF SweepHolds, Covered
<1>7. CASE List
  <2>1. PICK unread \in SUBSET Versions : sweep' = Listed(sw, unread)
    BY <1>1, <1>7 DEF List
  <2>2. PICK new : new = Listed(sw, unread)
    OBVIOUS
  <2>3. SweepHolds(new)
    BY <1>1, <1>2, <1>7, <2>2, ListHolds DEF List
  <2>4. UNCHANGED <<staged, merged, lost>>
    BY <1>7 DEF List
  <2>5. SweepHolds(new)'
    BY <2>3, <2>4 DEF SweepHolds, Backed, Kept, Staged, Merged
  <2> QED
    BY <2>1, <2>2, <2>5
<1>8. CASE Drop \/ Write
  <2>1. PICK f : \/ sweep' = Without(sweep, f, TRUE) \/ sweep' = Without(sweep, f, FALSE)
                 \/ sweep' = Without(sweep, f, sweep.failed)
    BY <1>8, ActsWithout
  <2>2. {TRUE, FALSE, sweep.failed} \subseteq BOOLEAN
    BY <1>1, <1>2 DEF SweepStates
  <2> QED
    BY <2>1, <2>2, <1>6
<1>9. CASE EndSweep \/ RepairDone \/ TaskDies
  BY <1>4, <1>5, <1>9 DEF EndSweep, RepairDone, TaskDies, NoSweep
<1>10. ASSUME NEW kind \in {"prune", "repair", "backfill"}, StartSweep(kind) PROVE SweepHolds(sweep)'
  BY <1>4, <1>10, SizesAssumption DEF StartSweep, LedgerInv, TypeOK
<1>11. ASSUME NEW s \in Seeds, NEW k \in Slots, SubmitSeed(s, k) \/ RunStep(s, k) \/ RunDies(s, k)
       PROVE  sweep' = sweep
  BY <1>11 DEF SubmitSeed, RunStep, RunDies
<1>12. ASSUME NEW m \in Merges, NEW k \in Slots,
              StartMerge(m, k) \/ Fetch(m, k) \/ PublishMerged(m, k) \/ RemoveStaged(m, k) \/ MergeDies(m, k)
       PROVE  sweep' = sweep
  BY <1>12 DEF StartMerge, Fetch, PublishMerged, RemoveStaged, MergeDies
<1>13. ASSUME Lose \/ Quiet PROVE sweep' = sweep
  BY <1>13 DEF Lose, Quiet, StartTask, ProduceDone, BeginMerge, MergeEnds, EditSetup
<1> QED
  BY NextCases, <1>5, <1>7, <1>8, <1>9, <1>10, <1>11, <1>12, <1>13

\* A listing leaves a sweep; only the number it found has to be finite.
LEMMA ListedType ==
  ASSUME NEW sw \in SweepStates, sw.at # "act", NEW unread \in SUBSET Versions
  PROVE  Listed(sw, unread) \in SweepStates
<1> DEFINE Now(at, records, stagedNow, mergedNow) ==
      [kind |-> sw.kind, at |-> at, size |-> sw.size, records |-> records, staged |-> stagedNow,
       merged |-> mergedNow, unread |-> sw.unread \union unread, todo |-> sw.todo,
       found |-> sw.found, failed |-> sw.failed]
<1>1. Seen(Recorded, unread) \in SUBSET Files /\ Seen(Staged, unread) \in SUBSET Files
        /\ Seen(Merged, unread) \in SUBSET Merges
  BY DEF Seen, Recorded, Staged, Merged
<1>2. CASE sw.at = "records"
  <2>1. Now("staged", Seen(Recorded, unread), sw.staged, sw.merged) \in SweepStates
    BY <1>1 DEF SweepStates
  <2> QED
    BY <1>2, <2>1, ListedFields
<1>3. CASE sw.at = "staged"
  <2>1. Now("merged", sw.records, Seen(Staged, unread), sw.merged) \in SweepStates
    BY <1>1 DEF SweepStates
  <2> QED
    BY <1>3, <2>1, ListedFields
<1>4. CASE sw.at = "merged"
  <2>1. PICK read \in SweepStates : Listed(sw, unread) = Decide(read)
    <3>1. Now("merged", sw.records, sw.staged, Seen(Merged, unread)) \in SweepStates
      BY <1>1 DEF SweepStates
    <3> QED
      BY <1>4, <3>1, ListedFields
  <2>2. ASSUME NEW todo \in SUBSET Files, NEW found \in Nat, NEW failed \in BOOLEAN
        PROVE  SweepOf(read.kind, "act", read.size, todo, found, failed) \in SweepStates
    BY DEF SweepOf, SweepStates
  <2>3. \A S \in SUBSET Files : Cardinality(S) \in Nat
    BY FilesFinite, FS_Subset, FS_CardinalityType
  <2>4. Covered(read) \subseteq Files /\ Stale(read) \subseteq Files
    BY DEF Covered, Stale, SweepStates
  <2> DEFINE refused == read.unread \union {v \in Versions : TooStale(read, v)}
             todo == {f \in Stale(read) : f[2] \notin refused}
  <2>5. CASE read.kind = "backfill"
    <3>1. Decide(read) = SweepOf(read.kind, "act", read.size, Covered(read) \ read.records, 0, FALSE)
      BY <2>5 DEF Decide
    <3> QED
      BY <2>1, <2>2, <2>4, <3>1
  <2>6. CASE read.kind # "backfill"
    <3>1. Decide(read) = SweepOf(read.kind, "act", read.size, todo, Cardinality(todo), refused # {})
      BY <2>6 DEF Decide
    <3>2. todo \in SUBSET Files /\ (refused # {}) \in BOOLEAN
      BY <2>4
    <3> HIDE DEF todo, refused
    <3> QED
      BY <2>1, <2>2, <2>3, <3>1, <3>2
  <2> QED
    BY <2>5, <2>6
<1> QED
  BY <1>2, <1>3, <1>4 DEF SweepStates

\* The sweep stays one whatever happens.
LEMMA SweepTypeStep ==
  ASSUME TypeOK, Next
  PROVE  sweep' \in SweepStates
<1>1. sweep \in SweepStates
  BY DEF TypeOK, SweepStates
<1>2. \A kind \in {"none", "prune", "repair", "backfill"}, size \in {0} \union Sizes :
        SweepOf(kind, "records", size, {}, 0, FALSE) \in SweepStates
  BY DEF SweepOf, SweepStates
<1>3. ASSUME NEW f, NEW failed \in BOOLEAN PROVE Without(sweep, f, failed) \in SweepStates
  BY <1>1, WithoutFields DEF SweepStates
<1>4. CASE List
  BY <1>1, <1>4, ListedType DEF List
<1>5. CASE Drop \/ Write
  <2>1. PICK f : \/ sweep' = Without(sweep, f, TRUE) \/ sweep' = Without(sweep, f, FALSE)
                 \/ sweep' = Without(sweep, f, sweep.failed)
    BY <1>5, ActsWithout
  <2>2. {TRUE, FALSE, sweep.failed} \subseteq BOOLEAN
    BY <1>1, <1>2 DEF SweepStates
  <2> QED
    BY <2>1, <2>2, <1>3
<1>6. CASE EndSweep \/ RepairDone \/ TaskDies
  BY <1>1, <1>2, <1>6 DEF EndSweep, RepairDone, TaskDies, NoSweep
<1>7. ASSUME NEW kind \in {"prune", "repair", "backfill"}, StartSweep(kind) PROVE sweep' \in SweepStates
  BY <1>2, <1>7 DEF StartSweep, TypeOK
<1>8. ASSUME NEW s \in Seeds, NEW k \in Slots, SubmitSeed(s, k) \/ RunStep(s, k) \/ RunDies(s, k)
       PROVE  sweep' = sweep
  BY <1>8 DEF SubmitSeed, RunStep, RunDies
<1>9. ASSUME NEW m \in Merges, NEW k \in Slots,
             StartMerge(m, k) \/ Fetch(m, k) \/ PublishMerged(m, k) \/ RemoveStaged(m, k) \/ MergeDies(m, k)
      PROVE  sweep' = sweep
  BY <1>9 DEF StartMerge, Fetch, PublishMerged, RemoveStaged, MergeDies
<1>10. ASSUME Lose \/ Quiet PROVE sweep' = sweep
  BY <1>10 DEF Lose, Quiet, StartTask, ProduceDone, BeginMerge, MergeEnds, EditSetup
<1> QED
  BY NextCases, <1>1, <1>4, <1>5, <1>6, <1>7, <1>8, <1>9, <1>10

\* The types of the rest.
LEMMA TypeStep ==
  ASSUME TypeOK, Next
  PROVE  TypeOK'
<1> USE DEF TypeOK
<1>1. sweep' \in SweepStates
  BY SweepTypeStep
<1>2. SUFFICES /\ staged' \in [Files -> {0} \union Sizes] /\ record' \in [Files -> {0} \union Sizes]
               /\ merged' \in [Merges -> SUBSET Sizes]
               /\ run' \in [Seeds \X Slots -> {NoRun} \union [at : 1..2*NVersions, size : Sizes]]
               /\ merge' \in [Merges \X Slots ->
                     [at : {"none", "fetch", "publish", "remove"}, size : {0} \union Sizes,
                      holds : SUBSET Sizes, left : SUBSET Files]]
               /\ task' \in {"off", "produce", "repair", "merge", "merging"} /\ rounds' \in 0..MaxRepairs
               /\ setup' \in Sizes
  BY <1>1 DEF SweepStates
<1> DEFINE Runs == {NoRun} \union [at : 1..2*NVersions, size : Sizes]
           Attempts == [at : {"none", "fetch", "publish", "remove"}, size : {0} \union Sizes,
                        holds : SUBSET Sizes, left : SUBSET Files]
<1>3. ASSUME NEW s \in Seeds, NEW k \in Slots, NEW a \in Runs, run' = [run EXCEPT ![<<s, k>>] = a]
      PROVE  run' \in [Seeds \X Slots -> Runs]
  BY <1>3
<1>4. ASSUME NEW m \in Merges, NEW k \in Slots, NEW a \in Attempts, merge' = [merge EXCEPT ![<<m, k>>] = a]
      PROVE  merge' \in [Merges \X Slots -> Attempts]
  BY <1>4
<1>5. ASSUME NEW s \in Seeds, NEW k \in Slots, SubmitSeed(s, k) \/ RunDies(s, k)
      PROVE  run' \in [Seeds \X Slots -> {NoRun} \union [at : 1..2*NVersions, size : Sizes]]
               /\ UNCHANGED <<staged, record, merged, merge, task, rounds, setup>>
  <2>1. [at |-> 1, size |-> setup] \in Runs /\ NoRun \in Runs
    BY ShapeAssumption
  <2>2. \E a \in Runs : run' = [run EXCEPT ![<<s, k>>] = a]
    BY <1>5, <2>1 DEF SubmitSeed, RunDies
  <2>3. run' \in [Seeds \X Slots -> Runs]
    BY <1>3, <2>2
  <2> QED
    BY <1>5, <2>3 DEF SubmitSeed, RunDies
<1>6. ASSUME NEW s \in Seeds, NEW k \in Slots, RunStep(s, k)
      PROVE  /\ staged' \in [Files -> {0} \union Sizes] /\ record' \in [Files -> {0} \union Sizes]
             /\ run' \in [Seeds \X Slots -> {NoRun} \union [at : 1..2*NVersions, size : Sizes]]
             /\ UNCHANGED <<merged, merge, task, rounds, setup>>
  <2>1. PICK n \in 1..2*NVersions, size \in Sizes, f \in Files : StepOf(s, k, n, size, f)
    BY <1>6, RunStepEffect
  <2>2. n # 2*NVersions => [at |-> n + 1, size |-> size] \in Runs
    BY Halves
  <2>3. \E a \in Runs : run' = [run EXCEPT ![<<s, k>>] = a]
    BY <2>1, <2>2 DEF StepOf
  <2>4. run' \in [Seeds \X Slots -> Runs]
    BY <1>3, <2>3
  <2>5. /\ staged' = staged \/ staged' = [staged EXCEPT ![f] = size]
        /\ record' = record \/ record' = [record EXCEPT ![f] = size]
    BY <2>1 DEF StepOf
  <2>6. staged' \in [Files -> {0} \union Sizes] /\ record' \in [Files -> {0} \union Sizes]
    BY <2>5
  <2>7. UNCHANGED <<merged, merge, task, rounds, setup>>
    BY <1>6 DEF RunStep
  <2> QED
    BY <2>4, <2>6, <2>7
<1>7. ASSUME NEW m \in Merges, NEW k \in Slots,
             StartMerge(m, k) \/ Fetch(m, k) \/ PublishMerged(m, k) \/ RemoveStaged(m, k) \/ MergeDies(m, k)
      PROVE  /\ staged' \in [Files -> {0} \union Sizes] /\ merged' \in [Merges -> SUBSET Sizes]
             /\ merge' \in [Merges \X Slots ->
                   [at : {"none", "fetch", "publish", "remove"}, size : {0} \union Sizes,
                    holds : SUBSET Sizes, left : SUBSET Files]]
             /\ UNCHANGED <<record, run, task, rounds, setup>>
  <2>0. NoMerge \in Attempts /\ \A left \in SUBSET Files : Removing(merge[<<m, k>>], left) \in Attempts
    BY DEF Removing, NoMerge
  <2>1. CASE StartMerge(m, k) \/ MergeDies(m, k)
    <3>1. [at |-> "fetch", size |-> setup, holds |-> {}, left |-> {}] \in Attempts
      OBVIOUS
    <3>2. \E a \in Attempts : merge' = [merge EXCEPT ![<<m, k>>] = a]
      BY <2>0, <2>1, <3>1 DEF StartMerge, MergeDies
    <3>3. merge' \in [Merges \X Slots -> Attempts]
      BY <1>4, <3>2
    <3> QED
      BY <2>1, <3>3 DEF StartMerge, MergeDies
  <2>2. CASE Fetch(m, k)
    <3>1. CountsAgree(m, merge[<<m, k>>].size) => {staged[f] : f \in Inputs(m)} \in SUBSET Sizes
      BY DEF CountsAgree, Staged, Inputs
    <3>2. Inputs(m) \in SUBSET Files /\ merge[<<m, k>>].size \in {0} \union Sizes
      BY GroupsExist
    <3>3. CountsAgree(m, merge[<<m, k>>].size) =>
            [at |-> "publish", size |-> merge[<<m, k>>].size,
             holds |-> {staged[f] : f \in Inputs(m)}, left |-> Inputs(m)] \in Attempts
      BY <3>1, <3>2
    <3>4. \E a \in Attempts : merge' = [merge EXCEPT ![<<m, k>>] = a]
      BY <2>0, <2>2, <3>3 DEF Fetch
    <3>5. merge' \in [Merges \X Slots -> Attempts]
      BY <1>4, <3>4
    <3> QED
      BY <2>2, <3>5 DEF Fetch
  <2>3. CASE PublishMerged(m, k)
    <3>1. Removing(merge[<<m, k>>], merge[<<m, k>>].left) \in Attempts
      <4>1. merge[<<m, k>>] \in Attempts
        OBVIOUS
      <4>2. merge[<<m, k>>].left \in SUBSET Files
        BY <4>1
      <4> QED
        BY <2>0, <4>2
    <3>2. merge' \in [Merges \X Slots -> Attempts]
      BY <1>4, <2>3, <3>1 DEF PublishMerged
    <3>3. merged' \in [Merges -> SUBSET Sizes]
      BY <2>3 DEF PublishMerged
    <3> QED
      BY <2>3, <3>2, <3>3 DEF PublishMerged
  <2>4. CASE RemoveStaged(m, k)
    <3>1. \E a \in Attempts : merge' = [merge EXCEPT ![<<m, k>>] = a]
      BY <2>0, <2>4 DEF RemoveStaged
    <3>2. merge' \in [Merges \X Slots -> Attempts]
      BY <1>4, <3>1
    <3> QED
      BY <2>4, <3>2 DEF RemoveStaged
  <2> QED
    BY <1>7, <2>1, <2>2, <2>3, <2>4
<1>8. ASSUME NEW kind \in {"prune", "repair", "backfill"}, StartSweep(kind)
      PROVE  UNCHANGED <<storage, run, merge, task, rounds, setup>>
  BY <1>8 DEF StartSweep
<1>9. CASE List \/ Drop \/ Write \/ EndSweep
  <2>1. UNCHANGED <<staged, merged, run, merge, task, rounds, setup>>
    BY <1>9 DEF List, Drop, Write, EndSweep
  <2>2. CASE List \/ EndSweep
    BY <2>1, <2>2 DEF List, EndSweep
  <2> DEFINE Records == [Files -> {0} \union Sizes]
  <2>3. \A r \in Records, x \in {0} \union Sizes : \A f : [r EXCEPT ![f] = x] \in Records
    OBVIOUS
  <2>4. CASE Drop
    <3>1. \E f : record' = record \/ record' = [record EXCEPT ![f] = 0]
      BY <2>4 DEF Drop
    <3>2. record' \in [Files -> {0} \union Sizes]
      BY <2>3, <3>1
    <3> QED
      BY <2>1, <3>2
  <2>5. CASE Write
    <3>1. \E f : record' = [record EXCEPT ![f] = sweep.size]
      BY <2>5 DEF Write
    <3>2. record' \in [Files -> {0} \union Sizes]
      BY <2>3, <3>1
    <3> QED
      BY <2>1, <3>2
  <2> QED
    BY <1>9, <2>2, <2>4, <2>5
<1>10. CASE Lose
  BY <1>10 DEF Lose
<1>11. CASE RepairDone \/ TaskDies
  BY <1>11, RepairAssumption DEF RepairDone, TaskDies
<1>12. CASE Quiet
  BY <1>12, RepairAssumption DEF Quiet, StartTask, ProduceDone, BeginMerge, MergeEnds, EditSetup
<1> QED
  BY NextCases, <1>5, <1>6, <1>7, <1>8, <1>9, <1>11, <1>12, <1>10

\* One step keeps all of it.
LEMMA StepLedger == LedgerInv /\ [Next]_vars => LedgerInv'
<1> SUFFICES ASSUME LedgerInv, [Next]_vars PROVE LedgerInv'
  OBVIOUS
<1>1. CASE Next
  BY <1>1, TypeStep, RecordStep, AttemptsStep, MergesStep, SweepStep DEF LedgerInv
<1>2. CASE UNCHANGED vars
  BY <1>2 DEF LedgerInv, TypeOK, RecordIsBacked, AttemptsBacked, MergesBacked, SweepBacked,
              Recorded, Staged, Merged, Backed, Kept, Covered
<1> QED
  BY <1>1, <1>2

-----------------------------------------------------------------------------
(***************************************************************************)
(* What a merged file holds.                                               *)
(***************************************************************************)

\* What does not disturb the sizes: files and records only go, attempts only end or start
\* from the top, merges leave the fetch, and nothing is forgotten to have been overtaken.
Calm ==
  /\ overtaken \subseteq overtaken'
  /\ \A f \in Files : staged'[f] \in {0, staged[f]} /\ record'[f] \in {0, record[f]}
  /\ \A a \in Seeds \X Slots : run'[a] = run[a] \/ run'[a].at \in {0, 1}
  /\ \A a \in Merges \X Slots : merge'[a] = merge[a] \/ merge'[a].at # "fetch"

\* The files of a seed that exist, and the merge each belongs to.
LEMMA FileOf ==
  ASSUME NEW f \in Files
  PROVE  /\ f[1] \in Seeds /\ f[2] \in Versions /\ f = <<f[1], f[2]>>
         /\ \A k \in Slots : <<f[1], k>> \in Seeds \X Slots /\ <<MergeOf(f), k>> \in Merges \X Slots
BY GroupsExist DEF Files

\* No step takes a file off the list of the overtaken.
LEMMA OvertakenGrows ==
  ASSUME LedgerInv, Next
  PROVE  overtaken \subseteq overtaken'
<1>1. ASSUME NEW s \in Seeds, NEW k \in Slots, SubmitSeed(s, k) \/ RunStep(s, k) \/ RunDies(s, k)
      PROVE  overtaken \subseteq overtaken'
  <2>1. CASE SubmitSeed(s, k) \/ RunDies(s, k)
    BY <2>1 DEF SubmitSeed, RunDies
  <2>2. CASE RunStep(s, k)
    BY <2>2 DEF RunStep
  <2> QED
    BY <1>1, <2>1, <2>2
<1>2. ASSUME NEW m \in Merges, NEW k \in Slots,
             StartMerge(m, k) \/ Fetch(m, k) \/ PublishMerged(m, k) \/ RemoveStaged(m, k) \/ MergeDies(m, k)
      PROVE  overtaken' = overtaken
  BY <1>2 DEF StartMerge, Fetch, PublishMerged, RemoveStaged, MergeDies
<1>3. ASSUME NEW kind \in {"prune", "repair", "backfill"}, StartSweep(kind)
      PROVE  overtaken' = overtaken
  BY <1>3 DEF StartSweep
<1>4. ASSUME List \/ Drop \/ EndSweep \/ RepairDone \/ TaskDies \/ Lose \/ Quiet
      PROVE  overtaken' = overtaken
  BY <1>4 DEF List, Drop, EndSweep, RepairDone, TaskDies, Lose, Quiet, StartTask, ProduceDone,
              BeginMerge, MergeEnds, EditSetup
<1>5. ASSUME Write PROVE overtaken \subseteq overtaken'
  BY <1>5 DEF Write
<1> QED
  BY NextCases, <1>1, <1>2, <1>3, <1>4, <1>5

LEMMA CalmKeepsSizes ==
  ASSUME LedgerInv, SizesKnown, Calm
  PROVE  SizesKnown'
<1> USE DEF LedgerInv, TypeOK
<1>1. SUFFICES ASSUME NEW f \in Files, f \notin overtaken'
               PROVE  /\ staged'[f] # 0 /\ record'[f] # 0 => staged'[f] = record'[f]
                      /\ \A k \in Slots : run'[<<f[1], k>>].at >= 2 * f[2] => staged'[f] \in {0, run'[<<f[1], k>>].size}
                      /\ \A k \in Slots : merge'[<<MergeOf(f), k>>].at = "fetch" =>
                                            staged'[f] \in {0, merge'[<<MergeOf(f), k>>].size}
  BY DEF SizesKnown
<1>2. f \notin overtaken /\ staged'[f] \in {0, staged[f]} /\ record'[f] \in {0, record[f]}
  BY <1>1 DEF Calm
<1>3. staged[f] # 0 /\ record[f] # 0 => staged[f] = record[f]
  BY <1>2 DEF SizesKnown
<1>4. ASSUME NEW k \in Slots, run'[<<f[1], k>>].at >= 2 * f[2]
      PROVE  staged'[f] \in {0, run'[<<f[1], k>>].size}
  <2>1. run'[<<f[1], k>>] = run[<<f[1], k>>] \/ run'[<<f[1], k>>].at \in {0, 1}
    BY FileOf DEF Calm
  <2>2. PICK v \in Versions : v = f[2]
    BY FileOf
  <2>3. 2 * v >= 2 /\ 2 * v \in Int
    BY ShapeAssumption DEF Versions
  <2>4. run'[<<f[1], k>>] = run[<<f[1], k>>]
    BY <1>4, <2>1, <2>2, <2>3
  <2>5. staged[f] \in {0, run[<<f[1], k>>].size}
    BY <1>2, <1>4, <2>4 DEF SizesKnown
  <2> QED
    BY <1>2, <2>4, <2>5
<1>5. ASSUME NEW k \in Slots, merge'[<<MergeOf(f), k>>].at = "fetch"
      PROVE  staged'[f] \in {0, merge'[<<MergeOf(f), k>>].size}
  <2>1. merge'[<<MergeOf(f), k>>] = merge[<<MergeOf(f), k>>]
    BY <1>5, FileOf DEF Calm
  <2>2. staged[f] \in {0, merge[<<MergeOf(f), k>>].size}
    BY <1>2, <1>5, <2>1 DEF SizesKnown
  <2> QED
    BY <1>2, <2>1, <2>2
<1> QED
  BY <1>2, <1>3, <1>4, <1>5

\* Most steps are calm.
LEMMA CalmSteps ==
  ASSUME LedgerInv, Next
  PROVE  \/ Calm \/ Write
         \/ \E s \in Seeds, k \in Slots : RunStep(s, k)
         \/ \E m \in Merges, k \in Slots : StartMerge(m, k)
<1> USE OvertakenGrows DEF LedgerInv, TypeOK, Calm
<1>1. ASSUME NEW s \in Seeds, NEW k \in Slots, SubmitSeed(s, k) \/ RunDies(s, k)
      PROVE  Calm
  <2>1. PICK a : a \in {[at |-> 1, size |-> setup], NoRun} /\ run' = [run EXCEPT ![<<s, k>>] = a]
    BY <1>1 DEF SubmitSeed, RunDies
  <2>2. a.at \in {0, 1}
    BY <2>1 DEF NoRun
  <2>3. UNCHANGED <<staged, record, merge>>
    BY <1>1 DEF SubmitSeed, RunDies
  <2>4. \A b \in Seeds \X Slots : run'[b] = run[b] \/ run'[b].at \in {0, 1}
    BY <2>1, <2>2
  <2> QED
    BY <2>3, <2>4
<1>2. ASSUME NEW m \in Merges, NEW k \in Slots, Fetch(m, k)
      PROVE  Calm
  <2>1. PICK a : a \in {[at |-> "publish", size |-> merge[<<m, k>>].size,
                         holds |-> {staged[f] : f \in Inputs(m)}, left |-> Inputs(m)], NoMerge}
                 /\ merge' = [merge EXCEPT ![<<m, k>>] = a]
    BY <1>2 DEF Fetch
  <2>2. a.at # "fetch"
    BY <2>1 DEF NoMerge
  <2>3. UNCHANGED <<staged, record, run>>
    BY <1>2 DEF Fetch
  <2>4. \A b \in Merges \X Slots : merge'[b] = merge[b] \/ merge'[b].at # "fetch"
    BY <2>1, <2>2
  <2> QED
    BY <2>3, <2>4
<1>3. ASSUME NEW m \in Merges, NEW k \in Slots, PublishMerged(m, k) \/ MergeDies(m, k)
      PROVE  Calm
  <2>1. PICK a : a \in {Removing(merge[<<m, k>>], merge[<<m, k>>].left), NoMerge}
                 /\ merge' = [merge EXCEPT ![<<m, k>>] = a]
    BY <1>3 DEF PublishMerged, MergeDies
  <2>2. a.at # "fetch"
    BY <2>1 DEF NoMerge, Removing
  <2>3. UNCHANGED <<staged, record, run>>
    BY <1>3 DEF PublishMerged, MergeDies
  <2>4. \A b \in Merges \X Slots : merge'[b] = merge[b] \/ merge'[b].at # "fetch"
    BY <2>1, <2>2
  <2> QED
    BY <2>3, <2>4
<1>4. ASSUME NEW m \in Merges, NEW k \in Slots, RemoveStaged(m, k)
      PROVE  Calm
  <2>1. UNCHANGED <<record, run>> /\ \A f \in Files : staged'[f] \in {0, staged[f]}
    BY <1>4 DEF RemoveStaged
  <2>2. PICK a : a.at # "fetch" /\ merge' = [merge EXCEPT ![<<m, k>>] = a]
    BY <1>4 DEF RemoveStaged, Removing, NoMerge
  <2> QED
    BY <2>1, <2>2
<1>5. ASSUME NEW kind \in {"prune", "repair", "backfill"}, StartSweep(kind)
      PROVE  Calm
  BY <1>5 DEF StartSweep
<1>6. ASSUME List \/ EndSweep \/ RepairDone \/ TaskDies \/ Quiet
      PROVE  Calm
  BY <1>6 DEF List, EndSweep, RepairDone, TaskDies, Quiet, StartTask, ProduceDone,
              BeginMerge, MergeEnds, EditSetup
<1>7. ASSUME Drop PROVE Calm
  BY <1>7 DEF Drop
<1>8. ASSUME Lose PROVE Calm
  BY <1>8 DEF Lose
<1> QED
  BY NextCases, <1>1, <1>2, <1>3, <1>4, <1>5, <1>6, <1>7, <1>8


\* A backfill flags the file it records at another size than it is of.
LEMMA WriteKeepsSizes ==
  ASSUME LedgerInv, SizesKnown, Write
  PROVE  SizesKnown'
<1> USE DEF LedgerInv, TypeOK
<1>1. PICK e \in Files : /\ record' = [record EXCEPT ![e] = sweep.size]
                         /\ overtaken' = IF staged[e] \in {0, sweep.size} THEN overtaken ELSE overtaken \union {e}
  BY DEF Write
<1>2. UNCHANGED <<staged, run, merge>>
  BY DEF Write
<1>3. ASSUME NEW f \in Files, f \notin overtaken', staged[f] # 0, record'[f] # 0
      PROVE  staged[f] = record'[f]
  BY <1>1, <1>3 DEF SizesKnown
<1>4. overtaken \subseteq overtaken'
  BY <1>1
<1> QED
  BY <1>2, <1>3, <1>4 DEF SizesKnown

\* A merge is started on files of the size it merges by.
LEMMA StartMergeKeepsSizes ==
  ASSUME LedgerInv, SizesKnown, NEW m \in Merges, NEW k \in Slots, StartMerge(m, k)
  PROVE  SizesKnown'
<1> USE DEF LedgerInv, TypeOK
<1>1. UNCHANGED <<staged, record, run, overtaken>>
  BY DEF StartMerge
<1>2. PICK a : a = [at |-> "fetch", size |-> setup, holds |-> {}, left |-> {}]
               /\ merge' = [merge EXCEPT ![<<m, k>>] = a]
  BY DEF StartMerge
<1>3. ASSUME NEW f \in Files \ overtaken, NEW j \in Slots, merge'[<<MergeOf(f), j>>].at = "fetch"
      PROVE  staged[f] \in {0, merge'[<<MergeOf(f), j>>].size}
  <2>1. CASE <<MergeOf(f), j>> = <<m, k>>
    <3>1. staged[f] # 0 /\ record[f] = setup
      BY <2>1, GroupsExist DEF StartMerge, Admitted, Staged
    <3>2. setup # 0
      BY SizesAssumption
    <3>3. staged[f] = setup
      BY <3>1, <3>2 DEF SizesKnown
    <3>4. merge'[<<MergeOf(f), j>>] = a
      BY <1>2, <2>1
    <3> QED
      BY <1>2, <3>3, <3>4
  <2>2. CASE <<MergeOf(f), j>> # <<m, k>>
    <3>1. merge'[<<MergeOf(f), j>>] = merge[<<MergeOf(f), j>>]
      BY <1>2, <2>2, FileOf
    <3> QED
      BY <1>3, <3>1 DEF SizesKnown
  <2> QED
    BY <2>1, <2>2
<1> QED
  BY <1>1, <1>3 DEF SizesKnown

\* The step that stages a version, and the one that records it.
LEMMA StageAndRecord ==
  ASSUME NEW n \in Nat
  PROVE  /\ n % 2 = 1 => n = 2 * ((n + 1) \div 2) - 1
         /\ n % 2 # 1 => n = 2 * ((n + 1) \div 2)
         /\ \A w \in Nat : n + 1 >= 2 * w /\ ~(n >= 2 * w) => n % 2 = 1 /\ w = (n + 1) \div 2
OBVIOUS

\* An attempt stages a file at the size of what knows it, or flags it, and records it at
\* the size it was staged at, unless it is flagged.
LEMMA RunStepKeepsSizes ==
  ASSUME LedgerInv, SizesKnown, NEW s \in Seeds, NEW k \in Slots, RunStep(s, k)
  PROVE  SizesKnown'
<1> USE DEF LedgerInv, TypeOK
<1>1. PICK n \in 1..2*NVersions, size \in Sizes, e \in Files : StepOf(s, k, n, size, e)
  BY RunStepEffect
<1>2. UNCHANGED merge /\ run[<<s, k>>].size = size
  BY <1>1 DEF RunStep, StepOf, NoRun
<1>3. PICK v \in Versions : v = e[2] /\ e[1] = s /\ v = (n + 1) \div 2
  BY <1>1, Halves DEF StepOf
<1>4. n % 2 = 1 => n = 2 * v - 1
  BY <1>3, StageAndRecord
<1>5. n % 2 # 1 => n = 2 * v
  BY <1>3, StageAndRecord
<1>6. size # 0
  BY SizesAssumption
<1>7. PICK b : /\ run' = [run EXCEPT ![<<s, k>>] = b]
               /\ (b.at = 0 /\ n = 2*NVersions) \/ (b.at = n + 1 /\ b.size = size)
  <2>1. PICK b : b = IF n = 2*NVersions THEN NoRun ELSE [at |-> n + 1, size |-> size]
    OBVIOUS
  <2>2. run' = [run EXCEPT ![<<s, k>>] = b]
    BY <1>1, <2>1 DEF StepOf
  <2>3. (b.at = 0 /\ n = 2*NVersions) \/ (b.at = n + 1 /\ b.size = size)
    BY <2>1 DEF NoRun
  <2> QED
    BY <2>2, <2>3
<1>8. ASSUME NEW f \in Files \ overtaken, NEW j \in Slots, run'[<<f[1], j>>].at >= 2 * f[2]
      PROVE  \/ f = e /\ n % 2 = 1 /\ j = k
             \/ run[<<f[1], j>>].at >= 2 * f[2] /\ run'[<<f[1], j>>].size = run[<<f[1], j>>].size
  <2>1. CASE <<f[1], j>> # <<s, k>>
    BY <1>7, <1>8, <2>1, FileOf
  <2>2. CASE <<f[1], j>> = <<s, k>>
    <3>1. PICK w \in Versions : w = f[2]
      BY FileOf
    <3>2. run'[<<f[1], j>>] = b /\ run[<<f[1], j>>].at = n
      BY <1>1, <1>7, <2>2 DEF StepOf
    <3>3. b.at = n + 1 /\ b.size = size /\ n + 1 >= 2 * w
      BY <1>7, <1>8, <3>1, <3>2, ShapeAssumption DEF Versions
    <3>4. CASE n >= 2 * w
      BY <1>2, <2>2, <3>1, <3>2, <3>3, <3>4
    <3>5. CASE ~(n >= 2 * w)
      <4>1. n = 2 * w - 1 /\ n % 2 = 1 /\ w = v
        <5>1. n \in Nat /\ w \in Nat /\ (n % 2 = 1 => n = 2 * v - 1)
          BY <1>4 DEF Versions
        <5>2. n % 2 = 1 /\ w = v
          BY <1>3, <3>3, <3>5, <5>1, StageAndRecord
        <5> QED
          BY <5>1, <5>2
      <4>2. f[1] = e[1] /\ f[2] = e[2]
        BY <1>3, <2>2, <3>1, <4>1
      <4>3. f = e
        BY <4>2, FileOf
      <4> QED
        BY <2>2, <4>1, <4>3
    <3> QED
      BY <3>4, <3>5
  <2> QED
    BY <2>1, <2>2
<1>9. CASE n % 2 = 1
  <2>1. staged' = [staged EXCEPT ![e] = size] /\ record' = record
    BY <1>1, <1>9 DEF StepOf
  <2>2. overtaken' = IF IsOvertaken(s, k, e) THEN overtaken \union {e} ELSE overtaken
    BY <1>1, <1>9 DEF StepOf, RunStep
  <2>3. SUFFICES ASSUME NEW f \in Files \ overtaken'
                 PROVE  /\ staged'[f] # 0 /\ record'[f] # 0 => staged'[f] = record'[f]
                        /\ \A j \in Slots : run'[<<f[1], j>>].at >= 2 * f[2] => staged'[f] \in {0, run'[<<f[1], j>>].size}
                        /\ \A j \in Slots : merge'[<<MergeOf(f), j>>].at = "fetch" =>
                                              staged'[f] \in {0, merge'[<<MergeOf(f), j>>].size}
    BY DEF SizesKnown
  <2>4. f \notin overtaken
    BY <2>2
  <2>5. CASE f # e
    <3>1. staged'[f] = staged[f]
      BY <2>1, <2>5
    <3>2. \A j \in Slots : run'[<<f[1], j>>].at >= 2 * f[2] => staged[f] \in {0, run'[<<f[1], j>>].size}
      BY <1>8, <2>4, <2>5 DEF SizesKnown
    <3> QED
      BY <1>2, <2>1, <2>4, <3>1, <3>2 DEF SizesKnown
  <2>6. CASE f = e
    <3>1. staged'[e] = size /\ ~IsOvertaken(s, k, e)
      BY <2>1, <2>2, <2>6
    <3>2. record[e] \in {0, size}
      BY <1>2, <3>1 DEF IsOvertaken
    <3>3. \A j \in Slots : merge[<<MergeOf(e), j>>].at = "fetch" => merge[<<MergeOf(e), j>>].size = size
      BY <1>2, <3>1 DEF IsOvertaken
    <3>4. ASSUME NEW j \in Slots, run'[<<e[1], j>>].at >= 2 * e[2]
          PROVE  run'[<<e[1], j>>].size = size
      <4>1. CASE j = k
        <5>1. run'[<<e[1], j>>] = b /\ b.at >= 2 * v
          BY <1>3, <1>7, <3>4, <4>1
        <5> QED
          BY <1>7, <5>1, ShapeAssumption DEF Versions
      <4>2. CASE j # k
        <5>1. run'[<<e[1], j>>] = run[<<s, j>>]
          BY <1>3, <1>7, <4>2
        <5>2. run[<<s, j>>].at >= 2 * v /\ run[<<s, j>>].at \in Int
          BY <1>3, <3>4, <5>1 DEF NoRun
        <5>3. run[<<s, j>>].at > n
          BY <1>4, <1>9, <5>2 DEF Versions
        <5>4. run[<<s, k>>].at = n
          BY <1>1 DEF StepOf
        <5> QED
          BY <1>2, <3>1, <5>1, <5>3, <5>4 DEF IsOvertaken
      <4> QED
        BY <4>1, <4>2
    <3> QED
      BY <1>2, <2>1, <2>6, <3>1, <3>2, <3>3, <3>4
  <2> QED
    BY <2>5, <2>6
<1>10. CASE n % 2 # 1
  <2>1. record' = [record EXCEPT ![e] = size] /\ staged' = staged
    BY <1>1, <1>10 DEF StepOf
  <2>2. overtaken' = overtaken
    BY <1>1, <1>10 DEF StepOf, RunStep
  <2>3. e \notin overtaken => staged[e] \in {0, size}
    <3>1. run[<<e[1], k>>].at >= 2 * e[2] /\ run[<<e[1], k>>].size = size
      <4>1. run[<<e[1], k>>].at = 2 * v
        BY <1>1, <1>3, <1>5, <1>10 DEF StepOf
      <4> QED
        BY <1>2, <1>3, <4>1 DEF Versions
    <3> QED
      BY <3>1 DEF SizesKnown
  <2>4. \A f \in Files \ overtaken : staged'[f] # 0 /\ record'[f] # 0 => staged'[f] = record'[f]
    BY <2>1, <2>3 DEF SizesKnown
  <2>5. \A f \in Files \ overtaken, j \in Slots :
          run'[<<f[1], j>>].at >= 2 * f[2] => staged[f] \in {0, run'[<<f[1], j>>].size}
    BY <1>8, <1>10 DEF SizesKnown
  <2> QED
    BY <1>2, <2>1, <2>2, <2>4, <2>5 DEF SizesKnown
<1> QED
  BY <1>9, <1>10

\* No step of anybody leaves a file at another size than it is known by, and unflagged.
LEMMA SizesStep ==
  ASSUME LedgerInv, SizesKnown, Next
  PROVE  SizesKnown'
BY CalmSteps, CalmKeepsSizes, WriteKeepsSizes, StartMergeKeepsSizes, RunStepKeepsSizes

\* Sizes are numbers, that of a missing file included.
LEMMA SizesAreNumbers ==
  ASSUME NEW x \in {0} \union Sizes
  PROVE  x \in Nat
BY SizesAssumption

\* The inputs of a group of which all but one are of size z, and which count as if all
\* were, are all of size z.
LEMMA OneCannotAverageOut ==
  ASSUME TypeOK, NEW m \in Merges, NEW g \in Inputs(m), NEW z \in Nat,
         CountsAgree(m, z), \A f \in Inputs(m) \ {g} : staged[f] = z
  PROVE  staged[g] = z
<1> DEFINE Rest == Inputs(m) \ {g}
<1>1. IsFiniteSet(Inputs(m)) /\ g \in Files /\ staged[g] \in Nat
  <2>1. Inputs(m) \in SUBSET Files
    BY DEF Inputs
  <2> QED
    <3>1. IsFiniteSet(Inputs(m)) /\ g \in Files
      BY <2>1, FilesFinite, FS_Subset
    <3>2. staged[g] \in {0} \union Sizes
      BY <3>1 DEF TypeOK
    <3> QED
      BY <3>1, <3>2, SizesAreNumbers
<1>2. IsFiniteSet(Rest) /\ Cardinality(Rest) \in Nat /\ Cardinality(Inputs(m)) = Cardinality(Rest) + 1
  <2>1. IsFiniteSet(Rest) /\ Cardinality(Rest) = Cardinality(Inputs(m)) - 1
    BY <1>1, FS_RemoveElement
  <2>2. Cardinality(Rest) \in Nat /\ Cardinality(Inputs(m)) \in Nat
    BY <1>1, <2>1, FS_CardinalityType
  <2> QED
    BY <2>1, <2>2
<1>3. Events(m) = (Rest \X (1..z)) \union ({g} \X (1..staged[g]))
  <2>1. ASSUME NEW x \in Events(m) PROVE x \in (Rest \X (1..z)) \union ({g} \X (1..staged[g]))
    <3>1. PICK f \in Inputs(m) : x \in {f} \X (1..staged[f])
      BY <2>1 DEF Events
    <3> QED
      BY <3>1
  <2>2. ASSUME NEW x \in Rest \X (1..z) PROVE x \in Events(m)
    <3>1. PICK f \in Rest, i \in 1..z : x = <<f, i>>
      OBVIOUS
    <3>2. x \in {f} \X (1..staged[f])
      BY <3>1
    <3> QED
      BY <3>2 DEF Events
  <2>3. ASSUME NEW x \in {g} \X (1..staged[g]) PROVE x \in Events(m)
    BY DEF Events
  <2> QED
    BY <2>1, <2>2, <2>3
<1>4. IsFiniteSet(Rest \X (1..z)) /\ Cardinality(Rest \X (1..z)) = Cardinality(Rest) * z
  <2>1. IsFiniteSet(1..z) /\ Cardinality(1..z) = z
    BY FS_Interval
  <2> QED
    BY <1>2, <2>1, FS_Product
<1>5. IsFiniteSet({g} \X (1..staged[g])) /\ Cardinality({g} \X (1..staged[g])) = staged[g]
  <2>1. IsFiniteSet(1..staged[g]) /\ Cardinality(1..staged[g]) = staged[g]
    <3>1. PICK n \in Nat : n = staged[g]
      BY <1>1
    <3>2. IsFiniteSet(1..n) /\ Cardinality(1..n) = n
      BY FS_Interval
    <3> QED
      BY <3>1, <3>2
  <2>2. IsFiniteSet({g}) /\ Cardinality({g}) = 1
    BY FS_Singleton
  <2>3. IsFiniteSet({g} \X (1..staged[g])) /\ Cardinality({g} \X (1..staged[g])) = 1 * staged[g]
    <3>1. PICK one, numbers : one = {g} /\ numbers = 1..staged[g]
      OBVIOUS
    <3>2. Cardinality(one) = 1 /\ Cardinality(numbers) = staged[g]
      BY <2>1, <2>2, <3>1
    <3>3. IsFiniteSet(one \X numbers) /\ Cardinality(one \X numbers) = Cardinality(one) * Cardinality(numbers)
      BY <2>1, <2>2, <3>1, FS_Product
    <3> QED
      BY <3>1, <3>2, <3>3
  <2> QED
    BY <1>1, <2>3
<1>6. (Rest \X (1..z)) \intersect ({g} \X (1..staged[g])) = {}
  OBVIOUS
<1>7. Cardinality(Events(m)) = Cardinality(Rest) * z + staged[g]
  <2>1. Cardinality((Rest \X (1..z)) \union ({g} \X (1..staged[g])))
          = Cardinality(Rest \X (1..z)) + Cardinality({g} \X (1..staged[g])) - Cardinality({})
    BY <1>4, <1>5, <1>6, FS_Union
  <2>2. Cardinality({}) = 0
    BY FS_EmptySet
  <2> HIDE DEF Rest
  <2>3. Cardinality(Rest) * z \in Nat
    BY <1>2
  <2> QED
    BY <1>1, <1>3, <1>4, <1>5, <2>1, <2>2, <2>3
<1>8. Cardinality(Events(m)) = z * (Cardinality(Rest) + 1)
  BY <1>2 DEF CountsAgree
<1>9. ASSUME NEW c \in Nat, NEW x \in Nat, c * z + x = z * (c + 1) PROVE x = z
  BY <1>9
<1> QED
  BY <1>1, <1>2, <1>7, <1>8, <1>9

\* What is fetched and counts right is of the one size asked for, unless two inputs were
\* overtaken.
LEMMA FetchHonours ==
  ASSUME TypeOK, SizesKnown, NEW m \in Merges, NEW k \in Slots,
         merge[<<m, k>>].at = "fetch", CountsAgree(m, merge[<<m, k>>].size)
  PROVE  Honoured(m, {staged[f] : f \in Inputs(m)})
<1> DEFINE z == merge[<<m, k>>].size
           Bad == Inputs(m) \intersect overtaken
<1>1. IsFiniteSet(Bad) /\ Cardinality(Bad) \in Nat
  <2>1. Bad \in SUBSET Files
    BY DEF Inputs
  <2> QED
    BY <2>1, FilesFinite, FS_Subset, FS_CardinalityType
<1>2. SUFFICES ASSUME ~(Cardinality(Bad) >= 2) PROVE \E size \in Sizes : {staged[f] : f \in Inputs(m)} = {size}
  BY DEF Honoured
<1>3. \A f \in Inputs(m) : staged[f] \in Sizes
  BY DEF CountsAgree, Staged, TypeOK
<1>4. \A f \in Inputs(m) \ Bad : staged[f] = z
  <2>1. ASSUME NEW f \in Inputs(m) \ Bad PROVE staged[f] = z
    <3>1. f \in Files \ overtaken /\ MergeOf(f) = m
      BY GroupsExist
    <3>2. staged[f] \in {0, z}
      BY <3>1 DEF SizesKnown
    <3> QED
      BY <1>3, <3>2, SizesAssumption
  <2> QED
    BY <2>1
<1>5. z \in Nat
  <2>1. merge[<<m, k>>].size \in {0} \union Sizes
    BY DEF TypeOK
  <2> QED
    BY <2>1, SizesAreNumbers
<1>6. \A f \in Inputs(m) : staged[f] = z
  <2>1. CASE Bad = {}
    BY <1>4, <2>1
  <2>2. CASE Bad # {}
    <3>1. PICK g : Bad = {g}
      <4>1. Cardinality(Bad) # 0
        BY <1>1, <2>2, FS_EmptySet
      <4>2. Cardinality(Bad) = 1
        <5> HIDE DEF Bad
        <5> QED
          BY <1>1, <1>2, <4>1
      <4> QED
        BY <1>1, <4>2, FS_Singleton
    <3>2. g \in Inputs(m) /\ \A f \in Inputs(m) \ {g} : staged[f] = z
      BY <1>4, <3>1
    <3>3. staged[g] = z
      BY <1>5, <3>2, OneCannotAverageOut
    <3> QED
      BY <3>2, <3>3
  <2> QED
    BY <2>1, <2>2
<1>7. PICK g : g \in Inputs(m)
  BY GroupsExist
<1>8. z \in Sizes /\ {staged[f] : f \in Inputs(m)} = {z}
  BY <1>3, <1>6, <1>7
<1> QED
  BY <1>8

\* What honours its contract goes on doing so.
LEMMA HonourStays ==
  ASSUME LedgerInv, Next, NEW m \in Merges, NEW held, Honoured(m, held)
  PROVE  Honoured(m, held)'
<1> DEFINE Bad == Inputs(m) \intersect overtaken
<1>1. SUFFICES ASSUME Cardinality(Bad) >= 2 PROVE (Cardinality(Bad) >= 2)'
  BY DEF Honoured
<1>2. Bad' \in SUBSET Files /\ Bad \in SUBSET (Bad')
  BY OvertakenGrows DEF Inputs, MergeOf, Files
<1>3. IsFiniteSet(Bad')
  BY <1>2, FilesFinite, FS_Subset
<1>4. IsFiniteSet(Bad) /\ Cardinality(Bad) <= Cardinality(Bad')
  BY <1>2, <1>3, FS_Subset
<1>5. Cardinality(Bad) \in Nat /\ Cardinality(Bad') \in Nat
  BY <1>3, <1>4, FS_CardinalityType
<1> HIDE DEF Bad
<1> QED
  BY <1>1, <1>4, <1>5

\* What a merge has fetched honours its contract, and it is what it publishes.
LEMMA HonourStep ==
  ASSUME LedgerInv, ContractInv, Next
  PROVE  MergesHonour'
<1> USE DEF LedgerInv, TypeOK, ContractInv
<1> DEFINE Fetching == \A m \in Merges, k \in Slots : merge[<<m, k>>].at = "publish" => Honoured(m, merge[<<m, k>>].holds)
           Merging == \A m \in Merges : merged[m] # {} => Honoured(m, merged[m])
<1>1. Fetching /\ Merging
  BY DEF MergesHonour, Merged
<1>2. SUFFICES
        /\ \A m \in Merges, k \in Slots : merge'[<<m, k>>].at = "publish" => Honoured(m, merge'[<<m, k>>].holds)
        /\ \A m \in Merges : merged'[m] # {} => Honoured(m, merged'[m])
  <2>1. ASSUME NEW m \in Merges, NEW held, Honoured(m, held) PROVE Honoured(m, held)'
    BY <2>1, HonourStays
  <2>2. \A m \in Merges, k \in Slots : merge'[<<m, k>>].at = "publish" => Honoured(m, merge[<<m, k>>].holds)'
    <3>1. SUFFICES ASSUME NEW m \in Merges, NEW k \in Slots, merge'[<<m, k>>].at = "publish"
                   PROVE  Honoured(m, merge[<<m, k>>].holds)'
      OBVIOUS
    <3>2. PICK held : held = merge'[<<m, k>>].holds
      OBVIOUS
    <3>3. Honoured(m, held)
      BY <1>2, <3>1, <3>2
    <3>4. Honoured(m, held)'
      BY <2>1, <3>3
    <3> QED
      BY <3>2, <3>4
  <2>3. \A m \in Merges : merged'[m] # {} => Honoured(m, merged[m])'
    <3>1. SUFFICES ASSUME NEW m \in Merges, merged'[m] # {}
                   PROVE  Honoured(m, merged[m])'
      OBVIOUS
    <3>2. PICK held : held = merged'[m]
      OBVIOUS
    <3>3. Honoured(m, held)
      BY <1>2, <3>1, <3>2
    <3>4. Honoured(m, held)'
      BY <2>1, <3>3
    <3> QED
      BY <3>2, <3>4
  <2> QED
    BY <2>2, <2>3 DEF MergesHonour, Merged
<1>3. ASSUME UNCHANGED <<merge, merged>>
      PROVE  /\ \A m \in Merges, k \in Slots : merge'[<<m, k>>].at = "publish" => Honoured(m, merge'[<<m, k>>].holds)
             /\ \A m \in Merges : merged'[m] # {} => Honoured(m, merged'[m])
  BY <1>1, <1>3
<1>4. ASSUME NEW m \in Merges, NEW k \in Slots,
             StartMerge(m, k) \/ Fetch(m, k) \/ RemoveStaged(m, k) \/ MergeDies(m, k)
      PROVE  /\ merged' = merged
             /\ \E a : /\ merge' = [merge EXCEPT ![<<m, k>>] = a]
                       /\ a.at = "publish" => Honoured(m, a.holds)
  <2>1. CASE Fetch(m, k)
    <3>1. PICK a : a = [at |-> "publish", size |-> merge[<<m, k>>].size,
                        holds |-> {staged[f] : f \in Inputs(m)}, left |-> Inputs(m)]
      OBVIOUS
    <3>2. CASE CountsAgree(m, merge[<<m, k>>].size)
      <4>1. Honoured(m, a.holds)
        BY <2>1, <3>1, <3>2, FetchHonours DEF Fetch
      <4>2. merge' = [merge EXCEPT ![<<m, k>>] = a] /\ merged' = merged
        BY <2>1, <3>1, <3>2 DEF Fetch
      <4> QED
        BY <4>1, <4>2
    <3>3. CASE ~CountsAgree(m, merge[<<m, k>>].size)
      <4>1. merge' = [merge EXCEPT ![<<m, k>>] = NoMerge] /\ merged' = merged
        BY <2>1, <3>3 DEF Fetch
      <4>2. NoMerge.at # "publish"
        BY DEF NoMerge
      <4> QED
        BY <4>1, <4>2
    <3> QED
      BY <3>2, <3>3
  <2>2. CASE StartMerge(m, k)
    <3>1. PICK a : a = [at |-> "fetch", size |-> setup, holds |-> {}, left |-> {}]
      OBVIOUS
    <3>2. merge' = [merge EXCEPT ![<<m, k>>] = a] /\ merged' = merged
      BY <2>2, <3>1 DEF StartMerge
    <3>3. a.at # "publish"
      BY <3>1
    <3> QED
      BY <3>2, <3>3
  <2>3. CASE RemoveStaged(m, k)
    <3>1. PICK a : a.at # "publish" /\ merge' = [merge EXCEPT ![<<m, k>>] = a]
      BY <2>3 DEF RemoveStaged, Removing, NoMerge
    <3> QED
      BY <2>3, <3>1 DEF RemoveStaged
  <2>4. CASE MergeDies(m, k)
    <3>1. NoMerge.at # "publish"
      BY DEF NoMerge
    <3> QED
      BY <2>4, <3>1 DEF MergeDies
  <2> QED
    BY <1>4, <2>1, <2>2, <2>3, <2>4
<1>5. ASSUME NEW m \in Merges, NEW k \in Slots, PublishMerged(m, k)
      PROVE  /\ \A n \in Merges, j \in Slots : merge'[<<n, j>>].at = "publish" => Honoured(n, merge'[<<n, j>>].holds)
             /\ \A n \in Merges : merged'[n] # {} => Honoured(n, merged'[n])
  <2>1. PICK a : a.at # "publish" /\ merge' = [merge EXCEPT ![<<m, k>>] = a]
    BY <1>5 DEF PublishMerged, Removing
  <2>2. PICK held : held = merge[<<m, k>>].holds /\ merged' = [merged EXCEPT ![m] = held] /\ Honoured(m, held)
    BY <1>1, <1>5 DEF PublishMerged
  <2>3. \A n \in Merges, j \in Slots : merge'[<<n, j>>] = merge[<<n, j>>] \/ merge'[<<n, j>>].at # "publish"
    BY <2>1
  <2>4. \A n \in Merges : merged'[n] = merged[n] \/ (n = m /\ merged'[n] = held)
    BY <2>2
  <2> QED
    BY <1>1, <2>2, <2>3, <2>4
<1>6. ASSUME NEW m \in Merges, NEW k \in Slots,
             StartMerge(m, k) \/ Fetch(m, k) \/ RemoveStaged(m, k) \/ MergeDies(m, k)
      PROVE  /\ \A n \in Merges, j \in Slots : merge'[<<n, j>>].at = "publish" => Honoured(n, merge'[<<n, j>>].holds)
             /\ \A n \in Merges : merged'[n] # {} => Honoured(n, merged'[n])
  <2>1. PICK a : merge' = [merge EXCEPT ![<<m, k>>] = a] /\ (a.at = "publish" => Honoured(m, a.holds)) /\ merged' = merged
    BY <1>4, <1>6
  <2>2. \A n \in Merges, j \in Slots : merge'[<<n, j>>] = merge[<<n, j>>] \/ (n = m /\ merge'[<<n, j>>] = a)
    BY <2>1
  <2> QED
    BY <1>1, <2>1, <2>2
<1>7. ASSUME NEW s \in Seeds, NEW k \in Slots, SubmitSeed(s, k) \/ RunStep(s, k) \/ RunDies(s, k)
      PROVE  UNCHANGED <<merge, merged>>
  BY <1>7 DEF SubmitSeed, RunStep, RunDies
<1>8. ASSUME NEW kind \in {"prune", "repair", "backfill"}, StartSweep(kind)
      PROVE  UNCHANGED <<merge, merged>>
  BY <1>8 DEF StartSweep
<1>9. ASSUME List \/ Drop \/ Write \/ EndSweep \/ RepairDone \/ TaskDies \/ Quiet
      PROVE  UNCHANGED <<merge, merged>>
  BY <1>9 DEF List, Drop, Write, EndSweep, RepairDone, TaskDies, Quiet, StartTask, ProduceDone,
              BeginMerge, MergeEnds, EditSetup
<1>10. ASSUME Lose
       PROVE  /\ \A n \in Merges, j \in Slots : merge'[<<n, j>>].at = "publish" => Honoured(n, merge'[<<n, j>>].holds)
              /\ \A n \in Merges : merged'[n] # {} => Honoured(n, merged'[n])
  <2>1. merge' = merge /\ \A n \in Merges : merged'[n] = merged[n] \/ merged'[n] = {}
    BY <1>10 DEF Lose
  <2> QED
    BY <1>1, <2>1
<1> QED
  BY NextCases, <1>3, <1>5, <1>6, <1>7, <1>8, <1>9, <1>10

\* Nothing is known of an empty storage.
LEMMA InitContract == Init => ContractInv
<1> SUFFICES ASSUME Init PROVE ContractInv
  OBVIOUS
<1>1. /\ \A f \in Files : staged[f] = 0
      /\ \A m \in Merges : merged[m] = {}
      /\ \A m \in Merges, k \in Slots : merge[<<m, k>>].at = "none"
  BY DEF Init, NoMerge
<1>2. SizesKnown
  BY <1>1, FileOf, GroupsExist DEF SizesKnown
<1>3. MergesHonour
  BY <1>1 DEF MergesHonour, Merged
<1> QED
  BY <1>2, <1>3 DEF ContractInv

\* One step keeps it.
LEMMA StepContract == LedgerInv /\ ContractInv /\ [Next]_vars => ContractInv'
<1> SUFFICES ASSUME LedgerInv, ContractInv, [Next]_vars PROVE ContractInv'
  OBVIOUS
<1>1. CASE Next
  BY <1>1, SizesStep, HonourStep DEF ContractInv
<1>2. CASE UNCHANGED vars
  BY <1>2 DEF ContractInv, SizesKnown, MergesHonour, Honoured, Merged
<1> QED
  BY <1>1, <1>2

-----------------------------------------------------------------------------
(***************************************************************************)
(* The theorems.                                                           *)
(***************************************************************************)

\* The invariant holds of every reachable state.
THEOREM LedgerHolds == Spec => []LedgerInv
BY InitLedger, StepLedger, PTL DEF Spec

\* State variables keep their types.
THEOREM TypeCorrect == Spec => []TypeOK
<1>1. LedgerInv => TypeOK
  BY DEF LedgerInv
<1> QED
  BY <1>1, LedgerHolds, PTL

\* Behind every record, unless the storage lost it, is a staged or a merged file.
THEOREM RecordsAreBacked == Spec => []RecordIsBacked
<1>1. LedgerInv => RecordIsBacked
  BY DEF LedgerInv
<1> QED
  BY <1>1, LedgerHolds, PTL

\* Prunes take the records of lost files only.
THEOREM PruneIsSafe == Spec => PruneOnlyLost
<1>1. LedgerInv /\ [Next]_vars => [\A f \in Files : record[f] # 0 /\ record'[f] = 0 => f \in lost]_vars
  BY RecordStays DEF Recorded
<1> QED
  BY <1>1, LedgerHolds, PTL DEF Spec, PruneOnlyLost

\* What is merged and not lost is not generated again.
THEOREM NothingIsRegenerated == Spec => NoRegeneration
<1>1. ASSUME LedgerInv, Next, NEW s \in Seeds, NEW k \in Slots,
             run[<<s, k>>] = NoRun, run'[<<s, k>>] # NoRun
      PROVE  \E v \in Versions : <<Group(s), v>> \notin Merged \/ <<s, v>> \in lost
  <2>1. ~SeedComplete(s)
    <3>1. ASSUME NEW t \in Seeds, NEW j \in Slots, SubmitSeed(t, j) \/ RunStep(t, j) \/ RunDies(t, j)
          PROVE  ~SeedComplete(s)
      <4>1. CASE SubmitSeed(t, j)
        BY <1>1, <4>1 DEF SubmitSeed, LedgerInv, TypeOK
      <4>2. CASE RunStep(t, j) \/ RunDies(t, j)
        BY <1>1, <4>2 DEF RunStep, RunDies, LedgerInv, TypeOK
      <4> QED
        BY <3>1, <4>1, <4>2
    <3>2. ASSUME NEW m \in Merges, NEW j \in Slots,
                 StartMerge(m, j) \/ Fetch(m, j) \/ PublishMerged(m, j) \/ RemoveStaged(m, j) \/ MergeDies(m, j)
          PROVE  run' = run
      BY <3>2 DEF StartMerge, Fetch, PublishMerged, RemoveStaged, MergeDies
    <3>3. ASSUME NEW kind \in {"prune", "repair", "backfill"}, StartSweep(kind)
          PROVE  run' = run
      BY <3>3 DEF StartSweep
    <3>4. ASSUME List \/ Drop \/ Write \/ EndSweep \/ RepairDone \/ TaskDies \/ Lose \/ Quiet
          PROVE  run' = run
      BY <3>4 DEF List, Drop, Write, EndSweep, RepairDone, TaskDies, Lose, Quiet, StartTask, ProduceDone,
                  BeginMerge, MergeEnds, EditSetup
    <3> QED
      BY NextCases, <1>1, <3>1, <3>2, <3>3, <3>4
  <2>2. PICK v \in Versions : <<s, v>> \notin Recorded
    BY <2>1 DEF SeedComplete
  <2>3. PICK f \in Files : f = <<s, v>> /\ MergeOf(f) = <<Group(s), v>>
    <3>1. <<s, v>> \in Files
      BY DEF Files
    <3>2. MergeOf(<<s, v>>) = <<Group(s), v>>
      BY DEF MergeOf
    <3> QED
      BY <3>1, <3>2
  <2>4. MergeOf(f) \in Merged => f \in lost
    BY <1>1, <2>2, <2>3, GroupsExist DEF LedgerInv, MergesBacked
  <2> QED
    BY <2>3, <2>4
<1>2. LedgerInv /\ [Next]_vars =>
        [\A s \in Seeds, k \in Slots :
           (run[<<s, k>>] = NoRun /\ run'[<<s, k>>] # NoRun) =>
             \E v \in Versions : <<Group(s), v>> \notin Merged \/ <<s, v>> \in lost]_vars
  BY <1>1
<1> QED
  BY <1>2, LedgerHolds, PTL DEF Spec, NoRegeneration

\* The sizes by which files are known, and those of what merges hold, are as they should be.
THEOREM ContractHolds == Spec => []ContractInv
BY InitContract, LedgerHolds, StepContract, PTL DEF Spec

\* A merged file holds inputs of one size, whatever the edits, losses, deaths, late attempts
\* and backfills, unless two of its inputs were overtaken.
THEOREM MergesHonourContract == Spec => []MergedHonoursContract
<1>1. ContractInv => MergedHonoursContract
  BY DEF ContractInv, MergesHonour, Honoured, MergedHonoursContract, Merged
<1> QED
  BY <1>1, ContractHolds, PTL

=============================================================================
