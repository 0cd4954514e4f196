------------------------------ MODULE PathCache ------------------------------
(***************************************************************************)
(* GFALFileInterface and its PathCache (dsprod/law_gfal.py): what one      *)
(* process believes about the storage, while other processes write and     *)
(* remove files there.  Every completeness decision is an answer of        *)
(* exists(), which is given from the cache whenever it can be.             *)
(*                                                                         *)
(* Time is counted in ticks; an entry holds the ticks it is still valid,   *)
(* and an entry that has run out is gone, since no reader can tell.        *)
(***************************************************************************)
EXTENDS Naturals

CONSTANTS
  Paths,      \* the names on the storage that anybody asks for
  Root,       \* the base directory, which is always there
  Parent,     \* the directory of every other path
  Above,      \* the directories above a path (PathCache._iter_parents)
  Files,      \* the paths that are products; directories hold paths
  Validity    \* ticks an entry is valid (validity_period)

ASSUME TreeAssumption ==
  /\ Root \in Paths /\ Root \notin Files /\ Files \subseteq Paths
  /\ Parent \in [Paths \ {Root} -> Paths \ Files]
  /\ Above \in [Paths -> SUBSET (Paths \ Files)] /\ Above[Root] = {}
  /\ \A p \in Paths \ {Root} : Above[p] = {Parent[p]} \cup Above[Parent[p]]
  /\ \A p \in Paths : p \notin Above[p] /\ \A d \in Above[p] : Above[d] \subseteq Above[p]
ASSUME ValidityAssumption == Validity \in Nat

VARIABLES
  store,      \* the paths that exist
  cache,      \* PathCache.cache
  call,       \* the operation under way and what it does next
  answer,     \* what exists() returned last
  verified,   \* the caches were expired after law's last status query
  steady,     \* the paths known to exist since that query, or since this process
              \* published them ...
  missing,    \* ... and the ones that do not, or that it removed
  elapsed     \* ticks since the caches were expired, up to Validity + 1

vars == <<store, cache, call, answer, verified, steady, missing, elapsed>>
history == <<steady, missing>>
epoch == <<verified, elapsed>>

\* PathCacheEntry: the path does not exist, exists, or is a directory whose own
\* listing was stored (exists and listed); and the ticks left.
Entry == [is : {"absent", "present", "listed"}, left : 0..Validity]
Unknown == [is |-> "unknown", left |-> 0]
NoAnswer == [path |-> Root, found |-> TRUE]
Directories == Paths \ Files
Children(d) == {p \in Paths \ {Root} : Parent[p] = d}

-----------------------------------------------------------------------------
(***************************************************************************)
(* The cache.                                                              *)
(***************************************************************************)

New(is) == [is |-> is, left |-> Validity]
\* PathCache.was_listed.
WasListed(c, p) == c[p].is = "listed"

\* (Mutant: an entry that is renewed is valid for the rest of its time, too.)
SeenLonger(c, p) ==
  [is |-> IF WasListed(c, p) THEN "listed" ELSE "present", left |-> Validity + c[p].left]

\* A path seen to exist: that it was listed before is not forgotten.
Seen(c, p) == New(IF WasListed(c, p) THEN "listed" ELSE "present")

\* PathCache.set for a path that does not exist, and for one that does: then
\* every entry that says a directory above is absent is dropped.
PutAbsent(c, p) == [c EXCEPT ![p] = New("absent")]

\* (Mutant: the names cached as absent above the path are kept.)
PutPresentOnly(c, p) == [c EXCEPT ![p] = Seen(c, p)]

PutPresent(c, p) ==
  [q \in Paths |->
     CASE q = p -> Seen(c, p)
       [] q # p /\ q \in Above[p] /\ c[q].is = "absent" -> Unknown
       [] OTHER -> c[q]]

\* PathCache.set_exists: the listing of a directory.
PutListing(c, d, names) ==
  [q \in Paths |->
     IF q = d THEN New("listed")
     ELSE IF q \in names THEN Seen(c, q)
     ELSE IF q \in Above[d] /\ c[q].is = "absent" THEN Unknown
     ELSE c[q]]

\* PathCache.get: the path's own entry, or its nearest known directory if that
\* does not exist.
Nearest(c, p, d) ==
  d \in Above[p] /\ \A e \in Above[p] : d \in Above[e] => c[e] = Unknown
Lookup(c, p) ==
  IF c[p] # Unknown THEN IF c[p].is = "absent" THEN "absent" ELSE "present"
  ELSE IF \E d \in Above[p] : Nearest(c, p, d) /\ c[d].is = "absent" THEN "absent"
  ELSE "unknown"

-----------------------------------------------------------------------------
Idle == [op |-> "idle", path |-> Root, at |-> Root]
Call(op, p, at) == [op |-> op, path |-> p, at |-> at]
Ops == {"idle", "list", "climb", "remove", "copy", "copied"}

TypeOK ==
  /\ store \subseteq Paths /\ Root \in store
  /\ cache \in [Paths -> Entry \cup {Unknown}]
  /\ call \in [op : Ops, path : Paths, at : Paths]
  /\ answer \in [path : Paths, found : BOOLEAN]
  /\ verified \in BOOLEAN
  /\ steady \subseteq store /\ missing \cap store = {} /\ missing \subseteq Paths
  /\ elapsed \in 0..(Validity + 1)

Init ==
  /\ \E fs \in SUBSET Files : store = {Root} \cup fs \cup UNION {Above[f] : f \in fs}
  /\ cache = [p \in Paths |-> Unknown]
  /\ call = Idle
  /\ answer = NoAnswer
  /\ verified = TRUE
  /\ steady = store /\ missing = Paths \ store
  /\ elapsed = 0

\* A path is written, with its directories, or removed.
Write(p) ==
  /\ store' = store \cup {p} \cup Above[p]
  /\ missing' = missing \ store'
Delete(p) ==
  /\ store' = store \ {p}
  /\ steady' = steady \ {p}

-----------------------------------------------------------------------------
(***************************************************************************)
(* exists()                                                                *)
(***************************************************************************)
Return(p, found) == answer' = [path |-> p, found |-> found] /\ call' = Idle

\* The answer is in the cache, or the directory was listed without the name.
FromCache(p) ==
  /\ call = Idle
  /\ \/ /\ Lookup(cache, p) # "unknown"
        /\ Return(p, Lookup(cache, p) = "present")
        /\ UNCHANGED cache
     \/ /\ Lookup(cache, p) = "unknown" /\ WasListed(cache, Parent[p])
        /\ cache' = PutAbsent(cache, p)
        /\ Return(p, FALSE)
  /\ UNCHANGED <<store, epoch, history>>

\* Neither: the directory is listed now.
AskStorage(p) ==
  /\ call = Idle
  /\ Lookup(cache, p) = "unknown" /\ ~WasListed(cache, Parent[p])
  /\ call' = Call("list", p, Parent[p])
  /\ answer' = NoAnswer
  /\ UNCHANGED <<store, cache, epoch, history>>

\* The listing comes back with the directory's names.
Listed ==
  /\ call.op = "list" /\ call.at \in store
  /\ LET seen == PutListing(cache, call.at, Children(call.at) \cap store) IN
     cache' = IF call.path \in store THEN seen ELSE PutAbsent(seen, call.path)
  /\ Return(call.path, call.path \in store)
  /\ UNCHANGED <<store, epoch, history>>

\* What follows once a directory was found absent: the one above is listed in
\* turn unless the cache knows it, and at the end the path is absent.
ClimbFrom(c, d) ==
  IF d # Root /\ Lookup(c, Parent[d]) = "unknown"
  THEN /\ cache' = c
       /\ call' = Call("climb", call.path, Parent[d])
       /\ UNCHANGED answer
  ELSE /\ cache' = PutAbsent(c, call.path)
       /\ Return(call.path, FALSE)

\* gfal says that the directory is not there (gfal_ls_checked returned None).
DirectoryAbsent ==
  /\ call.op \in {"list", "climb"} /\ call.at \notin store
  /\ ClimbFrom(PutAbsent(cache, call.at), call.at)
  /\ UNCHANGED <<store, epoch, history>>

\* _mark_absent_ancestors stops at a directory that exists ...
ClimbEnds ==
  /\ call.op = "climb" /\ call.at \in store
  /\ cache' = PutAbsent(PutListing(cache, call.at, Children(call.at) \cap store), call.path)
  /\ Return(call.path, FALSE)
  /\ UNCHANGED <<store, epoch, history>>

\* ... or cannot be listed; a first listing that fails is raised instead.
ListingFails ==
  /\ \/ call.op = "list" /\ call' = Idle /\ UNCHANGED <<cache, answer>>
     \/ /\ call.op = "climb"
        /\ cache' = PutAbsent(cache, call.path)
        /\ Return(call.path, FALSE)
  /\ UNCHANGED <<store, epoch, history>>

-----------------------------------------------------------------------------
(***************************************************************************)
(* listdir(), remove(), filecopy()                                         *)
(***************************************************************************)

\* listdir for a caller that wants the names; absent or unreadable, it raises
\* and caches nothing.
ListDir(d) ==
  /\ call = Idle /\ d \in store
  /\ cache' = PutListing(cache, d, Children(d) \cap store)
  /\ answer' = NoAnswer
  /\ UNCHANGED <<store, call, epoch, history>>

\* What this process does to a path itself is not among what nobody touched.
Touch(f) ==
  /\ steady' = steady \ {f} /\ missing' = missing \ {f}

\* gfal_exists reads a stat that fails, for whatever reason, as absent: then
\* nothing is removed and the path is reported, and cached, as gone.
RemoveNothing(f) ==
  /\ call = Idle
  /\ Touch(f)
  /\ cache' = PutAbsent(cache, f)
  /\ answer' = NoAnswer
  /\ UNCHANGED <<store, call, epoch>>

StartRemove(f) ==
  /\ call = Idle /\ f \in store
  /\ Touch(f)
  /\ call' = Call("remove", f, f)
  /\ answer' = NoAnswer
  /\ UNCHANGED <<store, cache, epoch>>

RemoveDone ==
  /\ call.op = "remove" /\ call.path \in store
  /\ Delete(call.path)
  /\ missing' = missing \cup {call.path}
  /\ cache' = PutAbsent(cache, call.path)
  /\ call' = Idle
  /\ UNCHANGED <<answer, epoch>>

\* gfal-rm fails, having removed the file or not.
RemoveFails ==
  /\ call.op = "remove"
  /\ \/ Delete(call.path)
     \/ UNCHANGED <<store, steady>>
  /\ call' = Idle
  /\ UNCHANGED <<cache, answer, epoch, missing>>

\* The destination is cached as absent, then gfal_copy_safe publishes it in
\* one step, and returns or fails, before or after that step.
StartCopy(f) ==
  /\ call = Idle
  /\ Touch(f)
  /\ cache' = PutAbsent(cache, f)
  /\ call' = Call("copy", f, f)
  /\ answer' = NoAnswer
  /\ UNCHANGED <<store, epoch>>

Publish ==
  /\ call.op = "copy"
  /\ Write(call.path)
  /\ call' = Call("copied", call.path, call.path)
  /\ UNCHANGED <<cache, answer, epoch, steady>>

CopyDone ==
  /\ call.op = "copied"
  /\ cache' = PutPresent(cache, call.path)
  /\ steady' = steady \cup ({call.path} \cap store)
  /\ call' = Idle
  /\ UNCHANGED <<store, answer, epoch, missing>>

CopyFails ==
  /\ call.op \in {"copy", "copied"}
  /\ call' = Idle
  /\ UNCHANGED <<store, cache, answer, epoch, history>>

-----------------------------------------------------------------------------
(***************************************************************************)
(* law's completeness check, the other processes, time.                    *)
(***************************************************************************)

\* law has the status of its jobs; what it judges from here on is what the
\* storage shows after this.
StatusQuery ==
  /\ call = Idle
  /\ verified' = FALSE
  /\ steady' = store /\ missing' = Paths \ store
  /\ answer' = NoAnswer
  /\ UNCHANGED <<store, cache, call, elapsed>>

\* (Mutant: the completeness check starts with the listings it has.)
CheckWithoutExpiry ==
  /\ call = Idle
  /\ verified' = TRUE
  /\ answer' = NoAnswer
  /\ elapsed' = 0
  /\ UNCHANGED <<store, cache, call, history>>

\* crab_check_job_completeness: expire_path_caches, then law asks exists().
CheckJobCompleteness ==
  /\ call = Idle
  /\ verified' = TRUE
  /\ cache' = [p \in Paths |-> Unknown]
  /\ answer' = NoAnswer
  /\ elapsed' = 0
  /\ UNCHANGED <<store, call, history>>

OtherWrites(f) == Write(f) /\ UNCHANGED <<cache, call, answer, epoch, steady>>
OtherRemoves(f) ==
  f \in store /\ Delete(f) /\ UNCHANGED <<cache, call, answer, epoch, missing>>

Tick ==
  /\ cache' = [p \in Paths |->
       IF cache[p].left = 0 THEN Unknown
       ELSE [is |-> cache[p].is, left |-> cache[p].left - 1]]
  /\ elapsed' = IF elapsed > Validity THEN elapsed ELSE elapsed + 1
  /\ UNCHANGED <<store, call, answer, verified, history>>

Answering == Listed \/ DirectoryAbsent \/ ClimbEnds \/ ListingFails
Exists == (\E f \in Files : FromCache(f) \/ AskStorage(f)) \/ Answering
Removal == (\E f \in Files : RemoveNothing(f) \/ StartRemove(f)) \/ RemoveDone \/ RemoveFails
FileCopy == (\E f \in Files : StartCopy(f)) \/ Publish \/ CopyDone \/ CopyFails
Others == \E f \in Files : OtherWrites(f) \/ OtherRemoves(f)

Next == \/ Exists \/ (\E d \in Directories : ListDir(d)) \/ Removal \/ FileCopy
        \/ StatusQuery \/ CheckJobCompleteness \/ Others \/ Tick

Spec == Init /\ [][Next]_vars

-----------------------------------------------------------------------------
(***************************************************************************)
(* Properties.                                                             *)
(***************************************************************************)

Truthful == IF answer.found THEN answer.path \notin missing ELSE answer.path \notin steady

\* The docstring of crab_check_job_completeness: every verdict rests on a
\* listing taken after the status it is judging.  A file that was there when
\* the status came back, and stayed, is not found missing, and one that was
\* not and did not appear is not found, as long as the verdicts are given within
\* the validity of an entry.  What this process itself copied or removed is
\* answered truthfully, too, unless the copy or the removal failed.
VerdictIsCurrent ==
  verified /\ elapsed <= Validity /\ answer # NoAnswer => Truthful

\* No directory is cached as absent above a path that is cached as present:
\* lookups of the directory's other files would be answered from it.
NoAbsentParent ==
  \A p \in Paths : cache[p].is \in {"present", "listed"} =>
    \A d \in Above[p] : cache[d].is # "absent"

\* The comment in exists() on its shortcut: the directory was listed and this
\* name was not in it.  A later listing of the directory above keeps that
\* listing alive, but not the names that were in it.
AbsentWasAbsent ==
  verified /\ answer # NoAnswer /\ ~answer.found => answer.path \notin steady
=============================================================================
