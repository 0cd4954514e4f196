------------------------------ MODULE JobConfig ------------------------------
(***************************************************************************)
(* crab_job_config (dsprod/crab.py): the cores, memory and sites a CRAB    *)
(* task asks for.  No state: operators, used by SiteStats for the sites.   *)
(***************************************************************************)
EXTENDS Integers

CONSTANTS
  CRAB_MB_PER_CORE, CRAB_MB_SINGLE_CORE,
  \* The requests the property below is about: memory in MB (0 or less for
  \* none), threads of the payload (n_cpus) and crab.max_cores.
  Requests

ASSUME MemoryAssumption ==
  CRAB_MB_PER_CORE \in Nat \ {0} /\ CRAB_MB_SINGLE_CORE \in Nat
ASSUME RequestsAssumption == Requests \subseteq [mem : Int, cpus : Int, maxCores : Int]

AtLeast(a, b) == IF a >= b THEN a ELSE b
AtMost(a, b) == IF a <= b THEN a ELSE b

-----------------------------------------------------------------------------
(***************************************************************************)
(* Cores and memory.                                                       *)
(***************************************************************************)
CRAB_ALLOWED_CORES == {1, 2, 4, 8}

\* _crab_cores_up: the smallest count CRAB accepts that is at least n, or 8.
crab_cores_up(n) ==
  CHOOSE c \in CRAB_ALLOWED_CORES :
    /\ c >= n \/ c = 8
    /\ \A d \in CRAB_ALLOWED_CORES : d >= n => c <= d
\* _crab_cores_down: the largest one that is at most n, or 1.
crab_cores_down(n) ==
  CHOOSE c \in CRAB_ALLOWED_CORES :
    /\ c <= n \/ c = 1
    /\ \A d \in CRAB_ALLOWED_CORES : d <= n => c >= d

CoresFor(mem) == (mem + CRAB_MB_PER_CORE - 1) \div CRAB_MB_PER_CORE
\* What CRAB allows a job of so many cores.
Ceiling(cores) == AtLeast(CRAB_MB_SINGLE_CORE, cores * CRAB_MB_PER_CORE)
MaxCores(r) == crab_cores_down(AtLeast(1, r.maxCores))

\* (Mutant: the cap is applied before the count is made one CRAB accepts.)
CoresCappedFirst(r) ==
  LET cpus == AtLeast(1, r.cpus)
      needed == IF r.mem <= 0 THEN cpus ELSE AtLeast(cpus, CoresFor(r.mem))
  IN crab_cores_up(AtMost(needed, AtLeast(1, r.maxCores)))

\* The threads of the payload, raised to what the memory needs, made a count that
\* CRAB accepts, and capped.
Cores(r) ==
  LET cpus == AtLeast(1, r.cpus)
      needed == IF r.mem <= 0 THEN cpus ELSE AtLeast(cpus, CoresFor(r.mem))
  IN AtMost(crab_cores_up(needed), MaxCores(r))

\* An explicit request that is not meant in MB, or does not fit, is an error.
IsRefused(r) == 0 < r.mem /\ (r.mem < 1000 \/ r.mem > Ceiling(Cores(r)))
Memory(r) == IF r.mem <= 0 THEN Ceiling(Cores(r)) ELSE r.mem

\* CRAB refuses other core counts and more memory at submission, and kills a job at its
\* memory limit, so a request must never be shrunk: a task that is submitted asks for what CRAB
\* accepts, within the operator's cap, and for no less than was asked for;
\* and a plausible request is refused only if no core count within the cap would do.
Honoured(r) ==
  IF IsRefused(r)
  THEN r.mem < 1000 \/ \A c \in CRAB_ALLOWED_CORES : c <= MaxCores(r) => r.mem > Ceiling(c)
  ELSE /\ Cores(r) \in CRAB_ALLOWED_CORES
       /\ Cores(r) <= AtLeast(1, r.maxCores)
       /\ Cores(r) >= AtMost(r.cpus, MaxCores(r))
       /\ Memory(r) <= Ceiling(Cores(r))
       /\ Memory(r) >= r.mem
RequestIsHonoured == \A r \in Requests : Honoured(r)

-----------------------------------------------------------------------------
(***************************************************************************)
(* Sites.  An entry of a whitelist is the set of sites its glob matches.   *)
(***************************************************************************)

\* (Mutant: the globs are left as they are, for the blacklist to exclude from.)
resolve_whitelist_unexpanded(whitelist, blacklist, processingSites) == whitelist

\* resolve_whitelist: an entry that matches an excluded site is replaced by the
\* processing sites it matches that are not excluded.
resolve_whitelist(whitelist, blacklist, processingSites) ==
  {e \in whitelist : e \cap blacklist = {}}
    \cup UNION {{{site} : site \in (e \cap processingSites) \ blacklist} :
                 e \in {f \in whitelist : f \cap blacklist # {}}}
=============================================================================
