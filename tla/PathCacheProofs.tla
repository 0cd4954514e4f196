--------------------------- MODULE PathCacheProofs --------------------------
(***************************************************************************)
(* Proofs about PathCache, for any tree of paths and any validity.         *)
(*                                                                         *)
(* The cache is judged against what has been steadily there (sd) and       *)
(* steadily missing (ms) since law's status query, and against the store   *)
(* (st).  While no entry made since the caches were expired has run out,   *)
(* every entry agrees with both.                                           *)
(***************************************************************************)
EXTENDS PathCache, TLAPS

IsThere(c, p) == c[p].is \in {"present", "listed"}
IsAbsent(c, p) == c[p].is = "absent"
Below(p) == {q \in Paths : p \in Above[q]}
Closed(st) == \A p \in st : Above[p] \subseteq st

\* What is cached as present has its directories, in the store and in the cache.
HasParents(c, st) ==
  \A p \in Paths : IsThere(c, p) => \A d \in Above[p] : d \in st /\ ~IsAbsent(c, d)
\* What is cached as absent, and what is below it, is not steadily there.
AbsentAgrees(c, sd) == \A p \in Paths : IsAbsent(c, p) => p \notin sd /\ Below(p) \cap sd = {}
\* What is cached as present is not steadily missing.
PresentAgrees(c, ms) == \A p \in Paths : IsThere(c, p) => p \notin ms
\* The steady names of a listed directory are in the cache.
ListedAgrees(c, sd) ==
  \A d \in Paths : WasListed(c, d) => \A q \in Children(d) : q \in sd => IsThere(c, q)
\* No entry has lost more time than has passed.
Lasts(c, e) == \A p \in Paths : c[p] # Unknown => c[p].left + e >= Validity

Shape(c) == c \in [Paths -> Entry \cup {Unknown}]
Agrees(c, sd, ms, e) ==
  AbsentAgrees(c, sd) /\ PresentAgrees(c, ms) /\ ListedAgrees(c, sd) /\ Lasts(c, e)

-----------------------------------------------------------------------------
(***************************************************************************)
(* The operations on the cache.                                            *)
(***************************************************************************)

LEMMA NewIsEntry ==
  ASSUME NEW is \in {"absent", "present", "listed"}
  PROVE  New(is) \in Entry /\ New(is).is = is /\ New(is).left = Validity /\ New(is) # Unknown
BY ValidityAssumption DEF New, Entry, Unknown

LEMMA SeenIsThere ==
  ASSUME NEW c, NEW p
  PROVE  /\ Seen(c, p) \in Entry /\ Seen(c, p) # Unknown
         /\ Seen(c, p).is \in {"present", "listed"}
         /\ Seen(c, p).is = "listed" <=> WasListed(c, p)
         /\ Seen(c, p).left = Validity
BY NewIsEntry DEF Seen

LEMMA UnknownIsNeither ==
  /\ Unknown.is \notin {"absent", "present", "listed"}
  /\ \A e \in Entry : e.is \in {"absent", "present", "listed"} /\ e.left \in 0..Validity
  /\ Unknown \notin Entry
BY DEF Unknown, Entry

LEMMA PutAbsentValues ==
  ASSUME NEW c, Shape(c), NEW p \in Paths
  PROVE  /\ Shape(PutAbsent(c, p))
         /\ PutAbsent(c, p)[p] = New("absent")
         /\ \A q \in Paths \ {p} : PutAbsent(c, p)[q] = c[q]
<1>1. New("absent") \in Entry  BY NewIsEntry
<1> QED  BY <1>1 DEF PutAbsent, Shape

\* The tree, in the form the proofs use.
LEMMA Tree ==
  /\ Root \in Paths /\ Above[Root] = {} /\ Files \subseteq Paths
  /\ \A p \in Paths : Above[p] \subseteq Paths \ Files /\ p \notin Above[p]
  /\ \A p \in Paths : \A d \in Above[p] : Above[d] \subseteq Above[p]
  /\ \A p \in Paths \ {Root} : Parent[p] \in Paths /\ Above[p] = {Parent[p]} \cup Above[Parent[p]]
BY TreeAssumption

\* A path that is not steadily there, nor anything below it, may be put as absent.
LEMMA PutAbsentAgrees ==
  ASSUME NEW c, NEW st, NEW sd, NEW ms, NEW e \in Nat, NEW p \in Paths,
         Shape(c), HasParents(c, st),
         \A q \in Below(p) : ~IsThere(c, q)
  PROVE  LET n == PutAbsent(c, p) IN
         /\ Shape(n) /\ HasParents(n, st)
         /\ Agrees(c, sd, ms, e) /\ p \notin sd /\ Below(p) \cap sd = {} => Agrees(n, sd, ms, e)
<1> DEFINE n == PutAbsent(c, p)
<1>1. /\ Shape(n) /\ n[p] = New("absent")
      /\ \A q \in Paths \ {p} : n[q] = c[q]
  BY PutAbsentValues
<1>2. n[p].is = "absent" /\ n[p].left = Validity  BY <1>1, NewIsEntry
<1> HIDE DEF n
<1>3. HasParents(n, st)
  <2> SUFFICES ASSUME NEW q \in Paths, IsThere(n, q), NEW d \in Above[q]
               PROVE  d \in st /\ ~IsAbsent(n, d)
    BY DEF HasParents
  <2>1. q # p /\ IsThere(c, q)  BY <1>1, <1>2 DEF IsThere
  <2>2. d \in Paths /\ d # p  BY <2>1, Tree DEF Below
  <2> QED  BY <1>1, <2>1, <2>2 DEF HasParents, IsAbsent
<1>4. ASSUME Agrees(c, sd, ms, e), p \notin sd, Below(p) \cap sd = {}
      PROVE  Agrees(n, sd, ms, e)
  <2>1. AbsentAgrees(n, sd)  BY <1>1, <1>2, <1>4 DEF Agrees, AbsentAgrees, IsAbsent
  <2>2. PresentAgrees(n, ms)  BY <1>1, <1>2, <1>4 DEF Agrees, PresentAgrees, IsThere
  <2>3. ListedAgrees(n, sd)
    BY <1>1, <1>2, <1>4 DEF Agrees, ListedAgrees, IsThere, WasListed, Children
  <2>4. Lasts(n, e)  BY <1>1, <1>2, <1>4, ValidityAssumption DEF Agrees, Lasts
  <2> QED  BY <2>1, <2>2, <2>3, <2>4 DEF Agrees
<1> QED  BY <1>1, <1>3, <1>4 DEF n

LEMMA PutPresentValues ==
  ASSUME NEW c, Shape(c), NEW p \in Paths
  PROVE  LET n == PutPresent(c, p) IN
         /\ Shape(n)
         /\ n[p] = Seen(c, p)
         /\ \A q \in Above[p] : n[q] = IF IsAbsent(c, q) THEN Unknown ELSE c[q]
         /\ \A q \in Paths \ ({p} \cup Above[p]) : n[q] = c[q]
<1> DEFINE n == PutPresent(c, p)
           val(q) == CASE q = p -> Seen(c, p)
                       [] q # p /\ q \in Above[p] /\ c[q].is = "absent" -> Unknown
                       [] OTHER -> c[q]
<1>1. n = [q \in Paths |-> val(q)]  BY DEF PutPresent
<1>2. \A q \in Paths : n[q] = val(q)  BY <1>1
<1> HIDE DEF n
<1>3. n[p] = Seen(c, p)  BY <1>2
<1>4. \A q \in Above[p] : n[q] = IF IsAbsent(c, q) THEN Unknown ELSE c[q]
  BY <1>2, Tree DEF IsAbsent
<1>5. \A q \in Paths \ ({p} \cup Above[p]) : n[q] = c[q]  BY <1>2
<1>6. \A q \in Paths : n[q] \in Entry \cup {Unknown}
  <2> TAKE q \in Paths
  <2>1. n[q] \in {Seen(c, p), Unknown, c[q]}  BY <1>3, <1>4, <1>5
  <2>2. Seen(c, p) \in Entry  BY SeenIsThere
  <2>3. c[q] \in Entry \cup {Unknown}  BY DEF Shape
  <2> QED  BY <2>1, <2>2, <2>3
<1>7. Shape(n)  BY <1>1, <1>6 DEF Shape, n
<1> QED  BY <1>3, <1>4, <1>5, <1>7 DEF n

\* A file that is on the storage, with its directories, may be put as present, and be
\* steadily there from now on.
LEMMA PutPresentAgrees ==
  ASSUME NEW c, NEW st, NEW sd, NEW ms, NEW e \in Nat, NEW p \in Files,
         Shape(c), HasParents(c, st),
         Above[p] \subseteq st, p \notin ms
  PROVE  LET n == PutPresent(c, p) IN
         /\ Shape(n) /\ HasParents(n, st)
         /\ Agrees(c, sd, ms, e) => Agrees(n, sd \cup {p}, ms, e)
<1> DEFINE n == PutPresent(c, p)
<1>0. p \in Paths  BY Tree
<1>1. /\ Shape(n)
      /\ n[p] = Seen(c, p)
      /\ \A q \in Above[p] : n[q] = IF IsAbsent(c, q) THEN Unknown ELSE c[q]
      /\ \A q \in Paths \ ({p} \cup Above[p]) : n[q] = c[q]
  BY <1>0, PutPresentValues
<1> HIDE DEF n
<1>2. /\ IsThere(n, p) /\ n[p].left = Validity /\ ~IsAbsent(n, p)
      /\ WasListed(n, p) <=> WasListed(c, p)
  BY <1>1, SeenIsThere DEF IsThere, IsAbsent, WasListed
\* Nothing becomes absent, and only p present.
<1>3. \A q \in Paths : /\ IsAbsent(n, q) => IsAbsent(c, q) /\ q # p /\ q \notin Above[p]
                       /\ q # p => (IsThere(n, q) <=> IsThere(c, q))
                       /\ WasListed(n, q) <=> WasListed(c, q)
                       /\ n[q] # Unknown => q = p \/ n[q] = c[q]
  <2> SUFFICES ASSUME NEW q \in Paths
               PROVE  /\ IsAbsent(n, q) => IsAbsent(c, q) /\ q # p /\ q \notin Above[p]
                      /\ q # p => (IsThere(n, q) <=> IsThere(c, q))
                      /\ WasListed(n, q) <=> WasListed(c, q)
                      /\ n[q] # Unknown => q = p \/ n[q] = c[q]
    OBVIOUS
  <2>1. CASE q = p  BY <1>2, <2>1
  <2>2. CASE q # p /\ q \in Above[p]
    BY <1>1, <2>2, UnknownIsNeither DEF IsThere, IsAbsent, WasListed
  <2>3. CASE q # p /\ q \notin Above[p]
    BY <1>1, <2>3 DEF IsThere, IsAbsent, WasListed
  <2> QED  BY <2>1, <2>2, <2>3
<1>4. HasParents(n, st)
  <2> SUFFICES ASSUME NEW q \in Paths, IsThere(n, q), NEW d \in Above[q]
               PROVE  d \in st /\ ~IsAbsent(n, d)
    BY DEF HasParents
  <2>1. d \in Paths  BY Tree
  <2>2. CASE q = p  BY <1>3, <2>1, <2>2
  <2>3. CASE q # p  BY <1>3, <2>1, <2>3 DEF HasParents
  <2> QED  BY <2>2, <2>3
<1>5. ASSUME Agrees(c, sd, ms, e) PROVE Agrees(n, sd \cup {p}, ms, e)
  <2>1. AbsentAgrees(n, sd \cup {p})
    BY <1>3, <1>5 DEF Agrees, AbsentAgrees, Below
  <2>2. PresentAgrees(n, ms)  BY <1>3, <1>5 DEF Agrees, PresentAgrees
  <2>3. ListedAgrees(n, sd \cup {p})
    BY <1>2, <1>3, <1>5 DEF Agrees, ListedAgrees, Children
  <2>4. Lasts(n, e)  BY <1>2, <1>3, <1>5, ValidityAssumption DEF Agrees, Lasts
  <2> QED  BY <2>1, <2>2, <2>3, <2>4 DEF Agrees
<1> QED  BY <1>1, <1>4, <1>5 DEF n

LEMMA PutListingValues ==
  ASSUME NEW c, Shape(c), NEW p \in Paths, NEW names
  PROVE  LET n == PutListing(c, p, names) IN
         /\ Shape(n)
         /\ n[p] = New("listed")
         /\ \A q \in Paths : q # p /\ q \in names => n[q] = Seen(c, q)
         /\ \A q \in Paths : q # p /\ q \notin names =>
              n[q] = IF q \in Above[p] /\ IsAbsent(c, q) THEN Unknown ELSE c[q]
<1> DEFINE n == PutListing(c, p, names)
           val(q) == IF q = p THEN New("listed")
                     ELSE IF q \in names THEN Seen(c, q)
                     ELSE IF q \in Above[p] /\ c[q].is = "absent" THEN Unknown
                     ELSE c[q]
<1>1. n = [q \in Paths |-> val(q)]  BY DEF PutListing
<1>2. \A q \in Paths : n[q] = val(q)  BY <1>1
<1> HIDE DEF n
<1>3. n[p] = New("listed")  BY <1>2
<1>4. \A q \in Paths : q # p /\ q \in names => n[q] = Seen(c, q)  BY <1>2
<1>5. \A q \in Paths : q # p /\ q \notin names =>
        n[q] = IF q \in Above[p] /\ IsAbsent(c, q) THEN Unknown ELSE c[q]
  BY <1>2 DEF IsAbsent
<1>6. \A q \in Paths : n[q] \in Entry \cup {Unknown}
  <2> TAKE q \in Paths
  <2>1. n[q] \in {New("listed"), Seen(c, q), Unknown, c[q]}  BY <1>3, <1>4, <1>5
  <2>2. Seen(c, q) \in Entry /\ New("listed") \in Entry  BY SeenIsThere, NewIsEntry
  <2>3. c[q] \in Entry \cup {Unknown}  BY DEF Shape
  <2> QED  BY <2>1, <2>2, <2>3
<1>7. Shape(n)  BY <1>1, <1>6 DEF Shape, n
<1> QED  BY <1>3, <1>4, <1>5, <1>7 DEF n

\* The listing of a directory that is there may be put in the cache.
LEMMA PutListingAgrees ==
  ASSUME NEW c, NEW st, NEW sd, NEW ms, NEW e \in Nat, NEW p \in Paths, p \in st,
         Shape(c), HasParents(c, st),
         Closed(st), sd \subseteq st, ms \cap st = {}
  PROVE  LET n == PutListing(c, p, Children(p) \cap st) IN
         /\ Shape(n) /\ HasParents(n, st)
         /\ Agrees(c, sd, ms, e) => Agrees(n, sd, ms, e)
<1> DEFINE names == Children(p) \cap st
           n == PutListing(c, p, names)
<1>1. /\ Shape(n)
      /\ n[p] = New("listed")
      /\ \A q \in Paths : q # p /\ q \in names => n[q] = Seen(c, q)
      /\ \A q \in Paths : q # p /\ q \notin names =>
           n[q] = IF q \in Above[p] /\ IsAbsent(c, q) THEN Unknown ELSE c[q]
  BY PutListingValues
<1> HIDE DEF n
<1>2. \A q \in names : q \in Paths /\ q # p /\ q \in st /\ Above[q] = {p} \cup Above[p]
  BY Tree DEF Children
<1>3. Above[p] \subseteq st  BY DEF Closed
<1>4. /\ IsThere(n, p) /\ WasListed(n, p) /\ ~IsAbsent(n, p) /\ n[p].left = Validity
  BY <1>1, NewIsEntry DEF IsThere, WasListed, IsAbsent
<1>5. \A q \in names : /\ IsThere(n, q) /\ ~IsAbsent(n, q) /\ n[q].left = Validity
                       /\ WasListed(n, q) <=> WasListed(c, q)
  <2> TAKE q \in names
  <2>1. n[q] = Seen(c, q)  BY <1>1, <1>2
  <2> HIDE DEF names
  <2> QED  BY <2>1, SeenIsThere DEF IsThere, WasListed, IsAbsent
<1> HIDE DEF names
<1>6. \A q \in Paths : q # p /\ q \notin names =>
        /\ IsAbsent(n, q) => IsAbsent(c, q) /\ q \notin Above[p]
        /\ IsThere(n, q) <=> IsThere(c, q)
        /\ WasListed(n, q) <=> WasListed(c, q)
        /\ n[q] # Unknown => n[q] = c[q]
  BY <1>1, UnknownIsNeither DEF IsThere, WasListed, IsAbsent
<1>7. HasParents(n, st)
  <2> SUFFICES ASSUME NEW q \in Paths, IsThere(n, q), NEW d \in Above[q]
               PROVE  d \in st /\ ~IsAbsent(n, d)
    BY DEF HasParents
  <2>1. d \in Paths  BY Tree
  <2>2. CASE q = p \/ q \in names
    <3>1. d = p \/ d \in Above[p]  BY <1>2, <2>2
    <3> QED  BY <1>3, <1>4, <1>5, <1>6, <2>1, <3>1
  <2>3. CASE q # p /\ q \notin names
    <3>1. IsThere(c, q)  BY <1>6, <2>3
    <3>2. d \in st /\ ~IsAbsent(c, d)  BY <3>1 DEF HasParents
    <3> QED  BY <1>4, <1>5, <1>6, <2>1, <3>2
  <2> QED  BY <2>2, <2>3
<1>8. ASSUME Agrees(c, sd, ms, e) PROVE Agrees(n, sd, ms, e)
  <2>1. AbsentAgrees(n, sd)
    BY <1>4, <1>5, <1>6, <1>8 DEF Agrees, AbsentAgrees
  <2>2. PresentAgrees(n, ms)
    BY <1>2, <1>4, <1>5, <1>6, <1>8 DEF Agrees, PresentAgrees
  <2>3. ListedAgrees(n, sd)
    <3> SUFFICES ASSUME NEW d \in Paths, WasListed(n, d), NEW q \in Children(d), q \in sd
                 PROVE  IsThere(n, q)
      BY DEF ListedAgrees
    <3>1. q \in Paths  BY DEF Children
    <3>2. CASE d = p  BY <1>5, <3>2 DEF names
    <3>3. CASE d # p
      <4>1. WasListed(c, d)  BY <1>5, <1>6, <3>3
      <4>2. IsThere(c, q)  BY <1>8, <4>1 DEF Agrees, ListedAgrees
      <4> QED  BY <1>4, <1>5, <1>6, <3>1, <4>2
    <3> QED  BY <3>2, <3>3
  <2>4. Lasts(n, e)  BY <1>4, <1>5, <1>6, <1>8, ValidityAssumption DEF Agrees, Lasts
  <2> QED  BY <2>1, <2>2, <2>3, <2>4 DEF Agrees
<1> QED  BY <1>1, <1>7, <1>8 DEF n, names

-----------------------------------------------------------------------------
(***************************************************************************)
(* The invariant.                                                          *)
(***************************************************************************)

Fresh == verified /\ elapsed <= Validity
Judging == {"list", "climb"}
Copying == {"copy", "copied"}

CallInv ==
  /\ call.op # "idle" => call.path \in Files /\ answer = NoAnswer
  /\ call.op \in Judging => call.at \in Above[call.path]
  /\ call.op \in {"climb", "remove"} \cup Copying => call.path \notin steady
  /\ call.op \in Copying => call.path \notin missing
  /\ call.op = "copied" => Above[call.path] \subseteq store

CacheInv ==
  /\ TypeOK
  /\ Closed(store)
  /\ HasParents(cache, store)
  /\ CallInv
  /\ Fresh => Agrees(cache, steady, missing, elapsed)
  /\ Fresh /\ answer # NoAnswer => Truthful

LEMMA CacheInit == Init => CacheInv
<1> SUFFICES ASSUME Init PROVE CacheInv  OBVIOUS
<1>1. PICK fs \in SUBSET Files : store = {Root} \cup fs \cup UNION {Above[f] : f \in fs}
  BY DEF Init
<1>2. store \subseteq Paths /\ Root \in store  BY <1>1, Tree
<1>3. Closed(store)
  <2> SUFFICES ASSUME NEW p \in store PROVE Above[p] \subseteq store  BY DEF Closed
  <2>1. CASE p = Root  BY <2>1, Tree
  <2>2. CASE p \in fs  BY <1>1, <2>2
  <2>3. CASE \E f \in fs : p \in Above[f]
    <3>1. PICK f \in fs : p \in Above[f]  BY <2>3
    <3>2. f \in Paths  BY Tree
    <3>3. Above[p] \subseteq Above[f]  BY <3>1, <3>2, Tree
    <3> QED  BY <1>1, <3>3
  <2> QED  BY <1>1, <2>1, <2>2, <2>3
<1>4. TypeOK
  BY <1>2, ValidityAssumption, Tree DEF Init, TypeOK, Idle, NoAnswer, Unknown, Ops, Entry
<1>5. \A p \in Paths : cache[p] = Unknown  BY DEF Init
<1>6. HasParents(cache, store)  BY <1>5, UnknownIsNeither DEF HasParents, IsThere
<1>7. CallInv  BY DEF Init, CallInv, Idle, Judging, Copying
<1>8. Agrees(cache, steady, missing, elapsed)
  BY <1>5, UnknownIsNeither
  DEF Agrees, AbsentAgrees, PresentAgrees, ListedAgrees, Lasts, IsThere, IsAbsent, WasListed
<1>9. answer = NoAnswer  BY DEF Init
<1> QED  BY <1>3, <1>4, <1>6, <1>7, <1>8, <1>9 DEF CacheInv

\* An answer from the cache.
LEMMA LookupAgrees ==
  ASSUME NEW c, NEW sd, NEW ms, NEW e, Shape(c), Agrees(c, sd, ms, e),
         NEW p \in Paths, Lookup(c, p) # "unknown"
  PROVE  IF Lookup(c, p) = "present" THEN p \notin ms ELSE p \notin sd
<1>1. CASE c[p] # Unknown
  <2>1. c[p] \in Entry  BY <1>1 DEF Shape
  <2>2. CASE c[p].is = "absent"
    BY <1>1, <2>2 DEF Lookup, Agrees, AbsentAgrees, IsAbsent
  <2>3. CASE c[p].is # "absent"
    BY <1>1, <2>1, <2>3, UnknownIsNeither DEF Lookup, Agrees, PresentAgrees, IsThere, Entry
  <2> QED  BY <2>2, <2>3
<1>2. CASE c[p] = Unknown
  <2>1. PICK d \in Above[p] : c[d].is = "absent"  BY <1>2 DEF Lookup
  <2>2. d \in Paths /\ p \in Below(d)  BY Tree DEF Below
  <2>3. p \notin sd  BY <2>1, <2>2 DEF Agrees, AbsentAgrees, IsAbsent
  <2> QED  BY <1>2, <2>3 DEF Lookup
<1> QED  BY <1>1, <1>2

\* Nothing is below a file, and nothing at all is below a directory that is not there.
LEMMA BelowFile == \A f \in Files : f \in Paths /\ Below(f) = {}
BY Tree DEF Below

LEMMA BelowAbsent ==
  ASSUME CacheInv, NEW d \in Paths, d \notin store
  PROVE  d \notin steady /\ Below(d) \cap steady = {} /\ \A q \in Below(d) : ~IsThere(cache, q)
BY DEF CacheInv, TypeOK, Closed, HasParents, Below

LEMMA Types ==
  ASSUME CacheInv
  PROVE  /\ Shape(cache) /\ elapsed \in Nat /\ store \subseteq Paths /\ Root \in store
         /\ call.path \in Paths /\ call.at \in Paths /\ call.op \in Ops
         /\ steady \subseteq store /\ missing \cap store = {}
         /\ NoAnswer.found = TRUE /\ Idle.op = "idle"
BY ValidityAssumption DEF CacheInv, TypeOK, Shape, NoAnswer, Idle

\* exists() gives an answer from the cache it leaves behind, in one step.
LEMMA ReturnStep ==
  ASSUME CacheInv, NEW p \in Paths, NEW found \in BOOLEAN, Return(p, found),
         Shape(cache'), HasParents(cache', store),
         Fresh => Agrees(cache', steady, missing, elapsed),
         Fresh => IF found THEN p \notin missing ELSE p \notin steady,
         UNCHANGED <<store, epoch, history>>
  PROVE  CacheInv'
<1>1. /\ answer' = [path |-> p, found |-> found] /\ call' = Idle
      /\ store' = store /\ verified' = verified /\ elapsed' = elapsed
      /\ steady' = steady /\ missing' = missing
  BY DEF Return, epoch, history
<1>2. TypeOK'  BY <1>1, Tree DEF CacheInv, TypeOK, Shape, Idle, Ops
<1>3. CallInv'  BY <1>1 DEF CallInv, Idle, Judging, Copying
<1>4. Closed(store)'  BY <1>1 DEF CacheInv
<1>5. Fresh' => Agrees(cache, steady, missing, elapsed)' /\ Truthful'
  BY <1>1 DEF Fresh, Truthful
<1> QED  BY <1>1, <1>2, <1>3, <1>4, <1>5 DEF CacheInv

LEMMA FromCacheStep ==
  ASSUME CacheInv, NEW p \in Files, FromCache(p)
  PROVE  CacheInv'
<1>1. p \in Paths /\ Below(p) = {}  BY BelowFile
<1>2. Shape(cache) /\ elapsed \in Nat  BY Types
<1>3. CASE Lookup(cache, p) # "unknown" /\ Return(p, Lookup(cache, p) = "present") /\ UNCHANGED cache
  <2>1. Fresh => IF Lookup(cache, p) = "present" THEN p \notin missing ELSE p \notin steady
    BY <1>1, <1>2, <1>3, LookupAgrees DEF CacheInv
  <2>2. /\ Shape(cache') /\ HasParents(cache', store)
        /\ Fresh => Agrees(cache', steady, missing, elapsed)
    BY <1>2, <1>3 DEF CacheInv
  <2>3. (Lookup(cache, p) = "present") \in BOOLEAN  OBVIOUS
  <2> DEFINE found == Lookup(cache, p) = "present"
  <2>4. found \in BOOLEAN /\ Return(p, found)  BY <1>3
  <2>5. Fresh => IF found THEN p \notin missing ELSE p \notin steady  BY <2>1
  <2>6. UNCHANGED <<store, epoch, history>>  BY DEF FromCache
  <2> HIDE DEF found
  <2> QED  BY <1>1, <2>2, <2>4, <2>5, <2>6, ReturnStep
<1>4. CASE /\ Lookup(cache, p) = "unknown" /\ WasListed(cache, Parent[p])
           /\ cache' = PutAbsent(cache, p) /\ Return(p, FALSE)
  <2>1. p # Root /\ Parent[p] \in Paths /\ p \in Children(Parent[p])
    BY <1>1, TreeAssumption DEF Children
  <2>2. ~IsThere(cache, p)  BY <1>2, <1>4, UnknownIsNeither DEF Lookup, IsThere
  <2>3. Fresh => p \notin steady
    BY <1>4, <2>1, <2>2 DEF CacheInv, Agrees, ListedAgrees
  <2>4. /\ Shape(cache') /\ HasParents(cache', store)
        /\ Fresh => Agrees(cache', steady, missing, elapsed)
    BY <1>1, <1>2, <1>4, <2>3, PutAbsentAgrees DEF CacheInv
  <2> QED  BY <1>1, <1>4, <2>3, <2>4, ReturnStep DEF FromCache
<1> QED  BY <1>3, <1>4 DEF FromCache

LEMMA AskStorageStep ==
  ASSUME CacheInv, NEW p \in Files, AskStorage(p)
  PROVE  CacheInv'
<1>1. p \in Paths \ {Root} /\ Parent[p] \in Paths /\ Parent[p] \in Above[p]
  BY TreeAssumption
<1>2. /\ call' = [op |-> "list", path |-> p, at |-> Parent[p]] /\ answer' = NoAnswer
      /\ store' = store /\ cache' = cache /\ verified' = verified /\ elapsed' = elapsed
      /\ steady' = steady /\ missing' = missing
  BY DEF AskStorage, epoch, history, Call
<1>3. TypeOK'  BY <1>1, <1>2, Tree DEF CacheInv, TypeOK, NoAnswer, Ops
<1>4. CallInv'  BY <1>1, <1>2 DEF CallInv, Judging, Copying
<1> QED  BY <1>2, <1>3, <1>4 DEF CacheInv, Fresh, Closed

LEMMA ListedStep ==
  ASSUME CacheInv, Listed
  PROVE  CacheInv'
<1> DEFINE p == call.path
           n == PutListing(cache, call.at, Children(call.at) \cap store)
<1>1. p \in Files /\ call.at \in store  BY DEF Listed, CacheInv, CallInv
<1>2. p \in Paths /\ call.at \in Paths /\ Below(p) = {}  BY <1>1, BelowFile, Types
<1>3. /\ Shape(n) /\ HasParents(n, store)
      /\ Agrees(cache, steady, missing, elapsed) => Agrees(n, steady, missing, elapsed)
  BY <1>1, <1>2, Types, PutListingAgrees DEF CacheInv
<1>4. cache' = IF p \in store THEN n ELSE PutAbsent(n, p)  BY DEF Listed
<1> HIDE DEF n
<1>5. UNCHANGED <<store, epoch, history>> /\ Return(p, p \in store)  BY DEF Listed
<1>6. CASE p \in store
  <2>1. p \notin missing /\ Return(p, TRUE)  BY <1>5, <1>6, Types
  <2> QED  BY <1>2, <1>3, <1>4, <1>5, <1>6, <2>1, ReturnStep DEF CacheInv
<1>7. CASE p \notin store
  <2>1. p \notin steady /\ Return(p, FALSE)
    <3>1. (p \in store) = FALSE  BY <1>7
    <3>2. Return(p, FALSE)  BY <1>5, <3>1
    <3> QED  BY <1>7, <3>2, Types
  <2>2. /\ Shape(cache') /\ HasParents(cache', store)
        /\ Agrees(n, steady, missing, elapsed) => Agrees(cache', steady, missing, elapsed)
    BY <1>2, <1>3, <1>4, <1>7, <2>1, Types, PutAbsentAgrees
  <2> QED  BY <1>2, <1>3, <1>5, <2>1, <2>2, ReturnStep DEF CacheInv
<1> QED  BY <1>6, <1>7

LEMMA DirectoryAbsentStep ==
  ASSUME CacheInv, DirectoryAbsent
  PROVE  CacheInv'
<1> DEFINE p == call.path
           d == call.at
           n == PutAbsent(cache, d)
<1>1. /\ p \in Files /\ d \in Above[p] /\ d \notin store /\ d \in Paths /\ answer = NoAnswer
  BY Types DEF DirectoryAbsent, CacheInv, CallInv, Judging
<1>2. p \in Paths /\ Below(p) = {} /\ p \in Below(d) /\ d # Root
  BY <1>1, BelowFile, Types DEF Below
<1>3. /\ d \notin steady /\ Below(d) \cap steady = {} /\ p \notin steady
      /\ \A q \in Below(d) : ~IsThere(cache, q)
  BY <1>1, <1>2, BelowAbsent
<1>4. /\ Shape(n) /\ HasParents(n, store)
      /\ Agrees(cache, steady, missing, elapsed) => Agrees(n, steady, missing, elapsed)
  BY <1>1, <1>3, Types, PutAbsentAgrees DEF CacheInv
<1>5. UNCHANGED <<store, epoch, history>> /\ ClimbFrom(n, d)  BY DEF DirectoryAbsent
<1> HIDE DEF n
<1>6. CASE cache' = n /\ call' = Call("climb", p, Parent[d]) /\ UNCHANGED answer
  <2>1. Parent[d] \in Paths /\ Parent[d] \in Above[p]  BY <1>1, <1>2, Tree
  <2>2. /\ store' = store /\ verified' = verified /\ elapsed' = elapsed
        /\ steady' = steady /\ missing' = missing
    BY <1>5 DEF epoch, history
  <2>3. TypeOK'
    BY <1>2, <1>4, <1>6, <2>1, <2>2 DEF CacheInv, TypeOK, Shape, Call, Ops
  <2>4. CallInv'  BY <1>1, <1>3, <1>6, <2>1, <2>2 DEF CallInv, Call, Judging, Copying
  <2> QED  BY <1>1, <1>4, <1>6, <2>2, <2>3, <2>4 DEF CacheInv, Fresh, Closed
<1>7. CASE cache' = PutAbsent(n, p) /\ Return(p, FALSE)
  <2>1. /\ Shape(cache') /\ HasParents(cache', store)
        /\ Agrees(n, steady, missing, elapsed) => Agrees(cache', steady, missing, elapsed)
    BY <1>2, <1>3, <1>4, <1>7, Types, PutAbsentAgrees
  <2> QED  BY <1>2, <1>3, <1>4, <1>5, <1>7, <2>1, ReturnStep DEF CacheInv
<1> QED  BY <1>5, <1>6, <1>7 DEF ClimbFrom

LEMMA ClimbEndsStep ==
  ASSUME CacheInv, ClimbEnds
  PROVE  CacheInv'
<1> DEFINE p == call.path
           n == PutListing(cache, call.at, Children(call.at) \cap store)
<1>1. p \in Files /\ call.at \in store /\ p \notin steady
  BY DEF ClimbEnds, CacheInv, CallInv
<1>2. p \in Paths /\ call.at \in Paths /\ Below(p) = {}  BY <1>1, BelowFile, Types
<1>3. /\ Shape(n) /\ HasParents(n, store)
      /\ Agrees(cache, steady, missing, elapsed) => Agrees(n, steady, missing, elapsed)
  BY <1>1, <1>2, Types, PutListingAgrees DEF CacheInv
<1>4. cache' = PutAbsent(n, p) /\ Return(p, FALSE) /\ UNCHANGED <<store, epoch, history>>
  BY DEF ClimbEnds
<1> HIDE DEF n
<1>5. /\ Shape(cache') /\ HasParents(cache', store)
      /\ Agrees(n, steady, missing, elapsed) => Agrees(cache', steady, missing, elapsed)
  BY <1>1, <1>2, <1>3, <1>4, Types, PutAbsentAgrees
<1> QED  BY <1>1, <1>2, <1>3, <1>4, <1>5, ReturnStep DEF CacheInv

\* A call ends, and leaves the cache as it is.
LEMMA EndStep ==
  ASSUME CacheInv, call' = Idle, answer' = answer,
         UNCHANGED <<store, cache, epoch, history>>
  PROVE  CacheInv'
<1>1. /\ store' = store /\ cache' = cache /\ verified' = verified /\ elapsed' = elapsed
      /\ steady' = steady /\ missing' = missing
  BY DEF epoch, history
<1>2. TypeOK'  BY <1>1, Tree DEF CacheInv, TypeOK, Idle, Ops
<1>3. CallInv'  BY <1>1 DEF CallInv, Idle, Judging, Copying
<1> QED  BY <1>1, <1>2, <1>3 DEF CacheInv, Fresh, Closed, Truthful

LEMMA ListingFailsStep ==
  ASSUME CacheInv, ListingFails
  PROVE  CacheInv'
<1>1. CASE call.op = "list" /\ call' = Idle /\ UNCHANGED <<cache, answer>>
  BY <1>1, EndStep DEF ListingFails
<1>2. CASE call.op = "climb" /\ cache' = PutAbsent(cache, call.path) /\ Return(call.path, FALSE)
  <2>1. call.path \in Files /\ call.path \notin steady  BY <1>2 DEF CacheInv, CallInv
  <2>2. call.path \in Paths /\ Below(call.path) = {}  BY <2>1, BelowFile
  <2>3. /\ Shape(cache') /\ HasParents(cache', store)
        /\ Agrees(cache, steady, missing, elapsed) => Agrees(cache', steady, missing, elapsed)
    BY <1>2, <2>1, <2>2, Types, PutAbsentAgrees DEF CacheInv
  <2> QED  BY <1>2, <2>1, <2>2, <2>3, ReturnStep DEF CacheInv, ListingFails
<1> QED  BY <1>1, <1>2 DEF ListingFails

\* What agrees goes on agreeing when less is known to be steady, and when the
\* storage gets more.
LEMMA LessSteady ==
  ASSUME NEW c, NEW sd, NEW ms, NEW e, NEW sd2, NEW ms2, sd2 \subseteq sd, ms2 \subseteq ms,
         Agrees(c, sd, ms, e)
  PROVE  Agrees(c, sd2, ms2, e)
BY DEF Agrees, AbsentAgrees, PresentAgrees, ListedAgrees

LEMMA ListDirStep ==
  ASSUME CacheInv, NEW d \in Directories, ListDir(d)
  PROVE  CacheInv'
<1>1. d \in Paths /\ d \in store  BY DEF ListDir, Directories
<1>2. /\ store' = store /\ verified' = verified /\ elapsed' = elapsed /\ call' = call
      /\ steady' = steady /\ missing' = missing /\ answer' = NoAnswer
      /\ cache' = PutListing(cache, d, Children(d) \cap store) /\ call = Idle
  BY DEF ListDir, epoch, history
<1>3. /\ Shape(cache') /\ HasParents(cache', store)
      /\ Agrees(cache, steady, missing, elapsed) => Agrees(cache', steady, missing, elapsed)
  BY <1>1, <1>2, Types, PutListingAgrees DEF CacheInv
<1>4. TypeOK'  BY <1>2, <1>3, Tree DEF CacheInv, TypeOK, Shape, NoAnswer
<1>5. CallInv'  BY <1>2 DEF CallInv, Idle, Judging, Copying
<1> QED  BY <1>2, <1>3, <1>4, <1>5 DEF CacheInv, Fresh, Closed

\* Files are taken off the storage, and off what is steady.
LEMMA DeleteFacts ==
  ASSUME CacheInv, NEW f \in Files, Delete(f)
  PROVE  /\ store' \subseteq Paths /\ Root \in store' /\ Closed(store)'
         /\ HasParents(cache, store') /\ steady' \subseteq store'
         /\ steady' \subseteq steady /\ f \notin steady' /\ f \notin store'
         /\ store' \subseteq store
         /\ \A p \in Paths : Above[p] \subseteq store => Above[p] \subseteq store'
<1>1. f \in Paths /\ f # Root  BY TreeAssumption
<1>2. \A p \in Paths : f \notin Above[p]  BY Tree
<1>3. store' = store \ {f} /\ steady' = steady \ {f}  BY DEF Delete
<1>4. store \subseteq Paths /\ Root \in store /\ steady \subseteq store  BY Types
<1>5. Closed(store)'  BY <1>2, <1>3, <1>4 DEF CacheInv, Closed
<1>6. HasParents(cache, store')  BY <1>2, <1>3 DEF CacheInv, HasParents
<1> QED  BY <1>1, <1>2, <1>3, <1>4, <1>5, <1>6

LEMMA RemoveNothingStep ==
  ASSUME CacheInv, NEW f \in Files, RemoveNothing(f)
  PROVE  CacheInv'
<1>1. f \in Paths /\ Below(f) = {}  BY BelowFile
<1>2. /\ store' = store /\ verified' = verified /\ elapsed' = elapsed /\ call' = call
      /\ steady' = steady \ {f} /\ missing' = missing \ {f} /\ answer' = NoAnswer
      /\ cache' = PutAbsent(cache, f) /\ call = Idle
  BY DEF RemoveNothing, Touch, epoch
<1>3. Agrees(cache, steady, missing, elapsed) => Agrees(cache, steady', missing', elapsed)
  BY <1>2, LessSteady
<1>4. /\ Shape(cache') /\ HasParents(cache', store)
      /\ Agrees(cache, steady', missing', elapsed) => Agrees(cache', steady', missing', elapsed)
  BY <1>1, <1>2, Types, PutAbsentAgrees DEF CacheInv
<1>5. TypeOK'  BY <1>2, <1>4, Tree DEF CacheInv, TypeOK, Shape, NoAnswer
<1>6. CallInv'  BY <1>2 DEF CallInv, Idle, Judging, Copying
<1> QED  BY <1>2, <1>3, <1>4, <1>5, <1>6 DEF CacheInv, Fresh, Closed

LEMMA StartRemoveStep ==
  ASSUME CacheInv, NEW f \in Files, StartRemove(f)
  PROVE  CacheInv'
<1>1. f \in Paths  BY BelowFile
<1>2. /\ store' = store /\ verified' = verified /\ elapsed' = elapsed /\ cache' = cache
      /\ steady' = steady \ {f} /\ missing' = missing \ {f} /\ answer' = NoAnswer
      /\ call' = [op |-> "remove", path |-> f, at |-> f]
  BY DEF StartRemove, Touch, epoch, Call
<1>3. Agrees(cache, steady, missing, elapsed) => Agrees(cache, steady', missing', elapsed)
  BY <1>2, LessSteady
<1>4. TypeOK'  BY <1>1, <1>2, Tree DEF CacheInv, TypeOK, NoAnswer, Ops
<1>5. CallInv'  BY <1>2 DEF CallInv, Judging, Copying
<1> QED  BY <1>2, <1>3, <1>4, <1>5 DEF CacheInv, Fresh, Closed

LEMMA RemoveDoneStep ==
  ASSUME CacheInv, RemoveDone
  PROVE  CacheInv'
<1> DEFINE f == call.path
<1>1. f \in Files /\ answer = NoAnswer  BY DEF RemoveDone, CacheInv, CallInv
<1>2. f \in Paths /\ Below(f) = {}  BY <1>1, BelowFile
<1>3. /\ Delete(f) /\ verified' = verified /\ elapsed' = elapsed /\ call' = Idle
      /\ missing' = missing \cup {f} /\ answer' = answer
      /\ cache' = PutAbsent(cache, f)
  BY DEF RemoveDone, epoch
<1>4. /\ store' \subseteq Paths /\ Root \in store' /\ Closed(store)'
      /\ HasParents(cache, store') /\ steady' \subseteq store'
      /\ steady' \subseteq steady /\ f \notin steady' /\ f \notin store'
      /\ store' \subseteq store
  BY <1>1, <1>3, DeleteFacts
<1>5. Agrees(cache, steady, missing, elapsed) => Agrees(cache, steady', missing, elapsed)
  BY <1>4, LessSteady
<1>6. /\ Shape(cache') /\ HasParents(cache', store')
      /\ Agrees(cache, steady', missing, elapsed) => Agrees(cache', steady', missing, elapsed)
  BY <1>2, <1>3, <1>4, Types, PutAbsentAgrees
<1>7. ~IsThere(cache', f)
  <2>1. cache'[f] = New("absent")  BY <1>2, <1>3, Types, PutAbsentValues
  <2> QED  BY <2>1, NewIsEntry DEF IsThere
<1>8. Agrees(cache', steady', missing, elapsed) => Agrees(cache', steady', missing', elapsed)
  BY <1>3, <1>7 DEF Agrees, PresentAgrees
<1>9. TypeOK'
  <2>1. missing' \subseteq Paths /\ missing' \cap store' = {}
    BY <1>2, <1>3, <1>4 DEF CacheInv, TypeOK
  <2> QED  BY <1>3, <1>4, <1>6, <2>1, Tree DEF CacheInv, TypeOK, Shape, Idle, Ops
<1>10. CallInv'  BY <1>3 DEF CallInv, Idle, Judging, Copying
<1>11. Fresh' => Agrees(cache, steady, missing, elapsed)'
  BY <1>3, <1>5, <1>6, <1>8 DEF CacheInv, Fresh
<1> QED  BY <1>1, <1>3, <1>4, <1>6, <1>9, <1>10, <1>11 DEF CacheInv

LEMMA RemoveFailsStep ==
  ASSUME CacheInv, RemoveFails
  PROVE  CacheInv'
<1> DEFINE f == call.path
<1>1. f \in Files /\ answer = NoAnswer  BY DEF RemoveFails, CacheInv, CallInv
<1>2. /\ verified' = verified /\ elapsed' = elapsed /\ call' = Idle /\ cache' = cache
      /\ missing' = missing /\ answer' = answer
  BY DEF RemoveFails, epoch
<1>3. /\ store' \subseteq Paths /\ Root \in store' /\ Closed(store)'
      /\ HasParents(cache, store') /\ steady' \subseteq store'
      /\ steady' \subseteq steady /\ store' \subseteq store
  <2>1. CASE Delete(f)  BY <1>1, <2>1, DeleteFacts
  <2>2. CASE UNCHANGED <<store, steady>>  BY <2>2, Types DEF CacheInv, Closed
  <2> QED  BY <2>1, <2>2 DEF RemoveFails
<1>4. Agrees(cache, steady, missing, elapsed) => Agrees(cache, steady', missing, elapsed)
  BY <1>3, LessSteady
<1>5. TypeOK'  BY <1>2, <1>3, Tree DEF CacheInv, TypeOK, Idle, Ops
<1>6. CallInv'  BY <1>2 DEF CallInv, Idle, Judging, Copying
<1> QED  BY <1>1, <1>2, <1>3, <1>4, <1>5, <1>6 DEF CacheInv, Fresh

LEMMA StartCopyStep ==
  ASSUME CacheInv, NEW f \in Files, StartCopy(f)
  PROVE  CacheInv'
<1>1. f \in Paths /\ Below(f) = {}  BY BelowFile
<1>2. /\ store' = store /\ verified' = verified /\ elapsed' = elapsed
      /\ steady' = steady \ {f} /\ missing' = missing \ {f} /\ answer' = NoAnswer
      /\ cache' = PutAbsent(cache, f) /\ call' = [op |-> "copy", path |-> f, at |-> f]
  BY DEF StartCopy, Touch, epoch, Call
<1>3. Agrees(cache, steady, missing, elapsed) => Agrees(cache, steady', missing', elapsed)
  BY <1>2, LessSteady
<1>4. /\ Shape(cache') /\ HasParents(cache', store)
      /\ Agrees(cache, steady', missing', elapsed) => Agrees(cache', steady', missing', elapsed)
  BY <1>1, <1>2, Types, PutAbsentAgrees DEF CacheInv
<1>5. TypeOK'  BY <1>1, <1>2, <1>4, Tree DEF CacheInv, TypeOK, Shape, NoAnswer, Ops
<1>6. CallInv'  BY <1>2 DEF CallInv, Judging, Copying
<1> QED  BY <1>2, <1>3, <1>4, <1>5, <1>6 DEF CacheInv, Fresh, Closed

\* Files are put on the storage, with their directories.
LEMMA WriteFacts ==
  ASSUME CacheInv, NEW f \in Files, Write(f)
  PROVE  /\ store' \subseteq Paths /\ store \subseteq store' /\ Closed(store)'
         /\ HasParents(cache, store') /\ Above[f] \subseteq store'
         /\ missing' \cap store' = {} /\ missing' \subseteq missing
<1>1. f \in Paths /\ Above[f] \subseteq Paths  BY Tree
<1>2. store' = store \cup {f} \cup Above[f] /\ missing' = missing \ store'  BY DEF Write
<1>3. Closed(store)'
  <2> SUFFICES ASSUME NEW p \in store' PROVE Above[p] \subseteq store'  BY DEF Closed
  <2>1. CASE p \in store  BY <1>2, <2>1 DEF CacheInv, Closed
  <2>2. CASE p = f  BY <1>2, <2>2
  <2>3. CASE p \in Above[f]
    <3>1. Above[p] \subseteq Above[f]  BY <1>1, <2>3, Tree
    <3> QED  BY <1>2, <3>1
  <2> QED  BY <1>2, <2>1, <2>2, <2>3
<1>4. HasParents(cache, store')  BY <1>2 DEF CacheInv, HasParents
<1> QED  BY <1>1, <1>2, <1>3, <1>4, Types

LEMMA PublishStep ==
  ASSUME CacheInv, Publish
  PROVE  CacheInv'
<1> DEFINE f == call.path
<1>1. f \in Files /\ answer = NoAnswer /\ f \notin steady /\ f \notin missing
  BY DEF Publish, CacheInv, CallInv, Copying
<1>2. f \in Paths  BY <1>1, BelowFile
<1>3. /\ verified' = verified /\ elapsed' = elapsed /\ cache' = cache /\ answer' = answer
      /\ steady' = steady /\ call' = [op |-> "copied", path |-> f, at |-> f] /\ Write(f)
  BY DEF Publish, epoch, Call
<1>4. /\ store' \subseteq Paths /\ store \subseteq store' /\ Closed(store)'
      /\ HasParents(cache, store') /\ Above[f] \subseteq store'
      /\ missing' \cap store' = {} /\ missing' \subseteq missing
  BY <1>1, <1>3, WriteFacts
<1> HIDE DEF f
<1>5. Agrees(cache, steady, missing, elapsed) => Agrees(cache, steady, missing', elapsed)
  BY <1>4, LessSteady
<1>6. TypeOK'
  <2>1. steady' \subseteq store' /\ missing' \subseteq Paths /\ Root \in store'
    BY <1>3, <1>4 DEF CacheInv, TypeOK
  <2> QED  BY <1>2, <1>3, <1>4, <2>1 DEF CacheInv, TypeOK, Ops
<1>7. CallInv'  BY <1>1, <1>3, <1>4 DEF CallInv, Judging, Copying
<1> QED  BY <1>1, <1>3, <1>4, <1>5, <1>6, <1>7 DEF CacheInv, Fresh

LEMMA CopyDoneStep ==
  ASSUME CacheInv, CopyDone
  PROVE  CacheInv'
<1> DEFINE f == call.path
           n == PutPresent(cache, f)
<1>1. /\ f \in Files /\ answer = NoAnswer /\ f \notin missing
      /\ Above[f] \subseteq store
  BY DEF CopyDone, CacheInv, CallInv, Copying
<1>2. /\ store' = store /\ verified' = verified /\ elapsed' = elapsed /\ call' = Idle
      /\ missing' = missing /\ answer' = answer /\ cache' = n
      /\ steady' = steady \cup ({f} \cap store)
  BY DEF CopyDone, epoch
<1>3. /\ Shape(n) /\ HasParents(n, store)
      /\ Agrees(cache, steady, missing, elapsed) => Agrees(n, steady \cup {f}, missing, elapsed)
  BY <1>1, Types, PutPresentAgrees DEF CacheInv
<1> HIDE DEF n
<1>4. Agrees(n, steady \cup {f}, missing, elapsed) => Agrees(n, steady', missing, elapsed)
  BY <1>2, LessSteady
<1>5. TypeOK'
  <2>1. steady' \subseteq store'  BY <1>2, Types
  <2> QED  BY <1>2, <1>3, <2>1, Tree DEF CacheInv, TypeOK, Shape, Idle, Ops
<1>6. CallInv'  BY <1>2 DEF CallInv, Idle, Judging, Copying
<1> QED  BY <1>1, <1>2, <1>3, <1>4, <1>5, <1>6 DEF CacheInv, Fresh, Closed

LEMMA StatusQueryStep ==
  ASSUME CacheInv, StatusQuery
  PROVE  CacheInv'
<1>1. /\ store' = store /\ verified' = FALSE /\ elapsed' = elapsed /\ call' = call
      /\ steady' = store /\ missing' = Paths \ store /\ answer' = NoAnswer
      /\ cache' = cache /\ call = Idle
  BY DEF StatusQuery
<1>2. TypeOK'  BY <1>1, Tree DEF CacheInv, TypeOK, NoAnswer
<1>3. CallInv'  BY <1>1 DEF CallInv, Idle, Judging, Copying
<1> QED  BY <1>1, <1>2, <1>3 DEF CacheInv, Fresh, Closed

LEMMA CheckStep ==
  ASSUME CacheInv, CheckJobCompleteness
  PROVE  CacheInv'
<1>1. /\ store' = store /\ verified' = TRUE /\ elapsed' = 0 /\ call' = call
      /\ steady' = steady /\ missing' = missing /\ answer' = NoAnswer
      /\ cache' = [p \in Paths |-> Unknown] /\ call = Idle
  BY DEF CheckJobCompleteness, history
<1>2. TypeOK'  BY <1>1, ValidityAssumption, Tree DEF CacheInv, TypeOK, NoAnswer
<1>3. CallInv'  BY <1>1 DEF CallInv, Idle, Judging, Copying
<1>4. \A p \in Paths : cache'[p] = Unknown  BY <1>1
<1>5. HasParents(cache', store)  BY <1>4, UnknownIsNeither DEF HasParents, IsThere
<1>6. Agrees(cache', steady, missing, 0)
  BY <1>4, UnknownIsNeither
  DEF Agrees, AbsentAgrees, PresentAgrees, ListedAgrees, Lasts, IsThere, IsAbsent, WasListed
<1> QED  BY <1>1, <1>2, <1>3, <1>5, <1>6 DEF CacheInv, Closed

LEMMA OtherWritesStep ==
  ASSUME CacheInv, NEW f \in Files, OtherWrites(f)
  PROVE  CacheInv'
<1>1. /\ verified' = verified /\ elapsed' = elapsed /\ cache' = cache /\ answer' = answer
      /\ steady' = steady /\ call' = call /\ Write(f)
  BY DEF OtherWrites, epoch
<1>2. /\ store' \subseteq Paths /\ store \subseteq store' /\ Closed(store)'
      /\ HasParents(cache, store')
      /\ missing' \cap store' = {} /\ missing' \subseteq missing
  BY <1>1, WriteFacts
<1>3. Agrees(cache, steady, missing, elapsed) => Agrees(cache, steady, missing', elapsed)
  BY <1>2, LessSteady
<1>4. TypeOK'
  <2>1. steady' \subseteq store' /\ missing' \subseteq Paths /\ Root \in store'
    BY <1>1, <1>2 DEF CacheInv, TypeOK
  <2> QED  BY <1>1, <1>2, <2>1 DEF CacheInv, TypeOK
<1>5. CallInv'  BY <1>1, <1>2 DEF CacheInv, CallInv
<1>6. Truthful => Truthful'  BY <1>1, <1>2 DEF Truthful
<1> QED  BY <1>1, <1>2, <1>3, <1>4, <1>5, <1>6 DEF CacheInv, Fresh

LEMMA OtherRemovesStep ==
  ASSUME CacheInv, NEW f \in Files, OtherRemoves(f)
  PROVE  CacheInv'
<1>1. /\ verified' = verified /\ elapsed' = elapsed /\ cache' = cache /\ answer' = answer
      /\ missing' = missing /\ call' = call /\ Delete(f)
  BY DEF OtherRemoves, epoch
<1>2. /\ store' \subseteq Paths /\ Root \in store' /\ Closed(store)'
      /\ HasParents(cache, store') /\ steady' \subseteq store'
      /\ steady' \subseteq steady /\ store' \subseteq store
      /\ \A p \in Paths : Above[p] \subseteq store => Above[p] \subseteq store'
  BY <1>1, DeleteFacts
<1>3. Agrees(cache, steady, missing, elapsed) => Agrees(cache, steady', missing, elapsed)
  BY <1>2, LessSteady
<1>4. TypeOK'  BY <1>1, <1>2 DEF CacheInv, TypeOK
<1>5. CallInv'  BY <1>1, <1>2, Types DEF CacheInv, CallInv
<1>6. Truthful => Truthful'  BY <1>1, <1>2 DEF Truthful
<1> QED  BY <1>1, <1>2, <1>3, <1>4, <1>5, <1>6 DEF CacheInv, Fresh

LEMMA TickStep ==
  ASSUME CacheInv, Tick
  PROVE  CacheInv'
<1>1. /\ verified' = verified /\ answer' = answer /\ store' = store
      /\ missing' = missing /\ steady' = steady /\ call' = call
      /\ elapsed' = IF elapsed > Validity THEN elapsed ELSE elapsed + 1
  BY DEF Tick, history
<1>2. ASSUME NEW p \in Paths
      PROVE  /\ cache[p].left = 0 => cache'[p] = Unknown
             /\ cache[p].left # 0 => /\ cache'[p].is = cache[p].is
                                    /\ cache'[p].left = cache[p].left - 1
                                    /\ cache'[p] = [is |-> cache[p].is, left |-> cache[p].left - 1]
  <2> DEFINE old == cache[p]
             aged == [is |-> old.is, left |-> old.left - 1]
  <2>1. cache'[p] = IF old.left = 0 THEN Unknown ELSE aged  BY Zenon DEF Tick
  <2>2. aged.is = old.is /\ aged.left = old.left - 1  OBVIOUS
  <2> HIDE DEF aged
  <2>3. CASE old.left = 0  BY <2>1, <2>3
  <2>4. CASE old.left # 0
    <3>1. cache'[p] = aged  BY <2>1, <2>4
    <3> QED  BY <2>2, <2>4, <3>1 DEF aged
  <2> QED  BY <2>3, <2>4
<1>3. Shape(cache')
  <2> SUFFICES ASSUME NEW p \in Paths PROVE cache'[p] \in Entry \cup {Unknown}
    BY DEF Tick, Shape
  <2>1. cache[p] \in Entry \cup {Unknown}  BY Types DEF Shape
  <2>2. CASE cache[p].left = 0  BY <1>2, <2>2
  <2>3. CASE cache[p].left # 0
    <3>1. cache[p].is \in {"absent", "present", "listed"} /\ cache[p].left \in 1..Validity
      BY <2>1, <2>3, ValidityAssumption DEF Entry, Unknown
    <3>2. cache[p].left - 1 \in 0..Validity  BY <3>1, ValidityAssumption
    <3>3. [is |-> cache[p].is, left |-> cache[p].left - 1] \in Entry
      BY <3>1, <3>2 DEF Entry
    <3>4. cache'[p] = [is |-> cache[p].is, left |-> cache[p].left - 1]  BY <1>2, <2>3
    <3> QED  BY <3>3, <3>4, Zenon
  <2> QED  BY <2>2, <2>3
\* An entry runs out or says the same.
<1>4. \A p \in Paths : cache'[p] = Unknown \/ cache'[p].is = cache[p].is
  BY <1>2
<1>5. HasParents(cache', store)
  BY <1>4, UnknownIsNeither, Tree DEF CacheInv, HasParents, IsThere, IsAbsent
<1>6. elapsed \in 0..(Validity + 1) /\ elapsed' \in 0..(Validity + 1)
  BY <1>1, ValidityAssumption DEF CacheInv, TypeOK
<1>7. TypeOK'  BY <1>1, <1>3, <1>6 DEF CacheInv, TypeOK, Shape
<1>8. ASSUME Fresh' PROVE Fresh /\ Agrees(cache, steady, missing, elapsed)'
  <2>1. Fresh /\ elapsed < Validity /\ elapsed' = elapsed + 1
    BY <1>1, <1>6, <1>8, ValidityAssumption DEF Fresh
  <2>2. Agrees(cache, steady, missing, elapsed)  BY <2>1 DEF CacheInv
  \* So none of the entries runs out.
  <2>3. \A p \in Paths : IF cache[p] = Unknown THEN cache'[p] = Unknown
                         ELSE /\ cache'[p].is = cache[p].is
                              /\ cache'[p].left = cache[p].left - 1
    <3> TAKE p \in Paths
    <3>1. CASE cache[p] = Unknown
      <4>1. cache[p].left = 0  BY <3>1 DEF Unknown
      <4> QED  BY <1>2, <3>1, <4>1
    <3>2. CASE cache[p] # Unknown
      <4>1. cache[p].left + elapsed >= Validity /\ cache[p].left \in 0..Validity
        BY <2>2, <3>2, Types, UnknownIsNeither DEF Agrees, Lasts, Shape
      <4>2. cache[p].left # 0  BY <2>1, <4>1, <1>6, ValidityAssumption
      <4> QED  BY <1>2, <3>2, <4>2
    <3> QED  BY <3>1, <3>2
  <2>4. \A p \in Paths : cache'[p].is = cache[p].is  BY <2>3
  <2>5. Lasts(cache', elapsed')
    <3> SUFFICES ASSUME NEW p \in Paths, cache'[p] # Unknown
                 PROVE  cache'[p].left + elapsed' >= Validity
      BY DEF Lasts
    <3>1. cache[p] # Unknown  BY <2>3
    <3>2. cache[p].left + elapsed >= Validity /\ cache[p].left \in 0..Validity
      BY <2>2, <3>1, Types, UnknownIsNeither DEF Agrees, Lasts, Shape
    <3>3. cache'[p].left = cache[p].left - 1  BY <2>3, <3>1
    <3> QED  BY <1>6, <2>1, <3>2, <3>3, ValidityAssumption
  <2>6. AbsentAgrees(cache', steady)  BY <2>2, <2>4 DEF Agrees, AbsentAgrees, IsAbsent
  <2>7. PresentAgrees(cache', missing)  BY <2>2, <2>4 DEF Agrees, PresentAgrees, IsThere
  <2>8. ListedAgrees(cache', steady)
    BY <2>2, <2>4 DEF Agrees, ListedAgrees, IsThere, WasListed, Children
  <2> QED  BY <1>1, <2>1, <2>5, <2>6, <2>7, <2>8 DEF Agrees
<1>9. CallInv'  BY <1>1 DEF CacheInv, CallInv
<1>10. Truthful' <=> Truthful  BY <1>1 DEF Truthful
<1> QED  BY <1>1, <1>5, <1>7, <1>8, <1>9, <1>10 DEF CacheInv, Closed

LEMMA CacheStep == CacheInv /\ [Next]_vars => CacheInv'
<1> SUFFICES ASSUME CacheInv, [Next]_vars PROVE CacheInv'  OBVIOUS
<1>1. CASE Exists
  <2>1. CASE Answering
    BY <2>1, ListedStep, DirectoryAbsentStep, ClimbEndsStep, ListingFailsStep DEF Answering
  <2>2. CASE \E f \in Files : FromCache(f) \/ AskStorage(f)
    BY <2>2, FromCacheStep, AskStorageStep
  <2> QED  BY <1>1, <2>1, <2>2 DEF Exists
<1>2. CASE \E d \in Directories : ListDir(d)  BY <1>2, ListDirStep
<1>3. CASE Removal
  BY <1>3, RemoveNothingStep, StartRemoveStep, RemoveDoneStep, RemoveFailsStep DEF Removal
<1>4. CASE FileCopy
  <2>1. CASE CopyFails  BY <2>1, EndStep DEF CopyFails
  <2> QED  BY <1>4, <2>1, StartCopyStep, PublishStep, CopyDoneStep DEF FileCopy
<1>5. CASE StatusQuery  BY <1>5, StatusQueryStep
<1>6. CASE CheckJobCompleteness  BY <1>6, CheckStep
<1>7. CASE Others  BY <1>7, OtherWritesStep, OtherRemovesStep DEF Others
<1>8. CASE Tick  BY <1>8, TickStep
<1>9. CASE UNCHANGED vars
  BY <1>9 DEF vars, epoch, history, CacheInv, TypeOK, Closed, HasParents, CallInv, Fresh, Agrees,
              AbsentAgrees, PresentAgrees, ListedAgrees, Lasts, IsThere, IsAbsent, WasListed, Truthful
<1> QED  BY <1>1, <1>2, <1>3, <1>4, <1>5, <1>6, <1>7, <1>8, <1>9 DEF Next

-----------------------------------------------------------------------------
THEOREM CacheAgrees == Spec => []CacheInv
BY CacheInit, CacheStep, PTL DEF Spec

\* The types of the cache, the calls and the clocks.
THEOREM CacheTypes == Spec => []TypeOK
<1>1. CacheInv => TypeOK  BY DEF CacheInv
<1> QED  BY <1>1, CacheAgrees, PTL

\* Within the validity of an entry no verdict is older than the status it judges: what was there all
\* along is not found missing, what was not is not found.
THEOREM VerdictsAreCurrent == Spec => []VerdictIsCurrent
<1>1. CacheInv => VerdictIsCurrent  BY DEF CacheInv, VerdictIsCurrent, Fresh
<1> QED  BY <1>1, CacheAgrees, PTL

\* No directory reads as absent above a path that reads as present.
THEOREM NoAbsentParents == Spec => []NoAbsentParent
<1>1. CacheInv => NoAbsentParent
  BY DEF CacheInv, HasParents, NoAbsentParent, IsThere, IsAbsent
<1> QED  BY <1>1, CacheAgrees, PTL
=============================================================================
