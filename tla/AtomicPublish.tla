--------------------------- MODULE AtomicPublish ---------------------------
(***************************************************************************)
(* What publishing a product on the storage element promises: the target   *)
(* name is a register holding nothing or one writer's complete file.  A    *)
(* call replaces the register in one step or leaves it alone, nothing      *)
(* withdraws a published file, and only a call that replaced it reports    *)
(* success.  A call that reports an error, or dies, promises nothing.      *)
(***************************************************************************)
CONSTANTS Writers,   \* the jobs publishing the same target
          Nobody,    \* the register while nothing is published
          Earlier    \* the author of a file published before these calls

VARIABLES register,  \* whose complete file carries the target name
          call       \* how far each writer's call is

avars == <<register, call>>

AInit ==
  /\ register \in {Nobody, Earlier}
  /\ call = [w \in Writers |-> "idle"]

Step(w, from, to) ==
  /\ call[w] \in from
  /\ \E s \in to : call' = [call EXCEPT ![w] = s]

Call(w) == Step(w, {"idle"}, {"busy"}) /\ UNCHANGED register

Commit(w) == Step(w, {"busy"}, {"committed"}) /\ register' = w

\* The replacement happened, the caller was told it did not.
CommitUnacknowledged(w) == Step(w, {"busy"}, {"busy", "error"}) /\ register' = w

\* The replacement is confirmed, or the confirmation itself fails and the
\* call starts over or gives up.
Confirm(w) == Step(w, {"committed"}, {"ok", "busy", "error"}) /\ UNCHANGED register

GiveUp(w) == Step(w, {"busy"}, {"error"}) /\ UNCHANGED register

Die(w) == Step(w, {"idle", "busy", "committed"}, {"dead"}) /\ UNCHANGED register

ANext == \E w \in Writers :
  Call(w) \/ Commit(w) \/ CommitUnacknowledged(w) \/ Confirm(w) \/ GiveUp(w) \/ Die(w)

ASpec == AInit /\ [][ANext]_avars
=============================================================================
