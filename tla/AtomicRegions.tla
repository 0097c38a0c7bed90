---------------------------- MODULE AtomicRegions ----------------------------
(***************************************************************************)
(* What kernel/src/region_storage.hpp promises of a region store, with no  *)
(* files, no journal and no crash in sight: a world of regions that only   *)
(* ever changes by one whole request.  A request names the regions it      *)
(* replaces; it is either applied to all of them at once or dropped.       *)
(***************************************************************************)
CONSTANTS
  Keys,      \* region keys
  Values,    \* what a region record can hold
  Absent,    \* a region that was never stored, or one a request does not name
  Torn       \* a record whose checksum does not match

VARIABLES
  world,     \* the value of every region, as a reader finds it after recovery
  asked      \* the request in progress that has not taken effect, or Absent

vars == <<world, asked>>

Batches == [Keys -> Values \union {Absent}]

Named(batch) == {k \in Keys : batch[k] # Absent}

Transactions == {b \in Batches : Named(b) # {}}

Overlay(batch, over) ==
  [k \in Keys |-> IF k \in Named(batch) THEN batch[k] ELSE over[k]]

TypeOK ==
  /\ world \in [Keys -> Values \union {Absent, Torn}]
  /\ asked \in Transactions \union {Absent}

Init ==
  /\ world \in [Keys -> Values \union {Absent, Torn}]
  /\ asked = Absent

Ask(batch) ==
  /\ asked = Absent
  /\ asked' = batch
  /\ UNCHANGED world

Apply ==
  /\ asked # Absent
  /\ world' = Overlay(asked, world)
  /\ asked' = Absent

\* Refused, failed before its commit point, or lost in a crash.
Drop ==
  /\ asked # Absent
  /\ asked' = Absent
  /\ UNCHANGED world

Next == (\E batch \in Transactions : Ask(batch)) \/ Apply \/ Drop

Spec == Init /\ [][Next]_vars
=============================================================================
