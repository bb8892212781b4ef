---------------------------- MODULE MCRetrainQueue ----------------------------
(***************************************************************************)
(* Small fleets for RetrainQueue.                                          *)
(***************************************************************************)
EXTENDS RetrainQueue, TLC

(* A scan that finds every key alive and owned. *)
AllAlive == {[proven |-> TRUE, alive |-> Key, ready |-> Key]}

(***************************************************************************)
(* Scans of a key that comes and goes: alive and owned, absent from a scan *)
(* too old to prove anything (which, for the queue, is like a key that is  *)
(* alive and owned by a peer), or proved dead.                             *)
(***************************************************************************)
AliveOrDead == {[proven |-> TRUE, alive |-> Key, ready |-> Key],
                [proven |-> FALSE, alive |-> {}, ready |-> {}],
                [proven |-> TRUE, alive |-> {}, ready |-> {}]}

AllCalls == Call
AllButClaim == Call \ {"claim"}
AllButRelease == Call \ {"release"}

Symmetry == Permutations(Worker) \cup Permutations(Key)
=============================================================================
