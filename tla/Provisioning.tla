---------------------------- MODULE Provisioning ----------------------------
(***************************************************************************)
(* What the migrations promise of a database, with no processes, no lock   *)
(* and no failures: files take effect one at a time and in version order,  *)
(* each together with its ledger entry, and nothing is ever undone.        *)
(***************************************************************************)
EXTENDS Integers

CONSTANT Files    \* how many migration files there are: versions 1 .. Files

File == 1 .. Files

VARIABLES
  applied,       \* versions the ledger lists
  provisioned    \* files whose table has the shape the worker reads

Init ==
  /\ applied \in SUBSET File
  /\ provisioned \in SUBSET File
  /\ applied \subseteq provisioned
  /\ \A f \in applied, g \in File : g < f => g \in applied

(* A table provisioned before the ledger existed is adopted as it is. *)
Apply(f) ==
  /\ f \notin applied
  /\ \A g \in File : g < f => g \in applied
  /\ applied' = applied \cup {f}
  /\ provisioned' = provisioned \cup {f}

Next == \E f \in File : Apply(f)

Spec == Init /\ [][Next]_<<applied, provisioned>>
=============================================================================
