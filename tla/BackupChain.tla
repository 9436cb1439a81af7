----------------------------- MODULE BackupChain -----------------------------
(***************************************************************************)
(* What a backup promises, without saying how: etcd's revision grows, and  *)
(* the revision up to which it can be restored follows it and never falls  *)
(* back.                                                                   *)
(***************************************************************************)
EXTENDS Integers

VARIABLES rev, covered

Init == rev = 1 /\ covered = 0

Write == rev' = rev + 1 /\ UNCHANGED covered

BackUp == covered' \in covered + 1 .. rev /\ UNCHANGED rev

Spec == Init /\ [][Write \/ BackUp]_<<rev, covered>>
=============================================================================
