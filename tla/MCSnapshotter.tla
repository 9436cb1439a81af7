---------------------------- MODULE MCSnapshotter ----------------------------
(***************************************************************************)
(* The snapshotter of one sidecar for TLC, with the restorer applied to    *)
(* every store it can leave behind.                                        *)
(***************************************************************************)
EXTENDS Snapshotter, RestoreChain

HasBackup == Fulls(store) # {}

\* Whatever the snapshotter leaves in the store can be restored: the restorer
\* says that it takes care of a full snapshot ahead of its name.
Restorable == HasBackup => Restore(store) # Failed
=============================================================================
