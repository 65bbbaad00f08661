-------------------------- MODULE MCSnapshotStore --------------------------
(* SnapshotStore with three snapshots, two of them of the same device, and *)
(* one ordinary snapshot kept for each device.                             *)
EXTENDS SnapshotStore, TLC

CONSTANTS w1, w2, s1, s2, s3, d1, d2

TwoWriters == {w1, w2}
MCIds == {s1, s2, s3}
MCDevices == {d1, d2}
MCDeviceOf == [s \in MCIds |-> IF s = s3 THEN d2 ELSE d1]

\* The two snapshots of d1 and the two writers can be exchanged.
Symmetry == Permutations(TwoWriters) \union Permutations({s1, s2})
=============================================================================
