------------------------------ MODULE MCArchive ------------------------------
(* Constants of the ArchiveSweep runs. *)
EXTENDS ArchiveSweep, TLC

CONSTANTS c1, c2, t1, m1, m2

ProcsAlike == Permutations(Procs)

OneTenant == [c \in Convs |-> t1]
OneConv == [m \in Msgs |-> c1]
ConvEach == [m \in Msgs |-> IF m = m1 THEN c1 ELSE c2]
=============================================================================
