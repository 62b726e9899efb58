---------------------------- MODULE MCSolidQueue ----------------------------
(* Small instances of SolidQueue: the first job may be tried twice and, in *)
(* one ranking, the last one is urgent.                                    *)
EXTENDS SolidQueue

CONSTANTS r1, r2

TwoThenOne  == [j \in Job |-> IF j = 1 THEN 2 ELSE 1]
LastUrgent  == [j \in Job |-> IF j = 1 THEN 0 ELSE 1]

=============================================================================
