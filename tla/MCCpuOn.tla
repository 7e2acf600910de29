------------------------------ MODULE MCCpuOn ------------------------------
(***************************************************************************)
(* Node 0 with vCPUs 0, 1 and 2, node 1 with vCPU 3.  vCPU 0 can start 1   *)
(* and 3; then vCPU 2 can be woken at the same time by 1 and, through a    *)
(* message, by 3, or by 0 and one of them.  Each caller passes an entry    *)
(* point of its own.                                                       *)
(***************************************************************************)
EXTENDS CpuOn

McVcpus == 0..3
McNodeOf == [v \in McVcpus |-> IF v < 3 THEN 0 ELSE 1]
McCalls == [v \in McVcpus |-> IF v = 0 THEN 2 ELSE IF v = 2 THEN 0 ELSE 1]
McEntries == [v \in McVcpus |-> {IF v = 0 THEN "ep0" ELSE IF v = 1 THEN "ep1" ELSE "ep3"}]
=============================================================================
