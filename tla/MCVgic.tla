------------------------------- MODULE MCVgic -------------------------------
(***************************************************************************)
(* Cpu 0 takes messages, cpus 1 and 2 send SGIs: cpus 0 and 2 have two     *)
(* senders each, one of them the other; vCPU 3 is of another node.         *)
(***************************************************************************)
EXTENDS Vgic

McCpus == 0..2
McMaxSgis == [c \in McCpus |-> IF c = NicCpu THEN 0 ELSE 1]
McTargets == [c \in McCpus |-> IF c = 2 THEN {{0, 3}} ELSE {{0, 2}}]
=============================================================================
