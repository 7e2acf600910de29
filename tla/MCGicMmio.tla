----------------------------- MODULE MCGicMmio -----------------------------
(***************************************************************************)
(* Two nodes, the first with two vCPUs, for GicMmio.                       *)
(***************************************************************************)
EXTENDS GicMmio

McVcpusOf == <<{0, 1}, {2}>>

Rd(frame, v, bank, reg) == [frame |-> frame, vcpu |-> v, bank |-> bank, reg |-> reg,
                            wr |-> FALSE, word |-> TRUE, val |-> None]
Wr(frame, v, bank, reg, a, b) == [frame |-> frame, vcpu |-> v, bank |-> bank, reg |-> reg,
                                  wr |-> TRUE, word |-> TRUE, val |-> (0 :> a) @@ (1 :> b)]

\* ITARGETSR is written by vCPU 0 alone; a redistributor's timer enable by its
\* own vCPU
McAccesses ==
  (0 :> {Wr("gicr", 0, 0, "isenable", 0, 1), Wr("gicr", 0, 0, "icenable", 1, 1),
         Rd("gicr", 2, 0, "isenable"), Wr("gicr", 2, 0, "icfg", 0, 1), Rd("gicr", 2, 0, "typer"),
         Wr("gicd", 0, 1, "isenable", 1, 0), Wr("gicd", 0, 1, "icenable", 1, 1),
         Wr("gicd", 0, 1, "itargets", 4, 2), Wr("gicd", 0, 1, "itargets", 2, 0),
         Wr("gicd", 0, 1, "irouter", IRM, 0)}) @@
  (1 :> {Wr("gicr", 1, 0, "isenable", 0, 1), Rd("gicr", 0, 0, "icenable"),
         Wr("gicd", 1, 1, "isenable", 1, 1), Wr("gicr", 2, 0, "iidr", 1, 1),
         Rd("gicd", 1, 1, "irouter"), Rd("gicd", 1, 0, "irouter"), Rd("gicd", 1, 1, "isactive")}) @@
  (2 :> {Wr("gicr", 0, 0, "ipriority", 3, 4), Rd("gicr", 2, 0, "icfg"),
         Wr("gicr", 2, 0, "icenable", 1, 1), Wr("gicd", 2, 1, "ctlr", 1, 0),
         Rd("gicd", 2, 1, "itargets"), Rd("gicd", 2, 1, "ispend"),
         Wr("gits", 2, 0, "ctlr", 1, 1)})

\* the guest of this instance is one the theorems are about
ASSUME McGuest == OneTargeter /\ OwnEnables
============================================================================
