------------------------------ MODULE MCMemory ------------------------------
(***************************************************************************)
(* Two machines for Memory: the qemu virt board and a Raspberry Pi 4, each *)
(* with its nodes in several orders.  A table has eight entries, so 2 MiB  *)
(* are eight pages.  Register addresses count half pages.                  *)
(***************************************************************************)
EXTENDS Memory

Node(name, body) == <<[tag |-> "begin", name |-> name]>> \o FlattenSeq(body) \o <<[tag |-> "end"]>>
P(name, data)    == <<[tag |-> "prop", name |-> name, data |-> data]>>
Nop              == <<[tag |-> "nop"]>>
CellsP(na, ns)   == P("#address-cells", <<na>>) \o P("#size-cells", <<ns>>)

McBlocks == [small |-> 12, large |-> 6]

VirtNodes == <<
  Node(<<"psci">>, <<P("compatible", <<"arm,psci-0.2">>), P("method", <<"hvc">>),
                     P("cpu_on", <<3>>), P("cpu_off", <<4>>)>>),
  Node(<<"memory", "@64">>, <<P("reg", <<0, 64, 0, 64>>), P("device_type", <<"memory">>)>>),
  Node(<<"virtio_mmio", "@41">>, <<Nop, P("interrupts", <<0, 17, 1>>), P("reg", <<0, 83, 0, 1>>),
                                   P("compatible", <<"virtio,mmio">>)>>),
  Node(<<"intc", "@16">>, <<P("interrupt-controller", << >>), P("compatible", <<"arm,gic-v3">>),
                            P("reg", <<0, 32, 0, 2, 0, 36, 0, 4>>)>>),
  Node(<<"pl011", "@40">>, <<P("interrupts", <<0, 1, 4>>), P("reg", <<0, 80, 0, 2>>),
                             P("compatible", <<"arm,pl011", "arm,primecell">>)>>),
  Node(<<"cpus">>, <<CellsP(1, 0),
    Node(<<"cpu", "@0">>, <<P("device_type", <<"cpu">>), P("reg", <<0>>),
                            P("enable-method", <<"psci">>)>>),
    Node(<<"cpu", "@1">>, <<P("device_type", <<"cpu">>), P("reg", <<1>>),
                            P("enable-method", <<"psci">>)>>)>>)>>

PiNodes == <<
  Node(<<"aliases">>, <<P("gpio", <<<<"soc">>, <<"gpio", "@24">>>>),
                        P("mailbox", <<<<"soc">>, <<"mailbox", "@26">>>>)>>),
  Node(<<"memory", "@0">>, <<P("device_type", <<"memory">>), P("reg", <<0, 0, 48, 0, 64, 8>>)>>),
  Node(<<"soc">>, <<CellsP(1, 1), P("ranges", <<0, 0, 120, 20, 40, 0, 140, 60>>),
    Node(<<"gpio", "@24">>, <<P("compatible", <<"brcm,bcm2711-gpio">>), P("reg", <<44, 1>>)>>),
    Node(<<"mailbox", "@26">>, <<P("compatible", <<"brcm,bcm2835-mbox">>), P("reg", <<47, 1>>)>>),
    Node(<<"interrupt-controller", "@30">>, <<P("compatible", <<"arm,gic-400">>),
      P("interrupt-controller", << >>), P("reg", <<50, 2, 52, 4, 56, 4, 60, 4>>)>>),
    Node(<<"serial", "@36">>, <<P("compatible", <<"arm,pl011", "arm,primecell">>),
      P("status", <<"disabled">>), P("reg", <<72, 1>>), P("interrupts", <<0, 57, 4>>)>>),
    Node(<<"serial", "@37">>, <<P("compatible", <<"arm,pl011", "arm,primecell">>),
      P("status", <<"okay">>), P("reg", <<74, 1>>), P("interrupts", <<0, 57, 4>>)>>)>>),
  Node(<<"scb">>, <<CellsP(2, 1), P("ranges", <<0, 10, 0, 200, 20>>),
    Node(<<"ethernet", "@5">>, <<CellsP(1, 1), P("compatible", <<"brcm,bcm2711-genet-v5">>),
      P("reg", <<0, 10, 4>>), P("interrupts", <<0, 29, 4, 0, 30, 4>>),
      Node(<<"mdio", "@1">>, <<P("compatible", <<"brcm,genet-mdio-v5">>),
                               P("reg", <<1, 1>>)>>)>>)>>),
  Node(<<"cpus">>, <<CellsP(1, 0),
    Node(<<"cpu", "@0">>, <<P("device_type", <<"cpu">>), P("reg", <<0>>),
      P("enable-method", <<"spin-table">>), P("cpu-release-addr", <<0, 3>>)>>),
    Node(<<"cpu", "@1">>, <<P("device_type", <<"cpu">>), P("reg", <<1>>),
      P("enable-method", <<"spin-table">>), P("cpu-release-addr", <<0, 5>>)>>)>>)>>

\* the nodes turned by k places
Rotate(s, k) == SubSeq(s, k + 1, Len(s)) \o SubSeq(s, 1, k)

Virt(k) == [tokens |-> Node(<<"">>, <<CellsP(2, 2)>> \o Rotate(VirtNodes, k)),
            image |-> 72, image_pages |-> 3, text |-> 1, rodata |-> 1, fdt |-> 65, pl011 |-> 40]
Pi(k)   == [tokens |-> Node(<<"">>, <<CellsP(2, 1)>> \o Rotate(PiNodes, k)),
            image |-> 8, image_pages |-> 4, text |-> 2, rodata |-> 1, fdt |-> 44, pl011 |-> 254]

McBoards == {Virt(0), Virt(3), Pi(0), Pi(2)}
=============================================================================
