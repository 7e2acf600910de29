----------------------------- MODULE DeviceTree -----------------------------
(***************************************************************************)
(* The device tree: the parser of core/fdt.c and the queries of            *)
(* core/device.c, as operators.                                            *)
(*                                                                         *)
(* The flattened tree is its sequence of tokens:                           *)
(*   [tag |-> "begin", name |-> ...], [tag |-> "end"], [tag |-> "nop"],    *)
(*   [tag |-> "prop", name |-> ..., data |-> ...].                         *)
(* The parsed tree is a sequence of nodes; a node is named by its position *)
(* in the order of allocation, 0 is NULL and 1 the root.  A node name is a *)
(* sequence of parts, <<"memory", "@40000000">>, so that a comparison of   *)
(* its first len characters is IsPrefix.  The data of a property is a      *)
(* sequence: the cells of a number list, or the strings of a string list.  *)
(***************************************************************************)
EXTENDS Integers, Sequences, FiniteSetsExt, SequencesExt

CONSTANT CellBase    \* values of a cell: 2^32 in the code

NoNode == 0
Nodes(tree) == 1..Len(tree)

-----------------------------------------------------------------------------
(* fdt_parse: one ParseToken for every token, from NoTree                   *)

\* dt_node_alloc puts a node in front of its parent's children
dt_node_alloc(tree, parent, name) ==
  LET n    == Len(tree) + 1
      node == [parent |-> parent, child |-> NoNode,
               next |-> IF parent = NoNode THEN NoNode ELSE tree[parent].child,
               name |-> name, device_type |-> << >>, prop |-> << >>]
  IN  IF parent = NoNode THEN Append(tree, node)
      ELSE Append([tree EXCEPT ![parent].child = n], node)

\* a property goes in front of the node's properties
dt_prop_alloc(tree, node, p) ==
  [tree EXCEPT ![node].prop = <<p>> \o @,
               ![node].device_type = IF p.name = "device_type" THEN p.data ELSE @]

\* one token; node is where the next property belongs
ParseToken(s, token) ==
  CASE token.tag = "begin" -> [s EXCEPT !.tree = dt_node_alloc(@, s.node, token.name),
                                        !.node = Len(s.tree) + 1]
    [] token.tag = "prop"  -> [s EXCEPT !.tree = dt_prop_alloc(@, s.node,
                                  [name |-> token.name, data |-> token.data])]
    [] token.tag = "end"   -> [s EXCEPT !.node = s.tree[s.node].parent]
    [] token.tag = "nop"   -> s

NoTree == [tree |-> << >>, node |-> NoNode]

-----------------------------------------------------------------------------
(* Walking the tree                                                        *)

\* in front order: the child, else the sibling, else the sibling of the
\* nearest ancestor that has one
next_node(tree, prev) ==
  LET climb[n \in 0..Len(tree)] ==
        IF n = NoNode THEN NoNode
        ELSE IF tree[n].next = NoNode THEN climb[tree[n].parent] ELSE tree[n].next
  IN  IF prev = NoNode THEN 1
      ELSE IF tree[prev].child # NoNode THEN tree[prev].child
      ELSE climb[prev]

\* the nodes next_node gives from the root on
Walk(tree) ==
  FoldLeft(LAMBDA seq, i : LET n == next_node(tree, IF seq = << >> THEN NoNode ELSE Last(seq))
                           IN  IF n = NoNode THEN seq ELSE Append(seq, n),
           << >>, tree)

\* the children of a node in the order of the list
Children(tree, node) ==
  FoldLeft(LAMBDA seq, i : LET n == IF seq = << >> THEN tree[node].child ELSE tree[Last(seq)].next
                           IN  IF n = NoNode THEN seq ELSE Append(seq, n),
           << >>, tree)

-----------------------------------------------------------------------------
(* Properties.  A missing property and an empty one both have no data.     *)

dt_node_propb(node, name) == \E i \in DOMAIN node.prop : node.prop[i].name = name

dt_node_prop_raw(node, name) ==
  LET i == SelectInSeq(node.prop, LAMBDA p : p.name = name)
  IN  IF i = 0 THEN << >> ELSE node.prop[i].data

\* dt_node_props: the C string at the start of the data, the first of a list
dt_node_props_is(node, name, str) ==
  LET data == dt_node_prop_raw(node, name) IN data # << >> /\ data[1] = str

dt_node_device_type_is(node, type) == node.device_type = <<type>>

\* n = (n << 32) | cell
prop_read_number(cells) == FoldLeft(LAMBDA n, c : n * CellBase + c, 0, cells)

Cells(data, first, n) == SubSeq(data, first + 1, first + n)

\* dt_bus_ncells fails unless the bus has both properties
HasCells(bus)     == dt_node_propb(bus, "#address-cells") /\ dt_node_propb(bus, "#size-cells")
AddressCells(bus) == dt_node_prop_raw(bus, "#address-cells")[1]
SizeCells(bus)    == dt_node_prop_raw(bus, "#size-cells")[1]

\* dt_bus_addr_translate: the first range of the bus that holds the address.
\* A failure is returned as (u64)-1, which the caller's test < 0 never sees:
\* the address is then whatever the caller's variable held, Uninit here.
Uninit == -1

\* mutant: only the first range of the bus is used
dt_bus_addr_translateFirst(tree, bus, addr) ==
  LET ranges == dt_node_prop_raw(tree[bus], "ranges")
      na     == AddressCells(tree[bus])
      npa    == AddressCells(tree[tree[bus].parent])
  IN  IF ranges = << >> THEN addr
      ELSE prop_read_number(Cells(ranges, na, npa)) + (addr - prop_read_number(Cells(ranges, 0, na)))

\* na, npa, ns: cells of an address, of a parent's address, of a size
InRanges(ranges, na, npa, ns, addr) ==
  LET room   == na + ns + npa
      start(i)  == prop_read_number(Cells(ranges, i * room, na))
      pstart(i) == prop_read_number(Cells(ranges, i * room + na, npa))
      size(i)   == prop_read_number(Cells(ranges, i * room + na + npa, ns))
      hits == {i \in 0..(Len(ranges) \div room - 1) :
                 addr - start(i) \in 0..(size(i) - 1)}
      toParent(i) == pstart(i) + (addr - start(i))
  IN  IF hits = {} THEN Uninit ELSE toParent(Min(hits))

dt_bus_addr_translate(tree, bus, addr) ==
  LET ranges == dt_node_prop_raw(tree[bus], "ranges")
      parent == tree[bus].parent
  IN  IF ranges = << >> THEN addr
      ELSE IF ~HasCells(tree[bus]) \/ parent = NoNode \/ ~HasCells(tree[parent]) THEN Uninit
      ELSE InRanges(ranges, AddressCells(tree[bus]), AddressCells(tree[parent]),
                    SizeCells(tree[bus]), addr)

\* entry index of a reg property, untranslated: <<addr, size>>
RegEntry(regs, na, ns, index) ==
  LET i == index * (na + ns)
  IN  IF i + na + ns > Len(regs) THEN << >>
      ELSE <<prop_read_number(Cells(regs, i, na)), prop_read_number(Cells(regs, i + na, ns))>>

\* dt_node_prop_addr: rc < 0 is the empty sequence, else <<addr, size>>
dt_node_prop_addr(tree, n, index) ==
  LET bus == tree[n].parent
      r   == RegEntry(dt_node_prop_raw(tree[n], "reg"), AddressCells(tree[bus]),
                      SizeCells(tree[bus]), index)
  IN  IF ~HasCells(tree[bus]) \/ r = << >> THEN << >>
      ELSE <<dt_bus_addr_translate(tree, bus, r[1]), r[2]>>

\* dt_node_prop_intr: <<type, number, flags>> cells; SPIs start at 32, PPIs at 16
dt_node_prop_intr(node, index) ==
  LET regs == dt_node_prop_raw(node, "interrupts")
      i    == index * 3
  IN  IF i + 3 > Len(regs) THEN << >>
      ELSE <<(IF regs[i + 1] = 0 THEN 32 ELSE 16) + regs[i + 2], regs[i + 3]>>

-----------------------------------------------------------------------------
(* Searching                                                               *)

\* one step down for every name of the path, to the first child whose name
\* begins with it
dt_find_node_path(tree, path) ==
  LET down(n, name) ==
        LET kids == Children(tree, n)
            k    == SelectInSeq(kids, LAMBDA c : IsPrefix(name, tree[c].name))
        IN  IF n = NoNode \/ k = 0 THEN NoNode ELSE kids[k]
  IN  FoldLeft(down, 1, path)

\* dt_find_node_alias: the property of /aliases holds the path
dt_find_node_alias(tree, a) ==
  LET aliases == dt_find_node_path(tree, <<<<"aliases">>>>)
  IN  IF aliases = NoNode \/ ~dt_node_propb(tree[aliases], a) THEN NoNode
      ELSE dt_find_node_path(tree, dt_node_prop_raw(tree[aliases], a))

\* dt_compatible_device compares the first compatible string with the table
dt_compatible_device(table, node) ==
  \E compat \in table : dt_node_props_is(node, "compatible", compat)

\* the nodes a loop over next_match_node visits
MatchNodes(tree, table) == SelectSeq(Walk(tree), LAMBDA n : dt_compatible_device(table, tree[n]))

dt_compatible_child(tree, n, compat) ==
  SelectSeq(Children(tree, n), LAMBDA c : dt_node_props_is(tree[c], "compatible", compat))

\* dt_next_cpu_device from NULL to NULL
CpuDevices(tree) ==
  SelectSeq(Children(tree, dt_find_node_path(tree, <<<<"cpus">>>>)),
            LAMBDA c : dt_node_device_type_is(tree[c], "cpu"))

\* setup_system_memory: the ranges of /memory as <<start, size>>; the empty
\* sequence is a panic
MemoryRanges(tree) ==
  LET dev  == dt_find_node_path(tree, <<<<"memory">>>>)
      bus  == tree[dev].parent
      reg  == dt_node_prop_raw(tree[dev], "reg")
      na   == AddressCells(tree[bus])
      ns   == SizeCells(tree[bus])
      room == na + ns
  IN  IF dev = NoNode \/ ~dt_node_device_type_is(tree[dev], "memory") \/ ~HasCells(tree[bus])
      THEN << >>
      ELSE [i \in 1..(Len(reg) \div room) |->
              <<prop_read_number(Cells(reg, (i - 1) * room, na)),
                prop_read_number(Cells(reg, (i - 1) * room + na, ns))>>]
=============================================================================
