------------------------------ MODULE PageTable ------------------------------
(***************************************************************************)
(* Translation tables: pagewalk, mappages, memmap_huge and iomap of        *)
(* core/mm.c and the stage-2 operations of core/s2mm.c, on the record of   *)
(* PageAlloc.  mem.tables maps the page of a table to its entries.         *)
(*                                                                         *)
(* An entry keeps the bits the code tests: v (PTE_VALID), t (PTE_TABLE), af  *)
(* (PTE_AF), the page number pa and the attributes at, a subset of         *)
(* {"ro", "xn", "dev"}.                                                    *)
(* Addresses are page numbers.                                             *)
(***************************************************************************)
EXTENDS PageAlloc

Idx       == 0..(Chunk - 1)
NoEntry   == [v |-> FALSE, t |-> FALSE, af |-> FALSE, pa |-> 0, at |-> {}]
NewTable  == [i \in Idx |-> NoEntry]

PIDX(level, va) == (va \div Chunk ^ (3 - level)) % Chunk

pte_set_entry(pa, at) == [v |-> TRUE, t |-> TRUE, af |-> TRUE, pa |-> pa, at |-> at]
pte_set_block(pa, at) == [v |-> TRUE, t |-> FALSE, af |-> TRUE, pa |-> pa, at |-> at]
pte_set_table(page)   == [v |-> TRUE, t |-> TRUE, af |-> FALSE, pa |-> page, at |-> {}]

IsTable(e) == e.v /\ e.t

\* a page becomes an empty table (alloc_page clears it)
AddTable(mem, page) == [mem EXCEPT !.tables = (page :> NewTable) @@ @]

Panic(mem) == [mem EXCEPT !.panic = TRUE]

\* from the table pgt at level root down to the one at level last
WalkTo(mem, pgt, va, root, last, create) ==
  LET step(s, level) ==
        LET e == s.mem.tables[s.pgt][PIDX(level, va)]
            a == alloc_page(s.mem)
        IN  IF s.pgt = NULL \/ s.mem.panic THEN s
            ELSE IF IsTable(e) THEN [s EXCEPT !.pgt = e.pa]
            ELSE IF ~create THEN [s EXCEPT !.pgt = NULL]
            ELSE IF a.page = NULL THEN [s EXCEPT !.mem = Panic(@)]
            ELSE [pgt |-> a.page,
                  mem |-> [AddTable(a.mem, a.page) EXCEPT
                             !.tables[s.pgt][PIDX(level, va)] = pte_set_table(a.page)]]
  IN  FoldLeft(step, [mem |-> mem, pgt |-> pgt],
               [i \in 1..(last - root) |-> root + i - 1])

pagewalk(mem, pgt, va, root, create) == WalkTo(mem, pgt, va, root, 3, create)

\* the level 3 entry pagewalk returns, NoEntry when it returns NULL
Lookup(mem, pgt, va, root) ==
  LET w == pagewalk(mem, pgt, va, root, FALSE)
  IN  IF w.pgt = NULL THEN NoEntry ELSE w.mem.tables[w.pgt][PIDX(3, va)]

\* entry i of the table the walk w ended at; a used one is a panic
UseEntry(w, i, e) ==
  IF w.mem.panic THEN w.mem
  ELSE IF w.mem.tables[w.pgt][i].af THEN Panic(w.mem)
  ELSE [w.mem EXCEPT !.tables[w.pgt][i] = e]

\* one page of mappages
MapPage(mem, pgt, va, pa, at, root) ==
  UseEntry(pagewalk(mem, pgt, va, root, TRUE), PIDX(3, va), pte_set_entry(pa, at))

\* mutant: the physical address stays where it is
mappagesSame(mem, pgt, va, pa, n, at, root) ==
  FoldLeft(LAMBDA m, i : MapPage(m, pgt, va + i - 1, pa, at, root), mem, [i \in 1..n |-> i])

mappages(mem, pgt, va, pa, n, at, root) ==
  FoldLeft(LAMBDA m, i : MapPage(m, pgt, va + i - 1, pa + i - 1, at, root),
           mem, [i \in 1..n |-> i])

\* __page_accessible
Accessible(mem, pgt, va, root) == Lookup(mem, pgt, va, root).af

\* a 2 MiB block; rc is -1 for an unaligned address or a used entry
UseBlock(w, i, e) ==
  IF w.mem.tables[w.pgt][i].t \/ w.mem.tables[w.pgt][i].af THEN [mem |-> w.mem, rc |-> -1]
  ELSE [mem |-> [w.mem EXCEPT !.tables[w.pgt][i] = e], rc |-> 0]

memmap_huge(mem, pgt, va, pa, at, root) ==
  IF pa % Chunk # 0 \/ va % Chunk # 0 THEN [mem |-> mem, rc |-> -1]
  ELSE UseBlock(WalkTo(mem, pgt, va, root, 2, TRUE), PIDX(2, va), pte_set_block(pa, at))

\* changes the level 3 entry of va, whose tables exist
SetEntry(mem, pgt, va, root, e) ==
  LET w == pagewalk(mem, pgt, va, root, FALSE)
  IN  [mem EXCEPT !.tables[w.pgt][PIDX(3, va)] = e]

\* s2_page_invalidate: the access flag goes, the frame is freed
s2_page_invalidate(mem, pgt, ipa, root) ==
  LET e == Lookup(mem, pgt, ipa, root)
  IN  free_page(SetEntry(mem, pgt, ipa, root, [e EXCEPT !.af = FALSE]), e.pa)

-----------------------------------------------------------------------------
(* What the MMU sees: the pairs <<va, entry>> of the pages mapped below a  *)
(* table of a level, with the access flag; a block counts as its pages.    *)

Leaves3(mem, pgt, base) ==
  {<<base + i, mem.tables[pgt][i]>> : i \in {j \in Idx : mem.tables[pgt][j].af}}

Leaves2(mem, pgt, base) ==
  UNION {LET e  == mem.tables[pgt][i]
             va == base + i * Chunk
         IN  IF IsTable(e) THEN Leaves3(mem, e.pa, va)
             ELSE IF e.v THEN {<<va + k, [e EXCEPT !.pa = @ + k]>> : k \in Idx}
             ELSE {}
         : i \in Idx}

Leaves1(mem, pgt, base) ==
  UNION {IF IsTable(mem.tables[pgt][i])
         THEN Leaves2(mem, mem.tables[pgt][i].pa, base + i * Chunk ^ 2) ELSE {} : i \in Idx}

Leaves0(mem, pgt) ==
  UNION {IF IsTable(mem.tables[pgt][i])
         THEN Leaves1(mem, mem.tables[pgt][i].pa, i * Chunk ^ 3) ELSE {} : i \in Idx}
=============================================================================
