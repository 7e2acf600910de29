------------------------------ MODULE PageAlloc ------------------------------
(***************************************************************************)
(* The page allocator (core/allocpage.c) and the heap on top of it         *)
(* (core/malloc.c) as operators on one record                              *)
(*   mem = [zone, heap, tables, panic]                                     *)
(* zone is memzone.chunks: for every order the freelist, a sequence of     *)
(* first page numbers.  heap is malloc_chunk: for every block class the    *)
(* frames, each with its page and the blocks on its freelist.  tables are  *)
(* the pages used as translation tables, see PageTable; panic is set by a  *)
(* call that ends in panic().                                              *)
(*                                                                         *)
(* Both allocators run under a spinlock with interrupts off, so a call is  *)
(* one step.  Pages are page numbers; NULL is no page.                     *)
(***************************************************************************)
EXTENDS Integers, Sequences, FiniteSetsExt, SequencesExt

CONSTANTS
  Order,      \* MAX_ORDER; also log2 of the entries of a translation table
  Classes,    \* block classes of the heap in use
  Blocks      \* class -> blocks in a frame

ASSUME PageAllocAssumption ==
  /\ Order \in Nat \ {0}
  /\ Blocks \in [Classes -> Nat \ {0}]

NULL   == -1
Orders == 0..Order
Chunk  == 2 ^ Order       \* SZ_2MiB in pages: PAGESIZE << MAX_ORDER

NoMem == [zone |-> [o \in Orders |-> << >>], heap |-> [c \in Classes |-> << >>],
          tables |-> << >>, panic |-> FALSE]

freelist_add(mem, o, page) == [mem EXCEPT !.zone[o] = <<page>> \o @]

\* mutant: the halves are put back one order too low
expandShort(mem, page, order, page_order) ==
  [mem EXCEPT !.zone = [o \in Orders |->
     IF order < o /\ o < page_order THEN <<page + 2 ^ o>> \o @[o] ELSE @[o]]]

\* the upper half of the block goes to the list below, until order is reached
expand(mem, page, order, page_order) ==
  [mem EXCEPT !.zone = [o \in Orders |->
     IF order <= o /\ o < page_order THEN <<page + 2 ^ o>> \o @[o] ELSE @[o]]]

\* the first block of order i, cut down to order
AllocFrom(mem, order, i) ==
  [mem  |-> expand([mem EXCEPT !.zone[i] = Tail(@)], Head(mem.zone[i]), order, i),
   page |-> Head(mem.zone[i])]

\* __alloc_pages: the lowest order with a free block serves the call
alloc_pages(mem, order) ==
  LET fit == {i \in order..Order : mem.zone[i] # << >>}
  IN  IF fit = {} THEN [mem |-> mem, page |-> NULL] ELSE AllocFrom(mem, order, Min(fit))

alloc_page(mem) == alloc_pages(mem, 0)

\* a freed block goes to its list as it is: buddies are never merged
free_pages(mem, page, order) ==
  IF page % 2 ^ order # 0 THEN [mem EXCEPT !.panic = TRUE]
  ELSE freelist_add(mem, order, page)

free_page(mem, page) == free_pages(mem, page, 0)

-----------------------------------------------------------------------------
(* core/malloc.c.  A block is <<page, slot>>.                              *)

\* malloc_frame threads the blocks from low to high: the last one is the head
Frame(page, c) == [page |-> page, free |-> [i \in 1..Blocks[c] |-> Blocks[c] + 1 - i]]

MallocFrom(mem, c, k) ==
  [mem   |-> [mem EXCEPT !.heap[c][k].free = Tail(@)],
   block |-> <<mem.heap[c][k].page, Head(mem.heap[c][k].free)>>]

\* a new frame, in the page of a, goes to the front
MallocNew(a, c) ==
  IF a.page = NULL THEN [mem |-> a.mem, block |-> << >>]
  ELSE MallocFrom([a.mem EXCEPT !.heap[c] = <<Frame(a.page, c)>> \o @], c, 1)

\* a block of the first frame that has one
malloc(mem, c) ==
  LET k == SelectInSeq(mem.heap[c], LAMBDA f : f.free # << >>)
  IN  IF k # 0 THEN MallocFrom(mem, c, k) ELSE MallocNew(alloc_page(mem), c)

\* the frame is found by the address of the block
free(mem, c, block) ==
  LET k == SelectInSeq(mem.heap[c], LAMBDA f : f.page = block[1])
  IN  [mem EXCEPT !.heap[c][k].free = <<block[2]>> \o @]

-----------------------------------------------------------------------------
(* Who has a page                                                          *)

\* the pages of the blocks on the freelists, with the number of blocks
FreeBlocks(mem) == UNION {{<<p, o>> : p \in ToSet(mem.zone[o])} : o \in Orders}
FreePages(mem)  == UNION {b[1]..(b[1] + 2 ^ b[2] - 1) : b \in FreeBlocks(mem)}
NrFree(mem)     == FoldSet(LAMBDA o, n : n + 2 ^ o * Len(mem.zone[o]), 0, Orders)
HeapPages(mem)  == UNION {{mem.heap[c][k].page : k \in DOMAIN mem.heap[c]} : c \in Classes}
TablePages(mem) == DOMAIN mem.tables
=============================================================================
