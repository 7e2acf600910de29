-------------------------------- MODULE Vsm --------------------------------
(***************************************************************************)
(* The virtual shared memory protocol of core/vsm.c for ONE guest page:    *)
(* the stage-2 entries of the page at every node, the owner recorded by    *)
(* the page's manager, the page lock with its waitqueue, and the messages  *)
(* MSG_FETCH, MSG_FETCH_REPLY and MSG_INVALIDATE.                          *)
(*                                                                         *)
(* A node's page descriptor is locked by a faulting cpu (page_spinlock) or *)
(* by the message context of the cpu that takes the NIC interrupt, Rx      *)
(* (page_trylock).  A cpu keeps the lock while it waits for the reply; the *)
(* requests that arrive meanwhile are appended to the waitqueue and served *)
(* by the holder before it unlocks.                                        *)
(*                                                                         *)
(* Page contents are abstracted to a version number: the number of guest   *)
(* stores the contents include.                                            *)
(***************************************************************************)
EXTENDS Integers, Sequences, FiniteSets

CONSTANTS
  Nodes,        \* ids of the nodes that hold or use the page
  Manager,      \* the node whose memrange holds the page: page_manager(ipa)
  Cpus,         \* cpus of a node
  Users,        \* nodes whose cpus run guest code that uses the page
  CopysetBits,  \* width of the copyset field of a stage-2 entry
  MaxVer,       \* bound: number of guest stores
  MaxChan       \* bound: a node with a longer channel takes no new fault

Free == "free"
Rx   == "rx"

ASSUME VsmAssumption ==
  /\ Nodes \subseteq Nat
  /\ IsFiniteSet(Nodes)
  /\ Manager \in Nodes
  /\ Users \subseteq Nodes
  /\ Free \notin Cpus /\ Rx \notin Cpus
  /\ CopysetBits \in Nat
  /\ MaxVer \in Nat
  /\ MaxChan \in Nat

VARIABLES
  pte,      \* node -> stage-2 entry of the page
  owner,    \* manager_page.owner at the manager
  lock,     \* node -> holder of page_desc.lock
  wq,       \* node -> page_desc.wq, procs waiting for the lock holder
  copying,  \* node -> the server took the entry down, the page is not sent yet
  pc,       \* node -> cpu -> where the cpu is
  req,      \* sender -> receiver -> FETCH and INVALIDATE messages in order
  reply,    \* node -> cpu -> FETCH_REPLY messages on the way or in reply_buf
  latest    \* number of guest stores so far (history)

vars == <<pte, owner, lock, wq, copying, pc, req, reply, latest>>

(***************************************************************************)
(* The entry: af is PTE_AF, ap the S2AP permission, cs the copyset bits;   *)
(* ver is the version of the mapped frame (of the last one when af is      *)
(* clear).                                                                 *)
(***************************************************************************)
Copysets == SUBSET Nodes
Pte      == [af : BOOLEAN, ap : {"none", "ro", "rw"}, cs : Copysets, ver : Nat]
Proc     == [type : {"read", "write", "inv"}, node : Nodes, cpu : Cpus]
Reply    == [wnr : BOOLEAN, cs : Copysets, ver : Nat]
CpuState == {"guest", "readwait", "writewait", "drain"}

\* mutant: the shift is one too large
CopysetBitShifted(n) == {n + 1} \cap 0..(CopysetBits - 1)

\* S2PTE_COPYSET(1 << nodeid): an id beyond the field sets no bit
CopysetBit(n) == {n} \cap 0..(CopysetBits - 1)

Readable(n) == pte[n].af /\ pte[n].ap \in {"ro", "rw"}
Writable(n) == pte[n].af /\ pte[n].ap = "rw"
ReadOnly(n) == pte[n].af /\ pte[n].ap = "ro"

\* "I am owner": a writable entry, or a read-only one with a copyset
IsOwner(n) == Writable(n) \/ (ReadOnly(n) /\ pte[n].cs # {})

-----------------------------------------------------------------------------
Init ==
  /\ pte = [n \in Nodes |->
              [af |-> n = Manager, ap |-> IF n = Manager THEN "rw" ELSE "none",
               cs |-> {}, ver |-> 0]]
  /\ owner = Manager
  /\ lock = [n \in Nodes |-> Free]
  /\ wq = [n \in Nodes |-> <<>>]
  /\ copying = [n \in Nodes |-> FALSE]
  /\ pc = [n \in Nodes |-> [c \in Cpus |-> "guest"]]
  /\ req = [s \in Nodes |-> [d \in Nodes |-> <<>>]]
  /\ reply = [n \in Nodes |-> [c \in Cpus |-> <<>>]]
  /\ latest = 0

-----------------------------------------------------------------------------
(* The guest.                                                              *)

\* a store of the guest to a page mapped read-write
GuestStore(n, c) ==
  /\ pc[n][c] = "guest"
  /\ Writable(n)
  /\ latest < MaxVer
  /\ latest' = latest + 1
  /\ pte' = [pte EXCEPT ![n].ver = @ + 1]
  /\ UNCHANGED <<owner, lock, wq, copying, pc, req, reply>>

-----------------------------------------------------------------------------
(* The fault handlers, up to the wait for the reply.  A guest access that  *)
(* the entry does not permit enters the handler, which takes the page lock *)
(* and looks at the entry again; fault and lock acquisition are one step.  *)

PageSpinlock(n, c) ==
  /\ pc[n][c] = "guest"
  /\ lock[n] = Free
  /\ lock' = [lock EXCEPT ![n] = c]

ChannelsOpen(n) == \A d \in Nodes : Len(req[n][d]) < MaxChan

Goto(n, c, l) == pc' = [pc EXCEPT ![n][c] = l]

\* another cpu has fetched the page between the fault and the lock
FaultHit(n, c) ==
  /\ PageSpinlock(n, c)
  /\ Cpus # {c}
  /\ Readable(n)
  /\ Goto(n, c, "drain")
  /\ UNCHANGED <<pte, owner, wq, copying, req, reply, latest>>

\* the manager asks the owner it recorded, everybody else asks the manager
FetchTarget(n) == IF n = Manager THEN owner ELSE Manager

SendFetchReq(n, c, type) ==
  req' = [req EXCEPT ![n][FetchTarget(n)] =
            Append(@, [type |-> type, node |-> n, cpu |-> c])]

ReadFetch(n, c) ==
  /\ PageSpinlock(n, c) /\ ChannelsOpen(n)
  /\ ~Readable(n)
  /\ SendFetchReq(n, c, "read")
  /\ Goto(n, c, "readwait")
  /\ UNCHANGED <<pte, owner, wq, copying, reply, latest>>

\* mutant: the loop over the copyset starts at node 1
InvalidateFromOne(n, c, cs) ==
  req' = [req EXCEPT ![n] =
            [d \in Nodes |->
               IF d \in cs \ {n, 0}
                 THEN Append(@[d], [type |-> "inv", node |-> n, cpu |-> c])
                 ELSE @[d]]]

\* one INVALIDATE to every other member of the copyset; no answer is awaited
Invalidate(n, c, cs) ==
  req' = [req EXCEPT ![n] =
            [d \in Nodes |->
               IF d \in cs \ {n}
                 THEN Append(@[d], [type |-> "inv", node |-> n, cpu |-> c])
                 ELSE @[d]]]

\* write to a read-only page this node owns
WriteUpgrade(n, c) ==
  /\ PageSpinlock(n, c) /\ ChannelsOpen(n)
  /\ ReadOnly(n) /\ pte[n].cs # {}
  /\ Invalidate(n, c, pte[n].cs)
  /\ pte' = [pte EXCEPT ![n].cs = {}, ![n].ap = "rw"]
  /\ Goto(n, c, "drain")
  /\ UNCHANGED <<owner, wq, copying, reply, latest>>

\* a read-only copy is dropped before the page is asked for
WriteFetch(n, c) ==
  /\ PageSpinlock(n, c) /\ ChannelsOpen(n)
  /\ ~IsOwner(n)
  /\ pte' = [pte EXCEPT ![n].af = @ /\ ~ReadOnly(n)]
  /\ SendFetchReq(n, c, "write")
  /\ Goto(n, c, "writewait")
  /\ UNCHANGED <<owner, wq, copying, reply, latest>>

-----------------------------------------------------------------------------
(* The fault handlers, from the reply on.                                  *)

TakeReply(n, c) ==
  /\ reply[n][c] # <<>>
  /\ ~pte[n].af                 \* mappages panics on a mapped page
  /\ reply' = [reply EXCEPT ![n][c] = Tail(@)]

ReadFetched(n, c) ==
  /\ pc[n][c] = "readwait"
  /\ TakeReply(n, c)
  /\ LET r == Head(reply[n][c])
     IN  pte' = [pte EXCEPT ![n] = [af |-> TRUE, ap |-> "ro", cs |-> r.cs,
                                    ver |-> r.ver]]
  /\ Goto(n, c, "drain")
  /\ UNCHANGED <<owner, lock, wq, copying, req, latest>>

WriteFetched(n, c) ==
  /\ pc[n][c] = "writewait"
  /\ TakeReply(n, c)
  /\ LET r == Head(reply[n][c])
     IN  /\ Invalidate(n, c, r.cs)
         /\ pte' = [pte EXCEPT ![n] = [af |-> TRUE, ap |-> "rw", cs |-> {},
                                       ver |-> r.ver]]
  /\ Goto(n, c, "drain")
  /\ UNCHANGED <<owner, lock, wq, copying, latest>>

-----------------------------------------------------------------------------
(* The message context.  page_trylock fails when the lock is held, or      *)
(* spuriously; vsm_enqueue_proc takes the lock when it finds it free.  In  *)
(* every case the proc ends up behind the ones already waiting, and Rx     *)
(* serves the queue if it got the lock.                                    *)

\* mutant: a proc that finds the page locked is forgotten
RecvRequestOrForget(s, n) ==
  /\ s # n
  /\ lock[n] # Rx
  /\ req[s][n] # <<>>
  /\ req' = [req EXCEPT ![s][n] = Tail(@)]
  /\ IF lock[n] = Free
       THEN /\ lock' = [lock EXCEPT ![n] = Rx]
            /\ wq' = [wq EXCEPT ![n] = Append(@, Head(req[s][n]))]
       ELSE UNCHANGED <<lock, wq>>
  /\ UNCHANGED <<pte, owner, copying, pc, reply, latest>>

RecvRequest(s, n) ==
  /\ s # n
  /\ lock[n] # Rx
  /\ req[s][n] # <<>>
  /\ req' = [req EXCEPT ![s][n] = Tail(@)]
  /\ wq' = [wq EXCEPT ![n] = Append(@, Head(req[s][n]))]
  /\ lock' = [lock EXCEPT ![n] = IF @ = Free THEN Rx ELSE @]
  /\ UNCHANGED <<pte, owner, copying, pc, reply, latest>>

-----------------------------------------------------------------------------
(* Serving the waitqueue: the holder of the lock runs the procs in order.  *)

Draining(n) ==
  \/ lock[n] = Rx
  \/ lock[n] \in Cpus /\ pc[n][lock[n]] = "drain"

\* the proc do_process runs now
Current(n) == Head(wq[n])

Serving(n, type) ==
  /\ Draining(n)
  /\ wq[n] # <<>>
  /\ Current(n).type = type

Done(n) == wq' = [wq EXCEPT ![n] = Tail(@)]

\* the owner makes its entry read-only before it copies the page out
ReadServer(n) ==
  /\ Serving(n, "read") /\ ~copying[n]
  /\ IsOwner(n)
  /\ pte' = [pte EXCEPT ![n].ap = "ro",
                        ![n].cs = @ \cup CopysetBit(Current(n).node)]
  /\ copying' = [copying EXCEPT ![n] = TRUE]
  /\ UNCHANGED <<owner, lock, wq, pc, req, reply, latest>>

\* mutant: the page is copied out while it is still mapped
WriteServerMapped(n) ==
  /\ Serving(n, "write") /\ ~copying[n]
  /\ IsOwner(n)
  /\ copying' = [copying EXCEPT ![n] = TRUE]
  /\ UNCHANGED <<pte, owner, lock, wq, pc, req, reply, latest>>

\* the owner unmaps the page before it copies the page out
WriteServer(n) ==
  /\ Serving(n, "write") /\ ~copying[n]
  /\ IsOwner(n)
  /\ pte' = [pte EXCEPT ![n].af = FALSE]
  /\ copying' = [copying EXCEPT ![n] = TRUE]
  /\ UNCHANGED <<owner, lock, wq, pc, req, reply, latest>>

\* mutant: the reply goes to a fixed cpu of the requester
SendReplyToBootCpu(n, r) ==
  LET p == Current(n)
      c == CHOOSE c0 \in Cpus : TRUE
  IN  reply' = [reply EXCEPT ![p.node][c] = Append(@, r)]

SendReply(n, r) ==
  LET p == Current(n)
  IN  reply' = [reply EXCEPT ![p.node][p.cpu] = Append(@, r)]

SendReadReply(n) ==
  /\ Serving(n, "read") /\ copying[n]
  /\ SendReply(n, [wnr |-> FALSE, cs |-> {}, ver |-> pte[n].ver])
  /\ copying' = [copying EXCEPT ![n] = FALSE]
  /\ Done(n)
  /\ UNCHANGED <<pte, owner, lock, pc, req, latest>>

\* mutant: the copyset is cleared before it is sent
SendWriteReplyNoCopyset(n) ==
  /\ Serving(n, "write") /\ copying[n]
  /\ SendReply(n, [wnr |-> TRUE, cs |-> {}, ver |-> pte[n].ver])
  /\ copying' = [copying EXCEPT ![n] = FALSE]
  /\ owner' = IF n = Manager THEN Current(n).node ELSE owner
  /\ Done(n)
  /\ UNCHANGED <<pte, lock, pc, req, latest>>

\* ownership and copyset go to the requester; a manager records it
SendWriteReply(n) ==
  /\ Serving(n, "write") /\ copying[n]
  /\ SendReply(n, [wnr |-> TRUE, cs |-> pte[n].cs, ver |-> pte[n].ver])
  /\ copying' = [copying EXCEPT ![n] = FALSE]
  /\ owner' = IF n = Manager THEN Current(n).node ELSE owner
  /\ Done(n)
  /\ UNCHANGED <<pte, lock, pc, req, latest>>

\* a manager that does not own the page; a request of the recorded owner
\* itself is a panic
Forward(n, type) ==
  /\ Serving(n, type) /\ ~copying[n]
  /\ ~IsOwner(n)
  /\ n = Manager
  /\ Current(n).node # owner
  /\ req' = [req EXCEPT ![n][owner] = Append(@, Current(n))]
  /\ Done(n)
  /\ UNCHANGED <<pte, lock, copying, pc, reply, latest>>

ForwardRead(n) ==
  /\ Forward(n, "read")
  /\ UNCHANGED owner

\* mutant: the manager forwards a write without recording the new owner
ForwardWriteUnrecorded(n) ==
  /\ Forward(n, "write")
  /\ UNCHANGED owner

ForwardWrite(n) ==
  /\ Forward(n, "write")
  /\ owner' = Current(n).node

\* mutant: an owner obeys an outdated invalidation
InvalidateServerAlways(n) ==
  /\ Serving(n, "inv")
  /\ pte' = [pte EXCEPT ![n].af = FALSE]
  /\ Done(n)
  /\ UNCHANGED <<owner, lock, copying, pc, req, reply, latest>>

\* an unmapped page needs nothing; an owner ignores the message as outdated
InvalidateServer(n) ==
  /\ Serving(n, "inv")
  /\ pte' = [pte EXCEPT ![n].af = @ /\ IsOwner(n)]
  /\ Done(n)
  /\ UNCHANGED <<owner, lock, copying, pc, req, reply, latest>>

\* mutant: the page is unlocked without a look at the waitqueue
PageUnlockBlind(n) ==
  /\ Draining(n)
  /\ ~copying[n]
  /\ lock' = [lock EXCEPT ![n] = Free]
  /\ pc' = [pc EXCEPT ![n] =
              [c \in Cpus |-> IF c = lock[n] THEN "guest" ELSE @[c]]]
  /\ UNCHANGED <<pte, owner, wq, copying, req, reply, latest>>

\* page and waitqueue are unlocked together once the queue is empty
PageUnlock(n) ==
  /\ Draining(n)
  /\ wq[n] = <<>>
  /\ lock' = [lock EXCEPT ![n] = Free]
  /\ pc' = [pc EXCEPT ![n] =
              [c \in Cpus |-> IF c = lock[n] THEN "guest" ELSE @[c]]]
  /\ UNCHANGED <<pte, owner, wq, copying, req, reply, latest>>

-----------------------------------------------------------------------------
FaultHandler(n, c) ==
  \/ FaultHit(n, c)
  \/ ReadFetch(n, c)
  \/ WriteUpgrade(n, c)
  \/ WriteFetch(n, c)
  \/ ReadFetched(n, c)
  \/ WriteFetched(n, c)

Server(n) ==
  \/ ReadServer(n)
  \/ WriteServer(n)
  \/ SendReadReply(n)
  \/ SendWriteReply(n)
  \/ ForwardRead(n)
  \/ ForwardWrite(n)
  \/ InvalidateServer(n)
  \/ PageUnlock(n)

Next ==
  \/ \E n \in Users, c \in Cpus :
       GuestStore(n, c) \/ FaultHandler(n, c)
  \/ \E s, n \in Nodes : RecvRequest(s, n)
  \/ \E n \in Nodes : Server(n)

Spec == Init /\ [][Next]_vars

(***************************************************************************)
(* Fairness.  Every node keeps running its interrupt handlers and the cpu  *)
(* that holds a page lock; messages wait in the receiving cpu's recv_waitq *)
(* in arrival order, so none is passed over for ever.  Nothing obliges the *)
(* guest to fault or to store.                                             *)
(***************************************************************************)
FairSpec ==
  /\ Spec
  /\ \A n \in Nodes :
       /\ WF_vars(Server(n))
       /\ \A c \in Cpus : WF_vars(ReadFetched(n, c) \/ WriteFetched(n, c))
       /\ \A s \in Nodes : SF_vars(RecvRequest(s, n))

-----------------------------------------------------------------------------
(* Properties.                                                             *)

\* Type invariant of the page's state at every node and of its messages.
TypeOK ==
  /\ pte \in [Nodes -> Pte]
  /\ owner \in Nodes
  /\ lock \in [Nodes -> Cpus \cup {Free, Rx}]
  /\ wq \in [Nodes -> Seq(Proc)]
  /\ copying \in [Nodes -> BOOLEAN]
  /\ pc \in [Nodes -> [Cpus -> CpuState]]
  /\ req \in [Nodes -> [Nodes -> Seq(Proc)]]
  /\ reply \in [Nodes -> [Cpus -> Seq(Reply)]]
  /\ latest \in Nat

\* Where ownership can be: in an entry, in an owner that has unmapped the
\* page to send it, or in a write reply.
Holders == {n \in Nodes : IsOwner(n) \/ (copying[n] /\ Serving(n, "write"))}

\* replies on the way, by place; a second one for a cpu is already a duplicate
Replies ==
  {t \in Nodes \X Cpus \X (1..2) : t[3] \in DOMAIN reply[t[1]][t[2]]}

ReplyAt(t) == reply[t[1]][t[2]][t[3]]

Grants == {t \in Replies : ReplyAt(t).wnr}

\* The ownership of the page is never lost and never duplicated, whatever
\* faults, forwards and invalidations overlap (vsm_write_server_process,
\* vsm_invalidate_server_process, __vsm_write_fetch_page).
SingleOwner == Cardinality(Holders) + Cardinality(Grants) = 1

\* The owner's frame, or the frame travelling with the ownership, holds every
\* store made so far: no write is lost when the page moves while the guest
\* keeps storing on the node that gives it away.
OwnerIsLatest ==
  /\ \A n \in Holders : pte[n].ver = latest
  /\ \A t \in Grants : ReplyAt(t).ver = latest

InvPending(n) ==
  \/ \E p \in {wq[n][i] : i \in DOMAIN wq[n]} : p.type = "inv"
  \/ \E s \in Nodes :
       \E p \in {req[s][n][i] : i \in DOMAIN req[s][n]} : p.type = "inv"

InCopyset(n) ==
  \/ \E h \in Holders : n \in pte[h].cs
  \/ \E t \in Grants : n \in ReplyAt(t).cs

HasCopy(n) ==
  \/ ReadOnly(n) /\ ~IsOwner(n)
  \/ \E t \in Replies : t[1] = n /\ ~ReplyAt(t).wnr

\* Every copy, delivered or on its way, is in the copyset that travels with
\* the ownership, or an invalidation for it has been sent: a writer can
\* always reach all copies (s2pte_add_copyset, send_write_fetch_reply,
\* vsm_invalidate).
CopiesTracked == \A n \in Nodes : HasCopy(n) => InCopyset(n) \/ InvPending(n)

\* A node that still maps contents older than the newest store has an
\* invalidation coming: reading old data is only a delay (vsm_invalidate
\* awaits no acknowledgement).
StaleIsDoomed ==
  \A n \in Nodes : Readable(n) /\ pte[n].ver < latest => InvPending(n)

\* A reply finds its cpu waiting for exactly this kind of reply, and never a
\* second one in reply_buf (set_reply_buf, recv_fetch_reply): a read reply
\* taken for a write reply would make two owners.
ReplyMatchesFault ==
  \A n \in Nodes, c \in Cpus : reply[n][c] # <<>> =>
    /\ Len(reply[n][c]) = 1
    /\ pc[n][c] = IF Head(reply[n][c]).wnr THEN "writewait" ELSE "readwait"
    /\ lock[n] = c /\ ~pte[n].af

\* A request is being served by a node that neither owns nor manages the page.
AtBystander(n) ==
  /\ Serving(n, "read") \/ Serving(n, "write")
  /\ ~copying[n] /\ ~IsOwner(n)
  /\ n # Manager

\* "unreachable": the last branch of vsm_read_server_process and
\* vsm_write_server_process is never taken.
NoUnreachable == \A n \in Nodes : ~AtBystander(n)

\* No request reaches a node that can neither answer nor forward it, the
\* manager never finds the requester recorded as owner ("fetch request from
\* owner!"), and no node sends itself a message it would wait for for ever.
NoPanic ==
  /\ NoUnreachable
  /\ ~(/\ Serving(Manager, "read") \/ Serving(Manager, "write")
       /\ ~copying[Manager] /\ ~IsOwner(Manager)
       /\ Current(Manager).node = owner)
  /\ \A n \in Nodes : req[n][n] = <<>>

\* The page lock of n is held by a cpu that waits for the reply to its fetch.
AwaitsReply(n) ==
  lock[n] \in Cpus /\ pc[n][lock[n]] \in {"readwait", "writewait"}

FetchOf(n, q) == \E i \in DOMAIN q : q[i].node = n /\ q[i].type # "inv"

\* The fetch of n waits for the page lock of m or is on its way there.
FetchAt(n, m) == FetchOf(n, wq[m]) \/ \E s \in Nodes : FetchOf(n, req[s][m])

\* No cycle of page locks held over a remote wait: of nodes whose fetches are
\* all at nodes of the same set, one does not wait itself, whichever of
\* requester, owner and manager they are (the handlers keep the page locked
\* from send_*_fetch_req to the reply).
NoWaitCycle ==
  \A S \in SUBSET Nodes \ {{}} :
    \E n \in S : ~AwaitsReply(n) \/ \A m \in S : ~FetchAt(n, m)

\* A cpu that waits for the page gets it (__send_msg panics "deadlock?" when
\* it does not).
FetchAnswered ==
  \A n \in Nodes, c \in Cpus :
    pc[n][c] \in {"readwait", "writewait"} ~> pc[n][c] = "drain"

\* Every node eventually stops reading contents that miss a store.
StaleGoesAway ==
  \A n \in Nodes : (Readable(n) /\ pte[n].ver < latest)
                     ~> (~Readable(n) \/ pte[n].ver = latest)

Coherent == INSTANCE CoherentPage WITH
  view <- [n \in Nodes |-> pte[n].ver]

\* The protocol implements the coherent page: stores are totally ordered, none
\* is lost, and no node falls back to older contents.
ImplementsCoherentPage == Coherent!Spec
=============================================================================
