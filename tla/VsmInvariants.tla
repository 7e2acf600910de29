--------------------------- MODULE VsmInvariants ---------------------------
(***************************************************************************)
(* The inductive invariants behind the safety of the shared memory         *)
(* protocol, in four layers.  VsmProofs proves them.                       *)
(***************************************************************************)
EXTENDS Vsm

-----------------------------------------------------------------------------
(* Requests under way.  The channels and the waitqueues together are one   *)
(* family of queues, so that RecvRequest and Forward both move the head of *)
(* one queue to the end of another.                                        *)

Wq == -1

Queues == (Nodes \cup {Wq}) \X Nodes

Chans == [e \in Queues |-> IF e[1] = Wq THEN wq[e[2]] ELSE req[e[1]][e[2]]]

\* a fetch request, as opposed to an invalidation
IsAsk(p) == p.type # "inv"

Asks(E, q) ==
  {p \in Proc : IsAsk(p) /\ \E e \in E : \E i \in 1..Len(q[e]) : q[e][i] = p}

\* no node has two requests in the queues q[e], e \in E
Unique(E, q) ==
  \A a, b \in E : \A i \in 1..Len(q[a]), j \in 1..Len(q[b]) :
    /\ IsAsk(q[a][i]) /\ IsAsk(q[b][j])
    /\ q[a][i].node = q[b][j].node
    => a = b /\ i = j

Pending == Asks(Queues, Chans)

-----------------------------------------------------------------------------
(* Layer 1.  A cpu that waits holds its node's page lock with the page     *)
(* unmapped, and exactly one thing represents its wait: one request in one *)
(* queue, or one reply of the kind it waits for.                           *)

Waits(n, c) == pc[n][c] \in {"readwait", "writewait"}

WaitFor(type) == IF type = "read" THEN "readwait" ELSE "writewait"

MappedOK == \A n \in Nodes : pte[n].af => pte[n].ap # "none"

WaitOK == \A n \in Nodes, c \in Cpus : Waits(n, c) => lock[n] = c /\ ~pte[n].af

OneToken == Unique(Queues, Chans)

AskOK ==
  \A p \in Pending :
    pc[p.node][p.cpu] = WaitFor(p.type) /\ reply[p.node][p.cpu] = <<>>

ReplyOK ==
  \A n \in Nodes, c \in Cpus : reply[n][c] # <<>> =>
    /\ Len(reply[n][c]) = 1
    /\ pc[n][c] = IF Head(reply[n][c]).wnr THEN "writewait" ELSE "readwait"

\* a server that has taken the entry down is still serving that request
CopyOK ==
  \A n \in Nodes : copying[n] =>
    /\ Draining(n) /\ wq[n] # <<>>
    /\ \/ Current(n).type = "read"
       \/ Current(n).type = "write" /\ ~pte[n].af

TokenInv == MappedOK /\ WaitOK /\ AskOK /\ ReplyOK /\ CopyOK /\ OneToken

-----------------------------------------------------------------------------
(* Layer 2.  The ownership is in exactly one place and the newest contents *)
(* are with it.                                                            *)

GivesOut(n, type) == copying[n] /\ Current(n).type = type

Keeps(n) == IsOwner(n) \/ GivesOut(n, "write")

Granted(n) == \E c \in Cpus : reply[n][c] # <<>> /\ Head(reply[n][c]).wnr

Owns(n) == Keeps(n) \/ Granted(n)

\* a read reply brings no copyset: a reader does not take itself for the owner
ReadReplyOK ==
  \A n \in Nodes, c \in Cpus :
    reply[n][c] # <<>> /\ ~Head(reply[n][c]).wnr => Head(reply[n][c]).cs = {}

OneOwner ==
  /\ \E n \in Nodes : Owns(n)
  /\ \A m, n \in Nodes : Owns(m) /\ Owns(n) => m = n

OwnerNewest ==
  /\ \A n \in Nodes : Keeps(n) => pte[n].ver = latest
  /\ \A n \in Nodes, c \in Cpus :
       reply[n][c] # <<>> /\ Head(reply[n][c]).wnr
         => Head(reply[n][c]).ver = latest

OwnerInv == ReadReplyOK /\ OneOwner /\ OwnerNewest

-----------------------------------------------------------------------------
(* Layer 3.  Every copy, mapped or on its way, is in the owner's copyset   *)
(* or has an invalidation coming, and one that misses a store is always in *)
(* the second case.                                                        *)

HasInv(q) == \E i \in 1..Len(q) : ~IsAsk(q[i])

Doomed(n) == HasInv(wq[n]) \/ \E s \in Nodes : HasInv(req[s][n])

Tracked(n) ==
  \/ \E h \in Nodes : Keeps(h) /\ n \in pte[h].cs
  \/ \E m \in Nodes, c \in Cpus :
       /\ reply[m][c] # <<>>
       /\ Head(reply[m][c]).wnr /\ n \in Head(reply[m][c]).cs

Copy(n) ==
  \/ ReadOnly(n) /\ ~IsOwner(n)
  \/ \E c \in Cpus : reply[n][c] # <<>> /\ ~Head(reply[n][c]).wnr

\* a reader is in the copyset before its copy leaves
ReadOut ==
  \A n \in Nodes :
    GivesOut(n, "read") => ReadOnly(n) /\ Current(n).node \in pte[n].cs

RwAlone == \A n \in Nodes : Writable(n) => pte[n].cs = {}

VerOK ==
  /\ \A n \in Nodes : pte[n].ver <= latest
  /\ \A n \in Nodes, c \in Cpus : reply[n][c] # <<>> =>
       /\ pte[n].ver <= Head(reply[n][c]).ver
       /\ Head(reply[n][c]).ver <= latest

ReplyDoomed ==
  \A n \in Nodes, c \in Cpus :
    reply[n][c] # <<>> /\ Head(reply[n][c]).ver < latest => Doomed(n)

StaleDoomed ==
  \A n \in Nodes : Readable(n) /\ pte[n].ver < latest => Doomed(n)

AllTracked == \A n \in Nodes : Copy(n) => Tracked(n) \/ Doomed(n)

CopyInv ==
  ReadOut /\ RwAlone /\ VerOK /\ ReplyDoomed /\ StaleDoomed /\ AllTracked

-----------------------------------------------------------------------------
(* Layer 4.  Where requests are: at a node other than the manager they     *)
(* wait only behind an ownership that is there or on its way.  The parts   *)
(* take the channels r, the waitqueues w, the recorded owner o and the set *)
(* O of owners as arguments.                                               *)

\* the manager owns the page or waits to own it
ManagerHas == Keeps(Manager) \/ \E c \in Cpus : pc[Manager][c] = "writewait"

Owners == {n \in Nodes : Owns(n)}

Others == Nodes \ {Manager}

AskFrom(q, n) == \E i \in 1..Len(q) : IsAsk(q[i]) /\ q[i].node = n

WriteFrom(q, n) == \E i \in 1..Len(q) : q[i].type = "write" /\ q[i].node = n

AskIn(q) == \E n \in Nodes : AskFrom(q, n)

WriteIn(q) == \E n \in Nodes : WriteFrom(q, n)

\* no request behind a write request: the write takes the ownership away
WriteEnds(q) ==
  \A i, j \in 1..Len(q) : q[i].type = "write" /\ IsAsk(q[j]) => j <= i

\* requests that wait at d or are on the way to it from the manager
AskAt(r, w, d) == AskIn(w[d]) \/ AskIn(r[Manager][d])

WriteAt(r, w, d, n) == WriteFrom(w[d], n) \/ WriteFrom(r[Manager][d], n)

\* n has asked for the ownership and the manager has passed that on
Sought(r, w, n) == \E e \in Others : WriteAt(r, w, e, n)

\* requests to the manager come from the requester, all others from the manager
RouteOK(r, w) ==
  /\ \A s, d, n \in Nodes : AskFrom(r[s][d], n) =>
       IF d = Manager THEN n = s /\ s # Manager ELSE s = Manager
  /\ \A n \in Nodes : AskFrom(w[Manager], n) => n # Manager
  /\ \A n \in Nodes : r[n][n] = <<>>

AskedChained(r, w, O) ==
  \A d \in Others : AskAt(r, w, d) => d \in O \/ Sought(r, w, d)

WriteLast(r, w) ==
  \A d \in Others :
    /\ WriteEnds(w[d]) /\ WriteEnds(r[Manager][d])
    /\ WriteIn(w[d]) => ~AskIn(r[Manager][d])

\* only the manager's own request takes the page from the recorded owner
WriteAtOwner(r, w, o) ==
  o # Manager => \A n \in Nodes : WriteAt(r, w, o, n) => n = Manager

OwnerKnown(r, w, o, O, has) ==
  has \/ (o # Manager /\ (o \in O \/ Sought(r, w, o)))

RouteInv ==
  /\ RouteOK(req, wq)
  /\ AskedChained(req, wq, Owners)
  /\ WriteLast(req, wq)
  /\ WriteAtOwner(req, wq, owner)
  /\ OwnerKnown(req, wq, owner, Owners, ManagerHas)
=============================================================================
