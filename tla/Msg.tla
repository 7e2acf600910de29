-------------------------------- MODULE Msg --------------------------------
(***************************************************************************)
(* Reception of messages at one node: msg_recv in the NIC interrupt, the   *)
(* receive queue of every cpu, do_recv_waitqueue run at the tail of an     *)
(* interrupt (core/msg.c, core/irq.c, lazyirq in include/pcpu.h), and a    *)
(* cpu that waits in __send_msg for its reply.                             *)
(*                                                                         *)
(* A cpu runs on three levels: its base level (the guest, or __send_msg),  *)
(* do_recv_waitqueue on top of it, and an interrupt on top of either.      *)
(* Interrupts are taken on the base level and while do_recv_waitqueue runs *)
(* handlers.  A message is a request, numbered, or the reply to the n-th   *)
(* request of a cpu.                                                       *)
(***************************************************************************)
EXTENDS Naturals, Sequences

CONSTANTS
  Cpus,       \* cpus of the node
  NicCpu,     \* the cpu the NIC's interrupt is routed to
  MayTimeOut, \* whether a reply can take longer than __send_msg waits
  MaxSends,   \* bound: requests with a reply that a cpu sends
  MaxReqs     \* bound: requests the other nodes send

ASSUME MsgAssumption ==
  /\ NicCpu \in Cpus
  /\ MayTimeOut \in BOOLEAN
  /\ MaxSends \in Nat
  /\ MaxReqs \in Nat

Null == [kind |-> "null", cpu |-> NicCpu, n |-> 0]

Message ==
  [kind : {"request"}, cpu : {NicCpu}, n : 1..MaxReqs]
    \cup [kind : {"reply"}, cpu : Cpus, n : 1..MaxSends]

VARIABLES
  asked,      \* replies the other nodes owe
  nreq,       \* requests the other nodes have sent
  wire,       \* packets the NIC has received
  recvq,      \* cpu -> pcpu.recv_waitq
  sgi,        \* cpu -> SGI_DO_RECVQ is pending
  irq,        \* cpu -> interrupt level: "no", "body", "tail"
  notify,     \* cpus msg_recv has queued a reply for and not yet signalled
  lazy,       \* cpu -> do_recv_waitqueue: "no", "take", "loop", "again"
  list,       \* cpu -> messages do_recv_waitqueue has taken off the queue
  base,       \* cpu -> base level: "guest", "wait", "check", "callback"
  sends,      \* cpu -> requests it has sent
  replybuf,   \* cpu -> vcpu.reply_buf
  reply,      \* cpu -> the local variable reply of __send_msg
  handled     \* number of requests handled (history)

vars == <<asked, nreq, wire, recvq, sgi, irq, notify, lazy, list, base, sends,
          replybuf, reply, handled>>
sender == <<base, sends, reply>>

Init ==
  /\ asked = {} /\ nreq = 0 /\ wire = <<>>
  /\ recvq = [c \in Cpus |-> <<>>]
  /\ sgi = [c \in Cpus |-> FALSE]
  /\ irq = [c \in Cpus |-> "no"]
  /\ notify = {}
  /\ lazy = [c \in Cpus |-> "no"]
  /\ list = [c \in Cpus |-> <<>>]
  /\ base = [c \in Cpus |-> "guest"]
  /\ sends = [c \in Cpus |-> 0]
  /\ replybuf = [c \in Cpus |-> Null]
  /\ reply = [c \in Cpus |-> Null]
  /\ handled = 0

AtBase(c) == irq[c] = "no" /\ lazy[c] = "no"
AtLazy(c) == irq[c] = "no" /\ lazy[c] # "no"

-----------------------------------------------------------------------------
(* External: the other nodes.                                              *)

OtherSends ==
  /\ nreq < MaxReqs
  /\ nreq' = nreq + 1
  /\ wire' = Append(wire, [kind |-> "request", cpu |-> NicCpu, n |-> nreq + 1])
  /\ UNCHANGED <<asked, recvq, sgi, irq, notify, lazy, list, sender, replybuf,
                 handled>>

OtherReplies ==
  \E m \in asked :
    /\ asked' = asked \ {m}
    /\ wire' = Append(wire, m)
    /\ UNCHANGED <<nreq, recvq, sgi, irq, notify, lazy, list, sender, replybuf,
                   handled>>

-----------------------------------------------------------------------------
(* __send_msg with a reply callback                                        *)

SendMsg(c) ==
  /\ AtBase(c) /\ base[c] = "guest"
  /\ sends[c] < MaxSends
  /\ sends' = [sends EXCEPT ![c] = @ + 1]
  /\ asked' = asked \cup {[kind |-> "reply", cpu |-> c, n |-> sends[c] + 1]}
  /\ base' = [base EXCEPT ![c] = "wait"]
  /\ UNCHANGED <<nreq, wire, recvq, sgi, irq, notify, lazy, list, replybuf,
                 reply, handled>>

\* the loop ends with the reply, or without one when the time is up
PollReply(c) ==
  /\ AtBase(c) /\ base[c] = "wait"
  /\ replybuf[c] # Null \/ MayTimeOut
  /\ reply' = [reply EXCEPT ![c] = replybuf[c]]
  /\ base' = [base EXCEPT ![c] = "check"]
  /\ UNCHANGED <<asked, nreq, wire, recvq, sgi, irq, notify, lazy, list, sends,
                 replybuf, handled>>

\* mutant: reply_buf is not cleared
CheckReplyKeeps(c) ==
  /\ AtBase(c) /\ base[c] = "check"
  /\ base' = [base EXCEPT ![c] = IF replybuf[c] = Null THEN "panic"
                                                       ELSE "callback"]
  /\ UNCHANGED <<asked, nreq, wire, recvq, sgi, irq, notify, lazy, list, sends,
                 replybuf, reply, handled>>

\* reply_buf is read again; without a reply the node panics ("deadlock?")
CheckReply(c) ==
  /\ AtBase(c) /\ base[c] = "check"
  /\ base' = [base EXCEPT ![c] = IF replybuf[c] = Null THEN "panic"
                                                       ELSE "callback"]
  /\ replybuf' = [replybuf EXCEPT ![c] = Null]
  /\ UNCHANGED <<asked, nreq, wire, recvq, sgi, irq, notify, lazy, list, sends,
                 reply, handled>>

\* reply_cb(reply), msg_free(reply)
Callback(c) ==
  /\ AtBase(c) /\ base[c] = "callback"
  /\ base' = [base EXCEPT ![c] = "guest"]
  /\ reply' = [reply EXCEPT ![c] = Null]
  /\ UNCHANGED <<asked, nreq, wire, recvq, sgi, irq, notify, lazy, list, sends,
                 replybuf, handled>>

-----------------------------------------------------------------------------
(* Interrupts                                                              *)

Pending(c) == sgi[c] \/ (c = NicCpu /\ wire # <<>>)

\* interrupts are enabled on the base level and around the handlers, not in
\* a cpu that panics
IrqEntry(c) ==
  /\ irq[c] = "no" /\ lazy[c] \in {"no", "loop"} /\ base[c] # "panic"
  /\ Pending(c)
  /\ sgi' = [sgi EXCEPT ![c] = FALSE]
  /\ irq' = [irq EXCEPT ![c] = "body"]
  /\ UNCHANGED <<asked, nreq, wire, recvq, notify, lazy, list, sender,
                 replybuf, handled>>

\* mutant: the cpu that asked is not signalled
MsgRecvSilent ==
  /\ irq[NicCpu] = "body"
  /\ wire # <<>> /\ notify = {}
  /\ LET m == Head(wire)
     IN  recvq' = [recvq EXCEPT ![m.cpu] = Append(@, m)]
  /\ wire' = Tail(wire)
  /\ UNCHANGED <<asked, nreq, sgi, irq, notify, lazy, list, sender, replybuf,
                 handled>>

\* msg_recv for one packet: a reply goes to the queue of the cpu that asked
MsgRecv ==
  /\ irq[NicCpu] = "body"
  /\ wire # <<>> /\ notify = {}
  /\ LET m == Head(wire)
     IN  /\ recvq' = [recvq EXCEPT ![m.cpu] = Append(@, m)]
         /\ notify' = {m.cpu} \ {NicCpu}
  /\ wire' = Tail(wire)
  /\ UNCHANGED <<asked, nreq, sgi, irq, lazy, list, sender, replybuf, handled>>

SendSgi ==
  \E c \in notify :
    /\ sgi' = [sgi EXCEPT ![c] = TRUE]
    /\ notify' = notify \ {c}
    /\ UNCHANGED <<asked, nreq, wire, recvq, irq, lazy, list, sender, replybuf,
                   handled>>

IrqBodyDone(c) ==
  /\ irq[c] = "body"
  /\ c = NicCpu => wire = <<>> /\ notify = {}
  /\ irq' = [irq EXCEPT ![c] = "tail"]
  /\ UNCHANGED <<asked, nreq, wire, recvq, sgi, notify, lazy, list, sender,
                 replybuf, handled>>

\* the tail of irq_entry: do_recv_waitqueue unless this cpu is already in it
IrqExit(c) ==
  /\ irq[c] = "tail"
  /\ irq' = [irq EXCEPT ![c] = "no"]
  /\ lazy' = [lazy EXCEPT ![c] = IF @ = "no" /\ recvq[c] # <<>> THEN "take"
                                                                ELSE @]
  /\ UNCHANGED <<asked, nreq, wire, recvq, sgi, notify, list, sender, replybuf,
                 handled>>

-----------------------------------------------------------------------------
(* do_recv_waitqueue                                                       *)

TakeList(c) ==
  /\ AtLazy(c) /\ lazy[c] = "take"
  /\ list' = [list EXCEPT ![c] = recvq[c]]
  /\ recvq' = [recvq EXCEPT ![c] = <<>>]
  /\ lazy' = [lazy EXCEPT ![c] = "loop"]
  /\ UNCHANGED <<asked, nreq, wire, sgi, irq, notify, sender, replybuf, handled>>

HandleRequest(c) ==
  /\ AtLazy(c) /\ lazy[c] = "loop"
  /\ list[c] # <<>> /\ Head(list[c]).kind = "request"
  /\ handled' = handled + 1
  /\ list' = [list EXCEPT ![c] = Tail(@)]
  /\ UNCHANGED <<asked, nreq, wire, recvq, sgi, irq, notify, lazy, sender,
                 replybuf>>

\* set_reply_buf
HandleReply(c) ==
  /\ AtLazy(c) /\ lazy[c] = "loop"
  /\ list[c] # <<>> /\ Head(list[c]).kind = "reply"
  /\ replybuf' = [replybuf EXCEPT ![c] = Head(list[c])]
  /\ list' = [list EXCEPT ![c] = Tail(@)]
  /\ UNCHANGED <<asked, nreq, wire, recvq, sgi, irq, notify, lazy, sender,
                 handled>>

\* interrupts off, then the queue is looked at once more
LoopDone(c) ==
  /\ AtLazy(c) /\ lazy[c] = "loop"
  /\ list[c] = <<>>
  /\ lazy' = [lazy EXCEPT ![c] = "again"]
  /\ UNCHANGED <<asked, nreq, wire, recvq, sgi, irq, notify, list, sender,
                 replybuf, handled>>

\* mutant: the queue is not looked at again
AgainLeaves(c) ==
  /\ AtLazy(c) /\ lazy[c] = "again"
  /\ lazy' = [lazy EXCEPT ![c] = "no"]
  /\ UNCHANGED <<asked, nreq, wire, recvq, sgi, irq, notify, list, sender,
                 replybuf, handled>>

Again(c) ==
  /\ AtLazy(c) /\ lazy[c] = "again"
  /\ lazy' = [lazy EXCEPT ![c] = IF recvq[c] # <<>> THEN "take" ELSE "no"]
  /\ UNCHANGED <<asked, nreq, wire, recvq, sgi, irq, notify, list, sender,
                 replybuf, handled>>

-----------------------------------------------------------------------------
SenderStep(c) == PollReply(c) \/ CheckReply(c) \/ Callback(c)

IrqStep(c) == IrqEntry(c) \/ IrqBodyDone(c) \/ IrqExit(c)

LazyStep(c) ==
  TakeList(c) \/ HandleRequest(c) \/ HandleReply(c) \/ LoopDone(c) \/ Again(c)

Next ==
  \/ OtherSends \/ OtherReplies
  \/ MsgRecv \/ SendSgi
  \/ \E c \in Cpus :
       SendMsg(c) \/ SenderStep(c) \/ IrqStep(c) \/ LazyStep(c)

Spec == Init /\ [][Next]_vars

(***************************************************************************)
(* Fairness: a cpu keeps executing, takes its pending interrupts, and the  *)
(* other nodes answer what they are asked (Vsm!FetchAnswered).             *)
(***************************************************************************)
FairSpec ==
  /\ Spec
  /\ WF_vars(OtherReplies)
  /\ WF_vars(MsgRecv \/ SendSgi)
  /\ \A c \in Cpus :
       /\ WF_vars(IrqStep(c) \/ LazyStep(c))
       /\ WF_vars(SenderStep(c))

-----------------------------------------------------------------------------
(* Properties.                                                             *)

\* Type invariant of the queues, the interrupt levels and the sender.
TypeOK ==
  /\ asked \subseteq Message
  /\ nreq \in 0..MaxReqs /\ handled \in 0..MaxReqs
  /\ wire \in Seq(Message)
  /\ recvq \in [Cpus -> Seq(Message)] /\ list \in [Cpus -> Seq(Message)]
  /\ sgi \in [Cpus -> BOOLEAN]
  /\ irq \in [Cpus -> {"no", "body", "tail"}]
  /\ notify \subseteq Cpus
  /\ lazy \in [Cpus -> {"no", "take", "loop", "again"}]
  /\ base \in [Cpus -> {"guest", "wait", "check", "callback", "panic"}]
  /\ sends \in [Cpus -> 0..MaxSends]
  /\ replybuf \in [Cpus -> Message \cup {Null}]
  /\ reply \in [Cpus -> Message \cup {Null}]

\* A message in a receive queue is never stranded: its cpu is in an interrupt
\* or in do_recv_waitqueue and will look at the queue, or an SGI is coming
\* (the unlocked checks in irq_entry and at the end of do_recv_waitqueue).
NothingStranded ==
  \A c \in Cpus : recvq[c] # <<>> =>
    irq[c] # "no" \/ lazy[c] # "no" \/ sgi[c] \/ c \in notify

\* set_reply_buf finds reply_buf empty (its assertion) and its cpu waiting for
\* this very reply, and the reply callback gets the reply to the request just
\* sent, never an earlier one left in reply_buf.
OwnReply ==
  \A c \in Cpus :
  /\ list[c] # <<>> /\ Head(list[c]).kind = "reply" =>
    /\ replybuf[c] = Null
    /\ base[c] = "wait"
    /\ Head(list[c]).cpu = c /\ Head(list[c]).n = sends[c]
  /\ base[c] = "callback" => reply[c] = [kind |-> "reply", cpu |-> c, n |-> sends[c]]

\* "assert(msg)" in msg_free: __send_msg never passes on a null reply.
NoNullReply == \A c \in Cpus : base[c] = "callback" => reply[c] # Null

\* Every request that arrives is handled.
AllHandled == \A i \in 1..MaxReqs : nreq >= i ~> handled >= i

\* Every cpu that waits for a reply returns to its guest.
WaitEnds == \A c \in Cpus : base[c] = "wait" ~> base[c] = "guest"
=============================================================================
