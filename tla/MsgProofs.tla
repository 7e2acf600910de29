----------------------------- MODULE MsgProofs ------------------------------
(*****************************************************************************)
(* Msg for any number of cpus, requests and replies: no message is stranded  *)
(* in a receive queue, and, when replies come in time, set_reply_buf and the *)
(* reply callback get the reply to the request just sent.                    *)
(*****************************************************************************)
EXTENDS Msg, SequenceTheorems, TLAPS

(* The inductive invariant.                                                *)

Replies == [kind : {"reply"}, cpu : Cpus, n : 1..MaxSends]

Shapes ==
  /\ asked \subseteq Replies
  /\ nreq \in 0..MaxReqs
  /\ wire \in Seq(Message)
  /\ recvq \in [Cpus -> Seq(Message)] /\ list \in [Cpus -> Seq(Message)]
  /\ sgi \in [Cpus -> BOOLEAN]
  /\ irq \in [Cpus -> {"no", "body", "tail"}]
  /\ notify \subseteq Cpus
  /\ lazy \in [Cpus -> {"no", "take", "loop", "again"}]
  /\ base \in [Cpus -> {"guest", "wait", "check", "callback", "panic"}]
  /\ sends \in [Cpus -> 0..MaxSends]
  /\ replybuf \in [Cpus -> Replies \cup {Null}]
  /\ reply \in [Cpus -> Replies \cup {Null}]

\* m is in the sequence s; m is in s at most once
In(m, s) == \E i \in 1..Len(s) : s[i] = m
Once(m, s) == \A i, j \in 1..Len(s) : s[i] = m /\ s[j] = m => i = j

\* A reply on its way is in one place: with the node that owes it, on the wire,
\* or in the receive queue or the list of the cpu that asked.
PlacesOK ==
  \A m \in Replies :
    /\ \A c \in Cpus : In(m, recvq[c]) \/ In(m, list[c]) => m.cpu = c
    /\ Once(m, wire) /\ Once(m, recvq[m.cpu]) /\ Once(m, list[m.cpu])
    /\ m \in asked => ~In(m, wire)
    /\ m \in asked \/ In(m, wire) => ~In(m, recvq[m.cpu])
    /\ m \in asked \/ In(m, wire) \/ In(m, recvq[m.cpu]) => ~In(m, list[m.cpu])

OnItsWay(m) ==
  m \in asked \/ In(m, wire) \/ In(m, recvq[m.cpu]) \/ In(m, list[m.cpu])

\* Its cpu waits for it and has no other.
AwaitedOK ==
  \A m \in Replies : OnItsWay(m) =>
    base[m.cpu] = "wait" /\ m.n = sends[m.cpu] /\ replybuf[m.cpu] = Null

ReplyTo(c) == [kind |-> "reply", cpu |-> c, n |-> sends[c]]

BufferOK ==
  \A c \in Cpus :
    /\ replybuf[c] # Null => base[c] \in {"wait", "check"} /\ replybuf[c] = ReplyTo(c)
    /\ base[c] = "check" => replybuf[c] # Null /\ reply[c] = replybuf[c]
    /\ base[c] = "callback" => reply[c] = ReplyTo(c)

FlowInv == PlacesOK /\ AwaitedOK /\ BufferOK

-----------------------------------------------------------------------------
(* Messages and sequences of them.                                         *)

\* Requests, replies and Null are told apart by their kind, and a reply is known
\* by its cpu and its number.
LEMMA MessageFacts ==
  /\ NicCpu \in Cpus
  /\ Null \notin Message /\ Null \notin Replies /\ Replies \subseteq Message
  /\ \A m \in Message : m.cpu \in Cpus /\ (m.kind = "reply" <=> m \in Replies)
  /\ \A m \in Message : m.kind \in {"request", "reply"}
  /\ \A m \in Replies : m.cpu \in Cpus /\ m.kind = "reply"
  /\ \A m, k \in Replies : m.cpu = k.cpu /\ m.n = k.n => m = k
<1>1. /\ NicCpu \in Cpus
      /\ Replies \subseteq Message
      /\ \A m \in Message : m.cpu \in Cpus
      /\ \A m \in Message : m.kind \in {"request", "reply"}
      /\ \A m \in Replies : m.cpu \in Cpus /\ m.kind = "reply"
  BY MsgAssumption DEF Message, Replies
<1>2. \A m \in Message : m.kind = "reply" <=> m \in Replies
  BY DEF Message, Replies
<1>3. Null.kind = "null"
  BY DEF Null
<1>4. Null \notin Message /\ Null \notin Replies
  BY <1>1, <1>3
<1>5. \A m, k \in Replies : m.cpu = k.cpu /\ m.n = k.n => m = k
  BY DEF Replies
<1> QED
  BY <1>1, <1>2, <1>4, <1>5

\* The reply with the number of the last request is the reply to it.
LEMMA ReplyToIs ==
  ASSUME NEW c \in Cpus, NEW m \in Replies, m.cpu = c, m.n = sends[c]
  PROVE  m = ReplyTo(c)
BY DEF Replies, ReplyTo

\* Nothing is in the empty sequence.
LEMMA InEmpty == ASSUME NEW m PROVE ~In(m, <<>>) /\ Once(m, <<>>)
<1>1. Len(<<>>) = 0
  OBVIOUS
<1> QED
  BY <1>1 DEF In, Once

\* The head is in the sequence.
LEMMA InHead ==
  ASSUME NEW S, NEW s \in Seq(S), s # <<>>
  PROVE  In(Head(s), s)
<1>1. Len(s) \in Nat /\ Len(s) # 0
  BY EmptySeq
<1> QED
  BY <1>1 DEF In

\* What Append puts into a sequence.
LEMMA InAppend ==
  ASSUME NEW S, NEW s \in Seq(S), NEW e \in S, NEW m
  PROVE  /\ In(m, Append(s, e)) <=> In(m, s) \/ m = e
         /\ Once(m, s) /\ (m = e => ~In(m, s)) => Once(m, Append(s, e))
<1> DEFINE t == Append(s, e)
<1>1. /\ Len(s) \in Nat /\ Len(t) = Len(s) + 1 /\ t[Len(s) + 1] = e
      /\ \A i \in 1..Len(s) : t[i] = s[i]
  BY AppendProperties, LenProperties
<1> HIDE DEF t
<1>2. In(m, t) <=> In(m, s) \/ m = e
  BY <1>1 DEF In
<1>3. ASSUME Once(m, s), m = e => ~In(m, s) PROVE Once(m, t)
  BY <1>1, <1>3 DEF In, Once
<1> QED
  BY <1>2, <1>3 DEF t

\* What Tail leaves in a sequence.
LEMMA InTail ==
  ASSUME NEW S, NEW s \in Seq(S), s # <<>>, NEW m
  PROVE  /\ In(m, Tail(s)) => In(m, s)
         /\ Once(m, s) => Once(m, Tail(s))
         /\ Once(m, s) /\ m = Head(s) => ~In(m, Tail(s))
<1> DEFINE t == Tail(s)
<1>1. /\ Len(s) \in Nat /\ Len(s) # 0 /\ Len(t) = Len(s) - 1 /\ s[1] = Head(s)
      /\ \A i \in 1..Len(t) : t[i] = s[i + 1]
  BY HeadTailProperties, LenProperties, EmptySeq
<1> HIDE DEF t
<1>2. In(m, t) => In(m, s)
  BY <1>1 DEF In
<1>3. ASSUME Once(m, s) PROVE Once(m, t)
  <2>1. SUFFICES ASSUME NEW i \in 1..Len(t), NEW j \in 1..Len(t), t[i] = m, t[j] = m
                 PROVE  i = j
    BY DEF Once
  <2>2. i + 1 \in 1..Len(s) /\ j + 1 \in 1..Len(s) /\ s[i + 1] = m /\ s[j + 1] = m
    BY <1>1, <2>1
  <2>3. i + 1 = j + 1
    BY <1>3, <2>2 DEF Once
  <2> QED
    BY <2>3
<1>4. ASSUME Once(m, s), m = Head(s) PROVE ~In(m, t)
  <2>1. SUFFICES ASSUME NEW i \in 1..Len(t), t[i] = m PROVE FALSE
    BY DEF In
  <2>2. i + 1 \in 1..Len(s) /\ 1 \in 1..Len(s) /\ s[i + 1] = m /\ s[1] = m /\ i + 1 # 1
    BY <1>1, <1>4, <2>1
  <2> QED
    BY <1>4, <2>2 DEF Once
<1> QED
  BY <1>2, <1>3, <1>4 DEF t

-----------------------------------------------------------------------------
(* Nothing is stranded.                                                    *)

\* no message moves and no sender steps
QuietStep ==
  \/ SendSgi
  \/ \E c \in Cpus : IrqStep(c) \/ LoopDone(c) \/ Again(c)

\* The steps, those that leave every message and every sender alone together.
LEMMA Steps ==
  ASSUME Next
  PROVE  \/ OtherSends \/ OtherReplies \/ MsgRecv \/ QuietStep
         \/ \E c \in Cpus : SendMsg(c) \/ PollReply(c) \/ CheckReply(c) \/ Callback(c)
         \/ \E c \in Cpus : TakeList(c) \/ HandleRequest(c) \/ HandleReply(c)
BY DEF Next, SenderStep, LazyStep, QuietStep

\* Everything holds initially.
LEMMA InitOK == Init => Shapes /\ FlowInv /\ NothingStranded
<1> SUFFICES ASSUME Init PROVE Shapes /\ FlowInv /\ NothingStranded
  OBVIOUS
<1>1. Shapes
  BY EmptySeq, MsgAssumption, SMTT(30) DEF Init, Shapes
<1>2. PlacesOK /\ AwaitedOK
  BY InEmpty, MessageFacts DEF Init, PlacesOK, AwaitedOK, OnItsWay
<1>3. BufferOK
  BY DEF Init, BufferOK
<1> QED
  BY <1>1, <1>2, <1>3 DEF Init, FlowInv, NothingStranded

\* Every step keeps the shapes of the state.
LEMMA ShapesStep == ASSUME Shapes, [Next]_vars PROVE Shapes'
<1> DEFINE G == Shapes'
<1> SUFFICES G
  OBVIOUS
<1> HIDE DEF G
<1>1. ASSUME OtherSends PROVE G
  <2> DEFINE e == [kind |-> "request", cpu |-> NicCpu, n |-> nreq + 1]
  <2>1. e \in Message
    BY <1>1, MsgAssumption DEF OtherSends, Message, Shapes
  <2>2. wire' = Append(wire, e) /\ wire \in Seq(Message)
    BY <1>1 DEF OtherSends, Shapes
  <2> HIDE DEF e
  <2>3. wire' \in Seq(Message)
    BY <2>1, <2>2, AppendProperties
  <2> QED
    BY <1>1, <2>3, MsgAssumption DEF OtherSends, Shapes, G, sender
<1>2. ASSUME OtherReplies PROVE G
  <2>1. PICK m \in asked : wire' = Append(wire, m) /\ asked' = asked \ {m}
    BY <1>2 DEF OtherReplies
  <2>2. m \in Message /\ wire \in Seq(Message)
    BY MessageFacts DEF Shapes
  <2>3. wire' \in Seq(Message)
    BY <2>1, <2>2, AppendProperties
  <2> QED
    BY <1>2, <2>1, <2>3 DEF OtherReplies, Shapes, G, sender
<1>3. ASSUME MsgRecv PROVE G
  <2>1. PICK m : m = Head(wire)
    OBVIOUS
  <2>2. wire \in Seq(Message) /\ wire # <<>>
    BY <1>3 DEF MsgRecv, Shapes
  <2>3. m \in Message /\ wire' \in Seq(Message)
    BY <1>3, <2>1, <2>2, HeadTailProperties DEF MsgRecv
  <2>4. m.cpu \in Cpus /\ recvq[m.cpu] \in Seq(Message)
    BY <2>3, MessageFacts DEF Shapes
  <2>5. Append(recvq[m.cpu], m) \in Seq(Message)
    BY <2>3, <2>4, AppendProperties
  <2>6. recvq' \in [Cpus -> Seq(Message)] /\ notify' \subseteq Cpus
    BY <1>3, <2>1, <2>4, <2>5 DEF MsgRecv, Shapes
  <2> QED
    BY <1>3, <2>3, <2>6 DEF MsgRecv, Shapes, G, sender
<1>4. ASSUME QuietStep PROVE G
  <2>1. CASE SendSgi
    BY <2>1 DEF SendSgi, Shapes, G, sender
  <2>2. CASE \E c \in Cpus : IrqStep(c)
    BY <2>2 DEF IrqStep, IrqEntry, IrqBodyDone, IrqExit, Shapes, G, sender
  <2>3. CASE \E c \in Cpus : LoopDone(c) \/ Again(c)
    BY <2>3 DEF LoopDone, Again, Shapes, G, sender
  <2> QED
    BY <1>4, <2>1, <2>2, <2>3 DEF QuietStep
<1>5. ASSUME NEW c \in Cpus, SendMsg(c) PROVE G
  <2>1. [kind |-> "reply", cpu |-> c, n |-> sends[c] + 1] \in Replies
    BY <1>5, MsgAssumption DEF SendMsg, Shapes, Replies
  <2> QED
    BY <1>5, <2>1, MsgAssumption DEF SendMsg, Shapes, G
<1>6. ASSUME NEW c \in Cpus, PollReply(c) \/ CheckReply(c) \/ Callback(c) PROVE G
  BY <1>6 DEF PollReply, CheckReply, Callback, Shapes, G
<1>7. ASSUME NEW c \in Cpus, TakeList(c) PROVE G
  BY <1>7, EmptySeq DEF TakeList, Shapes, G, sender
<1>8. ASSUME NEW c \in Cpus, HandleRequest(c) \/ HandleReply(c) PROVE G
  <2>1. list[c] \in Seq(Message) /\ list[c] # <<>>
    BY <1>8 DEF HandleRequest, HandleReply, Shapes
  <2>2. Head(list[c]) \in Message /\ Tail(list[c]) \in Seq(Message)
    BY <2>1, HeadTailProperties
  <2>3. HandleReply(c) => Head(list[c]) \in Replies
    BY <2>2, MessageFacts DEF HandleReply
  <2> QED
    BY <1>8, <2>2, <2>3 DEF HandleRequest, HandleReply, Shapes, G, sender
<1>9. ASSUME UNCHANGED vars PROVE G
  BY <1>9 DEF vars, sender, Shapes, G
<1> QED
  BY <1>1, <1>2, <1>3, <1>4, <1>5, <1>6, <1>7, <1>8, <1>9, Steps

\* A message enters a receive queue in an interrupt of its cpu or with an SGI to
\* come, and irq_entry and do_recv_waitqueue look at the queue before they leave.
LEMMA StrandedStep == ASSUME Shapes, NothingStranded, [Next]_vars PROVE NothingStranded'
<1> DEFINE G == NothingStranded'
<1> SUFFICES G
  OBVIOUS
<1> HIDE DEF G
<1>1. ASSUME OtherSends \/ OtherReplies PROVE G
  BY <1>1 DEF OtherSends, OtherReplies, NothingStranded, G, sender
<1>2. ASSUME MsgRecv PROVE G
  <2>1. PICK m : m = Head(wire)
    OBVIOUS
  <2>2. wire \in Seq(Message) /\ wire # <<>>
    BY <1>2 DEF MsgRecv, Shapes
  <2>3. m.cpu \in Cpus
    BY <2>1, <2>2, HeadTailProperties, MessageFacts
  <2>4. \A c \in Cpus : c # m.cpu => recvq'[c] = recvq[c]
    BY <1>2, <2>1, <2>3 DEF MsgRecv, Shapes
  <2>5. notify = {} /\ notify' = {m.cpu} \ {NicCpu} /\ irq[NicCpu] = "body"
    BY <1>2, <2>1 DEF MsgRecv
  <2> QED
    BY <1>2, <2>3, <2>4, <2>5 DEF MsgRecv, NothingStranded, G, sender
<1>3. ASSUME QuietStep PROVE G
  <2>1. CASE SendSgi
    BY <2>1 DEF SendSgi, NothingStranded, Shapes, G, sender
  <2>2. CASE \E c \in Cpus : IrqStep(c)
    BY <2>2 DEF IrqStep, IrqEntry, IrqBodyDone, IrqExit, NothingStranded, Shapes, G, sender
  <2>3. CASE \E c \in Cpus : LoopDone(c) \/ Again(c)
    BY <2>3 DEF LoopDone, Again, NothingStranded, Shapes, G, sender
  <2> QED
    BY <1>3, <2>1, <2>2, <2>3 DEF QuietStep
<1>4. ASSUME NEW c \in Cpus, SendMsg(c) \/ PollReply(c) \/ CheckReply(c) \/ Callback(c) PROVE G
  BY <1>4 DEF SendMsg, PollReply, CheckReply, Callback, NothingStranded, G
<1>5. ASSUME NEW c \in Cpus, TakeList(c) PROVE G
  BY <1>5 DEF TakeList, NothingStranded, Shapes, G, sender
<1>6. ASSUME NEW c \in Cpus, HandleRequest(c) \/ HandleReply(c) PROVE G
  BY <1>6 DEF HandleRequest, HandleReply, NothingStranded, G, sender
<1>7. ASSUME UNCHANGED vars PROVE G
  BY <1>7 DEF vars, sender, NothingStranded, G
<1> QED
  BY <1>1, <1>2, <1>3, <1>4, <1>5, <1>6, <1>7, Steps

\* No message is stranded in a receive queue: the unlocked looks at recv_waitq in
\* irq_entry and at the end of do_recv_waitqueue lose none (NothingStranded).
THEOREM NothingStrandedHolds == Spec => []NothingStranded
<1>1. Init => Shapes /\ NothingStranded
  BY InitOK
<1>2. Shapes /\ NothingStranded /\ [Next]_vars => (Shapes /\ NothingStranded)'
  BY ShapesStep, StrandedStep
<1> QED
  BY <1>1, <1>2, PTL DEF Spec

-----------------------------------------------------------------------------
(* Every reply is in one place.                                            *)

\* A step that moves no reply and leaves the senders alone.
LEMMA FlowKept ==
  ASSUME FlowInv, UNCHANGED <<asked, recvq, list, base, sends, replybuf, reply>>,
         \A m \in Replies : (In(m, wire') <=> In(m, wire)) /\ (Once(m, wire) => Once(m, wire'))
  PROVE  FlowInv'
BY DEF FlowInv, PlacesOK, AwaitedOK, BufferOK, OnItsWay, ReplyTo

\* A node answers: the reply goes from asked to the wire.
LEMMA OtherRepliesFlow == ASSUME Shapes, FlowInv, OtherReplies PROVE FlowInv'
<1>1. PICK k \in asked : wire' = Append(wire, k) /\ asked' = asked \ {k}
  BY DEF OtherReplies
<1>2. k \in Replies /\ k \in Message /\ wire \in Seq(Message)
  BY MessageFacts DEF Shapes
<1>3. ~In(k, wire)
  BY <1>2 DEF FlowInv, PlacesOK
<1>4. \A m \in Replies : /\ In(m, wire') <=> In(m, wire) \/ m = k
                         /\ Once(m, wire) => Once(m, wire')
  BY <1>1, <1>2, <1>3, InAppend
<1>5. UNCHANGED <<recvq, list, base, sends, replybuf, reply>>
  BY DEF OtherReplies, sender
<1>6. PlacesOK'
  BY <1>1, <1>2, <1>4, <1>5 DEF FlowInv, PlacesOK
<1>7. AwaitedOK'
  BY <1>1, <1>2, <1>4, <1>5 DEF FlowInv, AwaitedOK, OnItsWay
<1>8. BufferOK'
  BY <1>5 DEF FlowInv, BufferOK, ReplyTo
<1> QED
  BY <1>6, <1>7, <1>8 DEF FlowInv

\* msg_recv: a reply goes from the wire to the queue of the cpu that asked.
LEMMA MsgRecvFlow == ASSUME Shapes, FlowInv, MsgRecv PROVE FlowInv'
<1>1. PICK k : k = Head(wire)
  OBVIOUS
<1>2. wire \in Seq(Message) /\ wire # <<>> /\ wire' = Tail(wire)
  BY DEF MsgRecv, Shapes
<1>3. k \in Message /\ k.cpu \in Cpus /\ In(k, wire)
  BY <1>1, <1>2, HeadTailProperties, InHead, MessageFacts
<1>4. recvq[k.cpu] \in Seq(Message)
  BY <1>3 DEF Shapes
<1>5. /\ recvq'[k.cpu] = Append(recvq[k.cpu], k)
      /\ \A c \in Cpus : c # k.cpu => recvq'[c] = recvq[c]
  BY <1>1, <1>3 DEF MsgRecv, Shapes
<1>6. UNCHANGED <<asked, list, base, sends, replybuf, reply>>
  BY DEF MsgRecv, sender
<1>7. \A m \in Replies : /\ In(m, wire') => In(m, wire)
                         /\ Once(m, wire) => Once(m, wire')
                         /\ m = k => ~In(m, wire')
  BY <1>1, <1>2, InTail DEF FlowInv, PlacesOK
<1>8. \A m \in Replies :
        /\ In(m, recvq'[k.cpu]) <=> In(m, recvq[k.cpu]) \/ m = k
        /\ Once(m, recvq[k.cpu]) /\ (m = k => ~In(m, recvq[k.cpu])) => Once(m, recvq'[k.cpu])
  BY <1>3, <1>4, <1>5, InAppend
<1>9. \A m \in Replies : m = k => ~In(m, recvq[k.cpu]) /\ ~In(m, list[k.cpu]) /\ m \notin asked
  BY <1>3 DEF FlowInv, PlacesOK
<1>10. PlacesOK'
  <2> SUFFICES ASSUME NEW m \in Replies
               PROVE  /\ \A c \in Cpus : In(m, recvq'[c]) \/ In(m, list'[c]) => m.cpu = c
                      /\ Once(m, wire') /\ Once(m, recvq'[m.cpu]) /\ Once(m, list'[m.cpu])
                      /\ m \in asked' => ~In(m, wire')
                      /\ m \in asked' \/ In(m, wire') => ~In(m, recvq'[m.cpu])
                      /\ m \in asked' \/ In(m, wire') \/ In(m, recvq'[m.cpu])
                           => ~In(m, list'[m.cpu])
    BY DEF PlacesOK
  <2>1. m.cpu \in Cpus
    BY MessageFacts
  <2>2. CASE m.cpu = k.cpu
    BY <1>3, <1>5, <1>6, <1>7, <1>8, <1>9, <2>1, <2>2 DEF FlowInv, PlacesOK
  <2>3. CASE m.cpu # k.cpu
    BY <1>3, <1>5, <1>6, <1>7, <1>8, <1>9, <2>1, <2>3 DEF FlowInv, PlacesOK
  <2> QED
    BY <2>2, <2>3
<1>11. AwaitedOK'
  <2> SUFFICES ASSUME NEW m \in Replies, OnItsWay(m)'
               PROVE  OnItsWay(m)
    BY <1>6 DEF AwaitedOK, FlowInv
  <2>1. m.cpu \in Cpus
    BY MessageFacts
  <2> QED
    BY <1>3, <1>5, <1>6, <1>7, <1>8, <2>1 DEF OnItsWay
<1>12. BufferOK'
  BY <1>6 DEF FlowInv, BufferOK, ReplyTo
<1> QED
  BY <1>10, <1>11, <1>12 DEF FlowInv

\* __send_msg sends: nothing of an earlier request is left anywhere.
LEMMA SendMsgFlow == ASSUME Shapes, FlowInv, NEW c \in Cpus, SendMsg(c) PROVE FlowInv'
<1>1. PICK k : k = [kind |-> "reply", cpu |-> c, n |-> sends[c] + 1]
  OBVIOUS
<1>2. k \in Replies /\ k.cpu = c /\ k.n = sends[c] + 1
  BY <1>1, MsgAssumption DEF SendMsg, Shapes, Replies
<1>3. /\ asked' = asked \cup {k}
      /\ base[c] = "guest" /\ base'[c] = "wait" /\ sends'[c] = sends[c] + 1
      /\ \A d \in Cpus : d # c => base'[d] = base[d] /\ sends'[d] = sends[d]
      /\ UNCHANGED <<wire, recvq, list, replybuf, reply>>
  BY <1>1 DEF SendMsg, Shapes
<1>4. replybuf[c] = Null
  BY <1>3 DEF FlowInv, BufferOK
<1>5. \A m \in Replies : m.cpu = c => ~OnItsWay(m)
  BY <1>3 DEF FlowInv, AwaitedOK
<1>6. PlacesOK'
  BY <1>2, <1>3, <1>5 DEF FlowInv, PlacesOK, OnItsWay
<1>7. AwaitedOK'
  <2> SUFFICES ASSUME NEW m \in Replies, OnItsWay(m)'
               PROVE  base'[m.cpu] = "wait" /\ m.n = sends'[m.cpu] /\ replybuf'[m.cpu] = Null
    BY DEF AwaitedOK
  <2>1. m = k \/ OnItsWay(m)
    BY <1>3 DEF OnItsWay
  <2>2. m.cpu \in Cpus
    BY MessageFacts
  <2> QED
    BY <1>2, <1>3, <1>4, <1>5, <2>1, <2>2 DEF FlowInv, AwaitedOK
<1>8. BufferOK'
  BY <1>3, <1>4 DEF FlowInv, BufferOK, ReplyTo
<1> QED
  BY <1>6, <1>7, <1>8 DEF FlowInv

\* __send_msg leaves its loop, reads reply_buf again, clears it and calls back.
LEMMA SenderFlow ==
  ASSUME Shapes, FlowInv, ~MayTimeOut, NEW c \in Cpus,
         PollReply(c) \/ CheckReply(c) \/ Callback(c)
  PROVE  FlowInv'
<1>1. /\ UNCHANGED <<asked, wire, recvq, list, sends>>
      /\ \A d \in Cpus : d # c => /\ base'[d] = base[d]
                                  /\ replybuf'[d] = replybuf[d] /\ reply'[d] = reply[d]
  BY DEF PollReply, CheckReply, Callback, Shapes
<1>2. replybuf[c] # Null \/ base[c] # "wait"
  BY DEF PollReply, CheckReply, Callback
<1>3. \A m \in Replies : m.cpu = c => ~OnItsWay(m)
  BY <1>2 DEF FlowInv, AwaitedOK
<1>4. PlacesOK'
  BY <1>1 DEF FlowInv, PlacesOK
<1>5. AwaitedOK'
  <2> SUFFICES ASSUME NEW m \in Replies, OnItsWay(m)'
               PROVE  base'[m.cpu] = "wait" /\ m.n = sends'[m.cpu] /\ replybuf'[m.cpu] = Null
    BY DEF AwaitedOK
  <2>1. OnItsWay(m) /\ m.cpu \in Cpus
    BY <1>1, MessageFacts DEF OnItsWay
  <2> QED
    BY <1>1, <1>3, <2>1 DEF FlowInv, AwaitedOK
<1>6. BufferOK'
  <2> SUFFICES ASSUME NEW d \in Cpus
               PROVE  /\ replybuf'[d] # Null => /\ base'[d] \in {"wait", "check"}
                                                /\ replybuf'[d] = ReplyTo(d)
                      /\ base'[d] = "check" => replybuf'[d] # Null /\ reply'[d] = replybuf'[d]
                      /\ base'[d] = "callback" => reply'[d] = ReplyTo(d)
    BY <1>1 DEF BufferOK, ReplyTo
  <2>1. CASE d # c
    BY <1>1, <2>1 DEF FlowInv, BufferOK
  <2>2. CASE d = c /\ PollReply(c)
    <3>1. /\ replybuf[c] # Null /\ replybuf'[c] = replybuf[c]
          /\ reply'[c] = replybuf[c] /\ base'[c] = "check"
      BY <2>2 DEF PollReply, Shapes
    <3> QED
      BY <2>2, <3>1 DEF FlowInv, BufferOK
  <2>3. CASE d = c /\ CheckReply(c)
    <3>1. base[c] = "check" /\ replybuf'[c] = Null /\ reply'[c] = reply[c]
      BY <2>3 DEF CheckReply, Shapes
    <3>2. replybuf[c] # Null /\ reply[c] = ReplyTo(c)
      BY <3>1 DEF FlowInv, BufferOK
    <3>3. base'[c] = "callback"
      BY <2>3, <3>2 DEF CheckReply, Shapes
    <3> QED
      BY <2>3, <3>1, <3>2, <3>3
  <2>4. CASE d = c /\ Callback(c)
    <3>1. /\ base[c] = "callback" /\ base'[c] = "guest"
          /\ replybuf'[c] = replybuf[c]
      BY <2>4 DEF Callback, Shapes
    <3> QED
      BY <2>4, <3>1 DEF FlowInv, BufferOK
  <2> QED
    BY <2>1, <2>2, <2>3, <2>4
<1> QED
  BY <1>4, <1>5, <1>6 DEF FlowInv

\* do_recv_waitqueue takes the queue.
LEMMA TakeListFlow == ASSUME Shapes, FlowInv, NEW c \in Cpus, TakeList(c) PROVE FlowInv'
<1>1. /\ UNCHANGED <<asked, wire, base, sends, replybuf, reply>>
      /\ list'[c] = recvq[c] /\ recvq'[c] = <<>>
      /\ \A d \in Cpus : d # c => list'[d] = list[d] /\ recvq'[d] = recvq[d]
  BY DEF TakeList, Shapes, sender
<1>2. \A m \in Replies : ~In(m, recvq'[c]) /\ Once(m, recvq'[c])
  BY <1>1, InEmpty
<1>3. PlacesOK'
  <2> SUFFICES ASSUME NEW m \in Replies
               PROVE  /\ \A d \in Cpus : In(m, recvq'[d]) \/ In(m, list'[d]) => m.cpu = d
                      /\ Once(m, wire') /\ Once(m, recvq'[m.cpu]) /\ Once(m, list'[m.cpu])
                      /\ m \in asked' => ~In(m, wire')
                      /\ m \in asked' \/ In(m, wire') => ~In(m, recvq'[m.cpu])
                      /\ m \in asked' \/ In(m, wire') \/ In(m, recvq'[m.cpu])
                           => ~In(m, list'[m.cpu])
    BY DEF PlacesOK
  <2>1. m.cpu \in Cpus
    BY MessageFacts
  <2> QED
    BY <1>1, <1>2, <2>1 DEF FlowInv, PlacesOK
<1>4. AwaitedOK'
  <2> SUFFICES ASSUME NEW m \in Replies, OnItsWay(m)'
               PROVE  OnItsWay(m)
    BY <1>1 DEF AwaitedOK, FlowInv
  <2>1. m.cpu \in Cpus
    BY MessageFacts
  <2> QED
    BY <1>1, <1>2, <2>1 DEF OnItsWay
<1>5. BufferOK'
  BY <1>1 DEF FlowInv, BufferOK, ReplyTo
<1> QED
  BY <1>3, <1>4, <1>5 DEF FlowInv

\* A handler runs: a reply goes from the list to reply_buf and is nowhere else.
LEMMA HandleFlow ==
  ASSUME Shapes, FlowInv, NEW c \in Cpus, HandleRequest(c) \/ HandleReply(c)
  PROVE  FlowInv'
<1>1. PICK k : k = Head(list[c])
  OBVIOUS
<1>2. list[c] \in Seq(Message) /\ list[c] # <<>>
  BY DEF HandleRequest, HandleReply, Shapes
<1>3. k \in Message /\ In(k, list[c])
  BY <1>1, <1>2, HeadTailProperties, InHead
<1>4. /\ UNCHANGED <<asked, wire, recvq, base, sends, reply>>
      /\ list'[c] = Tail(list[c])
      /\ \A d \in Cpus : d # c => list'[d] = list[d] /\ replybuf'[d] = replybuf[d]
  BY DEF HandleRequest, HandleReply, Shapes, sender
<1>5. \A m \in Replies : /\ In(m, list'[c]) => In(m, list[c])
                         /\ Once(m, list[c]) => Once(m, list'[c])
                         /\ Once(m, list[c]) /\ m = k => ~In(m, list'[c])
  BY <1>1, <1>2, <1>4, InTail
<1>6. PlacesOK'
  <2> SUFFICES ASSUME NEW m \in Replies
               PROVE  /\ \A d \in Cpus : In(m, recvq'[d]) \/ In(m, list'[d]) => m.cpu = d
                      /\ Once(m, wire') /\ Once(m, recvq'[m.cpu]) /\ Once(m, list'[m.cpu])
                      /\ m \in asked' => ~In(m, wire')
                      /\ m \in asked' \/ In(m, wire') => ~In(m, recvq'[m.cpu])
                      /\ m \in asked' \/ In(m, wire') \/ In(m, recvq'[m.cpu])
                           => ~In(m, list'[m.cpu])
    BY DEF PlacesOK
  <2>1. m.cpu \in Cpus
    BY MessageFacts
  <2> QED
    BY <1>4, <1>5, <2>1 DEF FlowInv, PlacesOK
<1>7. \A m \in Replies : OnItsWay(m)' => OnItsWay(m)
  <2> SUFFICES ASSUME NEW m \in Replies, OnItsWay(m)'
               PROVE  OnItsWay(m)
    OBVIOUS
  <2>1. m.cpu \in Cpus
    BY MessageFacts
  <2> QED
    BY <1>4, <1>5, <2>1 DEF OnItsWay
<1>8. CASE HandleRequest(c)
  <2>1. replybuf' = replybuf
    BY <1>8 DEF HandleRequest
  <2>2. AwaitedOK'
    BY <1>4, <1>7, <2>1 DEF AwaitedOK, FlowInv
  <2>3. BufferOK'
    BY <1>4, <2>1 DEF FlowInv, BufferOK, ReplyTo
  <2> QED
    BY <1>6, <2>2, <2>3 DEF FlowInv
<1>9. CASE HandleReply(c)
  <2>1. k \in Replies /\ replybuf'[c] = k
    BY <1>1, <1>3, <1>9, MessageFacts DEF HandleReply, Shapes
  <2>2. k.cpu = c
    BY <1>3, <2>1 DEF FlowInv, PlacesOK
  <2>3. base[c] = "wait" /\ k.n = sends[c] /\ OnItsWay(k)
    BY <1>3, <2>1, <2>2 DEF FlowInv, AwaitedOK, OnItsWay
  <2>4. k = ReplyTo(c)
    BY <2>1, <2>2, <2>3, ReplyToIs
  <2>5. ~OnItsWay(k)'
    BY <1>3, <1>4, <1>5, <2>1, <2>2 DEF FlowInv, PlacesOK, OnItsWay
  <2>6. AwaitedOK'
    <3> SUFFICES ASSUME NEW m \in Replies, OnItsWay(m)'
                 PROVE  base'[m.cpu] = "wait" /\ m.n = sends'[m.cpu] /\ replybuf'[m.cpu] = Null
      BY DEF AwaitedOK
    <3>1. m.cpu \in Cpus /\ base[m.cpu] = "wait" /\ m.n = sends[m.cpu] /\ replybuf[m.cpu] = Null
      BY <1>7, MessageFacts DEF FlowInv, AwaitedOK
    <3>2. m.cpu # c
      BY <2>1, <2>2, <2>3, <2>5, <3>1, MessageFacts
    <3> QED
      BY <1>4, <3>1, <3>2
  <2>7. BufferOK'
    BY <1>4, <2>1, <2>3, <2>4 DEF FlowInv, BufferOK, ReplyTo
  <2> QED
    BY <1>6, <2>6, <2>7 DEF FlowInv
<1> QED
  BY <1>8, <1>9

\* Every step keeps the places of the replies, when no reply is late.
LEMMA FlowStep == ASSUME Shapes, FlowInv, ~MayTimeOut, [Next]_vars PROVE FlowInv'
<1> DEFINE G == FlowInv'
<1> SUFFICES G
  OBVIOUS
<1> HIDE DEF G
<1>1. ASSUME OtherSends PROVE G
  <2>1. PICK e : e = [kind |-> "request", cpu |-> NicCpu, n |-> nreq + 1]
    OBVIOUS
  <2>2. e \in Message /\ e.kind = "request"
    BY <1>1, <2>1, MsgAssumption DEF OtherSends, Message, Shapes
  <2>3. wire' = Append(wire, e) /\ wire \in Seq(Message)
    BY <1>1, <2>1 DEF OtherSends, Shapes
  <2>4. \A m \in Replies : m # e
    BY <2>2, MessageFacts
  <2>5. \A m \in Replies : (In(m, wire') <=> In(m, wire)) /\ (Once(m, wire) => Once(m, wire'))
    BY <2>2, <2>3, <2>4, InAppend
  <2>6. UNCHANGED <<asked, recvq, list, base, sends, replybuf, reply>>
    BY <1>1 DEF OtherSends, sender
  <2> QED
    BY <2>5, <2>6, FlowKept DEF G
<1>2. ASSUME QuietStep \/ UNCHANGED vars PROVE G
  <2>1. UNCHANGED <<asked, wire, recvq, list, base, sends, replybuf, reply>>
    BY <1>2 DEF QuietStep, IrqStep, SendSgi, IrqEntry, IrqBodyDone, IrqExit, LoopDone, Again,
                sender, vars
  <2> QED
    BY <2>1, FlowKept DEF G
<1>3. ASSUME OtherReplies \/ MsgRecv PROVE G
  BY <1>3, OtherRepliesFlow, MsgRecvFlow DEF G
<1>4. ASSUME NEW c \in Cpus, SendMsg(c) PROVE G
  BY <1>4, SendMsgFlow DEF G
<1>5. ASSUME NEW c \in Cpus, PollReply(c) \/ CheckReply(c) \/ Callback(c) PROVE G
  BY <1>5, SenderFlow DEF G
<1>6. ASSUME NEW c \in Cpus, TakeList(c) PROVE G
  BY <1>6, TakeListFlow DEF G
<1>7. ASSUME NEW c \in Cpus, HandleRequest(c) \/ HandleReply(c) PROVE G
  BY <1>7, HandleFlow DEF G
<1> QED
  BY <1>1, <1>2, <1>3, <1>4, <1>5, <1>6, <1>7, Steps

\* What the invariant says of set_reply_buf and of the reply callback.
LEMMA OwnReplyFrom == ASSUME Shapes, FlowInv PROVE OwnReply
<1> SUFFICES ASSUME NEW c \in Cpus
             PROVE  /\ list[c] # <<>> /\ Head(list[c]).kind = "reply" =>
                       /\ replybuf[c] = Null
                       /\ base[c] = "wait"
                       /\ Head(list[c]).cpu = c /\ Head(list[c]).n = sends[c]
                    /\ base[c] = "callback" => reply[c] = ReplyTo(c)
  BY DEF OwnReply, ReplyTo
<1>1. ASSUME list[c] # <<>>, Head(list[c]).kind = "reply"
      PROVE  /\ replybuf[c] = Null /\ base[c] = "wait"
             /\ Head(list[c]).cpu = c /\ Head(list[c]).n = sends[c]
  <2>1. list[c] \in Seq(Message)
    BY DEF Shapes
  <2>2. Head(list[c]) \in Replies /\ In(Head(list[c]), list[c])
    BY <1>1, <2>1, HeadTailProperties, InHead, MessageFacts
  <2>3. Head(list[c]).cpu = c
    BY <2>2 DEF FlowInv, PlacesOK
  <2> QED
    BY <2>2, <2>3 DEF FlowInv, AwaitedOK, OnItsWay
<1>2. base[c] = "callback" => reply[c] = ReplyTo(c)
  BY DEF FlowInv, BufferOK
<1> QED
  BY <1>1, <1>2

\* When replies come in time, set_reply_buf finds reply_buf empty and its cpu
\* waiting for this reply, and the callback gets the reply to the request just
\* sent (OwnReply).  A late reply breaks this: see MsgTimeout.cfg.
THEOREM OwnReplyHolds == ASSUME ~MayTimeOut PROVE Spec => []OwnReply
<1>1. Init => Shapes /\ FlowInv
  BY InitOK
<1>2. Shapes /\ FlowInv /\ [Next]_vars => (Shapes /\ FlowInv)'
  BY ShapesStep, FlowStep
<1>3. Shapes /\ FlowInv => OwnReply
  BY OwnReplyFrom
<1> QED
  BY <1>1, <1>2, <1>3, PTL DEF Spec
=============================================================================
