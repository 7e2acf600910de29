------------------------------- MODULE Iobuf -------------------------------
(***************************************************************************)
(* Network buffers (drivers/net.c), the Ethernet layer (drivers/ethernet.c)*)
(* and the part of msg_recv (core/msg.c) that finds a message's body in a  *)
(* received buffer.  A buffer is represented by its offsets: data and tail *)
(* are relative to head, len counts from data, body says whether a page is *)
(* attached and body_len how many of its bytes are used.                   *)
(*                                                                         *)
(* A frame on the wire is its number, the one it is addressed to and the   *)
(* bytes that follow the 64 bytes of Ethernet and message header.          *)
(***************************************************************************)
EXTENDS Integers

PAGESIZE   == 4096
EtherSize  == 14       \* sizeof(struct etherheader)
MsgHdrSize == 64       \* ETH_POCV2_MSG_HDR_SIZE, Ethernet header included
NULL       == [data |-> -1]

\* PAGESIZE: a page travels with the frame; to = "us": our address or the
\* broadcast address, and the protocol number of the cluster's messages;
\* to = "bad": damaged or fragmented, as its descriptor says; "peer": a frame
\* this node sends
Frame(ids) == [id : ids, to : {"us", "other", "bad", "peer"}, body : {0, PAGESIZE}]

FrameLen(f) == MsgHdrSize + f.body

alloc_iobuf_headsize(size, headsize) ==
  IF size < headsize
    THEN NULL
    ELSE [data |-> headsize, tail |-> size, len |-> size - headsize,
          body |-> FALSE, body_len |-> 0]

iobuf_push(b, size) ==
  IF b.data - size < 0 THEN NULL ELSE [b EXCEPT !.data = @ - size, !.len = @ + size]

iobuf_pull(b, size) ==
  IF b.data + size >= b.tail
    THEN NULL ELSE [b EXCEPT !.data = @ + size, !.len = @ - size]

\* __send_msg and ether_send_packet: a 64-byte buffer with room for the
\* Ethernet header, which is pushed in front, and a page for the body
SendBuffer(f) ==
  LET b == alloc_iobuf_headsize(MsgHdrSize, EtherSize)
  IN  [iobuf_push(b, EtherSize) EXCEPT !.body = f.body # 0, !.body_len = f.body]

\* ethernet_recv_intr and msg_recv: the Ethernet header is pulled; a buffer
\* that is still longer than a header holds the body behind the header and in
\* front of the frame check sequence, else the attached page is the body
RecvBody(b) ==
  LET p == iobuf_pull(b, EtherSize)
  IN  IF p.len > 64 THEN p.len - 54 ELSE IF p.body THEN p.body_len ELSE 0
=============================================================================
