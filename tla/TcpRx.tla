-------------------------------- MODULE TcpRx -------------------------------
(***************************************************************************)
(* The receive path of an established TCP link: the edge triggered read    *)
(* loop of tcpio.c (tcp_rx) and the packet parser of tcpal.c               *)
(* (tcp_parse_pkt), which cuts the byte stream into the packets of the     *)
(* user's protocol template and builds those larger than TCP_BUFFER_SIZE   *)
(* in a buffer of their own (the large block).                             *)
(*                                                                         *)
(* A byte is represented by its position in the stream the peer sends, so  *)
(* a buffer is a sequence of positions and every memcpy is visible.        *)
(***************************************************************************)
EXTENDS Integers, Sequences

CONSTANTS
  Headers,                 \* header sizes of the templates, 0 for none
  TCP_BUFFER_SIZE,         \* tcp.h: 0x11000
  TCP_MAXIMUM_PACKET_SIZE, \* tcp.h: 50 MB
  NPackets,                \* packets the peer sends
  UserSizes                \* UserSizes[h]: lengths it may put in a header of
                           \* size h

ASSUME RxAssumption ==
  /\ Headers \subseteq Nat
  /\ TCP_BUFFER_SIZE \in Nat /\ \A h \in Headers : TCP_BUFFER_SIZE > h
  /\ TCP_MAXIMUM_PACKET_SIZE \in Nat
  /\ NPackets \in Nat
  /\ UserSizes \in [Headers -> SUBSET Nat]

VARIABLES
  cb_,        \* template.cb_, the size of the header
  FullyReceive,  \* LINKATTR_TCP_FULLY_RECEIVE: the user gets headers too
  sizes,      \* sizes[k]: user data of the k-th packet, as its header says
  arrived,    \* bytes that have reached the socket
  fin,        \* the peer has ended the stream
  edge,       \* an input event waits for epoll_wait
  taken,      \* bytes recv(2) has returned
  rpc,        \* the epoll thread: "wait", "recv", "parse", "closed"
  data,       \* what is left to parse of rx_buffer
  packet,     \* ncb->packet, filled up to rx_parse_offset
  lbdata,     \* the large block, filled up to lboffset
  lbsize,     \* its size, 0 when there is none
  delivered,  \* the buffers given to the user (ncb_post_recvdata)
  split       \* history: a large block has begun with part of its header lost

attr == <<cb_, FullyReceive>>
kern == <<attr, sizes, arrived, fin>>
parser == <<packet, lbdata, lbsize>>
vars == <<cb_, FullyReceive, sizes, arrived, fin, edge, taken, rpc, data,
          packet, lbdata, lbsize, delivered, split>>

-----------------------------------------------------------------------------
(***************************************************************************)
(* The stream of the peer.                                                 *)
(***************************************************************************)

(* A faulty variant: only one end of the range is looked at.               *)
BadSizeHigh(n) == n > TCP_MAXIMUM_PACKET_SIZE

(* Lengths the parser refuses.                                             *)
BadSize(n) == n > TCP_MAXIMUM_PACKET_SIZE \/ n <= 0

(* Begin[k] bytes precede packet k.                                        *)
Begin ==
  LET b[k \in 1 .. NPackets + 1] ==
        IF k = 1 THEN 0 ELSE b[k - 1] + cb_ + sizes[k - 1]
  IN b

Total == Begin[NPackets + 1]

Bytes(from, n) == [i \in 1 .. n |-> from + i]

(* What template.parser_ finds in a header: the length the peer wrote, or  *)
(* anything if these bytes are not a header.                               *)
Parsed(header) ==
  LET whole == {k \in 1 .. NPackets : header = Bytes(Begin[k], cb_)}
  IN IF whole # {} THEN {sizes[k] : k \in whole} ELSE UserSizes[cb_]

Init ==
  /\ cb_ \in Headers
  /\ FullyReceive \in BOOLEAN
  /\ sizes \in [1 .. NPackets -> UserSizes[cb_]]
  /\ arrived = 0
  /\ fin = FALSE
  /\ edge = FALSE
  /\ taken = 0
  /\ rpc = "wait"
  /\ data = << >>
  /\ packet = << >>
  /\ lbdata = << >>
  /\ lbsize = 0
  /\ delivered = << >>
  /\ split = FALSE

(* More of the stream arrives, or its end.                                 *)
Arrive ==
  /\ ~fin
  /\ \/ \E n \in 1 .. Total - arrived : arrived' = arrived + n /\ UNCHANGED fin
     \/ fin' = TRUE /\ UNCHANGED arrived
  /\ edge' = TRUE
  /\ UNCHANGED <<attr, sizes, taken, rpc, data, parser, delivered, split>>

(* ncb_deconstruct frees the buffers of a link that closes.                *)
Close ==
  /\ rpc' = "closed"
  /\ data' = << >>
  /\ packet' = << >>
  /\ lbdata' = << >>
  /\ lbsize' = 0
  /\ UNCHANGED delivered

-----------------------------------------------------------------------------
(***************************************************************************)
(* __iorun and tcp_rx.                                                     *)
(***************************************************************************)

(* EPOLLRDHUP closes the link whatever is still unread.                    *)
EpollIn ==
  /\ rpc = "wait" /\ edge /\ edge' = FALSE
  /\ IF fin THEN Close
     ELSE rpc' = "recv" /\ UNCHANGED <<data, parser, delivered>>
  /\ UNCHANGED <<kern, taken, split>>

(* recv(2) of up to TCP_BUFFER_SIZE bytes; without any, EAGAIN ends the    *)
(* loop and the end of the stream closes the link.                         *)
Recv ==
  /\ rpc = "recv"
  /\ \/ /\ \E n \in 1 .. TCP_BUFFER_SIZE :
             /\ n <= arrived - taken
             /\ data' = Bytes(taken, n)
             /\ taken' = taken + n
        /\ rpc' = "parse"
        /\ UNCHANGED <<parser, delivered>>
     \/ /\ arrived = taken
        /\ IF fin THEN Close
           ELSE rpc' = "wait" /\ UNCHANGED <<data, parser, delivered>>
        /\ UNCHANGED taken
  /\ UNCHANGED <<kern, edge, split>>

-----------------------------------------------------------------------------
(***************************************************************************)
(* tcp_parse_pkt, once per turn of the loop of __tcp_rx.                   *)
(***************************************************************************)

cpcb == Len(data)
rx_parse_offset == Len(packet)
lboffset == Len(lbdata)
ncb_lb_marked == lbsize > 0

FirstBytes(s, n) == SubSeq(s, 1, n)
Without(s, n) == SubSeq(s, n + 1, Len(s))

(* A faulty variant: one recv(2) for an event.                             *)
OverplusOnce(bytes) ==
  /\ data' = bytes
  /\ rpc' = IF bytes = << >> THEN "wait" ELSE "parse"

(* The parser returns and leaves these bytes for its next turn.            *)
Overplus(bytes) ==
  /\ data' = bytes
  /\ rpc' = IF bytes = << >> THEN "recv" ELSE "parse"

Parsing == rpc = "parse" /\ UNCHANGED <<kern, edge, taken>>

(* ncb_post_recvdata of a packet with its header.                          *)
Deliver(whole) ==
  delivered' = Append(delivered, IF FullyReceive THEN whole ELSE Without(whole, cb_))

(* No template: the bytes go to the user as they came.                     *)
ParseRaw ==
  /\ Parsing /\ cb_ = 0
  /\ delivered' = Append(delivered, data)
  /\ packet' = << >>
  /\ Overplus(<< >>)
  /\ UNCHANGED <<lbdata, lbsize>>

(* Faulty variants: the block waits for one byte more, or takes all there  *)
(* is.                                                                     *)
lb_complete_late == cpcb + lboffset > lbsize
lb_remain_all == cpcb

(* The large block can be completed, with so many bytes of data.           *)
lb_complete == cpcb + lboffset >= lbsize
lb_remain == lbsize - lboffset

(* __tcp_parse_marked_lb                                                   *)
ParseLargeBlock ==
  /\ Parsing /\ cb_ > 0 /\ ncb_lb_marked
  /\ IF ~lb_complete
     THEN /\ lbdata' = lbdata \o data
          /\ Overplus(<< >>)
          /\ UNCHANGED <<lbsize, delivered>>
     ELSE /\ Deliver(lbdata \o FirstBytes(data, lb_remain))
          /\ Overplus(Without(data, lb_remain))
          /\ lbdata' = << >>
          /\ lbsize' = 0
  /\ UNCHANGED packet

(* Not enough data for the header.                                         *)
ParseHeaderPart ==
  /\ Parsing /\ cb_ > 0 /\ ~ncb_lb_marked
  /\ rx_parse_offset + cpcb < cb_
  /\ packet' = packet \o data
  /\ Overplus(<< >>)
  /\ UNCHANGED <<lbdata, lbsize, delivered>>

(* The part of data that completes the header in ncb->packet.              *)
used == IF rx_parse_offset < cb_ THEN cb_ - rx_parse_offset ELSE 0

(* A header is read in ncb->packet.  Bound: none once a block has taken the*)
(* head of a packet, when whatever the user's parser says is arbitrary.    *)
ParseHeader(user_data_size) ==
  /\ Parsing /\ cb_ > 0 /\ ~ncb_lb_marked /\ ~split
  /\ rx_parse_offset + cpcb >= cb_
  /\ user_data_size \in Parsed(FirstBytes(packet \o FirstBytes(data, used), cb_))

(* A header whose length is refused, or no memory for the large block.     *)
ParseFails(n) ==
  /\ ParseHeader(n)
  /\ BadSize(n) \/ n + cb_ > TCP_BUFFER_SIZE
  /\ Close

(* A packet larger than the buffers: all of data is copied to a block of   *)
(* its own, but not what an earlier read has left in ncb->packet.          *)
ParseLargeBegin(n) ==
  /\ ParseHeader(n)
  /\ ~BadSize(n) /\ n + cb_ > TCP_BUFFER_SIZE
  /\ lbsize' = n + cb_
  /\ lbdata' = data
  /\ packet' = << >>
  /\ Overplus(<< >>)
  /\ UNCHANGED delivered

(* The rest of the packet is there and is delivered, or the data goes      *)
(* behind what is in the packet buffer.                                    *)
ParsePacket(n) ==
  LET total == n + cb_
      whole == packet \o data
  IN
  /\ ParseHeader(n)
  /\ ~BadSize(n) /\ total <= TCP_BUFFER_SIZE
  /\ IF Len(whole) >= total
     THEN /\ Deliver(FirstBytes(whole, total))
          /\ packet' = << >>
          /\ Overplus(Without(whole, total))
     ELSE /\ packet' = whole
          /\ Overplus(<< >>)
          /\ UNCHANGED delivered
  /\ UNCHANGED <<lbdata, lbsize>>

-----------------------------------------------------------------------------
tcp_parse_pkt ==
  /\ \/ ParseRaw \/ ParseLargeBlock \/ ParseHeaderPart
     \/ \E n \in UserSizes[cb_] : ParseFails(n) \/ ParseLargeBegin(n) \/ ParsePacket(n)
  /\ split' = (split \/ (packet # << >> /\ lbsize = 0 /\ lbsize' > 0))

RxStep == EpollIn \/ Recv \/ tcp_parse_pkt

Next == Arrive \/ RxStep

Spec == Init /\ [][Next]_vars

(* The epoll thread does not stop.                                         *)
FairSpec == Spec /\ WF_vars(RxStep)

-----------------------------------------------------------------------------
(* Every variable keeps its type; the length check of tcp_parse_pkt bounds *)
(* the large block.                                                        *)
TypeOK ==
  /\ cb_ \in Headers /\ FullyReceive \in BOOLEAN
  /\ sizes \in [1 .. NPackets -> UserSizes[cb_]]
  /\ arrived \in Nat /\ taken \in Nat
  /\ fin \in BOOLEAN /\ edge \in BOOLEAN /\ split \in BOOLEAN
  /\ rpc \in {"wait", "recv", "parse", "closed"}
  /\ data \in Seq(Nat)
  /\ packet \in Seq(Nat)
  /\ lbdata \in Seq(Nat)
  /\ lbsize \in 0 .. TCP_MAXIMUM_PACKET_SIZE + cb_
  /\ delivered \in Seq(Seq(Nat))

(* No memcpy of the parser writes outside its buffer: rx_buffer and packet *)
(* have TCP_BUFFER_SIZE bytes, the large block lbsize.                     *)
BufferBounds ==
  /\ TypeOK
  /\ Len(data) <= TCP_BUFFER_SIZE
  /\ Len(packet) <= TCP_BUFFER_SIZE
  /\ lbsize > 0 => Len(lbdata) < lbsize /\ packet = << >>
  /\ lbsize = 0 => lbdata = << >>

(* The k-th buffer the user gets is the k-th packet of the peer.           *)
PacketsExact ==
  cb_ > 0 /\ ~split =>
    \A k \in 1 .. Len(delivered) :
      /\ k <= NPackets
      /\ delivered[k] = IF FullyReceive
                        THEN Bytes(Begin[k], cb_ + sizes[k])
                        ELSE Bytes(Begin[k] + cb_, sizes[k])

(* Without a template the buffers are the stream, in order, without a gap. *)
StreamPreserved ==
  cb_ = 0 =>
    \A k \in 1 .. Len(delivered) :
      \A i \in 1 .. Len(delivered[k]) :
        delivered[k][i] = IF i > 1 THEN delivered[k][i - 1] + 1
                          ELSE IF k > 1 THEN delivered[k - 1][Len(delivered[k - 1])] + 1
                          ELSE 1

Malformed(k) == sizes[k] = 0 \/ sizes[k] > TCP_MAXIMUM_PACKET_SIZE

(* Packets the peer has sent whole among the first n bytes, up to the      *)
(* first one the parser must refuse.                                       *)
Complete(n) ==
  {k \in 1 .. NPackets : Begin[k + 1] <= n /\ \A j \in 1 .. k : ~Malformed(j)}

(* A complete packet is not kept back: once the parser has worked through  *)
(* what was received, the user has every complete packet.                  *)
NothingHeldBack ==
  rpc \in {"recv", "wait"} /\ cb_ > 0 /\ ~split =>
    \A k \in Complete(taken) : k <= Len(delivered)

(* The read loop leaves nothing behind that no event will announce: a      *)
(* reader that waits has read everything, or an edge is pending.           *)
NoLostInput == rpc = "wait" => taken = arrived \/ edge

(* However recv(2) cuts the stream, the user gets what the peer has sent,  *)
(* byte for byte, all of it and nothing else, and no input waits that no   *)
(* event announces - until a large block begins with a header that came in *)
(* two reads: tcp_parse_pkt copies the last read only (tcpal.c:113), and the *)
(* block takes the head of the next packet.                                *)
DeliveredExactly == PacketsExact /\ StreamPreserved /\ NothingHeldBack /\ NoLostInput

(* A packet that has arrived is delivered or the link is closed.           *)
EventuallyDelivered ==
  \A k \in 1 .. NPackets :
    (cb_ > 0 /\ k \in Complete(arrived)) ~> (Len(delivered) >= k \/ rpc = "closed" \/ split)

(* A malformed header is the end: nothing of that packet or of a later one *)
(* reaches the user.                                                       *)
MalformedCloses ==
  cb_ > 0 /\ ~split =>
    \A k \in 1 .. NPackets :
      Malformed(k) =>
        /\ Len(delivered) < k
        /\ taken >= Begin[k] + cb_ => rpc \notin {"recv", "wait"}
=============================================================================
