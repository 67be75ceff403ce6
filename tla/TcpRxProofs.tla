---------------------------- MODULE TcpRxProofs -----------------------------
(***************************************************************************)
(* Proofs about the receive path, for any buffer size, any header sizes,   *)
(* any number of packets of any size, and any way recv(2) cuts the stream. *)
(***************************************************************************)
EXTENDS TcpRx, SublistsProofs, SequenceTheorems, TLAPS

(* The buffer the parser builds the next packet in, and that packet.       *)
Held == IF lbsize > 0 THEN lbdata ELSE packet

(* The packet that is being received.                                      *)
Now == Len(delivered) + 1

(* There is a template and the stream is in step with the packets.         *)
Framing == cb_ > 0 /\ ~split

(* Data is there exactly while the parser works on it; no more bytes are   *)
(* taken than have arrived.                                                *)
Turns ==
  /\ rpc = "parse" <=> data # << >>
  /\ taken <= arrived /\ arrived <= Total

(* What is held and what is left to parse are the bytes taken behind the   *)
(* packets delivered.                                                      *)
InFlight ==
  Framing /\ rpc # "closed" =>
    /\ Now <= NPackets + 1
    /\ Held = Bytes(Begin[Now], Len(Held))
    /\ data = Bytes(Begin[Now] + Len(Held), Len(data))
    /\ taken = Begin[Now] + Len(Held) + Len(data)

(* A packet whose header has been read is well-formed and not complete.    *)
Partial ==
  Framing /\ rpc # "closed" /\ (lbsize > 0 \/ Len(packet) >= cb_) =>
    /\ Now <= NPackets
    /\ ~Malformed(Now)
    /\ Len(Held) < cb_ + sizes[Now]
    /\ lbsize > 0 => lbsize = cb_ + sizes[Now]

(* The buffers given to the user are the well-formed packets, in order.    *)
Given ==
  Framing =>
    \A k \in 1 .. Len(delivered) :
      /\ k <= NPackets /\ ~Malformed(k)
      /\ delivered[k] = IF FullyReceive
                        THEN Bytes(Begin[k], cb_ + sizes[k])
                        ELSE Bytes(Begin[k] + cb_, sizes[k])

(* The last byte the user has got without a template.                      *)
LastGiven ==
  IF delivered = << >> THEN 0 ELSE delivered[Len(delivered)][Len(delivered[Len(delivered)])]

(* Without a template nothing is held, and what the user has and what is   *)
(* left to parse are the stream up to the bytes taken.                     *)
Unframed ==
  cb_ = 0 =>
    /\ lbsize = 0 /\ packet = << >>
    /\ \A k \in 1 .. Len(delivered) : Len(delivered[k]) > 0
    /\ StreamPreserved
    /\ LastGiven + Len(data) <= taken
    /\ rpc # "closed" => data = Bytes(LastGiven, Len(data)) /\ taken = LastGiven + Len(data)

(* What holds with a template.                                             *)
Framed == InFlight /\ Partial /\ Given

(* The inductive invariant.                                                *)
RxInv == BufferBounds /\ Turns /\ Framed /\ Unframed /\ NoLostInput

-----------------------------------------------------------------------------
(***************************************************************************)
(* Where the packets begin, and the bytes of the stream.                   *)
(***************************************************************************)

(* The equations of Begin for n packets.                                   *)
Starting(F, n) == F = [k \in 1 .. n + 1 |-> IF k = 1 THEN 0 ELSE F[k - 1] + cb_ + sizes[k - 1]]

(* The recursion of Begin has a solution for any number of packets.        *)
LEMMA StartExists == \A n \in Nat : \E F : Starting(F, n)
<1> DEFINE S == {n \in Nat : \E F : Starting(F, n)}
<1>1. 0 \in S
  <2>1. Starting([k \in 1 .. 0 + 1 |-> 0], 0)
    BY DEF Starting
  <2> QED
    BY <2>1
<1>2. ASSUME NEW n \in Nat, n \in S
      PROVE  n + 1 \in S
  <2>1. PICK F : Starting(F, n)
    BY <1>2
  <2> DEFINE G == [k \in 1 .. (n + 1) + 1 |-> IF k \in 1 .. n + 1 THEN F[k]
                                              ELSE F[n + 1] + cb_ + sizes[n + 1]]
  <2>2. \A k \in 1 .. n + 1 : G[k] = F[k]
    OBVIOUS
  <2>3. G[(n + 1) + 1] = G[n + 1] + cb_ + sizes[n + 1]
    BY <2>2
  <2>4. G = [k \in 1 .. (n + 1) + 1 |-> G[k]]
    OBVIOUS
  <2>5. \A k \in 1 .. n + 1 : F[k] = IF k = 1 THEN 0 ELSE F[k - 1] + cb_ + sizes[k - 1]
    BY <2>1 DEF Starting
  <2> HIDE DEF G
  <2>6. ASSUME NEW k \in 1 .. (n + 1) + 1
        PROVE  G[k] = IF k = 1 THEN 0 ELSE G[k - 1] + cb_ + sizes[k - 1]
    <3>1. CASE k = 1
      BY <3>1, <2>2, <2>5
    <3>2. CASE k \in 2 .. n + 1
      <4>1. k - 1 \in 1 .. n + 1 /\ k \in 1 .. n + 1 /\ k # 1
        BY <3>2
      <4> QED
        BY <4>1, <2>2, <2>5
    <3>3. CASE k = (n + 1) + 1
      <4>1. k # 1 /\ k - 1 = n + 1
        BY <3>3
      <4> QED
        BY <4>1, <2>3, <3>3
    <3> QED
      BY <3>1, <3>2, <3>3
  <2>7. Starting(G, n + 1)
    BY <2>4, <2>6 DEF Starting
  <2> QED
    BY <2>7
<1> HIDE DEF S
<1>3. \A n \in Nat : n \in S
  BY <1>1, <1>2, Induction
<1> QED
  BY <1>3 DEF S

(* The types of what describes the stream.                                 *)
Stream == cb_ \in Nat /\ sizes \in [1 .. NPackets -> Nat] /\ NPackets \in Nat

(* Each packet begins where the one before it ends.                        *)
LEMMA BeginWalks ==
  ASSUME Stream
  PROVE  /\ Begin[1] = 0
         /\ \A k \in 1 .. NPackets : Begin[k + 1] = Begin[k] + cb_ + sizes[k]
         /\ \A k \in 1 .. NPackets + 1 : Begin[k] \in Nat
<1>1. Starting(Begin, NPackets)
  <2> DEFINE F == CHOOSE F : F = [k \in 1 .. NPackets + 1 |->
                                    IF k = 1 THEN 0 ELSE F[k - 1] + cb_ + sizes[k - 1]]
  <2>1. \E G : Starting(G, NPackets)
    BY StartExists DEF Stream
  <2>2. Starting(F, NPackets)
    BY <2>1 DEF Starting
  <2>3. Begin = F
    BY DEF Begin
  <2> QED
    BY <2>2, <2>3
<1>2. Begin[1] = 0
  BY <1>1 DEF Starting, Stream
<1>3. ASSUME NEW k \in 1 .. NPackets
      PROVE  Begin[k + 1] = Begin[k] + cb_ + sizes[k]
  <2>1. k + 1 \in 1 .. NPackets + 1 /\ k + 1 # 1 /\ (k + 1) - 1 = k
    BY DEF Stream
  <2> QED
    BY <1>1, <2>1 DEF Starting
<1> DEFINE S == {n \in Nat : n + 1 <= NPackets + 1 => Begin[n + 1] \in Nat}
<1>4. 0 \in S
  BY <1>2
<1>5. ASSUME NEW n \in Nat, n \in S
      PROVE  n + 1 \in S
  <2> SUFFICES ASSUME (n + 1) + 1 <= NPackets + 1
               PROVE  Begin[(n + 1) + 1] \in Nat
    OBVIOUS
  <2>1. n + 1 \in 1 .. NPackets
    BY DEF Stream
  <2>2. Begin[n + 1] \in Nat /\ sizes[n + 1] \in Nat
    BY <1>5, <2>1 DEF Stream
  <2> QED
    BY <1>3, <2>1, <2>2 DEF Stream
<1> HIDE DEF S
<1>6. \A n \in Nat : n \in S
  BY <1>4, <1>5, Induction
<1>7. ASSUME NEW k \in 1 .. NPackets + 1
      PROVE  Begin[k] \in Nat
  <2>1. k - 1 \in Nat /\ (k - 1) + 1 = k /\ k <= NPackets + 1
    BY DEF Stream
  <2>2. k - 1 \in S
    BY <1>6, <2>1
  <2> QED
    BY <2>1, <2>2 DEF S
<1> QED
  BY <1>2, <1>3, <1>7

(* A later packet begins no earlier.                                       *)
LEMMA BeginGrows ==
  ASSUME Stream, NEW j \in 1 .. NPackets + 1
  PROVE  \A k \in 1 .. NPackets + 1 : j <= k => Begin[j] <= Begin[k]
<1> DEFINE S == {n \in Nat : j + n <= NPackets + 1 => Begin[j] <= Begin[j + n]}
<1>0. j \in Nat /\ j > 0 /\ Begin[j] \in Nat
  BY BeginWalks DEF Stream
<1>1. 0 \in S
  BY <1>0
<1>2. ASSUME NEW n \in Nat, n \in S
      PROVE  n + 1 \in S
  <2> SUFFICES ASSUME j + (n + 1) <= NPackets + 1
               PROVE  Begin[j] <= Begin[j + (n + 1)]
    OBVIOUS
  <2>1. /\ j + n \in 1 .. NPackets /\ j + n \in 1 .. NPackets + 1 /\ j + (n + 1) = (j + n) + 1
        /\ j + n <= NPackets + 1
    BY <1>0 DEF Stream
  <2>2. Begin[(j + n) + 1] = Begin[j + n] + cb_ + sizes[j + n] /\ Begin[j + n] \in Nat
    BY <2>1, BeginWalks
  <2>3. cb_ \in Nat /\ sizes[j + n] \in Nat
    BY <2>1 DEF Stream
  <2>4. Begin[j] <= Begin[j + n]
    BY <1>2, <2>1
  <2> QED
    BY <1>0, <2>1, <2>2, <2>3, <2>4
<1> HIDE DEF S
<1>3. \A n \in Nat : n \in S
  BY <1>1, <1>2, Induction
<1>4. ASSUME NEW k \in 1 .. NPackets + 1, j <= k
      PROVE  Begin[j] <= Begin[k]
  <2>1. k - j \in Nat /\ j + (k - j) = k /\ k <= NPackets + 1
    BY <1>0, <1>4 DEF Stream
  <2>2. k - j \in S
    BY <1>3, <2>1
  <2> QED
    BY <2>1, <2>2 DEF S
<1> QED
  BY <1>4

(* So a packet ends no later than the next ones begin.                     *)
LEMMA EndsBefore ==
  ASSUME Stream, NEW j \in 1 .. NPackets, NEW k \in 1 .. NPackets + 1, j < k
  PROVE  Begin[j] + cb_ + sizes[j] <= Begin[k]
<1>1. j + 1 \in 1 .. NPackets + 1 /\ j + 1 <= k
  BY DEF Stream
<1>2. Begin[j + 1] <= Begin[k]
  BY <1>1, BeginGrows
<1> QED
  BY <1>2, BeginWalks

(* A run of bytes of the stream, by its items.                             *)
LEMMA BytesAre ==
  ASSUME NEW a \in Nat, NEW n \in Nat
  PROVE  /\ Bytes(a, n) \in Seq(Nat) /\ Len(Bytes(a, n)) = n
         /\ \A i \in 1 .. n : Bytes(a, n)[i] = a + i
BY DEF Bytes

(* Two sequences with the same items are the same.                         *)
LEMMA SameItems ==
  ASSUME NEW s \in Seq(Nat), NEW t \in Seq(Nat), Len(s) = Len(t),
         \A i \in 1 .. Len(s) : s[i] = t[i]
  PROVE  s = t
BY SeqEqual

(* Putting one sequence behind another, by its items.                      *)
LEMMA ConcatIs ==
  ASSUME NEW s \in Seq(Nat), NEW t \in Seq(Nat)
  PROVE  /\ s \o t \in Seq(Nat) /\ Len(s \o t) = Len(s) + Len(t)
         /\ \A i \in 1 .. Len(s) + Len(t) :
              (s \o t)[i] = IF i <= Len(s) THEN s[i] ELSE t[i - Len(s)]
BY ConcatProperties

(* Bytes that follow each other in the stream.                             *)
LEMMA BytesJoin ==
  ASSUME NEW a \in Nat, NEW n \in Nat, NEW m \in Nat
  PROVE  Bytes(a, n) \o Bytes(a + n, m) = Bytes(a, n + m)
<1> DEFINE u == Bytes(a, n)
           v == Bytes(a + n, m)
           w == Bytes(a, n + m)
<1>1. /\ u \in Seq(Nat) /\ v \in Seq(Nat) /\ w \in Seq(Nat)
      /\ Len(u) = n /\ Len(v) = m /\ Len(w) = n + m
      /\ \A i \in 1 .. n : u[i] = a + i
      /\ \A i \in 1 .. m : v[i] = a + n + i
      /\ \A i \in 1 .. n + m : w[i] = a + i
  <2>1. a + n \in Nat /\ n + m \in Nat
    OBVIOUS
  <2> QED
    BY <2>1, BytesAre
<1> HIDE DEF u, v, w
<1>2. /\ u \o v \in Seq(Nat) /\ Len(u \o v) = n + m
      /\ \A i \in 1 .. n + m : (u \o v)[i] = IF i <= n THEN u[i] ELSE v[i - n]
  BY <1>1, ConcatIs
<1>3. ASSUME NEW i \in 1 .. n + m
      PROVE  (u \o v)[i] = w[i]
  <2>1. CASE i <= n
    BY <1>1, <1>2, <2>1
  <2>2. CASE ~(i <= n)
    <3>1. i - n \in 1 .. m
      BY <2>2
    <3> QED
      BY <1>1, <1>2, <2>2, <3>1, SMTT(30)
  <2> QED
    BY <2>1, <2>2
<1>4. u \o v = w
  BY <1>1, <1>2, <1>3, SameItems
<1> QED
  BY <1>4 DEF u, v, w

(* The first of them, and the rest.                                        *)
LEMMA BytesPart ==
  ASSUME NEW a \in Nat, NEW n \in Nat, NEW m \in 0 .. n
  PROVE  /\ FirstBytes(Bytes(a, n), m) = Bytes(a, m)
         /\ Without(Bytes(a, n), m) = Bytes(a + m, n - m)
<1> DEFINE u == Bytes(a, n)
           v == Bytes(a, m)
           w == Bytes(a + m, n - m)
<1>1. /\ u \in Seq(Nat) /\ v \in Seq(Nat) /\ w \in Seq(Nat)
      /\ Len(u) = n /\ Len(v) = m /\ Len(w) = n - m
      /\ \A i \in 1 .. n : u[i] = a + i
      /\ \A i \in 1 .. m : v[i] = a + i
      /\ \A i \in 1 .. n - m : w[i] = a + m + i
  <2>1. a + m \in Nat /\ n - m \in Nat /\ m \in Nat
    OBVIOUS
  <2> QED
    BY <2>1, BytesAre
<1> HIDE DEF u, v, w
<1>2. SubSeq(u, 1, m) = v
  <2>1. SubSeq(u, 1, m) \in Seq(Nat) /\ Len(SubSeq(u, 1, m)) = m
    BY <1>1
  <2>2. \A i \in 1 .. m : SubSeq(u, 1, m)[i] = v[i]
    BY <1>1
  <2> QED
    BY <1>1, <2>1, <2>2, SameItems
<1>3. SubSeq(u, m + 1, n) = w
  <2>1. SubSeq(u, m + 1, n) \in Seq(Nat) /\ Len(SubSeq(u, m + 1, n)) = n - m
    BY <1>1, SMTT(30)
  <2>2. \A i \in 1 .. n - m : SubSeq(u, m + 1, n)[i] = w[i]
    BY <1>1
  <2> QED
    BY <1>1, <2>1, <2>2, SameItems
<1> QED
  BY <1>1, <1>2, <1>3 DEF FirstBytes, Without, u, v, w

(* A run that is not empty begins at one place only.                       *)
LEMMA BytesFirstByte ==
  ASSUME NEW a \in Nat, NEW b \in Nat, NEW n \in Nat, n > 0, Bytes(a, n) = Bytes(b, n)
  PROVE  a = b
<1>1. \A i \in 1 .. n : Bytes(a, n)[i] = a + i
  BY BytesAre
<1>2. \A i \in 1 .. n : Bytes(b, n)[i] = b + i
  BY BytesAre
<1>3. 1 \in 1 .. n
  OBVIOUS
<1>4. a + 1 = b + 1
  BY <1>1, <1>2, <1>3
<1> QED
  BY <1>4

(* Cutting a sequence in two.                                              *)
LEMMA PartIs ==
  ASSUME NEW s \in Seq(Nat), NEW m \in 0 .. Len(s)
  PROVE  /\ FirstBytes(s, m) \in Seq(Nat) /\ Len(FirstBytes(s, m)) = m
         /\ Without(s, m) \in Seq(Nat) /\ Len(Without(s, m)) = Len(s) - m
BY DEF FirstBytes, Without

(* What is left behind a cut is bytes, also when nothing is left.          *)
LEMMA WithoutIs ==
  ASSUME NEW s \in Seq(Nat), NEW m \in Nat
  PROVE  Without(s, m) \in Seq(Nat)
<1>1. CASE m <= Len(s)
  BY <1>1, PartIs
<1>2. CASE ~(m <= Len(s))
  <2>1. Without(s, m) = << >>
    BY <1>2 DEF Without
  <2> QED
    BY <2>1
<1> QED
  BY <1>1, <1>2

-----------------------------------------------------------------------------
(***************************************************************************)
(* The buffers.                                                            *)
(***************************************************************************)

(* What stays the same in every step.                                      *)
LEMMA Fixed ==
  ASSUME RxAssumption, TypeOK, [Next]_vars
  PROVE  /\ UNCHANGED <<cb_, FullyReceive, sizes>>
         /\ Begin' = Begin
         /\ Stream
<1>1. UNCHANGED <<cb_, FullyReceive, sizes>>
  BY DEF Next, Arrive, RxStep, EpollIn, Recv, tcp_parse_pkt, ParseRaw, ParseLargeBlock,
         ParseHeaderPart, ParseHeader, ParseFails, ParseLargeBegin, ParsePacket, Parsing,
         kern, attr, vars
<1>2. Stream
  BY DEF Stream, TypeOK, RxAssumption
<1>3. Begin' = Begin
  BY <1>1 DEF Begin
<1> QED
  BY <1>1, <1>2, <1>3

(* A header that is read is that of the packet after those delivered, and  *)
(* its length is what the peer wrote.                                      *)
LEMMA ParsedIs ==
  ASSUME RxAssumption, BufferBounds, Turns, InFlight, NEW n, ParseHeader(n)
  PROVE  /\ Framing /\ rpc = "parse" /\ lbsize = 0 /\ Held = packet
         /\ Now \in 1 .. NPackets /\ n = sizes[Now]
<1> DEFINE b == Begin[Now]
           p == Len(packet)
           h == FirstBytes(packet \o FirstBytes(data, used), cb_)
<1>1. /\ Framing /\ rpc = "parse" /\ lbsize = 0 /\ Held = packet /\ cb_ \in Nat /\ cb_ > 0
      /\ packet \in Seq(Nat) /\ data \in Seq(Nat) /\ p \in Nat /\ Len(data) \in Nat
      /\ delivered \in Seq(Seq(Nat)) /\ p + Len(data) >= cb_ /\ n \in Parsed(h)
      /\ Stream /\ TypeOK
  BY DEF ParseHeader, Parsing, Framing, ncb_lb_marked, Held, BufferBounds, TypeOK, RxAssumption,
         rx_parse_offset, cpcb, Stream
<1>2. Now \in 1 .. NPackets + 1 /\ b \in Nat
  <2>1. Now \in Nat /\ Now >= 1 /\ Now <= NPackets + 1
    BY <1>1 DEF Now, InFlight
  <2> QED
    BY <1>1, <2>1, BeginWalks DEF Stream
<1>3. /\ packet = Bytes(b, p) /\ data = Bytes(b + p, Len(data))
      /\ taken = b + p + Len(data)
  BY <1>1 DEF InFlight
<1>4. Now \in 1 .. NPackets
  <2>1. Len(data) > 0
    BY <1>1, EmptySeq DEF Turns
  <2>2. taken \in Nat /\ arrived \in Nat /\ taken <= arrived /\ arrived <= Begin[NPackets + 1]
    BY <1>1 DEF Turns, Total, TypeOK
  <2>3. NPackets + 1 \in 1 .. NPackets + 1
    BY <1>1 DEF Stream
  <2>4. Begin[NPackets + 1] \in Nat
    BY <1>1, <2>3, BeginWalks
  <2>5. b < Begin[NPackets + 1]
    BY <1>1, <1>2, <1>3, <2>1, <2>2, <2>4, SMTT(30)
  <2>6. Now # NPackets + 1
    BY <2>4, <2>5
  <2> QED
    BY <1>1, <1>2, <2>6 DEF Stream
<1> HIDE DEF b, p
<1>5. h = Bytes(b, cb_)
  <2>1. used \in 0 .. Len(data) /\ cb_ \in 0 .. p + used /\ p + used \in Nat
    BY <1>1 DEF used, rx_parse_offset, p
  <2>2. FirstBytes(Bytes(b + p, Len(data)), used) = Bytes(b + p, used)
    <3>1. b + p \in Nat
      BY <1>1, <1>2
    <3> QED
      BY <1>1, <2>1, <3>1, BytesPart
  <2>3. FirstBytes(data, used) = Bytes(b + p, used)
    BY <1>3, <2>2
  <2>4. Bytes(b, p) \o Bytes(b + p, used) = Bytes(b, p + used)
    <3>1. used \in Nat /\ p \in Nat
      BY <1>1, <2>1 DEF p
    <3> HIDE DEF used
    <3> QED
      BY <1>2, <3>1, BytesJoin
  <2>5. FirstBytes(Bytes(b, p + used), cb_) = Bytes(b, cb_)
    BY <1>1, <1>2, <2>1, BytesPart
  <2> QED
    BY <1>3, <2>3, <2>4, <2>5
<1> DEFINE whole == {k \in 1 .. NPackets : h = Bytes(Begin[k], cb_)}
<1>6. Now \in whole
  BY <1>4, <1>5 DEF b
<1>7. ASSUME NEW k \in whole
      PROVE  k = Now
  <2>1. k \in 1 .. NPackets /\ k \in 1 .. NPackets + 1 /\ Bytes(Begin[k], cb_) = Bytes(b, cb_)
    BY <1>1, <1>5, <1>7 DEF Stream
  <2>2. Begin[k] \in Nat
    BY <1>1, <2>1, BeginWalks
  <2>3. Begin[k] = Begin[Now]
    BY <1>1, <1>2, <2>1, <2>2, BytesFirstByte DEF b
  <2>4. sizes[k] \in Nat /\ sizes[Now] \in Nat
    BY <1>1, <1>4, <2>1 DEF Stream
  <2>5. ~(k < Now)
    <3>1. k < Now => Begin[k] + cb_ + sizes[k] <= Begin[Now]
      BY <1>1, <1>2, <2>1, EndsBefore
    <3> QED
      BY <1>1, <2>2, <2>3, <2>4, <3>1
  <2>6. ~(Now < k)
    <3>1. Now < k => Begin[Now] + cb_ + sizes[Now] <= Begin[k]
      BY <1>1, <1>4, <2>1, EndsBefore
    <3> QED
      BY <1>1, <2>2, <2>3, <2>4, <3>1
  <2> QED
    BY <1>1, <1>4, <2>1, <2>5, <2>6 DEF Stream
<1> HIDE DEF h
<1>8. Parsed(h) = {sizes[k] : k \in whole}
  BY <1>6 DEF Parsed
<1> HIDE DEF whole
<1>9. n = sizes[Now]
  BY <1>1, <1>7, <1>8
<1> QED
  BY <1>1, <1>4, <1>9

(* The bounds of the three buffers.                                        *)
Buffers ==
  /\ Len(data) <= TCP_BUFFER_SIZE
  /\ Len(packet) <= TCP_BUFFER_SIZE
  /\ lbsize > 0 => Len(lbdata) < lbsize /\ packet = << >>
  /\ lbsize = 0 => lbdata = << >>

(* The variables a turn of the parser changes keep their types.            *)
Contents ==
  /\ data \in Seq(Nat) /\ packet \in Seq(Nat) /\ lbdata \in Seq(Nat)
  /\ lbsize \in 0 .. TCP_MAXIMUM_PACKET_SIZE + cb_
  /\ delivered \in Seq(Seq(Nat))
  /\ rpc \in {"wait", "recv", "parse", "closed"}

(* What the user gets of a packet is a sequence of bytes.                  *)
LEMMA DeliverKeeps ==
  ASSUME RxAssumption, TypeOK, NEW whole \in Seq(Nat), Deliver(whole)
  PROVE  delivered' \in Seq(Seq(Nat)) /\ Len(delivered') = Len(delivered) + 1
<1>1. cb_ \in Nat /\ delivered \in Seq(Seq(Nat))
  BY DEF TypeOK, RxAssumption
<1>2. (IF FullyReceive THEN whole ELSE Without(whole, cb_)) \in Seq(Nat)
  BY <1>1, WithoutIs
<1> QED
  BY <1>1, <1>2 DEF Deliver

(* An end of the parser's turn.                                            *)
LEMMA OverplusKeeps ==
  ASSUME RxAssumption, NEW bytes \in Seq(Nat), Len(bytes) <= TCP_BUFFER_SIZE, Overplus(bytes)
  PROVE  /\ data' \in Seq(Nat) /\ Len(data') <= TCP_BUFFER_SIZE
         /\ rpc' \in {"wait", "recv", "parse", "closed"}
         /\ rpc' = "parse" <=> data' # << >>
BY DEF Overplus

(* A link that closes gives its buffers back.                              *)
LEMMA CloseKeeps ==
  ASSUME RxAssumption, TypeOK, Close, cb_' = cb_
  PROVE  Buffers' /\ Contents'
BY DEF Close, Buffers, Contents, TypeOK, RxAssumption

(* A turn on the large block copies no more than it has room for.          *)
LEMMA LargeBlockBuffers ==
  ASSUME RxAssumption, BufferBounds, ParseLargeBlock
  PROVE  Buffers' /\ Contents' /\ (rpc' = "parse" <=> data' # << >>)
<1>1. /\ data \in Seq(Nat) /\ lbdata \in Seq(Nat) /\ packet \in Seq(Nat) /\ packet = << >>
      /\ lbsize \in Nat /\ lbsize > 0 /\ lbsize \in 0 .. TCP_MAXIMUM_PACKET_SIZE + cb_
      /\ Len(lbdata) < lbsize /\ Len(data) <= TCP_BUFFER_SIZE
      /\ packet' = packet /\ cb_' = cb_ /\ cb_ \in Nat
      /\ TCP_BUFFER_SIZE \in Nat /\ TCP_MAXIMUM_PACKET_SIZE \in Nat
      /\ delivered \in Seq(Seq(Nat)) /\ TypeOK
  BY DEF BufferBounds, TypeOK, ParseLargeBlock, Parsing, kern, attr, ncb_lb_marked, RxAssumption
<1>2. CASE ~lb_complete
  <2>1. Overplus(<< >>) /\ lbdata' = lbdata \o data /\ UNCHANGED <<lbsize, delivered>>
    BY <1>2 DEF ParseLargeBlock
  <2>2. << >> \in Seq(Nat) /\ Len(<< >>) <= TCP_BUFFER_SIZE
    BY <1>1
  <2>3. lbdata' \in Seq(Nat) /\ Len(lbdata') < lbsize
    BY <1>1, <1>2, <2>1, ConcatIs DEF lb_complete, cpcb, lboffset
  <2>4. UNCHANGED <<lbsize, delivered>>
    BY <2>1
  <2>5. /\ data' \in Seq(Nat) /\ Len(data') <= TCP_BUFFER_SIZE
        /\ rpc' \in {"wait", "recv", "parse", "closed"}
        /\ rpc' = "parse" <=> data' # << >>
    BY <2>1, <2>2, OverplusKeeps
  <2> QED
    BY <1>1, <2>3, <2>4, <2>5 DEF Buffers, Contents
<1>3. CASE lb_complete
  <2>1. lb_remain \in 0 .. Len(data)
    BY <1>1, <1>3 DEF lb_complete, cpcb, lboffset, lb_remain
  <2>2. /\ Deliver(lbdata \o FirstBytes(data, lb_remain)) /\ Overplus(Without(data, lb_remain))
        /\ lbdata' = << >> /\ lbsize' = 0
    BY <1>3 DEF ParseLargeBlock
  <2>3. /\ FirstBytes(data, lb_remain) \in Seq(Nat) /\ Without(data, lb_remain) \in Seq(Nat)
        /\ Len(Without(data, lb_remain)) <= TCP_BUFFER_SIZE
    BY <1>1, <2>1, PartIs
  <2>4. lbdata \o FirstBytes(data, lb_remain) \in Seq(Nat)
    BY <1>1, <2>3
  <2>5. delivered' \in Seq(Seq(Nat))
    BY <1>1, <2>2, <2>4, DeliverKeeps
  <2>6. << >> \in Seq(Nat) /\ 0 \in 0 .. TCP_MAXIMUM_PACKET_SIZE + cb_
    BY <1>1
  <2> QED
    BY <1>1, <2>2, <2>3, <2>5, <2>6, OverplusKeeps DEF Buffers, Contents
<1> QED
  BY <1>2, <1>3

(* A turn without a large block.                                           *)
LEMMA PacketBuffers ==
  ASSUME RxAssumption, BufferBounds, Turns, InFlight, Partial, NEW n \in Nat,
         ParseRaw \/ ParseHeaderPart \/ ParseLargeBegin(n) \/ ParsePacket(n)
  PROVE  Buffers' /\ Contents' /\ (rpc' = "parse" <=> data' # << >>)
<1>1. /\ data \in Seq(Nat) /\ lbdata \in Seq(Nat) /\ packet \in Seq(Nat) /\ lbsize \in Nat
      /\ Len(data) <= TCP_BUFFER_SIZE /\ Len(packet) <= TCP_BUFFER_SIZE
      /\ TCP_BUFFER_SIZE \in Nat /\ TCP_MAXIMUM_PACKET_SIZE \in Nat
      /\ delivered \in Seq(Seq(Nat)) /\ TypeOK /\ cb_ \in Nat /\ cb_ < TCP_BUFFER_SIZE
      /\ lbsize \in 0 .. TCP_MAXIMUM_PACKET_SIZE + cb_ /\ Buffers
  BY DEF BufferBounds, TypeOK, RxAssumption, Buffers
<1>2. cb_' = cb_
  BY DEF ParseRaw, ParseHeaderPart, ParseLargeBegin, ParsePacket, ParseHeader, Parsing, kern, attr
<1>3. << >> \in Seq(Nat) /\ Len(<< >>) = 0 /\ 0 \in 0 .. TCP_MAXIMUM_PACKET_SIZE + cb_
  BY <1>1
<1>4. packet \o data \in Seq(Nat) /\ Len(packet \o data) = Len(packet) + Len(data)
  BY <1>1, ConcatIs
<1> DEFINE whole == packet \o data
<1>e. Overplus(<< >>) => /\ data' \in Seq(Nat) /\ Len(data') <= TCP_BUFFER_SIZE
                         /\ rpc' \in {"wait", "recv", "parse", "closed"}
                         /\ rpc' = "parse" <=> data' # << >>
  <2>1. << >> \in Seq(Nat) /\ Len(<< >>) <= TCP_BUFFER_SIZE
    BY <1>1, <1>3
  <2> QED
    BY <2>1, OverplusKeeps
<1>w. whole \in Seq(Nat) /\ Len(whole) = Len(packet) + Len(data)
  BY <1>4
<1>5. CASE ParseRaw
  <2>1. /\ delivered' = Append(delivered, data) /\ packet' = << >> /\ Overplus(<< >>)
        /\ UNCHANGED <<lbdata, lbsize>>
    BY <1>5 DEF ParseRaw
  <2>2. delivered' \in Seq(Seq(Nat))
    BY <1>1, <2>1
  <2> QED
    BY <1>1, <1>2, <1>3, <2>1, <2>2, OverplusKeeps DEF Buffers, Contents
<1>6. CASE ParseHeaderPart
  <2>1. /\ packet' = whole /\ Overplus(<< >>) /\ UNCHANGED <<lbdata, lbsize, delivered>>
        /\ lbsize = 0 /\ Len(packet) + Len(data) < cb_
    BY <1>1, <1>6 DEF ParseHeaderPart, ncb_lb_marked, rx_parse_offset, cpcb
  <2> HIDE DEF whole
  <2>2. packet' \in Seq(Nat) /\ Len(packet') <= TCP_BUFFER_SIZE
    BY <1>1, <1>w, <2>1
  <2> QED
    BY <1>1, <1>2, <1>e, <2>1, <2>2 DEF Buffers, Contents
<1>7. CASE ParseLargeBegin(n)
  <2>1. /\ lbsize' = n + cb_ /\ lbdata' = data /\ packet' = << >> /\ Overplus(<< >>)
        /\ UNCHANGED delivered
        /\ ~BadSize(n) /\ n + cb_ > TCP_BUFFER_SIZE
    BY <1>7 DEF ParseLargeBegin
  <2>2. n + cb_ \in 0 .. TCP_MAXIMUM_PACKET_SIZE + cb_ /\ n + cb_ > Len(data) /\ n + cb_ > 0
    BY <1>1, <2>1 DEF BadSize
  <2> QED
    BY <1>1, <1>2, <1>3, <2>1, <2>2, OverplusKeeps DEF Buffers, Contents
<1>8. CASE ParsePacket(n)
  <2> DEFINE total == n + cb_
  <2>1. /\ total \in Nat /\ total <= TCP_BUFFER_SIZE /\ UNCHANGED <<lbdata, lbsize>> /\ lbsize = 0
    BY <1>1, <1>8 DEF ParsePacket, ParseHeader, ncb_lb_marked
  <2>2. CASE Len(whole) >= total
    <3>1. /\ Deliver(FirstBytes(whole, total)) /\ packet' = << >>
          /\ Overplus(Without(whole, total))
      BY <1>8, <2>2 DEF ParsePacket
    <3> HIDE DEF whole, total
    <3>2. whole \in Seq(Nat) /\ Len(whole) = Len(packet) + Len(data)
      BY <1>w
    <3>3. total \in 0 .. Len(whole)
      BY <2>1, <2>2, <3>2, <1>1
    <3>4. /\ FirstBytes(whole, total) \in Seq(Nat) /\ Without(whole, total) \in Seq(Nat)
          /\ Len(Without(whole, total)) = Len(whole) - total
      BY <3>2, <3>3, PartIs
    <3>5. Len(Without(whole, total)) <= TCP_BUFFER_SIZE
      <4>1. Len(packet) <= total
        <5>1. /\ Framing /\ rpc = "parse" /\ Held = packet /\ n = sizes[Now]
          BY <1>8, ParsedIs DEF ParsePacket
        <5>2. Len(packet) >= cb_ => Len(packet) < cb_ + n
          BY <5>1 DEF Partial
        <5> QED
          BY <1>1, <5>2 DEF total
      <4> QED
        BY <1>1, <2>1, <3>2, <3>4, <4>1
    <3>6. delivered' \in Seq(Seq(Nat))
      BY <1>1, <3>1, <3>4, DeliverKeeps
    <3> QED
      BY <1>1, <1>2, <1>3, <2>1, <3>1, <3>4, <3>5, <3>6, OverplusKeeps DEF Buffers, Contents
  <2>3. CASE ~(Len(whole) >= total)
    <3>1. packet' = whole /\ Overplus(<< >>) /\ UNCHANGED delivered
      BY <1>8, <2>3 DEF ParsePacket
    <3> HIDE DEF whole, total
    <3>2. packet' \in Seq(Nat) /\ Len(packet') <= TCP_BUFFER_SIZE
      BY <1>1, <1>w, <2>1, <2>3, <3>1
    <3> QED
      BY <1>1, <1>2, <1>e, <2>1, <3>1, <3>2 DEF Buffers, Contents
  <2> QED
    BY <2>2, <2>3
<1> QED
  BY <1>5, <1>6, <1>7, <1>8

(* One turn of the parser.                                                 *)
LEMMA ParserBuffers ==
  ASSUME RxAssumption, BufferBounds, Turns, InFlight, Partial, tcp_parse_pkt
  PROVE  Buffers' /\ Contents' /\ (rpc' = "parse" <=> data' # << >>)
<1>1. CASE ParseRaw \/ ParseHeaderPart
  <2>1. 0 \in Nat
    OBVIOUS
  <2> QED
    BY <1>1, <2>1, PacketBuffers
<1>2. CASE ParseLargeBlock
  BY <1>2, LargeBlockBuffers
<1>3. ASSUME NEW n \in UserSizes[cb_], ParseFails(n) \/ ParseLargeBegin(n) \/ ParsePacket(n)
      PROVE  Buffers' /\ Contents' /\ (rpc' = "parse" <=> data' # << >>)
  <2>1. n \in Nat /\ TypeOK
    BY DEF BufferBounds, TypeOK, RxAssumption
  <2>2. CASE ParseFails(n)
    <3>1. Close /\ cb_' = cb_
      BY <2>2 DEF ParseFails, ParseHeader, Parsing, kern, attr
    <3>2. rpc' = "closed" /\ data' = << >>
      BY <3>1 DEF Close
    <3> QED
      BY <2>1, <3>1, <3>2, CloseKeeps
  <2> QED
    BY <1>3, <2>1, <2>2, PacketBuffers
<1> QED
  BY <1>1, <1>2, <1>3 DEF tcp_parse_pkt

(* The parser is never left with nothing to parse, or left before it has   *)
(* parsed all it has; and no input waits that no event announces.          *)
LEMMA StepBuffers ==
  ASSUME RxAssumption, BufferBounds, Turns, InFlight, Partial, NoLostInput, [Next]_vars
  PROVE  BufferBounds' /\ Turns' /\ NoLostInput'
<1>1. /\ UNCHANGED <<cb_, FullyReceive, sizes>> /\ Total' = Total /\ TypeOK /\ Buffers
      /\ Total \in Nat
  <2>1. TypeOK /\ Buffers
    BY DEF BufferBounds, Buffers
  <2>2. Stream /\ NPackets + 1 \in 1 .. NPackets + 1
    BY <2>1, Fixed DEF Stream
  <2>3. Total \in Nat
    BY <2>2, BeginWalks DEF Total
  <2> QED
    BY <2>1, <2>3, Fixed DEF Total
<1>2. ASSUME Buffers', Contents', arrived' \in Nat, taken' \in Nat, fin' \in BOOLEAN,
             edge' \in BOOLEAN, split' \in BOOLEAN
      PROVE  BufferBounds'
  BY <1>1, <1>2 DEF BufferBounds, Buffers, Contents, TypeOK
<1>3. Contents
  BY <1>1 DEF TypeOK, Contents
<1>4. CASE Arrive
  <2>1. /\ UNCHANGED <<taken, rpc, data, packet, lbdata, lbsize, delivered, split>>
        /\ edge' = TRUE /\ fin' \in BOOLEAN
    BY <1>1, <1>4 DEF Arrive, parser, TypeOK
  <2>2. arrived' \in Nat /\ arrived <= arrived' /\ arrived' <= Total
    BY <1>1, <1>4 DEF Arrive, TypeOK, Turns
  <2>3. Turns'
    BY <1>1, <2>1, <2>2 DEF Turns, TypeOK
  <2>4. Buffers' /\ Contents'
    BY <1>1, <1>3, <2>1 DEF Buffers, Contents
  <2> QED
    BY <1>1, <1>2, <2>1, <2>2, <2>3, <2>4 DEF NoLostInput, TypeOK
<1>5. CASE EpollIn
  <2>1. /\ UNCHANGED <<arrived, taken, fin, split>> /\ edge' = FALSE /\ rpc = "wait"
        /\ rpc' \in {"recv", "closed"}
    BY <1>5 DEF EpollIn, kern, Close
  <2>2. data = << >>
    BY <2>1 DEF Turns
  <2>3. data' = << >>
    BY <1>5, <2>2 DEF EpollIn, Close
  <2>4. Turns'
    BY <1>1, <2>1, <2>3 DEF Turns
  <2>5. Buffers' /\ Contents'
    <3>1. CASE Close
      BY <1>1, <3>1, CloseKeeps
    <3>2. CASE UNCHANGED <<data, parser, delivered>>
      BY <1>1, <1>3, <2>1, <3>2 DEF Buffers, Contents, parser
    <3> QED
      BY <1>5, <3>1, <3>2 DEF EpollIn
  <2> QED
    BY <1>1, <1>2, <2>1, <2>4, <2>5 DEF NoLostInput, TypeOK
<1>6. CASE Recv
  <2>1. rpc = "recv" /\ UNCHANGED <<arrived, fin, edge, split>> /\ data = << >>
    BY <1>6 DEF Recv, kern, Turns
  <2>2. CASE \E n \in 1 .. TCP_BUFFER_SIZE :
               n <= arrived - taken /\ data' = Bytes(taken, n) /\ taken' = taken + n
    <3>1. PICK n \in 1 .. TCP_BUFFER_SIZE :
               n <= arrived - taken /\ data' = Bytes(taken, n) /\ taken' = taken + n
      BY <2>2
    <3>2. n \in Nat /\ n > 0 /\ n <= TCP_BUFFER_SIZE /\ taken \in Nat /\ arrived \in Nat
      BY <1>1 DEF TypeOK, RxAssumption
    <3>3. data' \in Seq(Nat) /\ Len(data') = n
      BY <3>1, <3>2, BytesAre
    <3>4. data' # << >>
      BY <3>2, <3>3
    <3>5. rpc' = "parse" /\ UNCHANGED <<packet, lbdata, lbsize, delivered>>
      <4>1. ~(arrived = taken)
        BY <3>1, <3>2
      <4> QED
        BY <1>6, <4>1 DEF Recv, parser
    <3>6. Turns'
      BY <1>1, <2>1, <3>1, <3>2, <3>4, <3>5 DEF Turns
    <3>7. Buffers' /\ Contents'
      BY <1>1, <1>3, <3>2, <3>3, <3>5 DEF Buffers, Contents
    <3> QED
      BY <1>1, <1>2, <2>1, <3>1, <3>2, <3>5, <3>6, <3>7 DEF NoLostInput, TypeOK
  <2>3. CASE /\ arrived = taken /\ UNCHANGED taken
             /\ IF fin THEN Close ELSE rpc' = "wait" /\ UNCHANGED <<data, parser, delivered>>
    <3>1. data' = << >> /\ rpc' \in {"wait", "closed"}
      BY <2>1, <2>3 DEF Close
    <3>2. Turns'
      BY <1>1, <2>1, <2>3, <3>1 DEF Turns
    <3>3. Buffers' /\ Contents'
      <4>1. CASE Close
        BY <1>1, <4>1, CloseKeeps
      <4>2. CASE UNCHANGED <<data, parser, delivered>>
        BY <1>1, <1>3, <3>1, <4>2 DEF Buffers, Contents, parser
      <4> QED
        BY <2>3, <4>1, <4>2
    <3> QED
      BY <1>1, <1>2, <2>1, <2>3, <3>2, <3>3 DEF NoLostInput, TypeOK
  <2> QED
    BY <1>6, <2>2, <2>3 DEF Recv
<1>7. CASE tcp_parse_pkt
  <2>1. /\ UNCHANGED <<arrived, taken, fin, edge>> /\ split' \in BOOLEAN
        /\ rpc' # "wait"
    BY <1>1, <1>7 DEF tcp_parse_pkt, ParseRaw, ParseLargeBlock, ParseHeaderPart, ParseHeader,
         ParseFails, ParseLargeBegin, ParsePacket, Parsing, kern, Overplus, Close, TypeOK
  <2>2. Buffers' /\ Contents' /\ (rpc' = "parse" <=> data' # << >>)
    BY <1>7, ParserBuffers
  <2> QED
    BY <1>1, <1>2, <2>1, <2>2 DEF Turns, NoLostInput, TypeOK
<1>8. CASE UNCHANGED vars
  BY <1>1, <1>2, <1>3, <1>8 DEF vars, attr, Buffers, Contents, Turns, NoLostInput, TypeOK
<1> QED
  BY <1>4, <1>5, <1>6, <1>7, <1>8 DEF Next, RxStep

-----------------------------------------------------------------------------
(***************************************************************************)
(* The packets of a template.                                              *)
(***************************************************************************)
(* What the invariants say of the packet that is being built.              *)
LEMMA NowFacts ==
  ASSUME RxAssumption, BufferBounds, Turns, InFlight, Framing, rpc # "closed"
  PROVE  /\ Now \in 1 .. NPackets + 1 /\ Begin[Now] \in Nat
         /\ cb_ \in Nat /\ cb_ > 0
         /\ Held \in Seq(Nat) /\ Len(Held) \in Nat /\ Len(data) \in Nat
         /\ Held = Bytes(Begin[Now], Len(Held))
         /\ data = Bytes(Begin[Now] + Len(Held), Len(data))
         /\ taken = Begin[Now] + Len(Held) + Len(data)
         /\ Held \o data = Bytes(Begin[Now], Len(Held) + Len(data))
<1>1. /\ cb_ \in Nat /\ cb_ > 0 /\ Stream /\ Held \in Seq(Nat) /\ data \in Seq(Nat)
      /\ delivered \in Seq(Seq(Nat))
  BY DEF BufferBounds, TypeOK, RxAssumption, Framing, Stream, Held
<1>2. Now \in 1 .. NPackets + 1
  BY <1>1 DEF InFlight, Now, Stream
<1>3. Begin[Now] \in Nat
  BY <1>1, <1>2, BeginWalks
<1>4. /\ Held = Bytes(Begin[Now], Len(Held))
      /\ data = Bytes(Begin[Now] + Len(Held), Len(data))
      /\ taken = Begin[Now] + Len(Held) + Len(data)
  BY DEF InFlight
<1>5. Len(Held) \in Nat /\ Len(data) \in Nat
  BY <1>1
<1>6. Bytes(Begin[Now], Len(Held)) \o Bytes(Begin[Now] + Len(Held), Len(data))
        = Bytes(Begin[Now], Len(Held) + Len(data))
  BY <1>3, <1>5, BytesJoin
<1> QED
  BY <1>1, <1>2, <1>3, <1>4, <1>5, <1>6

(* A step the parser has no part in, or that closes the link.              *)
LEMMA QuietFramed ==
  ASSUME Framed, UNCHANGED <<cb_, FullyReceive, sizes, delivered, split>>, Begin' = Begin,
         rpc' = "closed" \/ (rpc # "closed" /\ UNCHANGED <<packet, lbdata, lbsize, data, taken>>)
  PROVE  Framed'
<1>1. Framing' = Framing /\ Now' = Now /\ \A k : Malformed(k)' = Malformed(k)
  BY DEF Framing, Now, Malformed
<1>2. Given'
  BY <1>1 DEF Framed, Given, Bytes, Malformed
<1>3. CASE rpc' = "closed"
  BY <1>2, <1>3 DEF Framed, InFlight, Partial
<1>4. CASE rpc # "closed" /\ UNCHANGED <<packet, lbdata, lbsize, data, taken>>
  <2>1. Held' = Held
    BY <1>4 DEF Held
  <2>2. InFlight'
    BY <1>1, <1>4, <2>1 DEF Framed, InFlight, Bytes
  <2>3. Partial'
    BY <1>1, <1>4, <2>1 DEF Framed, Partial, Malformed
  <2> QED
    BY <1>2, <2>2, <2>3 DEF Framed
<1> QED
  BY <1>3, <1>4

(* recv(2) hands the parser the bytes that follow those held.              *)
LEMMA RecvFramed ==
  ASSUME RxAssumption, BufferBounds, Turns, Framed, NEW n \in Nat, rpc = "recv", data = << >>,
         data' = Bytes(taken, n), taken' = taken + n,
         UNCHANGED <<cb_, FullyReceive, sizes, delivered, split, packet, lbdata, lbsize>>,
         Begin' = Begin
  PROVE  Framed'
<1>1. /\ Framing' = Framing /\ Now' = Now /\ Held' = Held
      /\ \A k : Malformed(k)' = Malformed(k)
  BY DEF Framing, Now, Malformed, Held
<1>2. Given'
  BY <1>1 DEF Framed, Given, Bytes, Malformed
<1>3. Partial'
  BY <1>1 DEF Framed, Partial, Malformed
<1>4. ASSUME Framing
      PROVE  /\ Now <= NPackets + 1 /\ Held = Bytes(Begin[Now], Len(Held))
             /\ data' = Bytes(Begin[Now] + Len(Held), Len(data'))
             /\ taken' = Begin[Now] + Len(Held) + Len(data')
  <2>1. /\ Now \in 1 .. NPackets + 1 /\ Begin[Now] \in Nat /\ Len(Held) \in Nat
        /\ Held = Bytes(Begin[Now], Len(Held)) /\ taken = Begin[Now] + Len(Held) + Len(data)
    BY <1>4, NowFacts DEF Framed
  <2>2. Len(data) = 0
    BY EmptySeq
  <2>3. taken = Begin[Now] + Len(Held) /\ taken \in Nat
    BY <2>1, <2>2
  <2>4. Len(data') = n
    BY <2>3, BytesAre
  <2>5. Now \in Nat /\ Now <= NPackets + 1
    BY <1>4 DEF Framed, InFlight, BufferBounds, TypeOK, Now
  <2> QED
    BY <2>1, <2>3, <2>4, <2>5
<1>5. InFlight'
  BY <1>1, <1>4 DEF InFlight, Bytes
<1> QED
  BY <1>2, <1>3, <1>5 DEF Framed

(* What was left to parse is put behind what is held.                      *)
LEMMA HoldFramed ==
  ASSUME RxAssumption, BufferBounds, Turns, Framed, rpc = "parse",
         UNCHANGED <<cb_, FullyReceive, sizes, delivered, taken>>, Begin' = Begin,
         split => split', data' = << >>, rpc' # "closed",
         Framing' => Held' = Held \o data,
         Framing' /\ (lbsize' > 0 \/ Len(packet') >= cb_) =>
            /\ Now <= NPackets /\ ~Malformed(Now)
            /\ Len(Held') < cb_ + sizes[Now]
            /\ lbsize' > 0 => lbsize' = cb_ + sizes[Now]
  PROVE  Framed'
<1>1. (Framing' => Framing) /\ Now' = Now /\ \A k : Malformed(k)' = Malformed(k)
  BY DEF Framing, Now, Malformed
<1>2. Given'
  BY <1>1 DEF Framed, Given, Bytes, Malformed
<1>3. Partial'
  BY <1>1 DEF Framed, Partial, Malformed
<1>4. ASSUME Framing'
      PROVE  /\ Now <= NPackets + 1 /\ Held' = Bytes(Begin[Now], Len(Held'))
             /\ data' = Bytes(Begin[Now] + Len(Held'), Len(data'))
             /\ taken' = Begin[Now] + Len(Held') + Len(data')
  <2>1. /\ Now \in 1 .. NPackets + 1 /\ Begin[Now] \in Nat
        /\ Len(Held) \in Nat /\ Len(data) \in Nat
        /\ taken = Begin[Now] + Len(Held) + Len(data)
        /\ Held \o data = Bytes(Begin[Now], Len(Held) + Len(data))
    BY <1>1, <1>4, NowFacts DEF Framed
  <2>2. Held' = Bytes(Begin[Now], Len(Held) + Len(data))
    BY <1>4, <2>1
  <2>3. Len(Held') = Len(Held) + Len(data)
    <3>1. Len(Held) + Len(data) \in Nat
      BY <2>1
    <3> QED
      BY <2>1, <2>2, <3>1, BytesAre
  <2>4. Len(data') = 0
    BY EmptySeq
  <2>5. data' = Bytes(Begin[Now] + Len(Held'), 0)
    BY DEF Bytes
  <2>6. Now <= NPackets + 1
    BY <1>1, <1>4 DEF Framed, InFlight
  <2>7. data' = Bytes(Begin[Now] + Len(Held'), Len(data'))
    BY <2>4, <2>5
  <2>8. taken' = Begin[Now] + Len(Held') + Len(data')
    BY <2>1, <2>3, <2>4
  <2>9. Held' = Bytes(Begin[Now], Len(Held'))
    BY <2>2, <2>3
  <2> QED
    BY <2>6, <2>7, <2>8, <2>9
<1>5. InFlight'
  BY <1>1, <1>4 DEF InFlight, Bytes
<1> QED
  BY <1>2, <1>3, <1>5 DEF Framed

(* The packet is complete and goes to the user; the parser goes on behind  *)
(* it.                                                                     *)
LEMMA GiveFramed ==
  ASSUME RxAssumption, BufferBounds, Turns, Framed, Framing, rpc = "parse",
         UNCHANGED <<cb_, FullyReceive, sizes, taken>>, Begin' = Begin, split => split',
         Now \in 1 .. NPackets, ~Malformed(Now),
         packet' = << >>, lbdata' = << >>, lbsize' = 0, rpc' # "closed",
         NEW m \in Nat, Len(Held) + Len(data) = cb_ + sizes[Now] + m,
         data' = Bytes(Begin[Now] + cb_ + sizes[Now], m),
         Deliver(Bytes(Begin[Now], cb_ + sizes[Now]))
  PROVE  Framed'
<1> DEFINE q == Now
           b == Begin[Now]
           z == sizes[Now]
<1>1. /\ q \in Nat /\ q \in 1 .. NPackets /\ b \in Nat /\ z \in Nat /\ cb_ \in Nat /\ cb_ > 0
      /\ Len(Held) \in Nat /\ Len(data) \in Nat /\ taken = b + Len(Held) + Len(data)
      /\ delivered \in Seq(Seq(Nat)) /\ Stream
      /\ data' = Bytes(b + cb_ + z, m) /\ Deliver(Bytes(b, cb_ + z))
      /\ Len(Held) + Len(data) = cb_ + z + m
      /\ Len(delivered) = q - 1 /\ q \in 1 .. NPackets + 1 /\ ~Malformed(q)
  <2>1. delivered \in Seq(Seq(Nat)) /\ Stream
    BY DEF BufferBounds, TypeOK, RxAssumption, Stream
  <2>2. q \in Nat /\ z \in Nat
    BY <2>1 DEF Now, Stream
  <2>3. Len(delivered) = q - 1
    BY <2>1 DEF Now
  <2> QED
    BY <2>1, <2>2, <2>3, NowFacts DEF Framed
<1>2. Begin[q + 1] = b + cb_ + z
  BY <1>1, BeginWalks
<1>i. Now = q /\ Begin[q] = b /\ sizes[q] = z
  OBVIOUS
<1> HIDE DEF q, b, z
<1>3. (Framing' => Framing) /\ \A k : Malformed(k)' = Malformed(k)
  BY DEF Framing, Malformed
<1>4. Held' = << >> /\ Len(Held') = 0 /\ Len(packet') = 0
  BY DEF Held
<1> DEFINE d == IF FullyReceive THEN Bytes(b, cb_ + z) ELSE Bytes(b + cb_, z)
<1>5. delivered' = Append(delivered, d) /\ d \in Seq(Nat)
  <2>1. Without(Bytes(b, cb_ + z), cb_) = Bytes(b + cb_, z)
    <3>1. cb_ + z \in Nat /\ cb_ \in 0 .. cb_ + z /\ (cb_ + z) - cb_ = z
      BY <1>1
    <3>2. Without(Bytes(b, cb_ + z), cb_) = Bytes(b + cb_, (cb_ + z) - cb_)
      BY <1>1, <3>1, BytesPart, SMTT(30)
    <3> QED
      BY <3>1, <3>2
  <2>2. Bytes(b, cb_ + z) \in Seq(Nat) /\ Bytes(b + cb_, z) \in Seq(Nat)
    <3>1. cb_ + z \in Nat /\ b + cb_ \in Nat
      BY <1>1
    <3> QED
      BY <1>1, <3>1, BytesAre
  <2> QED
    BY <1>1, <2>1, <2>2 DEF Deliver
<1>6. /\ Len(delivered') = q /\ delivered'[q] = d
      /\ \A k \in 1 .. q - 1 : delivered'[k] = delivered[k]
  <2>1. Len(delivered) = q - 1 /\ Len(delivered) \in Nat
    BY <1>1
  <2> HIDE DEF d
  <2> QED
    BY <1>1, <1>5, <2>1, AppendProperties, SMTT(30)
<1>7. Now' = q + 1
  BY <1>6 DEF Now
<1>8. Given'
  <2>1. ASSUME NEW k \in 1 .. q
        PROVE  /\ k <= NPackets /\ ~Malformed(k)
               /\ delivered'[k] = IF FullyReceive THEN Bytes(Begin[k], cb_ + sizes[k])
                                  ELSE Bytes(Begin[k] + cb_, sizes[k])
    <3>1. CASE k = q
      BY <1>1, <1>6, <1>i, <3>1, SMTT(30)
    <3>2. CASE k # q
      <4>1. k \in 1 .. q - 1 /\ k \in 1 .. Len(delivered)
        BY <1>1, <3>2
      <4> QED
        BY <1>6, <4>1 DEF Framed, Given
    <3> QED
      BY <3>1, <3>2
  <2>2. FullyReceive' = FullyReceive /\ cb_' = cb_ /\ sizes' = sizes
    OBVIOUS
  <2> QED
    BY <1>3, <1>6, <2>1, <2>2 DEF Given, Bytes
<1>9. Len(data') = m
  <2>1. b + cb_ + z \in Nat
    BY <1>1
  <2> QED
    BY <1>1, <2>1, BytesAre
<1>10. InFlight'
  <2>1. Now' <= NPackets + 1
    BY <1>1, <1>7 DEF Stream
  <2>2. Held' = Bytes(Begin[q + 1], 0)
    BY <1>4 DEF Bytes
  <2>3. data' = Bytes(Begin[q + 1] + 0, m) /\ taken' = Begin[q + 1] + 0 + m
    <3>1. Begin[q + 1] + 0 = b + cb_ + z
      BY <1>1, <1>2
    <3>2. taken' = b + cb_ + z + m
      <4>1. taken' = b + (Len(Held) + Len(data))
        <5>1. taken' = taken
          OBVIOUS
        <5> QED
          BY <1>1, <5>1
      <4>2. b + (Len(Held) + Len(data)) = b + (cb_ + z + m)
        BY <1>1
      <4>3. b + (cb_ + z + m) = b + cb_ + z + m
        BY <1>1
      <4> QED
        BY <4>1, <4>2, <4>3
    <3> QED
      BY <1>1, <3>1, <3>2
  <2> QED
    BY <1>4, <1>7, <1>9, <2>1, <2>2, <2>3 DEF InFlight, Bytes
<1>11. Partial'
  BY <1>1, <1>4 DEF Partial
<1> QED
  BY <1>8, <1>10, <1>11 DEF Framed

(* Without a template, or once a block has taken the head of a packet,     *)
(* nothing is claimed.                                                     *)
LEMMA NotFramed ==
  ASSUME ~Framing' PROVE Framed'
BY DEF Framed, InFlight, Partial, Given

(* The large block grows by what there is, or is complete.                 *)
LEMMA LargeBlockFramed ==
  ASSUME RxAssumption, BufferBounds, Turns, Framed, ParseLargeBlock, split => split',
         UNCHANGED <<cb_, FullyReceive, sizes, taken>>, Begin' = Begin
  PROVE  Framed'
<1> SUFFICES ASSUME Framing' PROVE Framed'
  BY NotFramed
<1>1. Framing /\ rpc = "parse" /\ lbsize > 0 /\ Held = lbdata /\ packet = << >> /\ packet' = << >>
  BY DEF Framing, ParseLargeBlock, Parsing, ncb_lb_marked, Held, BufferBounds
<1>2. /\ Now <= NPackets /\ ~Malformed(Now) /\ lbsize = cb_ + sizes[Now]
  BY <1>1 DEF Framed, Partial
<1>3. /\ Now \in 1 .. NPackets + 1 /\ Begin[Now] \in Nat /\ cb_ \in Nat /\ cb_ > 0
      /\ Held \in Seq(Nat) /\ Len(Held) \in Nat /\ Len(data) \in Nat
      /\ Held = Bytes(Begin[Now], Len(Held))
      /\ data = Bytes(Begin[Now] + Len(Held), Len(data))
  BY <1>1, NowFacts DEF Framed
<1>4. /\ Now \in 1 .. NPackets /\ sizes[Now] \in Nat /\ lbsize \in Nat /\ Len(lbdata) < lbsize
      /\ data \in Seq(Nat)
  <2>1. Stream /\ lbsize \in Nat /\ Len(lbdata) < lbsize /\ data \in Seq(Nat)
    BY <1>1 DEF Stream, BufferBounds, TypeOK, RxAssumption
  <2>2. Now \in 1 .. NPackets
    BY <1>2, <1>3, <2>1 DEF Stream
  <2> QED
    BY <2>1, <2>2 DEF Stream
<1>5. CASE ~lb_complete
  <2>1. /\ lbdata' = lbdata \o data /\ data' = << >> /\ rpc' # "closed" /\ lbsize' = lbsize
        /\ delivered' = delivered
    BY <1>5 DEF ParseLargeBlock, Overplus
  <2>2. Held' = Held \o data
    BY <1>1, <2>1 DEF Held
  <2>3. Len(Held') < cb_ + sizes[Now]
    <3>1. Len(Held \o data) = Len(Held) + Len(data)
      BY <1>3, <1>4, ConcatIs
    <3> QED
      BY <1>1, <1>2, <1>5, <2>2, <3>1, <1>3, <1>4 DEF lb_complete, cpcb, lboffset
  <2> QED
    BY <1>1, <1>2, <2>1, <2>2, <2>3, HoldFramed
<1>6. CASE lb_complete
  <2> DEFINE r == lb_remain
  <2>1. r \in 0 .. Len(data) /\ r = lbsize - Len(Held) /\ r \in Nat
    BY <1>1, <1>3, <1>4, <1>6 DEF lb_complete, cpcb, lboffset, lb_remain
  <2>2. /\ Deliver(lbdata \o FirstBytes(data, r)) /\ data' = Without(data, r)
        /\ rpc' # "closed" /\ lbdata' = << >> /\ lbsize' = 0
    BY <1>6 DEF ParseLargeBlock, Overplus
  <2> HIDE DEF r
  <2> DEFINE b == Begin[Now]
             p == Len(Held)
  <2>3. b \in Nat /\ p \in Nat /\ b + p \in Nat /\ p + r = cb_ + sizes[Now]
    BY <1>2, <1>3, <1>4, <2>1, SMTT(30)
  <2>i. /\ lbdata = Bytes(b, p) /\ data = Bytes(b + p, Len(data)) /\ Begin[Now] = b /\ Len(Held) = p
        /\ r \in Nat /\ cb_ \in Nat /\ sizes[Now] \in Nat
    BY <1>1, <1>3, <1>4, <2>1
  <2> HIDE DEF b, p
  <2>4. /\ FirstBytes(data, r) = Bytes(b + p, r)
        /\ Without(data, r) = Bytes(b + p + r, Len(data) - r)
    <3>1. /\ FirstBytes(Bytes(b + p, Len(data)), r) = Bytes(b + p, r)
          /\ Without(Bytes(b + p, Len(data)), r) = Bytes((b + p) + r, Len(data) - r)
      <4>1. b + p \in Nat /\ Len(data) \in Nat /\ r \in 0 .. Len(data)
        BY <1>3, <2>1, <2>3
      <4> QED
        BY <4>1, BytesPart
    <3> QED
      BY <2>i, <3>1
  <2>5. lbdata \o FirstBytes(data, r) = Bytes(b, cb_ + sizes[Now])
    <3>1. Bytes(b, p) \o Bytes(b + p, r) = Bytes(b, p + r)
      <4>1. b \in Nat /\ p \in Nat /\ r \in Nat
        BY <2>3, <2>i
      <4> QED
        BY <4>1, BytesJoin
    <3>2. lbdata = Bytes(b, p)
      BY <2>i
    <3> QED
      BY <2>3, <2>4, <3>1, <3>2
  <2> DEFINE m == Len(data) - r
  <2>6. m \in Nat /\ Len(Held) + Len(data) = cb_ + sizes[Now] + m
    BY <1>3, <1>4, <2>1, <2>3, <2>i
  <2>7. data' = Bytes(Begin[Now] + cb_ + sizes[Now], m)
    <3>1. b + p + r = Begin[Now] + cb_ + sizes[Now]
      BY <2>3, <2>i
    <3> QED
      BY <2>2, <2>4, <3>1
  <2>8. Deliver(Bytes(Begin[Now], cb_ + sizes[Now]))
    BY <2>2, <2>5, <2>i
  <2> HIDE DEF m
  <2> QED
    BY <1>1, <1>2, <1>4, <2>2, <2>6, <2>7, <2>8, GiveFramed
<1> QED
  BY <1>5, <1>6

(* Data that does not complete a packet is put behind what is held, in the *)
(* packet buffer or in a new large block.                                  *)
LEMMA HeaderPartFramed ==
  ASSUME RxAssumption, BufferBounds, Turns, Framed, ParseHeaderPart, split => split',
         UNCHANGED <<cb_, FullyReceive, sizes, taken>>, Begin' = Begin
  PROVE  Framed'
<1>1. /\ rpc = "parse" /\ lbsize = 0 /\ lbsize' = 0 /\ delivered' = delivered
      /\ packet' = packet \o data /\ data' = << >> /\ rpc' # "closed"
      /\ Held = packet /\ Held' = packet' /\ Len(packet) + Len(data) < cb_
      /\ packet \in Seq(Nat) /\ data \in Seq(Nat) /\ cb_ \in Nat
  BY DEF ParseHeaderPart, Parsing, ncb_lb_marked, Overplus, Held, BufferBounds, TypeOK, RxAssumption,
         rx_parse_offset, cpcb
<1>2. Len(packet') < cb_
  BY <1>1, ConcatIs
<1>3. ~(lbsize' > 0 \/ Len(packet') >= cb_)
  BY <1>1, <1>2, ConcatIs
<1> QED
  BY <1>1, <1>3, HoldFramed

(* A new large block holds all of data; with a header that was not split   *)
(* that is all there is of the packet.                                     *)
LEMMA LargeBeginFramed ==
  ASSUME RxAssumption, BufferBounds, Turns, Framed, NEW n \in Nat, ParseLargeBegin(n),
         split' = (split \/ (packet # << >> /\ lbsize = 0 /\ lbsize' > 0)),
         UNCHANGED <<cb_, FullyReceive, sizes, taken>>, Begin' = Begin
  PROVE  Framed'
<1> SUFFICES ASSUME Framing' PROVE Framed'
  BY NotFramed
<1>1. /\ Framing /\ rpc = "parse" /\ lbsize = 0 /\ Held = packet
      /\ Now \in 1 .. NPackets /\ n = sizes[Now]
  BY ParsedIs DEF ParseLargeBegin, Framed
<1>2. /\ lbsize' = n + cb_ /\ lbdata' = data /\ packet' = << >> /\ data' = << >>
      /\ rpc' # "closed" /\ delivered' = delivered /\ ~BadSize(n) /\ n + cb_ > TCP_BUFFER_SIZE
  BY DEF ParseLargeBegin, Overplus
<1>3. /\ cb_ \in Nat /\ data \in Seq(Nat) /\ Len(data) \in Nat /\ TCP_BUFFER_SIZE \in Nat
      /\ Len(data) <= TCP_BUFFER_SIZE /\ NPackets \in Nat
  BY DEF BufferBounds, TypeOK, RxAssumption
<1>4. lbsize' > 0 /\ lbsize' = cb_ + sizes[Now] /\ Len(data) < cb_ + sizes[Now]
  BY <1>1, <1>2, <1>3
<1>5. packet = << >> /\ Held' = data
  BY <1>1, <1>2, <1>4 DEF Framing, Held
<1>6. Held' = Held \o data
  <2>1. << >> \o data = data
    BY <1>3, ConcatEmptySeq
  <2> QED
    BY <1>1, <1>5, <2>1
<1>7. ~Malformed(Now) /\ Now <= NPackets
  BY <1>1, <1>2, <1>3 DEF Malformed, BadSize
<1> QED
  BY <1>1, <1>2, <1>4, <1>5, <1>6, <1>7, HoldFramed

(* A packet of the packet buffer is complete, or grows by what there is.   *)
LEMMA PacketFramed ==
  ASSUME RxAssumption, BufferBounds, Turns, Framed, NEW n \in Nat, ParsePacket(n),
         split => split', UNCHANGED <<cb_, FullyReceive, sizes, taken>>, Begin' = Begin
  PROVE  Framed'
<1> SUFFICES ASSUME Framing' PROVE Framed'
  BY NotFramed
<1> DEFINE whole == packet \o data
           total == n + cb_
           b == Begin[Now]
           l == Len(packet) + Len(data)
<1>1. /\ Framing /\ rpc = "parse" /\ lbsize = 0 /\ Held = packet
      /\ Now \in 1 .. NPackets /\ n = sizes[Now]
  BY ParsedIs DEF ParsePacket, Framed
<1>2. /\ b \in Nat /\ Len(packet) \in Nat /\ Len(data) \in Nat /\ cb_ \in Nat
      /\ whole = Bytes(b, l) /\ l \in Nat /\ total \in Nat /\ total = cb_ + sizes[Now]
      /\ NPackets \in Nat /\ TypeOK
  <2>1. NPackets \in Nat /\ TypeOK
    BY DEF BufferBounds, TypeOK, RxAssumption
  <2> QED
    BY <1>1, <2>1, NowFacts, SMTT(30) DEF Framed
<1>3. Len(whole) = l
  BY <1>2, BytesAre
<1>4. ~Malformed(Now) /\ Now <= NPackets
  <2>1. ~BadSize(n)
    BY DEF ParsePacket
  <2> QED
    BY <1>1, <1>2, <2>1 DEF Malformed, BadSize
<1>5. UNCHANGED <<lbdata, lbsize>> /\ lbdata = << >>
  BY <1>1 DEF ParsePacket, BufferBounds
<1>6. CASE Len(whole) >= total
  <2>1. /\ Deliver(FirstBytes(whole, total)) /\ packet' = << >> /\ data' = Without(whole, total)
        /\ rpc' # "closed"
    BY <1>6 DEF ParsePacket, Overplus
  <2> DEFINE m == l - total
  <2> HIDE DEF whole, total, l, b
  <2>2. total \in 0 .. l /\ m \in Nat /\ l = total + m
    BY <1>2, <1>3, <1>6
  <2>3. FirstBytes(whole, total) = Bytes(b, total) /\ Without(whole, total) = Bytes(b + total, m)
    <3>0. b \in Nat /\ l \in Nat /\ total \in 0 .. l
      BY <1>2, <2>2
    <3>1. FirstBytes(Bytes(b, l), total) = Bytes(b, total)
      BY <3>0, BytesPart
    <3>2. Without(Bytes(b, l), total) = Bytes(b + total, l - total)
      BY <3>0, BytesPart
    <3> QED
      BY <1>2, <3>1, <3>2 DEF m
  <2> HIDE DEF m
  <2>4. b + total = Begin[Now] + cb_ + sizes[Now] /\ sizes[Now] \in Nat
    BY <1>1, <1>2, SMTT(30) DEF b
  <2>5. data' = Bytes(Begin[Now] + cb_ + sizes[Now], m)
    BY <2>1, <2>3, <2>4
  <2>6. Deliver(Bytes(Begin[Now], cb_ + sizes[Now]))
    BY <1>2, <2>1, <2>3 DEF b
  <2>7. Len(Held) + Len(data) = cb_ + sizes[Now] + m
    BY <1>1, <1>2, <2>2 DEF l
  <2> QED
    BY <1>1, <1>4, <1>5, <2>1, <2>2, <2>5, <2>6, <2>7, GiveFramed
<1>7. CASE ~(Len(whole) >= total)
  <2>1. packet' = whole /\ data' = << >> /\ rpc' # "closed" /\ delivered' = delivered
    BY <1>7 DEF ParsePacket, Overplus
  <2>2. Held' = Held \o data /\ Held' = whole
    BY <1>1, <1>5, <2>1 DEF Held
  <2>3. Len(Held') < cb_ + sizes[Now] /\ ~(lbsize' > 0)
    <3> HIDE DEF whole, total, l, b
    <3> QED
      BY <1>1, <1>2, <1>3, <1>5, <1>7, <2>2
  <2> QED
    BY <1>1, <1>4, <2>1, <2>2, <2>3, HoldFramed
<1> QED
  BY <1>6, <1>7

(* Every step keeps the packets in their places.                           *)
LEMMA StepFramed ==
  ASSUME RxAssumption, BufferBounds, Turns, Framed, [Next]_vars
  PROVE  Framed'
<1>1. /\ UNCHANGED <<cb_, FullyReceive, sizes>> /\ Begin' = Begin
      /\ UserSizes[cb_] \subseteq Nat
  BY Fixed DEF BufferBounds, TypeOK, RxAssumption
<1>2. CASE Arrive
  <2>1. UNCHANGED <<taken, rpc, data, packet, lbdata, lbsize, delivered, split>>
    BY <1>2 DEF Arrive, parser
  <2> QED
    BY <1>1, <2>1, QuietFramed
<1>3. CASE EpollIn
  <2>1. /\ UNCHANGED <<taken, split, delivered>> /\ rpc = "wait"
        /\ rpc' = "closed" \/ UNCHANGED <<packet, lbdata, lbsize, data>>
    BY <1>3 DEF EpollIn, parser, Close
  <2> QED
    BY <1>1, <2>1, QuietFramed
<1>4. CASE Recv
  <2>1. UNCHANGED split /\ rpc = "recv" /\ data = << >>
    BY <1>4 DEF Recv, Turns
  <2>2. CASE \E n \in 1 .. TCP_BUFFER_SIZE :
               data' = Bytes(taken, n) /\ taken' = taken + n /\ UNCHANGED <<parser, delivered>>
    <3>1. PICK n \in 1 .. TCP_BUFFER_SIZE :
               data' = Bytes(taken, n) /\ taken' = taken + n /\ UNCHANGED <<parser, delivered>>
      BY <2>2
    <3>2. n \in Nat
      BY DEF RxAssumption
    <3> QED
      BY <1>1, <2>1, <3>1, <3>2, RecvFramed DEF parser
  <2>3. CASE /\ UNCHANGED taken
             /\ IF fin THEN Close ELSE rpc' = "wait" /\ UNCHANGED <<data, parser, delivered>>
    <3>1. /\ UNCHANGED <<taken, split, delivered>>
          /\ rpc' = "closed" \/ UNCHANGED <<packet, lbdata, lbsize, data>>
      BY <2>1, <2>3 DEF parser, Close
    <3> QED
      BY <1>1, <2>1, <3>1, QuietFramed
  <2> QED
    BY <1>4, <2>2, <2>3 DEF Recv
<1>5. CASE tcp_parse_pkt
  <2>1. /\ split' = (split \/ (packet # << >> /\ lbsize = 0 /\ lbsize' > 0))
        /\ taken' = taken /\ rpc = "parse"
    BY <1>5 DEF tcp_parse_pkt, ParseRaw, ParseLargeBlock, ParseHeaderPart, ParseHeader,
         ParseFails, ParseLargeBegin, ParsePacket, Parsing
  <2>2. split => split'
    BY <2>1
  <2>3. CASE ParseRaw
    <3>1. ~Framing'
      BY <1>1, <2>3 DEF ParseRaw, Framing
    <3> QED
      BY <3>1, NotFramed
  <2>4. CASE ParseLargeBlock
    BY <1>1, <2>1, <2>2, <2>4, LargeBlockFramed
  <2>5. CASE ParseHeaderPart
    BY <1>1, <2>1, <2>2, <2>5, HeaderPartFramed
  <2>6. ASSUME NEW n \in UserSizes[cb_], ParseFails(n) \/ ParseLargeBegin(n) \/ ParsePacket(n)
        PROVE  Framed'
    <3>1. n \in Nat
      BY <1>1
    <3>2. CASE ParseFails(n)
      <4>1. rpc' = "closed" /\ delivered' = delivered /\ lbsize' = 0
        BY <3>2 DEF ParseFails, Close
      <4>2. split' = split \/ ~Framing'
        BY <2>1 DEF Framing, BufferBounds, TypeOK
      <4>3. CASE split' = split
        BY <1>1, <4>1, <4>3, QuietFramed
      <4> QED
        BY <4>2, <4>3, NotFramed
    <3>3. CASE ParseLargeBegin(n)
      BY <1>1, <2>1, <3>1, <3>3, LargeBeginFramed
    <3>4. CASE ParsePacket(n)
      BY <1>1, <2>1, <2>2, <3>1, <3>4, PacketFramed
    <3> QED
      BY <2>6, <3>2, <3>3, <3>4
  <2> QED
    BY <1>5, <2>3, <2>4, <2>5, <2>6 DEF tcp_parse_pkt
<1>6. CASE UNCHANGED vars
  <2>1. UNCHANGED <<taken, rpc, data, packet, lbdata, lbsize, delivered, split>>
    BY <1>6 DEF vars
  <2> QED
    BY <1>1, <2>1, QuietFramed
<1> QED
  BY <1>2, <1>3, <1>4, <1>5, <1>6 DEF Next, RxStep

-----------------------------------------------------------------------------
(***************************************************************************)
(* The stream without a template.                                          *)
(***************************************************************************)
LEMMA QuietUnframed ==
  ASSUME BufferBounds, Unframed, UNCHANGED <<cb_, delivered, packet, lbsize, taken>>,
         \/ rpc' = "closed" /\ data' = << >>
         \/ UNCHANGED <<rpc, data>>
  PROVE  Unframed'
<1> SUFFICES ASSUME cb_ = 0 PROVE Unframed'
  BY DEF Unframed
<1>1. LastGiven' = LastGiven /\ (StreamPreserved => StreamPreserved')
  BY DEF LastGiven, StreamPreserved
<1>2. CASE UNCHANGED <<rpc, data>>
  BY <1>1, <1>2 DEF Unframed, Bytes
<1>3. CASE rpc' = "closed" /\ data' = << >>
  <2>1. Len(data') = 0 /\ Len(data) \in Nat /\ taken \in Nat
    BY <1>3, EmptySeq DEF BufferBounds, TypeOK
  <2>2. LastGiven \in Nat
    <3>1. \A k \in 1 .. Len(delivered) : delivered[k] \in Seq(Nat) /\ Len(delivered[k]) > 0
      BY DEF Unframed, BufferBounds, TypeOK
    <3>2. delivered # << >> => Len(delivered) \in 1 .. Len(delivered)
      BY EmptySeq DEF BufferBounds, TypeOK
    <3> QED
      BY <3>1, <3>2 DEF LastGiven
  <2>3. LastGiven + Len(data') <= taken
    BY <2>1, <2>2 DEF Unframed
  <2> QED
    BY <1>1, <1>3, <2>3 DEF Unframed
<1> QED
  BY <1>2, <1>3

(* The last byte given is a position of the stream, 0 before the first.    *)
LEMMA LastIsByte ==
  ASSUME BufferBounds, Unframed, cb_ = 0
  PROVE  LastGiven \in Nat
<1>1. \A k \in 1 .. Len(delivered) : delivered[k] \in Seq(Nat) /\ Len(delivered[k]) > 0
  BY DEF Unframed, BufferBounds, TypeOK
<1>2. delivered # << >> => Len(delivered) \in 1 .. Len(delivered)
  BY EmptySeq DEF BufferBounds, TypeOK
<1> QED
  BY <1>1, <1>2 DEF LastGiven

(* The bytes of one read go to the user behind those of the one before.    *)
LEMMA RawUnframed ==
  ASSUME RxAssumption, BufferBounds, Turns, Unframed, ParseRaw, UNCHANGED <<cb_, taken>>
  PROVE  Unframed'
<1> DEFINE d == Len(delivered)
           l == Len(data)
<1>1. /\ cb_ = 0 /\ rpc = "parse" /\ data \in Seq(Nat) /\ delivered \in Seq(Seq(Nat)) /\ lbsize = 0
      /\ data # << >> /\ StreamPreserved /\ LastGiven \in Nat
      /\ data = Bytes(LastGiven, l) /\ taken = LastGiven + l
      /\ \A k \in 1 .. d : Len(delivered[k]) > 0
  BY LastIsByte DEF BufferBounds, TypeOK, ParseRaw, Parsing, Turns, Unframed
<1>2. /\ delivered' = Append(delivered, data) /\ packet' = << >> /\ lbsize' = 0 /\ data' = << >>
      /\ rpc' # "closed" /\ cb_' = 0 /\ taken' = taken
  BY <1>1 DEF ParseRaw, Overplus
<1>3. l \in Nat /\ l > 0 /\ d \in Nat
  BY <1>1, EmptySeq
<1>4. /\ Len(delivered') = d + 1 /\ delivered'[d + 1] = data
      /\ \A k \in 1 .. d : delivered'[k] = delivered[k]
  BY <1>1, <1>2, AppendProperties
<1>5. \A i \in 1 .. l : data[i] = LastGiven + i
  <2>1. \A i \in 1 .. l : Bytes(LastGiven, l)[i] = LastGiven + i
    BY <1>1, <1>3, BytesAre
  <2> QED
    BY <1>1, <2>1
<1> HIDE DEF l, d
<1>6. LastGiven' = taken
  <2>1. delivered' # << >>
    BY <1>3, <1>4, EmptySeq
  <2>2. LastGiven' = data[l]
    BY <1>3, <1>4, <2>1 DEF LastGiven, l
  <2>3. l \in 1 .. l
    BY <1>3
  <2> QED
    BY <1>1, <1>5, <2>2, <2>3
<1>7. \A k \in 1 .. d + 1 : Len(delivered'[k]) > 0
  <2>1. ASSUME NEW k \in 1 .. d + 1
        PROVE  Len(delivered'[k]) > 0
    <3>1. k \in 1 .. d \/ k = d + 1
      BY <1>3
    <3> QED
      BY <1>1, <1>3, <1>4, <3>1 DEF l
  <2> QED
    BY <2>1
<1>8. StreamPreserved'
  <2>1. ASSUME NEW k \in 1 .. d + 1, NEW i \in 1 .. Len(delivered'[k])
        PROVE  delivered'[k][i] =
                 IF i > 1 THEN delivered'[k][i - 1] + 1
                 ELSE IF k > 1 THEN delivered'[k - 1][Len(delivered'[k - 1])] + 1
                 ELSE 1
    <3>1. CASE k \in 1 .. d
      <4>1. delivered'[k] = delivered[k] /\ (k > 1 => k - 1 \in 1 .. d)
        BY <1>3, <1>4, <3>1
      <4>2. k > 1 => delivered'[k - 1] = delivered[k - 1]
        BY <1>4, <4>1
      <4> QED
        BY <1>1, <2>1, <3>1, <4>1, <4>2 DEF StreamPreserved, d
    <3>2. CASE k = d + 1
      <4>1. delivered'[k] = data /\ i \in 1 .. l
        BY <1>4, <2>1, <3>2 DEF l
      <4>2. CASE i > 1
        <5>1. i - 1 \in 1 .. l
          BY <1>3, <4>1, <4>2
        <5>2. data[i] = LastGiven + i /\ data[i - 1] = LastGiven + (i - 1)
          BY <1>5, <4>1, <5>1
        <5> QED
          BY <1>1, <1>3, <4>1, <4>2, <5>2
      <4>3. CASE ~(i > 1)
        <5>1. i = 1 /\ data[i] = LastGiven + 1
          BY <1>3, <1>5, <4>1, <4>3
        <5>2. CASE k > 1
          <6>1. k - 1 = d /\ d \in 1 .. d /\ Len(delivered) = d
            BY <1>3, <3>2, <5>2 DEF d
          <6>2. delivered # << >>
            BY <1>3, <6>1, EmptySeq
          <6>3. LastGiven = delivered[d][Len(delivered[d])]
            BY <6>1, <6>2 DEF LastGiven
          <6>4. delivered'[k - 1] = delivered[d]
            BY <1>4, <6>1
          <6> QED
            BY <4>1, <5>1, <5>2, <6>3, <6>4
        <5>3. CASE ~(k > 1)
          <6>1. d = 0
            BY <1>3, <3>2, <5>3
          <6>2. LastGiven = 0
            BY <1>1, <6>1, EmptySeq DEF LastGiven, d
          <6> QED
            BY <4>1, <5>1, <5>3, <6>2
        <5> QED
          BY <5>2, <5>3
      <4> QED
        BY <4>2, <4>3
    <3> QED
      BY <1>3, <3>1, <3>2
  <2> QED
    BY <1>4, <2>1 DEF StreamPreserved
<1>9. data' = Bytes(LastGiven', Len(data')) /\ Len(data') = 0
  BY <1>2, EmptySeq DEF Bytes
<1>10. taken \in Nat
  BY <1>1, <1>3
<1> QED
  BY <1>2, <1>4, <1>6, <1>7, <1>8, <1>9, <1>10 DEF Unframed, Bytes

(* Every step keeps the stream without a template.                         *)
LEMMA StepUnframed ==
  ASSUME RxAssumption, BufferBounds, Turns, Unframed, [Next]_vars
  PROVE  Unframed'
<1>1. cb_' = cb_
  BY Fixed DEF BufferBounds
<1> SUFFICES ASSUME cb_ = 0 PROVE Unframed'
  BY <1>1 DEF Unframed
<1>2. CASE Arrive \/ UNCHANGED vars
  <2>1. UNCHANGED <<taken, rpc, data, packet, lbsize, delivered>>
    BY <1>2 DEF Arrive, parser, vars
  <2> QED
    BY <1>1, <2>1, QuietUnframed
<1>3. ASSUME lbsize' = 0, packet' = << >>
      PROVE  UNCHANGED <<packet, lbsize>>
  BY <1>3 DEF Unframed
<1>4. CASE EpollIn
  <2>1. UNCHANGED <<taken, delivered>>
    BY <1>4 DEF EpollIn, Close
  <2>2. CASE Close
    BY <1>1, <1>3, <2>1, <2>2, QuietUnframed DEF Close
  <2>3. CASE rpc' = "recv" /\ rpc = "wait" /\ UNCHANGED <<data, parser, delivered>>
    BY <1>1, <2>1, <2>3 DEF Unframed, LastGiven, StreamPreserved, Bytes, parser
  <2> QED
    BY <1>4, <2>2, <2>3 DEF EpollIn
<1>5. CASE Recv
  <2>1. rpc = "recv" /\ data = << >>
    BY <1>5 DEF Recv, Turns
  <2>2. CASE \E n \in 1 .. TCP_BUFFER_SIZE :
               data' = Bytes(taken, n) /\ taken' = taken + n /\ UNCHANGED <<parser, delivered>>
    <3>1. PICK n \in 1 .. TCP_BUFFER_SIZE :
               data' = Bytes(taken, n) /\ taken' = taken + n /\ UNCHANGED <<parser, delivered>>
      BY <2>2
    <3>2. n \in Nat /\ taken \in Nat /\ LastGiven \in Nat
      BY LastIsByte DEF RxAssumption, BufferBounds, TypeOK
    <3>3. LastGiven' = LastGiven /\ StreamPreserved'
      BY <1>1, <3>1 DEF Unframed, LastGiven, StreamPreserved
    <3>4. taken = LastGiven
      <4>1. Len(data) = 0
        BY <2>1, EmptySeq
      <4> QED
        BY <2>1, <3>2, <4>1 DEF Unframed
    <3>5. Len(data') = n
      BY <3>1, <3>2, BytesAre
    <3>6. data' = Bytes(LastGiven', Len(data')) /\ taken' = LastGiven' + Len(data')
      BY <3>1, <3>3, <3>4, <3>5
    <3>7. LastGiven' + Len(data') <= taken'
      BY <3>2, <3>3, <3>5, <3>6
    <3> QED
      BY <1>1, <3>1, <3>3, <3>6, <3>7 DEF Unframed, parser, Bytes
  <2>3. CASE /\ UNCHANGED taken
             /\ IF fin THEN Close ELSE rpc' = "wait" /\ UNCHANGED <<data, parser, delivered>>
    <3>1. CASE Close
      BY <1>1, <1>3, <2>3, <3>1, QuietUnframed DEF Close
    <3>2. CASE rpc' = "wait" /\ UNCHANGED <<data, parser, delivered>>
      BY <1>1, <2>1, <2>3, <3>2 DEF Unframed, LastGiven, StreamPreserved, Bytes, parser
    <3> QED
      BY <2>3, <3>1, <3>2
  <2> QED
    BY <1>5, <2>2, <2>3 DEF Recv
<1>6. CASE tcp_parse_pkt
  <2>1. ParseRaw /\ taken' = taken
    BY <1>6 DEF tcp_parse_pkt, ParseLargeBlock, ParseHeaderPart, ParseHeader,
         ParseFails, ParseLargeBegin, ParsePacket, ParseRaw, Parsing
  <2> QED
    BY <1>1, <2>1, RawUnframed
<1> QED
  BY <1>2, <1>4, <1>5, <1>6 DEF Next, RxStep

-----------------------------------------------------------------------------
(* The invariant holds before anything has arrived.                        *)
LEMMA InitRx == ASSUME RxAssumption, Init PROVE RxInv
<1>1. /\ delivered = << >> /\ data = << >> /\ packet = << >> /\ lbdata = << >> /\ lbsize = 0
      /\ taken = 0 /\ arrived = 0 /\ rpc = "wait" /\ split = FALSE /\ Stream
      /\ \A s : Len(<< >>) = 0
  BY EmptySeq DEF Init, Stream, RxAssumption
<1>2. << >> \in Seq(Nat) /\ << >> \in Seq(Seq(Nat))
  OBVIOUS
<1>3. BufferBounds
  <2>1. /\ cb_ \in Headers /\ FullyReceive \in BOOLEAN /\ sizes \in [1 .. NPackets -> UserSizes[cb_]]
        /\ fin \in BOOLEAN /\ edge \in BOOLEAN
    BY DEF Init
  <2>2. lbsize \in 0 .. TCP_MAXIMUM_PACKET_SIZE + cb_
    <3>1. cb_ \in Nat /\ TCP_MAXIMUM_PACKET_SIZE \in Nat
      BY <1>1 DEF Stream, RxAssumption
    <3> QED
      BY <1>1, <3>1
  <2>3. TypeOK
    BY <1>1, <1>2, <2>1, <2>2 DEF TypeOK
  <2>4. Len(data) = 0 /\ Len(packet) = 0 /\ TCP_BUFFER_SIZE \in Nat
    BY <1>1 DEF RxAssumption
  <2> QED
    BY <1>1, <2>3, <2>4 DEF BufferBounds
<1>4. Begin[1] = 0 /\ Total \in Nat
  <2>1. NPackets + 1 \in 1 .. NPackets + 1
    BY <1>1 DEF Stream
  <2> QED
    BY <1>1, <2>1, BeginWalks DEF Total
<1>5. Turns /\ NoLostInput
  BY <1>1, <1>4 DEF Turns, NoLostInput
<1>6. Len(delivered) = 0 /\ Now = 1 /\ Held = << >> /\ Len(Held) = 0 /\ Len(data) = 0
  BY <1>1, EmptySeq DEF Now, Held
<1>7. Bytes(0, 0) = << >>
  BY DEF Bytes
<1>8. InFlight /\ Partial /\ Given
  <2>1. InFlight
    BY <1>1, <1>4, <1>6, <1>7 DEF InFlight, Stream
  <2>2. Partial
    <3>1. Len(packet) = 0 /\ cb_ \in Nat
      BY <1>1 DEF Stream
    <3>2. Framing => ~(lbsize > 0 \/ Len(packet) >= cb_)
      BY <1>1, <3>1 DEF Framing
    <3> QED
      BY <3>2 DEF Partial
  <2>3. Given
    BY <1>6 DEF Given
  <2> QED
    BY <2>1, <2>2, <2>3
<1>9. LastGiven = 0 /\ Unframed
  <2>1. LastGiven = 0
    BY <1>1 DEF LastGiven
  <2> QED
    BY <1>1, <1>6, <1>7, <2>1 DEF Unframed, StreamPreserved
<1> QED
  BY <1>3, <1>5, <1>8, <1>9 DEF RxInv, Framed

(* The invariant of the receive path holds in every reachable state, for   *)
(* any buffer size, header sizes, number of packets and sizes of packets,  *)
(* and however recv(2) cuts the stream.                                    *)
THEOREM ReceiveInvariance == Spec => []RxInv
<1>1. Init => RxInv
  BY InitRx, RxAssumption
<1>2. RxInv /\ [Next]_vars => RxInv'
  BY StepBuffers, StepFramed, StepUnframed, RxAssumption DEF RxInv, Framed
<1> QED
  BY <1>1, <1>2, PTL DEF Spec

(* tcp_parse_pkt copies nothing beyond the end of rx_buffer, the packet    *)
(* buffer or the large block, also after a block has taken the head of the *)
(* next packet.                                                            *)
THEOREM CopiesInBounds == Spec => []BufferBounds
<1>1. RxInv => BufferBounds
  BY DEF RxInv
<1> QED
  BY <1>1, ReceiveInvariance, PTL

(* When tcp_rx waits for more, the packet it has begun is not complete, and*)
(* its length, if it is known, has been accepted.                          *)
LEMMA NotWhole ==
  ASSUME RxAssumption, RxInv, Framing, rpc \in {"recv", "wait"}, Now <= NPackets
  PROVE  /\ Now \in 1 .. NPackets /\ taken \in Nat /\ Begin[Now] \in Nat /\ cb_ \in Nat
         /\ sizes[Now] \in Nat /\ Stream /\ Len(delivered) \in Nat
         /\ taken < Begin[Now] + cb_ + sizes[Now]
         /\ taken >= Begin[Now] + cb_ => ~Malformed(Now)
<1> DEFINE h == Len(Held)
           b == Begin[Now]
           s == sizes[Now]
<1>1. BufferBounds /\ Turns /\ InFlight /\ Partial /\ rpc # "closed" /\ rpc # "parse"
  BY DEF RxInv, Framed
<1>2. /\ Now \in 1 .. NPackets + 1 /\ b \in Nat /\ cb_ \in Nat /\ h \in Nat
      /\ taken = b + h + Len(data)
  BY <1>1, NowFacts
<1>3. Stream /\ Len(delivered) \in Nat /\ taken \in Nat /\ lbsize \in Nat
  <2>1. /\ cb_ \in Headers /\ sizes \in [1 .. NPackets -> UserSizes[cb_]] /\ taken \in Nat
        /\ delivered \in Seq(Seq(Nat)) /\ lbsize \in 0 .. TCP_MAXIMUM_PACKET_SIZE + cb_
    BY <1>1 DEF BufferBounds, TypeOK
  <2>2. NPackets \in Nat /\ UserSizes[cb_] \subseteq Nat /\ TCP_MAXIMUM_PACKET_SIZE \in Nat
    BY <2>1 DEF RxAssumption
  <2>3. Stream
    BY <1>2, <2>1, <2>2 DEF Stream
  <2> QED
    BY <1>2, <2>1, <2>2, <2>3
<1>4. Now \in 1 .. NPackets /\ s \in Nat
  BY <1>2, <1>3 DEF Stream
<1>5. taken = b + h
  <2>1. Len(data) = 0
    BY <1>1, EmptySeq DEF Turns
  <2> QED
    BY <1>2, <2>1
<1>6. lbsize > 0 \/ h >= cb_ => ~Malformed(Now) /\ h < cb_ + s
  <2>1. lbsize > 0 \/ h >= cb_ => lbsize > 0 \/ Len(packet) >= cb_
    BY DEF Held
  <2> QED
    BY <1>1, <2>1 DEF Partial
<1> HIDE DEF h, b, s
<1>7. taken < b + cb_ + s
  <2>1. h < cb_ + s
    <3>1. CASE h >= cb_
      BY <1>6, <3>1
    <3>2. CASE ~(h >= cb_)
      BY <1>2, <1>4, <3>2
    <3> QED
      BY <3>1, <3>2
  <2> QED
    BY <1>2, <1>4, <1>5, <2>1
<1>8. taken >= b + cb_ => ~Malformed(Now)
  <2>1. taken >= b + cb_ => h >= cb_
    BY <1>2, <1>5
  <2> QED
    BY <1>6, <2>1
<1> QED
  BY <1>2, <1>3, <1>4, <1>7, <1>8 DEF b, s

(* However recv(2) cuts the stream, the user gets what the peer has sent,  *)
(* byte for byte, all of it and nothing else, and no input waits that no   *)
(* event announces, until a large block begins with a header that came in  *)
(* two reads.                                                              *)
THEOREM StreamDelivered == Spec => []DeliveredExactly
<1>1. RxInv => DeliveredExactly
  <2> SUFFICES ASSUME RxInv PROVE DeliveredExactly
    OBVIOUS
  <2>1. PacketsExact
    BY DEF RxInv, Framed, Given, Framing, PacketsExact
  <2>2. StreamPreserved
    BY DEF RxInv, Unframed, StreamPreserved
  <2>3. ASSUME rpc \in {"recv", "wait"}, Framing, NEW k \in Complete(taken), ~(k <= Len(delivered))
        PROVE  FALSE
    <3>1. k \in 1 .. NPackets /\ Begin[k + 1] <= taken /\ \A j \in 1 .. k : ~Malformed(j)
      BY <2>3 DEF Complete
    <3>2. Now <= k /\ Now <= NPackets
      <4>1. delivered \in Seq(Seq(Nat)) /\ NPackets \in Nat
        BY RxAssumption DEF RxInv, BufferBounds, TypeOK, RxAssumption
      <4>2. Len(delivered) \in Nat /\ k \in Nat
        BY <3>1, <4>1
      <4> QED
        BY <2>3, <3>1, <4>1, <4>2 DEF Now
    <3>3. /\ Now \in 1 .. NPackets /\ Stream /\ taken < Begin[Now] + cb_ + sizes[Now]
          /\ taken \in Nat /\ Begin[Now] \in Nat /\ cb_ \in Nat /\ sizes[Now] \in Nat
      BY <2>3, <3>2, NotWhole, RxAssumption
    <3>4. k + 1 \in 1 .. NPackets + 1 /\ Now < k + 1
      BY <3>1, <3>2, <3>3 DEF Stream
    <3>5. Begin[Now] + cb_ + sizes[Now] <= Begin[k + 1] /\ Begin[k + 1] \in Nat
      BY <3>3, <3>4, EndsBefore, BeginWalks
    <3> QED
      BY <3>1, <3>3, <3>5
  <2>4. NothingHeldBack
    BY <2>3 DEF NothingHeldBack, Framing
  <2> QED
    BY <2>1, <2>2, <2>4 DEF DeliveredExactly, RxInv
<1> QED
  BY <1>1, ReceiveInvariance, PTL

(* Nothing of a packet whose length tcp_parse_pkt refuses, or of a later   *)
(* one, reaches the user, and the link does not go on once it has the      *)
(* header of that packet.                                                  *)
THEOREM BadLengthEnds == Spec => []MalformedCloses
<1>1. RxInv => MalformedCloses
  <2> SUFFICES ASSUME RxInv, Framing, NEW k \in 1 .. NPackets, Malformed(k)
               PROVE  /\ Len(delivered) < k
                      /\ taken >= Begin[k] + cb_ => rpc \notin {"recv", "wait"}
    BY DEF MalformedCloses, Framing
  <2>1. Len(delivered) \in Nat /\ k \in Nat /\ k >= 1 /\ NPackets \in Nat
    <3>1. delivered \in Seq(Seq(Nat)) /\ NPackets \in Nat
      BY RxAssumption DEF RxInv, BufferBounds, TypeOK, RxAssumption
    <3> QED
      BY <3>1
  <2>2. Len(delivered) < k
    <3>1. ~(k \in 1 .. Len(delivered))
      BY DEF RxInv, Framed, Given
    <3> QED
      BY <2>1, <3>1
  <2>3. ASSUME taken >= Begin[k] + cb_, rpc \in {"recv", "wait"}
        PROVE  FALSE
    <3>1. Now <= k /\ Now <= NPackets
      BY <2>1, <2>2 DEF Now
    <3>2. /\ Now \in 1 .. NPackets /\ Stream /\ taken < Begin[Now] + cb_ + sizes[Now]
          /\ taken \in Nat /\ Begin[Now] \in Nat /\ cb_ \in Nat /\ sizes[Now] \in Nat
          /\ taken >= Begin[Now] + cb_ => ~Malformed(Now)
      BY <2>3, <3>1, NotWhole, RxAssumption
    <3>3. Now # k
      BY <2>3, <3>2
    <3>4. Now < k /\ k \in 1 .. NPackets + 1
      BY <2>1, <3>1, <3>2, <3>3 DEF Stream
    <3>5. Begin[Now] + cb_ + sizes[Now] <= Begin[k] /\ Begin[k] \in Nat
      BY <3>2, <3>4, EndsBefore, BeginWalks
    <3> QED
      BY <2>3, <3>2, <3>5
  <2> QED
    BY <2>2, <2>3
<1> QED
  BY <1>1, ReceiveInvariance, PTL
=============================================================================
