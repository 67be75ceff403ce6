------------------------------- MODULE MCTcpRx ------------------------------
(* Values of the constants of TcpRx for TLC.                               *)
EXTENDS TcpRx

(* Packets that fit the buffers, among them the largest that does.         *)
Small(h) == {1, TCP_BUFFER_SIZE - h}

(* The smallest large block and the largest packet.                        *)
Large(h) == {TCP_BUFFER_SIZE - h + 1, TCP_MAXIMUM_PACKET_SIZE}

(* Lengths the parser refuses.                                             *)
Bad == {0, TCP_MAXIMUM_PACKET_SIZE + 1}

(* Among them large blocks whose header may be split by two reads.         *)
AllSizes == [h \in Headers |-> Small(h) \cup (CASE h = 0 -> {}
                                               [] h = 1 -> Large(h) \cup Bad
                                               [] h > 1 -> {TCP_BUFFER_SIZE - h + 1, 0})]
=============================================================================
