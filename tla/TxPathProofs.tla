---------------------------- MODULE TxPathProofs ----------------------------
(***************************************************************************)
(* Proofs about the transmit path, for any number of writers and messages, *)
(* any message sizes, send buffer and queue length.                        *)
(***************************************************************************)
EXTENDS TxPath, SublistsProofs, SequenceTheorems, TLAPS

(* The states in which the pool thread works on the link.                  *)
Executing == {"top", "send", "selfpop", "pop", "append", "keep", "close", "drop"}

(* A thread holds a reference exactly while it is inside a call, and an    *)
(* object without references that was closed is closed for good.           *)
Refs ==
  /\ \A w \in Writers : w \in holders <=> wpc[w] # "idle"
  /\ "pool" \in holders <=> ppc \in Executing
  /\ "epoll" \in holders <=> epc \in {"queued", "signal", "release"}
  /\ "user" \in holders <=> dpc \in {"close", "release"}
  /\ stat = "closed" => holders = {} /\ sock = "closed"

(* A message is in the hands of one writer, or in the queue, or neither.   *)
Calls ==
  /\ \A w \in Writers : IF wpc[w] = "idle" THEN cur[w] = NoMsg ELSE cur[w] \in Msgs
  /\ \A w \in Writers :
       wpc[w] \in {"prepare", "check", "send", "queue"} => st[cur[w]] = "new"
  /\ \A v, w \in Writers : cur[v] = cur[w] /\ cur[v] \in Msgs => v = w
  /\ \A i \in 1 .. Len(fifo.head) : st[fifo.head[i]] = "queued"

(* No node is sent beyond its end; a closed link has no nodes.             *)
Nodes ==
  /\ \A m \in Msgs : off[m] <= Size[m]
  /\ stat = "closed" => fifo.head = << >>

(* The node the pool thread is about to send or to remove is there, and    *)
(* the TCP one that it removes has been sent.                              *)
PoolNode ==
  /\ ppc \in {"send", "selfpop"} => fifo.head # << >>
  /\ ppc = "send" => pnode \in Msgs /\ pnode = Head(fifo.head)
  /\ ppc = "selfpop" => Proto = "udp"
  /\ Proto = "tcp" /\ ppc = "pop" =>
       fifo.head # << >> /\ off[Head(fifo.head)] = Size[Head(fifo.head)]

(* The task the pool thread has taken from the list exists.                *)
InPool == IF ppc \in {"wait", "reset", "get", "keep"} THEN 0 ELSE 1

Tasks ==
  /\ live >= tasks + InPool
  /\ Proto = "tcp" => live = tasks + InPool

IInv == TypeOK /\ FifoConsistent /\ Refs /\ Calls /\ Nodes /\ PoolNode /\ Tasks

-----------------------------------------------------------------------------
(***************************************************************************)
(* What the operations of the queue and one send(2) yield.                 *)
(***************************************************************************)

(* The two fifo_pop calls of the pool thread: that of udp_tx, and that of  *)
(* __wp_exec.                                                              *)
PoolSelfPop ==
  /\ PGoto("selfpop", "pop")
  /\ PopHead
  /\ UNCHANGED <<rest, link, pnode, pool>>

PoolTaskPop ==
  /\ IF fifo_is_empty(fifo)
     THEN PGoto("pop", "keep") /\ UNCHANGED <<data, kern>>
     ELSE PGoto("pop", "append") /\ PopHead
  /\ UNCHANGED <<rest, link, pnode, pool>>

(* The node udp_tx has sent is still at the head when it pops.             *)
LEMMA WhichPop == ASSUME PoolNode, PoolPop PROVE PoolSelfPop \/ PoolTaskPop
BY DEF PoolNode, PoolPop, PoolSelfPop, PoolTaskPop, PGoto, fifo_is_empty

(* A node queued behind others leaves the first where it is.               *)
LEMMA AppendKeepsHead ==
  ASSUME NEW s \in Seq(Msgs), s # << >>, NEW m \in Msgs
  PROVE  Append(s, m) # << >> /\ Head(Append(s, m)) = Head(s)
<1>1. Append(s, m) # << >>
  BY AppendProperties
<1>2. Head(Append(s, m)) = IF s = << >> THEN m ELSE Head(s)
  BY HeadTailAppend
<1> QED
  BY <1>1, <1>2

(* fifo_queue keeps the queue well-formed when it is not full.             *)
LEMMA QueueFacts ==
  ASSUME FifoAssumption, NEW f \in tx_fifo(Msgs), NEW m \in Msgs,
         f.size = Len(f.head), ~fifo_is_full(f)
  PROVE  /\ fifo_queue(f, m) \in tx_fifo(Msgs)
         /\ fifo_queue(f, m).size = Len(fifo_queue(f, m).head)
         /\ fifo_queue(f, m).blocking = 1
         /\ fifo_queue(f, m).head = Append(f.head, m)
         /\ fifo_queue(f, m).head # << >>
<1>1. f.head \in Seq(Msgs) /\ f.size \in 0 .. MAXIMUM_FIFO_SIZE
  BY DEF tx_fifo
<1>2. /\ Append(f.head, m) \in Seq(Msgs)
      /\ Len(Append(f.head, m)) = Len(f.head) + 1
      /\ Append(f.head, m) # << >>
  BY <1>1, AppendProperties
<1>3. f.size + 1 \in 0 .. MAXIMUM_FIFO_SIZE
  BY <1>1 DEF FifoAssumption, fifo_is_full
<1> QED
  BY <1>2, <1>3 DEF tx_fifo, fifo_queue

(* fifo_pop keeps a non-empty queue well-formed; the flag falls exactly    *)
(* when the last node leaves.                                              *)
LEMMA PopFacts ==
  ASSUME FifoAssumption, NEW f \in tx_fifo(Msgs),
         f.size = Len(f.head), f.head # << >>, f.blocking # 0
  PROVE  /\ fifo_pop(f) \in tx_fifo(Msgs)
         /\ fifo_pop(f).size = Len(fifo_pop(f).head)
         /\ fifo_pop(f).head = Tail(f.head)
         /\ fifo_pop(f).blocking # 0 <=> fifo_pop(f).head # << >>
         /\ LastPop(f) <=> fifo_pop(f).head = << >>
<1>1. /\ f.head \in Seq(Msgs) /\ f.size \in 0 .. MAXIMUM_FIFO_SIZE
      /\ f.blocking = 1
  BY DEF tx_fifo
<1>2. /\ Tail(f.head) \in Seq(Msgs)
      /\ Len(Tail(f.head)) = Len(f.head) - 1
      /\ Len(f.head) \in Nat \ {0}
  BY <1>1, HeadTailProperties, EmptySeq
<1>3. f.size = 1 <=> Tail(f.head) = << >>
  <2>1. Tail(f.head) = << >> => Len(Tail(f.head)) = 0
    BY EmptySeq
  <2>2. Tail(f.head) # << >> => Len(Tail(f.head)) # 0
    BY <1>2, EmptySeq
  <2> QED
    BY <1>2, <2>1, <2>2
<1>4. f.size - 1 \in 0 .. MAXIMUM_FIFO_SIZE
  BY <1>1, <1>2 DEF FifoAssumption
<1> QED
  BY <1>1, <1>2, <1>3, <1>4 DEF tx_fifo, fifo_pop, LastPop

(* fifo_uninit leaves no node and does not touch flag and size.            *)
LEMMA UninitFacts ==
  ASSUME NEW f \in tx_fifo(Msgs)
  PROVE  fifo_uninit(f) \in tx_fifo(Msgs) /\ fifo_uninit(f).head = << >>
BY DEF tx_fifo, fifo_uninit

(* One send takes at least one byte, never more than the node has left or  *)
(* the kernel has room for, and touches only its own node.                 *)
LEMMA SendFacts ==
  ASSUME TxAssumption, TypeOK, Nodes, NEW m \in Msgs, NEW n, send(m, n)
  PROVE  /\ n \in Nat \ {0} /\ n <= free /\ free > 0
         /\ free' = free - n /\ free' \in 0 .. K
         /\ off' = [off EXCEPT ![m] = off[m] + n]
         /\ off' \in [Msgs -> Nat]
         /\ \A x \in Msgs : off'[x] <= Size[x]
         /\ wire' \in Seq(Msgs)
<1>1. /\ n \in Nat \ {0} /\ n <= free /\ n <= Size[m] - off[m]
      /\ free' = free - n
      /\ off' = [off EXCEPT ![m] = off[m] + n]
      /\ wire' = wire \o [i \in 1 .. n |-> m]
  BY DEF send, TxAssumption, TypeOK, Values, Nodes, Min2
<1>2. [i \in 1 .. n |-> m] \in Seq(Msgs)
  BY <1>1
<1>3. wire' \in Seq(Msgs)
  BY <1>1, <1>2 DEF TypeOK, Values
<1> QED
  BY <1>1, <1>3 DEF TxAssumption, TypeOK, Values, Nodes

-----------------------------------------------------------------------------
(***************************************************************************)
(* The calls that change the link and the kernel's side of it keep their   *)
(* variables in their types.                                               *)
(***************************************************************************)
WriterPlaces == {"idle", "prepare", "check", "send", "queue", "return"}
Results == {"new", "sent", "queued", "busy", "failed"}

LinkTyped ==
  /\ fifo \in tx_fifo(Msgs)
  /\ off \in [Msgs -> Nat]
  /\ wire \in Seq(Msgs)
  /\ stat \in {"open", "closing", "closed"}
  /\ sock \in {"est", "rdhup", "err", "closed"}
  /\ free \in 0 .. K
  /\ nospace \in BOOLEAN /\ out \in BOOLEAN /\ rdy \in BOOLEAN
  /\ ins \in 0 .. MaxIn

(* io_close (io.c) keeps the types of what it changes.                     *)
LEMMA TypedClose ==
  ASSUME TypeOK, io_close
  PROVE  /\ sock' = "closed" /\ free' \in 0 .. K /\ ins' \in 0 .. MaxIn
         /\ nospace' \in BOOLEAN /\ out' \in BOOLEAN /\ rdy' \in BOOLEAN
BY DEF TypeOK, Flags, Values, io_close

(* objdefr keeps the types of what it changes, whether or not it runs      *)
(* ncb_deconstruct.                                                        *)
LEMMA TypedRelease ==
  ASSUME TypeOK, NEW t, objdefr(t)
  PROVE  LinkTyped' /\ holders' = holders \ {t}
<1>1. CASE stat = "closing" /\ holders = {t}
  BY <1>1, TypedClose, UninitFacts
  DEF objdefr, ncb_deconstruct, TypeOK, Flags, Values, LinkTyped
<1>2. CASE ~(stat = "closing" /\ holders = {t})
  BY <1>2 DEF objdefr, kern, data, TypeOK, Flags, Values, LinkTyped
<1> QED
  BY <1>1, <1>2

(* objclos keeps the types of what it changes, whether or not it runs      *)
(* ncb_deconstruct.                                                        *)
LEMMA TypedClos ==
  ASSUME TypeOK, objclos
  PROVE  LinkTyped' /\ holders' = holders
<1>1. CASE stat = "open" /\ holders = {}
  BY <1>1, TypedClose, UninitFacts
  DEF objclos, ncb_deconstruct, TypeOK, Flags, Values, LinkTyped
<1>2. CASE ~(stat = "open" /\ holders = {})
  BY <1>2 DEF objclos, kern, data, TypeOK, Flags, Values, LinkTyped
<1> QED
  BY <1>1, <1>2

(* io_modify (io.c) keeps the types of what it changes.                    *)
LEMMA TypedModify ==
  ASSUME TypeOK, NEW interest \in BOOLEAN, io_modify(interest)
  PROVE  /\ sock' = sock /\ free' = free /\ ins' = ins /\ out' = interest
         /\ nospace' \in BOOLEAN /\ rdy' \in BOOLEAN
<1>1. nospace' \in BOOLEAN /\ rdy' \in BOOLEAN
  BY Zenon DEF io_modify
<1> QED
  BY <1>1 DEF io_modify

(* fifo_pop with its io_modify keeps the types of what it changes and sends*)
(* nothing.                                                                *)
LEMMA TypedPop ==
  ASSUME FifoAssumption, TypeOK, FifoConsistent, stat # "closed",
         fifo.head # << >>, PopHead
  PROVE  /\ fifo' \in tx_fifo(Msgs) /\ off' = off /\ wire' = wire
         /\ sock' = sock /\ free' = free /\ ins' = ins
         /\ nospace' \in BOOLEAN /\ out' \in BOOLEAN /\ rdy' \in BOOLEAN
<1>1. fifo' \in tx_fifo(Msgs) /\ off' = off /\ wire' = wire
  BY PopFacts DEF TypeOK, Values, FifoConsistent, PopHead, fifo_is_blocking, fifo_is_empty
<1>2. CASE LastPop(fifo) /\ sock # "closed"
  BY <1>1, <1>2, TypedModify DEF PopHead
<1>3. CASE ~(LastPop(fifo) /\ sock # "closed")
  BY <1>1, <1>3 DEF PopHead, kern, TypeOK, Flags, Values
<1> QED
  BY <1>1, <1>2, <1>3

(* Every step of tcp_write, the epoll thread and the pool thread keeps the *)
(* other variables in their types; fifo_queue's size check bounds the      *)
(* queue.                                                                  *)
LEMMA StepValues ==
  ASSUME TxAssumption, FifoAssumption, IInv, [Next]_vars
  PROVE  Values'
<1> USE DEF IInv, TypeOK, Values, user, link, kern, data, pool, rest, WGoto, EGoto, PGoto, Result
<1>1. ASSUME NEW w \in Writers, NEW m \in Msgs, WriteEnter(w, m) PROVE Values'
  BY <1>1 DEF WriteEnter, objrefr, Accepted
<1>2. ASSUME NEW m \in Msgs, WriteNoEntry(m) PROVE Values'
  BY <1>2 DEF WriteNoEntry
<1>3. ASSUME NEW w \in Writers, WritePrepare(w) PROVE Values'
  <2>1. cur[w] \in Msgs
    BY <1>3 DEF WritePrepare, Calls
  <2>2. CASE WGoto(w, "prepare", "check") /\ UNCHANGED st
    BY <1>3, <2>2 DEF WritePrepare
  <2>3. CASE WGoto(w, "prepare", "return") /\ Result(cur[w], "failed")
    BY <1>3, <2>1, <2>3 DEF WritePrepare
  <2> QED
    BY <1>3, <2>2, <2>3 DEF WritePrepare
<1>4. ASSUME NEW w \in Writers, WriteCheck(w) PROVE Values'
  BY <1>4 DEF WriteCheck
<1>5. ASSUME NEW w \in Writers, WriteSend(w) PROVE Values'
  <2>1. cur[w] \in Msgs
    BY <1>5 DEF WriteSend, Calls
  <2>2. wpc' \in [Writers -> WriterPlaces] /\ st' \in [Msgs -> Results]
    <3>1. UNCHANGED st \/ Result(cur[w], "sent") \/ Result(cur[w], "failed")
      BY <1>5 DEF WriteSend
    <3>2. wpc' \in {[wpc EXCEPT ![w] = x] : x \in {"send", "queue", "return"}}
      BY <1>5 DEF WriteSend
    <3>3. st' \in [Msgs -> Results]
      BY <2>1, <3>1 DEF Results
    <3>4. wpc' \in [Writers -> WriterPlaces]
      BY <3>2, ZenonT(30) DEF WriterPlaces
    <3> QED
      BY <3>3, <3>4
  <2>3. /\ off' \in [Msgs -> Nat] /\ wire' \in Seq(Msgs) /\ free' \in 0 .. K
        /\ UNCHANGED <<fifo, sock, ins>>
    BY <1>5, <2>1, SendFacts DEF WriteSend
  <2> QED
    BY <1>5, <2>2, <2>3 DEF WriteSend, WriterPlaces, Results
<1>6. ASSUME NEW w \in Writers, WriteQueue(w) PROVE Values'
  <2>1. cur[w] \in Msgs
    BY <1>6 DEF WriteQueue, Calls
  <2>2. wpc' \in [Writers -> WriterPlaces] /\ st' \in [Msgs -> Results]
    BY <1>6, <2>1 DEF WriteQueue, WriterPlaces, Results
  <2>3. stat # "closed"
    BY <1>6 DEF WriteQueue, Refs
  <2>4. fifo' \in tx_fifo(Msgs)
    <3>1. fifo' = fifo \/ (fifo' = fifo_queue(fifo, cur[w]) /\ ~fifo_is_full(fifo))
      BY <1>6 DEF WriteQueue
    <3>2. fifo.size = Len(fifo.head)
      BY <2>3 DEF FifoConsistent
    <3> QED
      BY <2>1, <3>1, <3>2, QueueFacts
  <2>5. UNCHANGED <<sock, free, ins>>
    BY <1>6 DEF WriteQueue, io_modify
  <2> QED
    BY <1>6, <2>2, <2>4, <2>5 DEF WriteQueue, WriterPlaces, Results
<1>7. ASSUME NEW w \in Writers, WriteReturn(w) PROVE Values'
  BY <1>7, TypedRelease DEF WriteReturn, LinkTyped
<1>8. CASE DestroyBegin
  BY <1>8 DEF DestroyBegin
<1>9. CASE DestroyClose
  BY <1>9, TypedClose DEF DestroyClose, io_close
<1>10. CASE DestroyEnd
  BY <1>10, TypedRelease DEF DestroyEnd, LinkTyped
<1>11. CASE EpollWait
  BY <1>11 DEF EpollWait
<1>12. CASE EpollClose
  BY <1>12, TypedClos DEF EpollClose, LinkTyped
<1>13. CASE EpollRefr
  BY <1>13 DEF EpollRefr, objrefr
<1>14. CASE wp_queued
  BY <1>14 DEF wp_queued
<1>15. CASE EpollSignal
  BY <1>15 DEF EpollSignal
<1>16. CASE EpollRelease
  BY <1>16, TypedRelease DEF EpollRelease, LinkTyped
<1>17. CASE PoolWake
  BY <1>17 DEF PoolWake
<1>18. CASE PoolReset
  BY <1>18 DEF PoolReset
<1>19. CASE PoolGet
  BY <1>19 DEF PoolGet
<1>20. CASE PoolRefr
  BY <1>20 DEF PoolRefr, objrefr, Tasks, InPool
<1>21. CASE PoolTop
  <2>1. pnode' \in Msgs \cup {NoMsg}
    BY <1>21, HeadTailProperties DEF PoolTop, fifo_is_empty, fifo_top, tx_fifo
  <2> QED
    BY <1>21, <2>1 DEF PoolTop
<1>22. CASE PoolSend
  <2>1. pnode \in Msgs
    BY <1>22 DEF PoolSend, PoolNode
  <2>2. ppc' \in {"send", "selfpop", "pop", "drop", "close"}
    BY <1>22 DEF PoolSend, AfterSend
  <2>3. /\ off' \in [Msgs -> Nat] /\ wire' \in Seq(Msgs) /\ free' \in 0 .. K
        /\ UNCHANGED <<fifo, sock, ins>>
    BY <1>22, <2>1, SendFacts DEF PoolSend
  <2> QED
    BY <1>22, <2>2, <2>3 DEF PoolSend
<1>23. CASE PoolSelfPop
  <2>1. stat # "closed" /\ fifo.head # << >>
    BY <1>23 DEF PoolSelfPop, PoolNode, Refs, Executing
  <2> QED
    BY <1>23, <2>1, TypedPop DEF PoolSelfPop
<1>24. CASE PoolTaskPop
  <2>1. stat # "closed"
    BY <1>24 DEF PoolTaskPop, Refs, Executing
  <2>2. CASE fifo_is_empty(fifo)
    BY <1>24, <2>2 DEF PoolTaskPop
  <2>3. CASE ~fifo_is_empty(fifo)
    BY <1>24, <2>1, <2>3, TypedPop DEF PoolTaskPop, fifo_is_empty
  <2> QED
    BY <2>2, <2>3
<1>25. CASE PoolAppend
  BY <1>25 DEF PoolAppend
<1>26. CASE PoolClose
  BY <1>26, TypedClos DEF PoolClose, LinkTyped
<1>27. CASE PoolRelease
  BY <1>27, TypedRelease, SMTT(30) DEF PoolRelease, LinkTyped, Tasks, InPool
<1>28. CASE PoolTimeout
  BY <1>28 DEF PoolTimeout
<1>29. CASE Drain
  BY <1>29 DEF Drain
<1>30. CASE Arrive
  BY <1>30 DEF Arrive
<1>31. CASE PeerCloses
  BY <1>31 DEF PeerCloses
<1>32. CASE UNCHANGED vars
  BY <1>32 DEF vars
<1> QED
  BY <1>1, <1>2, <1>3, <1>4, <1>5, <1>6, <1>7, <1>8, <1>9, <1>10, <1>11, <1>12, <1>13, <1>14, <1>15, <1>16, <1>17, <1>18, <1>19, <1>20, <1>21, <1>22, <1>23, <1>24, <1>25, <1>26, <1>27, <1>28, <1>29, <1>30, <1>31, <1>32,
     WhichPop
  DEF IInv, Next, WriteStep, EpollStep, PoolStep

(* Every step of tcp_write, the epoll thread and the pool thread keeps the *)
(* Boolean variables Boolean.                                              *)
LEMMA StepFlags ==
  ASSUME TxAssumption, FifoAssumption, IInv, [Next]_vars
  PROVE  Flags'
<1> USE DEF IInv, TypeOK, Flags, user, link, kern, data, pool, rest, WGoto, EGoto, PGoto, Result
<1>1. ASSUME NEW w \in Writers, NEW m \in Msgs, WriteEnter(w, m) PROVE Flags'
  BY <1>1 DEF WriteEnter
<1>2. ASSUME NEW m \in Msgs, WriteNoEntry(m) PROVE Flags'
  BY <1>2 DEF WriteNoEntry
<1>3. ASSUME NEW w \in Writers, WritePrepare(w) PROVE Flags'
  BY <1>3 DEF WritePrepare
<1>4. ASSUME NEW w \in Writers, WriteCheck(w) PROVE Flags'
  BY <1>4 DEF WriteCheck
<1>5. ASSUME NEW w \in Writers, WriteSend(w) PROVE Flags'
  BY <1>5 DEF WriteSend
<1>6. ASSUME NEW w \in Writers, WriteQueue(w) PROVE Flags'
  BY <1>6 DEF WriteQueue, io_modify
<1>7. ASSUME NEW w \in Writers, WriteReturn(w) PROVE Flags'
  BY <1>7, TypedRelease DEF WriteReturn, LinkTyped
<1>8. CASE DestroyBegin
  BY <1>8 DEF DestroyBegin
<1>9. CASE DestroyClose
  BY <1>9 DEF DestroyClose, io_close
<1>10. CASE DestroyEnd
  BY <1>10, TypedRelease DEF DestroyEnd, LinkTyped
<1>11. CASE EpollWait
  BY <1>11 DEF EpollWait
<1>12. CASE EpollClose
  BY <1>12, TypedClos DEF EpollClose, LinkTyped
<1>13. CASE EpollRefr
  BY <1>13 DEF EpollRefr
<1>14. CASE wp_queued
  BY <1>14 DEF wp_queued
<1>15. CASE EpollSignal
  BY <1>15 DEF EpollSignal
<1>16. CASE EpollRelease
  BY <1>16, TypedRelease DEF EpollRelease, LinkTyped
<1>17. CASE PoolWake
  BY <1>17 DEF PoolWake
<1>18. CASE PoolReset
  BY <1>18 DEF PoolReset
<1>19. CASE PoolGet
  BY <1>19 DEF PoolGet
<1>20. CASE PoolRefr
  BY <1>20 DEF PoolRefr
<1>21. CASE PoolTop
  BY <1>21 DEF PoolTop
<1>22. CASE PoolSend
  BY <1>22 DEF PoolSend
<1>23. CASE PoolSelfPop
  BY <1>23 DEF PoolSelfPop, PopHead, io_modify
<1>24. CASE PoolTaskPop
  BY <1>24 DEF PoolTaskPop, PopHead, io_modify
<1>25. CASE PoolAppend
  BY <1>25 DEF PoolAppend
<1>26. CASE PoolClose
  BY <1>26, TypedClos DEF PoolClose, LinkTyped
<1>27. CASE PoolRelease
  BY <1>27, TypedRelease DEF PoolRelease, LinkTyped
<1>28. CASE PoolTimeout
  BY <1>28 DEF PoolTimeout
<1>29. CASE Drain
  BY <1>29 DEF Drain
<1>30. CASE Arrive
  BY <1>30 DEF Arrive
<1>31. CASE PeerCloses
  BY <1>31 DEF PeerCloses
<1>32. CASE UNCHANGED vars
  BY <1>32 DEF vars
<1> QED
  BY <1>1, <1>2, <1>3, <1>4, <1>5, <1>6, <1>7, <1>8, <1>9, <1>10, <1>11, <1>12, <1>13, <1>14, <1>15, <1>16, <1>17, <1>18, <1>19, <1>20, <1>21, <1>22, <1>23, <1>24, <1>25, <1>26, <1>27, <1>28, <1>29, <1>30, <1>31, <1>32,
     WhichPop
  DEF IInv, Next, WriteStep, EpollStep, PoolStep

(* Every step keeps the blocking flag, the queue and EPOLLOUT in agreement:*)
(* only fifo_queue, fifo_pop and the closing of the link touch them.       *)
LEMMA StepFifoConsistent ==
  ASSUME TxAssumption, FifoAssumption, IInv, [Next]_vars
  PROVE  FifoConsistent'
<1> USE DEF IInv, TypeOK, Values, FifoConsistent, fifo_is_blocking, fifo_is_empty, user, link, kern, data, pool, rest, WGoto, EGoto, PGoto, Result
<1>1. ASSUME NEW w \in Writers, NEW m \in Msgs, WriteEnter(w, m) PROVE FifoConsistent'
  BY <1>1 DEF WriteEnter, objrefr
<1>2. ASSUME NEW m \in Msgs, WriteNoEntry(m) PROVE FifoConsistent'
  BY <1>2 DEF WriteNoEntry
<1>3. ASSUME NEW w \in Writers, WritePrepare(w) PROVE FifoConsistent'
  BY <1>3 DEF WritePrepare
<1>4. ASSUME NEW w \in Writers, WriteCheck(w) PROVE FifoConsistent'
  BY <1>4 DEF WriteCheck, fifo_is_blocking
<1>5. ASSUME NEW w \in Writers, WriteSend(w) PROVE FifoConsistent'
  BY <1>5, SendFacts DEF WriteSend, Completes
<1>6. ASSUME NEW w \in Writers, WriteQueue(w) PROVE FifoConsistent'
  BY <1>6, QueueFacts DEF WriteQueue, io_modify, fifo_is_blocking, Calls, Refs
<1>7. ASSUME NEW w \in Writers, WriteReturn(w) PROVE FifoConsistent'
  BY <1>7, UninitFacts DEF WriteReturn, objdefr, ncb_deconstruct, io_close
<1>8. CASE DestroyBegin
  BY <1>8 DEF DestroyBegin
<1>9. CASE DestroyClose
  BY <1>9 DEF DestroyClose, io_close
<1>10. CASE DestroyEnd
  BY <1>10, UninitFacts DEF DestroyEnd, objdefr, ncb_deconstruct, io_close
<1>11. CASE EpollWait
  BY <1>11 DEF EpollWait
<1>12. CASE EpollClose
  BY <1>12, UninitFacts DEF EpollClose, objclos, ncb_deconstruct, io_close
<1>13. CASE EpollRefr
  BY <1>13 DEF EpollRefr, objrefr
<1>14. CASE wp_queued
  BY <1>14 DEF wp_queued
<1>15. CASE EpollSignal
  BY <1>15 DEF EpollSignal
<1>16. CASE EpollRelease
  BY <1>16, UninitFacts DEF EpollRelease, objdefr, ncb_deconstruct, io_close
<1>17. CASE PoolWake
  BY <1>17 DEF PoolWake
<1>18. CASE PoolReset
  BY <1>18 DEF PoolReset
<1>19. CASE PoolGet
  BY <1>19 DEF PoolGet
<1>20. CASE PoolRefr
  BY <1>20 DEF PoolRefr, objrefr
<1>21. CASE PoolTop
  BY <1>21 DEF PoolTop, fifo_is_empty, fifo_top, StateIllegal
<1>22. CASE PoolSend
  BY <1>22, SendFacts DEF PoolSend, Completes, AfterSend
<1>23. CASE PoolSelfPop
  BY <1>23, PopFacts DEF PoolSelfPop, PopHead, io_modify, fifo_is_empty, PoolNode, Refs, Executing
<1>24. CASE PoolTaskPop
  BY <1>24, PopFacts DEF PoolTaskPop, PopHead, io_modify, fifo_is_empty, PoolNode, Refs, Executing
<1>25. CASE PoolAppend
  BY <1>25 DEF PoolAppend
<1>26. CASE PoolClose
  BY <1>26, UninitFacts DEF PoolClose, objclos, ncb_deconstruct, io_close
<1>27. CASE PoolRelease
  BY <1>27, UninitFacts DEF PoolRelease, objdefr, ncb_deconstruct, io_close
<1>28. CASE PoolTimeout
  BY <1>28 DEF PoolTimeout
<1>29. CASE Drain
  BY <1>29 DEF Drain
<1>30. CASE Arrive
  BY <1>30 DEF Arrive
<1>31. CASE PeerCloses
  BY <1>31 DEF PeerCloses, Alive
<1>32. CASE UNCHANGED vars
  BY <1>32 DEF vars
<1> QED
  BY <1>1, <1>2, <1>3, <1>4, <1>5, <1>6, <1>7, <1>8, <1>9, <1>10, <1>11, <1>12, <1>13, <1>14, <1>15, <1>16, <1>17, <1>18, <1>19, <1>20, <1>21, <1>22, <1>23, <1>24, <1>25, <1>26, <1>27, <1>28, <1>29, <1>30, <1>31, <1>32,
     WhichPop
  DEF IInv, Next, WriteStep, EpollStep, PoolStep

(* Every step keeps this: a thread holds a reference exactly from its      *)
(* objrefr to its objdefr.                                                 *)
LEMMA StepRefs ==
  ASSUME TxAssumption, FifoAssumption, IInv, [Next]_vars
  PROVE  Refs'
<1> USE DEF IInv, TypeOK, Values, Refs, Executing, user, link, kern, data, pool, rest, WGoto, EGoto, PGoto, Result
<1>1. ASSUME NEW w \in Writers, NEW m \in Msgs, WriteEnter(w, m) PROVE Refs'
  BY <1>1 DEF WriteEnter, objrefr
<1>2. ASSUME NEW m \in Msgs, WriteNoEntry(m) PROVE Refs'
  BY <1>2 DEF WriteNoEntry
<1>3. ASSUME NEW w \in Writers, WritePrepare(w) PROVE Refs'
  BY <1>3 DEF WritePrepare
<1>4. ASSUME NEW w \in Writers, WriteCheck(w) PROVE Refs'
  BY <1>4 DEF WriteCheck, fifo_is_blocking
<1>5. ASSUME NEW w \in Writers, WriteSend(w) PROVE Refs'
  BY <1>5, SendFacts, SMTT(30) DEF WriteSend, Completes
<1>6. ASSUME NEW w \in Writers, WriteQueue(w) PROVE Refs'
  BY <1>6, QueueFacts DEF WriteQueue, io_modify, fifo_is_blocking
<1>7. ASSUME NEW w \in Writers, WriteReturn(w) PROVE Refs'
  BY <1>7, UninitFacts DEF WriteReturn, objdefr, ncb_deconstruct, io_close
<1>8. CASE DestroyBegin
  BY <1>8 DEF DestroyBegin
<1>9. CASE DestroyClose
  BY <1>9 DEF DestroyClose, io_close
<1>10. CASE DestroyEnd
  BY <1>10, UninitFacts DEF DestroyEnd, objdefr, ncb_deconstruct, io_close
<1>11. CASE EpollWait
  BY <1>11 DEF EpollWait
<1>12. CASE EpollClose
  BY <1>12, UninitFacts DEF EpollClose, objclos, ncb_deconstruct, io_close
<1>13. CASE EpollRefr
  BY <1>13 DEF EpollRefr, objrefr
<1>14. CASE wp_queued
  BY <1>14 DEF wp_queued
<1>15. CASE EpollSignal
  BY <1>15 DEF EpollSignal
<1>16. CASE EpollRelease
  BY <1>16, UninitFacts DEF EpollRelease, objdefr, ncb_deconstruct, io_close
<1>17. CASE PoolWake
  BY <1>17 DEF PoolWake
<1>18. CASE PoolReset
  BY <1>18 DEF PoolReset
<1>19. CASE PoolGet
  BY <1>19 DEF PoolGet
<1>20. CASE PoolRefr
  BY <1>20 DEF PoolRefr, objrefr
<1>21. CASE PoolTop
  BY <1>21 DEF PoolTop, fifo_is_empty, fifo_top, StateIllegal
<1>22. CASE PoolSend
  BY <1>22, SendFacts DEF PoolSend, Completes, AfterSend
<1>23. CASE PoolSelfPop
  BY <1>23, PopFacts DEF PoolSelfPop, PopHead, io_modify, fifo_is_empty
<1>24. CASE PoolTaskPop
  BY <1>24, PopFacts DEF PoolTaskPop, PopHead, io_modify, fifo_is_empty
<1>25. CASE PoolAppend
  BY <1>25 DEF PoolAppend
<1>26. CASE PoolClose
  BY <1>26, UninitFacts DEF PoolClose, objclos, ncb_deconstruct, io_close
<1>27. CASE PoolRelease
  BY <1>27, UninitFacts DEF PoolRelease, objdefr, ncb_deconstruct, io_close
<1>28. CASE PoolTimeout
  BY <1>28 DEF PoolTimeout
<1>29. CASE Drain
  BY <1>29 DEF Drain
<1>30. CASE Arrive
  BY <1>30 DEF Arrive
<1>31. CASE PeerCloses
  BY <1>31 DEF PeerCloses, Alive
<1>32. CASE UNCHANGED vars
  BY <1>32 DEF vars
<1> QED
  BY <1>1, <1>2, <1>3, <1>4, <1>5, <1>6, <1>7, <1>8, <1>9, <1>10, <1>11, <1>12, <1>13, <1>14, <1>15, <1>16, <1>17, <1>18, <1>19, <1>20, <1>21, <1>22, <1>23, <1>24, <1>25, <1>26, <1>27, <1>28, <1>29, <1>30, <1>31, <1>32,
     WhichPop
  DEF IInv, Next, WriteStep, EpollStep, PoolStep

(* A writer that goes on with its call, or leaves it with a result, keeps  *)
(* the owners of the other messages.                                       *)
LEMMA CallsMove ==
  ASSUME TypeOK, Calls, NEW w \in Writers, NEW x \in {"check", "send", "queue", "return"},
         wpc[w] \in {"prepare", "check", "send", "queue"},
         wpc' = [wpc EXCEPT ![w] = x], UNCHANGED <<cur, fifo>>,
         \/ UNCHANGED st
         \/ x = "return" /\ \E r \in Results : Result(cur[w], r)
  PROVE  Calls'
<1>1. cur[w] \in Msgs /\ st[cur[w]] = "new"
  BY DEF Calls
<1>2. \A m \in Msgs : m # cur[w] => st'[m] = st[m]
  BY <1>1 DEF Result, TypeOK, Values
<1>3. \A v \in Writers : IF wpc'[v] = "idle" THEN cur'[v] = NoMsg ELSE cur'[v] \in Msgs
  BY DEF Calls, TypeOK, Values
<1>4. ASSUME NEW v \in Writers, wpc'[v] \in {"prepare", "check", "send", "queue"}
      PROVE  st'[cur'[v]] = "new"
  <2>1. CASE v = w
    BY <1>4, <2>1, <1>1 DEF TypeOK, Values
  <2>2. CASE v # w
    BY <1>4, <2>2, <1>1, <1>2 DEF Calls, TypeOK, Values
  <2> QED
    BY <2>1, <2>2
<1>5. ASSUME NEW i \in 1 .. Len(fifo'.head)
      PROVE  st'[fifo'.head[i]] = "queued"
  <2>1. fifo.head \in Seq(Msgs) /\ i \in 1 .. Len(fifo.head)
    BY <1>5 DEF TypeOK, Values, tx_fifo
  <2>2. fifo.head[i] \in Msgs /\ st[fifo.head[i]] = "queued"
    BY <2>1, ElementOfSeq DEF Calls
  <2> QED
    BY <1>1, <1>2, <2>2
<1> QED
  BY <1>3, <1>4, <1>5 DEF Calls

(* fifo_pop of the head removes the one node it frees and leaves the others*)
(* queued once each.                                                       *)
LEMMA PopKeepsQueued ==
  ASSUME TypeOK, Calls, fifo.head # << >>, PopHead, UNCHANGED <<wpc, cur, st>>
  PROVE  Calls'
<1>1. fifo.head \in Seq(Msgs) /\ fifo'.head = Tail(fifo.head)
  BY DEF TypeOK, Values, tx_fifo, PopHead, fifo_pop
<1>2. ASSUME NEW i \in 1 .. Len(fifo'.head)
      PROVE  st'[fifo'.head[i]] = "queued"
  <2>1. /\ Len(Tail(fifo.head)) = Len(fifo.head) - 1
        /\ Tail(fifo.head)[i] = fifo.head[i + 1]
        /\ Len(fifo.head) \in Nat
    BY <1>1, <1>2, HeadTailProperties
  <2>2. i + 1 \in 1 .. Len(fifo.head)
    BY <1>1, <1>2, <2>1
  <2> QED
    BY <1>1, <2>1, <2>2 DEF Calls
<1> QED
  BY <1>2 DEF Calls

(* Every step keeps this: a message is written by one tcp_write, or is a   *)
(* node of the queue once, never both.                                     *)
LEMMA StepCalls ==
  ASSUME TxAssumption, FifoAssumption, IInv, [Next]_vars
  PROVE  Calls'
<1> USE DEF IInv, TypeOK, Values, Calls, user, link, kern, data, pool, rest, WGoto, EGoto, PGoto, Result
<1>1. ASSUME NEW w \in Writers, NEW m \in Msgs, WriteEnter(w, m) PROVE Calls'
  BY <1>1 DEF WriteEnter, objrefr
<1>2. ASSUME NEW m \in Msgs, WriteNoEntry(m) PROVE Calls'
  BY <1>2 DEF WriteNoEntry
<1>3. ASSUME NEW w \in Writers, WritePrepare(w) PROVE Calls'
  <2>1. UNCHANGED <<cur, fifo>>
    BY <1>3 DEF WritePrepare
  <2> QED
    BY <1>3, <2>1, CallsMove DEF WritePrepare, Results
<1>4. ASSUME NEW w \in Writers, WriteCheck(w) PROVE Calls'
  BY <1>4 DEF WriteCheck, fifo_is_blocking
<1>5. ASSUME NEW w \in Writers, WriteSend(w) PROVE Calls'
  <2>1. UNCHANGED <<cur, fifo>>
    BY <1>5 DEF WriteSend
  <2>2. \/ UNCHANGED st
        \/ wpc' = [wpc EXCEPT ![w] = "return"] /\ \E r \in Results : Result(cur[w], r)
    BY <1>5 DEF WriteSend, Results
  <2>3. \E x \in {"send", "queue", "return"} : wpc' = [wpc EXCEPT ![w] = x]
    BY <1>5 DEF WriteSend
  <2>4. wpc[w] = "send"
    BY <1>5 DEF WriteSend
  <2> HIDE DEF Calls, Result
  <2>5. CASE UNCHANGED st
    BY <2>1, <2>3, <2>4, <2>5, CallsMove
  <2>6. CASE wpc' = [wpc EXCEPT ![w] = "return"] /\ \E r \in Results : Result(cur[w], r)
    BY <2>1, <2>4, <2>6, CallsMove
  <2> QED
    BY <2>2, <2>5, <2>6
<1>6. ASSUME NEW w \in Writers, WriteQueue(w) PROVE Calls'
  <2>1. wpc[w] = "queue" /\ wpc' = [wpc EXCEPT ![w] = "return"] /\ UNCHANGED cur
    BY <1>6 DEF WriteQueue
  <2>2. cur[w] \in Msgs /\ st[cur[w]] = "new" /\ fifo.head \in Seq(Msgs)
    BY <2>1 DEF tx_fifo
  <2>3. CASE UNCHANGED fifo /\ \E r \in {"busy", "failed"} : Result(cur[w], r)
    <3> HIDE DEF Calls, Result
    <3>1. \E r \in Results : Result(cur[w], r)
      BY <2>3 DEF Results
    <3> QED
      BY <2>1, <2>3, <3>1, CallsMove
  <2>4. CASE fifo' = fifo_queue(fifo, cur[w]) /\ Result(cur[w], "queued")
    <3>1. /\ st' = [st EXCEPT ![cur[w]] = "queued"]
          /\ fifo'.head = Append(fifo.head, cur[w])
      BY <2>4 DEF fifo_queue
    <3>2. \A i \in 1 .. Len(fifo'.head) : st'[fifo'.head[i]] = "queued"
      BY <2>2, <3>1, AppendProperties, SMTT(30)
    <3>3. ASSUME NEW v \in Writers, wpc'[v] \in {"prepare", "check", "send", "queue"}
          PROVE  st'[cur'[v]] = "new"
      <4>1. v # w /\ wpc[v] = wpc'[v] /\ cur[v] \in Msgs /\ cur[v] # cur[w]
        BY <2>1, <2>2, <3>3
      <4>2. st[cur[v]] = "new"
        BY <3>3, <4>1
      <4>3. st'[cur[v]] = st[cur[v]]
        BY <2>2, <3>1, <4>1
      <4> QED
        BY <2>1, <4>2, <4>3
    <3>4. \A v \in Writers : IF wpc'[v] = "idle" THEN cur'[v] = NoMsg ELSE cur'[v] \in Msgs
      BY <2>1
    <3> QED
      BY <2>1, <3>2, <3>3, <3>4
  <2>5. \/ UNCHANGED fifo /\ \E r \in {"busy", "failed"} : Result(cur[w], r)
        \/ fifo' = fifo_queue(fifo, cur[w]) /\ Result(cur[w], "queued")
    BY <1>6 DEF WriteQueue
  <2> QED
    BY <2>3, <2>4, <2>5
<1>7. ASSUME NEW w \in Writers, WriteReturn(w) PROVE Calls'
  BY <1>7, UninitFacts DEF WriteReturn, objdefr, ncb_deconstruct, io_close
<1>8. CASE DestroyBegin
  BY <1>8 DEF DestroyBegin
<1>9. CASE DestroyClose
  BY <1>9 DEF DestroyClose, io_close
<1>10. CASE DestroyEnd
  BY <1>10, UninitFacts DEF DestroyEnd, objdefr, ncb_deconstruct, io_close
<1>11. CASE EpollWait
  BY <1>11 DEF EpollWait
<1>12. CASE EpollClose
  BY <1>12, UninitFacts DEF EpollClose, objclos, ncb_deconstruct, io_close
<1>13. CASE EpollRefr
  BY <1>13 DEF EpollRefr, objrefr
<1>14. CASE wp_queued
  BY <1>14 DEF wp_queued
<1>15. CASE EpollSignal
  BY <1>15 DEF EpollSignal
<1>16. CASE EpollRelease
  BY <1>16, UninitFacts DEF EpollRelease, objdefr, ncb_deconstruct, io_close
<1>17. CASE PoolWake
  BY <1>17 DEF PoolWake
<1>18. CASE PoolReset
  BY <1>18 DEF PoolReset
<1>19. CASE PoolGet
  BY <1>19 DEF PoolGet
<1>20. CASE PoolRefr
  BY <1>20 DEF PoolRefr, objrefr
<1>21. CASE PoolTop
  BY <1>21 DEF PoolTop, fifo_is_empty, fifo_top, StateIllegal
<1>22. CASE PoolSend
  BY <1>22, SendFacts DEF PoolSend, Completes, AfterSend
<1>23. CASE PoolSelfPop
  <2>1. fifo.head # << >> /\ PopHead /\ UNCHANGED <<wpc, cur, st>>
    BY <1>23 DEF PoolSelfPop, PoolNode
  <2> QED
    BY <2>1, PopKeepsQueued
<1>24. CASE PoolTaskPop
  <2>1. CASE fifo_is_empty(fifo)
    BY <1>24, <2>1 DEF PoolTaskPop
  <2>2. CASE ~fifo_is_empty(fifo)
    <3>1. fifo.head # << >> /\ PopHead /\ UNCHANGED <<wpc, cur, st>>
      BY <1>24, <2>2 DEF PoolTaskPop, fifo_is_empty
    <3> QED
      BY <3>1, PopKeepsQueued
  <2> QED
    BY <2>1, <2>2
<1>25. CASE PoolAppend
  BY <1>25 DEF PoolAppend
<1>26. CASE PoolClose
  BY <1>26, UninitFacts DEF PoolClose, objclos, ncb_deconstruct, io_close
<1>27. CASE PoolRelease
  BY <1>27, UninitFacts DEF PoolRelease, objdefr, ncb_deconstruct, io_close
<1>28. CASE PoolTimeout
  BY <1>28 DEF PoolTimeout
<1>29. CASE Drain
  BY <1>29 DEF Drain
<1>30. CASE Arrive
  BY <1>30 DEF Arrive
<1>31. CASE PeerCloses
  BY <1>31 DEF PeerCloses
<1>32. CASE UNCHANGED vars
  BY <1>32 DEF vars
<1> QED
  BY <1>1, <1>2, <1>3, <1>4, <1>5, <1>6, <1>7, <1>8, <1>9, <1>10, <1>11, <1>12, <1>13, <1>14, <1>15, <1>16, <1>17, <1>18, <1>19, <1>20, <1>21, <1>22, <1>23, <1>24, <1>25, <1>26, <1>27, <1>28, <1>29, <1>30, <1>31, <1>32,
     WhichPop
  DEF IInv, Next, WriteStep, EpollStep, PoolStep

(* Every step keeps this: tcp_txn never sends beyond the end of a node, and*)
(* a node waiting in the queue is not yet complete.                        *)
LEMMA StepNodes ==
  ASSUME TxAssumption, FifoAssumption, IInv, [Next]_vars
  PROVE  Nodes'
<1> USE DEF IInv, TypeOK, Values, Nodes, user, link, kern, data, pool, rest, WGoto, EGoto, PGoto, Result
<1>1. ASSUME NEW w \in Writers, NEW m \in Msgs, WriteEnter(w, m) PROVE Nodes'
  BY <1>1 DEF WriteEnter, objrefr
<1>2. ASSUME NEW m \in Msgs, WriteNoEntry(m) PROVE Nodes'
  BY <1>2 DEF WriteNoEntry
<1>3. ASSUME NEW w \in Writers, WritePrepare(w) PROVE Nodes'
  BY <1>3 DEF WritePrepare
<1>4. ASSUME NEW w \in Writers, WriteCheck(w) PROVE Nodes'
  BY <1>4 DEF WriteCheck, fifo_is_blocking
<1>5. ASSUME NEW w \in Writers, WriteSend(w) PROVE Nodes'
  <2>1. cur[w] \in Msgs
    BY <1>5 DEF WriteSend, Calls
  <2> QED
    BY <1>5, <2>1, SendFacts DEF WriteSend
<1>6. ASSUME NEW w \in Writers, WriteQueue(w) PROVE Nodes'
  <2>1. stat # "closed" /\ UNCHANGED <<stat, off>>
    BY <1>6 DEF WriteQueue, Refs
  <2> QED
    BY <2>1
<1>7. ASSUME NEW w \in Writers, WriteReturn(w) PROVE Nodes'
  BY <1>7, UninitFacts DEF WriteReturn, objdefr, ncb_deconstruct, io_close
<1>8. CASE DestroyBegin
  BY <1>8 DEF DestroyBegin
<1>9. CASE DestroyClose
  BY <1>9 DEF DestroyClose, io_close
<1>10. CASE DestroyEnd
  BY <1>10, UninitFacts DEF DestroyEnd, objdefr, ncb_deconstruct, io_close
<1>11. CASE EpollWait
  BY <1>11 DEF EpollWait
<1>12. CASE EpollClose
  BY <1>12, UninitFacts DEF EpollClose, objclos, ncb_deconstruct, io_close
<1>13. CASE EpollRefr
  BY <1>13 DEF EpollRefr, objrefr
<1>14. CASE wp_queued
  BY <1>14 DEF wp_queued
<1>15. CASE EpollSignal
  BY <1>15 DEF EpollSignal
<1>16. CASE EpollRelease
  BY <1>16, UninitFacts DEF EpollRelease, objdefr, ncb_deconstruct, io_close
<1>17. CASE PoolWake
  BY <1>17 DEF PoolWake
<1>18. CASE PoolReset
  BY <1>18 DEF PoolReset
<1>19. CASE PoolGet
  BY <1>19 DEF PoolGet
<1>20. CASE PoolRefr
  BY <1>20 DEF PoolRefr, objrefr
<1>21. CASE PoolTop
  BY <1>21 DEF PoolTop, fifo_is_empty, fifo_top, StateIllegal
<1>22. CASE PoolSend
  <2>1. pnode \in Msgs
    BY <1>22 DEF PoolSend, PoolNode
  <2> QED
    BY <1>22, <2>1, SendFacts DEF PoolSend
<1>23. CASE PoolSelfPop
  BY <1>23, PopFacts DEF PoolSelfPop, PopHead, io_modify, fifo_is_empty, PoolNode, Refs, Executing
<1>24. CASE PoolTaskPop
  BY <1>24, PopFacts DEF PoolTaskPop, PopHead, io_modify, fifo_is_empty
<1>25. CASE PoolAppend
  BY <1>25 DEF PoolAppend
<1>26. CASE PoolClose
  BY <1>26, UninitFacts DEF PoolClose, objclos, ncb_deconstruct, io_close
<1>27. CASE PoolRelease
  BY <1>27, UninitFacts DEF PoolRelease, objdefr, ncb_deconstruct, io_close
<1>28. CASE PoolTimeout
  BY <1>28 DEF PoolTimeout
<1>29. CASE Drain
  BY <1>29 DEF Drain
<1>30. CASE Arrive
  BY <1>30 DEF Arrive
<1>31. CASE PeerCloses
  BY <1>31 DEF PeerCloses
<1>32. CASE UNCHANGED vars
  BY <1>32 DEF vars
<1> QED
  BY <1>1, <1>2, <1>3, <1>4, <1>5, <1>6, <1>7, <1>8, <1>9, <1>10, <1>11, <1>12, <1>13, <1>14, <1>15, <1>16, <1>17, <1>18, <1>19, <1>20, <1>21, <1>22, <1>23, <1>24, <1>25, <1>26, <1>27, <1>28, <1>29, <1>30, <1>31, <1>32,
     WhichPop
  DEF IInv, Next, WriteStep, EpollStep, PoolStep

(* Every step keeps this: between fifo_top and fifo_pop the pool thread's  *)
(* node is the head of the queue.                                          *)
LEMMA StepPoolNode ==
  ASSUME TxAssumption, FifoAssumption, IInv, [Next]_vars
  PROVE  PoolNode'
<1> USE DEF IInv, TypeOK, Values, PoolNode, user, link, kern, data, pool, rest, WGoto, EGoto, PGoto, Result
<1>1. ASSUME NEW w \in Writers, NEW m \in Msgs, WriteEnter(w, m) PROVE PoolNode'
  BY <1>1 DEF WriteEnter, objrefr
<1>2. ASSUME NEW m \in Msgs, WriteNoEntry(m) PROVE PoolNode'
  BY <1>2 DEF WriteNoEntry
<1>3. ASSUME NEW w \in Writers, WritePrepare(w) PROVE PoolNode'
  BY <1>3 DEF WritePrepare
<1>4. ASSUME NEW w \in Writers, WriteCheck(w) PROVE PoolNode'
  BY <1>4 DEF WriteCheck, fifo_is_blocking
<1>5. ASSUME NEW w \in Writers, WriteSend(w) PROVE PoolNode'
  <2>1. cur[w] \in Msgs /\ st[cur[w]] = "new"
    BY <1>5 DEF WriteSend, Calls
  <2>2. fifo.head # << >> => Head(fifo.head) # cur[w] /\ Head(fifo.head) \in Msgs
    <3> SUFFICES ASSUME fifo.head # << >>
                 PROVE  Head(fifo.head) # cur[w] /\ Head(fifo.head) \in Msgs
      OBVIOUS
    <3>1. fifo.head \in Seq(Msgs)
      BY DEF tx_fifo
    <3>2. Len(fifo.head) \in Nat \ {0} /\ Head(fifo.head) = fifo.head[1]
      BY <3>1, EmptySeq
    <3>3. st[Head(fifo.head)] = "queued"
      BY <3>2 DEF Calls
    <3> QED
      BY <2>1, <3>1, <3>3, HeadTailProperties
  <2>3. fifo' = fifo /\ \A x \in Msgs : x # cur[w] => off'[x] = off[x]
    BY <1>5, <2>1, SendFacts DEF WriteSend
  <2> QED
    BY <1>5, <2>2, <2>3 DEF WriteSend
<1>6. ASSUME NEW w \in Writers, WriteQueue(w) PROVE PoolNode'
  <2>1. cur[w] \in Msgs /\ fifo.head \in Seq(Msgs)
    BY <1>6 DEF WriteQueue, Calls, tx_fifo
  <2>2. fifo' = fifo \/ fifo' = fifo_queue(fifo, cur[w])
    BY <1>6 DEF WriteQueue
  <2>3. CASE fifo.head # << >>
    <3>1. Append(fifo.head, cur[w]) # << >> /\ Head(Append(fifo.head, cur[w])) = Head(fifo.head)
      BY <2>1, <2>3, AppendKeepsHead
    <3>2. fifo'.head # << >> /\ Head(fifo'.head) = Head(fifo.head)
      BY <2>2, <2>3, <3>1 DEF fifo_queue
    <3> QED
      BY <1>6, <3>2 DEF WriteQueue
  <2>4. CASE fifo.head = << >>
    BY <1>6, <2>4 DEF WriteQueue
  <2> QED
    BY <2>3, <2>4
<1>7. ASSUME NEW w \in Writers, WriteReturn(w) PROVE PoolNode'
  BY <1>7, TxAssumption, UninitFacts DEF WriteReturn, objdefr, ncb_deconstruct, io_close, Refs, Executing
<1>8. CASE DestroyBegin
  BY <1>8 DEF DestroyBegin
<1>9. CASE DestroyClose
  BY <1>9 DEF DestroyClose, io_close
<1>10. CASE DestroyEnd
  BY <1>10, UninitFacts DEF DestroyEnd, objdefr, ncb_deconstruct, io_close, Refs, Executing
<1>11. CASE EpollWait
  BY <1>11 DEF EpollWait
<1>12. CASE EpollClose
  BY <1>12, UninitFacts DEF EpollClose, objclos, ncb_deconstruct, io_close, Refs, Executing
<1>13. CASE EpollRefr
  BY <1>13 DEF EpollRefr, objrefr
<1>14. CASE wp_queued
  BY <1>14 DEF wp_queued
<1>15. CASE EpollSignal
  BY <1>15 DEF EpollSignal
<1>16. CASE EpollRelease
  BY <1>16, UninitFacts DEF EpollRelease, objdefr, ncb_deconstruct, io_close, Refs, Executing
<1>17. CASE PoolWake
  BY <1>17 DEF PoolWake
<1>18. CASE PoolReset
  BY <1>18 DEF PoolReset
<1>19. CASE PoolGet
  BY <1>19 DEF PoolGet
<1>20. CASE PoolRefr
  BY <1>20 DEF PoolRefr, objrefr
<1>21. CASE PoolTop
  <2>1. fifo.head # << >> => Head(fifo.head) \in Msgs
    BY HeadTailProperties DEF tx_fifo
  <2> QED
    BY <1>21, <2>1 DEF PoolTop, fifo_is_empty, fifo_top, StateIllegal
<1>22. CASE PoolSend
  <2>1. /\ ppc = "send" /\ fifo.head # << >> /\ fifo' = fifo
        /\ pnode \in Msgs /\ pnode = Head(fifo.head) /\ pnode' = pnode
    BY <1>22 DEF PoolSend
  <2>2. CASE \E n \in 1 .. Size[pnode] :
               /\ send(pnode, n)
               /\ PGoto("send", IF Completes(pnode, n) THEN AfterSend ELSE "send")
    <3>1. PICK n \in 1 .. Size[pnode] :
            /\ send(pnode, n)
            /\ PGoto("send", IF Completes(pnode, n) THEN AfterSend ELSE "send")
      BY <2>2
    <3>2. off' = [off EXCEPT ![pnode] = off[pnode] + n] /\ off \in [Msgs -> Nat]
      BY <2>1, <3>1, SendFacts
    <3>3. off'[pnode] = off[pnode] + n
      BY <2>1, <3>2
    <3>4. CASE Completes(pnode, n)
      BY <2>1, <3>1, <3>3, <3>4 DEF Completes, AfterSend
    <3>5. CASE ~Completes(pnode, n)
      BY <2>1, <3>1, <3>5
    <3> QED
      BY <3>4, <3>5
  <2>3. CASE ppc' \in {"drop", "close"}
    BY <2>1, <2>3
  <2> QED
    BY <1>22, <2>2, <2>3 DEF PoolSend
<1>23. CASE PoolSelfPop
  BY <1>23, PopFacts DEF PoolSelfPop, PopHead, io_modify, fifo_is_empty
<1>24. CASE PoolTaskPop
  BY <1>24, PopFacts DEF PoolTaskPop, PopHead, io_modify, fifo_is_empty
<1>25. CASE PoolAppend
  BY <1>25 DEF PoolAppend
<1>26. CASE PoolClose
  BY <1>26, UninitFacts DEF PoolClose, objclos, ncb_deconstruct, io_close
<1>27. CASE PoolRelease
  BY <1>27, UninitFacts DEF PoolRelease, objdefr, ncb_deconstruct, io_close
<1>28. CASE PoolTimeout
  BY <1>28 DEF PoolTimeout
<1>29. CASE Drain
  BY <1>29 DEF Drain
<1>30. CASE Arrive
  BY <1>30 DEF Arrive
<1>31. CASE PeerCloses
  BY <1>31 DEF PeerCloses
<1>32. CASE UNCHANGED vars
  BY <1>32 DEF vars
<1> QED
  BY <1>1, <1>2, <1>3, <1>4, <1>5, <1>6, <1>7, <1>8, <1>9, <1>10, <1>11, <1>12, <1>13, <1>14, <1>15, <1>16, <1>17, <1>18, <1>19, <1>20, <1>21, <1>22, <1>23, <1>24, <1>25, <1>26, <1>27, <1>28, <1>29, <1>30, <1>31, <1>32,
     WhichPop
  DEF IInv, Next, WriteStep, EpollStep, PoolStep

(* Every step of wp_queued, __wp_get_task and __wp_exec keeps the tasks of *)
(* a TCP link accounted for.                                               *)
LEMMA StepTasks ==
  ASSUME TxAssumption, FifoAssumption, IInv, [Next]_vars
  PROVE  Tasks'
<1> USE DEF IInv, TypeOK, Values, Tasks, InPool, user, link, kern, data, pool, rest, WGoto, EGoto, PGoto, Result
<1>1. ASSUME NEW w \in Writers, NEW m \in Msgs, WriteEnter(w, m) PROVE Tasks'
  BY <1>1 DEF WriteEnter, objrefr
<1>2. ASSUME NEW m \in Msgs, WriteNoEntry(m) PROVE Tasks'
  BY <1>2 DEF WriteNoEntry
<1>3. ASSUME NEW w \in Writers, WritePrepare(w) PROVE Tasks'
  BY <1>3 DEF WritePrepare
<1>4. ASSUME NEW w \in Writers, WriteCheck(w) PROVE Tasks'
  BY <1>4 DEF WriteCheck, fifo_is_blocking
<1>5. ASSUME NEW w \in Writers, WriteSend(w) PROVE Tasks'
  BY <1>5, SendFacts DEF WriteSend, Completes
<1>6. ASSUME NEW w \in Writers, WriteQueue(w) PROVE Tasks'
  BY <1>6, QueueFacts DEF WriteQueue, io_modify, fifo_is_blocking
<1>7. ASSUME NEW w \in Writers, WriteReturn(w) PROVE Tasks'
  BY <1>7, UninitFacts DEF WriteReturn, objdefr, ncb_deconstruct, io_close
<1>8. CASE DestroyBegin
  BY <1>8 DEF DestroyBegin
<1>9. CASE DestroyClose
  BY <1>9 DEF DestroyClose, io_close
<1>10. CASE DestroyEnd
  BY <1>10, UninitFacts DEF DestroyEnd, objdefr, ncb_deconstruct, io_close
<1>11. CASE EpollWait
  BY <1>11 DEF EpollWait
<1>12. CASE EpollClose
  BY <1>12, UninitFacts DEF EpollClose, objclos, ncb_deconstruct, io_close
<1>13. CASE EpollRefr
  BY <1>13 DEF EpollRefr, objrefr
<1>14. CASE wp_queued
  BY <1>14 DEF wp_queued
<1>15. CASE EpollSignal
  BY <1>15 DEF EpollSignal
<1>16. CASE EpollRelease
  BY <1>16, UninitFacts DEF EpollRelease, objdefr, ncb_deconstruct, io_close
<1>17. CASE PoolWake
  BY <1>17 DEF PoolWake
<1>18. CASE PoolReset
  BY <1>18 DEF PoolReset
<1>19. CASE PoolGet
  BY <1>19 DEF PoolGet
<1>20. CASE PoolRefr
  BY <1>20 DEF PoolRefr, objrefr
<1>21. CASE PoolTop
  BY <1>21 DEF PoolTop, fifo_is_empty, fifo_top, StateIllegal
<1>22. CASE PoolSend
  BY <1>22, SendFacts DEF PoolSend, Completes, AfterSend
<1>23. CASE PoolSelfPop
  BY <1>23, PopFacts DEF PoolSelfPop, PopHead, io_modify, fifo_is_empty
<1>24. CASE PoolTaskPop
  BY <1>24, PopFacts DEF PoolTaskPop, PopHead, io_modify, fifo_is_empty, PoolNode
<1>25. CASE PoolAppend
  BY <1>25 DEF PoolAppend
<1>26. CASE PoolClose
  BY <1>26, UninitFacts DEF PoolClose, objclos, ncb_deconstruct, io_close
<1>27. CASE PoolRelease
  BY <1>27, UninitFacts DEF PoolRelease, objdefr, ncb_deconstruct, io_close
<1>28. CASE PoolTimeout
  BY <1>28 DEF PoolTimeout
<1>29. CASE Drain
  BY <1>29 DEF Drain
<1>30. CASE Arrive
  BY <1>30 DEF Arrive
<1>31. CASE PeerCloses
  BY <1>31 DEF PeerCloses
<1>32. CASE UNCHANGED vars
  BY <1>32 DEF vars
<1> QED
  BY <1>1, <1>2, <1>3, <1>4, <1>5, <1>6, <1>7, <1>8, <1>9, <1>10, <1>11, <1>12, <1>13, <1>14, <1>15, <1>16, <1>17, <1>18, <1>19, <1>20, <1>21, <1>22, <1>23, <1>24, <1>25, <1>26, <1>27, <1>28, <1>29, <1>30, <1>31, <1>32,
     WhichPop
  DEF IInv, Next, WriteStep, EpollStep, PoolStep

-----------------------------------------------------------------------------
(***************************************************************************)
(* The inductive invariant and what follows from it.                       *)
(***************************************************************************)

(* A link just set up (ncb_allocator) satisfies the invariant.             *)
LEMMA InitInv == ASSUME TxAssumption, FifoAssumption, Init PROVE IInv
<1>1. fifo_init \in tx_fifo(Msgs)
  BY DEF FifoAssumption, fifo_init, tx_fifo
<1>2. TypeOK
  <2>1. Flags
    BY DEF Init, Flags
  <2>2. wire \in Seq(Msgs) /\ free \in 0 .. K /\ ins \in 0 .. MaxIn
    BY DEF TxAssumption, Init
  <2> QED
    BY <1>1, <2>1, <2>2 DEF Init, TypeOK, Values
<1>3. FifoConsistent /\ Refs /\ Nodes
  BY DEF TxAssumption, Init, fifo_init, FifoConsistent, fifo_is_blocking,
         fifo_is_empty, Refs, Executing, Nodes
<1>4. Calls /\ PoolNode /\ Tasks
  BY DEF TxAssumption, Init, fifo_init, Calls, PoolNode, Tasks, InPool
<1> QED
  BY <1>2, <1>3, <1>4 DEF IInv

(* No step of any thread, of the kernel or of the peer leaves the          *)
(* invariant.                                                              *)
LEMMA NextInv ==
  ASSUME TxAssumption, FifoAssumption, IInv, [Next]_vars PROVE IInv'
BY StepValues, StepFlags, StepFifoConsistent, StepRefs, StepCalls, StepNodes,
   StepPoolNode, StepTasks DEF IInv, TypeOK

(* The invariant holds in every reachable state of the transmit path.      *)
THEOREM Invariance == Spec => []IInv
<1>1. Init => IInv
  BY InitInv, TxAssumption, FifoAssumption
<1>2. IInv /\ [Next]_vars => IInv'
  BY NextInv, TxAssumption, FifoAssumption
<1> QED
  BY <1>1, <1>2, PTL DEF Spec

(* The variables keep their types: in particular the queue never holds     *)
(* more than MAXIMUM_FIFO_SIZE nodes and no send exceeds the send buffer.  *)
THEOREM Typing == Spec => []TypeOK
<1>1. IInv => TypeOK
  BY DEF IInv
<1> QED
  BY <1>1, Invariance, PTL

(* The blocking flag, the nodes and the EPOLLOUT interest of an open       *)
(* descriptor agree in every state (fifo_queue and fifo_pop).              *)
THEOREM Consistency == Spec => []FifoConsistent
<1>1. IInv => FifoConsistent
  BY DEF IInv
<1> QED
  BY <1>1, Invariance, PTL

(* The node the pool thread sends without the lock of the queue is neither *)
(* freed nor sent by anybody else (fifo_top followed by tcp_txn).          *)
THEOREM Ownership == Spec => []NodeOwned
<1>1. ASSUME IInv PROVE NodeOwned
  <2> SUFFICES ASSUME ppc = "send"
               PROVE  /\ fifo.head # << >> /\ pnode = fifo_top(fifo)
                      /\ \A w \in Writers : wpc[w] = "send" => cur[w] # pnode
    BY DEF NodeOwned
  <2>1. fifo.head # << >> /\ pnode = Head(fifo.head)
    BY <1>1 DEF IInv, PoolNode
  <2>2. fifo.head \in Seq(Msgs)
    BY <1>1 DEF IInv, TypeOK, Values, tx_fifo
  <2>3. Len(fifo.head) \in Nat \ {0} /\ Head(fifo.head) = fifo.head[1]
    BY <2>1, <2>2, EmptySeq
  <2>4. st[pnode] = "queued"
    BY <1>1, <2>1, <2>3 DEF IInv, Calls
  <2>5. \A w \in Writers : wpc[w] = "send" => st[cur[w]] = "new"
    BY <1>1 DEF IInv, Calls
  <2> QED
    BY <2>1, <2>4, <2>5 DEF fifo_top
<1> QED
  BY <1>1, Invariance, PTL

(* On a TCP link every task of the write pool is freed or on the list      *)
(* (__wp_exec, __wp_run, wp_queued).                                       *)
THEOREM TcpTasksAccounted == Proto = "tcp" => (Spec => []NoTaskLeak)
<1>1. Proto = "tcp" /\ IInv => NoTaskLeak
  BY DEF IInv, Tasks, InPool, NoTaskLeak
<1> SUFFICES ASSUME Proto = "tcp" PROVE Spec => []NoTaskLeak
  OBVIOUS
<1>2. IInv => NoTaskLeak
  BY <1>1
<1> QED
  BY <1>2, Invariance, PTL

-----------------------------------------------------------------------------
(***************************************************************************)
(* No edge is lost.                                                        *)
(***************************************************************************)

(* But for wp_queued without memory, each step that takes away one witness *)
(* of EdgePending (ready list, epoll thread, task, pool thread) leaves     *)
(* another.                                                                *)
LEMMA StepNoLostEdge ==
  ASSUME TxAssumption, FifoAssumption, IInv, EdgePending, [Next]_vars,
         ~EGoto("queued", "release")
  PROVE  EdgePending'
<1> USE DEF IInv, TypeOK, Values, FifoConsistent, EdgePending, fifo_is_blocking, fifo_is_empty, user, link, kern, data, pool, rest, WGoto, EGoto, PGoto, Result
<1>1. ASSUME NEW w \in Writers, NEW m \in Msgs, WriteEnter(w, m) PROVE EdgePending'
  BY <1>1 DEF WriteEnter, objrefr
<1>2. ASSUME NEW m \in Msgs, WriteNoEntry(m) PROVE EdgePending'
  BY <1>2 DEF WriteNoEntry
<1>3. ASSUME NEW w \in Writers, WritePrepare(w) PROVE EdgePending'
  BY <1>3 DEF WritePrepare
<1>4. ASSUME NEW w \in Writers, WriteCheck(w) PROVE EdgePending'
  BY <1>4 DEF WriteCheck, fifo_is_blocking
<1>5. ASSUME NEW w \in Writers, WriteSend(w) PROVE EdgePending'
  BY <1>5, SendFacts DEF WriteSend, Calls
<1>6. ASSUME NEW w \in Writers, WriteQueue(w) PROVE EdgePending'
  <2>1. UNCHANGED <<stat, sock, free, epc, ppc, tasks, signal>>
    BY <1>6 DEF WriteQueue, io_modify
  <2>2. CASE UNCHANGED <<fifo, kern>>
    BY <2>1, <2>2
  <2>3. CASE fifo.head # << >> /\ UNCHANGED kern
    BY <2>1, <2>3
  <2>4. CASE io_modify(TRUE)
    <3>1. out' /\ (rdy' \/ (nospace' /\ free = 0))
      <4>1. free > 0 \/ free = 0
        BY DEF TxAssumption
      <4> QED
        BY <2>4, <4>1, Zenon DEF io_modify
    <3> QED
      BY <2>1, <3>1
  <2>5. fifo_is_blocking(fifo) => stat = "closed" \/ fifo.head # << >>
    BY DEF FifoConsistent
  <2>6. stat # "closed"
    BY <1>6 DEF WriteQueue, Refs
  <2> QED
    BY <1>6, <2>2, <2>3, <2>4, <2>5, <2>6 DEF WriteQueue
<1>7. ASSUME NEW w \in Writers, WriteReturn(w) PROVE EdgePending'
  BY <1>7 DEF WriteReturn, objdefr, ncb_deconstruct, io_close, fifo_uninit
<1>8. CASE DestroyBegin
  BY <1>8 DEF DestroyBegin
<1>9. CASE DestroyClose
  BY <1>9 DEF DestroyClose, io_close
<1>10. CASE DestroyEnd
  BY <1>10 DEF DestroyEnd, objdefr, ncb_deconstruct, io_close, fifo_uninit
<1>11. CASE EpollWait
  <2>1. UNCHANGED <<fifo, stat, sock, out, free, tasks, signal, ppc>>
    BY <1>11 DEF EpollWait
  <2> SUFFICES ASSUME stat = "open", sock = "est", fifo.head # << >>
               PROVE  (out /\ nospace' /\ free = 0) \/ epc' = "refr"
    BY <2>1
  <2>2. out
    BY DEF FifoConsistent
  <2>3. CASE free > 0
    BY <1>11, <2>2, <2>3 DEF EpollWait
  <2>4. CASE free = 0
    <3>1. nospace'
      BY <1>11, <2>4, Zenon DEF EpollWait, Alive
    <3> QED
      BY <2>2, <2>4, <3>1
  <2> QED
    BY <2>3, <2>4 DEF TxAssumption
<1>12. CASE EpollClose
  BY <1>12 DEF EpollClose, objclos, ncb_deconstruct, io_close, fifo_uninit
<1>13. CASE EpollRefr
  BY <1>13 DEF EpollRefr, objrefr
<1>14. CASE wp_queued
  BY <1>14 DEF wp_queued
<1>15. CASE EpollSignal
  BY <1>15 DEF EpollSignal
<1>16. CASE EpollRelease
  BY <1>16 DEF EpollRelease, objdefr, ncb_deconstruct, io_close, fifo_uninit
<1>17. CASE PoolWake
  BY <1>17 DEF PoolWake
<1>18. CASE PoolReset
  BY <1>18 DEF PoolReset
<1>19. CASE PoolGet
  BY <1>19 DEF PoolGet
<1>20. CASE PoolRefr
  BY <1>20 DEF PoolRefr, objrefr
<1>21. CASE PoolTop
  BY <1>21 DEF PoolTop, StateIllegal
<1>22. CASE PoolSend
  <2>1. UNCHANGED <<fifo, stat, sock, out, epc, tasks, signal>>
    BY <1>22 DEF PoolSend, send
  <2>2. CASE ppc' \in {"send", "selfpop", "pop"}
    BY <2>1, <2>2
  <2>3. CASE ~Alive
    BY <2>1, <2>3 DEF Alive
  <2>4. CASE Alive /\ free = 0 /\ nospace' /\ free' = free
    BY <2>1, <2>4
  <2> QED
    BY <1>22, <2>2, <2>3, <2>4 DEF PoolSend, AfterSend
<1>23. CASE PoolSelfPop
  BY <1>23 DEF PoolSelfPop, PopHead, io_modify, PoolNode, fifo_pop, LastPop
<1>24. CASE PoolTaskPop
  BY <1>24 DEF PoolTaskPop, PopHead, io_modify, PoolNode, fifo_pop, LastPop
<1>25. CASE PoolAppend
  BY <1>25 DEF PoolAppend
<1>26. CASE PoolClose
  BY <1>26 DEF PoolClose, objclos, ncb_deconstruct, io_close, fifo_uninit
<1>27. CASE PoolRelease
  BY <1>27 DEF PoolRelease, objdefr, ncb_deconstruct, io_close, fifo_uninit
<1>28. CASE PoolTimeout
  BY <1>28 DEF PoolTimeout
<1>29. CASE Drain
  BY <1>29 DEF Drain, Alive
<1>30. CASE Arrive
  BY <1>30 DEF Arrive
<1>31. CASE PeerCloses
  BY <1>31 DEF PeerCloses
<1>32. CASE UNCHANGED vars
  BY <1>32 DEF vars
<1> QED
  BY <1>1, <1>2, <1>3, <1>4, <1>5, <1>6, <1>7, <1>8, <1>9, <1>10, <1>11, <1>12, <1>13, <1>14, <1>15, <1>16, <1>17, <1>18, <1>19, <1>20, <1>21, <1>22, <1>23, <1>24, <1>25, <1>26, <1>27, <1>28, <1>29, <1>30, <1>31, <1>32,
     WhichPop
  DEF IInv, Next, WriteStep, EpollStep, PoolStep

(* While nodes wait on a usable link, the epoll thread, the pool or the    *)
(* kernel's edge is going to take care of them, and no step of writers,    *)
(* epoll thread or pool thread changes that (fifo_queue, __iorun,          *)
(* __wp_run), but for wp_queued without memory, which forgets the event.   *)
THEOREM EdgesKept == Spec => NoLostEdge
<1>1. Init => EdgePending
  BY DEF Init, EdgePending, fifo_init, fifo_is_empty
<1>2. IInv /\ [Next]_vars => [EdgePending => EdgePending' \/ EGoto("queued", "release")]_vars
  BY StepNoLostEdge, TxAssumption, FifoAssumption
<1> QED
  BY <1>1, <1>2, Invariance, PTL DEF Spec, NoLostEdge

-----------------------------------------------------------------------------
(***************************************************************************)
(* Only nodes that were sent leave the queue of a TCP link.                *)
(***************************************************************************)

(* Only fifo_pop of the pool thread takes the head from the queue of a link*)
(* that is not closed.                                                     *)
LEMMA OnlyPops ==
  ASSUME IInv, [Next]_vars, fifo.head # << >>, fifo'.head = Tail(fifo.head), stat' # "closed"
  PROVE  PoolTaskPop \/ PoolSelfPop
<1>1. fifo.head \in Seq(Msgs) /\ fifo'.head # fifo.head
  <2>1. fifo.head \in Seq(Msgs)
    BY DEF IInv, TypeOK, Values, tx_fifo
  <2>2. Len(Tail(fifo.head)) = Len(fifo.head) - 1 /\ Len(fifo.head) \in Nat
    BY <2>1, HeadTailProperties
  <2>3. fifo'.head = Tail(fifo.head)
    OBVIOUS
  <2>4. Len(Tail(fifo.head)) # Len(fifo.head)
    BY <2>2
  <2> QED
    BY <2>1, <2>3, <2>4, Zenon
<1>2. CASE \E w \in Writers : WriteQueue(w)
  <2>1. PICK w \in Writers : WriteQueue(w)
    BY <1>2
  <2>2. fifo' = fifo_queue(fifo, cur[w])
    BY <1>1, <2>1 DEF WriteQueue
  <2>3. cur[w] \in Msgs
    BY <2>1 DEF WriteQueue, WGoto, IInv, Calls
  <2>4. Len(fifo'.head) = Len(fifo.head) + 1
    BY <1>1, <2>2, <2>3, AppendProperties DEF fifo_queue
  <2>5. Len(fifo'.head) = Len(fifo.head) - 1 /\ Len(fifo.head) \in Nat
    BY <1>1, HeadTailProperties
  <2> QED
    BY <2>4, <2>5
<1>3. fifo' = fifo \/ stat' = "closed" \/ PoolPop
      \/ \E w \in Writers : WriteQueue(w)
  BY DEF Next, WriteStep, EpollStep, PoolStep, WriteEnter, WriteNoEntry,
     WritePrepare, WriteCheck, WriteSend, WriteReturn, DestroyBegin,
     DestroyClose, DestroyEnd, EpollWait, EpollClose, EpollRefr, wp_queued,
     EpollSignal, EpollRelease, PoolWake, PoolTimeout, PoolReset, PoolGet,
     PoolRefr, PoolTop, PoolSend, PoolAppend, PoolClose, PoolRelease, Drain,
     Arrive, PeerCloses, objdefr, objclos, data, vars
<1> QED
  <2>1. PoolPop => PoolSelfPop \/ PoolTaskPop
    BY WhichPop DEF IInv
  <2> QED
    BY <1>1, <1>2, <1>3, <2>1

(* fifo_pop of the pool thread removes a TCP node only when all of it is   *)
(* with the kernel (tcp_tx and the pop of __wp_exec).                      *)
THEOREM TcpPopOnlySent == Proto = "tcp" => (Spec => PopOnlySent)
<1> DEFINE Popped(m) == /\ fifo.head # << >> /\ m = Head(fifo.head)
                        /\ fifo'.head = Tail(fifo.head) /\ stat' # "closed"
<1> SUFFICES ASSUME Proto = "tcp" PROVE Spec => PopOnlySent
  OBVIOUS
<1>1. ASSUME IInv, [Next]_vars, NEW m \in Msgs, Popped(m)
      PROVE  off[m] = Size[m]
  <2>1. PoolTaskPop \/ PoolSelfPop
    BY <1>1, OnlyPops
  <2>2. CASE PoolTaskPop
    BY <1>1, <2>2 DEF PoolTaskPop, PGoto, IInv, PoolNode
  <2>3. CASE PoolSelfPop
    BY <1>1, <2>3 DEF PoolSelfPop, PGoto, IInv, PoolNode
  <2> QED
    BY <2>1, <2>2, <2>3
<1>2. ASSUME IInv, [Next]_vars
      PROVE  [\A m \in Msgs : Popped(m) => off[m] = Size[m]]_vars
  BY <1>1, <1>2
<1>3. IInv /\ [Next]_vars => [\A m \in Msgs : Popped(m) => off[m] = Size[m]]_vars
  BY <1>2
<1> QED
  BY <1>3, Invariance, PTL DEF Spec, PopOnlySent

-----------------------------------------------------------------------------
(***************************************************************************)
(* Writes reach the wire in their order.                                   *)
(***************************************************************************)

(* A message that tcp_write has sent is with the kernel, one that it has   *)
(* queued is with the kernel or in the queue - until the link is closed -  *)
(* and of one no writer has taken up nothing has left.                     *)
Kept ==
  \A m \in Msgs :
    /\ st[m] = "sent" => off[m] = Size[m]
    /\ st[m] = "queued" => \/ off[m] = Size[m]
                           \/ stat = "closed"
                           \/ \E i \in 1 .. Len(fifo.head) : fifo.head[i] = m
    /\ st[m] = "new" /\ (\A w \in Writers : cur[w] # m) => off[m] = 0
    /\ \A w \in Writers : cur[w] = m /\ wpc[w] \in {"prepare", "check"} => off[m] = 0

(* A call that is about to return has its result.                          *)
Decided == \A w \in Writers : wpc[w] = "return" => st[cur[w]] # "new"

(* The messages that had been accepted when m's write began were accepted, *)
(* are before it in the queue, and are sent when its writer is sending.    *)
Earlier ==
  \A m \in Msgs : \A p \in prior[m] :
    /\ st[p] \in {"sent", "queued"}
    /\ \A i, j \in 1 .. Len(fifo.head) : fifo.head[i] = p /\ fifo.head[j] = m => i < j
    /\ \A w \in Writers : cur[w] = m /\ wpc[w] = "send" => off[p] = Size[p]

Order == Kept /\ Decided /\ Earlier /\ RealTimeOrder

(* A step that writes nothing and takes nothing from the queue, unless it  *)
(* closes the link.                                                        *)
LEMMA QuietOrder ==
  ASSUME TypeOK, Order, UNCHANGED <<st, prior, off, cur, wpc>>,
         \/ fifo' = fifo /\ (stat = "closed" => stat' = "closed")
         \/ fifo'.head = << >> /\ stat' = "closed"
  PROVE  Order'
<1>1. CASE fifo' = fifo /\ (stat = "closed" => stat' = "closed")
  BY <1>1 DEF Order, Kept, Decided, Earlier, RealTimeOrder
<1>2. CASE fifo'.head = << >> /\ stat' = "closed"
  <2>1. 1 .. Len(fifo'.head) = {}
    BY <1>2, EmptySeq
  <2> QED
    BY <1>2, <2>1 DEF Order, Kept, Decided, Earlier, RealTimeOrder
<1> QED
  BY <1>1, <1>2

(* objdefr and objclos free the queue only with the closed link.           *)
LEMMA ReleaseEffect ==
  ASSUME IInv, NEW t, objdefr(t) \/ objclos
  PROVE  /\ off' = off
         /\ \/ fifo' = fifo /\ (stat = "closed" => stat' = "closed")
            \/ fifo'.head = << >> /\ stat' = "closed"
BY UninitFacts DEF IInv, TypeOK, Values, objdefr, objclos, ncb_deconstruct, data

(* A message that is whole on the wire stays so.                           *)
LEMMA SendKeepsWhole ==
  ASSUME TxAssumption, TypeOK, Nodes, NEW m \in Msgs, NEW n, send(m, n)
  PROVE  /\ \A x \in Msgs : off[x] = Size[x] => off'[x] = Size[x]
         /\ \A x \in Msgs : x # m => off'[x] = off[x]
         /\ off'[m] = off[m] + n /\ off'[m] > 0 /\ off[m] # Size[m]
<1>1. n \in Nat \ {0} /\ off' = [off EXCEPT ![m] = off[m] + n] /\ \A x \in Msgs : off'[x] <= Size[x]
  BY SendFacts
<1>2. off \in [Msgs -> Nat] /\ Size \in [Msgs -> Nat \ {0}]
  BY DEF TypeOK, Values, TxAssumption
<1>3. off'[m] = off[m] + n /\ \A x \in Msgs : x # m => off'[x] = off[x]
  BY <1>1, <1>2
<1>4. off[m] + n <= Size[m] /\ off[m] \in Nat /\ Size[m] \in Nat
  BY <1>1, <1>2, <1>3
<1>5. off[m] # Size[m] /\ off'[m] > 0
  BY <1>1, <1>3, <1>4
<1> QED
  BY <1>3, <1>5

(* One send(2) for m, by its writer or by the pool thread, once all that   *)
(* was accepted before it is on the wire.                                  *)
LEMMA SendOrder ==
  ASSUME TxAssumption, TypeOK, Nodes, Order, NEW m \in Msgs, NEW n, send(m, n),
         \A p \in prior[m] : off[p] = Size[p],
         UNCHANGED prior
  PROVE  /\ RealTimeOrder'
         /\ \A x \in Msgs : \A p \in prior[x] : off[p] = Size[p] => off'[p] = Size[p]
<1>1. /\ \A x \in Msgs : off[x] = Size[x] => off'[x] = Size[x]
      /\ \A x \in Msgs : x # m => off'[x] = off[x]
  BY SendKeepsWhole
<1>2. \A x \in Msgs : prior[x] \subseteq Msgs
  BY DEF TypeOK, Values
<1>3. ASSUME NEW x \in Msgs, off'[x] > 0, NEW p \in prior[x]
      PROVE  off'[p] = Size[p]
  <2>1. CASE x = m
    BY <1>1, <1>2, <1>3, <2>1
  <2>2. CASE x # m
    BY <1>1, <1>2, <1>3, <2>2 DEF Order, RealTimeOrder
  <2> QED
    BY <2>1, <2>2
<1> QED
  BY <1>1, <1>2, <1>3 DEF RealTimeOrder

(* __tcprefr, or the early return: what a call begins with.                *)
LEMMA EnterOrder ==
  ASSUME TxAssumption, IInv, Order, NEW w \in Writers, NEW m \in Msgs, WriteEnter(w, m)
  PROVE  Order'
<1>1. /\ st[m] = "new" /\ (\A v \in Writers : cur[v] # m)
      /\ wpc[w] = "idle" /\ wpc' = [wpc EXCEPT ![w] = "prepare"]
      /\ cur' = [cur EXCEPT ![w] = m] /\ prior' = [prior EXCEPT ![m] = Accepted]
      /\ UNCHANGED <<st, fifo, off, stat>>
  BY DEF WriteEnter, WGoto, objrefr, data
<1>2. /\ wpc \in [Writers -> WriterPlaces] /\ cur \in [Writers -> Msgs \cup {NoMsg}]
      /\ prior \in [Msgs -> SUBSET Msgs] /\ stat # "closed"
  BY DEF IInv, TypeOK, Values, WriterPlaces, WriteEnter, objrefr
<1>3. off[m] = 0
  BY <1>1 DEF Order, Kept
<1>4. ASSUME NEW p \in Accepted
      PROVE  p \in Msgs /\ st[p] \in {"sent", "queued"} /\ (\A v \in Writers : cur[v] # p)
  BY DEF Accepted
<1>5. Kept'
  <2>1. cur[w] = NoMsg /\ NoMsg \notin Msgs
    BY <1>1 DEF IInv, Calls, TxAssumption
  <2>2. ASSUME NEW x \in Msgs, \A v \in Writers : cur'[v] # x
        PROVE  \A v \in Writers : cur[v] # x
    BY <1>1, <1>2, <2>1, <2>2
  <2>3. ASSUME NEW x \in Msgs, NEW v \in Writers, cur'[v] = x, wpc'[v] \in {"prepare", "check"}
        PROVE  off[x] = 0
    <3>1. CASE v = w
      BY <1>1, <1>2, <1>3, <2>3, <3>1
    <3>2. CASE v # w
      BY <1>1, <1>2, <2>3, <3>2 DEF Order, Kept
    <3> QED
      BY <3>1, <3>2
  <2> QED
    BY <1>1, <2>2, <2>3 DEF Order, Kept
<1>6. Decided'
  BY <1>1, <1>2 DEF Order, Decided
<1>7. \A i \in 1 .. Len(fifo.head) : fifo.head[i] # m
  BY <1>1 DEF IInv, Calls
<1>8. Earlier'
  BY <1>1, <1>2, <1>4, <1>7 DEF Order, Earlier
<1>9. RealTimeOrder'
  BY <1>1, <1>2, <1>3 DEF Order, RealTimeOrder
<1> QED
  BY <1>5, <1>6, <1>8, <1>9 DEF Order

(* A call of writer w that ends, or goes on, without having sent or queued *)
(* anything in this step.                                                  *)
LEMMA MoveOrder ==
  ASSUME TxAssumption, IInv, Order, NEW w \in Writers,
         NEW x \in {"check", "send", "queue", "return"},
         wpc[w] \in {"prepare", "check", "send", "queue"},
         wpc' = [wpc EXCEPT ![w] = x],
         UNCHANGED <<cur, prior, off, fifo, stat>>,
         x = "check" => wpc[w] = "prepare",
         x = "send" => \A p \in prior[cur[w]] : off[p] = Size[p],
         \/ x # "return" /\ UNCHANGED st
         \/ x = "return" /\ \E r \in {"busy", "failed"} : Result(cur[w], r)
  PROVE  Order'
<1>1. /\ wpc \in [Writers -> WriterPlaces] /\ cur \in [Writers -> Msgs \cup {NoMsg}]
      /\ prior \in [Msgs -> SUBSET Msgs]
      /\ st \in [Msgs -> {"new", "sent", "queued", "busy", "failed"}]
  BY DEF IInv, TypeOK, Values, WriterPlaces
<1>2. /\ cur[w] \in Msgs /\ st[cur[w]] = "new"
      /\ \A v \in Writers : v # w => cur[v] # cur[w]
  BY DEF IInv, Calls
<1>3. /\ \A m \in Msgs : m # cur[w] => st'[m] = st[m]
      /\ x = "return" => st'[cur[w]] \in {"busy", "failed"}
      /\ x # "return" => st'[cur[w]] = "new"
  BY <1>1, <1>2 DEF Result
<1>4. /\ \A v \in Writers : v # w => wpc'[v] = wpc[v]
      /\ wpc'[w] = x
  BY <1>1
<1>5. Decided'
  <2>1. \A v \in Writers : wpc[v] = "return" => cur[v] \in Msgs
    BY DEF IInv, Calls
  <2>2. ASSUME NEW v \in Writers, wpc'[v] = "return"
        PROVE  st'[cur[v]] # "new"
    <3>1. CASE v = w
      BY <1>3, <1>4, <2>2, <3>1
    <3>2. CASE v # w
      BY <1>2, <1>3, <1>4, <2>1, <2>2, <3>2 DEF Order, Decided
    <3> QED
      BY <3>1, <3>2
  <2> QED
    BY <2>2 DEF Decided
<1>6. Kept'
  <2>1. ASSUME NEW m \in Msgs, m # cur[w]
        PROVE  /\ st'[m] = "sent" => off'[m] = Size[m]
               /\ st'[m] = "queued" => \/ off'[m] = Size[m]
                                       \/ stat' = "closed"
                                       \/ \E i \in 1 .. Len(fifo'.head) : fifo'.head[i] = m
               /\ st'[m] = "new" /\ (\A v \in Writers : cur'[v] # m) => off'[m] = 0
               /\ \A v \in Writers : cur'[v] = m /\ wpc'[v] \in {"prepare", "check"} => off'[m] = 0
    BY <1>3, <1>4, <2>1 DEF Order, Kept
  <2>2. ASSUME NEW v \in Writers, cur'[v] = cur[w], wpc'[v] \in {"prepare", "check"}
        PROVE  off'[cur[w]] = 0
    BY <1>2, <1>4, <2>2 DEF Order, Kept
  <2>3. st'[cur[w]] \in {"new", "busy", "failed"}
    BY <1>3
  <2> QED
    BY <1>2, <2>1, <2>2, <2>3 DEF Kept
<1>7. Earlier'
  <2>1. ASSUME NEW m \in Msgs, NEW p \in prior[m]
        PROVE  st'[p] \in {"sent", "queued"}
    BY <1>1, <1>2, <1>3 DEF Order, Earlier
  <2>2. ASSUME NEW m \in Msgs, NEW p \in prior[m], NEW v \in Writers,
               cur[v] = m, wpc'[v] = "send"
        PROVE  off[p] = Size[p]
    BY <1>4, <2>2 DEF Order, Earlier
  <2> QED
    BY <2>1, <2>2 DEF Order, Earlier
<1>8. RealTimeOrder'
  BY DEF Order, RealTimeOrder
<1> QED
  BY <1>5, <1>6, <1>7, <1>8 DEF Order

(* One send(2) of the loop in tcp_txn that has taken bytes.                *)
LEMMA DirectSendOrder ==
  ASSUME TxAssumption, IInv, Order, NEW w \in Writers, NEW n, send(cur[w], n),
         wpc[w] = "send", UNCHANGED <<cur, prior, fifo, stat>>,
         \/ wpc' = [wpc EXCEPT ![w] = "return"] /\ Result(cur[w], "sent") /\ Completes(cur[w], n)
         \/ wpc' = wpc /\ UNCHANGED st
  PROVE  Order'
<1> DEFINE c == cur[w]
<1>1. /\ wpc \in [Writers -> WriterPlaces]
      /\ prior \in [Msgs -> SUBSET Msgs]
      /\ st \in [Msgs -> {"new", "sent", "queued", "busy", "failed"}]
  BY DEF IInv, TypeOK, Values, WriterPlaces
<1>2. /\ c \in Msgs /\ st[c] = "new" /\ \A v \in Writers : v # w => cur[v] # c
  BY DEF IInv, Calls
<1>3. /\ \A x \in Msgs : off[x] = Size[x] => off'[x] = Size[x]
      /\ \A x \in Msgs : x # c => off'[x] = off[x]
      /\ off'[c] = off[c] + n
  BY <1>2, SendKeepsWhole DEF IInv
<1>4. \A p \in prior[c] : off[p] = Size[p]
  BY <1>2 DEF Order, Earlier
<1>5. RealTimeOrder'
  BY <1>2, <1>4, SendOrder DEF IInv
<1>6. /\ \A m \in Msgs : m # c => st'[m] = st[m]
      /\ st'[c] = "new" \/ (st'[c] = "sent" /\ off'[c] = Size[c])
      /\ \A v \in Writers : wpc'[v] = wpc[v] \/ (v = w /\ wpc'[v] = "return" /\ st'[c] = "sent")
  BY <1>1, <1>2, <1>3 DEF Result, Completes
<1>7. Decided'
  BY <1>2, <1>6 DEF Order, Decided, IInv, Calls
<1>8. Kept'
  <2>1. ASSUME NEW m \in Msgs, m # c
        PROVE  /\ st'[m] = "sent" => off'[m] = Size[m]
               /\ st'[m] = "queued" => \/ off'[m] = Size[m]
                                       \/ stat' = "closed"
                                       \/ \E i \in 1 .. Len(fifo'.head) : fifo'.head[i] = m
               /\ st'[m] = "new" /\ (\A v \in Writers : cur'[v] # m) => off'[m] = 0
               /\ \A v \in Writers : cur'[v] = m /\ wpc'[v] \in {"prepare", "check"} => off'[m] = 0
    BY <1>3, <1>6, <2>1 DEF Order, Kept
  <2>2. \A v \in Writers : cur'[v] = c => wpc'[v] \notin {"prepare", "check"}
    BY <1>2, <1>6
  <2> QED
    BY <1>2, <1>6, <2>1, <2>2 DEF Kept
<1>9. Earlier'
  <2>1. ASSUME NEW m \in Msgs, NEW p \in prior[m]
        PROVE  st'[p] \in {"sent", "queued"}
    BY <1>1, <1>2, <1>6 DEF Order, Earlier
  <2>2. ASSUME NEW m \in Msgs, NEW p \in prior[m], NEW v \in Writers,
               cur[v] = m, wpc'[v] = "send"
        PROVE  off'[p] = Size[p]
    BY <1>1, <1>3, <1>6, <2>2 DEF Order, Earlier
  <2> QED
    BY <2>1, <2>2 DEF Order, Earlier
<1> QED
  BY <1>5, <1>7, <1>8, <1>9 DEF Order

(* fifo_queue has taken the node: it stands behind all that were before it.*)
LEMMA QueueOrder ==
  ASSUME TxAssumption, IInv, Order, NEW w \in Writers, wpc[w] = "queue",
         wpc' = [wpc EXCEPT ![w] = "return"], UNCHANGED <<cur, prior, off, stat>>,
         fifo' = fifo_queue(fifo, cur[w]), Result(cur[w], "queued")
  PROVE  Order'
<1> DEFINE c == cur[w]
           h == fifo.head
           k == Len(h)
<1>1. /\ wpc \in [Writers -> WriterPlaces]
      /\ prior \in [Msgs -> SUBSET Msgs] /\ h \in Seq(Msgs) /\ k \in Nat
      /\ st \in [Msgs -> {"new", "sent", "queued", "busy", "failed"}]
  BY DEF IInv, TypeOK, Values, WriterPlaces, tx_fifo
<1>2. /\ c \in Msgs /\ st[c] = "new" /\ (\A v \in Writers : v # w => cur[v] # c)
      /\ \A i \in 1 .. k : st[h[i]] = "queued"
  BY DEF IInv, Calls
<1>3. /\ Len(fifo'.head) = k + 1 /\ fifo'.head[k + 1] = c
      /\ \A i \in 1 .. k : fifo'.head[i] = h[i]
  BY <1>1, <1>2, AppendProperties DEF fifo_queue
<1>4. /\ \A m \in Msgs : m # c => st'[m] = st[m]
      /\ st'[c] = "queued"
      /\ wpc'[w] = "return" /\ \A v \in Writers : v # w => wpc'[v] = wpc[v]
  BY <1>1, <1>2 DEF Result
<1> HIDE DEF k
<1>5. Decided'
  <2>1. \A v \in Writers : wpc[v] = "return" => cur[v] \in Msgs
    BY DEF IInv, Calls
  <2> QED
    BY <1>2, <1>4, <2>1 DEF Order, Decided
<1>6. Kept'
  <2>1. ASSUME NEW m \in Msgs, m # c
        PROVE  /\ st'[m] = "sent" => off'[m] = Size[m]
               /\ st'[m] = "new" /\ (\A v \in Writers : cur'[v] # m) => off'[m] = 0
               /\ \A v \in Writers : cur'[v] = m /\ wpc'[v] \in {"prepare", "check"} => off'[m] = 0
    BY <1>4, <2>1 DEF Order, Kept
  <2>2. ASSUME NEW m \in Msgs, m # c, st'[m] = "queued"
        PROVE  \/ off'[m] = Size[m]
               \/ stat' = "closed"
               \/ \E i \in 1 .. Len(fifo'.head) : fifo'.head[i] = m
    <3>1. \/ off[m] = Size[m]
          \/ stat = "closed"
          \/ \E i \in 1 .. k : h[i] = m
      BY <1>4, <2>2 DEF Order, Kept, k
    <3>2. ASSUME NEW i \in 1 .. k, h[i] = m
          PROVE  i \in 1 .. Len(fifo'.head) /\ fifo'.head[i] = m
      BY <1>1, <1>3, <3>2
    <3> QED
      BY <3>1, <3>2
  <2>3. \E i \in 1 .. Len(fifo'.head) : fifo'.head[i] = c
    BY <1>1, <1>3
  <2>4. \A v \in Writers : cur'[v] = c => wpc'[v] \notin {"prepare", "check"}
    BY <1>2, <1>4
  <2> QED
    BY <1>2, <1>4, <2>1, <2>2, <2>3, <2>4 DEF Kept
<1>7. Earlier'
  <2>1. ASSUME NEW m \in Msgs, NEW p \in prior[m]
        PROVE  p # c /\ st'[p] \in {"sent", "queued"}
    BY <1>1, <1>2, <1>4 DEF Order, Earlier
  <2>2. ASSUME NEW m \in Msgs, NEW p \in prior[m],
               NEW i \in 1 .. Len(fifo'.head), NEW j \in 1 .. Len(fifo'.head),
               fifo'.head[i] = p, fifo'.head[j] = m
        PROVE  i < j
    <3>1. i \in 1 .. k
      BY <1>1, <1>3, <2>1, <2>2
    <3>2. CASE j = k + 1
      BY <1>1, <3>1, <3>2
    <3>3. CASE j \in 1 .. k
      <4>1. h[i] = p /\ h[j] = m
        BY <1>3, <2>2, <3>1, <3>3
      <4> QED
        BY <3>1, <3>3, <4>1 DEF Order, Earlier, k
    <3> QED
      BY <1>1, <1>3, <3>2, <3>3
  <2>3. ASSUME NEW m \in Msgs, NEW p \in prior[m], NEW v \in Writers,
               cur[v] = m, wpc'[v] = "send"
        PROVE  off[p] = Size[p]
    BY <1>4, <2>3 DEF Order, Earlier
  <2> QED
    BY <2>1, <2>2, <2>3 DEF Earlier
<1>8. RealTimeOrder'
  BY DEF Order, RealTimeOrder
<1> QED
  BY <1>5, <1>6, <1>7, <1>8 DEF Order

(* tcp_write returns to the user.                                          *)
LEMMA ReturnOrder ==
  ASSUME TxAssumption, IInv, Order, NEW w \in Writers, WriteReturn(w)
  PROVE  Order'
<1>1. /\ wpc[w] = "return" /\ wpc' = [wpc EXCEPT ![w] = "idle"]
      /\ cur' = [cur EXCEPT ![w] = NoMsg] /\ UNCHANGED <<st, prior>>
  BY DEF WriteReturn, WGoto
<1>2. /\ off' = off
      /\ \/ fifo' = fifo /\ (stat = "closed" => stat' = "closed")
         \/ fifo'.head = << >> /\ stat' = "closed"
  BY ReleaseEffect DEF WriteReturn
<1>3. /\ cur \in [Writers -> Msgs \cup {NoMsg}] /\ wpc \in [Writers -> WriterPlaces]
      /\ NoMsg \notin Msgs
  BY DEF IInv, TypeOK, Values, WriterPlaces, TxAssumption
<1>4. ASSUME NEW v \in Writers, wpc'[v] # "idle"
      PROVE  v # w /\ wpc'[v] = wpc[v] /\ cur'[v] = cur[v]
  BY <1>1, <1>3, <1>4
<1>5. Decided'
  BY <1>1, <1>4 DEF Order, Decided
<1>6. st[cur[w]] # "new"
  BY <1>1 DEF Order, Decided
<1>7. Kept'
  <2>1. ASSUME NEW m \in Msgs, st[m] = "new", \A v \in Writers : cur'[v] # m
        PROVE  off[m] = 0
    <3>1. \A v \in Writers : cur[v] # m
      BY <1>1, <1>3, <1>6, <2>1
    <3> QED
      BY <2>1, <3>1 DEF Order, Kept
  <2>2. ASSUME NEW m \in Msgs, NEW v \in Writers, cur'[v] = m, wpc'[v] \in {"prepare", "check"}
        PROVE  off[m] = 0
    BY <1>4, <2>2 DEF Order, Kept
  <2>3. ASSUME NEW m \in Msgs, st[m] = "queued"
        PROVE  \/ off[m] = Size[m]
               \/ stat' = "closed"
               \/ \E i \in 1 .. Len(fifo'.head) : fifo'.head[i] = m
    BY <1>2, <2>3 DEF Order, Kept
  <2> QED
    BY <1>1, <1>2, <2>1, <2>2, <2>3 DEF Order, Kept
<1>8. Earlier'
  <2>1. fifo' = fifo \/ 1 .. Len(fifo'.head) = {}
    BY <1>2, EmptySeq
  <2> QED
    BY <1>1, <1>2, <1>4, <2>1 DEF Order, Earlier
<1>9. RealTimeOrder'
  BY <1>1, <1>2 DEF Order, RealTimeOrder
<1> QED
  BY <1>5, <1>7, <1>8, <1>9 DEF Order

(* A call on a link that is closing.                                       *)
LEMMA NoEntryOrder ==
  ASSUME TxAssumption, IInv, Order, NEW m \in Msgs, WriteNoEntry(m)
  PROVE  Order'
<1>1. /\ st[m] = "new" /\ st' = [st EXCEPT ![m] = "failed"]
      /\ UNCHANGED <<cur, prior, fifo, off, stat, wpc>>
  BY DEF WriteNoEntry, Result, data, link
<1>2. /\ st \in [Msgs -> {"new", "sent", "queued", "busy", "failed"}]
      /\ prior \in [Msgs -> SUBSET Msgs]
      /\ \A w \in Writers : wpc[w] = "return" => cur[w] \in Msgs
  BY DEF IInv, TypeOK, Values, Calls
<1>3. st'[m] = "failed" /\ \A x \in Msgs : x # m => st'[x] = st[x]
  BY <1>1, <1>2
<1>4. Kept' /\ Decided'
  BY <1>1, <1>2, <1>3 DEF Order, Kept, Decided
<1>5. Earlier' /\ RealTimeOrder'
  BY <1>1, <1>2, <1>3 DEF Order, Earlier, RealTimeOrder
<1> QED
  BY <1>4, <1>5 DEF Order

(* One send(2) of the pool thread, for the node at the head of the queue:  *)
(* whatever was accepted before it has left the queue, whole.              *)
LEMMA HeadSendOrder ==
  ASSUME TxAssumption, IInv, Order, ppc = "send", NEW n, send(pnode, n),
         UNCHANGED <<wpc, st, cur, prior, fifo, stat>>
  PROVE  Order'
<1> DEFINE c == pnode
           h == fifo.head
<1>1. /\ c \in Msgs /\ h \in Seq(Msgs) /\ h # << >> /\ c = Head(h)
      /\ prior \in [Msgs -> SUBSET Msgs]
  BY DEF IInv, PoolNode, TypeOK, Values, tx_fifo
<1>2. 1 \in 1 .. Len(h) /\ h[1] = c /\ Len(h) \in Nat
  BY <1>1, EmptySeq
<1>3. st[c] = "queued" /\ stat # "closed"
  BY <1>2 DEF IInv, Calls, Refs, Executing
<1>4. ASSUME NEW p \in prior[c]
      PROVE  off[p] = Size[p]
  <2>1. p \in Msgs /\ st[p] \in {"sent", "queued"}
    BY <1>1 DEF Order, Earlier
  <2>2. \A i \in 1 .. Len(h) : h[i] # p
    <3>1. ASSUME NEW i \in 1 .. Len(h), h[i] = p
          PROVE  i < 1
      BY <1>1, <1>2, <3>1 DEF Order, Earlier
    <3> QED
      BY <1>2, <3>1
  <2> QED
    BY <1>3, <2>1, <2>2 DEF Order, Kept
<1>5. /\ \A x \in Msgs : off[x] = Size[x] => off'[x] = Size[x]
      /\ \A x \in Msgs : x # c => off'[x] = off[x]
  BY <1>1, SendKeepsWhole DEF IInv
<1>6. RealTimeOrder'
  BY <1>1, <1>4, SendOrder DEF IInv
<1>7. Decided'
  BY DEF Order, Decided
<1>8. Kept'
  <2>1. \A v \in Writers : wpc[v] \in {"prepare", "check"} => cur[v] # c
    BY <1>3 DEF IInv, Calls
  <2> QED
    BY <1>3, <1>5, <2>1 DEF Order, Kept
<1>9. Earlier'
  BY <1>1, <1>5 DEF Order, Earlier
<1> QED
  BY <1>6, <1>7, <1>8, <1>9 DEF Order

(* fifo_pop of a TCP link takes a node that is whole on the wire.          *)
LEMMA PopOrder ==
  ASSUME IInv, Order, Proto = "tcp", ppc = "pop", PopHead,
         UNCHANGED <<wpc, st, cur, prior, stat>>
  PROVE  Order'
<1> DEFINE h == fifo.head
<1>1. /\ h \in Seq(Msgs) /\ h # << >> /\ off[Head(h)] = Size[Head(h)]
      /\ fifo'.head = Tail(h) /\ off' = off
      /\ prior \in [Msgs -> SUBSET Msgs]
  BY DEF IInv, PoolNode, TypeOK, Values, tx_fifo, PopHead, fifo_pop
<1>2. /\ Len(h) \in Nat /\ Len(Tail(h)) = Len(h) - 1 /\ Head(h) = h[1]
      /\ \A i \in 1 .. Len(h) - 1 : Tail(h)[i] = h[i + 1]
  BY <1>1, HeadTailProperties
<1>3. Decided' /\ RealTimeOrder'
  BY <1>1 DEF Order, Decided, RealTimeOrder
<1>4. Kept'
  <2>1. ASSUME NEW m \in Msgs, NEW i \in 1 .. Len(h), h[i] = m, off[m] # Size[m]
        PROVE  \E j \in 1 .. Len(fifo'.head) : fifo'.head[j] = m
    <3>1. i # 1
      BY <1>1, <1>2, <2>1
    <3>2. i - 1 \in 1 .. Len(h) - 1 /\ (i - 1) + 1 = i
      BY <1>2, <3>1
    <3>3. i - 1 \in 1 .. Len(fifo'.head) /\ fifo'.head[i - 1] = m
      BY <1>1, <1>2, <2>1, <3>2
    <3> QED
      BY <3>3
  <2>2. ASSUME NEW m \in Msgs, st[m] = "queued"
        PROVE  \/ off[m] = Size[m]
               \/ stat = "closed"
               \/ \E i \in 1 .. Len(h) : h[i] = m
    BY <2>2 DEF Order, Kept
  <2>3. ASSUME NEW m \in Msgs, st[m] = "queued"
        PROVE  \/ off'[m] = Size[m]
               \/ stat' = "closed"
               \/ \E i \in 1 .. Len(fifo'.head) : fifo'.head[i] = m
    BY <1>1, <2>1, <2>2, <2>3
  <2> QED
    BY <1>1, <2>3 DEF Order, Kept
<1>5. Earlier'
  <2>1. ASSUME NEW m \in Msgs, NEW p \in prior[m],
               NEW i \in 1 .. Len(fifo'.head), NEW j \in 1 .. Len(fifo'.head),
               fifo'.head[i] = p, fifo'.head[j] = m
        PROVE  i < j
    <3>1. i + 1 \in 1 .. Len(h) /\ j + 1 \in 1 .. Len(h) /\ h[i + 1] = p /\ h[j + 1] = m
      BY <1>1, <1>2, <2>1
    <3>2. i + 1 < j + 1
      BY <3>1 DEF Order, Earlier
    <3> QED
      BY <1>1, <1>2, <3>2
  <2> QED
    BY <1>1, <2>1 DEF Order, Earlier
<1> QED
  BY <1>3, <1>4, <1>5 DEF Order

(* Every step of a TCP link keeps the order of the writes.                 *)
LEMMA StepOrder ==
  ASSUME TxAssumption, FifoAssumption, Proto = "tcp", IInv, Order, [Next]_vars
  PROVE  Order'
<1> DEFINE Quiet ==
      /\ UNCHANGED <<st, prior, off, cur, wpc>>
      /\ \/ fifo' = fifo /\ (stat = "closed" => stat' = "closed")
         \/ fifo'.head = << >> /\ stat' = "closed"
<1>q. Quiet => Order'
  BY QuietOrder DEF IInv
<1>1. ASSUME NEW w \in Writers, NEW m \in Msgs, WriteEnter(w, m) PROVE Order'
  BY <1>1, EnterOrder
<1>2. ASSUME NEW m \in Msgs, WriteNoEntry(m) PROVE Order'
  BY <1>2, NoEntryOrder
<1>3. ASSUME NEW w \in Writers, WritePrepare(w) PROVE Order'
  <2>1. wpc[w] = "prepare" /\ UNCHANGED <<cur, prior, off, fifo, stat>>
    BY <1>3 DEF WritePrepare, WGoto, data, link
  <2>2. CASE wpc' = [wpc EXCEPT ![w] = "check"] /\ UNCHANGED st
    BY <2>1, <2>2, MoveOrder
  <2>3. CASE wpc' = [wpc EXCEPT ![w] = "return"] /\ Result(cur[w], "failed")
    BY <2>1, <2>3, MoveOrder
  <2> QED
    BY <1>3, <2>2, <2>3 DEF WritePrepare, WGoto
<1>4. ASSUME NEW w \in Writers, WriteCheck(w) PROVE Order'
  <2>1. /\ wpc[w] = "check" /\ UNCHANGED <<st, cur, prior, off, fifo, stat>>
        /\ wpc' = [wpc EXCEPT ![w] = IF fifo_is_blocking(fifo) THEN "queue" ELSE "send"]
    BY <1>4 DEF WriteCheck, WGoto, data, link
  <2>2. CASE fifo_is_blocking(fifo)
    BY <2>1, <2>2, MoveOrder
  <2>3. CASE ~fifo_is_blocking(fifo)
    <3>1. stat # "closed" /\ cur[w] \in Msgs
      BY <2>1 DEF IInv, Refs, Calls
    <3>2. fifo.head = << >>
      BY <2>3, <3>1 DEF IInv, FifoConsistent, fifo_is_empty
    <3>3. 1 .. Len(fifo.head) = {}
      BY <3>2, EmptySeq
    <3>4. \A p \in prior[cur[w]] : p \in Msgs /\ st[p] \in {"sent", "queued"}
      BY <3>1 DEF IInv, TypeOK, Values, Order, Earlier
    <3>5. \A p \in prior[cur[w]] : off[p] = Size[p]
      BY <3>1, <3>3, <3>4 DEF Order, Kept
    <3> QED
      BY <2>1, <2>3, <3>5, MoveOrder
  <2> QED
    BY <2>2, <2>3
<1>5. ASSUME NEW w \in Writers, WriteSend(w) PROVE Order'
  <2>1. wpc[w] = "send" /\ UNCHANGED <<cur, prior, fifo, stat>>
    BY <1>5 DEF WriteSend, link, data
  <2>2. CASE \E n : /\ send(cur[w], n)
                    /\ \/ wpc' = [wpc EXCEPT ![w] = "return"] /\ Result(cur[w], "sent")
                          /\ Completes(cur[w], n)
                       \/ wpc' = wpc /\ UNCHANGED st
    BY <2>1, <2>2, DirectSendOrder
  <2>3. CASE wpc' = [wpc EXCEPT ![w] = "queue"] /\ UNCHANGED <<st, off>>
    BY <2>1, <2>3, MoveOrder
  <2>4. CASE wpc' = [wpc EXCEPT ![w] = "return"] /\ Result(cur[w], "failed") /\ off' = off
    BY <2>1, <2>4, MoveOrder
  <2>5. wpc \in [Writers -> WriterPlaces]
    BY DEF IInv, TypeOK, Values, WriterPlaces
  <2>6. wpc[w] = "send" /\ wpc' = [wpc EXCEPT ![w] = "send"] => wpc' = wpc
    BY <2>5
  <2> QED
    BY <1>5, <2>2, <2>3, <2>4, <2>6 DEF WriteSend, WGoto, data
<1>6. ASSUME NEW w \in Writers, WriteQueue(w) PROVE Order'
  <2>1. /\ wpc[w] = "queue" /\ wpc' = [wpc EXCEPT ![w] = "return"]
        /\ UNCHANGED <<cur, prior, off, stat>>
    BY <1>6 DEF WriteQueue, WGoto, link
  <2>2. CASE fifo' = fifo /\ \E r \in {"busy", "failed"} : Result(cur[w], r)
    BY <2>1, <2>2, MoveOrder
  <2>3. CASE fifo' = fifo_queue(fifo, cur[w]) /\ Result(cur[w], "queued")
    BY <2>1, <2>3, QueueOrder
  <2> QED
    BY <1>6, <2>2, <2>3 DEF WriteQueue
<1>7. ASSUME NEW w \in Writers, WriteReturn(w) PROVE Order'
  BY <1>7, ReturnOrder
<1>8. CASE PoolSend
  <2>1. ppc = "send" /\ UNCHANGED <<wpc, st, cur, prior, fifo, stat>>
    BY <1>8 DEF PoolSend, rest, user, link, data
  <2>2. CASE \E n : send(pnode, n)
    BY <2>1, <2>2, HeadSendOrder
  <2>3. CASE off' = off
    BY <1>q, <2>1, <2>3
  <2> QED
    BY <1>8, <2>2, <2>3 DEF PoolSend, data
<1>9. CASE PoolTaskPop
  <2>1. ppc = "pop" /\ UNCHANGED <<wpc, st, cur, prior, stat>>
    BY <1>9 DEF PoolTaskPop, PGoto, rest, user, link
  <2>2. CASE UNCHANGED data
    BY <1>q, <2>1, <2>2 DEF data
  <2>3. CASE PopHead
    BY <2>1, <2>3, PopOrder
  <2> QED
    BY <1>9, <2>2, <2>3 DEF PoolTaskPop
<1>10. CASE PoolSelfPop
  BY <1>10 DEF PoolSelfPop, PGoto, IInv, PoolNode
<1>11. CASE EpollClose \/ EpollRelease \/ PoolClose \/ PoolRelease \/ DestroyEnd
  <2>1. UNCHANGED user /\ \E t : objdefr(t) \/ objclos
    BY <1>11 DEF EpollClose, EpollRelease, PoolClose, PoolRelease, DestroyEnd, rest
  <2> QED
    BY <1>q, <2>1, ReleaseEffect DEF user
<1>12. CASE DestroyBegin \/ DestroyClose \/ EpollWait \/ EpollRefr \/ wp_queued \/ EpollSignal
            \/ PoolWake \/ PoolReset \/ PoolGet \/ PoolRefr \/ PoolTop \/ PoolAppend
            \/ PoolTimeout \/ Drain \/ Arrive \/ PeerCloses \/ UNCHANGED vars
  <2>1. UNCHANGED <<user, fifo, off>> /\ (stat = "closed" => stat' = "closed")
    BY <1>12 DEF DestroyBegin, DestroyClose, EpollWait, EpollRefr, wp_queued, EpollSignal,
         PoolWake, PoolReset, PoolGet, PoolRefr, PoolTop, PoolAppend, PoolTimeout,
         Drain, Arrive, PeerCloses, vars, objrefr, rest, data, link, user
  <2> QED
    BY <1>q, <2>1 DEF user
<1> QED
  BY <1>1, <1>2, <1>3, <1>4, <1>5, <1>6, <1>7, <1>8, <1>9, <1>10, <1>11, <1>12,
     WhichPop
  DEF IInv, Next, WriteStep, EpollStep, PoolStep

(* On a TCP link a message whose write had succeeded before another write  *)
(* began is on the wire, whole, before the first byte of the other: direct *)
(* sends of tcp_write, the queue and the pool thread do not overtake.      *)
THEOREM TcpWritesInOrder == Proto = "tcp" => (Spec => []RealTimeOrder)
<1> SUFFICES ASSUME Proto = "tcp" PROVE Spec => []RealTimeOrder
  OBVIOUS
<1>1. Init => Order
  BY TxAssumption DEF Init, Order, Kept, Decided, Earlier, RealTimeOrder
<1>2. IInv /\ Order /\ [Next]_vars => Order'
  BY StepOrder, TxAssumption, FifoAssumption
<1>3. Order => RealTimeOrder
  BY DEF Order
<1> QED
  BY <1>1, <1>2, <1>3, Invariance, PTL DEF Spec

-----------------------------------------------------------------------------
(***************************************************************************)
(* One writer of a TCP link: OrderedTx is implemented.                     *)
(***************************************************************************)

OneWriter == \A v, w \in Writers : v = w

(* A node is in the queue once, and none but the one being popped is whole *)
(* on the wire; the message in the writer's hands is not either.           *)
Unfinished ==
  /\ \A i, j \in 1 .. Len(fifo.head) : fifo.head[i] = fifo.head[j] => i = j
  /\ \A i \in 1 .. Len(fifo.head) :
       (i = 1 /\ ppc = "pop") \/ off[fifo.head[i]] < Size[fifo.head[i]]
  /\ \A w \in Writers :
       wpc[w] \in {"prepare", "check", "send", "queue"} => off[cur[w]] < Size[cur[w]]

(* The queue is empty while the one writer sends, and until it has queued  *)
(* what is left of a message it began to send.                             *)
DirectAlone ==
  \A w \in Writers :
    wpc[w] = "send" \/ (wpc[w] = "queue" /\ off[cur[w]] > 0) => fifo.head = << >>

(* The offset of a node counts its bytes on the wire.                      *)
OffCounts == \A m \in Msgs : off[m] = Len(Only(wire, {m}))

Direct == Unfinished /\ DirectAlone /\ OffCounts

(* The bytes of one message among n bytes of one.                          *)
LEMMA UnitsOnly ==
  ASSUME NEW m \in Msgs, NEW x \in Msgs, NEW n \in Nat
  PROVE  /\ [i \in 1 .. n |-> m] \in Seq(Msgs) /\ Len([i \in 1 .. n |-> m]) = n
         /\ Only([i \in 1 .. n |-> m], {x}) = IF x = m THEN [i \in 1 .. n |-> m] ELSE << >>
<1> DEFINE u == [i \in 1 .. n |-> m]
<1>1. u \in Seq(Msgs) /\ Len(u) = n /\ \A i \in 1 .. Len(u) : u[i] = m
  OBVIOUS
<1> HIDE DEF u
<1>2. CASE x = m
  BY <1>1, <1>2, OnlyWhole
<1>3. CASE x # m
  BY <1>1, <1>3, OnlyNone
<1> QED
  BY <1>1, <1>2, <1>3 DEF u

(* send(2) adds to the count of its message what it puts on the wire.      *)
LEMMA SendCounts ==
  ASSUME TxAssumption, TypeOK, Nodes, OffCounts, NEW m \in Msgs, NEW n, send(m, n)
  PROVE  OffCounts'
<1> DEFINE u == [i \in 1 .. n |-> m]
<1>1. /\ n \in Nat /\ wire' = wire \o u /\ wire \in Seq(Msgs)
      /\ \A x \in Msgs : x # m => off'[x] = off[x]
      /\ off'[m] = off[m] + n
  BY SendFacts, SendKeepsWhole DEF send, TypeOK, Values
<1>2. ASSUME NEW x \in Msgs
      PROVE  off'[x] = Len(Only(wire', {x}))
  <2>1. /\ u \in Seq(Msgs) /\ Len(u) = n
        /\ Only(u, {x}) = IF x = m THEN u ELSE << >>
    BY <1>1, UnitsOnly
  <2> HIDE DEF u
  <2>2. Only(wire \o u, {x}) = Only(wire, {x}) \o Only(u, {x})
    BY <1>1, <2>1, OnlyConcat, SMTT(30)
  <2>3. Only(wire, {x}) \in Seq(Msgs) /\ off[x] = Len(Only(wire, {x}))
    BY <1>1, OnlyFrom DEF OffCounts
  <2>4. Only(u, {x}) \in Seq(Msgs) /\ Len(Only(u, {x})) = IF x = m THEN n ELSE 0
    BY <2>1, EmptySeq
  <2>5. Len(Only(wire', {x})) = off[x] + Len(Only(u, {x}))
    BY <1>1, <2>2, <2>3, <2>4, ConcatProperties
  <2>6. off[x] \in Nat
    BY DEF TypeOK, Values
  <2> QED
    BY <1>1, <2>4, <2>5, <2>6
<1> QED
  BY <1>2 DEF OffCounts

(* A step that moves no byte and no writer.                                *)
LEMMA QuietDirect ==
  ASSUME Direct, UNCHANGED <<off, wire, cur, wpc>>,
         fifo' = fifo \/ fifo'.head = << >>,
         ppc = "pop" => ppc' = "pop"
  PROVE  Direct'
<1>1. CASE fifo' = fifo
  BY <1>1 DEF Direct, Unfinished, DirectAlone, OffCounts
<1>2. CASE fifo'.head = << >>
  <2>1. 1 .. Len(fifo'.head) = {}
    BY <1>2, EmptySeq
  <2> QED
    BY <1>2, <2>1 DEF Direct, Unfinished, DirectAlone, OffCounts
<1> QED
  BY <1>1, <1>2

(* __tcprefr: nothing has been sent of the new message.                    *)
LEMMA EnterDirect ==
  ASSUME TxAssumption, IInv, Order, Direct, NEW w \in Writers, NEW m \in Msgs, WriteEnter(w, m)
  PROVE  Direct'
<1>1. /\ st[m] = "new" /\ (\A v \in Writers : cur[v] # m)
      /\ wpc' = [wpc EXCEPT ![w] = "prepare"] /\ cur' = [cur EXCEPT ![w] = m]
      /\ UNCHANGED <<fifo, off, wire, ppc>>
  BY DEF WriteEnter, WGoto, data
<1>2. /\ wpc \in [Writers -> WriterPlaces] /\ cur \in [Writers -> Msgs \cup {NoMsg}]
      /\ Size[m] \in Nat \ {0}
  BY DEF IInv, TypeOK, Values, WriterPlaces, TxAssumption
<1>3. off[m] < Size[m]
  BY <1>1, <1>2 DEF Order, Kept
<1>4. \A v \in Writers : v # w => wpc'[v] = wpc[v] /\ cur'[v] = cur[v]
  BY <1>1, <1>2
<1>5. wpc'[w] = "prepare" /\ cur'[w] = m
  BY <1>1, <1>2
<1>6. Unfinished'
  BY <1>1, <1>3, <1>4, <1>5 DEF Direct, Unfinished
<1>7. DirectAlone'
  BY <1>1, <1>4, <1>5 DEF Direct, DirectAlone
<1> QED
  BY <1>1, <1>6, <1>7 DEF Direct, OffCounts

(* The writer goes on without a byte sent or a node queued.                *)
LEMMA MoveDirect ==
  ASSUME IInv, Direct, OneWriter, NEW w \in Writers,
         NEW x \in {"idle", "check", "send", "queue", "return"},
         wpc' = [wpc EXCEPT ![w] = x], UNCHANGED <<off, wire, ppc>>,
         fifo' = fifo \/ fifo'.head = << >>,
         x \in {"check", "send", "queue"} =>
           wpc[w] \in {"prepare", "check", "send", "queue"} /\ cur' = cur,
         x = "send" => fifo.head = << >>,
         x = "queue" /\ off[cur[w]] > 0 => fifo.head = << >>
  PROVE  Direct'
<1>1. wpc \in [Writers -> WriterPlaces] /\ \A v \in Writers : v = w
  BY DEF IInv, TypeOK, Values, WriterPlaces, OneWriter
<1>2. \A v \in Writers : v = w /\ wpc'[v] = x
  BY <1>1
<1>3. fifo' = fifo \/ (fifo'.head = << >> /\ 1 .. Len(fifo'.head) = {})
  BY EmptySeq
<1>4. Unfinished'
  BY <1>2, <1>3 DEF Direct, Unfinished
<1>5. DirectAlone'
  BY <1>2, <1>3 DEF Direct, DirectAlone
<1> QED
  BY <1>4, <1>5 DEF Direct, OffCounts

(* One send(2) of tcp_write; nothing is queued meanwhile.                  *)
LEMMA WriterSendDirect ==
  ASSUME TxAssumption, IInv, Direct, OneWriter, NEW w \in Writers, NEW n, send(cur[w], n),
         wpc[w] = "send", UNCHANGED <<cur, fifo, ppc>>,
         \/ wpc' = [wpc EXCEPT ![w] = "return"]
         \/ wpc' = wpc /\ ~Completes(cur[w], n)
  PROVE  Direct'
<1> DEFINE c == cur[w]
<1>1. c \in Msgs /\ wpc \in [Writers -> WriterPlaces] /\ \A v \in Writers : v = w
  BY DEF IInv, Calls, TypeOK, Values, WriterPlaces, OneWriter
<1>2. fifo'.head = << >> /\ 1 .. Len(fifo'.head) = {}
  BY EmptySeq DEF Direct, DirectAlone
<1>3. off'[c] = off[c] + n /\ off'[c] <= Size[c] /\ off'[c] \in Nat
  BY <1>1, SendFacts, SendKeepsWhole DEF IInv
<1>4. wpc'[w] = "return" \/ (wpc'[w] = "send" /\ off'[c] < Size[c])
  BY <1>1, <1>3 DEF Completes, TxAssumption
<1>5. Unfinished'
  BY <1>1, <1>2, <1>4 DEF Unfinished
<1>6. DirectAlone'
  BY <1>2 DEF DirectAlone
<1>7. OffCounts'
  BY <1>1, SendCounts DEF IInv, Direct
<1> QED
  BY <1>5, <1>6, <1>7 DEF Direct

(* fifo_queue takes a message that is not in the queue and not sent.       *)
LEMMA QueueDirect ==
  ASSUME IInv, Direct, OneWriter, NEW w \in Writers, wpc[w] = "queue",
         wpc' = [wpc EXCEPT ![w] = "return"], UNCHANGED <<cur, off, wire, ppc>>,
         fifo' = fifo_queue(fifo, cur[w])
  PROVE  Direct'
<1> DEFINE c == cur[w]
           h == fifo.head
           k == Len(h)
<1>1. /\ wpc \in [Writers -> WriterPlaces] /\ h \in Seq(Msgs) /\ k \in Nat
      /\ \A v \in Writers : v = w
  BY DEF IInv, TypeOK, Values, WriterPlaces, tx_fifo, OneWriter
<1>2. /\ c \in Msgs /\ st[c] = "new" /\ \A i \in 1 .. k : st[h[i]] = "queued"
      /\ off[c] < Size[c]
  BY DEF IInv, Calls, Direct, Unfinished
<1>3. /\ Len(fifo'.head) = k + 1 /\ fifo'.head[k + 1] = c
      /\ \A i \in 1 .. k : fifo'.head[i] = h[i] /\ h[i] # c
  BY <1>1, <1>2, AppendProperties DEF fifo_queue
<1>4. \A v \in Writers : wpc'[v] = "return"
  BY <1>1
<1> HIDE DEF k
<1>5. \A i, j \in 1 .. k : h[i] = h[j] => i = j
  BY DEF Direct, Unfinished, k
<1>6. \A i \in 1 .. k : (i = 1 /\ ppc = "pop") \/ off[h[i]] < Size[h[i]]
  BY DEF Direct, Unfinished, k
<1>7. \A i \in 1 .. k + 1 : i \in 1 .. k \/ i = k + 1
  BY <1>1
<1>8. \A i, j \in 1 .. k + 1 : fifo'.head[i] = fifo'.head[j] => i = j
  BY <1>3, <1>5, <1>7
<1>9. \A i \in 1 .. k + 1 : (i = 1 /\ ppc = "pop") \/ off[fifo'.head[i]] < Size[fifo'.head[i]]
  BY <1>2, <1>3, <1>6, <1>7
<1>10. Unfinished' /\ DirectAlone'
  BY <1>3, <1>4, <1>8, <1>9 DEF Unfinished, DirectAlone
<1> QED
  BY <1>10 DEF Direct, OffCounts

(* One send(2) of the pool thread, from the head of the queue.             *)
LEMMA HeadSendDirect ==
  ASSUME TxAssumption, IInv, Direct, ppc = "send", NEW n, send(pnode, n),
         UNCHANGED <<wpc, cur, fifo>>,
         Completes(pnode, n) => ppc' = "pop"
  PROVE  Direct'
<1> DEFINE c == pnode
           h == fifo.head
<1>1. c \in Msgs /\ h \in Seq(Msgs) /\ h # << >> /\ c = Head(h)
  BY DEF IInv, PoolNode, TypeOK, Values, tx_fifo
<1>2. 1 \in 1 .. Len(h) /\ h[1] = c /\ Len(h) \in Nat
  BY <1>1, EmptySeq
<1>3. st[c] = "queued"
  BY <1>2 DEF IInv, Calls
<1>4. /\ \A x \in Msgs : x # c => off'[x] = off[x]
      /\ off'[c] = off[c] + n /\ off'[c] <= Size[c] /\ off'[c] \in Nat
  BY <1>1, SendFacts, SendKeepsWhole DEF IInv
<1>5. \A i \in 1 .. Len(h) : h[i] \in Msgs /\ (i # 1 => h[i] # c)
  BY <1>1, <1>2 DEF Direct, Unfinished
<1>6. off'[c] < Size[c] \/ ppc' = "pop"
  BY <1>1, <1>4 DEF Completes, TxAssumption
<1>7. \A i \in 1 .. Len(h) : (i = 1 /\ ppc' = "pop") \/ off'[h[i]] < Size[h[i]]
  <2>1. ASSUME NEW i \in 1 .. Len(h), i # 1
        PROVE  off'[h[i]] < Size[h[i]]
    BY <1>4, <1>5, <2>1 DEF Direct, Unfinished
  <2> QED
    BY <1>2, <1>6, <2>1
<1>8. \A w \in Writers : wpc[w] \in {"prepare", "check", "send", "queue"} =>
                           cur[w] \in Msgs /\ cur[w] # c
  BY <1>3 DEF IInv, Calls
<1>9. Unfinished'
  BY <1>4, <1>7, <1>8 DEF Direct, Unfinished
<1>10. DirectAlone'
  BY <1>4, <1>8 DEF Direct, DirectAlone
<1>11. OffCounts'
  BY <1>1, SendCounts DEF IInv, Direct
<1> QED
  BY <1>9, <1>10, <1>11 DEF Direct

(* fifo_pop leaves the nodes that are not finished.                        *)
LEMMA PopDirect ==
  ASSUME IInv, Direct, fifo.head # << >>, PopHead, UNCHANGED <<wpc, cur>>
  PROVE  Direct'
<1> DEFINE h == fifo.head
<1>1. h \in Seq(Msgs) /\ fifo'.head = Tail(h) /\ off' = off /\ wire' = wire
  BY DEF IInv, TypeOK, Values, tx_fifo, PopHead, fifo_pop
<1>2. /\ Len(h) \in Nat /\ Len(Tail(h)) = Len(h) - 1
      /\ \A i \in 1 .. Len(h) - 1 : Tail(h)[i] = h[i + 1]
  BY <1>1, HeadTailProperties
<1>3. \A i \in 1 .. Len(Tail(h)) : i + 1 \in 1 .. Len(h) /\ i + 1 # 1 /\ Tail(h)[i] = h[i + 1]
  BY <1>2
<1>4. \A i, j \in 1 .. Len(Tail(h)) : Tail(h)[i] = Tail(h)[j] => i = j
  <2>1. ASSUME NEW i \in 1 .. Len(Tail(h)), NEW j \in 1 .. Len(Tail(h)), Tail(h)[i] = Tail(h)[j]
        PROVE  i = j
    <3>1. i + 1 \in 1 .. Len(h) /\ j + 1 \in 1 .. Len(h) /\ h[i + 1] = h[j + 1]
      BY <1>3, <2>1
    <3>2. i + 1 = j + 1
      BY <3>1 DEF Direct, Unfinished
    <3> QED
      BY <1>2, <3>2
  <2> QED
    BY <2>1
<1>5. \A i \in 1 .. Len(Tail(h)) : off[Tail(h)[i]] < Size[Tail(h)[i]]
  <2>1. ASSUME NEW i \in 1 .. Len(Tail(h))
        PROVE  off[Tail(h)[i]] < Size[Tail(h)[i]]
    <3>1. i + 1 \in 1 .. Len(h) /\ i + 1 # 1 /\ Tail(h)[i] = h[i + 1]
      BY <1>3
    <3> QED
      BY <3>1 DEF Direct, Unfinished
  <2> QED
    BY <2>1
<1>6. Unfinished'
  BY <1>1, <1>4, <1>5 DEF Direct, Unfinished
<1>7. DirectAlone'
  BY <1>1 DEF Direct, DirectAlone
<1> QED
  BY <1>1, <1>6, <1>7 DEF Direct, OffCounts

(* objdefr and objclos send nothing; with the queue they free they close   *)
(* the socket.                                                             *)
LEMMA ReleaseWire ==
  ASSUME IInv, NEW t, objdefr(t) \/ objclos
  PROVE  /\ UNCHANGED <<off, wire>>
         /\ \/ UNCHANGED <<fifo, sock>>
            \/ fifo'.head = << >> /\ sock' = "closed"
BY UninitFacts DEF IInv, TypeOK, Values, objdefr, objclos, ncb_deconstruct, io_close, data, kern

(* Every step of a TCP link with one writer keeps these.                   *)
LEMMA StepDirect ==
  ASSUME TxAssumption, FifoAssumption, Proto = "tcp", OneWriter, IInv, Order, Direct,
         [Next]_vars
  PROVE  Direct'
<1> DEFINE Quiet ==
      /\ UNCHANGED <<off, wire, cur, wpc>>
      /\ fifo' = fifo \/ fifo'.head = << >>
      /\ ppc = "pop" => ppc' = "pop"
<1>q. Quiet => Direct'
  BY QuietDirect
<1>1. ASSUME NEW w \in Writers, NEW m \in Msgs, WriteEnter(w, m) PROVE Direct'
  BY <1>1, EnterDirect
<1>2. ASSUME NEW w \in Writers, WritePrepare(w) PROVE Direct'
  <2>1. wpc[w] = "prepare" /\ UNCHANGED <<cur, off, wire, fifo, ppc>>
    BY <1>2 DEF WritePrepare, WGoto, data
  <2>2. CASE wpc' = [wpc EXCEPT ![w] = "check"]
    BY <2>1, <2>2, MoveDirect
  <2>3. CASE wpc' = [wpc EXCEPT ![w] = "return"]
    BY <2>1, <2>3, MoveDirect
  <2> QED
    BY <1>2, <2>2, <2>3 DEF WritePrepare, WGoto
<1>3. ASSUME NEW w \in Writers, WriteCheck(w) PROVE Direct'
  <2>1. /\ wpc[w] = "check" /\ UNCHANGED <<cur, off, wire, fifo, ppc>>
        /\ wpc' = [wpc EXCEPT ![w] = IF fifo_is_blocking(fifo) THEN "queue" ELSE "send"]
    BY <1>3 DEF WriteCheck, WGoto, data
  <2>2. stat # "closed" /\ cur[w] \in Msgs
    BY <2>1 DEF IInv, Refs, Calls
  <2>3. off[cur[w]] = 0
    BY <2>1, <2>2 DEF Order, Kept
  <2>4. CASE fifo_is_blocking(fifo)
    <3>1. wpc' = [wpc EXCEPT ![w] = "queue"] /\ ~(off[cur[w]] > 0)
      BY <2>1, <2>3, <2>4
    <3> QED
      BY <2>1, <3>1, MoveDirect
  <2>5. CASE ~fifo_is_blocking(fifo)
    <3>1. fifo.head = << >>
      BY <2>2, <2>5 DEF IInv, FifoConsistent, fifo_is_empty
    <3> QED
      BY <2>1, <2>5, <3>1, MoveDirect
  <2> QED
    BY <2>4, <2>5
<1>4. ASSUME NEW w \in Writers, WriteSend(w) PROVE Direct'
  <2>1. wpc[w] = "send" /\ UNCHANGED <<cur, fifo, ppc>> /\ fifo.head = << >>
    BY <1>4 DEF WriteSend, data, Direct, DirectAlone
  <2>2. CASE \E n : /\ send(cur[w], n)
                    /\ \/ wpc' = [wpc EXCEPT ![w] = "return"]
                       \/ wpc' = wpc /\ ~Completes(cur[w], n)
    BY <2>1, <2>2, WriterSendDirect
  <2>3. CASE wpc' = [wpc EXCEPT ![w] = "queue"] /\ UNCHANGED <<off, wire>>
    BY <2>1, <2>3, MoveDirect
  <2>4. CASE wpc' = [wpc EXCEPT ![w] = "return"] /\ UNCHANGED <<off, wire>>
    BY <2>1, <2>4, MoveDirect
  <2>5. wpc \in [Writers -> WriterPlaces]
    BY DEF IInv, TypeOK, Values, WriterPlaces
  <2>6. wpc[w] = "send" /\ wpc' = [wpc EXCEPT ![w] = "send"] => wpc' = wpc
    BY <2>5
  <2> QED
    BY <1>4, <2>2, <2>3, <2>4, <2>6 DEF WriteSend, WGoto, data
<1>5. ASSUME NEW w \in Writers, WriteQueue(w) PROVE Direct'
  <2>1. /\ wpc[w] = "queue" /\ wpc' = [wpc EXCEPT ![w] = "return"]
        /\ UNCHANGED <<cur, off, wire, ppc>>
    BY <1>5 DEF WriteQueue, WGoto
  <2>2. CASE fifo' = fifo
    BY <2>1, <2>2, MoveDirect
  <2>3. CASE fifo' = fifo_queue(fifo, cur[w])
    BY <2>1, <2>3, QueueDirect
  <2> QED
    BY <1>5, <2>2, <2>3 DEF WriteQueue
<1>6. ASSUME NEW w \in Writers, WriteReturn(w) PROVE Direct'
  <2>1. wpc' = [wpc EXCEPT ![w] = "idle"] /\ ppc' = ppc
    BY <1>6 DEF WriteReturn, WGoto
  <2>2. UNCHANGED <<off, wire>> /\ (fifo' = fifo \/ fifo'.head = << >>)
    BY <1>6, ReleaseWire DEF WriteReturn
  <2> QED
    BY <2>1, <2>2, MoveDirect
<1>7. CASE PoolSend
  <2>1. ppc = "send" /\ UNCHANGED <<wpc, cur, fifo>>
    BY <1>7 DEF PoolSend, rest, user, data
  <2>2. CASE \E n : send(pnode, n) /\ (Completes(pnode, n) => ppc' = "pop")
    BY <2>1, <2>2, HeadSendDirect
  <2>3. CASE UNCHANGED <<off, wire>>
    BY <1>q, <2>1, <2>3
  <2> QED
    BY <1>7, <2>2, <2>3 DEF PoolSend, PGoto, AfterSend, data
<1>8. CASE PoolTaskPop
  <2>1. ppc = "pop" /\ UNCHANGED <<wpc, cur>> /\ fifo.head # << >>
    BY <1>8 DEF PoolTaskPop, PGoto, rest, user, IInv, PoolNode
  <2> QED
    BY <1>8, <2>1, PopDirect DEF PoolTaskPop, fifo_is_empty
<1>9. CASE PoolSelfPop
  BY <1>9 DEF PoolSelfPop, PGoto, IInv, PoolNode
<1>10. CASE EpollClose \/ EpollRelease \/ PoolClose \/ PoolRelease \/ DestroyEnd
  <2>1. UNCHANGED user /\ (ppc = "pop" => ppc' = "pop") /\ \E t : objdefr(t) \/ objclos
    BY <1>10 DEF EpollClose, EpollRelease, PoolClose, PoolRelease, DestroyEnd, rest, PGoto
  <2> QED
    BY <1>q, <2>1, ReleaseWire DEF user
<1>11. CASE (\E m \in Msgs : WriteNoEntry(m))
            \/ DestroyBegin \/ DestroyClose \/ EpollWait \/ EpollRefr \/ wp_queued \/ EpollSignal
            \/ PoolWake \/ PoolReset \/ PoolGet \/ PoolRefr \/ PoolTop \/ PoolAppend
            \/ PoolTimeout \/ Drain \/ Arrive \/ PeerCloses \/ UNCHANGED vars
  <2>1. UNCHANGED <<wpc, cur, fifo, off, wire>> /\ (ppc = "pop" => ppc' = "pop")
    BY <1>11 DEF WriteNoEntry, DestroyBegin, DestroyClose, EpollWait, EpollRefr, wp_queued,
         EpollSignal, PoolWake, PoolReset, PoolGet, PoolRefr, PoolTop, PoolAppend, PoolTimeout,
         Drain, Arrive, PeerCloses, vars, rest, data, user, PGoto
  <2> QED
    BY <1>q, <2>1
<1> QED
  BY <1>1, <1>2, <1>3, <1>4, <1>5, <1>6, <1>7, <1>8, <1>9, <1>10, <1>11,
     WhichPop
  DEF IInv, Next, WriteStep, EpollStep, PoolStep

(* The nodes that are not finished.                                        *)
Waiting == IF ppc = "pop" THEN Tail(fifo.head) ELSE fifo.head

Ordered == IInv /\ Order /\ Direct

(* What is pending of a TCP link with one writer: nothing, when it is dead;*)
(* the message the writer has begun to send; or else the unfinished nodes. *)
Pending ==
  /\ ~Alive => PendMap = << >>
  /\ Alive /\ InHand = {} => PendMap = Waiting
  /\ \A c \in InHand : /\ fifo.head = << >> /\ ppc # "pop"
                       /\ Alive => PendMap = <<c>>

(* This follows from the invariants.                                       *)
LEMMA OrderedPending ==
  ASSUME TxAssumption, Proto = "tcp", OneWriter
  PROVE  Ordered => Pending
<1> SUFFICES ASSUME Ordered PROVE Pending
  OBVIOUS
<1> DEFINE h == fifo.head
           U == {m \in Msgs : Unsent(m)}
<1>1. /\ h \in Seq(Msgs) /\ off \in [Msgs -> Nat] /\ Size \in [Msgs -> Nat \ {0}]
      /\ \A m \in Msgs : m \in U <=> off[m] < Size[m]
  BY DEF Ordered, IInv, TypeOK, Values, tx_fifo, TxAssumption, Unsent
<1>2. \A i \in 1 .. Len(h) : h[i] \in Msgs
  BY <1>1
<1>3. Only(h, U) = Waiting
  <2>1. CASE ppc = "pop"
    <3>1. h # << >> /\ off[Head(h)] = Size[Head(h)]
      BY <2>1 DEF Ordered, IInv, PoolNode
    <3>2. /\ Head(h) \in Msgs /\ Head(h) = h[1] /\ Tail(h) \in Seq(Msgs)
          /\ h = <<Head(h)>> \o Tail(h) /\ <<Head(h)>> \in Seq(Msgs)
          /\ \A i \in 1 .. Len(Tail(h)) : i + 1 \in 1 .. Len(h) /\ i + 1 # 1 /\ Tail(h)[i] = h[i + 1]
      BY <1>1, <3>1, HeadTailProperties
    <3>3. Head(h) \notin U
      BY <1>1, <3>1, <3>2
    <3>4. Only(<<Head(h)>>, U) = << >>
      BY <3>3, OnlyOne
    <3>5. \A i \in 1 .. Len(Tail(h)) : Tail(h)[i] \in U
      <4>1. ASSUME NEW i \in 1 .. Len(Tail(h))
            PROVE  Tail(h)[i] \in U
        <5>1. i + 1 \in 1 .. Len(h) /\ i + 1 # 1 /\ Tail(h)[i] = h[i + 1]
          BY <3>2
        <5>2. off[h[i + 1]] < Size[h[i + 1]]
          BY <5>1 DEF Ordered, Direct, Unfinished
        <5> QED
          BY <1>1, <1>2, <5>1, <5>2
      <4> QED
        BY <4>1
    <3> HIDE DEF U
    <3>6. Only(Tail(h), U) = Tail(h)
      BY <3>2, <3>5, OnlyWhole
    <3>7. Only(<<Head(h)>> \o Tail(h), U) = Only(<<Head(h)>>, U) \o Only(Tail(h), U)
      <4>1. \A a, b \in Seq(Msgs) : Only(a \o b, U) = Only(a, U) \o Only(b, U)
        BY OnlyConcat
      <4> QED
        BY <3>2, <4>1
    <3>8. << >> \o Tail(h) = Tail(h)
      BY <3>2, ConcatEmptySeq
    <3> QED
      BY <2>1, <3>2, <3>4, <3>6, <3>7, <3>8 DEF Waiting
  <2>2. CASE ppc # "pop"
    <3>1. \A i \in 1 .. Len(h) : h[i] \in U
      BY <1>1, <1>2, <2>2 DEF Ordered, Direct, Unfinished
    <3> HIDE DEF U
    <3>2. Only(h, U) = h
      BY <1>1, <3>1, OnlyWhole
    <3> QED
      BY <2>2, <3>2 DEF Waiting
  <2> QED
    BY <2>1, <2>2
<1>4. Waiting \in Seq(Msgs)
  <2>1. ppc = "pop" => h # << >>
    BY DEF Ordered, IInv, PoolNode
  <2> QED
    BY <1>1, <2>1, HeadTailProperties DEF Waiting
<1>5. ASSUME NEW c \in InHand
      PROVE  /\ fifo.head = << >> /\ ppc # "pop" /\ InHand = {c}
  <2>1. PICK w \in Writers : cur[w] = c /\ wpc[w] \in {"send", "queue"}
    BY <1>5 DEF InHand
  <2>2. h = << >>
    BY <1>5, <2>1 DEF InHand, Ordered, Direct, DirectAlone
  <2>3. ppc # "pop"
    BY <2>2 DEF Ordered, IInv, PoolNode
  <2>4. \A x \in InHand : x = c
    BY <2>1 DEF InHand, OneWriter
  <2> QED
    BY <1>5, <2>2, <2>3, <2>4
<1>6. ASSUME Alive, InHand = {} PROVE PendMap = Waiting
  <2>1. PendMap = Waiting \o << >>
    BY <1>3, <1>6 DEF PendMap
  <2> QED
    BY <1>4, <2>1, ConcatEmptySeq
<1>7. ASSUME Alive, NEW c \in InHand PROVE PendMap = <<c>>
  <2>1. InHand = {c} /\ Waiting = << >>
    BY <1>5, <1>7 DEF Waiting
  <2>2. (CHOOSE m \in InHand : TRUE) = c
    BY <2>1
  <2>3. PendMap = << >> \o <<c>>
    BY <1>3, <1>7, <2>1, <2>2 DEF PendMap
  <2> QED
    BY <2>3
<1>8. ~Alive => PendMap = << >>
  BY DEF PendMap
<1> QED
  BY <1>5, <1>6, <1>7, <1>8 DEF Pending

(* The same after a step.                                                  *)
LEMMA PendingAfter ==
  ASSUME TxAssumption, Proto = "tcp", OneWriter
  PROVE  Ordered' => Pending'
<1>1. Ordered => Pending
  BY OrderedPending
<1> QED
  BY <1>1, PTL

-----------------------------------------------------------------------------
(* A step that OrderedTx does not see, or that loses the connection.       *)
LEMMA QuietMap ==
  ASSUME Pending, Pending', wire' = wire,
         Alive' => Alive /\ Waiting' = Waiting /\ InHand' = InHand
  PROVE  [Abs!Next]_(Abs!vars)
<1>1. CASE Alive'
  <2>1. PendMap' = PendMap
    <3>1. CASE InHand = {}
      BY <1>1, <3>1 DEF Pending
    <3>2. CASE InHand # {}
      <4>1. PICK c : c \in InHand
        BY <3>2
      <4>2. PendMap = <<c>>
        BY <1>1, <4>1 DEF Pending
      <4>3. PendMap' = <<c>>
        BY <1>1, <4>1 DEF Pending
      <4> QED
        BY <4>2, <4>3
    <3> QED
      BY <3>1, <3>2
  <2> QED
    BY <1>1, <2>1, Zenon DEF Abs!vars
<1>2. CASE ~Alive' /\ Alive
  <2>1. PendMap' = << >>
    BY <1>2 DEF Pending
  <2>2. Alive = TRUE /\ Alive' = FALSE
    BY <1>2 DEF Alive
  <2>3. Abs!Abort
    BY <1>2, <2>1, <2>2 DEF Abs!Abort
  <2> QED
    BY <2>3 DEF Abs!Next
<1>3. CASE ~Alive' /\ ~Alive
  <2>1. PendMap' = << >> /\ PendMap = << >>
    BY <1>3 DEF Pending
  <2>2. Alive' = Alive
    BY <1>3 DEF Alive
  <2> QED
    BY <2>1, <2>2 DEF Abs!vars
<1> QED
  BY <1>1, <1>2, <1>3

(* What the abstract machine counts of a message is the node's offset.     *)
LEMMA SentIsOff ==
  ASSUME Ordered, NEW m \in Msgs
  PROVE  Abs!Sent(m) = off[m] /\ off[m] \in Nat
<1>1. Abs!Sent(m) = Len(Only(wire, {m}))
  BY DEF Abs!Sent, Abs!Only, Only
<1>2. off[m] = Len(Only(wire, {m}))
  BY DEF Ordered, Direct, OffCounts
<1>3. off[m] \in Nat
  BY DEF Ordered, IInv, TypeOK, Values
<1> QED
  BY <1>1, <1>2, <1>3

(* The only message in a writer's hands.                                   *)
LEMMA HandIs ==
  ASSUME OneWriter, Ordered, NEW w \in Writers
  PROVE  /\ wpc[w] \notin {"send", "queue"} => InHand = {}
         /\ off[cur[w]] = 0 => InHand = {}
         /\ wpc[w] \in {"send", "queue"} /\ off[cur[w]] > 0 => cur[w] \in InHand
<1>1. \A v \in Writers : v = w
  BY DEF OneWriter
<1>2. wpc[w] \in {"send", "queue"} => cur[w] \in Msgs /\ off[cur[w]] < Size[cur[w]]
  BY DEF Ordered, Direct, Unfinished, IInv, Calls
<1> QED
  BY <1>1, <1>2 DEF InHand, Unsent

(* The same after a step.                                                  *)
LEMMA HandIsAfter ==
  ASSUME OneWriter
  PROVE  Ordered' => \A w \in Writers :
           /\ wpc'[w] \notin {"send", "queue"} => InHand' = {}
           /\ off'[cur'[w]] = 0 => InHand' = {}
           /\ wpc'[w] \in {"send", "queue"} /\ off'[cur'[w]] > 0 => cur'[w] \in InHand'
<1> DEFINE P == \A w \in Writers :
           /\ wpc[w] \notin {"send", "queue"} => InHand = {}
           /\ off[cur[w]] = 0 => InHand = {}
           /\ wpc[w] \in {"send", "queue"} /\ off[cur[w]] > 0 => cur[w] \in InHand
<1>1. Ordered => P
  BY HandIs
<1>2. Ordered' => P'
  BY <1>1, PTL
<1> QED
  BY <1>2

(* One send(2) of tcp_write: the message is taken and part of it leaves, or*)
(* more of it leaves.                                                      *)
LEMMA WriterSendMap ==
  ASSUME TxAssumption, Proto = "tcp", OneWriter, Ordered, Ordered', Pending, Pending',
         NEW w \in Writers, NEW n, send(cur[w], n), wpc[w] = "send", Alive,
         UNCHANGED <<cur, fifo, sock, ppc>>,
         \/ wpc' = [wpc EXCEPT ![w] = "return"] /\ Completes(cur[w], n)
         \/ wpc' = wpc /\ ~Completes(cur[w], n)
  PROVE  Abs!Next
<1> DEFINE c == cur[w]
<1>1. /\ c \in Msgs /\ fifo.head = << >> /\ ppc # "pop"
      /\ Waiting = << >> /\ Waiting' = << >>
  <2>1. c \in Msgs /\ fifo.head = << >>
    BY DEF Ordered, IInv, Calls, Direct, DirectAlone
  <2>2. ppc # "pop"
    BY <2>1 DEF Ordered, IInv, PoolNode
  <2> QED
    BY <2>1, <2>2 DEF Waiting
<1>2. /\ n \in Nat \ {0} /\ wire' = wire \o [i \in 1 .. n |-> c]
      /\ off'[c] = off[c] + n /\ off[c] + n <= Size[c] /\ off[c] \in Nat /\ Size[c] \in Nat
  <2>1. n \in Nat \ {0} /\ off'[c] <= Size[c] /\ off'[c] = off[c] + n
    BY <1>1, SendFacts, SendKeepsWhole DEF Ordered, IInv
  <2> QED
    BY <1>1, <2>1 DEF send, Ordered, IInv, TypeOK, Values, TxAssumption
<1>3. wpc \in [Writers -> WriterPlaces]
  BY DEF Ordered, IInv, TypeOK, Values, WriterPlaces
<1>4. Alive' /\ Alive' = Alive
  BY DEF Alive
<1>5. Abs!Sent(c) = off[c]
  BY <1>1, SentIsOff
<1>6. PendMap' = IF off[c] + n = Size[c] THEN << >> ELSE <<c>>
  <2>1. CASE off[c] + n = Size[c]
    <3>1. wpc'[w] = "return"
      BY <1>3, <2>1 DEF Completes
    <3>2. InHand' = {}
      BY <3>1, HandIsAfter
    <3> QED
      BY <1>1, <1>4, <2>1, <3>2 DEF Pending
  <2>2. CASE off[c] + n # Size[c]
    <3>1. wpc'[w] = "send" /\ cur'[w] = c /\ off'[c] > 0
      BY <1>2, <2>2 DEF Completes
    <3>2. c \in InHand'
      BY <3>1, HandIsAfter
    <3> QED
      BY <1>4, <2>2, <3>2 DEF Pending
  <2> QED
    BY <2>1, <2>2
<1>7. CASE off[c] = 0
  <2>1. PendMap = << >>
    BY <1>1, <1>7, HandIs DEF Pending
  <2>2. Abs!IsNew(c)
    <3>1. \A i \in 1 .. Len(PendMap) : PendMap[i] # c
      BY <2>1, EmptySeq
    <3> QED
      BY <1>5, <1>7, <3>1 DEF Abs!IsNew
  <2>3. n \in 1 .. Size[c] /\ PendMap' = IF n = Size[c] THEN << >> ELSE <<c>>
    BY <1>2, <1>6, <1>7
  <2>4. Abs!AcceptAndEmit(c)
    BY <1>2, <1>4, <2>1, <2>2, <2>3 DEF Abs!AcceptAndEmit, Abs!Units
  <2> QED
    BY <1>1, <2>4 DEF Abs!Next
<1>8. CASE off[c] > 0
  <2>1. PendMap = <<c>>
    BY <1>8, HandIs DEF Pending
  <2>2. Head(PendMap) = c /\ Tail(PendMap) = << >> /\ PendMap # << >>
    BY <2>1
  <2>3. n \in 1 .. (Size[c] - Abs!Sent(c))
    BY <1>2, <1>5
  <2>4. PendMap' = IF Abs!Sent(c) + n = Size[c] THEN Tail(PendMap) ELSE PendMap
    BY <1>5, <1>6, <2>1, <2>2
  <2>5. Abs!Emit
    BY <1>2, <1>4, <2>2, <2>3, <2>4 DEF Abs!Emit, Abs!Units
  <2> QED
    BY <2>5 DEF Abs!Next
<1> QED
  BY <1>2, <1>7, <1>8

(* fifo_queue takes a message, or what is left of it.                      *)
LEMMA QueueMap ==
  ASSUME TxAssumption, Proto = "tcp", OneWriter, Ordered, Ordered', Pending, Pending',
         NEW w \in Writers, wpc[w] = "queue", Alive,
         wpc' = [wpc EXCEPT ![w] = "return"], UNCHANGED <<cur, off, wire, sock, ppc>>,
         fifo' = fifo_queue(fifo, cur[w])
  PROVE  [Abs!Next]_(Abs!vars)
<1> DEFINE c == cur[w]
           h == fifo.head
<1>1. /\ c \in Msgs /\ st[c] = "new" /\ h \in Seq(Msgs)
      /\ \A i \in 1 .. Len(h) : st[h[i]] = "queued"
  BY DEF Ordered, IInv, Calls, TypeOK, Values, tx_fifo
<1>2. fifo'.head = Append(h, c)
  BY DEF fifo_queue
<1>3. wpc'[w] = "return"
  BY DEF Ordered, IInv, TypeOK, Values
<1>4. InHand' = {}
  BY <1>3, HandIsAfter
<1>5. Alive' /\ Alive' = Alive
  BY DEF Alive
<1>6. PendMap' = Waiting'
  BY <1>4, <1>5 DEF Pending
<1>7. CASE off[c] = 0
  <2>1. PendMap = Waiting
    BY <1>7, HandIs DEF Pending
  <2>2. ppc = "pop" => h # << >>
    BY DEF Ordered, IInv, PoolNode
  <2>3. /\ Waiting' = Append(Waiting, c)
        /\ \A i \in 1 .. Len(Waiting) : \E j \in 1 .. Len(h) : Waiting[i] = h[j]
    <3>1. CASE ppc = "pop"
      <4>1. Waiting' = Tail(Append(h, c)) /\ Waiting = Tail(h) /\ h # << >>
        BY <1>2, <2>2, <3>1 DEF Waiting
      <4>2. Tail(Append(h, c)) = Append(Tail(h), c)
        BY <1>1, <4>1, HeadTailAppend
      <4>3. \A i \in 1 .. Len(Tail(h)) : i + 1 \in 1 .. Len(h) /\ Tail(h)[i] = h[i + 1]
        BY <1>1, <4>1, HeadTailProperties
      <4> QED
        BY <4>1, <4>2, <4>3
    <3>2. CASE ppc # "pop"
      BY <1>2, <3>2 DEF Waiting
    <3> QED
      BY <3>1, <3>2
  <2>4. Abs!IsNew(c)
    <3>1. \A i \in 1 .. Len(PendMap) : PendMap[i] # c
      <4>1. ASSUME NEW i \in 1 .. Len(Waiting)
            PROVE  Waiting[i] # c
        <5>1. PICK j \in 1 .. Len(h) : Waiting[i] = h[j]
          BY <2>3
        <5>2. st[h[j]] = "queued"
          BY <1>1
        <5> QED
          BY <1>1, <5>1, <5>2
      <4> QED
        BY <2>1, <4>1
    <3>2. Abs!Sent(c) = 0
      BY <1>1, <1>7, SentIsOff
    <3> QED
      BY <3>1, <3>2 DEF Abs!IsNew
  <2>5. Abs!Accept(c)
    BY <1>5, <1>6, <2>1, <2>3, <2>4 DEF Abs!Accept
  <2> QED
    BY <1>1, <2>5 DEF Abs!Next
<1>8. CASE off[c] > 0
  <2>1. c \in InHand
    BY <1>8, HandIs
  <2>2. PendMap = <<c>> /\ h = << >> /\ ppc # "pop"
    BY <2>1 DEF Pending
  <2>3. Waiting' = <<c>>
    BY <1>2, <2>2 DEF Waiting
  <2> QED
    BY <1>5, <1>6, <2>2, <2>3 DEF Abs!vars
<1>9. off[c] \in Nat
  BY <1>1, SentIsOff
<1> QED
  BY <1>7, <1>8, <1>9

(* One send(2) of the pool thread.                                         *)
LEMMA HeadSendMap ==
  ASSUME TxAssumption, Proto = "tcp", OneWriter, Ordered, Ordered', Pending, Pending',
         ppc = "send", NEW n, send(pnode, n), Alive, UNCHANGED <<wpc, cur, fifo, sock>>,
         ppc' = IF Completes(pnode, n) THEN "pop" ELSE "send"
  PROVE  Abs!Next
<1> DEFINE c == pnode
           h == fifo.head
<1>1. c \in Msgs /\ h # << >> /\ c = Head(h)
  BY DEF Ordered, IInv, PoolNode
<1>2. /\ n \in Nat \ {0} /\ wire' = wire \o [i \in 1 .. n |-> c]
      /\ off'[c] = off[c] + n /\ off[c] + n <= Size[c] /\ off[c] \in Nat /\ Size[c] \in Nat
  <2>1. n \in Nat \ {0} /\ off'[c] <= Size[c] /\ off'[c] = off[c] + n
    BY <1>1, SendFacts, SendKeepsWhole DEF Ordered, IInv
  <2> QED
    BY <1>1, <2>1 DEF send, Ordered, IInv, TypeOK, Values, TxAssumption
<1>3. InHand = {} /\ InHand' = {}
  BY <1>1 DEF Pending
<1>4. Alive' /\ Alive' = Alive
  BY DEF Alive
<1>5. Abs!Sent(c) = off[c]
  BY <1>1, SentIsOff
<1>6. PendMap = h
  BY <1>3 DEF Pending, Waiting
<1>7. PendMap' = IF off[c] + n = Size[c] THEN Tail(h) ELSE h
  BY <1>3, <1>4 DEF Pending, Waiting, Completes
<1>8. n \in 1 .. (Size[c] - Abs!Sent(c))
  BY <1>2, <1>5
<1>9. Abs!Emit
  BY <1>1, <1>2, <1>4, <1>5, <1>6, <1>7, <1>8 DEF Abs!Emit, Abs!Units
<1> QED
  BY <1>9 DEF Abs!Next

(* A step that gives back a reference or closes the object.                *)
LEMMA ReleaseMap ==
  ASSUME Ordered, Pending, Pending', NEW t, objdefr(t) \/ objclos,
         ppc' = ppc \/ (ppc # "pop" /\ ppc' # "pop"), InHand' = InHand \/ sock' = "closed"
  PROVE  [Abs!Next]_(Abs!vars)
<1>1. UNCHANGED wire /\ (UNCHANGED <<fifo, sock>> \/ sock' = "closed")
  BY ReleaseWire DEF Ordered
<1>2. sock' = "closed" => ~Alive'
  BY DEF Alive
<1>3. UNCHANGED <<fifo, sock>> => Alive' = Alive /\ Waiting' = Waiting
  BY DEF Alive, Waiting
<1> QED
  BY <1>1, <1>2, <1>3, QuietMap

(* Every step of a TCP link with one writer is a step of OrderedTx, or one *)
(* that OrderedTx does not see.                                            *)
LEMMA StepMap ==
  ASSUME TxAssumption, FifoAssumption, Proto = "tcp", OneWriter, Ordered, [Next]_vars
  PROVE  [Abs!Next]_(Abs!vars)
<1>1. Ordered' /\ Pending /\ Pending'
  <2>1. IInv' /\ Order' /\ Direct'
    BY NextInv, StepOrder, StepDirect DEF Ordered
  <2>2. Ordered'
    BY <2>1 DEF Ordered
  <2> QED
    BY <2>2, OrderedPending, PendingAfter
<1>2. UNCHANGED <<off, cur, wpc>> => InHand' = InHand
  BY DEF InHand, Unsent
<1>3. sock' = sock => Alive' = Alive
  BY DEF Alive
<1>4. UNCHANGED fifo /\ (ppc' = ppc \/ (ppc # "pop" /\ ppc' # "pop")) => Waiting' = Waiting
  BY DEF Waiting
<1>5. wpc \in [Writers -> WriterPlaces]
  BY DEF Ordered, IInv, TypeOK, Values, WriterPlaces
<1>6. ASSUME wire' = wire, Alive' => Alive /\ Waiting' = Waiting /\ InHand' = InHand
      PROVE  [Abs!Next]_(Abs!vars)
  BY <1>1, <1>6, QuietMap
<1>7. ASSUME NEW w \in Writers, NEW m \in Msgs, WriteEnter(w, m)
      PROVE  [Abs!Next]_(Abs!vars)
  <2>1. wpc[w] = "idle" /\ wpc'[w] = "prepare" /\ UNCHANGED <<fifo, wire, sock, ppc>>
    BY <1>5, <1>7 DEF WriteEnter, WGoto, data, kern
  <2>2. InHand = {} /\ InHand' = {}
    BY <1>1, <2>1, HandIs, HandIsAfter
  <2> QED
    BY <1>3, <1>4, <1>6, <2>1, <2>2
<1>8. ASSUME NEW w \in Writers, WritePrepare(w)
      PROVE  [Abs!Next]_(Abs!vars)
  <2>1. /\ wpc[w] = "prepare" /\ wpc'[w] \in {"check", "return"}
        /\ UNCHANGED <<fifo, wire, sock, ppc>>
    BY <1>5, <1>8 DEF WritePrepare, WGoto, data, kern
  <2>2. InHand = {} /\ InHand' = {}
    BY <1>1, <2>1, HandIs, HandIsAfter
  <2> QED
    BY <1>3, <1>4, <1>6, <2>1, <2>2
<1>9. ASSUME NEW w \in Writers, WriteCheck(w)
      PROVE  [Abs!Next]_(Abs!vars)
  <2>1. wpc[w] = "check" /\ UNCHANGED <<cur, off, fifo, wire, sock, ppc>>
    BY <1>9 DEF WriteCheck, WGoto, data, kern
  <2>2. off[cur[w]] = 0
    BY <2>1 DEF Ordered, IInv, Calls, Order, Kept
  <2>3. InHand = {} /\ InHand' = {}
    BY <1>1, <2>1, <2>2, HandIs, HandIsAfter
  <2> QED
    BY <1>3, <1>4, <1>6, <2>1, <2>3
<1>10. ASSUME NEW w \in Writers, WriteSend(w)
       PROVE  [Abs!Next]_(Abs!vars)
  <2>1. wpc[w] = "send" /\ UNCHANGED <<cur, fifo, ppc, sock>>
    BY <1>10 DEF WriteSend, data, kern
  <2>2. CASE Alive /\ \E n : /\ send(cur[w], n)
                             /\ IF Completes(cur[w], n)
                                THEN WGoto(w, "send", "return") ELSE WGoto(w, "send", "send")
    <3>1. PICK n : /\ send(cur[w], n)
                   /\ IF Completes(cur[w], n)
                      THEN wpc' = [wpc EXCEPT ![w] = "return"]
                      ELSE wpc' = [wpc EXCEPT ![w] = "send"]
      BY <2>2 DEF WGoto
    <3>2. \/ wpc' = [wpc EXCEPT ![w] = "return"] /\ Completes(cur[w], n)
          \/ wpc' = wpc /\ ~Completes(cur[w], n)
      BY <1>5, <2>1, <3>1
    <3>3. send(cur[w], n)
      BY <3>1
    <3>4. Abs!Next
      BY <1>1, <2>1, <2>2, <3>2, <3>3, WriterSendMap
    <3> QED
      BY <3>4
  <2>3. CASE Alive /\ WGoto(w, "send", "queue") /\ UNCHANGED data
    <3>1. /\ \A v \in Writers : v = w
          /\ wpc'[w] = "queue" /\ UNCHANGED <<off, wire>>
      BY <1>5, <2>3 DEF OneWriter, WGoto, data
    <3>2. InHand' = InHand
      BY <2>1, <3>1 DEF InHand, Unsent
    <3> QED
      BY <1>3, <1>4, <1>6, <2>1, <3>1, <3>2
  <2>4. CASE ~Alive /\ UNCHANGED data
    BY <1>3, <1>6, <2>1, <2>4 DEF data
  <2> QED
    BY <1>10, <2>2, <2>3, <2>4 DEF WriteSend
<1>11. ASSUME NEW w \in Writers, WriteQueue(w)
       PROVE  [Abs!Next]_(Abs!vars)
  <2>1. /\ wpc[w] = "queue" /\ wpc' = [wpc EXCEPT ![w] = "return"] /\ wpc'[w] = "return"
        /\ UNCHANGED <<cur, off, wire, sock, ppc>>
    BY <1>5, <1>11 DEF WriteQueue, WGoto, kern, io_modify
  <2>2. CASE ~Alive
    BY <1>3, <1>6, <2>1, <2>2
  <2>3. CASE Alive /\ fifo' = fifo_queue(fifo, cur[w])
    BY <1>1, <2>1, <2>3, QueueMap
  <2>4. CASE fifo_is_full(fifo) /\ fifo' = fifo
    <3>1. stat # "closed"
      BY <2>1 DEF Ordered, IInv, Refs
    <3>2. fifo.head # << >>
      <4>1. fifo.head = << >> => Len(fifo.head) = 0
        BY EmptySeq
      <4> QED
        BY <2>4, <3>1, <4>1 DEF Ordered, IInv, FifoConsistent, fifo_is_full, FifoAssumption
    <3>3. off[cur[w]] = 0
      BY <2>1, <3>2 DEF Ordered, Direct, DirectAlone, IInv, Calls, TypeOK, Values
    <3>4. InHand = {} /\ InHand' = {}
      BY <1>1, <2>1, <3>3, HandIs, HandIsAfter
    <3> QED
      BY <1>3, <1>4, <1>6, <2>1, <2>4, <3>4
  <2>5. CASE sock = "closed"
    BY <2>2, <2>5 DEF Alive
  <2> QED
    BY <1>11, <2>2, <2>3, <2>4, <2>5 DEF WriteQueue
<1>12. ASSUME NEW w \in Writers, WriteReturn(w)
       PROVE  [Abs!Next]_(Abs!vars)
  <2>1. wpc[w] = "return" /\ wpc'[w] = "idle" /\ ppc' = ppc /\ objdefr(w)
    BY <1>5, <1>12 DEF WriteReturn, WGoto
  <2>2. InHand = {} /\ InHand' = {}
    BY <1>1, <2>1, HandIs, HandIsAfter
  <2> QED
    BY <1>1, <2>1, <2>2, ReleaseMap
<1>13. CASE PoolSend
  <2>1. ppc = "send" /\ UNCHANGED <<wpc, cur, fifo, sock>>
    BY <1>13 DEF PoolSend, rest, user, data, kern
  <2>2. CASE Alive /\ \E n : /\ send(pnode, n)
                             /\ ppc' = IF Completes(pnode, n) THEN "pop" ELSE "send"
    <3>1. PICK n : send(pnode, n) /\ ppc' = IF Completes(pnode, n) THEN "pop" ELSE "send"
      BY <2>2
    <3>2. Abs!Next
      BY <1>1, <2>1, <2>2, <3>1, HeadSendMap
    <3> QED
      BY <3>2
  <2>3. CASE UNCHANGED data /\ ppc' # "pop"
    BY <1>2, <1>3, <1>4, <1>6, <2>1, <2>3 DEF data
  <2> QED
    BY <1>13, <2>2, <2>3 DEF PoolSend, PGoto, AfterSend
<1>14. CASE PoolTaskPop
  <2>1. /\ ppc = "pop" /\ ppc' # "pop" /\ UNCHANGED <<wpc, cur>> /\ fifo.head # << >>
    BY <1>14 DEF PoolTaskPop, PGoto, rest, user, Ordered, IInv, PoolNode
  <2>2. fifo'.head = Tail(fifo.head) /\ UNCHANGED <<off, wire, sock>>
    BY <1>14, <2>1 DEF PoolTaskPop, PopHead, fifo_pop, fifo_is_empty, io_modify, kern
  <2>3. Waiting' = Waiting
    BY <2>1, <2>2 DEF Waiting
  <2> QED
    BY <1>2, <1>3, <1>6, <2>1, <2>2, <2>3
<1>15. CASE PoolSelfPop
  BY <1>15 DEF PoolSelfPop, PGoto, Ordered, IInv, PoolNode
<1>16. CASE EpollClose \/ EpollRelease \/ PoolClose \/ PoolRelease \/ DestroyEnd
  <2>1. /\ UNCHANGED user /\ (ppc' = ppc \/ (ppc # "pop" /\ ppc' # "pop"))
        /\ \E t : objdefr(t) \/ objclos
    BY <1>16 DEF EpollClose, EpollRelease, PoolClose, PoolRelease, DestroyEnd, rest, PGoto
  <2>2. off' = off
    BY <2>1, ReleaseWire DEF Ordered
  <2>3. InHand' = InHand
    BY <1>2, <2>1, <2>2 DEF user
  <2> QED
    BY <1>1, <2>1, <2>3, ReleaseMap
<1>17. CASE DestroyClose \/ PeerCloses
  <2>1. UNCHANGED <<wpc, cur, fifo, off, wire, ppc>> /\ (Alive' => Alive)
    BY <1>17 DEF DestroyClose, PeerCloses, io_close, user, data, Alive
  <2> QED
    BY <1>2, <1>4, <1>6, <2>1
<1>18. CASE (\E m \in Msgs : WriteNoEntry(m))
            \/ DestroyBegin \/ EpollWait \/ EpollRefr \/ wp_queued \/ EpollSignal
            \/ PoolWake \/ PoolReset \/ PoolGet \/ PoolRefr \/ PoolTop \/ PoolAppend
            \/ PoolTimeout \/ Drain \/ Arrive \/ UNCHANGED vars
  <2>1. /\ UNCHANGED <<wpc, cur, fifo, off, wire, sock>>
        /\ ppc' = ppc \/ (ppc # "pop" /\ ppc' # "pop")
    BY <1>18 DEF WriteNoEntry, DestroyBegin, EpollWait, EpollRefr, wp_queued,
         EpollSignal, PoolWake, PoolReset, PoolGet, PoolRefr, PoolTop, PoolAppend, PoolTimeout,
         Drain, Arrive, vars, rest, data, user, kern, PGoto
  <2> QED
    BY <1>2, <1>3, <1>4, <1>6, <2>1
<1> QED
  <2>1. PoolPop => PoolSelfPop \/ PoolTaskPop
    BY WhichPop DEF Ordered, IInv
  <2> QED
    BY <1>7, <1>8, <1>9, <1>10, <1>11, <1>12, <1>13, <1>14, <1>15, <1>16, <1>17, <1>18, <2>1
    DEF Next, WriteStep, EpollStep, PoolStep

(* At the start nothing is queued or sent.                                 *)
LEMMA InitMap ==
  ASSUME TxAssumption, FifoAssumption, Proto = "tcp", OneWriter, Init
  PROVE  Ordered /\ Abs!Init
<1>1. IInv
  BY InitInv
<1>2. /\ fifo.head = << >> /\ wire = << >> /\ ppc = "wait"
      /\ \A m \in Msgs : off[m] = 0
      /\ \A w \in Writers : wpc[w] = "idle"
  BY DEF Init, fifo_init
<1>3. 1 .. Len(fifo.head) = {}
  BY <1>2, EmptySeq
<1>4. Order
  BY TxAssumption DEF Init, Order, Kept, Decided, Earlier, RealTimeOrder
<1>5. OffCounts
  <2>1. \A m \in Msgs : Len(Only(<< >>, {m})) = 0
    BY OnlyEmpty, EmptySeq
  <2> QED
    BY <1>2, <2>1 DEF OffCounts
<1>6. Ordered
  BY <1>1, <1>2, <1>3, <1>4, <1>5 DEF Ordered, Direct, Unfinished, DirectAlone
<1>7. Alive /\ InHand = {}
  BY <1>2 DEF Alive, InHand, Init
<1>8. PendMap = << >>
  <2>1. Waiting = << >>
    BY <1>2 DEF Waiting
  <2> QED
    BY <1>6, <1>7, <2>1, OrderedPending DEF Pending
<1>9. Alive = TRUE
  BY <1>7 DEF Alive
<1> QED
  BY <1>2, <1>6, <1>8, <1>9 DEF Abs!Init

(* With one writer of a TCP link, what the threads, the queue and the pool *)
(* do between them is what OrderedTx says: the messages tcp_write takes    *)
(* leave whole and in the order of the calls, until the connection is lost.*)
THEOREM OneWriterOrdered ==
  Proto = "tcp" /\ OneWriter => (Spec => ImplementsOrderedTx)
<1> SUFFICES ASSUME Proto = "tcp", OneWriter
             PROVE  Spec => ImplementsOrderedTx
  OBVIOUS
<1>1. Init => Ordered /\ Abs!Init
  BY InitMap, TxAssumption, FifoAssumption
<1>2. Ordered /\ [Next]_vars => Ordered'
  BY NextInv, StepOrder, StepDirect, TxAssumption, FifoAssumption DEF Ordered
<1>3. Ordered /\ [Next]_vars => [Abs!Next]_(Abs!vars)
  BY StepMap, TxAssumption, FifoAssumption
<1> QED
  BY <1>1, <1>2, <1>3, PTL DEF Spec, ImplementsOrderedTx, Abs!Spec
=============================================================================
