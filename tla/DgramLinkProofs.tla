--------------------------- MODULE DgramLinkProofs --------------------------
(***************************************************************************)
(* Proofs about datagram links and pipes, for any number of divisions,     *)
(* writers, messages and datagrams.                                        *)
(***************************************************************************)
EXTENDS DgramLink, SublistsProofs, FiniteSetTheorems, SequenceTheorems, TLAPS

(* Where a thread holds a reference to the link.                           *)
Inside == {"handlers", "attach", "return", "fail", "write", "defr",
           "rx", "data", "zero", "post"}

Holding == {t \in Threads : pc[t] \in Inside}

(* The count is the number of threads inside, and a link that is not there *)
(* has none.                                                               *)
Counted ==
  /\ refs = Cardinality(Holding)
  /\ stat = "none" => Holding = {}
  /\ stat = "gone" => refs = 0

(* What an epoll thread has in its hands, and what a writer may still send.*)
Hands ==
  /\ hand \in [Divisions -> [ev : SUBSET {"in", "err"}, pipe : Divisions, msg : Seq(Msg)]]
  /\ pipe \in [Divisions -> Seq(Msg)] /\ sent \in [Writers -> Seq(Msg)]
  /\ \A w \in Writers : pc[w] = "write" => Len(sent[w]) < MaxMsgs

(* The receive handler runs on the link's division, the pipe is read on the*)
(* one it is attached to, and only the link's pipe is ever written.        *)
Places ==
  /\ \A d \in Divisions :
       /\ pc[d] \in {"link", "rx", "data", "zero"} => d = LinkDiv
       /\ pc[d] \in {"read", "post"} => pipeat[LinkDiv] = d
       /\ pc[d] \in {"idle", "link", "rx", "data", "zero", "read", "post", "defr"}
  /\ pedge \subseteq {LinkDiv}
  /\ \A w \in Writers : pc[w] \in {"idle", "write", "defr"}
  /\ pc["creator"] \in {"idle", "handlers", "attach", "return", "fail", "fail2", "done"}
  /\ pc["destroyer"] \in {"idle", "defr"}

(* What leads to the end of a link has been noted.                         *)
Caused ==
  /\ pc["creator"] \in {"fail", "fail2"} => causes # {}
  /\ "err" \in edge => causes # {}
  /\ \A d \in Divisions : "err" \in hand[d].ev => causes # {}
  /\ \A i \in 1 .. Len(sock) : sock[i] = "empty" => causes # {}
  /\ \A d \in Divisions : pc[d] = "zero" => causes # {}
  /\ fd = "closed" => stat \in {"closing", "gone"}
  /\ ClosedForCause

(* The handler is in place before the socket is attached.                  *)
HandlerFirst ==
  /\ fd = "attached" => reader
  /\ pc["creator"] = "attach" => reader

IInv == TypeOK /\ Counted /\ Hands /\ Places /\ Caused /\ HandlerFirst /\ NoUnheardDatagram
-----------------------------------------------------------------------------
(* What one datagram leaves of the socket's queue and where the handler goes. *)
LEMMA RxDataFacts ==
  ASSUME TypeOK, NEW d \in Divisions, RxData(d)
  PROVE  /\ Head(sock) \in {"data", "empty", "other"} /\ Head(sock) = sock[1]
         /\ sock # << >> /\ sock' = Tail(sock)
         /\ sock' \in Seq({"data", "empty", "other"})
         /\ Len(sock) \in Nat /\ Len(sock) > 0 /\ Len(sock') = Len(sock) - 1
         /\ \A i \in 1 .. Len(sock') : sock'[i] = sock[i + 1]
         /\ \/ pc' = pc
            \/ Goes(d, "rx", "data")
            \/ Goes(d, "rx", "zero") /\ Head(sock) = "empty"
         /\ pc[d] = "rx" /\ fd # "closed"
         /\ UNCHANGED <<kind, pipeat, life, reader, arrived, fd, edge, pipes, hand,
                        heard, causes>>
<1>1. sock \in Seq({"data", "empty", "other"}) /\ sock # << >> /\ sock' = Tail(sock)
  BY DEF TypeOK, RxData
<1>2. Head(sock) \in {"data", "empty", "other"} /\ Head(sock) = sock[1]
  BY <1>1, HeadTailProperties DEF RxData
<1>3. /\ sock' \in Seq({"data", "empty", "other"})
      /\ Len(sock) \in Nat /\ Len(sock) > 0 /\ Len(sock') = Len(sock) - 1
      /\ \A i \in 1 .. Len(sock') : sock'[i] = sock[i + 1]
  BY <1>1, HeadTailProperties, EmptySeq
<1>4. \/ pc' = pc
      \/ Goes(d, "rx", "data")
      \/ Goes(d, "rx", "zero") /\ Head(sock) = "empty"
  <2>1. CASE Head(sock) = "data"
    BY <2>1 DEF RxData
  <2>2. CASE Head(sock) = "other"
    BY <2>2 DEF RxData
  <2>3. CASE Head(sock) = "empty"
    BY <2>3 DEF RxData
  <2> QED
    BY <1>2, <2>1, <2>2, <2>3
<1> QED
  BY <1>1, <1>2, <1>3, <1>4 DEF RxData

(* The hand of an epoll thread with new contents.                          *)
LEMMA HandSet ==
  ASSUME Hands, NEW d \in Divisions, NEW e \in SUBSET {"in", "err"},
         NEW p \in Divisions, NEW m \in Seq(Msg)
  PROVE  LET H == [Divisions -> [ev : SUBSET {"in", "err"}, pipe : Divisions, msg : Seq(Msg)]] IN
         /\ [hand EXCEPT ![d].ev = e] \in H
         /\ [hand EXCEPT ![d].pipe = p] \in H
         /\ [hand EXCEPT ![d].msg = m] \in H
         /\ [hand EXCEPT ![d] = Nothing(d)] \in H
<1>1. hand[d] \in [ev : SUBSET {"in", "err"}, pipe : Divisions, msg : Seq(Msg)]
  BY DEF Hands
<1>2. << >> \in Seq(Msg)
  BY EmptySeq
<1>3. /\ [hand[d] EXCEPT !.ev = e] \in [ev : SUBSET {"in", "err"}, pipe : Divisions, msg : Seq(Msg)]
      /\ [hand[d] EXCEPT !.pipe = p] \in [ev : SUBSET {"in", "err"}, pipe : Divisions, msg : Seq(Msg)]
      /\ [hand[d] EXCEPT !.msg = m] \in [ev : SUBSET {"in", "err"}, pipe : Divisions, msg : Seq(Msg)]
      /\ Nothing(d) \in [ev : SUBSET {"in", "err"}, pipe : Divisions, msg : Seq(Msg)]
  BY <1>1, <1>2 DEF Nothing
<1> QED
  BY <1>3 DEF Hands

(* A datagram taken from the socket.                                       *)
LEMMA RxDataKeeps ==
  ASSUME DgramAssumption, IInv, NEW d \in Divisions, RxData(d)
  PROVE  HandlerFirst' /\ Caused' /\ Places' /\ NoUnheardDatagram' /\ Hands'
<1>1. /\ Head(sock) = sock[1] /\ sock # << >>
      /\ Len(sock) \in Nat /\ Len(sock) > 0 /\ Len(sock') = Len(sock) - 1
      /\ \A i \in 1 .. Len(sock') : sock'[i] = sock[i + 1]
      /\ \/ pc' = pc
         \/ pc' = [pc EXCEPT ![d] = "data"]
         \/ pc' = [pc EXCEPT ![d] = "zero"] /\ Head(sock) = "empty"
      /\ pc[d] = "rx" /\ fd # "closed"
      /\ UNCHANGED <<kind, pipeat, stat, refs, reader, fd, edge, pipe, pedge, sent, hand, causes>>
  BY RxDataFacts DEF IInv, life, pipes, Goes
<1>2. pc \in [Threads -> {"idle", "handlers", "attach", "return", "fail", "fail2", "done",
                         "write", "defr", "link", "read", "rx", "data", "zero", "post"}]
  BY DEF IInv, TypeOK
<1>3. d = LinkDiv /\ d \notin Writers \cup {"creator", "destroyer"} /\ d \in Threads
  BY <1>1 DEF IInv, Places, DgramAssumption, Threads
<1>4. pc'[d] \in {"rx", "data", "zero"} /\ \A t \in Threads \ {d} : pc'[t] = pc[t]
  BY <1>1, <1>2, <1>3
<1>5. Writers \cup {"creator", "destroyer"} \subseteq Threads \ {d} /\ Divisions \subseteq Threads
  BY <1>3 DEF Threads
<1>6. HandlerFirst'
  BY <1>1, <1>4, <1>5 DEF IInv, HandlerFirst
<1>7. Places'
  BY <1>1, <1>3, <1>4, <1>5 DEF IInv, Places
<1>8. NoUnheardDatagram'
  BY <1>3, <1>4 DEF NoUnheardDatagram
<1>9. Hands'
  BY <1>1, <1>4, <1>5 DEF IInv, Hands
<1>10. Caused'
  <2>1. \A i \in 1 .. Len(sock) : sock[i] = "empty" => causes # {}
    BY DEF IInv, Caused
  <2>2. (\A i \in 1 .. Len(sock') : sock'[i] = "empty" => causes # {})
        /\ (Head(sock) = "empty" => causes # {})
    BY <1>1, <2>1
  <2>3. \A e \in Divisions : pc'[e] = "zero" => causes # {}
    <3>1. ASSUME NEW e \in Divisions, e # d, pc'[e] = "zero" PROVE causes # {}
      BY <1>4, <1>5, <3>1 DEF IInv, Caused
    <3>2. pc'[d] = "zero" => causes # {}
      BY <1>1, <1>2, <1>3, <2>2
    <3> QED
      BY <3>1, <3>2
  <2> QED
    BY <1>1, <1>4, <1>5, <2>2, <2>3 DEF IInv, Caused, ClosedForCause
<1> QED
  BY <1>6, <1>7, <1>8, <1>9, <1>10

(* A message read from the pipe: the epoll thread takes it, or drops it when *)
(* the link is closing.                                                    *)
LEMMA PipeReadHands ==
  ASSUME IInv, NEW d \in Divisions, PipeRead(d)
  PROVE  /\ Hands'
         /\ \A e \in Divisions : hand'[e].ev = hand[e].ev
<1> DEFINE p == hand[d].pipe
           H == [Divisions -> [ev : SUBSET {"in", "err"}, pipe : Divisions, msg : Seq(Msg)]]
<1>1. /\ hand \in H /\ p \in Divisions /\ pipe[p] \in Seq(Msg)
      /\ pipe \in [Divisions -> Seq(Msg)] /\ sent \in [Writers -> Seq(Msg)]
  BY DEF IInv, Hands
<1>2. pipe[p] # << >> /\ pipe' = [pipe EXCEPT ![p] = Tail(@)] /\ sent' = sent
  BY DEF PipeRead
<1>3. \/ hand' = hand /\ pc' = pc
      \/ hand' = [hand EXCEPT ![d].msg = <<Head(pipe[p])>>] /\ pc' = [pc EXCEPT ![d] = "post"]
  BY DEF PipeRead, Takes, Goes
<1>4. Head(pipe[p]) \in Msg /\ Tail(pipe[p]) \in Seq(Msg)
  BY <1>1, <1>2, HeadTailProperties
<1>5. <<Head(pipe[p])>> \in Seq(Msg)
  BY <1>4
<1>6. [hand EXCEPT ![d].msg = <<Head(pipe[p])>>] \in H
  BY <1>5, <1>1, HandSet DEF IInv
<1>7. hand' \in H
  BY <1>1, <1>3, <1>6
<1>8. pipe' \in [Divisions -> Seq(Msg)]
  BY <1>1, <1>2, <1>4
<1>9. \A w \in Writers : pc'[w] = "write" => pc[w] = "write"
  BY <1>3 DEF IInv, TypeOK, Threads
<1>10. Hands'
  BY <1>2, <1>7, <1>8, <1>9, <1>1 DEF IInv, Hands
<1>11. ASSUME NEW e \in Divisions PROVE hand'[e].ev = hand[e].ev
  <2>1. CASE hand' = hand
    BY <2>1
  <2>2. CASE hand' = [hand EXCEPT ![d].msg = <<Head(pipe[p])>>]
    BY <1>1, <2>2
  <2> QED
    BY <1>3, <2>1, <2>2
<1> QED
  BY <1>10, <1>11

(* A message put into the pipe, or refused because the pipe is full.       *)
LEMMA WriteHands ==
  ASSUME DgramAssumption, IInv, NEW w \in Writers, Write(w)
  PROVE  Hands'
<1> DEFINE m == [by |-> w, n |-> Len(sent[w]) + 1]
<1>1. /\ pipe \in [Divisions -> Seq(Msg)] /\ sent \in [Writers -> Seq(Msg)]
      /\ pc[w] = "write" /\ pc' = [pc EXCEPT ![w] = "defr"] /\ hand' = hand
  BY DEF IInv, Hands, Write, Goes
<1>2. \A v \in Writers : pc'[v] = "write" => v # w /\ pc[v] = "write"
  BY <1>1 DEF IInv, TypeOK, Threads
<1>3. CASE UNCHANGED pipes
  BY <1>1, <1>2, <1>3 DEF IInv, Hands, pipes
<1>4. CASE /\ pipe' = [pipe EXCEPT ![LinkDiv] = Append(@, m)]
           /\ sent' = [sent EXCEPT ![w] = Append(@, m)]
  <2>1. Len(sent[w]) \in Nat /\ Len(sent[w]) < MaxMsgs
    BY <1>1 DEF IInv, Hands
  <2>2. m \in Msg
    BY <2>1 DEF Msg, DgramAssumption
  <2>3. Append(pipe[LinkDiv], m) \in Seq(Msg) /\ Append(sent[w], m) \in Seq(Msg)
    BY <1>1, <2>2, AppendProperties DEF DgramAssumption
  <2>4. pipe' \in [Divisions -> Seq(Msg)] /\ sent' \in [Writers -> Seq(Msg)]
    BY <1>1, <1>4, <2>3
  <2> QED
    BY <1>1, <1>2, <1>4, <2>4 DEF IInv, Hands
<1> QED
  BY <1>3, <1>4 DEF Write, io_pipefd

(* The handler stays in place.                                             *)
LEMMA HandlerKept == IInv /\ Next => HandlerFirst'
<1> SUFFICES ASSUME IInv, Next PROVE HandlerFirst'
  OBVIOUS
<1> USE DgramAssumption
<1>1. ASSUME NEW d \in Divisions, RxData(d) PROVE HandlerFirst'
  BY <1>1, RxDataKeeps
<1> USE DEF HandlerFirst, IInv, TypeOK, Threads, life, net, pipes, Goes
<1>2. ASSUME Create PROVE HandlerFirst'
  BY <1>2 DEF Create
<1>3. ASSUME Handlers PROVE HandlerFirst'
  BY <1>3 DEF Handlers
<1>4. ASSUME Attach PROVE HandlerFirst'
  BY <1>4 DEF Attach
<1>5. ASSUME Fails PROVE HandlerFirst'
  BY <1>5 DEF Fails
<1>6. ASSUME Return PROVE HandlerFirst'
  BY <1>6 DEF Return, objdefr
<1>7. ASSUME FailDefr PROVE HandlerFirst'
  BY <1>7 DEF FailDefr, objdefr
<1>8. ASSUME FailClose PROVE HandlerFirst'
  BY <1>8 DEF FailClose, objclos
<1>9. ASSUME Destroy PROVE HandlerFirst'
  BY <1>9 DEF Destroy, Known
<1>10. ASSUME DestroyDefr PROVE HandlerFirst'
  BY <1>10 DEF DestroyDefr, objdefr
<1>11. ASSUME Arrive PROVE HandlerFirst'
  BY <1>11 DEF Arrive, Event, Dgrams
<1>12. ASSUME NetError PROVE HandlerFirst'
  BY <1>12 DEF NetError, Event
<1>13. ASSUME NEW w \in Writers, Awaken(w) PROVE HandlerFirst'
  BY <1>13 DEF Awaken, objrefr
<1>14. ASSUME NEW w \in Writers, Write(w) PROVE HandlerFirst'
  BY <1>14 DEF Write, io_pipefd
<1>15. ASSUME NEW w \in Writers, WriteFails(w) PROVE HandlerFirst'
  BY <1>15 DEF WriteFails
<1>16. ASSUME NEW w \in Writers, AwakenDefr(w) PROVE HandlerFirst'
  BY <1>16 DEF AwakenDefr, objdefr
<1>17. ASSUME NEW d \in Divisions, FetchLink(d) PROVE HandlerFirst'
  BY <1>17 DEF FetchLink
<1>18. ASSUME NEW d \in Divisions, FetchPipe(d) PROVE HandlerFirst'
  BY <1>18 DEF FetchPipe
<1>19. ASSUME NEW d \in Divisions, LinkError(d) PROVE HandlerFirst'
  BY <1>19 DEF LinkError, objclos, Nothing
<1>20. ASSUME NEW d \in Divisions, LinkInput(d) PROVE HandlerFirst'
  BY <1>20 DEF LinkInput, objrefr, Nothing
<1>21. ASSUME NEW d \in Divisions, RxAgain(d) PROVE HandlerFirst'
  BY <1>21 DEF RxAgain
<1>22. ASSUME NEW d \in Divisions, RxEmpty(d) PROVE HandlerFirst'
  BY <1>22 DEF RxEmpty
<1>23. ASSUME NEW d \in Divisions, RxFails(d) PROVE HandlerFirst'
  BY <1>23 DEF RxFails, objclos
<1>24. ASSUME NEW d \in Divisions, RxDefr(d) PROVE HandlerFirst'
  BY <1>24 DEF RxDefr, objdefr
<1>25. ASSUME NEW d \in Divisions, PipeRead(d) PROVE HandlerFirst'
  BY <1>25 DEF PipeRead, objrefr, Takes
<1>26. ASSUME NEW d \in Divisions, PipePost(d) PROVE HandlerFirst'
  BY <1>26 DEF PipePost, objdefr
<1>27. ASSUME NEW d \in Divisions, PipeEmpty(d) PROVE HandlerFirst'
  BY <1>27 DEF PipeEmpty, Nothing
<1> QED
  BY <1>1, <1>2, <1>3, <1>4, <1>5, <1>6, <1>7, <1>8, <1>9, <1>10, <1>11, <1>12, <1>13, <1>14, <1>15, <1>16, <1>17, <1>18, <1>19, <1>20, <1>21, <1>22, <1>23, <1>24, <1>25, <1>26, <1>27
  DEF Next, CreateStep, WriterStep, EpollStep

(* What may close the link stays noted, and only that closes it.           *)
LEMMA CausedKept == IInv /\ Next => Caused'
<1> SUFFICES ASSUME IInv, Next PROVE Caused'
  OBVIOUS
<1> USE DgramAssumption
<1>1. ASSUME Arrive PROVE Caused'
  <2>1. PICK x \in Dgrams(kind) : sock' = Append(sock, x) /\ causes' = causes \cup ({x} \cap {"empty"})
    BY <1>1 DEF Arrive
  <2>2. x \in {"data", "empty", "other"} /\ sock \in Seq({"data", "empty", "other"})
    BY DEF Dgrams, IInv, TypeOK
  <2>3. \A i \in 1 .. Len(sock') : (i \in 1 .. Len(sock) /\ sock'[i] = sock[i]) \/ sock'[i] = x
    BY <2>1, <2>2, AppendProperties
  <2>4. \A i \in 1 .. Len(sock') : sock'[i] = "empty" => causes' # {}
    BY <2>1, <2>3 DEF IInv, Caused
  <2>5. causes # {} => causes' # {}
    BY <2>1
  <2>6. "err" \in edge' => "err" \in edge
    BY <1>1 DEF Arrive, Event
  <2>7. UNCHANGED <<stat, pc, fd, hand>>
    BY <1>1 DEF Arrive, life
  <2> QED
    BY <2>4, <2>5, <2>6, <2>7 DEF IInv, Caused, ClosedForCause
<1>2. ASSUME NEW d \in Divisions, FetchPipe(d) PROVE Caused'
  <2>1. /\ \E p \in pedge : hand' = [hand EXCEPT ![d].pipe = p]
        /\ pc' = [pc EXCEPT ![d] = "read"]
        /\ UNCHANGED <<stat, sock, edge, fd, causes>>
    BY <1>2 DEF FetchPipe, life, net, Goes
  <2>2. \A e \in Divisions : hand'[e].ev = hand[e].ev
    BY <2>1 DEF IInv, Hands
  <2>3. \A t \in Threads : pc'[t] \in {"zero", "fail", "fail2"} => pc'[t] = pc[t]
    BY <2>1 DEF IInv, TypeOK
  <2> QED
    BY <2>1, <2>2, <2>3 DEF IInv, Caused, ClosedForCause, Threads
<1>3. ASSUME NEW d \in Divisions, RxData(d) PROVE Caused'
  BY <1>3, RxDataKeeps
<1>4. ASSUME NEW d \in Divisions, PipeRead(d) PROVE Caused'
  <2>1. /\ pc' \in {pc, [pc EXCEPT ![d] = "post"]}
        /\ UNCHANGED <<stat, sock, edge, fd, causes>>
    BY <1>4 DEF PipeRead, Takes, objrefr, life, net, Goes
  <2>2. \A e \in Divisions : hand'[e].ev = hand[e].ev
    BY <1>4, PipeReadHands
  <2>3. \A t \in Threads : pc'[t] \in {"zero", "fail", "fail2"} => pc'[t] = pc[t]
    BY <2>1 DEF IInv, TypeOK
  <2> QED
    BY <2>1, <2>2, <2>3 DEF IInv, Caused, ClosedForCause, Threads
<1> USE DEF Caused, ClosedForCause, Hands, Places, IInv, TypeOK, Threads, life, net, pipes, Goes
<1>5. ASSUME Create PROVE Caused'
  BY <1>5 DEF Create
<1>6. ASSUME Handlers PROVE Caused'
  BY <1>6 DEF Handlers
<1>7. ASSUME Attach PROVE Caused'
  BY <1>7 DEF Attach
<1>8. ASSUME Fails PROVE Caused'
  BY <1>8 DEF Fails
<1>9. ASSUME Return PROVE Caused'
  BY <1>9 DEF Return, objdefr
<1>10. ASSUME FailDefr PROVE Caused'
  BY <1>10 DEF FailDefr, objdefr
<1>11. ASSUME FailClose PROVE Caused'
  BY <1>11 DEF FailClose, objclos
<1>12. ASSUME Destroy PROVE Caused'
  BY <1>12 DEF Destroy, Known
<1>13. ASSUME DestroyDefr PROVE Caused'
  BY <1>13 DEF DestroyDefr, objdefr
<1>14. ASSUME NetError PROVE Caused'
  BY <1>14 DEF NetError, Event
<1>15. ASSUME NEW w \in Writers, Awaken(w) PROVE Caused'
  BY <1>15 DEF Awaken, objrefr
<1>16. ASSUME NEW w \in Writers, Write(w) PROVE Caused'
  BY <1>16 DEF Write, io_pipefd
<1>17. ASSUME NEW w \in Writers, WriteFails(w) PROVE Caused'
  BY <1>17 DEF WriteFails
<1>18. ASSUME NEW w \in Writers, AwakenDefr(w) PROVE Caused'
  BY <1>18 DEF AwakenDefr, objdefr
<1>19. ASSUME NEW d \in Divisions, FetchLink(d) PROVE Caused'
  BY <1>19 DEF FetchLink
<1>20. ASSUME NEW d \in Divisions, LinkError(d) PROVE Caused'
  BY <1>20 DEF LinkError, objclos, Nothing
<1>21. ASSUME NEW d \in Divisions, LinkInput(d) PROVE Caused'
  BY <1>21 DEF LinkInput, objrefr, Nothing
<1>22. ASSUME NEW d \in Divisions, RxAgain(d) PROVE Caused'
  BY <1>22 DEF RxAgain
<1>23. ASSUME NEW d \in Divisions, RxEmpty(d) PROVE Caused'
  BY <1>23 DEF RxEmpty
<1>24. ASSUME NEW d \in Divisions, RxFails(d) PROVE Caused'
  BY <1>24 DEF RxFails, objclos
<1>25. ASSUME NEW d \in Divisions, RxDefr(d) PROVE Caused'
  BY <1>25 DEF RxDefr, objdefr
<1>26. ASSUME NEW d \in Divisions, PipePost(d) PROVE Caused'
  BY <1>26 DEF PipePost, objdefr
<1>27. ASSUME NEW d \in Divisions, PipeEmpty(d) PROVE Caused'
  BY <1>27 DEF PipeEmpty, Nothing
<1> QED
  BY <1>1, <1>2, <1>3, <1>4, <1>5, <1>6, <1>7, <1>8, <1>9, <1>10, <1>11, <1>12, <1>13, <1>14, <1>15, <1>16, <1>17, <1>18, <1>19, <1>20, <1>21, <1>22, <1>23, <1>24, <1>25, <1>26, <1>27
  DEF Next, CreateStep, WriterStep, EpollStep

(* Every thread stays where it may be.                                     *)
LEMMA PlacesKept == IInv /\ Next => Places'
<1> SUFFICES ASSUME IInv, Next PROVE Places'
  OBVIOUS
<1> USE DgramAssumption
<1>1. ASSUME NEW d \in Divisions, RxData(d) PROVE Places'
  BY <1>1, RxDataKeeps
<1> USE DEF Places, IInv, TypeOK, Threads, life, net, pipes, Goes
<1>2. ASSUME Create PROVE Places'
  BY <1>2 DEF Create
<1>3. ASSUME Handlers PROVE Places'
  BY <1>3 DEF Handlers
<1>4. ASSUME Attach PROVE Places'
  BY <1>4 DEF Attach
<1>5. ASSUME Fails PROVE Places'
  BY <1>5 DEF Fails
<1>6. ASSUME Return PROVE Places'
  BY <1>6 DEF Return, objdefr
<1>7. ASSUME FailDefr PROVE Places'
  BY <1>7 DEF FailDefr, objdefr
<1>8. ASSUME FailClose PROVE Places'
  BY <1>8 DEF FailClose, objclos
<1>9. ASSUME Destroy PROVE Places'
  BY <1>9 DEF Destroy, Known
<1>10. ASSUME DestroyDefr PROVE Places'
  BY <1>10 DEF DestroyDefr, objdefr
<1>11. ASSUME Arrive PROVE Places'
  BY <1>11 DEF Arrive, Event, Dgrams
<1>12. ASSUME NetError PROVE Places'
  BY <1>12 DEF NetError, Event
<1>13. ASSUME NEW w \in Writers, Awaken(w) PROVE Places'
  BY <1>13 DEF Awaken, objrefr
<1>14. ASSUME NEW w \in Writers, Write(w) PROVE Places'
  BY <1>14 DEF Write, io_pipefd
<1>15. ASSUME NEW w \in Writers, WriteFails(w) PROVE Places'
  BY <1>15 DEF WriteFails
<1>16. ASSUME NEW w \in Writers, AwakenDefr(w) PROVE Places'
  BY <1>16 DEF AwakenDefr, objdefr
<1>17. ASSUME NEW d \in Divisions, FetchLink(d) PROVE Places'
  BY <1>17 DEF FetchLink
<1>18. ASSUME NEW d \in Divisions, FetchPipe(d) PROVE Places'
  BY <1>18 DEF FetchPipe
<1>19. ASSUME NEW d \in Divisions, LinkError(d) PROVE Places'
  BY <1>19 DEF LinkError, objclos, Nothing
<1>20. ASSUME NEW d \in Divisions, LinkInput(d) PROVE Places'
  BY <1>20 DEF LinkInput, objrefr, Nothing
<1>21. ASSUME NEW d \in Divisions, RxAgain(d) PROVE Places'
  BY <1>21 DEF RxAgain
<1>22. ASSUME NEW d \in Divisions, RxEmpty(d) PROVE Places'
  BY <1>22 DEF RxEmpty
<1>23. ASSUME NEW d \in Divisions, RxFails(d) PROVE Places'
  BY <1>23 DEF RxFails, objclos
<1>24. ASSUME NEW d \in Divisions, RxDefr(d) PROVE Places'
  BY <1>24 DEF RxDefr, objdefr
<1>25. ASSUME NEW d \in Divisions, PipeRead(d) PROVE Places'
  BY <1>25 DEF PipeRead, objrefr, Takes
<1>26. ASSUME NEW d \in Divisions, PipePost(d) PROVE Places'
  BY <1>26 DEF PipePost, objdefr
<1>27. ASSUME NEW d \in Divisions, PipeEmpty(d) PROVE Places'
  BY <1>27 DEF PipeEmpty, Nothing
<1> QED
  BY <1>1, <1>2, <1>3, <1>4, <1>5, <1>6, <1>7, <1>8, <1>9, <1>10, <1>11, <1>12, <1>13, <1>14, <1>15, <1>16, <1>17, <1>18, <1>19, <1>20, <1>21, <1>22, <1>23, <1>24, <1>25, <1>26, <1>27
  DEF Next, CreateStep, WriterStep, EpollStep

(* A datagram is announced, or being looked for.                           *)
LEMMA UnheardKept == IInv /\ Next => NoUnheardDatagram'
<1> SUFFICES ASSUME IInv, Next PROVE NoUnheardDatagram'
  OBVIOUS
<1> USE DgramAssumption
<1>1. ASSUME NEW d \in Divisions, RxData(d) PROVE NoUnheardDatagram'
  BY <1>1, RxDataKeeps
<1> USE DEF NoUnheardDatagram, HandlerFirst, Hands, Places, IInv, TypeOK, Threads, life, net, pipes, Goes
<1>2. ASSUME Create PROVE NoUnheardDatagram'
  BY <1>2 DEF Create
<1>3. ASSUME Handlers PROVE NoUnheardDatagram'
  BY <1>3 DEF Handlers
<1>4. ASSUME Attach PROVE NoUnheardDatagram'
  BY <1>4 DEF Attach
<1>5. ASSUME Fails PROVE NoUnheardDatagram'
  BY <1>5 DEF Fails
<1>6. ASSUME Return PROVE NoUnheardDatagram'
  BY <1>6 DEF Return, objdefr
<1>7. ASSUME FailDefr PROVE NoUnheardDatagram'
  BY <1>7 DEF FailDefr, objdefr
<1>8. ASSUME FailClose PROVE NoUnheardDatagram'
  BY <1>8 DEF FailClose, objclos
<1>9. ASSUME Destroy PROVE NoUnheardDatagram'
  BY <1>9 DEF Destroy, Known
<1>10. ASSUME DestroyDefr PROVE NoUnheardDatagram'
  BY <1>10 DEF DestroyDefr, objdefr
<1>11. ASSUME Arrive PROVE NoUnheardDatagram'
  BY <1>11 DEF Arrive, Event, Dgrams
<1>12. ASSUME NetError PROVE NoUnheardDatagram'
  BY <1>12 DEF NetError, Event
<1>13. ASSUME NEW w \in Writers, Awaken(w) PROVE NoUnheardDatagram'
  BY <1>13 DEF Awaken, objrefr
<1>14. ASSUME NEW w \in Writers, Write(w) PROVE NoUnheardDatagram'
  BY <1>14 DEF Write, io_pipefd
<1>15. ASSUME NEW w \in Writers, WriteFails(w) PROVE NoUnheardDatagram'
  BY <1>15 DEF WriteFails
<1>16. ASSUME NEW w \in Writers, AwakenDefr(w) PROVE NoUnheardDatagram'
  BY <1>16 DEF AwakenDefr, objdefr
<1>17. ASSUME NEW d \in Divisions, FetchLink(d) PROVE NoUnheardDatagram'
  BY <1>17 DEF FetchLink
<1>18. ASSUME NEW d \in Divisions, FetchPipe(d) PROVE NoUnheardDatagram'
  BY <1>18 DEF FetchPipe
<1>19. ASSUME NEW d \in Divisions, LinkError(d) PROVE NoUnheardDatagram'
  BY <1>19 DEF LinkError, objclos, Nothing
<1>20. ASSUME NEW d \in Divisions, LinkInput(d) PROVE NoUnheardDatagram'
  BY <1>20 DEF LinkInput, objrefr, Nothing
<1>21. ASSUME NEW d \in Divisions, RxAgain(d) PROVE NoUnheardDatagram'
  BY <1>21 DEF RxAgain
<1>22. ASSUME NEW d \in Divisions, RxEmpty(d) PROVE NoUnheardDatagram'
  BY <1>22 DEF RxEmpty
<1>23. ASSUME NEW d \in Divisions, RxFails(d) PROVE NoUnheardDatagram'
  BY <1>23 DEF RxFails, objclos
<1>24. ASSUME NEW d \in Divisions, RxDefr(d) PROVE NoUnheardDatagram'
  BY <1>24 DEF RxDefr, objdefr
<1>25. ASSUME NEW d \in Divisions, PipeRead(d) PROVE NoUnheardDatagram'
  BY <1>25 DEF PipeRead, objrefr, Takes
<1>26. ASSUME NEW d \in Divisions, PipePost(d) PROVE NoUnheardDatagram'
  BY <1>26 DEF PipePost, objdefr
<1>27. ASSUME NEW d \in Divisions, PipeEmpty(d) PROVE NoUnheardDatagram'
  BY <1>27 DEF PipeEmpty, Nothing
<1> QED
  BY <1>1, <1>2, <1>3, <1>4, <1>5, <1>6, <1>7, <1>8, <1>9, <1>10, <1>11, <1>12, <1>13, <1>14, <1>15, <1>16, <1>17, <1>18, <1>19, <1>20, <1>21, <1>22, <1>23, <1>24, <1>25, <1>26, <1>27
  DEF Next, CreateStep, WriterStep, EpollStep

(* Pipes and hands hold messages only.                                     *)
LEMMA HandsKept == IInv /\ Next => Hands'
<1> SUFFICES ASSUME IInv, Next PROVE Hands'
  OBVIOUS
<1> USE DgramAssumption
<1>1. ASSUME NEW w \in Writers, Write(w) PROVE Hands'
  BY <1>1, WriteHands
<1>2. ASSUME NEW d \in Divisions, FetchLink(d) PROVE Hands'
  <2>1. hand' = [hand EXCEPT ![d].ev = edge]
    BY <1>2 DEF FetchLink
  <2>2. hand' \in [Divisions -> [ev : SUBSET {"in", "err"}, pipe : Divisions, msg : Seq(Msg)]]
    BY <2>1, HandSet, EmptySeq DEF IInv, Hands, TypeOK
  <2>3. UNCHANGED <<pipe, sent>> /\ \E l \in {"link"} : pc' = [pc EXCEPT ![d] = l]
    BY <1>2 DEF FetchLink, IInv, TypeOK, Goes, pipes
  <2> QED
    BY <2>2, <2>3 DEF IInv, Hands, TypeOK, Threads
<1>3. ASSUME NEW d \in Divisions, FetchPipe(d) PROVE Hands'
  <2>1. PICK q \in pedge : hand' = [hand EXCEPT ![d].pipe = q]
    BY <1>3 DEF FetchPipe
  <2>2. q \in Divisions
    BY <2>1 DEF IInv, TypeOK
  <2>3. hand' \in [Divisions -> [ev : SUBSET {"in", "err"}, pipe : Divisions, msg : Seq(Msg)]]
    BY <2>1, <2>2, HandSet, EmptySeq DEF IInv
  <2>4. UNCHANGED <<pipe, sent>> /\ pc' = [pc EXCEPT ![d] = "read"]
    BY <1>3 DEF FetchPipe, Goes
  <2> QED
    BY <2>3, <2>4 DEF IInv, Hands, TypeOK
<1>4. ASSUME NEW d \in Divisions, LinkError(d) PROVE Hands'
  <2>1. hand' = [hand EXCEPT ![d] = Nothing(d)]
    BY <1>4 DEF LinkError
  <2>2. hand' \in [Divisions -> [ev : SUBSET {"in", "err"}, pipe : Divisions, msg : Seq(Msg)]]
    BY <2>1, HandSet, EmptySeq DEF IInv, Hands, TypeOK
  <2>3. UNCHANGED <<pipe, sent>> /\ \E l \in {"idle"} : pc' = [pc EXCEPT ![d] = l]
    BY <1>4 DEF LinkError, IInv, TypeOK, Goes, pipes
  <2> QED
    BY <2>2, <2>3 DEF IInv, Hands, TypeOK, Threads
<1>5. ASSUME NEW d \in Divisions, LinkInput(d) PROVE Hands'
  <2>1. hand' = [hand EXCEPT ![d] = Nothing(d)]
    BY <1>5 DEF LinkInput
  <2>2. hand' \in [Divisions -> [ev : SUBSET {"in", "err"}, pipe : Divisions, msg : Seq(Msg)]]
    BY <2>1, HandSet, EmptySeq DEF IInv, Hands, TypeOK
  <2>3. UNCHANGED <<pipe, sent>> /\ \E l \in {"rx", "defr", "idle"} : pc' = [pc EXCEPT ![d] = l]
    BY <1>5 DEF LinkInput, IInv, TypeOK, Goes, pipes
  <2> QED
    BY <2>2, <2>3 DEF IInv, Hands, TypeOK, Threads
<1>6. ASSUME NEW d \in Divisions, RxData(d) PROVE Hands'
  BY <1>6, RxDataKeeps
<1>7. ASSUME NEW d \in Divisions, PipeRead(d) PROVE Hands'
  BY <1>7, PipeReadHands
<1>8. ASSUME NEW d \in Divisions, PipePost(d) PROVE Hands'
  <2>1. hand' = [hand EXCEPT ![d].msg = << >>]
    BY <1>8 DEF PipePost
  <2>2. hand' \in [Divisions -> [ev : SUBSET {"in", "err"}, pipe : Divisions, msg : Seq(Msg)]]
    BY <2>1, HandSet, EmptySeq DEF IInv, Hands, TypeOK
  <2>3. UNCHANGED <<pipe, sent>> /\ \E l \in {"read"} : pc' = [pc EXCEPT ![d] = l]
    BY <1>8 DEF PipePost, IInv, TypeOK, Goes, pipes
  <2> QED
    BY <2>2, <2>3 DEF IInv, Hands, TypeOK, Threads
<1>9. ASSUME NEW d \in Divisions, PipeEmpty(d) PROVE Hands'
  <2>1. hand' = [hand EXCEPT ![d] = Nothing(d)]
    BY <1>9 DEF PipeEmpty
  <2>2. hand' \in [Divisions -> [ev : SUBSET {"in", "err"}, pipe : Divisions, msg : Seq(Msg)]]
    BY <2>1, HandSet, EmptySeq DEF IInv, Hands, TypeOK
  <2>3. UNCHANGED <<pipe, sent>> /\ \E l \in {"idle"} : pc' = [pc EXCEPT ![d] = l]
    BY <1>9 DEF PipeEmpty, IInv, TypeOK, Goes, pipes
  <2> QED
    BY <2>2, <2>3 DEF IInv, Hands, TypeOK, Threads
<1> USE DEF Hands, Msg, IInv, TypeOK, Threads, life, net, pipes, Goes
<1>10. ASSUME Create PROVE Hands'
  BY <1>10 DEF Create
<1>11. ASSUME Handlers PROVE Hands'
  BY <1>11 DEF Handlers
<1>12. ASSUME Attach PROVE Hands'
  BY <1>12 DEF Attach
<1>13. ASSUME Fails PROVE Hands'
  BY <1>13 DEF Fails
<1>14. ASSUME Return PROVE Hands'
  BY <1>14 DEF Return, objdefr
<1>15. ASSUME FailDefr PROVE Hands'
  BY <1>15 DEF FailDefr, objdefr
<1>16. ASSUME FailClose PROVE Hands'
  BY <1>16 DEF FailClose, objclos
<1>17. ASSUME Destroy PROVE Hands'
  BY <1>17 DEF Destroy, Known
<1>18. ASSUME DestroyDefr PROVE Hands'
  BY <1>18 DEF DestroyDefr, objdefr
<1>19. ASSUME Arrive PROVE Hands'
  BY <1>19 DEF Arrive, Event, Dgrams
<1>20. ASSUME NetError PROVE Hands'
  BY <1>20 DEF NetError, Event
<1>21. ASSUME NEW w \in Writers, Awaken(w) PROVE Hands'
  BY <1>21 DEF Awaken, objrefr
<1>22. ASSUME NEW w \in Writers, WriteFails(w) PROVE Hands'
  BY <1>22 DEF WriteFails
<1>23. ASSUME NEW w \in Writers, AwakenDefr(w) PROVE Hands'
  BY <1>23 DEF AwakenDefr, objdefr
<1>24. ASSUME NEW d \in Divisions, RxAgain(d) PROVE Hands'
  BY <1>24 DEF RxAgain
<1>25. ASSUME NEW d \in Divisions, RxEmpty(d) PROVE Hands'
  BY <1>25 DEF RxEmpty
<1>26. ASSUME NEW d \in Divisions, RxFails(d) PROVE Hands'
  BY <1>26 DEF RxFails, objclos
<1>27. ASSUME NEW d \in Divisions, RxDefr(d) PROVE Hands'
  BY <1>27 DEF RxDefr, objdefr
<1> QED
  BY <1>1, <1>2, <1>3, <1>4, <1>5, <1>6, <1>7, <1>8, <1>9, <1>10, <1>11, <1>12, <1>13, <1>14, <1>15, <1>16, <1>17, <1>18, <1>19, <1>20, <1>21, <1>22, <1>23, <1>24, <1>25, <1>26, <1>27
  DEF Next, CreateStep, WriterStep, EpollStep

(* Threads are finitely many, and so are those inside.                     *)
LEMMA HoldingFinite ==
  ASSUME DgramAssumption
  PROVE  IsFiniteSet(Holding) /\ IsFiniteSet(Holding')
<1>1. IsFiniteSet({"creator", "destroyer"})
  <2>1. IsFiniteSet({} \cup {"creator"})
    BY FS_EmptySet, FS_AddElement
  <2>2. IsFiniteSet(({} \cup {"creator"}) \cup {"destroyer"})
    BY <2>1, FS_AddElement
  <2>3. {"creator", "destroyer"} = ({} \cup {"creator"}) \cup {"destroyer"}
    OBVIOUS
  <2> QED
    BY <2>2, <2>3
<1>2. IsFiniteSet(Threads)
  BY <1>1, FS_Union DEF Threads, DgramAssumption
<1>3. Holding \subseteq Threads /\ Holding' \subseteq Threads
  BY DEF Holding
<1> QED
  BY <1>2, <1>3, FS_Subset

(* A thread that goes from one place to another takes nobody along.        *)
LEMMA Moves ==
  ASSUME TypeOK, NEW t \in Threads, NEW from, NEW to, Goes(t, from, to)
  PROVE  /\ t \in Holding <=> from \in Inside
         /\ Holding' = IF to \in Inside THEN Holding \cup {t} ELSE Holding \ {t}
<1>1. /\ pc[t] = from /\ pc'[t] = to
      /\ \A u \in Threads : u # t => pc'[u] = pc[u]
  BY DEF TypeOK, Goes
<1> QED
  BY <1>1 DEF Holding

(* A step that neither takes nor gives back a reference; it may close the  *)
(* link (objclos).                                                         *)
LEMMA Stays ==
  ASSUME TypeOK, Counted, NEW t \in Threads, NEW from, NEW to, Goes(t, from, to),
         from \in Inside <=> to \in Inside, refs' = refs,
         stat' = "none" => stat = "none", stat' = "gone" => stat = "gone" \/ refs = 0
  PROVE  Counted'
<1>1. Holding' = Holding
  BY Moves
<1> QED
  BY <1>1 DEF Counted

(* objrefr, or the reference a create or destroy call begins with.         *)
LEMMA Enters ==
  ASSUME DgramAssumption, TypeOK, Counted, NEW t \in Threads, NEW from, NEW to,
         Goes(t, from, to), from \notin Inside, to \in Inside,
         refs' = refs + 1, stat' \in {"open", "closing"}
  PROVE  Counted'
<1>1. Holding' = Holding \cup {t} /\ t \notin Holding
  BY Moves
<1>2. Cardinality(Holding') = Cardinality(Holding) + 1
  BY <1>1, HoldingFinite, FS_AddElement
<1> QED
  BY <1>2 DEF Counted

(* objdefr.                                                                *)
LEMMA Leaves ==
  ASSUME DgramAssumption, TypeOK, Counted, NEW t \in Threads, NEW from, NEW to,
         Goes(t, from, to), from \in Inside, to \notin Inside, objdefr
  PROVE  Counted'
<1>1. Holding' = Holding \ {t} /\ t \in Holding
  BY Moves
<1>2. /\ Cardinality(Holding') = Cardinality(Holding) - 1
      /\ Cardinality(Holding) \in Nat /\ Cardinality(Holding') \in Nat
  BY <1>1, HoldingFinite, FS_RemoveElement, FS_CardinalityType
<1>3. stat # "none" /\ refs > 0
  BY <1>1, <1>2 DEF Counted
<1> QED
  BY <1>2, <1>3 DEF Counted, objdefr

(* The count is right after every step.                                    *)
LEMMA CountedKept == IInv /\ Next => Counted'
<1> SUFFICES ASSUME IInv, Next PROVE Counted'
  OBVIOUS
<1> USE DgramAssumption
<1>1. ASSUME Create PROVE Counted'
  <2>1. Goes("creator", "idle", "handlers") /\ stat' = "open" /\ refs' = refs + 1
    <3>1. refs = 0
      BY <1>1, FS_EmptySet DEF Create, IInv, Counted
    <3> QED
      BY <1>1, <3>1 DEF Create
  <2> QED
    BY <2>1, Enters DEF IInv, Threads, Inside
<1>2. ASSUME Handlers PROVE Counted'
  <2>1. /\ Goes("creator", "handlers", "attach") /\ refs' = refs
        /\ (stat' = "none" => stat = "none") /\ (stat' = "gone" => stat = "gone" \/ refs = 0)
    BY <1>2 DEF Handlers, life
  <2> QED
    BY <2>1, Stays DEF IInv, Threads, Inside
<1>3. ASSUME Attach PROVE Counted'
  <2>1. /\ Goes("creator", "attach", "return") /\ refs' = refs
        /\ (stat' = "none" => stat = "none") /\ (stat' = "gone" => stat = "gone" \/ refs = 0)
    BY <1>3 DEF Attach, life
  <2> QED
    BY <2>1, Stays DEF IInv, Threads, Inside
<1>4. ASSUME Fails PROVE Counted'
  <2>1. /\ Goes("creator", "handlers", "fail") \/ Goes("creator", "attach", "fail")
        /\ refs' = refs /\ stat' = stat
    BY <1>4 DEF Fails, life
  <2> QED
    BY <2>1, Stays DEF IInv, Threads, Inside
<1>5. ASSUME Return PROVE Counted'
  <2>1. Goes("creator", "return", "done") /\ objdefr
    BY <1>5 DEF Return
  <2> QED
    BY <2>1, Leaves DEF IInv, Threads, Inside
<1>6. ASSUME FailDefr PROVE Counted'
  <2>1. Goes("creator", "fail", "fail2") /\ objdefr
    BY <1>6 DEF FailDefr
  <2> QED
    BY <2>1, Leaves DEF IInv, Threads, Inside
<1>7. ASSUME FailClose PROVE Counted'
  <2>1. /\ Goes("creator", "fail2", "done") /\ refs' = refs
        /\ (stat' = "none" => stat = "none") /\ (stat' = "gone" => stat = "gone" \/ refs = 0)
    BY <1>7 DEF FailClose, objclos
  <2> QED
    BY <2>1, Stays DEF IInv, Threads, Inside
<1>8. ASSUME Destroy PROVE Counted'
  <2>1. Goes("destroyer", "idle", "defr") /\ refs' = refs + 1 /\ stat' \in {"open", "closing"}
    BY <1>8 DEF Destroy
  <2> QED
    BY <2>1, Enters DEF IInv, Threads, Inside
<1>9. ASSUME DestroyDefr PROVE Counted'
  <2>1. Goes("destroyer", "defr", "idle") /\ objdefr
    BY <1>9 DEF DestroyDefr
  <2> QED
    BY <2>1, Leaves DEF IInv, Threads, Inside
<1>10. ASSUME Arrive PROVE Counted'
  BY <1>10 DEF Arrive, IInv, Counted, Holding, life
<1>11. ASSUME NetError PROVE Counted'
  BY <1>11 DEF NetError, IInv, Counted, Holding, life
<1>12. ASSUME NEW w \in Writers, Awaken(w) PROVE Counted'
  <2>1. Goes(w, "idle", "write") /\ refs' = refs + 1 /\ stat' \in {"open", "closing"}
    BY <1>12 DEF Awaken, objrefr
  <2> QED
    BY <2>1, Enters DEF IInv, Threads, Inside
<1>13. ASSUME NEW w \in Writers, Write(w) PROVE Counted'
  <2>1. /\ Goes(w, "write", "defr") /\ refs' = refs
        /\ (stat' = "none" => stat = "none") /\ (stat' = "gone" => stat = "gone" \/ refs = 0)
    BY <1>13 DEF Write, life
  <2> QED
    BY <2>1, Stays DEF IInv, Threads, Inside
<1>14. ASSUME NEW w \in Writers, WriteFails(w) PROVE Counted'
  <2>1. /\ Goes(w, "write", "defr") /\ refs' = refs
        /\ (stat' = "none" => stat = "none") /\ (stat' = "gone" => stat = "gone" \/ refs = 0)
    BY <1>14 DEF WriteFails, life
  <2> QED
    BY <2>1, Stays DEF IInv, Threads, Inside
<1>15. ASSUME NEW w \in Writers, AwakenDefr(w) PROVE Counted'
  <2>1. Goes(w, "defr", "idle") /\ objdefr
    BY <1>15 DEF AwakenDefr
  <2> QED
    BY <2>1, Leaves DEF IInv, Threads, Inside
<1>16. ASSUME NEW d \in Divisions, FetchLink(d) PROVE Counted'
  <2>1. /\ Goes(d, "idle", "link") /\ refs' = refs
        /\ (stat' = "none" => stat = "none") /\ (stat' = "gone" => stat = "gone" \/ refs = 0)
    BY <1>16 DEF FetchLink, life
  <2> QED
    BY <2>1, Stays DEF IInv, Threads, Inside
<1>17. ASSUME NEW d \in Divisions, FetchPipe(d) PROVE Counted'
  <2>1. /\ Goes(d, "idle", "read") /\ refs' = refs
        /\ (stat' = "none" => stat = "none") /\ (stat' = "gone" => stat = "gone" \/ refs = 0)
    BY <1>17 DEF FetchPipe, life
  <2> QED
    BY <2>1, Stays DEF IInv, Threads, Inside
<1>18. ASSUME NEW d \in Divisions, LinkError(d) PROVE Counted'
  <2>1. /\ Goes(d, "link", "idle") /\ refs' = refs
        /\ (stat' = "none" => stat = "none") /\ (stat' = "gone" => stat = "gone" \/ refs = 0)
    BY <1>18 DEF LinkError, objclos
  <2> QED
    BY <2>1, Stays DEF IInv, Threads, Inside
<1>19. ASSUME NEW d \in Divisions, LinkInput(d) PROVE Counted'
  <2>1. CASE /\ Goes(d, "link", IF reader THEN "rx" ELSE "defr")
             /\ refs' = refs + 1 /\ stat' = "open"
    BY <2>1, Enters DEF IInv, Threads, Inside
  <2>2. CASE Goes(d, "link", "idle") /\ UNCHANGED life
    BY <2>2, Stays DEF IInv, Threads, Inside, life
  <2> QED
    BY <1>19, <2>1, <2>2 DEF LinkInput, objrefr
<1>20. ASSUME NEW d \in Divisions, RxData(d) PROVE Counted'
  <2>1. /\ pc' = pc \/ Goes(d, "rx", "data") \/ Goes(d, "rx", "zero")
        /\ refs' = refs /\ stat' = stat
    BY <1>20, RxDataFacts DEF IInv, life
  <2>2. CASE pc' = pc
    BY <2>1, <2>2 DEF IInv, Counted, Holding
  <2>3. CASE Goes(d, "rx", "data") \/ Goes(d, "rx", "zero")
    BY <2>1, <2>3, Stays DEF IInv, Threads, Inside
  <2> QED
    BY <2>1, <2>2, <2>3
<1>21. ASSUME NEW d \in Divisions, RxAgain(d) PROVE Counted'
  <2>1. /\ Goes(d, "data", "rx") /\ refs' = refs
        /\ (stat' = "none" => stat = "none") /\ (stat' = "gone" => stat = "gone" \/ refs = 0)
    BY <1>21 DEF RxAgain, life
  <2> QED
    BY <2>1, Stays DEF IInv, Threads, Inside
<1>22. ASSUME NEW d \in Divisions, RxEmpty(d) PROVE Counted'
  <2>1. /\ Goes(d, "rx", "defr") /\ refs' = refs
        /\ (stat' = "none" => stat = "none") /\ (stat' = "gone" => stat = "gone" \/ refs = 0)
    BY <1>22 DEF RxEmpty, life
  <2> QED
    BY <2>1, Stays DEF IInv, Threads, Inside
<1>23. ASSUME NEW d \in Divisions, RxFails(d) PROVE Counted'
  <2>1. /\ Goes(d, "zero", "defr") \/ Goes(d, "rx", "defr")
        /\ refs' = refs
        /\ (stat' = "none" => stat = "none") /\ (stat' = "gone" => stat = "gone" \/ refs = 0)
    BY <1>23 DEF RxFails, objclos
  <2> QED
    BY <2>1, Stays DEF IInv, Threads, Inside
<1>24. ASSUME NEW d \in Divisions, RxDefr(d) PROVE Counted'
  <2>1. Goes(d, "defr", "idle") /\ objdefr
    BY <1>24 DEF RxDefr
  <2> QED
    BY <2>1, Leaves DEF IInv, Threads, Inside
<1>25. ASSUME NEW d \in Divisions, PipeRead(d) PROVE Counted'
  <2>1. CASE Goes(d, "read", "post") /\ refs' = refs + 1 /\ stat' = "open"
    BY <2>1, Enters DEF IInv, Threads, Inside
  <2>2. CASE pc' = pc /\ UNCHANGED life
    BY <2>2 DEF IInv, Counted, Holding, life
  <2> QED
    BY <1>25, <2>1, <2>2 DEF PipeRead, objrefr, Takes
<1>26. ASSUME NEW d \in Divisions, PipePost(d) PROVE Counted'
  <2>1. Goes(d, "post", "read") /\ objdefr
    BY <1>26 DEF PipePost
  <2> QED
    BY <2>1, Leaves DEF IInv, Threads, Inside
<1>27. ASSUME NEW d \in Divisions, PipeEmpty(d) PROVE Counted'
  <2>1. /\ Goes(d, "read", "idle") /\ refs' = refs
        /\ (stat' = "none" => stat = "none") /\ (stat' = "gone" => stat = "gone" \/ refs = 0)
    BY <1>27 DEF PipeEmpty, life
  <2> QED
    BY <2>1, Stays DEF IInv, Threads, Inside
<1> QED
  BY <1>1, <1>2, <1>3, <1>4, <1>5, <1>6, <1>7, <1>8, <1>9, <1>10, <1>11, <1>12, <1>13, <1>14, <1>15, <1>16, <1>17, <1>18, <1>19, <1>20, <1>21, <1>22, <1>23, <1>24, <1>25, <1>26, <1>27
  DEF Next, CreateStep, WriterStep, EpollStep

(* The types, but for the number of references.                            *)
LEMMA TypesKept == IInv /\ Next => TypeOK'
<1> SUFFICES ASSUME IInv, Next PROVE TypeOK'
  OBVIOUS
<1>r. refs' \in Nat
  BY DgramAssumption, CountedKept, HoldingFinite, FS_CardinalityType DEF Counted
<1> USE DgramAssumption, <1>r
<1>1. ASSUME Arrive PROVE TypeOK'
  <2>1. PICK x \in Dgrams(kind) : sock' = Append(sock, x) /\ causes' = causes \cup ({x} \cap {"empty"})
    BY <1>1 DEF Arrive
  <2>2. x \in {"data", "empty", "other"} /\ sock \in Seq({"data", "empty", "other"})
    BY DEF Dgrams, IInv, TypeOK
  <2>3. sock' \in Seq({"data", "empty", "other"})
    BY <2>1, <2>2, AppendProperties
  <2>4. causes' \subseteq {"create", "destroy", "error", "empty"}
    BY <2>1 DEF IInv, TypeOK
  <2>5. /\ arrived' \in 0 .. MaxDgrams
        /\ edge' \subseteq {"in", "err"}
        /\ UNCHANGED <<kind, pipeat, stat, pc, reader, fd, pipe, pedge, sent, heard>>
    BY <1>1 DEF Arrive, Event, life, pipes, IInv, TypeOK, DgramAssumption
  <2> QED
    BY <2>3, <2>4, <2>5 DEF IInv, TypeOK
<1>2. ASSUME NEW w \in Writers, Write(w) PROVE TypeOK'
  <2>1. Hands'
    BY <1>2, WriteHands
  <2>2. \A d \in Divisions : Len(pipe'[d]) <= PipeCap
    <3>1. CASE UNCHANGED pipes
      BY <3>1 DEF IInv, TypeOK, pipes
    <3>2. CASE /\ Len(pipe[LinkDiv]) < PipeCap
               /\ \E m : pipe' = [pipe EXCEPT ![LinkDiv] = Append(pipe[LinkDiv], m)]
      <4>1. PICK m : pipe' = [pipe EXCEPT ![LinkDiv] = Append(pipe[LinkDiv], m)]
        BY <3>2
      <4>2. pipe \in [Divisions -> Seq(Msg)]
        BY DEF IInv, Hands
      <4>3. Len(Append(pipe[LinkDiv], m)) = Len(pipe[LinkDiv]) + 1 /\ Len(pipe[LinkDiv]) \in Nat
        BY <4>2 DEF DgramAssumption
      <4> QED
        BY <3>2, <4>1, <4>2, <4>3 DEF IInv, TypeOK, DgramAssumption
    <3> QED
      BY <1>2, <3>1, <3>2 DEF Write, io_pipefd
  <2>3. /\ pedge' \subseteq Divisions
        /\ pc' = [pc EXCEPT ![w] = "defr"]
        /\ UNCHANGED <<kind, pipeat, stat, reader, sock, arrived, fd, edge, heard, causes>>
    BY <1>2 DEF Write, io_pipefd, Goes, life, net, pipes, IInv, TypeOK, DgramAssumption
  <2> QED
    BY <2>1, <2>2, <2>3 DEF IInv, TypeOK, Hands
<1>3. ASSUME NEW d \in Divisions, RxData(d) PROVE TypeOK'
  <2>1. pc' \in [Threads -> {"idle", "handlers", "attach", "return", "fail", "fail2", "done",
                         "write", "defr", "link", "read", "rx", "data", "zero", "post"}]
    BY <1>3, RxDataFacts DEF IInv, TypeOK, Goes, Threads
  <2>2. /\ sock' \in Seq({"data", "empty", "other"})
        /\ UNCHANGED <<kind, pipeat, stat, reader, arrived, fd, edge, pipe, pedge, sent, heard, causes>>
    BY <1>3, RxDataFacts DEF IInv, life, pipes
  <2> QED
    BY <2>1, <2>2 DEF IInv, TypeOK
<1>4. ASSUME NEW d \in Divisions, PipeRead(d) PROVE TypeOK'
  <2>1. Hands'
    BY <1>4, PipeReadHands
  <2>2. \A e \in Divisions : Len(pipe'[e]) <= PipeCap
    <3> DEFINE p == hand[d].pipe
    <3>1. p \in Divisions /\ pipe \in [Divisions -> Seq(Msg)] /\ pipe[p] # << >>
          /\ pipe' = [pipe EXCEPT ![p] = Tail(pipe[p])]
      BY <1>4 DEF PipeRead, IInv, Hands
    <3>2. Len(Tail(pipe[p])) = Len(pipe[p]) - 1 /\ Len(pipe[p]) \in Nat
      BY <3>1, HeadTailProperties
    <3> QED
      BY <3>1, <3>2 DEF IInv, TypeOK, DgramAssumption
  <2>3. /\ pc' \in {pc, [pc EXCEPT ![d] = "post"]}
        /\ UNCHANGED <<kind, pipeat, stat, reader, sock, arrived, fd, edge, pedge, sent, heard, causes>>
    BY <1>4 DEF PipeRead, Takes, objrefr, Goes, life, net
  <2> QED
    BY <2>1, <2>2, <2>3 DEF IInv, TypeOK, Hands
<1>5. ASSUME NEW d \in Divisions, PipePost(d) PROVE TypeOK'
  <2>1. heard' \in Seq(Msg)
    <3>1. hand[d].msg \in Seq(Msg) /\ heard \in Seq(Msg) /\ heard' = heard \o hand[d].msg
      BY <1>5 DEF PipePost, IInv, Hands, TypeOK
    <3> QED
      BY <3>1, ConcatProperties
  <2>2. /\ stat' \in {stat, "gone"} /\ fd' \in {fd, "closed"} /\ edge' \in {edge, {}}
        /\ pc' = [pc EXCEPT ![d] = "read"]
        /\ UNCHANGED <<kind, pipeat, reader, sock, arrived, pipe, pedge, sent, causes>>
    BY <1>5 DEF PipePost, objdefr, Goes, pipes
  <2> QED
    BY <2>1, <2>2 DEF IInv, TypeOK
<1> USE DEF TypeOK, Hands, Places, IInv, Threads, life, net, pipes, Goes
<1>6. ASSUME Create PROVE TypeOK'
  BY <1>6 DEF Create
<1>7. ASSUME Handlers PROVE TypeOK'
  BY <1>7 DEF Handlers
<1>8. ASSUME Attach PROVE TypeOK'
  BY <1>8 DEF Attach
<1>9. ASSUME Fails PROVE TypeOK'
  BY <1>9 DEF Fails
<1>10. ASSUME Return PROVE TypeOK'
  BY <1>10 DEF Return, objdefr
<1>11. ASSUME FailDefr PROVE TypeOK'
  BY <1>11 DEF FailDefr, objdefr
<1>12. ASSUME FailClose PROVE TypeOK'
  BY <1>12 DEF FailClose, objclos
<1>13. ASSUME Destroy PROVE TypeOK'
  BY <1>13 DEF Destroy, Known
<1>14. ASSUME DestroyDefr PROVE TypeOK'
  BY <1>14 DEF DestroyDefr, objdefr
<1>15. ASSUME NetError PROVE TypeOK'
  BY <1>15 DEF NetError, Event
<1>16. ASSUME NEW w \in Writers, Awaken(w) PROVE TypeOK'
  BY <1>16 DEF Awaken, objrefr
<1>17. ASSUME NEW w \in Writers, WriteFails(w) PROVE TypeOK'
  BY <1>17 DEF WriteFails
<1>18. ASSUME NEW w \in Writers, AwakenDefr(w) PROVE TypeOK'
  BY <1>18 DEF AwakenDefr, objdefr
<1>19. ASSUME NEW d \in Divisions, FetchLink(d) PROVE TypeOK'
  BY <1>19 DEF FetchLink
<1>20. ASSUME NEW d \in Divisions, FetchPipe(d) PROVE TypeOK'
  BY <1>20 DEF FetchPipe
<1>21. ASSUME NEW d \in Divisions, LinkError(d) PROVE TypeOK'
  BY <1>21 DEF LinkError, objclos, Nothing
<1>22. ASSUME NEW d \in Divisions, LinkInput(d) PROVE TypeOK'
  BY <1>22 DEF LinkInput, objrefr, Nothing
<1>23. ASSUME NEW d \in Divisions, RxAgain(d) PROVE TypeOK'
  BY <1>23 DEF RxAgain
<1>24. ASSUME NEW d \in Divisions, RxEmpty(d) PROVE TypeOK'
  BY <1>24 DEF RxEmpty
<1>25. ASSUME NEW d \in Divisions, RxFails(d) PROVE TypeOK'
  BY <1>25 DEF RxFails, objclos
<1>26. ASSUME NEW d \in Divisions, RxDefr(d) PROVE TypeOK'
  BY <1>26 DEF RxDefr, objdefr
<1>27. ASSUME NEW d \in Divisions, PipeEmpty(d) PROVE TypeOK'
  BY <1>27 DEF PipeEmpty, Nothing
<1> QED
  BY <1>1, <1>2, <1>3, <1>4, <1>5, <1>6, <1>7, <1>8, <1>9, <1>10, <1>11, <1>12, <1>13, <1>14, <1>15, <1>16, <1>17, <1>18, <1>19, <1>20, <1>21, <1>22, <1>23, <1>24, <1>25, <1>26, <1>27
  DEF Next, CreateStep, WriterStep, EpollStep

(* Nothing is there, everyone is idle.                                     *)
LEMMA InitIInv == Init => IInv
<1> SUFFICES ASSUME Init PROVE IInv
  OBVIOUS
<1> USE DgramAssumption DEF Init
<1>1. pc = [t \in Threads |-> "idle"] /\ \A t \in Threads : pc[t] = "idle"
  OBVIOUS
<1>2. Divisions \cup Writers \cup {"creator", "destroyer"} = Threads
  BY DEF Threads
<1>3. Holding = {}
  BY <1>1 DEF Holding, Inside
<1>4. Counted
  BY <1>3, FS_EmptySet DEF Counted
<1>5. hand \in [Divisions -> [ev : SUBSET {"in", "err"}, pipe : Divisions, msg : Seq(Msg)]]
  <2>1. << >> \in Seq(Msg)
    BY EmptySeq
  <2> QED
    BY <2>1 DEF Nothing
<1>6. /\ pipe \in [Divisions -> Seq(Msg)] /\ sent \in [Writers -> Seq(Msg)]
      /\ heard \in Seq(Msg) /\ sock \in Seq({"data", "empty", "other"})
  BY EmptySeq
<1>7. \A d \in Divisions : Len(pipe[d]) <= PipeCap
  BY EmptySeq
<1>8. Hands
  BY <1>1, <1>2, <1>5, <1>6 DEF Hands
<1>9. TypeOK
  <2>1. pipeat \in [Divisions -> Divisions]
    OBVIOUS
  <2>2. /\ pc \in [Threads -> {"idle", "handlers", "attach", "return", "fail", "fail2", "done",
                            "write", "defr", "link", "read", "rx", "data", "zero", "post"}]
        /\ kind \in {"udp", "arp"} /\ stat \in {"none", "open", "closing", "gone"}
        /\ refs \in Nat /\ arrived \in 0 .. MaxDgrams
        /\ fd \in {"none", "bound", "attached", "closed"}
    BY <1>1
  <2>3. /\ edge \subseteq {"in", "err"} /\ pedge \subseteq Divisions
        /\ causes \subseteq {"create", "destroy", "error", "empty"}
    OBVIOUS
  <2>4. reader \in BOOLEAN
    BY Zenon
  <2> QED
    BY <1>6, <1>7, <2>1, <2>2, <2>3, <2>4 DEF TypeOK
<1>10. Places /\ HandlerFirst /\ NoUnheardDatagram
  BY <1>1, <1>2 DEF Places, HandlerFirst, NoUnheardDatagram
<1>11. Caused
  <2>1. \A d \in Divisions : hand[d].ev = {}
    BY DEF Nothing
  <2>2. Len(sock) = 0
    BY EmptySeq
  <2> QED
    BY <1>1, <1>2, <2>1, <2>2 DEF Caused, ClosedForCause
<1> QED
  BY <1>4, <1>8, <1>9, <1>10, <1>11 DEF IInv

(* Every step, and a stutter, keeps the inductive invariant.               *)
LEMMA NextIInv == IInv /\ [Next]_vars => IInv'
<1>1. ASSUME IInv, Next PROVE IInv'
  BY <1>1, TypesKept, CountedKept, HandsKept, PlacesKept, CausedKept, HandlerKept,
     UnheardKept DEF IInv
<1>2. ASSUME IInv, UNCHANGED vars PROVE IInv'
  BY <1>2 DEF vars, IInv, TypeOK, Counted, Holding, Hands, Places, Caused, ClosedForCause,
              HandlerFirst, NoUnheardDatagram
<1> QED
  BY <1>1, <1>2

(* An epoll thread at a pipe is at the link's, and holds a message only    *)
(* between reading it and posting it.                                      *)
InHand ==
  \A d \in Divisions :
    /\ pc[d] \in {"read", "post"} => hand[d].pipe = LinkDiv
    /\ pc[d] # "post" => hand[d].msg = << >>

(* The threads that are at a pipe, and what they hold, after every step.   *)
LEMMA InHandKept == IInv /\ InHand /\ Next => InHand'
<1> SUFFICES ASSUME IInv, InHand, Next PROVE InHand'
  OBVIOUS
<1> USE DgramAssumption DEF InHand, IInv, TypeOK, Hands, Places, Threads, life, net, pipes, Goes
<1>1. ASSUME Create PROVE InHand'
  BY <1>1 DEF Create
<1>2. ASSUME Handlers PROVE InHand'
  BY <1>2 DEF Handlers
<1>3. ASSUME Attach PROVE InHand'
  BY <1>3 DEF Attach
<1>4. ASSUME Fails PROVE InHand'
  BY <1>4 DEF Fails
<1>5. ASSUME Return PROVE InHand'
  BY <1>5 DEF Return, objdefr
<1>6. ASSUME FailDefr PROVE InHand'
  BY <1>6 DEF FailDefr, objdefr
<1>7. ASSUME FailClose PROVE InHand'
  BY <1>7 DEF FailClose, objclos
<1>8. ASSUME Destroy PROVE InHand'
  BY <1>8 DEF Destroy, Known
<1>9. ASSUME DestroyDefr PROVE InHand'
  BY <1>9 DEF DestroyDefr, objdefr
<1>10. ASSUME Arrive PROVE InHand'
  BY <1>10 DEF Arrive
<1>11. ASSUME NetError PROVE InHand'
  BY <1>11 DEF NetError
<1>12. ASSUME NEW w \in Writers, Awaken(w) PROVE InHand'
  BY <1>12 DEF Awaken, objrefr
<1>13. ASSUME NEW w \in Writers, Write(w) PROVE InHand'
  BY <1>13 DEF Write
<1>14. ASSUME NEW w \in Writers, WriteFails(w) PROVE InHand'
  BY <1>14 DEF WriteFails
<1>15. ASSUME NEW w \in Writers, AwakenDefr(w) PROVE InHand'
  BY <1>15 DEF AwakenDefr, objdefr
<1>16. ASSUME NEW d \in Divisions, FetchLink(d) PROVE InHand'
  BY <1>16 DEF FetchLink
<1>17. ASSUME NEW d \in Divisions, FetchPipe(d) PROVE InHand'
  BY <1>17 DEF FetchPipe
<1>18. ASSUME NEW d \in Divisions, LinkError(d) PROVE InHand'
  BY <1>18 DEF LinkError, objclos, Nothing
<1>19. ASSUME NEW d \in Divisions, LinkInput(d) PROVE InHand'
  BY <1>19 DEF LinkInput, objrefr, Nothing
<1>20. ASSUME NEW d \in Divisions, RxData(d) PROVE InHand'
  <2>1. /\ pc' = pc \/ pc' = [pc EXCEPT ![d] = "data"] \/ pc' = [pc EXCEPT ![d] = "zero"]
        /\ hand' = hand /\ pc[d] = "rx"
    BY <1>20, RxDataFacts
  <2> QED
    BY <2>1
<1>21. ASSUME NEW d \in Divisions, RxAgain(d) PROVE InHand'
  BY <1>21 DEF RxAgain
<1>22. ASSUME NEW d \in Divisions, RxEmpty(d) PROVE InHand'
  BY <1>22 DEF RxEmpty
<1>23. ASSUME NEW d \in Divisions, RxFails(d) PROVE InHand'
  BY <1>23 DEF RxFails, objclos
<1>24. ASSUME NEW d \in Divisions, RxDefr(d) PROVE InHand'
  BY <1>24 DEF RxDefr, objdefr
<1>25. ASSUME NEW d \in Divisions, PipeRead(d) PROVE InHand'
  <2>1. CASE pc' = pc /\ hand' = hand
    BY <2>1
  <2>2. CASE /\ pc[d] = "read" /\ pc' = [pc EXCEPT ![d] = "post"]
             /\ \E m : hand' = [hand EXCEPT ![d].msg = m]
    BY <2>2
  <2> QED
    BY <1>25, <2>1, <2>2 DEF PipeRead, Takes
<1>26. ASSUME NEW d \in Divisions, PipePost(d) PROVE InHand'
  BY <1>26 DEF PipePost, objdefr
<1>27. ASSUME NEW d \in Divisions, PipeEmpty(d) PROVE InHand'
  BY <1>27 DEF PipeEmpty, Nothing
<1> QED
  BY <1>1, <1>2, <1>3, <1>4, <1>5, <1>6, <1>7, <1>8, <1>9, <1>10, <1>11, <1>12, <1>13, <1>14, <1>15, <1>16, <1>17, <1>18, <1>19, <1>20, <1>21, <1>22, <1>23, <1>24, <1>25, <1>26, <1>27
  DEF Next, CreateStep, WriterStep, EpollStep

(* What a writer has sent is what its link's user has heard of it, what the*)
(* thread at the pipe holds and what is in the pipe: from before the link  *)
(* is made, when nothing is in the pipe, until it begins to close.         *)
Carried(w) == By(w, heard) \o By(w, hand[pipeat[LinkDiv]].msg) \o By(w, pipe[LinkDiv])

InOrder ==
  /\ stat \in {"none", "open"} => \A w \in Writers : sent[w] = Carried(w)
  /\ stat = "none" => pipe[LinkDiv] = << >>

(* A step that moves no message.                                           *)
LEMMA QuietStep ==
  ASSUME InOrder, UNCHANGED <<heard, pipe, sent, pipeat>>,
         hand'[pipeat[LinkDiv]].msg = hand[pipeat[LinkDiv]].msg,
         stat' \in {"none", "open"} => stat \in {"none", "open"},
         stat' = "none" => stat = "none"
  PROVE  InOrder'
BY DEF InOrder, Carried

(* The messages of one writer in one list after another, and in one alone. *)
LEMMA ByParts ==
  ASSUME NEW w, NEW a \in Seq(Msg), NEW b \in Seq(Msg)
  PROVE  /\ By(w, a) \in Seq(Msg) /\ By(w, a \o b) = By(w, a) \o By(w, b)
         /\ By(w, << >>) = << >>
         /\ \A m \in Msg : By(w, <<m>>) = IF m.by = w THEN <<m>> ELSE << >>
<1> DEFINE T == {m \in Msg : m.by = w}
<1>1. Only(a, T) \in Seq(Msg)
  BY OnlyFrom
<1>2. Only(a \o b, T) = Only(a, T) \o Only(b, T)
  BY OnlyConcat
<1>3. Only(<< >>, T) = << >>
  BY OnlyEmpty
<1>4. ASSUME NEW m \in Msg
      PROVE  By(w, <<m>>) = IF m.by = w THEN <<m>> ELSE << >>
  <2>1. Only(<<m>>, T) = IF m \in T THEN <<m>> ELSE << >>
    BY OnlyOne
  <2> QED
    BY <2>1 DEF By
<1> QED
  BY <1>1, <1>2, <1>3, <1>4 DEF By

(* udp_awaken has written a message, or found the pipe full.               *)
LEMMA WriteOrder ==
  ASSUME DgramAssumption, IInv, InOrder, NEW w \in Writers, Write(w)
  PROVE  InOrder'
<1> DEFINE m == [by |-> w, n |-> Len(sent[w]) + 1]
           h == hand[pipeat[LinkDiv]].msg
           p == pipe[LinkDiv]
<1>1. UNCHANGED <<heard, pipeat, hand, stat>> /\ stat # "none"
  <2>1. w \in Holding
    BY DEF Write, Goes, Holding, Inside, Threads
  <2> QED
    BY <2>1 DEF Write, life, IInv, Counted
<1>2. CASE UNCHANGED pipes
  BY <1>1, <1>2, QuietStep DEF pipes
<1>3. CASE /\ pipe' = [pipe EXCEPT ![LinkDiv] = Append(@, m)]
           /\ sent' = [sent EXCEPT ![w] = Append(@, m)]
  <2>1. /\ p \in Seq(Msg) /\ h \in Seq(Msg) /\ heard \in Seq(Msg)
        /\ m \in Msg /\ m.by = w
        /\ \A v \in Writers : sent[v] \in Seq(Msg)
    <3>1. /\ pipe \in [Divisions -> Seq(Msg)] /\ sent \in [Writers -> Seq(Msg)]
          /\ LinkDiv \in Divisions /\ pipeat[LinkDiv] \in Divisions /\ heard \in Seq(Msg)
          /\ h \in Seq(Msg)
      BY DEF IInv, TypeOK, Hands, DgramAssumption
    <3>2. Len(sent[w]) \in Nat /\ Len(sent[w]) < MaxMsgs /\ MaxMsgs \in Nat
      BY <3>1 DEF IInv, Hands, DgramAssumption, Write, Goes
    <3>3. m \in Msg /\ m.by = w
      BY <3>2 DEF Msg
    <3> QED
      BY <3>1, <3>3
  <2> HIDE DEF m
  <2>2. /\ pipe'[LinkDiv] = p \o <<m>>
        /\ \A v \in Writers : sent'[v] = IF v = w THEN sent[v] \o <<m>> ELSE sent[v]
    <3>1. /\ Append(p, m) = p \o <<m>>
          /\ \A v \in Writers : Append(sent[v], m) = sent[v] \o <<m>>
      BY <2>1, AppendIsConcat
    <3> QED
      BY <1>3, <3>1 DEF IInv, Hands, DgramAssumption
  <2>3. ASSUME NEW v \in Writers, stat = "open"
        PROVE  sent'[v] = By(v, heard) \o By(v, h) \o By(v, p \o <<m>>)
    <3>1. By(v, p \o <<m>>) = By(v, p) \o By(v, <<m>>)
      <4>1. <<m>> \in Seq(Msg)
        BY <2>1
      <4> QED
        BY <2>1, <4>1, ByParts
    <3>2. By(v, <<m>>) = IF v = w THEN <<m>> ELSE << >>
      BY <2>1, ByParts
    <3>3. By(v, p) \in Seq(Msg) /\ By(v, h) \in Seq(Msg) /\ By(v, heard) \in Seq(Msg)
      BY <2>1, ByParts
    <3>4. sent[v] = By(v, heard) \o By(v, h) \o By(v, p)
      BY <2>3 DEF InOrder, Carried
    <3>5. CASE v = w
      <4>1. sent'[v] = (By(v, heard) \o By(v, h) \o By(v, p)) \o <<m>>
        BY <2>2, <3>4, <3>5
      <4>2. By(v, heard) \o By(v, h) \in Seq(Msg) /\ <<m>> \in Seq(Msg)
        BY <2>1, <3>3, ConcatProperties
      <4>3. \A x, y, z \in Seq(Msg) : (x \o y) \o z = x \o (y \o z)
        BY ConcatAssociative
      <4>4. ((By(v, heard) \o By(v, h)) \o By(v, p)) \o <<m>>
              = (By(v, heard) \o By(v, h)) \o (By(v, p) \o <<m>>)
        BY <3>3, <4>2, <4>3
      <4>5. By(v, p \o <<m>>) = By(v, p) \o <<m>>
        BY <3>1, <3>2, <3>5
      <4> QED
        BY <4>1, <4>4, <4>5
    <3>6. CASE v # w
      BY <2>2, <3>1, <3>2, <3>3, <3>4, <3>6, ConcatEmptySeq
    <3> QED
      BY <3>5, <3>6
  <2> QED
    BY <1>1, <2>2, <2>3 DEF InOrder, Carried
<1> QED
  BY <1>2, <1>3 DEF Write, io_pipefd

(* pipe_rx has taken the head of the pipe, for its user or to drop it.     *)
LEMMA PipeReadOrder ==
  ASSUME DgramAssumption, IInv, InHand, InOrder, NEW d \in Divisions, PipeRead(d)
  PROVE  InOrder'
<1> DEFINE p == pipe[LinkDiv]
           x == Head(p)
<1>1. /\ pc[d] = "read" /\ d = pipeat[LinkDiv] /\ hand[d].pipe = LinkDiv
      /\ hand[d].msg = << >>
  BY DEF PipeRead, IInv, Places, InHand, DgramAssumption
<1>2. /\ p # << >> /\ pipe' = [pipe EXCEPT ![LinkDiv] = Tail(p)]
      /\ UNCHANGED <<sent, heard, pipeat>>
  BY <1>1 DEF PipeRead
<1>3. stat # "none"
  BY <1>2 DEF InOrder
<1>4. CASE stat # "open"
  <2>1. stat' = stat
    BY <1>4 DEF PipeRead, life
  <2> QED
    BY <1>3, <1>4, <2>1 DEF InOrder
<1>5. CASE stat = "open"
  <2>1. stat' = "open" /\ hand' = [hand EXCEPT ![d].msg = <<x>>]
    BY <1>1, <1>5 DEF PipeRead, objrefr, Takes
  <2>2. /\ p \in Seq(Msg) /\ heard \in Seq(Msg) /\ pipe \in [Divisions -> Seq(Msg)]
        /\ LinkDiv \in Divisions
        /\ hand \in [Divisions -> [ev : SUBSET {"in", "err"}, pipe : Divisions, msg : Seq(Msg)]]
    BY DEF IInv, TypeOK, Hands, DgramAssumption
  <2>3. /\ pipe'[LinkDiv] = Tail(p) /\ hand'[pipeat[LinkDiv]].msg = <<x>>
    BY <1>1, <1>2, <2>1, <2>2
  <2>4. x \in Msg /\ Tail(p) \in Seq(Msg) /\ p = <<x>> \o Tail(p) /\ <<x>> \in Seq(Msg)
    BY <1>2, <2>2, HeadTailProperties
  <2> HIDE DEF x
  <2>5. ASSUME NEW w \in Writers
        PROVE  sent[w] = By(w, heard) \o By(w, <<x>>) \o By(w, Tail(p))
    <3>1. sent[w] = By(w, heard) \o By(w, << >>) \o By(w, p)
      BY <1>1, <1>5 DEF InOrder, Carried
    <3>2. By(w, p) = By(w, <<x>>) \o By(w, Tail(p)) /\ By(w, << >>) = << >>
      <4>1. By(w, <<x>> \o Tail(p)) = By(w, <<x>>) \o By(w, Tail(p))
        BY <2>4, ByParts
      <4>2. By(w, << >>) = << >>
        BY <2>4, ByParts
      <4> QED
        BY <2>4, <4>1, <4>2
    <3>3. /\ By(w, heard) \in Seq(Msg) /\ By(w, <<x>>) \in Seq(Msg)
          /\ By(w, Tail(p)) \in Seq(Msg)
      BY <2>2, <2>4, ByParts
    <3>4. By(w, heard) \o << >> = By(w, heard)
      BY <3>3, ConcatEmptySeq
    <3>5. (By(w, heard) \o By(w, <<x>>)) \o By(w, Tail(p))
            = By(w, heard) \o (By(w, <<x>>) \o By(w, Tail(p)))
      <4>1. \A a, b, c \in Seq(Msg) : (a \o b) \o c = a \o (b \o c)
        BY ConcatAssociative
      <4> QED
        BY <3>3, <4>1, Zenon
    <3> QED
      BY <3>1, <3>2, <3>4, <3>5
  <2> QED
    BY <1>2, <2>1, <2>3, <2>5 DEF InOrder, Carried
<1> QED
  BY <1>4, <1>5

(* ncb_post_pipedata has handed the message to the user.                   *)
LEMMA PipePostOrder ==
  ASSUME DgramAssumption, IInv, InHand, InOrder, NEW d \in Divisions, PipePost(d)
  PROVE  InOrder'
<1> DEFINE h == hand[d].msg
           p == pipe[LinkDiv]
<1>1. d = pipeat[LinkDiv] /\ d \in Holding
  BY DEF PipePost, Goes, IInv, Places, Holding, Inside, Threads
<1>2. /\ heard' = heard \o h /\ hand' = [hand EXCEPT ![d].msg = << >>]
      /\ UNCHANGED <<pipe, sent, pipeat>>
  BY DEF PipePost, pipes
<1>3. stat # "none" /\ (stat' = "open" => stat = "open") /\ stat' # "none"
  BY <1>1 DEF IInv, Counted, PipePost, objdefr
<1>4. /\ h \in Seq(Msg) /\ heard \in Seq(Msg) /\ p \in Seq(Msg)
      /\ hand'[pipeat[LinkDiv]].msg = << >>
  BY <1>1, <1>2 DEF IInv, TypeOK, Hands, DgramAssumption
<1>5. ASSUME NEW w \in Writers, stat = "open"
      PROVE  sent[w] = By(w, heard \o h) \o By(w, << >>) \o By(w, p)
  <2>1. sent[w] = By(w, heard) \o By(w, h) \o By(w, p)
    BY <1>1, <1>5 DEF InOrder, Carried
  <2>2. By(w, heard \o h) = By(w, heard) \o By(w, h) /\ By(w, << >>) = << >>
    <3>1. By(w, heard \o h) = By(w, heard) \o By(w, h)
      <4>1. \A a, b \in Seq(Msg) : By(w, a \o b) = By(w, a) \o By(w, b)
        BY ByParts
      <4> QED
        BY <1>4, <4>1
    <3>2. By(w, << >>) = << >>
      BY <1>4, ByParts
    <3> QED
      BY <3>1, <3>2
  <2>3. By(w, heard \o h) \in Seq(Msg)
    <3>1. heard \o h \in Seq(Msg)
      BY <1>4, ConcatProperties
    <3> QED
      BY <3>1, ByParts
  <2>4. By(w, heard \o h) \o << >> = By(w, heard \o h)
    BY <2>3, ConcatEmptySeq
  <2> QED
    BY <2>1, <2>2, <2>4
<1> QED
  BY <1>2, <1>3, <1>4, <1>5 DEF InOrder, Carried

(* Every step keeps the messages in order.                                 *)
LEMMA InOrderKept == IInv /\ InHand /\ InOrder /\ Next => InOrder'
<1> SUFFICES ASSUME IInv, InHand, InOrder, Next PROVE InOrder'
  OBVIOUS
<1> DEFINE Quiet ==
      /\ UNCHANGED <<heard, pipe, sent, pipeat>>
      /\ hand'[pipeat[LinkDiv]].msg = hand[pipeat[LinkDiv]].msg
      /\ stat' \in {"none", "open"} => stat \in {"none", "open"}
      /\ stat' = "none" => stat = "none"
<1>q. Quiet => InOrder'
  BY QuietStep
<1>h. /\ pipeat[LinkDiv] \in Divisions
      /\ hand \in [Divisions -> [ev : SUBSET {"in", "err"}, pipe : Divisions, msg : Seq(Msg)]]
      /\ \A d \in Divisions : pc[d] # "post" => hand[d].msg = << >>
  BY DgramAssumption DEF IInv, TypeOK, Hands, InHand
<1> USE DgramAssumption DEF life, net, pipes, Goes
<1>1. ASSUME Create PROVE Quiet
  BY <1>h, <1>1 DEF Create
<1>2. ASSUME Handlers PROVE Quiet
  BY <1>h, <1>2 DEF Handlers
<1>3. ASSUME Attach PROVE Quiet
  BY <1>h, <1>3 DEF Attach
<1>4. ASSUME Fails PROVE Quiet
  BY <1>h, <1>4 DEF Fails
<1>5. ASSUME Return PROVE Quiet
  BY <1>h, <1>5 DEF Return, objdefr
<1>6. ASSUME FailDefr PROVE Quiet
  BY <1>h, <1>6 DEF FailDefr, objdefr
<1>7. ASSUME FailClose PROVE Quiet
  BY <1>h, <1>7 DEF FailClose, objclos
<1>8. ASSUME Destroy PROVE Quiet
  BY <1>h, <1>8 DEF Destroy, Known
<1>9. ASSUME DestroyDefr PROVE Quiet
  BY <1>h, <1>9 DEF DestroyDefr, objdefr
<1>10. ASSUME Arrive PROVE Quiet
  BY <1>h, <1>10 DEF Arrive
<1>11. ASSUME NetError PROVE Quiet
  BY <1>h, <1>11 DEF NetError
<1>12. ASSUME NEW w \in Writers, Awaken(w) PROVE Quiet
  BY <1>h, <1>12 DEF Awaken, objrefr
<1>13. ASSUME NEW w \in Writers, Write(w) PROVE InOrder'
  BY <1>13, WriteOrder
<1>14. ASSUME NEW w \in Writers, WriteFails(w) PROVE Quiet
  BY <1>h, <1>14 DEF WriteFails
<1>15. ASSUME NEW w \in Writers, AwakenDefr(w) PROVE Quiet
  BY <1>h, <1>15 DEF AwakenDefr, objdefr
<1>16. ASSUME NEW d \in Divisions, FetchLink(d) PROVE Quiet
  BY <1>h, <1>16 DEF FetchLink
<1>17. ASSUME NEW d \in Divisions, FetchPipe(d) PROVE Quiet
  BY <1>h, <1>17 DEF FetchPipe
<1>18. ASSUME NEW d \in Divisions, LinkError(d) PROVE Quiet
  BY <1>h, <1>18 DEF LinkError, objclos, Nothing
<1>19. ASSUME NEW d \in Divisions, LinkInput(d) PROVE Quiet
  BY <1>h, <1>19 DEF LinkInput, objrefr, Nothing
<1>20. ASSUME NEW d \in Divisions, RxData(d) PROVE Quiet
  BY <1>20, RxDataFacts DEF IInv
<1>21. ASSUME NEW d \in Divisions, RxAgain(d) PROVE Quiet
  BY <1>h, <1>21 DEF RxAgain
<1>22. ASSUME NEW d \in Divisions, RxEmpty(d) PROVE Quiet
  BY <1>h, <1>22 DEF RxEmpty
<1>23. ASSUME NEW d \in Divisions, RxFails(d) PROVE Quiet
  BY <1>h, <1>23 DEF RxFails, objclos
<1>24. ASSUME NEW d \in Divisions, RxDefr(d) PROVE Quiet
  BY <1>h, <1>24 DEF RxDefr, objdefr
<1>25. ASSUME NEW d \in Divisions, PipeRead(d) PROVE InOrder'
  BY <1>25, PipeReadOrder
<1>26. ASSUME NEW d \in Divisions, PipePost(d) PROVE InOrder'
  BY <1>26, PipePostOrder
<1>27. ASSUME NEW d \in Divisions, PipeEmpty(d) PROVE Quiet
  BY <1>h, <1>27 DEF PipeEmpty, Nothing
<1> QED
  BY <1>q, <1>1, <1>2, <1>3, <1>4, <1>5, <1>6, <1>7, <1>8, <1>9, <1>10, <1>11, <1>12, <1>13, <1>14, <1>15, <1>16, <1>17, <1>18, <1>19, <1>20, <1>21, <1>22, <1>23, <1>24, <1>25, <1>26, <1>27
  DEF Next, CreateStep, WriterStep, EpollStep

-----------------------------------------------------------------------------
(* Creation, input, pipes and destruction of a link keep the inductive     *)
(* invariant.                                                              *)
THEOREM DgramInvariance == Spec => []IInv
BY InitIInv, NextIInv, PTL DEF Spec

(* No datagram of an open, attached link is left in the socket unannounced.*)
THEOREM DatagramsHeard == Spec => []NoUnheardDatagram
<1>1. IInv => NoUnheardDatagram
  BY DEF IInv
<1> QED
  BY <1>1, DgramInvariance, PTL

(* The callbacks of a link: none after the destructor has reported it      *)
(* closed, none beside another unless the pipe was attached elsewhere, and *)
(* closed only for a cause.                                                *)
THEOREM CallbacksOrdered == Spec => []CallbackOrder
<1>1. IInv => ClosedIsLast
  <2> SUFFICES ASSUME IInv, stat = "gone", NEW d \in Divisions
               PROVE  pc[d] \notin {"data", "post"}
    BY DEF ClosedIsLast
  <2>1. Holding = {}
    BY DgramAssumption, HoldingFinite, FS_EmptySet DEF IInv, Counted
  <2> QED
    BY <2>1 DEF Holding, Inside, Threads
<1>2. IInv => CallbacksApart
  BY DEF IInv, Places, CallbacksApart
<1>3. IInv => CallbackOrder
  BY <1>1, <1>2 DEF IInv, Caused, CallbackOrder
<1> QED
  BY <1>3, DgramInvariance, PTL

(* As long as a link is open, what a writer has sent with udp_awaken or    *)
(* tcp_awaken reaches the user whole and in its order.                     *)
THEOREM AwokenOrdered == Spec => []AwokenInOrder
<1> DEFINE I == IInv /\ InHand /\ InOrder
<1>1. Init => I
  <2> SUFFICES ASSUME Init PROVE I
    OBVIOUS
  <2>1. IInv
    BY InitIInv
  <2>2. /\ pipeat[LinkDiv] \in Divisions /\ LinkDiv \in Divisions
        /\ Divisions \subseteq Threads
    BY <2>1, DgramAssumption DEF IInv, TypeOK, Threads
  <2>3. InHand
    BY <2>2 DEF Init, InHand, Nothing
  <2>4. /\ pipe[LinkDiv] = << >> /\ heard = << >> /\ hand[pipeat[LinkDiv]].msg = << >>
        /\ \A w \in Writers : sent[w] = << >>
    BY <2>2 DEF Init, Nothing
  <2>5. ASSUME NEW w PROVE By(w, << >>) \o By(w, << >>) \o By(w, << >>) = << >>
    <3>1. << >> \in Seq(Msg)
      BY EmptySeq
    <3>2. By(w, << >>) = << >>
      BY <3>1, ByParts
    <3>3. << >> \o << >> = << >>
      BY <3>1, ConcatEmptySeq
    <3> QED
      BY <3>2, <3>3
  <2>6. InOrder
    BY <2>4, <2>5 DEF InOrder, Carried
  <2> QED
    BY <2>1, <2>3, <2>6
<1>2. I /\ [Next]_vars => I'
  <2>1. ASSUME I, Next PROVE I'
    <3>1. IInv /\ InHand /\ InOrder /\ Next
      BY <2>1
    <3>2. IInv'
      BY <3>1, NextIInv
    <3> QED
      BY <3>1, <3>2, InHandKept, InOrderKept
  <2>2. ASSUME I, UNCHANGED vars PROVE I'
    <3>1. IInv'
      BY <2>2, NextIInv
    <3> QED
      BY <2>2, <3>1 DEF vars, InHand, InOrder, Carried
  <2> QED
    BY <2>1, <2>2
<1>3. I => AwokenInOrder
  BY DEF InOrder, Carried, AwokenInOrder
<1> QED
  BY <1>1, <1>2, <1>3, PTL DEF Spec
=============================================================================
