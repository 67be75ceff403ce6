----------------------------- MODULE DgramLink -----------------------------
(***************************************************************************)
(* A UDP or ARP link from udp_create / arp_create to its closed callback:  *)
(* the read handlers udp_rx and arp_rx, udp_destroy, and the messages of   *)
(* udp_awaken (tcp_awaken is the same), which go through the pipe of the   *)
(* link's division and reach the user as EVT_PIPEDATA (pipe.c).            *)
(*                                                                         *)
(* A division is one epoll thread.  The read end of the pipe made for      *)
(* division d is attached like every link, to division hld % divisions of  *)
(* the pipe's own handle: pipeat[d].  Only that of the link's pipe varies. *)
(***************************************************************************)
EXTENDS Integers, Sequences, FiniteSets, Sublists

CONSTANTS
  Divisions,  \* the epoll threads
  LinkDiv,    \* ncb->hld % divisions of the link
  Writers,    \* threads that call udp_awaken
  MaxMsgs,    \* bound on the calls of each
  PipeCap,    \* messages a pipe holds
  MaxDgrams   \* bound on the datagrams that arrive

ASSUME DgramAssumption ==
  /\ LinkDiv \in Divisions
  /\ IsFiniteSet(Divisions) /\ IsFiniteSet(Writers) /\ Divisions \cap Writers = {}
  /\ {"creator", "destroyer"} \cap (Divisions \cup Writers) = {}
  /\ MaxMsgs \in Nat /\ MaxDgrams \in Nat /\ PipeCap \in Nat \ {0}

VARIABLES
  kind,    \* "udp" or "arp"
  pipeat,
  stat,    \* "none", "open", "closing", "gone"
  refs,
  pc,      \* where each thread is
  reader,  \* ncb_read is set
  sock,    \* datagrams in the socket
  arrived, \* how many have come
  fd,      \* the socket: "none", "bound", "attached", "closed"
  edge,    \* events of the link not yet fetched: "in", "err"
  pipe,    \* messages in each pipe
  pedge,   \* pipes with an event not yet fetched
  hand,    \* what an epoll thread works on: events of the link, or a pipe and a message
  sent,    \* messages each writer's write(2) has put into a pipe
  heard,   \* messages the user has got
  causes   \* what has happened that may close the link

life == <<stat, refs>>
net == <<sock, arrived, edge>>
pipes == <<pipe, pedge, sent>>
vars == <<kind, pipeat, stat, refs, pc, reader, sock, arrived, fd, edge, pipe,
          pedge, hand, sent, heard, causes>>

Threads == Divisions \cup Writers \cup {"creator", "destroyer"}
Msg == [by : Writers, n : 1 .. MaxMsgs]
Nothing(d) == [ev |-> {}, pipe |-> d, msg |-> << >>]

(* An "other" datagram is one arp_rx skips: short, or not a reply.         *)
Dgrams(k) == IF k = "arp" THEN {"data", "other"} ELSE {"data", "empty"}

Init ==
  /\ kind \in {"udp", "arp"}
  /\ \E e \in Divisions : pipeat = [d \in Divisions |-> IF d = LinkDiv THEN e ELSE d]
  /\ stat = "none" /\ refs = 0
  /\ pc = [t \in Threads |-> "idle"]
  /\ reader = FALSE /\ sock = << >> /\ arrived = 0 /\ fd = "none" /\ edge = {}
  /\ pipe = [d \in Divisions |-> << >>] /\ pedge = {}
  /\ hand = [d \in Divisions |-> Nothing(d)]
  /\ sent = [w \in Writers |-> << >>] /\ heard = << >> /\ causes = {}

-----------------------------------------------------------------------------
Goes(t, from, to) == pc[t] = from /\ pc' = [pc EXCEPT ![t] = to]

objrefr == stat = "open" /\ refs' = refs + 1 /\ UNCHANGED stat

(* objdefr; the last one of a closing link runs ncb_deconstruct.           *)
objdefr ==
  /\ refs' = refs - 1
  /\ IF stat = "closing" /\ refs = 1
     THEN stat' = "gone" /\ fd' = "closed" /\ edge' = {}
     ELSE UNCHANGED <<stat, fd, edge>>

objclos ==
  /\ UNCHANGED refs
  /\ CASE stat = "open" /\ refs = 0 -> stat' = "gone" /\ fd' = "closed" /\ edge' = {}
       [] stat = "open" /\ refs > 0 -> stat' = "closing" /\ UNCHANGED <<fd, edge>>
       [] OTHER -> UNCHANGED <<stat, fd, edge>>

-----------------------------------------------------------------------------
(***************************************************************************)
(* udp_create, arp_create, udp_destroy, arp_destroy.                       *)
(***************************************************************************)

(* socket, bind (from now on datagrams come in), objallo, objrefr.         *)
Create ==
  /\ stat = "none" /\ Goes("creator", "idle", "handlers")
  /\ stat' = "open" /\ refs' = 1 /\ fd' = "bound"
  /\ UNCHANGED <<kind, pipeat, reader, net, pipes, hand, heard, causes>>

Handlers ==
  /\ Goes("creator", "handlers", "attach") /\ reader' = TRUE
  /\ UNCHANGED <<kind, pipeat, life, net, fd, pipes, hand, heard, causes>>

(* io_attach: EPOLL_CTL_ADD reports what is already there.                 *)
Attach ==
  /\ Goes("creator", "attach", "return")
  /\ fd' = "attached"
  /\ edge' = IF sock # << >> THEN edge \cup {"in"} ELSE edge
  /\ UNCHANGED <<kind, pipeat, life, reader, sock, arrived, pipes, hand, heard, causes>>

(* Options, buffer or io_attach fail: objdefr, then objclos.               *)
Fails ==
  /\ Goes("creator", "handlers", "fail") \/ Goes("creator", "attach", "fail")
  /\ causes' = causes \cup {"create"}
  /\ UNCHANGED <<kind, pipeat, life, reader, net, fd, pipes, hand, heard>>

Return ==
  /\ Goes("creator", "return", "done") /\ objdefr
  /\ UNCHANGED <<kind, pipeat, reader, sock, arrived, pipes, hand, heard, causes>>

FailDefr ==
  /\ Goes("creator", "fail", "fail2") /\ objdefr
  /\ UNCHANGED <<kind, pipeat, reader, sock, arrived, pipes, hand, heard, causes>>

FailClose ==
  /\ Goes("creator", "fail2", "done") /\ objclos
  /\ UNCHANGED <<kind, pipeat, reader, sock, arrived, pipes, hand, heard, causes>>

CreateStep ==
  \/ Create \/ Handlers \/ Attach
  \/ Fails \/ Return \/ FailDefr \/ FailClose

(* The handle is known to the user from the attachment on, by callbacks.   *)
Known == pc["creator"] \in {"return", "done"} /\ "create" \notin causes

(* objreff and io_close; then objdefr.                                     *)
Destroy ==
  /\ Known /\ stat = "open" /\ Goes("destroyer", "idle", "defr")
  /\ stat' = "closing" /\ refs' = refs + 1
  /\ fd' = "closed" /\ edge' = {} /\ causes' = causes \cup {"destroy"}
  /\ UNCHANGED <<kind, pipeat, reader, sock, arrived, pipes, hand, heard>>

DestroyDefr ==
  /\ Goes("destroyer", "defr", "idle") /\ objdefr
  /\ UNCHANGED <<kind, pipeat, reader, sock, arrived, pipes, hand, heard, causes>>

-----------------------------------------------------------------------------
(***************************************************************************)
(* udp_awaken.                                                             *)
(***************************************************************************)

Awaken(w) ==
  /\ Known /\ objrefr /\ Len(sent[w]) < MaxMsgs
  /\ Goes(w, "idle", "write")
  /\ UNCHANGED <<kind, pipeat, reader, net, fd, pipes, hand, heard, causes>>

(* A faulty variant: any division's pipe is taken.                         *)
PipefdAny == Divisions

(* io_pipefd: the pipe of division hld % divisions.                        *)
io_pipefd == {LinkDiv}

(* write(2) of a packet: it comes whole, or the pipe is full.              *)
Write(w) ==
  /\ Goes(w, "write", "defr")
  /\ \E d \in io_pipefd :
       IF Len(pipe[d]) < PipeCap
       THEN LET m == [by |-> w, n |-> Len(sent[w]) + 1] IN
            /\ pipe' = [pipe EXCEPT ![d] = Append(@, m)]
            /\ sent' = [sent EXCEPT ![w] = Append(@, m)]
            /\ pedge' = pedge \cup {d}
       ELSE UNCHANGED pipes
  /\ UNCHANGED <<kind, pipeat, life, reader, net, fd, hand, heard, causes>>

(* The size is refused, or there is no memory or no pipe.                  *)
WriteFails(w) ==
  /\ Goes(w, "write", "defr")
  /\ UNCHANGED <<kind, pipeat, life, reader, net, fd, pipes, hand, heard, causes>>

AwakenDefr(w) ==
  /\ Goes(w, "defr", "idle") /\ objdefr
  /\ UNCHANGED <<kind, pipeat, reader, sock, arrived, pipes, hand, heard, causes>>

-----------------------------------------------------------------------------
(***************************************************************************)
(* The network and the epoll threads.                                      *)
(***************************************************************************)

Event(e) == edge' = IF fd = "attached" THEN edge \cup {e} ELSE edge

Arrive ==
  /\ fd \in {"bound", "attached"} /\ arrived < MaxDgrams
  /\ \E k \in Dgrams(kind) :
       sock' = Append(sock, k) /\ causes' = causes \cup ({k} \cap {"empty"})
  /\ arrived' = arrived + 1 /\ Event("in")
  /\ UNCHANGED <<kind, pipeat, life, pc, reader, fd, pipes, hand, heard>>

(* EPOLLERR, for an ICMP error for example; one, to bound the model.       *)
NetError ==
  /\ fd = "attached" /\ "error" \notin causes
  /\ causes' = causes \cup {"error"} /\ Event("err")
  /\ UNCHANGED <<kind, pipeat, life, pc, reader, sock, arrived, fd, pipes, hand, heard>>

(* epoll_wait returns the events of the link, or of a pipe.                *)
FetchLink(d) ==
  /\ d = LinkDiv /\ edge # {}
  /\ Goes(d, "idle", "link")
  /\ hand' = [hand EXCEPT ![d].ev = edge] /\ edge' = {}
  /\ UNCHANGED <<kind, pipeat, life, reader, sock, arrived, fd, pipes, heard, causes>>

FetchPipe(d) ==
  \E p \in pedge :
    /\ pipeat[p] = d /\ Goes(d, "idle", "read")
    /\ hand' = [hand EXCEPT ![d].pipe = p] /\ pedge' = pedge \ {p}
    /\ UNCHANGED <<kind, pipeat, life, reader, net, fd, pipe, sent, heard, causes>>

(* __iorun                                                                 *)
LinkError(d) ==
  /\ pc[d] = "link" /\ "err" \in hand[d].ev
  /\ Goes(d, "link", "idle") /\ objclos
  /\ hand' = [hand EXCEPT ![d] = Nothing(d)]
  /\ UNCHANGED <<kind, pipeat, reader, sock, arrived, pipes, heard, causes>>

LinkInput(d) ==
  /\ pc[d] = "link" /\ "err" \notin hand[d].ev
  /\ hand' = [hand EXCEPT ![d] = Nothing(d)]
  /\ \/ objrefr /\ Goes(d, "link", IF reader THEN "rx" ELSE "defr")
     \/ stat # "open" /\ Goes(d, "link", "idle") /\ UNCHANGED life
  /\ UNCHANGED <<kind, pipeat, reader, net, fd, pipes, heard, causes>>

(* __udp_rx, __arp_rx: the callback for a datagram, and the loop of udp_rx.*)
RxData(d) ==
  /\ pc[d] = "rx" /\ fd # "closed" /\ sock # << >>
  /\ CASE Head(sock) = "data" -> Goes(d, "rx", "data")
       [] Head(sock) = "other" -> UNCHANGED pc
       [] Head(sock) = "empty" -> Goes(d, "rx", "zero")
  /\ sock' = Tail(sock)
  /\ UNCHANGED <<kind, pipeat, life, reader, arrived, fd, edge, pipes, hand, heard, causes>>

(* A faulty variant: the handler returns after one datagram.               *)
RxOnce(d) ==
  /\ Goes(d, "data", "defr")
  /\ UNCHANGED <<kind, pipeat, life, reader, net, fd, pipes, hand, heard, causes>>

RxAgain(d) ==
  /\ Goes(d, "data", "rx")
  /\ UNCHANGED <<kind, pipeat, life, reader, net, fd, pipes, hand, heard, causes>>

(* EAGAIN, returned positive: the handler has not failed.                  *)
RxEmpty(d) ==
  /\ pc[d] = "rx" /\ fd # "closed" /\ sock = << >>
  /\ Goes(d, "rx", "defr")
  /\ UNCHANGED <<kind, pipeat, life, reader, net, fd, pipes, hand, heard, causes>>

(* A datagram of no bytes, or an error: the handler has failed.            *)
RxFails(d) ==
  /\ \/ Goes(d, "zero", "defr") /\ objclos
     \/ pc[d] = "rx" /\ fd = "closed" /\ Goes(d, "rx", "defr") /\ objclos
  /\ UNCHANGED <<kind, pipeat, reader, sock, arrived, pipes, hand, heard, causes>>

(* The message at the head of pipe p is read and about to be posted.       *)
Takes(d, p) ==
  /\ hand' = [hand EXCEPT ![d].msg = <<Head(pipe[p])>>] /\ Goes(d, "read", "post")

(* A faulty variant: pipe_rx reads one message and returns.                *)
PipeReadOnce(d) ==
  LET p == hand[d].pipe IN
  /\ pc[d] = "read" /\ pipe[p] # << >>
  /\ pipe' = [pipe EXCEPT ![p] = Tail(@)]
  /\ IF stat = "open"
     THEN objrefr /\ Takes(d, p)
     ELSE /\ Goes(d, "read", "idle") /\ UNCHANGED life
          /\ hand' = [hand EXCEPT ![d] = Nothing(d)]
  /\ UNCHANGED <<kind, pipeat, reader, net, fd, pedge, sent, heard, causes>>

(* A faulty variant: the link is not referenced for the callback.          *)
PipeReadUnreferenced(d) ==
  LET p == hand[d].pipe IN
  /\ pc[d] = "read" /\ pipe[p] # << >>
  /\ pipe' = [pipe EXCEPT ![p] = Tail(@)]
  /\ IF stat = "open"
     THEN UNCHANGED life /\ Takes(d, p)
     ELSE UNCHANGED <<pc, hand, life>>
  /\ UNCHANGED <<kind, pipeat, reader, net, fd, pedge, sent, heard, causes>>

(* pipe_rx: read(2), and objrefr of the link the message is for; a message *)
(* for a link that is closing is dropped.                                  *)
PipeRead(d) ==
  LET p == hand[d].pipe IN
  /\ pc[d] = "read" /\ pipe[p] # << >>
  /\ pipe' = [pipe EXCEPT ![p] = Tail(@)]
  /\ IF stat = "open"
     THEN objrefr /\ Takes(d, p)
     ELSE UNCHANGED <<pc, hand, life>>
  /\ UNCHANGED <<kind, pipeat, reader, net, fd, pedge, sent, heard, causes>>

(* ncb_post_pipedata and objdefr.                                          *)
PipePost(d) ==
  /\ Goes(d, "post", "read") /\ objdefr
  /\ heard' = heard \o hand[d].msg /\ hand' = [hand EXCEPT ![d].msg = << >>]
  /\ UNCHANGED <<kind, pipeat, reader, sock, arrived, pipes, causes>>

PipeEmpty(d) ==
  /\ pc[d] = "read" /\ pipe[hand[d].pipe] = << >>
  /\ Goes(d, "read", "idle") /\ hand' = [hand EXCEPT ![d] = Nothing(d)]
  /\ UNCHANGED <<kind, pipeat, life, reader, net, fd, pipes, heard, causes>>

RxDefr(d) ==
  /\ Goes(d, "defr", "idle") /\ objdefr
  /\ UNCHANGED <<kind, pipeat, reader, sock, arrived, pipes, hand, heard, causes>>

EpollStep(d) ==
  \/ FetchLink(d) \/ FetchPipe(d) \/ LinkError(d) \/ LinkInput(d)
  \/ RxData(d) \/ RxAgain(d) \/ RxEmpty(d) \/ RxFails(d) \/ RxDefr(d)
  \/ PipeRead(d) \/ PipePost(d) \/ PipeEmpty(d)

WriterStep(w) == Write(w) \/ WriteFails(w) \/ AwakenDefr(w)

Next ==
  \/ CreateStep \/ Destroy \/ DestroyDefr \/ Arrive \/ NetError
  \/ \E w \in Writers : Awaken(w) \/ WriterStep(w)
  \/ \E d \in Divisions : EpollStep(d)

Spec == Init /\ [][Next]_vars

(* The epoll threads run.                                                  *)
FairSpec == Spec /\ \A d \in Divisions : WF_vars(EpollStep(d))

-----------------------------------------------------------------------------
(* Every variable keeps its type.                                          *)
TypeOK ==
  /\ kind \in {"udp", "arp"} /\ pipeat \in [Divisions -> Divisions]
  /\ stat \in {"none", "open", "closing", "gone"} /\ refs \in Nat
  /\ pc \in [Threads -> {"idle", "handlers", "attach", "return", "fail", "fail2",
                         "done", "write", "defr", "link", "read", "rx", "data", "zero", "post"}]
  /\ reader \in BOOLEAN /\ sock \in Seq({"data", "empty", "other"})
  /\ arrived \in 0 .. MaxDgrams /\ fd \in {"none", "bound", "attached", "closed"}
  /\ edge \subseteq {"in", "err"} /\ pedge \subseteq Divisions
  /\ \A d \in Divisions : pipe[d] \in Seq(Msg) /\ Len(pipe[d]) <= PipeCap
  /\ \A w \in Writers : sent[w] \in Seq(Msg)
  /\ heard \in Seq(Msg) /\ causes \subseteq {"create", "destroy", "error", "empty"}

(* Datagrams of an open, attached link that the receive thread has not been*)
(* told of, and will not look at, do not stay in the socket: those that    *)
(* came between bind and io_attach are reported by it.                     *)
NoUnheardDatagram ==
  stat = "open" /\ fd = "attached" /\ sock # << >> =>
    \/ edge # {} \/ pc[LinkDiv] \in {"link", "rx", "data", "zero"}

(* The messages of one writer.                                             *)
By(w, q) == Only(q, {m \in Msg : m.by = w})

(* As long as the link is open, the messages of a writer that write(2) has *)
(* taken reach the user in their order, none is lost and none comes twice. *)
AwokenInOrder ==
  stat = "open" =>
    \A w \in Writers :
      sent[w] = By(w, heard) \o By(w, hand[pipeat[LinkDiv]].msg) \o By(w, pipe[LinkDiv])

(* No callback of a link runs when ncb_deconstruct has reported it closed, *)
(* on the epoll thread of the link or of its pipe.                         *)
ClosedIsLast ==
  stat = "gone" => \A d \in Divisions : pc[d] \notin {"data", "post"}

(* The callbacks of one link overlap only when the pipe made for its       *)
(* division has been attached to another one (__io_init makes "a pipe      *)
(* object for this thread", but io_attach goes by the pipe's own handle).  *)
CallbacksApart ==
  (\E d, e \in Divisions : pc[d] = "data" /\ pc[e] = "post") => pipeat[LinkDiv] # LinkDiv

(* A link is closed only because it was destroyed, or not made, or for an  *)
(* error of its socket or a datagram of no bytes - never for a socket that *)
(* has run empty.                                                          *)
ClosedForCause ==
  stat \in {"closing", "gone"} => causes # {}

(* The callbacks of a link, on the thread of its socket and on the one that *)
(* reads its pipe.                                                         *)
CallbackOrder == TypeOK /\ ClosedIsLast /\ CallbacksApart /\ ClosedForCause

(* A message in a pipe is read.                                            *)
AwokenEventuallyRead ==
  \A d \in Divisions : pipe[d] # << >> ~> pipe[d] = << >>
=============================================================================
