------------------------------- MODULE TxPath -------------------------------
(***************************************************************************)
(* The transmit path of one link, from tcp_write / udp_write / arp_nrequest*)
(* to the wire.  Three kinds of threads meet in it:                        *)
(*   - the user's threads (Writers), which send directly while the link is *)
(*     not blocking and otherwise put a node in the send queue;            *)
(*   - the epoll thread the link belongs to, which turns EPOLLOUT into a   *)
(*     task of the write pool (io.c:74-140, wpool.c:250-289);              *)
(*   - the pool thread of the protocol, which runs ncb_write for each task *)
(*     (wpool.c:62-144).                                                   *)
(* The kernel's send buffer, its edge triggered readiness and the object   *)
(* manager's reference counts are modelled from how the code uses them.    *)
(***************************************************************************)
EXTENDS Fifo, Integers, FiniteSets, Sublists

CONSTANTS
  Writers,   \* the user's threads
  Msgs,      \* what they write, each message at most once
  Size,      \* Size[m]: bytes of m's node (node->wcb)
  K,         \* capacity of the kernel's send buffer
  Proto,     \* "tcp", or "udp" for UDP and ARP links
  Faults,    \* the failures that may happen
  MaxIn,     \* bound on the input events the peer causes
  NoMsg      \* no message

ASSUME TxAssumption ==
  /\ Size \in [Msgs -> Nat \ {0}]
  /\ K \in Nat \ {0}
  /\ MaxIn \in Nat
  /\ Proto \in {"tcp", "udp"}
  \* a datagram leaves at once or not at all
  /\ Proto = "udp" => \A m \in Msgs : Size[m] = 1
  /\ Faults \subseteq {"reset", "rdhup", "destroy", "oom"}
  /\ Proto = "udp" => Faults \cap {"reset", "rdhup"} = {}
  /\ NoMsg \notin Msgs
  /\ Writers \cap {"epoll", "pool", "user"} = {}

VARIABLES
  (* the user's threads *)
  wpc,      \* where each writer is in tcp_write
  cur,      \* the message it is writing
  st,       \* what tcp_write made of each message
  prior,    \* prior[m]: messages whose write had succeeded before m's began
  dpc,      \* where the thread that calls tcp_destroy is
  (* the link *)
  fifo,     \* ncb->fifo
  off,      \* node->offset of each message
  stat,     \* state of the object: "open", "closing", "closed"
  holders,  \* the threads that hold a reference (objrefr)
  (* the kernel *)
  sock,     \* "est", "rdhup" (peer's FIN), "err" (reset), "closed"
  free,     \* free space of the send buffer
  nospace,  \* SOCK_NOSPACE: a sender or a poll found the buffer full
  out,      \* EPOLLOUT is in the link's event mask
  rdy,      \* the link is on the epoll instance's ready list
  ins,      \* input events so far
  wire,     \* bytes handed to the kernel, by the message they are of
  (* the epoll thread and the write pool *)
  epc, ppc, \* where the two threads are
  pnode,    \* the node the pool thread got from fifo_top
  tasks,    \* length of wpool.tasks
  signal,   \* wpool.signal, a manual-reset event
  live      \* wptask structures allocated and not freed

user == <<wpc, cur, st, prior>>
link == <<stat, holders>>
kern == <<sock, free, nospace, out, rdy, ins>>
data == <<fifo, off, wire>>
pool == <<tasks, signal, live>>
vars == <<wpc, cur, st, prior, dpc, fifo, off, stat, holders, sock, free,
          nospace, out, rdy, ins, wire, epc, ppc, pnode, tasks, signal, live>>

-----------------------------------------------------------------------------
Init ==
  /\ wpc = [w \in Writers |-> "idle"]
  /\ cur = [w \in Writers |-> NoMsg]
  /\ st = [m \in Msgs |-> "new"]
  /\ prior = [m \in Msgs |-> {}]
  /\ dpc = "idle"
  /\ fifo = fifo_init
  /\ off = [m \in Msgs |-> 0]
  /\ stat = "open"
  /\ holders = {}
  /\ sock = "est"
  /\ free = K
  /\ nospace = FALSE
  /\ out = FALSE
  /\ rdy = FALSE
  /\ ins = 0
  /\ wire = << >>
  /\ epc = "wait"
  /\ ppc = "wait"
  /\ pnode = NoMsg
  /\ tasks = 0
  /\ signal = FALSE
  /\ live = 0

(***************************************************************************)
(* Pieces several handlers share.                                          *)
(***************************************************************************)

Min2(a, b) == IF a < b THEN a ELSE b

Alive == sock \in {"est", "rdhup"}      \* send(2) can still succeed

(* io_close: leave the epoll instance, shut down, close the descriptor.    *)
io_close ==
  /\ sock' = "closed"
  /\ out' = FALSE
  /\ rdy' = FALSE
  /\ nospace' = FALSE
  /\ UNCHANGED <<free, ins>>

(* ncb_deconstruct, run by whoever gives back the last reference of a      *)
(* closing object.                                                         *)
ncb_deconstruct ==
  /\ io_close
  /\ fifo' = fifo_uninit(fifo)
  /\ UNCHANGED <<off, wire>>

(* objdefr by thread t.                                                    *)
objdefr(t) ==
  /\ holders' = holders \ {t}
  /\ IF stat = "closing" /\ holders = {t}
     THEN stat' = "closed" /\ ncb_deconstruct
     ELSE UNCHANGED <<stat, kern, data>>

(* objclos: the object closes now, or with its last reference.             *)
objclos ==
  /\ UNCHANGED holders
  /\ IF stat = "open" /\ holders = {}
     THEN stat' = "closed" /\ ncb_deconstruct
     ELSE /\ stat' = IF stat = "open" THEN "closing" ELSE stat
          /\ UNCHANGED <<kern, data>>

(* objrefr by thread t of an object that is open.                          *)
objrefr(t) ==
  /\ stat = "open"
  /\ holders' = holders \cup {t}
  /\ UNCHANGED stat

(* One send(2) that takes n bytes of m.                                    *)
send(m, n) ==
  /\ n \in 1 .. Min2(free, Size[m] - off[m])
  /\ free' = free - n
  /\ off' = [off EXCEPT ![m] = @ + n]
  /\ wire' = wire \o [i \in 1 .. n |-> m]

Completes(m, n) == off[m] + n = Size[m]

(* EPOLL_CTL_MOD polls the socket again: an event that is both of interest *)
(* and present puts the link back on the ready list.                       *)
io_modify(interest) ==
  /\ out' = interest
  /\ rdy' = (rdy \/ (interest /\ free > 0) \/ sock \in {"err", "rdhup"})
  /\ nospace' = (nospace \/ free = 0)
  /\ UNCHANGED <<sock, free, ins>>

(* fifo_pop of a queue with nodes; the result of its io_modify(EPOLLIN) is *)
(* ignored.                                                                *)
PopHead ==
  /\ fifo' = fifo_pop(fifo)
  /\ IF LastPop(fifo) /\ sock # "closed"
     THEN io_modify(FALSE)
     ELSE UNCHANGED kern
  /\ UNCHANGED <<off, wire>>

-----------------------------------------------------------------------------
(***************************************************************************)
(* The user's threads: tcp_write, and udp_write, which differs only in     *)
(* that it does not look at the state of the connection.                   *)
(***************************************************************************)

WGoto(w, from, to) == wpc[w] = from /\ wpc' = [wpc EXCEPT ![w] = to]

Result(m, r) == st' = [st EXCEPT ![m] = r]

(* The messages whose write has returned to the user with success.         *)
Accepted == {m \in Msgs : /\ st[m] \in {"sent", "queued"}
                          /\ \A w \in Writers : cur[w] # m}

(* __tcprefr                                                               *)
WriteEnter(w, m) ==
  /\ st[m] = "new"
  /\ \A v \in Writers : cur[v] # m
  /\ WGoto(w, "idle", "prepare")
  /\ cur' = [cur EXCEPT ![w] = m]
  /\ prior' = [prior EXCEPT ![m] = Accepted]
  /\ objrefr(w)
  /\ UNCHANGED <<st, dpc, data, kern, epc, ppc, pnode, pool>>

(* The early return: the link is closing or gone.                          *)
WriteNoEntry(m) ==
  /\ st[m] = "new"
  /\ \A v \in Writers : cur[v] # m
  /\ stat # "open"
  /\ Result(m, "failed")
  /\ UNCHANGED <<wpc, cur, prior, dpc, data, link, kern, epc, ppc, pnode, pool>>

(* The state of the connection does not allow a write; getsockopt fails on *)
(* a closed descriptor and the check is skipped.                           *)
StateIllegal == Proto = "tcp" /\ sock \in {"rdhup", "err"}

(* Build the packet and its node.                                          *)
WritePrepare(w) ==
  /\ \/ ~StateIllegal /\ WGoto(w, "prepare", "check") /\ UNCHANGED st
     \/ /\ StateIllegal \/ "oom" \in Faults
        /\ WGoto(w, "prepare", "return")
        /\ Result(cur[w], "failed")
  /\ UNCHANGED <<cur, prior, dpc, data, link, kern, epc, ppc, pnode, pool>>

(* fifo_is_blocking; the lock is given up before the answer is used.       *)
WriteCheck(w) ==
  /\ WGoto(w, "check", IF fifo_is_blocking(fifo) THEN "queue" ELSE "send")
  /\ UNCHANGED <<cur, st, prior, dpc, data, link, kern, epc, ppc, pnode, pool>>

(* One send(2) of the loop in tcp_txn.                                     *)
WriteSend(w) ==
  LET m == cur[w] IN
  /\ wpc[w] = "send"
  /\ \/ /\ Alive
        /\ \E n \in 1 .. Size[m] :
             /\ send(m, n)
             /\ IF Completes(m, n)
                THEN WGoto(w, "send", "return") /\ Result(m, "sent")
                ELSE WGoto(w, "send", "send") /\ UNCHANGED st
        /\ UNCHANGED <<fifo, sock, nospace, out, rdy, ins>>
     \/ /\ Alive /\ free = 0            \* EAGAIN
        /\ WGoto(w, "send", "queue")
        /\ nospace' = TRUE
        /\ UNCHANGED <<st, data, sock, free, out, rdy, ins>>
     \/ /\ ~Alive
        /\ WGoto(w, "send", "return") /\ Result(m, "failed")
        /\ UNCHANGED <<data, kern>>
  /\ UNCHANGED <<cur, prior, dpc, link, epc, ppc, pnode, pool>>

(* fifo_queue under the lock of the queue: -EBUSY, a failed io_modify, or  *)
(* the node is queued and EPOLLOUT is of interest.                         *)
WriteQueue(w) ==
  LET m == cur[w] IN
  /\ WGoto(w, "queue", "return")
  /\ \/ fifo_is_full(fifo) /\ Result(m, "busy") /\ UNCHANGED <<fifo, kern>>
     \/ /\ ~fifo_is_full(fifo) /\ ~fifo_is_blocking(fifo) /\ sock = "closed"
        /\ Result(m, "failed")
        /\ UNCHANGED <<fifo, kern>>
     \/ /\ ~fifo_is_full(fifo)
        /\ fifo_is_blocking(fifo) \/ sock # "closed"
        /\ fifo' = fifo_queue(fifo, m)
        /\ IF fifo_is_blocking(fifo) THEN UNCHANGED kern ELSE io_modify(TRUE)
        /\ Result(m, "queued")
  /\ UNCHANGED <<off, wire, cur, prior, dpc, link, epc, ppc, pnode, pool>>

WriteReturn(w) ==
  /\ WGoto(w, "return", "idle")
  /\ cur' = [cur EXCEPT ![w] = NoMsg]
  /\ objdefr(w)
  /\ UNCHANGED <<st, prior, dpc, epc, ppc, pnode, pool>>

WriteStep(w) == \/ WritePrepare(w) \/ WriteCheck(w) \/ WriteSend(w)
                \/ WriteQueue(w) \/ WriteReturn(w)

(* tcp_destroy: objreff (which also marks the object closing), io_close,   *)
(* objdefr.                                                                *)
DestroyBegin ==
  /\ "destroy" \in Faults
  /\ dpc = "idle" /\ dpc' = "close"
  /\ stat = "open" /\ stat' = "closing"
  /\ holders' = holders \cup {"user"}
  /\ UNCHANGED <<user, data, kern, epc, ppc, pnode, pool>>

(* A faulty variant: the queue is freed with the descriptor.               *)
DestroyCloseFrees ==
  /\ dpc = "close" /\ dpc' = "release"
  /\ io_close
  /\ fifo' = fifo_uninit(fifo)
  /\ UNCHANGED <<user, off, wire, link, epc, ppc, pnode, pool>>

DestroyClose ==
  /\ dpc = "close" /\ dpc' = "release"
  /\ io_close
  /\ UNCHANGED <<user, data, link, epc, ppc, pnode, pool>>

DestroyEnd ==
  /\ dpc = "release" /\ dpc' = "done"
  /\ objdefr("user")
  /\ UNCHANGED <<user, epc, ppc, pnode, pool>>

-----------------------------------------------------------------------------
(***************************************************************************)
(* The epoll thread: __epoll_proc and __iorun.                             *)
(***************************************************************************)

EGoto(from, to) == epc = from /\ epc' = to

(* epoll_wait takes the link off the ready list and polls it: an error, a  *)
(* FIN of the peer, EPOLLOUT, or nothing the transmit path looks at.       *)
EpollWait ==
  /\ rdy /\ rdy' = FALSE
  /\ nospace' = (nospace \/ (Alive /\ free = 0))
  /\ EGoto("wait", IF sock \in {"err", "rdhup"} THEN "close"
                   ELSE IF out /\ free > 0 THEN "refr" ELSE "wait")
  /\ UNCHANGED <<user, dpc, data, link, sock, free, out, ins, ppc, pnode, pool>>

EpollClose ==
  /\ EGoto("close", "wait")
  /\ objclos
  /\ UNCHANGED <<user, dpc, ppc, pnode, pool>>

EpollRefr ==
  /\ \/ EGoto("refr", "queued") /\ objrefr("epoll")
     \/ EGoto("refr", "wait") /\ stat # "open" /\ UNCHANGED link
  /\ UNCHANGED <<user, dpc, data, kern, ppc, pnode, pool>>

(* wp_queued: a task at the tail of the pool's list; without memory for it *)
(* the event is forgotten.                                                 *)
wp_queued ==
  /\ \/ EGoto("queued", "signal") /\ tasks' = tasks + 1 /\ live' = live + 1
     \/ EGoto("queued", "release") /\ "oom" \in Faults /\ UNCHANGED <<tasks, live>>
  /\ UNCHANGED <<user, dpc, data, link, kern, ppc, pnode, signal>>

(* A faulty variant: the event of the pool is not signalled.               *)
EpollSignalSilent ==
  /\ EGoto("signal", "release")
  /\ UNCHANGED <<user, dpc, data, link, kern, ppc, pnode, pool>>

EpollSignal ==
  /\ EGoto("signal", "release")
  /\ signal' = TRUE
  /\ UNCHANGED <<user, dpc, data, link, kern, ppc, pnode, tasks, live>>

EpollRelease ==
  /\ EGoto("release", "wait")
  /\ objdefr("epoll")
  /\ UNCHANGED <<user, dpc, ppc, pnode, pool>>

EpollStep == \/ EpollWait \/ EpollClose \/ EpollRefr \/ wp_queued
             \/ EpollSignal \/ EpollRelease

-----------------------------------------------------------------------------
(***************************************************************************)
(* The pool thread: __wp_run, __wp_exec and the ncb_write handlers tcp_tx  *)
(* and udp_tx (arp_tx is the same).                                        *)
(***************************************************************************)

PGoto(from, to) == ppc = from /\ ppc' = to

rest == <<user, dpc, epc>>

(* posix__waitfor_waitable_handle returns with the signal, or after 10 ms. *)
PoolWake ==
  /\ signal
  /\ PGoto("wait", "reset")
  /\ UNCHANGED <<rest, data, link, kern, pnode, pool>>

PoolTimeout ==
  /\ ~signal
  /\ PGoto("wait", "get")
  /\ UNCHANGED <<rest, data, link, kern, pnode, pool>>

PoolReset ==
  /\ PGoto("reset", "get")
  /\ signal' = FALSE
  /\ UNCHANGED <<rest, data, link, kern, pnode, tasks, live>>

(* __wp_get_task                                                           *)
PoolGet ==
  /\ \/ tasks > 0 /\ PGoto("get", "refr") /\ tasks' = tasks - 1
     \/ tasks = 0 /\ PGoto("get", "wait") /\ UNCHANGED tasks
  /\ UNCHANGED <<rest, data, link, kern, pnode, signal, live>>

(* objrefr; the task of a link that is closing is freed.                   *)
PoolRefr ==
  /\ \/ PGoto("refr", "top") /\ objrefr("pool") /\ UNCHANGED live
     \/ PGoto("refr", "get") /\ stat # "open" /\ live' = live - 1 /\ UNCHANGED link
  /\ UNCHANGED <<rest, data, kern, pnode, tasks, signal>>

(* tcp_tx / udp_tx up to fifo_top.                                         *)
PoolTop ==
  /\ \/ StateIllegal /\ PGoto("top", "close") /\ UNCHANGED pnode
     \/ /\ ~StateIllegal /\ fifo_is_empty(fifo)
        /\ PGoto("top", "drop") /\ UNCHANGED pnode
     \/ /\ ~StateIllegal /\ ~fifo_is_empty(fifo)
        /\ PGoto("top", "send")
        /\ pnode' = fifo_top(fifo)
  /\ UNCHANGED <<rest, data, link, kern, pool>>

(* A faulty variant: every handler pops for itself.                        *)
AfterSendSelfPop == "selfpop"

(* Where ncb_write's success leads: udp_tx pops the node it has sent       *)
(* before __wp_exec pops.                                                  *)
AfterSend == IF Proto = "udp" THEN "selfpop" ELSE "pop"

(* One send(2) of the loop in tcp_txn / udp_txn.                           *)
PoolSend ==
  /\ ppc = "send"
  /\ \/ /\ Alive
        /\ \E n \in 1 .. Size[pnode] :
             /\ send(pnode, n)
             /\ PGoto("send", IF Completes(pnode, n) THEN AfterSend ELSE "send")
        /\ UNCHANGED <<fifo, sock, nospace, out, rdy, ins>>
     \/ /\ Alive /\ free = 0            \* EAGAIN
        /\ PGoto("send", "drop")
        /\ nospace' = TRUE
        /\ UNCHANGED <<data, sock, free, out, rdy, ins>>
     \/ /\ ~Alive
        /\ PGoto("send", "close")
        /\ UNCHANGED <<data, kern>>
  /\ UNCHANGED <<rest, link, pnode, pool>>

(* A faulty variant: the task is done after one node.                      *)
PoolPopOnce ==
  /\ ppc \in {"selfpop", "pop"}
  /\ ppc' = IF ppc = "selfpop" THEN "pop" ELSE "drop"
  /\ IF fifo_is_empty(fifo) THEN UNCHANGED <<data, kern>> ELSE PopHead
  /\ UNCHANGED <<rest, link, pnode, pool>>

(* fifo_pop(ncb, NULL), by udp_tx of the node it has sent and then by      *)
(* __wp_exec: with a node popped there the task goes back to the list; in  *)
(* any case __wp_run does not free it.                                     *)
PoolPop ==
  /\ ppc \in {"selfpop", "pop"}
  /\ ppc' = IF ppc = "selfpop" THEN "pop"
            ELSE IF fifo_is_empty(fifo) THEN "keep" ELSE "append"
  /\ IF fifo_is_empty(fifo) THEN UNCHANGED <<data, kern>> ELSE PopHead
  /\ UNCHANGED <<rest, link, pnode, pool>>

PoolAppend ==
  /\ PGoto("append", "keep")
  /\ tasks' = tasks + 1
  /\ UNCHANGED <<rest, data, link, kern, pnode, signal, live>>

PoolClose ==
  /\ PGoto("close", "drop")
  /\ objclos
  /\ UNCHANGED <<rest, pnode, pool>>

(* Faulty variants: a task that is done with is not freed, or the          *)
(* reference is given back only after a success.                           *)
PoolReleaseLeaks ==
  /\ PGoto("keep", "get") \/ PGoto("drop", "get")
  /\ objdefr("pool")
  /\ UNCHANGED <<rest, pnode, pool>>

PoolReleasePins ==
  /\ \/ PGoto("keep", "get") /\ objdefr("pool") /\ UNCHANGED live
     \/ /\ PGoto("drop", "get") /\ live' = live - 1
        /\ UNCHANGED <<link, data, kern>>
  /\ UNCHANGED <<rest, pnode, tasks, signal>>

(* objdefr at the end of __wp_exec; __wp_run frees the task if ncb_write   *)
(* did not return a positive number.                                       *)
PoolRelease ==
  /\ \/ PGoto("keep", "get") /\ UNCHANGED live
     \/ PGoto("drop", "get") /\ live' = live - 1
  /\ objdefr("pool")
  /\ UNCHANGED <<rest, pnode, tasks, signal>>

PoolStep == \/ PoolWake \/ PoolReset \/ PoolGet \/ PoolRefr \/ PoolTop
            \/ PoolSend \/ PoolPop \/ PoolAppend \/ PoolClose \/ PoolRelease

-----------------------------------------------------------------------------
(***************************************************************************)
(* The kernel and the peer.                                                *)
(***************************************************************************)

(* Data leaves the send buffer; a full buffer that somebody waits for      *)
(* causes a readiness edge.                                                *)
Drain ==
  /\ Alive /\ free < K
  /\ \E n \in 1 .. K - free : free' = free + n
  /\ nospace' = FALSE
  /\ rdy' = (rdy \/ (nospace /\ out))
  /\ UNCHANGED <<user, dpc, data, link, sock, out, ins, epc, ppc, pnode, pool>>

(* Input arrives: an edge that EPOLLOUT rides along with.                  *)
Arrive ==
  /\ Alive /\ ins < MaxIn
  /\ ins' = ins + 1
  /\ rdy' = TRUE
  /\ UNCHANGED <<user, dpc, data, link, sock, free, nospace, out, epc, ppc, pnode, pool>>

(* The peer ends its direction of the stream, or resets the connection.    *)
PeerCloses ==
  /\ \/ "rdhup" \in Faults /\ sock = "est" /\ sock' = "rdhup"
     \/ "reset" \in Faults /\ Alive /\ sock' = "err"
  /\ rdy' = TRUE
  /\ UNCHANGED <<user, dpc, data, link, free, nospace, out, ins, epc, ppc, pnode, pool>>

-----------------------------------------------------------------------------
Next ==
  \/ \E w \in Writers, m \in Msgs : WriteEnter(w, m)
  \/ \E m \in Msgs : WriteNoEntry(m)
  \/ \E w \in Writers : WriteStep(w)
  \/ DestroyBegin \/ DestroyClose \/ DestroyEnd
  \/ EpollStep
  \/ PoolStep \/ PoolTimeout
  \/ Drain \/ Arrive \/ PeerCloses

Spec == Init /\ [][Next]_vars

(* A thread inside a call goes on, epoll_wait reports a ready descriptor   *)
(* and the peer keeps reading.  Nothing is assumed of the 10 ms time-out   *)
(* of the pool, of new calls, of faults or of input.                       *)
Fairness ==
  /\ \A w \in Writers : WF_vars(WriteStep(w))
  /\ WF_vars(DestroyClose) /\ WF_vars(DestroyEnd)
  /\ WF_vars(EpollStep)
  /\ WF_vars(PoolStep)
  /\ WF_vars(Drain)

FairSpec == Spec /\ Fairness

-----------------------------------------------------------------------------
(* The values of the variables.                                            *)
Flags ==
  /\ nospace \in BOOLEAN /\ out \in BOOLEAN /\ rdy \in BOOLEAN
  /\ signal \in BOOLEAN

Values ==
  /\ wpc \in [Writers -> {"idle", "prepare", "check", "send", "queue", "return"}]
  /\ cur \in [Writers -> Msgs \cup {NoMsg}]
  /\ st \in [Msgs -> {"new", "sent", "queued", "busy", "failed"}]
  /\ prior \in [Msgs -> SUBSET Msgs]
  /\ dpc \in {"idle", "close", "release", "done"}
  /\ fifo \in tx_fifo(Msgs)
  /\ off \in [Msgs -> Nat]
  /\ stat \in {"open", "closing", "closed"}
  /\ holders \subseteq Writers \cup {"epoll", "pool", "user"}
  /\ sock \in {"est", "rdhup", "err", "closed"}
  /\ free \in 0 .. K
  /\ ins \in 0 .. MaxIn
  /\ wire \in Seq(Msgs)
  /\ epc \in {"wait", "close", "refr", "queued", "signal", "release"}
  /\ ppc \in {"wait", "reset", "get", "refr", "top", "send", "selfpop", "pop",
              "append", "keep", "close", "drop"}
  /\ pnode \in Msgs \cup {NoMsg}
  /\ tasks \in Nat
  /\ live \in Nat

(* Every variable keeps its type: fifo_queue's size check keeps the queue  *)
(* within MAXIMUM_FIFO_SIZE, and pops and releases never outnumber what was*)
(* queued.                                                                 *)
TypeOK == Flags /\ Values

(* The three witnesses of "data is waiting" agree: the blocking flag       *)
(* tcp_write reads, the nodes, and EPOLLOUT in the event mask - although   *)
(* writers set the last two and the pool thread clears them while other    *)
(* writers look at the first.                                              *)
FifoConsistent ==
  stat # "closed" =>
    /\ fifo.size = Len(fifo.head)
    /\ fifo_is_blocking(fifo) <=> ~fifo_is_empty(fifo)
    /\ sock # "closed" => (out <=> ~fifo_is_empty(fifo))

(* While nodes wait on a usable link, the edge has been reported and is    *)
(* being worked on (ready list, epoll thread, task, pool thread), or the   *)
(* next one is certain to come.                                            *)
EdgePending ==
  stat = "open" /\ sock = "est" /\ ~fifo_is_empty(fifo) =>
    \/ rdy
    \/ out /\ nospace /\ free = 0
    \/ epc \in {"refr", "queued"}
    \/ tasks > 0 /\ (signal \/ epc = "signal" \/ ppc # "wait")
    \/ ppc \in {"refr", "top", "send", "selfpop", "pop", "append"}

(* EPOLLET reports an edge once, so no step may leave nodes waiting that   *)
(* nobody is going to look at, whichever of the threads takes it: only     *)
(* wp_queued does, when it has no memory for a task (__iorun ignores that).*)
NoLostEdge ==
  EdgePending /\ [][EdgePending => EdgePending' \/ EGoto("queued", "release")]_vars

(* A message whose write had succeeded before another write began is on    *)
(* the wire, whole, before the first byte of the other.                    *)
RealTimeOrder ==
  \A m2 \in Msgs : off[m2] > 0 => \A m1 \in prior[m2] : off[m1] = Size[m1]

(* The bytes of a message are contiguous: another one begins only when it  *)
(* is complete.                                                            *)
WholeFrames ==
  \A i \in 1 .. Len(wire) - 1 :
    wire[i] # wire[i + 1] =>
      /\ off[wire[i]] = Size[wire[i]]
      /\ \A j \in i + 1 .. Len(wire) : wire[j] # wire[i]

(* The node the pool thread sends from outside the lock is at the head of  *)
(* the queue, so nobody else frees it; it is not a message that a writer   *)
(* still sends itself.                                                     *)
NodeOwned ==
  ppc = "send" => /\ fifo.head # << >> /\ pnode = fifo_top(fifo)
                  /\ \A w \in Writers : wpc[w] = "send" => cur[w] # pnode

(* Every wptask is on the list or in the hands of the pool thread.         *)
NoTaskLeak ==
  live = tasks + (IF ppc \in {"wait", "reset", "get", "keep"} THEN 0 ELSE 1)

(* fifo_pop of the pool thread removes a node only when all of it is with  *)
(* the kernel: __wp_exec goes on 'until all pending data have been sent'   *)
(* (wpool.c:101).  It holds of TCP links.  udp_tx and arp_tx have removed  *)
(* the node they sent themselves (udpio.c:124), and the pop of __wp_exec   *)
(* takes the one behind it.                                                *)
PopOnlySent ==
  [][\A m \in Msgs :
       (/\ fifo.head # << >> /\ m = Head(fifo.head)
        /\ fifo'.head = Tail(fifo.head) /\ stat' # "closed")
       => off[m] = Size[m]]_vars

(* What tcp_write queued is sent, whatever the threads do, as long as the  *)
(* link stays open and the peer reads.                                     *)
QueuedEventuallySent ==
  \A m \in Msgs : st[m] = "queued" ~> (off[m] = Size[m] \/ stat # "open" \/ sock # "est")

(* A link that tcp_destroy or an error has marked closing is released.     *)
ClosingEventuallyClosed == stat = "closing" ~> stat = "closed"

(***************************************************************************)
(* With one writer the transmit path implements OrderedTx.  The pending    *)
(* messages are the nodes not sent completely and, behind them, the        *)
(* message the writer has sent a part of.                                  *)
(***************************************************************************)
Unsent(m) == off[m] < Size[m]

InHand == {m \in Msgs : 0 < off[m] /\ Unsent(m)
             /\ \E w \in Writers : cur[w] = m /\ wpc[w] \in {"send", "queue"}}

PendMap ==
  IF Alive
  THEN Only(fifo.head, {m \in Msgs : Unsent(m)})
       \o (IF InHand = {} THEN << >> ELSE <<CHOOSE m \in InHand : TRUE>>)
  ELSE << >>

Abs == INSTANCE OrderedTx WITH pend <- PendMap, open <- Alive

ImplementsOrderedTx == Abs!Spec
=============================================================================
