------------------------------- MODULE TcpConn ------------------------------
(***************************************************************************)
(* How a TCP link comes to life: the synchronous connect (tcp_connect),    *)
(* the asynchronous one (tcp_connect2, completed by tcp_tx_syn on the pool *)
(* thread) and the set-up of an accepted link (__tcp_syn_dpc), against the *)
(* epoll thread of the link, a user who destroys it and a peer who sends,  *)
(* ends the stream, refuses or resets.  The threads race for the handlers  *)
(* ncb_read / ncb_write, for the event mask and for the order of the       *)
(* callbacks the user sees.                                                *)
(***************************************************************************)
EXTENDS Integers, Sequences, FiniteSets

CONSTANTS
  Hows,      \* among "connect", "connect2" and "accept"
  FaultSets, \* the sets of things that may happen beside success
  MaxData    \* bound on the peer's segments of data

ASSUME ConnAssumption ==
  /\ Hows \subseteq {"connect", "connect2", "accept"}
  /\ FaultSets \subseteq SUBSET {"fail", "immediate", "fin", "reset", "destroy", "oom"}
  /\ MaxData \in Nat

VARIABLES
  how,      \* the way this link is set up
  faults,   \* what may happen to it
  conn,     \* the socket: "new", "syn" (SYN sent), "est", "closed"
  fin,      \* the peer has ended its direction
  err,      \* the connection was refused or reset
  sent,     \* segments the peer has sent
  unread,   \* those recv(2) has not returned
  mask,     \* interest in the epoll instance: "off" (not in it), "none",
            \* "in", "out"; errors and EPOLLRDHUP are always of interest
  rdy,      \* the link is on the ready list
  hread,    \* ncb->ncb_read: "null", "rx"
  hwrite,   \* ncb->ncb_write: "null", "syn" (tcp_tx_syn), "tx"
  stat,     \* the object: "open", "closing", "closed"
  holders,  \* threads that hold a reference
  events,   \* the callbacks the user got
  tasks,    \* tasks of the pool for this link
  pc,       \* where each thread is; "user" is the thread that connects or,
            \* for an accepted link, the listener's epoll thread
  (* history *)
  deaf,     \* segments sent when an edge was last spent without a handler
  due,      \* segments sent when tcp_rx was last called
  lost      \* wp_queued has found no memory for a task

hist == <<deaf, due, lost>>
env == <<how, faults, hist>>
net == <<env, fin, err, sent>>
sock == <<conn, unread, mask, rdy>>
hand == <<hread, hwrite>>
obj == <<stat, holders, events>>
vars == <<how, faults, conn, fin, err, sent, unread, mask, rdy, hread, hwrite,
          stat, holders, events, tasks, pc, hist>>

Threads == {"user", "epoll", "pool", "destroy"}

(* An accepted link is connected, and is held by the thread that accepts.  *)
Init ==
  /\ how \in Hows /\ faults \in FaultSets
  /\ conn = IF how = "accept" THEN "est" ELSE "new"
  /\ fin = FALSE /\ err = FALSE
  /\ sent = 0 /\ unread = 0
  /\ mask = "off" /\ rdy = FALSE
  /\ hread = "null" /\ hwrite = "null"
  /\ stat = "open"
  /\ holders = IF how = "accept" THEN {"user"} ELSE {}
  /\ events = << >>
  /\ tasks = 0
  /\ deaf = 0 /\ due = 0 /\ lost = FALSE
  /\ pc = [t \in Threads |-> IF t = "user"
                             THEN IF how = "accept" THEN "setup" ELSE "idle"
                             ELSE "wait"]

-----------------------------------------------------------------------------
(***************************************************************************)
(* Shared pieces.                                                          *)
(***************************************************************************)

Goto(t, from, to) == pc[t] = from /\ pc' = [pc EXCEPT ![t] = to]

(* A faulty variant: EPOLLERR is not looked at.                            *)
HangupFin == fin

(* EPOLLRDHUP or EPOLLERR is present.                                      *)
Hangup == fin \/ err

(* What epoll_wait or an EPOLL_CTL_ADD / MOD finds with interest m.        *)
Ready(m) == \/ Hangup
            \/ m = "in" /\ unread > 0
            \/ m = "out" /\ conn = "est"

Registered == mask # "off" /\ conn # "closed"

Interest(m) == mask' = m /\ rdy' = (rdy \/ Ready(m)) /\ UNCHANGED <<conn, unread>>

io_close ==
  /\ conn' = "closed" /\ mask' = "off" /\ rdy' = FALSE
  /\ UNCHANGED unread

(* ncb_deconstruct with the callbacks before and after io_close.           *)
ncb_deconstruct ==
  /\ stat' = "closed"
  /\ events' = events \o <<"preclose", "closed">>
  /\ io_close

objrefr(t) ==
  /\ stat = "open"
  /\ holders' = holders \cup {t}
  /\ UNCHANGED <<stat, events>>

(* A faulty variant: the destructor runs before the last reference is gone.*)
objdefr_early(t) ==
  /\ holders' = holders \ {t}
  /\ IF stat = "closing" THEN ncb_deconstruct ELSE UNCHANGED <<stat, events, sock>>

objdefr(t) ==
  /\ holders' = holders \ {t}
  /\ IF stat = "closing" /\ holders = {t}
     THEN ncb_deconstruct
     ELSE UNCHANGED <<stat, events, sock>>

objclos ==
  /\ IF stat = "open" /\ holders = {}
     THEN ncb_deconstruct
     ELSE /\ stat' = IF stat = "open" THEN "closing" ELSE stat
          /\ UNCHANGED <<events, sock>>
  /\ UNCHANGED holders

Post(e) == events' = Append(events, e)

(* objclos and objdefr as steps of thread t, which then goes home.         *)
Close(t) ==
  /\ Goto(t, "close", IF t \in holders THEN "release" ELSE "wait")
  /\ objclos
  /\ UNCHANGED <<net, hand, tasks>>

Release(t) ==
  /\ Goto(t, "release", IF t \in {"user", "destroy"} THEN "done" ELSE "wait")
  /\ objdefr(t)
  /\ UNCHANGED <<net, hand, tasks>>

-----------------------------------------------------------------------------
(***************************************************************************)
(* The thread that connects or accepts.                                    *)
(***************************************************************************)

(* __tcprefr                                                               *)
Enter ==
  /\ \/ Goto("user", "idle", "connect") /\ objrefr("user")
     \/ Goto("user", "idle", "done") /\ stat # "open" /\ UNCHANGED obj
  /\ UNCHANGED <<net, sock, hand, tasks>>

(* tcp_connect: connect(2) waits for the outcome.                          *)
tcp_connect ==
  /\ how = "connect"
  /\ \/ /\ conn = "new" /\ conn' = "est"
        /\ Goto("user", "connect", "attach")
     \/ /\ conn = "closed" \/ "fail" \in faults
        /\ Goto("user", "connect", "release") /\ UNCHANGED conn
  /\ UNCHANGED <<net, unread, mask, rdy, hand, obj, tasks>>

(* tcp_connect2: ncb_write is taken for tcp_tx_syn, then connect(2) is in  *)
(* progress, succeeds at once or fails.                                    *)
tcp_connect2 ==
  /\ how = "connect2"
  /\ \/ /\ conn = "new" /\ conn' = "syn" /\ hwrite' = "syn"
        /\ Goto("user", "connect", "attach")
     \/ /\ conn = "new" /\ "immediate" \in faults
        /\ conn' = "est" /\ hwrite' = "syn"
        /\ Goto("user", "connect", "syn")
     \/ /\ conn = "new" /\ "fail" \in faults
        /\ hwrite' = "syn"
        /\ Goto("user", "connect", "release") /\ UNCHANGED conn
     \/ /\ conn = "closed"
        /\ Goto("user", "connect", "release") /\ UNCHANGED <<conn, hwrite>>
  /\ UNCHANGED <<net, unread, mask, rdy, hread, obj, tasks>>

(* A faulty variant: the handlers are left for later.                      *)
SetUpLate ==
  /\ Goto("user", "setup", "attach")
  /\ UNCHANGED <<net, sock, hand, obj, tasks>>

(* __tcp_syn_dpc up to io_attach.                                          *)
SetUp ==
  /\ \/ Goto("user", "setup", "attach") /\ hread' = "rx" /\ hwrite' = "tx"
     \/ Goto("user", "setup", "close") /\ "oom" \in faults /\ UNCHANGED hand
  /\ UNCHANGED <<net, sock, obj, tasks>>

(* The mask io_attach is called with.                                      *)
FirstMask == CASE how = "connect"  -> "in"
               [] how = "connect2" -> "out"
               [] how = "accept"   -> "none"

(* io_attach; a failure closes the link.                                   *)
Attach ==
  /\ \/ /\ conn # "closed" /\ Interest(FirstMask)
        /\ Goto("user", "attach", IF how = "connect2" THEN "release" ELSE "post")
     \/ /\ conn = "closed" \/ "oom" \in faults
        /\ Goto("user", "attach", "close") /\ UNCHANGED sock
  /\ UNCHANGED <<net, hand, obj, tasks>>

(* ncb_post_connected / ncb_post_accepted: before the handlers in          *)
(* tcp_connect, after them in tcp_tx_syn, before EPOLLIN in __tcp_syn_dpc. *)
PostUp(t) ==
  /\ Goto(t, "post", CASE how = "connect"  -> "setread"
                       [] how = "connect2" -> "release"
                       [] how = "accept"   -> "modify")
  /\ Post(IF how = "accept" THEN "accepted" ELSE "connected")
  /\ UNCHANGED <<net, sock, hand, stat, holders, tasks>>

SetRead(t) ==
  /\ Goto(t, "setread", "setwrite")
  /\ hread' = "rx"
  /\ UNCHANGED <<net, sock, hwrite, obj, tasks>>

(* A faulty variant: tcp_tx_syn ends without the connected event.          *)
SetWriteQuiet(t) ==
  /\ Goto(t, "setwrite", "release")
  /\ hwrite' = "tx"
  /\ UNCHANGED <<net, sock, hread, obj, tasks>>

SetWrite(t) ==
  /\ Goto(t, "setwrite", IF how = "connect" THEN "release" ELSE "post")
  /\ hwrite' = "tx"
  /\ UNCHANGED <<net, sock, hread, obj, tasks>>

(* tcp_tx_syn: the outcome of the connect.  tcp_connect2 ignores what it   *)
(* returns, __wp_exec closes the link on -1.                               *)
SynResult(t) ==
  /\ LET fails == err \/ conn = "closed" IN
     Goto(t, "syn", IF ~fails THEN "modify" ELSE IF t = "pool" THEN "close" ELSE "release")
  /\ UNCHANGED <<net, sock, hand, obj, tasks>>

(* io_modify(EPOLLIN): of tcp_tx_syn, which closes the link if it fails,   *)
(* and the last step of __tcp_syn_dpc, which ignores the result.           *)
Modify(t) ==
  /\ IF Registered THEN Interest("in") ELSE UNCHANGED sock
  /\ Goto(t, "modify", IF how = "accept" THEN "release"
                       ELSE IF Registered THEN "setread" ELSE "close")
  /\ UNCHANGED <<net, hand, obj, tasks>>

tcp_tx_syn(t) == SynResult(t) \/ Modify(t) \/ SetRead(t) \/ SetWrite(t) \/ PostUp(t)

UserStep == \/ tcp_connect \/ tcp_connect2 \/ SetUp \/ Attach
            \/ tcp_tx_syn("user") \/ Close("user") \/ Release("user")

-----------------------------------------------------------------------------
(***************************************************************************)
(* The epoll thread of the link.                                           *)
(***************************************************************************)

EpollWait ==
  /\ rdy /\ rdy' = FALSE
  /\ Goto("epoll", "wait", IF Hangup THEN "close"
                           ELSE IF mask = "in" /\ unread > 0 THEN "refr in"
                           ELSE IF mask = "out" /\ conn = "est" THEN "refr out"
                           ELSE "wait")
  /\ UNCHANGED <<net, conn, unread, mask, hand, obj, tasks>>

EpollRefr ==
  /\ \/ /\ objrefr("epoll")
        /\ Goto("epoll", "refr in", "read") \/ Goto("epoll", "refr out", "queued")
     \/ /\ stat # "open" /\ UNCHANGED obj
        /\ Goto("epoll", "refr in", "wait") \/ Goto("epoll", "refr out", "wait")
  /\ UNCHANGED <<net, sock, hand, tasks>>

(* __iorun reads the handler once; without one the event is gone.          *)
EpollRead ==
  /\ \/ hread = "null" /\ Goto("epoll", "read", "release") /\ deaf' = sent /\ UNCHANGED due
     \/ hread = "rx" /\ Goto("epoll", "read", "recv") /\ due' = sent /\ UNCHANGED deaf
  /\ UNCHANGED <<how, faults, fin, err, sent, lost, sock, hand, obj, tasks>>

(* A faulty variant: one recv(2) is all.                                   *)
EpollRecvOnce ==
  /\ \/ /\ conn = "est" /\ unread > 0
        /\ unread' = unread - 1
        /\ Post("data")
        /\ Goto("epoll", "recv", "release")
     \/ /\ conn = "closed" \/ (unread = 0 /\ Hangup)
        /\ Goto("epoll", "recv", "close") /\ UNCHANGED <<unread, events>>
     \/ /\ conn = "est" /\ unread = 0 /\ ~Hangup
        /\ Goto("epoll", "recv", "release") /\ UNCHANGED <<unread, events>>
  /\ UNCHANGED <<net, conn, mask, rdy, hand, stat, holders, tasks>>

(* tcp_rx: recv(2) until there is nothing left.                            *)
EpollRecv ==
  /\ \/ /\ conn = "est" /\ unread > 0
        /\ unread' = unread - 1
        /\ Post("data")
        /\ Goto("epoll", "recv", "recv")
     \/ /\ conn = "closed" \/ (unread = 0 /\ Hangup)
        /\ Goto("epoll", "recv", "close") /\ UNCHANGED <<unread, events>>
     \/ /\ conn = "est" /\ unread = 0 /\ ~Hangup
        /\ Goto("epoll", "recv", "release") /\ UNCHANGED <<unread, events>>
  /\ UNCHANGED <<net, conn, mask, rdy, hand, stat, holders, tasks>>

(* Its result is ignored, and the edge is spent.                           *)
wp_queued ==
  /\ Goto("epoll", "queued", "release")
  /\ \/ tasks' = tasks + 1 /\ UNCHANGED lost
     \/ "oom" \in faults /\ lost' = TRUE /\ UNCHANGED tasks
  /\ UNCHANGED <<how, faults, fin, err, sent, deaf, due, sock, hand, obj>>

EpollStep == \/ EpollWait \/ EpollRefr \/ EpollRead \/ EpollRecv \/ wp_queued
             \/ Close("epoll") \/ Release("epoll")

-----------------------------------------------------------------------------
(***************************************************************************)
(* The pool thread, and a user who destroys the link.                      *)
(***************************************************************************)

(* __wp_get_task                                                           *)
PoolGet ==
  /\ tasks > 0 /\ tasks' = tasks - 1
  /\ Goto("pool", "wait", "refr")
  /\ UNCHANGED <<net, sock, hand, obj>>

PoolRefr ==
  /\ \/ Goto("pool", "refr", "exec") /\ objrefr("pool")
     \/ Goto("pool", "refr", "wait") /\ stat # "open" /\ UNCHANGED obj
  /\ UNCHANGED <<net, sock, hand, tasks>>

(* __wp_exec calls ncb_write; tcp_tx finds nothing to send, or a           *)
(* connection it must not send on.                                         *)
PoolExec ==
  /\ Goto("pool", "exec", IF hwrite = "syn" THEN "syn"
                          ELSE IF hwrite = "tx" /\ Hangup THEN "close" ELSE "release")
  /\ UNCHANGED <<net, sock, hand, obj, tasks>>

PoolStep == \/ PoolGet \/ PoolRefr \/ PoolExec \/ tcp_tx_syn("pool")
            \/ Close("pool") \/ Release("pool")

(* The user has had the handle since tcp_create, or since the accepted     *)
(* event.                                                                  *)
DestroyBegin ==
  /\ "destroy" \in faults
  /\ how = "accept" => \E i \in 1 .. Len(events) : events[i] = "accepted"
  /\ stat = "open" /\ stat' = "closing"
  /\ holders' = holders \cup {"destroy"}
  /\ Goto("destroy", "wait", "io_close")
  /\ UNCHANGED <<net, sock, hand, events, tasks>>

DestroyClose ==
  /\ Goto("destroy", "io_close", "release")
  /\ io_close
  /\ UNCHANGED <<net, hand, obj, tasks>>

-----------------------------------------------------------------------------
(***************************************************************************)
(* The peer.                                                               *)
(***************************************************************************)

Attached == mask # "off"

Established ==
  /\ conn = "syn" /\ ~err /\ conn' = "est"
  /\ rdy' = (rdy \/ mask = "out")
  /\ UNCHANGED <<net, unread, mask, hand, obj, tasks, pc>>

Refused ==
  /\ "fail" \in faults
  /\ conn = "syn" /\ ~err /\ err' = TRUE
  /\ rdy' = (rdy \/ Attached)
  /\ UNCHANGED <<env, conn, fin, sent, unread, mask, hand, obj, tasks, pc>>

(* An event mask without EPOLLIN filters the wake-up.                      *)
Data ==
  /\ conn = "est" /\ ~Hangup /\ sent < MaxData
  /\ sent' = sent + 1 /\ unread' = unread + 1
  /\ rdy' = (rdy \/ mask = "in")
  /\ UNCHANGED <<env, conn, fin, err, mask, hand, obj, tasks, pc>>

Break ==
  /\ conn = "est" /\ ~err
  /\ \/ "fin" \in faults /\ ~fin /\ fin' = TRUE /\ UNCHANGED err
     \/ "reset" \in faults /\ err' = TRUE /\ UNCHANGED fin
  /\ rdy' = (rdy \/ Attached)
  /\ UNCHANGED <<env, conn, sent, unread, mask, hand, obj, tasks, pc>>

-----------------------------------------------------------------------------
Next ==
  \/ Enter \/ UserStep
  \/ EpollStep
  \/ PoolStep
  \/ DestroyBegin \/ DestroyClose \/ Release("destroy")
  \/ Established \/ Refused \/ Data \/ Break

Spec == Init /\ [][Next]_vars

(* Threads inside the library do not stop.                                 *)
FairSpec ==
  /\ Spec
  /\ WF_vars(UserStep) /\ WF_vars(EpollStep) /\ WF_vars(PoolStep)
  /\ WF_vars(DestroyClose) /\ WF_vars(Release("destroy"))

-----------------------------------------------------------------------------
(* Every variable keeps its type; __wp_get_task never takes a task from an *)
(* empty list.                                                             *)
TypeOK ==
  /\ how \in Hows /\ faults \in FaultSets
  /\ conn \in {"new", "syn", "est", "closed"}
  /\ fin \in BOOLEAN /\ err \in BOOLEAN /\ rdy \in BOOLEAN
  /\ sent \in 0 .. MaxData /\ unread \in 0 .. MaxData
  /\ mask \in {"off", "none", "in", "out"}
  /\ hread \in {"null", "rx"} /\ hwrite \in {"null", "syn", "tx"}
  /\ stat \in {"open", "closing", "closed"}
  /\ holders \subseteq Threads
  /\ events \in Seq({"accepted", "connected", "data", "preclose", "closed"})
  /\ tasks \in Nat
  /\ deaf \in 0 .. MaxData /\ due \in 0 .. MaxData /\ lost \in BOOLEAN
  /\ pc \in [Threads -> {"idle", "setup", "connect", "attach", "post", "setread",
                         "setwrite", "syn", "modify", "close", "release", "done",
                         "wait", "refr in", "refr out", "read", "recv", "queued",
                         "refr", "exec", "io_close"}]

At(e) == {i \in 1 .. Len(events) : events[i] = e}

(* The user sees preclose and closed once each, as the last two callbacks: *)
(* no thread still in the library calls back on a link whose context the   *)
(* user has given up (ncb_deconstruct).  The comment tcp.c:427-428, that a *)
(* close may be posted before connected, is outdated: the reference of     *)
(* tcp_connect keeps the destructor away until connected is posted.        *)
ClosedIsLast ==
  \A i \in At("closed") \cup At("preclose") :
    \/ events[i] = "closed" /\ i = Len(events)
    \/ events[i] = "preclose" /\ i = Len(events) - 1

(* Data never comes before the event that announces the link: __tcp_syn_dpc*)
(* withholds EPOLLIN until then, tcp_connect the handler.  tcp_connect2    *)
(* promises no such order.                                                 *)
AnnouncedFirst ==
  how # "connect2" =>
    \A i \in At("data") : \E j \in At("accepted") \cup At("connected") : j < i

(* Input of a link that listens to EPOLLIN is read or is going to be: an   *)
(* edge is reported once, so it must not be spent on a link without a read *)
(* handler.  That can happen while tcp_connect and tcp_tx_syn set it, after*)
(* they listen to EPOLLIN: then the input waits for the peer's next        *)
(* segment.  It cannot for an accepted link (__tcp_syn_dpc).               *)
NoUnheardInput ==
  stat = "open" /\ conn = "est" /\ mask = "in" /\ unread > 0 =>
    \/ rdy \/ pc["epoll"] \in {"refr in", "read", "recv", "close"}
    \/ how # "accept" /\ deaf = sent

(* EPOLLRDHUP closes a link without a last recv(2), so what the peer sent  *)
(* with its FIN may be lost; but what had come when tcp_rx was called is   *)
(* delivered before the link is closed, unless the user destroys it.       *)
DueDelivered ==
  stat = "closed" /\ pc["destroy"] = "wait" => Cardinality(At("data")) >= due

(* A link is closed only because the user or the peer wanted it.  Nothing  *)
(* is said where memory may run out or connect(2) may succeed at once: then*)
(* the library closes links on its own.                                    *)
ClosedForCause ==
  stat # "open" =>
    fin \/ err \/ pc["destroy"] # "wait" \/ faults \cap {"oom", "immediate"} # {}

(* The callbacks of a link: none before it is announced, none after closed, *)
(* and closed only for a cause, whichever of the four threads closes it.   *)
CallbackOrder == TypeOK /\ ClosedIsLast /\ AnnouncedFirst /\ ClosedForCause

(* A connection that is refused, reset or ended by the peer, at whatever   *)
(* moment of the set-up, is noticed and its descriptor released, unless    *)
(* connect(2) had succeeded at once (tcp_connect2 ignores what tcp_tx_syn  *)
(* returns).                                                               *)
HangupEventuallyClosed ==
  (fin \/ err) /\ "immediate" \notin faults ~> stat = "closed"

(* A connect in progress that succeeds has an outcome the user hears of,   *)
(* also when memory runs out, as long as the task that would report it was *)
(* queued: __iorun ignores that wp_queued found no memory, and such a link *)
(* stays open and silent.  Nothing is said of connect(2) that succeeds at  *)
(* once.  It "must be handled" (src/README:6), but tcp_tx_syn then runs    *)
(* before io_attach: its io_modify fails and closes the good connection,   *)
(* and one that is reset before stays open outside the epoll instance, the *)
(* leaked descriptor that tcp.c:515-517 warns of.                          *)
ConnectAnswered ==
  conn = "est" /\ "immediate" \notin faults ~>
    At("connected") \cup At("accepted") # {} \/ stat = "closed" \/ lost
=============================================================================
