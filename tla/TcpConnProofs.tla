---------------------------- MODULE TcpConnProofs ---------------------------
(***************************************************************************)
(* Proofs about the set-up of a TCP link, for all three ways, any set of   *)
(* faults and any amount of data.                                          *)
(***************************************************************************)
EXTENDS TcpConn, FiniteSetTheorems, SequenceTheorems, TLAPS

Events == {"accepted", "connected", "data", "preclose", "closed"}

(* Where each thread may be, and the reference it holds there.  The epoll  *)
(* thread closes with one or without.                                      *)
Places ==
  /\ pc["user"] \in {"idle", "setup", "connect", "attach", "post", "setread", "setwrite",
                     "syn", "modify", "close", "release", "done"}
  /\ pc["epoll"] \in {"wait", "refr in", "refr out", "read", "recv", "queued", "close",
                      "release"}
  /\ pc["pool"] \in {"wait", "refr", "exec", "syn", "modify", "setread", "setwrite",
                     "post", "close", "release"}
  /\ pc["destroy"] \in {"wait", "io_close", "release", "done"}

Held ==
  /\ "user" \in holders <=> pc["user"] \notin {"idle", "done"}
  /\ pc["epoll"] \in {"read", "recv", "queued", "release"} => "epoll" \in holders
  /\ "epoll" \in holders => pc["epoll"] \in {"read", "recv", "queued", "release", "close"}
  /\ "pool" \in holders <=> pc["pool"] \notin {"wait", "refr"}
  /\ "destroy" \in holders <=> pc["destroy"] \in {"io_close", "release"}
  /\ stat = "closed" => holders = {}
  /\ conn = "closed" => stat = "closed" \/ pc["destroy"] \in {"release", "done"}

(* What each way of setting a link up has done so far.                     *)
Ways ==
  /\ how \in {"connect", "accept"} => hwrite # "syn"
  /\ pc["pool"] \in {"syn", "modify", "setread", "setwrite", "post"} => how = "connect2"
  /\ pc["user"] \in {"syn", "modify"} =>
       how = "accept" \/ (how = "connect2" /\ "immediate" \in faults)
  /\ pc["user"] = "syn" => how = "connect2"
  /\ how = "connect" => pc["user"] # "setup" /\ mask \in {"off", "in"}
  /\ how = "accept" => mask # "out" /\ conn \notin {"new", "syn"}
                       /\ pc["user"] \notin {"idle", "connect", "setread", "setwrite"}

(* An accepted link has its handlers before it can have events.            *)
HandlersFirst ==
  /\ how = "accept" /\ (mask # "off" \/ pc["user"] \in {"attach", "post", "modify"})
       => hread = "rx"
  /\ how = "accept" /\ pc["epoll"] \in {"refr in", "read", "recv"} => hread = "rx"

(* What the pool is asked to do was reported by epoll first.               *)
Asked ==
  tasks > 0 \/ pc["pool"] \notin {"wait", "close", "release"}
      \/ pc["epoll"] \in {"refr out", "queued"}
    => mask # "off" \/ conn = "closed"

(* The last callbacks have been made only when the object is gone, and     *)
(* what the user has seen so far is in order.                              *)
Ended ==
  /\ \A i \in 1 .. Len(events) : events[i] \in {"preclose", "closed"} => stat = "closed"
  /\ ClosedIsLast /\ AnnouncedFirst

(* The link has been announced before its input is read.                   *)
Announced == \E j \in 1 .. Len(events) : events[j] \in {"accepted", "connected"}

InputAfter ==
  /\ how = "connect" /\ (hread = "rx" \/ pc["user"] = "setread" \/ pc["epoll"] = "recv")
       => Announced
  /\ how = "accept" /\ (mask = "in" \/ pc["user"] = "modify"
                          \/ pc["epoll"] \in {"refr in", "read", "recv"})
       => Announced

(* Every segment recv(2) has returned was given to the user.               *)
Delivered == Cardinality(At("data"))

Received ==
  /\ Delivered + unread = sent
  /\ due <= sent /\ deaf <= sent
  /\ conn \in {"new", "syn"} => sent = 0
  /\ pc["epoll"] # "recv" /\ pc["destroy"] = "wait" => Delivered >= due

Cause ==
  fin \/ err \/ pc["destroy"] # "wait" \/ faults \cap {"oom", "immediate"} # {}

(* Whoever closes the link has a reason.                                   *)
Caused ==
  /\ "close" \in {pc["user"], pc["epoll"], pc["pool"]} => Cause
  /\ ClosedForCause

IInv == TypeOK /\ Places /\ Held /\ Ways /\ HandlersFirst /\ Asked /\ Ended /\ InputAfter
          /\ Received /\ Caused /\ NoUnheardInput

-----------------------------------------------------------------------------
Place == {"idle", "setup", "connect", "attach", "post", "setread", "setwrite", "syn",
          "modify", "close", "release", "done", "wait", "refr in", "refr out", "read",
          "recv", "queued", "refr", "exec", "io_close"}

(* Every thread is somewhere, and the link is set up in one of three ways. *)
Placed == pc \in [Threads -> Place]

OneWay == how \in {"connect", "connect2", "accept"}

(* The groups of variables a step leaves alone, spelled out.               *)
LEMMA Kept ==
  /\ UNCHANGED net => /\ how' = how /\ faults' = faults /\ deaf' = deaf
                      /\ due' = due /\ lost' = lost
                      /\ fin' = fin /\ err' = err /\ sent' = sent
  /\ UNCHANGED env => how' = how /\ faults' = faults /\ deaf' = deaf
                      /\ due' = due /\ lost' = lost
  /\ UNCHANGED sock => conn' = conn /\ unread' = unread /\ mask' = mask /\ rdy' = rdy
  /\ UNCHANGED hand => hread' = hread /\ hwrite' = hwrite
  /\ UNCHANGED obj => stat' = stat /\ holders' = holders /\ events' = events
BY DEF net, env, hist, sock, hand, obj

-----------------------------------------------------------------------------
(***************************************************************************)
(* What each action does, variable by variable.                            *)
(***************************************************************************)

(* __tcprefr takes a reference, or finds the link gone.                    *)
LEMMA EnterDoes ==
  ASSUME Placed, Enter
  PROVE  /\ pc["user"] = "idle"
         /\ \/ stat = "open" /\ holders' = holders \cup {"user"} /\ pc'["user"] = "connect"
            \/ stat # "open" /\ holders' = holders /\ pc'["user"] = "done"
         /\ pc'["epoll"] = pc["epoll"] /\ pc'["pool"] = pc["pool"] /\ pc'["destroy"] = pc["destroy"]
         /\ UNCHANGED <<how, faults, conn, fin, err, sent, unread, mask, rdy, hread, hwrite,
                        stat, events, tasks, deaf, due, lost>>
<1>1. /\ pc["user"] = "idle"
      /\ \/ stat = "open" /\ holders' = holders \cup {"user"} /\ pc'["user"] = "connect"
         \/ stat # "open" /\ holders' = holders /\ pc'["user"] = "done"
      /\ pc'["epoll"] = pc["epoll"] /\ pc'["pool"] = pc["pool"] /\ pc'["destroy"] = pc["destroy"]
  BY Kept DEF Enter, Goto, Placed, Threads, objrefr
<1>2. UNCHANGED <<how, faults, conn, fin, err, sent, unread, mask, rdy, hread, hwrite,
                  stat, events, tasks, deaf, due, lost>>
  BY Kept DEF Enter, objrefr
<1> QED
  BY <1>1, <1>2

(* connect(2) of tcp_connect succeeds or fails.                            *)
LEMMA tcp_connectDoes ==
  ASSUME Placed, tcp_connect
  PROVE  /\ how = "connect" /\ pc["user"] = "connect"
         /\ \/ conn = "new" /\ conn' = "est" /\ pc'["user"] = "attach"
            \/ conn' = conn /\ pc'["user"] = "release"
         /\ pc'["epoll"] = pc["epoll"] /\ pc'["pool"] = pc["pool"] /\ pc'["destroy"] = pc["destroy"]
         /\ UNCHANGED <<how, faults, fin, err, sent, unread, mask, rdy, hread, hwrite, stat,
                        holders, events, tasks, deaf, due, lost>>
<1>1. /\ how = "connect" /\ pc["user"] = "connect"
      /\ \/ conn = "new" /\ conn' = "est" /\ pc'["user"] = "attach"
         \/ conn' = conn /\ pc'["user"] = "release"
      /\ pc'["epoll"] = pc["epoll"] /\ pc'["pool"] = pc["pool"] /\ pc'["destroy"] = pc["destroy"]
  BY Kept DEF tcp_connect, Goto, Placed, Threads
<1>2. UNCHANGED <<how, faults, fin, err, sent, unread, mask, rdy, hread, hwrite, stat,
                  holders, events, tasks, deaf, due, lost>>
  BY Kept DEF tcp_connect
<1> QED
  BY <1>1, <1>2

(* tcp_connect2 takes ncb_write for tcp_tx_syn, unless it finds the link closed. *)
LEMMA tcp_connect2Does ==
  ASSUME Placed, tcp_connect2
  PROVE  /\ how = "connect2" /\ pc["user"] = "connect"
         /\ \/ conn = "new" /\ conn' = "syn" /\ hwrite' = "syn" /\ pc'["user"] = "attach"
            \/ conn = "new" /\ conn' = "est" /\ hwrite' = "syn" /\ "immediate" \in faults /\ pc'["user"] = "syn"
            \/ conn' = conn /\ hwrite' \in {hwrite, "syn"} /\ pc'["user"] = "release"
         /\ pc'["epoll"] = pc["epoll"] /\ pc'["pool"] = pc["pool"] /\ pc'["destroy"] = pc["destroy"]
         /\ UNCHANGED <<how, faults, fin, err, sent, unread, mask, rdy, hread, stat,
                        holders, events, tasks, deaf, due, lost>>
<1>1. /\ how = "connect2" /\ pc["user"] = "connect"
      /\ \/ conn = "new" /\ conn' = "syn" /\ hwrite' = "syn" /\ pc'["user"] = "attach"
         \/ conn = "new" /\ conn' = "est" /\ hwrite' = "syn" /\ "immediate" \in faults /\ pc'["user"] = "syn"
         \/ conn' = conn /\ hwrite' \in {hwrite, "syn"} /\ pc'["user"] = "release"
      /\ pc'["epoll"] = pc["epoll"] /\ pc'["pool"] = pc["pool"] /\ pc'["destroy"] = pc["destroy"]
  BY Kept DEF tcp_connect2, Goto, Placed, Threads
<1>2. UNCHANGED <<how, faults, fin, err, sent, unread, mask, rdy, hread, stat,
                  holders, events, tasks, deaf, due, lost>>
  BY Kept DEF tcp_connect2
<1> QED
  BY <1>1, <1>2

(* __tcp_syn_dpc sets both handlers, or runs out of memory.                *)
LEMMA SetUpDoes ==
  ASSUME Placed, SetUp
  PROVE  /\ pc["user"] = "setup"
         /\ \/ hread' = "rx" /\ hwrite' = "tx" /\ pc'["user"] = "attach"
            \/ UNCHANGED <<hread, hwrite>> /\ "oom" \in faults /\ pc'["user"] = "close"
         /\ pc'["epoll"] = pc["epoll"] /\ pc'["pool"] = pc["pool"] /\ pc'["destroy"] = pc["destroy"]
         /\ UNCHANGED <<how, faults, conn, fin, err, sent, unread, mask, rdy, stat, holders,
                        events, tasks, deaf, due, lost>>
<1>1. /\ pc["user"] = "setup"
      /\ \/ hread' = "rx" /\ hwrite' = "tx" /\ pc'["user"] = "attach"
         \/ UNCHANGED <<hread, hwrite>> /\ "oom" \in faults /\ pc'["user"] = "close"
      /\ pc'["epoll"] = pc["epoll"] /\ pc'["pool"] = pc["pool"] /\ pc'["destroy"] = pc["destroy"]
  BY Kept DEF SetUp, Goto, Placed, Threads
<1>2. UNCHANGED <<how, faults, conn, fin, err, sent, unread, mask, rdy, stat, holders,
                  events, tasks, deaf, due, lost>>
  BY Kept DEF SetUp
<1> QED
  BY <1>1, <1>2

(* io_attach puts the link in the epoll instance, or fails and closes it.  *)
LEMMA AttachDoes ==
  ASSUME Placed, Attach
  PROVE  /\ pc["user"] = "attach"
         /\ \/ /\ conn # "closed" /\ (rdy \/ (mask' = "in" /\ unread > 0) => rdy')
               /\ how = "connect" => mask' = "in" /\ pc'["user"] = "post"
               /\ how = "connect2" => mask' = "out" /\ pc'["user"] = "release"
               /\ how = "accept" => mask' = "none" /\ pc'["user"] = "post"
            \/ /\ conn = "closed" \/ "oom" \in faults
               /\ UNCHANGED <<mask, rdy>> /\ pc'["user"] = "close"
         /\ pc'["epoll"] = pc["epoll"] /\ pc'["pool"] = pc["pool"] /\ pc'["destroy"] = pc["destroy"]
         /\ UNCHANGED <<how, faults, conn, fin, err, sent, unread, hread, hwrite, stat,
                        holders, events, tasks, deaf, due, lost>>
<1>1. /\ pc["user"] = "attach"
      /\ \/ /\ conn # "closed" /\ (rdy \/ (mask' = "in" /\ unread > 0) => rdy')
            /\ how = "connect" => mask' = "in" /\ pc'["user"] = "post"
            /\ how = "connect2" => mask' = "out" /\ pc'["user"] = "release"
            /\ how = "accept" => mask' = "none" /\ pc'["user"] = "post"
         \/ /\ conn = "closed" \/ "oom" \in faults
            /\ UNCHANGED <<mask, rdy>> /\ pc'["user"] = "close"
      /\ pc'["epoll"] = pc["epoll"] /\ pc'["pool"] = pc["pool"] /\ pc'["destroy"] = pc["destroy"]
  BY Kept DEF Attach, Goto, Placed, Threads, Interest, Ready, FirstMask
<1>2. UNCHANGED <<how, faults, conn, fin, err, sent, unread, hread, hwrite, stat,
                  holders, events, tasks, deaf, due, lost>>
  BY Kept DEF Attach, Interest, Ready, FirstMask
<1> QED
  BY <1>1, <1>2

(* tcp_tx_syn looks at the outcome of the connect.                         *)
LEMMA SynResultDoes ==
  ASSUME Placed, NEW t \in {"user", "pool"}, SynResult(t)
  PROVE  /\ pc[t] = "syn"
         /\ \/ pc'[t] = "modify"
            \/ t = "pool" /\ pc'[t] = "close" /\ (err \/ conn = "closed")
            \/ t = "user" /\ pc'[t] = "release"
         /\ \A s \in Threads \ {t} : pc'[s] = pc[s]
         /\ UNCHANGED <<how, faults, conn, fin, err, sent, unread, mask, rdy, hread, hwrite,
                        stat, holders, events, tasks, deaf, due, lost>>
<1>1. /\ pc[t] = "syn"
      /\ \/ pc'[t] = "modify"
         \/ t = "pool" /\ pc'[t] = "close" /\ (err \/ conn = "closed")
         \/ t = "user" /\ pc'[t] = "release"
      /\ \A s \in Threads \ {t} : pc'[s] = pc[s]
  BY Kept DEF SynResult, Goto, Placed, Threads
<1>2. UNCHANGED <<how, faults, conn, fin, err, sent, unread, mask, rdy, hread, hwrite,
                  stat, holders, events, tasks, deaf, due, lost>>
  BY Kept DEF SynResult
<1> QED
  BY <1>1, <1>2

(* io_modify(EPOLLIN) succeeds exactly on a link that is in the instance.  *)
LEMMA ModifyDoes ==
  ASSUME Placed, NEW t \in {"user", "pool"}, Modify(t)
  PROVE  /\ pc[t] = "modify"
         /\ \/ /\ conn # "closed" /\ mask # "off" /\ mask' = "in" /\ (rdy \/ unread > 0 => rdy')
               /\ pc'[t] = IF how = "accept" THEN "release" ELSE "setread"
            \/ /\ mask = "off" \/ conn = "closed"
               /\ UNCHANGED <<mask, rdy>>
               /\ pc'[t] = IF how = "accept" THEN "release" ELSE "close"
         /\ \A s \in Threads \ {t} : pc'[s] = pc[s]
         /\ UNCHANGED <<how, faults, conn, fin, err, sent, unread, hread, hwrite, stat,
                        holders, events, tasks, deaf, due, lost>>
<1>1. /\ pc[t] = "modify"
      /\ \/ /\ conn # "closed" /\ mask # "off" /\ mask' = "in" /\ (rdy \/ unread > 0 => rdy')
            /\ pc'[t] = IF how = "accept" THEN "release" ELSE "setread"
         \/ /\ mask = "off" \/ conn = "closed"
            /\ UNCHANGED <<mask, rdy>>
            /\ pc'[t] = IF how = "accept" THEN "release" ELSE "close"
      /\ \A s \in Threads \ {t} : pc'[s] = pc[s]
  BY Kept DEF Modify, Goto, Placed, Threads, Interest, Ready, Registered
<1>2. UNCHANGED <<how, faults, conn, fin, err, sent, unread, hread, hwrite, stat,
                  holders, events, tasks, deaf, due, lost>>
  BY Kept DEF Modify, Interest, Ready, Registered
<1> QED
  BY <1>1, <1>2

(* The read handler is set.                                                *)
LEMMA SetReadDoes ==
  ASSUME Placed, NEW t \in {"user", "pool"}, SetRead(t)
  PROVE  /\ pc[t] = "setread" /\ pc'[t] = "setwrite"
         /\ hread' = "rx"
         /\ \A s \in Threads \ {t} : pc'[s] = pc[s]
         /\ UNCHANGED <<how, faults, conn, fin, err, sent, unread, mask, rdy, hwrite, stat,
                        holders, events, tasks, deaf, due, lost>>
<1>1. /\ pc[t] = "setread" /\ pc'[t] = "setwrite"
      /\ hread' = "rx"
      /\ \A s \in Threads \ {t} : pc'[s] = pc[s]
  BY Kept DEF SetRead, Goto, Placed, Threads
<1>2. UNCHANGED <<how, faults, conn, fin, err, sent, unread, mask, rdy, hwrite, stat,
                  holders, events, tasks, deaf, due, lost>>
  BY Kept DEF SetRead
<1> QED
  BY <1>1, <1>2

(* The write handler is set, last of all in tcp_connect.                   *)
LEMMA SetWriteDoes ==
  ASSUME Placed, NEW t \in {"user", "pool"}, SetWrite(t)
  PROVE  /\ pc[t] = "setwrite" /\ hwrite' = "tx"
         /\ pc'[t] = IF how = "connect" THEN "release" ELSE "post"
         /\ \A s \in Threads \ {t} : pc'[s] = pc[s]
         /\ UNCHANGED <<how, faults, conn, fin, err, sent, unread, mask, rdy, hread, stat,
                        holders, events, tasks, deaf, due, lost>>
<1>1. /\ pc[t] = "setwrite" /\ hwrite' = "tx"
      /\ pc'[t] = IF how = "connect" THEN "release" ELSE "post"
      /\ \A s \in Threads \ {t} : pc'[s] = pc[s]
  BY Kept DEF SetWrite, Goto, Placed, Threads
<1>2. UNCHANGED <<how, faults, conn, fin, err, sent, unread, mask, rdy, hread, stat,
                  holders, events, tasks, deaf, due, lost>>
  BY Kept DEF SetWrite
<1> QED
  BY <1>1, <1>2

(* The link is announced.                                                  *)
LEMMA PostUpDoes ==
  ASSUME Placed, NEW t \in {"user", "pool"}, PostUp(t)
  PROVE  /\ pc[t] = "post"
         /\ how = "connect" => pc'[t] = "setread"
         /\ how = "connect2" => pc'[t] = "release"
         /\ how = "accept" => pc'[t] = "modify"
         /\ events' = Append(events, IF how = "accept" THEN "accepted" ELSE "connected")
         /\ \A s \in Threads \ {t} : pc'[s] = pc[s]
         /\ UNCHANGED <<how, faults, conn, fin, err, sent, unread, mask, rdy, hread, hwrite,
                        stat, holders, tasks, deaf, due, lost>>
<1>1. /\ pc[t] = "post"
      /\ how = "connect" => pc'[t] = "setread"
      /\ how = "connect2" => pc'[t] = "release"
      /\ how = "accept" => pc'[t] = "modify"
      /\ events' = Append(events, IF how = "accept" THEN "accepted" ELSE "connected")
      /\ \A s \in Threads \ {t} : pc'[s] = pc[s]
  BY Kept DEF PostUp, Goto, Placed, Threads, Post
<1>2. UNCHANGED <<how, faults, conn, fin, err, sent, unread, mask, rdy, hread, hwrite,
                  stat, holders, tasks, deaf, due, lost>>
  BY Kept DEF PostUp, Post
<1> QED
  BY <1>1, <1>2

(* objclos finalizes an object nobody holds and marks one that is held.    *)
LEMMA CloseDoes ==
  ASSUME Placed, NEW t \in {"user", "epoll", "pool"}, Close(t)
  PROVE  /\ pc[t] = "close"
         /\ pc'[t] = IF t \in holders THEN "release" ELSE "wait"
         /\ \/ /\ stat = "open" /\ holders = {}
               /\ stat' = "closed" /\ conn' = "closed" /\ mask' = "off" /\ ~rdy'
               /\ events' = events \o <<"preclose", "closed">>
            \/ /\ stat = "open" => holders # {}
               /\ stat' = IF stat = "open" THEN "closing" ELSE stat
               /\ UNCHANGED <<conn, mask, rdy, events>>
         /\ \A s \in Threads \ {t} : pc'[s] = pc[s]
         /\ UNCHANGED <<how, faults, fin, err, sent, unread, hread, hwrite, holders, tasks,
                        deaf, due, lost>>
<1>1. /\ pc[t] = "close"
      /\ pc'[t] = IF t \in holders THEN "release" ELSE "wait"
      /\ \/ /\ stat = "open" /\ holders = {}
            /\ stat' = "closed" /\ conn' = "closed" /\ mask' = "off" /\ ~rdy'
            /\ events' = events \o <<"preclose", "closed">>
         \/ /\ stat = "open" => holders # {}
            /\ stat' = IF stat = "open" THEN "closing" ELSE stat
            /\ UNCHANGED <<conn, mask, rdy, events>>
      /\ \A s \in Threads \ {t} : pc'[s] = pc[s]
  BY Kept DEF Close, Goto, Placed, Threads, objclos, ncb_deconstruct, io_close
<1>2. UNCHANGED <<how, faults, fin, err, sent, unread, hread, hwrite, holders, tasks,
                  deaf, due, lost>>
  BY Kept DEF Close, objclos, ncb_deconstruct, io_close
<1> QED
  BY <1>1, <1>2

(* objdefr finalizes a closing object with the last reference.             *)
LEMMA ReleaseDoes ==
  ASSUME Placed, NEW t \in Threads, Release(t)
  PROVE  /\ pc[t] = "release"
         /\ pc'[t] = IF t \in {"user", "destroy"} THEN "done" ELSE "wait"
         /\ holders' = holders \ {t}
         /\ \/ /\ stat = "closing" /\ holders = {t}
               /\ stat' = "closed" /\ conn' = "closed" /\ mask' = "off" /\ ~rdy'
               /\ events' = events \o <<"preclose", "closed">>
            \/ /\ stat = "closing" => holders # {t}
               /\ UNCHANGED <<stat, conn, mask, rdy, events>>
         /\ \A s \in Threads \ {t} : pc'[s] = pc[s]
         /\ UNCHANGED <<how, faults, fin, err, sent, unread, hread, hwrite, tasks, deaf,
                        due, lost>>
<1>1. /\ pc[t] = "release"
      /\ pc'[t] = IF t \in {"user", "destroy"} THEN "done" ELSE "wait"
      /\ holders' = holders \ {t}
      /\ \/ /\ stat = "closing" /\ holders = {t}
            /\ stat' = "closed" /\ conn' = "closed" /\ mask' = "off" /\ ~rdy'
            /\ events' = events \o <<"preclose", "closed">>
         \/ /\ stat = "closing" => holders # {t}
            /\ UNCHANGED <<stat, conn, mask, rdy, events>>
      /\ \A s \in Threads \ {t} : pc'[s] = pc[s]
  BY Kept DEF Release, Goto, Placed, Threads, objdefr, ncb_deconstruct, io_close
<1>2. UNCHANGED <<how, faults, fin, err, sent, unread, hread, hwrite, tasks, deaf,
                  due, lost>>
  BY Kept DEF Release, objdefr, ncb_deconstruct, io_close
<1> QED
  BY <1>1, <1>2

(* epoll_wait reports what is present, which spends the edge.              *)
LEMMA EpollWaitDoes ==
  ASSUME Placed, EpollWait
  PROVE  /\ pc["epoll"] = "wait" /\ rdy /\ ~rdy'
         /\ \/ (fin \/ err) /\ pc'["epoll"] = "close"
            \/ mask = "in" /\ unread > 0 /\ pc'["epoll"] = "refr in"
            \/ mask = "out" /\ conn = "est" /\ pc'["epoll"] = "refr out"
            \/ ~(mask = "in" /\ unread > 0) /\ pc'["epoll"] = "wait"
         /\ pc'["user"] = pc["user"] /\ pc'["pool"] = pc["pool"] /\ pc'["destroy"] = pc["destroy"]
         /\ UNCHANGED <<how, faults, conn, fin, err, sent, unread, mask, hread, hwrite,
                        stat, holders, events, tasks, deaf, due, lost>>
<1>1. /\ pc["epoll"] = "wait" /\ rdy /\ ~rdy'
      /\ \/ (fin \/ err) /\ pc'["epoll"] = "close"
         \/ mask = "in" /\ unread > 0 /\ pc'["epoll"] = "refr in"
         \/ mask = "out" /\ conn = "est" /\ pc'["epoll"] = "refr out"
         \/ ~(mask = "in" /\ unread > 0) /\ pc'["epoll"] = "wait"
      /\ pc'["user"] = pc["user"] /\ pc'["pool"] = pc["pool"] /\ pc'["destroy"] = pc["destroy"]
  BY Kept DEF EpollWait, Goto, Placed, Threads, Hangup
<1>2. UNCHANGED <<how, faults, conn, fin, err, sent, unread, mask, hread, hwrite,
                  stat, holders, events, tasks, deaf, due, lost>>
  BY Kept DEF EpollWait, Hangup
<1> QED
  BY <1>1, <1>2

(* __iorun takes a reference, or finds the link gone.                      *)
LEMMA EpollRefrDoes ==
  ASSUME Placed, EpollRefr
  PROVE  /\ \/ stat = "open" /\ holders' = holders \cup {"epoll"} /\ pc["epoll"] = "refr in" /\ pc'["epoll"] = "read"
            \/ stat = "open" /\ holders' = holders \cup {"epoll"} /\ pc["epoll"] = "refr out" /\ pc'["epoll"] = "queued"
            \/ stat # "open" /\ holders' = holders /\ pc["epoll"] \in {"refr in", "refr out"} /\ pc'["epoll"] = "wait"
         /\ pc'["user"] = pc["user"] /\ pc'["pool"] = pc["pool"] /\ pc'["destroy"] = pc["destroy"]
         /\ UNCHANGED <<how, faults, conn, fin, err, sent, unread, mask, rdy, hread, hwrite,
                        stat, events, tasks, deaf, due, lost>>
<1>1. /\ \/ stat = "open" /\ holders' = holders \cup {"epoll"} /\ pc["epoll"] = "refr in" /\ pc'["epoll"] = "read"
         \/ stat = "open" /\ holders' = holders \cup {"epoll"} /\ pc["epoll"] = "refr out" /\ pc'["epoll"] = "queued"
         \/ stat # "open" /\ holders' = holders /\ pc["epoll"] \in {"refr in", "refr out"} /\ pc'["epoll"] = "wait"
      /\ pc'["user"] = pc["user"] /\ pc'["pool"] = pc["pool"] /\ pc'["destroy"] = pc["destroy"]
  BY Kept DEF EpollRefr, Goto, Placed, Threads, objrefr
<1>2. UNCHANGED <<how, faults, conn, fin, err, sent, unread, mask, rdy, hread, hwrite,
                  stat, events, tasks, deaf, due, lost>>
  BY Kept DEF EpollRefr, objrefr
<1> QED
  BY <1>1, <1>2

(* __iorun calls the read handler, if there is one.                        *)
LEMMA EpollReadDoes ==
  ASSUME Placed, EpollRead
  PROVE  /\ pc["epoll"] = "read"
         /\ \/ hread = "null" /\ pc'["epoll"] = "release" /\ deaf' = sent /\ due' = due
            \/ hread = "rx" /\ pc'["epoll"] = "recv" /\ deaf' = deaf /\ due' = sent
         /\ pc'["user"] = pc["user"] /\ pc'["pool"] = pc["pool"] /\ pc'["destroy"] = pc["destroy"]
         /\ UNCHANGED <<how, faults, conn, fin, err, sent, unread, mask, rdy, hread, hwrite,
                        stat, holders, events, tasks, lost>>
<1>1. /\ pc["epoll"] = "read"
      /\ \/ hread = "null" /\ pc'["epoll"] = "release" /\ deaf' = sent /\ due' = due
         \/ hread = "rx" /\ pc'["epoll"] = "recv" /\ deaf' = deaf /\ due' = sent
      /\ pc'["user"] = pc["user"] /\ pc'["pool"] = pc["pool"] /\ pc'["destroy"] = pc["destroy"]
  BY Kept DEF EpollRead, Goto, Placed, Threads
<1>2. UNCHANGED <<how, faults, conn, fin, err, sent, unread, mask, rdy, hread, hwrite,
                  stat, holders, events, tasks, lost>>
  BY Kept DEF EpollRead
<1> QED
  BY <1>1, <1>2

(* tcp_rx reads until there is nothing left, or finds the link ended.      *)
LEMMA EpollRecvDoes ==
  ASSUME Placed, EpollRecv
  PROVE  /\ pc["epoll"] = "recv"
         /\ \/ /\ conn = "est" /\ unread > 0 /\ unread' = unread - 1
               /\ events' = Append(events, "data") /\ pc'["epoll"] = "recv"
            \/ /\ conn = "closed" \/ (unread = 0 /\ (fin \/ err))
               /\ UNCHANGED <<unread, events>> /\ pc'["epoll"] = "close"
            \/ unread = 0 /\ UNCHANGED <<unread, events>> /\ pc'["epoll"] = "release"
         /\ pc'["user"] = pc["user"] /\ pc'["pool"] = pc["pool"] /\ pc'["destroy"] = pc["destroy"]
         /\ UNCHANGED <<how, faults, conn, fin, err, sent, mask, rdy, hread, hwrite, stat,
                        holders, tasks, deaf, due, lost>>
<1>1. /\ pc["epoll"] = "recv"
      /\ \/ /\ conn = "est" /\ unread > 0 /\ unread' = unread - 1
            /\ events' = Append(events, "data") /\ pc'["epoll"] = "recv"
         \/ /\ conn = "closed" \/ (unread = 0 /\ (fin \/ err))
            /\ UNCHANGED <<unread, events>> /\ pc'["epoll"] = "close"
         \/ unread = 0 /\ UNCHANGED <<unread, events>> /\ pc'["epoll"] = "release"
      /\ pc'["user"] = pc["user"] /\ pc'["pool"] = pc["pool"] /\ pc'["destroy"] = pc["destroy"]
  BY Kept DEF EpollRecv, Goto, Placed, Threads, Post, Hangup
<1>2. UNCHANGED <<how, faults, conn, fin, err, sent, mask, rdy, hread, hwrite, stat,
                  holders, tasks, deaf, due, lost>>
  BY Kept DEF EpollRecv, Post, Hangup
<1> QED
  BY <1>1, <1>2

(* wp_queued adds a task or finds no memory.                               *)
LEMMA wp_queuedDoes ==
  ASSUME Placed, wp_queued
  PROVE  /\ pc["epoll"] = "queued" /\ pc'["epoll"] = "release"
         /\ tasks' \in {tasks, tasks + 1}
         /\ pc'["user"] = pc["user"] /\ pc'["pool"] = pc["pool"] /\ pc'["destroy"] = pc["destroy"]
         /\ UNCHANGED <<how, faults, conn, fin, err, sent, unread, mask, rdy, hread, hwrite,
                        stat, holders, events, deaf, due>>
<1>1. /\ pc["epoll"] = "queued" /\ pc'["epoll"] = "release"
      /\ tasks' \in {tasks, tasks + 1}
      /\ pc'["user"] = pc["user"] /\ pc'["pool"] = pc["pool"] /\ pc'["destroy"] = pc["destroy"]
  BY Kept DEF wp_queued, Goto, Placed, Threads
<1>2. UNCHANGED <<how, faults, conn, fin, err, sent, unread, mask, rdy, hread, hwrite,
                  stat, holders, events, deaf, due>>
  BY Kept DEF wp_queued
<1> QED
  BY <1>1, <1>2

(* __wp_get_task takes a task.                                             *)
LEMMA PoolGetDoes ==
  ASSUME Placed, PoolGet
  PROVE  /\ pc["pool"] = "wait" /\ pc'["pool"] = "refr"
         /\ tasks > 0 /\ tasks' = tasks - 1
         /\ pc'["user"] = pc["user"] /\ pc'["epoll"] = pc["epoll"] /\ pc'["destroy"] = pc["destroy"]
         /\ UNCHANGED <<how, faults, conn, fin, err, sent, unread, mask, rdy, hread, hwrite,
                        stat, holders, events, deaf, due, lost>>
<1>1. /\ pc["pool"] = "wait" /\ pc'["pool"] = "refr"
      /\ tasks > 0 /\ tasks' = tasks - 1
      /\ pc'["user"] = pc["user"] /\ pc'["epoll"] = pc["epoll"] /\ pc'["destroy"] = pc["destroy"]
  BY Kept DEF PoolGet, Goto, Placed, Threads
<1>2. UNCHANGED <<how, faults, conn, fin, err, sent, unread, mask, rdy, hread, hwrite,
                  stat, holders, events, deaf, due, lost>>
  BY Kept DEF PoolGet
<1> QED
  BY <1>1, <1>2

(* __wp_exec takes a reference, or finds the link gone.                    *)
LEMMA PoolRefrDoes ==
  ASSUME Placed, PoolRefr
  PROVE  /\ pc["pool"] = "refr"
         /\ \/ stat = "open" /\ holders' = holders \cup {"pool"} /\ pc'["pool"] = "exec"
            \/ stat # "open" /\ holders' = holders /\ pc'["pool"] = "wait"
         /\ pc'["user"] = pc["user"] /\ pc'["epoll"] = pc["epoll"] /\ pc'["destroy"] = pc["destroy"]
         /\ UNCHANGED <<how, faults, conn, fin, err, sent, unread, mask, rdy, hread, hwrite,
                        stat, events, tasks, deaf, due, lost>>
<1>1. /\ pc["pool"] = "refr"
      /\ \/ stat = "open" /\ holders' = holders \cup {"pool"} /\ pc'["pool"] = "exec"
         \/ stat # "open" /\ holders' = holders /\ pc'["pool"] = "wait"
      /\ pc'["user"] = pc["user"] /\ pc'["epoll"] = pc["epoll"] /\ pc'["destroy"] = pc["destroy"]
  BY Kept DEF PoolRefr, Goto, Placed, Threads, objrefr
<1>2. UNCHANGED <<how, faults, conn, fin, err, sent, unread, mask, rdy, hread, hwrite,
                  stat, events, tasks, deaf, due, lost>>
  BY Kept DEF PoolRefr, objrefr
<1> QED
  BY <1>1, <1>2

(* __wp_exec calls ncb_write.                                              *)
LEMMA PoolExecDoes ==
  ASSUME Placed, PoolExec
  PROVE  /\ pc["pool"] = "exec"
         /\ \/ hwrite = "syn" /\ pc'["pool"] = "syn"
            \/ (fin \/ err) /\ pc'["pool"] = "close"
            \/ pc'["pool"] = "release"
         /\ pc'["user"] = pc["user"] /\ pc'["epoll"] = pc["epoll"] /\ pc'["destroy"] = pc["destroy"]
         /\ UNCHANGED <<how, faults, conn, fin, err, sent, unread, mask, rdy, hread, hwrite,
                        stat, holders, events, tasks, deaf, due, lost>>
<1>1. /\ pc["pool"] = "exec"
      /\ \/ hwrite = "syn" /\ pc'["pool"] = "syn"
         \/ (fin \/ err) /\ pc'["pool"] = "close"
         \/ pc'["pool"] = "release"
      /\ pc'["user"] = pc["user"] /\ pc'["epoll"] = pc["epoll"] /\ pc'["destroy"] = pc["destroy"]
  BY Kept DEF PoolExec, Goto, Placed, Threads, Hangup
<1>2. UNCHANGED <<how, faults, conn, fin, err, sent, unread, mask, rdy, hread, hwrite,
                  stat, holders, events, tasks, deaf, due, lost>>
  BY Kept DEF PoolExec, Hangup
<1> QED
  BY <1>1, <1>2

(* tcp_destroy marks an open object.                                       *)
LEMMA DestroyBeginDoes ==
  ASSUME Placed, DestroyBegin
  PROVE  /\ pc["destroy"] = "wait" /\ pc'["destroy"] = "io_close"
         /\ stat = "open" /\ stat' = "closing" /\ holders' = holders \cup {"destroy"}
         /\ pc'["user"] = pc["user"] /\ pc'["epoll"] = pc["epoll"] /\ pc'["pool"] = pc["pool"]
         /\ UNCHANGED <<how, faults, conn, fin, err, sent, unread, mask, rdy, hread, hwrite,
                        events, tasks, deaf, due, lost>>
<1>1. /\ pc["destroy"] = "wait" /\ pc'["destroy"] = "io_close"
      /\ stat = "open" /\ stat' = "closing" /\ holders' = holders \cup {"destroy"}
      /\ pc'["user"] = pc["user"] /\ pc'["epoll"] = pc["epoll"] /\ pc'["pool"] = pc["pool"]
  BY Kept DEF DestroyBegin, Goto, Placed, Threads
<1>2. UNCHANGED <<how, faults, conn, fin, err, sent, unread, mask, rdy, hread, hwrite,
                  events, tasks, deaf, due, lost>>
  BY Kept DEF DestroyBegin
<1> QED
  BY <1>1, <1>2

(* tcp_destroy closes the descriptor.                                      *)
LEMMA DestroyCloseDoes ==
  ASSUME Placed, DestroyClose
  PROVE  /\ pc["destroy"] = "io_close" /\ pc'["destroy"] = "release"
         /\ conn' = "closed" /\ mask' = "off" /\ ~rdy'
         /\ pc'["user"] = pc["user"] /\ pc'["epoll"] = pc["epoll"] /\ pc'["pool"] = pc["pool"]
         /\ UNCHANGED <<how, faults, fin, err, sent, unread, hread, hwrite, stat, holders,
                        events, tasks, deaf, due, lost>>
<1>1. /\ pc["destroy"] = "io_close" /\ pc'["destroy"] = "release"
      /\ conn' = "closed" /\ mask' = "off" /\ ~rdy'
      /\ pc'["user"] = pc["user"] /\ pc'["epoll"] = pc["epoll"] /\ pc'["pool"] = pc["pool"]
  BY Kept DEF DestroyClose, Goto, Placed, Threads, io_close
<1>2. UNCHANGED <<how, faults, fin, err, sent, unread, hread, hwrite, stat, holders,
                  events, tasks, deaf, due, lost>>
  BY Kept DEF DestroyClose, io_close
<1> QED
  BY <1>1, <1>2

(* The peer accepts the connection.                                        *)
LEMMA EstablishedDoes ==
  ASSUME Placed, Established
  PROVE  /\ conn = "syn" /\ conn' = "est"
         /\ rdy => rdy'
         /\ UNCHANGED <<how, faults, fin, err, sent, unread, mask, hread, hwrite, stat,
                        holders, events, tasks, deaf, due, lost, pc>>
<1>1. /\ conn = "syn" /\ conn' = "est"
      /\ rdy => rdy'
  BY Kept DEF Established
<1>2. UNCHANGED <<how, faults, fin, err, sent, unread, mask, hread, hwrite, stat,
                  holders, events, tasks, deaf, due, lost, pc>>
  BY Kept DEF Established
<1> QED
  BY <1>1, <1>2

(* The peer refuses the connection.                                        *)
LEMMA RefusedDoes ==
  ASSUME Placed, Refused
  PROVE  /\ conn = "syn" /\ err'
         /\ rdy => rdy'
         /\ UNCHANGED <<how, faults, conn, fin, sent, unread, mask, hread, hwrite, stat,
                        holders, events, tasks, deaf, due, lost, pc>>
<1>1. /\ conn = "syn" /\ err'
      /\ rdy => rdy'
  BY Kept DEF Refused
<1>2. UNCHANGED <<how, faults, conn, fin, sent, unread, mask, hread, hwrite, stat,
                  holders, events, tasks, deaf, due, lost, pc>>
  BY Kept DEF Refused
<1> QED
  BY <1>1, <1>2

(* The peer sends a segment, which wakes the link only if it listens.      *)
LEMMA DataDoes ==
  ASSUME Placed, Data
  PROVE  /\ conn = "est" /\ sent < MaxData /\ sent' = sent + 1 /\ unread' = unread + 1
         /\ rdy \/ mask = "in" => rdy'
         /\ UNCHANGED <<how, faults, conn, fin, err, mask, hread, hwrite, stat, holders,
                        events, tasks, deaf, due, lost, pc>>
<1>1. /\ conn = "est" /\ sent < MaxData /\ sent' = sent + 1 /\ unread' = unread + 1
      /\ rdy \/ mask = "in" => rdy'
  BY Kept DEF Data
<1>2. UNCHANGED <<how, faults, conn, fin, err, mask, hread, hwrite, stat, holders,
                  events, tasks, deaf, due, lost, pc>>
  BY Kept DEF Data
<1> QED
  BY <1>1, <1>2

(* The peer ends the stream or resets it.                                  *)
LEMMA BreakDoes ==
  ASSUME Placed, Break
  PROVE  /\ conn = "est"
         /\ \/ fin' = TRUE /\ err' = err
            \/ err' = TRUE /\ fin' = fin
         /\ rdy => rdy'
         /\ UNCHANGED <<how, faults, conn, sent, unread, mask, hread, hwrite, stat, holders,
                        events, tasks, deaf, due, lost, pc>>
<1>1. /\ conn = "est"
      /\ \/ fin' = TRUE /\ err' = err
         \/ err' = TRUE /\ fin' = fin
      /\ rdy => rdy'
  BY Kept DEF Break
<1>2. UNCHANGED <<how, faults, conn, sent, unread, mask, hread, hwrite, stat, holders,
                  events, tasks, deaf, due, lost, pc>>
  BY Kept DEF Break
<1> QED
  BY <1>1, <1>2

(* Which action a step is.                                                 *)
LEMMA Cases ==
  ASSUME Next
  PROVE  \/ Enter
         \/ tcp_connect
         \/ tcp_connect2
         \/ SetUp
         \/ Attach
         \/ \E t \in {"user", "pool"} : SynResult(t)
         \/ \E t \in {"user", "pool"} : Modify(t)
         \/ \E t \in {"user", "pool"} : SetRead(t)
         \/ \E t \in {"user", "pool"} : SetWrite(t)
         \/ \E t \in {"user", "pool"} : PostUp(t)
         \/ \E t \in {"user", "epoll", "pool"} : Close(t)
         \/ \E t \in Threads : Release(t)
         \/ EpollWait
         \/ EpollRefr
         \/ EpollRead
         \/ EpollRecv
         \/ wp_queued
         \/ PoolGet
         \/ PoolRefr
         \/ PoolExec
         \/ DestroyBegin
         \/ DestroyClose
         \/ Established
         \/ Refused
         \/ Data
         \/ Break
BY DEF Next, UserStep, EpollStep, PoolStep, tcp_tx_syn, Threads

(* No step takes a thread to a place the code does not lead it to.         *)
LEMMA PlacesStep ==
  ASSUME Placed, OneWay, Places, Held, Next
  PROVE  Places'
<1>1. CASE Enter
  BY <1>1, EnterDoes, Zenon DEF Places
<1>2. CASE tcp_connect
  BY <1>2, tcp_connectDoes, Zenon DEF Places
<1>3. CASE tcp_connect2
  BY <1>3, tcp_connect2Does, Zenon DEF Places
<1>4. CASE SetUp
  BY <1>4, SetUpDoes, Zenon DEF Places
<1>5. CASE Attach
  BY <1>5, AttachDoes DEF Places, OneWay
<1>6. ASSUME NEW t \in {"user", "pool"}, SynResult(t)
      PROVE  Places'
  <2>1. CASE t = "user"
    BY <1>6, <2>1, SynResultDoes, Zenon DEF Threads, Places
  <2>2. CASE t = "pool"
    BY <1>6, <2>2, SynResultDoes, Zenon DEF Threads, Places
  <2> QED
    BY <2>1, <2>2
<1>7. ASSUME NEW t \in {"user", "pool"}, Modify(t)
      PROVE  Places'
  <2>1. CASE t = "user"
    BY <1>7, <2>1, ModifyDoes, Zenon DEF Threads, Places
  <2>2. CASE t = "pool"
    BY <1>7, <2>2, ModifyDoes, Zenon DEF Threads, Places
  <2> QED
    BY <2>1, <2>2
<1>8. ASSUME NEW t \in {"user", "pool"}, SetRead(t)
      PROVE  Places'
  <2>1. CASE t = "user"
    BY <1>8, <2>1, SetReadDoes, Zenon DEF Threads, Places
  <2>2. CASE t = "pool"
    BY <1>8, <2>2, SetReadDoes, Zenon DEF Threads, Places
  <2> QED
    BY <2>1, <2>2
<1>9. ASSUME NEW t \in {"user", "pool"}, SetWrite(t)
      PROVE  Places'
  <2>1. CASE t = "user"
    BY <1>9, <2>1, SetWriteDoes, Zenon DEF Threads, Places
  <2>2. CASE t = "pool"
    BY <1>9, <2>2, SetWriteDoes, Zenon DEF Threads, Places
  <2> QED
    BY <2>1, <2>2
<1>10. ASSUME NEW t \in {"user", "pool"}, PostUp(t)
      PROVE  Places'
  <2>1. CASE t = "user"
    BY <1>10, <2>1, PostUpDoes DEF Threads, Places, OneWay
  <2>2. CASE t = "pool"
    BY <1>10, <2>2, PostUpDoes DEF Threads, Places, OneWay
  <2> QED
    BY <2>1, <2>2
<1>11. ASSUME NEW t \in {"user", "epoll", "pool"}, Close(t)
      PROVE  Places'
  <2>1. CASE t = "user"
    BY <1>11, <2>1, CloseDoes, Zenon DEF Threads, Places, Held
  <2>2. CASE t = "epoll"
    BY <1>11, <2>2, CloseDoes, Zenon DEF Threads, Places, Held
  <2>3. CASE t = "pool"
    BY <1>11, <2>3, CloseDoes, Zenon DEF Threads, Places, Held
  <2> QED
    BY <2>1, <2>2, <2>3
<1>12. ASSUME NEW t \in Threads, Release(t)
      PROVE  Places'
  <2>1. CASE t = "user"
    BY <1>12, <2>1, ReleaseDoes, Zenon DEF Threads, Places
  <2>2. CASE t = "epoll"
    BY <1>12, <2>2, ReleaseDoes, Zenon DEF Threads, Places
  <2>3. CASE t = "pool"
    BY <1>12, <2>3, ReleaseDoes, Zenon DEF Threads, Places
  <2>4. CASE t = "destroy"
    BY <1>12, <2>4, ReleaseDoes, Zenon DEF Threads, Places
  <2> QED
    BY <2>1, <2>2, <2>3, <2>4 DEF Threads
<1>13. CASE EpollWait
  BY <1>13, EpollWaitDoes, Zenon DEF Places
<1>14. CASE EpollRefr
  BY <1>14, EpollRefrDoes, Zenon DEF Places
<1>15. CASE EpollRead
  BY <1>15, EpollReadDoes, Zenon DEF Places
<1>16. CASE EpollRecv
  BY <1>16, EpollRecvDoes, Zenon DEF Places
<1>17. CASE wp_queued
  BY <1>17, wp_queuedDoes, Zenon DEF Places
<1>18. CASE PoolGet
  BY <1>18, PoolGetDoes, Zenon DEF Places
<1>19. CASE PoolRefr
  BY <1>19, PoolRefrDoes, Zenon DEF Places
<1>20. CASE PoolExec
  BY <1>20, PoolExecDoes, Zenon DEF Places
<1>21. CASE DestroyBegin
  BY <1>21, DestroyBeginDoes, Zenon DEF Places
<1>22. CASE DestroyClose
  BY <1>22, DestroyCloseDoes, Zenon DEF Places
<1>23. CASE Established
  BY <1>23, EstablishedDoes, Zenon DEF Places
<1>24. CASE Refused
  BY <1>24, RefusedDoes, Zenon DEF Places
<1>25. CASE Data
  BY <1>25, DataDoes, Zenon DEF Places
<1>26. CASE Break
  BY <1>26, BreakDoes, Zenon DEF Places
<1> QED
  BY <1>1, <1>2, <1>3, <1>4, <1>5, <1>6, <1>7, <1>8, <1>9, <1>10, <1>11, <1>12,
     <1>13, <1>14, <1>15, <1>16, <1>17, <1>18, <1>19, <1>20, <1>21, <1>22, <1>23,
     <1>24, <1>25, <1>26, Cases

(* A thread holds a reference exactly where the code says it does.         *)
LEMMA HeldStep ==
  ASSUME Placed, OneWay, Places, Held, Next
  PROVE  Held'
<1>1. CASE Enter
  BY <1>1, EnterDoes DEF Held
<1>2. CASE tcp_connect
  BY <1>2, tcp_connectDoes DEF Held
<1>3. CASE tcp_connect2
  BY <1>3, tcp_connect2Does DEF Held
<1>4. CASE SetUp
  BY <1>4, SetUpDoes DEF Held
<1>5. CASE Attach
  BY <1>5, AttachDoes DEF Held, OneWay
<1>6. ASSUME NEW t \in {"user", "pool"}, SynResult(t)
      PROVE  Held'
  <2>1. CASE t = "user"
    BY <1>6, <2>1, SynResultDoes DEF Threads, Held
  <2>2. CASE t = "pool"
    BY <1>6, <2>2, SynResultDoes DEF Threads, Held
  <2> QED
    BY <2>1, <2>2
<1>7. ASSUME NEW t \in {"user", "pool"}, Modify(t)
      PROVE  Held'
  <2>1. CASE t = "user"
    BY <1>7, <2>1, ModifyDoes DEF Threads, Held
  <2>2. CASE t = "pool"
    BY <1>7, <2>2, ModifyDoes DEF Threads, Held
  <2> QED
    BY <2>1, <2>2
<1>8. ASSUME NEW t \in {"user", "pool"}, SetRead(t)
      PROVE  Held'
  <2>1. CASE t = "user"
    BY <1>8, <2>1, SetReadDoes DEF Threads, Held
  <2>2. CASE t = "pool"
    BY <1>8, <2>2, SetReadDoes DEF Threads, Held
  <2> QED
    BY <2>1, <2>2
<1>9. ASSUME NEW t \in {"user", "pool"}, SetWrite(t)
      PROVE  Held'
  <2>1. CASE t = "user"
    BY <1>9, <2>1, SetWriteDoes DEF Threads, Held
  <2>2. CASE t = "pool"
    BY <1>9, <2>2, SetWriteDoes DEF Threads, Held
  <2> QED
    BY <2>1, <2>2
<1>10. ASSUME NEW t \in {"user", "pool"}, PostUp(t)
      PROVE  Held'
  <2>1. CASE t = "user"
    <3>1. pc'["user"] \in {"setread", "release", "modify"}
      BY <1>10, <2>1, PostUpDoes DEF OneWay
    <3> QED
      BY <1>10, <2>1, <3>1, PostUpDoes DEF Threads, Held
  <2>2. CASE t = "pool"
    <3>1. pc'["pool"] \in {"setread", "release", "modify"}
      BY <1>10, <2>2, PostUpDoes DEF OneWay
    <3> QED
      BY <1>10, <2>2, <3>1, PostUpDoes DEF Threads, Held
  <2> QED
    BY <2>1, <2>2
<1>11. ASSUME NEW t \in {"user", "epoll", "pool"}, Close(t)
      PROVE  Held'
  <2>1. CASE t = "user"
    BY <1>11, <2>1, CloseDoes DEF Threads, Held
  <2>2. CASE t = "epoll"
    BY <1>11, <2>2, CloseDoes DEF Threads, Held
  <2>3. CASE t = "pool"
    BY <1>11, <2>3, CloseDoes DEF Threads, Held
  <2> QED
    BY <2>1, <2>2, <2>3
<1>12. ASSUME NEW t \in Threads, Release(t)
      PROVE  Held'
  <2>1. CASE t = "user"
    BY <1>12, <2>1, ReleaseDoes DEF Threads, Held
  <2>2. CASE t = "epoll"
    BY <1>12, <2>2, ReleaseDoes DEF Threads, Held
  <2>3. CASE t = "pool"
    BY <1>12, <2>3, ReleaseDoes DEF Threads, Held
  <2>4. CASE t = "destroy"
    BY <1>12, <2>4, ReleaseDoes DEF Threads, Held
  <2> QED
    BY <2>1, <2>2, <2>3, <2>4 DEF Threads
<1>13. CASE EpollWait
  BY <1>13, EpollWaitDoes DEF Held
<1>14. CASE EpollRefr
  BY <1>14, EpollRefrDoes DEF Held
<1>15. CASE EpollRead
  BY <1>15, EpollReadDoes DEF Held
<1>16. CASE EpollRecv
  BY <1>16, EpollRecvDoes DEF Held
<1>17. CASE wp_queued
  BY <1>17, wp_queuedDoes DEF Held
<1>18. CASE PoolGet
  BY <1>18, PoolGetDoes DEF Held
<1>19. CASE PoolRefr
  BY <1>19, PoolRefrDoes DEF Held
<1>20. CASE PoolExec
  BY <1>20, PoolExecDoes DEF Held
<1>21. CASE DestroyBegin
  BY <1>21, DestroyBeginDoes DEF Held
<1>22. CASE DestroyClose
  BY <1>22, DestroyCloseDoes DEF Held
<1>23. CASE Established
  BY <1>23, EstablishedDoes DEF Held
<1>24. CASE Refused
  BY <1>24, RefusedDoes DEF Held
<1>25. CASE Data
  BY <1>25, DataDoes DEF Held
<1>26. CASE Break
  BY <1>26, BreakDoes DEF Held
<1> QED
  BY <1>1, <1>2, <1>3, <1>4, <1>5, <1>6, <1>7, <1>8, <1>9, <1>10, <1>11, <1>12,
     <1>13, <1>14, <1>15, <1>16, <1>17, <1>18, <1>19, <1>20, <1>21, <1>22, <1>23,
     <1>24, <1>25, <1>26, Cases

(* Each way of setting a link up keeps to its own steps.                   *)
LEMMA WaysStep ==
  ASSUME Placed, OneWay, Places, Held, Ways, Next
  PROVE  Ways'
<1>1. CASE Enter
  BY <1>1, EnterDoes DEF Ways
<1>2. CASE tcp_connect
  BY <1>2, tcp_connectDoes DEF Ways
<1>3. CASE tcp_connect2
  BY <1>3, tcp_connect2Does DEF Ways
<1>4. CASE SetUp
  BY <1>4, SetUpDoes DEF Ways
<1>5. CASE Attach
  BY <1>5, AttachDoes DEF Ways, OneWay
<1>6. ASSUME NEW t \in {"user", "pool"}, SynResult(t)
      PROVE  Ways'
  <2>1. CASE t = "user"
    BY <1>6, <2>1, SynResultDoes DEF Threads, Ways
  <2>2. CASE t = "pool"
    BY <1>6, <2>2, SynResultDoes DEF Threads, Ways
  <2> QED
    BY <2>1, <2>2
<1>7. ASSUME NEW t \in {"user", "pool"}, Modify(t)
      PROVE  Ways'
  <2>1. CASE t = "user"
    BY <1>7, <2>1, ModifyDoes DEF Threads, Ways
  <2>2. CASE t = "pool"
    BY <1>7, <2>2, ModifyDoes DEF Threads, Ways
  <2> QED
    BY <2>1, <2>2
<1>8. ASSUME NEW t \in {"user", "pool"}, SetRead(t)
      PROVE  Ways'
  <2>1. CASE t = "user"
    BY <1>8, <2>1, SetReadDoes DEF Threads, Ways
  <2>2. CASE t = "pool"
    BY <1>8, <2>2, SetReadDoes DEF Threads, Ways
  <2> QED
    BY <2>1, <2>2
<1>9. ASSUME NEW t \in {"user", "pool"}, SetWrite(t)
      PROVE  Ways'
  <2>1. CASE t = "user"
    BY <1>9, <2>1, SetWriteDoes DEF Threads, Ways
  <2>2. CASE t = "pool"
    BY <1>9, <2>2, SetWriteDoes DEF Threads, Ways
  <2> QED
    BY <2>1, <2>2
<1>10. ASSUME NEW t \in {"user", "pool"}, PostUp(t)
      PROVE  Ways'
  <2>1. CASE t = "user"
    BY <1>10, <2>1, PostUpDoes DEF Threads, Ways, OneWay
  <2>2. CASE t = "pool"
    BY <1>10, <2>2, PostUpDoes DEF Threads, Ways, OneWay
  <2> QED
    BY <2>1, <2>2
<1>11. ASSUME NEW t \in {"user", "epoll", "pool"}, Close(t)
      PROVE  Ways'
  <2>1. CASE t = "user"
    BY <1>11, <2>1, CloseDoes DEF Threads, Ways
  <2>2. CASE t = "epoll"
    BY <1>11, <2>2, CloseDoes DEF Threads, Ways
  <2>3. CASE t = "pool"
    BY <1>11, <2>3, CloseDoes DEF Threads, Ways
  <2> QED
    BY <2>1, <2>2, <2>3
<1>12. ASSUME NEW t \in Threads, Release(t)
      PROVE  Ways'
  <2>1. CASE t = "user"
    BY <1>12, <2>1, ReleaseDoes DEF Threads, Ways
  <2>2. CASE t = "epoll"
    BY <1>12, <2>2, ReleaseDoes DEF Threads, Ways
  <2>3. CASE t = "pool"
    BY <1>12, <2>3, ReleaseDoes DEF Threads, Ways
  <2>4. CASE t = "destroy"
    BY <1>12, <2>4, ReleaseDoes DEF Threads, Ways
  <2> QED
    BY <2>1, <2>2, <2>3, <2>4 DEF Threads
<1>13. CASE EpollWait
  BY <1>13, EpollWaitDoes DEF Ways
<1>14. CASE EpollRefr
  BY <1>14, EpollRefrDoes DEF Ways
<1>15. CASE EpollRead
  BY <1>15, EpollReadDoes DEF Ways
<1>16. CASE EpollRecv
  BY <1>16, EpollRecvDoes DEF Ways
<1>17. CASE wp_queued
  BY <1>17, wp_queuedDoes DEF Ways
<1>18. CASE PoolGet
  BY <1>18, PoolGetDoes DEF Ways
<1>19. CASE PoolRefr
  BY <1>19, PoolRefrDoes DEF Ways
<1>20. CASE PoolExec
  BY <1>20, PoolExecDoes DEF Ways, OneWay
<1>21. CASE DestroyBegin
  BY <1>21, DestroyBeginDoes DEF Ways
<1>22. CASE DestroyClose
  BY <1>22, DestroyCloseDoes DEF Ways
<1>23. CASE Established
  BY <1>23, EstablishedDoes DEF Ways
<1>24. CASE Refused
  BY <1>24, RefusedDoes DEF Ways
<1>25. CASE Data
  BY <1>25, DataDoes DEF Ways
<1>26. CASE Break
  BY <1>26, BreakDoes DEF Ways
<1> QED
  BY <1>1, <1>2, <1>3, <1>4, <1>5, <1>6, <1>7, <1>8, <1>9, <1>10, <1>11, <1>12,
     <1>13, <1>14, <1>15, <1>16, <1>17, <1>18, <1>19, <1>20, <1>21, <1>22, <1>23,
     <1>24, <1>25, <1>26, Cases

(* An accepted link gets its handlers before its events.                   *)
LEMMA HandlersStep ==
  ASSUME Placed, OneWay, Places, Held, Ways, HandlersFirst, Next
  PROVE  HandlersFirst'
<1>1. CASE Enter
  BY <1>1, EnterDoes, Zenon DEF HandlersFirst
<1>2. CASE tcp_connect
  BY <1>2, tcp_connectDoes, Zenon DEF HandlersFirst
<1>3. CASE tcp_connect2
  BY <1>3, tcp_connect2Does, Zenon DEF HandlersFirst
<1>4. CASE SetUp
  BY <1>4, SetUpDoes, Zenon DEF HandlersFirst
<1>5. CASE Attach
  BY <1>5, AttachDoes, Zenon DEF HandlersFirst, OneWay
<1>6. ASSUME NEW t \in {"user", "pool"}, SynResult(t)
      PROVE  HandlersFirst'
  <2>1. CASE t = "user"
    BY <1>6, <2>1, SynResultDoes, Zenon DEF Threads, HandlersFirst, Ways
  <2>2. CASE t = "pool"
    BY <1>6, <2>2, SynResultDoes, Zenon DEF Threads, HandlersFirst, Ways
  <2> QED
    BY <2>1, <2>2
<1>7. ASSUME NEW t \in {"user", "pool"}, Modify(t)
      PROVE  HandlersFirst'
  <2>1. CASE t = "user"
    BY <1>7, <2>1, ModifyDoes, Zenon DEF Threads, HandlersFirst
  <2>2. CASE t = "pool"
    BY <1>7, <2>2, ModifyDoes, Zenon DEF Threads, HandlersFirst
  <2> QED
    BY <2>1, <2>2
<1>8. ASSUME NEW t \in {"user", "pool"}, SetRead(t)
      PROVE  HandlersFirst'
  <2>1. CASE t = "user"
    BY <1>8, <2>1, SetReadDoes, Zenon DEF Threads, HandlersFirst
  <2>2. CASE t = "pool"
    BY <1>8, <2>2, SetReadDoes, Zenon DEF Threads, HandlersFirst
  <2> QED
    BY <2>1, <2>2
<1>9. ASSUME NEW t \in {"user", "pool"}, SetWrite(t)
      PROVE  HandlersFirst'
  <2>1. CASE t = "user"
    BY <1>9, <2>1, SetWriteDoes, Zenon DEF Threads, HandlersFirst, Ways
  <2>2. CASE t = "pool"
    BY <1>9, <2>2, SetWriteDoes, Zenon DEF Threads, HandlersFirst, Ways
  <2> QED
    BY <2>1, <2>2
<1>10. ASSUME NEW t \in {"user", "pool"}, PostUp(t)
      PROVE  HandlersFirst'
  <2>1. CASE t = "user"
    BY <1>10, <2>1, PostUpDoes, Zenon DEF Threads, HandlersFirst, OneWay
  <2>2. CASE t = "pool"
    BY <1>10, <2>2, PostUpDoes, Zenon DEF Threads, HandlersFirst, OneWay
  <2> QED
    BY <2>1, <2>2
<1>11. ASSUME NEW t \in {"user", "epoll", "pool"}, Close(t)
      PROVE  HandlersFirst'
  <2>1. CASE t = "user"
    BY <1>11, <2>1, CloseDoes, Zenon DEF Threads, HandlersFirst
  <2>2. CASE t = "epoll"
    BY <1>11, <2>2, CloseDoes, Zenon DEF Threads, HandlersFirst
  <2>3. CASE t = "pool"
    BY <1>11, <2>3, CloseDoes, Zenon DEF Threads, HandlersFirst
  <2> QED
    BY <2>1, <2>2, <2>3
<1>12. ASSUME NEW t \in Threads, Release(t)
      PROVE  HandlersFirst'
  <2>1. CASE t = "user"
    BY <1>12, <2>1, ReleaseDoes, Zenon DEF Threads, HandlersFirst
  <2>2. CASE t = "epoll"
    BY <1>12, <2>2, ReleaseDoes, Zenon DEF Threads, HandlersFirst
  <2>3. CASE t = "pool"
    BY <1>12, <2>3, ReleaseDoes, Zenon DEF Threads, HandlersFirst
  <2>4. CASE t = "destroy"
    BY <1>12, <2>4, ReleaseDoes, Zenon DEF Threads, HandlersFirst
  <2> QED
    BY <2>1, <2>2, <2>3, <2>4 DEF Threads
<1>13. CASE EpollWait
  BY <1>13, EpollWaitDoes, Zenon DEF HandlersFirst
<1>14. CASE EpollRefr
  BY <1>14, EpollRefrDoes, Zenon DEF HandlersFirst
<1>15. CASE EpollRead
  BY <1>15, EpollReadDoes, Zenon DEF HandlersFirst
<1>16. CASE EpollRecv
  BY <1>16, EpollRecvDoes, Zenon DEF HandlersFirst
<1>17. CASE wp_queued
  BY <1>17, wp_queuedDoes, Zenon DEF HandlersFirst
<1>18. CASE PoolGet
  BY <1>18, PoolGetDoes, Zenon DEF HandlersFirst
<1>19. CASE PoolRefr
  BY <1>19, PoolRefrDoes, Zenon DEF HandlersFirst
<1>20. CASE PoolExec
  BY <1>20, PoolExecDoes, Zenon DEF HandlersFirst
<1>21. CASE DestroyBegin
  BY <1>21, DestroyBeginDoes, Zenon DEF HandlersFirst
<1>22. CASE DestroyClose
  BY <1>22, DestroyCloseDoes, Zenon DEF HandlersFirst
<1>23. CASE Established
  BY <1>23, EstablishedDoes, Zenon DEF HandlersFirst
<1>24. CASE Refused
  BY <1>24, RefusedDoes, Zenon DEF HandlersFirst
<1>25. CASE Data
  BY <1>25, DataDoes, Zenon DEF HandlersFirst
<1>26. CASE Break
  BY <1>26, BreakDoes, Zenon DEF HandlersFirst
<1> QED
  BY <1>1, <1>2, <1>3, <1>4, <1>5, <1>6, <1>7, <1>8, <1>9, <1>10, <1>11, <1>12,
     <1>13, <1>14, <1>15, <1>16, <1>17, <1>18, <1>19, <1>20, <1>21, <1>22, <1>23,
     <1>24, <1>25, <1>26, Cases

(* The pool is only asked to run a link that is in the epoll instance.     *)
LEMMA AskedStep ==
  ASSUME Placed, OneWay, Places, tasks \in Nat, Asked, Next
  PROVE  Asked'
<1>1. CASE Enter
  BY <1>1, EnterDoes, Zenon DEF Asked
<1>2. CASE tcp_connect
  BY <1>2, tcp_connectDoes, Zenon DEF Asked
<1>3. CASE tcp_connect2
  BY <1>3, tcp_connect2Does, Zenon DEF Asked
<1>4. CASE SetUp
  BY <1>4, SetUpDoes, Zenon DEF Asked
<1>5. CASE Attach
  BY <1>5, AttachDoes, Zenon DEF Asked, OneWay
<1>6. ASSUME NEW t \in {"user", "pool"}, SynResult(t)
      PROVE  Asked'
  <2>1. CASE t = "user"
    BY <1>6, <2>1, SynResultDoes, Zenon DEF Threads, Asked
  <2>2. CASE t = "pool"
    BY <1>6, <2>2, SynResultDoes, Zenon DEF Threads, Asked
  <2> QED
    BY <2>1, <2>2
<1>7. ASSUME NEW t \in {"user", "pool"}, Modify(t)
      PROVE  Asked'
  <2>1. CASE t = "user"
    BY <1>7, <2>1, ModifyDoes, Zenon DEF Threads, Asked
  <2>2. CASE t = "pool"
    BY <1>7, <2>2, ModifyDoes, Zenon DEF Threads, Asked
  <2> QED
    BY <2>1, <2>2
<1>8. ASSUME NEW t \in {"user", "pool"}, SetRead(t)
      PROVE  Asked'
  <2>1. CASE t = "user"
    BY <1>8, <2>1, SetReadDoes, Zenon DEF Threads, Asked
  <2>2. CASE t = "pool"
    BY <1>8, <2>2, SetReadDoes, Zenon DEF Threads, Asked
  <2> QED
    BY <2>1, <2>2
<1>9. ASSUME NEW t \in {"user", "pool"}, SetWrite(t)
      PROVE  Asked'
  <2>1. CASE t = "user"
    BY <1>9, <2>1, SetWriteDoes, Zenon DEF Threads, Asked
  <2>2. CASE t = "pool"
    BY <1>9, <2>2, SetWriteDoes, Zenon DEF Threads, Asked
  <2> QED
    BY <2>1, <2>2
<1>10. ASSUME NEW t \in {"user", "pool"}, PostUp(t)
      PROVE  Asked'
  <2>1. CASE t = "user"
    BY <1>10, <2>1, PostUpDoes, Zenon DEF Threads, Asked, OneWay
  <2>2. CASE t = "pool"
    BY <1>10, <2>2, PostUpDoes, Zenon DEF Threads, Asked, OneWay
  <2> QED
    BY <2>1, <2>2
<1>11. ASSUME NEW t \in {"user", "epoll", "pool"}, Close(t)
      PROVE  Asked'
  <2>1. CASE t = "user"
    BY <1>11, <2>1, CloseDoes, Zenon DEF Threads, Asked
  <2>2. CASE t = "epoll"
    BY <1>11, <2>2, CloseDoes, Zenon DEF Threads, Asked
  <2>3. CASE t = "pool"
    BY <1>11, <2>3, CloseDoes, Zenon DEF Threads, Asked
  <2> QED
    BY <2>1, <2>2, <2>3
<1>12. ASSUME NEW t \in Threads, Release(t)
      PROVE  Asked'
  <2>1. CASE t = "user"
    BY <1>12, <2>1, ReleaseDoes, Zenon DEF Threads, Asked
  <2>2. CASE t = "epoll"
    BY <1>12, <2>2, ReleaseDoes, Zenon DEF Threads, Asked
  <2>3. CASE t = "pool"
    BY <1>12, <2>3, ReleaseDoes, Zenon DEF Threads, Asked
  <2>4. CASE t = "destroy"
    BY <1>12, <2>4, ReleaseDoes, Zenon DEF Threads, Asked
  <2> QED
    BY <2>1, <2>2, <2>3, <2>4 DEF Threads
<1>13. CASE EpollWait
  BY <1>13, EpollWaitDoes, Zenon DEF Asked
<1>14. CASE EpollRefr
  BY <1>14, EpollRefrDoes, Zenon DEF Asked
<1>15. CASE EpollRead
  BY <1>15, EpollReadDoes, Zenon DEF Asked
<1>16. CASE EpollRecv
  BY <1>16, EpollRecvDoes, Zenon DEF Asked
<1>17. CASE wp_queued
  BY <1>17, wp_queuedDoes, Zenon DEF Asked
<1>18. CASE PoolGet
  BY <1>18, PoolGetDoes, Zenon DEF Asked
<1>19. CASE PoolRefr
  BY <1>19, PoolRefrDoes, Zenon DEF Asked
<1>20. CASE PoolExec
  BY <1>20, PoolExecDoes, Zenon DEF Asked
<1>21. CASE DestroyBegin
  BY <1>21, DestroyBeginDoes, Zenon DEF Asked
<1>22. CASE DestroyClose
  BY <1>22, DestroyCloseDoes, Zenon DEF Asked
<1>23. CASE Established
  BY <1>23, EstablishedDoes, Zenon DEF Asked
<1>24. CASE Refused
  BY <1>24, RefusedDoes, Zenon DEF Asked
<1>25. CASE Data
  BY <1>25, DataDoes, Zenon DEF Asked
<1>26. CASE Break
  BY <1>26, BreakDoes, Zenon DEF Asked
<1> QED
  BY <1>1, <1>2, <1>3, <1>4, <1>5, <1>6, <1>7, <1>8, <1>9, <1>10, <1>11, <1>12,
     <1>13, <1>14, <1>15, <1>16, <1>17, <1>18, <1>19, <1>20, <1>21, <1>22, <1>23,
     <1>24, <1>25, <1>26, Cases

(* Whoever comes to close the link has a reason, and the reason stays.     *)
LEMMA CausedStep ==
  ASSUME Placed, OneWay, Places, Held, Ways, Asked, Caused, Next
  PROVE  Caused'
<1>1. CASE Enter
  BY <1>1, EnterDoes DEF Caused, Cause, ClosedForCause
<1>2. CASE tcp_connect
  BY <1>2, tcp_connectDoes DEF Caused, Cause, ClosedForCause
<1>3. CASE tcp_connect2
  BY <1>3, tcp_connect2Does DEF Caused, Cause, ClosedForCause
<1>4. CASE SetUp
  BY <1>4, SetUpDoes DEF Caused, Cause, ClosedForCause
<1>5. CASE Attach
  BY <1>5, AttachDoes DEF Caused, Cause, ClosedForCause, Held, OneWay
<1>6. ASSUME NEW t \in {"user", "pool"}, SynResult(t)
      PROVE  Caused'
  <2>1. CASE t = "user"
    BY <1>6, <2>1, SynResultDoes DEF Threads, Caused, Cause, ClosedForCause, Held
  <2>2. CASE t = "pool"
    BY <1>6, <2>2, SynResultDoes DEF Threads, Caused, Cause, ClosedForCause, Held
  <2> QED
    BY <2>1, <2>2
<1>7. ASSUME NEW t \in {"user", "pool"}, Modify(t)
      PROVE  Caused'
  <2>1. CASE t = "user"
    BY <1>7, <2>1, ModifyDoes DEF Threads, Caused, Cause, ClosedForCause, Held, Ways, Asked
  <2>2. CASE t = "pool"
    BY <1>7, <2>2, ModifyDoes DEF Threads, Caused, Cause, ClosedForCause, Held, Ways, Asked
  <2> QED
    BY <2>1, <2>2
<1>8. ASSUME NEW t \in {"user", "pool"}, SetRead(t)
      PROVE  Caused'
  <2>1. CASE t = "user"
    BY <1>8, <2>1, SetReadDoes DEF Threads, Caused, Cause, ClosedForCause
  <2>2. CASE t = "pool"
    BY <1>8, <2>2, SetReadDoes DEF Threads, Caused, Cause, ClosedForCause
  <2> QED
    BY <2>1, <2>2
<1>9. ASSUME NEW t \in {"user", "pool"}, SetWrite(t)
      PROVE  Caused'
  <2>1. CASE t = "user"
    BY <1>9, <2>1, SetWriteDoes DEF Threads, Caused, Cause, ClosedForCause
  <2>2. CASE t = "pool"
    BY <1>9, <2>2, SetWriteDoes DEF Threads, Caused, Cause, ClosedForCause
  <2> QED
    BY <2>1, <2>2
<1>10. ASSUME NEW t \in {"user", "pool"}, PostUp(t)
      PROVE  Caused'
  <2>1. CASE t = "user"
    BY <1>10, <2>1, PostUpDoes DEF Threads, Caused, Cause, ClosedForCause, OneWay
  <2>2. CASE t = "pool"
    BY <1>10, <2>2, PostUpDoes DEF Threads, Caused, Cause, ClosedForCause, OneWay
  <2> QED
    BY <2>1, <2>2
<1>11. ASSUME NEW t \in {"user", "epoll", "pool"}, Close(t)
      PROVE  Caused'
  <2>1. CASE t = "user"
    BY <1>11, <2>1, CloseDoes DEF Threads, Caused, Cause, ClosedForCause
  <2>2. CASE t = "epoll"
    BY <1>11, <2>2, CloseDoes DEF Threads, Caused, Cause, ClosedForCause
  <2>3. CASE t = "pool"
    BY <1>11, <2>3, CloseDoes DEF Threads, Caused, Cause, ClosedForCause
  <2> QED
    BY <2>1, <2>2, <2>3
<1>12. ASSUME NEW t \in Threads, Release(t)
      PROVE  Caused'
  <2>1. CASE t = "user"
    BY <1>12, <2>1, ReleaseDoes DEF Threads, Caused, Cause, ClosedForCause, Places
  <2>2. CASE t = "epoll"
    BY <1>12, <2>2, ReleaseDoes DEF Threads, Caused, Cause, ClosedForCause, Places
  <2>3. CASE t = "pool"
    BY <1>12, <2>3, ReleaseDoes DEF Threads, Caused, Cause, ClosedForCause, Places
  <2>4. CASE t = "destroy"
    BY <1>12, <2>4, ReleaseDoes DEF Threads, Caused, Cause, ClosedForCause, Places
  <2> QED
    BY <2>1, <2>2, <2>3, <2>4 DEF Threads
<1>13. CASE EpollWait
  BY <1>13, EpollWaitDoes DEF Caused, Cause, ClosedForCause
<1>14. CASE EpollRefr
  BY <1>14, EpollRefrDoes DEF Caused, Cause, ClosedForCause
<1>15. CASE EpollRead
  BY <1>15, EpollReadDoes DEF Caused, Cause, ClosedForCause
<1>16. CASE EpollRecv
  BY <1>16, EpollRecvDoes DEF Caused, Cause, ClosedForCause, Held
<1>17. CASE wp_queued
  BY <1>17, wp_queuedDoes DEF Caused, Cause, ClosedForCause
<1>18. CASE PoolGet
  BY <1>18, PoolGetDoes DEF Caused, Cause, ClosedForCause
<1>19. CASE PoolRefr
  BY <1>19, PoolRefrDoes DEF Caused, Cause, ClosedForCause
<1>20. CASE PoolExec
  BY <1>20, PoolExecDoes DEF Caused, Cause, ClosedForCause
<1>21. CASE DestroyBegin
  BY <1>21, DestroyBeginDoes DEF Caused, Cause, ClosedForCause
<1>22. CASE DestroyClose
  BY <1>22, DestroyCloseDoes DEF Caused, Cause, ClosedForCause
<1>23. CASE Established
  BY <1>23, EstablishedDoes DEF Caused, Cause, ClosedForCause
<1>24. CASE Refused
  BY <1>24, RefusedDoes DEF Caused, Cause, ClosedForCause
<1>25. CASE Data
  BY <1>25, DataDoes DEF Caused, Cause, ClosedForCause
<1>26. CASE Break
  BY <1>26, BreakDoes DEF Caused, Cause, ClosedForCause
<1> QED
  BY <1>1, <1>2, <1>3, <1>4, <1>5, <1>6, <1>7, <1>8, <1>9, <1>10, <1>11, <1>12,
     <1>13, <1>14, <1>15, <1>16, <1>17, <1>18, <1>19, <1>20, <1>21, <1>22, <1>23,
     <1>24, <1>25, <1>26, Cases

(* No edge of an accepted link is spent without a handler.                 *)
LEMMA UnheardStep ==
  ASSUME Placed, OneWay, Places, Held, HandlersFirst, NoUnheardInput, unread \in Nat, conn \in {"new", "syn"} => unread = 0, Next
  PROVE  NoUnheardInput'
<1>1. CASE Enter
  BY <1>1, EnterDoes, Zenon DEF NoUnheardInput
<1>2. CASE tcp_connect
  <2>1. conn = "est" \/ conn' # "est" \/ unread' = 0
    BY <1>2, tcp_connectDoes
  <2>2. unread' = 0 => ~(unread' > 0)
    OBVIOUS
  <2> QED
    BY <1>2, <2>1, <2>2, tcp_connectDoes DEF NoUnheardInput
<1>3. CASE tcp_connect2
  <2>1. conn = "est" \/ conn' # "est" \/ unread' = 0
    BY <1>3, tcp_connect2Does
  <2>2. unread' = 0 => ~(unread' > 0)
    OBVIOUS
  <2> QED
    BY <1>3, <2>1, <2>2, tcp_connect2Does DEF NoUnheardInput
<1>4. CASE SetUp
  BY <1>4, SetUpDoes, Zenon DEF NoUnheardInput
<1>5. CASE Attach
  BY <1>5, AttachDoes, Zenon DEF NoUnheardInput, OneWay
<1>6. ASSUME NEW t \in {"user", "pool"}, SynResult(t)
      PROVE  NoUnheardInput'
  <2>1. CASE t = "user"
    BY <1>6, <2>1, SynResultDoes, Zenon DEF Threads, NoUnheardInput
  <2>2. CASE t = "pool"
    BY <1>6, <2>2, SynResultDoes, Zenon DEF Threads, NoUnheardInput
  <2> QED
    BY <2>1, <2>2
<1>7. ASSUME NEW t \in {"user", "pool"}, Modify(t)
      PROVE  NoUnheardInput'
  <2>1. CASE t = "user"
    BY <1>7, <2>1, ModifyDoes, Zenon DEF Threads, NoUnheardInput
  <2>2. CASE t = "pool"
    BY <1>7, <2>2, ModifyDoes, Zenon DEF Threads, NoUnheardInput
  <2> QED
    BY <2>1, <2>2
<1>8. ASSUME NEW t \in {"user", "pool"}, SetRead(t)
      PROVE  NoUnheardInput'
  <2>1. CASE t = "user"
    BY <1>8, <2>1, SetReadDoes, Zenon DEF Threads, NoUnheardInput
  <2>2. CASE t = "pool"
    BY <1>8, <2>2, SetReadDoes, Zenon DEF Threads, NoUnheardInput
  <2> QED
    BY <2>1, <2>2
<1>9. ASSUME NEW t \in {"user", "pool"}, SetWrite(t)
      PROVE  NoUnheardInput'
  <2>1. CASE t = "user"
    BY <1>9, <2>1, SetWriteDoes, Zenon DEF Threads, NoUnheardInput
  <2>2. CASE t = "pool"
    BY <1>9, <2>2, SetWriteDoes, Zenon DEF Threads, NoUnheardInput
  <2> QED
    BY <2>1, <2>2
<1>10. ASSUME NEW t \in {"user", "pool"}, PostUp(t)
      PROVE  NoUnheardInput'
  <2>1. CASE t = "user"
    BY <1>10, <2>1, PostUpDoes, Zenon DEF Threads, NoUnheardInput, OneWay
  <2>2. CASE t = "pool"
    BY <1>10, <2>2, PostUpDoes, Zenon DEF Threads, NoUnheardInput, OneWay
  <2> QED
    BY <2>1, <2>2
<1>11. ASSUME NEW t \in {"user", "epoll", "pool"}, Close(t)
      PROVE  NoUnheardInput'
  <2>1. CASE t = "user"
    BY <1>11, <2>1, CloseDoes, Zenon DEF Threads, NoUnheardInput
  <2>2. CASE t = "epoll"
    BY <1>11, <2>2, CloseDoes, Zenon DEF Threads, NoUnheardInput
  <2>3. CASE t = "pool"
    BY <1>11, <2>3, CloseDoes, Zenon DEF Threads, NoUnheardInput
  <2> QED
    BY <2>1, <2>2, <2>3
<1>12. ASSUME NEW t \in Threads, Release(t)
      PROVE  NoUnheardInput'
  <2>1. CASE t = "user"
    BY <1>12, <2>1, ReleaseDoes, Zenon DEF Threads, NoUnheardInput
  <2>2. CASE t = "epoll"
    BY <1>12, <2>2, ReleaseDoes, Zenon DEF Threads, NoUnheardInput
  <2>3. CASE t = "pool"
    BY <1>12, <2>3, ReleaseDoes, Zenon DEF Threads, NoUnheardInput
  <2>4. CASE t = "destroy"
    BY <1>12, <2>4, ReleaseDoes, Zenon DEF Threads, NoUnheardInput
  <2> QED
    BY <2>1, <2>2, <2>3, <2>4 DEF Threads
<1>13. CASE EpollWait
  BY <1>13, EpollWaitDoes, Zenon DEF NoUnheardInput
<1>14. CASE EpollRefr
  BY <1>14, EpollRefrDoes, Zenon DEF NoUnheardInput
<1>15. CASE EpollRead
  BY <1>15, EpollReadDoes, Zenon DEF NoUnheardInput, HandlersFirst
<1>16. CASE EpollRecv
  <2>1. unread' = 0 \/ pc'["epoll"] \in {"recv", "close"}
    BY <1>16, EpollRecvDoes
  <2>2. unread' = 0 => ~(unread' > 0)
    OBVIOUS
  <2> QED
    BY <2>1, <2>2 DEF NoUnheardInput
<1>17. CASE wp_queued
  BY <1>17, wp_queuedDoes, Zenon DEF NoUnheardInput
<1>18. CASE PoolGet
  BY <1>18, PoolGetDoes, Zenon DEF NoUnheardInput
<1>19. CASE PoolRefr
  BY <1>19, PoolRefrDoes, Zenon DEF NoUnheardInput
<1>20. CASE PoolExec
  BY <1>20, PoolExecDoes, Zenon DEF NoUnheardInput
<1>21. CASE DestroyBegin
  BY <1>21, DestroyBeginDoes, Zenon DEF NoUnheardInput
<1>22. CASE DestroyClose
  BY <1>22, DestroyCloseDoes, Zenon DEF NoUnheardInput
<1>23. CASE Established
  <2>1. conn = "est" \/ conn' # "est" \/ unread' = 0
    BY <1>23, EstablishedDoes
  <2>2. unread' = 0 => ~(unread' > 0)
    OBVIOUS
  <2> QED
    BY <1>23, <2>1, <2>2, EstablishedDoes DEF NoUnheardInput
<1>24. CASE Refused
  BY <1>24, RefusedDoes, Zenon DEF NoUnheardInput
<1>25. CASE Data
  BY <1>25, DataDoes, Zenon DEF NoUnheardInput
<1>26. CASE Break
  BY <1>26, BreakDoes, Zenon DEF NoUnheardInput
<1> QED
  BY <1>1, <1>2, <1>3, <1>4, <1>5, <1>6, <1>7, <1>8, <1>9, <1>10, <1>11, <1>12,
     <1>13, <1>14, <1>15, <1>16, <1>17, <1>18, <1>19, <1>20, <1>21, <1>22, <1>23,
     <1>24, <1>25, <1>26, Cases

(* How a step adds to the callbacks the user has had.                      *)
Grows ==
  \/ events' = events /\ (stat' = "closed" <=> stat = "closed")
  \/ /\ stat # "closed" /\ stat' = stat
     /\ events' = Append(events, IF how = "accept" THEN "accepted" ELSE "connected")
  \/ /\ stat # "closed" /\ stat' = stat
     /\ pc["epoll"] = "recv" /\ events' = Append(events, "data")
  \/ /\ stat # "closed" /\ stat' = "closed"
     /\ events' = events \o <<"preclose", "closed">>

(* Every step adds to the callbacks in one of four ways, and to none of a  *)
(* link that is gone: who calls back holds a reference.                    *)
LEMMA GrowsStep ==
  ASSUME Placed, Places, Held, Next
  PROVE  Grows
<1>1. CASE Enter
  BY <1>1, EnterDoes DEF Grows
<1>2. CASE tcp_connect
  BY <1>2, tcp_connectDoes DEF Grows
<1>3. CASE tcp_connect2
  BY <1>3, tcp_connect2Does DEF Grows
<1>4. CASE SetUp
  BY <1>4, SetUpDoes DEF Grows
<1>5. CASE Attach
  BY <1>5, AttachDoes DEF Grows, OneWay
<1>6. ASSUME NEW t \in {"user", "pool"}, SynResult(t)
      PROVE  Grows
  <2>1. CASE t = "user"
    BY <1>6, <2>1, SynResultDoes DEF Threads, Grows
  <2>2. CASE t = "pool"
    BY <1>6, <2>2, SynResultDoes DEF Threads, Grows
  <2> QED
    BY <2>1, <2>2
<1>7. ASSUME NEW t \in {"user", "pool"}, Modify(t)
      PROVE  Grows
  <2>1. CASE t = "user"
    BY <1>7, <2>1, ModifyDoes DEF Threads, Grows
  <2>2. CASE t = "pool"
    BY <1>7, <2>2, ModifyDoes DEF Threads, Grows
  <2> QED
    BY <2>1, <2>2
<1>8. ASSUME NEW t \in {"user", "pool"}, SetRead(t)
      PROVE  Grows
  <2>1. CASE t = "user"
    BY <1>8, <2>1, SetReadDoes DEF Threads, Grows
  <2>2. CASE t = "pool"
    BY <1>8, <2>2, SetReadDoes DEF Threads, Grows
  <2> QED
    BY <2>1, <2>2
<1>9. ASSUME NEW t \in {"user", "pool"}, SetWrite(t)
      PROVE  Grows
  <2>1. CASE t = "user"
    BY <1>9, <2>1, SetWriteDoes DEF Threads, Grows
  <2>2. CASE t = "pool"
    BY <1>9, <2>2, SetWriteDoes DEF Threads, Grows
  <2> QED
    BY <2>1, <2>2
<1>10. ASSUME NEW t \in {"user", "pool"}, PostUp(t)
      PROVE  Grows
  <2>1. CASE t = "user"
    BY <1>10, <2>1, PostUpDoes DEF Threads, Grows, Held, OneWay
  <2>2. CASE t = "pool"
    BY <1>10, <2>2, PostUpDoes DEF Threads, Grows, Held, OneWay
  <2> QED
    BY <2>1, <2>2
<1>11. ASSUME NEW t \in {"user", "epoll", "pool"}, Close(t)
      PROVE  Grows
  <2>1. CASE t = "user"
    BY <1>11, <2>1, CloseDoes DEF Threads, Grows
  <2>2. CASE t = "epoll"
    BY <1>11, <2>2, CloseDoes DEF Threads, Grows
  <2>3. CASE t = "pool"
    BY <1>11, <2>3, CloseDoes DEF Threads, Grows
  <2> QED
    BY <2>1, <2>2, <2>3
<1>12. ASSUME NEW t \in Threads, Release(t)
      PROVE  Grows
  <2>1. CASE t = "user"
    BY <1>12, <2>1, ReleaseDoes DEF Threads, Grows
  <2>2. CASE t = "epoll"
    BY <1>12, <2>2, ReleaseDoes DEF Threads, Grows
  <2>3. CASE t = "pool"
    BY <1>12, <2>3, ReleaseDoes DEF Threads, Grows
  <2>4. CASE t = "destroy"
    BY <1>12, <2>4, ReleaseDoes DEF Threads, Grows
  <2> QED
    BY <2>1, <2>2, <2>3, <2>4 DEF Threads
<1>13. CASE EpollWait
  BY <1>13, EpollWaitDoes DEF Grows
<1>14. CASE EpollRefr
  BY <1>14, EpollRefrDoes DEF Grows
<1>15. CASE EpollRead
  BY <1>15, EpollReadDoes DEF Grows
<1>16. CASE EpollRecv
  BY <1>16, EpollRecvDoes DEF Grows, Held
<1>17. CASE wp_queued
  BY <1>17, wp_queuedDoes DEF Grows
<1>18. CASE PoolGet
  BY <1>18, PoolGetDoes DEF Grows
<1>19. CASE PoolRefr
  BY <1>19, PoolRefrDoes DEF Grows
<1>20. CASE PoolExec
  BY <1>20, PoolExecDoes DEF Grows
<1>21. CASE DestroyBegin
  BY <1>21, DestroyBeginDoes DEF Grows
<1>22. CASE DestroyClose
  BY <1>22, DestroyCloseDoes DEF Grows
<1>23. CASE Established
  BY <1>23, EstablishedDoes DEF Grows
<1>24. CASE Refused
  BY <1>24, RefusedDoes DEF Grows
<1>25. CASE Data
  BY <1>25, DataDoes DEF Grows
<1>26. CASE Break
  BY <1>26, BreakDoes DEF Grows
<1> QED
  BY <1>1, <1>2, <1>3, <1>4, <1>5, <1>6, <1>7, <1>8, <1>9, <1>10, <1>11, <1>12,
     <1>13, <1>14, <1>15, <1>16, <1>17, <1>18, <1>19, <1>20, <1>21, <1>22, <1>23,
     <1>24, <1>25, <1>26, Cases

(* What the next state's callbacks are, one by one.                        *)
LEMMA GrowsItems ==
  ASSUME events \in Seq(Events), Grows
  PROVE  /\ events' \in Seq(Events)
         /\ Len(events) \in Nat /\ Len(events') \in Nat
         /\ Len(events) <= Len(events')
         /\ \A i \in 1 .. Len(events) : events'[i] = events[i]
         /\ Len(events) = Len(events') => events' = events
         /\ \/ events' = events
            \/ /\ Len(events') = Len(events) + 1
               /\ events'[Len(events')] \in {"accepted", "connected", "data"}
               /\ events' = Append(events, events'[Len(events')])
            \/ /\ Len(events') = Len(events) + 2
               /\ events'[Len(events) + 1] = "preclose"
               /\ events'[Len(events) + 2] = "closed"
<1>1. CASE events' = events
  BY <1>1
<1>2. ASSUME NEW e \in {"accepted", "connected", "data"}, events' = Append(events, e)
      PROVE  /\ events' \in Seq(Events)
             /\ Len(events') = Len(events) + 1
             /\ events'[Len(events')] = e
             /\ \A i \in 1 .. Len(events) : events'[i] = events[i]
  <2>1. e \in Events
    BY DEF Events
  <2> QED
    BY <1>2, <2>1
<1>3. CASE events' = events \o <<"preclose", "closed">>
  <2>1. <<"preclose", "closed">> \in Seq(Events)
    BY DEF Events
  <2>2. /\ events' \in Seq(Events)
        /\ Len(events') = Len(events) + 2
        /\ \A i \in 1 .. Len(events') :
             events'[i] = IF i <= Len(events) THEN events[i]
                          ELSE <<"preclose", "closed">>[i - Len(events)]
    BY <1>3, <2>1
  <2> QED
    BY <2>2
<1>4. Len(events) \in Nat
  OBVIOUS
<1> QED
  BY <1>1, <1>2, <1>3, <1>4 DEF Grows

(* An announcement is not taken back.                                      *)
Heard ==
  /\ Announced => Announced'
  /\ events' = Append(events, IF how = "accept" THEN "accepted" ELSE "connected") => Announced'

(* Whatever is called back next, what was announced stays announced.       *)
LEMMA HeardStep ==
  ASSUME events \in Seq(Events), Grows
  PROVE  Heard
<1>1. ASSUME Announced PROVE Announced'
  <2>1. PICK j \in 1 .. Len(events) : events[j] \in {"accepted", "connected"}
    BY <1>1 DEF Announced
  <2>2. j \in 1 .. Len(events') /\ events'[j] = events[j]
    BY GrowsItems
  <2> QED
    BY <2>1, <2>2 DEF Announced
<1>2. ASSUME NEW e \in {"accepted", "connected"}, events' = Append(events, e)
      PROVE  Announced'
  <2>1. Len(events') \in 1 .. Len(events') /\ events'[Len(events')] = e
    BY <1>2
  <2> QED
    BY <2>1 DEF Announced
<1> QED
  BY <1>1, <1>2 DEF Heard

(* The callbacks stay in order: what a step adds comes last, input after   *)
(* the announcement, and nothing after closed.                             *)
LEMMA EndedStep ==
  ASSUME events \in Seq(Events), Grows, how' = how, Ended, InputAfter, OneWay
  PROVE  Ended'
<1>1. \A i \in 1 .. Len(events') : events'[i] \in {"preclose", "closed"} => stat' = "closed"
  <2> SUFFICES ASSUME NEW i \in 1 .. Len(events'), events'[i] \in {"preclose", "closed"}
               PROVE  stat' = "closed"
    OBVIOUS
  <2>1. CASE i <= Len(events)
    <3>1. stat = "closed"
      BY <2>1, GrowsItems DEF Ended
    <3> QED
      BY <3>1 DEF Grows
  <2>2. CASE Len(events') = Len(events) + 1 /\ i = Len(events')
    BY <2>2, GrowsItems
  <2>3. CASE Len(events') = Len(events) + 2
    <3>1. events' = events \o <<"preclose", "closed">>
      BY <2>3, GrowsItems DEF Grows
    <3>2. events' # events
      BY <2>3
    <3>3. stat' = "closed" \/ \E e \in Events : events' = Append(events, e)
      BY <3>2 DEF Grows, Events
    <3> QED
      BY <2>3, <3>3
  <2> QED
    BY <2>1, <2>2, <2>3, GrowsItems
<1>2. ClosedIsLast'
  <2> SUFFICES ASSUME NEW i \in 1 .. Len(events'), events'[i] \in {"preclose", "closed"}
               PROVE  \/ events'[i] = "closed" /\ i = Len(events')
                      \/ events'[i] = "preclose" /\ i = Len(events') - 1
    BY DEF ClosedIsLast, At
  <2>1. CASE i <= Len(events)
    <3>1. stat = "closed"
      BY <2>1, GrowsItems DEF Ended
    <3>2. events' = events
      BY <3>1 DEF Grows
    <3>3. i \in At("closed") \cup At("preclose")
      BY <2>1, <3>2 DEF At
    <3> QED
      BY <3>2, <3>3 DEF Ended, ClosedIsLast
  <2>2. CASE i > Len(events)
    BY <2>2, GrowsItems
  <2> QED
    BY <2>1, <2>2, GrowsItems
<1>3. AnnouncedFirst'
  <2> SUFFICES ASSUME how # "connect2", NEW i \in 1 .. Len(events'), events'[i] = "data"
               PROVE  \E j \in 1 .. Len(events') :
                        events'[j] \in {"accepted", "connected"} /\ j < i
    BY DEF AnnouncedFirst, At
  <2>1. CASE i <= Len(events)
    <3>1. i \in At("data")
      BY <2>1, GrowsItems DEF At
    <3>2. PICK j \in At("accepted") \cup At("connected") : j < i
      BY <3>1 DEF Ended, AnnouncedFirst
    <3>3. j \in 1 .. Len(events) /\ events[j] \in {"accepted", "connected"}
      BY <3>2 DEF At
    <3> QED
      BY <3>2, <3>3, GrowsItems
  <2>2. CASE i > Len(events)
    <3>1. pc["epoll"] = "recv"
      <4>1. events' # events
        BY <2>2
      <4>2. CASE events' = Append(events, IF how = "accept" THEN "accepted" ELSE "connected")
        BY <4>2, <2>2
      <4>3. CASE events' = events \o <<"preclose", "closed">>
        <5>1. <<"preclose", "closed">> \in Seq(Events)
          BY DEF Events
        <5> QED
          BY <4>3, <2>2, <5>1
      <4> QED
        BY <4>1, <4>2, <4>3 DEF Grows
    <3>2. PICK j \in 1 .. Len(events) : events[j] \in {"accepted", "connected"}
      BY <3>1 DEF InputAfter, Announced, OneWay
    <3> QED
      BY <3>2, <2>2, GrowsItems
  <2> QED
    BY <2>1, <2>2, GrowsItems
<1> QED
  BY <1>1, <1>2, <1>3 DEF Ended

(* The link is announced before its input is read.                         *)
LEMMA InputStep ==
  ASSUME Placed, OneWay, Places, Ways, InputAfter, Heard, Next
  PROVE  InputAfter'
<1>1. CASE Enter
  BY <1>1, EnterDoes, Zenon DEF InputAfter, Heard
<1>2. CASE tcp_connect
  BY <1>2, tcp_connectDoes, Zenon DEF InputAfter, Heard
<1>3. CASE tcp_connect2
  BY <1>3, tcp_connect2Does, Zenon DEF InputAfter, Heard
<1>4. CASE SetUp
  BY <1>4, SetUpDoes, Zenon DEF InputAfter, Heard, Ways
<1>5. CASE Attach
  BY <1>5, AttachDoes, Zenon DEF InputAfter, Heard, OneWay
<1>6. ASSUME NEW t \in {"user", "pool"}, SynResult(t)
      PROVE  InputAfter'
  <2>1. CASE t = "user"
    BY <1>6, <2>1, SynResultDoes, Zenon DEF Threads, InputAfter, Heard, Ways
  <2>2. CASE t = "pool"
    BY <1>6, <2>2, SynResultDoes, Zenon DEF Threads, InputAfter, Heard, Ways
  <2> QED
    BY <2>1, <2>2
<1>7. ASSUME NEW t \in {"user", "pool"}, Modify(t)
      PROVE  InputAfter'
  <2>1. CASE t = "user"
    BY <1>7, <2>1, ModifyDoes, Zenon DEF Threads, InputAfter, Heard, Ways
  <2>2. CASE t = "pool"
    BY <1>7, <2>2, ModifyDoes, Zenon DEF Threads, InputAfter, Heard, Ways
  <2> QED
    BY <2>1, <2>2
<1>8. ASSUME NEW t \in {"user", "pool"}, SetRead(t)
      PROVE  InputAfter'
  <2>1. CASE t = "user"
    BY <1>8, <2>1, SetReadDoes, Zenon DEF Threads, InputAfter, Heard, Ways
  <2>2. CASE t = "pool"
    BY <1>8, <2>2, SetReadDoes, Zenon DEF Threads, InputAfter, Heard, Ways
  <2> QED
    BY <2>1, <2>2
<1>9. ASSUME NEW t \in {"user", "pool"}, SetWrite(t)
      PROVE  InputAfter'
  <2>1. CASE t = "user"
    BY <1>9, <2>1, SetWriteDoes, Zenon DEF Threads, InputAfter, Heard
  <2>2. CASE t = "pool"
    BY <1>9, <2>2, SetWriteDoes, Zenon DEF Threads, InputAfter, Heard
  <2> QED
    BY <2>1, <2>2
<1>10. ASSUME NEW t \in {"user", "pool"}, PostUp(t)
      PROVE  InputAfter'
  <2>1. CASE t = "user"
    BY <1>10, <2>1, PostUpDoes, Zenon DEF Threads, InputAfter, Heard, OneWay
  <2>2. CASE t = "pool"
    BY <1>10, <2>2, PostUpDoes, Zenon DEF Threads, InputAfter, Heard, OneWay
  <2> QED
    BY <2>1, <2>2
<1>11. ASSUME NEW t \in {"user", "epoll", "pool"}, Close(t)
      PROVE  InputAfter'
  <2>1. CASE t = "user"
    BY <1>11, <2>1, CloseDoes, Zenon DEF Threads, InputAfter, Heard
  <2>2. CASE t = "epoll"
    BY <1>11, <2>2, CloseDoes, Zenon DEF Threads, InputAfter, Heard
  <2>3. CASE t = "pool"
    BY <1>11, <2>3, CloseDoes, Zenon DEF Threads, InputAfter, Heard
  <2> QED
    BY <2>1, <2>2, <2>3
<1>12. ASSUME NEW t \in Threads, Release(t)
      PROVE  InputAfter'
  <2>1. CASE t = "user"
    BY <1>12, <2>1, ReleaseDoes, Zenon DEF Threads, InputAfter, Heard
  <2>2. CASE t = "epoll"
    BY <1>12, <2>2, ReleaseDoes, Zenon DEF Threads, InputAfter, Heard
  <2>3. CASE t = "pool"
    BY <1>12, <2>3, ReleaseDoes, Zenon DEF Threads, InputAfter, Heard
  <2>4. CASE t = "destroy"
    BY <1>12, <2>4, ReleaseDoes, Zenon DEF Threads, InputAfter, Heard
  <2> QED
    BY <2>1, <2>2, <2>3, <2>4 DEF Threads
<1>13. CASE EpollWait
  BY <1>13, EpollWaitDoes, Zenon DEF InputAfter, Heard
<1>14. CASE EpollRefr
  BY <1>14, EpollRefrDoes, Zenon DEF InputAfter, Heard
<1>15. CASE EpollRead
  BY <1>15, EpollReadDoes, Zenon DEF InputAfter, Heard
<1>16. CASE EpollRecv
  BY <1>16, EpollRecvDoes, Zenon DEF InputAfter, Heard
<1>17. CASE wp_queued
  BY <1>17, wp_queuedDoes, Zenon DEF InputAfter, Heard
<1>18. CASE PoolGet
  BY <1>18, PoolGetDoes, Zenon DEF InputAfter, Heard
<1>19. CASE PoolRefr
  BY <1>19, PoolRefrDoes, Zenon DEF InputAfter, Heard
<1>20. CASE PoolExec
  BY <1>20, PoolExecDoes, Zenon DEF InputAfter, Heard
<1>21. CASE DestroyBegin
  BY <1>21, DestroyBeginDoes, Zenon DEF InputAfter, Heard
<1>22. CASE DestroyClose
  BY <1>22, DestroyCloseDoes, Zenon DEF InputAfter, Heard
<1>23. CASE Established
  BY <1>23, EstablishedDoes, Zenon DEF InputAfter, Heard
<1>24. CASE Refused
  BY <1>24, RefusedDoes, Zenon DEF InputAfter, Heard
<1>25. CASE Data
  BY <1>25, DataDoes, Zenon DEF InputAfter, Heard
<1>26. CASE Break
  BY <1>26, BreakDoes, Zenon DEF InputAfter, Heard
<1> QED
  BY <1>1, <1>2, <1>3, <1>4, <1>5, <1>6, <1>7, <1>8, <1>9, <1>10, <1>11, <1>12,
     <1>13, <1>14, <1>15, <1>16, <1>17, <1>18, <1>19, <1>20, <1>21, <1>22, <1>23,
     <1>24, <1>25, <1>26, Cases

(* How many segments the user has been given after a step.                 *)
Counts ==
  /\ Delivered \in Nat
  /\ events' = events => Delivered' = Delivered
  /\ events' = Append(events, "data") => Delivered' = Delivered + 1
  /\ events' = Append(events, IF how = "accept" THEN "accepted" ELSE "connected")
       => Delivered' = Delivered
  /\ events' = events \o <<"preclose", "closed">> => Delivered' = Delivered

(* Only tcp_rx, by a callback for each segment, adds to the data.          *)
LEMMA CountsStep ==
  ASSUME events \in Seq(Events), Grows
  PROVE  Counts
<1>1. IsFiniteSet(At("data")) /\ Delivered \in Nat
  <2>1. At("data") \subseteq 1 .. Len(events)
    BY DEF At
  <2>2. IsFiniteSet(1 .. Len(events))
    BY FS_Interval
  <2> QED
    BY <2>1, <2>2, FS_Subset, FS_CardinalityType DEF Delivered
<1>2. events' = events => Delivered' = Delivered
  BY DEF Delivered, At
<1>3. ASSUME events' = Append(events, "data")
      PROVE  Delivered' = Delivered + 1
  <2>1. At("data")' = At("data") \cup {Len(events) + 1}
    BY <1>3 DEF At
  <2>2. Len(events) + 1 \notin At("data")
    BY DEF At
  <2> QED
    BY <1>1, <2>1, <2>2, FS_AddElement DEF Delivered
<1>4. ASSUME NEW e \in {"accepted", "connected"}, events' = Append(events, e)
      PROVE  Delivered' = Delivered
  <2>1. At("data")' = At("data")
    BY <1>4 DEF At
  <2> QED
    BY <2>1 DEF Delivered
<1>5. ASSUME events' = events \o <<"preclose", "closed">>
      PROVE  Delivered' = Delivered
  <2>1. <<"preclose", "closed">> \in Seq(Events)
    BY DEF Events
  <2>2. At("data")' = At("data")
    BY <1>5, <2>1 DEF At
  <2> QED
    BY <2>2 DEF Delivered
<1> QED
  BY <1>1, <1>2, <1>3, <1>4, <1>5 DEF Counts

(* The counters are numbers.                                               *)
Numbers == sent \in Nat /\ unread \in Nat /\ deaf \in Nat /\ due \in Nat

(* Every segment recv(2) returns is given to the user.                     *)
LEMMA ReceivedStep ==
  ASSUME Placed, Places, Held, Counts, Numbers, Received, Next
  PROVE  Received'
<1>1. CASE Enter
  BY <1>1, EnterDoes DEF Received, Counts, Numbers
<1>2. CASE tcp_connect
  BY <1>2, tcp_connectDoes DEF Received, Counts, Numbers
<1>3. CASE tcp_connect2
  BY <1>3, tcp_connect2Does DEF Received, Counts, Numbers
<1>4. CASE SetUp
  BY <1>4, SetUpDoes DEF Received, Counts, Numbers
<1>5. CASE Attach
  BY <1>5, AttachDoes DEF Received, Counts, Numbers, OneWay
<1>6. ASSUME NEW t \in {"user", "pool"}, SynResult(t)
      PROVE  Received'
  <2>1. CASE t = "user"
    BY <1>6, <2>1, SynResultDoes DEF Threads, Received, Counts, Numbers
  <2>2. CASE t = "pool"
    BY <1>6, <2>2, SynResultDoes DEF Threads, Received, Counts, Numbers
  <2> QED
    BY <2>1, <2>2
<1>7. ASSUME NEW t \in {"user", "pool"}, Modify(t)
      PROVE  Received'
  <2>1. CASE t = "user"
    BY <1>7, <2>1, ModifyDoes DEF Threads, Received, Counts, Numbers
  <2>2. CASE t = "pool"
    BY <1>7, <2>2, ModifyDoes DEF Threads, Received, Counts, Numbers
  <2> QED
    BY <2>1, <2>2
<1>8. ASSUME NEW t \in {"user", "pool"}, SetRead(t)
      PROVE  Received'
  <2>1. CASE t = "user"
    BY <1>8, <2>1, SetReadDoes DEF Threads, Received, Counts, Numbers
  <2>2. CASE t = "pool"
    BY <1>8, <2>2, SetReadDoes DEF Threads, Received, Counts, Numbers
  <2> QED
    BY <2>1, <2>2
<1>9. ASSUME NEW t \in {"user", "pool"}, SetWrite(t)
      PROVE  Received'
  <2>1. CASE t = "user"
    BY <1>9, <2>1, SetWriteDoes DEF Threads, Received, Counts, Numbers
  <2>2. CASE t = "pool"
    BY <1>9, <2>2, SetWriteDoes DEF Threads, Received, Counts, Numbers
  <2> QED
    BY <2>1, <2>2
<1>10. ASSUME NEW t \in {"user", "pool"}, PostUp(t)
      PROVE  Received'
  <2>1. CASE t = "user"
    BY <1>10, <2>1, PostUpDoes DEF Threads, Received, Counts, Numbers, OneWay
  <2>2. CASE t = "pool"
    BY <1>10, <2>2, PostUpDoes DEF Threads, Received, Counts, Numbers, OneWay
  <2> QED
    BY <2>1, <2>2
<1>11. ASSUME NEW t \in {"user", "epoll", "pool"}, Close(t)
      PROVE  Received'
  <2>1. CASE t = "user"
    BY <1>11, <2>1, CloseDoes DEF Threads, Received, Counts, Numbers
  <2>2. CASE t = "epoll"
    BY <1>11, <2>2, CloseDoes DEF Threads, Received, Counts, Numbers
  <2>3. CASE t = "pool"
    BY <1>11, <2>3, CloseDoes DEF Threads, Received, Counts, Numbers
  <2> QED
    BY <2>1, <2>2, <2>3
<1>12. ASSUME NEW t \in Threads, Release(t)
      PROVE  Received'
  <2>1. CASE t = "user"
    BY <1>12, <2>1, ReleaseDoes DEF Threads, Received, Counts, Numbers, Places
  <2>2. CASE t = "epoll"
    BY <1>12, <2>2, ReleaseDoes DEF Threads, Received, Counts, Numbers, Places
  <2>3. CASE t = "pool"
    BY <1>12, <2>3, ReleaseDoes DEF Threads, Received, Counts, Numbers, Places
  <2>4. CASE t = "destroy"
    BY <1>12, <2>4, ReleaseDoes DEF Threads, Received, Counts, Numbers, Places
  <2> QED
    BY <2>1, <2>2, <2>3, <2>4 DEF Threads
<1>13. CASE EpollWait
  BY <1>13, EpollWaitDoes DEF Received, Counts, Numbers
<1>14. CASE EpollRefr
  BY <1>14, EpollRefrDoes DEF Received, Counts, Numbers
<1>15. CASE EpollRead
  BY <1>15, EpollReadDoes DEF Received, Counts, Numbers
<1>16. CASE EpollRecv
  <2>1. CASE conn = "closed"
    <3>1. stat = "closed" => holders = {}
      BY DEF Held
    <3>2. pc["destroy"] # "wait"
      BY <1>16, <2>1, <3>1, EpollRecvDoes DEF Held
    <3> QED
      BY <1>16, <2>1, <3>2, EpollRecvDoes DEF Received, Counts, Numbers
  <2>2. CASE conn # "closed"
    BY <1>16, <2>2, EpollRecvDoes DEF Received, Counts, Numbers
  <2> QED
    BY <2>1, <2>2
<1>17. CASE wp_queued
  BY <1>17, wp_queuedDoes DEF Received, Counts, Numbers
<1>18. CASE PoolGet
  BY <1>18, PoolGetDoes DEF Received, Counts, Numbers
<1>19. CASE PoolRefr
  BY <1>19, PoolRefrDoes DEF Received, Counts, Numbers
<1>20. CASE PoolExec
  BY <1>20, PoolExecDoes DEF Received, Counts, Numbers
<1>21. CASE DestroyBegin
  BY <1>21, DestroyBeginDoes DEF Received, Counts, Numbers
<1>22. CASE DestroyClose
  BY <1>22, DestroyCloseDoes DEF Received, Counts, Numbers
<1>23. CASE Established
  BY <1>23, EstablishedDoes DEF Received, Counts, Numbers
<1>24. CASE Refused
  BY <1>24, RefusedDoes DEF Received, Counts, Numbers
<1>25. CASE Data
  BY <1>25, DataDoes DEF Received, Counts, Numbers
<1>26. CASE Break
  BY <1>26, BreakDoes DEF Received, Counts, Numbers
<1> QED
  BY <1>1, <1>2, <1>3, <1>4, <1>5, <1>6, <1>7, <1>8, <1>9, <1>10, <1>11, <1>12,
     <1>13, <1>14, <1>15, <1>16, <1>17, <1>18, <1>19, <1>20, <1>21, <1>22, <1>23,
     <1>24, <1>25, <1>26, Cases

(* The ranges of the variables.                                            *)
Small ==
  /\ conn \in {"new", "syn", "est", "closed"}
  /\ mask \in {"off", "none", "in", "out"}
  /\ hread \in {"null", "rx"} /\ hwrite \in {"null", "syn", "tx"}
  /\ stat \in {"open", "closing", "closed"}
  /\ holders \subseteq Threads
  /\ tasks \in Nat

Bounds == sent \in 0 .. MaxData /\ unread \in Nat /\ deaf \in Nat /\ due \in Nat

Switches == fin \in BOOLEAN /\ err \in BOOLEAN /\ rdy \in BOOLEAN /\ lost \in BOOLEAN

(* Every step keeps the small variables in their ranges.                   *)
LEMMA SmallStep ==
  ASSUME Placed, OneWay, Small, Next
  PROVE  Small'
<1>1. CASE Enter
  BY <1>1, EnterDoes, Zenon DEF Small, Threads
<1>2. CASE tcp_connect
  BY <1>2, tcp_connectDoes, Zenon DEF Small, Threads
<1>3. CASE tcp_connect2
  BY <1>3, tcp_connect2Does, Zenon DEF Small, Threads
<1>4. CASE SetUp
  BY <1>4, SetUpDoes, Zenon DEF Small, Threads
<1>5. CASE Attach
  BY <1>5, AttachDoes, Zenon DEF Small, Threads, OneWay
<1>6. ASSUME NEW t \in {"user", "pool"}, SynResult(t)
      PROVE  Small'
  <2>1. CASE t = "user"
    BY <1>6, <2>1, SynResultDoes, Zenon DEF Threads, Small
  <2>2. CASE t = "pool"
    BY <1>6, <2>2, SynResultDoes, Zenon DEF Threads, Small
  <2> QED
    BY <2>1, <2>2
<1>7. ASSUME NEW t \in {"user", "pool"}, Modify(t)
      PROVE  Small'
  <2>1. CASE t = "user"
    BY <1>7, <2>1, ModifyDoes, Zenon DEF Threads, Small
  <2>2. CASE t = "pool"
    BY <1>7, <2>2, ModifyDoes, Zenon DEF Threads, Small
  <2> QED
    BY <2>1, <2>2
<1>8. ASSUME NEW t \in {"user", "pool"}, SetRead(t)
      PROVE  Small'
  <2>1. CASE t = "user"
    BY <1>8, <2>1, SetReadDoes, Zenon DEF Threads, Small
  <2>2. CASE t = "pool"
    BY <1>8, <2>2, SetReadDoes, Zenon DEF Threads, Small
  <2> QED
    BY <2>1, <2>2
<1>9. ASSUME NEW t \in {"user", "pool"}, SetWrite(t)
      PROVE  Small'
  <2>1. CASE t = "user"
    BY <1>9, <2>1, SetWriteDoes, Zenon DEF Threads, Small
  <2>2. CASE t = "pool"
    BY <1>9, <2>2, SetWriteDoes, Zenon DEF Threads, Small
  <2> QED
    BY <2>1, <2>2
<1>10. ASSUME NEW t \in {"user", "pool"}, PostUp(t)
      PROVE  Small'
  <2>1. CASE t = "user"
    BY <1>10, <2>1, PostUpDoes, Zenon DEF Threads, Small, OneWay
  <2>2. CASE t = "pool"
    BY <1>10, <2>2, PostUpDoes, Zenon DEF Threads, Small, OneWay
  <2> QED
    BY <2>1, <2>2
<1>11. ASSUME NEW t \in {"user", "epoll", "pool"}, Close(t)
      PROVE  Small'
  <2>1. CASE t = "user"
    BY <1>11, <2>1, CloseDoes, Zenon DEF Threads, Small
  <2>2. CASE t = "epoll"
    BY <1>11, <2>2, CloseDoes, Zenon DEF Threads, Small
  <2>3. CASE t = "pool"
    BY <1>11, <2>3, CloseDoes, Zenon DEF Threads, Small
  <2> QED
    BY <2>1, <2>2, <2>3
<1>12. ASSUME NEW t \in Threads, Release(t)
      PROVE  Small'
  <2>1. CASE t = "user"
    BY <1>12, <2>1, ReleaseDoes, Zenon DEF Threads, Small
  <2>2. CASE t = "epoll"
    BY <1>12, <2>2, ReleaseDoes, Zenon DEF Threads, Small
  <2>3. CASE t = "pool"
    BY <1>12, <2>3, ReleaseDoes, Zenon DEF Threads, Small
  <2>4. CASE t = "destroy"
    BY <1>12, <2>4, ReleaseDoes, Zenon DEF Threads, Small
  <2> QED
    BY <2>1, <2>2, <2>3, <2>4 DEF Threads
<1>13. CASE EpollWait
  BY <1>13, EpollWaitDoes, Zenon DEF Small, Threads
<1>14. CASE EpollRefr
  BY <1>14, EpollRefrDoes, Zenon DEF Small, Threads
<1>15. CASE EpollRead
  BY <1>15, EpollReadDoes, Zenon DEF Small, Threads
<1>16. CASE EpollRecv
  BY <1>16, EpollRecvDoes, Zenon DEF Small, Threads
<1>17. CASE wp_queued
  <2>1. tasks \in Nat
    BY DEF Small
  <2>2. tasks' \in Nat
    BY <1>17, <2>1, wp_queuedDoes
  <2> QED
    BY <1>17, <2>2, wp_queuedDoes DEF Small
<1>18. CASE PoolGet
  <2>1. tasks \in Nat
    BY DEF Small
  <2>2. tasks' \in Nat
    BY <1>18, <2>1, PoolGetDoes
  <2> QED
    BY <1>18, <2>2, PoolGetDoes DEF Small
<1>19. CASE PoolRefr
  BY <1>19, PoolRefrDoes, Zenon DEF Small, Threads
<1>20. CASE PoolExec
  BY <1>20, PoolExecDoes, Zenon DEF Small, Threads
<1>21. CASE DestroyBegin
  BY <1>21, DestroyBeginDoes, Zenon DEF Small, Threads
<1>22. CASE DestroyClose
  BY <1>22, DestroyCloseDoes, Zenon DEF Small, Threads
<1>23. CASE Established
  BY <1>23, EstablishedDoes, Zenon DEF Small, Threads
<1>24. CASE Refused
  BY <1>24, RefusedDoes, Zenon DEF Small, Threads
<1>25. CASE Data
  BY <1>25, DataDoes, Zenon DEF Small, Threads
<1>26. CASE Break
  BY <1>26, BreakDoes, Zenon DEF Small, Threads
<1> QED
  BY <1>1, <1>2, <1>3, <1>4, <1>5, <1>6, <1>7, <1>8, <1>9, <1>10, <1>11, <1>12,
     <1>13, <1>14, <1>15, <1>16, <1>17, <1>18, <1>19, <1>20, <1>21, <1>22, <1>23,
     <1>24, <1>25, <1>26, Cases

(* Every step keeps the counters in their ranges.                          *)
LEMMA BoundsStep ==
  ASSUME Placed, Bounds, Next
  PROVE  Bounds'
<1>1. CASE Enter
  BY <1>1, EnterDoes DEF Bounds
<1>2. CASE tcp_connect
  BY <1>2, tcp_connectDoes DEF Bounds
<1>3. CASE tcp_connect2
  BY <1>3, tcp_connect2Does DEF Bounds
<1>4. CASE SetUp
  BY <1>4, SetUpDoes DEF Bounds
<1>5. CASE Attach
  BY <1>5, AttachDoes DEF Bounds, OneWay
<1>6. ASSUME NEW t \in {"user", "pool"}, SynResult(t)
      PROVE  Bounds'
  <2>1. CASE t = "user"
    BY <1>6, <2>1, SynResultDoes DEF Threads, Bounds
  <2>2. CASE t = "pool"
    BY <1>6, <2>2, SynResultDoes DEF Threads, Bounds
  <2> QED
    BY <2>1, <2>2
<1>7. ASSUME NEW t \in {"user", "pool"}, Modify(t)
      PROVE  Bounds'
  <2>1. CASE t = "user"
    BY <1>7, <2>1, ModifyDoes DEF Threads, Bounds
  <2>2. CASE t = "pool"
    BY <1>7, <2>2, ModifyDoes DEF Threads, Bounds
  <2> QED
    BY <2>1, <2>2
<1>8. ASSUME NEW t \in {"user", "pool"}, SetRead(t)
      PROVE  Bounds'
  <2>1. CASE t = "user"
    BY <1>8, <2>1, SetReadDoes DEF Threads, Bounds
  <2>2. CASE t = "pool"
    BY <1>8, <2>2, SetReadDoes DEF Threads, Bounds
  <2> QED
    BY <2>1, <2>2
<1>9. ASSUME NEW t \in {"user", "pool"}, SetWrite(t)
      PROVE  Bounds'
  <2>1. CASE t = "user"
    BY <1>9, <2>1, SetWriteDoes DEF Threads, Bounds
  <2>2. CASE t = "pool"
    BY <1>9, <2>2, SetWriteDoes DEF Threads, Bounds
  <2> QED
    BY <2>1, <2>2
<1>10. ASSUME NEW t \in {"user", "pool"}, PostUp(t)
      PROVE  Bounds'
  <2>1. CASE t = "user"
    BY <1>10, <2>1, PostUpDoes DEF Threads, Bounds, OneWay
  <2>2. CASE t = "pool"
    BY <1>10, <2>2, PostUpDoes DEF Threads, Bounds, OneWay
  <2> QED
    BY <2>1, <2>2
<1>11. ASSUME NEW t \in {"user", "epoll", "pool"}, Close(t)
      PROVE  Bounds'
  <2>1. CASE t = "user"
    BY <1>11, <2>1, CloseDoes DEF Threads, Bounds
  <2>2. CASE t = "epoll"
    BY <1>11, <2>2, CloseDoes DEF Threads, Bounds
  <2>3. CASE t = "pool"
    BY <1>11, <2>3, CloseDoes DEF Threads, Bounds
  <2> QED
    BY <2>1, <2>2, <2>3
<1>12. ASSUME NEW t \in Threads, Release(t)
      PROVE  Bounds'
  <2>1. CASE t = "user"
    BY <1>12, <2>1, ReleaseDoes DEF Threads, Bounds
  <2>2. CASE t = "epoll"
    BY <1>12, <2>2, ReleaseDoes DEF Threads, Bounds
  <2>3. CASE t = "pool"
    BY <1>12, <2>3, ReleaseDoes DEF Threads, Bounds
  <2>4. CASE t = "destroy"
    BY <1>12, <2>4, ReleaseDoes DEF Threads, Bounds
  <2> QED
    BY <2>1, <2>2, <2>3, <2>4 DEF Threads
<1>13. CASE EpollWait
  BY <1>13, EpollWaitDoes DEF Bounds
<1>14. CASE EpollRefr
  BY <1>14, EpollRefrDoes DEF Bounds
<1>15. CASE EpollRead
  BY <1>15, EpollReadDoes DEF Bounds
<1>16. CASE EpollRecv
  BY <1>16, EpollRecvDoes DEF Bounds
<1>17. CASE wp_queued
  BY <1>17, wp_queuedDoes DEF Bounds
<1>18. CASE PoolGet
  BY <1>18, PoolGetDoes DEF Bounds
<1>19. CASE PoolRefr
  BY <1>19, PoolRefrDoes DEF Bounds
<1>20. CASE PoolExec
  BY <1>20, PoolExecDoes DEF Bounds
<1>21. CASE DestroyBegin
  BY <1>21, DestroyBeginDoes DEF Bounds
<1>22. CASE DestroyClose
  BY <1>22, DestroyCloseDoes DEF Bounds
<1>23. CASE Established
  BY <1>23, EstablishedDoes DEF Bounds
<1>24. CASE Refused
  BY <1>24, RefusedDoes DEF Bounds
<1>25. CASE Data
  BY <1>25, DataDoes, ConnAssumption DEF Bounds, ConnAssumption
<1>26. CASE Break
  BY <1>26, BreakDoes DEF Bounds
<1> QED
  BY <1>1, <1>2, <1>3, <1>4, <1>5, <1>6, <1>7, <1>8, <1>9, <1>10, <1>11, <1>12,
     <1>13, <1>14, <1>15, <1>16, <1>17, <1>18, <1>19, <1>20, <1>21, <1>22, <1>23,
     <1>24, <1>25, <1>26, Cases

(* How the link is set up, and what may fail, is settled.                  *)
LEMMA SettledStep ==
  ASSUME Placed, Next
  PROVE  how' = how /\ faults' = faults
<1>1. CASE Enter
  BY <1>1, EnterDoes DEF vars
<1>2. CASE tcp_connect
  BY <1>2, tcp_connectDoes DEF vars
<1>3. CASE tcp_connect2
  BY <1>3, tcp_connect2Does DEF vars
<1>4. CASE SetUp
  BY <1>4, SetUpDoes DEF vars
<1>5. CASE Attach
  BY <1>5, AttachDoes DEF vars, OneWay
<1>6. ASSUME NEW t \in {"user", "pool"}, SynResult(t)
      PROVE  how' = how /\ faults' = faults
  <2>1. CASE t = "user"
    BY <1>6, <2>1, SynResultDoes DEF Threads, vars
  <2>2. CASE t = "pool"
    BY <1>6, <2>2, SynResultDoes DEF Threads, vars
  <2> QED
    BY <2>1, <2>2
<1>7. ASSUME NEW t \in {"user", "pool"}, Modify(t)
      PROVE  how' = how /\ faults' = faults
  <2>1. CASE t = "user"
    BY <1>7, <2>1, ModifyDoes DEF Threads, vars
  <2>2. CASE t = "pool"
    BY <1>7, <2>2, ModifyDoes DEF Threads, vars
  <2> QED
    BY <2>1, <2>2
<1>8. ASSUME NEW t \in {"user", "pool"}, SetRead(t)
      PROVE  how' = how /\ faults' = faults
  <2>1. CASE t = "user"
    BY <1>8, <2>1, SetReadDoes DEF Threads, vars
  <2>2. CASE t = "pool"
    BY <1>8, <2>2, SetReadDoes DEF Threads, vars
  <2> QED
    BY <2>1, <2>2
<1>9. ASSUME NEW t \in {"user", "pool"}, SetWrite(t)
      PROVE  how' = how /\ faults' = faults
  <2>1. CASE t = "user"
    BY <1>9, <2>1, SetWriteDoes DEF Threads, vars
  <2>2. CASE t = "pool"
    BY <1>9, <2>2, SetWriteDoes DEF Threads, vars
  <2> QED
    BY <2>1, <2>2
<1>10. ASSUME NEW t \in {"user", "pool"}, PostUp(t)
      PROVE  how' = how /\ faults' = faults
  <2>1. CASE t = "user"
    BY <1>10, <2>1, PostUpDoes DEF Threads, vars, OneWay
  <2>2. CASE t = "pool"
    BY <1>10, <2>2, PostUpDoes DEF Threads, vars, OneWay
  <2> QED
    BY <2>1, <2>2
<1>11. ASSUME NEW t \in {"user", "epoll", "pool"}, Close(t)
      PROVE  how' = how /\ faults' = faults
  <2>1. CASE t = "user"
    BY <1>11, <2>1, CloseDoes DEF Threads, vars
  <2>2. CASE t = "epoll"
    BY <1>11, <2>2, CloseDoes DEF Threads, vars
  <2>3. CASE t = "pool"
    BY <1>11, <2>3, CloseDoes DEF Threads, vars
  <2> QED
    BY <2>1, <2>2, <2>3
<1>12. ASSUME NEW t \in Threads, Release(t)
      PROVE  how' = how /\ faults' = faults
  <2>1. CASE t = "user"
    BY <1>12, <2>1, ReleaseDoes DEF Threads, vars
  <2>2. CASE t = "epoll"
    BY <1>12, <2>2, ReleaseDoes DEF Threads, vars
  <2>3. CASE t = "pool"
    BY <1>12, <2>3, ReleaseDoes DEF Threads, vars
  <2>4. CASE t = "destroy"
    BY <1>12, <2>4, ReleaseDoes DEF Threads, vars
  <2> QED
    BY <2>1, <2>2, <2>3, <2>4 DEF Threads
<1>13. CASE EpollWait
  BY <1>13, EpollWaitDoes DEF vars
<1>14. CASE EpollRefr
  BY <1>14, EpollRefrDoes DEF vars
<1>15. CASE EpollRead
  BY <1>15, EpollReadDoes DEF vars
<1>16. CASE EpollRecv
  BY <1>16, EpollRecvDoes DEF vars
<1>17. CASE wp_queued
  BY <1>17, wp_queuedDoes DEF vars
<1>18. CASE PoolGet
  BY <1>18, PoolGetDoes DEF vars
<1>19. CASE PoolRefr
  BY <1>19, PoolRefrDoes DEF vars
<1>20. CASE PoolExec
  BY <1>20, PoolExecDoes DEF vars
<1>21. CASE DestroyBegin
  BY <1>21, DestroyBeginDoes DEF vars
<1>22. CASE DestroyClose
  BY <1>22, DestroyCloseDoes DEF vars
<1>23. CASE Established
  BY <1>23, EstablishedDoes DEF vars
<1>24. CASE Refused
  BY <1>24, RefusedDoes DEF vars
<1>25. CASE Data
  BY <1>25, DataDoes DEF vars
<1>26. CASE Break
  BY <1>26, BreakDoes DEF vars
<1> QED
  BY <1>1, <1>2, <1>3, <1>4, <1>5, <1>6, <1>7, <1>8, <1>9, <1>10, <1>11, <1>12,
     <1>13, <1>14, <1>15, <1>16, <1>17, <1>18, <1>19, <1>20, <1>21, <1>22, <1>23,
     <1>24, <1>25, <1>26, Cases

(* Every step keeps the switches Boolean.                                  *)
LEMMA SwitchesStep ==
  ASSUME Placed, Switches, Next
  PROVE  Switches'
<1>1. CASE Enter
  BY <1>1, EnterDoes DEF Switches
<1>2. CASE tcp_connect
  BY <1>2, tcp_connectDoes DEF Switches
<1>3. CASE tcp_connect2
  BY <1>3, tcp_connect2Does DEF Switches
<1>4. CASE SetUp
  BY <1>4, SetUpDoes DEF Switches
<1>5. CASE Attach
  <2>1. rdy' \in BOOLEAN
    BY <1>5, Kept, Zenon DEF Attach, Interest, Switches
  <2> QED
    BY <1>5, <2>1, AttachDoes DEF Switches
<1>6. ASSUME NEW t \in {"user", "pool"}, SynResult(t)
      PROVE  Switches'
  <2>1. CASE t = "user"
    BY <1>6, <2>1, SynResultDoes DEF Threads, Switches
  <2>2. CASE t = "pool"
    BY <1>6, <2>2, SynResultDoes DEF Threads, Switches
  <2> QED
    BY <2>1, <2>2
<1>7. ASSUME NEW t \in {"user", "pool"}, Modify(t)
      PROVE  Switches'
  <2>1. rdy' \in BOOLEAN
    BY <1>7, Kept, Zenon DEF Modify, Interest, Switches
  <2> QED
    BY <1>7, <2>1, ModifyDoes DEF Switches
<1>8. ASSUME NEW t \in {"user", "pool"}, SetRead(t)
      PROVE  Switches'
  <2>1. CASE t = "user"
    BY <1>8, <2>1, SetReadDoes DEF Threads, Switches
  <2>2. CASE t = "pool"
    BY <1>8, <2>2, SetReadDoes DEF Threads, Switches
  <2> QED
    BY <2>1, <2>2
<1>9. ASSUME NEW t \in {"user", "pool"}, SetWrite(t)
      PROVE  Switches'
  <2>1. CASE t = "user"
    BY <1>9, <2>1, SetWriteDoes DEF Threads, Switches
  <2>2. CASE t = "pool"
    BY <1>9, <2>2, SetWriteDoes DEF Threads, Switches
  <2> QED
    BY <2>1, <2>2
<1>10. ASSUME NEW t \in {"user", "pool"}, PostUp(t)
      PROVE  Switches'
  <2>1. CASE t = "user"
    BY <1>10, <2>1, PostUpDoes DEF Threads, Switches, OneWay
  <2>2. CASE t = "pool"
    BY <1>10, <2>2, PostUpDoes DEF Threads, Switches, OneWay
  <2> QED
    BY <2>1, <2>2
<1>11. ASSUME NEW t \in {"user", "epoll", "pool"}, Close(t)
      PROVE  Switches'
  <2>1. rdy' \in BOOLEAN
    BY <1>11, Kept, Zenon DEF Close, objclos, ncb_deconstruct, io_close, Switches
  <2> QED
    BY <1>11, <2>1, CloseDoes DEF Switches
<1>12. ASSUME NEW t \in Threads, Release(t)
      PROVE  Switches'
  <2>1. rdy' \in BOOLEAN
    BY <1>12, Kept, Zenon DEF Release, objdefr, ncb_deconstruct, io_close, Switches
  <2> QED
    BY <1>12, <2>1, ReleaseDoes DEF Switches
<1>13. CASE EpollWait
  <2>1. rdy' \in BOOLEAN
    BY <1>13, Kept, Zenon DEF EpollWait, Switches
  <2> QED
    BY <1>13, <2>1, EpollWaitDoes DEF Switches
<1>14. CASE EpollRefr
  BY <1>14, EpollRefrDoes DEF Switches
<1>15. CASE EpollRead
  BY <1>15, EpollReadDoes DEF Switches
<1>16. CASE EpollRecv
  BY <1>16, EpollRecvDoes DEF Switches
<1>17. CASE wp_queued
  <2>1. lost' \in BOOLEAN
    BY <1>17, Kept, Zenon DEF wp_queued, Switches
  <2> QED
    BY <1>17, <2>1, wp_queuedDoes DEF Switches
<1>18. CASE PoolGet
  BY <1>18, PoolGetDoes DEF Switches
<1>19. CASE PoolRefr
  BY <1>19, PoolRefrDoes DEF Switches
<1>20. CASE PoolExec
  BY <1>20, PoolExecDoes DEF Switches
<1>21. CASE DestroyBegin
  BY <1>21, DestroyBeginDoes DEF Switches
<1>22. CASE DestroyClose
  <2>1. rdy' \in BOOLEAN
    BY <1>22, Kept, Zenon DEF DestroyClose, io_close, Switches
  <2> QED
    BY <1>22, <2>1, DestroyCloseDoes DEF Switches
<1>23. CASE Established
  <2>1. rdy' \in BOOLEAN
    BY <1>23, Kept, Zenon DEF Established, Switches
  <2> QED
    BY <1>23, <2>1, EstablishedDoes DEF Switches
<1>24. CASE Refused
  <2>1. err' \in BOOLEAN /\ rdy' \in BOOLEAN
    BY <1>24, Kept, Zenon DEF Refused, Switches
  <2> QED
    BY <1>24, <2>1, RefusedDoes DEF Switches
<1>25. CASE Data
  <2>1. rdy' \in BOOLEAN
    BY <1>25, Kept, Zenon DEF Data, Switches
  <2> QED
    BY <1>25, <2>1, DataDoes DEF Switches
<1>26. CASE Break
  <2>1. fin' \in BOOLEAN /\ err' \in BOOLEAN /\ rdy' \in BOOLEAN
    BY <1>26, Kept, Zenon DEF Break, Switches
  <2> QED
    BY <1>26, <2>1, BreakDoes DEF Switches
<1> QED
  BY <1>1, <1>2, <1>3, <1>4, <1>5, <1>6, <1>7, <1>8, <1>9, <1>10, <1>11, <1>12,
     <1>13, <1>14, <1>15, <1>16, <1>17, <1>18, <1>19, <1>20, <1>21, <1>22, <1>23,
     <1>24, <1>25, <1>26, Cases

(* Every step takes a thread from place to place.                          *)
LEMMA PlacedStep ==
  ASSUME Placed, OneWay, Next
  PROVE  Placed'
<1>1. CASE Enter
  BY <1>1, Zenon DEF Enter, Goto, Placed, Place, Threads
<1>2. CASE tcp_connect
  BY <1>2, Zenon DEF tcp_connect, Goto, Placed, Place, Threads
<1>3. CASE tcp_connect2
  BY <1>3, Zenon DEF tcp_connect2, Goto, Placed, Place, Threads
<1>4. CASE SetUp
  BY <1>4, Zenon DEF SetUp, Goto, Placed, Place, Threads
<1>5. CASE Attach
  BY <1>5, Zenon DEF Attach, Goto, Placed, Place, Threads
<1>6. ASSUME NEW t \in {"user", "pool"}, SynResult(t)
      PROVE  Placed'
  BY <1>6, Zenon DEF SynResult, Goto, Placed, Place, Threads
<1>7. ASSUME NEW t \in {"user", "pool"}, Modify(t)
      PROVE  Placed'
  BY <1>7, Zenon DEF Modify, Goto, Placed, Place, Threads
<1>8. ASSUME NEW t \in {"user", "pool"}, SetRead(t)
      PROVE  Placed'
  BY <1>8, Zenon DEF SetRead, Goto, Placed, Place, Threads
<1>9. ASSUME NEW t \in {"user", "pool"}, SetWrite(t)
      PROVE  Placed'
  BY <1>9, Zenon DEF SetWrite, Goto, Placed, Place, Threads
<1>10. ASSUME NEW t \in {"user", "pool"}, PostUp(t)
      PROVE  Placed'
  BY <1>10, Zenon DEF PostUp, Goto, Placed, Place, Threads, OneWay
<1>11. ASSUME NEW t \in {"user", "epoll", "pool"}, Close(t)
      PROVE  Placed'
  BY <1>11, Zenon DEF Close, Goto, Placed, Place, Threads
<1>12. ASSUME NEW t \in Threads, Release(t)
      PROVE  Placed'
  BY <1>12, Zenon DEF Release, Goto, Placed, Place, Threads
<1>13. CASE EpollWait
  BY <1>13, Zenon DEF EpollWait, Goto, Placed, Place, Threads
<1>14. CASE EpollRefr
  BY <1>14, Zenon DEF EpollRefr, Goto, Placed, Place, Threads
<1>15. CASE EpollRead
  BY <1>15, Zenon DEF EpollRead, Goto, Placed, Place, Threads
<1>16. CASE EpollRecv
  BY <1>16, ZenonT(30) DEF EpollRecv, Goto, Placed, Place, Threads
<1>17. CASE wp_queued
  BY <1>17, Zenon DEF wp_queued, Goto, Placed, Place, Threads
<1>18. CASE PoolGet
  BY <1>18, Zenon DEF PoolGet, Goto, Placed, Place, Threads
<1>19. CASE PoolRefr
  BY <1>19, Zenon DEF PoolRefr, Goto, Placed, Place, Threads
<1>20. CASE PoolExec
  BY <1>20, Zenon DEF PoolExec, Goto, Placed, Place, Threads
<1>21. CASE DestroyBegin
  BY <1>21, Zenon DEF DestroyBegin, Goto, Placed, Place, Threads
<1>22. CASE DestroyClose
  BY <1>22, Zenon DEF DestroyClose, Goto, Placed, Place, Threads
<1>23. CASE Established
  BY <1>23, Zenon DEF Established, Goto, Placed, Place, Threads
<1>24. CASE Refused
  BY <1>24, Zenon DEF Refused, Goto, Placed, Place, Threads
<1>25. CASE Data
  BY <1>25, Zenon DEF Data, Goto, Placed, Place, Threads
<1>26. CASE Break
  BY <1>26, Zenon DEF Break, Goto, Placed, Place, Threads
<1> QED
  BY <1>1, <1>2, <1>3, <1>4, <1>5, <1>6, <1>7, <1>8, <1>9, <1>10, <1>11, <1>12,
     <1>13, <1>14, <1>15, <1>16, <1>17, <1>18, <1>19, <1>20, <1>21, <1>22, <1>23,
     <1>24, <1>25, <1>26, Cases

(* TypeOK in parts, and back.                                              *)
LEMMA Apart ==
  ASSUME TypeOK
  PROVE  /\ Placed /\ OneWay /\ Small /\ Bounds /\ Switches /\ Numbers
         /\ how \in Hows /\ faults \in FaultSets /\ events \in Seq(Events)
<1>1. Placed
  BY DEF TypeOK, Placed, Place
<1>2. OneWay /\ how \in Hows /\ faults \in FaultSets
  BY ConnAssumption DEF TypeOK, ConnAssumption, OneWay
<1>3. Small /\ Switches /\ events \in Seq(Events)
  BY DEF TypeOK, Small, Switches, Events
<1>4. Bounds /\ Numbers
  <2>1. /\ sent \in 0 .. MaxData /\ unread \in 0 .. MaxData
        /\ deaf \in 0 .. MaxData /\ due \in 0 .. MaxData
    BY DEF TypeOK
  <2> QED
    BY <2>1, ConnAssumption DEF ConnAssumption, Bounds, Numbers
<1> QED
  BY <1>1, <1>2, <1>3, <1>4

(* The parts of the type invariant make the whole.                         *)
LEMMA Together ==
  ASSUME Placed', Small', Bounds', Switches', how' \in Hows, faults' \in FaultSets,
         events' \in Seq(Events), Received', Delivered' \in Nat
  PROVE  TypeOK'
<1>1. unread' \in 0 .. MaxData /\ due' \in 0 .. MaxData /\ deaf' \in 0 .. MaxData
  <2>1. sent' \in 0 .. MaxData /\ unread' \in Nat /\ due' \in Nat /\ deaf' \in Nat
    BY DEF Bounds
  <2>2. Delivered' + unread' = sent' /\ due' <= sent' /\ deaf' <= sent'
    BY DEF Received
  <2>3. Delivered' \in Nat
    OBVIOUS
  <2>5. MaxData \in Nat
    BY ConnAssumption DEF ConnAssumption
  <2>4. unread' <= sent'
    <3>1. \A d, u, s \in Nat : d + u = s => u <= s
      OBVIOUS
    <3>2. sent' \in Nat
      BY <2>1, <2>5
    <3> QED
      BY <2>1, <2>2, <2>3, <3>1, <3>2
  <2> QED
    BY <2>1, <2>2, <2>4, <2>5
<1>2. pc' \in [Threads -> Place]
  BY DEF Placed
<1>3. sent' \in 0 .. MaxData
  BY DEF Bounds
<1> QED
  BY <1>1, <1>2, <1>3 DEF TypeOK, Place, Small, Switches, Events

(* The link before anything has happened to it.                            *)
LEMMA Initially == Init => IInv
<1> SUFFICES ASSUME Init PROVE IInv
  OBVIOUS
<1> DEFINE Fresh == /\ conn \in {"new", "est"} /\ fin = FALSE /\ err = FALSE
                   /\ sent = 0 /\ unread = 0 /\ deaf = 0 /\ due = 0 /\ tasks = 0
                   /\ mask = "off" /\ hread = "null" /\ hwrite = "null"
<1>0. Fresh
  BY DEF Init
<1>1. OneWay
  BY ConnAssumption DEF Init, ConnAssumption, OneWay
<1>2. /\ pc["user"] = IF how = "accept" THEN "setup" ELSE "idle"
      /\ pc["epoll"] = "wait" /\ pc["pool"] = "wait" /\ pc["destroy"] = "wait"
  BY DEF Init, Threads
<1>3. Placed
  BY DEF Init, Placed, Place, Threads
<1>4. Small /\ Bounds /\ Switches
  <2>1. Small
    BY DEF Init, Small, Threads
  <2>2. Bounds
    BY ConnAssumption DEF Init, Bounds, ConnAssumption
  <2>3. Switches
    BY DEF Init, Switches
  <2> QED
    BY <2>1, <2>2, <2>3
<1>5. how \in Hows /\ faults \in FaultSets /\ events \in Seq(Events) /\ Len(events) = 0
  BY DEF Init
<1>6. Delivered = 0
  <2>1. At("data") = {}
    BY <1>5 DEF At
  <2> QED
    BY <2>1, FS_EmptySet DEF Delivered
<1>7. Received
  BY <1>0, <1>6 DEF Received
<1>8. TypeOK
  <2>1. pc \in [Threads -> Place]
    BY <1>3 DEF Placed
  <2>2. /\ sent \in 0 .. MaxData /\ unread \in 0 .. MaxData
        /\ deaf \in 0 .. MaxData /\ due \in 0 .. MaxData
    BY <1>0, ConnAssumption DEF ConnAssumption
  <2> QED
    BY <1>4, <1>5, <2>1, <2>2 DEF TypeOK, Place, Small, Switches, Events
<1>9. Places
  BY <1>2 DEF Places
<1>10. Held
  BY <1>2 DEF Held, Init
<1>11. Ways
  BY <1>1, <1>2 DEF Ways, Init, OneWay
<1>12. HandlersFirst /\ Asked
  BY <1>0, <1>2 DEF HandlersFirst, Asked
<1>13. Ended
  BY <1>5 DEF Ended, ClosedIsLast, AnnouncedFirst, At
<1>14. InputAfter
  BY <1>0, <1>2 DEF InputAfter
<1>15. Caused
  BY <1>2 DEF Caused, ClosedForCause, Init
<1>16. NoUnheardInput
  BY DEF NoUnheardInput, Init
<1> QED
  BY <1>7, <1>8, <1>9, <1>10, <1>11, <1>12, <1>13, <1>14, <1>15, <1>16 DEF IInv

(* Every step of every thread keeps all of it.                             *)
LEMMA Inductive == IInv /\ [Next]_vars => IInv'
<1> SUFFICES ASSUME IInv, [Next]_vars PROVE IInv'
  OBVIOUS
<1>1. CASE UNCHANGED vars
  <2>1. /\ how' = how /\ faults' = faults /\ conn' = conn /\ fin' = fin /\ err' = err
        /\ sent' = sent /\ unread' = unread /\ mask' = mask /\ rdy' = rdy /\ hread' = hread
        /\ hwrite' = hwrite /\ stat' = stat /\ holders' = holders /\ events' = events
        /\ tasks' = tasks /\ pc' = pc /\ deaf' = deaf /\ due' = due /\ lost' = lost
    BY <1>1 DEF vars, hist
  <2>6. Places'
    <3>1. Places /\ pc' = pc
      BY <2>1 DEF IInv
    <3> QED
      BY <3>1, ZenonT(30) DEF Places
  <2>7. Held'
    BY <2>1 DEF IInv, Held
  <2>3. Ways' /\ HandlersFirst' /\ Asked'
    BY <2>1 DEF IInv, Ways, HandlersFirst, Asked
  <2>4. Ended' /\ InputAfter' /\ Received'
    BY <2>1 DEF IInv, Ended, ClosedIsLast, AnnouncedFirst, At, InputAfter, Announced, Received,
                Delivered
  <2>2. TypeOK'
    <3>1. /\ Placed /\ Small /\ Bounds /\ Switches
          /\ how \in Hows /\ faults \in FaultSets /\ events \in Seq(Events)
      BY Apart DEF IInv
    <3>2. Delivered' \in Nat
      <4>1. Grows
        BY <2>1 DEF Grows
      <4> QED
        BY <2>1, <3>1, <4>1, CountsStep DEF Counts
    <3>3. Placed' /\ how' \in Hows /\ faults' \in FaultSets /\ events' \in Seq(Events)
      BY <2>1, <3>1 DEF Placed
    <3>4. Small' /\ Bounds'
      BY <2>1, <3>1 DEF Small, Bounds
    <3>5. Switches'
      BY <2>1, <3>1 DEF Switches
    <3> QED
      BY <2>4, <3>2, <3>3, <3>4, <3>5, Together
  <2>5. Caused' /\ NoUnheardInput'
    BY <2>1 DEF IInv, Caused, Cause, ClosedForCause, NoUnheardInput
  <2> QED
    BY <2>2, <2>3, <2>4, <2>5, <2>6, <2>7 DEF IInv
<1>2. CASE Next
  <2> USE <1>2
  <2>1. /\ TypeOK /\ Places /\ Held /\ Ways /\ HandlersFirst /\ Asked /\ Ended /\ InputAfter
        /\ Received /\ Caused /\ NoUnheardInput
    BY DEF IInv
  <2>2. /\ Placed /\ OneWay /\ Small /\ Bounds /\ Switches /\ Numbers
        /\ how \in Hows /\ faults \in FaultSets /\ events \in Seq(Events)
    BY <2>1, Apart
  <2>3. Placed'
    BY <2>2, PlacedStep
  <2>4. Places' /\ Held' /\ Ways' /\ HandlersFirst' /\ Caused'
    BY <2>1, <2>2, PlacesStep, HeldStep, WaysStep, HandlersStep, CausedStep
  <2>5. Asked'
    <3>1. tasks \in Nat
      BY <2>2 DEF Small
    <3> QED
      BY <2>1, <2>2, <3>1, AskedStep
  <2>6. Grows
    BY <2>1, <2>2, GrowsStep
  <2>7. events' \in Seq(Events)
    BY <2>2, <2>6, GrowsItems
  <2>8. Ended' /\ InputAfter'
    <3>1. how' = how
      BY <2>2, SettledStep
    <3>2. Ended'
      BY <2>1, <2>2, <2>6, <3>1, EndedStep
    <3>3. InputAfter'
      BY <2>1, <2>2, <2>6, HeardStep, InputStep
    <3> QED
      BY <3>2, <3>3
  <2>9. Received' /\ Delivered' \in Nat
    <3>1. Counts
      BY <2>2, <2>6, CountsStep
    <3>2. Received'
      BY <2>1, <2>2, <3>1, ReceivedStep
    <3>3. Delivered' \in Nat
      BY <2>6, <3>1 DEF Grows, Counts
    <3> QED
      BY <3>2, <3>3
  <2>10. NoUnheardInput'
    <3>1. unread \in Nat /\ (conn \in {"new", "syn"} => unread = 0)
      <4>1. Delivered \in Nat
        BY <2>2, <2>6, CountsStep DEF Counts
      <4> QED
        BY <2>1, <2>2, <4>1 DEF Received, Numbers
    <3> QED
      BY <2>1, <2>2, <3>1, UnheardStep
  <2>11. Small' /\ Bounds' /\ Switches'
    BY <2>2, SmallStep, BoundsStep, SwitchesStep
  <2>12. how' \in Hows /\ faults' \in FaultSets
    BY <2>2, SettledStep
  <2>13. TypeOK'
    BY <2>3, <2>7, <2>9, <2>11, <2>12, Together
  <2> QED
    BY <2>4, <2>5, <2>8, <2>9, <2>10, <2>13 DEF IInv
<1> QED
  BY <1>1, <1>2

-----------------------------------------------------------------------------
(* The inductive invariant holds of every behaviour: the four threads and  *)
(* the peer, in any order, whatever fails.                                 *)
THEOREM SetUpSafe == Spec => []IInv
<1>1. Init => IInv
  BY Initially
<1>2. IInv /\ [Next]_vars => IInv'
  BY Inductive
<1> QED
  BY <1>1, <1>2, PTL DEF Spec

(* The callbacks of a link come in order and for a cause: none before it   *)
(* is announced, none after closed (ncb_deconstruct), whichever of the     *)
(* threads closes it and whenever.                                         *)
THEOREM CallbacksOrdered == Spec => []CallbackOrder
<1>1. IInv => CallbackOrder
  BY DEF IInv, CallbackOrder, Ended, Caused
<1> QED
  BY <1>1, SetUpSafe, PTL

(* The edge of an accepted link is never spent without a handler, and that *)
(* of a connected one only until the peer's next segment (__iorun).        *)
THEOREM InputHeard == Spec => []NoUnheardInput
<1>1. IInv => NoUnheardInput
  BY DEF IInv
<1> QED
  BY <1>1, SetUpSafe, PTL

(* What had come when tcp_rx was called is delivered before the link is    *)
(* closed, unless the user destroys it.                                    *)
THEOREM DueBeforeClosed == Spec => []DueDelivered
<1>1. IInv => DueDelivered
  <2> SUFFICES ASSUME IInv, stat = "closed", pc["destroy"] = "wait"
               PROVE  Delivered >= due
    BY DEF DueDelivered, Delivered
  <2>1. pc["epoll"] # "recv"
    BY DEF IInv, Held
  <2> QED
    BY <2>1 DEF IInv, Received
<1> QED
  BY <1>1, SetUpSafe, PTL

=============================================================================
