------------------------------ MODULE LinkLife ------------------------------
(***************************************************************************)
(* The life of link objects across calls and threads: creation             *)
(* (tcp_create, udp_create, arp_create), nis_cntl, the *_destroy calls, an *)
(* epoll thread inside a read handler, hang-ups, ncb_uninit with its copy  *)
(* of the global list, and the destructor ncb_deconstruct, which runs on   *)
(* whichever thread gives the last reference back.  Descriptor numbers are *)
(* reused by the kernel, smallest first.                                   *)
(*                                                                         *)
(* A thread's remaining steps are kept as a stack of labels, so that the   *)
(* destructor can run inside any objdefr or objclos.                       *)
(***************************************************************************)
EXTENDS Integers, Sequences, FiniteSets, SequencesExt, Sublists

CONSTANTS
  Links,     \* the objects that can be allocated
  Users,     \* threads of the application
  Creators,  \* those that create links
  Workers,   \* those that call nis_cntl and the *_destroy functions
  Protocols, \* among "tcp" and "udp" (ARP links behave like UDP ones here)
  Uninits,   \* protocols ncb_uninit is called for, once in all
  Fds,       \* descriptor numbers, 1 .. n
  MaxLeak    \* bound on the calls of nis_cntl with an unknown command

NoLink == "nolink"

ASSUME LifeAssumption ==
  /\ IsFiniteSet(Users) /\ IsFiniteSet(Fds)
  /\ NoLink \notin Links
  /\ Creators \subseteq Users /\ Workers \subseteq Users
  /\ Protocols \subseteq {"tcp", "udp"}
  /\ Uninits \subseteq Protocols
  /\ Fds = 1 .. Cardinality(Fds)
  /\ MaxLeak \in Nat
  /\ {"epoll", "uninit"} \cap Users = {}

VARIABLES
  stat,     \* "none", "open", "closing", "destructing", "gone" (freed)
  refs,     \* references held
  proto,    \* ncb->protocol, "unset" after the memset of ncb_allocator
  sockfd,   \* ncb->sockfd, 0 for none
  files,    \* the kernel's table: the link whose socket a number names
  listed,   \* nl_head
  nl_count,
  told,     \* callbacks of a link the user has seen
  known,    \* handles a create call has returned
  leaked,   \* links with references that are never given back
  shot,     \* links a *_destroy call has closed the descriptor of
  own,      \* links ncb_uninit has itself destructed
  todo,     \* the remaining steps of each thread
  cur,      \* the link each thread works on
  reg,      \* the descriptor the epoll thread has loaded for its recv(2)
  hlds,     \* handles ncb_uninit has copied and not yet closed
  last,     \* the list entry ncb_uninit visited last
  due,      \* links ncb_uninit has to close: complete when it took the lock
  starved   \* it found no memory for its copy

ncb == <<proto, sockfd>>
list == <<listed, nl_count>>
user == <<told, known, own>>
hist == <<leaked, shot>>
un == <<hlds, last, due, starved>>
vars == <<stat, refs, proto, sockfd, files, listed, nl_count, told, known,
          leaked, shot, own, todo, cur, reg, hlds, last, due, starved>>

Threads == Users \cup {"epoll", "uninit"}

Init ==
  /\ stat = [l \in Links |-> "none"]
  /\ refs = [l \in Links |-> 0]
  /\ proto = [l \in Links |-> "unset"]
  /\ sockfd = [l \in Links |-> 0]
  /\ files = [f \in Fds |-> NoLink]
  /\ listed = << >> /\ nl_count = 0
  /\ told = [l \in Links |-> << >>] /\ known = {}
  /\ leaked = {} /\ shot = {}
  /\ own = {}
  /\ todo = [t \in Threads |-> << >>]
  /\ cur = [t \in Threads |-> NoLink]
  /\ reg = 0
  /\ hlds = << >> /\ last = NoLink /\ due = {} /\ starved = FALSE

-----------------------------------------------------------------------------
(***************************************************************************)
(* Steps of a thread.                                                      *)
(***************************************************************************)

Idle(t) == todo[t] = << >>

At(t, s) == ~Idle(t) /\ Head(todo[t]) = s

(* Thread t does its next step, s, and has more to do before what is left. *)
Does(t, s, more) ==
  /\ At(t, s)
  /\ todo' = [todo EXCEPT ![t] = more \o Tail(@)]
  /\ cur' = [cur EXCEPT ![t] = IF todo'[t] = << >> THEN NoLink ELSE @]

Starts(t, l, steps) ==
  /\ Idle(t)
  /\ todo' = [todo EXCEPT ![t] = steps]
  /\ cur' = [cur EXCEPT ![t] = l]

ncb_deconstruct == <<"close", "unlist", "closed">>

(* objrefr: fails on a link that is closing.                               *)
objrefr(l) ==
  /\ stat[l] = "open"
  /\ refs' = [refs EXCEPT ![l] = @ + 1]
  /\ UNCHANGED <<stat, told, own>>

(* Thread t, at step s, is the last in link l: ncb_post_preclose, and the  *)
(* rest of the destructor to do.                                           *)
Destructs(t, l, s) ==
  /\ Does(t, s, ncb_deconstruct)
  /\ stat' = [stat EXCEPT ![l] = "destructing"]
  /\ told' = [told EXCEPT ![l] = Append(@, "preclose")]
  /\ own' = IF t = "uninit" THEN own \cup {l} ELSE own

Passes(t, s) == Does(t, s, << >>) /\ UNCHANGED <<told, own>>

(* A faulty variant: the destructor runs when one reference is left.       *)
DefrEarly(t, l) ==
  /\ At(t, "defr") /\ refs' = [refs EXCEPT ![l] = @ - 1]
  /\ IF stat[l] = "closing" /\ refs[l] <= 2
     THEN Destructs(t, l, "defr")
     ELSE Passes(t, "defr") /\ UNCHANGED stat

(* objdefr                                                                 *)
Defr(t, l) ==
  /\ At(t, "defr") /\ refs' = [refs EXCEPT ![l] = @ - 1]
  /\ IF stat[l] = "closing" /\ refs[l] = 1
     THEN Destructs(t, l, "defr")
     ELSE Passes(t, "defr") /\ UNCHANGED stat

(* A faulty variant: a link whose destructor is at work is destructed again.*)
ClosAgain(t, l) ==
  /\ At(t, "clos") /\ UNCHANGED refs
  /\ \/ stat[l] \in {"open", "destructing"} /\ refs[l] = 0 /\ Destructs(t, l, "clos")
     \/ /\ stat[l] = "open" /\ refs[l] > 0 /\ Passes(t, "clos")
        /\ stat' = [stat EXCEPT ![l] = "closing"]
     \/ stat[l] \in {"closing", "gone"} /\ Passes(t, "clos") /\ UNCHANGED stat

(* objclos: marks the link; the last objdefr destructs it, or objclos does *)
(* when nobody holds it.                                                   *)
Clos(t, l) ==
  /\ At(t, "clos") /\ UNCHANGED refs
  /\ \/ stat[l] = "open" /\ refs[l] = 0 /\ Destructs(t, l, "clos")
     \/ /\ stat[l] = "open" /\ refs[l] > 0 /\ Passes(t, "clos")
        /\ stat' = [stat EXCEPT ![l] = "closing"]
     \/ stat[l] # "open" /\ Passes(t, "clos") /\ UNCHANGED stat

objdefr(t) ==
  /\ Defr(t, cur[t])
  /\ UNCHANGED <<ncb, files, list, known, hist, reg, un>>

objclos(t) ==
  /\ Clos(t, cur[t])
  /\ UNCHANGED <<ncb, files, list, known, hist, reg, un>>

-----------------------------------------------------------------------------
(***************************************************************************)
(* ncb_deconstruct and io_close.                                           *)
(***************************************************************************)

(* io_detach, shutdown, close of the number in ncb->sockfd, and its reset. *)
(* A handler that loads the number in between is no different from one     *)
(* that has loaded it before.                                              *)
io_close(t) ==
  /\ Does(t, "close", << >>)
  /\ LET f == sockfd[cur[t]] IN
     files' = IF f > 0 THEN [files EXCEPT ![f] = NoLink] ELSE files
  /\ sockfd' = [sockfd EXCEPT ![cur[t]] = 0]
  /\ UNCHANGED <<stat, refs, proto, list, user, hist, reg, un>>

(* list_del works on a link ncb_uninit has already taken out, too.         *)
Unlist(t) ==
  /\ Does(t, "unlist", << >>)
  /\ listed' = Only(listed, Links \ {cur[t]})
  /\ nl_count' = IF nl_count > 0 THEN nl_count - 1 ELSE nl_count
  /\ UNCHANGED <<stat, refs, ncb, files, user, hist, reg, un>>

(* ncb_post_closed; then the object's memory is given back.                *)
ncb_post_closed(t) ==
  /\ Does(t, "closed", << >>)
  /\ told' = [told EXCEPT ![cur[t]] = Append(@, "closed")]
  /\ stat' = [stat EXCEPT ![cur[t]] = "gone"]
  /\ UNCHANGED <<refs, ncb, files, list, known, own, hist, reg, un>>

DestructStep(t) ==
  \/ io_close(t) \/ Unlist(t) \/ ncb_post_closed(t)

-----------------------------------------------------------------------------
(***************************************************************************)
(* Calls of the application.                                               *)
(***************************************************************************)

FreeFds == {f \in Fds : files[f] = NoLink}
LowestFd == CHOOSE f \in FreeFds : \A g \in FreeFds : f <= g

Unused == {l \in Links : stat[l] = "none"}

(* Handles are given out in order.                                         *)
Fresh == IF Unused = {} THEN NoLink ELSE CHOOSE l \in Unused : TRUE

(* socket, bind, objallo with ncb_allocator, objrefr.                      *)
Create(t, l) ==
  /\ l = Fresh /\ FreeFds # {}
  /\ Starts(t, l, <<"fields">>)
  /\ files' = [files EXCEPT ![LowestFd] = l]
  /\ stat' = [stat EXCEPT ![l] = "open"]
  /\ refs' = [refs EXCEPT ![l] = 1]
  /\ listed' = Append(listed, l) /\ nl_count' = nl_count + 1
  /\ UNCHANGED <<ncb, user, hist, reg, un>>

OwnFd(l) == CHOOSE f \in Fds : files[f] = l

(* The fields and the buffers: the link has been on the list without them. *)
(* Without memory, or when io_attach fails in udp_create, the link is      *)
(* closed and its handle not returned.  The events of a UDP link carry its *)
(* handle before the call returns it.                                      *)
Fill(t) ==
  LET l == cur[t] IN
  /\ At(t, "fields")
  /\ sockfd' = [sockfd EXCEPT ![l] = OwnFd(l)]
  /\ \E p \in Protocols :
       /\ proto' = [proto EXCEPT ![l] = p]
       /\ \/ /\ p = "udp" /\ Does(t, "fields", <<"defr">>)
             /\ known' = known \cup {l}
          \/ /\ p # "udp" /\ Does(t, "fields", <<"defr", "return">>)
             /\ UNCHANGED known
          \/ Does(t, "fields", <<"defr", "clos">>) /\ UNCHANGED known
  /\ UNCHANGED <<stat, refs, files, list, told, own, hist, reg, un>>

Return(t) ==
  /\ Does(t, "return", << >>)
  /\ known' = known \cup {cur[t]}
  /\ UNCHANGED <<stat, refs, ncb, files, list, told, own, hist, reg, un>>

(* tcp_destroy, udp_destroy, arp_destroy: objreff closes and references.   *)
Destroy(t, l) ==
  /\ l \in known /\ stat[l] = "open"
  /\ Starts(t, l, <<"close", "defr">>)
  /\ stat' = [stat EXCEPT ![l] = "closing"]
  /\ refs' = [refs EXCEPT ![l] = @ + 1]
  /\ shot' = shot \cup {l}
  /\ UNCHANGED <<ncb, files, list, user, leaked, own, reg, un>>

(* nis_cntl: a command works on the link itself, or calls tcp_settst_r /   *)
(* tcp_gettst_r, which take a reference of their own.                      *)
nis_cntl(t, l) ==
  /\ l \in known /\ objrefr(l)
  /\ \/ Starts(t, l, <<"defr">>)
     \/ Starts(t, l, <<"tst", "defr">>)
  /\ UNCHANGED <<ncb, files, list, user, hist, reg, un>>

(* An unknown command returns without objdefr.                             *)
nis_cntl_unknown(t, l) ==
  /\ l \in known /\ objrefr(l)
  /\ Cardinality(leaked) < MaxLeak
  /\ Idle(t)
  /\ leaked' = leaked \cup {l}
  /\ UNCHANGED <<ncb, files, list, user, shot, own, reg, un, todo, cur>>

(* A faulty variant: the inner call returns without objdefr.               *)
SetTemplateKeeps(t) ==
  /\ \/ Does(t, "tst", << >>) /\ objrefr(cur[t])
     \/ /\ Does(t, "tst", << >>) /\ stat[cur[t]] # "open"
        /\ UNCHANGED <<stat, refs, told, own>>
  /\ UNCHANGED <<ncb, files, list, user, hist, reg, un>>

(* __tcprefr of tcp_settst_r; it fails on a link closed meanwhile and, with*)
(* the reference given back, on a UDP link.                                *)
SetTemplate(t) ==
  /\ \/ Does(t, "tst", <<"defr">>) /\ objrefr(cur[t])
     \/ /\ Does(t, "tst", << >>) /\ stat[cur[t]] # "open"
        /\ UNCHANGED <<stat, refs, told, own>>
  /\ UNCHANGED <<ncb, files, list, user, hist, reg, un>>

-----------------------------------------------------------------------------
(***************************************************************************)
(* The epoll thread and ncb_uninit.                                        *)
(***************************************************************************)

(* __iorun: EPOLLRDHUP or EPOLLERR, which may have been fetched before the *)
(* link went away.                                                         *)
Hangup(l) ==
  /\ l \in known
  /\ Starts("epoll", l, <<"clos">>)
  /\ UNCHANGED <<stat, refs, ncb, files, list, user, hist, reg, un>>

(* __iorun: EPOLLIN.                                                       *)
Input(l) ==
  /\ l \in known
  /\ objrefr(l)
  /\ Starts("epoll", l, <<"load", "recv">>)
  /\ UNCHANGED <<ncb, files, list, user, hist, reg, un>>

(* The handler loads ncb->sockfd and then calls recv(2) or recvfrom(2).    *)
Load ==
  /\ Does("epoll", "load", << >>)
  /\ reg' = sockfd[cur["epoll"]]
  /\ UNCHANGED <<stat, refs, ncb, files, list, user, hist, un>>

RecvMore ==
  /\ Does("epoll", "recv", <<"load", "recv">>)
  /\ reg' = 0
  /\ UNCHANGED <<stat, refs, ncb, files, list, user, hist, un>>

(* EAGAIN, or an error that closes the link.                               *)
RecvEnd ==
  /\ Does("epoll", "recv", <<"defr">>) \/ Does("epoll", "recv", <<"clos", "defr">>)
  /\ reg' = 0
  /\ UNCHANGED <<stat, refs, ncb, files, list, user, hist, un>>

(* A faulty variant: the last entry of the list is not copied.             *)
UninitMisses(p) ==
  LET mine == {l \in Links : proto[l] = p} IN
  /\ Idle("uninit") /\ last = NoLink /\ nl_count > 0 /\ listed # << >>
  /\ hlds' = Only(Front(listed), mine)
  /\ listed' = Only(listed, Links \ mine)
  /\ last' = Last(listed)
  /\ due' = ToSet(listed) \cap mine /\ starved' = FALSE
  /\ UNCHANGED <<todo, cur, nl_count, stat, refs, ncb, files, user, hist, reg>>

(* A faulty variant: the count goes down with every link taken out.        *)
UninitCounts(p) ==
  LET mine == {l \in Links : proto[l] = p} IN
  /\ Idle("uninit") /\ last = NoLink /\ nl_count > 0 /\ listed # << >>
  /\ hlds' = Only(listed, mine)
  /\ listed' = Only(listed, Links \ mine)
  /\ nl_count' = nl_count - Len(hlds')
  /\ last' = Last(listed)
  /\ due' = ToSet(listed) \cap mine /\ starved' = FALSE
  /\ UNCHANGED <<todo, cur, stat, refs, ncb, files, user, hist, reg>>

(* ncb_uninit under nl_head_locker: the links of the protocol leave the    *)
(* list and their handles are copied.                                      *)
UninitCopy(p) ==
  LET mine == {l \in Links : proto[l] = p} IN
  /\ Idle("uninit") /\ last = NoLink /\ nl_count > 0 /\ listed # << >>
  /\ hlds' = Only(listed, mine)
  /\ listed' = Only(listed, Links \ mine)
  /\ last' = Last(listed)
  /\ due' = ToSet(listed) \cap mine /\ starved' = FALSE
  /\ UNCHANGED <<todo, cur, nl_count, stat, refs, ncb, files, user, hist, reg>>

(* ncb_uninit without memory for the array: it returns, nothing is taken   *)
(* out of the list, no link is closed, and its caller is not told.  It may *)
(* be called again.                                                        *)
UninitNoMemory(p) ==
  /\ Idle("uninit") /\ last = NoLink /\ nl_count > 0
  /\ due' = ToSet(listed) \cap {l \in Links : proto[l] = p} /\ starved' = TRUE
  /\ UNCHANGED <<todo, cur, hlds, last, list, stat, refs, ncb, files, user, hist, reg>>

(* A faulty variant: the descriptor is closed at once.                     *)
UninitShoots ==
  /\ hlds # << >>
  /\ Starts("uninit", Head(hlds), <<"close", "clos">>)
  /\ hlds' = Tail(hlds)
  /\ UNCHANGED <<stat, refs, ncb, files, list, user, hist, reg, last, due, starved>>

(* The rest of ncb_uninit, after the lock: one objclos per handle.         *)
UninitClose ==
  /\ hlds # << >>
  /\ Starts("uninit", Head(hlds), <<"clos">>)
  /\ hlds' = Tail(hlds)
  /\ UNCHANGED <<stat, refs, ncb, files, list, user, hist, reg, last, due, starved>>

-----------------------------------------------------------------------------
CreateStep(t) == Fill(t) \/ Return(t)

Continue(t) ==
  \/ objdefr(t) \/ objclos(t) \/ DestructStep(t)
  \/ t \in Users /\ (CreateStep(t) \/ SetTemplate(t))
  \/ t = "epoll" /\ (Load \/ RecvMore \/ RecvEnd)

Next ==
  \/ \E t \in Threads : Continue(t)
  \/ \E t \in Creators, l \in Links : Create(t, l)
  \/ \E t \in Workers, l \in Links :
       Destroy(t, l) \/ nis_cntl(t, l) \/ nis_cntl_unknown(t, l)
  \/ \E l \in Links : Hangup(l) \/ Input(l)
  \/ \E p \in Uninits : UninitCopy(p) \/ UninitNoMemory(p)
  \/ UninitClose

Spec == Init /\ [][Next]_vars

(* Threads inside the library go on, and no peer keeps a read handler busy *)
(* for ever.                                                               *)
FairSpec ==
  /\ Spec
  /\ \A t \in Threads : WF_vars(Continue(t))
  /\ WF_vars(UninitClose) /\ SF_vars(RecvEnd)

-----------------------------------------------------------------------------
Labels == {"fields", "return", "defr", "clos", "tst", "load", "recv",
           "close", "unlist", "closed"}

(* Every variable keeps its type.                                          *)
TypeOK ==
  /\ stat \in [Links -> {"none", "open", "closing", "destructing", "gone"}]
  /\ refs \in [Links -> Nat]
  /\ proto \in [Links -> Protocols \cup {"unset"}]
  /\ sockfd \in [Links -> Fds \cup {0}]
  /\ files \in [Fds -> Links \cup {NoLink}]
  /\ listed \in Seq(Links) /\ nl_count \in Nat
  /\ told \in [Links -> Seq({"preclose", "closed"})]
  /\ known \subseteq Links /\ leaked \subseteq Links /\ shot \subseteq Links
  /\ due \subseteq Links /\ starved \in BOOLEAN
  /\ own \subseteq Links
  /\ todo \in [Threads -> Seq(Labels)]
  /\ cur \in [Threads -> Links \cup {NoLink}]
  /\ reg \in Fds \cup {0}
  /\ hlds \in Seq(Links) /\ last \in Links \cup {NoLink}

(* ncb_uninit walks the list and copies as many handles as there are       *)
(* entries into room for nl_count of them: no entry is of a freed link, and*)
(* the count never falls behind the list, although links leave the list in *)
(* ncb_uninit and are counted down in ncb_deconstruct, whose assertion on  *)
(* nl_count holds.                                                         *)
ListSafe ==
  /\ TypeOK
  /\ \A l \in ToSet(listed) : stat[l] \notin {"none", "gone"}
  /\ IsInjective(listed)
  /\ Len(listed) <= nl_count
  /\ \A t \in Threads : At(t, "unlist") => nl_count > 0

(* Steps that use the link through the pointer objrefr has returned.       *)
Inner == {"fields", "tst", "load", "recv", "defr"}

(* The user gets preclose and closed once each, in this order, and the     *)
(* memory of a link is not given back before (ncb_deconstruct).            *)
CallbacksOnce ==
  \A l \in Links :
    /\ told[l] \in {<< >>, <<"preclose">>, <<"preclose", "closed">>}
    /\ stat[l] = "gone" <=> told[l] = <<"preclose", "closed">>

(* A read handler receives from the link's own socket, or gets EBADF: the  *)
(* number it has loaded names the socket of another link only after one of *)
(* the *_destroy calls, which close it under the handler (io_close).       *)
ForeignOnlyAfterDestroy ==
  At("epoll", "recv") /\ reg # 0 /\ files[reg] \notin {cur["epoll"], NoLink} =>
    cur["epoll"] \in shot

(* io_close never closes a number the kernel has given to another link,    *)
(* although a link goes through io_close twice: in *_destroy and in its    *)
(* destructor.                                                             *)
ClosesOwnSocket ==
  \A t \in Threads :
    At(t, "close") => sockfd[cur[t]] = 0 \/ files[sockfd[cur[t]]] \in {cur[t], NoLink}

(* No thread closes, and no thread but a *_destroy makes another one read, *)
(* a socket the kernel has given to another link.                          *)
SocketsApart == ForeignOnlyAfterDestroy /\ ClosesOwnSocket

(* When ncb_uninit has returned, every link of the protocol that was       *)
(* complete when it took the lock is closed or closing - if it found the   *)
(* memory for its copy.  If not, all of them stay open, which its comment  *)
(* (ncb.c:15) does not foresee and its caller does not learn.              *)
UninitClosesAll ==
  Idle("uninit") /\ hlds = << >> /\ ~starved => \A l \in due : stat[l] # "open"

(* The log of ncb_uninit reads ncb->hld of the entry it has visited last,  *)
(* without the lock.  ncb_uninit does not itself free that link before: it *)
(* is closed last.  That another thread frees it is not excluded: then the *)
(* log reads freed memory.                                                 *)
UninitReadsOwn ==
  Idle("uninit") /\ hlds # << >> /\ stat[last] = "gone" => last \notin own

(* What ncb_uninit promises with the lock already released.                *)
UninitComplete == UninitClosesAll /\ UninitReadsOwn

(* A link that is closing is destructed, by whatever thread is the last in *)
(* it, unless an unknown command of nis_cntl has kept a reference.         *)
ClosingEventuallyGone ==
  \A l \in Links : stat[l] = "closing" ~> stat[l] = "gone" \/ l \in leaked

(* The abstract object: threads enter while it lives, it dies once, when   *)
(* the last of them has left.                                              *)
Object == INSTANCE LinkObject WITH
  life <- [l \in Links |-> CASE stat[l] = "open" -> "live"
                             [] stat[l] = "closing" -> "dying"
                             [] stat[l] = "none" -> "none"
                             [] OTHER -> "dead"],
  inside <- [l \in Links |-> {t \in Threads : cur[t] = l /\ ToSet(todo[t]) \cap Inner # {}}]

(* Reference counting implements it.                                       *)
ImplementsObject == Object!Spec
=============================================================================
