------------------------ MODULE ListenOptionsProofs -------------------------
(***************************************************************************)
(* Proofs about the two components of a link's life that stand for         *)
(* themselves: the listener, for any set of peers, any limit of descriptors*)
(* and any set of faults; and the settings of a link, for any set of       *)
(* threads, templates and groups and any number of calls.                  *)
(***************************************************************************)
EXTENDS TcpListen, Options, SequenceTheorems, TLAPS

(***************************************************************************)
(* The listener.                                                           *)
(***************************************************************************)

(* Nobody can be told of a connection before the handler is in place:      *)
(* tcp_listen sets it, and only then attaches the socket.                  *)
HandlerFirst ==
  /\ attached \/ lpc = "attach" => hread
  /\ rdy => attached

(* A socket that does not listen yet is not attached and nobody but        *)
(* tcp_listen works on it; as long as the link is open it is not closed.   *)
SocketStates ==
  /\ lsock = "new" => ~attached /\ lpc \in {"idle", "listen", "done"} /\ epc = "wait"
  /\ stat = "open" => lsock \in {"new", "listen"}

(* Who is in tcp_destroy, or on the way to objclos, and why.               *)
ClosersKnown ==
  /\ dpc # "idle" => stat # "open"
  /\ epc = "close" => stat # "open" \/ ctrl = "emfile"

ListenerInv == ListenerTypeOK /\ NoLostAccept /\ HandlerFirst /\ SocketStates /\ ClosersKnown

-----------------------------------------------------------------------------
(* The socket is new, nobody is in a call.                                 *)
LEMMA InitListener == ListenerInit => ListenerInv
BY DEF ListenerInit, ListenerInv, ListenerTypeOK, NoLostAccept, HandlerFirst, SocketStates,
       ClosersKnown

(* A reference taken by a thread of the library keeps the object's types.  *)
LEMMA RefrTyped ==
  ASSUME ListenerTypeOK, NEW t \in {"user", "epoll", "destroy"}, objrefr(t)
  PROVE  stat' = stat /\ holders' \subseteq {"user", "epoll", "destroy"}
BY DEF ListenerTypeOK, objrefr

(* The steps of tcp_listen.                                                *)
LEMMA ListenKeepsListener ==
  ASSUME ListenerInv, ListenEnter \/ ListenStep
  PROVE  ListenerInv'
<1> USE DEF ListenerInv, ListenerTypeOK, NoLostAccept, HandlerFirst, SocketStates, ClosersKnown,
            conns, obj, sock, LGoto
<1>1. CASE ListenEnter
  <2>1. ListenerTypeOK'
    <3>1. holders' \subseteq {"user", "epoll", "destroy"} /\ stat' = stat
      BY <1>1, RefrTyped DEF ListenEnter
    <3> QED
      BY <1>1, <3>1 DEF ListenEnter
  <2>2. NoLostAccept'
    BY <1>1 DEF ListenEnter, objrefr
  <2>3. HandlerFirst' /\ SocketStates' /\ ClosersKnown'
    BY <1>1 DEF ListenEnter, objrefr
  <2> QED
    BY <2>1, <2>2, <2>3
<1>2. CASE Listen
  BY <1>2 DEF Listen
<1>3. CASE ListenHandler
  BY <1>3 DEF ListenHandler
<1>4. CASE ListenAttach
  <2>1. ListenerTypeOK'
    <3>1. attached' \in BOOLEAN /\ rdy' \in BOOLEAN
      BY <1>4, Zenon DEF ListenAttach
    <3> QED
      BY <1>4, <3>1 DEF ListenAttach
  <2>2. NoLostAccept'
    BY <1>4 DEF ListenAttach
  <2>3. HandlerFirst' /\ SocketStates' /\ ClosersKnown'
    BY <1>4 DEF ListenAttach
  <2> QED
    BY <2>1, <2>2, <2>3
<1>5. CASE ListenClose
  <2>1. ListenerTypeOK'
    BY <1>5, ZenonT(30) DEF ListenClose, objclos, ncb_deconstruct
  <2>2. NoLostAccept'
    BY <1>5 DEF ListenClose, objclos, ncb_deconstruct
  <2>3. HandlerFirst' /\ SocketStates' /\ ClosersKnown'
    BY <1>5 DEF ListenClose, objclos, ncb_deconstruct
  <2> QED
    BY <2>1, <2>2, <2>3
<1>6. CASE ListenRelease
  <2>1. ListenerTypeOK'
    BY <1>6, ZenonT(30) DEF ListenRelease, objdefr, ncb_deconstruct
  <2>2. NoLostAccept'
    BY <1>6 DEF ListenRelease, objdefr, ncb_deconstruct
  <2>3. HandlerFirst' /\ SocketStates' /\ ClosersKnown'
    BY <1>6 DEF ListenRelease, objdefr, ncb_deconstruct
  <2> QED
    BY <2>1, <2>2, <2>3
<1> QED
  BY <1>1, <1>2, <1>3, <1>4, <1>5, <1>6 DEF ListenStep

(* The steps of the epoll thread.                                          *)
LEMMA EpollKeepsListener ==
  ASSUME ListenerInv, EpollStep
  PROVE  ListenerInv'
<1> USE DEF ListenerInv, ListenerTypeOK, NoLostAccept, HandlerFirst, SocketStates, ClosersKnown,
            conns, obj, sock, EGoto
<1>1. CASE EpollWait
  BY <1>1, ZenonT(30) DEF EpollWait
<1>2. CASE EpollRefr
  <2>1. ListenerTypeOK'
    <3>1. holders' \subseteq {"user", "epoll", "destroy"} /\ stat' = stat
      BY <1>2, RefrTyped DEF EpollRefr
    <3> QED
      BY <1>2, <3>1 DEF EpollRefr
  <2>2. NoLostAccept'
    BY <1>2 DEF EpollRefr, objrefr
  <2>3. HandlerFirst' /\ SocketStates' /\ ClosersKnown'
    BY <1>2 DEF EpollRefr, objrefr
  <2> QED
    BY <2>1, <2>2, <2>3
<1>3. CASE SynCheck
  BY <1>3 DEF SynCheck
<1>4. CASE __tcp_syn_try
  <2>1. CASE Accepted
    BY <1>4, <2>1 DEF __tcp_syn_try, Accepted
  <2>2. CASE Aborted
    BY <1>4, <2>2 DEF __tcp_syn_try, Aborted
  <2>3. CASE NothingLeft \/ Retained \/ Fatal
    BY <1>4, <2>3 DEF __tcp_syn_try, NothingLeft, Retained, Fatal, Fails
  <2> QED
    BY <1>4, <2>1, <2>2, <2>3 DEF __tcp_syn_try
<1>5. CASE EpollClose
  <2>1. ListenerTypeOK'
    BY <1>5, ZenonT(30) DEF EpollClose, objclos, ncb_deconstruct
  <2>2. NoLostAccept'
    BY <1>5 DEF EpollClose, objclos, ncb_deconstruct
  <2>3. HandlerFirst' /\ SocketStates' /\ ClosersKnown'
    BY <1>5 DEF EpollClose, objclos, ncb_deconstruct
  <2> QED
    BY <2>1, <2>2, <2>3
<1>6. CASE EpollRelease
  <2>1. ListenerTypeOK'
    BY <1>6, ZenonT(30) DEF EpollRelease, objdefr, ncb_deconstruct
  <2>2. NoLostAccept'
    BY <1>6 DEF EpollRelease, objdefr, ncb_deconstruct
  <2>3. HandlerFirst' /\ SocketStates' /\ ClosersKnown'
    BY <1>6 DEF EpollRelease, objdefr, ncb_deconstruct
  <2> QED
    BY <2>1, <2>2, <2>3
<1> QED
  BY <1>1, <1>2, <1>3, <1>4, <1>5, <1>6 DEF EpollStep

(* The steps of tcp_destroy.                                               *)
LEMMA DestroyKeepsListener ==
  ASSUME ListenerInv, DestroyBegin \/ DestroyStep
  PROVE  ListenerInv'
<1> USE DEF ListenerInv, ListenerTypeOK, NoLostAccept, HandlerFirst, SocketStates, ClosersKnown,
            conns, obj, sock, DGoto
<1>1. CASE DestroyBegin
  BY <1>1 DEF DestroyBegin
<1>2. CASE DestroyShutdown
  <2>1. ListenerTypeOK'
    BY <1>2, ZenonT(30) DEF DestroyShutdown
  <2>2. NoLostAccept'
    BY <1>2 DEF DestroyShutdown
  <2>3. HandlerFirst' /\ SocketStates' /\ ClosersKnown'
    BY <1>2 DEF DestroyShutdown
  <2> QED
    BY <2>1, <2>2, <2>3
<1>3. CASE DestroyClose
  BY <1>3, ZenonT(30) DEF DestroyClose
<1>4. CASE DestroyRelease
  <2>1. ListenerTypeOK'
    BY <1>4, ZenonT(30) DEF DestroyRelease, objdefr, ncb_deconstruct
  <2>2. NoLostAccept'
    BY <1>4 DEF DestroyRelease, objdefr, ncb_deconstruct
  <2>3. HandlerFirst' /\ SocketStates' /\ ClosersKnown'
    BY <1>4 DEF DestroyRelease, objdefr, ncb_deconstruct
  <2> QED
    BY <2>1, <2>2, <2>3
<1> QED
  BY <1>1, <1>2, <1>3, <1>4 DEF DestroyStep

(* The peers, and the user who closes an accepted link.                    *)
LEMMA PeersKeepListener ==
  ASSUME ListenerInv, NEW c \in Conns, Connect(c) \/ CloseLink(c)
  PROVE  ListenerInv'
<1> USE DEF ListenerInv, ListenerTypeOK, NoLostAccept, HandlerFirst, SocketStates, ClosersKnown,
            conns, obj, sock, pcs
<1>1. CASE Connect(c)
  BY <1>1 DEF Connect
<1>2. CASE CloseLink(c)
  BY <1>2 DEF CloseLink
<1> QED
  BY <1>1, <1>2

(* Every step, and a stutter, keeps the inductive invariant.               *)
LEMMA NextListener == ListenerInv /\ [ListenerNext]_listener => ListenerInv'
<1>1. ASSUME ListenerInv, ListenerNext PROVE ListenerInv'
  BY <1>1, ListenKeepsListener, EpollKeepsListener, DestroyKeepsListener, PeersKeepListener
     DEF ListenerNext
<1>2. ASSUME ListenerInv, UNCHANGED listener PROVE ListenerInv'
  BY <1>2 DEF listener, ListenerInv, ListenerTypeOK, NoLostAccept, HandlerFirst, SocketStates,
              ClosersKnown
<1> QED
  BY <1>1, <1>2

-----------------------------------------------------------------------------
(* tcp_listen, tcp_syn, tcp_destroy and the peers keep the inductive       *)
(* invariant.                                                              *)
THEOREM ListenerInvariance == ListenerSpec => []ListenerInv
BY InitListener, NextListener, PTL DEF ListenerSpec

(* Every variable keeps its type; accept(2) fails with a code              *)
(* __tcp_syn_try knows.                                                    *)
THEOREM ListenerTyping == ListenerSpec => []ListenerTypeOK
<1>1. ListenerInv => ListenerTypeOK
  BY DEF ListenerInv
<1> QED
  BY <1>1, ListenerInvariance, PTL

(* No connection is forgotten in the backlog: tcp_syn does not stop short  *)
(* of EAGAIN, and tcp_listen has its handler in place when the edge comes. *)
THEOREM BacklogServed == ListenerSpec => []NoLostAccept
<1>1. ListenerInv => NoLostAccept
  BY DEF ListenerInv
<1> QED
  BY <1>1, ListenerInvariance, PTL

-----------------------------------------------------------------------------
(* A listener is closed by tcp_destroy, by a failed io_attach or for EMFILE*)
(* and for nothing else accept(2) reports: ListenerRetained up to the code *)
(* that the list of tcpio.c:42-45 leaves out.                              *)
Kept == stat = "open" /\ stat' # "open" => lpc' # lpc \/ dpc' # dpc \/ ctrl = "emfile"

(* The only steps that close an open listener.                             *)
LEMMA StepKeeps == ListenerInv /\ [ListenerNext]_listener => Kept
<1> SUFFICES ASSUME ListenerInv, [ListenerNext]_listener, stat = "open", stat' # "open"
             PROVE  lpc' # lpc \/ dpc' # dpc \/ ctrl = "emfile"
  BY DEF Kept
<1>1. CASE ListenEnter \/ ListenStep
  BY <1>1 DEF ListenEnter, ListenStep, Listen, ListenHandler, ListenAttach,
              ListenClose, ListenRelease, LGoto
<1>2. CASE EpollClose
  BY <1>2 DEF EpollClose, EGoto, ListenerInv, ClosersKnown
<1>3. CASE EpollStep /\ ~EpollClose
  BY <1>3 DEF EpollStep, EpollWait, EpollRefr, SynCheck, __tcp_syn_try,
              EpollRelease, objrefr, objdefr, obj
<1>4. CASE DestroyBegin \/ DestroyStep
  BY <1>4 DEF DestroyBegin, DestroyStep, DestroyShutdown, DestroyClose,
              DestroyRelease, DGoto
<1>5. CASE \E c \in Conns : Connect(c) \/ CloseLink(c)
  BY <1>5 DEF Connect, CloseLink, obj
<1>6. CASE UNCHANGED listener
  BY <1>6 DEF listener
<1> QED
  BY <1>1, <1>2, <1>3, <1>4, <1>5, <1>6 DEF ListenerNext

(* Of all that accept(2) may report, only EMFILE closes the listener: the  *)
(* epoll thread reaches objclos with no other code (__tcp_syn_try).        *)
THEOREM OnlyEmfileCloses == ListenerSpec => [][Kept]_listener
BY StepKeeps, ListenerInvariance, PTL DEF ListenerSpec

-----------------------------------------------------------------------------
(***************************************************************************)
(* The settings of a link.                                                 *)
(***************************************************************************)

(* Short sequences grow by one item, as reg does.                          *)
LEMMA Append0 == \A a : Append(<< >>, a) = <<a>>
<1> TAKE a
<1> DEFINE S == {a}
<1>1. << >> \in Seq(S) /\ a \in S
  OBVIOUS
<1> QED
  BY <1>1

LEMMA Append1 == \A a, b : Append(<<a>>, b) = <<a, b>>
<1> TAKE a, b
<1> DEFINE S == {a, b} r == <<a>>
           s == <<a, b>> x == Append(r, b)
<1>1. r \in Seq(S) /\ b \in S /\ s \in Seq(S) /\ Len(s) = 2
  OBVIOUS
<1>2. x \in Seq(S) /\ Len(x) = 2 /\ (\A i \in 1 .. 1 : x[i] = r[i]) /\ x[2] = b
  BY <1>1, AppendProperties
<1>3. \A i \in 1 .. 2 : x[i] = s[i]
  <2> HIDE DEF x
  <2> QED
    BY <1>2
<1> HIDE DEF r, s, S, x
<1>4. Len(x) = Len(s) /\ \A i \in 1 .. Len(x) : x[i] = s[i]
  BY <1>1, <1>2, <1>3
<1>5. x = s
  BY <1>1, <1>2, <1>4, SeqEqual
<1> QED
  BY <1>5 DEF x, r, s

LEMMA Append2 == \A a, b, c : Append(<<a, b>>, c) = <<a, b, c>>
<1> TAKE a, b, c
<1> DEFINE S == {a, b, c} r == <<a, b>>
           s == <<a, b, c>> x == Append(r, c)
<1>1. r \in Seq(S) /\ c \in S /\ s \in Seq(S) /\ Len(s) = 3
  OBVIOUS
<1>2. x \in Seq(S) /\ Len(x) = 3 /\ (\A i \in 1 .. 2 : x[i] = r[i]) /\ x[3] = c
  BY <1>1, AppendProperties
<1>3. \A i \in 1 .. 3 : x[i] = s[i]
  <2> HIDE DEF x
  <2> QED
    BY <1>2
<1> HIDE DEF r, s, S, x
<1>4. Len(x) = Len(s) /\ \A i \in 1 .. Len(x) : x[i] = s[i]
  BY <1>1, <1>2, <1>3
<1>5. x = s
  BY <1>1, <1>2, <1>4, SeqEqual
<1> QED
  BY <1>5 DEF x, r, s

LEMMA Append3 == \A a, b, c, d : Append(<<a, b, c>>, d) = <<a, b, c, d>>
<1> TAKE a, b, c, d
<1> DEFINE S == {a, b, c, d} r == <<a, b, c>>
           s == <<a, b, c, d>> x == Append(r, d)
<1>1. r \in Seq(S) /\ d \in S /\ s \in Seq(S) /\ Len(s) = 4
  OBVIOUS
<1>2. x \in Seq(S) /\ Len(x) = 4 /\ (\A i \in 1 .. 3 : x[i] = r[i]) /\ x[4] = d
  BY <1>1, AppendProperties
<1>3. \A i \in 1 .. 4 : x[i] = s[i]
  <2> HIDE DEF x
  <2> QED
    BY <1>2
<1> HIDE DEF r, s, S, x
<1>4. Len(x) = Len(s) /\ \A i \in 1 .. Len(x) : x[i] = s[i]
  BY <1>1, <1>2, <1>3
<1>5. x = s
  BY <1>1, <1>2, <1>4, SeqEqual
<1> QED
  BY <1>5 DEF x, r, s

LEMMA Append4 == \A a, b, c, d, e : Append(<<a, b, c, d>>, e) = <<a, b, c, d, e>>
<1> TAKE a, b, c, d, e
<1> DEFINE S == {a, b, c, d, e} r == <<a, b, c, d>>
           s == <<a, b, c, d, e>> x == Append(r, e)
<1>1. r \in Seq(S) /\ e \in S /\ s \in Seq(S) /\ Len(s) = 5
  OBVIOUS
<1>2. x \in Seq(S) /\ Len(x) = 5 /\ (\A i \in 1 .. 4 : x[i] = r[i]) /\ x[5] = e
  BY <1>1, AppendProperties
<1>3. \A i \in 1 .. 5 : x[i] = s[i]
  <2> HIDE DEF x
  <2> QED
    BY <1>2
<1> HIDE DEF r, s, S, x
<1>4. Len(x) = Len(s) /\ \A i \in 1 .. Len(x) : x[i] = s[i]
  BY <1>1, <1>2, <1>3
<1>5. x = s
  BY <1>1, <1>2, <1>4, SeqEqual
<1> QED
  BY <1>5 DEF x, r, s

(* The frame of a tcp_write without a head.                                *)
LEMMA PlainFrame == \A a, b, c, d : <<a>> \o <<b, c, d>> = <<a, b, c, d>>
<1> TAKE a, b, c, d
<1> DEFINE S == {a, b, c, d} r == <<a>> q == <<b, c, d>> s == <<a, b, c, d>> x == r \o q
<1>1. r \in Seq(S) /\ q \in Seq(S) /\ s \in Seq(S) /\ Len(s) = 4
  OBVIOUS
<1>2. x \in Seq(S) /\ Len(x) = 4 /\ \A i \in 1 .. 4 : x[i] = IF i <= 1 THEN r[i] ELSE q[i - 1]
  BY <1>1, ConcatProperties
<1>3. x[1] = a /\ x[2] = b /\ x[3] = c /\ x[4] = d
  <2> HIDE DEF x
  <2> QED
    BY <1>2
<1>4. \A i \in 1 .. 4 : x[i] = s[i]
  <2> HIDE DEF x
  <2> QED
    BY <1>3
<1> HIDE DEF r, q, s, S, x
<1>5. Len(x) = Len(s) /\ \A i \in 1 .. Len(x) : x[i] = s[i]
  BY <1>1, <1>2, <1>4
<1>6. x = s
  BY <1>1, <1>2, <1>5, SeqEqual
<1> QED
  BY <1>6 DEF x, r, q, s

(***************************************************************************)
(* The inductive invariant.  As long as two calls have not changed an      *)
(* option at once, the thread in such a call says how far it is with it.   *)
(***************************************************************************)
FieldNames == {"cb", "builder", "parser"}

(* A template of which the first n fields are p's and the others q's.      *)
Mix(n, p, q) ==
  [f \in FieldNames |->
     IF (f = "cb" /\ n >= 1) \/ (f = "builder" /\ n >= 2) \/ (f = "parser" /\ n >= 3)
     THEN p[f] ELSE q[f]]

(* The first n fields of p, as they are read.                              *)
Read(n, p) ==
  CASE n = 0 -> << >>
    [] n = 1 -> <<p.cb>>
    [] n = 2 -> <<p.cb, p.builder>>
    [] n = 3 -> <<p.cb, p.builder, p.parser>>

Classes == {"template", "attr", "context", "group"}

(* Only one call at a time changes an option two have not changed at once. *)
Sole(c) == c \notin raced => \A t, u \in RunningOn(c) : t = u

(* Thread t has replaced n fields of the template and saved m.             *)
Replaced(t, n, m) ==
  /\ template = Mix(n, arg[t], current) /\ reg[t] = Read(n, current)
  /\ prtemplate = Mix(m, current, previous)

TemplateOwned ==
  "template" \notin raced =>
    /\ RunningOn("template") = {} => template = current /\ prtemplate = previous
    /\ \A t \in Threads :
         /\ In(t, "settst", "called") => \E n \in 0 .. 3 : Replaced(t, n, 0)
         /\ In(t, "settst_r", "called") => \E n \in 0 .. 3 : Replaced(t, n, n)
         /\ In(t, "settst_r", "save") => \E n \in 1 .. 3 : Replaced(t, n, n - 1)

(* What a reader that no change of the template overlaps has read so far.  *)
Reading(t) ==
  LET p == saw[t] IN
  /\ In(t, "gettst", "called") => \E n \in 0 .. 2 : reg[t] = Read(n, p)
  /\ In(t, "gettst", "returned") => reg[t] = Read(3, p)
  /\ In(t, "write", "called") => reg[t] = << >>
  /\ In(t, "write", "attr") => reg[t] = << >> /\ p.builder # Unset
  /\ In(t, "write", "plain") => reg[t] = <<"plain">>
  /\ In(t, "write", "build") => reg[t] = <<"build">> /\ p.builder # Unset
  /\ In(t, "write", "builder") => reg[t] = <<"build", 1 + p.cb>> /\ p.builder # Unset
  /\ In(t, "write", "copy") => reg[t] = <<"build", 1 + p.cb, p.builder>> /\ p.builder # Unset
  /\ In(t, "write", "wcb") =>
       \/ reg[t] = <<"plain", 1, Unset, 0>>
       \/ reg[t] = <<"build", 1 + p.cb, p.builder, p.cb>> /\ p.builder # Unset
  /\ In(t, "write", "returned") =>
       \/ reg[t] = <<"plain", 1, Unset, 0, 1 + p.cb>>
       \/ reg[t] = <<"build", 1 + p.cb, p.builder, p.cb, 1 + p.cb>> /\ p.builder # Unset

Readers == {"gettst", "write"}

ReadsStill ==
  \A t \in Threads : op[t] \in Readers /\ Undisturbed(t) =>
    /\ t \in Running => RunningOn("template") = {} /\ saw[t] = current
    /\ Reading(t)

AttrOwned ==
  "attr" \notin raced =>
    /\ attr = wanted
    /\ \A t \in Threads : /\ In(t, "setattr", "store") => reg[t] = <<attr>>
                          /\ In(t, "setattr_r", "bcast") => reg[t] = <<attr>>
    /\ kind = "udp" /\ (\A t \in RunningOn("attr") : at[t] = "called")
         => bcast = ("BROADCAST" \in attr)

ContextOwned ==
  "context" \notin raced =>
    /\ (\A t \in Threads : ~In(t, "setctx", "save")) => context = ctx
    /\ prcontext = prctx
    /\ \A t \in Threads :
         /\ In(t, "setctx", "save") => context = arg[t] /\ reg[t] = <<ctx>>
         /\ In(t, "getctx", "save") => reg[t] = <<Unset>>

GroupOwned ==
  "group" \notin raced =>
    /\ joined = member /\ (mreq # 0 => last \in Groups)
    /\ \A t \in Threads :
         /\ In(t, "join", "malloc") => mreq = 0 /\ last = arg[t]
         /\ In(t, "join", "fill") => last = arg[t]
         /\ In(t, "join", "add") => last = arg[t]
    /\ mreq # 0 /\ (\A t \in Threads : ~In(t, "join", "malloc") /\ ~In(t, "join", "fill"))
         => blocks[mreq] = last

(* What each place of a call says of its thread.                           *)
Placed(t) ==
  /\ at[t] = "called" /\ op[t] \notin {"settst", "settst_r", "gettst"} => reg[t] = << >>
  /\ In(t, "setattr_r", "load") => reg[t] = << >>
  /\ In(t, "setattr", "store") => \E a \in SUBSET Flags(kind) : reg[t] = <<a>>
  /\ In(t, "join", "fill") \/ In(t, "join", "add") \/ In(t, "drop", "drop") => mreq # 0
  /\ op[t] # "none" => arg[t] \in Args(op[t])
  /\ op[t] = "none" => at[t] = "returned"

Typed ==
  /\ TypeOK
  /\ op \in [Threads -> Ops(kind) \cup {"none"}]
  /\ DOMAIN at = Threads /\ DOMAIN arg = Threads /\ DOMAIN reg = Threads /\ DOMAIN saw = Threads
  /\ current \in Templates \cup {NoTemplate} /\ previous \in Templates \cup {NoTemplate}
  /\ saw \in [Threads -> Templates \cup {NoTemplate}]
  /\ mreq = 0 => blocks = << >>
  /\ \A t \in Threads : Placed(t)

IInv ==
  /\ Typed /\ \A c \in Classes : Sole(c)
  /\ TemplateOwned /\ ReadsStill /\ AttrOwned /\ ContextOwned /\ GroupOwned

-----------------------------------------------------------------------------
(* What every step but the beginning of a call leaves alone.               *)
Moves(t) ==
  /\ t \in Threads /\ at[t] # "returned"
  /\ UNCHANGED <<kind, calls, raced, lapped, saw, op, arg>>
  /\ DOMAIN at' = Threads /\ DOMAIN reg' = Threads
  /\ \A u \in Threads : u # t => at'[u] = at[u] /\ reg'[u] = reg[u]

Writers == {"settst", "settst_r"}

(* Which calls change an option.                                           *)
LEMMA ChangesOf ==
  \A o : /\ "template" \in Changes(o) <=> o \in Writers
         /\ "attr" \in Changes(o) <=> o \in {"setattr", "setattr_r"}
         /\ "context" \in Changes(o) <=> o \in {"setctx", "getctx"}
         /\ "group" \in Changes(o) <=> o \in {"join", "drop"}
<1> TAKE o
<1>1. CASE o \in Writers
  BY <1>1 DEF Changes, Writers
<1>2. CASE o \in {"setattr", "setattr_r"}
  BY <1>2 DEF Changes, Writers
<1>3. CASE o \in {"setctx", "getctx"}
  BY <1>3 DEF Changes, Writers
<1>4. CASE o \in {"join", "drop"}
  BY <1>4 DEF Changes, Writers
<1>5. CASE o \notin Writers \cup {"setattr", "setattr_r", "setctx", "getctx", "join", "drop"}
  BY <1>5 DEF Changes, Writers
<1> QED
  BY <1>1, <1>2, <1>3, <1>4, <1>5

(* A step of a call that is running.                                       *)
LEMMA CallMoves ==
  ASSUME Typed, NEW t \in Threads, NEW f, NEW g, f # "returned",
         at[t] = f, Goes(t, g), Same, reg' = reg \/ \E v : reg' = [reg EXCEPT ![t] = v]
  PROVE  Moves(t)
BY DEF Typed, Goes, Same, Moves

(* tcp_settst, tcp_settst_r and tcp_gettst.                                *)
LEMMA TemplateCallMoves ==
  ASSUME Typed, NEW t \in Threads,
         tcp_settst(t) \/ tcp_settst_r(t) \/ SettstReturns(t) \/ tcp_gettst(t)
  PROVE  Moves(t)
<1>1. CASE tcp_settst(t)
  BY <1>1, CallMoves DEF tcp_settst, In, PutField, Keeps
<1>2. CASE tcp_settst_r(t)
  BY <1>2, CallMoves DEF tcp_settst_r, In, PutField, Keeps
<1>3. CASE SettstReturns(t)
  BY <1>3, CallMoves DEF SettstReturns, In
<1>4. CASE tcp_gettst(t)
  BY <1>4, CallMoves DEF tcp_gettst, In, Keeps
<1> QED
  BY <1>1, <1>2, <1>3, <1>4

(* tcp_write.                                                              *)
LEMMA WriteMoves ==
  ASSUME Typed, NEW t \in Threads, tcp_write(t)
  PROVE  Moves(t)
<1>1. ASSUME NEW f, NEW g, NEW v, Writes(t, f, g, v), f # "returned"
      PROVE  Moves(t)
  BY <1>1, CallMoves DEF Writes, In, Keeps
<1>2. CASE WriteTest(t)
  <2>1. CASE Writes(t, "called", "plain", "plain")
    BY <2>1, <1>1
  <2>2. CASE ~Writes(t, "called", "plain", "plain")
    BY <1>2, <2>2, CallMoves DEF WriteTest, In
  <2> QED
    BY <2>1, <2>2
<1>3. CASE WriteAttr(t)
  BY <1>3, <1>1 DEF WriteAttr
<1>4. CASE WritePlain(t)
  BY <1>4, CallMoves DEF WritePlain, In
<1>5. CASE WriteMalloc(t)
  BY <1>5, <1>1 DEF WriteMalloc
<1>6. CASE WriteBuilder(t)
  BY <1>6, <1>1 DEF WriteBuilder
<1>7. CASE WriteCopy(t)
  BY <1>7, <1>1 DEF WriteCopy
<1>8. CASE WriteWcb(t)
  BY <1>8, <1>1 DEF WriteWcb
<1> QED
  BY <1>2, <1>3, <1>4, <1>5, <1>6, <1>7, <1>8 DEF tcp_write

(* tcp_setattr and nis_cntl.                                               *)
LEMMA SettingMoves ==
  ASSUME Typed, NEW t \in Threads, tcp_setattr(t) \/ nis_cntl(t)
  PROVE  Moves(t)
<1>1. CASE tcp_setattr(t)
  BY <1>1, CallMoves DEF tcp_setattr, In, Keeps
<1>2. CASE Setattr(t)
  BY <1>2, CallMoves DEF Setattr, In
<1>3. CASE SetattrLoad(t)
  BY <1>3, CallMoves DEF SetattrLoad, In, Keeps
<1>4. CASE SetBroadcast(t)
  BY <1>4, CallMoves DEF SetBroadcast, In
<1>5. CASE SetCtx(t)
  BY <1>5, CallMoves DEF SetCtx, In, Keeps
<1>6. CASE GetCtx(t)
  BY <1>6, CallMoves DEF GetCtx, In, Keeps
<1>7. CASE SaveCtx(t)
  BY <1>7, CallMoves DEF SaveCtx, In
<1> QED
  BY <1>1, <1>2, <1>3, <1>4, <1>5, <1>6, <1>7 DEF nis_cntl, udp_setattr_r

(* udp_joingrp and udp_dropgrp.                                            *)
LEMMA GroupCallMoves ==
  ASSUME Typed, NEW t \in Threads, udp_joingrp(t) \/ udp_dropgrp(t)
  PROVE  Moves(t)
<1>1. ASSUME NEW o, NEW f, NEW g, GroupStep(t, o, f, g), f # "returned", reg' = reg
      PROVE  Moves(t)
  BY <1>1, CallMoves DEF GroupStep, In
<1>2. CASE JoinRefused(t)
  BY <1>2, <1>1 DEF JoinRefused
<1>3. CASE JoinBegins(t)
  BY <1>3, <1>1 DEF JoinBegins
<1>4. CASE JoinMalloc(t)
  BY <1>4, <1>1 DEF JoinMalloc
<1>5. CASE JoinFill(t)
  BY <1>5, <1>1 DEF JoinFill
<1>6. CASE JoinAdd(t)
  BY <1>6, <1>1 DEF JoinAdd
<1>7. CASE DropRefused(t)
  BY <1>7, <1>1 DEF DropRefused
<1>8. CASE DropBegins(t)
  BY <1>8, <1>1 DEF DropBegins
<1>9. CASE DropMember(t)
  BY <1>9, <1>1 DEF DropMember
<1> QED
  BY <1>2, <1>3, <1>4, <1>5, <1>6, <1>7, <1>8, <1>9 DEF udp_joingrp, udp_dropgrp

-----------------------------------------------------------------------------
(* What a step of thread t does not touch stays as the invariant says.     *)
LEMMA SoleMoves ==
  ASSUME NEW t, Moves(t), NEW c, Sole(c)
  PROVE  Sole(c)'
BY DEF Moves, Sole, RunningOn, Running

(* The template, when the call does not change it.                         *)
LEMMA TemplateMoves ==
  ASSUME Typed, TemplateOwned, NEW t, Moves(t), op[t] \notin Writers,
         UNCHANGED <<template, prtemplate, current, previous>>
  PROVE  TemplateOwned'
<1>1. RunningOn("template")' = RunningOn("template")
  BY ChangesOf DEF Moves, RunningOn, Running
<1>2. ASSUME NEW u \in Threads, NEW o \in Writers, NEW place, In(u, o, place)'
      PROVE  /\ In(u, o, place)
             /\ \A n, m : Replaced(u, n, m)' <=> Replaced(u, n, m)
  <2>1. u # t
    BY <1>2 DEF Moves, In
  <2>2. op'[u] = op[u] /\ at'[u] = at[u] /\ arg'[u] = arg[u] /\ reg'[u] = reg[u]
    BY <2>1 DEF Moves
  <2>3. In(u, o, place)
    BY <1>2, <2>2 DEF In
  <2>4. ASSUME NEW n, NEW m
        PROVE  Replaced(u, n, m)' <=> Replaced(u, n, m)
    <3>1. Mix(n, arg[u], current)' = Mix(n, arg[u], current) /\ Read(n, current)' = Read(n, current)
          /\ Mix(m, current, previous)' = Mix(m, current, previous)
      BY <2>2 DEF Mix, Read
    <3> QED
      BY <2>2, <3>1 DEF Replaced
  <2> QED
    BY <2>3, <2>4
<1> QED
  BY <1>1, <1>2 DEF TemplateOwned, Moves, Writers

(* What readers of the template have, when the call is not one of them.    *)
LEMMA ReadsMoves ==
  ASSUME Typed, ReadsStill, NEW t, Moves(t), op[t] \notin Readers,
         current' = current \/ op[t] \in Writers
  PROVE  ReadsStill'
<1> SUFFICES ASSUME NEW u \in Threads, (op[u] \in Readers /\ Undisturbed(u))'
             PROVE  (u \in Running => RunningOn("template") = {} /\ saw[u] = current)' /\ Reading(u)'
  BY DEF ReadsStill
<1>1. u # t /\ op[u] \in Readers /\ Undisturbed(u)
  BY DEF Moves, Undisturbed
<1>2. (u \in Running => RunningOn("template") = {} /\ saw[u] = current) /\ Reading(u)
  BY <1>1 DEF ReadsStill
<1>3. Reading(u)'
  BY <1>1, <1>2 DEF Reading, Moves, In, Read
<1>4. ASSUME u \in Running'
      PROVE  RunningOn("template")' = {} /\ saw'[u] = current'
  <2>1. u \in Running
    BY <1>1, <1>4 DEF Running, Moves
  <2>2. op[t] \notin Writers
    BY <1>2, <2>1, ChangesOf DEF RunningOn, Running, Moves
  <2> QED
    BY <1>2, <2>1, <2>2 DEF RunningOn, Running, Moves
<1> QED
  BY <1>3, <1>4

(* The attributes.                                                         *)
LEMMA AttrMoves ==
  ASSUME Typed, AttrOwned, NEW t, Moves(t), op[t] \notin {"setattr", "setattr_r"},
         UNCHANGED <<attr, wanted, bcast>>
  PROVE  AttrOwned'
<1>1. ASSUME NEW u \in Threads, op[u] \in {"setattr", "setattr_r"}
      PROVE  at'[u] = at[u] /\ reg'[u] = reg[u] /\ op'[u] = op[u]
  BY <1>1 DEF Moves
<1>2. RunningOn("attr")' = RunningOn("attr")
      /\ \A u \in RunningOn("attr") : at'[u] = at[u]
  BY <1>1, ChangesOf DEF Moves, RunningOn, Running
<1>3. raced' = raced /\ kind' = kind /\ op' = op
  BY DEF Moves
<1> QED
  BY <1>1, <1>2, <1>3 DEF AttrOwned, In

(* The context.                                                            *)
LEMMA ContextMoves ==
  ASSUME Typed, ContextOwned, NEW t, Moves(t), op[t] \notin {"setctx", "getctx"},
         UNCHANGED <<context, prcontext, ctx, prctx>>
  PROVE  ContextOwned'
<1>1. ASSUME NEW u \in Threads, op[u] \in {"setctx", "getctx"}
      PROVE  at'[u] = at[u] /\ reg'[u] = reg[u] /\ op'[u] = op[u] /\ arg'[u] = arg[u]
  BY <1>1 DEF Moves
<1>2. raced' = raced /\ op' = op
  BY DEF Moves
<1> QED
  BY <1>1, <1>2 DEF ContextOwned, In

(* The group.                                                              *)
LEMMA GroupMoves ==
  ASSUME Typed, GroupOwned, NEW t, Moves(t), op[t] \notin {"join", "drop"},
         UNCHANGED <<groups, last, member>>
  PROVE  GroupOwned'
<1>1. ASSUME NEW u \in Threads, op[u] \in {"join", "drop"}
      PROVE  at'[u] = at[u] /\ op'[u] = op[u] /\ arg'[u] = arg[u]
  BY <1>1 DEF Moves
<1>2. raced' = raced /\ op' = op
  BY DEF Moves
<1> QED
  BY <1>1, <1>2 DEF GroupOwned, In, groups

(* The types of the multicast state.                                       *)
GroupTyped ==
  /\ joined \subseteq Groups /\ member \subseteq Groups
  /\ blocks \in Seq(Groups \cup {Unset}) /\ mreq \in 0 .. Len(blocks)
  /\ mreq = 0 => blocks = << >>
  /\ "group" \notin raced => Len(blocks) <= 1

(* A call that does not touch the group keeps its types.                   *)
LEMMA GroupTypedSame ==
  ASSUME Typed, NEW t, Moves(t), UNCHANGED <<groups, member>>
  PROVE  GroupTyped' /\ mreq' = mreq
BY DEF Typed, TypeOK, Moves, groups, GroupTyped

(* The places of the other threads.                                        *)
LEMMA PlacedMoves ==
  ASSUME Typed, NEW t, Moves(t), mreq # 0 => mreq' # 0, NEW u \in Threads, u # t
  PROVE  Placed(u)'
<1>1. Placed(u)
  BY DEF Typed
<1> QED
  BY <1>1 DEF Moves, Placed, In, Args, Flags

(* The types, from what the call has assigned.                             *)
LEMMA TypedMoves ==
  ASSUME Typed, NEW t, Moves(t), GroupTyped', mreq # 0 => mreq' # 0, Placed(t)',
         attr' \subseteq Flags(kind), wanted' \subseteq Flags(kind), bcast' \in BOOLEAN,
         current' \in Templates \cup {NoTemplate}, previous' \in Templates \cup {NoTemplate}
  PROVE  Typed'
<1>1. \A u \in Threads : Placed(u)'
  BY PlacedMoves
<1>2. TypeOK'
  BY DEF Typed, TypeOK, Moves, GroupTyped, Flags, Ops
<1> QED
  BY <1>1, <1>2 DEF Typed, Moves, GroupTyped, Ops

-----------------------------------------------------------------------------
(* Templates field by field.                                               *)
AnyTemplate == Templates \cup {NoTemplate}

(* The fields in the order of the assignments.                             *)
LEMMA FieldOf ==
  /\ Fields[1] = "cb" /\ Fields[2] = "builder" /\ Fields[3] = "parser" /\ Len(Fields) = 3
BY DEF Fields

(* With none of its fields, or all, a mixture is a template.               *)
LEMMA MixEnds ==
  ASSUME NEW p \in AnyTemplate, NEW q \in AnyTemplate
  PROVE  Mix(0, p, q) = q /\ Mix(3, p, q) = p
<1>1. p = [f \in FieldNames |-> p[f]] /\ q = [f \in FieldNames |-> q[f]]
  BY OptionsAssumption DEF AnyTemplate, FieldNames
<1>2. Mix(0, p, q) = [f \in FieldNames |-> q[f]] /\ Mix(3, p, q) = [f \in FieldNames |-> p[f]]
  BY DEF Mix, FieldNames
<1> QED
  BY <1>1, <1>2

(* Replacing the next field is one field more.                             *)
LEMMA MixGrows ==
  ASSUME NEW p, NEW q, NEW n \in 0 .. 2
  PROVE  /\ [Mix(n, p, q) EXCEPT ![Fields[n + 1]] = p[Fields[n + 1]]] = Mix(n + 1, p, q)
         /\ Mix(n, p, q)[Fields[n + 1]] = q[Fields[n + 1]]
<1>1. CASE n = 0
  <2>1. Fields[n + 1] = "cb" /\ n + 1 = 1
    BY <1>1, FieldOf
  <2>2. [Mix(0, p, q) EXCEPT !["cb"] = p["cb"]] = Mix(1, p, q)
    <3> DEFINE x == Mix(0, p, q) y == Mix(1, p, q)
    <3>1. x = [f \in FieldNames |-> x[f]] /\ y = [f \in FieldNames |-> y[f]]
      BY DEF Mix
    <3>2. \A f \in FieldNames : y[f] = IF f = "cb" THEN p["cb"] ELSE x[f]
      BY DEF Mix, FieldNames
    <3> HIDE DEF x, y
    <3>3. [x EXCEPT !["cb"] = p["cb"]] = y
      BY <3>1, <3>2
    <3> QED
      BY <3>3 DEF x, y
  <2>3. Mix(0, p, q)["cb"] = q["cb"]
    BY DEF Mix, FieldNames
  <2> QED
    BY <1>1, <2>1, <2>2, <2>3
<1>2. CASE n = 1
  <2>1. Fields[n + 1] = "builder" /\ n + 1 = 2
    BY <1>2, FieldOf
  <2>2. [Mix(1, p, q) EXCEPT !["builder"] = p["builder"]] = Mix(2, p, q)
    <3> DEFINE x == Mix(1, p, q) y == Mix(2, p, q)
    <3>1. x = [f \in FieldNames |-> x[f]] /\ y = [f \in FieldNames |-> y[f]]
      BY DEF Mix
    <3>2. \A f \in FieldNames : y[f] = IF f = "builder" THEN p["builder"] ELSE x[f]
      BY DEF Mix, FieldNames
    <3> HIDE DEF x, y
    <3>3. [x EXCEPT !["builder"] = p["builder"]] = y
      BY <3>1, <3>2
    <3> QED
      BY <3>3 DEF x, y
  <2>3. Mix(1, p, q)["builder"] = q["builder"]
    BY DEF Mix, FieldNames
  <2> QED
    BY <1>2, <2>1, <2>2, <2>3
<1>3. CASE n = 2
  <2>1. Fields[n + 1] = "parser" /\ n + 1 = 3
    BY <1>3, FieldOf
  <2>2. [Mix(2, p, q) EXCEPT !["parser"] = p["parser"]] = Mix(3, p, q)
    <3> DEFINE x == Mix(2, p, q) y == Mix(3, p, q)
    <3>1. x = [f \in FieldNames |-> x[f]] /\ y = [f \in FieldNames |-> y[f]]
      BY DEF Mix
    <3>2. \A f \in FieldNames : y[f] = IF f = "parser" THEN p["parser"] ELSE x[f]
      BY DEF Mix, FieldNames
    <3> HIDE DEF x, y
    <3>3. [x EXCEPT !["parser"] = p["parser"]] = y
      BY <3>1, <3>2
    <3> QED
      BY <3>3 DEF x, y
  <2>3. Mix(2, p, q)["parser"] = q["parser"]
    BY DEF Mix, FieldNames
  <2> QED
    BY <1>3, <2>1, <2>2, <2>3
<1> QED
  BY <1>1, <1>2, <1>3

(* What has been read, for each number of fields.                          *)
LEMMA ReadIs ==
  ASSUME NEW p
  PROVE  /\ Read(0, p) = << >> /\ Read(1, p) = <<p.cb>>
         /\ Read(2, p) = <<p.cb, p.builder>> /\ Read(3, p) = <<p.cb, p.builder, p.parser>>
BY DEF Read

(* Reading the next field is one field more.                               *)
LEMMA ReadGrows ==
  ASSUME NEW p, NEW n \in 0 .. 2
  PROVE  Append(Read(n, p), p[Fields[n + 1]]) = Read(n + 1, p)
<1>1. CASE n = 0
  <2>1. Fields[n + 1] = "cb" /\ n + 1 = 1
    BY <1>1, FieldOf
  <2>2. Append(Read(0, p), p.cb) = Read(1, p)
    <3>1. Read(0, p) = << >> /\ Read(1, p) = <<p.cb>>
      BY ReadIs
    <3>2. Append(<< >>, p.cb) = <<p.cb>>
      BY Append0, Zenon
    <3> QED
      BY <3>1, <3>2
  <2> QED
    BY <1>1, <2>1, <2>2
<1>2. CASE n = 1
  <2>1. Fields[n + 1] = "builder" /\ n + 1 = 2
    BY <1>2, FieldOf
  <2>2. Append(Read(1, p), p.builder) = Read(2, p)
    <3>1. Read(1, p) = <<p.cb>> /\ Read(2, p) = <<p.cb, p.builder>>
      BY ReadIs
    <3>2. Append(<<p.cb>>, p.builder) = <<p.cb, p.builder>>
      BY Append1, Zenon
    <3> QED
      BY <3>1, <3>2
  <2> QED
    BY <1>2, <2>1, <2>2
<1>3. CASE n = 2
  <2>1. Fields[n + 1] = "parser" /\ n + 1 = 3
    BY <1>3, FieldOf
  <2>2. Append(Read(2, p), p.parser) = Read(3, p)
    <3>1. Read(2, p) = <<p.cb, p.builder>> /\ Read(3, p) = <<p.cb, p.builder, p.parser>>
      BY ReadIs
    <3>2. Append(<<p.cb, p.builder>>, p.parser) = <<p.cb, p.builder, p.parser>>
      BY Append2, Zenon
    <3> QED
      BY <3>1, <3>2
  <2> QED
    BY <1>3, <2>1, <2>2
<1> QED
  BY <1>1, <1>2, <1>3

(* As many values as fields, the last one of the last field.               *)
LEMMA ReadLen ==
  ASSUME NEW p, NEW n \in 0 .. 3
  PROVE  Len(Read(n, p)) = n /\ (n # 0 => Read(n, p)[n] = p[Fields[n]])
<1>1. CASE n = 0
  <2>1. Len(Read(0, p)) = 0
    BY ReadIs
  <2> QED
    BY <1>1, <2>1
<1>2. CASE n = 1
  <2>1. Len(Read(1, p)) = 1
    BY ReadIs
  <2>2. Read(1, p)[1] = p.cb
    <3>1. Read(1, p) = <<p.cb>>
      BY ReadIs
    <3> QED
      BY <3>1
  <2> QED
    BY <1>2, <2>1, <2>2, FieldOf
<1>3. CASE n = 2
  <2>1. Len(Read(2, p)) = 2
    BY ReadIs
  <2>2. Read(2, p)[2] = p.builder
    <3>1. Read(2, p) = <<p.cb, p.builder>>
      BY ReadIs
    <3> QED
      BY <3>1
  <2> QED
    BY <1>3, <2>1, <2>2, FieldOf
<1>4. CASE n = 3
  <2>1. Len(Read(3, p)) = 3
    BY ReadIs
  <2>2. Read(3, p)[3] = p.parser
    <3>1. Read(3, p) = <<p.cb, p.builder, p.parser>>
      BY ReadIs
    <3> QED
      BY <3>1
  <2> QED
    BY <1>4, <2>1, <2>2, FieldOf
<1> QED
  BY <1>1, <1>2, <1>3, <1>4

(* The invariant at the beginning.                                         *)
LEMMA InitIInv == Init => IInv
<1> SUFFICES ASSUME Init PROVE IInv
  OBVIOUS
<1>1. Running = {} /\ \A c : RunningOn(c) = {}
  BY DEF Init, Running, RunningOn
<1>2. TypeOK
  <2>1. blocks \in Seq(Groups \cup {Unset}) /\ Len(blocks) = 0
    BY DEF Init
  <2>2. attr \subseteq Flags(kind) /\ wanted \subseteq Flags(kind)
    BY DEF Init, Flags
  <2>3. calls \in 0 .. MaxCalls
    BY OptionsAssumption DEF Init
  <2>4. bcast \in BOOLEAN
    BY DEF Init
  <2>5. \A t \in Threads : op[t] \in Ops(kind) \cup {"none"} /\ lapped \subseteq Threads
    BY DEF Init
  <2>6. /\ kind \in {"tcp", "udp"} /\ joined \subseteq Groups /\ member \subseteq Groups
        /\ raced \subseteq {"template", "attr", "context", "group"} /\ mreq = 0
    BY DEF Init
  <2> QED
    BY <2>1, <2>2, <2>3, <2>4, <2>5, <2>6 DEF TypeOK
<1>3. Typed
  <2>1. \A t \in Threads : Placed(t)
    BY DEF Init, Placed, In
  <2> QED
    BY <1>2, <2>1 DEF Init, Typed
<1>4. \A c \in Classes : Sole(c)
  BY <1>1 DEF Sole
<1>5. TemplateOwned /\ ReadsStill /\ AttrOwned /\ ContextOwned /\ GroupOwned
  BY <1>1 DEF Init, TemplateOwned, ReadsStill, AttrOwned, ContextOwned, GroupOwned, In, Readers
<1> QED
  BY <1>3, <1>4, <1>5 DEF IInv

(* A call begins.                                                          *)
LEMMA BeginKeepsIInv ==
  ASSUME IInv, NEW t \in Threads, Begin(t)
  PROVE  IInv'
<1> USE DEF IInv
<1> DEFINE Starts(o, a) ==
        /\ op' = [op EXCEPT ![t] = o] /\ arg' = [arg EXCEPT ![t] = a]
        /\ raced' = raced \cup {c \in Changes(o) : RunningOn(c) # {}}
        /\ lapped' = (lapped \ {t})
                     \cup (IF RunningOn("template") # {} THEN {t} ELSE {})
                     \cup (IF "template" \in Changes(o) THEN Running ELSE {})
<1>0. PICK o \in Ops(kind) : \E a \in Args(o) : Starts(o, a)
  BY DEF Begin
<1>1. PICK a \in Args(o) : Starts(o, a)
  BY <1>0
<1>2. /\ at[t] = "returned" /\ calls < MaxCalls /\ calls' = calls + 1
      /\ at' = [at EXCEPT ![t] = "called"] /\ reg' = [reg EXCEPT ![t] = << >>]
      /\ saw' = [saw EXCEPT ![t] = current]
      /\ UNCHANGED <<kind, opts, groups, ghosts>>
  BY DEF Begin, Running
<1>3. /\ op'[t] = o /\ arg'[t] = a /\ at'[t] = "called" /\ reg'[t] = << >> /\ saw'[t] = current
      /\ \A u \in Threads : u # t => /\ op'[u] = op[u] /\ arg'[u] = arg[u] /\ at'[u] = at[u]
                                     /\ reg'[u] = reg[u] /\ saw'[u] = saw[u]
  BY <1>1, <1>2 DEF Typed
<1>4. /\ raced \subseteq raced' /\ t \notin Running
      /\ \A c : RunningOn(c)' = RunningOn(c) \cup (IF c \in Changes(o) THEN {t} ELSE {})
      /\ \A c : c \in Changes(o) /\ c \notin raced' => RunningOn(c) = {}
  BY <1>1, <1>2, <1>3 DEF RunningOn, Running
<1>5. Typed'
  <2>1. \A u \in Threads : Placed(u)'
    <3> SUFFICES ASSUME NEW u \in Threads PROVE Placed(u)'
      OBVIOUS
    <3>1. CASE u = t
      BY <1>2, <1>3, <3>1 DEF Placed, In, Args, Ops, groups, Flags
    <3>2. CASE u # t
      <4>1. Placed(u)
        BY DEF Typed
      <4> QED
        BY <1>2, <1>3, <3>2, <4>1 DEF Placed, In, Args, groups, Flags
    <3> QED
      BY <3>1, <3>2
  <2>2. raced' \subseteq {"template", "attr", "context", "group"}
    <3>1. Changes(o) \subseteq {"template", "attr", "context", "group"}
      BY <1>1 DEF Ops, Changes
    <3> QED
      BY <1>1, <3>1 DEF Typed, TypeOK
  <2>3. lapped' \subseteq Threads
    BY <1>1 DEF Typed, TypeOK, Running
  <2>4. op' \in [Threads -> Ops(kind) \cup {"none"}] /\ saw' \in [Threads -> Templates \cup {NoTemplate}]
    BY <1>1, <1>2 DEF Typed
  <2>5. calls' \in 0 .. MaxCalls
    BY <1>2, OptionsAssumption DEF Typed, TypeOK
  <2>6. Ops(kind)' = Ops(kind) /\ Flags(kind)' = Flags(kind) /\ kind' = kind
    BY <1>2 DEF Ops, Flags
  <2>7. TypeOK'
    BY <1>2, <1>4, <2>2, <2>3, <2>4, <2>5, <2>6 DEF Typed, TypeOK, opts, groups, ghosts
  <2> QED
    BY <1>1, <1>2, <2>1, <2>4, <2>6, <2>7 DEF Typed, groups, ghosts
<1>6. \A c \in Classes : Sole(c)'
  BY <1>4 DEF Sole
<1>7. TemplateOwned'
  <2> SUFFICES ASSUME "template" \notin raced'
               PROVE  /\ RunningOn("template")' = {} => template' = current' /\ prtemplate' = previous'
                      /\ \A u \in Threads :
                           /\ In(u, "settst", "called")' => \E n \in 0 .. 3 : Replaced(u, n, 0)'
                           /\ In(u, "settst_r", "called")' => \E n \in 0 .. 3 : Replaced(u, n, n)'
                           /\ In(u, "settst_r", "save")' => \E n \in 1 .. 3 : Replaced(u, n, n - 1)'
    BY DEF TemplateOwned
  <2>1. UNCHANGED <<template, prtemplate, current, previous>>
    BY <1>2 DEF opts, ghosts
  <2>2. RunningOn("template") = {} => template = current /\ prtemplate = previous
    BY <1>4 DEF TemplateOwned
  <2>3. RunningOn("template")' = {} => template' = current' /\ prtemplate' = previous'
    BY <1>4, <2>1, <2>2
  <2>4. ASSUME NEW u \in Threads, u # t, NEW w, NEW place, In(u, w, place)'
        PROVE  In(u, w, place) /\ \A n, m : Replaced(u, n, m)' <=> Replaced(u, n, m)
    <3>1. /\ op'[u] = op[u] /\ arg'[u] = arg[u] /\ at'[u] = at[u] /\ reg'[u] = reg[u]
          /\ op'[u] = w /\ at'[u] = place
      BY <1>3, <2>4 DEF In
    <3> QED
      BY <2>1, <3>1 DEF In, Replaced, Mix, Read
  <2>5. ASSUME NEW u \in Threads, u = t, (In(u, "settst", "called") \/ In(u, "settst_r", "called"))'
        PROVE  Replaced(u, 0, 0)'
    <3>1. o \in Writers
      BY <1>3, <2>5 DEF In, Writers
    <3>2. template = current /\ prtemplate = previous
      BY <1>4, <2>2, <3>1, ChangesOf
    <3>3. a \in AnyTemplate /\ current \in AnyTemplate /\ previous \in AnyTemplate
      BY <3>1 DEF Args, Writers, AnyTemplate, Typed
    <3>4. Mix(0, a, current) = current /\ Mix(0, current, previous) = previous
      BY <3>3, MixEnds
    <3>5. /\ template' = Mix(0, arg'[u], current') /\ reg'[u] = Read(0, current')
          /\ prtemplate' = Mix(0, current', previous')
      BY <1>3, <2>1, <2>5, <3>2, <3>4, ReadIs
    <3> QED
      BY <3>5 DEF Replaced
  <2>6. ~In(t, "settst_r", "save")'
    BY <1>3 DEF In
  <2>7. "template" \notin raced
    BY <1>4
  <2>8. ASSUME NEW u \in Threads, u # t
        PROVE  /\ In(u, "settst", "called")' => \E n \in 0 .. 3 : Replaced(u, n, 0)'
               /\ In(u, "settst_r", "called")' => \E n \in 0 .. 3 : Replaced(u, n, n)'
               /\ In(u, "settst_r", "save")' => \E n \in 1 .. 3 : Replaced(u, n, n - 1)'
    BY <2>4, <2>7, <2>8 DEF TemplateOwned
  <2> QED
    BY <2>3, <2>5, <2>6, <2>8
<1>8. ReadsStill'
  <2> SUFFICES ASSUME NEW u \in Threads, (op[u] \in Readers /\ Undisturbed(u))'
               PROVE  (u \in Running => RunningOn("template") = {} /\ saw[u] = current)' /\ Reading(u)'
    BY DEF ReadsStill
  <2>1. current' = current
    BY <1>2 DEF ghosts
  <2>2. CASE u = t
    <3>1. "template" \notin Changes(o)
      BY <1>3, <2>2, ChangesOf DEF Readers, Writers
    <3>2. RunningOn("template") = {}
      BY <1>1, <2>2 DEF Undisturbed
    <3>3. RunningOn("template")' = {} /\ saw'[u] = current'
      BY <1>3, <1>4, <2>1, <2>2, <3>1, <3>2
    <3>4. Reading(u)'
      <4>1. Read(0, saw'[u]) = << >>
        BY ReadIs
      <4> QED
        BY <1>3, <2>2, <4>1 DEF Reading, In, Read
    <3> QED
      BY <3>3, <3>4
  <2>3. CASE u # t
    <3>1. op[u] \in Readers /\ Undisturbed(u)
      BY <1>1, <1>3, <1>4, <2>3 DEF Undisturbed
    <3>2. (u \in Running => RunningOn("template") = {} /\ saw[u] = current) /\ Reading(u)
      BY <3>1 DEF ReadsStill
    <3>3. Reading(u)'
      BY <1>3, <2>3, <3>2 DEF Reading, In, Read
    <3>4. ASSUME u \in Running' PROVE "template" \notin Changes(o) /\ u \in Running
      BY <1>1, <1>3, <2>3, <3>4 DEF Undisturbed, Running
    <3> QED
      BY <1>3, <1>4, <2>1, <2>3, <3>2, <3>3, <3>4
  <2> QED
    BY <2>2, <2>3
<1>9. AttrOwned'
  <2>1. attr' = attr /\ wanted' = wanted /\ bcast' = bcast /\ kind' = kind
    BY <1>2 DEF opts, ghosts, groups
  <2>2. \A u \in RunningOn("attr") : u # t /\ u \in Threads
    BY <1>4 DEF RunningOn, Running
  <2> QED
    BY <1>3, <1>4, <2>1, <2>2 DEF AttrOwned, In
<1>10. ContextOwned'
  <2>1. context' = context /\ prcontext' = prcontext /\ ctx' = ctx /\ prctx' = prctx
    BY <1>2 DEF opts, ghosts
  <2>2. \A u \in Threads : \A w : In(u, w, "save")' => In(u, w, "save") /\ u # t
    BY <1>3 DEF In
  <2>3. \A u \in Threads : \A w : In(u, w, "save") => In(u, w, "save")'
    BY <1>2, <1>3 DEF In
  <2> QED
    BY <1>3, <1>4, <2>1, <2>2, <2>3 DEF ContextOwned
<1>11. GroupOwned'
  <2>1. groups' = groups /\ last' = last /\ member' = member
    BY <1>2 DEF groups, ghosts
  <2>2. \A u \in Threads, p \in {"malloc", "fill", "add"} :
          In(u, "join", p)' <=> In(u, "join", p) /\ u # t
    BY <1>2, <1>3 DEF In
  <2>3. ~In(t, "join", "malloc") /\ ~In(t, "join", "fill")
    BY <1>2 DEF In
  <2> QED
    BY <1>3, <1>4, <2>1, <2>2, <2>3 DEF GroupOwned, groups
<1> QED
  BY <1>5, <1>6, <1>7, <1>8, <1>9, <1>10, <1>11

-----------------------------------------------------------------------------
(* Changes of the template.                                                *)
LEMMA TemplateStepKeeps ==
  ASSUME IInv, NEW t \in Threads, Moves(t), op[t] \in Writers,
         UNCHANGED <<attr, context, prcontext, groups, wanted, ctx, prctx, last, member>>,
         current' \in AnyTemplate, previous' \in AnyTemplate, TemplateOwned'
  PROVE  IInv'
<1> USE DEF IInv
<1>1. Placed(t)'
  <2>1. Placed(t)
    BY DEF Typed
  <2> QED
    BY <2>1 DEF Placed, Moves, In, Args, Flags, Writers, groups
<1>2. Typed'
  <2>1. GroupTyped' /\ mreq' = mreq
    BY GroupTypedSame
  <2>2. attr' \subseteq Flags(kind) /\ wanted' \subseteq Flags(kind) /\ bcast' \in BOOLEAN
    BY DEF Typed, TypeOK, groups
  <2> QED
    BY <1>1, <2>1, <2>2, TypedMoves DEF AnyTemplate
<1>3. \A c \in Classes : Sole(c)'
  BY SoleMoves
<1>4. ReadsStill'
  BY ReadsMoves DEF Readers, Writers
<1>5. AttrOwned'
  BY AttrMoves DEF Writers, groups
<1>6. ContextOwned'
  BY ContextMoves DEF Writers
<1>7. GroupOwned'
  BY GroupMoves DEF Writers
<1> QED
  BY <1>2, <1>3, <1>4, <1>5, <1>6, <1>7

(* Nobody else is changing it.                                             *)
LEMMA TemplateAlone ==
  ASSUME IInv, NEW t \in Threads, Moves(t), op[t] \in Writers, "template" \notin raced
  PROVE  /\ RunningOn("template") = {t}
         /\ \A u \in Threads, w \in Writers : \A place :
              place # "returned" /\ In(u, w, place)' => u = t
<1>1. t \in RunningOn("template")
  BY ChangesOf DEF RunningOn, Running, Moves
<1>2. \A u \in RunningOn("template") : u = t
  BY <1>1 DEF IInv, Sole, Classes
<1>3. ASSUME NEW u \in Threads, NEW w \in Writers, NEW place, place # "returned",
             In(u, w, place)', u # t
      PROVE  FALSE
  <2>1. u \in RunningOn("template")
    BY <1>3, ChangesOf DEF RunningOn, Running, Moves, In
  <2> QED
    BY <1>2, <1>3, <2>1
<1> QED
  BY <1>1, <1>2, <1>3

(* One field more.                                                         *)
LEMMA PutFieldMixes ==
  ASSUME Typed, NEW t \in Threads, NEW n \in 0 .. 3, PutField(t),
         template = Mix(n, arg[t], current), reg[t] = Read(n, current)
  PROVE  /\ n \in 0 .. 2
         /\ template' = Mix(n + 1, arg[t], current) /\ reg'[t] = Read(n + 1, current)
<1>1. Len(reg[t]) = n /\ Len(Fields) = 3
  BY ReadLen, FieldOf
<1>2. n \in 0 .. 2
  BY <1>1 DEF PutField, Filled
<1>3. Field(t) = Fields[n + 1]
  BY <1>1 DEF Field
<1>4. template' = [template EXCEPT ![Fields[n + 1]] = arg[t][Fields[n + 1]]]
      /\ reg' = [reg EXCEPT ![t] = Append(@, template[Fields[n + 1]])]
  BY <1>3 DEF PutField, Keeps
<1>5. template[Fields[n + 1]] = current[Fields[n + 1]]
  BY <1>2, MixGrows
<1>6. template' = Mix(n + 1, arg[t], current)
  BY <1>2, <1>4, MixGrows
<1>7. Append(Read(n, current), current[Fields[n + 1]]) = Read(n + 1, current)
  BY <1>2, ReadGrows
<1>8. reg'[t] = Append(reg[t], current[Fields[n + 1]])
  BY <1>4, <1>5 DEF Typed
<1> QED
  BY <1>2, <1>6, <1>7, <1>8

(* tcp_settst replaces a field.                                            *)
LEMMA SettstKeepsIInv ==
  ASSUME IInv, NEW t \in Threads, tcp_settst(t)
  PROVE  IInv'
<1>1. Moves(t) /\ op[t] = "settst" /\ at[t] = "called" /\ at'[t] = "called"
  BY TemplateCallMoves DEF IInv, tcp_settst, In, Goes, Typed
<1>2. TemplateOwned'
  <2> SUFFICES ASSUME "template" \notin raced'
               PROVE  TemplateOwned'
    BY DEF TemplateOwned
  <2>1. "template" \notin raced /\ arg' = arg /\ op' = op
        /\ UNCHANGED <<prtemplate, current, previous>>
    BY <1>1 DEF Moves, tcp_settst, ghosts
  <2>2. PICK n \in 0 .. 3 : Replaced(t, n, 0)
    BY <1>1, <2>1 DEF IInv, TemplateOwned, In
  <2>3. n \in 0 .. 2 /\ template' = Mix(n + 1, arg[t], current) /\ reg'[t] = Read(n + 1, current)
    BY <2>2, PutFieldMixes DEF IInv, Replaced, tcp_settst
  <2>4. Replaced(t, n + 1, 0)' /\ n + 1 \in 0 .. 3
    <3>1. prtemplate = Mix(0, current, previous)
      BY <2>2 DEF Replaced
    <3>2. prtemplate' = Mix(0, current', previous')
      BY <2>1, <3>1
    <3>3. template' = Mix(n + 1, arg'[t], current') /\ reg'[t] = Read(n + 1, current')
      BY <2>1, <2>3
    <3> QED
      BY <2>3, <3>2, <3>3 DEF Replaced
  <2>5. t \in RunningOn("template")'
    BY <1>1, ChangesOf DEF RunningOn, Running, Moves, Writers
  <2>6. \A u \in Threads, w \in Writers : \A place :
              place # "returned" /\ In(u, w, place)' => u = t
    BY <1>1, <2>1, TemplateAlone DEF Writers
  <2>7. ~In(t, "settst_r", "called")' /\ ~In(t, "settst_r", "save")'
    BY <1>1 DEF In, Moves
  <2>8. ASSUME NEW u \in Threads
        PROVE  /\ In(u, "settst", "called")' => \E k \in 0 .. 3 : Replaced(u, k, 0)'
               /\ In(u, "settst_r", "called")' => \E k \in 0 .. 3 : Replaced(u, k, k)'
               /\ In(u, "settst_r", "save")' => \E k \in 1 .. 3 : Replaced(u, k, k - 1)'
    BY <2>4, <2>6, <2>7 DEF Writers
  <2> QED
    BY <2>5, <2>8 DEF TemplateOwned
<1> QED
  BY <1>1, <1>2, TemplateStepKeeps DEF tcp_settst, IInv, Typed, AnyTemplate, ghosts, Writers

(* tcp_settst_r replaces a field, or saves the one it has replaced.        *)
LEMMA SettstRKeepsIInv ==
  ASSUME IInv, NEW t \in Threads, tcp_settst_r(t)
  PROVE  IInv'
<1>1. Moves(t) /\ op[t] = "settst_r"
  BY TemplateCallMoves DEF IInv, tcp_settst_r, In
<1>2. UNCHANGED <<attr, context, prcontext, groups, ghosts>> /\ arg' = arg /\ op' = op
  BY <1>1 DEF tcp_settst_r, Moves
<1>3. TemplateOwned'
  <2> SUFFICES ASSUME "template" \notin raced'
               PROVE  TemplateOwned'
    BY DEF TemplateOwned
  <2>1. "template" \notin raced /\ UNCHANGED <<current, previous>>
    BY <1>1, <1>2 DEF Moves, ghosts
  <2>2. \A u \in Threads, w \in Writers : \A place :
              place # "returned" /\ In(u, w, place)' => u = t
    BY <1>1, <2>1, TemplateAlone DEF Writers
  <2>3. CASE In(t, "settst_r", "called") /\ PutField(t) /\ Goes(t, "save") /\ UNCHANGED prtemplate
    <3>1. PICK n \in 0 .. 3 : Replaced(t, n, n)
      BY <2>1, <2>3 DEF IInv, TemplateOwned
    <3>2. n \in 0 .. 2 /\ template' = Mix(n + 1, arg[t], current) /\ reg'[t] = Read(n + 1, current)
      BY <2>3, <3>1, PutFieldMixes DEF IInv, Replaced
    <3>3. at'[t] = "save"
      BY <2>3 DEF Goes, IInv, Typed
    <3>4. Replaced(t, n + 1, n)' /\ n + 1 \in 1 .. 3 /\ (n + 1) - 1 = n
      <4>1. prtemplate = Mix(n, current, previous)
        BY <3>1 DEF Replaced
      <4>2. prtemplate' = Mix(n, current', previous')
        BY <2>1, <2>3, <4>1
      <4>3. template' = Mix(n + 1, arg'[t], current') /\ reg'[t] = Read(n + 1, current')
        BY <1>2, <2>1, <3>2
      <4> QED
        BY <3>2, <4>2, <4>3 DEF Replaced
    <3>5. t \in RunningOn("template")'
      BY <1>1, <3>3, ChangesOf DEF RunningOn, Running, Moves, Writers
    <3>6. ~In(t, "settst_r", "called")' /\ ~In(t, "settst", "called")'
      BY <1>1, <3>3 DEF In, Moves
    <3>7. ASSUME NEW u \in Threads
          PROVE  /\ In(u, "settst", "called")' => \E k \in 0 .. 3 : Replaced(u, k, 0)'
                 /\ In(u, "settst_r", "called")' => \E k \in 0 .. 3 : Replaced(u, k, k)'
                 /\ In(u, "settst_r", "save")' => \E k \in 1 .. 3 : Replaced(u, k, k - 1)'
      BY <2>2, <3>4, <3>6 DEF Writers
    <3> QED
      BY <3>5, <3>7 DEF TemplateOwned
  <2>4. CASE In(t, "settst_r", "save") /\ SaveField(t) /\ Goes(t, "called")
             /\ UNCHANGED <<template, reg>>
    <3>1. PICK n \in 1 .. 3 : Replaced(t, n, n - 1)
      BY <2>1, <2>4 DEF IInv, TemplateOwned
    <3>2. PICK m \in 0 .. 2 : n = m + 1 /\ m = n - 1
      BY SMT
    <3>3. Len(reg[t]) = n /\ reg[t][n] = current[Fields[n]] /\ prtemplate = Mix(m, current, previous)
      <4>1. reg[t] = Read(n, current) /\ prtemplate = Mix(n - 1, current, previous)
        BY <3>1 DEF Replaced
      <4>2. Len(Read(n, current)) = n /\ Read(n, current)[n] = current[Fields[n]]
        <5>1. n \in 0 .. 3 /\ n # 0
          OBVIOUS
        <5> QED
          BY <5>1, ReadLen
      <4> QED
        BY <3>2, <4>1, <4>2
    <3>4. prtemplate' = [prtemplate EXCEPT ![Fields[m + 1]] = current[Fields[m + 1]]]
      BY <2>4, <3>2, <3>3 DEF SaveField
    <3>5. prtemplate' = Mix(m + 1, current, previous)
      <4>1. [Mix(m, current, previous) EXCEPT ![Fields[m + 1]] = current[Fields[m + 1]]]
              = Mix(m + 1, current, previous)
        BY MixGrows
      <4> QED
        BY <3>3, <3>4, <4>1
    <3>6. at'[t] = "called"
      BY <2>4 DEF Goes, IInv, Typed
    <3>7. Replaced(t, n, n)' /\ n \in 0 .. 3
      <4>1. template = Mix(n, arg[t], current) /\ reg[t] = Read(n, current)
        BY <3>1 DEF Replaced
      <4>2. template' = Mix(n, arg'[t], current') /\ reg'[t] = Read(n, current')
        BY <1>2, <2>1, <2>4, <4>1
      <4>3. prtemplate' = Mix(n, current', previous')
        BY <2>1, <3>2, <3>5
      <4> QED
        BY <4>2, <4>3 DEF Replaced
    <3>8. t \in RunningOn("template")'
      BY <1>1, <3>6, ChangesOf DEF RunningOn, Running, Moves, Writers
    <3>9. ~In(t, "settst_r", "save")' /\ ~In(t, "settst", "called")'
      BY <1>1, <3>6 DEF In, Moves
    <3>10. ASSUME NEW u \in Threads
           PROVE  /\ In(u, "settst", "called")' => \E k \in 0 .. 3 : Replaced(u, k, 0)'
                  /\ In(u, "settst_r", "called")' => \E k \in 0 .. 3 : Replaced(u, k, k)'
                  /\ In(u, "settst_r", "save")' => \E k \in 1 .. 3 : Replaced(u, k, k - 1)'
      BY <2>2, <3>7, <3>9 DEF Writers
    <3> QED
      BY <3>8, <3>10 DEF TemplateOwned
  <2> QED
    BY <2>3, <2>4 DEF tcp_settst_r
<1> QED
  BY <1>1, <1>2, <1>3, TemplateStepKeeps DEF IInv, Typed, AnyTemplate, ghosts, Writers

(* With all fields replaced the template is the argument.                  *)
LEMMA SettstReturnsKeepsIInv ==
  ASSUME IInv, NEW t \in Threads, SettstReturns(t)
  PROVE  IInv'
<1>1. Moves(t) /\ op[t] \in Writers /\ at[t] = "called" /\ at'[t] = "returned"
  BY TemplateCallMoves DEF IInv, SettstReturns, In, Goes, Typed, Writers
<1>2. arg[t] \in AnyTemplate /\ current \in AnyTemplate /\ previous \in AnyTemplate
  <2>1. Placed(t)
    BY DEF IInv, Typed
  <2> QED
    BY <1>1, <2>1 DEF Placed, Args, Writers, AnyTemplate, IInv, Typed
<1>3. /\ UNCHANGED <<opts, groups, reg, wanted, ctx, prctx, last, member>>
      /\ current' = arg[t] /\ previous' = IF op[t] = "settst_r" THEN current ELSE previous
      /\ Len(reg[t]) = 3
  BY FieldOf DEF SettstReturns, Filled
<1>4. TemplateOwned'
  <2> SUFFICES ASSUME "template" \notin raced'
               PROVE  TemplateOwned'
    BY DEF TemplateOwned
  <2>1. "template" \notin raced
    BY <1>1 DEF Moves
  <2>2. \A u \in Threads, w \in Writers : \A place :
              place # "returned" /\ In(u, w, place)' => u = t
    BY <1>1, <2>1, TemplateAlone
  <2>3. template = arg[t] /\ prtemplate = (IF op[t] = "settst_r" THEN current ELSE previous)
    <3>1. CASE op[t] = "settst"
      <4>1. PICK n \in 0 .. 3 : Replaced(t, n, 0)
        BY <1>1, <2>1, <3>1 DEF IInv, TemplateOwned, In
      <4>2. n = 3
        BY <1>3, <4>1, ReadLen DEF Replaced
      <4> QED
        BY <1>2, <3>1, <4>1, <4>2, MixEnds DEF Replaced
    <3>2. CASE op[t] = "settst_r"
      <4>1. PICK n \in 0 .. 3 : Replaced(t, n, n)
        BY <1>1, <2>1, <3>2 DEF IInv, TemplateOwned, In
      <4>2. n = 3
        BY <1>3, <4>1, ReadLen DEF Replaced
      <4> QED
        BY <1>2, <3>2, <4>1, <4>2, MixEnds DEF Replaced
    <3> QED
      BY <1>1, <3>1, <3>2 DEF Writers
  <2>4. template' = current' /\ prtemplate' = previous'
    BY <1>3, <2>3 DEF opts
  <2>5. \A u \in Threads, w \in Writers : ~In(u, w, "called")' /\ ~In(u, w, "save")'
    BY <1>1, <2>2 DEF In
  <2> QED
    BY <2>4, <2>5 DEF TemplateOwned, Writers
<1> QED
  BY <1>1, <1>2, <1>3, <1>4, TemplateStepKeeps DEF opts

-----------------------------------------------------------------------------
(* Readers of the template: tcp_gettst and tcp_write.                      *)
LEMMA ReaderStepKeeps ==
  ASSUME IInv, NEW t \in Threads, Moves(t), op[t] \in Readers,
         UNCHANGED <<opts, groups, ghosts>>, Placed(t)',
         template = saw[t] /\ Reading(t) => Reading(t)'
  PROVE  IInv'
<1> USE DEF IInv
<1>1. Typed'
  <2>1. GroupTyped' /\ mreq' = mreq
    BY GroupTypedSame DEF ghosts
  <2>2. attr' \subseteq Flags(kind) /\ wanted' \subseteq Flags(kind) /\ bcast' \in BOOLEAN
        /\ current' \in AnyTemplate /\ previous' \in AnyTemplate
    BY DEF Typed, TypeOK, groups, opts, ghosts, AnyTemplate
  <2> QED
    BY <2>1, <2>2, TypedMoves DEF AnyTemplate
<1>2. \A c \in Classes : Sole(c)'
  BY SoleMoves
<1>3. TemplateOwned'
  BY TemplateMoves DEF Readers, Writers, opts, ghosts
<1>4. AttrOwned'
  BY AttrMoves DEF Readers, opts, groups, ghosts
<1>5. ContextOwned'
  BY ContextMoves DEF Readers, opts, ghosts
<1>6. GroupOwned'
  BY GroupMoves DEF Readers, ghosts
<1>7. ReadsStill'
  <2> SUFFICES ASSUME NEW u \in Threads, (op[u] \in Readers /\ Undisturbed(u))'
               PROVE  (u \in Running => RunningOn("template") = {} /\ saw[u] = current)' /\ Reading(u)'
    BY DEF ReadsStill
  <2>1. op[u] \in Readers /\ Undisturbed(u) /\ current' = current /\ saw' = saw
    BY DEF Moves, Undisturbed, ghosts
  <2>2. (u \in Running => RunningOn("template") = {} /\ saw[u] = current) /\ Reading(u)
    BY <2>1 DEF ReadsStill
  <2>3. t \in Running
    BY DEF Running, Moves
  <2>4. RunningOn("template")' \subseteq RunningOn("template")
    BY DEF RunningOn, Running, Moves
  <2>5. u \in Running' => u \in Running
    BY <2>3 DEF Running, Moves
  <2>6. Reading(u)'
    <3>1. CASE u = t
      <4>1. template = current
        BY <2>1, <2>2, <2>3, <3>1 DEF TemplateOwned, Undisturbed
      <4> QED
        BY <2>2, <2>3, <3>1, <4>1
    <3>2. CASE u # t
      BY <2>2, <3>2 DEF Reading, Moves, In, Read
    <3> QED
      BY <3>1, <3>2
  <2> QED
    BY <2>1, <2>2, <2>4, <2>5, <2>6
<1> QED
  BY <1>1, <1>2, <1>3, <1>4, <1>5, <1>6, <1>7

(* A reader is not in a place Placed speaks of, but for its argument.      *)
LEMMA ReaderPlaced ==
  ASSUME Typed, NEW t \in Threads, Moves(t), op[t] \in Readers, UNCHANGED groups,
         op[t] = "write" => at'[t] # "called"
  PROVE  Placed(t)'
<1>1. Placed(t)
  BY DEF Typed
<1> QED
  BY <1>1 DEF Placed, Moves, In, Args, Flags, Readers, groups

(* tcp_gettst reads a field.                                               *)
LEMMA GettstKeepsIInv ==
  ASSUME IInv, NEW t \in Threads, tcp_gettst(t)
  PROVE  IInv'
<1>1. Moves(t) /\ op[t] = "gettst" /\ at[t] = "called" /\ UNCHANGED <<opts, groups, ghosts>>
      /\ saw' = saw /\ op' = op
  BY TemplateCallMoves DEF IInv, tcp_gettst, In, Moves
<1>2. Placed(t)'
  BY <1>1, ReaderPlaced DEF IInv, Readers
<1>3. ASSUME template = saw[t], Reading(t)
      PROVE  Reading(t)'
  <2> DEFINE p == saw[t]
  <2>1. PICK n \in 0 .. 2 : reg[t] = Read(n, p)
    BY <1>1, <1>3 DEF Reading, In
  <2>2. Len(reg[t]) = n
    <3>1. n \in 0 .. 3
      OBVIOUS
    <3>2. Len(Read(n, p)) = n
      BY <3>1, ReadLen
    <3> QED
      BY <2>1, <3>2
  <2>3. Field(t) = Fields[n + 1]
    BY <2>2 DEF Field
  <2>4. reg'[t] = Append(Read(n, p), p[Fields[n + 1]])
    BY <1>3, <2>1, <2>3 DEF tcp_gettst, Keeps, IInv, Typed
  <2>5. reg'[t] = Read(n + 1, p)
    BY <2>4, ReadGrows
  <2>6. at'[t] = IF n = 2 THEN "returned" ELSE "called"
    BY <2>2 DEF tcp_gettst, Goes, IInv, Typed
  <2>7. n # 2 => n + 1 \in 0 .. 2
    OBVIOUS
  <2>8. n = 2 => n + 1 = 3
    OBVIOUS
  <2>9. saw'[t] = p /\ op'[t] = "gettst"
    BY <1>1
  <2> HIDE DEF p
  <2> QED
    BY <2>5, <2>6, <2>7, <2>8, <2>9 DEF Reading, In
<1> QED
  BY <1>1, <1>2, <1>3, ReaderStepKeeps DEF Readers

(* A step of tcp_write that goes on from what it has.                      *)
LEMMA WriteStepKeeps ==
  ASSUME IInv, NEW t \in Threads, Moves(t), op[t] = "write", at'[t] # "called",
         UNCHANGED <<opts, groups, ghosts>>,
         template = saw[t] /\ Reading(t) => Reading(t)'
  PROVE  IInv'
<1>1. Placed(t)'
  BY ReaderPlaced DEF IInv, Readers
<1> QED
  BY <1>1, ReaderStepKeeps DEF Readers

(* The same where the step adds one value to what the call has.            *)
LEMMA WritesKeepsIInv ==
  ASSUME IInv, NEW t \in Threads, Moves(t), NEW from, NEW to, NEW v, to # "called",
         Writes(t, from, to, v),
         ASSUME template = saw[t], Reading(t), saw' = saw,
                op'[t] = "write", op[t] = "write", at[t] = from, at'[t] = to,
                reg'[t] = Append(reg[t], v)
         PROVE  Reading(t)'
  PROVE  IInv'
<1>1. /\ op'[t] = "write" /\ op[t] = "write" /\ at[t] = from /\ at'[t] = to
      /\ reg'[t] = Append(reg[t], v) /\ saw' = saw /\ UNCHANGED <<opts, groups, ghosts>>
  BY DEF Writes, In, Goes, Keeps, IInv, Typed, Moves
<1>2. template = saw[t] /\ Reading(t) => Reading(t)'
  BY <1>1
<1> QED
  BY <1>1, <1>2, WriteStepKeeps

(* The steps of tcp_write.                                                 *)
LEMMA WriteKeepsIInv ==
  ASSUME IInv, NEW t \in Threads, tcp_write(t)
  PROVE  IInv'
<1>0. Moves(t)
  BY WriteMoves DEF IInv
<1>1. CASE WriteTest(t)
  <2>1. CASE template.builder = Unset /\ Writes(t, "called", "plain", "plain")
    BY <1>0, <2>1, Append0, WritesKeepsIInv DEF Reading, In
  <2>2. CASE template.builder # Unset /\ In(t, "write", "called") /\ Goes(t, "attr")
             /\ UNCHANGED <<opts, groups, reg, ghosts>>
    <3>1. op'[t] = "write" /\ op[t] = "write" /\ at[t] = "called" /\ at'[t] = "attr"
          /\ reg'[t] = reg[t] /\ saw' = saw
      BY <1>0, <2>2 DEF In, Goes, IInv, Typed, Moves
    <3>2. template = saw[t] /\ Reading(t) => Reading(t)'
      BY <2>2, <3>1 DEF Reading, In
    <3> QED
      BY <1>0, <2>2, <3>1, <3>2, WriteStepKeeps
  <2> QED
    BY <1>1, <2>1, <2>2 DEF WriteTest
<1>2. CASE WriteAttr(t)
  <2>1. CASE Writes(t, "attr", "plain", "plain")
    BY <1>0, <2>1, Append0, WritesKeepsIInv DEF Reading, In
  <2>2. CASE Writes(t, "attr", "build", "build")
    BY <1>0, <2>2, Append0, WritesKeepsIInv DEF Reading, In
  <2> QED
    BY <1>2, <2>1, <2>2 DEF WriteAttr
<1>3. CASE WritePlain(t)
  <2>1. op'[t] = "write" /\ op[t] = "write" /\ at[t] = "plain" /\ at'[t] = "wcb"
        /\ reg'[t] = reg[t] \o <<1, Unset, 0>> /\ saw' = saw
    BY <1>0, <1>3 DEF In, Goes, IInv, Typed, Moves, WritePlain, UserLength
  <2>2. <<"plain">> \o <<1, Unset, 0>> = <<"plain", 1, Unset, 0>>
    BY PlainFrame
  <2>3. template = saw[t] /\ Reading(t) => Reading(t)'
    BY <2>1, <2>2 DEF Reading, In
  <2> QED
    BY <1>0, <1>3, <2>1, <2>3, WriteStepKeeps DEF WritePlain
<1>4. CASE WriteMalloc(t)
  BY <1>0, <1>4, Append1, WritesKeepsIInv DEF Reading, In, WriteMalloc, UserLength
<1>5. CASE WriteBuilder(t)
  <2>1. ASSUME template = saw[t], Reading(t), saw' = saw,
               op'[t] = "write", op[t] = "write", at[t] = "builder", at'[t] = "copy",
               reg'[t] = Append(reg[t], template.builder)
        PROVE  Reading(t)'
    <3>1. reg[t] = <<"build", 1 + saw[t].cb>> /\ saw[t].builder # Unset
      BY <2>1 DEF Reading, In
    <3>2. Append(<<"build", 1 + saw[t].cb>>, saw[t].builder) = <<"build", 1 + saw[t].cb, saw[t].builder>>
      BY Append2
    <3>3. reg'[t] = <<"build", 1 + saw[t].cb, saw[t].builder>>
      BY <2>1, <3>1, <3>2
    <3> QED
      BY <2>1, <3>1, <3>3 DEF Reading, In
  <2> QED
    BY <1>0, <1>5, <2>1, WritesKeepsIInv DEF WriteBuilder
<1>6. CASE WriteCopy(t)
  <2>1. ASSUME template = saw[t], Reading(t), saw' = saw,
               op'[t] = "write", op[t] = "write", at[t] = "copy", at'[t] = "wcb",
               reg'[t] = Append(reg[t], template.cb)
        PROVE  Reading(t)'
    <3>1. reg[t] = <<"build", 1 + saw[t].cb, saw[t].builder>> /\ saw[t].builder # Unset
      BY <2>1 DEF Reading, In
    <3>2. Append(<<"build", 1 + saw[t].cb, saw[t].builder>>, saw[t].cb)
            = <<"build", 1 + saw[t].cb, saw[t].builder, saw[t].cb>>
      BY Append3
    <3>3. reg'[t] = <<"build", 1 + saw[t].cb, saw[t].builder, saw[t].cb>>
      BY <2>1, <3>1, <3>2
    <3> QED
      BY <2>1, <3>1, <3>3 DEF Reading, In
  <2> QED
    BY <1>0, <1>6, <2>1, WritesKeepsIInv DEF WriteCopy
<1>7. CASE WriteWcb(t)
  <2>1. ASSUME template = saw[t], Reading(t), saw' = saw,
               op'[t] = "write", op[t] = "write", at[t] = "wcb", at'[t] = "returned",
               reg'[t] = Append(reg[t], 1 + template.cb)
        PROVE  Reading(t)'
    <3> DEFINE p == saw[t]
               built == <<"build", 1 + p.cb, p.builder, p.cb>>
    <3>1. CASE reg[t] = <<"plain", 1, Unset, 0>>
      <4>1. Append(<<"plain", 1, Unset, 0>>, 1 + p.cb) = <<"plain", 1, Unset, 0, 1 + p.cb>>
        BY Append4
      <4>2. reg'[t] = <<"plain", 1, Unset, 0, 1 + p.cb>>
        BY <2>1, <3>1, <4>1
      <4> QED
        BY <2>1, <4>2 DEF Reading, In
    <3>2. CASE reg[t] = built /\ p.builder # Unset
      <4>1. Append(built, 1 + p.cb) = <<"build", 1 + p.cb, p.builder, p.cb, 1 + p.cb>>
        BY Append4
      <4>2. reg'[t] = <<"build", 1 + p.cb, p.builder, p.cb, 1 + p.cb>>
        BY <2>1, <3>2, <4>1
      <4> QED
        BY <2>1, <3>2, <4>2 DEF Reading, In
    <3> QED
      BY <2>1, <3>1, <3>2 DEF Reading, In
  <2> QED
    BY <1>0, <1>7, <2>1, WritesKeepsIInv DEF WriteWcb, UserLength
<1> QED
  BY <1>1, <1>2, <1>3, <1>4, <1>5, <1>6, <1>7 DEF tcp_write

-----------------------------------------------------------------------------
(* Attributes, context and group.                                          *)
LEMMA Alone ==
  ASSUME NEW c, Sole(c), NEW t \in Threads, at[t] # "returned", c \in Changes(op[t]),
         c \notin raced
  PROVE  \A u \in Threads : u # t /\ c \in Changes(op[u]) => at[u] = "returned"
BY DEF Sole, RunningOn, Running

(* A step of a call that changes the attributes.                           *)
LEMMA AttrStepKeeps ==
  ASSUME IInv, NEW t \in Threads, Moves(t), op[t] \in {"setattr", "setattr_r"},
         UNCHANGED <<template, prtemplate, context, prcontext, blocks, mreq, joined,
                     current, previous, ctx, prctx, last, member>>,
         attr' \subseteq Flags(kind), wanted' \subseteq Flags(kind), bcast' \in BOOLEAN,
         AttrOwned', Placed(t)'
  PROVE  IInv'
<1> USE DEF IInv
<1>1. Typed'
  <2>1. GroupTyped' /\ mreq' = mreq
    BY DEF Typed, TypeOK, Moves, GroupTyped
  <2>2. current' \in Templates \cup {NoTemplate} /\ previous' \in Templates \cup {NoTemplate}
    BY DEF Typed
  <2> QED
    BY <2>1, <2>2, TypedMoves
<1>2. \A c \in Classes : Sole(c)'
  BY SoleMoves
<1>3. TemplateOwned'
  BY TemplateMoves DEF Writers
<1>4. ReadsStill'
  BY ReadsMoves DEF Readers
<1>5. ContextOwned'
  BY ContextMoves
<1>6. GroupOwned'
  <2>1. ASSUME NEW u \in Threads, op[u] \in {"join", "drop"}
        PROVE  at'[u] = at[u] /\ op'[u] = op[u] /\ arg'[u] = arg[u]
    BY <2>1 DEF Moves
  <2>2. raced' = raced /\ op' = op
    BY DEF Moves
  <2> QED
    BY <2>1, <2>2 DEF GroupOwned, In
<1> QED
  BY <1>1, <1>2, <1>3, <1>4, <1>5, <1>6

(* tcp_setattr, and NI_SETATTR with udp_setattr_r.                         *)
LEMMA SetattrKeepsIInv ==
  ASSUME IInv, NEW t \in Threads, tcp_setattr(t) \/ udp_setattr_r(t)
  PROVE  IInv'
<1>1. Moves(t) /\ op[t] \in {"setattr", "setattr_r"}
  BY SettingMoves DEF IInv, nis_cntl, tcp_setattr, udp_setattr_r, Setattr, SetattrLoad,
                      SetBroadcast, In
<1>2. /\ Placed(t) /\ op[t] \in Ops(kind) /\ kind \in {"tcp", "udp"} /\ bcast \in BOOLEAN
      /\ attr \subseteq Flags(kind) /\ wanted \subseteq Flags(kind)
  <2>1. op[t] \in Ops(kind)
    BY <1>1 DEF IInv, Typed
  <2> QED
    BY <2>1 DEF IInv, Typed, TypeOK
<1>3. op' = op /\ arg' = arg /\ kind' = kind /\ raced' = raced /\ Flags(kind)' = Flags(kind)
      /\ \A u \in Threads : u # t => at'[u] = at[u] /\ reg'[u] = reg[u]
  BY <1>1 DEF Moves, Flags
<1>4. "attr" \notin raced => \A u \in Threads :
        u # t /\ op[u] \in {"setattr", "setattr_r"} => at[u] = "returned"
  BY <1>1, Alone, ChangesOf DEF IInv, Classes, Moves
<1>5. op[t] = "setattr" => kind = "tcp"
  BY <1>2 DEF Ops
<1>6. "attr" \notin raced => /\ attr = wanted
                             /\ In(t, "setattr", "store") => reg[t] = <<attr>>
                             /\ In(t, "setattr_r", "bcast") => reg[t] = <<attr>>
                             /\ kind = "udp" /\ (\A u \in RunningOn("attr") : at[u] = "called")
                                  => bcast = ("BROADCAST" \in attr)
  BY DEF IInv, AttrOwned
<1>7. /\ In(t, "setattr", "called") \/ In(t, "setattr_r", "called") \/ In(t, "setattr_r", "load")
           => reg[t] = << >>
      /\ In(t, "setattr", "called") \/ In(t, "setattr", "store") => arg[t] \in Flags(kind) \X BOOLEAN
      /\ op[t] = "setattr_r" => arg[t] \in SUBSET Flags(kind)
      /\ In(t, "setattr", "store") => \E a \in SUBSET Flags(kind) : reg[t] = <<a>>
      /\ arg[t] \in Args(op[t]) /\ Args(op[t])' = Args(op[t])
  BY <1>1, <1>2, <1>3 DEF Placed, In, Args
<1>8. at'[t] # "returned" => t \in RunningOn("attr")'
  BY <1>1, <1>3, ChangesOf DEF RunningOn, Running
<1>9. CASE In(t, "setattr", "called") /\ tcp_setattr(t)
  <2>1. /\ at'[t] = "store" /\ reg'[t] = <<attr>>
        /\ UNCHANGED <<attr, wanted, template, prtemplate, context, prcontext, groups,
                       current, previous, ctx, prctx, last, member>>
    <3>1. at' = [at EXCEPT ![t] = "store"] /\ reg' = [reg EXCEPT ![t] = Append(@, attr)]
      BY <1>9 DEF tcp_setattr, In, Goes, Keeps
    <3>2. reg[t] = << >> /\ Append(<< >>, attr) = <<attr>>
      BY <1>7, <1>9, Append0
    <3> QED
      BY <1>9, <3>1, <3>2 DEF tcp_setattr, In, IInv, Typed
  <2>2. Placed(t)'
    BY <1>2, <1>3, <1>7, <1>9, <2>1 DEF Placed, In
  <2>3. AttrOwned'
    BY <1>3, <1>4, <1>5, <1>6, <1>9, <2>1 DEF AttrOwned, In
  <2> QED
    BY <1>1, <1>2, <2>1, <2>2, <2>3, AttrStepKeeps DEF groups
<1>10. CASE In(t, "setattr", "store") /\ tcp_setattr(t)
  <2>1. /\ at'[t] = "returned" /\ reg' = reg
        /\ attr' = Flagged(arg[t], reg[t][1])
        /\ wanted' = IF arg[t][2] THEN wanted \cup {arg[t][1]} ELSE wanted \ {arg[t][1]}
        /\ UNCHANGED <<template, prtemplate, context, prcontext, groups,
                       current, previous, ctx, prctx, last, member>>
    BY <1>10 DEF tcp_setattr, In, Goes, IInv, Typed
  <2>2. arg[t][1] \in Flags(kind) /\ reg[t][1] \subseteq Flags(kind)
    BY <1>7, <1>10
  <2>3. attr' \subseteq Flags(kind) /\ wanted' \subseteq Flags(kind)
    BY <1>2, <2>1, <2>2 DEF Flagged
  <2>4. Placed(t)'
    BY <1>2, <1>3, <1>7, <1>10, <2>1 DEF Placed, In
  <2>5. "attr" \notin raced => attr' = wanted'
    <3>1. ASSUME "attr" \notin raced PROVE reg[t][1] = wanted
      <4>1. reg[t] = <<attr>> /\ attr = wanted
        BY <1>6, <1>10, <3>1
      <4> QED
        BY <4>1
    <3> QED
      BY <2>1, <3>1 DEF Flagged
  <2>6. AttrOwned'
    BY <1>3, <1>4, <1>5, <1>10, <2>1, <2>5 DEF AttrOwned, In
  <2> QED
    BY <1>1, <1>2, <2>1, <2>3, <2>4, <2>6, AttrStepKeeps DEF groups
<1>11. CASE Setattr(t)
  <2>1. /\ op[t] = "setattr_r" /\ at[t] = "called" /\ reg' = reg
        /\ at'[t] = IF kind = "tcp" THEN "returned" ELSE "load"
        /\ attr' = arg[t] /\ wanted' = arg[t]
        /\ UNCHANGED <<template, prtemplate, context, prcontext, groups,
                       current, previous, ctx, prctx, last, member>>
    BY <1>11 DEF Setattr, In, Goes, IInv, Typed
  <2>2. Placed(t)'
    BY <1>2, <1>3, <1>7, <2>1 DEF Placed, In
  <2>3. kind = "udp" => \E u \in RunningOn("attr")' : at'[u] # "called"
    BY <1>8, <2>1
  <2>4. AttrOwned'
    BY <1>2, <1>3, <1>4, <2>1, <2>3 DEF AttrOwned, In
  <2> QED
    BY <1>1, <1>2, <1>7, <2>1, <2>2, <2>4, AttrStepKeeps DEF groups
<1>12. CASE SetattrLoad(t)
  <2>1. /\ op[t] = "setattr_r" /\ at[t] = "load" /\ at'[t] = "bcast" /\ reg'[t] = <<attr>>
        /\ UNCHANGED <<opts, groups, ghosts>>
    <3>1. at' = [at EXCEPT ![t] = "bcast"] /\ reg' = [reg EXCEPT ![t] = Append(@, attr)]
      BY <1>12 DEF SetattrLoad, Goes, Keeps
    <3>2. reg[t] = << >> /\ Append(<< >>, attr) = <<attr>>
      BY <1>7, <1>12, Append0 DEF SetattrLoad
    <3> QED
      BY <1>12, <3>1, <3>2 DEF SetattrLoad, In, IInv, Typed
  <2>2. Placed(t)'
    BY <1>2, <1>3, <1>7, <2>1 DEF Placed, In
  <2>3. \E u \in RunningOn("attr")' : at'[u] # "called"
    BY <1>8, <2>1
  <2>4. AttrOwned'
    BY <1>3, <1>4, <1>6, <2>1, <2>3 DEF AttrOwned, In, opts, ghosts
  <2> QED
    BY <1>1, <1>2, <2>1, <2>2, <2>4, AttrStepKeeps DEF opts, groups, ghosts
<1>13. CASE SetBroadcast(t)
  <2>1. /\ op[t] = "setattr_r" /\ at[t] = "bcast" /\ at'[t] = "returned" /\ reg' = reg
        /\ bcast' = ("BROADCAST" \in reg[t][1])
        /\ UNCHANGED <<opts, blocks, mreq, joined, ghosts>>
    BY <1>13 DEF SetBroadcast, In, Goes, IInv, Typed
  <2>2. Placed(t)'
    BY <1>2, <1>3, <1>7, <2>1 DEF Placed, In
  <2>3. "attr" \notin raced => bcast' = ("BROADCAST" \in attr)
    <3>1. ASSUME "attr" \notin raced PROVE reg[t][1] = attr
      <4>1. reg[t] = <<attr>>
        BY <1>6, <2>1, <3>1 DEF In
      <4> QED
        BY <4>1
    <3> QED
      BY <2>1, <3>1
  <2>4. AttrOwned'
    BY <1>3, <1>4, <1>6, <2>1, <2>3 DEF AttrOwned, In, opts, ghosts
  <2>5. bcast' \in BOOLEAN
    BY <2>1
  <2> QED
    BY <1>1, <1>2, <2>1, <2>2, <2>4, <2>5, AttrStepKeeps DEF opts, ghosts
<1> QED
  BY <1>9, <1>10, <1>11, <1>12, <1>13 DEF tcp_setattr, udp_setattr_r

(* A step of a call that changes the context.                              *)
LEMMA ContextStepKeeps ==
  ASSUME IInv, NEW t \in Threads, Moves(t), op[t] \in {"setctx", "getctx"},
         at'[t] \in {"save", "returned"},
         UNCHANGED <<template, prtemplate, attr, groups, current, previous, wanted, last, member>>,
         ContextOwned'
  PROVE  IInv'
<1> USE DEF IInv
<1>1. Placed(t)'
  <2>1. Placed(t)
    BY DEF Typed
  <2> QED
    BY <2>1 DEF Placed, Moves, In, Args, Flags
<1>2. Typed'
  <2>1. GroupTyped' /\ mreq' = mreq
    BY GroupTypedSame
  <2>2. /\ attr' \subseteq Flags(kind) /\ wanted' \subseteq Flags(kind) /\ bcast' \in BOOLEAN
        /\ current' \in Templates \cup {NoTemplate} /\ previous' \in Templates \cup {NoTemplate}
    BY DEF Typed, TypeOK, groups
  <2> QED
    BY <1>1, <2>1, <2>2, TypedMoves
<1>3. \A c \in Classes : Sole(c)'
  BY SoleMoves
<1>4. TemplateOwned'
  BY TemplateMoves DEF Writers
<1>5. ReadsStill'
  BY ReadsMoves DEF Readers
<1>6. AttrOwned'
  BY AttrMoves DEF groups
<1>7. GroupOwned'
  BY GroupMoves
<1> QED
  BY <1>2, <1>3, <1>4, <1>5, <1>6, <1>7

(* NI_SETCTX and NI_GETCTX.                                                *)
LEMMA ContextKeepsIInv ==
  ASSUME IInv, NEW t \in Threads, SetCtx(t) \/ GetCtx(t) \/ SaveCtx(t)
  PROVE  IInv'
<1>1. Moves(t) /\ op[t] \in {"setctx", "getctx"}
  BY SettingMoves DEF IInv, nis_cntl, SetCtx, GetCtx, SaveCtx, In
<1>2. Placed(t)
  BY DEF IInv, Typed
<1>3. op' = op /\ arg' = arg /\ raced' = raced
      /\ \A u \in Threads : u # t => at'[u] = at[u] /\ reg'[u] = reg[u]
  BY <1>1 DEF Moves
<1>4. "context" \notin raced => \A u \in Threads :
        u # t /\ op[u] \in {"setctx", "getctx"} => at[u] = "returned"
  BY <1>1, Alone, ChangesOf DEF IInv, Classes, Moves
<1>5. "context" \notin raced =>
        /\ ~In(t, "setctx", "save") => context = ctx
        /\ prcontext = prctx
        /\ In(t, "setctx", "save") => context = arg[t] /\ reg[t] = <<ctx>>
        /\ In(t, "getctx", "save") => reg[t] = <<Unset>>
  BY <1>4 DEF IInv, ContextOwned, In
<1>6. at[t] = "called" => reg[t] = << >>
  BY <1>1, <1>2 DEF Placed
<1>7. CASE SetCtx(t)
  <2>1. /\ op[t] = "setctx" /\ at[t] = "called" /\ at'[t] = "save" /\ context' = arg[t]
        /\ reg'[t] = <<context>>
        /\ UNCHANGED <<template, prtemplate, attr, prcontext, groups, ghosts>>
    <3>1. Append(<< >>, context) = <<context>>
      BY Append0
    <3> QED
      BY <1>6, <1>7, <3>1 DEF SetCtx, In, Goes, Keeps, IInv, Typed
  <2>2. ContextOwned'
    BY <1>3, <1>4, <1>5, <2>1 DEF ContextOwned, In, ghosts
  <2> QED
    BY <1>1, <2>1, <2>2, ContextStepKeeps DEF ghosts
<1>8. CASE GetCtx(t)
  <2>1. /\ op[t] = "getctx" /\ at[t] = "called" /\ at'[t] = "save" /\ reg'[t] = <<Unset>>
        /\ UNCHANGED <<opts, groups, ghosts>>
    <3>1. Append(<< >>, Unset) = <<Unset>>
      BY Append0
    <3> QED
      BY <1>6, <1>8, <3>1 DEF GetCtx, In, Goes, Keeps, IInv, Typed
  <2>2. ContextOwned'
    BY <1>3, <1>4, <1>5, <2>1 DEF ContextOwned, In, ghosts, opts
  <2> QED
    BY <1>1, <2>1, <2>2, ContextStepKeeps DEF ghosts, opts
<1>9. CASE SaveCtx(t)
  <2>1. /\ at[t] = "save" /\ at'[t] = "returned" /\ prcontext' = reg[t][1]
        /\ prctx' = (IF op[t] = "setctx" THEN ctx ELSE Unset)
        /\ ctx' = (IF op[t] = "setctx" THEN arg[t] ELSE ctx)
        /\ UNCHANGED <<template, prtemplate, attr, context, groups, reg,
                       current, previous, wanted, last, member>>
    BY <1>9 DEF SaveCtx, In, Goes, IInv, Typed
  <2>2. ASSUME "context" \notin raced PROVE prcontext' = prctx' /\ context' = ctx'
    <3>1. CASE op[t] = "setctx"
      BY <1>5, <2>1, <2>2, <3>1 DEF In
    <3>2. CASE op[t] = "getctx"
      BY <1>5, <2>1, <2>2, <3>2 DEF In
    <3> QED
      BY <1>1, <3>1, <3>2
  <2>3. ContextOwned'
    BY <1>3, <1>4, <2>1, <2>2 DEF ContextOwned, In
  <2> QED
    BY <1>1, <2>1, <2>3, ContextStepKeeps
<1> QED
  BY <1>7, <1>8, <1>9

(* A step of a call that changes the group.                                *)
LEMMA GroupStepKeeps ==
  ASSUME IInv, NEW t \in Threads, Moves(t), op[t] \in {"join", "drop"},
         UNCHANGED <<opts, bcast, current, previous, wanted, ctx, prctx>>,
         GroupTyped', mreq # 0 => mreq' # 0, Placed(t)', GroupOwned'
  PROVE  IInv'
<1> USE DEF IInv
<1>1. Typed'
  <2>1. /\ attr' \subseteq Flags(kind) /\ wanted' \subseteq Flags(kind) /\ bcast' \in BOOLEAN
        /\ current' \in Templates \cup {NoTemplate} /\ previous' \in Templates \cup {NoTemplate}
    BY DEF Typed, TypeOK, opts
  <2> QED
    BY <2>1, TypedMoves
<1>2. \A c \in Classes : Sole(c)'
  BY SoleMoves
<1>3. TemplateOwned'
  BY TemplateMoves DEF Writers, opts
<1>4. ReadsStill'
  BY ReadsMoves DEF Readers
<1>5. AttrOwned'
  BY AttrMoves DEF opts
<1>6. ContextOwned'
  BY ContextMoves DEF opts
<1> QED
  BY <1>1, <1>2, <1>3, <1>4, <1>5, <1>6

(* udp_joingrp and udp_dropgrp.                                            *)
LEMMA GroupKeepsIInv ==
  ASSUME IInv, NEW t \in Threads, udp_joingrp(t) \/ udp_dropgrp(t)
  PROVE  IInv'
<1>1. Moves(t) /\ op[t] \in {"join", "drop"}
  BY GroupCallMoves DEF IInv, udp_joingrp, udp_dropgrp, JoinRefused, JoinBegins, JoinMalloc,
       JoinFill, JoinAdd, DropRefused, DropBegins, DropMember, GroupStep, In
<1>2. Placed(t) /\ GroupTyped /\ (mreq = 0 => blocks = << >>)
  BY DEF IInv, Typed, TypeOK, GroupTyped
<1>3. op' = op /\ arg' = arg /\ raced' = raced /\ kind' = kind
      /\ \A u \in Threads : u # t => at'[u] = at[u] /\ reg'[u] = reg[u]
  BY <1>1 DEF Moves
<1>4. "group" \notin raced => \A u \in Threads :
        u # t /\ op[u] \in {"join", "drop"} => at[u] = "returned"
  BY <1>1, Alone, ChangesOf DEF IInv, Classes, Moves
<1>5. op[t] = "join" => arg[t] \in Groups
  BY <1>2 DEF Placed, Args
<1>6. "group" \notin raced =>
        /\ joined = member /\ (mreq # 0 => last \in Groups)
        /\ In(t, "join", "malloc") => mreq = 0 /\ last = arg[t]
        /\ In(t, "join", "fill") \/ In(t, "join", "add") => last = arg[t]
        /\ ~In(t, "join", "malloc") /\ ~In(t, "join", "fill") /\ mreq # 0 => blocks[mreq] = last
  BY <1>4 DEF IInv, GroupOwned, In
<1>7. ASSUME NEW to, at'[t] = to, reg' = reg, to # "called",
             to \in {"fill", "add", "drop"} => mreq' # 0
      PROVE  Placed(t)'
  BY <1>1, <1>2, <1>3, <1>7 DEF Placed, In, Args, Flags
<1>8. ASSUME NEW to, at'[t] = to,
             "group" \notin raced =>
               /\ joined' = member' /\ (mreq' # 0 => last' \in Groups)
               /\ op[t] = "join" /\ to = "malloc" => mreq' = 0
               /\ op[t] = "join" /\ to \in {"malloc", "fill", "add"} => last' = arg[t]
               /\ mreq' # 0 /\ ~(op[t] = "join" /\ to \in {"malloc", "fill"}) => blocks'[mreq'] = last'
      PROVE  GroupOwned'
  BY <1>1, <1>3, <1>4, <1>8 DEF GroupOwned, In
<1>9. ASSUME NEW o, NEW from, NEW to, GroupStep(t, o, from, to)
      PROVE  /\ op[t] = o /\ at[t] = from /\ at'[t] = to
             /\ UNCHANGED <<opts, bcast, current, previous, wanted, ctx, prctx>>
  BY <1>9 DEF GroupStep, In, Goes, IInv, Typed
<1>10. ASSUME UNCHANGED <<blocks, mreq, joined, member>>
       PROVE  GroupTyped'
  BY <1>2, <1>3, <1>10 DEF GroupTyped
<1>11. CASE JoinRefused(t) \/ DropRefused(t)
  <2>1. PICK o : GroupStep(t, o, "called", "returned")
    BY <1>11 DEF JoinRefused, DropRefused
  <2>2. UNCHANGED <<blocks, mreq, joined, reg, last, member>>
    BY <1>11 DEF JoinRefused, DropRefused
  <2>3. at[t] = "called" /\ at'[t] = "returned"
        /\ UNCHANGED <<opts, bcast, current, previous, wanted, ctx, prctx>>
    BY <2>1, <1>9
  <2>4. Placed(t)'
    BY <1>7, <2>2, <2>3
  <2>5. GroupOwned'
    BY <1>6, <1>8, <2>2, <2>3 DEF In
  <2> QED
    BY <1>1, <1>10, <2>2, <2>3, <2>4, <2>5, GroupStepKeeps
<1>12. CASE JoinBegins(t)
  <2> DEFINE to == IF mreq = 0 THEN "malloc" ELSE "fill"
  <2>1. GroupStep(t, "join", "called", to) /\ last' = arg[t]
        /\ UNCHANGED <<blocks, mreq, joined, reg, member>>
    BY <1>12 DEF JoinBegins
  <2>2. op[t] = "join" /\ at[t] = "called" /\ at'[t] = to
        /\ UNCHANGED <<opts, bcast, current, previous, wanted, ctx, prctx>>
    BY <2>1, <1>9
  <2>3. Placed(t)'
    BY <1>7, <2>1, <2>2
  <2>4. GroupOwned'
    BY <1>5, <1>6, <1>8, <2>1, <2>2
  <2> QED
    BY <1>1, <1>10, <2>1, <2>2, <2>3, <2>4, GroupStepKeeps
<1>13. CASE JoinMalloc(t)
  <2>1. CASE GroupStep(t, "join", "malloc", "fill") /\ blocks' = Append(blocks, Unset)
             /\ mreq' = Len(blocks) + 1
    <3>1. op[t] = "join" /\ at[t] = "malloc" /\ at'[t] = "fill"
          /\ UNCHANGED <<opts, bcast, current, previous, wanted, ctx, prctx>>
      BY <2>1, <1>9
    <3>2. UNCHANGED <<joined, reg, last, member>>
      BY <1>13 DEF JoinMalloc
    <3>3. Len(blocks) \in Nat /\ mreq' # 0
      BY <1>2, <2>1 DEF GroupTyped
    <3>4. Placed(t)'
      BY <1>7, <3>1, <3>2, <3>3
    <3>5. GroupTyped'
      <4>1. blocks' \in Seq(Groups \cup {Unset}) /\ Len(blocks') = Len(blocks) + 1
        BY <1>2, <2>1, AppendProperties DEF GroupTyped
      <4>2. "group" \notin raced => Len(blocks) = 0
        BY <1>2, <1>6, <3>1 DEF In
      <4> QED
        BY <1>2, <1>3, <2>1, <3>2, <3>3, <4>1, <4>2 DEF GroupTyped
    <3>6. GroupOwned'
      BY <1>5, <1>6, <1>8, <3>1, <3>2 DEF In
    <3> QED
      BY <1>1, <3>1, <3>3, <3>4, <3>5, <3>6, GroupStepKeeps
  <2>2. CASE GroupStep(t, "join", "malloc", "returned") /\ UNCHANGED <<blocks, mreq>>
    <3>1. op[t] = "join" /\ at[t] = "malloc" /\ at'[t] = "returned"
          /\ UNCHANGED <<opts, bcast, current, previous, wanted, ctx, prctx>>
      BY <2>2, <1>9
    <3>2. UNCHANGED <<joined, reg, last, member>>
      BY <1>13 DEF JoinMalloc
    <3>3. Placed(t)'
      BY <1>7, <3>1, <3>2
    <3>4. GroupOwned'
      BY <1>6, <1>8, <2>2, <3>1, <3>2 DEF In
    <3> QED
      BY <1>1, <1>10, <2>2, <3>1, <3>2, <3>3, <3>4, GroupStepKeeps
  <2> QED
    BY <1>13, <2>1, <2>2 DEF JoinMalloc
<1>14. CASE JoinFill(t)
  <2>1. GroupStep(t, "join", "fill", "add") /\ blocks' = [blocks EXCEPT ![mreq] = arg[t]]
        /\ UNCHANGED <<mreq, joined, reg, last, member>>
    BY <1>14 DEF JoinFill
  <2>2. op[t] = "join" /\ at[t] = "fill" /\ at'[t] = "add"
        /\ UNCHANGED <<opts, bcast, current, previous, wanted, ctx, prctx>>
    BY <2>1, <1>9
  <2>3. mreq # 0 /\ mreq \in 1 .. Len(blocks)
    BY <1>2, <2>2 DEF Placed, In, GroupTyped
  <2>4. Placed(t)'
    BY <1>7, <2>1, <2>2, <2>3
  <2>5. blocks' \in Seq(Groups \cup {Unset}) /\ Len(blocks') = Len(blocks) /\ blocks'[mreq] = arg[t]
    BY <1>2, <1>5, <2>1, <2>2, <2>3 DEF GroupTyped
  <2>6. GroupTyped'
    BY <1>2, <1>3, <2>1, <2>3, <2>5 DEF GroupTyped
  <2>7. GroupOwned'
    BY <1>5, <1>6, <1>8, <2>1, <2>2, <2>5 DEF In
  <2> QED
    BY <1>1, <2>1, <2>2, <2>4, <2>6, <2>7, GroupStepKeeps
<1>15. CASE JoinAdd(t)
  <2>1. GroupStep(t, "join", "add", "returned") /\ UNCHANGED <<blocks, mreq, reg, last>>
    BY <1>15 DEF JoinAdd
  <2>2. op[t] = "join" /\ at[t] = "add" /\ at'[t] = "returned"
        /\ UNCHANGED <<opts, bcast, current, previous, wanted, ctx, prctx>>
    BY <2>1, <1>9
  <2>3. mreq # 0 /\ mreq \in 1 .. Len(blocks) /\ blocks[mreq] \in Groups \cup {Unset}
    BY <1>2, <2>2 DEF Placed, In, GroupTyped
  <2>4. Placed(t)'
    BY <1>7, <2>1, <2>2
  <2>5. CASE UNCHANGED <<joined, member>>
    <3>1. GroupOwned'
      BY <1>6, <1>8, <2>1, <2>2, <2>5 DEF In
    <3> QED
      BY <1>1, <1>10, <2>1, <2>2, <2>4, <2>5, <3>1, GroupStepKeeps
  <2>6. CASE \E g \in IF blocks[mreq] = Unset THEN Groups ELSE {blocks[mreq]} :
               g \notin joined /\ joined' = joined \cup {g} /\ member' = member \cup {arg[t]}
    <3>1. PICK g \in IF blocks[mreq] = Unset THEN Groups ELSE {blocks[mreq]} :
            joined' = joined \cup {g} /\ member' = member \cup {arg[t]}
      BY <2>6
    <3>2. g \in Groups
      BY <2>3
    <3>3. "group" \notin raced => g = arg[t]
      BY <1>5, <1>6, <2>2, <2>3, OptionsAssumption DEF In, Unset
    <3>4. GroupTyped'
      BY <1>2, <1>3, <1>5, <2>1, <2>2, <3>1, <3>2 DEF GroupTyped
    <3>5. GroupOwned'
      BY <1>5, <1>6, <1>8, <2>1, <2>2, <3>1, <3>3 DEF In
    <3> QED
      BY <1>1, <2>1, <2>2, <2>4, <3>4, <3>5, GroupStepKeeps
  <2> QED
    BY <1>15, <2>5, <2>6 DEF JoinAdd
<1>16. CASE DropBegins(t)
  <2>1. GroupStep(t, "drop", "called", "drop") /\ mreq # 0
        /\ UNCHANGED <<blocks, mreq, joined, reg, last, member>>
    BY <1>16 DEF DropBegins
  <2>2. op[t] = "drop" /\ at[t] = "called" /\ at'[t] = "drop"
        /\ UNCHANGED <<opts, bcast, current, previous, wanted, ctx, prctx>>
    BY <2>1, <1>9
  <2>3. Placed(t)'
    BY <1>7, <2>1, <2>2
  <2>4. GroupOwned'
    BY <1>6, <1>8, <2>1, <2>2 DEF In
  <2> QED
    BY <1>1, <1>10, <2>1, <2>2, <2>3, <2>4, GroupStepKeeps
<1>17. CASE DropMember(t)
  <2>1. GroupStep(t, "drop", "drop", "returned") /\ UNCHANGED <<blocks, mreq, reg, last>>
    BY <1>17 DEF DropMember
  <2>2. op[t] = "drop" /\ at[t] = "drop" /\ at'[t] = "returned"
        /\ UNCHANGED <<opts, bcast, current, previous, wanted, ctx, prctx>>
    BY <2>1, <1>9
  <2>3. mreq # 0
    BY <1>2, <2>2 DEF Placed, In
  <2>4. Placed(t)'
    BY <1>7, <2>1, <2>2
  <2>5. PICK g \in IF blocks[mreq] = Unset THEN Groups ELSE {blocks[mreq]} :
          IF g \in joined THEN joined' = joined \ {g} /\ member' = member \ {last}
                          ELSE UNCHANGED <<joined, member>>
    BY <1>17 DEF DropMember
  <2>6. GroupTyped'
    BY <1>2, <1>3, <2>1, <2>5 DEF GroupTyped
  <2>7. "group" \notin raced => g = last
    BY <1>6, <2>2, <2>3, OptionsAssumption DEF In, Unset
  <2>8. GroupOwned'
    BY <1>6, <1>8, <2>1, <2>2, <2>5, <2>7 DEF In
  <2> QED
    BY <1>1, <2>1, <2>2, <2>4, <2>6, <2>8, GroupStepKeeps
<1> QED
  BY <1>11, <1>12, <1>13, <1>14, <1>15, <1>16, <1>17 DEF udp_joingrp, udp_dropgrp

(* A stutter.                                                              *)
LEMMA StutterKeepsIInv ==
  ASSUME IInv, UNCHANGED vars
  PROVE  IInv'
<1> USE DEF vars, opts, groups, locals, ghosts, marks
<1>1. Typed'
  BY DEF IInv, Typed, TypeOK, Placed, In, Args, Flags, Ops
<1>2. \A c \in Classes : Sole(c)'
  BY DEF IInv, Sole, RunningOn, Running
<1>3. TemplateOwned' /\ AttrOwned' /\ ContextOwned' /\ GroupOwned'
  BY DEF IInv, TemplateOwned, AttrOwned, ContextOwned, GroupOwned, Replaced, Mix, Read,
         In, RunningOn, Running
<1>4. ReadsStill'
  BY DEF IInv, ReadsStill, Reading, Undisturbed, Read, In, RunningOn, Running
<1> QED
  BY <1>1, <1>2, <1>3, <1>4 DEF IInv

(* Every step keeps the inductive invariant.                               *)
LEMMA NextIInv == IInv /\ [Next]_vars => IInv'
<1>1. ASSUME IInv, NEW t \in Threads,
             \/ Begin(t)
             \/ tcp_settst(t) \/ tcp_settst_r(t) \/ SettstReturns(t) \/ tcp_gettst(t) \/ tcp_write(t)
             \/ tcp_setattr(t) \/ nis_cntl(t) \/ udp_joingrp(t) \/ udp_dropgrp(t)
      PROVE  IInv'
  BY <1>1, BeginKeepsIInv, SettstKeepsIInv, SettstRKeepsIInv, SettstReturnsKeepsIInv,
     GettstKeepsIInv, WriteKeepsIInv, SetattrKeepsIInv, ContextKeepsIInv, GroupKeepsIInv
     DEF nis_cntl
<1> QED
  BY <1>1, StutterKeepsIInv DEF Next

-----------------------------------------------------------------------------
(* The settings of a link and the threads that use them keep the inductive *)
(* invariant.                                                              *)
THEOREM SettingsInvariance == Spec => []IInv
BY InitIInv, NextIInv, PTL DEF Spec

(* Calls that do not overlap leave a link the template, attributes,        *)
(* context and groups they have named (tcp_settst, tcp_setattr, nis_cntl,  *)
(* udp_joingrp and udp_dropgrp).                                           *)
THEOREM SettingsStay == Spec => []SettingsKept
<1>1. IInv => SettingsKept
  <2> SUFFICES ASSUME IInv PROVE SettingsKept
    OBVIOUS
  <2> USE DEF IInv, Quiet
  <2>1. TypeOK
    BY DEF Typed
  <2>2. TemplateKept
    BY DEF TemplateKept, TemplateOwned
  <2>3. AttrKept /\ BroadcastAgrees
    BY DEF AttrKept, BroadcastAgrees, AttrOwned
  <2>4. GroupsAsCalled
    BY DEF GroupsAsCalled, GroupOwned
  <2>5. ContextKept
    <3>1. ASSUME NEW t \in Threads, In(t, "setctx", "save") PROVE t \in RunningOn("context")
      BY <3>1, ChangesOf DEF RunningOn, Running, In
    <3> QED
      BY <3>1 DEF ContextKept, ContextOwned
  <2> QED
    BY <2>1, <2>2, <2>3, <2>4, <2>5 DEF SettingsKept
<1> QED
  BY <1>1, SettingsInvariance, PTL

(* tcp_gettst, and an accepted link, that no tcp_settst overlaps get one   *)
(* template whole.                                                         *)
THEOREM GettstWhole == Spec => []ReadsWhole
<1>1. IInv => ReadsWhole
  <2> SUFFICES ASSUME IInv, NEW t \in Threads, Returned(t, "gettst"), Undisturbed(t)
               PROVE  \A i \in 1 .. 3 : reg[t][i] = saw[t][Fields[i]]
    BY DEF ReadsWhole
  <2>1. reg[t] = Read(3, saw[t])
    BY DEF IInv, ReadsStill, Reading, Returned, In, Readers
  <2>2. Read(3, saw[t]) = <<saw[t].cb, saw[t].builder, saw[t].parser>>
    BY ReadIs
  <2>3. reg[t][1] = saw[t].cb /\ reg[t][2] = saw[t].builder /\ reg[t][3] = saw[t].parser
    BY <2>1, <2>2
  <2> QED
    BY <2>3, FieldOf
<1> QED
  BY <1>1, SettingsInvariance, PTL

(* A tcp_write that no tcp_settst overlaps and that builds a frame calls   *)
(* the builder it has tested, fills what it has allocated and sends that.  *)
THEOREM WriteFits == Spec => []FrameFits
<1>1. IInv => FrameFits
  <2> SUFFICES ASSUME IInv, NEW t \in Threads, Returned(t, "write"), Undisturbed(t),
                      reg[t][1] = "build"
               PROVE  /\ reg[t][3] = saw[t].builder /\ reg[t][3] # Unset
                      /\ reg[t][4] + UserLength = reg[t][2] /\ reg[t][5] = reg[t][2]
    BY DEF FrameFits
  <2>1. saw[t].cb \in Nat
    BY OptionsAssumption DEF IInv, Typed
  <2>2. \/ reg[t] = <<"plain", 1, Unset, 0, 1 + saw[t].cb>>
        \/ /\ reg[t] = <<"build", 1 + saw[t].cb, saw[t].builder, saw[t].cb, 1 + saw[t].cb>>
           /\ saw[t].builder # Unset
    BY DEF IInv, ReadsStill, Reading, Returned, In, Readers
  <2>3. /\ reg[t] = <<"build", 1 + saw[t].cb, saw[t].builder, saw[t].cb, 1 + saw[t].cb>>
        /\ saw[t].builder # Unset
    BY <2>2
  <2>4. /\ reg[t][2] = 1 + saw[t].cb /\ reg[t][3] = saw[t].builder
        /\ reg[t][4] = saw[t].cb /\ reg[t][5] = 1 + saw[t].cb
    BY <2>3
  <2> QED
    BY <2>1, <2>3, <2>4 DEF UserLength
<1> QED
  BY <1>1, SettingsInvariance, PTL
=============================================================================
