------------------------------ MODULE TcpListen -----------------------------
(***************************************************************************)
(* A listening link: tcp_listen on the user's thread, then tcp_syn on the  *)
(* epoll thread, which accepts until accept(2) has nothing more, while the *)
(* process may run out of descriptors and the user may destroy the link.   *)
(* The set-up of an accepted link is one step here; TcpConn takes it apart.*)
(***************************************************************************)
EXTENDS Naturals, FiniteSets

CONSTANTS
  Conns,    \* connections the peers open
  MaxFds,   \* accepted links for which the process has descriptors
  Faults    \* what may go wrong

ASSUME ListenAssumption ==
  /\ MaxFds \in Nat
  /\ Faults \subseteq {"enfile", "aborted", "oom", "destroy", "attach"}

VARIABLES
  lsock,    \* the socket: "new", "listen", "shut" (shutdown(2)), "closed"
  attached, \* it is in the epoll instance
  rdy,      \* and on the ready list
  backlog,  \* established connections not accepted
  hread,    \* ncb->ncb_read is tcp_syn
  stat, holders,
  links,    \* accepted connections that are links of the user
  dropped,  \* accepted connections the library has closed again
  lpc, epc, dpc,  \* tcp_listen, the epoll thread, tcp_destroy
  ctrl      \* ctrlcode of the last accept

conns == <<backlog, links, dropped>>
obj == <<stat, holders>>
sock == <<lsock, attached, rdy>>
pcs == <<lpc, epc, dpc>>
listener == <<lsock, attached, rdy, backlog, hread, stat, holders, links, dropped,
              lpc, epc, dpc, ctrl>>

ListenerInit ==
  /\ lsock = "new" /\ attached = FALSE /\ rdy = FALSE
  /\ backlog = {} /\ links = {} /\ dropped = {}
  /\ hread = FALSE
  /\ stat = "open" /\ holders = {}
  /\ lpc = "idle" /\ epc = "wait" /\ dpc = "idle"
  /\ ctrl = "ok"

-----------------------------------------------------------------------------
(* io_close in one go, as the destructor runs it: a listening socket takes *)
(* its backlog along.                                                      *)
ncb_deconstruct ==
  /\ stat' = "closed"
  /\ lsock' = "closed" /\ attached' = FALSE /\ rdy' = FALSE
  /\ backlog' = {}

objdefr(t) ==
  /\ holders' = holders \ {t}
  /\ IF stat = "closing" /\ holders = {t} THEN ncb_deconstruct
     ELSE UNCHANGED <<stat, sock, backlog>>

objclos ==
  /\ IF stat = "open" /\ holders = {} THEN ncb_deconstruct
     ELSE /\ stat' = IF stat = "open" THEN "closing" ELSE stat
          /\ UNCHANGED <<sock, backlog>>
  /\ UNCHANGED holders

objrefr(t) == stat = "open" /\ holders' = holders \cup {t} /\ UNCHANGED stat

LGoto(from, to) == lpc = from /\ lpc' = to /\ UNCHANGED <<epc, dpc>>
EGoto(from, to) == epc = from /\ epc' = to /\ UNCHANGED <<lpc, dpc>>
DGoto(from, to) == dpc = from /\ dpc' = to /\ UNCHANGED <<lpc, epc>>

-----------------------------------------------------------------------------
(***************************************************************************)
(* tcp_listen                                                              *)
(***************************************************************************)

ListenEnter ==
  /\ \/ LGoto("idle", "listen") /\ objrefr("user")
     \/ LGoto("idle", "done") /\ stat # "open" /\ UNCHANGED obj
  /\ UNCHANGED <<sock, conns, hread, ctrl>>

(* listen(2); from here on the kernel completes handshakes.                *)
Listen ==
  /\ \/ lsock = "new" /\ lsock' = "listen" /\ LGoto("listen", "handler")
     \/ lsock # "new" /\ LGoto("listen", "release") /\ UNCHANGED lsock
  /\ UNCHANGED <<attached, rdy, conns, hread, obj, ctrl>>

ListenHandler ==
  /\ LGoto("handler", "attach")
  /\ hread' = TRUE
  /\ UNCHANGED <<sock, conns, obj, ctrl>>

(* io_attach polls the socket: connections that came first are announced.  *)
ListenAttach ==
  /\ \/ /\ lsock # "closed" /\ LGoto("attach", "release")
        /\ attached' = TRUE
        /\ rdy' = (backlog # {} \/ lsock = "shut")
     \/ /\ lsock = "closed" \/ "attach" \in Faults
        /\ LGoto("attach", "close")
        /\ UNCHANGED <<attached, rdy>>
  /\ UNCHANGED <<lsock, conns, hread, obj, ctrl>>

ListenClose ==
  /\ LGoto("close", "release")
  /\ objclos
  /\ UNCHANGED <<hread, links, dropped, ctrl>>

ListenRelease ==
  /\ LGoto("release", "done")
  /\ objdefr("user")
  /\ UNCHANGED <<hread, links, dropped, ctrl>>

ListenStep == \/ Listen \/ ListenHandler \/ ListenAttach \/ ListenClose
              \/ ListenRelease

-----------------------------------------------------------------------------
(***************************************************************************)
(* The epoll thread: __iorun and tcp_syn.                                  *)
(***************************************************************************)

(* A socket that has been shut down reports EPOLLRDHUP.                    *)
EpollWait ==
  /\ rdy /\ rdy' = FALSE
  /\ EGoto("wait", IF lsock = "shut" THEN "close"
                   ELSE IF backlog # {} THEN "refr" ELSE "wait")
  /\ UNCHANGED <<lsock, attached, conns, hread, obj, ctrl>>

EpollRefr ==
  /\ \/ EGoto("refr", IF hread THEN "check" ELSE "release") /\ objrefr("epoll")
     \/ EGoto("refr", "wait") /\ stat # "open" /\ UNCHANGED obj
  /\ UNCHANGED <<sock, conns, hread, ctrl>>

(* A faulty variant: once more unless it listens.                          *)
SynCheckSpins ==
  /\ EGoto("check", IF lsock = "listen" THEN "accept" ELSE "check")
  /\ UNCHANGED <<sock, conns, hread, obj, ctrl>>

(* __tcp_syn looks at the state first: any but LISTEN is one more turn of  *)
(* the loop of tcp_syn; a closed descriptor has no state.                  *)
SynCheck ==
  /\ EGoto("check", IF lsock \in {"listen", "closed"} THEN "accept" ELSE "check")
  /\ UNCHANGED <<sock, conns, hread, obj, ctrl>>

OutOfFds == Cardinality(links) >= MaxFds

(* __tcp_syn_try: accept(2) and its errors.                                *)
Fails(code, next) == ctrl' = code /\ EGoto("accept", next) /\ UNCHANGED conns

(* A connection is accepted and becomes a link, unless memory for it is    *)
(* missing or its set-up fails.                                            *)
Accepted ==
  /\ lsock = "listen" /\ ~OutOfFds
  /\ \E c \in backlog :
       /\ backlog' = backlog \ {c}
       /\ \/ links' = links \cup {c} /\ UNCHANGED dropped
          \/ "oom" \in Faults /\ dropped' = dropped \cup {c} /\ UNCHANGED links
  /\ ctrl' = "ok"
  /\ EGoto("accept", "check")

(* A faulty variant: ECONNABORTED ends the loop.                           *)
AbortedEnds ==
  /\ lsock = "listen" /\ ~OutOfFds /\ "aborted" \in Faults
  /\ \E c \in backlog : backlog' = backlog \ {c} /\ dropped' = dropped \cup {c}
  /\ ctrl' = "ok"
  /\ EGoto("accept", "release")
  /\ UNCHANGED links

(* ECONNABORTED: the connection is gone, the loop goes on.                 *)
Aborted ==
  /\ lsock = "listen" /\ ~OutOfFds /\ "aborted" \in Faults
  /\ \E c \in backlog : backlog' = backlog \ {c} /\ dropped' = dropped \cup {c}
  /\ ctrl' = "ok"
  /\ EGoto("accept", "check")
  /\ UNCHANGED links

NothingLeft == lsock = "listen" /\ ~OutOfFds /\ backlog = {} /\ Fails("again", "release")

(* ENFILE, ENOBUFS, ENOMEM, EPERM: the round is over, the link stays.      *)
Retained ==
  /\ lsock = "listen" /\ "enfile" \in Faults
  /\ Fails("enfile", "release")

(* EMFILE and the errors of a bad descriptor fall to the default case.     *)
Fatal ==
  \/ lsock = "listen" /\ OutOfFds /\ Fails("emfile", "close")
  \/ lsock # "listen" /\ Fails("ebadf", "close")

__tcp_syn_try ==
  /\ Accepted \/ Aborted \/ NothingLeft \/ Retained \/ Fatal
  /\ UNCHANGED <<sock, hread, obj>>

EpollClose ==
  /\ EGoto("close", IF "epoll" \in holders THEN "release" ELSE "wait")
  /\ objclos
  /\ UNCHANGED <<hread, links, dropped, ctrl>>

EpollRelease ==
  /\ EGoto("release", "wait")
  /\ objdefr("epoll")
  /\ UNCHANGED <<hread, links, dropped, ctrl>>

EpollStep == \/ EpollWait \/ EpollRefr \/ SynCheck \/ __tcp_syn_try
             \/ EpollClose \/ EpollRelease

-----------------------------------------------------------------------------
(***************************************************************************)
(* tcp_destroy, with shutdown(2) and close(2) of io_close apart.           *)
(***************************************************************************)

DestroyBegin ==
  /\ "destroy" \in Faults
  /\ DGoto("idle", "shutdown")
  /\ stat = "open" /\ stat' = "closing"
  /\ holders' = holders \cup {"destroy"}
  /\ UNCHANGED <<sock, conns, hread, ctrl>>

DestroyShutdown ==
  /\ DGoto("shutdown", "close")
  /\ lsock' = IF lsock = "listen" THEN "shut" ELSE lsock
  /\ attached' = FALSE /\ rdy' = FALSE
  /\ backlog' = {}
  /\ UNCHANGED <<links, dropped, hread, obj, ctrl>>

DestroyClose ==
  /\ DGoto("close", "release")
  /\ lsock' = "closed" /\ attached' = FALSE /\ rdy' = FALSE
  /\ UNCHANGED <<conns, hread, obj, ctrl>>

DestroyRelease ==
  /\ DGoto("release", "done")
  /\ objdefr("destroy")
  /\ UNCHANGED <<hread, links, dropped, ctrl>>

DestroyStep == DestroyShutdown \/ DestroyClose \/ DestroyRelease

-----------------------------------------------------------------------------
(* A handshake completes: an edge for whoever listens.                     *)
Connect(c) ==
  /\ lsock = "listen"
  /\ c \notin backlog \cup links \cup dropped
  /\ backlog' = backlog \cup {c}
  /\ rdy' = attached
  /\ UNCHANGED <<lsock, attached, links, dropped, hread, obj, pcs, ctrl>>

(* The user closes an accepted link.                                       *)
CloseLink(c) ==
  /\ c \in links
  /\ links' = links \ {c} /\ dropped' = dropped \cup {c}
  /\ UNCHANGED <<sock, backlog, hread, obj, pcs, ctrl>>

-----------------------------------------------------------------------------
ListenerNext ==
  \/ ListenEnter \/ ListenStep
  \/ EpollStep
  \/ DestroyBegin \/ DestroyStep
  \/ \E c \in Conns : Connect(c) \/ CloseLink(c)

ListenerSpec == ListenerInit /\ [][ListenerNext]_listener

(* Threads inside the library do not stop.                                 *)
FairSpec ==
  ListenerSpec
  /\ WF_listener(ListenStep) /\ WF_listener(EpollStep) /\ WF_listener(DestroyStep)

-----------------------------------------------------------------------------
(* Every variable keeps its type; accept(2) fails with a code __tcp_syn_try*)
(* knows.                                                                  *)
ListenerTypeOK ==
  /\ lsock \in {"new", "listen", "shut", "closed"}
  /\ attached \in BOOLEAN /\ rdy \in BOOLEAN /\ hread \in BOOLEAN
  /\ backlog \subseteq Conns /\ links \subseteq Conns /\ dropped \subseteq Conns
  /\ stat \in {"open", "closing", "closed"}
  /\ holders \subseteq {"user", "epoll", "destroy"}
  /\ lpc \in {"idle", "listen", "handler", "attach", "close", "release", "done"}
  /\ epc \in {"wait", "refr", "check", "accept", "close", "release"}
  /\ dpc \in {"idle", "shutdown", "close", "release", "done"}
  /\ ctrl \in {"ok", "again", "enfile", "emfile", "ebadf"}

(* A connection in the backlog of a listening link is announced or being   *)
(* worked on, unless the last accept failed for want of resources: tcp_syn *)
(* must not stop short of EAGAIN, and tcp_listen must have its handler in  *)
(* place when the edge comes.                                              *)
NoLostAccept ==
  lsock = "listen" /\ attached /\ stat = "open" /\ backlog # {} /\ ctrl # "enfile" =>
    rdy \/ epc \in {"refr", "check", "accept", "close"}

(* The limit of open descriptors fails a round of accept(2), "but the      *)
(* service link must be retain", whether it is the process's or the        *)
(* system's (tcpio.c:39-41): an open listener is closed by tcp_destroy or  *)
(* by tcp_listen itself, and never by the epoll thread that accepts.       *)
ListenerRetained ==
  [][stat = "open" /\ stat' # "open" => lpc' # lpc \/ dpc' # dpc]_listener

(* Every connection is accepted, given up or gone with the listener.       *)
EventuallyTaken ==
  \A c \in Conns : c \in backlog ~> c \notin backlog \/ ctrl = "enfile"

(* tcp_syn's loop ends and the destroyed listener is released, although    *)
(* __tcp_syn reports "once more" for a socket that no longer listens.      *)
DestroyEventuallyCloses == dpc # "idle" ~> stat = "closed"

(* The loop of tcp_syn serves every peer, and ends.                        *)
ListenerProgress == EventuallyTaken /\ DestroyEventuallyCloses
=============================================================================
