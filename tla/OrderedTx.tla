----------------------------- MODULE OrderedTx ------------------------------
(***************************************************************************)
(* What tcp_write promises the user of one link who writes from a single   *)
(* thread: the messages it accepts leave on the wire one after the other,  *)
(* each of them whole, in the order of the calls, until the connection is  *)
(* lost.  How the library gets there (direct send or send queue, epoll     *)
(* thread, pool thread) is not visible here.                               *)
(***************************************************************************)
EXTENDS Naturals, Sequences, Sublists

CONSTANTS Msgs,   \* the messages that may be written, each at most once
          Size    \* Size[m]: units (bytes) of message m on the wire

VARIABLES
  pend,   \* messages accepted and not sent completely, oldest first
  wire,   \* one entry per unit that left, naming the message it is of
  open    \* the connection can still carry data

vars == <<pend, wire, open>>

TypeOK ==
  /\ pend \in Seq(Msgs)
  /\ wire \in Seq(Msgs)
  /\ open \in BOOLEAN

Init ==
  /\ pend = << >>
  /\ wire = << >>
  /\ open = TRUE

Sent(m) == Len(Only(wire, {m}))

IsNew(m) == Sent(m) = 0 /\ \A i \in 1 .. Len(pend) : pend[i] # m

Units(m, n) == [i \in 1 .. n |-> m]

(* The message is taken and waits behind the earlier ones.                 *)
Accept(m) ==
  /\ open
  /\ IsNew(m)
  /\ pend' = Append(pend, m)
  /\ UNCHANGED <<wire, open>>

(* Part of the oldest message leaves, or all that is left of it.           *)
Emit ==
  /\ open
  /\ pend # << >>
  /\ LET m == Head(pend) IN
     \E n \in 1 .. (Size[m] - Sent(m)) :
       /\ wire' = wire \o Units(m, n)
       /\ pend' = IF Sent(m) + n = Size[m] THEN Tail(pend) ELSE pend
  /\ UNCHANGED open

(* Nothing waits: the message is taken and part or all of it leaves.       *)
AcceptAndEmit(m) ==
  /\ open
  /\ pend = << >>
  /\ IsNew(m)
  /\ \E n \in 1 .. Size[m] :
       /\ wire' = wire \o Units(m, n)
       /\ pend' = IF n = Size[m] THEN << >> ELSE <<m>>
  /\ UNCHANGED open

(* The connection is lost with all that still waits.                       *)
Abort ==
  /\ open
  /\ open' = FALSE
  /\ pend' = << >>
  /\ UNCHANGED wire

Next ==
  \/ \E m \in Msgs : Accept(m) \/ AcceptAndEmit(m)
  \/ Emit
  \/ Abort

Spec == Init /\ [][Next]_vars
=============================================================================
