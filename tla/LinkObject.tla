----------------------------- MODULE LinkObject -----------------------------
(***************************************************************************)
(* What the library expects of the object behind a handle: threads may     *)
(* enter it while it lives, a closed object lets nobody in, and it dies    *)
(* once, when nobody is inside - either when the last thread leaves, or at *)
(* the close when nobody was inside.                                       *)
(***************************************************************************)
CONSTANTS Links, Threads

VARIABLES
  life,   \* "none", "live", "dying", "dead"
  inside  \* the threads inside each object

vars == <<life, inside>>

Init ==
  /\ life = [l \in Links |-> "none"]
  /\ inside = [l \in Links |-> {}]

Becomes(l, s) == life' = [life EXCEPT ![l] = s]
Holds(l, S)   == inside' = [inside EXCEPT ![l] = S]

(* The creator is inside.                                                  *)
Create(l, t) == life[l] = "none" /\ Becomes(l, "live") /\ Holds(l, {t})

Enter(l, t) ==
  /\ life[l] = "live"
  /\ Holds(l, inside[l] \cup {t}) /\ UNCHANGED life

(* The close of a *_destroy call lets its own thread in.                   *)
Close(l) ==
  /\ life[l] = "live"
  /\ \/ Becomes(l, "dying") /\ UNCHANGED inside
     \/ \E t \in Threads : Becomes(l, "dying") /\ Holds(l, inside[l] \cup {t})
     \/ inside[l] = {} /\ Becomes(l, "dead") /\ UNCHANGED inside

Leave(l, t) ==
  /\ t \in inside[l] /\ Holds(l, inside[l] \ {t})
  /\ \/ UNCHANGED life
     \/ life[l] = "dying" /\ inside[l] = {t} /\ Becomes(l, "dead")

Next == \E l \in Links :
          Close(l) \/ \E t \in Threads : Create(l, t) \/ Enter(l, t) \/ Leave(l, t)

Spec == Init /\ [][Next]_vars
=============================================================================
