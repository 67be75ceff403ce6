----------------------------- MODULE MCOptions ------------------------------
(* Two templates with heads of different lengths, and one without builder. *)
EXTENDS Options

MCTemplates == {[cb |-> 1, builder |-> "b1", parser |-> "p1"],
                [cb |-> 2, builder |-> "b2", parser |-> "p2"],
                [cb |-> 1, builder |-> Unset, parser |-> "p1"]}
MCNoTemplate == [cb |-> 0, builder |-> Unset, parser |-> Unset]
=============================================================================
