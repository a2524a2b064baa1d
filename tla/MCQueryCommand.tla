--------------------------- MODULE MCQueryCommand ---------------------------
(***************************************************************************)
(* Instances of QueryCommand for TLC.                                      *)
(***************************************************************************)
EXTENDS QueryCommand

CONSTANTS c1, s1, s2, t1

OneStart  == {c1}
TwoStops  == {s1, s2}
OneToken  == {t1}
OwnToken  == [c \in Starts |-> t1]
NoneBad   == {}

=============================================================================
