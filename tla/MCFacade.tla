------------------------------ MODULE MCFacade ------------------------------
(***************************************************************************)
(* Instances of Facade for TLC.                                            *)
(***************************************************************************)
EXTENDS FacadeRefinement

CONSTANTS c1, c2, c3, s1, s2, t1, t2

TwoStarts   == {c1, c2}
ThreeStarts == {c1, c2, c3}
OneStop     == {s1}
TwoStops    == {s1, s2}
BothTokens  == {t1, t2}
NoCalls     == {}

\* Two calls race with one token and a third has its own.
SharedToken == [c \in Starts |-> IF c = c3 THEN t2 ELSE t1]

\* The last call asks for an output location that does not parse.
LastIsBad == {c3} \cap Starts

=============================================================================
