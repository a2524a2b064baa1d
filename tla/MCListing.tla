------------------------------ MODULE MCListing ------------------------------
(***************************************************************************)
(* Instances of Listing for TLC.                                           *)
(***************************************************************************)
EXTENDS Listing

FourIds    == 1..4
BothGroups == {"primary", "other"}
OneIsOther == [id \in Ids |-> IF id = 2 THEN "other" ELSE "primary"]

=============================================================================
