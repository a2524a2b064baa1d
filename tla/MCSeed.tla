------------------------------- MODULE MCSeed -------------------------------
(* The warehouse's bucket and the results', for runs of the command.        *)
EXTENDS Seed

MCWarehouse == {1}
=============================================================================
