------------------------------ MODULE MCRouter ------------------------------
(***************************************************************************)
(* Two edges: one in a region the proximity table does not know, listed    *)
(* first, and one in a region of the table.                                *)
(***************************************************************************)
EXTENDS Router

MCEdgeList == <<"sa1", "us1">>
MCRegionOf == [us1 |-> "us", sa1 |-> "sa"]
MCRegionPriority == [eu |-> <<"eu", "us">>, us |-> <<"us", "eu", "us">>]
=============================================================================
