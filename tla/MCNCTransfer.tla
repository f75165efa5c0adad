---------------------------- MODULE MCNCTransfer -----------------------------
(***************************************************************************)
(* Bytes with two values, so that all four bytes of a size are used by     *)
(* messages of a few bytes.                                                *)
(***************************************************************************)
EXTENDS NCTransfer

MCData == {<<>>, <<0, 0, 1, 0>>, <<1, 0, 1, 0, 1>>}
MCToServer == [msg_type : {1}, node_id : {<<0>>}, data : MCData]
MCToNode == [msg_type : {0}, node_id : {<<>>}, data : MCData]
=============================================================================
