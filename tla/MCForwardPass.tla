---------------------------- MODULE MCForwardPass ----------------------------
(***************************************************************************)
(* Two layers of each kind in turn; chunks of one and two tokens, so that  *)
(* a row is left from before.                                              *)
(***************************************************************************)
EXTENDS ForwardPass

MCLayers == <<"linear", "full", "linear", "full">>
MCChunkSizes == {1, 2}
=============================================================================
