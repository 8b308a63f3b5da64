------------------------- MODULE MCHandleLifetimes --------------------------
(***************************************************************************)
(* One engine on a device that need not be the caller's, two models, and   *)
(* two sessions of either model.                                           *)
(***************************************************************************)
EXTENDS HandleLifetimes

MCDeviceOf == [e \in Engine |-> 1]
=============================================================================
