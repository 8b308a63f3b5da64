---------------------------- MODULE DeltaPolicy ----------------------------
(***************************************************************************)
(* Launch policies of the gated delta kernels, and which of them a layer   *)
(* may be run with.                                                        *)
(***************************************************************************)
EXTENDS Naturals

CONSTANTS
  SmallDim,    \* the two dimensions with kernels of their own: 64
  LargeDim     \* and 128

DimAssumption == {SmallDim, LargeDim} \subseteq Nat \ {0}

\* qwen35_gated_delta_select_policy, whatever the shape
Current == [schedule |-> "current", warps |-> 4, transposed |-> FALSE]

\* Schedules that keep a column of the state in registers.
Registers(p) == p.schedule \in {"prefill_sm120", "decode_sm120"}

\* Mutation: the schedules with registers take any dimensions.
MutAllowed(p, a, n) ==
  /\ p.warps = 4 /\ ~p.transposed
  /\ p.schedule = "decode_sm120" => n = 1

\* validate_policy
Allowed(p, a, n) ==
  /\ p.warps = 4 /\ ~p.transposed
  /\ Registers(p) => a.keyDim \in {SmallDim, LargeDim} /\ a.valueDim = a.keyDim
  /\ p.schedule = "decode_sm120" => n = 1


=============================================================================
