--------------------------- MODULE MCConstruction ---------------------------
(***************************************************************************)
(* What is made for a session to answer, each part on its own: loading a   *)
(* model and letting its weights through, laying out the host state and    *)
(* living with it, making and tuning the matmul plans, tuning the delta    *)
(* schedules, capturing the decode graphs.                                 *)
(***************************************************************************)
EXTENDS MatmulPlans, GraphOwner, DeltaTuning, HostState, ModelLoading

VARIABLE part

-----------------------------------------------------------------------------
(* Small instances *)

\* A file that a model can be loaded from.
Base ==
  [architecture |-> "qwen35", embedding |-> 4, feedForward |-> 6, context |-> 3,
   blockCount |-> 3, nextn |-> 1, headCount |-> 2, kvHeadCount |-> 1, keyLength |-> 2,
   valueLength |-> 2, rotary |-> 2, convKernel |-> 2, stateSize |-> 2, groupCount |-> 1,
   timeStepRank |-> 2, innerSize |-> 4, interval |-> 2, tokens |-> 5,
   epsilon |-> "positive", ropeBase |-> "positive", layerTypes |-> <<>>]

\* Head counts and widths that may fit each other.
Heads ==
  {[Base EXCEPT !.embedding = e, !.headCount = h, !.kvHeadCount = kv, !.stateSize = s,
                !.groupCount = g, !.timeStepRank = r, !.innerSize = i, !.keyLength = d,
                !.valueLength = d]
     : e \in {4, 8}, h \in {2, 4}, kv \in {1, 2}, s \in {1, 2, 15}, g \in {1, 2, 3, 14},
       r \in {1, 2, 4}, i \in {2, 4, 15}, d \in {2, 4}}

\* A value that no word of eight bits has.
TooWide == 256

\* One field that does not fit the others.
Odd ==
  {[Base EXCEPT ![f] = v] : f \in Numbers, v \in {0, 3, 16, TooWide}}
    \cup {[Base EXCEPT !.architecture = "other"]}
    \cup {[Base EXCEPT ![f] = v] : f \in {"epsilon", "ropeBase"}, v \in {"zero", "notFinite"}}
    \cup {[Base EXCEPT !.layerTypes = k] :
            k \in {<<"linear", "full">>, <<"full", "linear">>, <<"full">>}}
    \cup {[Base EXCEPT !.blockCount = 1, !.nextn = TooWide, !.interval = i] : i \in {1, 2}}

MCMetadata == Heads \cup Odd

\* Configurations of every order of blocks, that fit together or not.
Blocks(kinds) == [b \in DOMAIN kinds |-> [index |-> b - 1, kind |-> kinds[b]]]

SmallState ==
  [keyHeads : {0, 1, 8}, valueHeads : {1}, linearDim : {1, 4}, convWidth : {1, 2},
   kvHeads : {1}, headDim : {1, 15},
   blocks : {<<>>, Blocks(<<"full">>), Blocks(<<"linear", "full">>),
             Blocks(<<"linear", "linear", "full">>), Blocks(<<"full", "linear", "full">>),
             <<[index |-> 1, kind |-> "full"], [index |-> 0, kind |-> "linear"]>>}]

\* Another one has so many keys and values that their number wraps to a small one.
MCConfigs ==
  SmallState \cup {[c EXCEPT !.kvHeads = 10, !.headDim = 13] : c \in SmallState}

\* Models with matmuls that share plans or do not, and one with too many columns.
LinearModel ==
  [blocks |-> <<"linear">>, context |-> 4, hidden |-> 2, intermediate |-> 2,
   query |-> 1, kv |-> 2, qkv |-> 2, valueHeads |-> 1, linear |-> 2, vocabulary |-> 3]

MixedModel == [LinearModel EXCEPT !.blocks = <<"linear", "full">>, !.context = 3,
                             !.valueHeads = 2, !.vocabulary = 2]

TooLarge == [LinearModel EXCEPT !.blocks = <<"full">>, !.context = 2, !.vocabulary = 9]

MCModels == {LinearModel, MixedModel, TooLarge}

MCTunedBucket == <<1, 4, 8>>
MCBucket == <<1, 2, 4>>
MCNeed == <<0, 1, 2>>

-----------------------------------------------------------------------------
(* The parts; what is not of the part at work is off *)

\* What the parts take for granted of their constants.
ASSUME ConstructionAssumption ==
  /\ LoadingAssumption /\ LayoutWordsAssumption /\ HostStateAssumption
  /\ DimAssumption /\ TunedAssumption /\ ChunkAssumption /\ SpeedupAssumption
  /\ LayersAssumption /\ GraphAssumption /\ PlansAssumption /\ ModelAssumption

Off == "off"

LoadingOff ==
  /\ stage = Off /\ descriptor = Off /\ mapped = Off /\ meta = Off
  /\ config = Off /\ catalog = Off /\ maxContext = Off

StateOff ==
  /\ phase = Off /\ layout = Off /\ edits = Off /\ storage = Off
  /\ position = Off /\ lengths = Off /\ floats = Off

TuningOff ==
  /\ layer = Off /\ right = Off /\ step = Off /\ recurrent = Off
  /\ buffers = Off /\ downloaded = Off /\ verdict = Off /\ diagnostics = <<>>

PlansOff ==
  /\ pc = Off /\ launch = NoLaunch /\ refused = FALSE
  /\ model = Off /\ owner = Off /\ cache = Off /\ bound = Off /\ draft = Off
  /\ trial = Off /\ reported = Off /\ live = Off /\ leaked = Off /\ denied = Off
  /\ device = Off /\ atClose = Off

GraphsOff ==
  /\ captureAt = Off /\ launched = NoGraph
  /\ capturedFor = Off /\ plan = Off /\ recording = Off /\ drafted = Off
  /\ graphs = Off /\ alive = Off

AnyInit ==
  \/ part = "loading" /\ LoadInit /\ StateOff /\ PlansOff /\ TuningOff /\ GraphsOff
  \/ part = "state" /\ HostInit /\ LoadingOff /\ PlansOff /\ TuningOff /\ GraphsOff
  \/ part = "plans" /\ PlansInit /\ LoadingOff /\ StateOff /\ TuningOff /\ GraphsOff
  \/ part = "tuning" /\ TuningInit /\ LoadingOff /\ StateOff /\ PlansOff /\ GraphsOff
  \/ part = "graphs" /\ GraphInit /\ LoadingOff /\ StateOff /\ PlansOff /\ TuningOff

AnyNext ==
  \/ /\ part = "loading" /\ LoadNext
     /\ UNCHANGED <<part, hostVars, planVars, tuningVars, graphVars>>
  \/ /\ part = "state" /\ HostNext
     /\ UNCHANGED <<part, loadVars, planVars, tuningVars, graphVars>>
  \/ /\ part = "plans" /\ PlansNext
     /\ UNCHANGED <<part, loadVars, hostVars, tuningVars, graphVars>>
  \/ /\ part = "tuning" /\ TuningNext
     /\ UNCHANGED <<part, loadVars, hostVars, planVars, graphVars>>
  \/ /\ part = "graphs" /\ GraphNext
     /\ UNCHANGED <<part, loadVars, hostVars, planVars, tuningVars>>

anyVars == <<part, loadVars, hostVars, planVars, tuningVars, graphVars>>

AnySpec == AnyInit /\ [][AnyNext]_anyVars
=============================================================================
