----------------------------- MODULE GraphOwner -----------------------------
(***************************************************************************)
(* The decode graphs of an executor: an owner per variant, all of which    *)
(* record on the one stream.  A capture runs the launches of a decode step *)
(* while the stream records them, frozen to the attention plan the         *)
(* executor has put down before; any call of it may fail.  A replay        *)
(* launches what was recorded.                                             *)
(*                                                                         *)
(* CUDA is external: a stream that is told to end its capture has ended    *)
(* it, with an error too, and a destroy whose status is dropped works.     *)
(***************************************************************************)
EXTENDS Naturals

CONSTANTS
  Variant,   \* decode_graph_variants_, each named by its attention plan
  Launches,  \* kernels of a decode step
  NoGraph

GraphAssumption ==
  /\ Launches \in Nat \ {0}
  /\ {NoGraph, "draft"} \cap Variant = {}
  /\ NoGraph \notin [plan : Variant, launches : 0..Launches]

VARIABLES
  captureAt,   \* how far a capture is
  capturedFor, \* the variant whose owner is at work
  plan,        \* captured_decode_attention_plan_
  recording,   \* what the stream has recorded, or NoGraph when it executes
  drafted,     \* the graph a capture has ended with
  graphs,      \* graph_ and exec_ of every owner: what they hold, or NoGraph
  alive,       \* graphs and executable graphs of the driver, by what holds them
  launched     \* the last replay: whose, and what it ran

graphVars == <<captureAt, capturedFor, plan, recording, drafted, graphs, alive, launched>>

NoPair == [graph |-> NoGraph, exec |-> NoGraph]

GraphInit ==
  /\ captureAt = "idle" /\ capturedFor = NoGraph /\ plan = NoGraph
  /\ recording = NoGraph /\ drafted = NoGraph
  /\ graphs = [v \in Variant |-> NoPair]
  /\ alive = {} /\ launched = NoGraph

Captured(v) == graphs[v].graph # NoGraph /\ graphs[v].exec # NoGraph

\* reset: what an owner holds is destroyed, whatever the device selection said.
Emptied(v) == alive \ {<<"exec", v>>, <<"graph", v>>}

-----------------------------------------------------------------------------
(* Capture *)

\* Mutation: the plan is put down once, for the first capture.
MutBeginCapture ==
  /\ captureAt = "idle"
  /\ \E v \in Variant :
       /\ capturedFor' = v /\ plan' = (IF plan = NoGraph THEN v ELSE plan)
       /\ graphs' = [graphs EXCEPT ![v] = NoPair] /\ alive' = Emptied(v)
       /\ recording' = [plan |-> plan', launches |-> 0] /\ captureAt' = "body"
  /\ UNCHANGED <<drafted, launched>>

\* capture_decode_graph_variant up to the begin of the capture.  The position sync
\* may throw before anything, selecting the device or the begin after the reset.  The
\* owner would capture over a graph it has; the executor asks it only without one.
BeginCapture ==
  /\ captureAt = "idle"
  /\ \E v \in Variant :
       /\ capturedFor' = v /\ plan' = v
       /\ graphs' = [graphs EXCEPT ![v] = NoPair] /\ alive' = Emptied(v)
       /\ \/ recording' = [plan |-> v, launches |-> 0] /\ captureAt' = "body"
          \/ UNCHANGED <<recording, captureAt>>
  /\ UNCHANGED <<drafted, launched>>

\* A launch of the body is recorded, or throws.
Body ==
  /\ captureAt = "body" /\ recording.launches < Launches
  /\ \/ recording' = [recording EXCEPT !.launches = @ + 1] /\ UNCHANGED captureAt
     \/ captureAt' = "thrown" /\ UNCHANGED recording
  /\ UNCHANGED <<capturedFor, plan, drafted, graphs, alive, launched>>

\* cudaStreamEndCapture: a graph of what was recorded, or none.
Ended(next) ==
  /\ recording' = NoGraph
  /\ \/ drafted' = recording /\ alive' = alive \cup {<<"graph", "draft">>} /\ captureAt' = next
     \/ captureAt' = "idle" /\ UNCHANGED <<drafted, alive>>
  /\ UNCHANGED <<capturedFor, plan, graphs, launched>>

\* Mutation: the handler of a failed body ends no capture.
MutAbandon ==
  /\ captureAt = "thrown" /\ captureAt' = "idle"
  /\ UNCHANGED <<capturedFor, plan, recording, drafted, graphs, alive, launched>>

\* The handler around the body.
Abandon == captureAt = "thrown" /\ Ended("discard")

EndCapture ==
  /\ captureAt = "body" /\ recording.launches = Launches
  /\ Ended("instantiate") \/ Ended("discard")

\* cudaGraphDestroy of a graph nobody is to have.
Discard ==
  /\ captureAt = "discard" /\ captureAt' = "idle"
  /\ alive' = alive \ {<<"graph", "draft">>} /\ drafted' = NoGraph
  /\ UNCHANGED <<capturedFor, plan, recording, graphs, launched>>

Instantiate ==
  /\ captureAt = "instantiate"
  /\ \/ /\ graphs' = [graphs EXCEPT ![capturedFor] = [graph |-> drafted, exec |-> drafted]]
        /\ alive' = (alive \ {<<"graph", "draft">>})
                     \cup {<<"graph", capturedFor>>, <<"exec", capturedFor>>}
        /\ drafted' = NoGraph /\ captureAt' = "idle"
     \/ captureAt' = "discard" /\ UNCHANGED <<graphs, alive, drafted>>
  /\ UNCHANGED <<capturedFor, plan, recording, launched>>

-----------------------------------------------------------------------------
(* Replay and the end *)

\* replay, replay_on_current_device; a launch that fails runs nothing.
Replay ==
  /\ captureAt = "idle"
  /\ \E v \in Variant :
       /\ Captured(v)
       /\ capturedFor' = v /\ launched' = [by |-> v, ran |-> graphs[v].exec]
  /\ UNCHANGED <<captureAt, plan, recording, drafted, graphs, alive>>

\* The executor is destroyed, and its owners with it.
Destroy ==
  /\ captureAt = "idle" /\ captureAt' = "destroyed"
  /\ graphs' = [v \in Variant |-> NoPair]
  /\ alive' = alive \ ({"exec", "graph"} \X Variant)
  /\ UNCHANGED <<capturedFor, plan, recording, drafted, launched>>

GraphNext ==
  \/ BeginCapture \/ Body \/ Abandon \/ EndCapture \/ Discard \/ Instantiate
  \/ Replay \/ Destroy

GraphSpec == GraphInit /\ [][GraphNext]_graphVars

-----------------------------------------------------------------------------
(* Properties *)

\* Between calls the stream executes again, and the driver has no graph but those
\* of the owners; none once they are gone (capture, reset, ~CudaGraphDecode).
GraphsGiveBack ==
  captureAt \in {"idle", "destroyed"} =>
    /\ recording = NoGraph
    /\ alive = UNION {{<<"graph", v>>, <<"exec", v>>} : v \in {w \in Variant : Captured(w)}}
    /\ captureAt = "destroyed" => alive = {}

\* What is replayed is a whole decode step, with the plan of its variant, however
\* many captures failed before (capture_decode_graph_variant, replay_on_current_device).
ReplaysWholeStep ==
  launched # NoGraph => launched.ran = [plan |-> launched.by, launches |-> Launches]

GraphsServe == GraphsGiveBack /\ ReplaysWholeStep
=============================================================================
