--------------------------- MODULE HandleLifetimes ---------------------------
(***************************************************************************)
(* The handles of the C interface and the device resources behind them.    *)
(* An engine owns a device context; a context owns the memory pool and the *)
(* stream (Resources); a model shares the context and anchors its weights  *)
(* to the pool; a session shares its model and anchors its workspace arena *)
(* to the pool.  Handles may be destroyed in any order.  A destructor runs *)
(* the destructors of its members in reverse order of declaration, each of *)
(* which may release the last reference to something else; todo holds what *)
(* the call in progress has still to run.                                  *)
(*                                                                         *)
(* Every cudaSetDevice may fail.  Work that needs a device selects it with *)
(* a guard, which selects the previous device again on the way out.        *)
(***************************************************************************)
EXTENDS Naturals, Sequences

CONSTANTS
  Engine, Model, Session,   \* the handles that may be created, each once
  Device,
  DeviceOf,                 \* the device an engine is created on
  None

ASSUME DeviceOfAssumption == DeviceOf \in [Engine -> Device]

\* Handles of different kinds are pointers to different types.
ASSUME HandleAssumption ==
  /\ Engine \cap Model = {} /\ Engine \cap Session = {} /\ Model \cap Session = {}
  /\ None \notin Engine \cup Model \cup Session

VARIABLES
  open,           \* handles the caller holds
  engineOf,       \* the engine a model was loaded by
  modelOf,        \* the model a session was created from
  contextRefs,    \* holders of each engine's DeviceContext
  resourceRefs,   \* holders of each engine's Resources
  modelRefs,      \* holders of each Model
  pool,           \* state of each engine's Resources
  weights,        \* state of each model's device allocations
  arena,          \* state of each session's workspace
  executor,       \* sessions with an executor
  device,         \* the calling thread's current device
  guards,         \* devices saved by the guards in scope, innermost first
  todo,           \* what the call in progress has still to do
  call            \* the call in progress, or the last one

refVars == <<contextRefs, resourceRefs, modelRefs>>
memVars == <<pool, weights, arena, executor>>
linkVars == <<engineOf, modelOf>>
devVars == <<device, guards>>
vars == <<open, linkVars, refVars, memVars, devVars, todo, call>>

\* Memory that no destructor will release any more is leaked: deliberately,
\* where its device could not be selected.
Life == {"none", "live", "freed", "leaked"}

Init ==
  /\ open = {}
  /\ engineOf = [m \in Model |-> None]
  /\ modelOf = [s \in Session |-> None]
  /\ contextRefs = [e \in Engine |-> {}]
  /\ resourceRefs = [e \in Engine |-> {}]
  /\ modelRefs = [m \in Model |-> {}]
  /\ pool = [e \in Engine |-> "none"]
  /\ weights = [m \in Model |-> "none"]
  /\ arena = [s \in Session |-> "none"]
  /\ executor = {}
  /\ device \in Device
  /\ guards = <<>>
  /\ todo = <<>>
  /\ call = [kind |-> "none", from |-> device, deviceLost |-> FALSE]

EngineOfSession(s) == engineOf[modelOf[s]]

Idle == todo = <<>>

Do(op, x, holder) == [op |-> op, of |-> x, by |-> holder]

-----------------------------------------------------------------------------
(* Destructors, as the members they release in order *)

\* CudaWeightPlan::Impl: the allocations, then the anchor.
DropPlan(m) == <<Do("weights", m, m), Do("resources", engineOf[m], m)>>

\* Model::Impl: the weight plan, then the device context.
DropModelState(m) == DropPlan(m) \o <<Do("context", engineOf[m], m)>>

\* Session: the executor, the execution owner, the model.
DropSession(s) ==
  <<Do("executor", s, s), Do("owner", s, s), Do("model", modelOf[s], s)>>

-----------------------------------------------------------------------------
(* Device guards *)

Restore == Do("restore", None, None)

Select(d) == device' = d /\ guards' = <<device>> \o guards

Continue(ops) == todo' = ops \o Tail(todo) /\ UNCHANGED call

SelectFails ==
  /\ todo' = Tail(todo)
  /\ call' = [call EXCEPT !.deviceLost = TRUE]
  /\ UNCHANGED devVars

Begin(kind, ops) ==
  /\ Idle
  /\ todo' = ops
  /\ call' = [kind |-> kind, from |-> device, deviceLost |-> FALSE]

Next1(op) == ~Idle /\ Head(todo).op = op

\* Mutation: only the checked restoration selects the previous device.
MutForgetDevice ==
  /\ Next1("restore")
  /\ guards' = Tail(guards)
  /\ Continue(<<>>)
  /\ UNCHANGED <<open, linkVars, refVars, memVars, device>>

\* The guard's destructor, or its checked restore.
RestoreDevice ==
  /\ Next1("restore")
  /\ guards' = Tail(guards)
  /\ \/ device' = Head(guards) /\ Continue(<<>>)
     \/ /\ UNCHANGED device
        /\ todo' = Tail(todo) /\ call' = [call EXCEPT !.deviceLost = TRUE]
  /\ UNCHANGED <<open, linkVars, refVars, memVars>>

-----------------------------------------------------------------------------
(* Steps of destructors *)

\* ~CudaGraphDecode selects the device without a guard; an executor has a
\* graph or none, as its policy says.
DropExecutor ==
  /\ Next1("executor")
  /\ LET s == Head(todo).of IN
       /\ executor' = executor \ {s}
       /\ device' \in {device, DeviceOf[EngineOfSession(s)]}
  /\ Continue(<<>>)
  /\ UNCHANGED <<open, linkVars, refVars, pool, weights, arena, guards>>

\* Mutation: the owner's destructor releases the arena but not the anchor.
MutCloseOwner ==
  /\ Next1("owner")
  /\ LET s == Head(todo).of IN
       /\ Select(DeviceOf[EngineOfSession(s)])
       /\ arena' = [arena EXCEPT ![s] = "freed"]
       /\ Continue(<<Restore>>)
  /\ UNCHANGED <<open, linkVars, refVars, pool, weights, executor>>

\* ~DeviceExecutionOwner: under its device, the arena and then the anchor; or
\* neither, for good.
CloseOwner ==
  /\ Next1("owner")
  /\ LET s == Head(todo).of
         e == EngineOfSession(s)
     IN \/ /\ Select(DeviceOf[e])
           /\ arena' = [arena EXCEPT ![s] = "freed"]
           /\ Continue(<<Do("resources", e, s), Restore>>)
        \/ /\ SelectFails
           /\ arena' = [arena EXCEPT ![s] = "leaked"]
  /\ UNCHANGED <<open, linkVars, refVars, pool, weights, executor>>

\* ~DeviceAllocation, for the allocations of one model.
FreeWeights ==
  /\ Next1("weights")
  /\ LET m == Head(todo).of IN
       \/ /\ Select(DeviceOf[engineOf[m]])
          /\ weights' = [weights EXCEPT ![m] = "freed"]
          /\ Continue(<<Restore>>)
       \/ /\ SelectFails
          /\ weights' = [weights EXCEPT ![m] = "leaked"]
  /\ UNCHANGED <<open, linkVars, refVars, pool, arena, executor>>

\* Mutation: the deleter runs the destructors whether or not it has its device.
MutFreePool ==
  /\ Next1("pool")
  /\ LET e == Head(todo).of IN
       /\ pool' = [pool EXCEPT ![e] = "freed"]
       /\ \/ Select(DeviceOf[e]) /\ Continue(<<Restore>>)
          \/ SelectFails
  /\ UNCHANGED <<open, linkVars, refVars, weights, arena, executor>>

\* The deleter of Resources.
FreePool ==
  /\ Next1("pool")
  /\ LET e == Head(todo).of IN
       \/ /\ Select(DeviceOf[e])
          /\ pool' = [pool EXCEPT ![e] = "freed"]
          /\ Continue(<<Restore>>)
       \/ /\ SelectFails
          /\ pool' = [pool EXCEPT ![e] = "leaked"]
  /\ UNCHANGED <<open, linkVars, refVars, weights, arena, executor>>

\* One reference less; the last one takes what it held along.
DropReference(refs, then) ==
  LET x == Head(todo).of
      left == refs[x] \ {Head(todo).by}
  IN /\ refs' = [refs EXCEPT ![x] = left]
     /\ Continue(IF left = {} THEN then ELSE <<>>)

DropResources ==
  /\ Next1("resources")
  /\ DropReference(resourceRefs, <<Do("pool", Head(todo).of, None)>>)
  /\ UNCHANGED <<open, linkVars, contextRefs, modelRefs, memVars, devVars>>

DropContext ==
  /\ Next1("context")
  /\ DropReference(contextRefs,
                   <<Do("resources", Head(todo).of, Head(todo).of)>>)
  /\ UNCHANGED <<open, linkVars, resourceRefs, modelRefs, memVars, devVars>>

\* Mutation: the model waits for those who share it.
MutDropModel ==
  /\ Next1("model")
  /\ modelRefs[Head(todo).of] = {Head(todo).by}
  /\ DropReference(modelRefs, DropModelState(Head(todo).of))
  /\ UNCHANGED <<open, linkVars, contextRefs, resourceRefs, memVars, devVars>>

DropModel ==
  /\ Next1("model")
  /\ DropReference(modelRefs, DropModelState(Head(todo).of))
  /\ UNCHANGED <<open, linkVars, contextRefs, resourceRefs, memVars, devVars>>

-----------------------------------------------------------------------------
(* Engines *)

\* The DeviceContext constructor.  One that cannot select its device, or whose
\* pool cannot be had, leaves nothing behind.
CreateEngine(e) ==
  /\ pool[e] = "none"
  /\ Begin("engine", <<Do("created", e, e)>>)
  /\ Select(DeviceOf[e])
  /\ pool' = [pool EXCEPT ![e] = "live"]
  /\ resourceRefs' = [resourceRefs EXCEPT ![e] = {e}]
  /\ UNCHANGED <<open, linkVars, contextRefs, modelRefs, weights, arena, executor>>

EngineCreated ==
  /\ Next1("created")
  /\ LET e == Head(todo).of IN
       /\ open' = open \cup {e}
       /\ contextRefs' = [contextRefs EXCEPT ![e] = {e}]
  /\ device' = Head(guards) /\ guards' = Tail(guards)
  /\ Continue(<<>>)
  /\ UNCHANGED <<linkVars, resourceRefs, modelRefs, memVars>>

\* The checked restore throws: the guard goes, then the members.
EngineFails ==
  /\ Next1("created")
  /\ LET e == Head(todo).of IN
       todo' = <<Restore, Do("resources", e, e)>> \o Tail(todo)
  /\ call' = [call EXCEPT !.deviceLost = TRUE]
  /\ UNCHANGED <<open, linkVars, refVars, memVars, devVars>>

\* run_smoke and peak_allocated_bytes.
UseEngine(e) ==
  /\ e \in open
  /\ Begin("engine", <<Restore>>)
  /\ Select(DeviceOf[e])
  /\ UNCHANGED <<open, linkVars, refVars, memVars>>

DestroyEngine(e) ==
  /\ e \in open
  /\ Begin("engine", <<Do("context", e, e)>>)
  /\ open' = open \ {e}
  /\ UNCHANGED <<linkVars, refVars, memVars, devVars>>

-----------------------------------------------------------------------------
(* Models *)

\* Mutation: the plan is given no anchor.
MutUploadWeights(e, m) ==
  /\ weights' = [weights EXCEPT ![m] = "live"]
  /\ UNCHANGED resourceRefs

\* CudaWeightPlan::upload allocates once it holds the anchor.
UploadWeights(e, m) ==
  /\ weights' = [weights EXCEPT ![m] = "live"]
  /\ resourceRefs' = [resourceRefs EXCEPT ![e] = @ \cup {m}]

\* Engine::load_model; a file that is refused, or a device that cannot be
\* selected, leaves nothing behind.
LoadModel(e, m) ==
  /\ e \in open
  /\ weights[m] = "none"
  /\ Begin("model", <<Do("loaded", m, m)>>)
  /\ Select(DeviceOf[e])
  /\ engineOf' = [engineOf EXCEPT ![m] = e]
  /\ UploadWeights(e, m)
  /\ UNCHANGED <<open, modelOf, contextRefs, modelRefs, pool, arena, executor>>

\* The weights are there, the device is restored, attach_cuda.
ModelLoaded ==
  /\ Next1("loaded")
  /\ LET m == Head(todo).of IN
       /\ open' = open \cup {m}
       /\ modelRefs' = [modelRefs EXCEPT ![m] = {m}]
       /\ contextRefs' = [contextRefs EXCEPT ![engineOf[m]] = @ \cup {m}]
  /\ device' = Head(guards) /\ guards' = Tail(guards)
  /\ Continue(<<>>)
  /\ UNCHANGED <<linkVars, resourceRefs, memVars>>

\* An allocation, a copy, the synchronization or the restore throws: the plan
\* goes, then the guard.
LoadFails ==
  /\ Next1("loaded")
  /\ Continue(DropPlan(Head(todo).of) \o <<Restore>>)
  /\ UNCHANGED <<open, linkVars, refVars, memVars, devVars>>

\* attach_cuda finds no host memory.
AttachFails ==
  /\ Next1("loaded")
  /\ device' = Head(guards) /\ guards' = Tail(guards)
  /\ Continue(DropPlan(Head(todo).of))
  /\ UNCHANGED <<open, linkVars, refVars, memVars>>

DestroyModel(m) ==
  /\ m \in open
  /\ Begin("model", <<Do("model", m, m)>>)
  /\ open' = open \ {m}
  /\ UNCHANGED <<linkVars, refVars, memVars, devVars>>

-----------------------------------------------------------------------------
(* Sessions *)

\* Mutation: the session refers to its model without sharing it.
MutShareModel(m, s) == UNCHANGED modelRefs

ShareModel(m, s) == modelRefs' = [modelRefs EXCEPT ![m] = @ \cup {s}]

\* The session constructor up to create_execution_owner.
CreateSession(m, s) ==
  /\ m \in open
  /\ arena[s] = "none"
  /\ Begin("session", <<Do("owned", s, s)>>)
  /\ Select(DeviceOf[engineOf[m]])
  /\ modelOf' = [modelOf EXCEPT ![s] = m]
  /\ ShareModel(m, s)
  /\ arena' = [arena EXCEPT ![s] = "live"]
  /\ resourceRefs' = [resourceRefs EXCEPT ![engineOf[m]] = @ \cup {s}]
  /\ UNCHANGED <<open, engineOf, contextRefs, pool, weights, executor>>

SessionCreated ==
  /\ Next1("owned")
  /\ open' = open \cup {Head(todo).of}
  /\ executor' = executor \cup {Head(todo).of}
  /\ device' = Head(guards) /\ guards' = Tail(guards)
  /\ Continue(<<>>)
  /\ UNCHANGED <<linkVars, refVars, pool, weights, arena>>

\* The restore throws: the owner goes, then the guard, then the members of the
\* session that were constructed.
OwnerFails ==
  /\ Next1("owned")
  /\ LET s == Head(todo).of IN
       todo' = <<Do("owner", s, s), Restore, Do("model", modelOf[s], s)>>
                 \o Tail(todo)
  /\ call' = [call EXCEPT !.deviceLost = TRUE]
  /\ UNCHANGED <<open, linkVars, refVars, memVars, devVars>>

\* The executor's constructor throws: its members go, graphs among them.
ExecutorFails ==
  /\ Next1("owned")
  /\ device' = Head(guards) /\ guards' = Tail(guards)
  /\ Continue(DropSession(Head(todo).of))
  /\ UNCHANGED <<open, linkVars, refVars, memVars>>

DestroySession(s) ==
  /\ s \in open
  /\ Begin("session", DropSession(s))
  /\ open' = open \ {s}
  /\ UNCHANGED <<linkVars, refVars, memVars, devVars>>

-----------------------------------------------------------------------------

\* Between calls the thread may select any device for itself.
CallerSelects(d) ==
  /\ Idle
  /\ device' = d
  /\ call' = [kind |-> "none", from |-> d, deviceLost |-> FALSE]
  /\ UNCHANGED <<open, linkVars, refVars, memVars, guards, todo>>

Step ==
  \/ RestoreDevice \/ DropExecutor \/ CloseOwner \/ FreeWeights \/ FreePool
  \/ DropResources \/ DropContext \/ DropModel
  \/ EngineCreated \/ EngineFails
  \/ ModelLoaded \/ LoadFails \/ AttachFails
  \/ SessionCreated \/ OwnerFails \/ ExecutorFails

Next ==
  \/ Step
  \/ \E e \in Engine : CreateEngine(e) \/ UseEngine(e) \/ DestroyEngine(e)
  \/ \E e \in Engine, m \in Model : LoadModel(e, m)
  \/ \E m \in Model : DestroyModel(m)
  \/ \E m \in Model, s \in Session : CreateSession(m, s)
  \/ \E s \in Session : DestroySession(s)
  \/ \E d \in Device : CallerSelects(d)

Spec == Init /\ [][Next]_vars /\ WF_vars(Step)

-----------------------------------------------------------------------------
(* Properties *)

TypeOK ==
  /\ open \subseteq Engine \cup Model \cup Session
  /\ engineOf \in [Model -> Engine \cup {None}]
  /\ modelOf \in [Session -> Model \cup {None}]
  /\ contextRefs \in [Engine -> SUBSET (Engine \cup Model)]
  /\ resourceRefs \in [Engine -> SUBSET (Engine \cup Model \cup Session)]
  /\ modelRefs \in [Model -> SUBSET (Model \cup Session)]
  /\ pool \in [Engine -> Life]
  /\ weights \in [Model -> Life]
  /\ arena \in [Session -> Life]
  /\ executor \subseteq Session
  /\ device \in Device

\* Between calls no guard is in scope and every reference is one that some
\* object holds: an engine or a model the caller holds, a session it holds, an
\* arena that is there for good.  A pool is there as long as it is referred to.
RefsMatchHolders ==
  Idle =>
    /\ guards = <<>>
    /\ \A m \in Model :
         modelRefs[m] = (open \cap {m}) \cup {s \in open \cap Session : modelOf[s] = m}
    /\ \A e \in Engine :
         LET models == {m \in Model : engineOf[m] = e /\ modelRefs[m] # {}}
             arenas == {s \in Session : /\ arena[s] \in {"live", "leaked"}
                                       /\ EngineOfSession(s) = e}
         IN /\ contextRefs[e] = (open \cap {e}) \cup models
            /\ resourceRefs[e] = {x \in {e} : contextRefs[e] # {}} \cup models \cup arenas
            /\ pool[e] = "live" <=> resourceRefs[e] # {}

LifetimeInv == TypeOK /\ RefsMatchHolders

\* Whatever handles the caller has destroyed, in whatever order: behind a
\* session it still holds there are its executor, its arena, its model's
\* weights and the pool and stream of its engine.
SessionsReachTheirMemory ==
  \A s \in open \cap Session :
    /\ s \in executor
    /\ arena[s] = "live"
    /\ weights[modelOf[s]] = "live"
    /\ pool[EngineOfSession(s)] = "live"

\* Memory goes back to a pool that is still there, with its own device
\* selected; a pool is destroyed on its device and when no weights and no
\* arena, leaked ones included, point into it, except weights that could not
\* be given back.
FreedOnce(life, x) == life[x] # "freed" /\ life'[x] = "freed"

FreesAreSound ==
  [][/\ \A m \in Model : FreedOnce(weights, m) =>
          pool[engineOf[m]] = "live" /\ device' = DeviceOf[engineOf[m]]
     /\ \A s \in Session : FreedOnce(arena, s) =>
          /\ pool[EngineOfSession(s)] = "live"
          /\ device' = DeviceOf[EngineOfSession(s)]
          /\ s \notin executor
     /\ \A e \in Engine : FreedOnce(pool, e) =>
          /\ device' = DeviceOf[e]
          /\ \A m \in Model : engineOf[m] = e => weights[m] # "live"
          /\ \A s \in Session :
               modelOf[s] # None /\ EngineOfSession(s) = e => arena[s] = "freed"]_vars

\* Between calls every reference is one that some object holds; when the caller
\* holds no handle, everything has been released or was leaked because its
\* device could not be selected, and a pool is kept only by an arena that was.
NothingLeftBehind ==
  /\ LifetimeInv
  /\ open = {} /\ Idle =>
       /\ executor = {}
       /\ \A m \in Model : weights[m] # "live" /\ modelRefs[m] = {}
       /\ \A s \in Session : arena[s] # "live"
       /\ \A e \in Engine :
            /\ contextRefs[e] = {}
            /\ pool[e] = "live" =>
                 \E s \in Session : arena[s] = "leaked" /\ EngineOfSession(s) = e

\* A call on an engine or a model, whether it succeeds or throws, leaves the
\* caller's device as it was, unless a cudaSetDevice failed.
CallerDeviceKept ==
  Idle /\ call.kind \in {"engine", "model"} /\ ~call.deviceLost =>
    device = call.from

\* A call on a handle ends.
CallsOnHandlesEnd == ~Idle ~> Idle
=============================================================================
