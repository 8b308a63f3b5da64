----------------------------- MODULE MatmulPlans -----------------------------
(***************************************************************************)
(* The executor's cuBLASLt plans: one per matmul configuration, created    *)
(* while the executor is constructed, some of them tuned on the spot by    *)
(* timing what the heuristic offers, shared by every matmul of the same    *)
(* configuration, and then run from one workspace.                         *)
(*                                                                         *)
(* A plan owns a handle, a description and three layouts; creating or      *)
(* tuning one also makes preferences, a second plan of the same            *)
(* configuration and two events.  Every call of the library may fail, and  *)
(* then all of it is taken down again: what create_plans has in its hands  *)
(* while the constructor's guard holds the device, the plans it has kept   *)
(* when that guard is gone.  A plan selects its device itself; if it       *)
(* cannot, it leaves its parts where they are.                             *)
(*                                                                         *)
(* cuBLASLt is external: the heuristic may return any of its algorithms,   *)
(* and a run takes any time.  A destroy whose status the code drops is     *)
(* taken to work.                                                          *)
(***************************************************************************)
EXTENDS Naturals, Sequences, FiniteSets, SequencesExt

CONSTANTS
  Model,            \* model configurations, with a context
  Bucket,           \* kBuckets, a sequence
  Released,         \* the buckets release_tuning_bucket names
  MaxPrefillTokens, \* kMaxPrefillTokens
  DescriptorLimit,  \* the largest int32
  Budget,           \* kMatmulWorkspaceBudget
  Algorithm,        \* algorithms the library knows, by id
  Need,             \* the bytes of workspace each of them needs
  MaxCandidates,    \* the results one query of the heuristic asks for
  Time,             \* what an event measures
  Device, Home,     \* devices, and the executor's
  MaxDenied         \* bounds what is denied to guards and destroys

\* No bucket is larger than the largest chunk.
PlansAssumption ==
  /\ MaxPrefillTokens \in Nat /\ Budget \in Nat
  /\ Bucket \in Seq(1..MaxPrefillTokens) /\ Released \subseteq Nat
  /\ Need \in [Algorithm -> Nat] /\ MaxCandidates \in Nat \ {0}
  /\ Time \subseteq Nat /\ Home \in Device /\ MaxDenied \in Nat

ModelAssumption ==
  Model \subseteq
    [blocks : Seq({"linear", "full"}), context : Nat, hidden : Nat, intermediate : Nat,
     query : Nat, kv : Nat, qkv : Nat, valueHeads : Nat, linear : Nat, vocabulary : Nat]

VARIABLES
  model,     \* config_ and max_context_
  pc,        \* where construction, running or destruction is
  owner,     \* the plan create is making: "plan", or "probe" for tuning
  cache,     \* plan_cache: the plans in the order they were created
  bound,     \* the plan each matmul has got, in the order create_plans asks
  draft,     \* algorithm of the plan being made and of the probe
  trial,     \* select_fastest: candidates left, what was measured, the best
  reported,  \* cublaslt_plan_diagnostics_
  live,      \* resources created that somebody has still to destroy
  leaked,    \* resources that nobody will destroy any more
  denied,    \* plans with what was denied in taking them down: to select the
             \* device, to restore the one before, to destroy a preference
  launch,    \* the last cublasLtMatmul
  refused,   \* a run was refused for its buffers
  device,    \* the thread's current device
  atClose    \* the device the plans kept were to be destroyed on; Home before

planVars == <<model, pc, owner, cache, bound, draft, trial, reported, live, leaked,
          denied, launch, refused, device, atClose>>

-----------------------------------------------------------------------------
(* The matmuls of a model *)

\* What create_plans asks for in each block, in that order.
Roles(kind) ==
  <<"ffn_gate", "ffn_up", "ffn_down">> \o
  (IF kind = "full" THEN <<"query_gate", "key", "value", "full_output">>
   ELSE <<"qkv", "beta", "alpha", "gate", "linear_output">>)

\* Rows of the weight: what comes out for a token.
Produces(c, role) ==
  CASE role \in {"ffn_gate", "ffn_up"} -> c.intermediate
    [] role \in {"ffn_down", "full_output", "linear_output"} -> c.hidden
    [] role = "query_gate" -> 2 * c.query
    [] role \in {"key", "value"} -> c.kv
    [] role = "qkv" -> c.qkv
    [] role \in {"beta", "alpha"} -> c.valueHeads
    [] role = "gate" -> c.linear
    [] role = "lm_head" -> c.vocabulary

\* Columns of it: what goes in.
Consumes(c, role) ==
  CASE role = "ffn_down" -> c.intermediate
    [] role = "full_output" -> c.query
    [] role = "linear_output" -> c.linear
    [] OTHER -> c.hidden

\* matmul_config.  The types and the budget are the executor's, and the same
\* for all.
MatmulConfig(c, bucket, role) ==
  [m |-> bucket, n |-> Produces(c, role), k |-> Consumes(c, role)]

\* Mutation: the columns are not compared.
MutSameConfig(a, b) == a.m = b.m /\ a.n = b.n

\* same_matmul_config
SameConfig(a, b) == a = b

\* The matmuls of a chunk of as many tokens as a bucket; the logits are made
\* for one token whatever the bucket.
BucketSlots(c, bucket) ==
  FlattenSeq([l \in DOMAIN c.blocks |->
               [i \in DOMAIN Roles(c.blocks[l]) |->
                 [bucket |-> bucket, tokens |-> bucket, role |-> Roles(c.blocks[l])[i]]]])
  \o <<[bucket |-> 1, tokens |-> bucket, role |-> "lm_head"]>>

Slots ==
  [c \in Model |-> FlattenSeq([i \in DOMAIN Bucket |-> BucketSlots(c, Bucket[i])])]

ConfigOf(c, slot) == MatmulConfig(c, slot.bucket, slot.role)

\* validate_cublaslt_shape
Describable(config) == {config.m, config.n, config.k} \subseteq 1..DescriptorLimit

\* Rows of the activation buffers.
BufferRows(c) == IF c.context < MaxPrefillTokens THEN c.context ELSE MaxPrefillTokens

\* Mutation: every bucket is tuned that is to be released.
MutTuned(c, bucket) == bucket \in Released

Tuned(c, bucket) == bucket \in Released /\ bucket <= c.context

-----------------------------------------------------------------------------
(* Resources *)

\* What a plan owns, in the order create makes it.
Parts == <<"handle", "description", "input", "weight", "output">>

NewPlan == Len(cache) + 1
\* The probe is numbered zero.
Building == IF owner = "probe" THEN 0 ELSE NewPlan

Part(kind, plan) == [kind |-> kind, plan |-> plan]
OwnedBy(plan) == {r \in live : r.plan = plan /\ r.kind \in ToSet(Parts)}
AllParts(plan) == {Part(kind, plan) : kind \in ToSet(Parts)}
Preferences == {r \in live : r.kind \in {"preference", "search"}}
Events == {r \in live : r.kind \in {"start", "stop"}}

NoLaunch == [algorithm |-> 0, given |-> 0, rows |-> 0]
NoTrial == [left |-> <<>>, measured |-> <<>>, best |-> 0, median |-> 0]
Undrafted == [plan |-> 0, probe |-> 0]

PlansInit ==
  /\ model \in Model
  /\ pc = "next"
  /\ owner = "plan"
  /\ cache = <<>> /\ bound = <<>> /\ reported = <<>>
  /\ draft = Undrafted /\ trial = NoTrial
  /\ live = {} /\ leaked = {} /\ denied = {}
  /\ launch = NoLaunch /\ refused = FALSE
  /\ device = Home /\ atClose = Home

\* What changes only where something is taken down.
downVars == <<leaked, denied, device, atClose>>

Goto(p) == pc' = p

Slot == Slots[model][Len(bound) + 1]
AllBound == Len(bound) = Len(Slots[model])
Config == ConfigOf(model, Slot)

-----------------------------------------------------------------------------
(* Creating a plan *)

\* The scan of plan_cache.
Reuse ==
  /\ pc = "next" /\ ~AllBound
  /\ \E i \in DOMAIN cache :
       /\ SameConfig(cache[i].config, Config)
       /\ \A j \in 1..(i - 1) : ~SameConfig(cache[j].config, Config)
       /\ bound' = Append(bound, i)
  /\ UNCHANGED <<model, pc, owner, cache, draft, trial, reported, live,
                 launch, refused, downVars>>

\* CublasLtMatmulPlan::create looks at the configuration first.
StartCreate ==
  /\ pc = "next" /\ ~AllBound
  /\ \A i \in DOMAIN cache : ~SameConfig(cache[i].config, Config)
  /\ owner' = "plan"
  /\ Goto(IF Describable(Config) THEN "create" ELSE "unwind")
  /\ UNCHANGED <<model, cache, bound, draft, trial, reported, live, launch,
                 refused, downVars>>

\* The parts in their order, then the preference.
CreatePart ==
  /\ pc = "create"
  /\ LET missing == {i \in DOMAIN Parts : Part(Parts[i], Building) \notin live}
     IN \/ \E i \in missing :
             /\ \A j \in missing : i <= j
             /\ live' = live \cup {Part(Parts[i], Building)}
             /\ UNCHANGED pc
        \/ /\ missing = {}
           /\ live' = live \cup {Part("preference", Building)}
           /\ Goto("query")
        \/ Goto("unwind") /\ UNCHANGED live
  /\ UNCHANGED <<model, owner, cache, bound, draft, trial, reported, launch,
                 refused, downVars>>

\* Mutation: the heuristic is believed about the workspace.
MutFits(a) == TRUE

\* The heuristic's result is within the budget it was given.
Fits(a) == Need[a] <= Budget

\* The one query of create: nothing found, or an algorithm.
Query ==
  /\ pc = "query"
  /\ \/ \E a \in Algorithm :
          /\ Fits(a)
          /\ draft' = [draft EXCEPT ![owner] = a]
          /\ Goto("queried")
     \/ Goto("unwind") /\ UNCHANGED draft
  /\ UNCHANGED <<model, owner, cache, bound, trial, reported, live, launch,
                 refused, downVars>>

\* A guard or a destroy is refused.
Deny(plan, what) ==
  /\ Cardinality(denied) < MaxDenied
  /\ denied' = denied \cup {<<plan, what>>}

\* The preference is destroyed outside the try: a failure is thrown on, and
\* nobody destroys it again.  Behind it the algorithm is asked for its id.
FinishCreate ==
  /\ pc = "queried"
  /\ live' = live \ {Part("preference", Building)}
  /\ \/ /\ Goto(IF owner = "probe" THEN "search"
                ELSE IF Tuned(model, Slot.bucket) THEN "tune" ELSE "store")
        /\ UNCHANGED <<leaked, denied>>
     \/ Goto("unwind") /\ UNCHANGED <<leaked, denied>>
     \/ /\ Deny(Building, "destroy")
        /\ leaked' = leaked \cup {Part("preference", Building)}
        /\ Goto("unwind")
  /\ UNCHANGED <<model, owner, cache, bound, draft, trial, reported, launch, refused,
                 device, atClose>>

-----------------------------------------------------------------------------
(* select_fastest *)

\* The input is zeroed and the buffers are looked at; then the candidates are
\* asked for through a plan of their own.
BeginTuning ==
  /\ pc = "tune"
  /\ \/ owner' = "probe" /\ Goto("create")
     \/ Goto("unwind") /\ UNCHANGED owner
  /\ UNCHANGED <<model, cache, bound, draft, trial, reported, live, launch,
                 refused, downVars>>

\* enumerate_cublaslt_candidates: of the results of one query, in their order, it keeps
\* those within the budget, which may be any sequence of such.
Search ==
  /\ pc = "search"
  /\ LET search == Part("search", 0) IN
       \/ search \notin live /\ live' = live \cup {search} /\ UNCHANGED <<pc, trial>>
       \/ /\ search \in live
          /\ \E kept \in UNION {[1..n -> {a \in Algorithm : Fits(a)}] : n \in 0..MaxCandidates} :
               trial' = [NoTrial EXCEPT !.left = kept]
          /\ Goto("found") /\ UNCHANGED live
       \/ Goto("unwind") /\ UNCHANGED <<live, trial>>
  /\ UNCHANGED <<model, owner, cache, bound, draft, reported, launch, refused, downVars>>

\* The preference is destroyed inside the try: if that fails, the handler
\* destroys it once more.
FinishSearch ==
  /\ pc = "found"
  /\ \/ live' = live \ {Part("search", 0)} /\ Goto("return")
     \/ Goto("unwind") /\ UNCHANGED live
  /\ UNCHANGED <<model, owner, cache, bound, draft, trial, reported, launch,
                 refused, downVars>>

\* The probe is gone; without candidates nothing is measured.
BeginMeasuring ==
  /\ pc = "return" /\ OwnedBy(0) = {}
  /\ owner' = "plan"
  /\ \/ /\ trial.left # <<>>
        /\ \E made \in {{"start"}, {"start", "stop"}} :
             /\ live' = live \cup {Part(e, NewPlan) : e \in made}
             /\ Goto(IF made = {"start"} THEN "unwind" ELSE "measure")
        /\ trial' = [trial EXCEPT !.best = Head(trial.left)]
     \/ Goto("unwind") /\ UNCHANGED <<live, trial>>
  /\ UNCHANGED <<model, cache, bound, draft, reported, launch, refused, downVars>>

\* Mutation: the median found is not kept.
MutBetter(t, a, median) ==
  IF t.measured = <<>> \/ median < t.median
  THEN [t EXCEPT !.best = a] ELSE t

\* best and best_median; at first the median is infinite.
Better(t, a, median) ==
  IF t.measured = <<>> \/ median < t.median
  THEN [t EXCEPT !.best = a, !.median = median] ELSE t

\* A candidate's warmups and measurements, and the median of these.  The
\* caller's workspace is the budget, so none is skipped.
Measure ==
  /\ pc = "measure" /\ trial.left # <<>>
  /\ LET a == Head(trial.left) IN
       /\ launch' = [algorithm |-> a, given |-> Need[a], rows |-> Config.m]
       /\ \/ \E median \in Time :
               trial' = [Better(trial, a, median) EXCEPT !.left = Tail(trial.left),
                           !.measured = Append(trial.measured, <<a, median>>)]
             /\ UNCHANGED pc
          \/ Goto("unwind") /\ UNCHANGED trial
  /\ UNCHANGED <<model, owner, cache, bound, draft, reported, live, refused, downVars>>

\* The plan is changed once everything has been measured.
Select ==
  /\ pc = "measure" /\ trial.left = <<>>
  /\ draft' = [draft EXCEPT !.plan = trial.best]
  /\ live' = live \ Events
  /\ Goto("store")
  /\ UNCHANGED <<model, owner, cache, bound, trial, reported, launch, refused, downVars>>

-----------------------------------------------------------------------------
(* Keeping a plan *)

\* Mutation: the workspace of the heuristic's first answer is kept.
MutPlanOf(config, a, tuned) ==
  [config |-> config, algorithm |-> a, tuned |-> tuned,
   workspace |-> IF tuned THEN Need[draft.probe] ELSE Need[a]]

\* Algorithm and workspace come from the same result.
PlanOf(config, a, tuned) ==
  [config |-> config, algorithm |-> a, tuned |-> tuned, workspace |-> Need[a]]

Store ==
  /\ pc = "store"
  /\ LET plan == PlanOf(Config, draft.plan, Tuned(model, Slot.bucket)) IN
       /\ cache' = Append(cache, plan)
       /\ reported' = Append(reported, plan)
  /\ bound' = Append(bound, NewPlan)
  /\ draft' = Undrafted /\ trial' = NoTrial
  /\ Goto("next")
  /\ UNCHANGED <<model, owner, live, launch, refused, downVars>>

\* create_plans returns; the last matmul keeps its plan alive.
Ready ==
  /\ pc = "next" /\ AllBound
  /\ Goto("ready")
  /\ UNCHANGED <<model, owner, cache, bound, draft, trial, reported, live,
                 launch, refused, downVars>>

-----------------------------------------------------------------------------
(* Running *)

\* The matmuls of a block that read the same activation.
Groups == {{"ffn_gate", "ffn_up"}, {"ffn_down"}, {"query_gate", "key", "value"},
           {"full_output"}, {"qkv", "beta", "alpha", "gate"}, {"linear_output"},
           {"lm_head"}}

InputSize(config) == config.m * config.k
WeightSize(config) == config.n * config.k
WeightOf(c, role) == Produces(c, role) * Consumes(c, role)

\* run_matmul_group: whoever shares an activation reads as much of it.
GroupAgrees(members, i) ==
  \A j \in members : InputSize(cache[bound[j]].config) = InputSize(cache[bound[i]].config)

\* validate_cublaslt_run_buffers: the weight is of the plan's size, and the
\* workspace is enough.
Accepts(role, plan) ==
  /\ WeightSize(plan.config) = WeightOf(model, role)
  /\ plan.workspace <= Budget

\* One matmul of a chunk, run by itself or in its group.
RunMatmul ==
  /\ pc = "ready"
  /\ \E slots \in {Slots[model]} :
       \E group \in Groups, tokens \in ToSet(Bucket) \cap 1..model.context :
         LET members == {j \in DOMAIN slots : /\ slots[j].tokens = tokens
                                             /\ slots[j].role \in group}
         IN \E i \in members :
              LET plan == cache[bound[i]] IN
                /\ refused' = (refused \/ ~GroupAgrees(members, i) \/ ~Accepts(slots[i].role, plan))
                /\ launch' = [algorithm |-> plan.algorithm, given |-> plan.workspace,
                              rows |-> plan.config.m]
  /\ UNCHANGED <<model, pc, owner, cache, bound, draft, trial, reported, live, downVars>>

\* The session is destroyed, on whatever device its caller is, or the rest of
\* construction has failed.
Close ==
  /\ pc = "ready"
  /\ \E d \in Device : device' = d /\ atClose' = d
  /\ Goto("closing")
  /\ UNCHANGED <<model, owner, cache, bound, draft, trial, reported, live, leaked,
                 denied, launch, refused>>

-----------------------------------------------------------------------------
(* Taking down *)

\* The handler around a query.
ReleasePreference ==
  /\ pc = "unwind" /\ Preferences # {}
  /\ live' = live \ Preferences
  /\ UNCHANGED <<model, pc, owner, cache, bound, draft, trial, reported, launch,
                 refused, downVars>>

ReleaseEvents ==
  /\ pc = "unwind" /\ Events # {}
  /\ live' = live \ Events
  /\ UNCHANGED <<model, pc, owner, cache, bound, draft, trial, reported, launch,
                 refused, downVars>>

\* Plans that are to be destroyed: the probe of a finished search; the probe and
\* the plan that was being made; the plans that were kept.
Falling ==
  CASE pc = "return" -> {0}
    [] pc = "unwind" -> {0, NewPlan}
    [] pc \in {"failing", "closing"} -> DOMAIN cache
    [] OTHER -> {}

\* Mutation: ~Impl returns when there is no operation yet.
MutOwned(plan) ==
  IF Part("description", plan) \in live THEN OwnedBy(plan) ELSE {}

\* ~Impl has nothing to do when create made nothing.
Owned(plan) == OwnedBy(plan)

\* Handlers come before plans.  Plans share nothing, so one order stands for all.
First(plan) ==
  /\ Preferences = {} /\ Events = {}
  /\ \A p \in Falling : p < plan => Owned(p) = {}

Guard(selected, after, refusal) ==
  [selected |-> selected, after |-> after, denied |-> refusal]

\* Mutation: a guard that switched leaves the device.
MutGuards ==
  {Guard(FALSE, device, "select"), Guard(TRUE, Home, "nothing")}

\* BestEffortDeviceGuard, and the device it leaves: it cannot read the device or
\* select its own, is on its own already, or has switched, and then the status
\* of switching back is ignored.
Guards ==
  {Guard(FALSE, device, "select"), Guard(TRUE, device, "nothing")} \cup
  (IF device = Home THEN {} ELSE {Guard(TRUE, Home, "restore")})

\* ~Impl: without its device it destroys nothing, and nobody else will.
ReleasePlan ==
  /\ \E plan \in Falling : \E guard \in Guards :
       /\ Owned(plan) # {} /\ First(plan)
       /\ live' = live \ Owned(plan)
       /\ leaked' = IF guard.selected THEN leaked ELSE leaked \cup Owned(plan)
       /\ device' = guard.after
       /\ \/ guard.denied = "nothing" /\ UNCHANGED denied
          \/ guard.denied # "nothing" /\ Deny(plan, guard.denied)
  /\ UNCHANGED <<model, pc, owner, cache, bound, draft, trial, reported, launch,
                 refused, atClose>>

\* The locals have gone, and the constructor's guard with them, which selects the
\* device of the caller or fails to, before the members go.
LeaveConstructor ==
  /\ pc = "unwind"
  /\ Events = {} /\ \A plan \in Falling : Owned(plan) = {}
  /\ \E d \in Device : device' = d /\ atClose' = d
  /\ owner' = "plan" /\ draft' = Undrafted /\ trial' = NoTrial
  /\ Goto("failing")
  /\ UNCHANGED <<model, cache, bound, reported, live, leaked, denied, launch, refused>>

Gone ==
  /\ pc \in {"failing", "closing"}
  /\ \A plan \in Falling : Owned(plan) = {}
  /\ Goto(IF pc = "failing" THEN "failed" ELSE "closed")
  /\ UNCHANGED <<model, owner, cache, bound, draft, trial, reported, live,
                 launch, refused, downVars>>

PlansNext ==
  \/ Reuse \/ StartCreate \/ CreatePart \/ Query \/ FinishCreate
  \/ BeginTuning \/ Search \/ FinishSearch \/ BeginMeasuring \/ Measure \/ Select
  \/ Store \/ Ready \/ RunMatmul \/ Close
  \/ ReleasePreference \/ ReleaseEvents \/ ReleasePlan
  \/ LeaveConstructor \/ Gone

PlansSpec == PlansInit /\ [][PlansNext]_planVars

-----------------------------------------------------------------------------
(* Properties *)

\* Whatever the heuristic answered and whichever candidate won, the algorithm
\* that is launched, in tuning or in a run, is handed the workspace it needs, no
\* more than there is, and works on no more rows than the activations have.
LaunchesFit ==
  launch # NoLaunch =>
    /\ Need[launch.algorithm] <= launch.given /\ launch.given <= Budget
    /\ launch.rows <= BufferRows(model)

\* Plans that were shared between matmuls by their configuration pass the
\* checks of run_matmul_group and of run in every chunk.
RunsAreAccepted == ~refused

\* A tuned plan ends with the algorithm whose median is least of all that were
\* measured, the first of these.
TunesToTheFastest ==
  (pc = "store" /\ trial # NoTrial) =>
    \E i \in DOMAIN trial.measured :
      /\ draft.plan = trial.measured[i][1]
      /\ \A j \in DOMAIN trial.measured :
           /\ trial.measured[j][2] >= trial.measured[i][2]
           /\ j < i => trial.measured[j][2] > trial.measured[i][2]

\* Wherever construction fails, and when the session goes, every handle,
\* description, layout, preference and event has been given back, the probe's
\* as well.  What has not is what was denied: a preference that was not
\* destroyed, and the parts of a plan that could not select its device, of a
\* plan that was kept all of them.
NothingLeaks ==
  pc \in {"failed", "closed"} =>
    /\ live = {}
    /\ \A r \in leaked :
         <<r.plan, IF r.kind = "preference" THEN "destroy" ELSE "select">> \in denied
    /\ \A plan \in DOMAIN cache :
         <<plan, "select">> \in denied => AllParts(plan) \subseteq leaked

\* Taking the plans down leaves the thread on the device it was on, unless it
\* was denied to a plan to go back there.
CallerDeviceKept ==
  pc \in {"failed", "closed"} =>
    \/ device = atClose
    \/ device = Home /\ \E plan \in DOMAIN cache : <<plan, "restore">> \in denied

PlansServe ==
  LaunchesFit /\ RunsAreAccepted /\ TunesToTheFastest /\ NothingLeaks /\ CallerDeviceKept
=============================================================================
