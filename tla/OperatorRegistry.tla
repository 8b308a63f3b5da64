-------------------------- MODULE OperatorRegistry --------------------------
(***************************************************************************)
(* The registry of kernels: capabilities are registered under names that   *)
(* are used once, and a signature is resolved to the best kernel that can  *)
(* do it.  What was resolved is remembered until the next registration.    *)
(* Registrations live in a deque: a reference to one stays good, so here   *)
(* it is a place in a sequence.  Any allocation may fail.                  *)
(***************************************************************************)
EXTENDS Integers, Sequences, FiniteSets

CONSTANTS
  Capability,  \* what callers register, well formed or not
  Signature    \* what they ask to have resolved

\* Strings have an order, and so have priorities; here both are integers.
OrderedCapabilities == \A c \in Capability : c.name \in Int /\ c.priority \in Int

VARIABLES
  registrations,
  names,       \* names_: those taken
  cache,       \* signature -> place in registrations, for those remembered
  reply        \* what the last call returned, or what it threw

registryVars == <<registrations, names, cache, reply>>

Places == DOMAIN registrations

RegistryInit ==
  /\ registrations = <<>> /\ names = {} /\ cache = <<>>
  /\ reply = [call |-> "none"]

-----------------------------------------------------------------------------
(* Matching *)

InputFits(input, limit) ==
  /\ input.dtype = limit.dtype /\ input.quant = limit.quant
  /\ input.rank = limit.rank /\ input.alignment = limit.alignment
  /\ Len(input.shape) = limit.rank
  /\ Len(limit.min) = limit.rank /\ Len(limit.max) = limit.rank
  /\ \A d \in DOMAIN input.shape : input.shape[d] \in limit.min[d]..limit.max[d]

\* rejection_reason finds none.
Matches(c, s) ==
  /\ s.op = c.op /\ s.regime = c.regime
  /\ s.architecture = c.architecture /\ s.bucket = c.bucket
  /\ s.capture => c.graphSafe
  /\ s.deterministic => c.deterministic
  /\ s.workspace >= c.workspace
  /\ Len(s.inputs) = Len(c.inputs)
  /\ \A i \in DOMAIN s.inputs : InputFits(s.inputs[i], c.inputs[i])

-----------------------------------------------------------------------------
(* Registering *)

WellFormed(c) ==
  /\ c.op # "unspecified" /\ c.architecture = "sm_120a"
  /\ c.bucket # "unspecified" /\ c.provenance # "unspecified"

\* Mutation: what was resolved stays remembered.
MutForget == cache

\* cache_.clear().
Forget == <<>>

Register(c) ==
  /\ WellFormed(c) /\ c.name \notin names
  /\ names' = names \cup {c.name}
  /\ registrations' = Append(registrations, c)
  /\ cache' = Forget
  /\ reply' = [call |-> "register", place |-> Len(registrations')]

RegisterRefused(c) ==
  /\ ~WellFormed(c) \/ c.name \in names
  /\ reply' = [call |-> "register", threw |-> "invalid_argument"]
  /\ UNCHANGED <<registrations, names, cache>>

\* The name is taken before the registration is made: without memory for the
\* second, the name is spent.
RegisterFails(c) ==
  /\ WellFormed(c) /\ c.name \notin names
  /\ \/ names' = names
     \/ names' = names \cup {c.name}
  /\ reply' = [call |-> "register", threw |-> "bad_alloc"]
  /\ UNCHANGED <<registrations, cache>>

-----------------------------------------------------------------------------
(* Resolving *)

\* Mutation: between kernels of one priority the first registered is kept.
MutBefore(c, d) == c.priority > d.priority

Before(c, d) ==
  \/ c.priority > d.priority
  \/ c.priority = d.priority /\ c.name < d.name

\* best after the first k registrations; 0 if none of them matches.
BestOf(s) ==
  LET best[k \in 0..Len(registrations)] ==
        IF k = 0 THEN 0
        ELSE LET c == registrations[k] IN
             IF /\ Matches(c, s)
                /\ best[k - 1] = 0 \/ Before(c, registrations[best[k - 1]])
             THEN k ELSE best[k - 1]
  IN best[Len(registrations)]

ResolveCached(s) ==
  /\ s \in DOMAIN cache
  /\ reply' = [call |-> "resolve", signature |-> s, place |-> cache[s]]
  /\ UNCHANGED <<registrations, names, cache>>

Resolve(s) ==
  /\ s \notin DOMAIN cache /\ BestOf(s) # 0
  /\ cache' = [t \in DOMAIN cache \cup {s} |-> IF t = s THEN BestOf(s) ELSE cache[t]]
  /\ reply' = [call |-> "resolve", signature |-> s, place |-> BestOf(s)]
  /\ UNCHANGED <<registrations, names>>

\* DispatchError: nothing of it is remembered.
ResolveRefused(s) ==
  /\ s \notin DOMAIN cache /\ BestOf(s) = 0
  /\ reply' = [call |-> "resolve", signature |-> s, rejections |-> registrations]
  /\ UNCHANGED <<registrations, names, cache>>

ResolveFails(s) ==
  /\ s \notin DOMAIN cache
  /\ reply' = [call |-> "resolve", signature |-> s, threw |-> "bad_alloc"]
  /\ UNCHANGED <<registrations, names, cache>>

RegistryNext ==
  \/ \E c \in Capability : Register(c) \/ RegisterRefused(c) \/ RegisterFails(c)
  \/ \E s \in Signature :
       ResolveCached(s) \/ Resolve(s) \/ ResolveRefused(s) \/ ResolveFails(s)

RegistrySpec == RegistryInit /\ [][RegistryNext]_registryVars

-----------------------------------------------------------------------------

Registered == {registrations[p] : p \in Places}

\* The kernel that a set of them owes a signature.
Owed(s) == {c \in Registered :
  /\ Matches(c, s)
  /\ \A d \in Registered : Matches(d, s) =>
       \/ d.priority < c.priority
       \/ d.priority = c.priority /\ d.name >= c.name}

\* Whatever was registered before and after, in whatever order and with
\* whatever failures between, an answer is the kernel that the set of those
\* registered by then owes (resolve and its cache).
AnswersWhatIsOwed ==
  reply.call = "resolve" /\ "threw" \notin DOMAIN reply =>
    Owed(reply.signature) =
      IF "place" \in DOMAIN reply THEN {registrations[reply.place]} ELSE {}
=============================================================================
