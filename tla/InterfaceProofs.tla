--------------------------- MODULE InterfaceProofs ---------------------------
(***************************************************************************)
(* What the C interface keeps and checks, for every instance.              *)
(*                                                                         *)
(* Handles: for every number of engines, models and sessions, a session    *)
(* the caller holds reaches its memory, memory is given back to a pool     *)
(* that is there, and in the end nothing is left.  The properties speak of *)
(* the states between two calls; the invariant has to say what is so in    *)
(* the middle of a call.  It counts as a holder of a reference also whoever *)
(* is still to let go of it, an entry of the queue todo, and says that such *)
(* an entry is owed once, by somebody nothing else reaches any more.  Each *)
(* destructor then moves one holder from the objects to the queue or from  *)
(* the queue to nowhere.  Each action has a lemma of its own, about the    *)
(* entry at the head of the queue and what is behind it.                   *)
(*                                                                         *)
(* Tensors: the check of a descriptor is exact for every width of a word   *)
(* and every descriptor: what it accepts lies inside, and what lies inside *)
(* is accepted.  The invariant says that the sum so far has never wrapped, *)
(* which the two checked operations are for.                               *)
(*                                                                         *)
(* Registry: an answer is always the kernel that those registered by then  *)
(* owe.  The loop of resolve has looked at the first k registrations, and  *)
(* what it holds is the best of those: an induction over k.                *)
(***************************************************************************)
EXTENDS HandleLifetimes, TensorValidation, OperatorRegistry,
        FiniteSetTheorems, BoundedSeqLemmas

-----------------------------------------------------------------------------
(* Handles *)

\* What the queue q still holds, and what is behind its head.
In(q, o) == \E i \in 1..Len(q) : q[i] = o
Owes(op, x, h) == In(todo, Do(op, x, h))
Rest(op, x, h) == todo # <<>> /\ In(Tail(todo), Do(op, x, h))

Handle == Engine \cup Model \cup Session

Entry == [op : {"restore", "executor", "owner", "owned", "model", "weights", "loaded",
                "resources", "context", "pool", "created"},
          of : Handle \cup {None}, by : Handle \cup {None}]

\* Nothing but a restore is to be done twice.
OneEach(q) == \A i, j \in 1..Len(q) : q[i] = q[j] /\ q[i].op # "restore" => i = j

\* A model's weights and a session's executor go as soon as they are to go, and
\* nothing waits behind a handle that is being made.
Opening == {"created", "loaded", "owned"}
FirstOps == {"executor", "weights"} \cup Opening

Calm(q) ==
  q \in Seq(Entry) /\ OneEach(q) /\ \A o : In(q, o) => o.op \notin FirstOps

TodoOK ==
  /\ todo \in Seq(Entry)
  /\ todo # <<>> =>
       /\ Calm(Tail(todo))
       /\ Head(todo).op # "restore" => ~In(Tail(todo), Head(todo))
       /\ Head(todo).op \in Opening => Tail(todo) = <<>>

\* The guards in scope are those that an entry of the queue will leave.
Scopes(q) == {i \in 1..Len(q) : q[i].op \in Opening \cup {"restore"}}

GuardsOK == guards \in Seq(Device) /\ Len(guards) = Cardinality(Scopes(todo))

\* Who holds what, between calls and during one: objects the caller or another
\* object reaches, and those that are still to let go of it.
ModelsOf(e) == {m \in Model : engineOf[m] = e /\ modelRefs[m] # {}}

ModelHolder(m, h) ==
  \/ h = m /\ m \in open
  \/ h \in open \cap Session /\ modelOf[h] = m
  \/ Owes("model", m, h)
  \/ Owes("owned", h, h) /\ modelOf[h] = m

ContextHolder(e, h) ==
  \/ h = e /\ e \in open
  \/ h \in ModelsOf(e)
  \/ Owes("context", e, h)

ResourceHolder(e, h) ==
  \/ h = e /\ (contextRefs[e] # {} \/ Owes("created", e, e))
  \/ h \in ModelsOf(e)
  \/ Owes("loaded", h, h) /\ engineOf[h] = e
  \/ h \in Session /\ arena[h] \in {"live", "leaked"} /\ EngineOfSession(h) = e
  \/ Owes("resources", e, h)

ModelsHeld ==
  \A m \in Model : \A h \in Handle : h \in modelRefs[m] <=> ModelHolder(m, h)

ContextsHeld ==
  \A e \in Engine : \A h \in Handle : h \in contextRefs[e] <=> ContextHolder(e, h)

ResourcesHeld ==
  \A e \in Engine : \A h \in Handle : h \in resourceRefs[e] <=> ResourceHolder(e, h)

PoolsHeld ==
  \A e \in Engine : pool[e] = "live" <=> resourceRefs[e] # {} \/ Owes("pool", e, None)

\* Whoever is still to let go of something is reached by nothing else.
OwedOK ==
  /\ \A x, h : Owes("executor", x, h) =>
       h = x /\ x \in Session /\ x \notin open /\ Owes("owner", x, x)
  /\ \A x, h : Owes("owner", x, h) =>
       /\ h = x /\ x \in Session /\ x \notin open
       /\ arena[x] = "live"
  /\ \A x, h : Owes("owned", x, h) =>
       /\ h = x /\ x \in Session /\ x \notin open /\ x \notin executor
       /\ arena[x] = "live"
  /\ \A x, h : Owes("model", x, h) =>
       /\ x \in Model /\ h \notin open
       /\ \/ h = x
          \/ h \in Session /\ modelOf[h] = x
  /\ \A x, h : Owes("weights", x, h) =>
       /\ h = x /\ x \in Model /\ modelRefs[x] = {} /\ engineOf[x] \in Engine
       /\ Owes("resources", engineOf[x], x)
  /\ \A x, h : Owes("loaded", x, h) =>
       /\ h = x /\ x \in Model /\ x \notin open /\ engineOf[x] \in open
       /\ modelRefs[x] = {} /\ weights[x] = "live"
  /\ \A x, h : Owes("context", x, h) =>
       /\ x \in Engine
       /\ \/ h = x /\ x \notin open
          \/ h \in Model /\ engineOf[h] = x /\ modelRefs[h] = {}
  /\ \A x, h : Owes("resources", x, h) =>
       /\ x \in Engine
       /\ \/ h = x /\ contextRefs[x] = {}
          \/ h \in Model /\ engineOf[h] = x /\ modelRefs[h] = {}
          \/ h \in Session /\ arena[h] = "freed" /\ EngineOfSession(h) = x
  /\ \A x, h : Owes("created", x, h) =>
       h = x /\ x \in Engine /\ x \notin open /\ contextRefs[x] = {}
  /\ \A x, h : Owes("pool", x, h) => h = None /\ x \in Engine /\ resourceRefs[x] = {}
  /\ \A x, h : Owes("restore", x, h) => x = None /\ h = None

\* Memory is there as long as somebody reaches it or is still to release it.
MemoryOK ==
  /\ \A m \in Model :
       /\ weights[m] # "none" => engineOf[m] \in Engine
       /\ modelRefs[m] # {} => weights[m] = "live"
       /\ weights[m] = "live" =>
            modelRefs[m] # {} \/ Owes("loaded", m, m) \/ Owes("weights", m, m)
  /\ \A s \in Session :
       /\ arena[s] # "none" <=> modelOf[s] # None
       /\ modelOf[s] # None => weights[modelOf[s]] # "none"
       /\ s \in open => s \in executor /\ arena[s] = "live"
       /\ s \in executor => s \in open \/ Owes("executor", s, s)
       /\ arena[s] = "live" => s \in open \/ Owes("owner", s, s) \/ Owes("owned", s, s)

\* The device a call on an engine or a model found is at the bottom of the
\* guards, for such a call runs no destructor of an executor.
Bottom == IF guards = <<>> THEN device ELSE guards[Len(guards)]

DeviceOK ==
  /\ call \in [kind : {"none", "engine", "model", "session"}, from : Device,
               deviceLost : BOOLEAN]
  /\ call.kind \in {"engine", "model"} =>
       /\ \A x, h : /\ ~Owes("executor", x, h) /\ ~Owes("owner", x, h)
                    /\ ~Owes("owned", x, h)
       /\ ~call.deviceLost => Bottom = call.from

ReachInv ==
  /\ TypeOK /\ TodoOK /\ GuardsOK
  /\ ModelsHeld /\ ContextsHeld /\ ResourcesHeld /\ PoolsHeld
  /\ OwedOK /\ MemoryOK /\ DeviceOK
-----------------------------------------------------------------------------
(* Queues *)

LEMMA ConsFacts ==
  ASSUME NEW S, NEW q \in Seq(S), NEW x \in S
  PROVE  /\ <<x>> \o q \in Seq(S) /\ <<x>> \o q # <<>>
         /\ Len(<<x>> \o q) = Len(q) + 1
         /\ Head(<<x>> \o q) = x /\ Tail(<<x>> \o q) = q
         /\ \A o : In(<<x>> \o q, o) <=> o = x \/ In(q, o)
         /\ (x.op = "restore" \/ ~In(q, x)) /\ OneEach(q) => OneEach(<<x>> \o q)
<1> DEFINE r == <<x>> \o q
<1>1. /\ r \in Seq(S) /\ Len(r) = Len(q) + 1 /\ r[1] = x /\ Len(q) \in Nat
      /\ \A i \in 1..Len(q) : r[i + 1] = q[i]
  OBVIOUS
<1>2. \A i \in 1..Len(r) : i = 1 \/ (i - 1 \in 1..Len(q) /\ r[i] = q[i - 1])
  BY <1>1
<1>3. r # <<>> /\ Head(r) = x /\ Tail(r) = q
  OBVIOUS
<1> HIDE DEF r
<1>4. ASSUME NEW o PROVE In(r, o) <=> o = x \/ In(q, o)
  <2>1. ASSUME In(r, o) PROVE o = x \/ In(q, o)
    <3>1. PICK i \in 1..Len(r) : r[i] = o
      BY <2>1 DEF In
    <3> QED
      BY <1>1, <1>2, <3>1 DEF In
  <2>2. ASSUME In(q, o) PROVE In(r, o)
    <3>1. PICK i \in 1..Len(q) : q[i] = o
      BY <2>2 DEF In
    <3>2. i + 1 \in 1..Len(r) /\ r[i + 1] = o
      BY <1>1, <3>1
    <3> QED
      BY <3>2 DEF In
  <2>3. In(r, x)
    BY <1>1 DEF In
  <2> QED
    BY <2>1, <2>2, <2>3
<1>5. ASSUME x.op = "restore" \/ ~In(q, x), OneEach(q)
      PROVE  OneEach(r)
  <2> SUFFICES ASSUME NEW i \in 1..Len(r), NEW j \in 1..Len(r),
                      r[i] = r[j], r[i].op # "restore"
               PROVE  i = j
    BY DEF OneEach
  <2>1. CASE i = 1 \/ j = 1
    BY <1>1, <1>2, <1>5, <2>1 DEF In
  <2>2. CASE i # 1 /\ j # 1
    <3>1. /\ i - 1 \in 1..Len(q) /\ j - 1 \in 1..Len(q)
          /\ q[i - 1] = q[j - 1] /\ q[i - 1].op # "restore"
      BY <1>2, <2>2
    <3>2. i - 1 = j - 1
      BY <1>5, <3>1 DEF OneEach
    <3> QED
      BY <1>1, <3>2
  <2> QED
    BY <2>1, <2>2
<1> QED
  BY <1>1, <1>3, <1>4, <1>5 DEF r

LEMMA HeadFacts ==
  ASSUME NEW S, NEW q \in Seq(S), q # <<>>
  PROVE  /\ Head(q) \in S /\ Tail(q) \in Seq(S) /\ q = <<Head(q)>> \o Tail(q)
         /\ \A o : In(q, o) <=> o = Head(q) \/ In(Tail(q), o)
         /\ OneEach(q) => /\ OneEach(Tail(q))
                          /\ Head(q).op # "restore" => ~In(Tail(q), Head(q))
<1> DEFINE x == Head(q)
           r == Tail(q)
<1>1. /\ x \in S /\ r \in Seq(S) /\ q = <<x>> \o r /\ Len(q) = Len(r) + 1
      /\ x = q[1] /\ Len(r) \in Nat
      /\ \A i \in 1..Len(r) : r[i] = q[i + 1]
  OBVIOUS
<1> HIDE DEF x, r
<1>2. \A o : In(q, o) <=> o = x \/ In(r, o)
  BY <1>1, ConsFacts
<1>3. ASSUME OneEach(q) PROVE OneEach(r)
  <2> SUFFICES ASSUME NEW i \in 1..Len(r), NEW j \in 1..Len(r),
                      r[i] = r[j], r[i].op # "restore"
               PROVE  i = j
    BY DEF OneEach
  <2>1. i + 1 \in 1..Len(q) /\ j + 1 \in 1..Len(q) /\ q[i + 1] = q[j + 1]
        /\ q[i + 1].op # "restore"
    BY <1>1
  <2>2. i + 1 = j + 1
    BY <1>3, <2>1 DEF OneEach
  <2> QED
    BY <2>2
<1>4. ASSUME OneEach(q), x.op # "restore", In(r, x) PROVE FALSE
  <2>1. PICK i \in 1..Len(r) : r[i] = x
    BY <1>4 DEF In
  <2>2. i + 1 \in 1..Len(q) /\ 1 \in 1..Len(q) /\ q[i + 1] = q[1] /\ q[1].op # "restore"
    BY <1>1, <1>4, <2>1
  <2>3. i + 1 = 1
    BY <1>4, <2>2 DEF OneEach
  <2> QED
    BY <2>3
<1> QED
  BY <1>1, <1>2, <1>3, <1>4 DEF x, r

LEMMA EmptyFacts ==
  /\ \A o : ~In(<<>>, o)
  /\ OneEach(<<>>) /\ Scopes(<<>>) = {}
BY DEF In, OneEach, Scopes

LEMMA ScopesOf ==
  ASSUME NEW S, NEW q \in Seq(S)
  PROVE  IsFiniteSet(Scopes(q)) /\ Cardinality(Scopes(q)) \in Nat
<1>1. IsFiniteSet(1..Len(q))
  BY FS_Interval
<1>2. IsFiniteSet(Scopes(q))
  BY <1>1, FS_Subset DEF Scopes
<1> QED
  BY <1>2, FS_CardinalityType

LEMMA ScopesOfCons ==
  ASSUME NEW S, NEW q \in Seq(S), NEW x \in S
  PROVE  Cardinality(Scopes(<<x>> \o q)) =
           Cardinality(Scopes(q)) + IF x.op \in Opening \cup {"restore"} THEN 1 ELSE 0
<1> DEFINE r == <<x>> \o q
           n == Len(q)
           moved == {i + 1 : i \in Scopes(q)}
           f == [i \in Scopes(q) |-> i + 1]
<1>1. /\ Len(r) = n + 1 /\ r[1] = x /\ n \in Nat
      /\ \A i \in 1..n : r[i + 1] = q[i]
  OBVIOUS
<1>2. IsFiniteSet(Scopes(q)) /\ Cardinality(Scopes(q)) \in Nat
  BY ScopesOf
<1>3. \A i \in Scopes(q) : i \in 1..n
  BY DEF Scopes
<1>4. ExistsBijection(Scopes(q), moved)
  <2>1. f \in [Scopes(q) -> moved]
    OBVIOUS
  <2>2. \A i, j \in Scopes(q) : f[i] = f[j] => i = j
    BY <1>3
  <2>3. \A k \in moved : \E i \in Scopes(q) : f[i] = k
    OBVIOUS
  <2> HIDE DEF f, moved
  <2>4. f \in Bijection(Scopes(q), moved)
    BY <2>1, <2>2, <2>3 DEF Bijection, Injection, Surjection, IsInjective
  <2> QED
    BY <2>4 DEF ExistsBijection
<1>5. IsFiniteSet(moved) /\ Cardinality(moved) = Cardinality(Scopes(q))
  <2> HIDE DEF moved
  <2> QED
    BY <1>2, <1>4, FS_Bijection
<1>6. 1 \notin moved
  BY <1>1, <1>3
<1>7. Scopes(r) = moved \cup (IF x.op \in Opening \cup {"restore"} THEN {1} ELSE {})
  <2>1. \A i \in 1..n : i + 1 \in Scopes(r) <=> i \in Scopes(q)
    BY <1>1 DEF Scopes
  <2>2. 1 \in Scopes(r) <=> x.op \in Opening \cup {"restore"}
    BY <1>1 DEF Scopes
  <2>3. \A k \in Scopes(r) : k = 1 \/ (k - 1 \in 1..n /\ k = (k - 1) + 1)
    BY <1>1 DEF Scopes
  <2>4. \A k \in Scopes(r) : k = 1 \/ k \in moved
    <3> TAKE k \in Scopes(r)
    <3> DEFINE i == k - 1
    <3>1. CASE k # 1
      <4>1. i \in 1..n /\ k = i + 1
        BY <2>3, <3>1
      <4> HIDE DEF i
      <4> QED
        BY <2>1, <4>1
    <3> QED
      BY <3>1
  <2>5. \A k \in moved : k \in Scopes(r)
    BY <1>3, <2>1
  <2> HIDE DEF moved, r
  <2> QED
    BY <2>2, <2>4, <2>5
<1>8. CASE x.op \in Opening \cup {"restore"}
  BY <1>5, <1>6, <1>7, <1>8, FS_AddElement
<1>9. CASE x.op \notin Opening \cup {"restore"}
  <2>1. Scopes(r) = moved
    BY <1>7, <1>9
  <2> HIDE DEF moved, r
  <2>2. Cardinality(Scopes(r)) = Cardinality(Scopes(q))
    BY <1>5, <2>1
  <2> QED
    BY <1>2, <1>9, <2>2 DEF r
<1> QED
  BY <1>8, <1>9

LEMMA AppendTwo ==
  ASSUME NEW S, NEW q \in Seq(S), NEW a \in S, NEW b \in S
  PROVE  <<a, b>> \o q = <<a>> \o (<<b>> \o q)
<1>1. <<a>> \in Seq(S) /\ <<b>> \in Seq(S) /\ <<a, b>> \in Seq(S)
  OBVIOUS
<1>2. <<a, b>> = <<a>> \o <<b>>
  <2> DEFINE r == <<a>> \o <<b>>
             t == <<a, b>>
  <2>1. t \in Seq(S) /\ r \in Seq(S) /\ Len(t) = 2 /\ Len(r) = 2
    BY <1>1, ConcatProperties
  <2>2. t[1] = r[1] /\ t[2] = r[2]
    OBVIOUS
  <2>3. \A i \in 1..Len(t) : t[i] = r[i]
    BY <2>1, <2>2
  <2> HIDE DEF r, t
  <2>4. t = r
    BY <2>1, <2>3, SeqEqual
  <2> QED
    BY <2>4 DEF r, t
<1> QED
  BY <1>1, <1>2, ConcatAssociative

LEMMA JoinThree ==
  ASSUME NEW S, NEW a \in S, NEW b \in S, NEW c \in S
  PROVE  <<a, b>> \o <<c>> = <<a, b, c>>
<1> DEFINE r == <<a, b>> \o <<c>>
           t == <<a, b, c>>
<1>1. <<a, b>> \in Seq(S) /\ <<c>> \in Seq(S) /\ t \in Seq(S)
  OBVIOUS
<1>2. r \in Seq(S) /\ Len(t) = 3 /\ Len(r) = 3
  BY <1>1, ConcatProperties
<1>3. t[1] = r[1] /\ t[2] = r[2] /\ t[3] = r[3]
  OBVIOUS
<1>4. \A i \in 1..Len(t) : t[i] = r[i]
  BY <1>2, <1>3
<1> HIDE DEF r, t
<1>5. t = r
  BY <1>1, <1>2, <1>4, SeqEqual
<1> QED
  BY <1>5 DEF r, t

LEMMA AppendThree ==
  ASSUME NEW S, NEW q \in Seq(S), NEW a \in S, NEW b \in S, NEW c \in S
  PROVE  <<a, b, c>> \o q = <<a, b>> \o (<<c>> \o q)
<1>1. <<a, b>> \in Seq(S) /\ <<c>> \in Seq(S)
  OBVIOUS
<1>2. (<<a, b>> \o <<c>>) \o q = <<a, b>> \o (<<c>> \o q)
  BY <1>1, ConcatAssociative
<1> QED
  BY <1>2, JoinThree

-----------------------------------------------------------------------------
(* The queue of a call *)

\* The entry at the head, and what is behind it.
LEMMA QueueFacts ==
  ASSUME TodoOK, ~Idle
  PROVE  /\ Head(todo) \in Entry /\ Calm(Tail(todo))
         /\ Head(todo) = Do(Head(todo).op, Head(todo).of, Head(todo).by)
         /\ \A op, x, h : Owes(op, x, h) <=>
              \/ op = Head(todo).op /\ x = Head(todo).of /\ h = Head(todo).by
              \/ Rest(op, x, h)
         /\ Head(todo).op # "restore" =>
              ~Rest(Head(todo).op, Head(todo).of, Head(todo).by)
         /\ \A op \in FirstOps : \A x, h : ~Rest(op, x, h)
         /\ Head(todo).op \in Opening => Tail(todo) = <<>> /\ \A op, x, h : ~Rest(op, x, h)
         /\ Cardinality(Scopes(todo)) = Cardinality(Scopes(Tail(todo)))
              + IF Head(todo).op \in Opening \cup {"restore"} THEN 1 ELSE 0
<1>1. todo \in Seq(Entry) /\ todo # <<>>
  BY DEF TodoOK, Idle
<1>2. /\ Head(todo) \in Entry /\ Tail(todo) \in Seq(Entry)
      /\ todo = <<Head(todo)>> \o Tail(todo)
      /\ \A o : In(todo, o) <=> o = Head(todo) \/ In(Tail(todo), o)
  BY <1>1, HeadFacts
<1>3. Head(todo) = Do(Head(todo).op, Head(todo).of, Head(todo).by)
  BY <1>2 DEF Entry, Do
<1>4. \A op, x, h : Head(todo) = Do(op, x, h) <=>
        op = Head(todo).op /\ x = Head(todo).of /\ h = Head(todo).by
  BY <1>3 DEF Do
<1>5. \A op, x, h : Owes(op, x, h) <=> Head(todo) = Do(op, x, h) \/ Rest(op, x, h)
  BY <1>1, <1>2 DEF Owes, Rest
<1>6. Calm(Tail(todo)) /\ (Head(todo).op # "restore" => ~In(Tail(todo), Head(todo)))
      /\ (Head(todo).op \in Opening => Tail(todo) = <<>>)
  BY <1>1 DEF TodoOK
<1>7. Head(todo).op # "restore" => ~Rest(Head(todo).op, Head(todo).of, Head(todo).by)
  BY <1>3, <1>6 DEF Rest
<1>8. \A op \in FirstOps : \A x, h : ~Rest(op, x, h)
  <2>1. \A op, x, h : Do(op, x, h).op = op
    BY DEF Do
  <2> QED
    BY <1>6, <2>1 DEF Calm, Rest
<1>9. Head(todo).op \in Opening => Tail(todo) = <<>> /\ \A op, x, h : ~Rest(op, x, h)
  BY <1>6, EmptyFacts DEF Rest
<1>10. Cardinality(Scopes(todo)) = Cardinality(Scopes(Tail(todo)))
         + IF Head(todo).op \in Opening \cup {"restore"} THEN 1 ELSE 0
  BY <1>2, ScopesOfCons
<1> QED
  BY <1>2, <1>3, <1>4, <1>5, <1>6, <1>7, <1>8, <1>9, <1>10

LEMMA EmptyIsCalm == Calm(<<>>) /\ Cardinality(Scopes(<<>>)) = 0
BY EmptyFacts, FS_EmptySet DEF Calm

\* A calm queue may be put behind an entry that is not in it.
LEMMA CalmCons ==
  ASSUME NEW q, Calm(q), NEW y \in Entry, y.op \notin FirstOps,
         y.op = "restore" \/ ~In(q, y)
  PROVE  /\ Calm(<<y>> \o q)
         /\ \A o : In(<<y>> \o q, o) <=> o = y \/ In(q, o)
         /\ Cardinality(Scopes(<<y>> \o q)) =
              Cardinality(Scopes(q)) + IF y.op = "restore" THEN 1 ELSE 0
<1>1. q \in Seq(Entry) /\ OneEach(q)
  BY DEF Calm
<1>2. /\ <<y>> \o q \in Seq(Entry) /\ OneEach(<<y>> \o q)
      /\ \A o : In(<<y>> \o q, o) <=> o = y \/ In(q, o)
  BY <1>1, ConsFacts
<1>3. Cardinality(Scopes(<<y>> \o q)) =
        Cardinality(Scopes(q)) + IF y.op = "restore" THEN 1 ELSE 0
  BY <1>1, ScopesOfCons DEF FirstOps
<1> QED
  BY <1>2, <1>3 DEF Calm

\* What the queue is after a step that leaves a calm queue, or puts one entry
\* in front of one.
LEMMA LeavesCalm ==
  ASSUME NEW q, Calm(q), todo' = q
  PROVE  TodoOK' /\ \A op, x, h : Owes(op, x, h)' <=> In(q, Do(op, x, h))
<1>1. q \in Seq(Entry)
  BY DEF Calm
<1>2. ASSUME q # <<>>
      PROVE  /\ Calm(Tail(q)) /\ Head(q).op \notin Opening
             /\ Head(q).op # "restore" => ~In(Tail(q), Head(q))
  BY <1>1, <1>2, HeadFacts DEF Calm, FirstOps
<1>3. TodoOK'
  BY <1>1, <1>2 DEF TodoOK, Calm, In, OneEach, Entry, FirstOps, Opening, Handle
<1>4. \A op, x, h : Owes(op, x, h)' <=> In(q, Do(op, x, h))
  BY DEF Owes, In, Do
<1> QED
  BY <1>3, <1>4

LEMMA PutsFirst ==
  ASSUME NEW q, Calm(q), NEW y \in Entry, y.op = "restore" \/ ~In(q, y),
         y.op \in Opening => q = <<>>, todo' = <<y>> \o q
  PROVE  /\ TodoOK'
         /\ \A op, x, h : Owes(op, x, h)' <=> Do(op, x, h) = y \/ In(q, Do(op, x, h))
         /\ Cardinality(Scopes(todo')) = Cardinality(Scopes(q))
              + IF y.op \in Opening \cup {"restore"} THEN 1 ELSE 0
<1>1. q \in Seq(Entry)
  BY DEF Calm
<1> DEFINE r == <<y>> \o q
<1>2. /\ r \in Seq(Entry) /\ r # <<>> /\ Head(r) = y /\ Tail(r) = q
      /\ \A o : In(r, o) <=> o = y \/ In(q, o)
  BY <1>1, ConsFacts
<1>3. Cardinality(Scopes(r)) = Cardinality(Scopes(q))
        + IF y.op \in Opening \cup {"restore"} THEN 1 ELSE 0
  BY <1>1, ScopesOfCons
<1> HIDE DEF r
<1>4. TodoOK'
  BY <1>2 DEF TodoOK, Calm, In, OneEach, Entry, FirstOps, Opening, Handle, r
<1>5. \A op, x, h : Owes(op, x, h)' <=> In(r, Do(op, x, h))
  BY DEF Owes, In, Do, r
<1> QED
  BY <1>2, <1>3, <1>4, <1>5 DEF r

-----------------------------------------------------------------------------
(* Guards *)

LEMMA Selects ==
  ASSUME guards \in Seq(Device), device \in Device, NEW d \in Device, Select(d)
  PROVE  /\ guards' \in Seq(Device) /\ device' \in Device
         /\ Len(guards') = Len(guards) + 1 /\ Bottom' = Bottom
<1>1. /\ guards' = <<device>> \o guards /\ device' = d
      /\ Len(guards') = Len(guards) + 1 /\ Len(guards) \in Nat
      /\ guards' \in Seq(Device) /\ guards' # <<>>
      /\ guards'[1] = device
      /\ \A i \in 1..Len(guards) : guards'[i + 1] = guards[i]
  BY DEF Select
<1>2. Bottom' = guards'[Len(guards) + 1]
  BY <1>1 DEF Bottom
<1>3. CASE guards = <<>>
  BY <1>1, <1>2, <1>3 DEF Bottom
<1>4. CASE guards # <<>>
  <2>1. Len(guards) \in 1..Len(guards)
    BY <1>1, <1>4
  <2> QED
    BY <1>1, <1>2, <1>4, <2>1 DEF Bottom
<1> QED
  BY <1>1, <1>3, <1>4

LEMMA Restores ==
  ASSUME guards \in Seq(Device), device \in Device, guards # <<>>, guards' = Tail(guards)
  PROVE  /\ guards' \in Seq(Device) /\ Len(guards') = Len(guards) - 1
         /\ Head(guards) \in Device
         /\ device' = Head(guards) => Bottom' = Bottom
<1>1. /\ Len(guards') = Len(guards) - 1 /\ Len(guards) \in Nat \ {0}
      /\ guards' \in Seq(Device) /\ Head(guards) = guards[1] /\ guards[1] \in Device
      /\ \A i \in 1..Len(guards) - 1 : guards'[i] = guards[i + 1]
  OBVIOUS
<1>2. ASSUME device' = Head(guards) PROVE Bottom' = Bottom
  <2>1. CASE guards' = <<>>
    <3>1. Len(guards) = 1
      BY <1>1, <2>1, SMTT(30)
    <3> QED
      BY <1>1, <1>2, <2>1, <3>1 DEF Bottom
  <2>2. CASE guards' # <<>>
    <3>1. Len(guards') \in 1..Len(guards) - 1
      BY <1>1, <2>2
    <3> QED
      BY <1>1, <1>2, <2>2, <3>1 DEF Bottom
  <2> QED
    BY <2>1, <2>2
<1> QED
  BY <1>1, <1>2

-----------------------------------------------------------------------------
(* Destructors *)

\* What is known of a queue whose head is an entry.
AtHead(op, x, h) ==
  /\ ~Idle /\ Calm(Tail(todo)) /\ Do(op, x, h) \in Entry
  /\ \A o, y, z : Owes(o, y, z) <=> (o = op /\ y = x /\ z = h) \/ Rest(o, y, z)
  /\ op # "restore" => ~Rest(op, x, h)
  /\ \A o \in FirstOps : \A y, z : ~Rest(o, y, z)
  /\ op \in Opening => Tail(todo) = <<>> /\ \A o, y, z : ~Rest(o, y, z)
  /\ Cardinality(Scopes(Tail(todo))) \in Nat
  /\ Cardinality(Scopes(todo)) =
       Cardinality(Scopes(Tail(todo))) + IF op \in Opening \cup {"restore"} THEN 1 ELSE 0

LEMMA HeadIs ==
  ASSUME TodoOK, NEW op, Next1(op)
  PROVE  /\ AtHead(op, Head(todo).of, Head(todo).by)
         /\ Head(todo) = Do(op, Head(todo).of, Head(todo).by)
<1>1. ~Idle /\ Head(todo).op = op
  BY DEF Next1
<1>2. Cardinality(Scopes(Tail(todo))) \in Nat
  BY <1>1, QueueFacts, ScopesOf DEF Calm
<1> QED
  BY <1>1, <1>2, QueueFacts DEF AtHead

LEMMA RestIn ==
  ASSUME ~Idle
  PROVE  \A o, y, z : Rest(o, y, z) <=> In(Tail(todo), Do(o, y, z))
BY DEF Rest, Idle

LEMMA DoFacts ==
  \A o, y, z, o1, y1, z1 : /\ Do(o, y, z) = Do(o1, y1, z1) <=> o = o1 /\ y = y1 /\ z = z1
                           /\ Do(o, y, z).op = o
BY DEF Do

\* One holder of a model less, who was not the last.
LEMMA ModelShared ==
  ASSUME ReachInv, NEW m, NEW h, AtHead("model", m, h),
         modelRefs' = [modelRefs EXCEPT ![m] = modelRefs[m] \ {h}],
         modelRefs[m] \ {h} # {}, todo' = Tail(todo),
         UNCHANGED <<open, linkVars, contextRefs, resourceRefs, memVars, devVars, call>>
  PROVE  ReachInv'
<1>1. /\ m \in Model /\ h \notin open
      /\ \/ h = m
         \/ h \in Session /\ modelOf[h] = m
  BY DEF ReachInv, OwedOK, AtHead
<1>2. TodoOK' /\ \A o, y, z : Owes(o, y, z)' <=> Rest(o, y, z)
  BY LeavesCalm, RestIn DEF AtHead
<1>3. \A o, y, z : Owes(o, y, z) <=> (o = "model" /\ y = m /\ z = h) \/ Rest(o, y, z)
  BY DEF AtHead
<1>4. ~Rest("model", m, h) /\ ~Owes("owned", h, h) /\ ~Rest("owned", h, h)
  BY DEF AtHead, FirstOps, Opening
<1>5. TypeOK' /\ GuardsOK' /\ DeviceOK'
  <2>1. TypeOK'
    BY <1>1 DEF ReachInv, TypeOK, linkVars, memVars, devVars
  <2>2. GuardsOK'
    BY DEF ReachInv, GuardsOK, AtHead, Opening, devVars
  <2>3. DeviceOK'
    BY <1>2, <1>3 DEF ReachInv, DeviceOK, Bottom, devVars
  <2> QED
    BY <2>1, <2>2, <2>3
<1>6. ModelsHeld'
  BY <1>1, <1>2, <1>3, <1>4
     DEF ReachInv, ModelsHeld, ModelHolder, TypeOK, linkVars, Handle
<1>7. \A n \in Model : modelRefs'[n] = {} <=> modelRefs[n] = {}
  BY <1>1 DEF ReachInv, TypeOK
<1>8. ContextsHeld' /\ ResourcesHeld' /\ PoolsHeld'
  BY <1>1, <1>2, <1>3, <1>4, <1>7
     DEF ReachInv, ContextsHeld, ContextHolder, ResourcesHeld, ResourceHolder, PoolsHeld,
         ModelsOf, EngineOfSession, linkVars, memVars
<1>9. OwedOK'
  BY <1>1, <1>2, <1>3, <1>4, <1>7
     DEF ReachInv, OwedOK, EngineOfSession, linkVars, memVars
<1>10. MemoryOK'
  BY <1>1, <1>2, <1>3, <1>4, <1>7
     DEF ReachInv, MemoryOK, linkVars, memVars
<1> QED
  BY <1>2, <1>5, <1>6, <1>8, <1>9, <1>10 DEF ReachInv

LEMMA EntriesAre ==
  /\ \A e \in Engine : \A h \in Handle :
       /\ Do("resources", e, h) \in Entry /\ Do("context", e, h) \in Entry
       /\ Do("pool", e, None) \in Entry /\ Do("created", e, e) \in Entry
  /\ \A m \in Model : \A h \in Handle :
       /\ Do("weights", m, m) \in Entry /\ Do("loaded", m, m) \in Entry
       /\ Do("model", m, h) \in Entry
  /\ \A s \in Session : /\ Do("executor", s, s) \in Entry /\ Do("owner", s, s) \in Entry
                        /\ Do("owned", s, s) \in Entry
  /\ Restore \in Entry
BY DEF Entry, Do, Handle, Restore

\* Two and three entries in front of a calm queue.
LEMMA PutsTwo ==
  ASSUME NEW q, Calm(q), NEW x \in Entry, NEW y \in Entry,
         x.op \notin Opening, y.op \notin FirstOps, x # y,
         x.op = "restore" \/ ~In(q, x), y.op = "restore" \/ ~In(q, y),
         todo' = <<x, y>> \o q
  PROVE  /\ TodoOK'
         /\ \A o, a, b : Owes(o, a, b)' <=>
              Do(o, a, b) = x \/ Do(o, a, b) = y \/ In(q, Do(o, a, b))
         /\ Cardinality(Scopes(todo')) = Cardinality(Scopes(q))
              + (IF x.op = "restore" THEN 1 ELSE 0) + (IF y.op = "restore" THEN 1 ELSE 0)
<1> DEFINE r == <<y>> \o q
<1>1. q \in Seq(Entry)
  BY DEF Calm
<1>2. todo' = <<x>> \o r
  BY <1>1, AppendTwo
<1>3. /\ Calm(r) /\ \A o : In(r, o) <=> o = y \/ In(q, o)
      /\ Cardinality(Scopes(r)) = Cardinality(Scopes(q)) + IF y.op = "restore" THEN 1 ELSE 0
  BY CalmCons
<1>4. Cardinality(Scopes(q)) \in Nat
  BY <1>1, ScopesOf
<1> HIDE DEF r
<1>5. /\ TodoOK'
      /\ \A o, a, b : Owes(o, a, b)' <=> Do(o, a, b) = x \/ In(r, Do(o, a, b))
      /\ Cardinality(Scopes(todo')) = Cardinality(Scopes(r))
           + IF x.op \in Opening \cup {"restore"} THEN 1 ELSE 0
  BY <1>2, <1>3, PutsFirst
<1>6. x.op \in Opening \cup {"restore"} <=> x.op = "restore"
  OBVIOUS
<1> QED
  BY <1>3, <1>4, <1>5, <1>6

LEMMA PutsThree ==
  ASSUME NEW q, Calm(q), NEW x \in Entry, NEW y \in Entry, NEW z \in Entry,
         x.op \notin Opening, y.op \notin FirstOps, z.op \notin FirstOps,
         x # y, x # z, y # z,
         x.op = "restore" \/ ~In(q, x), y.op = "restore" \/ ~In(q, y),
         z.op = "restore" \/ ~In(q, z),
         todo' = <<x, y, z>> \o q
  PROVE  /\ TodoOK'
         /\ \A o, a, b : Owes(o, a, b)' <=>
              \/ Do(o, a, b) = x \/ Do(o, a, b) = y \/ Do(o, a, b) = z
              \/ In(q, Do(o, a, b))
         /\ Cardinality(Scopes(todo')) = Cardinality(Scopes(q))
              + (IF x.op = "restore" THEN 1 ELSE 0) + (IF y.op = "restore" THEN 1 ELSE 0)
              + (IF z.op = "restore" THEN 1 ELSE 0)
<1> DEFINE r == <<z>> \o q
<1>1. q \in Seq(Entry)
  BY DEF Calm
<1>2. /\ Calm(r) /\ \A o : In(r, o) <=> o = z \/ In(q, o)
      /\ Cardinality(Scopes(r)) = Cardinality(Scopes(q)) + IF z.op = "restore" THEN 1 ELSE 0
  BY CalmCons
<1>3. todo' = <<x, y>> \o r
  BY <1>1, AppendThree
<1>4. Cardinality(Scopes(q)) \in Nat
  BY <1>1, ScopesOf
<1> HIDE DEF r
<1>5. /\ TodoOK'
      /\ \A o, a, b : Owes(o, a, b)' <=>
              Do(o, a, b) = x \/ Do(o, a, b) = y \/ In(r, Do(o, a, b))
      /\ Cardinality(Scopes(todo')) = Cardinality(Scopes(r))
              + (IF x.op = "restore" THEN 1 ELSE 0) + (IF y.op = "restore" THEN 1 ELSE 0)
  BY <1>2, <1>3, PutsTwo
<1> QED
  BY <1>2, <1>4, <1>5

LEMMA PutsEntry ==
  ASSUME NEW op, NEW x, NEW h, AtHead(op, x, h), op \notin Opening \cup {"restore"},
         NEW o1, NEW x1, NEW h1, Do(o1, x1, h1) \in Entry,
         o1 \notin Opening \cup {"restore"}, ~Rest(o1, x1, h1),
         todo' = <<Do(o1, x1, h1)>> \o Tail(todo)
  PROVE  /\ TodoOK'
         /\ \A o, y, z : Owes(o, y, z)' <=>
              (o = o1 /\ y = x1 /\ z = h1) \/ Rest(o, y, z)
         /\ Cardinality(Scopes(todo')) = Cardinality(Scopes(todo))
<1> DEFINE a == Do(o1, x1, h1)
           q == Tail(todo)
<1>1. a.op = o1
  BY DoFacts
<1>2. /\ ~In(q, a) /\ Calm(q) /\ Cardinality(Scopes(q)) \in Nat
      /\ Cardinality(Scopes(todo)) = Cardinality(Scopes(q))
  BY RestIn DEF AtHead
<1>3. \A o, y, z : /\ Rest(o, y, z) <=> In(q, Do(o, y, z))
                   /\ Do(o, y, z) = a <=> o = o1 /\ y = x1 /\ z = h1
  BY RestIn, DoFacts DEF AtHead
<1>4. a \in Entry /\ todo' = <<a>> \o q
  OBVIOUS
<1> HIDE DEF a, q
<1>5. /\ TodoOK'
      /\ \A o, y, z : Owes(o, y, z)' <=> Do(o, y, z) = a \/ In(q, Do(o, y, z))
      /\ Cardinality(Scopes(todo')) = Cardinality(Scopes(q))
           + IF a.op \in Opening \cup {"restore"} THEN 1 ELSE 0
  BY <1>1, <1>2, <1>4, PutsFirst
<1>6. Cardinality(Scopes(todo')) = Cardinality(Scopes(todo))
  BY <1>1, <1>2, <1>5
<1> QED
  BY <1>3, <1>5, <1>6

\* The last holder of a model: its weights, its anchor and its share of the
\* context are to be given back.
LEMMA ModelReleased ==
  ASSUME ReachInv, NEW m, NEW h, AtHead("model", m, h),
         modelRefs' = [modelRefs EXCEPT ![m] = modelRefs[m] \ {h}],
         modelRefs[m] \ {h} = {}, todo' = DropModelState(m) \o Tail(todo),
         UNCHANGED <<open, linkVars, contextRefs, resourceRefs, memVars, devVars, call>>
  PROVE  ReachInv'
<1>1. /\ m \in Model /\ h \notin open
      /\ \/ h = m
         \/ h \in Session /\ modelOf[h] = m
  BY DEF ReachInv, OwedOK, AtHead
<1>2. \A o, y, z : Owes(o, y, z) <=> (o = "model" /\ y = m /\ z = h) \/ Rest(o, y, z)
  BY DEF AtHead
<1>3. ~Rest("model", m, h) /\ ~Owes("owned", h, h) /\ ~Rest("owned", h, h)
  BY DEF AtHead, FirstOps, Opening
<1>4. h \in modelRefs[m] /\ modelRefs'[m] = {}
  BY <1>1, <1>2 DEF ReachInv, ModelsHeld, ModelHolder, Handle, TypeOK
<1>5. \A n \in Model : n # m => modelRefs'[n] = modelRefs[n]
  BY <1>1 DEF ReachInv, TypeOK
<1> DEFINE e == engineOf[m]
<1>6. e \in Engine /\ weights[m] = "live" /\ e' = e
  BY <1>1, <1>4 DEF ReachInv, MemoryOK, linkVars
<1>7. m \in resourceRefs[e] /\ m \in contextRefs[e]
  BY <1>1, <1>4, <1>6
     DEF ReachInv, ResourcesHeld, ResourceHolder, ContextsHeld, ContextHolder, ModelsOf, Handle
<1>8. ~Rest("weights", m, m) /\ ~Rest("resources", e, m) /\ ~Rest("context", e, m)
  <2>1. ~Owes("resources", e, m) /\ ~Owes("context", e, m)
    BY <1>1, <1>4, <1>6, HandleAssumption DEF ReachInv, OwedOK
  <2> QED
    BY <1>2, <2>1 DEF AtHead, FirstOps
<1> HIDE DEF e
<1>9. /\ TodoOK'
      /\ \A o, y, z : Owes(o, y, z)' <=>
           \/ o = "weights" /\ y = m /\ z = m
           \/ o = "resources" /\ y = e /\ z = m
           \/ o = "context" /\ y = e /\ z = m
           \/ Rest(o, y, z)
      /\ Cardinality(Scopes(todo')) = Cardinality(Scopes(Tail(todo)))
  <2> DEFINE a == Do("weights", m, m)
             b == Do("resources", e, m)
             c == Do("context", e, m)
             q == Tail(todo)
  <2>1. a \in Entry /\ b \in Entry /\ c \in Entry
    BY <1>1, <1>6, EntriesAre DEF Handle
  <2>2. /\ a.op = "weights" /\ b.op = "resources" /\ c.op = "context"
        /\ \A o, y, z : /\ Do(o, y, z) = a <=> o = "weights" /\ y = m /\ z = m
                        /\ Do(o, y, z) = b <=> o = "resources" /\ y = e /\ z = m
                        /\ Do(o, y, z) = c <=> o = "context" /\ y = e /\ z = m
    BY DoFacts
  <2>3. ~In(q, a) /\ ~In(q, b) /\ ~In(q, c) /\ Calm(q) /\ Cardinality(Scopes(q)) \in Nat
    BY <1>8, RestIn DEF AtHead
  <2>4. \A o, y, z : Rest(o, y, z) <=> In(q, Do(o, y, z))
    BY RestIn DEF AtHead
  <2>5. todo' = <<a, b, c>> \o q
    <3>1. q \in Seq(Entry)
      BY <2>3 DEF Calm
    <3>2. <<a, b>> \o <<c>> = <<a, b, c>>
      BY <2>1, JoinThree
    <3>3. todo' = (<<a, b>> \o <<c>>) \o q
      BY DEF DropModelState, DropPlan, e
    <3> QED
      BY <3>2, <3>3
  <2> HIDE DEF a, b, c, q
  <2>6. a # b /\ a # c /\ b # c
    BY <2>2
  <2>7. /\ TodoOK'
        /\ \A o, y, z : Owes(o, y, z)' <=>
              \/ Do(o, y, z) = a \/ Do(o, y, z) = b \/ Do(o, y, z) = c
              \/ In(q, Do(o, y, z))
        /\ Cardinality(Scopes(todo')) = Cardinality(Scopes(q))
              + (IF a.op = "restore" THEN 1 ELSE 0) + (IF b.op = "restore" THEN 1 ELSE 0)
              + (IF c.op = "restore" THEN 1 ELSE 0)
    BY <2>1, <2>2, <2>3, <2>5, <2>6, PutsThree DEF FirstOps, Opening
  <2>8. Cardinality(Scopes(todo')) = Cardinality(Scopes(q))
    BY <2>2, <2>3, <2>7
  <2> QED
    BY <2>2, <2>4, <2>7, <2>8 DEF q
<1>10. TypeOK' /\ GuardsOK' /\ DeviceOK'
  <2>1. TypeOK'
    BY <1>1 DEF ReachInv, TypeOK, linkVars, memVars, devVars
  <2>2. GuardsOK'
    BY <1>9 DEF ReachInv, GuardsOK, AtHead, Opening, devVars
  <2>3. DeviceOK'
    BY <1>2, <1>9 DEF ReachInv, DeviceOK, Bottom, devVars
  <2> QED
    BY <2>1, <2>2, <2>3
<1>11. ModelsHeld'
  <2> SUFFICES ASSUME NEW n \in Model, NEW k \in Handle
               PROVE  k \in modelRefs'[n] <=> ModelHolder(n, k)'
    BY DEF ModelsHeld
  <2>1. k \in modelRefs[n] <=> ModelHolder(n, k)
    BY DEF ReachInv, ModelsHeld
  <2>2. ModelHolder(n, k)' <=> \/ k = n /\ n \in open
                               \/ k \in open \cap Session /\ modelOf[k] = n
                               \/ Rest("model", n, k)
                               \/ Rest("owned", k, k) /\ modelOf[k] = n
    BY <1>9 DEF ModelHolder, linkVars
  <2>3. ModelHolder(n, k) <=> \/ k = n /\ n \in open
                              \/ k \in open \cap Session /\ modelOf[k] = n
                              \/ n = m /\ k = h
                              \/ Rest("model", n, k)
                              \/ Rest("owned", k, k) /\ modelOf[k] = n
    BY <1>2 DEF ModelHolder
  <2>4. n = m => (k \in modelRefs[m] => k = h)
    OBVIOUS
  <2> QED
    BY <1>1, <1>3, <1>4, <1>5, <2>1, <2>2, <2>3, <2>4
<1>12. \A n \in Model : modelRefs'[n] = {} <=> modelRefs[n] = {} \/ n = m
  BY <1>1, <1>4, <1>5
<1>13. ContextsHeld'
  BY <1>1, <1>2, <1>6, <1>7, <1>9, <1>12
     DEF ReachInv, ContextsHeld, ContextHolder, ModelsOf, linkVars, e
<1>14. ResourcesHeld' /\ PoolsHeld'
  BY <1>1, <1>2, <1>6, <1>7, <1>9, <1>12
     DEF ReachInv, ResourcesHeld, ResourceHolder, PoolsHeld, ModelsOf, EngineOfSession,
         linkVars, memVars, e
<1>15. OwedOK'
  BY <1>1, <1>2, <1>3, <1>6, <1>9, <1>12
     DEF ReachInv, OwedOK, EngineOfSession, linkVars, memVars, e
<1>16. MemoryOK'
  BY <1>1, <1>2, <1>3, <1>6, <1>9, <1>12
     DEF ReachInv, MemoryOK, linkVars, memVars
<1> QED
  BY <1>9, <1>10, <1>11, <1>13, <1>14, <1>15, <1>16 DEF ReachInv

\* One holder of a context less, who was not the last.
LEMMA ContextShared ==
  ASSUME ReachInv, NEW e, NEW h, AtHead("context", e, h),
         contextRefs' = [contextRefs EXCEPT ![e] = contextRefs[e] \ {h}],
         contextRefs[e] \ {h} # {}, todo' = Tail(todo),
         UNCHANGED <<open, linkVars, resourceRefs, modelRefs, memVars, devVars, call>>
  PROVE  ReachInv'
<1>1. /\ e \in Engine
      /\ \/ h = e /\ e \notin open
         \/ h \in Model /\ engineOf[h] = e /\ modelRefs[h] = {}
  BY DEF ReachInv, OwedOK, AtHead
<1>2. TodoOK' /\ \A o, y, z : Owes(o, y, z)' <=> Rest(o, y, z)
  BY LeavesCalm, RestIn DEF AtHead
<1>3. \A o, y, z : Owes(o, y, z) <=> (o = "context" /\ y = e /\ z = h) \/ Rest(o, y, z)
  BY DEF AtHead
<1>4. ~Rest("context", e, h)
  BY DEF AtHead
<1>5. TypeOK' /\ GuardsOK' /\ DeviceOK'
  <2>1. TypeOK'
    BY <1>1 DEF ReachInv, TypeOK, linkVars, memVars, devVars
  <2>2. GuardsOK'
    BY DEF ReachInv, GuardsOK, AtHead, Opening, devVars
  <2>3. DeviceOK'
    BY <1>2, <1>3 DEF ReachInv, DeviceOK, Bottom, devVars
  <2> QED
    BY <2>1, <2>2, <2>3
<1>6. /\ contextRefs'[e] = contextRefs[e] \ {h}
      /\ \A d \in Engine : d # e => contextRefs'[d] = contextRefs[d]
      /\ \A d \in Engine : contextRefs'[d] = {} <=> contextRefs[d] = {}
  BY <1>1 DEF ReachInv, TypeOK
<1>7. ModelsHeld' /\ PoolsHeld'
  BY <1>2, <1>3 DEF ReachInv, ModelsHeld, ModelHolder, PoolsHeld, linkVars, memVars
<1>8. ContextsHeld'
  <2> SUFFICES ASSUME NEW d \in Engine, NEW k \in Handle
               PROVE  k \in contextRefs'[d] <=> ContextHolder(d, k)'
    BY DEF ContextsHeld
  <2>1. k \in contextRefs[d] <=> ContextHolder(d, k)
    BY DEF ReachInv, ContextsHeld
  <2>2. ModelsOf(d)' = ModelsOf(d)
    BY DEF ModelsOf, linkVars
  <2> QED
    BY <1>1, <1>2, <1>3, <1>4, <1>6, <2>1, <2>2, HandleAssumption
       DEF ContextHolder, ModelsOf
<1>9. ResourcesHeld'
  BY <1>2, <1>3, <1>6
     DEF ReachInv, ResourcesHeld, ResourceHolder, ModelsOf, EngineOfSession,
         linkVars, memVars
<1>10. OwedOK'
  BY <1>1, <1>2, <1>3, <1>6
     DEF ReachInv, OwedOK, EngineOfSession, linkVars, memVars
<1>11. MemoryOK'
  BY <1>2, <1>3 DEF ReachInv, MemoryOK, linkVars, memVars
<1> QED
  BY <1>2, <1>5, <1>7, <1>8, <1>9, <1>10, <1>11 DEF ReachInv

\* The last holder of a context: the context's own hold on the resources.
LEMMA ContextReleased ==
  ASSUME ReachInv, NEW e, NEW h, AtHead("context", e, h),
         contextRefs' = [contextRefs EXCEPT ![e] = contextRefs[e] \ {h}],
         contextRefs[e] \ {h} = {}, todo' = <<Do("resources", e, e)>> \o Tail(todo),
         UNCHANGED <<open, linkVars, resourceRefs, modelRefs, memVars, devVars, call>>
  PROVE  ReachInv'
<1>1. /\ e \in Engine
      /\ \/ h = e /\ e \notin open
         \/ h \in Model /\ engineOf[h] = e /\ modelRefs[h] = {}
  BY DEF ReachInv, OwedOK, AtHead
<1>2. \A o, y, z : Owes(o, y, z) <=> (o = "context" /\ y = e /\ z = h) \/ Rest(o, y, z)
  BY DEF AtHead
<1>3. ~Rest("context", e, h)
  BY DEF AtHead
<1>4. /\ contextRefs'[e] = {} /\ h \in contextRefs[e]
      /\ \A d \in Engine : d # e => contextRefs'[d] = contextRefs[d]
      /\ \A d \in Engine : contextRefs'[d] = {} <=> contextRefs[d] = {} \/ d = e
  BY <1>1, <1>2 DEF ReachInv, TypeOK, ContextsHeld, ContextHolder, Handle
<1>5. e \in resourceRefs[e]
  BY <1>1, <1>4 DEF ReachInv, ResourcesHeld, ResourceHolder, Handle
<1>6. ~Rest("resources", e, e)
  <2>1. ~Owes("resources", e, e)
    BY <1>1, <1>4, HandleAssumption DEF ReachInv, OwedOK
  <2> QED
    BY <1>2, <2>1
<1>7. /\ TodoOK'
      /\ \A o, y, z : Owes(o, y, z)' <=>
           (o = "resources" /\ y = e /\ z = e) \/ Rest(o, y, z)
      /\ Cardinality(Scopes(todo')) = Cardinality(Scopes(todo))
  BY <1>1, <1>6, PutsEntry, EntriesAre DEF Handle, Opening
<1>8. TypeOK' /\ GuardsOK' /\ DeviceOK'
  <2>1. TypeOK'
    BY <1>1 DEF ReachInv, TypeOK, linkVars, memVars, devVars
  <2>2. GuardsOK'
    BY <1>7 DEF ReachInv, GuardsOK, devVars
  <2>3. DeviceOK'
    BY <1>2, <1>7 DEF ReachInv, DeviceOK, Bottom, devVars
  <2> QED
    BY <2>1, <2>2, <2>3
<1>9. ModelsHeld' /\ PoolsHeld'
  BY <1>2, <1>7 DEF ReachInv, ModelsHeld, ModelHolder, PoolsHeld, linkVars, memVars
<1>10. ContextsHeld'
  <2> SUFFICES ASSUME NEW d \in Engine, NEW k \in Handle
               PROVE  k \in contextRefs'[d] <=> ContextHolder(d, k)'
    BY DEF ContextsHeld
  <2>1. k \in contextRefs[d] <=> ContextHolder(d, k)
    BY DEF ReachInv, ContextsHeld
  <2>2. ModelsOf(d)' = ModelsOf(d)
    BY DEF ModelsOf, linkVars
  <2>3. d = e => (k \in contextRefs[e] => k = h)
    OBVIOUS
  <2> QED
    BY <1>1, <1>2, <1>3, <1>4, <1>7, <2>1, <2>2, <2>3, HandleAssumption
       DEF ContextHolder, ModelsOf
<1>11. ResourcesHeld'
  <2> SUFFICES ASSUME NEW d \in Engine, NEW k \in Handle
               PROVE  k \in resourceRefs[d] <=> ResourceHolder(d, k)'
    BY DEF ResourcesHeld
  <2>1. k \in resourceRefs[d] <=> ResourceHolder(d, k)
    BY DEF ReachInv, ResourcesHeld
  <2>2. ModelsOf(d)' = ModelsOf(d)
    BY DEF ModelsOf, linkVars
  <2> QED
    BY <1>1, <1>2, <1>4, <1>5, <1>7, <2>1, <2>2
       DEF ResourceHolder, EngineOfSession, linkVars, memVars
<1>12. OwedOK'
  BY <1>1, <1>2, <1>4, <1>7
     DEF ReachInv, OwedOK, EngineOfSession, linkVars, memVars
<1>13. MemoryOK'
  BY <1>2, <1>7 DEF ReachInv, MemoryOK, linkVars, memVars
<1> QED
  BY <1>7, <1>8, <1>9, <1>10, <1>11, <1>12, <1>13 DEF ReachInv

\* One holder of the resources less, who was not the last.
LEMMA ResourcesShared ==
  ASSUME ReachInv, NEW e, NEW h, AtHead("resources", e, h),
         resourceRefs' = [resourceRefs EXCEPT ![e] = resourceRefs[e] \ {h}],
         resourceRefs[e] \ {h} # {}, todo' = Tail(todo),
         UNCHANGED <<open, linkVars, contextRefs, modelRefs, memVars, devVars, call>>
  PROVE  ReachInv'
<1>1. /\ e \in Engine
      /\ \/ h = e /\ contextRefs[e] = {}
         \/ h \in Model /\ engineOf[h] = e /\ modelRefs[h] = {}
         \/ h \in Session /\ arena[h] = "freed" /\ EngineOfSession(h) = e
  BY DEF ReachInv, OwedOK, AtHead
<1>2. TodoOK' /\ \A o, y, z : Owes(o, y, z)' <=> Rest(o, y, z)
  BY LeavesCalm, RestIn DEF AtHead
<1>3. \A o, y, z : Owes(o, y, z) <=> (o = "resources" /\ y = e /\ z = h) \/ Rest(o, y, z)
  BY DEF AtHead
<1>4. /\ ~Rest("resources", e, h)
      /\ \A o \in FirstOps : \A y, z : ~Owes(o, y, z) /\ ~Rest(o, y, z)
  BY DEF AtHead, FirstOps, Opening
<1>5. TypeOK' /\ GuardsOK' /\ DeviceOK'
  <2>1. TypeOK'
    BY <1>1 DEF ReachInv, TypeOK, linkVars, memVars, devVars
  <2>2. GuardsOK'
    BY DEF ReachInv, GuardsOK, AtHead, Opening, devVars
  <2>3. DeviceOK'
    BY <1>2, <1>3 DEF ReachInv, DeviceOK, Bottom, devVars
  <2> QED
    BY <2>1, <2>2, <2>3
<1>6. /\ resourceRefs'[e] = resourceRefs[e] \ {h}
      /\ \A d \in Engine : d # e => resourceRefs'[d] = resourceRefs[d]
      /\ \A d \in Engine : resourceRefs'[d] = {} <=> resourceRefs[d] = {}
  BY <1>1 DEF ReachInv, TypeOK
<1>7. ModelsHeld' /\ ContextsHeld'
  BY <1>2, <1>3
     DEF ReachInv, ModelsHeld, ModelHolder, ContextsHeld, ContextHolder, ModelsOf, linkVars
<1>8. PoolsHeld'
  BY <1>2, <1>3, <1>6 DEF ReachInv, PoolsHeld, memVars
<1>9. ResourcesHeld'
  <2> SUFFICES ASSUME NEW d \in Engine, NEW k \in Handle
               PROVE  k \in resourceRefs'[d] <=> ResourceHolder(d, k)'
    BY DEF ResourcesHeld
  <2>1. k \in resourceRefs[d] <=> ResourceHolder(d, k)
    BY DEF ReachInv, ResourcesHeld
  <2>2. ModelsOf(d)' = ModelsOf(d)
    BY DEF ModelsOf, linkVars
  <2>3. ResourceHolder(d, k)' <=>
          \/ k = d /\ contextRefs[d] # {}
          \/ k \in ModelsOf(d)
          \/ k \in Session /\ arena[k] \in {"live", "leaked"} /\ EngineOfSession(k) = d
          \/ Rest("resources", d, k)
    BY <1>2, <1>4, <2>2
       DEF ResourceHolder, EngineOfSession, linkVars, memVars, FirstOps, Opening
  <2>4. ResourceHolder(d, k) <=>
          \/ k = d /\ contextRefs[d] # {}
          \/ k \in ModelsOf(d)
          \/ k \in Session /\ arena[k] \in {"live", "leaked"} /\ EngineOfSession(k) = d
          \/ d = e /\ k = h
          \/ Rest("resources", d, k)
    BY <1>3, <1>4 DEF ResourceHolder, FirstOps, Opening
  <2> QED
    BY <1>1, <1>4, <1>6, <2>1, <2>3, <2>4, HandleAssumption DEF ModelsOf
<1>10. OwedOK'
  <2>1. \A y, z : ~Owes("weights", y, z)'
    BY <1>2, <1>4 DEF FirstOps
  <2> QED
    BY <1>1, <1>2, <1>3, <1>6, <2>1
       DEF ReachInv, OwedOK, EngineOfSession, linkVars, memVars
<1>11. MemoryOK'
  BY <1>2, <1>3 DEF ReachInv, MemoryOK, linkVars, memVars
<1> QED
  BY <1>2, <1>5, <1>7, <1>8, <1>9, <1>10, <1>11 DEF ReachInv

\* The last holder of the resources: the pool is to go.
LEMMA ResourcesReleased ==
  ASSUME ReachInv, NEW e, NEW h, AtHead("resources", e, h),
         resourceRefs' = [resourceRefs EXCEPT ![e] = resourceRefs[e] \ {h}],
         resourceRefs[e] \ {h} = {}, todo' = <<Do("pool", e, None)>> \o Tail(todo),
         UNCHANGED <<open, linkVars, contextRefs, modelRefs, memVars, devVars, call>>
  PROVE  ReachInv'
<1>1. /\ e \in Engine
      /\ \/ h = e /\ contextRefs[e] = {}
         \/ h \in Model /\ engineOf[h] = e /\ modelRefs[h] = {}
         \/ h \in Session /\ arena[h] = "freed" /\ EngineOfSession(h) = e
  BY DEF ReachInv, OwedOK, AtHead
<1>2. \A o, y, z : Owes(o, y, z) <=> (o = "resources" /\ y = e /\ z = h) \/ Rest(o, y, z)
  BY DEF AtHead
<1>3. /\ ~Rest("resources", e, h)
      /\ \A o \in FirstOps : \A y, z : ~Owes(o, y, z) /\ ~Rest(o, y, z)
  BY DEF AtHead, FirstOps, Opening
<1>4. /\ resourceRefs'[e] = {} /\ h \in resourceRefs[e]
      /\ \A d \in Engine : d # e => resourceRefs'[d] = resourceRefs[d]
      /\ \A d \in Engine : resourceRefs'[d] = {} <=> resourceRefs[d] = {} \/ d = e
  BY <1>1, <1>2 DEF ReachInv, TypeOK, ResourcesHeld, ResourceHolder, Handle
<1>5. ~Rest("pool", e, None)
  BY <1>2, <1>4 DEF ReachInv, OwedOK
<1>6. /\ TodoOK'
      /\ \A o, y, z : Owes(o, y, z)' <=>
           (o = "pool" /\ y = e /\ z = None) \/ Rest(o, y, z)
      /\ Cardinality(Scopes(todo')) = Cardinality(Scopes(todo))
  BY <1>1, <1>5, PutsEntry, EntriesAre DEF Handle, Opening
<1>7. TypeOK' /\ GuardsOK' /\ DeviceOK'
  <2>1. TypeOK'
    BY <1>1 DEF ReachInv, TypeOK, linkVars, memVars, devVars
  <2>2. GuardsOK'
    BY <1>6 DEF ReachInv, GuardsOK, devVars
  <2>3. DeviceOK'
    BY <1>2, <1>6 DEF ReachInv, DeviceOK, Bottom, devVars
  <2> QED
    BY <2>1, <2>2, <2>3
<1>8. ModelsHeld' /\ ContextsHeld'
  BY <1>2, <1>6
     DEF ReachInv, ModelsHeld, ModelHolder, ContextsHeld, ContextHolder, ModelsOf, linkVars
<1>9. PoolsHeld'
  BY <1>2, <1>4, <1>6 DEF ReachInv, PoolsHeld, memVars
<1>10. ResourcesHeld'
  <2> SUFFICES ASSUME NEW d \in Engine, NEW k \in Handle
               PROVE  k \in resourceRefs'[d] <=> ResourceHolder(d, k)'
    BY DEF ResourcesHeld
  <2>1. k \in resourceRefs[d] <=> ResourceHolder(d, k)
    BY DEF ReachInv, ResourcesHeld
  <2>2. ModelsOf(d)' = ModelsOf(d)
    BY DEF ModelsOf, linkVars
  <2>3. ResourceHolder(d, k)' <=>
          \/ k = d /\ contextRefs[d] # {}
          \/ k \in ModelsOf(d)
          \/ k \in Session /\ arena[k] \in {"live", "leaked"} /\ EngineOfSession(k) = d
          \/ Rest("resources", d, k)
    BY <1>3, <1>6, <2>2
       DEF ResourceHolder, EngineOfSession, linkVars, memVars, FirstOps, Opening
  <2>4. ResourceHolder(d, k) <=>
          \/ k = d /\ contextRefs[d] # {}
          \/ k \in ModelsOf(d)
          \/ k \in Session /\ arena[k] \in {"live", "leaked"} /\ EngineOfSession(k) = d
          \/ d = e /\ k = h
          \/ Rest("resources", d, k)
    BY <1>2, <1>3 DEF ResourceHolder, FirstOps, Opening
  <2>5. d = e => (k \in resourceRefs[e] => k = h)
    OBVIOUS
  <2> QED
    BY <1>1, <1>3, <1>4, <2>1, <2>3, <2>4, <2>5, HandleAssumption DEF ModelsOf
<1>11. OwedOK'
  <2>1. \A y, z : ~Owes("weights", y, z)'
    BY <1>3, <1>6 DEF FirstOps
  <2> QED
    BY <1>1, <1>2, <1>4, <1>6, <2>1
       DEF ReachInv, OwedOK, EngineOfSession, linkVars, memVars
<1>12. MemoryOK'
  BY <1>2, <1>6 DEF ReachInv, MemoryOK, linkVars, memVars
<1> QED
  BY <1>6, <1>7, <1>8, <1>9, <1>10, <1>11, <1>12 DEF ReachInv

\* Work that selects a device first: it is done and the device is to be restored,
\* or it is given up.
LEMMA UnderGuard ==
  ASSUME ReachInv, NEW op, NEW x, NEW h, AtHead(op, x, h),
         op \notin Opening \cup {"restore"}, NEW d \in Device,
         \/ Select(d) /\ Continue(<<Restore>>)
         \/ SelectFails
  PROVE  /\ TodoOK' /\ GuardsOK' /\ DeviceOK' /\ device' \in Device
         /\ \A o, y, z : o # "restore" => (Owes(o, y, z)' <=> Rest(o, y, z))
         /\ \A y, z : Owes("restore", y, z)' => y = None /\ z = None
<1>1. \A o, y, z : Owes(o, y, z) <=> (o = op /\ y = x /\ z = h) \/ Rest(o, y, z)
  BY DEF AtHead
<1>2. \A y, z : Rest("restore", y, z) => y = None /\ z = None
  BY <1>1 DEF ReachInv, OwedOK
<1>3. /\ guards \in Seq(Device) /\ device \in Device /\ Len(guards) \in Nat
      /\ Len(guards) = Cardinality(Scopes(Tail(todo)))
      /\ Calm(Tail(todo))
  BY DEF ReachInv, GuardsOK, TypeOK, AtHead
<1>4. CASE Select(d) /\ Continue(<<Restore>>)
  <2>1. /\ guards' \in Seq(Device) /\ device' \in Device
        /\ Len(guards') = Len(guards) + 1 /\ Bottom' = Bottom
    BY <1>3, <1>4, Selects
  <2>2. Restore \in Entry /\ Restore.op = "restore" /\ Restore = Do("restore", None, None)
    BY EntriesAre, DoFacts DEF Restore
  <2>3. todo' = <<Restore>> \o Tail(todo) /\ call' = call
    BY <1>4 DEF Continue
  <2>4. /\ TodoOK'
        /\ \A o, y, z : Owes(o, y, z)' <=>
             Do(o, y, z) = Restore \/ In(Tail(todo), Do(o, y, z))
        /\ Cardinality(Scopes(todo')) = Cardinality(Scopes(Tail(todo))) + 1
    BY <1>3, <2>2, <2>3, PutsFirst DEF Opening
  <2>5. \A o, y, z : Owes(o, y, z)' <=>
          (o = "restore" /\ y = None /\ z = None) \/ Rest(o, y, z)
    BY <2>2, <2>4, DoFacts, RestIn DEF AtHead
  <2>6. GuardsOK'
    BY <1>3, <2>1, <2>4 DEF GuardsOK
  <2>7. DeviceOK'
    BY <1>1, <2>1, <2>3, <2>5 DEF ReachInv, DeviceOK
  <2> QED
    BY <1>2, <2>1, <2>4, <2>5, <2>6, <2>7
<1>5. CASE SelectFails
  <2>1. todo' = Tail(todo) /\ UNCHANGED devVars /\ call' = [call EXCEPT !.deviceLost = TRUE]
    BY <1>5 DEF SelectFails
  <2>2. TodoOK' /\ \A o, y, z : Owes(o, y, z)' <=> Rest(o, y, z)
    BY <1>3, <2>1, LeavesCalm, RestIn DEF AtHead
  <2>3. GuardsOK' /\ device' \in Device
    BY <1>3, <2>1 DEF GuardsOK, devVars
  <2>4. DeviceOK'
    BY <1>1, <2>1, <2>2 DEF ReachInv, DeviceOK
  <2> QED
    BY <1>2, <2>2, <2>3, <2>4
<1> QED
  BY <1>4, <1>5

\* The allocations of a model go, or stay for good.
LEMMA WeightsGone ==
  ASSUME ReachInv, NEW m, NEW h, AtHead("weights", m, h),
         NEW v \in {"freed", "leaked"}, weights' = [weights EXCEPT ![m] = v],
         \/ Select(DeviceOf[engineOf[m]]) /\ Continue(<<Restore>>)
         \/ SelectFails,
         UNCHANGED <<open, linkVars, refVars, pool, arena, executor>>
  PROVE  ReachInv'
<1>1. /\ m \in Model /\ h = m /\ modelRefs[m] = {} /\ engineOf[m] \in Engine
  BY DEF ReachInv, OwedOK, AtHead
<1>2. \A o, y, z : Owes(o, y, z) <=> (o = "weights" /\ y = m /\ z = m) \/ Rest(o, y, z)
  BY <1>1 DEF AtHead
<1>3. DeviceOf[engineOf[m]] \in Device
  BY <1>1, DeviceOfAssumption
<1>4. /\ TodoOK' /\ GuardsOK' /\ DeviceOK' /\ device' \in Device
      /\ \A o, y, z : o # "restore" => (Owes(o, y, z)' <=> Rest(o, y, z))
      /\ \A y, z : Owes("restore", y, z)' => y = None /\ z = None
  BY <1>3, UnderGuard DEF Opening
<1>5. \A y, z : ~Rest("weights", y, z) /\ ~Rest("loaded", y, z)
  BY DEF AtHead, FirstOps, Opening
<1>6. TypeOK'
  BY <1>1, <1>4 DEF ReachInv, TypeOK, linkVars, refVars, Life
<1>7. ModelsHeld' /\ ContextsHeld'
  BY <1>2, <1>4
     DEF ReachInv, ModelsHeld, ModelHolder, ContextsHeld, ContextHolder, ModelsOf,
         linkVars, refVars
<1>8. ResourcesHeld' /\ PoolsHeld'
  BY <1>2, <1>4
     DEF ReachInv, ResourcesHeld, ResourceHolder, PoolsHeld, ModelsOf, EngineOfSession,
         linkVars, refVars
<1>9. OwedOK'
  BY <1>1, <1>2, <1>4, <1>5
     DEF ReachInv, OwedOK, EngineOfSession, linkVars, refVars
<1>10. \A n \in Model : n # m => weights'[n] = weights[n]
  BY <1>1 DEF ReachInv, TypeOK
<1>11. weights'[m] = v
  BY <1>1 DEF ReachInv, TypeOK
<1>12. MemoryOK'
  BY <1>1, <1>2, <1>4, <1>5, <1>10, <1>11
     DEF ReachInv, MemoryOK, TypeOK, linkVars, refVars
<1> QED
  BY <1>4, <1>6, <1>7, <1>8, <1>9, <1>12 DEF ReachInv

\* The pool goes, or stays for good.
LEMMA PoolGone ==
  ASSUME ReachInv, NEW e, NEW h, AtHead("pool", e, h),
         NEW v \in {"freed", "leaked"}, pool' = [pool EXCEPT ![e] = v],
         \/ Select(DeviceOf[e]) /\ Continue(<<Restore>>)
         \/ SelectFails,
         UNCHANGED <<open, linkVars, refVars, weights, arena, executor>>
  PROVE  ReachInv'
<1>1. e \in Engine /\ h = None /\ resourceRefs[e] = {}
  BY DEF ReachInv, OwedOK, AtHead
<1>2. \A o, y, z : Owes(o, y, z) <=> (o = "pool" /\ y = e /\ z = None) \/ Rest(o, y, z)
  BY <1>1 DEF AtHead
<1>3. DeviceOf[e] \in Device
  BY <1>1, DeviceOfAssumption
<1>4. /\ TodoOK' /\ GuardsOK' /\ DeviceOK' /\ device' \in Device
      /\ \A o, y, z : o # "restore" => (Owes(o, y, z)' <=> Rest(o, y, z))
      /\ \A y, z : Owes("restore", y, z)' => y = None /\ z = None
  BY <1>3, UnderGuard DEF Opening
<1>5. ~Rest("pool", e, None)
  BY <1>1 DEF AtHead
<1>6. TypeOK'
  BY <1>1, <1>4 DEF ReachInv, TypeOK, linkVars, refVars, Life
<1>7. ModelsHeld' /\ ContextsHeld' /\ ResourcesHeld'
  BY <1>2, <1>4
     DEF ReachInv, ModelsHeld, ModelHolder, ContextsHeld, ContextHolder, ResourcesHeld,
         ResourceHolder, ModelsOf, EngineOfSession, linkVars, refVars
<1>8. PoolsHeld'
  BY <1>1, <1>2, <1>4, <1>5 DEF ReachInv, PoolsHeld, TypeOK, refVars
<1>9. OwedOK'
  BY <1>2, <1>4 DEF ReachInv, OwedOK, EngineOfSession, linkVars, refVars
<1>10. MemoryOK'
  BY <1>2, <1>4 DEF ReachInv, MemoryOK, linkVars, refVars
<1> QED
  BY <1>4, <1>6, <1>7, <1>8, <1>9, <1>10 DEF ReachInv

\* The execution owner cannot select its device: its arena stays, and so does
\* the anchor.
LEMMA OwnerLost ==
  ASSUME ReachInv, NEW s, NEW h, AtHead("owner", s, h),
         arena' = [arena EXCEPT ![s] = "leaked"], SelectFails,
         UNCHANGED <<open, linkVars, refVars, pool, weights, executor>>
  PROVE  ReachInv'
<1>1. s \in Session /\ h = s /\ s \notin open /\ arena[s] = "live"
  BY DEF ReachInv, OwedOK, AtHead
<1>2. \A o, y, z : Owes(o, y, z) <=> (o = "owner" /\ y = s /\ z = s) \/ Rest(o, y, z)
  BY <1>1 DEF AtHead
<1>3. device \in Device
  BY DEF ReachInv, TypeOK
<1>4. /\ TodoOK' /\ GuardsOK' /\ DeviceOK' /\ device' \in Device
      /\ \A o, y, z : o # "restore" => (Owes(o, y, z)' <=> Rest(o, y, z))
      /\ \A y, z : Owes("restore", y, z)' => y = None /\ z = None
  BY <1>3, UnderGuard DEF Opening
<1>5. /\ ~Rest("owner", s, s) /\ \A y, z : ~Rest("owned", y, z) /\ ~Rest("executor", y, z)
  BY <1>1 DEF AtHead, FirstOps, Opening
<1>6. /\ arena'[s] = "leaked"
      /\ \A t \in Session : t # s => arena'[t] = arena[t]
  BY <1>1 DEF ReachInv, TypeOK
<1>7. TypeOK'
  BY <1>1, <1>4 DEF ReachInv, TypeOK, linkVars, refVars, Life
<1>8. ModelsHeld' /\ ContextsHeld' /\ PoolsHeld'
  BY <1>2, <1>4
     DEF ReachInv, ModelsHeld, ModelHolder, ContextsHeld, ContextHolder, PoolsHeld,
         ModelsOf, linkVars, refVars
<1>9. ResourcesHeld'
  BY <1>1, <1>2, <1>4, <1>6
     DEF ReachInv, ResourcesHeld, ResourceHolder, ModelsOf, EngineOfSession,
         linkVars, refVars
<1>10. OwedOK'
  BY <1>1, <1>2, <1>4, <1>5, <1>6
     DEF ReachInv, OwedOK, EngineOfSession, linkVars, refVars
<1>11. MemoryOK'
  BY <1>1, <1>2, <1>4, <1>5, <1>6
     DEF ReachInv, MemoryOK, linkVars, refVars
<1> QED
  BY <1>4, <1>7, <1>8, <1>9, <1>10, <1>11 DEF ReachInv

\* The execution owner gives its arena back, and is to let go of the anchor.
LEMMA OwnerClosed ==
  ASSUME ReachInv, NEW s, NEW h, AtHead("owner", s, h),
         arena' = [arena EXCEPT ![s] = "freed"], Select(DeviceOf[EngineOfSession(s)]),
         Continue(<<Do("resources", EngineOfSession(s), s), Restore>>),
         UNCHANGED <<open, linkVars, refVars, pool, weights, executor>>
  PROVE  ReachInv'
<1>1. s \in Session /\ h = s /\ s \notin open /\ arena[s] = "live"
  BY DEF ReachInv, OwedOK, AtHead
<1>2. \A o, y, z : Owes(o, y, z) <=> (o = "owner" /\ y = s /\ z = s) \/ Rest(o, y, z)
  BY <1>1 DEF AtHead
<1> DEFINE e == EngineOfSession(s)
<1>3. modelOf[s] \in Model /\ e \in Engine /\ EngineOfSession(s)' = e
  <2>1. modelOf[s] # None /\ modelOf[s] \in Model
    BY <1>1 DEF ReachInv, MemoryOK, TypeOK
  <2>2. engineOf[modelOf[s]] \in Engine
    BY <1>1, <2>1 DEF ReachInv, MemoryOK
  <2> QED
    BY <2>1, <2>2 DEF EngineOfSession, linkVars
<1>4. \A t : EngineOfSession(t)' = EngineOfSession(t)
  BY DEF EngineOfSession, linkVars
<1>5. /\ ~Rest("owner", s, s) /\ \A y, z : ~Rest("owned", y, z) /\ ~Rest("executor", y, z)
  BY <1>1 DEF AtHead, FirstOps, Opening
<1>6. /\ arena'[s] = "freed"
      /\ \A t \in Session : t # s => arena'[t] = arena[t]
  BY <1>1 DEF ReachInv, TypeOK
<1>7. ~Rest("resources", e, s)
  BY <1>1, <1>2, <1>3, HandleAssumption DEF ReachInv, OwedOK
<1>8. DeviceOf[e] \in Device
  BY <1>3, DeviceOfAssumption
<1> HIDE DEF e
<1>9. /\ guards' \in Seq(Device) /\ device' \in Device
      /\ Len(guards') = Len(guards) + 1 /\ Bottom' = Bottom
  <2>1. guards \in Seq(Device) /\ device \in Device /\ Select(DeviceOf[e])
    BY DEF ReachInv, GuardsOK, TypeOK, e
  <2> QED
    BY <1>8, <2>1, Selects
<1>10. /\ TodoOK' /\ GuardsOK'
       /\ \A o, y, z : Owes(o, y, z)' <=>
            \/ o = "resources" /\ y = e /\ z = s
            \/ o = "restore" /\ y = None /\ z = None
            \/ Rest(o, y, z)
  <2> DEFINE a == Do("resources", e, s)
             q == Tail(todo)
  <2>1. a \in Entry /\ Restore \in Entry /\ a.op = "resources" /\ Restore.op = "restore"
    BY <1>1, <1>3, EntriesAre, DoFacts DEF Handle, Restore
  <2>2. \A o, y, z : /\ Do(o, y, z) = a <=> o = "resources" /\ y = e /\ z = s
                     /\ Do(o, y, z) = Restore <=> o = "restore" /\ y = None /\ z = None
                     /\ Rest(o, y, z) <=> In(q, Do(o, y, z))
    BY DoFacts, RestIn DEF Restore, AtHead
  <2>3. ~In(q, a) /\ Calm(q) /\ Cardinality(Scopes(q)) \in Nat
        /\ Cardinality(Scopes(todo)) = Cardinality(Scopes(q))
    BY <1>7, RestIn DEF AtHead, Opening
  <2>4. todo' = <<a, Restore>> \o q
    BY DEF Continue, e
  <2> HIDE DEF a, q
  <2>5. a # Restore
    BY <2>1
  <2>6. /\ TodoOK'
        /\ \A o, y, z : Owes(o, y, z)' <=>
              Do(o, y, z) = a \/ Do(o, y, z) = Restore \/ In(q, Do(o, y, z))
        /\ Cardinality(Scopes(todo')) = Cardinality(Scopes(q))
              + (IF a.op = "restore" THEN 1 ELSE 0) + (IF Restore.op = "restore" THEN 1 ELSE 0)
    BY <2>1, <2>3, <2>4, <2>5, PutsTwo DEF FirstOps, Opening
  <2>7. Cardinality(Scopes(todo')) = Cardinality(Scopes(todo)) + 1
    BY <2>1, <2>3, <2>6
  <2>8. GuardsOK'
    BY <1>9, <2>7 DEF ReachInv, GuardsOK
  <2> QED
    BY <2>2, <2>6, <2>8
<1>11. DeviceOK'
  BY <1>2, <1>9, <1>10 DEF ReachInv, DeviceOK, Continue
<1>12. TypeOK'
  BY <1>1, <1>9 DEF ReachInv, TypeOK, linkVars, refVars, Life
<1>13. ModelsHeld' /\ ContextsHeld' /\ PoolsHeld'
  BY <1>2, <1>10
     DEF ReachInv, ModelsHeld, ModelHolder, ContextsHeld, ContextHolder, PoolsHeld,
         ModelsOf, linkVars, refVars
<1>14. ResourcesHeld'
  <2> SUFFICES ASSUME NEW d \in Engine, NEW k \in Handle
               PROVE  k \in resourceRefs[d] <=> ResourceHolder(d, k)'
    BY DEF ResourcesHeld, refVars
  <2>1. k \in resourceRefs[d] <=> ResourceHolder(d, k)
    BY DEF ReachInv, ResourcesHeld
  <2>2. ModelsOf(d)' = ModelsOf(d)
    BY DEF ModelsOf, linkVars, refVars
  <2> QED
    BY <1>1, <1>2, <1>3, <1>4, <1>6, <1>10, <2>1, <2>2
       DEF ResourceHolder, linkVars, refVars, e
<1>15. OwedOK'
  BY <1>1, <1>2, <1>3, <1>4, <1>5, <1>6, <1>10
     DEF ReachInv, OwedOK, linkVars, refVars, e
<1>16. MemoryOK'
  BY <1>1, <1>2, <1>5, <1>6, <1>10
     DEF ReachInv, MemoryOK, linkVars, refVars
<1> QED
  BY <1>10, <1>11, <1>12, <1>13, <1>14, <1>15, <1>16 DEF ReachInv

\* A step that changes neither what is held nor what is owed, restores apart.
LEMMA SameHolders ==
  ASSUME ReachInv, device' \in Device,
         \A o, y, z : o # "restore" => (Owes(o, y, z)' <=> Owes(o, y, z)),
         \A y, z : Owes("restore", y, z)' => y = None /\ z = None,
         UNCHANGED <<open, linkVars, refVars, memVars>>
  PROVE  /\ TypeOK' /\ OwedOK' /\ MemoryOK'
         /\ ModelsHeld' /\ ContextsHeld' /\ ResourcesHeld' /\ PoolsHeld'
<1>1. TypeOK'
  BY DEF ReachInv, TypeOK, linkVars, refVars, memVars
<1>2. ModelsHeld' /\ ContextsHeld'
  BY DEF ReachInv, ModelsHeld, ModelHolder, ContextsHeld, ContextHolder, ModelsOf,
         linkVars, refVars
<1>3. ResourcesHeld' /\ PoolsHeld'
  BY DEF ReachInv, ResourcesHeld, ResourceHolder, PoolsHeld, ModelsOf, EngineOfSession,
         linkVars, refVars, memVars
<1>4. OwedOK'
  BY DEF ReachInv, OwedOK, EngineOfSession, linkVars, refVars, memVars
<1>5. MemoryOK'
  BY DEF ReachInv, MemoryOK, linkVars, refVars, memVars
<1> QED
  BY <1>1, <1>2, <1>3, <1>4, <1>5

\* An entry whose work is done in the scope of a guard leaves that guard.
LEMMA GuardThere ==
  ASSUME ReachInv, NEW op, NEW x, NEW h, AtHead(op, x, h),
         op \in Opening \cup {"restore"}
  PROVE  /\ guards # <<>> /\ Head(guards) \in Device
         /\ guards' = Tail(guards) =>
              /\ guards' \in Seq(Device)
              /\ Len(guards') = Cardinality(Scopes(Tail(todo)))
              /\ device' = Head(guards) => Bottom' = Bottom
<1>1. /\ guards \in Seq(Device) /\ device \in Device
      /\ Len(guards) = Cardinality(Scopes(Tail(todo))) + 1
      /\ Cardinality(Scopes(Tail(todo))) \in Nat
  BY DEF ReachInv, GuardsOK, TypeOK, AtHead
<1>2. guards # <<>> /\ Head(guards) \in Device
  BY <1>1
<1>3. ASSUME guards' = Tail(guards)
      PROVE  /\ guards' \in Seq(Device)
             /\ Len(guards') = Cardinality(Scopes(Tail(todo)))
             /\ device' = Head(guards) => Bottom' = Bottom
  BY <1>1, <1>2, <1>3, Restores
<1> QED
  BY <1>2, <1>3

\* A guard goes; the previous device is selected again, unless that fails.
LEMMA Restored ==
  ASSUME ReachInv, NEW x, NEW h, AtHead("restore", x, h),
         guards' = Tail(guards), todo' = Tail(todo),
         \/ device' = Head(guards) /\ UNCHANGED call
         \/ UNCHANGED device /\ call' = [call EXCEPT !.deviceLost = TRUE],
         UNCHANGED <<open, linkVars, refVars, memVars>>
  PROVE  ReachInv'
<1>1. /\ Head(guards) \in Device /\ guards' \in Seq(Device)
      /\ Len(guards') = Cardinality(Scopes(Tail(todo)))
      /\ device' = Head(guards) => Bottom' = Bottom
  BY GuardThere
<1>2. TodoOK' /\ \A o, y, z : Owes(o, y, z)' <=> Rest(o, y, z)
  BY LeavesCalm, RestIn DEF AtHead
<1>3. \A o, y, z : Owes(o, y, z) <=> (o = "restore" /\ y = x /\ z = h) \/ Rest(o, y, z)
  BY DEF AtHead
<1>4. device' \in Device
  BY <1>1 DEF ReachInv, TypeOK
<1>5. \A y, z : Owes("restore", y, z)' => y = None /\ z = None
  BY <1>2, <1>3 DEF ReachInv, OwedOK
<1>6. /\ TypeOK' /\ OwedOK' /\ MemoryOK'
      /\ ModelsHeld' /\ ContextsHeld' /\ ResourcesHeld' /\ PoolsHeld'
  BY <1>2, <1>3, <1>4, <1>5, SameHolders
<1>7. GuardsOK'
  BY <1>1 DEF GuardsOK
<1>8. DeviceOK'
  <2>1. \A o, y, z : Owes(o, y, z)' => Owes(o, y, z)
    BY <1>2, <1>3
  <2>2. CASE device' = Head(guards) /\ UNCHANGED call
    BY <1>1, <2>1, <2>2 DEF ReachInv, DeviceOK
  <2>3. CASE UNCHANGED device /\ call' = [call EXCEPT !.deviceLost = TRUE]
    BY <2>1, <2>3 DEF ReachInv, DeviceOK
  <2> QED
    BY <2>2, <2>3
<1> QED
  BY <1>2, <1>6, <1>7, <1>8 DEF ReachInv

\* An executor goes, and with it maybe the thread's device: no call on an
\* engine or a model does this.
LEMMA ExecutorDropped ==
  ASSUME ReachInv, NEW s, NEW h, AtHead("executor", s, h),
         executor' = executor \ {s}, todo' = Tail(todo),
         device' \in {device, DeviceOf[EngineOfSession(s)]},
         UNCHANGED <<open, linkVars, refVars, pool, weights, arena, guards, call>>
  PROVE  ReachInv'
<1>1. /\ s \in Session /\ h = s /\ s \notin open /\ Owes("owner", s, s)
      /\ call.kind \notin {"engine", "model"}
  <2>1. Owes("executor", s, h)
    BY DEF AtHead
  <2> QED
    BY <2>1 DEF ReachInv, OwedOK, DeviceOK
<1>2. \A o, y, z : Owes(o, y, z) <=> (o = "executor" /\ y = s /\ z = s) \/ Rest(o, y, z)
  BY <1>1 DEF AtHead
<1>3. TodoOK' /\ \A o, y, z : Owes(o, y, z)' <=> Rest(o, y, z)
  BY LeavesCalm, RestIn DEF AtHead
<1>4. \A y, z : ~Rest("owned", y, z) /\ ~Rest("executor", y, z) /\ ~Owes("owned", y, z)
  BY <1>2 DEF AtHead, FirstOps, Opening
<1>5. EngineOfSession(s) \in Engine
  <2>1. modelOf[s] # None /\ modelOf[s] \in Model
    BY <1>1 DEF ReachInv, OwedOK, MemoryOK, TypeOK
  <2> QED
    BY <1>1, <2>1 DEF ReachInv, MemoryOK, EngineOfSession
<1>6. device' \in Device
  BY <1>5, DeviceOfAssumption DEF ReachInv, TypeOK
<1>7. TypeOK' /\ GuardsOK' /\ DeviceOK'
  <2>1. TypeOK'
    BY <1>6 DEF ReachInv, TypeOK, linkVars, refVars
  <2>2. GuardsOK'
    BY DEF ReachInv, GuardsOK, AtHead, Opening
  <2>3. DeviceOK'
    BY <1>1 DEF ReachInv, DeviceOK
  <2> QED
    BY <2>1, <2>2, <2>3
<1>8. ModelsHeld' /\ ContextsHeld'
  BY <1>2, <1>3
     DEF ReachInv, ModelsHeld, ModelHolder, ContextsHeld, ContextHolder, ModelsOf,
         linkVars, refVars
<1>9. ResourcesHeld' /\ PoolsHeld'
  BY <1>2, <1>3
     DEF ReachInv, ResourcesHeld, ResourceHolder, PoolsHeld, ModelsOf, EngineOfSession,
         linkVars, refVars
<1>10. OwedOK'
  BY <1>2, <1>3, <1>4
     DEF ReachInv, OwedOK, EngineOfSession, linkVars, refVars
<1>11. MemoryOK'
  BY <1>1, <1>2, <1>3, <1>4 DEF ReachInv, MemoryOK, linkVars, refVars
<1> QED
  BY <1>3, <1>7, <1>8, <1>9, <1>10, <1>11 DEF ReachInv

\* Behind a handle that is being made nothing waits.
LEMMA OpeningAlone ==
  ASSUME ReachInv, NEW op, NEW x, NEW h, AtHead(op, x, h), op \in Opening
  PROVE  /\ h = x /\ x \notin open
         /\ \A o, y, z : Owes(o, y, z) <=> o = op /\ y = x /\ z = x
         /\ Tail(todo) = <<>> /\ \A o, y, z : ~Rest(o, y, z)
         /\ Cardinality(Scopes(todo)) = 1
<1>1. Owes(op, x, h) /\ Tail(todo) = <<>> /\ \A o, y, z : ~Rest(o, y, z)
  BY DEF AtHead
<1>2. h = x /\ x \notin open
  BY <1>1 DEF ReachInv, OwedOK, Opening
<1>3. Cardinality(Scopes(todo)) = Cardinality(Scopes(Tail(todo))) + 1
  BY DEF AtHead
<1>4. Cardinality(Scopes(Tail(todo))) = 0
  <2> DEFINE q == Tail(todo)
  <2>1. q = <<>>
    BY <1>1
  <2> HIDE DEF q
  <2>2. Cardinality(Scopes(q)) = 0
    BY <2>1, EmptyIsCalm
  <2> QED
    BY <2>2 DEF q
<1> QED
  BY <1>1, <1>2, <1>3, <1>4 DEF AtHead

\* A handle is made: the guard goes and nothing is left to do.
LEMMA Opened ==
  ASSUME ReachInv, NEW op, NEW x, NEW h, AtHead(op, x, h), op \in Opening,
         device' = Head(guards), guards' = Tail(guards), todo' = Tail(todo),
         UNCHANGED call
  PROVE  /\ TodoOK' /\ GuardsOK' /\ DeviceOK' /\ device' \in Device
         /\ \A o, y, z : ~Owes(o, y, z)'
<1>1. /\ Head(guards) \in Device /\ guards' \in Seq(Device)
      /\ Len(guards') = Cardinality(Scopes(Tail(todo)))
      /\ Bottom' = Bottom
  BY GuardThere
<1>2. TodoOK' /\ \A o, y, z : Owes(o, y, z)' <=> Rest(o, y, z)
  BY LeavesCalm, RestIn DEF AtHead
<1>3. \A o, y, z : ~Owes(o, y, z)'
  BY <1>2, OpeningAlone
<1>4. GuardsOK'
  BY <1>1 DEF GuardsOK
<1>5. DeviceOK'
  BY <1>1, <1>3 DEF ReachInv, DeviceOK
<1> QED
  BY <1>1, <1>2, <1>3, <1>4, <1>5

\* The caller has an engine.
LEMMA EngineMade ==
  ASSUME ReachInv, NEW e, NEW h, AtHead("created", e, h),
         open' = open \cup {e}, contextRefs' = [contextRefs EXCEPT ![e] = {e}],
         device' = Head(guards), guards' = Tail(guards), todo' = Tail(todo),
         UNCHANGED <<linkVars, resourceRefs, modelRefs, memVars, call>>
  PROVE  ReachInv'
<1>1. /\ h = e /\ e \notin open
      /\ \A o, y, z : Owes(o, y, z) <=> o = "created" /\ y = e /\ z = e
  BY OpeningAlone DEF Opening
<1>2. e \in Engine /\ contextRefs[e] = {}
  BY <1>1 DEF ReachInv, OwedOK
<1>3. e \notin Model /\ e \notin Session
  BY <1>2, HandleAssumption
<1>4. /\ TodoOK' /\ GuardsOK' /\ DeviceOK' /\ device' \in Device
      /\ \A o, y, z : ~Owes(o, y, z)'
  BY Opened DEF Opening
<1>5. TypeOK'
  BY <1>2, <1>4 DEF ReachInv, TypeOK, linkVars, memVars
<1>6. /\ contextRefs'[e] = {e}
      /\ \A d \in Engine : d # e => contextRefs'[d] = contextRefs[d]
  BY <1>2 DEF ReachInv, TypeOK
<1>7. ModelsHeld'
  BY <1>1, <1>3, <1>4 DEF ReachInv, ModelsHeld, ModelHolder, linkVars
<1>8. ContextsHeld'
  <2> SUFFICES ASSUME NEW d \in Engine, NEW k \in Handle
               PROVE  k \in contextRefs'[d] <=> ContextHolder(d, k)'
    BY DEF ContextsHeld
  <2>1. k \in contextRefs[d] <=> ContextHolder(d, k)
    BY DEF ReachInv, ContextsHeld
  <2>2. ModelsOf(d)' = ModelsOf(d)
    BY DEF ModelsOf, linkVars
  <2> QED
    BY <1>1, <1>2, <1>3, <1>4, <1>6, <2>1, <2>2 DEF ContextHolder
<1>9. ResourcesHeld' /\ PoolsHeld'
  <2>1. ResourcesHeld'
    <3> SUFFICES ASSUME NEW d \in Engine, NEW k \in Handle
                 PROVE  k \in resourceRefs[d] <=> ResourceHolder(d, k)'
      BY DEF ResourcesHeld
    <3>1. k \in resourceRefs[d] <=> ResourceHolder(d, k)
      BY DEF ReachInv, ResourcesHeld
    <3>2. contextRefs'[d] # {} <=> contextRefs[d] # {} \/ d = e
      BY <1>6
    <3>3. ModelsOf(d)' = ModelsOf(d)
      BY DEF ModelsOf, linkVars
    <3> QED
      BY <1>1, <1>4, <3>1, <3>2, <3>3
         DEF ResourceHolder, EngineOfSession, linkVars, memVars
  <2>2. PoolsHeld'
    BY <1>1, <1>4 DEF ReachInv, PoolsHeld, memVars
  <2> QED
    BY <2>1, <2>2
<1>10. OwedOK'
  BY <1>4 DEF OwedOK
<1>11. MemoryOK'
  BY <1>1, <1>3, <1>4 DEF ReachInv, MemoryOK, linkVars, memVars
<1> QED
  BY <1>4, <1>5, <1>7, <1>8, <1>9, <1>10, <1>11 DEF ReachInv

\* The caller has a model.
LEMMA ModelMade ==
  ASSUME ReachInv, NEW m, NEW h, AtHead("loaded", m, h),
         open' = open \cup {m}, modelRefs' = [modelRefs EXCEPT ![m] = {m}],
         contextRefs' = [contextRefs EXCEPT ![engineOf[m]] = @ \cup {m}],
         device' = Head(guards), guards' = Tail(guards), todo' = Tail(todo),
         UNCHANGED <<linkVars, resourceRefs, memVars, call>>
  PROVE  ReachInv'
<1>1. /\ h = m /\ m \notin open
      /\ \A o, y, z : Owes(o, y, z) <=> o = "loaded" /\ y = m /\ z = m
  BY OpeningAlone DEF Opening
<1>2. m \in Model /\ modelRefs[m] = {} /\ weights[m] = "live"
  BY <1>1 DEF ReachInv, OwedOK
<1>3. m \notin Engine /\ m \notin Session /\ engineOf[m] \in Engine
  BY <1>2, HandleAssumption DEF ReachInv, MemoryOK
<1>4. /\ TodoOK' /\ GuardsOK' /\ DeviceOK' /\ device' \in Device
      /\ \A o, y, z : ~Owes(o, y, z)'
  BY Opened DEF Opening
<1>5. TypeOK'
  BY <1>2, <1>3, <1>4 DEF ReachInv, TypeOK, linkVars, memVars
<1>6. /\ contextRefs'[engineOf[m]] = contextRefs[engineOf[m]] \cup {m}
      /\ \A d \in Engine : d # engineOf[m] => contextRefs'[d] = contextRefs[d]
      /\ modelRefs'[m] = {m}
      /\ \A n \in Model : n # m => modelRefs'[n] = modelRefs[n]
  BY <1>2, <1>3 DEF ReachInv, TypeOK
<1>7. engineOf[m] \in open /\ engineOf[m] \in contextRefs[engineOf[m]]
  BY <1>1, <1>3 DEF ReachInv, OwedOK, ContextsHeld, ContextHolder, Handle
<1>8. ModelsHeld'
  BY <1>1, <1>2, <1>3, <1>4, <1>6 DEF ReachInv, ModelsHeld, ModelHolder, linkVars
<1>9. \A d \in Engine : ModelsOf(d)' = ModelsOf(d) \cup {x \in {m} : engineOf[m] = d}
  BY <1>2, <1>6 DEF ModelsOf, linkVars
<1>10. ContextsHeld'
  <2> SUFFICES ASSUME NEW d \in Engine, NEW k \in Handle
               PROVE  k \in contextRefs'[d] <=> ContextHolder(d, k)'
    BY DEF ContextsHeld
  <2>1. k \in contextRefs[d] <=> ContextHolder(d, k)
    BY DEF ReachInv, ContextsHeld
  <2> QED
    BY <1>1, <1>2, <1>3, <1>4, <1>6, <1>9, <2>1 DEF ContextHolder
<1>11. ResourcesHeld' /\ PoolsHeld'
  <2>1. ResourcesHeld'
    <3> SUFFICES ASSUME NEW d \in Engine, NEW k \in Handle
                 PROVE  k \in resourceRefs[d] <=> ResourceHolder(d, k)'
      BY DEF ResourcesHeld
    <3>1. k \in resourceRefs[d] <=> ResourceHolder(d, k)
      BY DEF ReachInv, ResourcesHeld
    <3>2. contextRefs'[d] = {} <=> contextRefs[d] = {}
      BY <1>6, <1>7
    <3> QED
      BY <1>1, <1>2, <1>4, <1>9, <3>1, <3>2
         DEF ResourceHolder, EngineOfSession, linkVars, memVars
  <2>2. PoolsHeld'
    BY <1>1, <1>4 DEF ReachInv, PoolsHeld, memVars
  <2> QED
    BY <2>1, <2>2
<1>12. OwedOK'
  BY <1>4 DEF OwedOK
<1>13. MemoryOK'
  <2>1. \A n \in Model : /\ modelRefs'[n] # {} <=> modelRefs[n] # {} \/ n = m
                         /\ Owes("loaded", n, n) <=> n = m
                         /\ ~Owes("weights", n, n)
    BY <1>1, <1>6
  <2>2. \A t \in Session : /\ t \in open' <=> t \in open
                           /\ ~Owes("executor", t, t) /\ ~Owes("owner", t, t)
                           /\ ~Owes("owned", t, t)
    BY <1>1, <1>3
  <2> QED
    BY <1>2, <2>1, <2>2 DEF ReachInv, MemoryOK, linkVars, memVars
<1> QED
  BY <1>4, <1>5, <1>8, <1>10, <1>11, <1>12, <1>13 DEF ReachInv

\* The caller has a session.
LEMMA SessionMade ==
  ASSUME ReachInv, NEW s, NEW h, AtHead("owned", s, h),
         open' = open \cup {s}, executor' = executor \cup {s},
         device' = Head(guards), guards' = Tail(guards), todo' = Tail(todo),
         UNCHANGED <<linkVars, refVars, pool, weights, arena, call>>
  PROVE  ReachInv'
<1>1. /\ h = s /\ s \notin open
      /\ \A o, y, z : Owes(o, y, z) <=> o = "owned" /\ y = s /\ z = s
  BY OpeningAlone DEF Opening
<1>2. s \in Session /\ arena[s] = "live"
  BY <1>1 DEF ReachInv, OwedOK
<1>3. s \notin Engine /\ s \notin Model
  BY <1>2, HandleAssumption
<1>4. /\ TodoOK' /\ GuardsOK' /\ DeviceOK' /\ device' \in Device
      /\ \A o, y, z : ~Owes(o, y, z)'
  BY Opened DEF Opening
<1>5. TypeOK'
  BY <1>2, <1>4 DEF ReachInv, TypeOK, linkVars, refVars
<1>6. ModelsHeld'
  BY <1>1, <1>2, <1>3, <1>4 DEF ReachInv, ModelsHeld, ModelHolder, linkVars, refVars
<1>7. ContextsHeld' /\ PoolsHeld'
  BY <1>1, <1>3, <1>4
     DEF ReachInv, ContextsHeld, ContextHolder, PoolsHeld, ModelsOf, linkVars, refVars
<1>8. ResourcesHeld'
  BY <1>1, <1>4
     DEF ReachInv, ResourcesHeld, ResourceHolder, ModelsOf, EngineOfSession,
         linkVars, refVars
<1>9. OwedOK'
  BY <1>4 DEF OwedOK
<1>10. MemoryOK'
  BY <1>1, <1>2, <1>4 DEF ReachInv, MemoryOK, linkVars, refVars
<1> QED
  BY <1>4, <1>5, <1>6, <1>7, <1>8, <1>9, <1>10 DEF ReachInv

\* Two and three entries instead of the one there was.
\* The queue is now two entries, the first of which may leave a guard.
TwoLeft(o1, x1, h1, o2, x2, h2) ==
  /\ TodoOK'
  /\ \A o, y, z : Owes(o, y, z)' <=>
       (o = o1 /\ y = x1 /\ z = h1) \/ (o = o2 /\ y = x2 /\ z = h2)
  /\ Cardinality(Scopes(todo')) =
       (IF o1 = "restore" THEN 1 ELSE 0) + (IF o2 = "restore" THEN 1 ELSE 0)

LEMMA TwoInstead ==
  ASSUME NEW o1, NEW x1, NEW h1, NEW o2, NEW x2, NEW h2,
         Do(o1, x1, h1) \in Entry, Do(o2, x2, h2) \in Entry,
         o1 \notin Opening, o2 \notin FirstOps, o1 # o2, Tail(todo) = <<>>,
         todo' = <<Do(o1, x1, h1), Do(o2, x2, h2)>> \o Tail(todo)
  PROVE  TwoLeft(o1, x1, h1, o2, x2, h2)
<1> DEFINE a == Do(o1, x1, h1)
           b == Do(o2, x2, h2)
           q == Tail(todo)
<1>1. /\ a.op = o1 /\ b.op = o2
      /\ \A o, y, z : /\ Do(o, y, z) = a <=> o = o1 /\ y = x1 /\ z = h1
                      /\ Do(o, y, z) = b <=> o = o2 /\ y = x2 /\ z = h2
  BY DoFacts
<1>2. Calm(q) /\ Cardinality(Scopes(q)) = 0 /\ \A o : ~In(q, o)
  BY EmptyIsCalm, EmptyFacts
<1>3. a \in Entry /\ b \in Entry /\ todo' = <<a, b>> \o q
  OBVIOUS
<1> HIDE DEF a, b, q
<1>4. /\ TodoOK'
      /\ \A o, y, z : Owes(o, y, z)' <=>
           Do(o, y, z) = a \/ Do(o, y, z) = b \/ In(q, Do(o, y, z))
      /\ Cardinality(Scopes(todo')) = Cardinality(Scopes(q))
           + (IF a.op = "restore" THEN 1 ELSE 0) + (IF b.op = "restore" THEN 1 ELSE 0)
  BY <1>1, <1>2, <1>3, PutsTwo
<1> QED
  BY <1>1, <1>2, <1>4 DEF TwoLeft

\* The queue is now three entries.
ThreeLeft(o1, x1, h1, o2, x2, h2, o3, x3, h3) ==
  /\ TodoOK'
  /\ \A o, y, z : Owes(o, y, z)' <=>
       \/ o = o1 /\ y = x1 /\ z = h1
       \/ o = o2 /\ y = x2 /\ z = h2
       \/ o = o3 /\ y = x3 /\ z = h3
  /\ Cardinality(Scopes(todo')) =
       (IF o1 = "restore" THEN 1 ELSE 0) + (IF o2 = "restore" THEN 1 ELSE 0)
         + (IF o3 = "restore" THEN 1 ELSE 0)

LEMMA ThreeInstead ==
  ASSUME NEW o1, NEW x1, NEW h1, NEW o2, NEW x2, NEW h2, NEW o3, NEW x3, NEW h3,
         Do(o1, x1, h1) \in Entry, Do(o2, x2, h2) \in Entry, Do(o3, x3, h3) \in Entry,
         o1 \notin Opening, o2 \notin FirstOps, o3 \notin FirstOps,
         o1 # o2, o1 # o3, o2 # o3, NEW q, q = <<>>,
         todo' = <<Do(o1, x1, h1), Do(o2, x2, h2), Do(o3, x3, h3)>> \o q
  PROVE  ThreeLeft(o1, x1, h1, o2, x2, h2, o3, x3, h3)
<1> DEFINE a == Do(o1, x1, h1)
           b == Do(o2, x2, h2)
           c == Do(o3, x3, h3)
<1>1. /\ a.op = o1 /\ b.op = o2 /\ c.op = o3
      /\ \A o, y, z : /\ Do(o, y, z) = a <=> o = o1 /\ y = x1 /\ z = h1
                      /\ Do(o, y, z) = b <=> o = o2 /\ y = x2 /\ z = h2
                      /\ Do(o, y, z) = c <=> o = o3 /\ y = x3 /\ z = h3
  BY DoFacts
<1>2. Calm(q) /\ Cardinality(Scopes(q)) = 0 /\ \A o : ~In(q, o)
  BY EmptyIsCalm, EmptyFacts
<1>3. a \in Entry /\ b \in Entry /\ c \in Entry /\ todo' = <<a, b, c>> \o q
  OBVIOUS
<1> HIDE DEF a, b, c
<1>4. /\ TodoOK'
      /\ \A o, y, z : Owes(o, y, z)' <=>
           \/ Do(o, y, z) = a \/ Do(o, y, z) = b \/ Do(o, y, z) = c
           \/ In(q, Do(o, y, z))
      /\ Cardinality(Scopes(todo')) = Cardinality(Scopes(q))
           + (IF a.op = "restore" THEN 1 ELSE 0) + (IF b.op = "restore" THEN 1 ELSE 0)
           + (IF c.op = "restore" THEN 1 ELSE 0)
  BY <1>1, <1>2, <1>3, PutsThree
<1> QED
  BY <1>1, <1>2, <1>4 DEF ThreeLeft

\* The engine cannot select the previous device: the guard goes, then what the
\* context holds.
LEMMA EngineGivenUp ==
  ASSUME ReachInv, NEW e, NEW h, AtHead("created", e, h),
         todo' = <<Restore, Do("resources", e, e)>> \o Tail(todo),
         call' = [call EXCEPT !.deviceLost = TRUE],
         UNCHANGED <<open, linkVars, refVars, memVars, devVars>>
  PROVE  ReachInv'
<1>1. /\ h = e /\ e \notin open /\ Tail(todo) = <<>>
      /\ \A o, y, z : Owes(o, y, z) <=> o = "created" /\ y = e /\ z = e
      /\ Cardinality(Scopes(todo)) = 1
  BY OpeningAlone DEF Opening
<1>2. e \in Engine /\ contextRefs[e] = {}
  <2>1. Owes("created", e, e)
    BY <1>1
  <2> QED
    BY <2>1 DEF ReachInv, OwedOK
<1>3. /\ TodoOK'
      /\ \A o, y, z : Owes(o, y, z)' <=>
           (o = "restore" /\ y = None /\ z = None) \/ (o = "resources" /\ y = e /\ z = e)
      /\ Cardinality(Scopes(todo')) = 1
  <2>1. Do("restore", None, None) \in Entry /\ Do("resources", e, e) \in Entry
    BY <1>2, EntriesAre DEF Restore, Handle
  <2>2. "restore" \notin Opening /\ "resources" \notin FirstOps
    BY DEF FirstOps, Opening
  <2>3. todo' = <<Do("restore", None, None), Do("resources", e, e)>> \o Tail(todo)
    BY DEF Restore
  <2>4. Tail(todo) = <<>> /\ "restore" # "resources"
    BY <1>1
  <2>5. TwoLeft("restore", None, None, "resources", e, e)
    BY ONLY <2>1, <2>2, <2>3, <2>4, TwoInstead
  <2> QED
    BY ONLY <2>5 DEF TwoLeft
<1>4. Cardinality(Scopes(todo)) = 1
  BY <1>1
<1>5. TypeOK' /\ GuardsOK' /\ DeviceOK'
  <2>1. TypeOK' /\ GuardsOK'
    BY <1>3, <1>4
       DEF ReachInv, TypeOK, GuardsOK, linkVars, refVars, memVars, devVars
  <2>2. DeviceOK'
    BY <1>3 DEF ReachInv, DeviceOK
  <2> QED
    BY <2>1, <2>2
<1>6. ModelsHeld' /\ ContextsHeld' /\ PoolsHeld'
  BY <1>1, <1>3
     DEF ReachInv, ModelsHeld, ModelHolder, ContextsHeld, ContextHolder, PoolsHeld,
         ModelsOf, linkVars, refVars, memVars
<1>7. ResourcesHeld'
  BY <1>1, <1>3
     DEF ReachInv, ResourcesHeld, ResourceHolder, ModelsOf, EngineOfSession,
         linkVars, refVars, memVars
<1>8. OwedOK'
  BY <1>2, <1>3 DEF OwedOK, refVars
<1>9. MemoryOK'
  BY <1>1, <1>3 DEF ReachInv, MemoryOK, linkVars, refVars, memVars
<1> QED
  BY <1>3, <1>5, <1>6, <1>7, <1>8, <1>9 DEF ReachInv

\* A model that could not be loaded, or not be attached: its plan goes.
PlanGoes(m) ==
  /\ TodoOK' /\ GuardsOK' /\ DeviceOK' /\ device' \in Device
  /\ \A o, y, z : o # "restore" =>
       (Owes(o, y, z)' <=> \/ o = "weights" /\ y = m /\ z = m
                           \/ o = "resources" /\ y = engineOf[m] /\ z = m)
  /\ \A y, z : Owes("restore", y, z)' => y = None /\ z = None

LEMMA LoadedFacts ==
  ASSUME ReachInv, NEW m, NEW h, AtHead("loaded", m, h)
  PROVE  /\ h = m /\ m \in Model /\ m \notin open /\ Tail(todo) = <<>>
         /\ modelRefs[m] = {} /\ weights[m] = "live" /\ engineOf[m] \in Engine
         /\ Do("weights", m, m) \in Entry /\ Do("resources", engineOf[m], m) \in Entry
         /\ \A o, y, z : Owes(o, y, z) <=> o = "loaded" /\ y = m /\ z = m
         /\ Cardinality(Scopes(todo)) = 1
<1>1. /\ h = m /\ m \notin open /\ Tail(todo) = <<>>
      /\ \A o, y, z : Owes(o, y, z) <=> o = "loaded" /\ y = m /\ z = m
      /\ Cardinality(Scopes(todo)) = 1
  BY OpeningAlone DEF Opening
<1>2. m \in Model /\ modelRefs[m] = {} /\ weights[m] = "live" /\ engineOf[m] \in Engine
  BY <1>1 DEF ReachInv, OwedOK, MemoryOK
<1>3. Do("weights", m, m) \in Entry /\ Do("resources", engineOf[m], m) \in Entry
  BY <1>2, EntriesAre DEF Handle
<1> QED
  BY <1>1, <1>2, <1>3

LEMMA PlanDropped ==
  ASSUME ReachInv, NEW m, NEW h, AtHead("loaded", m, h), PlanGoes(m),
         UNCHANGED <<open, linkVars, refVars, memVars>>
  PROVE  ReachInv'
<1>1. /\ m \in Model /\ m \notin open /\ modelRefs[m] = {}
      /\ engineOf[m] \in Engine
      /\ \A o, y, z : Owes(o, y, z) <=> o = "loaded" /\ y = m /\ z = m
  BY LoadedFacts
<1>2. /\ TodoOK' /\ GuardsOK' /\ DeviceOK' /\ device' \in Device
      /\ \A o, y, z : o # "restore" =>
           (Owes(o, y, z)' <=> \/ o = "weights" /\ y = m /\ z = m
                               \/ o = "resources" /\ y = engineOf[m] /\ z = m)
      /\ \A y, z : Owes("restore", y, z)' => y = None /\ z = None
  BY DEF PlanGoes
<1>3. TypeOK'
  BY <1>2 DEF ReachInv, TypeOK, linkVars, refVars, memVars
<1>4. ModelsHeld' /\ ContextsHeld' /\ PoolsHeld'
  BY <1>1, <1>2
     DEF ReachInv, ModelsHeld, ModelHolder, ContextsHeld, ContextHolder, PoolsHeld,
         ModelsOf, linkVars, refVars, memVars
<1>5. ResourcesHeld'
  BY <1>1, <1>2
     DEF ReachInv, ResourcesHeld, ResourceHolder, ModelsOf, EngineOfSession,
         linkVars, refVars, memVars
<1>6. OwedOK'
  BY <1>1, <1>2 DEF OwedOK, linkVars, refVars
<1>7. MemoryOK'
  BY <1>1, <1>2 DEF ReachInv, MemoryOK, linkVars, refVars, memVars
<1> QED
  BY <1>2, <1>3, <1>4, <1>5, <1>6, <1>7 DEF ReachInv

\* An allocation or a copy of the load throws, in the scope of the guard.
LEMMA LoadGivenUp ==
  ASSUME ReachInv, NEW m, NEW h, AtHead("loaded", m, h),
         todo' = (DropPlan(m) \o <<Restore>>) \o Tail(todo),
         UNCHANGED <<open, linkVars, refVars, memVars, devVars, call>>
  PROVE  ReachInv'
<1> DEFINE a == Do("weights", m, m)
           b == Do("resources", engineOf[m], m)
           c == Do("restore", None, None)
           q == Tail(todo)
<1>1. a \in Entry /\ b \in Entry /\ c \in Entry /\ q = <<>> /\ Cardinality(Scopes(todo)) = 1
  BY LoadedFacts, EntriesAre DEF Restore
<1>2. todo' = <<a, b, c>> \o q
  <2>1. <<a, b>> \o <<c>> = <<a, b, c>>
    BY <1>1, JoinThree
  <2>2. todo' = (<<a, b>> \o <<c>>) \o q
    BY DEF DropPlan, Restore
  <2> QED
    BY <2>1, <2>2
<1>3. /\ "weights" \notin Opening /\ "resources" \notin FirstOps /\ "restore" \notin FirstOps
      /\ "weights" # "resources" /\ "weights" # "restore" /\ "resources" # "restore"
  BY DEF Opening, FirstOps
<1> HIDE DEF q
<1>4. /\ TodoOK'
      /\ \A o, y, z : Owes(o, y, z)' <=>
           \/ o = "weights" /\ y = m /\ z = m
           \/ o = "resources" /\ y = engineOf[m] /\ z = m
           \/ o = "restore" /\ y = None /\ z = None
      /\ Cardinality(Scopes(todo')) = 1
  <2>1. ThreeLeft("weights", m, m, "resources", engineOf[m], m, "restore", None, None)
    BY ONLY <1>1, <1>2, <1>3, ThreeInstead
  <2> QED
    BY ONLY <2>1 DEF ThreeLeft
<1>5. Cardinality(Scopes(todo')) = 1
  BY <1>4
<1>6. GuardsOK'
  BY <1>1, <1>5 DEF ReachInv, GuardsOK, devVars
<1>7. DeviceOK'
  BY <1>4 DEF ReachInv, DeviceOK, Bottom, devVars
<1>8. device' \in Device
  BY DEF ReachInv, TypeOK, devVars
<1>9. PlanGoes(m)
  BY <1>4, <1>6, <1>7, <1>8 DEF PlanGoes
<1> QED
  BY <1>9, PlanDropped

\* There is no host memory for the model: the guard is gone already.
LEMMA AttachGivenUp ==
  ASSUME ReachInv, NEW m, NEW h, AtHead("loaded", m, h),
         device' = Head(guards), guards' = Tail(guards),
         todo' = DropPlan(m) \o Tail(todo),
         UNCHANGED <<open, linkVars, refVars, memVars, call>>
  PROVE  ReachInv'
<1> DEFINE a == Do("weights", m, m)
           b == Do("resources", engineOf[m], m)
           q == Tail(todo)
<1>1. a \in Entry /\ b \in Entry /\ q = <<>>
  BY LoadedFacts
<1>2. todo' = <<a, b>> \o Tail(todo)
  BY DEF DropPlan
<1>3. "weights" \notin Opening /\ "resources" \notin FirstOps /\ "weights" # "resources"
  BY DEF Opening, FirstOps
<1>4. /\ TodoOK'
      /\ \A o, y, z : Owes(o, y, z)' <=>
           \/ o = "weights" /\ y = m /\ z = m
           \/ o = "resources" /\ y = engineOf[m] /\ z = m
      /\ Cardinality(Scopes(todo')) = 0
  <2>1. TwoLeft("weights", m, m, "resources", engineOf[m], m)
    BY ONLY <1>1, <1>2, <1>3, TwoInstead
  <2> QED
    BY ONLY <2>1 DEF TwoLeft
<1>5. /\ Head(guards) \in Device /\ guards' \in Seq(Device) /\ Bottom' = Bottom
      /\ Len(guards') = Cardinality(Scopes(q))
  BY GuardThere DEF Opening
<1>6. GuardsOK'
  <2>1. Cardinality(Scopes(q)) = 0
    BY <1>1, EmptyIsCalm
  <2>2. Cardinality(Scopes(todo')) = 0
    BY <1>4
  <2> QED
    BY <1>5, <2>1, <2>2 DEF GuardsOK
<1>7. DeviceOK'
  BY <1>4, <1>5 DEF ReachInv, DeviceOK
<1>8. PlanGoes(m)
  BY <1>4, <1>5, <1>6, <1>7 DEF PlanGoes
<1> QED
  BY <1>8, PlanDropped

\* A session that could not be constructed lets go of its owner and its model.
LEMMA OwnedFacts ==
  ASSUME ReachInv, NEW s, NEW h, AtHead("owned", s, h)
  PROVE  /\ h = s /\ s \in Session /\ s \notin open /\ s \notin executor
         /\ Tail(todo) = <<>> /\ arena[s] = "live" /\ modelOf[s] \in Model
         /\ Do("executor", s, s) \in Entry /\ Do("owner", s, s) \in Entry
         /\ Do("model", modelOf[s], s) \in Entry
         /\ \A o, y, z : Owes(o, y, z) <=> o = "owned" /\ y = s /\ z = s
         /\ Cardinality(Scopes(todo)) = 1
         /\ call.kind \notin {"engine", "model"}
<1>1. /\ h = s /\ s \notin open /\ Tail(todo) = <<>>
      /\ \A o, y, z : Owes(o, y, z) <=> o = "owned" /\ y = s /\ z = s
      /\ Cardinality(Scopes(todo)) = 1
  BY OpeningAlone DEF Opening
<1>2. Owes("owned", s, s)
  BY <1>1
<1>3. s \in Session /\ s \notin executor /\ arena[s] = "live"
  BY <1>2 DEF ReachInv, OwedOK
<1>4. modelOf[s] \in Model
  BY <1>3 DEF ReachInv, MemoryOK, TypeOK
<1>5. /\ Do("executor", s, s) \in Entry /\ Do("owner", s, s) \in Entry
      /\ Do("model", modelOf[s], s) \in Entry
  BY <1>3, <1>4, EntriesAre DEF Handle
<1>6. call.kind \notin {"engine", "model"}
  BY <1>2 DEF ReachInv, DeviceOK
<1> QED
  BY <1>1, <1>3, <1>4, <1>5, <1>6

LEMMA SessionGivenUp ==
  ASSUME ReachInv, NEW s, NEW h, AtHead("owned", s, h),
         TodoOK', GuardsOK', device' \in Device,
         call' \in {call, [call EXCEPT !.deviceLost = TRUE]},
         \A o, y, z : o \notin {"restore", "executor"} =>
           (Owes(o, y, z)' <=> \/ o = "owner" /\ y = s /\ z = s
                               \/ o = "model" /\ y = modelOf[s] /\ z = s),
         \A y, z : Owes("executor", y, z)' => y = s /\ z = s,
         \A y, z : Owes("restore", y, z)' => y = None /\ z = None,
         UNCHANGED <<open, linkVars, refVars, memVars>>
  PROVE  ReachInv'
<1>1. /\ h = s /\ s \in Session /\ s \notin open /\ s \notin executor
      /\ arena[s] = "live" /\ modelOf[s] \in Model
      /\ \A o, y, z : Owes(o, y, z) <=> o = "owned" /\ y = s /\ z = s
      /\ call.kind \notin {"engine", "model"}
  BY OwnedFacts
<1>2. TypeOK'
  BY DEF ReachInv, TypeOK, linkVars, refVars, memVars
<1>3. DeviceOK'
  BY <1>1 DEF ReachInv, DeviceOK
<1>4. s \notin Engine /\ s \notin Model
  BY <1>1, HandleAssumption
<1>5. ModelsHeld'
  BY <1>1 DEF ReachInv, ModelsHeld, ModelHolder, linkVars, refVars
<1>6. ContextsHeld' /\ PoolsHeld'
  BY <1>1
     DEF ReachInv, ContextsHeld, ContextHolder, PoolsHeld, ModelsOf,
         linkVars, refVars, memVars
<1>7. ResourcesHeld'
  BY <1>1
     DEF ReachInv, ResourcesHeld, ResourceHolder, ModelsOf, EngineOfSession,
         linkVars, refVars, memVars
<1>8. OwedOK'
  BY <1>1 DEF OwedOK, linkVars, memVars
<1>9. MemoryOK'
  BY <1>1 DEF ReachInv, MemoryOK, linkVars, refVars, memVars
<1> QED
  BY <1>2, <1>3, <1>5, <1>6, <1>7, <1>8, <1>9 DEF ReachInv

\* The owner's guard cannot select the previous device: the owner goes, then
\* the guard, then the model.
LEMMA OwnerGivenUp ==
  ASSUME ReachInv, NEW s, NEW h, AtHead("owned", s, h),
         todo' = <<Do("owner", s, s), Restore, Do("model", modelOf[s], s)>> \o Tail(todo),
         call' = [call EXCEPT !.deviceLost = TRUE],
         UNCHANGED <<open, linkVars, refVars, memVars, devVars>>
  PROVE  ReachInv'
<1> DEFINE a == Do("owner", s, s)
           b == Do("restore", None, None)
           c == Do("model", modelOf[s], s)
           q == Tail(todo)
<1>1. a \in Entry /\ b \in Entry /\ c \in Entry /\ q = <<>> /\ Cardinality(Scopes(todo)) = 1
  BY OwnedFacts, EntriesAre DEF Restore
<1>2. todo' = <<a, b, c>> \o q
  BY DEF Restore
<1>3. /\ "owner" \notin Opening /\ "restore" \notin FirstOps /\ "model" \notin FirstOps
      /\ "owner" # "restore" /\ "owner" # "model" /\ "restore" # "model"
  BY DEF Opening, FirstOps
<1> HIDE DEF q
<1>4. /\ TodoOK'
      /\ \A o, y, z : Owes(o, y, z)' <=>
           \/ o = "owner" /\ y = s /\ z = s
           \/ o = "restore" /\ y = None /\ z = None
           \/ o = "model" /\ y = modelOf[s] /\ z = s
      /\ Cardinality(Scopes(todo')) = 1
  <2>1. ThreeLeft("owner", s, s, "restore", None, None, "model", modelOf[s], s)
    BY ONLY <1>1, <1>2, <1>3, ThreeInstead
  <2> QED
    BY ONLY <2>1 DEF ThreeLeft
<1>5. Cardinality(Scopes(todo')) = 1
  BY <1>4
<1>6. GuardsOK' /\ device' \in Device
  BY <1>1, <1>5 DEF ReachInv, GuardsOK, TypeOK, devVars
<1> QED
  BY <1>4, <1>6, SessionGivenUp

\* The executor's constructor throws: the guard is gone, the members follow.
LEMMA ExecutorGivenUp ==
  ASSUME ReachInv, NEW s, NEW h, AtHead("owned", s, h),
         device' = Head(guards), guards' = Tail(guards),
         todo' = DropSession(s) \o Tail(todo),
         UNCHANGED <<open, linkVars, refVars, memVars, call>>
  PROVE  ReachInv'
<1> DEFINE a == Do("executor", s, s)
           b == Do("owner", s, s)
           c == Do("model", modelOf[s], s)
           q == Tail(todo)
<1>1. a \in Entry /\ b \in Entry /\ c \in Entry /\ q = <<>>
  BY OwnedFacts
<1>2. todo' = <<a, b, c>> \o q
  BY DEF DropSession
<1>3. /\ "executor" \notin Opening /\ "owner" \notin FirstOps /\ "model" \notin FirstOps
      /\ "executor" # "owner" /\ "executor" # "model" /\ "owner" # "model"
  BY DEF Opening, FirstOps
<1>4. /\ Head(guards) \in Device /\ guards' \in Seq(Device)
      /\ Len(guards') = Cardinality(Scopes(q))
  BY GuardThere DEF Opening
<1> HIDE DEF q
<1>5. /\ TodoOK'
      /\ \A o, y, z : Owes(o, y, z)' <=>
           \/ o = "executor" /\ y = s /\ z = s
           \/ o = "owner" /\ y = s /\ z = s
           \/ o = "model" /\ y = modelOf[s] /\ z = s
      /\ Cardinality(Scopes(todo')) = 0
  <2>1. ThreeLeft("executor", s, s, "owner", s, s, "model", modelOf[s], s)
    BY ONLY <1>1, <1>2, <1>3, ThreeInstead
  <2> QED
    BY ONLY <2>1 DEF ThreeLeft
<1>6. GuardsOK'
  <2>1. Cardinality(Scopes(q)) = 0
    BY <1>1, EmptyIsCalm
  <2>2. Cardinality(Scopes(todo')) = 0
    BY <1>5
  <2> QED
    BY <1>4, <2>1, <2>2 DEF GuardsOK
<1> QED
  BY <1>4, <1>5, <1>6, SessionGivenUp, SMTT(30)

-----------------------------------------------------------------------------
(* Calls that begin *)

LEMMA IdleFacts ==
  ASSUME ReachInv, Idle
  PROVE  /\ todo = <<>> /\ guards = <<>> /\ Bottom = device /\ device \in Device
         /\ \A o, y, z : ~Owes(o, y, z)
<1>1. todo = <<>>
  BY DEF Idle
<1>2. Cardinality(Scopes(todo)) = 0
  BY <1>1, EmptyIsCalm
<1>3. guards = <<>> /\ device \in Device
  BY <1>2 DEF ReachInv, GuardsOK, TypeOK
<1>4. \A o, y, z : ~Owes(o, y, z)
  BY <1>1 DEF Owes, In
<1> QED
  BY <1>1, <1>3, <1>4 DEF Bottom

\* A call that begins with one entry.
LEMMA BeginsWith ==
  ASSUME NEW op, NEW x, NEW h, Do(op, x, h) \in Entry, todo' = <<Do(op, x, h)>>
  PROVE  /\ TodoOK'
         /\ \A o, y, z : Owes(o, y, z)' <=> o = op /\ y = x /\ z = h
         /\ Cardinality(Scopes(todo')) = IF op \in Opening \cup {"restore"} THEN 1 ELSE 0
<1> DEFINE a == Do(op, x, h)
<1>1. a.op = op /\ \A o, y, z : Do(o, y, z) = a <=> o = op /\ y = x /\ z = h
  BY DoFacts
<1>2. a \in Entry /\ todo' = <<a>> \o <<>>
  OBVIOUS
<1> HIDE DEF a
<1>3. /\ Calm(<<>>) /\ \A o : ~In(<<>>, o)
      /\ Cardinality(Scopes(<<>>)) = 0
  BY EmptyIsCalm, EmptyFacts
<1>4. /\ TodoOK'
      /\ \A o, y, z : Owes(o, y, z)' <=> Do(o, y, z) = a \/ In(<<>>, Do(o, y, z))
      /\ Cardinality(Scopes(todo')) = Cardinality(Scopes(<<>>))
           + IF a.op \in Opening \cup {"restore"} THEN 1 ELSE 0
  BY <1>2, <1>3, PutsFirst
<1> QED
  BY <1>1, <1>3, <1>4

\* With or without a guard.
LEMMA BeginsGuarded ==
  ASSUME ReachInv, Idle, NEW op, NEW x, NEW h, NEW kind, NEW d \in Device,
         Begin(kind, <<Do(op, x, h)>>), Select(d), Do(op, x, h) \in Entry,
         op \in Opening \cup {"restore"},
         kind \in {"engine", "model", "session"}, op = "owned" => kind = "session"
  PROVE  /\ TodoOK' /\ GuardsOK' /\ DeviceOK' /\ device' \in Device
         /\ \A o, y, z : ~Owes(o, y, z)
         /\ \A o, y, z : Owes(o, y, z)' <=> o = op /\ y = x /\ z = h
<1>1. /\ guards = <<>> /\ Bottom = device /\ device \in Device
      /\ \A o, y, z : ~Owes(o, y, z)
  BY IdleFacts
<1>2. /\ TodoOK'
      /\ \A o, y, z : Owes(o, y, z)' <=> o = op /\ y = x /\ z = h
      /\ Cardinality(Scopes(todo')) = 1
  BY BeginsWith DEF Begin
<1>3. /\ guards' \in Seq(Device) /\ device' \in Device
      /\ Len(guards') = 1 /\ Bottom' = device
  <2>1. guards \in Seq(Device) /\ Len(guards) = 0
    BY <1>1
  <2> QED
    BY <1>1, <2>1, Selects
<1>4. DeviceOK'
  <2>1. call' = [kind |-> kind, from |-> device, deviceLost |-> FALSE]
    BY DEF Begin
  <2>2. op \notin {"executor", "owner"}
    BY DEF Opening
  <2> QED
    BY <1>1, <1>2, <1>3, <2>1, <2>2 DEF DeviceOK
<1> QED
  BY <1>1, <1>2, <1>3, <1>4 DEF GuardsOK

LEMMA BeginsFree ==
  ASSUME ReachInv, Idle, NEW op, NEW x, NEW h, NEW kind,
         Begin(kind, <<Do(op, x, h)>>), UNCHANGED devVars, Do(op, x, h) \in Entry,
         op \in {"context", "model"}, kind \in {"engine", "model"}
  PROVE  /\ TodoOK' /\ GuardsOK' /\ DeviceOK' /\ device' \in Device
         /\ \A o, y, z : ~Owes(o, y, z)
         /\ \A o, y, z : Owes(o, y, z)' <=> o = op /\ y = x /\ z = h
<1>1. /\ guards = <<>> /\ Bottom = device /\ device \in Device
      /\ \A o, y, z : ~Owes(o, y, z)
  BY IdleFacts
<1>2. /\ TodoOK'
      /\ \A o, y, z : Owes(o, y, z)' <=> o = op /\ y = x /\ z = h
      /\ Cardinality(Scopes(todo')) = 0
  BY BeginsWith DEF Begin, Opening
<1>3. GuardsOK' /\ device' = device /\ Bottom' = device
  BY <1>1, <1>2 DEF GuardsOK, Bottom, devVars
<1>4. DeviceOK'
  <2>1. call' = [kind |-> kind, from |-> device, deviceLost |-> FALSE]
    BY DEF Begin
  <2> QED
    BY <1>1, <1>2, <1>3, <2>1 DEF DeviceOK
<1> QED
  BY <1>1, <1>2, <1>3, <1>4

LEMMA EngineBegun ==
  ASSUME ReachInv, NEW e \in Engine, CreateEngine(e)
  PROVE  ReachInv'
<1>1. /\ Idle /\ pool[e] = "none" /\ Select(DeviceOf[e])
      /\ Begin("engine", <<Do("created", e, e)>>)
      /\ pool' = [pool EXCEPT ![e] = "live"]
      /\ resourceRefs' = [resourceRefs EXCEPT ![e] = {e}]
      /\ UNCHANGED <<open, linkVars, contextRefs, modelRefs, weights, arena, executor>>
  BY DEF CreateEngine, Begin
<1>2. /\ TodoOK' /\ GuardsOK' /\ DeviceOK' /\ device' \in Device
      /\ \A o, y, z : ~Owes(o, y, z)
      /\ \A o, y, z : Owes(o, y, z)' <=> o = "created" /\ y = e /\ z = e
  <2>1. Do("created", e, e) \in Entry /\ DeviceOf[e] \in Device
    BY EntriesAre, DeviceOfAssumption DEF Handle
  <2> QED
    BY <1>1, <2>1, BeginsGuarded DEF Opening
<1>3. resourceRefs[e] = {}
  BY <1>1 DEF ReachInv, PoolsHeld
<1>4. contextRefs[e] = {} /\ e \notin open
  BY <1>3 DEF ReachInv, ResourcesHeld, ResourceHolder, ContextsHeld, ContextHolder, Handle
<1>5. TypeOK'
  BY <1>1, <1>2 DEF ReachInv, TypeOK, linkVars, Life
<1>6. /\ pool'[e] = "live" /\ resourceRefs'[e] = {e}
      /\ \A d \in Engine : d # e => pool'[d] = pool[d] /\ resourceRefs'[d] = resourceRefs[d]
  BY <1>1 DEF ReachInv, TypeOK
<1>7. ModelsHeld' /\ ContextsHeld'
  BY <1>1, <1>2
     DEF ReachInv, ModelsHeld, ModelHolder, ContextsHeld, ContextHolder, ModelsOf, linkVars
<1>8. PoolsHeld'
  BY <1>2, <1>6 DEF ReachInv, PoolsHeld
<1>9. ResourcesHeld'
  <2> SUFFICES ASSUME NEW d \in Engine, NEW k \in Handle
               PROVE  k \in resourceRefs'[d] <=> ResourceHolder(d, k)'
    BY DEF ResourcesHeld
  <2>1. k \in resourceRefs[d] <=> ResourceHolder(d, k)
    BY DEF ReachInv, ResourcesHeld
  <2>2. ModelsOf(d)' = ModelsOf(d)
    BY <1>1 DEF ModelsOf, linkVars
  <2> QED
    BY <1>1, <1>2, <1>3, <1>4, <1>6, <2>1, <2>2
       DEF ResourceHolder, EngineOfSession, linkVars
<1>10. OwedOK'
  BY <1>1, <1>2, <1>4 DEF OwedOK
<1>11. MemoryOK'
  BY <1>1, <1>2 DEF ReachInv, MemoryOK, linkVars
<1> QED
  BY <1>2, <1>5, <1>7, <1>8, <1>9, <1>10, <1>11 DEF ReachInv

LEMMA EngineUsed ==
  ASSUME ReachInv, NEW e \in Engine, UseEngine(e)
  PROVE  ReachInv'
<1>1. /\ Idle /\ Select(DeviceOf[e])
      /\ Begin("engine", <<Do("restore", None, None)>>)
      /\ UNCHANGED <<open, linkVars, refVars, memVars>>
  BY DEF UseEngine, Begin, Restore
<1>2. /\ TodoOK' /\ GuardsOK' /\ DeviceOK' /\ device' \in Device
      /\ \A o, y, z : ~Owes(o, y, z)
      /\ \A o, y, z : Owes(o, y, z)' <=> o = "restore" /\ y = None /\ z = None
  <2>1. Do("restore", None, None) \in Entry /\ DeviceOf[e] \in Device
    BY EntriesAre, DeviceOfAssumption DEF Restore
  <2> QED
    BY <1>1, <2>1, BeginsGuarded DEF Opening
<1>3. /\ TypeOK' /\ OwedOK' /\ MemoryOK'
      /\ ModelsHeld' /\ ContextsHeld' /\ ResourcesHeld' /\ PoolsHeld'
  BY <1>1, <1>2, SameHolders
<1> QED
  BY <1>2, <1>3 DEF ReachInv

LEMMA EngineLeft ==
  ASSUME ReachInv, NEW e \in Engine, DestroyEngine(e)
  PROVE  ReachInv'
<1>1. /\ Idle /\ e \in open /\ open' = open \ {e}
      /\ Begin("engine", <<Do("context", e, e)>>)
      /\ UNCHANGED <<linkVars, refVars, memVars, devVars>>
  BY DEF DestroyEngine, Begin
<1>2. /\ TodoOK' /\ GuardsOK' /\ DeviceOK' /\ device' \in Device
      /\ \A o, y, z : ~Owes(o, y, z)
      /\ \A o, y, z : Owes(o, y, z)' <=> o = "context" /\ y = e /\ z = e
  <2>1. Do("context", e, e) \in Entry
    BY EntriesAre DEF Handle
  <2> QED
    BY <1>1, <2>1, BeginsFree
<1>3. e \notin Model /\ e \notin Session
  BY HandleAssumption
<1>4. TypeOK'
  BY <1>1, <1>2 DEF ReachInv, TypeOK, linkVars, refVars, memVars
<1>5. ModelsHeld' /\ ContextsHeld' /\ PoolsHeld'
  BY <1>1, <1>2, <1>3
     DEF ReachInv, ModelsHeld, ModelHolder, ContextsHeld, ContextHolder, PoolsHeld,
         ModelsOf, linkVars, refVars, memVars
<1>6. ResourcesHeld'
  BY <1>1, <1>2
     DEF ReachInv, ResourcesHeld, ResourceHolder, ModelsOf, EngineOfSession,
         linkVars, refVars, memVars
<1>7. OwedOK'
  BY <1>1, <1>2 DEF OwedOK
<1>8. MemoryOK'
  BY <1>1, <1>2, <1>3 DEF ReachInv, MemoryOK, linkVars, refVars, memVars
<1> QED
  BY <1>2, <1>4, <1>5, <1>6, <1>7, <1>8 DEF ReachInv

LEMMA ModelBegun ==
  ASSUME ReachInv, NEW e \in Engine, NEW m \in Model, LoadModel(e, m)
  PROVE  ReachInv'
<1>1. /\ Idle /\ e \in open /\ weights[m] = "none" /\ Select(DeviceOf[e])
      /\ Begin("model", <<Do("loaded", m, m)>>)
      /\ engineOf' = [engineOf EXCEPT ![m] = e]
      /\ weights' = [weights EXCEPT ![m] = "live"]
      /\ resourceRefs' = [resourceRefs EXCEPT ![e] = @ \cup {m}]
      /\ UNCHANGED <<open, modelOf, contextRefs, modelRefs, pool, arena, executor>>
  BY DEF LoadModel, Begin, UploadWeights
<1>2. /\ TodoOK' /\ GuardsOK' /\ DeviceOK' /\ device' \in Device
      /\ \A o, y, z : ~Owes(o, y, z)
      /\ \A o, y, z : Owes(o, y, z)' <=> o = "loaded" /\ y = m /\ z = m
  <2>1. Do("loaded", m, m) \in Entry /\ DeviceOf[e] \in Device
    BY EntriesAre, DeviceOfAssumption DEF Handle
  <2> QED
    BY <1>1, <2>1, BeginsGuarded DEF Opening
<1>3. modelRefs[m] = {} /\ m \notin open
  <2>1. modelRefs[m] = {}
    BY <1>1 DEF ReachInv, MemoryOK
  <2> QED
    BY <2>1 DEF ReachInv, ModelsHeld, ModelHolder, Handle
<1>4. resourceRefs[e] # {} /\ pool[e] = "live"
  <2>1. e \in contextRefs[e]
    BY <1>1 DEF ReachInv, ContextsHeld, ContextHolder, Handle
  <2>2. e \in resourceRefs[e]
    BY <2>1 DEF ReachInv, ResourcesHeld, ResourceHolder, Handle
  <2> QED
    BY <2>2 DEF ReachInv, PoolsHeld
<1>5. /\ resourceRefs'[e] = resourceRefs[e] \cup {m}
      /\ \A d \in Engine : d # e => resourceRefs'[d] = resourceRefs[d]
      /\ engineOf'[m] = e /\ weights'[m] = "live"
      /\ \A n \in Model : n # m => engineOf'[n] = engineOf[n] /\ weights'[n] = weights[n]
  BY <1>1 DEF ReachInv, TypeOK
<1>6. \A s \in Session : modelOf[s] # m /\ (arena[s] # "none" <=> modelOf[s] # None)
  BY <1>1, HandleAssumption DEF ReachInv, MemoryOK
<1>7. TypeOK'
  BY <1>1, <1>2 DEF ReachInv, TypeOK, Life
<1>8. \A d \in Engine : ModelsOf(d)' = ModelsOf(d)
  BY <1>1, <1>3, <1>5 DEF ModelsOf
<1>9. ModelsHeld' /\ ContextsHeld'
  BY <1>1, <1>2, <1>8 DEF ReachInv, ModelsHeld, ModelHolder, ContextsHeld, ContextHolder
<1>10. PoolsHeld'
  BY <1>1, <1>2, <1>4, <1>5 DEF ReachInv, PoolsHeld
<1>11. ResourcesHeld'
  <2> SUFFICES ASSUME NEW d \in Engine, NEW k \in Handle
               PROVE  k \in resourceRefs'[d] <=> ResourceHolder(d, k)'
    BY DEF ResourcesHeld
  <2>1. k \in resourceRefs[d] <=> ResourceHolder(d, k)
    BY DEF ReachInv, ResourcesHeld
  <2>2. k \in Session /\ arena[k] \in {"live", "leaked"} =>
          EngineOfSession(k)' = EngineOfSession(k)
    BY <1>1, <1>5, <1>6 DEF ReachInv, TypeOK, EngineOfSession
  <2> QED
    BY <1>1, <1>2, <1>5, <1>8, <2>1, <2>2 DEF ResourceHolder
<1>12. OwedOK'
  BY <1>1, <1>2, <1>3, <1>5 DEF OwedOK
<1>13. MemoryOK'
  BY <1>1, <1>2, <1>3, <1>5, <1>6 DEF ReachInv, MemoryOK, TypeOK
<1> QED
  BY <1>2, <1>7, <1>9, <1>10, <1>11, <1>12, <1>13 DEF ReachInv

LEMMA ModelLeft ==
  ASSUME ReachInv, NEW m \in Model, DestroyModel(m)
  PROVE  ReachInv'
<1>1. /\ Idle /\ m \in open /\ open' = open \ {m}
      /\ Begin("model", <<Do("model", m, m)>>)
      /\ UNCHANGED <<linkVars, refVars, memVars, devVars>>
  BY DEF DestroyModel, Begin
<1>2. /\ TodoOK' /\ GuardsOK' /\ DeviceOK' /\ device' \in Device
      /\ \A o, y, z : ~Owes(o, y, z)
      /\ \A o, y, z : Owes(o, y, z)' <=> o = "model" /\ y = m /\ z = m
  <2>1. Do("model", m, m) \in Entry
    BY EntriesAre DEF Handle
  <2> QED
    BY <1>1, <2>1, BeginsFree
<1>3. m \notin Engine /\ m \notin Session
  BY HandleAssumption
<1>4. TypeOK'
  BY <1>1, <1>2 DEF ReachInv, TypeOK, linkVars, refVars, memVars
<1>5. ModelsHeld' /\ ContextsHeld' /\ PoolsHeld'
  BY <1>1, <1>2, <1>3
     DEF ReachInv, ModelsHeld, ModelHolder, ContextsHeld, ContextHolder, PoolsHeld,
         ModelsOf, linkVars, refVars, memVars
<1>6. ResourcesHeld'
  BY <1>1, <1>2
     DEF ReachInv, ResourcesHeld, ResourceHolder, ModelsOf, EngineOfSession,
         linkVars, refVars, memVars
<1>7. OwedOK'
  BY <1>1, <1>2 DEF OwedOK
<1>8. MemoryOK'
  BY <1>1, <1>2, <1>3 DEF ReachInv, MemoryOK, linkVars, refVars, memVars
<1> QED
  BY <1>2, <1>4, <1>5, <1>6, <1>7, <1>8 DEF ReachInv

LEMMA SessionBegun ==
  ASSUME ReachInv, NEW m \in Model, NEW s \in Session, CreateSession(m, s)
  PROVE  ReachInv'
<1>1. /\ Idle /\ m \in open /\ arena[s] = "none" /\ Select(DeviceOf[engineOf[m]])
      /\ Begin("session", <<Do("owned", s, s)>>)
      /\ modelOf' = [modelOf EXCEPT ![s] = m]
      /\ modelRefs' = [modelRefs EXCEPT ![m] = @ \cup {s}]
      /\ arena' = [arena EXCEPT ![s] = "live"]
      /\ resourceRefs' = [resourceRefs EXCEPT ![engineOf[m]] = @ \cup {s}]
      /\ UNCHANGED <<open, engineOf, contextRefs, pool, weights, executor>>
  BY DEF CreateSession, Begin, ShareModel
<1>2. m \in modelRefs[m] /\ weights[m] = "live" /\ engineOf[m] \in Engine
  <2>1. m \in modelRefs[m]
    BY <1>1 DEF ReachInv, ModelsHeld, ModelHolder, Handle
  <2> QED
    BY <2>1 DEF ReachInv, MemoryOK
<1>3. /\ TodoOK' /\ GuardsOK' /\ DeviceOK' /\ device' \in Device
      /\ \A o, y, z : ~Owes(o, y, z)
      /\ \A o, y, z : Owes(o, y, z)' <=> o = "owned" /\ y = s /\ z = s
  <2>1. Do("owned", s, s) \in Entry /\ DeviceOf[engineOf[m]] \in Device
    BY <1>2, EntriesAre, DeviceOfAssumption DEF Handle
  <2> QED
    BY <1>1, <2>1, BeginsGuarded DEF Opening
<1>4. modelOf[s] = None /\ s \notin open /\ s \notin executor
  <2>1. modelOf[s] = None /\ s \notin open
    BY <1>1 DEF ReachInv, MemoryOK
  <2> QED
    BY <1>3, <2>1 DEF ReachInv, MemoryOK
<1>5. m \in resourceRefs[engineOf[m]] /\ pool[engineOf[m]] = "live"
  <2>1. m \in resourceRefs[engineOf[m]]
    BY <1>2 DEF ReachInv, ResourcesHeld, ResourceHolder, ModelsOf, Handle
  <2> QED
    BY <1>2, <2>1 DEF ReachInv, PoolsHeld
<1>6. /\ modelOf'[s] = m /\ arena'[s] = "live" /\ modelRefs'[m] = modelRefs[m] \cup {s}
      /\ \A t \in Session : t # s => modelOf'[t] = modelOf[t] /\ arena'[t] = arena[t]
      /\ \A n \in Model : n # m => modelRefs'[n] = modelRefs[n]
      /\ \A n \in Model : modelRefs'[n] # {} <=> modelRefs[n] # {}
  BY <1>1, <1>2 DEF ReachInv, TypeOK
<1>7. /\ resourceRefs'[engineOf[m]] = resourceRefs[engineOf[m]] \cup {s}
      /\ \A d \in Engine : d # engineOf[m] => resourceRefs'[d] = resourceRefs[d]
  BY <1>1, <1>2 DEF ReachInv, TypeOK
<1>8. s \notin Model /\ s \notin Engine /\ m # None
  BY HandleAssumption
<1>9. TypeOK'
  BY <1>1, <1>2, <1>3 DEF ReachInv, TypeOK, Life
<1>10. \A d \in Engine : ModelsOf(d)' = ModelsOf(d)
  BY <1>1, <1>6 DEF ModelsOf
<1>11. ModelsHeld'
  <2> SUFFICES ASSUME NEW n \in Model, NEW k \in Handle
               PROVE  k \in modelRefs'[n] <=> ModelHolder(n, k)'
    BY DEF ModelsHeld
  <2>1. k \in modelRefs[n] <=> ModelHolder(n, k)
    BY DEF ReachInv, ModelsHeld
  <2> QED
    BY <1>1, <1>3, <1>4, <1>6, <1>8, <2>1 DEF ModelHolder
<1>12. ContextsHeld' /\ PoolsHeld'
  <2>1. ContextsHeld'
    BY <1>1, <1>3, <1>10 DEF ReachInv, ContextsHeld, ContextHolder
  <2>2. PoolsHeld'
    BY <1>1, <1>2, <1>3, <1>5, <1>7 DEF ReachInv, PoolsHeld
  <2> QED
    BY <2>1, <2>2
<1>13. ResourcesHeld'
  <2> SUFFICES ASSUME NEW d \in Engine, NEW k \in Handle
               PROVE  k \in resourceRefs'[d] <=> ResourceHolder(d, k)'
    BY DEF ResourcesHeld
  <2>1. k \in resourceRefs[d] <=> ResourceHolder(d, k)
    BY DEF ReachInv, ResourcesHeld
  <2>2. \A t \in Session : t # s => EngineOfSession(t)' = EngineOfSession(t)
    BY <1>1, <1>6 DEF EngineOfSession
  <2>3. EngineOfSession(s)' = engineOf[m]
    BY <1>1, <1>6 DEF EngineOfSession
  <2> QED
    BY <1>1, <1>2, <1>3, <1>6, <1>7, <1>8, <1>10, <2>1, <2>2, <2>3 DEF ResourceHolder
<1>14. OwedOK'
  BY <1>1, <1>3, <1>4, <1>6 DEF OwedOK
<1>15. MemoryOK'
  BY <1>1, <1>2, <1>3, <1>4, <1>6, <1>8 DEF ReachInv, MemoryOK
<1> QED
  BY <1>3, <1>9, <1>11, <1>12, <1>13, <1>14, <1>15 DEF ReachInv

LEMMA SessionLeft ==
  ASSUME ReachInv, NEW s \in Session, DestroySession(s)
  PROVE  ReachInv'
<1>1. /\ Idle /\ s \in open /\ open' = open \ {s} /\ todo' = DropSession(s)
      /\ call' = [kind |-> "session", from |-> device, deviceLost |-> FALSE]
      /\ UNCHANGED <<linkVars, refVars, memVars, devVars>>
  BY DEF DestroySession, Begin
<1>2. /\ guards = <<>> /\ device \in Device /\ \A o, y, z : ~Owes(o, y, z)
  BY <1>1, IdleFacts
<1>3. /\ arena[s] = "live" /\ s \in executor /\ modelOf[s] \in Model
  BY <1>1 DEF ReachInv, MemoryOK, TypeOK
<1>4. s \notin Model /\ s \notin Engine
  BY HandleAssumption
<1>5. /\ TodoOK'
      /\ \A o, y, z : Owes(o, y, z)' <=>
           \/ o = "executor" /\ y = s /\ z = s
           \/ o = "owner" /\ y = s /\ z = s
           \/ o = "model" /\ y = modelOf[s] /\ z = s
      /\ Cardinality(Scopes(todo')) = 0
  <2> DEFINE a == Do("executor", s, s)
             b == Do("owner", s, s)
             c == Do("model", modelOf[s], s)
  <2>1. a \in Entry /\ b \in Entry /\ c \in Entry
    BY <1>3, EntriesAre DEF Handle
  <2>2. todo' = <<a, b, c>> \o <<>>
    BY <1>1 DEF DropSession
  <2>3. /\ "executor" \notin Opening /\ "owner" \notin FirstOps /\ "model" \notin FirstOps
        /\ "executor" # "owner" /\ "executor" # "model" /\ "owner" # "model"
    BY DEF Opening, FirstOps
  <2>4. /\ TodoOK'
        /\ \A o, y, z : Owes(o, y, z)' <=>
             \/ o = "executor" /\ y = s /\ z = s
             \/ o = "owner" /\ y = s /\ z = s
             \/ o = "model" /\ y = modelOf[s] /\ z = s
        /\ Cardinality(Scopes(todo')) = 0
    <3>1. ThreeLeft("executor", s, s, "owner", s, s, "model", modelOf[s], s)
      BY ONLY <2>1, <2>2, <2>3, ThreeInstead
    <3> QED
      BY ONLY <3>1 DEF ThreeLeft
  <2> QED
    BY <2>4
<1>6. TypeOK' /\ GuardsOK' /\ DeviceOK'
  <2>1. TypeOK' /\ GuardsOK'
    BY <1>1, <1>2, <1>5
       DEF ReachInv, TypeOK, GuardsOK, linkVars, refVars, memVars, devVars
  <2>2. DeviceOK'
    BY <1>1, <1>2 DEF DeviceOK
  <2> QED
    BY <2>1, <2>2
<1>7. ModelsHeld'
  BY <1>1, <1>2, <1>4, <1>5 DEF ReachInv, ModelsHeld, ModelHolder, linkVars, refVars
<1>8. ContextsHeld' /\ PoolsHeld'
  BY <1>1, <1>2, <1>4, <1>5
     DEF ReachInv, ContextsHeld, ContextHolder, PoolsHeld, ModelsOf,
         linkVars, refVars, memVars
<1>9. ResourcesHeld'
  BY <1>1, <1>2, <1>5
     DEF ReachInv, ResourcesHeld, ResourceHolder, ModelsOf, EngineOfSession,
         linkVars, refVars, memVars
<1>10. OwedOK'
  BY <1>1, <1>3, <1>5 DEF OwedOK, linkVars, memVars
<1>11. MemoryOK'
  BY <1>1, <1>2, <1>3, <1>5 DEF ReachInv, MemoryOK, linkVars, refVars, memVars
<1> QED
  BY <1>5, <1>6, <1>7, <1>8, <1>9, <1>10, <1>11 DEF ReachInv

LEMMA CallerTurns ==
  ASSUME ReachInv, NEW d \in Device, CallerSelects(d)
  PROVE  ReachInv'
<1>1. /\ Idle /\ device' = d
      /\ call' = [kind |-> "none", from |-> d, deviceLost |-> FALSE]
      /\ UNCHANGED <<open, linkVars, refVars, memVars, guards, todo>>
  BY DEF CallerSelects
<1>2. /\ guards = <<>> /\ \A o, y, z : ~Owes(o, y, z)
  BY <1>1, IdleFacts
<1>3. \A o, y, z : ~Owes(o, y, z)'
  BY <1>1, <1>2 DEF Owes, In
<1>4. /\ TypeOK' /\ OwedOK' /\ MemoryOK'
      /\ ModelsHeld' /\ ContextsHeld' /\ ResourcesHeld' /\ PoolsHeld'
  BY <1>1, <1>2, <1>3, SameHolders
<1>5. TodoOK' /\ GuardsOK'
  BY <1>1 DEF ReachInv, TodoOK, Calm, In, OneEach, Entry, FirstOps, Opening, Handle,
              GuardsOK, Scopes
<1>6. DeviceOK'
  BY <1>1 DEF DeviceOK
<1> QED
  BY <1>4, <1>5, <1>6 DEF ReachInv

LEMMA NothingHappens ==
  ASSUME ReachInv, UNCHANGED vars
  PROVE  ReachInv'
<1>1. UNCHANGED <<open, linkVars, refVars, memVars, devVars, todo, call>>
  BY DEF vars
<1>2. \A o, y, z : Owes(o, y, z)' <=> Owes(o, y, z)
  BY <1>1 DEF Owes, In, Do
<1>3. device' \in Device /\ \A y, z : Owes("restore", y, z)' => y = None /\ z = None
  BY <1>1, <1>2 DEF ReachInv, TypeOK, OwedOK, devVars
<1>4. /\ TypeOK' /\ OwedOK' /\ MemoryOK'
      /\ ModelsHeld' /\ ContextsHeld' /\ ResourcesHeld' /\ PoolsHeld'
  BY <1>1, <1>2, <1>3, SameHolders
<1>5. TodoOK' /\ GuardsOK'
  BY <1>1 DEF ReachInv, TodoOK, Calm, In, OneEach, Entry, FirstOps, Opening, Handle,
              GuardsOK, Scopes, devVars
<1>6. DeviceOK'
  BY <1>1, <1>2 DEF ReachInv, DeviceOK, Bottom, devVars
<1> QED
  BY <1>4, <1>5, <1>6 DEF ReachInv

LEMMA NothingYet ==
  ASSUME Init
  PROVE  ReachInv
<1>1. \A o, y, z : ~Owes(o, y, z)
  BY DEF Init, Owes, In
<1>2. TypeOK
  BY DEF Init, TypeOK, Life
<1>3. TodoOK /\ GuardsOK
  <2>1. todo = <<>> /\ guards = <<>>
    BY DEF Init
  <2>2. Cardinality(Scopes(todo)) = 0
    BY <2>1, EmptyIsCalm
  <2> QED
    BY <2>1, <2>2 DEF TodoOK, GuardsOK
<1>4. ModelsHeld /\ ContextsHeld
  BY <1>1 DEF Init, ModelsHeld, ModelHolder, ContextsHeld, ContextHolder, ModelsOf
<1>5. ResourcesHeld /\ PoolsHeld
  BY <1>1 DEF Init, ResourcesHeld, ResourceHolder, PoolsHeld, ModelsOf
<1>6. OwedOK
  BY <1>1 DEF OwedOK
<1>7. MemoryOK
  BY HandleAssumption DEF Init, MemoryOK
<1>8. DeviceOK
  BY DEF Init, DeviceOK
<1> QED
  BY <1>2, <1>3, <1>4, <1>5, <1>6, <1>7, <1>8 DEF ReachInv

-----------------------------------------------------------------------------
(* The steps of the specification *)

LEMMA DestructorSteps ==
  ASSUME ReachInv,
         RestoreDevice \/ DropExecutor \/ CloseOwner \/ FreeWeights \/ FreePool
           \/ DropResources \/ DropContext \/ DropModel
  PROVE  ReachInv'
<1> DEFINE x == Head(todo).of
           h == Head(todo).by
<1>0. \A op : Next1(op) => AtHead(op, x, h)
  BY HeadIs DEF ReachInv
<1>1. CASE RestoreDevice
  <2>1. AtHead("restore", x, h)
    BY <1>0, <1>1 DEF RestoreDevice
  <2>2. Next1("restore") /\ todo' = <<>> \o Tail(todo) => todo' = Tail(todo)
    <3>1. Next1("restore") => Tail(todo) \in Seq(Entry)
      BY <2>1 DEF AtHead, Calm
    <3> QED
      BY <3>1
  <2>3. /\ guards' = Tail(guards) /\ todo' = Tail(todo)
        /\ \/ device' = Head(guards) /\ UNCHANGED call
           \/ UNCHANGED device /\ call' = [call EXCEPT !.deviceLost = TRUE]
        /\ UNCHANGED <<open, linkVars, refVars, memVars>>
    BY <1>1, <2>2 DEF RestoreDevice, Continue
  <2> HIDE DEF x, h
  <2> QED
    BY <2>1, <2>3, Restored
<1>2. CASE DropExecutor
  <2>1. AtHead("executor", x, h)
    BY <1>0, <1>2 DEF DropExecutor
  <2>2. todo' = <<>> \o Tail(todo) => todo' = Tail(todo)
    <3>1. Tail(todo) \in Seq(Entry)
      BY <2>1 DEF AtHead, Calm
    <3> QED
      BY <3>1
  <2>3. /\ executor' = executor \ {x} /\ todo' = Tail(todo)
        /\ device' \in {device, DeviceOf[EngineOfSession(x)]}
        /\ UNCHANGED <<open, linkVars, refVars, pool, weights, arena, guards, call>>
    BY <1>2, <2>2 DEF DropExecutor, Continue
  <2> HIDE DEF x, h
  <2> QED
    BY <2>1, <2>3, ExecutorDropped
<1>3. CASE CloseOwner
  <2>1. AtHead("owner", x, h)
    BY <1>0, <1>3 DEF CloseOwner
  <2>2. CASE /\ Select(DeviceOf[EngineOfSession(x)])
             /\ arena' = [arena EXCEPT ![x] = "freed"]
             /\ Continue(<<Do("resources", EngineOfSession(x), x), Restore>>)
    <3>1. UNCHANGED <<open, linkVars, refVars, pool, weights, executor>>
      BY <1>3 DEF CloseOwner
    <3> HIDE DEF x, h
    <3> QED
      BY <2>1, <2>2, <3>1, OwnerClosed
  <2>3. CASE SelectFails /\ arena' = [arena EXCEPT ![x] = "leaked"]
    <3>1. UNCHANGED <<open, linkVars, refVars, pool, weights, executor>>
      BY <1>3 DEF CloseOwner
    <3> HIDE DEF x, h
    <3> QED
      BY <2>1, <2>3, <3>1, OwnerLost
  <2> QED
    BY <1>3, <2>2, <2>3 DEF CloseOwner
<1>4. CASE FreeWeights
  <2>1. AtHead("weights", x, h)
    BY <1>0, <1>4 DEF FreeWeights
  <2>2. \E v \in {"freed", "leaked"} :
          /\ weights' = [weights EXCEPT ![x] = v]
          /\ \/ Select(DeviceOf[engineOf[x]]) /\ Continue(<<Restore>>)
             \/ SelectFails
          /\ UNCHANGED <<open, linkVars, refVars, pool, arena, executor>>
    BY <1>4 DEF FreeWeights
  <2> HIDE DEF x, h
  <2> QED
    BY <2>1, <2>2, WeightsGone
<1>5. CASE FreePool
  <2>1. AtHead("pool", x, h)
    BY <1>0, <1>5 DEF FreePool
  <2>2. \E v \in {"freed", "leaked"} :
          /\ pool' = [pool EXCEPT ![x] = v]
          /\ \/ Select(DeviceOf[x]) /\ Continue(<<Restore>>)
             \/ SelectFails
          /\ UNCHANGED <<open, linkVars, refVars, weights, arena, executor>>
    BY <1>5 DEF FreePool
  <2> HIDE DEF x, h
  <2> QED
    BY <2>1, <2>2, PoolGone
<1>6. CASE DropResources
  <2>1. AtHead("resources", x, h)
    BY <1>0, <1>6 DEF DropResources
  <2>2. <<>> \o Tail(todo) = Tail(todo)
    <3>1. Tail(todo) \in Seq(Entry)
      BY <2>1 DEF AtHead, Calm
    <3> QED
      BY <3>1
  <2>3. /\ resourceRefs' = [resourceRefs EXCEPT ![x] = resourceRefs[x] \ {h}]
        /\ todo' = (IF resourceRefs[x] \ {h} = {} THEN <<Do("pool", x, None)>> ELSE <<>>)
                     \o Tail(todo)
        /\ UNCHANGED <<open, linkVars, contextRefs, modelRefs, memVars, devVars, call>>
    BY <1>6 DEF DropResources, DropReference, Continue
  <2> HIDE DEF x, h
  <2>4. CASE resourceRefs[x] \ {h} = {}
    BY <2>1, <2>3, <2>4, ResourcesReleased
  <2>5. CASE resourceRefs[x] \ {h} # {}
    BY <2>1, <2>2, <2>3, <2>5, ResourcesShared
  <2> QED
    BY <2>4, <2>5
<1>7. CASE DropContext
  <2>1. AtHead("context", x, h)
    BY <1>0, <1>7 DEF DropContext
  <2>2. <<>> \o Tail(todo) = Tail(todo)
    <3>1. Tail(todo) \in Seq(Entry)
      BY <2>1 DEF AtHead, Calm
    <3> QED
      BY <3>1
  <2>3. /\ contextRefs' = [contextRefs EXCEPT ![x] = contextRefs[x] \ {h}]
        /\ todo' = (IF contextRefs[x] \ {h} = {} THEN <<Do("resources", x, x)>> ELSE <<>>)
                     \o Tail(todo)
        /\ UNCHANGED <<open, linkVars, resourceRefs, modelRefs, memVars, devVars, call>>
    BY <1>7 DEF DropContext, DropReference, Continue
  <2> HIDE DEF x, h
  <2>4. CASE contextRefs[x] \ {h} = {}
    BY <2>1, <2>3, <2>4, ContextReleased
  <2>5. CASE contextRefs[x] \ {h} # {}
    BY <2>1, <2>2, <2>3, <2>5, ContextShared
  <2> QED
    BY <2>4, <2>5
<1>8. CASE DropModel
  <2>1. AtHead("model", x, h)
    BY <1>0, <1>8 DEF DropModel
  <2>2. <<>> \o Tail(todo) = Tail(todo)
    <3>1. Tail(todo) \in Seq(Entry)
      BY <2>1 DEF AtHead, Calm
    <3> QED
      BY <3>1
  <2>3. /\ modelRefs' = [modelRefs EXCEPT ![x] = modelRefs[x] \ {h}]
        /\ todo' = (IF modelRefs[x] \ {h} = {} THEN DropModelState(x) ELSE <<>>)
                     \o Tail(todo)
        /\ UNCHANGED <<open, linkVars, contextRefs, resourceRefs, memVars, devVars, call>>
    BY <1>8 DEF DropModel, DropReference, Continue
  <2> HIDE DEF x, h
  <2>4. CASE modelRefs[x] \ {h} = {}
    BY <2>1, <2>3, <2>4, ModelReleased
  <2>5. CASE modelRefs[x] \ {h} # {}
    BY <2>1, <2>2, <2>3, <2>5, ModelShared
  <2> QED
    BY <2>4, <2>5
<1> QED
  BY <1>1, <1>2, <1>3, <1>4, <1>5, <1>6, <1>7, <1>8

LEMMA ConstructorSteps ==
  ASSUME ReachInv,
         EngineCreated \/ EngineFails \/ ModelLoaded \/ LoadFails \/ AttachFails
           \/ SessionCreated \/ OwnerFails \/ ExecutorFails
  PROVE  ReachInv'
<1> DEFINE x == Head(todo).of
           h == Head(todo).by
<1>0. \A op : Next1(op) => AtHead(op, x, h) /\ <<>> \o Tail(todo) = Tail(todo)
  <2> TAKE op
  <2> HAVE Next1(op)
  <2>1. AtHead(op, x, h)
    BY HeadIs DEF ReachInv
  <2>2. Tail(todo) \in Seq(Entry)
    BY <2>1 DEF AtHead, Calm
  <2>3. <<>> \o Tail(todo) = Tail(todo)
    BY <2>2
  <2> QED
    BY <2>1, <2>3
<1>1. CASE EngineCreated
  <2>1. AtHead("created", x, h) /\ <<>> \o Tail(todo) = Tail(todo)
    BY <1>0, <1>1 DEF EngineCreated
  <2>2. /\ open' = open \cup {x} /\ contextRefs' = [contextRefs EXCEPT ![x] = {x}]
        /\ device' = Head(guards) /\ guards' = Tail(guards) /\ todo' = Tail(todo)
        /\ UNCHANGED <<linkVars, resourceRefs, modelRefs, memVars, call>>
    BY <1>1, <2>1 DEF EngineCreated, Continue
  <2> HIDE DEF x, h
  <2> QED
    BY <2>1, <2>2, EngineMade
<1>2. CASE EngineFails
  <2>1. AtHead("created", x, h)
    BY <1>0, <1>2 DEF EngineFails
  <2>2. /\ todo' = <<Restore, Do("resources", x, x)>> \o Tail(todo)
        /\ call' = [call EXCEPT !.deviceLost = TRUE]
        /\ UNCHANGED <<open, linkVars, refVars, memVars, devVars>>
    BY <1>2 DEF EngineFails
  <2> HIDE DEF x, h
  <2> QED
    BY <2>1, <2>2, EngineGivenUp
<1>3. CASE ModelLoaded
  <2>1. AtHead("loaded", x, h) /\ <<>> \o Tail(todo) = Tail(todo)
    BY <1>0, <1>3 DEF ModelLoaded
  <2>2. /\ open' = open \cup {x} /\ modelRefs' = [modelRefs EXCEPT ![x] = {x}]
        /\ contextRefs' = [contextRefs EXCEPT ![engineOf[x]] = @ \cup {x}]
        /\ device' = Head(guards) /\ guards' = Tail(guards) /\ todo' = Tail(todo)
        /\ UNCHANGED <<linkVars, resourceRefs, memVars, call>>
    BY <1>3, <2>1 DEF ModelLoaded, Continue
  <2> HIDE DEF x, h
  <2> QED
    BY <2>1, <2>2, ModelMade
<1>4. CASE LoadFails
  <2>1. AtHead("loaded", x, h)
    BY <1>0, <1>4 DEF LoadFails
  <2>2. /\ todo' = (DropPlan(x) \o <<Restore>>) \o Tail(todo)
        /\ UNCHANGED <<open, linkVars, refVars, memVars, devVars, call>>
    BY <1>4 DEF LoadFails, Continue
  <2> HIDE DEF x, h
  <2> QED
    BY <2>1, <2>2, LoadGivenUp
<1>5. CASE AttachFails
  <2>1. AtHead("loaded", x, h)
    BY <1>0, <1>5 DEF AttachFails
  <2>2. /\ device' = Head(guards) /\ guards' = Tail(guards)
        /\ todo' = DropPlan(x) \o Tail(todo)
        /\ UNCHANGED <<open, linkVars, refVars, memVars, call>>
    BY <1>5 DEF AttachFails, Continue
  <2> HIDE DEF x, h
  <2> QED
    BY <2>1, <2>2, AttachGivenUp
<1>6. CASE SessionCreated
  <2>1. AtHead("owned", x, h) /\ <<>> \o Tail(todo) = Tail(todo)
    BY <1>0, <1>6 DEF SessionCreated
  <2>2. /\ open' = open \cup {x} /\ executor' = executor \cup {x}
        /\ device' = Head(guards) /\ guards' = Tail(guards) /\ todo' = Tail(todo)
        /\ UNCHANGED <<linkVars, refVars, pool, weights, arena, call>>
    BY <1>6, <2>1 DEF SessionCreated, Continue
  <2> HIDE DEF x, h
  <2> QED
    BY <2>1, <2>2, SessionMade
<1>7. CASE OwnerFails
  <2>1. AtHead("owned", x, h)
    BY <1>0, <1>7 DEF OwnerFails
  <2>2. /\ todo' = <<Do("owner", x, x), Restore, Do("model", modelOf[x], x)>> \o Tail(todo)
        /\ call' = [call EXCEPT !.deviceLost = TRUE]
        /\ UNCHANGED <<open, linkVars, refVars, memVars, devVars>>
    BY <1>7 DEF OwnerFails
  <2> HIDE DEF x, h
  <2> QED
    BY <2>1, <2>2, OwnerGivenUp
<1>8. CASE ExecutorFails
  <2>1. AtHead("owned", x, h)
    BY <1>0, <1>8 DEF ExecutorFails
  <2>2. /\ device' = Head(guards) /\ guards' = Tail(guards)
        /\ todo' = DropSession(x) \o Tail(todo)
        /\ UNCHANGED <<open, linkVars, refVars, memVars, call>>
    BY <1>8 DEF ExecutorFails, Continue
  <2> HIDE DEF x, h
  <2> QED
    BY <2>1, <2>2, ExecutorGivenUp
<1> QED
  BY <1>1, <1>2, <1>3, <1>4, <1>5, <1>6, <1>7, <1>8

LEMMA HandleStep ==
  ASSUME ReachInv, [Next]_vars
  PROVE  ReachInv'
<1>1. CASE Step
  BY <1>1, DestructorSteps, ConstructorSteps DEF Step
<1>2. ASSUME NEW e \in Engine, CreateEngine(e) \/ UseEngine(e) \/ DestroyEngine(e)
      PROVE  ReachInv'
  BY <1>2, EngineBegun, EngineUsed, EngineLeft
<1>3. ASSUME NEW e \in Engine, NEW m \in Model, LoadModel(e, m)
      PROVE  ReachInv'
  BY <1>3, ModelBegun
<1>4. ASSUME NEW m \in Model, DestroyModel(m)
      PROVE  ReachInv'
  BY <1>4, ModelLeft
<1>5. ASSUME NEW m \in Model, NEW s \in Session, CreateSession(m, s)
      PROVE  ReachInv'
  BY <1>5, SessionBegun
<1>6. ASSUME NEW s \in Session, DestroySession(s)
      PROVE  ReachInv'
  BY <1>6, SessionLeft
<1>7. ASSUME NEW d \in Device, CallerSelects(d)
      PROVE  ReachInv'
  BY <1>7, CallerTurns
<1>8. CASE UNCHANGED vars
  BY <1>8, NothingHappens
<1> QED
  BY <1>1, <1>2, <1>3, <1>4, <1>5, <1>6, <1>7, <1>8 DEF Next

\* Every reference is held, everything held is there, and everything owed is
\* owed once: the inductive invariant of the handles.
THEOREM HandleInvariant == Spec => []ReachInv
<1>1. Init => ReachInv
  BY NothingYet
<1>2. ReachInv /\ [Next]_vars => ReachInv'
  BY HandleStep
<1> QED
  BY <1>1, <1>2, PTL DEF Spec

\* Whatever the caller destroyed, and in whatever order: a session it holds has
\* its executor, its arena, its model's weights and its engine's pool.
THEOREM SessionsKeepTheirMemory == Spec => []SessionsReachTheirMemory
<1>1. ReachInv => SessionsReachTheirMemory
  <2> SUFFICES ASSUME ReachInv, NEW s \in open \cap Session
               PROVE  /\ s \in executor /\ arena[s] = "live"
                      /\ weights[modelOf[s]] = "live"
                      /\ pool[EngineOfSession(s)] = "live"
    BY DEF SessionsReachTheirMemory
  <2> DEFINE m == modelOf[s]
  <2>1. s \in executor /\ arena[s] = "live" /\ m \in Model
    BY DEF ReachInv, MemoryOK, TypeOK
  <2>2. weights[m] = "live" /\ engineOf[m] \in Engine
    <3>1. s \in modelRefs[m]
      BY <2>1 DEF ReachInv, ModelsHeld, ModelHolder, Handle
    <3> QED
      BY <2>1, <3>1 DEF ReachInv, MemoryOK
  <2>3. s \in resourceRefs[engineOf[m]]
    BY <2>1, <2>2 DEF ReachInv, ResourcesHeld, ResourceHolder, EngineOfSession, Handle
  <2>4. pool[engineOf[m]] = "live"
    BY <2>2, <2>3 DEF ReachInv, PoolsHeld
  <2> QED
    BY <2>1, <2>2, <2>4 DEF EngineOfSession
<1> QED
  BY <1>1, HandleInvariant, PTL

\* Between calls the references are those of the objects there are, and when the
\* caller holds nothing, nothing is left but what was leaked for want of its
\* device.
LEMMA IdleHolders ==
  ASSUME ReachInv, Idle
  PROVE  RefsMatchHolders
<1>1. guards = <<>> /\ \A o, y, z : ~Owes(o, y, z)
  BY IdleFacts
<1>2. ASSUME NEW m \in Model
      PROVE  modelRefs[m] = (open \cap {m}) \cup {s \in open \cap Session : modelOf[s] = m}
  <2>1. \A h \in Handle : h \in modelRefs[m] <=>
          (h = m /\ m \in open) \/ (h \in open \cap Session /\ modelOf[h] = m)
    BY <1>1 DEF ReachInv, ModelsHeld, ModelHolder
  <2>2. modelRefs[m] \subseteq Handle /\ m \in Handle /\ Session \subseteq Handle
    BY DEF ReachInv, TypeOK, Handle
  <2> QED
    BY <2>1, <2>2
<1>3. ASSUME NEW e \in Engine
      PROVE  contextRefs[e] = (open \cap {e}) \cup ModelsOf(e)
  <2>1. \A h \in Handle : h \in contextRefs[e] <=> (h = e /\ e \in open) \/ h \in ModelsOf(e)
    BY <1>1 DEF ReachInv, ContextsHeld, ContextHolder
  <2>2. contextRefs[e] \subseteq Handle /\ e \in Handle /\ ModelsOf(e) \subseteq Handle
    BY DEF ReachInv, TypeOK, Handle, ModelsOf
  <2> QED
    BY <2>1, <2>2
<1>4. ASSUME NEW e \in Engine
      PROVE  resourceRefs[e] =
               {x \in {e} : contextRefs[e] # {}} \cup ModelsOf(e)
                 \cup {s \in Session : /\ arena[s] \in {"live", "leaked"}
                                       /\ EngineOfSession(s) = e}
  <2>1. \A h \in Handle : h \in resourceRefs[e] <=>
          \/ h = e /\ contextRefs[e] # {}
          \/ h \in ModelsOf(e)
          \/ h \in Session /\ arena[h] \in {"live", "leaked"} /\ EngineOfSession(h) = e
    BY <1>1 DEF ReachInv, ResourcesHeld, ResourceHolder
  <2>2. /\ resourceRefs[e] \subseteq Handle /\ e \in Handle /\ ModelsOf(e) \subseteq Handle
        /\ Session \subseteq Handle
    BY DEF ReachInv, TypeOK, Handle, ModelsOf
  <2> QED
    BY <2>1, <2>2
<1>5. \A e \in Engine : pool[e] = "live" <=> resourceRefs[e] # {}
  BY <1>1 DEF ReachInv, PoolsHeld
<1> QED
  BY <1>1, <1>2, <1>3, <1>4, <1>5 DEF RefsMatchHolders, ModelsOf

THEOREM HandlesLeaveNothing == Spec => []NothingLeftBehind
<1>1. ReachInv => LifetimeInv
  BY IdleHolders DEF LifetimeInv, RefsMatchHolders, ReachInv
<1>2. ASSUME ReachInv, open = {}, Idle
      PROVE  /\ executor = {}
             /\ \A m \in Model : weights[m] # "live" /\ modelRefs[m] = {}
             /\ \A s \in Session : arena[s] # "live"
             /\ \A e \in Engine :
                  /\ contextRefs[e] = {}
                  /\ pool[e] = "live" =>
                       \E s \in Session : arena[s] = "leaked" /\ EngineOfSession(s) = e
  <2>1. \A o, y, z : ~Owes(o, y, z)
    BY <1>2, IdleFacts
  <2>2. executor = {} /\ \A s \in Session : arena[s] # "live"
    BY <1>2, <2>1 DEF ReachInv, MemoryOK, TypeOK
  <2>3. \A m \in Model : modelRefs[m] = {}
    BY <1>2, <2>1 DEF ReachInv, ModelsHeld, ModelHolder, TypeOK, Handle
  <2>4. \A m \in Model : weights[m] # "live"
    BY <1>2, <2>1, <2>3 DEF ReachInv, MemoryOK
  <2>5. \A e \in Engine : contextRefs[e] = {}
    BY <1>2, <2>1, <2>3 DEF ReachInv, ContextsHeld, ContextHolder, ModelsOf, TypeOK, Handle
  <2>6. ASSUME NEW e \in Engine, pool[e] = "live"
        PROVE  \E s \in Session : arena[s] = "leaked" /\ EngineOfSession(s) = e
    <3>1. PICK h \in resourceRefs[e] : TRUE
      BY <1>2, <2>1, <2>6 DEF ReachInv, PoolsHeld
    <3>2. h \in Handle
      BY <1>2 DEF ReachInv, TypeOK, Handle
    <3>3. ResourceHolder(e, h)
      BY <1>2, <3>1, <3>2 DEF ReachInv, ResourcesHeld
    <3> QED
      BY <2>1, <2>2, <2>3, <2>5, <3>3 DEF ResourceHolder, ModelsOf
  <2> QED
    BY <2>2, <2>3, <2>4, <2>5, <2>6
<1>3. ReachInv => NothingLeftBehind
  BY <1>1, <1>2 DEF NothingLeftBehind
<1> QED
  BY <1>3, HandleInvariant, PTL

\* A call on an engine or a model, returning or throwing, leaves the caller's
\* device as it was, unless a cudaSetDevice failed.
THEOREM CallersKeepTheirDevice == Spec => []CallerDeviceKept
<1>1. ReachInv => CallerDeviceKept
  <2> SUFFICES ASSUME ReachInv, Idle, call.kind \in {"engine", "model"}, ~call.deviceLost
               PROVE  device = call.from
    BY DEF CallerDeviceKept
  <2>1. Bottom = device
    BY IdleFacts
  <2> QED
    BY <2>1 DEF ReachInv, DeviceOK
<1> QED
  BY <1>1, HandleInvariant, PTL

\* Memory is given back to a pool that is there, under its own device, and a
\* pool goes when nothing that may still be given back points into it.
LEMMA WeightsGivenBack ==
  ASSUME ReachInv, [Next]_vars, NEW m \in Model, FreedOnce(weights, m)
  PROVE  pool[engineOf[m]] = "live" /\ device' = DeviceOf[engineOf[m]]
<1>1. FreeWeights /\ Head(todo).of = m
  <2>1. weights[m] # "freed" /\ weights'[m] = "freed"
    BY DEF FreedOnce
  <2>2. CASE FreeWeights
    BY <2>1, <2>2 DEF FreeWeights, ReachInv, TypeOK
  <2>3. CASE \E e \in Engine, n \in Model : LoadModel(e, n)
    BY <2>1, <2>3 DEF LoadModel, UploadWeights, ReachInv, TypeOK
  <2>4. CASE UNCHANGED weights
    BY <2>1, <2>4
  <2>5. FreeWeights \/ (\E e \in Engine, n \in Model : LoadModel(e, n)) \/ UNCHANGED weights
    BY DEF Next, Step, vars, memVars, RestoreDevice, DropExecutor, CloseOwner, FreePool,
           DropResources, DropContext, DropModel, EngineCreated, EngineFails, ModelLoaded,
           LoadFails, AttachFails, SessionCreated, OwnerFails, ExecutorFails,
           CreateEngine, UseEngine, DestroyEngine, DestroyModel, CreateSession,
           DestroySession, CallerSelects
  <2> QED
    BY <2>2, <2>3, <2>4, <2>5
<1>2. AtHead("weights", m, Head(todo).by)
  BY <1>1, HeadIs DEF ReachInv, FreeWeights
<1>3. engineOf[m] \in Engine /\ Owes("resources", engineOf[m], m)
  BY <1>2 DEF AtHead, ReachInv, OwedOK
<1>4. pool[engineOf[m]] = "live"
  <2>1. m \in resourceRefs[engineOf[m]]
    BY <1>3 DEF ReachInv, ResourcesHeld, ResourceHolder, Handle
  <2> QED
    BY <1>3, <2>1 DEF ReachInv, PoolsHeld
<1>5. device' = DeviceOf[engineOf[m]]
  BY <1>1 DEF FreeWeights, Select, FreedOnce, ReachInv, TypeOK
<1> QED
  BY <1>4, <1>5

LEMMA ArenaGivenBack ==
  ASSUME ReachInv, [Next]_vars, NEW s \in Session, FreedOnce(arena, s)
  PROVE  /\ pool[EngineOfSession(s)] = "live"
         /\ device' = DeviceOf[EngineOfSession(s)]
         /\ s \notin executor
<1>1. CloseOwner /\ Head(todo).of = s
  <2>1. arena[s] # "freed" /\ arena'[s] = "freed"
    BY DEF FreedOnce
  <2>2. CASE CloseOwner
    BY <2>1, <2>2 DEF CloseOwner, ReachInv, TypeOK
  <2>3. CASE \E m \in Model, t \in Session : CreateSession(m, t)
    BY <2>1, <2>3 DEF CreateSession, ReachInv, TypeOK
  <2>4. CASE UNCHANGED arena
    BY <2>1, <2>4
  <2>5. CloseOwner \/ (\E m \in Model, t \in Session : CreateSession(m, t)) \/ UNCHANGED arena
    BY DEF Next, Step, vars, memVars, RestoreDevice, DropExecutor, FreeWeights, FreePool,
           DropResources, DropContext, DropModel, EngineCreated, EngineFails, ModelLoaded,
           LoadFails, AttachFails, SessionCreated, OwnerFails, ExecutorFails,
           CreateEngine, UseEngine, DestroyEngine, LoadModel, DestroyModel,
           DestroySession, CallerSelects
  <2> QED
    BY <2>2, <2>3, <2>4, <2>5
<1>2. AtHead("owner", s, Head(todo).by)
  BY <1>1, HeadIs DEF ReachInv, CloseOwner
<1>3. arena[s] = "live" /\ s \notin open /\ ~Owes("executor", s, s)
  <2>1. Owes("owner", s, Head(todo).by)
    BY <1>2 DEF AtHead
  <2>2. ~Owes("executor", s, s)
    BY <1>2 DEF AtHead, FirstOps
  <2> QED
    BY <2>1, <2>2 DEF ReachInv, OwedOK
<1>4. s \notin executor
  BY <1>3 DEF ReachInv, MemoryOK
<1>5. EngineOfSession(s) \in Engine
  <2>1. modelOf[s] # None /\ modelOf[s] \in Model
    BY <1>3 DEF ReachInv, MemoryOK, TypeOK
  <2> QED
    BY <2>1 DEF ReachInv, MemoryOK, EngineOfSession
<1>6. pool[EngineOfSession(s)] = "live"
  <2>1. s \in resourceRefs[EngineOfSession(s)]
    BY <1>3, <1>5 DEF ReachInv, ResourcesHeld, ResourceHolder, Handle
  <2> QED
    BY <1>5, <2>1 DEF ReachInv, PoolsHeld
<1>7. device' = DeviceOf[EngineOfSession(s)]
  BY <1>1 DEF CloseOwner, Select, FreedOnce, ReachInv, TypeOK
<1> QED
  BY <1>4, <1>6, <1>7

LEMMA PoolGivenBack ==
  ASSUME ReachInv, [Next]_vars, NEW e \in Engine, FreedOnce(pool, e)
  PROVE  /\ device' = DeviceOf[e]
         /\ \A m \in Model : engineOf[m] = e => weights[m] # "live"
         /\ \A s \in Session :
              modelOf[s] # None /\ EngineOfSession(s) = e => arena[s] = "freed"
<1>1. FreePool /\ Head(todo).of = e
  <2>1. pool[e] # "freed" /\ pool'[e] = "freed"
    BY DEF FreedOnce
  <2>2. CASE FreePool
    BY <2>1, <2>2 DEF FreePool, ReachInv, TypeOK
  <2>3. CASE \E d \in Engine : CreateEngine(d)
    BY <2>1, <2>3 DEF CreateEngine, ReachInv, TypeOK
  <2>4. CASE UNCHANGED pool
    BY <2>1, <2>4
  <2>5. FreePool \/ (\E d \in Engine : CreateEngine(d)) \/ UNCHANGED pool
    BY DEF Next, Step, vars, memVars, RestoreDevice, DropExecutor, CloseOwner, FreeWeights,
           DropResources, DropContext, DropModel, EngineCreated, EngineFails, ModelLoaded,
           LoadFails, AttachFails, SessionCreated, OwnerFails, ExecutorFails,
           UseEngine, DestroyEngine, LoadModel, DestroyModel, CreateSession,
           DestroySession, CallerSelects
  <2> QED
    BY <2>2, <2>3, <2>4, <2>5
<1>2. AtHead("pool", e, Head(todo).by)
  BY <1>1, HeadIs DEF ReachInv, FreePool
<1>3. resourceRefs[e] = {} /\ \A y, z : ~Owes("loaded", y, z) /\ ~Owes("weights", y, z)
  <2>1. Owes("pool", e, Head(todo).by)
    BY <1>2 DEF AtHead
  <2>2. \A y, z : ~Owes("loaded", y, z) /\ ~Owes("weights", y, z)
    BY <1>2 DEF AtHead, FirstOps, Opening
  <2> QED
    BY <2>1, <2>2 DEF ReachInv, OwedOK
<1>4. ASSUME NEW m \in Model, engineOf[m] = e PROVE weights[m] # "live"
  <2>1. modelRefs[m] = {}
    BY <1>3, <1>4 DEF ReachInv, ResourcesHeld, ResourceHolder, ModelsOf, Handle
  <2> QED
    BY <1>3, <2>1 DEF ReachInv, MemoryOK
<1>5. ASSUME NEW s \in Session, modelOf[s] # None, EngineOfSession(s) = e
      PROVE  arena[s] = "freed"
  <2>1. arena[s] \notin {"live", "leaked"}
    BY <1>3, <1>5 DEF ReachInv, ResourcesHeld, ResourceHolder, Handle
  <2> QED
    BY <1>5, <2>1 DEF ReachInv, MemoryOK, TypeOK, Life
<1>6. device' = DeviceOf[e]
  BY <1>1 DEF FreePool, Select, FreedOnce, ReachInv, TypeOK
<1> QED
  BY <1>4, <1>5, <1>6

THEOREM MemoryIsGivenBackSoundly == Spec => FreesAreSound
<1>1. ReachInv /\ [Next]_vars =>
        [/\ \A m \in Model : FreedOnce(weights, m) =>
              pool[engineOf[m]] = "live" /\ device' = DeviceOf[engineOf[m]]
         /\ \A s \in Session : FreedOnce(arena, s) =>
              /\ pool[EngineOfSession(s)] = "live"
              /\ device' = DeviceOf[EngineOfSession(s)]
              /\ s \notin executor
         /\ \A e \in Engine : FreedOnce(pool, e) =>
              /\ device' = DeviceOf[e]
              /\ \A m \in Model : engineOf[m] = e => weights[m] # "live"
              /\ \A s \in Session :
                   modelOf[s] # None /\ EngineOfSession(s) = e => arena[s] = "freed"]_vars
  BY WeightsGivenBack, ArenaGivenBack, PoolGivenBack
<1> QED
  BY <1>1, HandleInvariant, PTL DEF Spec, FreesAreSound

-----------------------------------------------------------------------------
(* The check of a tensor descriptor *)

\* A descriptor that gets as far as its dimensions.
Listed ==
  /\ Common /\ desc.quant = "none" /\ desc.dtype \in DOMAIN ElementSize

TypeInv ==
  /\ desc \in [rank : RankValue, dtype : Dtype, quant : {"none", "q4_k"},
               shape : [1..Dims -> Extent], strides : [1..Dims -> Extent],
               bytes : ByteSize, data : BOOLEAN, scales : BOOLEAN]
  /\ dim \in 0..5 /\ required \in 0..WordMax
  /\ verdict \in {"open", "accepted", "refused"}

SumIsExact ==
  dim > 0 =>
    /\ Listed /\ dim <= desc.rank + 1
    /\ \A i \in 1..desc.rank : i < dim => desc.strides[i] > 0
    /\ required = Reach(dim - 1)

ValidationInv ==
  /\ TypeInv /\ SumIsExact /\ ElementsStayInside /\ FittingIsAccepted

-----------------------------------------------------------------------------
(* Arithmetic *)

\* A product that the division lets through fits into a word.
LEMMA ProductIsExact ==
  ASSUME NEW a \in Nat, NEW b \in Nat, NEW m \in Nat, a # 0, b <= m \div a
  PROVE  a * b \in 0..m
<1>1. PICK q \in Nat : q = m \div a
  BY SMT
<1>2. a * q <= m
  BY <1>1, SMT
<1>3. a * b <= a * q
  BY <1>1, SMT
<1> QED
  BY <1>2, <1>3, SMT

\* And one that it stops does not.
LEMMA StoppedProductIsTooLarge ==
  ASSUME NEW a \in Nat, NEW b \in Nat, NEW m \in Nat, a # 0, ~(b <= m \div a)
  PROVE  a * b > m
<1>1. PICK q \in Nat : q = m \div a
  BY SMT
<1>2. m < a * (q + 1)
  BY <1>1, SMT
<1>3. a * (q + 1) <= a * b
  BY <1>1, SMT
<1> QED
  BY <1>2, <1>3, SMT

LEMMA WordOfSmall ==
  ASSUME NEW m \in Nat, NEW n \in 0..m
  PROVE  n % (m + 1) = n
  BY SMT

-----------------------------------------------------------------------------
(* Reach *)

LEMMA SizesAreWords ==
  ASSUME TypeInv, Listed
  PROVE  /\ ElementSize[desc.dtype] \in 1..WordMax /\ desc.rank \in 1..4
         /\ desc.bytes \in 0..WordMax
         /\ \A i \in 1..desc.rank : desc.shape[i] \in Nat \ {0} /\ desc.strides[i] \in Int
<1> USE SizeAssumption DEF TypeInv, Listed, Common
<1>1. ElementSize[desc.dtype] \in 1..WordMax /\ desc.rank \in 1..4 /\ desc.bytes \in 0..WordMax
  OBVIOUS
<1>2. 1..desc.rank \subseteq 1..Dims
  BY SMT
<1>3. \A i \in 1..desc.rank : desc.shape[i] \in Int /\ desc.strides[i] \in Int
  BY <1>2
<1> QED
  BY <1>1, <1>3

LEMMA TermsAreIntegers ==
  ASSUME TypeInv, Listed, NEW i \in 1..4
  PROVE  /\ Term(i) \in Int
         /\ (i <= desc.rank => desc.strides[i] > 0) => Term(i) \in Nat
<1>1. CASE i <= desc.rank
  <2>1. i \in 1..desc.rank
    BY <1>1, SizesAreWords
  <2>2. desc.shape[i] \in Nat \ {0} /\ desc.strides[i] \in Int
    BY <2>1, SizesAreWords
  <2>3. PICK a \in Nat : a = desc.shape[i] - 1
    BY <2>2
  <2>4. a * desc.strides[i] \in Int /\ (desc.strides[i] > 0 => a * desc.strides[i] >= 0)
    BY <2>2, SMT
  <2> QED
    BY <1>1, <2>2, <2>3, <2>4 DEF Term
<1>2. CASE ~(i <= desc.rank)
  BY <1>2 DEF Term
<1> QED
  BY <1>1, <1>2

LEMMA ReachGrows ==
  ASSUME TypeInv, Listed, NEW i \in 1..4
  PROVE  Reach(i) = Reach(i - 1) + Term(i) /\ Reach(i - 1) \in Int /\ Reach(i) \in Int
<1>1. Term(1) \in Int /\ Term(2) \in Int /\ Term(3) \in Int /\ Term(4) \in Int
  BY TermsAreIntegers
<1>2. ElementSize[desc.dtype] \in Int
  BY SizesAreWords
<1> QED
  BY <1>1, <1>2, SMT DEF Reach

\* Every dimension reaches at least as far as those before it, and as it alone.
LEMMA ReachIsMonotone ==
  ASSUME TypeInv, Listed, \A i \in 1..desc.rank : desc.strides[i] > 0,
         NEW k \in 1..desc.rank
  PROVE  /\ Reach(desc.rank) >= Reach(k - 1) + Term(k)
         /\ Reach(k - 1) >= 0 /\ Term(k) >= 0
         /\ Reach(k - 1) \in Int /\ Term(k) \in Int /\ Reach(desc.rank) \in Int
<1>1. desc.rank \in 1..4 /\ ElementSize[desc.dtype] \in Nat
  BY SizesAreWords, SizeAssumption
<1>2. Term(1) \in Nat /\ Term(2) \in Nat /\ Term(3) \in Nat /\ Term(4) \in Nat
  BY <1>1, TermsAreIntegers
<1> QED
  BY <1>1, <1>2, SMT DEF Reach

-----------------------------------------------------------------------------
(* Steps *)

LEMMA InitIsValid == ASSUME CheckInit PROVE ValidationInv
BY SizeAssumption DEF CheckInit, ValidationInv, TypeInv, SumIsExact, ElementsStayInside, FittingIsAccepted

\* Nothing but the verdict or the sum ever changes.
LEMMA DescStays ==
  ASSUME [CheckNext]_checkVars
  PROVE  desc' = desc
BY DEF CheckNext, checkVars, Quantized, StartUnquantized, NextDimension, Throw, CompareBytes, Conclude

\* A dimension that fits is added exactly.
LEMMA FittingIsExact ==
  ASSUME TypeInv, Listed, NEW i \in 1..desc.rank, Fits(i)
  PROVE  /\ DimBytes(i) = Term(i) /\ Term(i) \in 0..WordMax
         /\ Word(required + DimBytes(i)) = required + Term(i)
         /\ required + Term(i) \in 0..WordMax
<1>1. /\ WordMax \in Nat /\ required \in 0..WordMax /\ i \in 1..4 /\ i <= desc.rank
      /\ desc.shape[i] \in Nat \ {0} /\ desc.strides[i] \in Nat \ {0}
  BY SizesAreWords, SizeAssumption DEF TypeInv, Fits
<1>2. PICK a \in Nat : a = Last(i)
  BY <1>1 DEF Last
<1>3. Term(i) = a * desc.strides[i]
  BY <1>1, <1>2 DEF Term, Last
<1>4. a * desc.strides[i] \in 0..WordMax
  <2>1. CASE a = 0
    BY <1>1, <2>1, SMT
  <2>2. CASE a # 0
    <3>1. desc.strides[i] <= WordMax \div a
      BY <1>2, <2>2 DEF Fits, ProductFits
    <3> QED
      BY <1>1, <2>2, <3>1, ProductIsExact
  <2> QED
    BY <2>1, <2>2
<1>5. DimBytes(i) = Term(i) /\ Term(i) \in 0..WordMax
  BY <1>1, <1>2, <1>3, <1>4, WordOfSmall DEF DimBytes, Word
<1>6. required + Term(i) \in 0..WordMax
  BY <1>1, <1>5 DEF Fits, SumFits
<1> QED
  BY <1>1, <1>5, <1>6, WordOfSmall DEF Word

\* A dimension that does not fit reaches further than any word says.
LEMMA StoppedIsTooLarge ==
  ASSUME TypeInv, Listed, NEW i \in 1..desc.rank, ~Fits(i),
         \A j \in 1..desc.rank : desc.strides[j] > 0, required = Reach(i - 1)
  PROVE  Reach(desc.rank) > desc.bytes
<1>1. /\ WordMax \in Nat /\ required \in 0..WordMax /\ i \in 1..4 /\ i <= desc.rank
      /\ desc.shape[i] \in Nat \ {0} /\ desc.strides[i] \in Nat \ {0}
      /\ desc.bytes \in 0..WordMax
  BY SizesAreWords, SizeAssumption DEF TypeInv
<1>2. PICK a \in Nat : a = Last(i)
  BY <1>1 DEF Last
<1>3. Term(i) = a * desc.strides[i]
  BY <1>1, <1>2 DEF Term, Last
<1>4. Reach(desc.rank) >= required + Term(i) /\ Term(i) \in Nat /\ Reach(desc.rank) \in Int
  BY ReachIsMonotone
<1>5. CASE ~ProductFits(i)
  <2>1. a # 0 /\ ~(desc.strides[i] <= WordMax \div a)
    BY <1>2, <1>5 DEF ProductFits
  <2>2. a * desc.strides[i] > WordMax
    BY <1>1, <2>1, StoppedProductIsTooLarge
  <2> QED
    BY <1>1, <1>3, <1>4, <2>2
<1>6. CASE ProductFits(i) /\ ~SumFits(i)
  <2>1. Term(i) \in 0..WordMax => DimBytes(i) = Term(i)
    BY <1>1, <1>2, <1>3, WordOfSmall DEF DimBytes, Word
  <2>2. Term(i) > WordMax - required
    BY <1>1, <1>4, <1>6, <2>1 DEF SumFits
  <2> QED
    BY <1>1, <1>4, <2>2
<1> QED
  BY <1>1, <1>5, <1>6 DEF Fits

LEMMA StartKeeps ==
  ASSUME ValidationInv, StartUnquantized
  PROVE  ValidationInv'
<1> USE DEF ValidationInv, StartUnquantized
<1>1. Listed /\ Listed'
  BY DEF Listed, Common, Known
<1>2. TypeInv'
  BY <1>1, SizesAreWords DEF TypeInv
<1>3. required' = Reach(0)'
  <2>1. ElementSize[desc.dtype] \in Int
    BY <1>1, SizesAreWords
  <2> QED
    BY <2>1, SMT DEF Reach
<1>4. SumIsExact'
  <2>1. dim' = 1 /\ desc.rank \in 1..4 /\ desc' = desc
    BY <1>1, SizesAreWords
  <2>2. \A i \in 1..desc.rank : ~(i < 1)
    BY <2>1
  <2> QED
    BY <1>1, <1>3, <2>1, <2>2 DEF SumIsExact
<1> QED
  BY <1>2, <1>4 DEF ElementsStayInside, FittingIsAccepted

LEMMA NextDimensionKeeps ==
  ASSUME ValidationInv, NextDimension
  PROVE  ValidationInv'
<1>1. /\ TypeInv /\ SumIsExact /\ Listed /\ dim \in 1..desc.rank /\ Fits(dim)
      /\ desc' = desc /\ verdict' = verdict /\ verdict = "open" /\ dim' = dim + 1
  BY DEF ValidationInv, NextDimension, SumIsExact
<1>2. desc.rank \in 1..4
  BY <1>1, SizesAreWords
<1>3. required' = required + Term(dim) /\ required' \in 0..WordMax
  BY <1>1, FittingIsExact DEF NextDimension
<1>4. required' = Reach(dim)
  BY <1>1, <1>2, <1>3, ReachGrows DEF SumIsExact
<1>5. TypeInv'
  BY <1>1, <1>2, <1>3 DEF TypeInv
<1>6. Listed'
  BY <1>1 DEF Listed, Common
<1>7. \A i \in 1..desc.rank : i < dim + 1 => desc.strides[i] > 0
  <2> SUFFICES ASSUME NEW i \in 1..desc.rank, i < dim + 1 PROVE desc.strides[i] > 0
    OBVIOUS
  <2>1. CASE i = dim
    BY <1>1, <2>1 DEF Fits
  <2>2. CASE i < dim
    BY <1>1, <1>2, <2>2 DEF SumIsExact
  <2> QED
    BY <1>1, <1>2, <2>1, <2>2
<1>8. dim' - 1 = dim
  BY <1>1, <1>2
<1>9. Reach(dim - 1)' = Reach(dim)
  BY <1>1, <1>8 DEF Reach, Term
<1>10. SumIsExact'
  BY <1>1, <1>2, <1>4, <1>6, <1>7, <1>9 DEF SumIsExact
<1> QED
  BY <1>1, <1>5, <1>10 DEF ValidationInv, ElementsStayInside, FittingIsAccepted

LEMMA ConcludeKeeps ==
  ASSUME TypeInv, SumIsExact, Conclude(verdict'), verdict' \in {"accepted", "refused"}
  PROVE  TypeInv' /\ SumIsExact'
<1>1. desc' = desc /\ dim' = dim /\ required' = required
  BY DEF Conclude
<1>2. TypeInv'
  BY <1>1 DEF TypeInv
<1>3. Reach(dim - 1)' = Reach(dim - 1) /\ Listed' = Listed
  BY <1>1 DEF Reach, Term, Listed, Common
<1> QED
  BY <1>1, <1>2, <1>3 DEF SumIsExact

LEMMA CompareKeeps ==
  ASSUME ValidationInv, CompareBytes
  PROVE  ValidationInv'
<1>1. /\ TypeInv /\ SumIsExact /\ Conclude(verdict') /\ desc' = desc
      /\ verdict' = IF desc.bytes < required THEN "refused" ELSE "accepted"
  BY DEF ValidationInv, CompareBytes, Conclude
<1>2. desc.rank \in Nat
  BY <1>1, SizeAssumption DEF TypeInv
<1>3. Listed /\ dim = desc.rank + 1
  BY <1>1, <1>2 DEF CompareBytes, SumIsExact
<1>4. dim - 1 = desc.rank /\ required = Reach(desc.rank)
  BY <1>1, <1>2, <1>3 DEF SumIsExact
<1>5. required \in 0..WordMax /\ desc.bytes \in 0..WordMax /\ WordMax \in Nat
  BY <1>1, <1>3, SizesAreWords, SizeAssumption DEF TypeInv
<1>6. Reach(desc.rank)' = Reach(desc.rank)
  BY <1>1 DEF Reach, Term
<1>7. ElementsStayInside' /\ FittingIsAccepted'
  BY <1>1, <1>4, <1>5, <1>6 DEF ElementsStayInside, FittingIsAccepted
<1>8. verdict' \in {"accepted", "refused"}
  BY <1>1
<1>9. TypeInv' /\ SumIsExact'
  BY <1>1, <1>8, ConcludeKeeps
<1> QED
  BY <1>7, <1>9 DEF ValidationInv

LEMMA ThrowKeeps ==
  ASSUME ValidationInv, Throw
  PROVE  ValidationInv'
<1>1. /\ TypeInv /\ SumIsExact /\ Conclude(verdict') /\ desc' = desc /\ verdict' = "refused"
  BY DEF ValidationInv, Throw, Conclude
<1>2. TypeInv' /\ SumIsExact' /\ ElementsStayInside'
  BY <1>1, ConcludeKeeps DEF ElementsStayInside
<1>3. FittingIsAccepted'
  <2> SUFFICES ASSUME Listed, \A j \in 1..desc.rank : desc.strides[j] > 0
               PROVE  Reach(desc.rank) > desc.bytes
    BY <1>1 DEF FittingIsAccepted, Listed, Common, Reach, Term
  <2>1. dim \in 1..desc.rank /\ ~Fits(dim)
    BY DEF Throw, Listed
  <2>2. desc.rank \in 1..4
    BY <1>1, SizesAreWords
  <2>3. required = Reach(dim - 1)
    BY <1>1, <2>1, <2>2 DEF SumIsExact
  <2> QED
    BY <1>1, <2>1, <2>3, StoppedIsTooLarge
<1> QED
  BY <1>2, <1>3 DEF ValidationInv

LEMMA QuantizedKeeps ==
  ASSUME ValidationInv, Quantized
  PROVE  ValidationInv'
<1>1. /\ TypeInv /\ SumIsExact /\ Conclude(verdict') /\ desc' = desc
      /\ verdict' \in {"accepted", "refused"} /\ desc.quant # "none"
  BY DEF ValidationInv, Quantized, Conclude
<1>2. TypeInv' /\ SumIsExact'
  BY <1>1, ConcludeKeeps
<1> QED
  BY <1>1, <1>2 DEF ValidationInv, ElementsStayInside, FittingIsAccepted

LEMMA StepIsValid ==
  ASSUME ValidationInv, [CheckNext]_checkVars
  PROVE  ValidationInv'
<1>1. CASE UNCHANGED checkVars
  <2>1. desc' = desc /\ dim' = dim /\ required' = required /\ verdict' = verdict
    BY <1>1 DEF checkVars
  <2>2. Reach(dim - 1)' = Reach(dim - 1) /\ Reach(desc.rank)' = Reach(desc.rank)
    BY <2>1 DEF Reach, Term
  <2> QED
    BY <2>1, <2>2 DEF ValidationInv, TypeInv, SumIsExact, Listed, Common,
                      ElementsStayInside, FittingIsAccepted
<1>2. CASE CheckNext
  BY <1>2, StartKeeps, NextDimensionKeeps, CompareKeeps, ThrowKeeps, QuantizedKeeps DEF CheckNext
<1> QED
  BY <1>1, <1>2

-----------------------------------------------------------------------------

\* The sum never wraps, whatever the width of a word and whatever a caller
\* wrote into shape and strides.
THEOREM ValidationInvariant == CheckSpec => []ValidationInv
<1>1. CheckInit => ValidationInv
  BY InitIsValid
<1>2. ValidationInv /\ [CheckNext]_checkVars => ValidationInv'
  BY StepIsValid
<1> QED
  BY <1>1, <1>2, PTL DEF CheckSpec

\* No element of an accepted tensor lies behind its bytes, for every width.
THEOREM AcceptedTensorsStayInside == CheckSpec => []ElementsStayInside
<1>1. ValidationInv => ElementsStayInside
  BY DEF ValidationInv
<1> QED
  BY <1>1, ValidationInvariant, PTL

\* The overflow checks refuse nothing that would have fitted, for every width.
THEOREM FittingTensorsAreAccepted == CheckSpec => []FittingIsAccepted
<1>1. ValidationInv => FittingIsAccepted
  BY DEF ValidationInv
<1> QED
  BY <1>1, ValidationInvariant, PTL

\* Both together: the check is exact, for every width.
THEOREM CheckIsExact == CheckSpec => []AcceptsExactly
<1>1. ElementsStayInside /\ FittingIsAccepted => AcceptsExactly
  BY DEF AcceptsExactly
<1> QED
  BY <1>1, AcceptedTensorsStayInside, FittingTensorsAreAccepted, PTL

-----------------------------------------------------------------------------
(* The registry of kernels *)

\* Names are used once, and what is remembered is still owed.
RegistryInv ==
  /\ registrations \in Seq(Capability)
  /\ \A p \in Places : registrations[p].name \in names
  /\ \A p, q \in Places : p # q => registrations[p].name # registrations[q].name
  /\ \A s \in DOMAIN cache :
       cache[s] \in Places /\ Owed(s) = {registrations[cache[s]]}
  /\ AnswersWhatIsOwed

\* What is to be known of the best one of the first k registrations.
BestSoFar(s, k, v) ==
  /\ v \in 0 .. k
  /\ v = 0 => \A j \in 1 .. k : ~ Matches(registrations[j], s)
  /\ v # 0 =>
       /\ Matches(registrations[v], s)
       /\ \A j \in 1 .. k :
            Matches(registrations[j], s) /\ j # v => Before(registrations[v], registrations[j])

\* Of two registrations one comes before the other, and this is transitive.
LEMMA BeforeIsTotal ==
  ASSUME OrderedCapabilities, NEW c \in Capability, NEW d \in Capability,
         c.name # d.name
  PROVE  Before(c, d) \/ Before(d, c)
BY DEF Before, OrderedCapabilities

LEMMA BeforeIsTransitive ==
  ASSUME OrderedCapabilities, NEW c \in Capability, NEW d \in Capability,
         NEW e \in Capability, Before(c, d), Before(d, e)
  PROVE  Before(c, e)
BY DEF Before, OrderedCapabilities

\* One step of the loop of resolve.
LEMMA BestStep ==
  ASSUME OrderedCapabilities, RegistryInv, NEW s,
         NEW k \in 1 .. Len(registrations), NEW v, BestSoFar(s, k - 1, v)
  PROVE  BestSoFar(s, k,
           IF /\ Matches(registrations[k], s)
              /\ v = 0 \/ Before(registrations[k], registrations[v])
           THEN k ELSE v)
<1> DEFINE R == registrations
<1>1. /\ R \in Seq(Capability)
      /\ \A p \in 1 .. Len(R) : R[p] \in Capability
      /\ \A p, q \in 1 .. Len(R) : p # q => R[p].name # R[q].name
  BY DEF RegistryInv, Places
<1>2. k - 1 \in Nat /\ v \in 0 .. k - 1 /\ v # k
  BY DEF BestSoFar
<1> HIDE DEF R
<1>3. CASE Matches(R[k], s) /\ (v = 0 \/ Before(R[k], R[v]))
  <2>1. ASSUME NEW j \in 1 .. k, Matches(R[j], s), j # k PROVE Before(R[k], R[j])
    <3>1. j \in 1 .. k - 1
      BY <2>1
    <3>2. v # 0
      BY <3>1, <2>1 DEF BestSoFar, R
    <3>3. CASE j = v
      BY <3>2, <3>3, <1>3
    <3>4. CASE j # v
      <4>1. Before(R[v], R[j])
        BY <3>1, <3>2, <3>4, <2>1 DEF BestSoFar, R
      <4>2. R[k] \in Capability /\ R[v] \in Capability /\ R[j] \in Capability
        BY <3>1, <3>2, <1>1, <1>2 DEF R
      <4> QED BY <4>1, <4>2, <3>2, <1>3, BeforeIsTransitive
    <3> QED BY <3>3, <3>4
  <2>2. BestSoFar(s, k, k)
    BY <2>1, <1>3 DEF BestSoFar, R
  <2> QED BY <2>2, <1>3 DEF R
<1>4. CASE ~ (Matches(R[k], s) /\ (v = 0 \/ Before(R[k], R[v])))
  <2>1. ASSUME NEW j \in 1 .. k, Matches(R[j], s), j # v
        PROVE  v # 0 /\ Before(R[v], R[j])
    <3>1. CASE j = k
      <4>1. v # 0 /\ ~ Before(R[k], R[v])
        BY <3>1, <2>1, <1>4
      <4>2. v \in 1 .. Len(R) /\ k \in 1 .. Len(R)
        BY <4>1, <1>2 DEF R
      <4>3. R[k].name # R[v].name
        BY <4>2, <1>1, <1>2
      <4> QED BY <4>1, <4>2, <4>3, <3>1, <1>1, BeforeIsTotal
    <3>2. CASE j # k
      <4>1. j \in 1 .. k - 1
        BY <3>2
      <4> QED BY <4>1, <2>1 DEF BestSoFar, R
    <3> QED BY <3>1, <3>2
  <2>2. v # 0 => Matches(R[v], s)
    BY DEF BestSoFar, R
  <2>3. BestSoFar(s, k, v)
    <3>1. v = 0 => \A j \in 1 .. k : ~ Matches(R[j], s)
      BY <2>1
    <3>2. v \in 0 .. k
      BY <1>2
    <3> QED BY <2>1, <2>2, <3>1, <3>2 DEF BestSoFar, R
  <2> QED BY <2>3, <1>4 DEF R
<1> QED BY <1>3, <1>4

\* The loop has found the best of all.
LEMMA BestOfAll ==
  ASSUME OrderedCapabilities, RegistryInv, NEW s
  PROVE  BestSoFar(s, Len(registrations), BestOf(s))
<1> DEFINE L == Len(registrations)
           Better(k, v) ==
             IF /\ Matches(registrations[k], s)
                /\ v = 0 \/ Before(registrations[k], registrations[v])
             THEN k ELSE v
           best ==
             CHOOSE b : b = [k \in 0 .. L |-> IF k = 0 THEN 0 ELSE Better(k, b[k - 1])]
           P == {k \in 0 .. L : BestSoFar(s, k, best[k])}
<1>1. L \in Nat
  BY DEF RegistryInv
<1>2. BestOf(s) = best[L]
  BY DEF BestOf
<1> HIDE DEF L, Better
<1>3. best = [k \in 0 .. L |-> IF k = 0 THEN 0 ELSE Better(k, best[k - 1])]
  <2> DEFINE g == [k \in 1 .. L |-> [v \in 0 .. L |-> Better(k, v)]]
  <2>1. g \in [1 .. L -> [0 .. L -> 0 .. L]]
    BY <1>1 DEF Better
  <2>2. PICK f \in [0 .. L -> 0 .. L] : TakesSteps(f, L, 0, g)
    <3>1. 0 \in 0 .. L
      BY <1>1
    <3> HIDE DEF g
    <3> QED BY <1>1, <2>1, <3>1, BoundedRecursion
  <2>3. ASSUME NEW k \in 0 .. L PROVE f[k] = IF k = 0 THEN 0 ELSE Better(k, f[k - 1])
    <3>1. k # 0 => k \in 1 .. L /\ k - 1 \in 0 .. L /\ f[k - 1] \in 0 .. L
      BY <1>1
    <3>2. k # 0 => g[k][f[k - 1]] = Better(k, f[k - 1])
      BY <3>1
    <3> QED BY <2>2, <3>1, <3>2 DEF TakesSteps
  <2>4. f = [k \in 0 .. L |-> IF k = 0 THEN 0 ELSE Better(k, f[k - 1])]
    <3>1. f = [k \in 0 .. L |-> f[k]]
      OBVIOUS
    <3> QED BY <2>3, <3>1, Zenon
  <2> QED BY <2>4, Zenon
<1> HIDE DEF best
<1>4. 0 \in P
  <2>1. best[0] = 0
    BY <1>1, <1>3
  <2> QED BY <1>1, <2>1 DEF BestSoFar
<1>5. ASSUME NEW k \in 1 .. L, k - 1 \in P PROVE k \in P
  <2>1. best[k] = Better(k, best[k - 1])
    BY <1>1, <1>3
  <2>2. BestSoFar(s, k - 1, best[k - 1])
    BY <1>5
  <2>3. BestSoFar(s, k, Better(k, best[k - 1]))
    BY <2>2, BestStep DEF L, Better
  <2> QED BY <2>1, <2>3
<1> HIDE DEF P
<1>6. \A k \in 0 .. L : k \in P
  BY <1>1, <1>4, <1>5, BoundedInduction
<1>7. L \in P
  BY <1>1, <1>6
<1> QED BY <1>2, <1>7 DEF P, L

\* What resolve finds is what it owes.
LEMMA BestIsOwed ==
  ASSUME OrderedCapabilities, RegistryInv, NEW s
  PROVE  /\ BestOf(s) = 0 => Owed(s) = {}
         /\ BestOf(s) # 0 =>
              BestOf(s) \in Places /\ Owed(s) = {registrations[BestOf(s)]}
<1> DEFINE R == registrations
           b == BestOf(s)
<1>1. BestSoFar(s, Len(R), b)
  BY BestOfAll
<1>2. /\ R \in Seq(Capability)
      /\ Places = 1 .. Len(R)
      /\ \A p \in 1 .. Len(R) : R[p] \in Capability
      /\ \A p, q \in 1 .. Len(R) : p # q => R[p].name # R[q].name
  BY DEF RegistryInv, Places
<1>3. CASE b = 0
  BY <1>1, <1>2, <1>3 DEF BestSoFar, Owed, Registered
<1>4. CASE b # 0
  <2> DEFINE c == R[b]
  <2>1. b \in Places /\ c \in Capability /\ Matches(c, s)
    BY <1>1, <1>2, <1>4 DEF BestSoFar
  <2>2. ASSUME NEW d \in Registered, Matches(d, s), d # c
        PROVE  d \in Capability /\ Before(c, d)
    <3>1. PICK j \in Places : d = R[j]
      BY DEF Registered
    <3> QED BY <3>1, <2>2, <1>1, <1>2, <1>4 DEF BestSoFar
  <2>3. c \in Registered
    BY <2>1 DEF Registered
  <2> HIDE DEF c, b, R
  <2>4. c \in Owed(s)
    <3>1. ASSUME NEW d \in Registered, Matches(d, s)
          PROVE  d.priority < c.priority \/ (d.priority = c.priority /\ d.name >= c.name)
      <4>1. CASE d = c
        BY <4>1, <2>1 DEF OrderedCapabilities
      <4>2. CASE d # c
        BY <4>2, <3>1, <2>1, <2>2 DEF OrderedCapabilities, Before
      <4> QED BY <4>1, <4>2
    <3> QED BY <3>1, <2>1, <2>3 DEF Owed
  <2>5. ASSUME NEW d \in Owed(s) PROVE d = c
    <3>1. d \in Registered /\ Matches(d, s)
      BY DEF Owed
    <3>2. c.priority < d.priority \/ (c.priority = d.priority /\ c.name >= d.name)
      BY <2>1, <2>3 DEF Owed
    <3>3. SUFFICES ASSUME d # c PROVE FALSE
      OBVIOUS
    <3>4. d \in Capability /\ Before(c, d)
      BY <3>1, <3>3, <2>2
    <3> QED BY <3>2, <3>4, <2>1 DEF OrderedCapabilities, Before
  <2>6. Owed(s) = {c}
    BY <2>4, <2>5
  <2> QED BY <2>1, <2>6, <1>4 DEF b, c, R
<1> QED BY <1>3, <1>4

LEMMA RegistryStarts == RegistryInit => RegistryInv
BY DEF RegistryInit, RegistryInv, Places, AnswersWhatIsOwed

\* A registration takes the next place, under a name nobody has.
LEMMA RegisterKeepsInv ==
  ASSUME RegistryInv, NEW c \in Capability, Register(c)
  PROVE  RegistryInv'
<1> DEFINE R == registrations
<1>1. /\ registrations' = Append(R, c) /\ names' = names \cup {c.name}
      /\ c.name \notin names /\ R \in Seq(Capability)
  BY DEF Register, RegistryInv
<1>2. /\ registrations' \in Seq(Capability)
      /\ Places' = 1 .. Len(R) + 1
      /\ Places = 1 .. Len(R)
      /\ Len(R) \in Nat
      /\ \A p \in 1 .. Len(R) : registrations'[p] = R[p]
      /\ registrations'[Len(R) + 1] = c
  BY <1>1 DEF Places
<1>3. /\ \A p \in 1 .. Len(R) : R[p].name \in names
      /\ \A p, q \in 1 .. Len(R) : p # q => R[p].name # R[q].name
  BY <1>2 DEF RegistryInv
<1>4. ASSUME NEW p \in Places' PROVE registrations'[p].name \in names'
  BY <1>1, <1>2, <1>3
<1>5. ASSUME NEW p \in Places', NEW q \in Places', p # q
      PROVE  registrations'[p].name # registrations'[q].name
  <2>1. CASE p = Len(R) + 1
    BY <1>1, <1>2, <1>3, <1>5, <2>1
  <2>2. CASE q = Len(R) + 1
    BY <1>1, <1>2, <1>3, <1>5, <2>2
  <2>3. CASE p # Len(R) + 1 /\ q # Len(R) + 1
    BY <1>2, <1>3, <1>5, <2>3
  <2> QED BY <2>1, <2>2, <2>3
<1>6. cache' = <<>> /\ reply'.call = "register"
  BY DEF Register, Forget
<1> QED BY <1>2, <1>4, <1>5, <1>6 DEF RegistryInv, AnswersWhatIsOwed

\* What leaves the registrations alone leaves alone what is owed.
LEMMA RegistryUnchanged ==
  ASSUME UNCHANGED registrations
  PROVE  Places' = Places /\ \A s : Owed(s)' = Owed(s)
BY DEF Places, Owed, Registered

LEMMA ResolveKeepsInv ==
  ASSUME OrderedCapabilities, RegistryInv, NEW s \in Signature,
         ResolveCached(s) \/ Resolve(s) \/ ResolveRefused(s) \/ ResolveFails(s)
  PROVE  RegistryInv'
<1>1. UNCHANGED <<registrations, names>>
  BY DEF ResolveCached, Resolve, ResolveRefused, ResolveFails
<1>2. Places' = Places /\ \A t : Owed(t)' = Owed(t)
  BY <1>1, RegistryUnchanged
<1>3. \A t \in DOMAIN cache : cache[t] \in Places /\ Owed(t) = {registrations[cache[t]]}
  BY DEF RegistryInv
<1>4. /\ BestOf(s) = 0 => Owed(s) = {}
      /\ BestOf(s) # 0 =>
           BestOf(s) \in Places /\ Owed(s) = {registrations[BestOf(s)]}
  BY BestIsOwed
<1>5. \A t \in DOMAIN cache' :
        cache'[t] \in Places /\ Owed(t) = {registrations[cache'[t]]}
  <2>1. CASE Resolve(s)
    BY <2>1, <1>3, <1>4 DEF Resolve
  <2>2. CASE UNCHANGED cache
    BY <2>2, <1>3
  <2> QED BY <2>1, <2>2 DEF ResolveCached, ResolveRefused, ResolveFails
<1>6. reply'.call = "resolve" /\ "threw" \notin DOMAIN reply' =>
        /\ reply'.signature = s
        /\ Owed(s) = IF "place" \in DOMAIN reply'
                     THEN {registrations[reply'.place]} ELSE {}
  <2>1. CASE ResolveCached(s)
    BY <2>1, <1>3 DEF ResolveCached
  <2>2. CASE Resolve(s)
    BY <2>2, <1>4 DEF Resolve
  <2>3. CASE ResolveRefused(s)
    BY <2>3, <1>4 DEF ResolveRefused
  <2>4. CASE ResolveFails(s)
    BY <2>4 DEF ResolveFails
  <2> QED BY <2>1, <2>2, <2>3, <2>4
<1>7. AnswersWhatIsOwed'
  BY <1>1, <1>2, <1>6 DEF AnswersWhatIsOwed, Owed, Registered, Places
<1>8. \A t \in DOMAIN cache' :
        cache'[t] \in Places' /\ Owed(t)' = {registrations'[cache'[t]]}
  BY <1>1, <1>2, <1>5
<1> QED BY <1>1, <1>2, <1>7, <1>8 DEF RegistryInv, Places, Owed, Registered

LEMMA RegistryStep ==
  ASSUME OrderedCapabilities, RegistryInv, [RegistryNext]_registryVars
  PROVE  RegistryInv'
<1>1. ASSUME NEW c \in Capability, RegisterRefused(c) \/ RegisterFails(c)
      PROVE  RegistryInv'
  <2>1. UNCHANGED <<registrations, cache>> /\ names \subseteq names'
    BY <1>1 DEF RegisterRefused, RegisterFails
  <2>2. reply'.call = "register"
    BY <1>1 DEF RegisterRefused, RegisterFails
  <2>3. AnswersWhatIsOwed'
    BY <2>2 DEF AnswersWhatIsOwed
  <2> QED BY <2>1, <2>3, SMTT(30) DEF RegistryInv, Places, Owed, Registered
<1>2. CASE UNCHANGED registryVars
  <2>1. AnswersWhatIsOwed'
    <3>1. AnswersWhatIsOwed
      BY DEF RegistryInv
    <3> QED BY <3>1, <1>2 DEF registryVars, AnswersWhatIsOwed, Owed, Registered, Places
  <2> QED BY <1>2, <2>1 DEF registryVars, RegistryInv, Places, Owed, Registered
<1> QED
  BY <1>1, <1>2, RegisterKeepsInv, ResolveKeepsInv DEF RegistryNext

\* In whatever order kernels are registered and asked for, and whatever fails
\* between, every answer is the kernel that those registered by then owe:
\* the remembered one (registry.cpp, resolve) is never out of date.
THEOREM ResolvedAsOwed ==
  ASSUME OrderedCapabilities PROVE RegistrySpec => []AnswersWhatIsOwed
<1>1. RegistryInv => AnswersWhatIsOwed
  BY DEF RegistryInv
<1>2. RegistryInv /\ [RegistryNext]_registryVars => RegistryInv'
  BY RegistryStep
<1> QED
  BY <1>1, <1>2, RegistryStarts, PTL DEF RegistrySpec
=============================================================================
