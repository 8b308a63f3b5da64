---------------------------- MODULE ForwardProofs ----------------------------
(***************************************************************************)
(* The composition of a chunk's kernels, for every number and mixture of   *)
(* layers, every chunking and every length of context.                     *)
(*                                                                         *)
(* At the end, what its blocks do that wait at barriers: the argmax, the   *)
(* norms and the rows of attention, for every number of threads and warps. *)
(*                                                                         *)
(* Neither the rows nor the states a chunk leaves are the reference's by   *)
(* anything one kernel does: each reads buffers by name that other         *)
(* kernels, layers and chunks write too.  The proof has four parts.        *)
(*                                                                         *)
(* The program: which kernel is at which place of it.  A layer's part      *)
(* begins where those of the layers before it end (Offset), and within it  *)
(* Grouped, MixedAt, FfnAt and SwigluAt are the places at which the group  *)
(* of products, the mixer, its residual and the feed-forward part end.     *)
(*                                                                         *)
(* The invariant: what the buffers hold before the kernel of each place    *)
(* (FrontFacts, BackFacts, HeadFacts, with GroupFacts and MixerFacts for   *)
(* the parts in them), and which layers' states are of the chunk already   *)
(* and which still of the sequence before it (Kept).  Only what a later    *)
(* kernel still reads is said; what has been overwritten is not.           *)
(*                                                                         *)
(* The effects: a kernel over all rows, one that works in place, one that  *)
(* appends to a cache and one that carries a state each turn what the      *)
(* buffers hold into what its place promises, and touch nothing else.      *)
(*                                                                         *)
(* The steps: by the part of the program the kernel launched belongs to.   *)
(*                                                                         *)
(* The argmax chooses the first of the largest logits.  A cell of shared   *)
(* memory holds the best of the logits of all the threads that stages have *)
(* gathered there so far, whichever threads are ahead; scans and blocks    *)
(* leave no logit out, and the better of two bests is the best of both.    *)
(*                                                                         *)
(* Norms and rows of attention: barriers suffice.  The cells of a norm     *)
(* hold sums the way those of the argmax hold bests; in a row of attention *)
(* the barriers a warp has come to tell where it is, and no warp is more   *)
(* than one barrier ahead of another.                                      *)
(***************************************************************************)
EXTENDS ForwardPass, ParallelArgmax, BlockBarriers, BoundedSeqLemmas, FiniteSetTheorems, TLAPS

-----------------------------------------------------------------------------
(* The program of a chunk *)

Name ==
  Buffer \cup
  {"hidden", "scratch", "none", "cast", "matmul", "embed", "norm", "last_norm", "split", "turn",
   "append", "attend", "delta", "add", "swiglu", "argmax", "input_norm", "post_norm",
   "output_norm", "output", "ffn_gate", "ffn_up", "ffn_down", "lm_head", "linear_gate", "input",
   "post", "attended", "state", "read", "mixed", "mixed_hidden", "down", "final", "token"}

KernelSet ==
  [op : Name, weight : Name, layer : Nat, from : Seq(Name), to : Seq(Name),
   stage : Seq(Name), single : BOOLEAN]

\* A kernel of typed parts is a kernel.
LEMMA KernelTyped ==
  ASSUME NEW op \in Name, NEW weight \in Name, NEW l \in Nat, NEW from \in Seq(Name),
         NEW to \in Seq(Name), NEW tensor \in Seq(Name)
  PROVE  Kernel(op, weight, l, from, to, tensor) \in KernelSet
BY DEF Kernel, KernelSet

\* Where the kernels of one sequence are in two of them put together.
LEMMA InConcat ==
  ASSUME NEW S, NEW s \in Seq(S), NEW t \in Seq(S)
  PROVE  /\ s \o t \in Seq(S)
         /\ Len(s \o t) = Len(s) + Len(t)
         /\ \A i \in 1..Len(s) : (s \o t)[i] = s[i]
         /\ \A i \in 1..Len(t) : (s \o t)[Len(s) + i] = t[i]
<1>1. /\ s \o t \in Seq(S)
      /\ Len(s \o t) = Len(s) + Len(t)
      /\ \A i \in 1..(Len(s) + Len(t)) :
           (s \o t)[i] = IF i <= Len(s) THEN s[i] ELSE t[i - Len(s)]
  BY ConcatProperties
<1>2. Len(s) \in Nat /\ Len(t) \in Nat
  OBVIOUS
<1>3. ASSUME NEW i \in 1..Len(s) PROVE (s \o t)[i] = s[i]
  BY <1>1, <1>2
<1>4. ASSUME NEW i \in 1..Len(t) PROVE (s \o t)[Len(s) + i] = t[i]
  <2>1. Len(s) + i \in 1..(Len(s) + Len(t)) /\ ~(Len(s) + i <= Len(s)) /\ (Len(s) + i) - Len(s) = i
    BY <1>2
  <2> QED BY <1>1, <2>1
<1> QED BY <1>1, <1>3, <1>4

-----------------------------------------------------------------------------
(* Groups of products *)

GroupLength(g, n) == IF g THEN 1 + n ELSE 2 * n
IsCast(g, j) == IF g THEN j = 1 ELSE j % 2 = 1

\* The products before kernel j of a group, and the one that kernel j is.
Done(g, j) == IF g THEN (IF j = 1 THEN 0 ELSE j - 2) ELSE (j - 1) \div 2

\* The kernels of a group of products, by their place in it, in both forms
\* `launch_group` has: one cast for all of them, or one before each.
LEMMA GroupKernels ==
  ASSUME NEW g \in BOOLEAN, NEW from \in Name, NEW l \in Nat, NEW ps \in Seq(Seq(Name)),
         \A m \in 1..Len(ps) : Len(ps[m]) = 2
  PROVE  /\ Group(g, from, l, ps) \in Seq(KernelSet)
         /\ Len(Group(g, from, l, ps)) = GroupLength(g, Len(ps))
         /\ \A j \in 1..GroupLength(g, Len(ps)) :
              /\ IsCast(g, j) => Group(g, from, l, ps)[j] = Cast(from, l)
              /\ ~IsCast(g, j) =>
                   /\ Done(g, j) + 1 \in 1..Len(ps)
                   /\ Group(g, from, l, ps)[j] =
                        Product(ps[Done(g, j) + 1][1], l, ps[Done(g, j) + 1][2], ps[Done(g, j) + 1][1])
<1> DEFINE product(k) == Product(ps[k][1], l, ps[k][2], ps[k][1])
           n == Len(ps)
<1>1. Cast(from, l) \in KernelSet /\ n \in Nat
  <2>1. "cast" \in Name /\ "none" \in Name /\ "matmul_input" \in Name
    BY DEF Name, Buffer
  <2>2. <<from>> \in Seq(Name) /\ <<"matmul_input">> \in Seq(Name) /\ <<"none">> \in Seq(Name)
    BY <2>1
  <2>3. Kernel("cast", "none", l, <<from>>, <<"matmul_input">>, <<"none">>) \in KernelSet
    BY <2>1, <2>2, KernelTyped, Zenon
  <2> QED BY <2>3 DEF Cast
<1>2. ASSUME NEW m \in 1..n PROVE product(m) \in KernelSet
  <2>1. ps[m] \in Seq(Name)
    OBVIOUS
  <2>2. ps[m][1] \in Name /\ ps[m][2] \in Name
    BY <2>1
  <2>3. "matmul" \in Name /\ "matmul_input" \in Name
    BY DEF Name, Buffer
  <2>4. <<"matmul_input">> \in Seq(Name) /\ <<ps[m][2]>> \in Seq(Name) /\ <<ps[m][1]>> \in Seq(Name)
    BY <2>2, <2>3
  <2>5. Kernel("matmul", ps[m][1], l, <<"matmul_input">>, <<ps[m][2]>>, <<ps[m][1]>>) \in KernelSet
    BY <2>2, <2>3, <2>4, KernelTyped, Zenon
  <2> QED BY <2>5 DEF Product
<1>3. CASE g
  <2> DEFINE rest == [k \in 1..n |-> product(k)]
  <2>1. rest \in Seq(KernelSet) /\ Len(rest) = n
    <3> HIDE DEF product
    <3>1. rest \in [1..n -> KernelSet]
      BY <1>2
    <3> HIDE DEF rest, n
    <3>2. rest \in Seq(KernelSet)
      BY <1>1, <3>1
    <3> QED BY <1>1, <3>1, <3>2, LenProperties
  <2>2. Group(g, from, l, ps) = <<Cast(from, l)>> \o rest
    BY <1>3 DEF Group
  <2>3. <<Cast(from, l)>> \in Seq(KernelSet) /\ Len(<<Cast(from, l)>>) = 1
    BY <1>1
  <2>4. \A i \in 1..n : rest[i] = product(i)
    OBVIOUS
  <2> HIDE DEF rest, product
  <2>5. /\ Group(g, from, l, ps) \in Seq(KernelSet)
        /\ Len(Group(g, from, l, ps)) = 1 + n
        /\ Group(g, from, l, ps)[1] = Cast(from, l)
        /\ \A i \in 1..n : Group(g, from, l, ps)[1 + i] = product(i)
    BY <2>1, <2>2, <2>3, <2>4, InConcat
  <2>6. ASSUME NEW j \in 1..GroupLength(g, n), ~IsCast(g, j)
        PROVE  Done(g, j) + 1 \in 1..n /\ 1 + (Done(g, j) + 1) = j
    BY <1>1, <1>3, <2>6 DEF GroupLength, IsCast, Done
  <2>7. ASSUME NEW j \in 1..GroupLength(g, n), IsCast(g, j) PROVE j = 1
    BY <1>3, <2>7 DEF IsCast
  <2>8. GroupLength(g, n) = 1 + n
    BY <1>3 DEF GroupLength
  <2> QED BY <2>5, <2>6, <2>7, <2>8 DEF product
<1>4. CASE ~g
  <2>1. Group(g, from, l, ps) = [k \in 1..(2 * n) |->
             IF k % 2 = 1 THEN Cast(from, l) ELSE product(k \div 2)]
    BY <1>4 DEF Group
  <2>2. ASSUME NEW k \in 1..(2 * n), k % 2 # 1 PROVE k \div 2 \in 1..n /\ (k - 1) \div 2 + 1 = k \div 2
    BY <1>1, <2>2
  <2> HIDE DEF product
  <2>3. Group(g, from, l, ps) \in [1..(2 * n) -> KernelSet]
    BY <1>1, <1>2, <2>1, <2>2
  <2>4. 2 * n \in Nat
    BY <1>1
  <2>5. Group(g, from, l, ps) \in Seq(KernelSet) /\ Len(Group(g, from, l, ps)) = 2 * n
    <3>1. Group(g, from, l, ps) \in Seq(KernelSet)
      BY <2>3, <2>4, SMTT(30)
    <3> QED BY <2>3, <2>4, <3>1, LenProperties
  <2>6. GroupLength(g, n) = 2 * n
    BY <1>4 DEF GroupLength
  <2>7. ASSUME NEW j \in 1..(2 * n), ~IsCast(g, j)
        PROVE  Done(g, j) + 1 \in 1..n /\ Group(g, from, l, ps)[j] = product(Done(g, j) + 1)
    <3>1. j % 2 # 1 /\ Done(g, j) = (j - 1) \div 2
      BY <1>4, <2>7 DEF IsCast, Done
    <3> QED BY <2>1, <2>2, <3>1
  <2>8. ASSUME NEW j \in 1..(2 * n), IsCast(g, j) PROVE Group(g, from, l, ps)[j] = Cast(from, l)
    BY <1>4, <2>1, <2>8 DEF IsCast
  <2> QED BY <2>5, <2>6, <2>7, <2>8 DEF product
<1> QED BY <1>3, <1>4

-----------------------------------------------------------------------------
(* Layers *)

FullProducts == <<<<"query_gate", "query_gate">>, <<"key", "key">>, <<"value", "value">>>>
LinearProducts ==
  <<<<"qkv", "qkv">>, <<"beta", "beta">>, <<"alpha", "alpha">>, <<"linear_gate", "gate">>>>
FfnProducts == <<<<"ffn_gate", "intermediate_a">>, <<"ffn_up", "intermediate_b">>>>

Full(l) == Layers[l] = "full"
MixerProducts(l) == IF Full(l) THEN FullProducts ELSE LinearProducts

\* The kernels of a layer up to its mixer's own, up to its first product of one
\* input alone, up to its feed-forward part, and up to swiglu.
Grouped(g, l) == 1 + GroupLength(g, Len(MixerProducts(l)))
MixedAt(g, l) == Grouped(g, l) + (IF Full(l) THEN 5 ELSE 2)
FfnAt(g, l) == MixedAt(g, l) + 4
SwigluAt(g, l) == FfnAt(g, l) + GroupLength(g, 2)
LayerLength(g, l) == SwigluAt(g, l) + 4

FullKernel(l, i) ==
  CASE i = 1 -> Kernel("split", "none", l, <<"query_gate">>, <<"query", "gate">>, <<"query", "gate">>)
    [] i = 2 -> Kernel("turn", "query_norm", l, <<"query">>, <<"query_norm">>, <<"query_norm">>)
    [] i = 3 -> Kernel("turn", "key_norm", l, <<"key">>, <<"key_norm">>, <<"key_norm">>)
    [] i = 4 -> Kernel("append", "none", l, <<"key_norm", "value">>, <<>>, <<>>)
    [] i = 5 -> Kernel("attend", "none", l, <<"query_norm", "gate">>, <<"attention_out">>, <<"attended">>)

LinearKernel(l, i) ==
  CASE i = 1 -> Kernel("pack", "none", l, <<"qkv", "beta", "alpha", "gate">>, <<"pack">>, <<"pack">>)
    [] i = 2 -> Kernel("delta", "none", l, <<"pack">>, <<"attention_out">>, <<"read">>)

MixerKernel(l, i) == IF Full(l) THEN FullKernel(l, i) ELSE LinearKernel(l, i)
MixerLength(l) == IF Full(l) THEN 5 ELSE 2

Norm(weight, l, tensor) == Kernel("norm", weight, l, <<"hidden">>, <<"scratch">>, <<tensor>>)
Add(l, tensor) == Kernel("add", "none", l, <<"hidden", "projected">>, <<"scratch">>, <<tensor>>)
Swiglu(l) ==
  Kernel("swiglu", "none", l, <<"intermediate_a", "intermediate_b">>, <<"intermediate_a">>, <<"swiglu">>)
Mixer(g, l) == IF Full(l) THEN FullLayer(g, l) ELSE LinearLayer(g, l)

\* The products of a group have two names each.
LEMMA ProductsTyped ==
  /\ FullProducts \in Seq(Seq(Name)) /\ Len(FullProducts) = 3
  /\ LinearProducts \in Seq(Seq(Name)) /\ Len(LinearProducts) = 4
  /\ FfnProducts \in Seq(Seq(Name)) /\ Len(FfnProducts) = 2
  /\ \A m \in 1..3 : Len(FullProducts[m]) = 2
  /\ \A m \in 1..4 : Len(LinearProducts[m]) = 2
  /\ \A m \in 1..2 : Len(FfnProducts[m]) = 2
<1>1. \A x, y \in Name : <<x, y>> \in Seq(Name) /\ Len(<<x, y>>) = 2
  OBVIOUS
<1>2. {"query_gate", "key", "value", "qkv", "beta", "alpha", "linear_gate", "gate", "ffn_gate",
       "ffn_up", "intermediate_a", "intermediate_b"} \subseteq Name
  BY DEF Name, Buffer
<1> HIDE DEF Name
<1>3. /\ \A m \in 1..3 : FullProducts[m] \in Seq(Name) /\ Len(FullProducts[m]) = 2
      /\ \A m \in 1..4 : LinearProducts[m] \in Seq(Name) /\ Len(LinearProducts[m]) = 2
      /\ \A m \in 1..2 : FfnProducts[m] \in Seq(Name) /\ Len(FfnProducts[m]) = 2
  BY <1>1, <1>2 DEF FullProducts, LinearProducts, FfnProducts
<1>4. \A S : \A w, x, y, z \in S :
        /\ <<w, x>> \in Seq(S) /\ Len(<<w, x>>) = 2
        /\ <<w, x, y>> \in Seq(S) /\ Len(<<w, x, y>>) = 3
        /\ <<w, x, y, z>> \in Seq(S) /\ Len(<<w, x, y, z>>) = 4
  OBVIOUS
<1>5. /\ FullProducts \in Seq(Seq(Name)) /\ Len(FullProducts) = 3
      /\ LinearProducts \in Seq(Seq(Name)) /\ Len(LinearProducts) = 4
      /\ FfnProducts \in Seq(Seq(Name)) /\ Len(FfnProducts) = 2
  BY <1>1, <1>2, <1>4 DEF FullProducts, LinearProducts, FfnProducts
<1> QED BY <1>3, <1>5

\* The kernels there are, one by one.
LEMMA KernelsTyped ==
  ASSUME NEW l \in Nat
  PROVE  /\ \A i \in 1..5 : FullKernel(l, i) \in KernelSet
         /\ \A i \in 1..2 : LinearKernel(l, i) \in KernelSet
         /\ Norm("input_norm", l, "input") \in KernelSet
         /\ Norm("post_norm", l, "post") \in KernelSet
         /\ Add(l, "mixed_hidden") \in KernelSet /\ Add(l, "hidden") \in KernelSet
         /\ Swiglu(l) \in KernelSet
         /\ \A from, weight, to, tensor \in Name :
              Cast(from, l) \in KernelSet /\ Product(weight, l, to, tensor) \in KernelSet
<1>1. \A x, y, z, w \in Name :
        /\ <<x>> \in Seq(Name) /\ <<x, y>> \in Seq(Name) /\ <<x, y, z, w>> \in Seq(Name)
  OBVIOUS
<1>2. <<>> \in Seq(Name)
  OBVIOUS
<1>3. Buffer \subseteq Name /\
  {"hidden", "scratch", "none", "cast", "matmul", "embed", "norm", "last_norm", "split", "turn",
   "append", "attend", "delta", "add", "swiglu", "argmax", "input_norm", "post_norm",
   "output_norm", "output", "ffn_gate", "ffn_up", "ffn_down", "lm_head", "linear_gate", "input",
   "post", "attended", "state", "read", "mixed", "mixed_hidden", "down", "final", "token"} \subseteq Name
  BY DEF Name
<1>4. {"query_gate", "query", "gate", "query_norm", "key", "key_norm", "value", "qkv", "beta",
       "alpha", "pack", "attention_out", "projected", "matmul_input",
       "intermediate_a", "intermediate_b", "logits", "result"} \subseteq Name
  BY <1>3 DEF Buffer
<1> HIDE DEF Name
<1>5. ASSUME NEW i \in 1..5 PROVE FullKernel(l, i) \in KernelSet
  <2>1. CASE i = 1
    BY <1>1, <1>3, <1>4, <2>1, SMT DEF FullKernel, Kernel, KernelSet
  <2>2. CASE i = 2
    BY <1>1, <1>3, <1>4, <2>2, SMT DEF FullKernel, Kernel, KernelSet
  <2>3. CASE i = 3
    BY <1>1, <1>3, <1>4, <2>3, SMT DEF FullKernel, Kernel, KernelSet
  <2>4. CASE i = 4
    BY <1>1, <1>2, <1>3, <1>4, <2>4, SMT DEF FullKernel, Kernel, KernelSet
  <2>5. CASE i = 5
    BY <1>1, <1>3, <1>4, <2>5, SMT DEF FullKernel, Kernel, KernelSet
  <2> QED BY <2>1, <2>2, <2>3, <2>4, <2>5
<1>6. ASSUME NEW i \in 1..2 PROVE LinearKernel(l, i) \in KernelSet
  <2>1. CASE i = 1
    BY <1>1, <1>3, <1>4, <2>1, SMT DEF LinearKernel, Kernel, KernelSet
  <2>2. CASE i = 2
    BY <1>1, <1>3, <1>4, <2>2, SMT DEF LinearKernel, Kernel, KernelSet
  <2> QED BY <2>1, <2>2
<1>7. Norm("input_norm", l, "input") \in KernelSet /\ Norm("post_norm", l, "post") \in KernelSet
  BY <1>1, <1>3, <1>4, SMT DEF Norm, Kernel, KernelSet
<1>8. Add(l, "mixed_hidden") \in KernelSet /\ Add(l, "hidden") \in KernelSet
  BY <1>1, <1>3, <1>4, SMT DEF Add, Kernel, KernelSet
<1>9. Swiglu(l) \in KernelSet
  BY <1>1, <1>3, <1>4, SMT DEF Swiglu, Kernel, KernelSet
<1>10. ASSUME NEW from \in Name, NEW weight \in Name, NEW to \in Name, NEW tensor \in Name
       PROVE  Cast(from, l) \in KernelSet /\ Product(weight, l, to, tensor) \in KernelSet
  BY <1>1, <1>3, <1>4, KernelTyped DEF Cast, Product
<1> QED BY <1>5, <1>6, <1>7, <1>8, <1>9, <1>10

\* One kernel is a sequence of kernels.
LEMMA OneKernel ==
  ASSUME NEW k \in KernelSet
  PROVE  <<k>> \in Seq(KernelSet) /\ Len(<<k>>) = 1 /\ <<k>>[1] = k
OBVIOUS

\* Where kernels are in a sequence that others or one more were put after.
LEMMA Joined ==
  ASSUME NEW s \in Seq(KernelSet), NEW t \in Seq(KernelSet), NEW a, NEW b,
         Len(s) = a, Len(t) = b, NEW u, u = s \o t
  PROVE  /\ u \in Seq(KernelSet) /\ Len(u) = a + b
         /\ \A i \in 1..a : u[i] = s[i]
         /\ \A i \in 1..b : u[a + i] = t[i]
<1> DEFINE K == KernelSet
<1>1. s \in Seq(K) /\ t \in Seq(K)
  OBVIOUS
<1>2. /\ s \o t \in Seq(K) /\ Len(s \o t) = Len(s) + Len(t)
      /\ \A i \in 1..Len(s) : (s \o t)[i] = s[i]
      /\ \A i \in 1..Len(t) : (s \o t)[Len(s) + i] = t[i]
  <2> HIDE DEF K
  <2> QED BY ONLY <1>1, InConcat
<1> QED BY <1>2

\* A sequence of kernels with one more.
LEMMA JoinedOne ==
  ASSUME NEW s \in Seq(KernelSet), NEW k \in KernelSet, NEW a, Len(s) = a, NEW u, u = s \o <<k>>
  PROVE  /\ u \in Seq(KernelSet) /\ Len(u) = a + 1
         /\ \A i \in 1..a : u[i] = s[i]
         /\ u[a + 1] = k
<1>1. \A i \in 1..1 : u[a + i] = <<k>>[i]
  BY OneKernel, Joined
<1>2. 1 \in 1..1
  OBVIOUS
<1> QED BY <1>1, <1>2, OneKernel, Joined

\* A sequence of kernels with two more.
LEMMA JoinedTwo ==
  ASSUME NEW s \in Seq(KernelSet), NEW k \in KernelSet, NEW m \in KernelSet, NEW a, Len(s) = a,
         NEW u, u = s \o <<k, m>>
  PROVE  /\ u \in Seq(KernelSet) /\ Len(u) = a + 2
         /\ \A i \in 1..a : u[i] = s[i]
         /\ u[a + 1] = k /\ u[a + 2] = m
<1> DEFINE t == <<k, m>>
           b == Len(t)
<1>1. t \in Seq(KernelSet) /\ b = 2 /\ t[1] = k /\ t[2] = m
  OBVIOUS
<1>2. 1 \in 1..b /\ 2 \in 1..b
  BY <1>1
<1> HIDE DEF t
<1>3. /\ u \in Seq(KernelSet) /\ Len(u) = a + b
      /\ \A i \in 1..a : u[i] = s[i]
      /\ \A i \in 1..b : u[a + i] = t[i]
  BY <1>1, Joined DEF t
<1> QED BY <1>1, <1>2, <1>3

\* The kernels of a mixer.
LEMMA MixerKernels ==
  ASSUME NEW g \in BOOLEAN, NEW l \in 1..Len(Layers)
  PROVE  /\ Mixer(g, l) \in Seq(KernelSet)
         /\ Len(Mixer(g, l)) = MixedAt(g, l) - 1 + 2
         /\ \A j \in 1..(Grouped(g, l) - 1) :
              Mixer(g, l)[j] = Group(g, "scratch", l, MixerProducts(l))[j]
         /\ \A j \in 1..MixerLength(l) : Mixer(g, l)[Grouped(g, l) - 1 + j] = MixerKernel(l, j)
         /\ Mixer(g, l)[MixedAt(g, l)] = Cast("attention_out", l)
         /\ Mixer(g, l)[MixedAt(g, l) + 1] = Product("output", l, "projected", "mixed")
<1> DEFINE ps == MixerProducts(l)
           group == Group(g, "scratch", l, ps)
           n == GroupLength(g, Len(ps))
           m == MixerLength(l)
           middle == IF Full(l)
                     THEN <<FullKernel(l, 1), FullKernel(l, 2), FullKernel(l, 3), FullKernel(l, 4),
                            FullKernel(l, 5)>>
                     ELSE <<LinearKernel(l, 1), LinearKernel(l, 2)>>
           last == <<Cast("attention_out", l), Product("output", l, "projected", "mixed")>>
<1>1. l \in Nat /\ m \in Nat
  BY DEF MixerLength
<1>2. /\ "scratch" \in Name /\ "attention_out" \in Name /\ "output" \in Name
      /\ "projected" \in Name /\ "mixed" \in Name
  BY DEF Name, Buffer
<1>3. group \in Seq(KernelSet) /\ Len(group) = n /\ n \in Nat
  <2>1. ps \in Seq(Seq(Name)) /\ Len(ps) \in {3, 4} /\ \A i \in 1..Len(ps) : Len(ps[i]) = 2
    BY ProductsTyped DEF MixerProducts
  <2> HIDE DEF ps
  <2>2. n \in Nat
    BY <2>1 DEF GroupLength
  <2> QED BY <1>1, <1>2, <2>1, <2>2, GroupKernels
<1>4. middle \in Seq(KernelSet) /\ Len(middle) = m /\ \A j \in 1..m : middle[j] = MixerKernel(l, j)
  <2>1. CASE Full(l)
    <3> DEFINE f(i) == FullKernel(l, i)
    <3>1. f(1) \in KernelSet /\ f(2) \in KernelSet /\ f(3) \in KernelSet /\ f(4) \in KernelSet /\ f(5) \in KernelSet
      BY <1>1, KernelsTyped
    <3>2. m = 5 /\ \A j \in 1..m : MixerKernel(l, j) = f(j)
      BY <2>1 DEF MixerLength, MixerKernel
    <3>3. middle = <<f(1), f(2), f(3), f(4), f(5)>>
      BY <2>1
    <3> HIDE DEF f, middle, m
    <3>4. middle \in Seq(KernelSet) /\ Len(middle) = 5
      BY <3>1, <3>3
    <3>5. middle[1] = f(1) /\ middle[2] = f(2) /\ middle[3] = f(3) /\ middle[4] = f(4) /\ middle[5] = f(5)
      BY <3>3
    <3> QED BY <3>2, <3>4, <3>5
  <2>2. CASE ~Full(l)
    <3> DEFINE f(i) == LinearKernel(l, i)
    <3>1. f(1) \in KernelSet /\ f(2) \in KernelSet
      BY <1>1, KernelsTyped
    <3>2. m = 2 /\ \A j \in 1..m : MixerKernel(l, j) = f(j)
      BY <2>2 DEF MixerLength, MixerKernel
    <3>3. middle = <<f(1), f(2)>>
      BY <2>2
    <3> HIDE DEF f, middle, m
    <3>4. middle \in Seq(KernelSet) /\ Len(middle) = 2
      BY <3>1, <3>3
    <3>5. middle[1] = f(1) /\ middle[2] = f(2)
      BY <3>3
    <3> QED BY <3>2, <3>4, <3>5
  <2> QED BY <2>1, <2>2
<1>5. /\ Cast("attention_out", l) \in KernelSet
      /\ Product("output", l, "projected", "mixed") \in KernelSet
  BY <1>1, <1>2, KernelsTyped
<1>6. Mixer(g, l) = (group \o middle) \o last
  <2>1. CASE Full(l)
    BY <2>1, SMTT(30) DEF Mixer, FullLayer, MixerProducts, FullProducts, FullKernel, Matmul
  <2>2. CASE ~Full(l)
    BY <2>2 DEF Mixer, LinearLayer, MixerProducts, LinearProducts, LinearKernel, Matmul
  <2> QED BY <2>1, <2>2
<1>7. Grouped(g, l) = 1 + n /\ MixedAt(g, l) = 1 + n + m
  BY DEF Grouped, MixedAt, MixerLength
<1> HIDE DEF group, middle, last, n, m, ps
<1> DEFINE front == group \o middle
<1>8. /\ front \in Seq(KernelSet) /\ Len(front) = n + m
      /\ \A j \in 1..n : front[j] = group[j]
      /\ \A j \in 1..m : front[n + j] = MixerKernel(l, j)
  <2>1. /\ front \in Seq(KernelSet) /\ Len(front) = n + m
        /\ \A j \in 1..n : front[j] = group[j]
        /\ \A j \in 1..m : front[n + j] = middle[j]
    BY <1>3, <1>4, Joined
  <2> QED BY ONLY <1>4, <2>1
<1> HIDE DEF front
<1>9. /\ Mixer(g, l) \in Seq(KernelSet) /\ Len(Mixer(g, l)) = n + m + 2
      /\ \A j \in 1..(n + m) : Mixer(g, l)[j] = front[j]
      /\ Mixer(g, l)[n + m + 1] = Cast("attention_out", l)
      /\ Mixer(g, l)[n + m + 2] = Product("output", l, "projected", "mixed")
  <2>1. Mixer(g, l) = front \o <<Cast("attention_out", l), Product("output", l, "projected", "mixed")>>
    BY <1>6 DEF front, last
  <2> QED BY <1>5, <1>8, <2>1, JoinedTwo
<1>10. Grouped(g, l) - 1 = n /\ MixedAt(g, l) = n + m + 1 /\ MixedAt(g, l) + 1 = n + m + 2
       /\ MixedAt(g, l) - 1 + 2 = n + m + 2
  BY <1>1, <1>3, <1>7
<1>11. ASSUME NEW j \in 1..n PROVE Mixer(g, l)[j] = group[j]
  BY <1>1, <1>3, <1>8, <1>9
<1>12. ASSUME NEW j \in 1..m PROVE Mixer(g, l)[n + j] = MixerKernel(l, j)
  <2>1. n + j \in 1..(n + m)
    BY <1>1, <1>3
  <2> QED BY <1>8, <1>9, <2>1
<1> QED BY <1>5, <1>9, <1>10, <1>11, <1>12 DEF group, ps, m

\* The kernels of a layer.
LEMMA LayerKernels ==
  ASSUME NEW g \in BOOLEAN, NEW l \in 1..Len(Layers)
  PROVE  /\ Layer(g, l) \in Seq(KernelSet)
         /\ Len(Layer(g, l)) = LayerLength(g, l)
         /\ Layer(g, l)[1] = Norm("input_norm", l, "input")
         /\ \A j \in 1..GroupLength(g, Len(MixerProducts(l))) :
              Layer(g, l)[1 + j] = Group(g, "scratch", l, MixerProducts(l))[j]
         /\ \A j \in 1..MixerLength(l) : Layer(g, l)[Grouped(g, l) + j] = MixerKernel(l, j)
         /\ Layer(g, l)[MixedAt(g, l) + 1] = Cast("attention_out", l)
         /\ Layer(g, l)[MixedAt(g, l) + 2] = Product("output", l, "projected", "mixed")
         /\ Layer(g, l)[MixedAt(g, l) + 3] = Add(l, "mixed_hidden")
         /\ Layer(g, l)[MixedAt(g, l) + 4] = Norm("post_norm", l, "post")
         /\ \A j \in 1..GroupLength(g, 2) :
              Layer(g, l)[FfnAt(g, l) + j] = Group(g, "scratch", l, FfnProducts)[j]
         /\ Layer(g, l)[SwigluAt(g, l) + 1] = Swiglu(l)
         /\ Layer(g, l)[SwigluAt(g, l) + 2] = Cast("intermediate_a", l)
         /\ Layer(g, l)[SwigluAt(g, l) + 3] = Product("ffn_down", l, "projected", "down")
         /\ Layer(g, l)[SwigluAt(g, l) + 4] = Add(l, "hidden")
<1> DEFINE first == Norm("input_norm", l, "input")
           ffn == Group(g, "scratch", l, FfnProducts)
           down == <<Cast("intermediate_a", l), Product("ffn_down", l, "projected", "down")>>
           m == MixedAt(g, l)
           h == GroupLength(g, 2)
           n == GroupLength(g, Len(MixerProducts(l)))
           s1 == <<first>> \o Mixer(g, l)
           s2 == s1 \o <<Add(l, "mixed_hidden")>>
           s3 == s2 \o <<Norm("post_norm", l, "post")>>
           s4 == s3 \o ffn
           s5 == s4 \o <<Swiglu(l)>>
           s6 == s5 \o down
           s7 == s6 \o <<Add(l, "hidden")>>
<1>1. /\ l \in Nat /\ h \in Nat /\ n \in Nat /\ MixerLength(l) \in Nat
      /\ m = 1 + n + MixerLength(l) /\ Grouped(g, l) = 1 + n
      /\ FfnAt(g, l) = m + 4 /\ SwigluAt(g, l) = m + 4 + h /\ LayerLength(g, l) = m + h + 8
  <2>1. Len(MixerProducts(l)) \in {3, 4}
    BY ProductsTyped DEF MixerProducts
  <2>2. n \in Nat /\ h \in Nat /\ MixerLength(l) \in Nat /\ l \in Nat
    BY <2>1 DEF GroupLength, MixerLength
  <2>3. m = 1 + n + MixerLength(l) /\ Grouped(g, l) = 1 + n
    BY DEF MixedAt, MixerLength, Grouped
  <2>4. m \in Nat
    BY <2>2, <2>3
  <2> HIDE DEF n, h, m
  <2>5. FfnAt(g, l) = m + 4 /\ SwigluAt(g, l) = FfnAt(g, l) + h /\ LayerLength(g, l) = SwigluAt(g, l) + 4
    BY DEF FfnAt, SwigluAt, LayerLength, h, m
  <2> QED BY <2>2, <2>3, <2>4, <2>5
<1>2. /\ first \in KernelSet /\ Add(l, "mixed_hidden") \in KernelSet
      /\ Norm("post_norm", l, "post") \in KernelSet /\ Swiglu(l) \in KernelSet
      /\ Add(l, "hidden") \in KernelSet
  BY <1>1, KernelsTyped
<1>3. ffn \in Seq(KernelSet) /\ Len(ffn) = h
  <2>1. "scratch" \in Name
    BY DEF Name
  <2>2. FfnProducts \in Seq(Seq(Name)) /\ Len(FfnProducts) = 2
        /\ \A i \in 1..Len(FfnProducts) : Len(FfnProducts[i]) = 2
    BY ProductsTyped
  <2> DEFINE ps == FfnProducts
  <2>3. ps \in Seq(Seq(Name)) /\ \A i \in 1..Len(ps) : Len(ps[i]) = 2
    BY <2>2
  <2>4. /\ Group(g, "scratch", l, ps) \in Seq(KernelSet)
        /\ Len(Group(g, "scratch", l, ps)) = GroupLength(g, Len(ps))
    <3> HIDE DEF ps
    <3> QED BY <1>1, <2>1, <2>3, GroupKernels
  <2> QED BY <2>2, <2>4
<1>4. /\ Cast("intermediate_a", l) \in KernelSet
      /\ Product("ffn_down", l, "projected", "down") \in KernelSet
  <2>1. /\ "intermediate_a" \in Name /\ "ffn_down" \in Name /\ "projected" \in Name /\ "down" \in Name
    BY DEF Name, Buffer
  <2> QED BY <1>1, <2>1, KernelsTyped
<1>5. Layer(g, l) = s7
  BY DEF Layer, Mixer, Full, Norm, Add, Residual, Swiglu, Matmul, FfnProducts
<1>6. /\ Mixer(g, l) \in Seq(KernelSet) /\ Len(Mixer(g, l)) = m + 1
      /\ \A j \in 1..n : Mixer(g, l)[j] = Group(g, "scratch", l, MixerProducts(l))[j]
      /\ \A j \in 1..MixerLength(l) : Mixer(g, l)[n + j] = MixerKernel(l, j)
      /\ Mixer(g, l)[m] = Cast("attention_out", l)
      /\ Mixer(g, l)[m + 1] = Product("output", l, "projected", "mixed")
  <2>1. Grouped(g, l) - 1 = n /\ m - 1 + 2 = m + 1
    BY <1>1, SMTT(30)
  <2> QED BY <2>1, MixerKernels
<1> HIDE DEF first, ffn, down, m, h, n
<1>16. m \in Nat /\ h \in Nat
  BY <1>1
<1>7. /\ s1 \in Seq(KernelSet) /\ Len(s1) = 1 + (m + 1)
      /\ s1[1] = first /\ \A j \in 1..(m + 1) : s1[1 + j] = Mixer(g, l)[j]
  <2>1. <<first>> \in Seq(KernelSet) /\ Len(<<first>>) = 1 /\ <<first>>[1] = first
    BY <1>2, OneKernel
  <2>2. 1 \in 1..1
    OBVIOUS
  <2> QED BY <1>6, <2>1, <2>2, Joined
<1> HIDE DEF s1
<1>8. /\ s2 \in Seq(KernelSet) /\ Len(s2) = 1 + (m + 1) + 1
      /\ \A j \in 1..(1 + (m + 1)) : s2[j] = s1[j]
      /\ s2[1 + (m + 1) + 1] = Add(l, "mixed_hidden")
  BY <1>2, <1>7, JoinedOne
<1>a. 1 + (m + 1) = m + 2 /\ 1 + (m + 1) + 1 = m + 3 /\ m + 3 + 1 = m + 4
  BY <1>16
<1> HIDE DEF s2
<1>9. /\ s3 \in Seq(KernelSet) /\ Len(s3) = m + 4
      /\ \A j \in 1..(m + 3) : s3[j] = s2[j]
      /\ s3[m + 4] = Norm("post_norm", l, "post")
  <2>1. s2 \in Seq(KernelSet) /\ Len(s2) = m + 3
    BY <1>8, <1>a
  <2>2. /\ s3 \in Seq(KernelSet) /\ Len(s3) = m + 3 + 1
        /\ \A j \in 1..(m + 3) : s3[j] = s2[j]
        /\ s3[m + 3 + 1] = Norm("post_norm", l, "post")
    BY <1>2, <2>1, JoinedOne
  <2> QED BY ONLY <2>2, <1>a
<1> HIDE DEF s3
<1>10. /\ s4 \in Seq(KernelSet) /\ Len(s4) = m + 4 + h
       /\ \A j \in 1..(m + 4) : s4[j] = s3[j]
       /\ \A j \in 1..h : s4[m + 4 + j] = ffn[j]
  BY <1>3, <1>9, Joined, SMTT(30)
<1> HIDE DEF s4
<1>11. /\ s5 \in Seq(KernelSet) /\ Len(s5) = m + 4 + h + 1
       /\ \A j \in 1..(m + 4 + h) : s5[j] = s4[j]
       /\ s5[m + 4 + h + 1] = Swiglu(l)
  BY <1>2, <1>10, JoinedOne
<1> HIDE DEF s5
<1>12. /\ s6 \in Seq(KernelSet) /\ Len(s6) = m + 4 + h + 1 + 2
       /\ \A j \in 1..(m + 4 + h + 1) : s6[j] = s5[j]
       /\ s6[m + 4 + h + 1 + 1] = Cast("intermediate_a", l)
       /\ s6[m + 4 + h + 1 + 2] = Product("ffn_down", l, "projected", "down")
  <2>1. s6 = s5 \o <<Cast("intermediate_a", l), Product("ffn_down", l, "projected", "down")>>
    BY DEF s6, down
  <2> QED BY <1>4, <1>11, <2>1, JoinedTwo, SMTT(30)
<1>b. m + 4 + h + 1 + 2 = m + h + 7 /\ m + 4 + h + 1 = m + h + 5 /\ m + 4 + h + 1 + 1 = m + h + 6
      /\ m + h + 7 + 1 = m + h + 8
  BY <1>16
<1> HIDE DEF s6
<1>13. /\ s7 \in Seq(KernelSet) /\ Len(s7) = m + h + 8
       /\ \A j \in 1..(m + h + 7) : s7[j] = s6[j]
       /\ s7[m + h + 8] = Add(l, "hidden")
  <2>1. s6 \in Seq(KernelSet) /\ Len(s6) = m + h + 7
    BY ONLY <1>12, <1>b
  <2>2. /\ s7 \in Seq(KernelSet) /\ Len(s7) = m + h + 7 + 1
        /\ \A j \in 1..(m + h + 7) : s7[j] = s6[j]
        /\ s7[m + h + 7 + 1] = Add(l, "hidden")
    BY <1>2, <2>1, JoinedOne
  <2> QED BY ONLY <2>2, <1>b
<1> HIDE DEF s7
<1>14. /\ \A j \in 1..(m + 2) : s7[j] = s1[j]
       /\ s7[m + 3] = Add(l, "mixed_hidden")
       /\ s7[m + 4] = Norm("post_norm", l, "post")
       /\ \A j \in 1..h : s7[m + 4 + j] = ffn[j]
       /\ s7[m + 4 + h + 1] = Swiglu(l)
       /\ s7[m + h + 6] = Cast("intermediate_a", l) /\ s7[m + h + 7] = Product("ffn_down", l, "projected", "down")
  <2>1. ASSUME NEW j \in 1..(m + 4 + h + 1) PROVE s7[j] = s5[j]
    <3>1. j \in 1..(m + h + 7)
      BY ONLY <1>16, <2>1
    <3> QED BY ONLY <3>1, <2>1, <1>12, <1>13
  <2>2. ASSUME NEW j \in 1..(m + 4) PROVE s7[j] = s3[j]
    <3>1. j \in 1..(m + 4 + h) /\ j \in 1..(m + 4 + h + 1)
      BY ONLY <1>16, <2>2
    <3> QED BY ONLY <3>1, <2>1, <2>2, <1>10, <1>11
  <2>3. ASSUME NEW j \in 1..(m + 3) PROVE s7[j] = s2[j]
    <3>1. j \in 1..(m + 4)
      BY ONLY <1>16, <2>3
    <3> QED BY ONLY <3>1, <2>3, <2>2, <1>9
  <2>4. ASSUME NEW j \in 1..(m + 2) PROVE s7[j] = s1[j]
    <3>1. j \in 1..(m + 3) /\ j \in 1..(1 + (m + 1))
      BY ONLY <1>16, <2>4
    <3> QED BY ONLY <3>1, <2>3, <1>8
  <2>5. s7[m + 3] = Add(l, "mixed_hidden") /\ s7[m + 4] = Norm("post_norm", l, "post")
    <3>1. m + 3 \in 1..(m + 3) /\ m + 4 \in 1..(m + 4) /\ 1 + (m + 1) + 1 = m + 3
      BY ONLY <1>16
    <3> QED BY ONLY <3>1, <2>2, <2>3, <1>8, <1>9
  <2>6. ASSUME NEW j \in 1..h PROVE s7[m + 4 + j] = ffn[j]
    <3>1. m + 4 + j \in 1..(m + 4 + h) /\ m + 4 + j \in 1..(m + 4 + h + 1)
      BY ONLY <1>16, <2>6
    <3> QED BY ONLY <3>1, <2>1, <2>6, <1>10, <1>11
  <2>7. s7[m + 4 + h + 1] = Swiglu(l)
    <3>1. m + 4 + h + 1 \in 1..(m + 4 + h + 1)
      BY ONLY <1>16
    <3> QED BY ONLY <3>1, <2>1, <1>11
  <2>8. s7[m + h + 6] = Cast("intermediate_a", l) /\ s7[m + h + 7] = Product("ffn_down", l, "projected", "down")
    <3>1. m + h + 6 \in 1..(m + h + 7) /\ m + h + 7 \in 1..(m + h + 7) /\ 1 \in 1..2 /\ 2 \in 1..2
      BY ONLY <1>16
    <3>2. s6[m + h + 6] = Cast("intermediate_a", l) /\ s6[m + h + 7] = Product("ffn_down", l, "projected", "down")
      BY ONLY <3>1, <1>12, <1>b
    <3> QED BY ONLY <3>1, <3>2, <1>13
  <2> QED BY ONLY <2>4, <2>5, <2>6, <2>7, <2>8
<1>15. /\ s7[1] = first
       /\ \A j \in 1..n : s7[1 + j] = Group(g, "scratch", l, MixerProducts(l))[j]
       /\ \A j \in 1..MixerLength(l) : s7[Grouped(g, l) + j] = MixerKernel(l, j)
       /\ s7[m + 1] = Cast("attention_out", l)
       /\ s7[m + 2] = Product("output", l, "projected", "mixed")
  <2>1. m \in Nat
    BY <1>1, SMTT(30)
  <2>2. ASSUME NEW j \in 1..(m + 1) PROVE s7[1 + j] = Mixer(g, l)[j]
    <3>1. 1 + j \in 1..(m + 2)
      BY ONLY <2>1, <2>2
    <3> QED BY ONLY <3>1, <2>2, <1>7, <1>14
  <2>3. s7[1] = first
    BY <2>1, <1>7, <1>14
  <2>a. n \in Nat /\ MixerLength(l) \in Nat /\ m = 1 + n + MixerLength(l) /\ Grouped(g, l) = 1 + n
    BY <1>1
  <2>4. ASSUME NEW j \in 1..n PROVE s7[1 + j] = Mixer(g, l)[j]
    <3>1. j \in 1..(m + 1)
      BY ONLY <2>4, <2>a
    <3> QED BY ONLY <3>1, <2>2
  <2>5. ASSUME NEW j \in 1..MixerLength(l) PROVE s7[Grouped(g, l) + j] = Mixer(g, l)[n + j]
    <3>1. n + j \in 1..(m + 1) /\ 1 + (n + j) = Grouped(g, l) + j
      BY ONLY <2>5, <2>a
    <3>2. s7[1 + (n + j)] = Mixer(g, l)[n + j]
      BY <2>2, <3>1
    <3> QED BY <3>1, <3>2
  <2>6. s7[1 + m] = Mixer(g, l)[m] /\ s7[1 + (m + 1)] = Mixer(g, l)[m + 1]
    <3>1. m \in 1..(m + 1) /\ m + 1 \in 1..(m + 1)
      BY ONLY <2>1, <2>a
    <3> QED BY ONLY <2>2, <3>1
  <2>7. 1 + m = m + 1 /\ 1 + (m + 1) = m + 2
    BY <2>1
  <2> QED BY <2>3, <2>4, <2>5, <2>6, <2>7, <1>6
<1>17. /\ MixedAt(g, l) = m /\ FfnAt(g, l) = m + 4 /\ SwigluAt(g, l) + 1 = m + 4 + h + 1
       /\ SwigluAt(g, l) + 2 = m + h + 6 /\ SwigluAt(g, l) + 3 = m + h + 7
       /\ SwigluAt(g, l) + 4 = m + h + 8 /\ LayerLength(g, l) = m + h + 8
       /\ GroupLength(g, 2) = h /\ GroupLength(g, Len(MixerProducts(l))) = n
  BY <1>1, <1>16, SMTT(30) DEF m, h, n
<1> QED BY ONLY <1>5, <1>13, <1>14, <1>15, <1>17 DEF first, ffn

-----------------------------------------------------------------------------
(* Chunks *)

Embed == Kernel("embed", "none", 0, <<"ids">>, <<"hidden">>, <<"hidden">>)
One(k) == [k EXCEPT !.single = TRUE]
HeadKernel(i) ==
  LET l == Len(Layers) IN
  CASE i = 1 -> One(Kernel("last_norm", "output_norm", l, <<"hidden">>, <<"scratch">>, <<"final">>))
    [] i = 2 -> One(Cast("scratch", l))
    [] i = 3 -> One(Product("lm_head", l, "logits", "logits"))
    [] i = 4 -> One(Kernel("argmax", "none", l, <<"logits">>, <<"result">>, <<"token">>))

\* The kernels up to the end of layer l.
Offset(g, l) == 1 + Len(LayersTo(g)[l])

\* There is a layer, and the numbers of layers are naturals.
LEMMA LayersCount == Len(Layers) \in Nat /\ Len(Layers) > 0 /\ \A l \in 1..Len(Layers) : l \in Nat
BY LayersAssumption

\* LayersTo is the function its recursive definition describes.
LEMMA LayersToFacts ==
  ASSUME NEW g \in BOOLEAN
  PROVE  /\ LayersTo(g)[0] = <<>>
         /\ \A l \in 0..Len(Layers) : LayersTo(g)[l] \in Seq(KernelSet)
         /\ \A l \in 1..Len(Layers) : LayersTo(g)[l] = LayersTo(g)[l - 1] \o Layer(g, l)
<1> DEFINE n == Len(Layers)
           V == Seq(KernelSet)
           step == [l \in 1..n |-> [s \in V |-> s \o Layer(g, l)]]
           Is(f) == f = [l \in 0..n |-> IF l = 0 THEN <<>> ELSE f[l - 1] \o Layer(g, l)]
           L == LayersTo(g)
<1>1. n \in Nat
  BY LayersCount
<1>2. \A l \in 1..n : Layer(g, l) \in V
  BY LayerKernels
<1>3. \E f : Is(f)
  <2>1. step \in [1..n -> [V -> V]]
    BY <1>2, ConcatProperties
  <2>2. <<>> \in V
    OBVIOUS
  <2>3. PICK f \in [0..n -> V] : TakesSteps(f, n, <<>>, step)
    <3> HIDE DEF V, step, n
    <3> QED BY <1>1, <2>1, <2>2, BoundedRecursion
  <2>4. \A l \in 1..n : f[l] = f[l - 1] \o Layer(g, l)
    <3> SUFFICES ASSUME NEW l \in 1..n PROVE f[l] = f[l - 1] \o Layer(g, l)
      OBVIOUS
    <3>a. l - 1 \in 0..n
      BY <1>1
    <3>1. f[l - 1] \in V
      <4> HIDE DEF V, n, step
      <4> QED BY <2>3, <3>a
    <3>2. f[l] = step[l][f[l - 1]]
      BY <2>3 DEF TakesSteps
    <3>3. step[l][f[l - 1]] = f[l - 1] \o Layer(g, l)
      BY <3>1
    <3> QED BY <3>2, <3>3
  <2>5. f[0] = <<>>
    BY <2>3 DEF TakesSteps
  <2>6. Is(f)
    <3> HIDE DEF V
    <3> QED BY <1>1, <2>3, <2>4, <2>5
  <2> HIDE DEF Is
  <2> QED BY <2>6
<1>4. Is(L)
  <2>1. L = CHOOSE f : Is(f)
    BY DEF LayersTo
  <2> HIDE DEF Is, L
  <2> QED BY <1>3, <2>1
<1>5. L[0] = <<>>
  <2>1. 0 \in 0..n
    BY <1>1
  <2> HIDE DEF L
  <2> QED BY <1>4, <2>1
<1>6. \A l \in 1..n : L[l] = L[l - 1] \o Layer(g, l)
  <2> SUFFICES ASSUME NEW l \in 1..n PROVE L[l] = L[l - 1] \o Layer(g, l)
    OBVIOUS
  <2>1. l \in 0..n /\ l # 0
    BY <1>1
  <2> HIDE DEF L
  <2> QED BY <1>4, <2>1
<1>7. \A l \in 0..n : L[l] \in V
  <2> DEFINE P == {l \in 0..n : L[l] \in V}
  <2>1. 0 \in P
    <3>1. <<>> \in V
      OBVIOUS
    <3> HIDE DEF V, L
    <3> QED BY <1>1, <1>5, <3>1
  <2>2. ASSUME NEW l \in 1..n, l - 1 \in P PROVE l \in P
    <3>1. L[l - 1] \in V /\ Layer(g, l) \in V
      BY <1>2, <2>2
    <3>2. L[l] = L[l - 1] \o Layer(g, l)
      BY <1>6
    <3> HIDE DEF L
    <3>3. L[l] \in V
      BY <3>1, <3>2, ConcatProperties
    <3> QED BY <1>1, <3>3
  <2>3. \A l \in 0..n : l \in P
    <3> HIDE DEF P
    <3> QED BY <1>1, <2>1, <2>2, BoundedInduction
  <2> QED BY <2>3
<1> QED BY <1>5, <1>6, <1>7

\* Layers follow one another, and each has its kernels at its place.
LEMMA LayersInPlace ==
  ASSUME NEW g \in BOOLEAN, NEW l \in 1..Len(Layers)
  PROVE  /\ Offset(g, l) = Offset(g, l - 1) + LayerLength(g, l)
         /\ Offset(g, l) <= Offset(g, Len(Layers))
         /\ \A i \in 1..LayerLength(g, l) :
              LayersTo(g)[Len(Layers)][Len(LayersTo(g)[l - 1]) + i] = Layer(g, l)[i]
<1> DEFINE n == Len(Layers)
           L == LayersTo(g)
           len(k) == Len(L[k])
           m == LayerLength(g, l)
           P == {k \in 0..n : k >= l =>
                   /\ len(l) <= len(k)
                   /\ \A i \in 1..m : L[k][len(l - 1) + i] = Layer(g, l)[i]}
<1>1. n \in Nat /\ l \in Nat
  BY LayersCount
<1>2. \A k \in 1..n :
        /\ L[k] = L[k - 1] \o Layer(g, k) /\ L[k - 1] \in Seq(KernelSet)
        /\ Layer(g, k) \in Seq(KernelSet) /\ Len(Layer(g, k)) = LayerLength(g, k)
  BY <1>1, LayersToFacts, LayerKernels, SMTT(30)
<1>3. \A k \in 0..n : len(k) \in Nat
  BY LayersToFacts
<1> HIDE DEF L, n, m
<1>4. \A k \in 1..n :
        /\ len(k) = len(k - 1) + LayerLength(g, k) /\ len(k - 1) <= len(k)
        /\ \A i \in 1..len(k - 1) : L[k][i] = L[k - 1][i]
        /\ \A i \in 1..LayerLength(g, k) : L[k][len(k - 1) + i] = Layer(g, k)[i]
  <2> SUFFICES ASSUME NEW k \in 1..n
               PROVE  /\ len(k) = len(k - 1) + LayerLength(g, k) /\ len(k - 1) <= len(k)
                      /\ \A i \in 1..len(k - 1) : L[k][i] = L[k - 1][i]
                      /\ \A i \in 1..LayerLength(g, k) : L[k][len(k - 1) + i] = Layer(g, k)[i]
    OBVIOUS
  <2>1. /\ Len(L[k]) = Len(L[k - 1]) + LayerLength(g, k)
        /\ \A i \in 1..Len(L[k - 1]) : L[k][i] = L[k - 1][i]
        /\ \A i \in 1..LayerLength(g, k) : L[k][Len(L[k - 1]) + i] = Layer(g, k)[i]
    <3> DEFINE K == KernelSet
               s == L[k - 1]
               t == Layer(g, k)
    <3>1. s \in Seq(K) /\ t \in Seq(K)
      BY <1>2
    <3>3. Len(t) = LayerLength(g, k) /\ L[k] = s \o t
      BY <1>2
    <3>2. /\ Len(s \o t) = Len(s) + Len(t)
          /\ \A i \in 1..Len(s) : (s \o t)[i] = s[i]
          /\ \A i \in 1..Len(t) : (s \o t)[Len(s) + i] = t[i]
      <4> HIDE DEF K, s, t
      <4> QED BY ONLY <3>1, InConcat
    <3> HIDE DEF t
    <3> QED BY ONLY <3>3, <3>2 DEF s, t
  <2>2. LayerLength(g, k) \in Nat
    BY <1>2
  <2>3. len(k - 1) \in Nat
    BY <1>1, <1>3
  <2> QED BY <2>1, <2>2, <2>3
<1>5. 0 \in P
  BY <1>1
<1>6. ASSUME NEW k \in 1..n, k - 1 \in P PROVE k \in P
  <2>1. CASE k < l
    BY <1>1, <2>1
  <2>2. CASE k = l
    <3>1. len(l) \in Nat
      BY <1>1, <1>3
    <3>2. \A i \in 1..m : L[l][len(l - 1) + i] = Layer(g, l)[i]
      BY <1>4 DEF m, n
    <3> QED BY <1>1, <2>2, <3>1, <3>2
  <2>3. CASE k > l
    <3>1. k - 1 >= l /\ k - 1 \in 0..n
      BY <1>1, <2>3
    <3>2. len(l) <= len(k - 1) /\ \A i \in 1..m : L[k - 1][len(l - 1) + i] = Layer(g, l)[i]
      BY <1>6, <3>1
    <3>3. len(l) \in Nat /\ len(l - 1) \in Nat /\ len(k - 1) \in Nat /\ len(k) \in Nat /\ len(k - 1) <= len(k)
      <4>1. l \in 0..n /\ l - 1 \in 0..n /\ k \in 0..n
        BY <1>1 DEF n
      <4> QED BY <1>3, <1>4, <3>1, <4>1
    <3>4. len(l) = len(l - 1) + m /\ m \in Nat
      <4>1. l \in 1..n
        BY DEF n
      <4>2. Len(Layer(g, l)) \in Nat
        BY <1>2, <4>1
      <4> QED BY <1>2, <1>4, <4>1, <4>2 DEF m
    <3>5. ASSUME NEW i \in 1..m PROVE L[k][len(l - 1) + i] = Layer(g, l)[i]
      <4>1. len(l - 1) + i \in 1..len(k - 1)
        BY <3>2, <3>3, <3>4
      <4> QED BY <1>4, <3>2, <4>1
    <3>6. len(l) <= len(k)
      BY <3>2, <3>3
    <3> QED BY <1>1, <3>5, <3>6
  <2> QED BY <1>1, <2>1, <2>2, <2>3
<1>7. n \in P
  <2>1. \A k \in 0..n : k \in P
    <3> HIDE DEF P
    <3> QED BY <1>1, <1>5, <1>6, BoundedInduction
  <2> QED BY <1>1, <2>1
<1>8. n >= l /\ l \in 1..n /\ l \in 0..n /\ l - 1 \in 0..n /\ n \in 0..n
  BY <1>1 DEF n
<1>9. len(l) <= len(n) /\ \A i \in 1..m : L[n][len(l - 1) + i] = Layer(g, l)[i]
  BY <1>7, <1>8
<1>10. len(l) = len(l - 1) + m /\ len(l) \in Nat /\ len(l - 1) \in Nat /\ len(n) \in Nat
  BY <1>3, <1>4, <1>8 DEF m
<1>11. Offset(g, l) = 1 + len(l) /\ Offset(g, l - 1) = 1 + len(l - 1) /\ Offset(g, n) = 1 + len(n)
  BY DEF Offset, L
<1>12. m \in Nat
  <2>1. Len(Layer(g, l)) = m /\ Layer(g, l) \in Seq(KernelSet)
    BY <1>2, <1>8 DEF m
  <2> QED BY <2>1
<1>13. Offset(g, l) = Offset(g, l - 1) + m /\ Offset(g, l) <= Offset(g, n)
  BY <1>9, <1>10, <1>11, <1>12
<1> QED BY <1>9, <1>13 DEF L, n, m

\* Where the kernels of the end of a chunk are.
LEMMA HeadKernels ==
  LET head == OutputHead(Len(Layers)) IN
  /\ head \in Seq(KernelSet) /\ Len(head) = 4
  /\ \A i \in 1..4 : head[i] = HeadKernel(i)
<1> DEFINE n == Len(Layers)
           k1 == Kernel("last_norm", "output_norm", n, <<"hidden">>, <<"scratch">>, <<"final">>)
           k2 == Cast("scratch", n)
           k3 == Product("lm_head", n, "logits", "logits")
           k4 == Kernel("argmax", "none", n, <<"logits">>, <<"result">>, <<"token">>)
           K == KernelSet
<1>1. n \in Nat
  BY LayersCount
<1>2. k1 \in K /\ k2 \in K /\ k3 \in K /\ k4 \in K
  <2>1. /\ "last_norm" \in Name /\ "output_norm" \in Name /\ "hidden" \in Name /\ "scratch" \in Name
        /\ "final" \in Name /\ "lm_head" \in Name /\ "logits" \in Name /\ "argmax" \in Name
        /\ "none" \in Name /\ "result" \in Name /\ "token" \in Name
    BY DEF Name, Buffer
  <2>2. /\ <<"hidden">> \in Seq(Name) /\ <<"scratch">> \in Seq(Name) /\ <<"final">> \in Seq(Name)
        /\ <<"logits">> \in Seq(Name) /\ <<"result">> \in Seq(Name) /\ <<"token">> \in Seq(Name)
    BY <2>1
  <2> QED BY <1>1, <2>1, <2>2, KernelTyped, KernelsTyped
<1>3. \A k \in K : One(k) \in K
  BY DEF One, KernelSet
<1> HIDE DEF k1, k2, k3, k4, K
<1> DEFINE ks == <<k1>> \o <<k2, k3>> \o <<k4>>
<1>4. DOMAIN ks = 1..4 /\ ks[1] = k1 /\ ks[2] = k2 /\ ks[3] = k3 /\ ks[4] = k4
  <2> DEFINE u == <<k1>> \o <<k2, k3>>
  <2>1. <<k1>> \in Seq(KernelSet) /\ Len(<<k1>>) = 1 /\ <<k1>>[1] = k1
    BY <1>2, OneKernel DEF K
  <2>2. /\ u \in Seq(KernelSet) /\ Len(u) = 1 + 2
        /\ \A i \in 1..1 : u[i] = <<k1>>[i]
        /\ u[1 + 1] = k2 /\ u[1 + 2] = k3
    BY <1>2, <2>1, JoinedTwo DEF K
  <2> HIDE DEF u
  <2>3. u \in Seq(KernelSet) /\ Len(u) = 3 /\ u[1] = k1 /\ u[2] = k2 /\ u[3] = k3
    BY <2>1, <2>2
  <2>4. /\ ks \in Seq(KernelSet) /\ Len(ks) = 3 + 1
        /\ \A i \in 1..3 : ks[i] = u[i]
        /\ ks[3 + 1] = k4
    <3> DEFINE t == ks
    <3>1. t = u \o <<k4>>
      BY DEF u
    <3> DEFINE a == 3
    <3>a. Len(u) = a /\ u \in Seq(KernelSet) /\ k4 \in KernelSet
      BY <1>2, <2>3 DEF K
    <3> HIDE DEF t, a
    <3>2. t \in Seq(KernelSet) /\ Len(t) = a + 1 /\ (\A i \in 1..a : t[i] = u[i]) /\ t[a + 1] = k4
      BY ONLY <3>1, <3>a, JoinedOne
    <3> QED BY <3>2 DEF t, a
  <2> HIDE DEF ks
  <2>5. Len(ks) = 4 /\ DOMAIN ks = 1..Len(ks)
    BY <2>4
  <2> QED BY <2>3, <2>4, <2>5
<1>5. OutputHead(n) = [i \in DOMAIN ks |-> One(ks[i])]
  BY DEF OutputHead, Matmul, One, k1, k2, k3, k4
<1> HIDE DEF ks, One
<1>6. OutputHead(n) = [i \in 1..4 |-> One(ks[i])] /\ ks[1] = k1 /\ ks[2] = k2 /\ ks[3] = k3 /\ ks[4] = k4
  BY <1>4, <1>5, Zenon
<1> DEFINE head == OutputHead(n)
<1>7. head \in [1..4 -> K]
  BY <1>2, <1>3, <1>6
<1>8. head \in Seq(K) /\ Len(head) = 4
  <2> HIDE DEF head
  <2>1. \A f, S : \A m \in Nat : f \in [1..m -> S] => f \in Seq(S)
    OBVIOUS
  <2>2. head \in Seq(K)
    BY ONLY <1>7, <2>1
  <2> QED BY <1>7, <2>2, LenProperties
<1>9. /\ HeadKernel(1) = One(k1) /\ HeadKernel(2) = One(k2) /\ HeadKernel(3) = One(k3)
      /\ HeadKernel(4) = One(k4)
  BY DEF HeadKernel, k1, k2, k3, k4
<1>10. \A i \in 1..4 : head[i] = HeadKernel(i)
  BY <1>6, <1>9
<1> QED BY <1>8, <1>10 DEF K

\* Where the kernels of a chunk are.
LEMMA ProgramKernels ==
  ASSUME NEW g \in BOOLEAN, NEW w \in BOOLEAN
  PROVE  /\ Len(ProgramOf(g, w)) = Offset(g, Len(Layers)) + (IF w THEN 4 ELSE 0)
         /\ ProgramOf(g, w)[1] = Embed
         /\ Offset(g, 0) = 1
         /\ \A l \in 0..Len(Layers) : Offset(g, l) \in Nat /\ Offset(g, l) > 0
         /\ \A l \in 1..Len(Layers) : \A i \in 1..LayerLength(g, l) :
              ProgramOf(g, w)[Offset(g, l - 1) + i] = Layer(g, l)[i]
         /\ w => \A i \in 1..4 : ProgramOf(g, w)[Offset(g, Len(Layers)) + i] = HeadKernel(i)
<1> DEFINE n == Len(Layers)
           K == KernelSet
           body == LayersTo(g)[n]
           first == <<Embed>>
           front == first \o body
           end == IF w THEN OutputHead(n) ELSE <<>>
           m == Len(body)
<1>1. n \in Nat /\ 0 \in 0..n /\ n \in 0..n
  BY LayersCount
<1>2. first \in Seq(K) /\ Len(first) = 1 /\ first[1] = Embed
  <2>1. /\ "embed" \in Name /\ "none" \in Name /\ "ids" \in Name /\ "hidden" \in Name
    BY DEF Name, Buffer
  <2>2. <<"ids">> \in Seq(Name) /\ <<"hidden">> \in Seq(Name)
    BY <2>1
  <2>3. Embed \in KernelSet
    BY <2>1, <2>2, KernelTyped DEF Embed
  <2> QED BY <2>3, OneKernel
<1>3. body \in Seq(K) /\ m \in Nat
  <2>1. body \in Seq(K)
    BY <1>1, LayersToFacts
  <2> HIDE DEF body
  <2> QED BY <2>1
<1>4. end \in Seq(K) /\ Len(end) = IF w THEN 4 ELSE 0
  <2>1. <<>> \in Seq(K) /\ Len(<<>>) = 0
    OBVIOUS
  <2>2. OutputHead(n) \in Seq(K) /\ Len(OutputHead(n)) = 4
    BY HeadKernels
  <2>3. w => end = OutputHead(n)
    OBVIOUS
  <2>4. ~w => end = <<>>
    OBVIOUS
  <2> HIDE DEF K, n, end
  <2>5. CASE w
    BY <2>2, <2>3, <2>5
  <2>6. CASE ~w
    <3>1. end = <<>>
      BY <2>4, <2>6
    <3>2. Len(end) = 0
      BY <2>1, <3>1, Zenon
    <3>3. end \in Seq(K)
      BY <2>1, <3>1, Zenon
    <3> QED BY <2>6, <3>2, <3>3
  <2> QED BY <2>5, <2>6
<1>5. ProgramOf(g, w) = front \o end
  BY DEF ProgramOf, Embed
<1> HIDE DEF K, body, first, end, n
<1>6. /\ front \in Seq(K) /\ Len(front) = 1 + m
      /\ front[1] = Embed /\ \A i \in 1..m : front[1 + i] = body[i]
  <2>1. 1 \in 1..Len(first)
    BY <1>2
  <2> QED BY ONLY <1>2, <1>3, <2>1, InConcat
<1> HIDE DEF front, m
<1>7. /\ Len(front \o end) = Len(front) + Len(end)
      /\ \A i \in 1..Len(front) : (front \o end)[i] = front[i]
      /\ \A i \in 1..Len(end) : (front \o end)[Len(front) + i] = end[i]
  <2>1. front \in Seq(K) /\ end \in Seq(K)
    BY <1>4, <1>6
  <2> QED BY ONLY <2>1, InConcat
<1>8. Offset(g, n) = 1 + m
  BY DEF Offset, m, body, n
<1>9. Offset(g, 0) = 1
  BY LayersToFacts DEF Offset
<1>10. \A l \in 0..Len(Layers) : Offset(g, l) \in Nat /\ Offset(g, l) > 0
  <2> SUFFICES ASSUME NEW l \in 0..Len(Layers) PROVE Offset(g, l) \in Nat /\ Offset(g, l) > 0
    OBVIOUS
  <2> DEFINE s == LayersTo(g)[l]
  <2>1. s \in Seq(KernelSet)
    BY LayersToFacts
  <2> HIDE DEF s
  <2>2. Len(s) \in Nat
    BY <2>1
  <2> QED BY <2>2 DEF Offset, s
<1>11. Len(ProgramOf(g, w)) = Offset(g, n) + (IF w THEN 4 ELSE 0) /\ ProgramOf(g, w)[1] = Embed
  BY <1>3, <1>4, <1>5, <1>6, <1>7, <1>8
<1>12. \A l \in 1..Len(Layers) : \A i \in 1..LayerLength(g, l) :
         ProgramOf(g, w)[Offset(g, l - 1) + i] = Layer(g, l)[i]
  <2> SUFFICES ASSUME NEW l \in 1..Len(Layers), NEW i \in 1..LayerLength(g, l)
               PROVE  ProgramOf(g, w)[Offset(g, l - 1) + i] = Layer(g, l)[i]
    OBVIOUS
  <2>1. /\ Offset(g, l) = Offset(g, l - 1) + LayerLength(g, l)
        /\ Offset(g, l) <= Offset(g, n)
        /\ body[Len(LayersTo(g)[l - 1]) + i] = Layer(g, l)[i]
    BY LayersInPlace DEF body, n
  <2> DEFINE p == Len(LayersTo(g)[l - 1])
             len == LayerLength(g, l)
  <2>2. Offset(g, l - 1) = 1 + p
    BY DEF Offset
  <2>3. p \in Nat /\ len \in Nat
    <3>1. l - 1 \in 0..Len(Layers)
      BY LayersCount
    <3> DEFINE s == LayersTo(g)[l - 1]
               t == Layer(g, l)
    <3>2. s \in Seq(KernelSet) /\ t \in Seq(KernelSet) /\ Len(t) = LayerLength(g, l)
      BY <3>1, LayersToFacts, LayerKernels
    <3> HIDE DEF s, t
    <3>3. Len(s) \in Nat /\ Len(t) \in Nat
      BY <3>2
    <3> QED BY <3>2, <3>3 DEF s, t
  <2>4. i \in 1..len
    OBVIOUS
  <2>a. /\ Offset(g, l) = 1 + p + len /\ Offset(g, l) <= 1 + m
        /\ body[p + i] = Layer(g, l)[i]
    BY <1>8, <2>1, <2>2
  <2> HIDE DEF p, len
  <2>5. p + i \in 1..m /\ 1 + (p + i) \in 1..(1 + m) /\ (1 + p) + i = 1 + (p + i)
    BY <1>3, <2>3, <2>4, <2>a
  <2>6. front[1 + (p + i)] = body[p + i]
    BY <1>6, <2>5
  <2>7. (front \o end)[1 + (p + i)] = front[1 + (p + i)]
    BY <1>6, <1>7, <2>5
  <2> QED BY <1>5, <2>2, <2>a, <2>5, <2>6, <2>7
<1>13. ASSUME w, NEW i \in 1..4 PROVE ProgramOf(g, w)[Offset(g, n) + i] = HeadKernel(i)
  <2>1. end[i] = HeadKernel(i) /\ Len(end) = 4
    BY <1>13, <1>4, HeadKernels DEF end, n
  <2> QED BY <1>5, <1>6, <1>7, <1>8, <2>1, SMTT(30)
<1> QED BY <1>9, <1>10, <1>11, <1>12, <1>13 DEF n

-----------------------------------------------------------------------------
(* What is where, while a chunk goes through the layers.  x is the sequence *)
(* before the chunk and the chunk, R the buffers, h the hidden one, S what  *)
(* the layers keep.                                                         *)

Pre(x, nth) == Upto(x[1] \o x[2], Len(x[1]) + nth)

\* A buffer has a tensor of a layer, or that tensor cast.
Has(x, r, tensor, l) == \A nth \in 1..Len(x[2]) : r[nth] = <<tensor, l, Pre(x, nth)>>
HasCast(x, r, tensor, l) ==
  \A nth \in 1..Len(x[2]) : r[nth] = <<"cast", <<tensor, l, Pre(x, nth)>>>>

\* Before kernel j of a group: its input is there, cast if it is a product, and so
\* are the products made by then.
GroupFacts(g, j, ps, source, l, x, R, h) ==
  /\ Has(x, R[Other(h)], source, l)
  /\ ~IsCast(g, j) => HasCast(x, R["matmul_input"], source, l)
  /\ \A m \in 1..Done(g, j) : Has(x, R[ps[m][2]], ps[m][1], l)

FullFacts(l, j, x, R) ==
  LET has(b, tensor) == Has(x, R[b], tensor, l) IN
  \/ j = 1 /\ has("query_gate", "query_gate") /\ has("key", "key") /\ has("value", "value")
  \/ j = 2 /\ has("query", "query") /\ has("gate", "gate") /\ has("key", "key") /\ has("value", "value")
  \/ j = 3 /\ has("query_norm", "query_norm") /\ has("gate", "gate") /\ has("key", "key")
           /\ has("value", "value")
  \/ j = 4 /\ has("query_norm", "query_norm") /\ has("gate", "gate") /\ has("key_norm", "key_norm")
           /\ has("value", "value")
  \/ j = 5 /\ has("query_norm", "query_norm") /\ has("gate", "gate")

LinearFacts(l, j, x, R) ==
  LET has(b, tensor) == Has(x, R[b], tensor, l) IN
  \/ j = 1 /\ has("qkv", "qkv") /\ has("beta", "beta") /\ has("alpha", "alpha") /\ has("gate", "linear_gate")
  \/ j = 2 /\ has("pack", "pack")

MixerFacts(l, j, x, R) == IF Full(l) THEN FullFacts(l, j, x, R) ELSE LinearFacts(l, j, x, R)

\* What a mixer makes.
Core(l) == IF Full(l) THEN "attended" ELSE "read"

\* Before kernel i of layer l, up to the residual after the mixer, ...
FrontFacts(g, l, i, x, R, h) ==
  /\ Has(x, R[h], "hidden", l - 1)
  /\ \/ i = 1
     \/ \E j \in 1..GroupLength(g, Len(MixerProducts(l))) :
          i = 1 + j /\ GroupFacts(g, j, MixerProducts(l), "input", l, x, R, h)
     \/ \E j \in 1..MixerLength(l) : i = Grouped(g, l) + j /\ MixerFacts(l, j, x, R)
     \/ i = MixedAt(g, l) + 1 /\ Has(x, R["attention_out"], Core(l), l)
     \/ i = MixedAt(g, l) + 2 /\ HasCast(x, R["matmul_input"], Core(l), l)
     \/ i = MixedAt(g, l) + 3 /\ Has(x, R["projected"], "mixed", l)

\* ... and after it.
BackFacts(g, l, i, x, R, h) ==
  /\ Has(x, R[h], "mixed_hidden", l)
  /\ \/ i = MixedAt(g, l) + 4
     \/ \E j \in 1..GroupLength(g, 2) :
          i = FfnAt(g, l) + j /\ GroupFacts(g, j, FfnProducts, "post", l, x, R, h)
     \/ /\ i = SwigluAt(g, l) + 1
        /\ Has(x, R["intermediate_a"], "ffn_gate", l) /\ Has(x, R["intermediate_b"], "ffn_up", l)
     \/ i = SwigluAt(g, l) + 2 /\ Has(x, R["intermediate_a"], "swiglu", l)
     \/ i = SwigluAt(g, l) + 3 /\ HasCast(x, R["matmul_input"], "swiglu", l)
     \/ i = SwigluAt(g, l) + 4 /\ Has(x, R["projected"], "down", l)

\* Before kernel i of the end, or behind it.
HeadFacts(i, x, R, h) ==
  LET n == Len(Layers)
      value(tensor) == <<tensor, n, x[1] \o x[2]>>
  IN \/ i = 1 /\ Has(x, R[h], "hidden", n)
     \/ i = 2 /\ R[Other(h)][1] = value("final")
     \/ i = 3 /\ R["matmul_input"][1] = <<"cast", value("final")>>
     \/ i = 4 /\ R["logits"][1] = value("logits")
     \/ i = 5 /\ R["logits"][1] = value("logits") /\ R["result"][1] = value("token")

\* A layer keeps what the reference has of it for a sequence.
Keeps(S, l, prefix) ==
  IF Full(l)
  THEN \A p \in 1..Len(prefix) :
         S.full[StateOf(l)][p] = <<<<"key_norm", l, Upto(prefix, p)>>, <<"value", l, Upto(prefix, p)>>>>
  ELSE S.linear[StateOf(l)] = State(l, prefix)

\* The first layers keep the chunk too, the others not yet.
Kept(done, x, S) ==
  \A l \in 1..Len(Layers) : Keeps(S, l, IF l <= done THEN x[1] \o x[2] ELSE x[1])

\* How many do before kernel i of layer l.
KeptBy(g, l, i) == IF i > Grouped(g, l) + (IF Full(l) THEN 4 ELSE 2) THEN l ELSE l - 1

Slots(layerKind) == Numbered(layerKind, Len(Layers))

StatesTyped(S) ==
  /\ DOMAIN S = {"full", "linear"}
  /\ DOMAIN S.full = 1..Slots("full") /\ DOMAIN S.linear = 1..Slots("linear")
  /\ \A n \in 1..Slots("full") : DOMAIN S.full[n] = 1..MaxContext

TypeInv ==
  /\ grouped \in BOOLEAN /\ traced \in BOOLEAN /\ wanted \in BOOLEAN
  /\ log \in Seq(Token) /\ chunk \in Seq(Token)
  /\ Len(log) + Len(chunk) <= MaxContext /\ Len(chunk) <= MaxChunk
  /\ at \in Nat
  /\ phase \in {"idle", "busy", "poisoned"} /\ hidden \in {"hidden_a", "hidden_b"}
  /\ DOMAIN rows = Buffer
  /\ StatesTyped(states)
  /\ phase = "busy" => Len(chunk) > 0
  /\ phase # "busy" => chunk = <<>>

TraceFacts(x, t) ==
  t # None => \A nth \in 1..Len(x[2]) : t[3][nth] = <<StageOf(t[1]), t[2], Pre(x, nth)>>

\* Where a chunk is says what is in the buffers and in the states.
Embedding(x, R, S) ==
  /\ \A nth \in 1..Len(x[2]) : R["ids"][nth] = x[2][nth]
  /\ Kept(0, x, S)

InLayer(g, a, x, R, h, S) ==
  \E l \in 1..Len(Layers) : \E i \in 1..LayerLength(g, l) :
    /\ a = Offset(g, l - 1) + i
    /\ FrontFacts(g, l, i, x, R, h) \/ BackFacts(g, l, i, x, R, h)
    /\ Kept(KeptBy(g, l, i), x, S)

AtEnd(g, w, a, x, R, h, S) ==
  \E i \in 1..(IF w THEN 5 ELSE 1) :
    /\ a = Offset(g, Len(Layers)) + i
    /\ HeadFacts(i, x, R, h)
    /\ Kept(Len(Layers), x, S)

ProgressInv ==
  LET x == <<log, chunk>> IN
  /\ phase = "busy" =>
       \/ at = 1 /\ Embedding(x, rows, states)
       \/ InLayer(grouped, at, x, rows, hidden, states)
       \/ AtEnd(grouped, wanted, at, x, rows, hidden, states)
  /\ phase = "idle" => Kept(0, x, states)

TraceInv ==
  /\ phase # "busy" => trace = None
  /\ TraceFacts(<<log, chunk>>, trace)

Inv == TypeInv /\ ProgressInv /\ TraceInv

-----------------------------------------------------------------------------
(* Prefixes *)

\* What a prefix of a sequence is.
LEMMA UptoFacts ==
  ASSUME NEW T, NEW s \in Seq(T), NEW k \in 0..Len(s)
  PROVE  /\ Upto(s, k) \in Seq(T) /\ Len(Upto(s, k)) = k
         /\ \A i \in 1..k : Upto(s, k)[i] = s[i]
<1>1. Len(s) \in Nat /\ k \in Nat /\ k \in Int /\ 1 \in Int
  OBVIOUS
<1>2. \A i \in 1..k : s[i] \in T
  BY <1>1
<1>3. /\ SubSeq(s, 1, k) \in Seq(T)
      /\ Len(SubSeq(s, 1, k)) = IF 1 <= k THEN k - 1 + 1 ELSE 0
      /\ \A i \in 1..(k - 1 + 1) : SubSeq(s, 1, k)[i] = s[1 + i - 1]
  BY <1>1, <1>2, SubSeqProperties
<1>4. (IF 1 <= k THEN k - 1 + 1 ELSE 0) = k /\ k - 1 + 1 = k
  BY <1>1
<1>5. ASSUME NEW i \in 1..k PROVE SubSeq(s, 1, k)[i] = s[i]
  <2>1. 1 + i - 1 = i
    BY <1>1
  <2> QED BY <1>3, <1>4, <2>1
<1> QED BY <1>3, <1>4, <1>5 DEF Upto

\* A prefix of a prefix, of two sequences, and the whole as a prefix.
LEMMA UptoUpto ==
  ASSUME NEW T, NEW s \in Seq(T), NEW k \in 0..Len(s), NEW j \in 0..k
  PROVE  Upto(Upto(s, k), j) = Upto(s, j)
<1>1. Len(s) \in Nat /\ j \in 0..Len(s)
  OBVIOUS
<1>2. /\ Upto(s, k) \in Seq(T) /\ Len(Upto(s, k)) = k
      /\ \A i \in 1..k : Upto(s, k)[i] = s[i]
  BY UptoFacts
<1>3. /\ Upto(s, j) \in Seq(T) /\ Len(Upto(s, j)) = j
      /\ \A i \in 1..j : Upto(s, j)[i] = s[i]
  BY <1>1, UptoFacts
<1> DEFINE u == Upto(s, k)
<1>4. u \in Seq(T) /\ j \in 0..Len(u)
  BY <1>2
<1>5. /\ Upto(u, j) \in Seq(T) /\ Len(Upto(u, j)) = j
      /\ \A i \in 1..j : Upto(u, j)[i] = u[i]
  <2> HIDE DEF u
  <2> QED BY <1>4, UptoFacts
<1>6. \A i \in 1..j : Upto(u, j)[i] = Upto(s, j)[i]
  BY <1>2, <1>3, <1>5
<1> DEFINE p == Upto(u, j)
           q == Upto(s, j)
<1>7. p \in Seq(T) /\ q \in Seq(T) /\ Len(p) = Len(q) /\ \A i \in 1..Len(p) : p[i] = q[i]
  BY <1>3, <1>5, <1>6
<1> HIDE DEF p, q
<1>8. p = q
  BY <1>7, SeqEqual
<1> QED BY <1>8 DEF p, q

\* The prefix of full length is the sequence.
LEMMA UptoWhole ==
  ASSUME NEW T, NEW s \in Seq(T)
  PROVE  Upto(s, Len(s)) = s
BY SubSeqFull DEF Upto

\* A prefix within the first of two sequences put together is a prefix of it.
LEMMA UptoConcat ==
  ASSUME NEW T, NEW a \in Seq(T), NEW b \in Seq(T), NEW k \in 0..Len(a)
  PROVE  Upto(a \o b, k) = Upto(a, k)
<1>1. /\ a \o b \in Seq(T) /\ Len(a \o b) = Len(a) + Len(b)
      /\ \A i \in 1..Len(a) : (a \o b)[i] = a[i]
  BY InConcat
<1>2. Len(a) \in Nat /\ Len(b) \in Nat
  OBVIOUS
<1> DEFINE s == a \o b
<1>3. s \in Seq(T) /\ k \in 0..Len(s)
  BY <1>1, <1>2
<1>4. Upto(s, k) \in Seq(T) /\ Len(Upto(s, k)) = k /\ \A i \in 1..k : Upto(s, k)[i] = s[i]
  <2> HIDE DEF s
  <2> QED BY <1>3, UptoFacts
<1>5. Upto(a, k) \in Seq(T) /\ Len(Upto(a, k)) = k /\ \A i \in 1..k : Upto(a, k)[i] = a[i]
  BY UptoFacts
<1> DEFINE p == Upto(s, k)
           q == Upto(a, k)
<1>6. p \in Seq(T) /\ q \in Seq(T) /\ Len(p) = Len(q) /\ \A i \in 1..Len(p) : p[i] = q[i]
  BY <1>1, <1>2, <1>4, <1>5
<1> HIDE DEF p, q
<1>7. p = q
  BY <1>6, SeqEqual
<1> QED BY <1>7 DEF p, q

\* The sequence up to a row of the chunk.
LEMMA PrefixFacts ==
  ASSUME NEW a \in Seq(Token), NEW b \in Seq(Token), NEW x, x = <<a, b>>
  PROVE  /\ Len(a) \in Nat /\ Len(b) \in Nat
         /\ a \o b \in Seq(Token) /\ Len(a \o b) = Len(a) + Len(b)
         /\ Pre(x, 0) = a /\ Pre(x, Len(b)) = a \o b
         /\ \A nth \in 0..Len(b) :
              /\ Pre(x, nth) \in Seq(Token) /\ Len(Pre(x, nth)) = Len(a) + nth
              /\ \A k \in 0..(Len(a) + nth) : Upto(Pre(x, nth), k) = Upto(a \o b, k)
         /\ \A nth \in 1..Len(b) :
              /\ Pre(x, nth)[Len(Pre(x, nth))] = b[nth]
              /\ Upto(Pre(x, nth), Len(Pre(x, nth)) - 1) = Pre(x, nth - 1)
         /\ \A k \in 0..Len(a) : Upto(a \o b, k) = Upto(a, k)
<1> DEFINE s == a \o b
<1>1. /\ s \in Seq(Token) /\ Len(s) = Len(a) + Len(b)
      /\ \A i \in 1..Len(b) : s[Len(a) + i] = b[i]
  BY InConcat
<1>2. Len(a) \in Nat /\ Len(b) \in Nat
  OBVIOUS
<1>3. \A nth : Pre(x, nth) = Upto(s, Len(a) + nth)
  BY DEF Pre
<1>4. \A k \in 0..Len(a) : Upto(s, k) = Upto(a, k)
  BY UptoConcat
<1>5. Pre(x, 0) = a
  <2>1. Len(a) + 0 = Len(a) /\ Len(a) \in 0..Len(a)
    BY <1>2
  <2>2. Upto(s, Len(a)) = Upto(a, Len(a))
    BY <1>4, <2>1
  <2> QED BY <1>3, <2>1, <2>2, UptoWhole
<1> HIDE DEF s
<1>6. Pre(x, Len(b)) = s
  <2>1. Upto(s, Len(s)) = s
    BY <1>1, UptoWhole
  <2> QED BY <1>1, <1>3, <2>1
<1>7. ASSUME NEW nth \in 0..Len(b)
      PROVE  /\ Pre(x, nth) \in Seq(Token) /\ Len(Pre(x, nth)) = Len(a) + nth
             /\ \A i \in 1..(Len(a) + nth) : Pre(x, nth)[i] = s[i]
             /\ \A k \in 0..(Len(a) + nth) : Upto(Pre(x, nth), k) = Upto(s, k)
  <2> DEFINE m == Len(a) + nth
  <2>1. m \in 0..Len(s)
    BY <1>1, <1>2
  <2> HIDE DEF m
  <2>2. Upto(s, m) \in Seq(Token) /\ Len(Upto(s, m)) = m /\ \A i \in 1..m : Upto(s, m)[i] = s[i]
    BY <1>1, <2>1, UptoFacts
  <2>3. \A k \in 0..m : Upto(Upto(s, m), k) = Upto(s, k)
    BY <1>1, <2>1, UptoUpto
  <2>4. Pre(x, nth) = Upto(s, m)
    BY <1>3 DEF m
  <2> QED BY <2>2, <2>3, <2>4 DEF m
<1>8. ASSUME NEW nth \in 1..Len(b)
      PROVE  /\ Pre(x, nth)[Len(Pre(x, nth))] = b[nth]
             /\ Upto(Pre(x, nth), Len(Pre(x, nth)) - 1) = Pre(x, nth - 1)
  <2>1. /\ nth \in 0..Len(b) /\ Len(a) + nth \in 1..(Len(a) + nth)
        /\ Len(a) + nth - 1 \in 0..(Len(a) + nth) /\ Len(a) + nth - 1 = Len(a) + (nth - 1)
    BY <1>2
  <2>2. Len(Pre(x, nth)) = Len(a) + nth /\ Pre(x, nth)[Len(a) + nth] = s[Len(a) + nth]
    BY <1>7, <2>1
  <2>3. Upto(Pre(x, nth), Len(a) + nth - 1) = Upto(s, Len(a) + nth - 1)
    BY <1>7, <2>1
  <2>4. Upto(s, Len(a) + nth - 1) = Pre(x, nth - 1)
    BY <1>3, <2>1
  <2> QED BY <1>1, <2>2, <2>3, <2>4
<1> QED BY <1>1, <1>2, <1>4, <1>5, <1>6, <1>7, <1>8 DEF s

-----------------------------------------------------------------------------
(* What the reference makes, tensor by tensor *)

\* What is made of a prefix, stage by stage: before the mixer.
LEMMA MadeIs ==
  ASSUME NEW l \in Nat, NEW p
  PROVE  /\ Made("hidden", 0, p) = <<"embed", p[Len(p)]>>
         /\ l > 0 => Made("hidden", l, p) = <<"add", <<"mixed_hidden", l, p>>, <<"down", l, p>>>>
         /\ Made("input", l, p) = <<"norm", "input_norm", l, <<"hidden", l - 1, p>>>>
         /\ \A s \in {"query_gate", "key", "value", "qkv", "beta", "alpha", "linear_gate"} :
              Made(s, l, p) = <<"matmul", s, l, <<"input", l, p>>>>
         /\ \A s \in {"query", "gate"} : Made(s, l, p) = <<"split", s, <<"query_gate", l, p>>>>
         /\ Made("query_norm", l, p) = <<"turn", "query_norm", l, Len(p), <<"query", l, p>>>>
         /\ Made("key_norm", l, p) = <<"turn", "key_norm", l, Len(p), <<"key", l, p>>>>
BY DEF Made

\* What is made of a prefix in the mixer and behind it.
LEMMA MadeIsMixed ==
  ASSUME NEW l \in Nat, NEW p
  PROVE  /\ Made("attended", l, p) =
              <<"attend", <<"query_norm", l, p>>, <<"gate", l, p>>,
                [k \in 1..Len(p) |-> <<<<"key_norm", l, Upto(p, k)>>, <<"value", l, Upto(p, k)>>>>]>>
         /\ Made("pack", l, p) =
              <<"pack", <<"qkv", l, p>>, <<"beta", l, p>>, <<"alpha", l, p>>, <<"linear_gate", l, p>>>>
         /\ Made("state", l, p) = <<"fold", l, State(l, Upto(p, Len(p) - 1)), <<"pack", l, p>>>>
         /\ Made("read", l, p) = <<"read", l, State(l, Upto(p, Len(p) - 1)), <<"pack", l, p>>>>
         /\ Made("mixed", l, p) = <<"matmul", "output", l, <<Core(l), l, p>>>>
         /\ Made("mixed_hidden", l, p) = <<"add", <<"hidden", l - 1, p>>, <<"mixed", l, p>>>>
BY DEF Made, Core, Full

\* What is made of a prefix behind the mixer's residual.
LEMMA MadeIsLater ==
  ASSUME NEW l \in Nat, NEW p
  PROVE  /\ Made("post", l, p) = <<"norm", "post_norm", l, <<"mixed_hidden", l, p>>>>
         /\ \A s \in {"ffn_gate", "ffn_up"} : Made(s, l, p) = <<"matmul", s, l, <<"post", l, p>>>>
         /\ Made("swiglu", l, p) = <<"swiglu", <<"ffn_gate", l, p>>, <<"ffn_up", l, p>>>>
         /\ Made("down", l, p) = <<"matmul", "ffn_down", l, <<"swiglu", l, p>>>>
         /\ Made("final", l, p) = <<"norm", "output_norm", l, <<"hidden", Len(Layers), p>>>>
         /\ Made("logits", l, p) = <<"matmul", "lm_head", l, <<"final", l, p>>>>
         /\ Made("token", l, p) = <<"argmax", <<"logits", l, p>>>>
BY DEF Made

-----------------------------------------------------------------------------
(* Kernels at work *)

\* There is a largest chunk.
LEMMA MaxChunkFacts ==
  /\ MaxChunk \in ChunkSizes /\ MaxChunk \in Nat /\ MaxChunk >= 1
  /\ \A m \in ChunkSizes : m <= MaxChunk
<1>1. ChunkSizes \subseteq Nat \ {0} /\ 1 \in ChunkSizes
  BY ChunkAssumption
<1>2. PICK s \in Seq(ChunkSizes) : \A e \in ChunkSizes : \E k \in 1..Len(s) : s[k] = e
  BY ChunkAssumption DEF IsFiniteSet
<1>3. \E u \in Nat : \A e \in ChunkSizes : e <= u
  <2> DEFINE n == Len(s)
             Bounded(k) == \E u \in Nat : \A i \in 1..k : s[i] <= u
             P == {k \in 0..n : Bounded(k)}
  <2>1. n \in Nat /\ \A i \in 1..n : s[i] \in ChunkSizes
    OBVIOUS
  <2>a. \A i \in 1..n : s[i] \in Nat
    BY <1>1, <2>1
  <2> HIDE DEF n
  <2>2. 0 \in P
    <3>1. \A i \in 1..0 : s[i] <= 0
      OBVIOUS
    <3> QED BY <2>1, <3>1
  <2>3. ASSUME NEW k \in 1..n, k - 1 \in P PROVE k \in P
    <3>1. PICK u \in Nat : \A i \in 1..(k - 1) : s[i] <= u
      BY <2>3
    <3>2. s[k] \in Nat
      BY <2>a
    <3>3. PICK v \in Nat : u <= v /\ s[k] <= v
      BY <3>2
    <3>4. ASSUME NEW i \in 1..k PROVE s[i] <= v
      <4>1. CASE i = k
        BY <3>3, <4>1
      <4>2. CASE i # k
        <5>1. i \in 1..(k - 1) /\ i \in 1..n
          BY <2>1, <4>2
        <5>2. s[i] \in Nat /\ s[i] <= u
          BY <2>a, <3>1, <5>1
        <5> QED BY <3>3, <5>2
      <4> QED BY <4>1, <4>2
    <3>5. Bounded(k)
      BY <3>4
    <3> HIDE DEF Bounded
    <3> QED BY <2>1, <3>5
  <2>4. \A k \in 0..n : k \in P
    <3> HIDE DEF P
    <3> QED BY <2>1, <2>2, <2>3, BoundedInduction
  <2>5. PICK u \in Nat : \A i \in 1..n : s[i] <= u
    <3>1. n \in P
      <4>1. n \in 0..n
        BY <2>1
      <4> HIDE DEF P
      <4> QED BY <2>4, <4>1
    <3> QED BY <3>1
  <2> QED BY <1>2, <2>5 DEF n
<1> DEFINE U == {u \in Nat : \A e \in ChunkSizes : e <= u}
<1>4. PICK u \in U : \A v \in U : u <= v
  <2>1. U \in SUBSET Nat /\ U # {}
    BY <1>3
  <2> HIDE DEF U
  <2> QED BY <2>1, LeastNatural
<1>5. u \in ChunkSizes
  <2> SUFFICES ASSUME u \notin ChunkSizes PROVE FALSE
    OBVIOUS
  <2>1. u \in Nat /\ u >= 1
    BY <1>1
  <2>2. \A e \in ChunkSizes : e \in Nat /\ e <= u /\ e # u
    BY <1>1
  <2>3. u - 1 \in U
    BY <2>1, <2>2
  <2> QED BY <1>4, <2>1, <2>3
<1>6. \E n \in ChunkSizes : \A m \in ChunkSizes : m <= n
  BY <1>4, <1>5
<1>7. MaxChunk \in ChunkSizes /\ \A m \in ChunkSizes : m <= MaxChunk
  BY <1>6 DEF MaxChunk
<1> QED BY <1>1, <1>7

\* A step changes one buffer and nothing that layers keep.
Only(b) ==
  /\ DOMAIN rows' = Buffer /\ states' = states
  /\ \A c \in Buffer \ {b} : rows'[c] = rows[c]

\* The hidden buffers and their roles.
LEMMA Places ==
  ASSUME TypeInv
  PROVE  /\ hidden \in Buffer /\ Other(hidden) \in Buffer /\ hidden # Other(hidden)
         /\ Other(Other(hidden)) = hidden
         /\ Other(hidden) \in {"hidden_a", "hidden_b"}
         /\ Place("hidden") = hidden /\ Place("scratch") = Other(hidden)
BY DEF TypeInv, Other, Place, Buffer

\* A kernel with one output makes of each row the tensor it is to hold, if its term
\* is what the reference makes that of.
LEMMA RowwiseEffect ==
  ASSUME TypeInv, NEW x, x = <<log, chunk>>, NEW k, Rowwise(k), k.single = FALSE, states' = states,
         Place(k.to[1]) \in Buffer,
         \A nth \in 1..Len(chunk) : Term(k, nth) = Made(k.stage[1], k.layer, Pre(x, nth))
  PROVE  Has(x, rows'[Place(k.to[1])], k.stage[1], k.layer) /\ Only(Place(k.to[1]))
<1> DEFINE b == Place(k.to[1])
           tensor == k.stage[1]
           l == k.layer
           made == [nth \in RowsOf(k) |-> Named(Term(k, nth), k.stage[1], k.layer, PrefixOf(k, nth))]
           over == Over(k.to[1], k, made)
<1>1. rows' = [rows EXCEPT ![b] = over] /\ DOMAIN rows = Buffer
  BY DEF Rowwise, TypeInv
<1>2. ASSUME NEW nth \in 1..Len(chunk) PROVE over[nth] = <<tensor, l, Pre(x, nth)>>
  <2>1. Len(chunk) \in Nat /\ Len(chunk) <= MaxChunk /\ MaxChunk \in Nat
    BY MaxChunkFacts DEF TypeInv
  <2>2. nth \in 1..MaxChunk /\ RowsOf(k) = 1..Len(chunk)
    BY <2>1 DEF RowsOf
  <2>3. over[nth] = made[nth]
    BY <2>2 DEF Over
  <2>4. PrefixOf(k, nth) = Pre(x, nth)
    BY DEF PrefixOf, Prefix, Sequence, Position, Pre
  <2>5. made[nth] = Named(Term(k, nth), tensor, l, Pre(x, nth))
    BY <2>2, <2>4
  <2> QED BY <2>3, <2>5 DEF Named
<1> HIDE DEF over
<1>3. rows'[b] = over
  BY <1>1
<1>4. DOMAIN rows' = Buffer /\ \A c \in Buffer \ {b} : rows'[c] = rows[c]
  BY <1>1
<1> QED BY <1>2, <1>3, <1>4 DEF Has, Only

\* A cast.
LEMMA CastEffect ==
  ASSUME TypeInv, NEW x, x = <<log, chunk>>, NEW from, NEW l, NEW source, Run(Cast(from, l)),
         Has(x, rows[Place(from)], source, l)
  PROVE  HasCast(x, rows'["matmul_input"], source, l) /\ Only("matmul_input")
<1> DEFINE k == Cast(from, l)
           made == [nth \in RowsOf(k) |-> <<"cast", Read(k, 1, nth)>>]
           over == Over("matmul_input", k, made)
<1>1. k.op = "cast" /\ k.single = FALSE /\ k.from[1] = from
  BY DEF Cast, Kernel
<1> HIDE DEF k
<1>2. rows' = [rows EXCEPT !["matmul_input"] = over] /\ states' = states /\ DOMAIN rows = Buffer
  BY <1>1 DEF Run, CastRows, TypeInv, k
<1>3. ASSUME NEW nth \in 1..Len(chunk) PROVE over[nth] = <<"cast", <<source, l, Pre(x, nth)>>>>
  <2>1. Len(chunk) \in Nat /\ Len(chunk) <= MaxChunk /\ MaxChunk \in Nat
    BY MaxChunkFacts DEF TypeInv
  <2>2. nth \in 1..MaxChunk /\ RowsOf(k) = 1..Len(chunk)
    BY <1>1, <2>1 DEF RowsOf
  <2>3. over[nth] = made[nth]
    BY <2>2 DEF Over
  <2>4. Read(k, 1, nth) = <<source, l, Pre(x, nth)>>
    BY <1>1 DEF Read, Has
  <2> QED BY <2>2, <2>3, <2>4
<1> HIDE DEF over
<1>4. "matmul_input" \in Buffer
  BY DEF Buffer
<1> QED BY <1>2, <1>3, <1>4 DEF HasCast, Only

\* A product.
LEMMA ProductEffect ==
  ASSUME TypeInv, NEW x, x = <<log, chunk>>, NEW weight, NEW l, NEW to \in Buffer, NEW tensor,
         NEW source, Run(Product(weight, l, to, tensor)),
         HasCast(x, rows["matmul_input"], source, l),
         \A p : Made(tensor, l, p) = <<"matmul", weight, l, <<source, l, p>>>>
  PROVE  Has(x, rows'[to], tensor, l) /\ Only(to)
<1> DEFINE k == Product(weight, l, to, tensor)
<1>1. /\ k.op = "matmul" /\ k.single = FALSE /\ k.from[1] = "matmul_input" /\ k.to[1] = to
      /\ k.stage[1] = tensor /\ k.layer = l /\ k.weight = weight
  BY DEF Product, Kernel
<1>2. Run(k)
  OBVIOUS
<1> HIDE DEF k
<1>3. Place(k.to[1]) = to /\ Place(k.from[1]) = "matmul_input"
  BY <1>1 DEF Place, Buffer
<1>4. Rowwise(k) /\ states' = states
  BY <1>1, <1>2 DEF Run
<1>5. ASSUME NEW nth \in 1..Len(chunk) PROVE Term(k, nth) = Made(tensor, l, Pre(x, nth))
  <2>1. Read(k, 1, nth) = <<"cast", <<source, l, Pre(x, nth)>>>>
    BY <1>3 DEF Read, HasCast
  <2>2. Read(k, 1, nth)[1] = "cast" /\ Read(k, 1, nth)[2] = <<source, l, Pre(x, nth)>>
    BY <2>1
  <2>3. Term(k, nth) = <<"matmul", weight, l, <<source, l, Pre(x, nth)>>>>
    BY <1>1, <2>2 DEF Term
  <2> QED BY <2>3
<1>7. Has(x, rows'[Place(k.to[1])], k.stage[1], k.layer) /\ Only(Place(k.to[1]))
  <2>1. Place(k.to[1]) \in Buffer /\ k.single = FALSE
    BY <1>1, <1>3
  <2>2. \A nth \in 1..Len(chunk) : Term(k, nth) = Made(k.stage[1], k.layer, Pre(x, nth))
    BY <1>1, <1>5
  <2> QED BY <1>4, <2>1, <2>2, RowwiseEffect
<1> QED BY <1>1, <1>3, <1>7

\* A norm.
LEMMA NormEffect ==
  ASSUME TypeInv, NEW x, x = <<log, chunk>>, NEW weight, NEW l, NEW tensor, NEW source, NEW m,
         Run(Norm(weight, l, tensor)), Has(x, rows[hidden], source, m),
         \A p : Made(tensor, l, p) = <<"norm", weight, l, <<source, m, p>>>>
  PROVE  Has(x, rows'[Other(hidden)], tensor, l) /\ Only(Other(hidden))
<1> DEFINE k == Norm(weight, l, tensor)
<1>1. /\ k.op = "norm" /\ k.single = FALSE /\ k.from[1] = "hidden" /\ k.to[1] = "scratch"
      /\ k.stage[1] = tensor /\ k.layer = l /\ k.weight = weight
  BY DEF Norm, Kernel
<1>2. Run(k)
  OBVIOUS
<1> HIDE DEF k
<1>3. Place(k.to[1]) = Other(hidden) /\ Place(k.from[1]) = hidden /\ Other(hidden) \in Buffer
  BY <1>1, Places
<1>4. Rowwise(k) /\ states' = states
  BY <1>1, <1>2 DEF Run
<1>5. ASSUME NEW nth \in 1..Len(chunk) PROVE Term(k, nth) = Made(tensor, l, Pre(x, nth))
  <2>1. Read(k, 1, nth) = <<source, m, Pre(x, nth)>>
    BY <1>3 DEF Read, Has
  <2>2. Term(k, nth) = <<"norm", weight, l, <<source, m, Pre(x, nth)>>>>
    BY <1>1, <2>1 DEF Term
  <2> QED BY <2>2
<1>7. Has(x, rows'[Place(k.to[1])], k.stage[1], k.layer) /\ Only(Place(k.to[1]))
  <2>1. Place(k.to[1]) \in Buffer /\ k.single = FALSE
    BY <1>1, <1>3
  <2>2. \A nth \in 1..Len(chunk) : Term(k, nth) = Made(k.stage[1], k.layer, Pre(x, nth))
    BY <1>1, <1>5
  <2> QED BY <1>4, <2>1, <2>2, RowwiseEffect
<1> QED BY <1>1, <1>3, <1>7

\* A residual.
LEMMA AddEffect ==
  ASSUME TypeInv, NEW x, x = <<log, chunk>>, NEW l, NEW tensor, NEW source, NEW m, NEW part,
         Run(Add(l, tensor)), Has(x, rows[hidden], source, m), Has(x, rows["projected"], part, l),
         \A p : Made(tensor, l, p) = <<"add", <<source, m, p>>, <<part, l, p>>>>
  PROVE  Has(x, rows'[Other(hidden)], tensor, l) /\ Only(Other(hidden))
<1> DEFINE k == Add(l, tensor)
<1>1. /\ k.op = "add" /\ k.single = FALSE /\ k.from[1] = "hidden" /\ k.from[2] = "projected"
      /\ k.to[1] = "scratch" /\ k.stage[1] = tensor /\ k.layer = l
  BY DEF Add, Kernel
<1>2. Run(k)
  OBVIOUS
<1> HIDE DEF k
<1>3. /\ Place(k.to[1]) = Other(hidden) /\ Place(k.from[1]) = hidden /\ Other(hidden) \in Buffer
      /\ Place(k.from[2]) = "projected"
  BY <1>1, Places DEF Place
<1>4. Rowwise(k) /\ states' = states
  BY <1>1, <1>2 DEF Run
<1>5. ASSUME NEW nth \in 1..Len(chunk) PROVE Term(k, nth) = Made(tensor, l, Pre(x, nth))
  <2>1. Read(k, 1, nth) = <<source, m, Pre(x, nth)>> /\ Read(k, 2, nth) = <<part, l, Pre(x, nth)>>
    BY <1>3 DEF Read, Has
  <2>2. Term(k, nth) = <<"add", <<source, m, Pre(x, nth)>>, <<part, l, Pre(x, nth)>>>>
    BY <1>1, <2>1 DEF Term
  <2> QED BY <2>2
<1>7. Has(x, rows'[Place(k.to[1])], k.stage[1], k.layer) /\ Only(Place(k.to[1]))
  <2>1. Place(k.to[1]) \in Buffer /\ k.single = FALSE
    BY <1>1, <1>3
  <2>2. \A nth \in 1..Len(chunk) : Term(k, nth) = Made(k.stage[1], k.layer, Pre(x, nth))
    BY <1>1, <1>5
  <2> QED BY <1>4, <2>1, <2>2, RowwiseEffect
<1> QED BY <1>1, <1>3, <1>7

\* The gate of the feed-forward part, in place of its first operand.
LEMMA SwigluEffect ==
  ASSUME TypeInv, NEW x, x = <<log, chunk>>, NEW l \in Nat, Run(Swiglu(l)),
         Has(x, rows["intermediate_a"], "ffn_gate", l), Has(x, rows["intermediate_b"], "ffn_up", l)
  PROVE  Has(x, rows'["intermediate_a"], "swiglu", l) /\ Only("intermediate_a")
<1> DEFINE k == Swiglu(l)
<1>1. /\ k.op = "swiglu" /\ k.single = FALSE /\ k.from[1] = "intermediate_a"
      /\ k.from[2] = "intermediate_b" /\ k.to[1] = "intermediate_a" /\ k.stage[1] = "swiglu"
      /\ k.layer = l
  BY DEF Swiglu, Kernel
<1>2. Run(k)
  OBVIOUS
<1> HIDE DEF k
<1>3. /\ Place(k.to[1]) = "intermediate_a" /\ Place(k.from[1]) = "intermediate_a"
      /\ Place(k.from[2]) = "intermediate_b" /\ "intermediate_a" \in Buffer
  BY <1>1 DEF Place, Buffer
<1>4. Rowwise(k) /\ states' = states
  BY <1>1, <1>2 DEF Run
<1>5. ASSUME NEW nth \in 1..Len(chunk) PROVE Term(k, nth) = Made("swiglu", l, Pre(x, nth))
  <2>1. Read(k, 1, nth) = <<"ffn_gate", l, Pre(x, nth)>> /\ Read(k, 2, nth) = <<"ffn_up", l, Pre(x, nth)>>
    BY <1>3 DEF Read, Has
  <2>2. Term(k, nth) = <<"swiglu", <<"ffn_gate", l, Pre(x, nth)>>, <<"ffn_up", l, Pre(x, nth)>>>>
    BY <1>1, <2>1 DEF Term
  <2> QED BY <2>2, MadeIsLater
<1>7. Has(x, rows'[Place(k.to[1])], k.stage[1], k.layer) /\ Only(Place(k.to[1]))
  <2>1. Place(k.to[1]) \in Buffer /\ k.single = FALSE
    BY <1>1, <1>3
  <2>2. \A nth \in 1..Len(chunk) : Term(k, nth) = Made(k.stage[1], k.layer, Pre(x, nth))
    BY <1>1, <1>5
  <2> QED BY <1>4, <2>1, <2>2, RowwiseEffect
<1> QED BY <1>1, <1>3, <1>7

\* query_norm and key_norm: a norm and the turn of the row's position.
LEMMA TurnEffect ==
  ASSUME TypeInv, NEW x, x = <<log, chunk>>, NEW l \in Nat, NEW i \in {2, 3}, Run(FullKernel(l, i)),
         NEW source, source = IF i = 2 THEN "query" ELSE "key",
         NEW tensor, tensor = IF i = 2 THEN "query_norm" ELSE "key_norm",
         Has(x, rows[source], source, l)
  PROVE  Has(x, rows'[tensor], tensor, l) /\ Only(tensor)
<1> DEFINE k == FullKernel(l, i)
<1>1. /\ k.op = "turn" /\ k.single = FALSE /\ k.from[1] = source
      /\ k.to[1] = tensor /\ k.stage[1] = tensor
      /\ k.layer = l /\ k.weight = tensor
  BY DEF FullKernel, Kernel
<1>2. Run(k)
  OBVIOUS
<1> HIDE DEF k
<1>3. Place(k.to[1]) = tensor /\ Place(k.from[1]) = source /\ tensor \in Buffer
  BY <1>1 DEF Place, Buffer
<1>4. Rowwise(k) /\ states' = states
  BY <1>1, <1>2 DEF Run
<1>5. ASSUME NEW nth \in 1..Len(chunk) PROVE Term(k, nth) = Made(tensor, l, Pre(x, nth))
  <2>1. Read(k, 1, nth) = <<source, l, Pre(x, nth)>>
    BY <1>3 DEF Read, Has
  <2>2. Term(k, nth) = <<"turn", tensor, l, Position + nth, <<source, l, Pre(x, nth)>>>>
    BY <1>1, <2>1 DEF Term
  <2>3. Len(Pre(x, nth)) = Position + nth
    <3>1. log \in Seq(Token) /\ chunk \in Seq(Token)
      BY DEF TypeInv
    <3>2. nth \in 0..Len(chunk)
      OBVIOUS
    <3> QED BY <3>1, <3>2, PrefixFacts DEF Position
  <2>4. Made(tensor, l, Pre(x, nth)) =
          <<"turn", tensor, l, Len(Pre(x, nth)), <<source, l, Pre(x, nth)>>>>
    <3>1. CASE i = 2
      BY <3>1, MadeIs, ZenonT(40)
    <3>2. CASE i = 3
      <4>1. tensor = "key_norm" /\ source = "key"
        BY <3>2
      <4>2. \A p : Made("key_norm", l, p) = <<"turn", "key_norm", l, Len(p), <<"key", l, p>>>>
        BY MadeIs
      <4> QED BY ONLY <4>1, <4>2
    <3> QED BY <3>1, <3>2
  <2> QED BY <2>2, <2>3, <2>4
<1>7. Has(x, rows'[Place(k.to[1])], k.stage[1], k.layer) /\ Only(Place(k.to[1]))
  <2>1. Place(k.to[1]) \in Buffer /\ k.single = FALSE
    BY <1>1, <1>3
  <2>2. \A nth \in 1..Len(chunk) : Term(k, nth) = Made(k.stage[1], k.layer, Pre(x, nth))
    BY <1>1, <1>5
  <2> QED BY <1>4, <2>1, <2>2, RowwiseEffect
<1> QED BY <1>1, <1>3, <1>7

\* The products of a linear layer are packed for its recurrence.
LEMMA PackEffect ==
  ASSUME TypeInv, NEW x, x = <<log, chunk>>, NEW l \in Nat, Run(LinearKernel(l, 1)),
         LinearFacts(l, 1, x, rows)
  PROVE  Has(x, rows'["pack"], "pack", l) /\ Only("pack")
<1> DEFINE k == LinearKernel(l, 1)
<1>1. /\ k.op = "pack" /\ k.single = FALSE /\ k.from[1] = "qkv" /\ k.from[2] = "beta"
      /\ k.from[3] = "alpha" /\ k.from[4] = "gate"
      /\ k.to[1] = "pack" /\ k.stage[1] = "pack" /\ k.layer = l
  BY DEF LinearKernel, Kernel
<1>2. Run(k)
  OBVIOUS
<1> HIDE DEF k
<1>3. /\ Place(k.to[1]) = "pack" /\ Place(k.from[1]) = "qkv" /\ Place(k.from[2]) = "beta"
      /\ Place(k.from[3]) = "alpha" /\ Place(k.from[4]) = "gate" /\ "pack" \in Buffer
  BY <1>1 DEF Place, Buffer
<1>4. Rowwise(k) /\ states' = states
  BY <1>1, <1>2 DEF Run
<1>6. /\ Has(x, rows["qkv"], "qkv", l) /\ Has(x, rows["beta"], "beta", l)
      /\ Has(x, rows["alpha"], "alpha", l) /\ Has(x, rows["gate"], "linear_gate", l)
  BY DEF LinearFacts
<1>5. ASSUME NEW nth \in 1..Len(chunk) PROVE Term(k, nth) = Made("pack", l, Pre(x, nth))
  <2>1. /\ Read(k, 1, nth) = <<"qkv", l, Pre(x, nth)>> /\ Read(k, 2, nth) = <<"beta", l, Pre(x, nth)>>
        /\ Read(k, 3, nth) = <<"alpha", l, Pre(x, nth)>>
        /\ Read(k, 4, nth) = <<"linear_gate", l, Pre(x, nth)>>
    BY <1>3, <1>6 DEF Read, Has
  <2>2. Term(k, nth) = <<"pack", <<"qkv", l, Pre(x, nth)>>, <<"beta", l, Pre(x, nth)>>,
                         <<"alpha", l, Pre(x, nth)>>, <<"linear_gate", l, Pre(x, nth)>>>>
    BY <1>1, <2>1 DEF Term
  <2> QED BY <2>2, MadeIsMixed
<1>7. Has(x, rows'[Place(k.to[1])], k.stage[1], k.layer) /\ Only(Place(k.to[1]))
  <2>1. Place(k.to[1]) \in Buffer /\ k.single = FALSE
    BY <1>1, <1>3
  <2>2. \A nth \in 1..Len(chunk) : Term(k, nth) = Made(k.stage[1], k.layer, Pre(x, nth))
    BY <1>1, <1>5
  <2> QED BY <1>4, <2>1, <2>2, RowwiseEffect
<1> QED BY <1>1, <1>3, <1>7

\* Queries and gates come apart.
LEMMA SplitEffect ==
  ASSUME TypeInv, NEW x, x = <<log, chunk>>, NEW l \in Nat, Run(FullKernel(l, 1)),
         Has(x, rows["query_gate"], "query_gate", l)
  PROVE  /\ Has(x, rows'["query"], "query", l) /\ Has(x, rows'["gate"], "gate", l)
         /\ DOMAIN rows' = Buffer /\ states' = states
         /\ \A c \in Buffer \ {"query", "gate"} : rows'[c] = rows[c]
<1> DEFINE k == FullKernel(l, 1)
           made(i) == [nth \in RowsOf(k) |->
             Named(<<"split", k.stage[i], Read(k, 1, nth)>>, k.stage[i], k.layer, PrefixOf(k, nth))]
           half(i) == Over(k.to[i], k, made(i))
<1>1. /\ k.op = "split" /\ k.single = FALSE /\ k.from[1] = "query_gate"
      /\ k.to[1] = "query" /\ k.to[2] = "gate" /\ k.stage[1] = "query" /\ k.stage[2] = "gate"
      /\ k.layer = l
  BY DEF FullKernel, Kernel
<1>2. Run(k)
  OBVIOUS
<1> HIDE DEF k
<1>3. rows' = [rows EXCEPT !["query"] = half(1), !["gate"] = half(2)] /\ states' = states
  BY <1>1, <1>2 DEF Run, Split
<1>4. ASSUME NEW i \in {1, 2}, NEW nth \in 1..Len(chunk)
      PROVE  half(i)[nth] = <<k.stage[i], l, Pre(x, nth)>>
  <2>1. Len(chunk) \in Nat /\ Len(chunk) <= MaxChunk /\ MaxChunk \in Nat
    BY MaxChunkFacts DEF TypeInv
  <2>2. nth \in 1..MaxChunk /\ RowsOf(k) = 1..Len(chunk)
    BY <1>1, <2>1 DEF RowsOf
  <2>3. half(i)[nth] = made(i)[nth]
    BY <2>2 DEF Over
  <2>4. PrefixOf(k, nth) = Pre(x, nth)
    BY <1>1 DEF PrefixOf, Prefix, Sequence, Position, Pre
  <2>5. Read(k, 1, nth) = <<"query_gate", l, Pre(x, nth)>>
    BY <1>1 DEF Read, Has, Place
  <2>6. made(i)[nth] = Named(<<"split", k.stage[i], <<"query_gate", l, Pre(x, nth)>>>>, k.stage[i], l, Pre(x, nth))
    BY <1>1, <2>2, <2>4, <2>5
  <2>7. k.stage[i] \in {"query", "gate"}
    BY <1>1
  <2>8. Made(k.stage[i], l, Pre(x, nth)) = <<"split", k.stage[i], <<"query_gate", l, Pre(x, nth)>>>>
    BY <2>7, MadeIs, ZenonT(40)
  <2> QED BY <2>3, <2>6, <2>8 DEF Named
<1> HIDE DEF half
<1>5. DOMAIN rows = Buffer /\ "query" \in Buffer /\ "gate" \in Buffer
  BY DEF TypeInv, Buffer
<1>6. /\ rows'["query"] = half(1) /\ rows'["gate"] = half(2) /\ DOMAIN rows' = Buffer
      /\ \A c \in Buffer \ {"query", "gate"} : rows'[c] = rows[c]
  BY <1>3, <1>5
<1>7. Has(x, rows'["query"], "query", l) /\ Has(x, rows'["gate"], "gate", l)
  BY <1>1, <1>4, <1>6 DEF Has
<1> QED BY <1>3, <1>6, <1>7

-----------------------------------------------------------------------------
(* The states of the layers *)

\* Layers of a kind have states of their own.
LEMMA NumberedFacts ==
  ASSUME NEW layerKind, NEW l \in 1..Len(Layers), Layers[l] = layerKind
  PROVE  /\ Numbered(layerKind, l) \in 1..Slots(layerKind)
         /\ \A m \in 1..Len(Layers) : m < l => Numbered(layerKind, m) < Numbered(layerKind, l)
<1> DEFINE set(k) == {m \in 1..k : Layers[m] = layerKind}
           n == Len(Layers)
<1>1. n \in Nat
  BY LayersCount
<1>2. ASSUME NEW k \in 1..n PROVE IsFiniteSet(set(k)) /\ Cardinality(set(k)) \in Nat
  <2>1. IsFiniteSet(1..k)
    BY <1>1, FS_Interval
  <2>2. set(k) \subseteq 1..k
    OBVIOUS
  <2>3. IsFiniteSet(set(k))
    BY <2>1, <2>2, FS_Subset
  <2> QED BY <2>3, FS_CardinalityType
<1>3. \A k : Numbered(layerKind, k) = Cardinality(set(k))
  BY DEF Numbered
<1>4. l \in set(l) /\ n \in 1..n /\ l \in 1..n
  BY <1>1
<1>5. Cardinality(set(l)) > 0
  <2>1. set(l) # {}
    BY <1>4
  <2> HIDE DEF set
  <2> QED BY <1>2, <1>4, <2>1, FS_EmptySet
<1>6. Cardinality(set(l)) <= Cardinality(set(n))
  <2>1. set(l) \subseteq set(n)
    BY <1>1
  <2> HIDE DEF set
  <2> QED BY <1>2, <1>4, <2>1, FS_Subset
<1>7. ASSUME NEW m \in 1..n, m < l PROVE Cardinality(set(m)) < Cardinality(set(l))
  <2>1. set(m) \subseteq set(l) /\ set(m) # set(l)
    <3>1. set(m) \subseteq set(l)
      BY <1>1, <1>7
    <3>2. l \notin set(m)
      BY <1>1, <1>7
    <3> QED BY <1>4, <3>1, <3>2
  <2> HIDE DEF set
  <2> QED BY <1>2, <1>4, <2>1, FS_Subset
<1>8. Slots(layerKind) = Cardinality(set(n)) /\ Numbered(layerKind, l) = Cardinality(set(l))
  BY <1>3 DEF Slots
<1> HIDE DEF set
<1>9. Cardinality(set(n)) \in Nat /\ Cardinality(set(l)) \in Nat
  BY <1>2, <1>4
<1>10. Numbered(layerKind, l) \in 1..Slots(layerKind)
  BY <1>5, <1>6, <1>8, <1>9
<1>11. ASSUME NEW m \in 1..n, m < l PROVE Numbered(layerKind, m) < Numbered(layerKind, l)
  BY <1>3, <1>7, <1>11
<1> QED BY <1>10, <1>11

\* Every layer has a slot of its own among those of its kind.
LEMMA StateOfFacts ==
  ASSUME NEW l \in 1..Len(Layers)
  PROVE  /\ Full(l) => StateOf(l) \in 1..Slots("full")
         /\ ~Full(l) => StateOf(l) \in 1..Slots("linear")
         /\ \A m \in 1..Len(Layers) : m # l /\ (Full(m) <=> Full(l)) => StateOf(m) # StateOf(l)
<1>1. \A m \in 1..Len(Layers) : Layers[m] = IF Full(m) THEN "full" ELSE "linear"
  BY LayersAssumption DEF Full
<1>2. StateOf(l) = Numbered(Layers[l], l) /\ StateOf(l) \in 1..Slots(Layers[l])
  BY NumberedFacts DEF StateOf
<1>3. ASSUME NEW m \in 1..Len(Layers), m # l, Full(m) <=> Full(l) PROVE StateOf(m) # StateOf(l)
  <2> DEFINE layerKind == Layers[l]
  <2>1. Layers[m] = layerKind /\ Layers[l] = layerKind
    BY <1>1, <1>3
  <2>2. StateOf(m) = Numbered(layerKind, m) /\ StateOf(l) = Numbered(layerKind, l)
    BY <2>1 DEF StateOf
  <2> HIDE DEF layerKind
  <2>3. /\ Numbered(layerKind, m) \in Nat /\ Numbered(layerKind, l) \in Nat
        /\ m < l => Numbered(layerKind, m) < Numbered(layerKind, l)
        /\ l < m => Numbered(layerKind, l) < Numbered(layerKind, m)
    BY <2>1, NumberedFacts
  <2>4. m < l \/ l < m
    BY <1>3, LayersCount
  <2> QED BY <2>2, <2>3, <2>4
<1> QED BY <1>1, <1>2, <1>3

\* Keys and values of the chunk go behind those of the sequence, in the cache of
\* this layer alone.
LEMMA AppendEffect ==
  ASSUME TypeInv, NEW x, x = <<log, chunk>>, NEW l \in 1..Len(Layers), Full(l),
         Run(FullKernel(l, 4)), Has(x, rows["key_norm"], "key_norm", l), Has(x, rows["value"], "value", l),
         Kept(l - 1, x, states)
  PROVE  rows' = rows /\ StatesTyped(states') /\ Kept(l, x, states')
<1> DEFINE k == FullKernel(l, 4)
           n == StateOf(l)
           cache == [p \in 1..MaxContext |->
             IF p \in Position + 1 .. Position + Len(chunk)
             THEN <<Read(k, 1, p - Position), Read(k, 2, p - Position)>> ELSE states.full[n][p]]
           s == log \o chunk
<1>1. k.op = "append" /\ k.from[1] = "key_norm" /\ k.from[2] = "value" /\ k.layer = l
  BY DEF FullKernel, Kernel
<1>2. Run(k)
  OBVIOUS
<1> HIDE DEF k
<1>3. states' = [states EXCEPT !.full[n] = cache] /\ rows' = rows
  BY <1>1, <1>2 DEF Run, AppendCache
<1>4. /\ DOMAIN states = {"full", "linear"}
      /\ DOMAIN states.full = 1..Slots("full") /\ DOMAIN states.linear = 1..Slots("linear")
      /\ \A m \in 1..Slots("full") : DOMAIN states.full[m] = 1..MaxContext
  BY DEF TypeInv, StatesTyped
<1>5. n \in 1..Slots("full")
  BY StateOfFacts
<1> HIDE DEF n
<1>6. DOMAIN cache = 1..MaxContext
  OBVIOUS
<1>7. ASSUME NEW p \in 1..Len(s)
      PROVE  cache[p] = <<<<"key_norm", l, Upto(s, p)>>, <<"value", l, Upto(s, p)>>>>
  <2>1. log \in Seq(Token) /\ chunk \in Seq(Token) /\ Len(log) + Len(chunk) <= MaxContext
    BY DEF TypeInv
  <2>2. /\ Len(log) \in Nat /\ Len(chunk) \in Nat /\ Len(s) = Len(log) + Len(chunk)
        /\ \A q \in 0..Len(log) : Upto(s, q) = Upto(log, q)
    BY <2>1, PrefixFacts
  <2>3. MaxContext \in Nat
    BY ContextAssumption
  <2>4. p \in 1..MaxContext /\ p \in Nat
    BY <2>1, <2>2, <2>3
  <2>5. CASE p > Len(log)
    <3>1. p - Len(log) \in 1..Len(chunk) /\ p \in Len(log) + 1 .. Len(log) + Len(chunk)
          /\ Len(log) + (p - Len(log)) = p
      BY <2>2, <2>4, <2>5
    <3>2. Pre(x, p - Len(log)) = Upto(s, p)
      BY <3>1 DEF Pre
    <3>3. /\ Read(k, 1, p - Len(log)) = <<"key_norm", l, Upto(s, p)>>
          /\ Read(k, 2, p - Len(log)) = <<"value", l, Upto(s, p)>>
      BY <1>1, <3>1, <3>2 DEF Read, Has, Place
    <3> QED BY <2>4, <3>1, <3>3 DEF Position
  <2>6. CASE p <= Len(log)
    <3>1. p \in 1..Len(log) /\ p \in 0..Len(log) /\ ~(p \in Len(log) + 1 .. Len(log) + Len(chunk))
      BY <2>2, <2>4, <2>6
    <3>2. Keeps(states, l, log)
      <4>1. l \in 1..Len(Layers) /\ ~(l <= l - 1)
        BY LayersCount
      <4> QED BY <4>1 DEF Kept
    <3>3. states.full[n][p] = <<<<"key_norm", l, Upto(log, p)>>, <<"value", l, Upto(log, p)>>>>
      BY <3>1, <3>2 DEF Keeps, n
    <3>4. cache[p] = states.full[n][p]
      BY <2>4, <3>1 DEF Position
    <3> QED BY <2>2, <3>1, <3>3, <3>4
  <2> QED BY <2>2, <2>4, <2>5, <2>6
<1> HIDE DEF cache
<1>8. /\ DOMAIN states' = {"full", "linear"} /\ states'.linear = states.linear
      /\ states'.full = [states.full EXCEPT ![n] = cache]
  BY <1>3, <1>4
<1>9. /\ DOMAIN states'.full = 1..Slots("full") /\ states'.full[n] = cache
      /\ \A m \in 1..Slots("full") : m # n => states'.full[m] = states.full[m]
  BY <1>4, <1>5, <1>8
<1>10. StatesTyped(states')
  BY <1>4, <1>6, <1>8, <1>9 DEF StatesTyped
<1>11. ASSUME NEW m \in 1..Len(Layers)
       PROVE  Keeps(states', m, IF m <= l THEN s ELSE log)
  <2>1. CASE m = l
    <3>1. m <= l
      BY <2>1, LayersCount
    <3>2. Keeps(states', l, s)
      BY <1>7, <1>9 DEF Keeps, n
    <3> QED BY <2>1, <3>1, <3>2
  <2>2. CASE m # l
    <3>1. m <= l <=> m <= l - 1
      BY <2>2, LayersCount
    <3> DEFINE q == IF m <= l - 1 THEN s ELSE log
    <3>2. Keeps(states, m, q)
      BY DEF Kept
    <3> HIDE DEF q
    <3>3. Keeps(states', m, q)
      <4>1. CASE Full(m)
        <5>1. StateOf(m) \in 1..Slots("full") /\ StateOf(m) # n
          BY <2>2, <4>1, StateOfFacts DEF n
        <5> QED BY <1>9, <3>2, <4>1, <5>1 DEF Keeps
      <4>2. CASE ~Full(m)
        BY <1>8, <3>2, <4>2 DEF Keeps
      <4> QED BY <4>1, <4>2
    <3> QED BY <3>1, <3>3 DEF q
  <2> QED BY <2>1, <2>2
<1>12. Kept(l, x, states')
  <2>1. x[1] = log /\ x[1] \o x[2] = s
    OBVIOUS
  <2> HIDE DEF s
  <2> QED BY <1>11, <2>1 DEF Kept
<1> QED BY <1>3, <1>10, <1>12

\* A query attends to the keys and values of its own prefix.
LEMMA AttendEffect ==
  ASSUME TypeInv, NEW x, x = <<log, chunk>>, NEW l \in 1..Len(Layers), Full(l),
         Run(FullKernel(l, 5)), Has(x, rows["query_norm"], "query_norm", l), Has(x, rows["gate"], "gate", l),
         Kept(l, x, states)
  PROVE  Has(x, rows'["attention_out"], "attended", l) /\ Only("attention_out")
<1> DEFINE k == FullKernel(l, 5)
           s == log \o chunk
           cache == states.full[StateOf(l)]
           value(p) == <<<<"key_norm", l, Upto(s, p)>>, <<"value", l, Upto(s, p)>>>>
<1>1. /\ k.op = "attend" /\ k.single = FALSE /\ k.from[1] = "query_norm" /\ k.from[2] = "gate"
      /\ k.to[1] = "attention_out" /\ k.stage[1] = "attended" /\ k.layer = l
  BY DEF FullKernel, Kernel
<1>2. Run(k)
  OBVIOUS
<1> HIDE DEF k
<1>3. /\ Place(k.to[1]) = "attention_out" /\ Place(k.from[1]) = "query_norm"
      /\ Place(k.from[2]) = "gate" /\ "attention_out" \in Buffer
  BY <1>1 DEF Place, Buffer
<1>4. Rowwise(k) /\ states' = states
  BY <1>1, <1>2 DEF Run
<1>5. \A p \in 1..Len(s) : cache[p] = value(p)
  <2>1. l <= l /\ x[1] \o x[2] = s
    BY LayersCount
  <2>2. Keeps(states, l, s)
    BY <2>1 DEF Kept
  <2> QED BY <2>2 DEF Keeps
<1>6. ASSUME NEW nth \in 1..Len(chunk) PROVE Term(k, nth) = Made("attended", l, Pre(x, nth))
  <2> DEFINE m == Len(log) + nth
             p == Pre(x, nth)
             f == [i \in 1..m |-> value(i)]
             g == [i \in 1..Len(p) |-> <<<<"key_norm", l, Upto(p, i)>>, <<"value", l, Upto(p, i)>>>>]
             T == {value(i) : i \in 1..m}
  <2>1. log \in Seq(Token) /\ chunk \in Seq(Token) /\ nth \in 0..Len(chunk)
    BY DEF TypeInv
  <2>2. /\ Len(log) \in Nat /\ Len(chunk) \in Nat /\ Len(s) = Len(log) + Len(chunk)
        /\ Len(p) = m /\ \A i \in 0..m : Upto(p, i) = Upto(s, i)
    BY <2>1, PrefixFacts
  <2>3. m \in Nat /\ m \in Int /\ 1 \in Int /\ m >= 1 /\ m <= Len(s) /\ m - 1 + 1 = m
    BY <2>2
  <2> HIDE DEF p, s
  <2>4. g = f
    <3>1. \A i \in 1..m : i \in 0..m
      BY <2>3
    <3> HIDE DEF m
    <3> QED BY <2>2, <3>1
  <2> HIDE DEF cache, m
  <2>5. \A i \in 1..m : cache[i] = value(i) /\ value(i) \in T
    <3>1. \A i \in 1..m : i \in 1..Len(s)
      BY <2>2, <2>3
    <3> QED BY <1>5, <3>1
  <2>6. \A i \in 1..m : cache[i] \in T
    BY <2>5
  <2> HIDE DEF value, T
  <2>7. /\ SubSeq(cache, 1, m) \in Seq(T)
        /\ Len(SubSeq(cache, 1, m)) = IF 1 <= m THEN m - 1 + 1 ELSE 0
        /\ \A i \in 1..(m - 1 + 1) : SubSeq(cache, 1, m)[i] = cache[1 + i - 1]
    BY <2>3, <2>6, SubSeqProperties
  <2>8. f \in Seq(T) /\ Len(f) = m /\ \A i \in 1..m : f[i] = value(i)
    <3>1. f \in [1..m -> T]
      BY <2>5
    <3>2. \A i \in 1..m : f[i] = value(i)
      OBVIOUS
    <3> HIDE DEF f
    <3>3. f \in Seq(T)
      BY <2>3, <3>1
    <3> QED BY <2>3, <3>1, <3>2, <3>3, LenProperties
  <2>9. Upto(cache, m) = f
    <3> DEFINE u == SubSeq(cache, 1, m)
    <3>1. Len(u) = m
      BY <2>3, <2>7
    <3>2. \A i \in 1..m : u[i] = f[i]
      <4>1. \A i \in 1..m : 1 + i - 1 = i
        BY <2>3
      <4> QED BY <2>3, <2>5, <2>7, <2>8, <4>1
    <3>3. u \in Seq(T)
      BY <2>7
    <3> HIDE DEF u, f
    <3>4. u = f
      BY <2>8, <3>1, <3>2, <3>3, SeqEqual
    <3> QED BY <3>4 DEF Upto, u
  <2>10. Read(k, 1, nth) = <<"query_norm", l, p>> /\ Read(k, 2, nth) = <<"gate", l, p>>
    BY <1>3 DEF Read, Has, p
  <2>11. Term(k, nth) = <<"attend", <<"query_norm", l, p>>, <<"gate", l, p>>, f>>
    BY <1>1, <2>9, <2>10 DEF Term, Cache, cache, m, Position
  <2>12. Made("attended", l, p) = <<"attend", <<"query_norm", l, p>>, <<"gate", l, p>>, g>>
    BY LayersCount, MadeIsMixed
  <2> QED BY <2>4, <2>11, <2>12 DEF p
<1>7. Has(x, rows'[Place(k.to[1])], k.stage[1], k.layer) /\ Only(Place(k.to[1]))
  <2>1. Place(k.to[1]) \in Buffer /\ k.single = FALSE
    BY <1>1, <1>3
  <2>2. \A nth \in 1..Len(chunk) : Term(k, nth) = Made(k.stage[1], k.layer, Pre(x, nth))
    BY <1>1, <1>6
  <2> QED BY <1>4, <2>1, <2>2, RowwiseEffect
<1> QED BY <1>1, <1>3, <1>7

\* The state of a linear layer goes on over the chunk, token by token, and each token
\* reads it as it is before that token.
LEMMA DeltaEffect ==
  ASSUME TypeInv, NEW x, x = <<log, chunk>>, NEW l \in 1..Len(Layers), ~Full(l),
         Run(LinearKernel(l, 2)), Has(x, rows["pack"], "pack", l), Kept(l - 1, x, states)
  PROVE  /\ Has(x, rows'["attention_out"], "read", l)
         /\ DOMAIN rows' = Buffer /\ \A c \in Buffer \ {"attention_out"} : rows'[c] = rows[c]
         /\ StatesTyped(states') /\ Kept(l, x, states')
<1> DEFINE k == LinearKernel(l, 2)
           n == StateOf(l)
           s == log \o chunk
           m == Len(chunk)
           Is(f) == f = [nth \in 1..(m + 1) |->
             IF nth = 1 THEN states.linear[StateOf(k.layer)]
             ELSE Named(<<"fold", k.layer, f[nth - 1], Read(k, 1, nth - 1)>>, "state", k.layer,
                        Prefix(nth - 1))]
           before == CHOOSE f : Is(f)
           over == Over(k.to[1], k, [nth \in RowsOf(k) |->
             Named(<<"read", k.layer, before[nth], Read(k, 1, nth)>>, "read", k.layer, Prefix(nth))])
<1>1. k.op = "delta" /\ k.single = FALSE /\ k.from[1] = "pack" /\ k.to[1] = "attention_out" /\ k.layer = l
  BY DEF LinearKernel, Kernel
<1>2. Run(k)
  OBVIOUS
<1> HIDE DEF k
<1>3. /\ rows' = [rows EXCEPT ![k.to[1]] = over]
      /\ states' = [states EXCEPT !.linear[StateOf(k.layer)] = before[m + 1]]
  BY <1>1, <1>2 DEF Run, Delta
<1>4. /\ log \in Seq(Token) /\ chunk \in Seq(Token) /\ m \in Nat /\ m <= MaxChunk /\ MaxChunk \in Nat
      /\ DOMAIN rows = Buffer
  BY MaxChunkFacts DEF TypeInv
<1>5. \A nth : Prefix(nth) = Pre(x, nth)
  BY DEF Prefix, Sequence, Position, Pre
<1>6. /\ Pre(x, 0) = log /\ Pre(x, m) = s
      /\ \A nth \in 0..m : Pre(x, nth) \in Seq(Token) /\ Len(Pre(x, nth)) = Len(log) + nth
      /\ \A nth \in 1..m : Upto(Pre(x, nth), Len(Pre(x, nth)) - 1) = Pre(x, nth - 1)
      /\ Len(log) \in Nat
  BY <1>4, PrefixFacts
<1>7. \A nth \in 1..m : Read(k, 1, nth) = <<"pack", l, Pre(x, nth)>>
  BY <1>1 DEF Read, Has, Place
<1>8. states.linear[n] = State(l, Pre(x, 0))
  <2>1. ~(l <= l - 1) /\ l \in 1..Len(Layers)
    BY LayersCount
  <2>2. Keeps(states, l, log)
    BY <2>1 DEF Kept
  <2> QED BY <1>6, <2>2 DEF Keeps
<1>9. l \in Nat
  BY LayersCount
<1> DEFINE step(nth, v) == Named(<<"fold", l, v, <<"pack", l, Pre(x, nth)>>>>, "state", l, Pre(x, nth))
<1>10. ASSUME NEW nth \in 1..m PROVE step(nth, State(l, Pre(x, nth - 1))) = State(l, Pre(x, nth))
  <2>1. Made("state", l, Pre(x, nth)) = <<"fold", l, State(l, Pre(x, nth - 1)), <<"pack", l, Pre(x, nth)>>>>
    <3> DEFINE p == Pre(x, nth)
    <3>1. Upto(p, Len(p) - 1) = Pre(x, nth - 1)
      BY <1>6
    <3> HIDE DEF p
    <3>2. Made("state", l, p) = <<"fold", l, State(l, Upto(p, Len(p) - 1)), <<"pack", l, p>>>>
      BY <1>9, MadeIsMixed
    <3> QED BY <3>1, <3>2 DEF p
  <2>2. step(nth, State(l, Pre(x, nth - 1))) = <<"state", l, Pre(x, nth)>>
    BY <2>1 DEF Named
  <2>3. Pre(x, nth) # <<>>
    <3>1. Len(Pre(x, nth)) > 0
      <4>1. nth \in 0..m /\ nth > 0
        BY <1>4
      <4>2. Len(Pre(x, nth)) = Len(log) + nth
        BY <1>6, <4>1
      <4>3. nth \in Nat /\ nth > 0 /\ Len(log) \in Nat
        BY <1>4, <1>6
      <4> QED BY ONLY <4>2, <4>3
    <3>2. Len(<<>>) = 0
      OBVIOUS
    <3> QED BY <3>1, <3>2
  <2> QED BY <2>2, <2>3 DEF State
<1> HIDE DEF step
<1>11. \A f : Is(f) <=> f = [nth \in 1..(m + 1) |->
                          IF nth = 1 THEN State(l, Pre(x, 0)) ELSE step(nth - 1, f[nth - 1])]
  <2> SUFFICES ASSUME NEW f
               PROVE  [nth \in 1..(m + 1) |->
                        IF nth = 1 THEN states.linear[StateOf(k.layer)]
                        ELSE Named(<<"fold", k.layer, f[nth - 1], Read(k, 1, nth - 1)>>, "state",
                                   k.layer, Prefix(nth - 1))]
                      = [nth \in 1..(m + 1) |->
                          IF nth = 1 THEN State(l, Pre(x, 0)) ELSE step(nth - 1, f[nth - 1])]
    OBVIOUS
  <2> SUFFICES ASSUME NEW nth \in 1..(m + 1), nth # 1
               PROVE  Named(<<"fold", k.layer, f[nth - 1], Read(k, 1, nth - 1)>>, "state", k.layer,
                            Prefix(nth - 1)) = step(nth - 1, f[nth - 1])
    BY <1>1, <1>8
  <2>1. nth - 1 \in 1..m
    BY <1>4
  <2> QED BY <1>1, <1>5, <1>7, <2>1 DEF step
<1>12. Is([nth \in 1..(m + 1) |-> State(l, Pre(x, nth - 1))])
  <2> DEFINE f == [nth \in 1..(m + 1) |-> State(l, Pre(x, nth - 1))]
  <2>1. ASSUME NEW nth \in 1..(m + 1), nth # 1 PROVE f[nth] = step(nth - 1, f[nth - 1])
    <3>1. nth - 1 \in 1..m /\ nth - 1 \in 1..(m + 1) /\ nth - 1 - 1 = (nth - 1) - 1
      BY <1>4, <2>1
    <3> QED BY <1>10, <3>1
  <2>2. f = [nth \in 1..(m + 1) |-> IF nth = 1 THEN State(l, Pre(x, 0)) ELSE step(nth - 1, f[nth - 1])]
    <3>1. \A nth \in 1..(m + 1) :
            f[nth] = IF nth = 1 THEN State(l, Pre(x, 0)) ELSE step(nth - 1, f[nth - 1])
      <4>1. f[1] = State(l, Pre(x, 0))
        <5>1. 1 \in 1..(m + 1) /\ 1 - 1 = 0
          BY <1>4
        <5> QED BY <5>1
      <4> HIDE DEF f
      <4> QED BY <2>1, <4>1
    <3>2. f = [nth \in 1..(m + 1) |-> f[nth]]
      OBVIOUS
    <3> HIDE DEF f
    <3> QED BY <3>1, <3>2
  <2> HIDE DEF f, Is
  <2>3. Is(f)
    BY <1>11, <2>2
  <2> QED BY <2>3 DEF f
<1>13. Is(before)
  <2>1. \E f : Is(f)
    <3> HIDE DEF Is
    <3> QED BY <1>12, Zenon
  <2> HIDE DEF Is
  <2> QED BY <2>1, Zenon
<1>14. \A nth \in 1..(m + 1) :
         before[nth] = IF nth = 1 THEN State(l, Pre(x, 0)) ELSE step(nth - 1, before[nth - 1])
  <2>1. before = [nth \in 1..(m + 1) |->
                    IF nth = 1 THEN State(l, Pre(x, 0)) ELSE step(nth - 1, before[nth - 1])]
    <3> HIDE DEF Is, before
    <3> QED BY <1>11, <1>13
  <2> HIDE DEF before
  <2> QED BY <2>1
<1> HIDE DEF before
<1>15. \A nth \in 0..m : before[nth + 1] = State(l, Pre(x, nth))
  <2> DEFINE P == {nth \in 0..m : before[nth + 1] = State(l, Pre(x, nth))}
  <2>1. 0 \in P
    <3>1. 0 + 1 = 1 /\ 1 \in 1..(m + 1) /\ 0 \in 0..m
      BY <1>4
    <3> QED BY <1>14, <3>1
  <2>2. ASSUME NEW nth \in 1..m, nth - 1 \in P PROVE nth \in P
    <3>1. nth + 1 \in 1..(m + 1) /\ nth + 1 # 1 /\ nth + 1 - 1 = nth /\ nth - 1 + 1 = nth /\ nth \in 0..m
      BY <1>4
    <3>2. before[nth + 1] = step(nth, before[nth])
      BY <1>14, <3>1
    <3>3. before[nth] = State(l, Pre(x, nth - 1))
      BY <2>2, <3>1
    <3> QED BY <1>10, <3>1, <3>2, <3>3
  <2>3. \A nth \in 0..m : nth \in P
    <3> HIDE DEF P, m
    <3> QED BY <1>4, <2>1, <2>2, BoundedInduction
  <2> QED BY <2>3
<1>16. ASSUME NEW nth \in 1..m PROVE over[nth] = <<"read", l, Pre(x, nth)>>
  <2>1. nth \in 1..MaxChunk /\ RowsOf(k) = 1..m /\ nth - 1 \in 0..m /\ nth - 1 + 1 = nth
    BY <1>1, <1>4 DEF RowsOf
  <2>2. over[nth] = Named(<<"read", l, before[nth], <<"pack", l, Pre(x, nth)>>>>, "read", l, Pre(x, nth))
    BY <1>1, <1>5, <1>7, <2>1 DEF Over
  <2>3. before[nth] = State(l, Pre(x, nth - 1))
    BY <1>15, <2>1
  <2>4. Made("read", l, Pre(x, nth)) = <<"read", l, State(l, Pre(x, nth - 1)), <<"pack", l, Pre(x, nth)>>>>
    <3> DEFINE p == Pre(x, nth)
    <3>1. Upto(p, Len(p) - 1) = Pre(x, nth - 1)
      BY <1>6
    <3> HIDE DEF p
    <3>2. Made("read", l, p) = <<"read", l, State(l, Upto(p, Len(p) - 1)), <<"pack", l, p>>>>
      BY <1>9, MadeIsMixed
    <3> QED BY <3>1, <3>2 DEF p
  <2> QED BY <2>2, <2>3, <2>4 DEF Named
<1>17. before[m + 1] = State(l, s)
  <2>1. m \in 0..m
    BY <1>4
  <2>2. before[m + 1] = State(l, Pre(x, m))
    BY <1>15, <2>1
  <2> QED BY <1>6, <2>2
<1> HIDE DEF over
<1>18. /\ rows'["attention_out"] = over /\ DOMAIN rows' = Buffer
       /\ \A c \in Buffer \ {"attention_out"} : rows'[c] = rows[c]
  <2>1. "attention_out" \in Buffer
    BY DEF Buffer
  <2> QED BY <1>1, <1>3, <1>4, <2>1
<1>19. Has(x, rows'["attention_out"], "read", l)
  BY <1>16, <1>18 DEF Has
<1>20. /\ DOMAIN states = {"full", "linear"}
       /\ DOMAIN states.full = 1..Slots("full") /\ DOMAIN states.linear = 1..Slots("linear")
       /\ \A i \in 1..Slots("full") : DOMAIN states.full[i] = 1..MaxContext
  BY DEF TypeInv, StatesTyped
<1>21. n \in 1..Slots("linear")
  BY StateOfFacts
<1>22. states' = [states EXCEPT !.linear[n] = State(l, s)]
  BY <1>1, <1>3, <1>17
<1> HIDE DEF n, s
<1>23. /\ DOMAIN states' = {"full", "linear"} /\ states'.full = states.full
       /\ states'.linear = [states.linear EXCEPT ![n] = State(l, s)]
  BY <1>20, <1>22
<1>24. /\ DOMAIN states'.linear = 1..Slots("linear") /\ states'.linear[n] = State(l, s)
       /\ \A i \in 1..Slots("linear") : i # n => states'.linear[i] = states.linear[i]
  BY <1>20, <1>21, <1>23
<1>25. StatesTyped(states')
  BY <1>20, <1>23, <1>24 DEF StatesTyped
<1>26. ASSUME NEW i \in 1..Len(Layers)
       PROVE  Keeps(states', i, IF i <= l THEN s ELSE log)
  <2>1. CASE i = l
    <3>1. i <= l
      BY <2>1, LayersCount
    <3>2. Keeps(states', l, s)
      BY <1>24 DEF Keeps, n
    <3> QED BY <2>1, <3>1, <3>2
  <2>2. CASE i # l
    <3>1. i <= l <=> i <= l - 1
      BY <2>2, LayersCount
    <3> DEFINE q == IF i <= l - 1 THEN s ELSE log
    <3>2. Keeps(states, i, q)
      BY DEF Kept, s
    <3> HIDE DEF q
    <3>3. Keeps(states', i, q)
      <4>1. CASE ~Full(i)
        <5>1. StateOf(i) \in 1..Slots("linear") /\ StateOf(i) # n
          BY <2>2, <4>1, StateOfFacts DEF n
        <5> QED BY <1>24, <3>2, <4>1, <5>1 DEF Keeps
      <4>2. CASE Full(i)
        BY <1>23, <3>2, <4>2 DEF Keeps
      <4> QED BY <4>1, <4>2
    <3> QED BY <3>1, <3>3 DEF q
  <2> QED BY <2>1, <2>2
<1>27. Kept(l, x, states')
  <2>1. x[1] = log /\ x[1] \o x[2] = s
    BY DEF s
  <2> QED BY <1>26, <2>1 DEF Kept
<1> QED BY <1>18, <1>19, <1>25, <1>27

-----------------------------------------------------------------------------
(* From kernel to kernel *)

\* What follows of a launch of a kernel.
LEMMA LaunchRuns ==
  ASSUME Launch, NEW k, Program[at] = k
  PROVE  /\ phase = "busy" /\ at <= Len(Program) /\ at' = at + 1
         /\ Run(k) /\ hidden' = Swapped(k)
         /\ UNCHANGED <<grouped, traced, log, chunk, wanted, phase>>
         /\ trace' = IF ~traced \/ Recorded(k)[1] = "none" THEN trace
                     ELSE LET b == Recorded(k)[2]
                              place == CASE b = "hidden" -> hidden' [] b = "scratch" -> Other(hidden')
                                         [] OTHER -> b
                          IN <<Recorded(k)[1], k.layer, [nth \in 1..Len(chunk) |-> rows'[place][nth]]>>
BY DEF Launch

\* A place after a kernel.
After(b) == CASE b = "hidden" -> hidden' [] b = "scratch" -> Other(hidden') [] OTHER -> b

\* A kernel is not recorded, or as what it made.
Recordable(k, x) ==
  Recorded(k)[1] # "none" =>
    Has(x, rows'[After(Recorded(k)[2])], StageOf(Recorded(k)[1]), k.layer)

\* A launch leaves a true record, if what it may record is true.
LEMMA TraceStep ==
  ASSUME Launch, NEW k, Program[at] = k, NEW x, x = <<log, chunk>>, TraceFacts(x, trace),
         Recordable(k, x)
  PROVE  TraceFacts(x, trace')
<1>1. CASE ~traced \/ Recorded(k)[1] = "none"
  <2>1. trace' = trace
    BY <1>1, LaunchRuns
  <2> QED BY <2>1
<1>2. CASE ~(~traced \/ Recorded(k)[1] = "none")
  <2> DEFINE b == Recorded(k)[2]
             r == [nth \in 1..Len(chunk) |-> rows'[After(b)][nth]]
  <2>1. trace' = <<Recorded(k)[1], k.layer, r>>
    BY <1>2, LaunchRuns DEF After
  <2>2. \A nth \in 1..Len(x[2]) : r[nth] = <<StageOf(Recorded(k)[1]), k.layer, Pre(x, nth)>>
    BY <1>2 DEF Recordable, Has
  <2> HIDE DEF r
  <2>3. trace'[1] = Recorded(k)[1] /\ trace'[2] = k.layer /\ trace'[3] = r
    BY <2>1
  <2> QED BY <2>2, <2>3 DEF TraceFacts
<1> QED BY <1>1, <1>2

\* How many products of a group have been launched at a place in it.
LEMMA DoneFacts ==
  ASSUME NEW g \in BOOLEAN, NEW n \in Nat, n >= 1, NEW j \in 1..GroupLength(g, n)
  PROVE  /\ GroupLength(g, n) \in Nat /\ GroupLength(g, n) >= 1
         /\ Done(g, j) \in 0..n /\ Done(g, 1) = 0 /\ IsCast(g, 1)
         /\ IsCast(g, j) => Done(g, j + 1) = Done(g, j) /\ j < GroupLength(g, n)
         /\ ~IsCast(g, j) => Done(g, j + 1) = Done(g, j) + 1 /\ Done(g, j) + 1 \in 1..n
         /\ ~IsCast(g, j + 1) => (IsCast(g, j) \/ ~IsCast(g, j))
         /\ ~IsCast(g, j + 1) /\ ~IsCast(g, j) => g
         /\ j = GroupLength(g, n) => Done(g, j) + 1 = n /\ ~IsCast(g, j)
<1>1. CASE g
  BY <1>1 DEF GroupLength, Done, IsCast
<1>2. CASE ~g
  BY <1>2 DEF GroupLength, Done, IsCast
<1> QED BY <1>1, <1>2

\* Products of a group have buffers of their own, and are what the reference makes of
\* the input of the group.
ProductsOf(ps, n, source, l) ==
  /\ n \in Nat /\ n >= 1 /\ Len(ps) = n
  /\ \A m \in 1..n : ps[m][2] \in Buffer \ {"matmul_input", "hidden_a", "hidden_b"}
  /\ \A m, i \in 1..n : m # i => ps[m][2] # ps[i][2]
  /\ \A m \in 1..n : \A p : Made(ps[m][1], l, p) = <<"matmul", ps[m][1], l, <<source, l, p>>>>

\* A kernel of a group.
LEMMA GroupStep ==
  ASSUME TypeInv, NEW x, x = <<log, chunk>>, NEW g \in BOOLEAN, NEW l, NEW source,
         NEW ps, NEW n, ProductsOf(ps, n, source, l),
         NEW j \in 1..GroupLength(g, n), GroupFacts(g, j, ps, source, l, x, rows, hidden),
         NEW k, Run(k), IsCast(g, j) => k = Cast("scratch", l),
         ~IsCast(g, j) =>
           k = Product(ps[Done(g, j) + 1][1], l, ps[Done(g, j) + 1][2], ps[Done(g, j) + 1][1])
  PROVE  /\ DOMAIN rows' = Buffer /\ states' = states /\ rows'[hidden] = rows[hidden]
         /\ j < GroupLength(g, n) => GroupFacts(g, j + 1, ps, source, l, x, rows', hidden)
         /\ \A m \in 1..Done(g, j + 1) : Has(x, rows'[ps[m][2]], ps[m][1], l)
         /\ j = GroupLength(g, n) => \A m \in 1..n : Has(x, rows'[ps[m][2]], ps[m][1], l)
<1>0. /\ n \in Nat /\ n >= 1
      /\ \A m \in 1..n : ps[m][2] \in Buffer \ {"matmul_input", "hidden_a", "hidden_b"}
      /\ \A m, i \in 1..n : m # i => ps[m][2] # ps[i][2]
      /\ \A m \in 1..n : \A p : Made(ps[m][1], l, p) = <<"matmul", ps[m][1], l, <<source, l, p>>>>
  BY DEF ProductsOf
<1>1. /\ Has(x, rows[Other(hidden)], source, l)
      /\ ~IsCast(g, j) => HasCast(x, rows["matmul_input"], source, l)
      /\ \A m \in 1..Done(g, j) : Has(x, rows[ps[m][2]], ps[m][1], l)
  BY DEF GroupFacts
<1>2. /\ hidden \in Buffer /\ Other(hidden) \in Buffer
      /\ hidden \in {"hidden_a", "hidden_b"} /\ Other(hidden) \in {"hidden_a", "hidden_b"}
      /\ Place("scratch") = Other(hidden)
  BY Places DEF TypeInv
<1>3. /\ GroupLength(g, n) \in Nat /\ Done(g, j) \in 0..n
      /\ IsCast(g, j) => Done(g, j + 1) = Done(g, j) /\ j < GroupLength(g, n)
      /\ ~IsCast(g, j) => Done(g, j + 1) = Done(g, j) + 1 /\ Done(g, j) + 1 \in 1..n
      /\ j = GroupLength(g, n) => Done(g, j) + 1 = n /\ ~IsCast(g, j)
  BY <1>0, DoneFacts
<1>4. CASE IsCast(g, j)
  <2>1. HasCast(x, rows'["matmul_input"], source, l) /\ Only("matmul_input")
    <3>1. Run(Cast("scratch", l)) /\ Has(x, rows[Place("scratch")], source, l)
      BY <1>1, <1>2, <1>4
    <3> QED BY <3>1, CastEffect
  <2>2. \A c \in Buffer : c # "matmul_input" => rows'[c] = rows[c]
    BY <2>1 DEF Only
  <2>3. rows'[hidden] = rows[hidden] /\ rows'[Other(hidden)] = rows[Other(hidden)]
    BY <1>2, <2>2
  <2>4. \A m \in 1..Done(g, j) : Has(x, rows'[ps[m][2]], ps[m][1], l)
    <3> SUFFICES ASSUME NEW m \in 1..Done(g, j) PROVE Has(x, rows'[ps[m][2]], ps[m][1], l)
      OBVIOUS
    <3>1. m \in 1..n
      BY <1>0, <1>3
    <3>2. rows'[ps[m][2]] = rows[ps[m][2]]
      BY <1>0, <2>2, <3>1
    <3> QED BY <1>1, <3>2
  <2>5. GroupFacts(g, j + 1, ps, source, l, x, rows', hidden)
    BY <1>1, <1>3, <1>4, <2>1, <2>3, <2>4 DEF GroupFacts
  <2> QED BY <1>3, <1>4, <2>1, <2>3, <2>4, <2>5 DEF Only
<1>5. CASE ~IsCast(g, j)
  <2> DEFINE d == Done(g, j) + 1
             tensor == ps[d][1]
             to == ps[d][2]
  <2>1. d \in 1..n /\ to \in Buffer /\ to \notin {"matmul_input", "hidden_a", "hidden_b"}
    BY <1>0, <1>3, <1>5
  <2>2. Has(x, rows'[to], tensor, l) /\ Only(to)
    <3>1. Run(Product(tensor, l, to, tensor)) /\ HasCast(x, rows["matmul_input"], source, l)
      BY <1>1, <1>5
    <3>2. \A p : Made(tensor, l, p) = <<"matmul", tensor, l, <<source, l, p>>>>
      BY <1>0, <2>1
    <3> HIDE DEF tensor, to
    <3> QED BY <2>1, <3>1, <3>2, ProductEffect
  <2>3. \A c \in Buffer : c # to => rows'[c] = rows[c]
    BY <2>2 DEF Only
  <2>4. /\ rows'[hidden] = rows[hidden] /\ rows'[Other(hidden)] = rows[Other(hidden)]
        /\ rows'["matmul_input"] = rows["matmul_input"]
    <3>1. "matmul_input" \in Buffer
      BY DEF Buffer
    <3> QED BY <1>2, <2>1, <2>3, <3>1
  <2>5. \A m \in 1..d : Has(x, rows'[ps[m][2]], ps[m][1], l)
    <3> SUFFICES ASSUME NEW m \in 1..d PROVE Has(x, rows'[ps[m][2]], ps[m][1], l)
      OBVIOUS
    <3>1. CASE m = d
      BY <2>2, <3>1
    <3>2. CASE m # d
      <4>1. m \in 1..n /\ m \in 1..Done(g, j)
        BY <1>0, <1>3, <2>1, <3>2
      <4>2. rows'[ps[m][2]] = rows[ps[m][2]]
        BY <1>0, <2>1, <2>3, <3>2, <4>1
      <4> QED BY <1>1, <4>1, <4>2
    <3> QED BY <3>1, <3>2
  <2>6. GroupFacts(g, j + 1, ps, source, l, x, rows', hidden)
    BY <1>1, <1>3, <1>5, <2>4, <2>5 DEF GroupFacts
  <2>7. Done(g, j + 1) = d /\ (j = GroupLength(g, n) => d = n)
    BY <1>3, <1>5
  <2> HIDE DEF d
  <2> QED BY <2>2, <2>4, <2>5, <2>6, <2>7 DEF Only
<1> QED BY <1>4, <1>5

\* What the products of a full layer's group make.
LEMMA FullProductFacts ==
  ASSUME NEW l \in Nat
  PROVE  ProductsOf(FullProducts, 3, "input", l)
<1> DEFINE ps == FullProducts
<1>1. /\ ps[1][1] = "query_gate" /\ ps[2][1] = "key" /\ ps[3][1] = "value"
      /\ ps[1][2] = "query_gate" /\ ps[2][2] = "key" /\ ps[3][2] = "value"
  BY DEF FullProducts
<1>2. Len(ps) = 3
  BY ProductsTyped
<1> HIDE DEF ps
<1>3. \A m \in 1..3 : m = 1 \/ m = 2 \/ m = 3
  OBVIOUS
<1>4. \A m \in 1..3 : ps[m][2] \in Buffer \ {"matmul_input", "hidden_a", "hidden_b"}
  BY <1>1, <1>3 DEF Buffer
<1>5. \A m, i \in 1..3 : m # i => ps[m][2] # ps[i][2]
  BY <1>1, <1>3
<1>6. \A m \in 1..3 : \A p : Made(ps[m][1], l, p) = <<"matmul", ps[m][1], l, <<"input", l, p>>>>
  <2>1. \A s \in {"query_gate", "key", "value"} : \A p :
          Made(s, l, p) = <<"matmul", s, l, <<"input", l, p>>>>
    BY MadeIs
  <2> QED BY <1>1, <1>3, <2>1
<1> QED BY <1>2, <1>4, <1>5, <1>6 DEF ProductsOf, ps

\* What the products of a linear layer's group make.
LEMMA LinearProductFacts ==
  ASSUME NEW l \in Nat
  PROVE  ProductsOf(LinearProducts, 4, "input", l)
<1> DEFINE ps == LinearProducts
<1>1. /\ ps[1][1] = "qkv" /\ ps[2][1] = "beta" /\ ps[3][1] = "alpha" /\ ps[4][1] = "linear_gate"
      /\ ps[1][2] = "qkv" /\ ps[2][2] = "beta" /\ ps[3][2] = "alpha" /\ ps[4][2] = "gate"
  BY DEF LinearProducts
<1>2. Len(ps) = 4
  BY ProductsTyped
<1> HIDE DEF ps
<1>3. \A m \in 1..4 : m = 1 \/ m = 2 \/ m = 3 \/ m = 4
  OBVIOUS
<1>4. \A m \in 1..4 : ps[m][2] \in Buffer \ {"matmul_input", "hidden_a", "hidden_b"}
  BY <1>1, <1>3 DEF Buffer
<1>5. \A m, i \in 1..4 : m # i => ps[m][2] # ps[i][2]
  BY <1>1, <1>3
<1>6. \A m \in 1..4 : \A p : Made(ps[m][1], l, p) = <<"matmul", ps[m][1], l, <<"input", l, p>>>>
  <2>1. \A s \in {"qkv", "beta", "alpha", "linear_gate"} : \A p :
          Made(s, l, p) = <<"matmul", s, l, <<"input", l, p>>>>
    BY MadeIs
  <2> QED BY <1>1, <1>3, <2>1
<1> QED BY <1>2, <1>4, <1>5, <1>6 DEF ProductsOf, ps

\* What the products of the feed-forward group make.
LEMMA FfnProductFacts ==
  ASSUME NEW l \in Nat
  PROVE  ProductsOf(FfnProducts, 2, "post", l)
<1> DEFINE ps == FfnProducts
<1>1. /\ ps[1][1] = "ffn_gate" /\ ps[2][1] = "ffn_up"
      /\ ps[1][2] = "intermediate_a" /\ ps[2][2] = "intermediate_b"
  BY DEF FfnProducts
<1>2. Len(ps) = 2
  BY ProductsTyped
<1> HIDE DEF ps
<1>3. \A m \in 1..2 : m = 1 \/ m = 2
  OBVIOUS
<1>4. \A m \in 1..2 : ps[m][2] \in Buffer \ {"matmul_input", "hidden_a", "hidden_b"}
  BY <1>1, <1>3 DEF Buffer
<1>5. \A m, i \in 1..2 : m # i => ps[m][2] # ps[i][2]
  BY <1>1, <1>3
<1>6. \A m \in 1..2 : \A p : Made(ps[m][1], l, p) = <<"matmul", ps[m][1], l, <<"post", l, p>>>>
  <2>1. \A s \in {"ffn_gate", "ffn_up"} : \A p :
          Made(s, l, p) = <<"matmul", s, l, <<"post", l, p>>>>
    BY MadeIsLater
  <2> QED BY <1>1, <1>3, <2>1
<1> QED BY <1>2, <1>4, <1>5, <1>6 DEF ProductsOf, ps

\* The places of a layer's kernels.
LEMMA LayerArith ==
  ASSUME NEW g \in BOOLEAN, NEW l \in 1..Len(Layers),
         NEW n, n = GroupLength(g, Len(MixerProducts(l)))
  PROVE  /\ l \in Nat /\ l > 0 /\ n \in Nat /\ n >= 1 /\ GroupLength(g, 2) \in Nat /\ GroupLength(g, 2) >= 1
         /\ Grouped(g, l) = 1 + n /\ MixerLength(l) \in Nat /\ MixerLength(l) >= 2
         /\ MixedAt(g, l) = Grouped(g, l) + MixerLength(l)
         /\ Grouped(g, l) \in Nat /\ MixedAt(g, l) \in Nat /\ FfnAt(g, l) \in Nat /\ SwigluAt(g, l) \in Nat
         /\ FfnAt(g, l) = MixedAt(g, l) + 4
         /\ SwigluAt(g, l) = FfnAt(g, l) + GroupLength(g, 2) /\ LayerLength(g, l) = SwigluAt(g, l) + 4
         /\ \A i \in Nat : KeptBy(g, l, i) = IF i > Grouped(g, l) + (IF Full(l) THEN 4 ELSE 2) THEN l ELSE l - 1
<1>1. Len(MixerProducts(l)) \in {3, 4}
  BY ProductsTyped DEF MixerProducts
<1> DEFINE m == Len(MixerProducts(l))
<1>b. m = 3 \/ m = 4
  BY <1>1
<1> HIDE DEF m
<1>a. m \in Nat /\ m >= 1
  BY <1>b
<1>2. n \in Nat /\ n >= 1 /\ GroupLength(g, 2) \in Nat /\ GroupLength(g, 2) >= 1 /\ l \in Nat /\ l > 0
  <2>1. n = GroupLength(g, m)
    BY DEF m
  <2> QED BY <1>a, <2>1, LayersCount DEF GroupLength
<1>3. MixerLength(l) \in Nat /\ MixerLength(l) >= 2 /\ Grouped(g, l) = 1 + n
      /\ MixedAt(g, l) = Grouped(g, l) + MixerLength(l)
  BY DEF MixedAt, MixerLength, Grouped
<1> QED BY <1>2, <1>3, SMTT(30) DEF FfnAt, SwigluAt, LayerLength, KeptBy

\* What a kernel of a layer leaves.
Moved(g, l, i, x, k) ==
  /\ DOMAIN rows' = Buffer /\ StatesTyped(states') /\ hidden' \in {"hidden_a", "hidden_b"}
  /\ Recordable(k, x)
  /\ IF i = LayerLength(g, l)
     THEN Has(x, rows'[hidden'], "hidden", l) /\ Kept(l, x, states')
     ELSE /\ FrontFacts(g, l, i + 1, x, rows', hidden') \/ BackFacts(g, l, i + 1, x, rows', hidden')
          /\ Kept(KeptBy(g, l, i + 1), x, states')

\* The norm before the mixer.
LEMMA StepInputNorm ==
  ASSUME TypeInv, NEW x, x = <<log, chunk>>, NEW g \in BOOLEAN, NEW l \in 1..Len(Layers),
         Has(x, rows[hidden], "hidden", l - 1), Kept(KeptBy(g, l, 1), x, states),
         NEW k, k = Norm("input_norm", l, "input"), Run(k), hidden' = Swapped(k)
  PROVE  Moved(g, l, 1, x, k)
<1> DEFINE n == GroupLength(g, Len(MixerProducts(l)))
<1>1. /\ l \in Nat /\ n \in Nat /\ n >= 1 /\ LayerLength(g, l) > 2
      /\ KeptBy(g, l, 1) = l - 1 /\ KeptBy(g, l, 2) = l - 1
  <2>1. /\ l \in Nat /\ n \in Nat /\ n >= 1 /\ GroupLength(g, 2) \in Nat
        /\ Grouped(g, l) = 1 + n /\ Grouped(g, l) \in Nat /\ MixedAt(g, l) \in Nat /\ FfnAt(g, l) \in Nat
        /\ MixerLength(l) \in Nat /\ MixedAt(g, l) = Grouped(g, l) + MixerLength(l)
        /\ FfnAt(g, l) = MixedAt(g, l) + 4
        /\ SwigluAt(g, l) = FfnAt(g, l) + GroupLength(g, 2) /\ LayerLength(g, l) = SwigluAt(g, l) + 4
    BY LayerArith
  <2>2. \A i \in Nat : KeptBy(g, l, i) = IF i > Grouped(g, l) + (IF Full(l) THEN 4 ELSE 2) THEN l ELSE l - 1
    BY LayerArith
  <2> HIDE DEF n
  <2>3. LayerLength(g, l) > 2 /\ ~(1 > Grouped(g, l) + (IF Full(l) THEN 4 ELSE 2))
        /\ ~(2 > Grouped(g, l) + (IF Full(l) THEN 4 ELSE 2)) /\ 1 \in Nat /\ 2 \in Nat
    BY <2>1, SMTT(30)
  <2> QED BY <2>1, <2>2, <2>3
<1>2. /\ k.op = "norm" /\ k.weight = "input_norm" /\ k.layer = l
  BY DEF Norm, Kernel
<1>3. Has(x, rows'[Other(hidden)], "input", l) /\ Only(Other(hidden))
  <2>1. \A p : Made("input", l, p) = <<"norm", "input_norm", l, <<"hidden", l - 1, p>>>>
    BY <1>1, MadeIs, ZenonT(40)
  <2> QED BY <2>1, NormEffect
<1>4. hidden' = hidden /\ rows'[hidden] = rows[hidden] /\ hidden \in {"hidden_a", "hidden_b"}
  BY <1>2, <1>3, Places DEF Swapped, Only, TypeInv
<1>5. GroupFacts(g, 1, MixerProducts(l), "input", l, x, rows', hidden')
  <2>1. IsCast(g, 1) /\ Done(g, 1) = 0
    BY DEF IsCast, Done
  <2> QED BY <1>3, <1>4, <2>1 DEF GroupFacts
<1>6. FrontFacts(g, l, 2, x, rows', hidden')
  <2>1. 1 \in 1..n /\ 2 = 1 + 1
    BY <1>1
  <2> QED BY <1>4, <1>5, <2>1 DEF FrontFacts
<1>7. Recordable(k, x)
  <2>1. Recorded(k)[1] = "attn_norm" /\ Recorded(k)[2] = "scratch"
    BY <1>2 DEF Recorded
  <2> QED BY <1>2, <1>3, <1>4, <2>1 DEF Recordable, After, StageOf
<1>8. states' = states /\ StatesTyped(states) /\ DOMAIN rows' = Buffer
  BY <1>3 DEF Only, TypeInv
<1> QED BY <1>1, <1>4, <1>6, <1>7, <1>8 DEF Moved

\* The order of the parts of a layer's program.
LEMMA LayerPlaces ==
  ASSUME NEW g \in BOOLEAN, NEW l \in 1..Len(Layers)
  PROVE  /\ l \in Nat /\ l > 0 /\ GroupLength(g, 2) \in Nat /\ GroupLength(g, 2) >= 1
         /\ GroupLength(g, Len(MixerProducts(l))) \in Nat /\ GroupLength(g, Len(MixerProducts(l))) >= 1
         /\ Grouped(g, l) = 1 + GroupLength(g, Len(MixerProducts(l)))
         /\ Grouped(g, l) \in Nat /\ MixedAt(g, l) \in Nat /\ FfnAt(g, l) \in Nat /\ SwigluAt(g, l) \in Nat
         /\ MixedAt(g, l) = Grouped(g, l) + MixerLength(l) /\ MixerLength(l) = (IF Full(l) THEN 5 ELSE 2)
         /\ FfnAt(g, l) = MixedAt(g, l) + 4
         /\ SwigluAt(g, l) = FfnAt(g, l) + GroupLength(g, 2) /\ LayerLength(g, l) = SwigluAt(g, l) + 4
         /\ \A i \in Nat : i > MixedAt(g, l) => KeptBy(g, l, i) = l
         /\ \A i \in Nat : i <= Grouped(g, l) + 1 => KeptBy(g, l, i) = l - 1
         /\ Full(l) => /\ \A j \in 1..4 : KeptBy(g, l, Grouped(g, l) + j) = l - 1
                       /\ KeptBy(g, l, Grouped(g, l) + 5) = l
         /\ ~Full(l) => \A j \in 1..2 : KeptBy(g, l, Grouped(g, l) + j) = l - 1
<1> DEFINE n == GroupLength(g, Len(MixerProducts(l)))
           a == Grouped(g, l)
           m == MixedAt(g, l)
<1>1. /\ l \in Nat /\ l > 0 /\ n \in Nat /\ n >= 1 /\ GroupLength(g, 2) \in Nat /\ GroupLength(g, 2) >= 1
      /\ a = 1 + n /\ a \in Nat /\ m \in Nat /\ FfnAt(g, l) \in Nat /\ SwigluAt(g, l) \in Nat
      /\ m = a + MixerLength(l) /\ FfnAt(g, l) = m + 4
      /\ SwigluAt(g, l) = FfnAt(g, l) + GroupLength(g, 2) /\ LayerLength(g, l) = SwigluAt(g, l) + 4
  BY LayerArith
<1>2. MixerLength(l) = (IF Full(l) THEN 5 ELSE 2)
  BY DEF MixerLength
<1>3. \A i \in Nat : KeptBy(g, l, i) = IF i > a + (IF Full(l) THEN 4 ELSE 2) THEN l ELSE l - 1
  BY LayerArith
<1> HIDE DEF n, a, m
<1>4. CASE Full(l)
  <2>1. m = a + 5 /\ \A i \in Nat : KeptBy(g, l, i) = IF i > a + 4 THEN l ELSE l - 1
    BY <1>1, <1>2, <1>3, <1>4
  <2>2. /\ \A i \in Nat : i > m => i > a + 4
        /\ \A i \in Nat : i <= a + 1 => ~(i > a + 4)
        /\ \A j \in 1..4 : a + j \in Nat /\ ~(a + j > a + 4)
        /\ a + 5 \in Nat /\ a + 5 > a + 4
    BY <1>1, <2>1, SMTT(30)
  <2>3. /\ \A i \in Nat : i > m => KeptBy(g, l, i) = l
        /\ \A i \in Nat : i <= a + 1 => KeptBy(g, l, i) = l - 1
        /\ \A j \in 1..4 : KeptBy(g, l, a + j) = l - 1
        /\ KeptBy(g, l, a + 5) = l
    BY <2>1, <2>2
  <2> QED BY <1>1, <1>2, <1>4, <2>3 DEF n, a, m
<1>5. CASE ~Full(l)
  <2>1. m = a + 2 /\ \A i \in Nat : KeptBy(g, l, i) = IF i > a + 2 THEN l ELSE l - 1
    BY <1>1, <1>2, <1>3, <1>5
  <2>2. /\ \A i \in Nat : i > m => i > a + 2
        /\ \A i \in Nat : i <= a + 1 => ~(i > a + 2)
        /\ \A j \in 1..2 : a + j \in Nat /\ ~(a + j > a + 2)
    BY <1>1, <2>1, SMTT(30)
  <2>3. /\ \A i \in Nat : i > m => KeptBy(g, l, i) = l
        /\ \A i \in Nat : i <= a + 1 => KeptBy(g, l, i) = l - 1
        /\ \A j \in 1..2 : KeptBy(g, l, a + j) = l - 1
    BY <2>1, <2>2
  <2> QED BY <1>1, <1>2, <1>5, <2>3 DEF n, a, m
<1> QED BY <1>4, <1>5

\* Kernels of a group that are recorded: one, after the product whose tensor it shows.
LEMMA GroupRecorded ==
  ASSUME NEW x, NEW l \in Nat, NEW ps, NEW n, NEW source, ProductsOf(ps, n, source, l),
         NEW g \in BOOLEAN, NEW j \in 1..GroupLength(g, n), NEW k,
         IsCast(g, j) => k = Cast("scratch", l),
         ~IsCast(g, j) =>
           k = Product(ps[Done(g, j) + 1][1], l, ps[Done(g, j) + 1][2], ps[Done(g, j) + 1][1]),
         \A m \in 1..n : ps[m][1] # "output",
         (ps[Done(g, j) + 1][1] = "linear_gate" /\ ~IsCast(g, j)) => Has(x, rows'["qkv"], "qkv", l)
  PROVE  Recordable(k, x) /\ Swapped(k) = hidden
<1>1. CASE IsCast(g, j)
  <2>1. k.op = "cast"
    BY <1>1 DEF Cast, Kernel
  <2> QED BY <2>1 DEF Recordable, Recorded, Swapped
<1>2. CASE ~IsCast(g, j)
  <2> DEFINE weight == ps[Done(g, j) + 1][1]
  <2>1. k.op = "matmul" /\ k.weight = weight /\ k.layer = l
    BY <1>2 DEF Product, Kernel
  <2>2. weight # "output"
    <3>1. Done(g, j) + 1 \in 1..n
      BY <1>2, DoneFacts DEF ProductsOf
    <3> QED BY <3>1
  <2>3. weight = "linear_gate" => Has(x, rows'["qkv"], "qkv", l)
    BY <1>2
  <2> HIDE DEF weight
  <2>4. CASE weight = "linear_gate"
    <3>1. Recorded(k)[1] = "linear_attn_qkv_mixed" /\ Recorded(k)[2] = "qkv"
      BY <2>1, <2>4 DEF Recorded
    <3> QED BY <2>1, <2>3, <2>4, <3>1 DEF Recordable, After, StageOf, Swapped
  <2>5. CASE weight # "linear_gate"
    <3>1. Recorded(k)[1] = "none"
      BY <2>1, <2>2, <2>5 DEF Recorded
    <3> QED BY <2>1, <3>1 DEF Recordable, Swapped
  <2> QED BY <2>4, <2>5
<1> QED BY <1>1, <1>2

\* A product of the mixer's input, or its cast.
LEMMA StepMixerGroup ==
  ASSUME TypeInv, NEW x, x = <<log, chunk>>, NEW g \in BOOLEAN, NEW l \in 1..Len(Layers),
         NEW ps, ps = MixerProducts(l), NEW n, n = GroupLength(g, Len(ps)),
         NEW j \in 1..n, NEW i, i = 1 + j,
         Has(x, rows[hidden], "hidden", l - 1), GroupFacts(g, j, ps, "input", l, x, rows, hidden),
         Kept(KeptBy(g, l, i), x, states),
         NEW k, Run(k), hidden' = Swapped(k), IsCast(g, j) => k = Cast("scratch", l),
         ~IsCast(g, j) =>
           k = Product(ps[Done(g, j) + 1][1], l, ps[Done(g, j) + 1][2], ps[Done(g, j) + 1][1])
  PROVE  Moved(g, l, i, x, k)
<1> DEFINE p == Len(ps)
<1>1. /\ l \in Nat /\ n \in Nat /\ Grouped(g, l) = 1 + n /\ LayerLength(g, l) > 1 + n
      /\ MixerLength(l) \in Nat /\ MixerLength(l) >= 1
      /\ KeptBy(g, l, i) = l - 1 /\ KeptBy(g, l, i + 1) = l - 1
  <2>1. /\ l \in Nat /\ n \in Nat /\ Grouped(g, l) = 1 + n
        /\ GroupLength(g, 2) \in Nat /\ MixerLength(l) = (IF Full(l) THEN 5 ELSE 2)
        /\ MixedAt(g, l) = Grouped(g, l) + MixerLength(l) /\ FfnAt(g, l) = MixedAt(g, l) + 4
        /\ SwigluAt(g, l) = FfnAt(g, l) + GroupLength(g, 2) /\ LayerLength(g, l) = SwigluAt(g, l) + 4
        /\ MixedAt(g, l) \in Nat
    BY LayerPlaces
  <2>a. j \in 1..n /\ i = 1 + j
    OBVIOUS
  <2>2. i \in Nat /\ i + 1 \in Nat /\ i <= Grouped(g, l) + 1 /\ i + 1 <= Grouped(g, l) + 1
    BY ONLY <2>1, <2>a
  <2>3. KeptBy(g, l, i) = l - 1 /\ KeptBy(g, l, i + 1) = l - 1
    BY <2>2, LayerPlaces
  <2> QED BY ONLY <2>1, <2>3
<1>2. ProductsOf(ps, p, "input", l) /\ \A m \in 1..p : ps[m][1] # "output"
  <2>1. CASE Full(l)
    <3>1. ps = FullProducts /\ p = 3
      BY <2>1, ProductsTyped DEF MixerProducts
    <3> HIDE DEF p
    <3>2. ProductsOf(ps, p, "input", l)
      BY <1>1, <3>1, FullProductFacts
    <3>3. \A m \in 1..p : ps[m][1] # "output"
      BY <3>1 DEF FullProducts
    <3> QED BY <3>2, <3>3
  <2>2. CASE ~Full(l)
    <3>1. ps = LinearProducts /\ p = 4
      BY <2>2, ProductsTyped DEF MixerProducts
    <3> HIDE DEF p
    <3>2. ProductsOf(ps, p, "input", l)
      BY <1>1, <3>1, LinearProductFacts
    <3>3. \A m \in 1..p : ps[m][1] # "output"
      BY <3>1 DEF LinearProducts
    <3> QED BY <3>2, <3>3
  <2> QED BY <2>1, <2>2
<1>3. n = GroupLength(g, p) /\ p \in Nat /\ p >= 1
  BY <1>2 DEF ProductsOf
<1> HIDE DEF p
<1>4. /\ DOMAIN rows' = Buffer /\ states' = states /\ rows'[hidden] = rows[hidden]
      /\ j < n => GroupFacts(g, j + 1, ps, "input", l, x, rows', hidden)
      /\ \A m \in 1..Done(g, j + 1) : Has(x, rows'[ps[m][2]], ps[m][1], l)
      /\ j = n => \A m \in 1..p : Has(x, rows'[ps[m][2]], ps[m][1], l)
  <2>1. j \in 1..GroupLength(g, p)
    BY <1>3
  <2> QED BY <1>2, <1>3, <2>1, GroupStep
<1>5. ~IsCast(g, j) /\ ps[Done(g, j) + 1][1] = "linear_gate" => Has(x, rows'["qkv"], "qkv", l)
  <2> SUFFICES ASSUME ~IsCast(g, j), ps[Done(g, j) + 1][1] = "linear_gate"
               PROVE  Has(x, rows'["qkv"], "qkv", l)
    OBVIOUS
  <2>1. Done(g, j) + 1 \in 1..p /\ Done(g, j + 1) = Done(g, j) + 1 /\ Done(g, j) \in Nat
    BY <1>3, DoneFacts
  <2>2. ~Full(l)
    <3> SUFFICES ASSUME Full(l) PROVE FALSE
      OBVIOUS
    <3>1. ps = FullProducts /\ p = 3
      BY ProductsTyped DEF MixerProducts, p
    <3>2. \A m \in 1..3 : ps[m][1] # "linear_gate"
      BY <3>1 DEF FullProducts
    <3> QED BY <2>1, <3>1, <3>2
  <2>3. ps = LinearProducts
    BY <2>2 DEF MixerProducts
  <2>4. ps[1][1] = "qkv" /\ ps[1][2] = "qkv"
    BY <2>3 DEF LinearProducts
  <2>5. 1 \in 1..Done(g, j + 1)
    BY <2>1
  <2> QED BY <1>4, <2>4, <2>5
<1>6. Recordable(k, x) /\ hidden' = hidden
  <2>1. j \in 1..GroupLength(g, p)
    BY <1>3
  <2>2. Recordable(k, x) /\ Swapped(k) = hidden
    <3> DEFINE source == "input"
               first == ps[Done(g, j) + 1][1]
    <3>1. l \in Nat /\ ProductsOf(ps, p, source, l)
      BY <1>1, <1>2
    <3>2. /\ IsCast(g, j) => k = Cast("scratch", l)
          /\ ~IsCast(g, j) => k = Product(first, l, ps[Done(g, j) + 1][2], first)
      OBVIOUS
    <3>3. \A m \in 1..p : ps[m][1] # "output"
      BY <1>2
    <3>4. (first = "linear_gate" /\ ~IsCast(g, j)) => Has(x, rows'["qkv"], "qkv", l)
      BY <1>5
    <3> HIDE DEF source
    <3> QED BY ONLY <2>1, <3>1, <3>2, <3>3, <3>4, GroupRecorded, ZenonT(40)
  <2> QED BY <2>2
<1>7. FrontFacts(g, l, i + 1, x, rows', hidden')
  <2>1. Has(x, rows'[hidden'], "hidden", l - 1)
    BY <1>4, <1>6
  <2>2. CASE j < n
    <3>1. j + 1 \in 1..GroupLength(g, Len(MixerProducts(l))) /\ i + 1 = 1 + (j + 1)
      BY <1>1, <2>2
    <3>2. GroupFacts(g, j + 1, MixerProducts(l), "input", l, x, rows', hidden')
      BY <1>4, <1>6, <2>2
    <3> QED BY <2>1, <3>1, <3>2 DEF FrontFacts
  <2>3. CASE j = n
    <3>1. i + 1 = Grouped(g, l) + 1 /\ 1 \in 1..MixerLength(l)
      BY <1>1, <2>3
    <3>2. MixerFacts(l, 1, x, rows')
      <4>0. \A m \in 1..p : Has(x, rows'[ps[m][2]], ps[m][1], l)
        BY <1>4, <2>3
      <4>1. CASE Full(l)
        <5>1. ps = FullProducts /\ p = 3
          BY <4>1, ProductsTyped DEF MixerProducts, p
        <5>2. /\ ps[1][1] = "query_gate" /\ ps[2][1] = "key" /\ ps[3][1] = "value"
              /\ ps[1][2] = "query_gate" /\ ps[2][2] = "key" /\ ps[3][2] = "value"
          BY <5>1 DEF FullProducts
        <5>3. 1 \in 1..p /\ 2 \in 1..p /\ 3 \in 1..p
          BY <5>1
        <5> QED BY <4>0, <4>1, <5>2, <5>3 DEF MixerFacts, FullFacts
      <4>2. CASE ~Full(l)
        <5>1. ps = LinearProducts /\ p = 4
          BY <4>2, ProductsTyped DEF MixerProducts, p
        <5>2. /\ ps[1][1] = "qkv" /\ ps[2][1] = "beta" /\ ps[3][1] = "alpha" /\ ps[4][1] = "linear_gate"
              /\ ps[1][2] = "qkv" /\ ps[2][2] = "beta" /\ ps[3][2] = "alpha" /\ ps[4][2] = "gate"
          BY <5>1 DEF LinearProducts
        <5>3. 1 \in 1..p /\ 2 \in 1..p /\ 3 \in 1..p /\ 4 \in 1..p
          BY <5>1
        <5> QED BY <4>0, <4>2, <5>2, <5>3 DEF MixerFacts, LinearFacts
      <4> QED BY <4>1, <4>2
    <3> QED BY <2>1, <3>1, <3>2 DEF FrontFacts
  <2> QED BY <1>1, <2>2, <2>3
<1>8. i # LayerLength(g, l) /\ hidden \in {"hidden_a", "hidden_b"} /\ StatesTyped(states)
  BY <1>1 DEF TypeInv
<1> QED BY <1>1, <1>4, <1>6, <1>7, <1>8 DEF Moved

\* A kernel of full attention.
LEMMA StepFull ==
  ASSUME TypeInv, NEW x, x = <<log, chunk>>, NEW g \in BOOLEAN, NEW l \in 1..Len(Layers), Full(l),
         NEW j \in 1..5, NEW i, i = Grouped(g, l) + j,
         Has(x, rows[hidden], "hidden", l - 1), FullFacts(l, j, x, rows), Kept(KeptBy(g, l, i), x, states),
         NEW k, k = FullKernel(l, j), Run(k), hidden' = Swapped(k)
  PROVE  Moved(g, l, i, x, k)
<1> DEFINE a == Grouped(g, l)
           has(b, tensor) == Has(x, rows[b], tensor, l)
           has2(b, tensor) == Has(x, rows'[b], tensor, l)
<1>1. /\ l \in Nat /\ a \in Nat /\ LayerLength(g, l) > a + 5 /\ MixerLength(l) = 5 /\ MixedAt(g, l) = a + 5
      /\ \A m \in 1..4 : KeptBy(g, l, a + m) = l - 1
      /\ KeptBy(g, l, a + 5) = l /\ KeptBy(g, l, a + 5 + 1) = l
  <2>1. /\ l \in Nat /\ a \in Nat /\ MixerLength(l) = (IF Full(l) THEN 5 ELSE 2)
        /\ MixedAt(g, l) = a + MixerLength(l) /\ FfnAt(g, l) = MixedAt(g, l) + 4
        /\ GroupLength(g, 2) \in Nat
        /\ SwigluAt(g, l) = FfnAt(g, l) + GroupLength(g, 2) /\ LayerLength(g, l) = SwigluAt(g, l) + 4
        /\ \A m \in Nat : m > MixedAt(g, l) => KeptBy(g, l, m) = l
        /\ \A m \in 1..4 : KeptBy(g, l, a + m) = l - 1
        /\ KeptBy(g, l, a + 5) = l
    BY LayerPlaces
  <2> HIDE DEF a
  <2>2. MixedAt(g, l) = a + 5 /\ a + 5 + 1 \in Nat /\ a + 5 + 1 > a + 5 /\ LayerLength(g, l) > a + 5
    BY <2>1, SMTT(30)
  <2>3. KeptBy(g, l, a + 5 + 1) = l
    BY <2>1, <2>2
  <2> QED BY <2>1, <2>2, <2>3
<1>2. k.op \in {"split", "turn", "append", "attend"}
  BY DEF FullKernel, Kernel
<1>3. Recordable(k, x) /\ hidden' = hidden
  BY <1>2 DEF Recordable, Recorded, Swapped
<1>4. hidden \in {"hidden_a", "hidden_b"} /\ StatesTyped(states) /\ DOMAIN rows = Buffer
  BY DEF TypeInv
<1> HIDE DEF a
<1>5. i = a + j /\ i # LayerLength(g, l)
  BY <1>1, SMTT(30) DEF a
<1>6. {"query", "key", "value", "gate", "query_norm", "key_norm", "attention_out", "hidden_a", "hidden_b"} \subseteq Buffer
  BY DEF Buffer
<1> USE DEF has, has2
<1>7. ASSUME DOMAIN rows' = Buffer, StatesTyped(states'), rows'[hidden] = rows[hidden], j < 5,
             FullFacts(l, j + 1, x, rows'), Kept(KeptBy(g, l, a + (j + 1)), x, states')
      PROVE  Moved(g, l, i, x, k)
  <2>1. i + 1 = a + (j + 1) /\ j + 1 \in 1..MixerLength(l)
    BY <1>1, <1>5, <1>7, SMTT(30)
  <2>2. MixerFacts(l, j + 1, x, rows')
    BY <1>7 DEF MixerFacts
  <2>3. Has(x, rows'[hidden'], "hidden", l - 1)
    BY <1>3, <1>7
  <2>4. FrontFacts(g, l, i + 1, x, rows', hidden')
    BY <2>1, <2>2, <2>3 DEF FrontFacts, a
  <2> QED BY <1>3, <1>4, <1>5, <1>7, <2>1, <2>4 DEF Moved
<1>11. CASE j = 1
  <2>1. has("query_gate", "query_gate") /\ has("key", "key") /\ has("value", "value")
    BY <1>11 DEF FullFacts
  <2>2. /\ has2("query", "query") /\ has2("gate", "gate") /\ DOMAIN rows' = Buffer /\ states' = states
        /\ \A c \in Buffer \ {"query", "gate"} : rows'[c] = rows[c]
    BY <1>1, <1>11, <2>1, SplitEffect
  <2>3. has2("key", "key") /\ has2("value", "value") /\ rows'[hidden] = rows[hidden]
    BY <1>4, <1>6, <2>1, <2>2
  <2>4. FullFacts(l, j + 1, x, rows')
    BY <1>11, <2>2, <2>3 DEF FullFacts
  <2>5. KeptBy(g, l, i) = l - 1 /\ KeptBy(g, l, a + (j + 1)) = l - 1
    BY <1>1, <1>5, <1>11
  <2> QED BY <1>4, <1>7, <1>11, <2>2, <2>3, <2>4, <2>5
<1>12. CASE j = 2
  <2>1. has("query", "query") /\ has("gate", "gate") /\ has("key", "key") /\ has("value", "value")
    BY <1>12 DEF FullFacts
  <2>2. has2("query_norm", "query_norm") /\ Only("query_norm")
    BY <1>1, <1>12, <2>1, TurnEffect
  <2>3. /\ has2("gate", "gate") /\ has2("key", "key") /\ has2("value", "value")
        /\ rows'[hidden] = rows[hidden]
    BY <1>4, <1>6, <2>1, <2>2 DEF Only
  <2>4. FullFacts(l, j + 1, x, rows')
    BY <1>12, <2>2, <2>3 DEF FullFacts
  <2>5. KeptBy(g, l, i) = l - 1 /\ KeptBy(g, l, a + (j + 1)) = l - 1
    BY <1>1, <1>5, <1>12
  <2> QED BY <1>4, <1>7, <1>12, <2>2, <2>3, <2>4, <2>5 DEF Only
<1>13. CASE j = 3
  <2>1. has("query_norm", "query_norm") /\ has("gate", "gate") /\ has("key", "key") /\ has("value", "value")
    BY <1>13 DEF FullFacts
  <2>2. has2("key_norm", "key_norm") /\ Only("key_norm")
    BY <1>1, <1>13, <2>1, TurnEffect
  <2>3. /\ has2("gate", "gate") /\ has2("query_norm", "query_norm") /\ has2("value", "value")
        /\ rows'[hidden] = rows[hidden]
    BY <1>4, <1>6, <2>1, <2>2 DEF Only
  <2>4. FullFacts(l, j + 1, x, rows')
    BY <1>13, <2>2, <2>3 DEF FullFacts
  <2>5. KeptBy(g, l, i) = l - 1 /\ KeptBy(g, l, a + (j + 1)) = l - 1
    BY <1>1, <1>5, <1>13
  <2> QED BY <1>4, <1>7, <1>13, <2>2, <2>3, <2>4, <2>5 DEF Only
<1>14. CASE j = 4
  <2>1. /\ has("query_norm", "query_norm") /\ has("gate", "gate") /\ has("key_norm", "key_norm")
        /\ has("value", "value")
    BY <1>14 DEF FullFacts
  <2>5. KeptBy(g, l, i) = l - 1 /\ KeptBy(g, l, a + (j + 1)) = l
    BY <1>1, <1>5, <1>14
  <2>2. rows' = rows /\ StatesTyped(states') /\ Kept(l, x, states')
    <3>1. Run(FullKernel(l, 4)) /\ Kept(l - 1, x, states)
      BY <1>14, <2>5
    <3> QED BY <2>1, <3>1, AppendEffect
  <2>4. FullFacts(l, j + 1, x, rows')
    BY <1>14, <2>1, <2>2 DEF FullFacts
  <2> QED BY <1>4, <1>7, <1>14, <2>2, <2>4, <2>5
<1>15. CASE j = 5
  <2>1. has("query_norm", "query_norm") /\ has("gate", "gate")
    BY <1>15 DEF FullFacts
  <2>5. KeptBy(g, l, i) = l /\ KeptBy(g, l, i + 1) = l
    BY <1>1, <1>5, <1>15
  <2>2. has2("attention_out", "attended") /\ Only("attention_out")
    <3>1. Run(FullKernel(l, 5)) /\ Kept(l, x, states)
      BY <1>15, <2>5
    <3> QED BY <2>1, <3>1, AttendEffect
  <2>3. Has(x, rows'[hidden'], "hidden", l - 1)
    BY <1>3, <1>4, <1>6, <2>2 DEF Only
  <2>4. i + 1 = MixedAt(g, l) + 1 /\ Core(l) = "attended"
    BY <1>1, <1>5, <1>15 DEF Core
  <2>6. FrontFacts(g, l, i + 1, x, rows', hidden')
    BY <2>2, <2>3, <2>4 DEF FrontFacts
  <2> QED BY <1>3, <1>4, <1>5, <2>2, <2>5, <2>6 DEF Moved, Only
<1> QED BY <1>11, <1>12, <1>13, <1>14, <1>15

\* A kernel of a linear mixer.
LEMMA StepLinear ==
  ASSUME TypeInv, NEW x, x = <<log, chunk>>, NEW g \in BOOLEAN, NEW l \in 1..Len(Layers), ~Full(l),
         NEW j \in 1..2, NEW i, i = Grouped(g, l) + j,
         Has(x, rows[hidden], "hidden", l - 1), LinearFacts(l, j, x, rows), Kept(KeptBy(g, l, i), x, states),
         NEW k, k = LinearKernel(l, j), Run(k), hidden' = Swapped(k)
  PROVE  Moved(g, l, i, x, k)
<1> DEFINE a == Grouped(g, l)
<1>1. /\ l \in Nat /\ a \in Nat /\ LayerLength(g, l) > a + 2 /\ MixerLength(l) = 2 /\ MixedAt(g, l) = a + 2
      /\ \A m \in 1..2 : KeptBy(g, l, a + m) = l - 1
      /\ KeptBy(g, l, a + 2 + 1) = l
  <2>1. /\ l \in Nat /\ a \in Nat /\ MixerLength(l) = (IF Full(l) THEN 5 ELSE 2)
        /\ MixedAt(g, l) = a + MixerLength(l) /\ FfnAt(g, l) = MixedAt(g, l) + 4
        /\ GroupLength(g, 2) \in Nat
        /\ SwigluAt(g, l) = FfnAt(g, l) + GroupLength(g, 2) /\ LayerLength(g, l) = SwigluAt(g, l) + 4
        /\ \A m \in Nat : m > MixedAt(g, l) => KeptBy(g, l, m) = l
        /\ \A m \in 1..2 : KeptBy(g, l, a + m) = l - 1
    BY LayerPlaces
  <2> HIDE DEF a
  <2>2. MixedAt(g, l) = a + 2 /\ a + 2 + 1 \in Nat /\ a + 2 + 1 > a + 2 /\ LayerLength(g, l) > a + 2
    BY <2>1
  <2>3. KeptBy(g, l, a + 2 + 1) = l
    BY <2>1, <2>2
  <2> QED BY <2>1, <2>2, <2>3
<1>2. hidden' = hidden
  <2>1. k.op \in {"pack", "delta"}
    BY DEF LinearKernel, Kernel
  <2> QED BY <2>1 DEF Swapped
<1>4. hidden \in {"hidden_a", "hidden_b"} /\ StatesTyped(states) /\ DOMAIN rows = Buffer
  BY DEF TypeInv
<1> HIDE DEF a
<1>5. i = a + j /\ i # LayerLength(g, l)
  BY <1>1 DEF a
<1>6. {"pack", "attention_out", "hidden_a", "hidden_b"} \subseteq Buffer
  BY DEF Buffer
<1>11. CASE j = 1
  <2>1. Has(x, rows'["pack"], "pack", l) /\ Only("pack")
    BY <1>1, <1>11, PackEffect
  <2>2. Has(x, rows'[hidden'], "hidden", l - 1)
    BY <1>2, <1>4, <1>6, <2>1 DEF Only
  <2>3. i + 1 = a + 2 /\ 2 \in 1..MixerLength(l) /\ LinearFacts(l, 2, x, rows')
    BY <1>1, <1>5, <1>11, <2>1 DEF LinearFacts
  <2>4. FrontFacts(g, l, i + 1, x, rows', hidden')
    BY <2>2, <2>3 DEF FrontFacts, MixerFacts, a
  <2>5. KeptBy(g, l, i) = l - 1 /\ KeptBy(g, l, i + 1) = l - 1
    BY <1>1, <1>5, <1>11, <2>3
  <2>6. Recordable(k, x)
    <3>1. k.op = "pack"
      BY <1>11 DEF LinearKernel, Kernel
    <3> QED BY <3>1 DEF Recordable, Recorded
  <2> QED BY <1>2, <1>4, <1>5, <2>1, <2>4, <2>5, <2>6 DEF Moved, Only
<1>12. CASE j = 2
  <2>0. KeptBy(g, l, i) = l - 1 /\ KeptBy(g, l, i + 1) = l
    BY <1>1, <1>5, <1>12
  <2>1. /\ Has(x, rows'["attention_out"], "read", l)
        /\ DOMAIN rows' = Buffer /\ \A c \in Buffer \ {"attention_out"} : rows'[c] = rows[c]
        /\ StatesTyped(states') /\ Kept(l, x, states')
    <3>1. Run(LinearKernel(l, 2)) /\ Kept(l - 1, x, states) /\ Has(x, rows["pack"], "pack", l)
      BY <1>12, <2>0 DEF LinearFacts
    <3> QED BY <3>1, DeltaEffect
  <2>2. Has(x, rows'[hidden'], "hidden", l - 1)
    BY <1>2, <1>4, <1>6, <2>1
  <2>3. i + 1 = MixedAt(g, l) + 1 /\ Core(l) = "read"
    BY <1>1, <1>5, <1>12 DEF Core
  <2>4. FrontFacts(g, l, i + 1, x, rows', hidden')
    BY <2>1, <2>2, <2>3 DEF FrontFacts
  <2>6. Recordable(k, x)
    <3>1. k.op = "delta" /\ k.layer = l
      BY <1>12 DEF LinearKernel, Kernel
    <3>2. Recorded(k)[1] = "final_output" /\ Recorded(k)[2] = "attention_out"
      BY <3>1 DEF Recorded
    <3> QED BY <2>1, <3>1, <3>2 DEF Recordable, After, StageOf
  <2> QED BY <1>2, <1>4, <1>5, <2>0, <2>1, <2>4, <2>6 DEF Moved
<1> QED BY <1>11, <1>12

\* Between the mixer and the residual behind it.
LEMMA StepOutput ==
  ASSUME TypeInv, NEW x, x = <<log, chunk>>, NEW g \in BOOLEAN, NEW l \in 1..Len(Layers),
         NEW j \in 1..3, NEW i, i = MixedAt(g, l) + j,
         Has(x, rows[hidden], "hidden", l - 1),
         j = 1 => Has(x, rows["attention_out"], Core(l), l),
         j = 2 => HasCast(x, rows["matmul_input"], Core(l), l),
         j = 3 => Has(x, rows["projected"], "mixed", l),
         Kept(KeptBy(g, l, i), x, states), NEW k,
         j = 1 => k = Cast("attention_out", l),
         j = 2 => k = Product("output", l, "projected", "mixed"),
         j = 3 => k = Add(l, "mixed_hidden"),
         Run(k), hidden' = Swapped(k)
  PROVE  Moved(g, l, i, x, k)
<1> DEFINE m == MixedAt(g, l)
<1>1. /\ l \in Nat /\ m \in Nat /\ LayerLength(g, l) > m + 4
      /\ \A n \in Nat : n > m => KeptBy(g, l, n) = l
  <2>1. /\ l \in Nat /\ m \in Nat /\ FfnAt(g, l) = m + 4 /\ GroupLength(g, 2) \in Nat
        /\ SwigluAt(g, l) = FfnAt(g, l) + GroupLength(g, 2) /\ LayerLength(g, l) = SwigluAt(g, l) + 4
        /\ \A n \in Nat : n > m => KeptBy(g, l, n) = l
    BY LayerPlaces
  <2> HIDE DEF m
  <2>2. LayerLength(g, l) > m + 4
    BY <2>1
  <2> QED BY <2>1, <2>2
<1> HIDE DEF m
<1>2. i = m + j /\ i # LayerLength(g, l) /\ KeptBy(g, l, i) = l /\ KeptBy(g, l, i + 1) = l
  <2>1. i = m + j
    BY DEF m
  <2>2. i \in Nat /\ i + 1 \in Nat /\ i > m /\ i + 1 > m /\ i # LayerLength(g, l)
    BY <1>1, <2>1
  <2> QED BY <1>1, <2>1, <2>2
<1>3. hidden \in {"hidden_a", "hidden_b"} /\ StatesTyped(states) /\ DOMAIN rows = Buffer
  BY DEF TypeInv
<1>4. {"matmul_input", "projected", "attention_out", "hidden_a", "hidden_b"} \subseteq Buffer
  BY DEF Buffer
<1>11. CASE j = 1
  <2>1. HasCast(x, rows'["matmul_input"], Core(l), l) /\ Only("matmul_input")
    <3>1. Run(Cast("attention_out", l)) /\ Has(x, rows[Place("attention_out")], Core(l), l)
      BY <1>11 DEF Place
    <3> QED BY <3>1, CastEffect
  <2>2. hidden' = hidden /\ Recordable(k, x)
    <3>1. k.op = "cast"
      BY <1>11 DEF Cast, Kernel
    <3> QED BY <3>1 DEF Swapped, Recordable, Recorded
  <2>3. Has(x, rows'[hidden'], "hidden", l - 1)
    BY <1>3, <1>4, <2>1, <2>2 DEF Only
  <2>4. i + 1 = MixedAt(g, l) + 2
    BY <1>1, <1>2, <1>11 DEF m
  <2>5. FrontFacts(g, l, i + 1, x, rows', hidden')
    BY <2>1, <2>3, <2>4 DEF FrontFacts
  <2> QED BY <1>2, <1>3, <2>1, <2>2, <2>5 DEF Moved, Only
<1>12. CASE j = 2
  <2>1. Has(x, rows'["projected"], "mixed", l) /\ Only("projected")
    <3> DEFINE source == Core(l)
    <3>1. /\ Run(Product("output", l, "projected", "mixed")) /\ HasCast(x, rows["matmul_input"], source, l)
          /\ \A p : Made("mixed", l, p) = <<"matmul", "output", l, <<source, l, p>>>>
      BY <1>1, <1>12, MadeIsMixed
    <3> HIDE DEF source
    <3> QED BY <1>4, <3>1, ProductEffect
  <2>2. hidden' = hidden
    <3>1. k.op = "matmul"
      BY <1>12 DEF Product, Kernel
    <3> QED BY <3>1 DEF Swapped
  <2>3. Has(x, rows'[hidden'], "hidden", l - 1)
    BY <1>3, <1>4, <2>1, <2>2 DEF Only
  <2>4. i + 1 = MixedAt(g, l) + 3
    BY <1>1, <1>2, <1>12 DEF m
  <2>5. FrontFacts(g, l, i + 1, x, rows', hidden')
    BY <2>1, <2>3, <2>4 DEF FrontFacts
  <2>6. Recordable(k, x)
    <3>1. k.op = "matmul" /\ k.weight = "output" /\ k.layer = l
      BY <1>12 DEF Product, Kernel
    <3>2. Recorded(k)[1] \in {"attn_out", "linear_attn_out"} /\ Recorded(k)[2] = "projected"
      BY <3>1 DEF Recorded
    <3>3. After("projected") = "projected"
      BY DEF After
    <3>4. StageOf(Recorded(k)[1]) = "mixed"
      BY <3>2 DEF StageOf
    <3> QED BY <2>1, <3>1, <3>2, <3>3, <3>4 DEF Recordable
  <2> QED BY <1>2, <1>3, <2>1, <2>2, <2>5, <2>6 DEF Moved, Only
<1>13. CASE j = 3
  <2>1. Has(x, rows'[Other(hidden)], "mixed_hidden", l) /\ Only(Other(hidden))
    <3> DEFINE source == "hidden"
               part == "mixed"
               q == l - 1
    <3>1. /\ Run(Add(l, "mixed_hidden")) /\ Has(x, rows[hidden], source, q) /\ Has(x, rows["projected"], part, l)
          /\ \A p : Made("mixed_hidden", l, p) = <<"add", <<source, q, p>>, <<part, l, p>>>>
      BY <1>1, <1>13, MadeIsMixed
    <3> HIDE DEF source, part, q
    <3> QED BY <3>1, AddEffect
  <2>2. hidden' = Other(hidden) /\ k.op = "add" /\ k.stage[1] = "mixed_hidden" /\ k.layer = l
    BY <1>13 DEF Add, Kernel, Swapped
  <2>4. i + 1 = MixedAt(g, l) + 4
    BY <1>1, <1>2, <1>13 DEF m
  <2>5. BackFacts(g, l, i + 1, x, rows', hidden')
    BY <2>1, <2>2, <2>4 DEF BackFacts
  <2>6. Recordable(k, x)
    <3>1. Recorded(k)[1] = "attn_residual" /\ Recorded(k)[2] = "hidden"
      BY <2>2 DEF Recorded
    <3> QED BY <2>1, <2>2, <3>1 DEF Recordable, After, StageOf
  <2> QED BY <1>2, <1>3, <2>1, <2>2, <2>5, <2>6, Places DEF Moved, Only
<1> QED BY <1>11, <1>12, <1>13

\* The norm before the feed-forward part.
LEMMA StepPostNorm ==
  ASSUME TypeInv, NEW x, x = <<log, chunk>>, NEW g \in BOOLEAN, NEW l \in 1..Len(Layers),
         NEW i, i = MixedAt(g, l) + 4,
         Has(x, rows[hidden], "mixed_hidden", l), Kept(KeptBy(g, l, i), x, states),
         NEW k, k = Norm("post_norm", l, "post"), Run(k), hidden' = Swapped(k)
  PROVE  Moved(g, l, i, x, k)
<1>1. /\ l \in Nat /\ GroupLength(g, 2) \in Nat /\ GroupLength(g, 2) >= 1
      /\ i \in Nat /\ FfnAt(g, l) = i /\ i # LayerLength(g, l)
      /\ KeptBy(g, l, i) = l /\ KeptBy(g, l, i + 1) = l
  <2> DEFINE m == MixedAt(g, l)
  <2>1. /\ l \in Nat /\ m \in Nat /\ FfnAt(g, l) = m + 4 /\ GroupLength(g, 2) \in Nat /\ GroupLength(g, 2) >= 1
        /\ SwigluAt(g, l) = FfnAt(g, l) + GroupLength(g, 2) /\ LayerLength(g, l) = SwigluAt(g, l) + 4
        /\ \A n \in Nat : n > m => KeptBy(g, l, n) = l
    BY LayerPlaces
  <2>2. i = m + 4
    OBVIOUS
  <2> HIDE DEF m
  <2>3. i \in Nat /\ i + 1 \in Nat /\ i > m /\ i + 1 > m /\ i # LayerLength(g, l)
    BY ONLY <2>1, <2>2
  <2> QED BY ONLY <2>1, <2>2, <2>3
<1>2. k.op = "norm" /\ k.weight = "post_norm" /\ k.layer = l
  BY DEF Norm, Kernel
<1>3. Has(x, rows'[Other(hidden)], "post", l) /\ Only(Other(hidden))
  <2> DEFINE source == "mixed_hidden"
  <2>1. /\ Has(x, rows[hidden], source, l) /\ Run(Norm("post_norm", l, "post"))
        /\ \A p : Made("post", l, p) = <<"norm", "post_norm", l, <<source, l, p>>>>
    BY <1>1, MadeIsLater
  <2> HIDE DEF source
  <2> QED BY <2>1, NormEffect
<1>4. hidden' = hidden /\ rows'[hidden] = rows[hidden] /\ hidden \in {"hidden_a", "hidden_b"}
  BY <1>2, <1>3, Places DEF Swapped, Only, TypeInv
<1>5. GroupFacts(g, 1, FfnProducts, "post", l, x, rows', hidden')
  <2>1. IsCast(g, 1) /\ Done(g, 1) = 0
    BY DEF IsCast, Done
  <2> QED BY <1>3, <1>4, <2>1 DEF GroupFacts
<1>6. BackFacts(g, l, i + 1, x, rows', hidden')
  <2>1. 1 \in 1..GroupLength(g, 2) /\ i + 1 = FfnAt(g, l) + 1
    BY <1>1
  <2> QED BY <1>4, <1>5, <2>1 DEF BackFacts
<1>7. Recordable(k, x)
  <2>1. Recorded(k)[1] = "attn_post_norm" /\ Recorded(k)[2] = "scratch"
    BY <1>2 DEF Recorded
  <2> QED BY <1>2, <1>3, <1>4, <2>1 DEF Recordable, After, StageOf
<1>8. states' = states /\ StatesTyped(states) /\ DOMAIN rows' = Buffer
  BY <1>3 DEF Only, TypeInv
<1> QED BY <1>1, <1>4, <1>6, <1>7, <1>8 DEF Moved

\* A product of the feed-forward part, or the cast of their input.
LEMMA StepFfnGroup ==
  ASSUME TypeInv, NEW x, x = <<log, chunk>>, NEW g \in BOOLEAN, NEW l \in 1..Len(Layers),
         NEW ps, ps = FfnProducts, NEW p, p = 2, NEW n, n = GroupLength(g, p),
         NEW j \in 1..n, NEW i, i = FfnAt(g, l) + j,
         Has(x, rows[hidden], "mixed_hidden", l), GroupFacts(g, j, ps, "post", l, x, rows, hidden),
         Kept(KeptBy(g, l, i), x, states),
         NEW k, Run(k), hidden' = Swapped(k), IsCast(g, j) => k = Cast("scratch", l),
         ~IsCast(g, j) =>
           k = Product(ps[Done(g, j) + 1][1], l, ps[Done(g, j) + 1][2], ps[Done(g, j) + 1][1])
  PROVE  Moved(g, l, i, x, k)
<1>1. /\ l \in Nat /\ n \in Nat /\ FfnAt(g, l) \in Nat /\ SwigluAt(g, l) = FfnAt(g, l) + n
      /\ LayerLength(g, l) > FfnAt(g, l) + n
      /\ KeptBy(g, l, i) = l /\ KeptBy(g, l, i + 1) = l
  <2> DEFINE m == MixedAt(g, l)
             f == FfnAt(g, l)
  <2>1. /\ l \in Nat /\ m \in Nat /\ f = m + 4 /\ n \in Nat
        /\ SwigluAt(g, l) = f + n /\ LayerLength(g, l) = SwigluAt(g, l) + 4
        /\ \A q \in Nat : q > m => KeptBy(g, l, q) = l
    BY LayerPlaces
  <2>2. i = f + j /\ j \in 1..n
    OBVIOUS
  <2> HIDE DEF m, f
  <2>3. i \in Nat /\ i + 1 \in Nat /\ i > m /\ i + 1 > m /\ f \in Nat /\ LayerLength(g, l) > f + n
    BY ONLY <2>1, <2>2
  <2>4. KeptBy(g, l, i) = l /\ KeptBy(g, l, i + 1) = l
    BY ONLY <2>1, <2>3
  <2> QED BY ONLY <2>1, <2>3, <2>4 DEF f
<1> DEFINE source == "post"
<1>2. ProductsOf(ps, p, source, l) /\ \A m \in 1..p : ps[m][1] # "output" /\ ps[m][1] # "linear_gate"
  <2>1. ProductsOf(ps, p, source, l)
    BY <1>1, FfnProductFacts
  <2>2. \A m \in 1..p : ps[m][1] # "output" /\ ps[m][1] # "linear_gate"
    BY DEF FfnProducts
  <2> QED BY <2>1, <2>2
<1>3. n = GroupLength(g, p) /\ p \in Nat /\ p >= 1 /\ j \in 1..GroupLength(g, p)
  OBVIOUS
<1>a. GroupFacts(g, j, ps, source, l, x, rows, hidden)
  OBVIOUS
<1> HIDE DEF source
<1>4. /\ DOMAIN rows' = Buffer /\ states' = states /\ rows'[hidden] = rows[hidden]
      /\ j < n => GroupFacts(g, j + 1, ps, source, l, x, rows', hidden)
      /\ j = n => \A m \in 1..p : Has(x, rows'[ps[m][2]], ps[m][1], l)
  BY <1>2, <1>3, <1>a, GroupStep
<1>6. Recordable(k, x) /\ hidden' = hidden
  <2> DEFINE first == ps[Done(g, j) + 1][1]
  <2>1. /\ IsCast(g, j) => k = Cast("scratch", l)
        /\ ~IsCast(g, j) => k = Product(first, l, ps[Done(g, j) + 1][2], first)
    OBVIOUS
  <2>2. (first = "linear_gate" /\ ~IsCast(g, j)) => Has(x, rows'["qkv"], "qkv", l)
    <3>1. ~IsCast(g, j) => Done(g, j) + 1 \in 1..p
      BY <1>3, DoneFacts
    <3> QED BY <1>2, <3>1
  <2>3. \A m \in 1..p : ps[m][1] # "output"
    BY <1>2
  <2>4. l \in Nat /\ ProductsOf(ps, p, source, l) /\ j \in 1..GroupLength(g, p)
    BY <1>1, <1>2, <1>3
  <2>5. Recordable(k, x) /\ Swapped(k) = hidden
    BY ONLY <2>1, <2>2, <2>3, <2>4, GroupRecorded, ZenonT(40)
  <2> QED BY <2>5
<1>7. BackFacts(g, l, i + 1, x, rows', hidden')
  <2>1. Has(x, rows'[hidden'], "mixed_hidden", l)
    BY <1>4, <1>6
  <2>2. CASE j < n
    <3>1. j + 1 \in 1..GroupLength(g, 2) /\ i + 1 = FfnAt(g, l) + (j + 1)
      BY <1>1, <2>2
    <3>2. GroupFacts(g, j + 1, FfnProducts, "post", l, x, rows', hidden')
      BY <1>4, <1>6, <2>2 DEF source
    <3> QED BY <2>1, <3>1, <3>2 DEF BackFacts
  <2>3. CASE j = n
    <3>1. i + 1 = SwigluAt(g, l) + 1
      BY <1>1, <2>3
    <3>2. Has(x, rows'["intermediate_a"], "ffn_gate", l) /\ Has(x, rows'["intermediate_b"], "ffn_up", l)
      <4>1. \A m \in 1..p : Has(x, rows'[ps[m][2]], ps[m][1], l)
        BY <1>4, <2>3
      <4>2. ps[1][1] = "ffn_gate" /\ ps[2][1] = "ffn_up" /\ ps[1][2] = "intermediate_a" /\ ps[2][2] = "intermediate_b"
        BY DEF FfnProducts
      <4>3. 1 \in 1..p /\ 2 \in 1..p
        OBVIOUS
      <4> QED BY <4>1, <4>2, <4>3
    <3> QED BY <2>1, <3>1, <3>2 DEF BackFacts
  <2> QED BY <1>1, <2>2, <2>3
<1>8. i # LayerLength(g, l) /\ hidden \in {"hidden_a", "hidden_b"} /\ StatesTyped(states)
  BY <1>1 DEF TypeInv
<1> QED BY <1>1, <1>4, <1>6, <1>7, <1>8 DEF Moved

\* The end of a layer.
LEMMA StepDown ==
  ASSUME TypeInv, NEW x, x = <<log, chunk>>, NEW g \in BOOLEAN, NEW l \in 1..Len(Layers),
         NEW j \in 1..4, NEW i, i = SwigluAt(g, l) + j,
         Has(x, rows[hidden], "mixed_hidden", l),
         j = 1 => Has(x, rows["intermediate_a"], "ffn_gate", l) /\ Has(x, rows["intermediate_b"], "ffn_up", l),
         j = 2 => Has(x, rows["intermediate_a"], "swiglu", l),
         j = 3 => HasCast(x, rows["matmul_input"], "swiglu", l),
         j = 4 => Has(x, rows["projected"], "down", l),
         Kept(KeptBy(g, l, i), x, states), NEW k,
         j = 1 => k = Swiglu(l),
         j = 2 => k = Cast("intermediate_a", l),
         j = 3 => k = Product("ffn_down", l, "projected", "down"),
         j = 4 => k = Add(l, "hidden"),
         Run(k), hidden' = Swapped(k)
  PROVE  Moved(g, l, i, x, k)
<1> DEFINE m == SwigluAt(g, l)
<1>1. /\ l \in Nat /\ l > 0 /\ m \in Nat /\ LayerLength(g, l) = m + 4
      /\ \A n \in Nat : n > m => KeptBy(g, l, n) = l
  <2> DEFINE a == MixedAt(g, l)
  <2>1. /\ l \in Nat /\ l > 0 /\ a \in Nat /\ FfnAt(g, l) = a + 4 /\ GroupLength(g, 2) \in Nat
        /\ m = FfnAt(g, l) + GroupLength(g, 2) /\ LayerLength(g, l) = m + 4
        /\ \A n \in Nat : n > a => KeptBy(g, l, n) = l
    BY LayerPlaces
  <2> HIDE DEF m, a
  <2>2. m \in Nat /\ \A n \in Nat : n > m => n > a
    BY <2>1
  <2> QED BY <2>1, <2>2
<1> HIDE DEF m
<1>2. i = m + j /\ (i = LayerLength(g, l) <=> j = 4) /\ KeptBy(g, l, i) = l /\ KeptBy(g, l, i + 1) = l
  <2>1. i = m + j
    BY DEF m
  <2>2. i \in Nat /\ i + 1 \in Nat /\ i > m /\ i + 1 > m /\ (i = LayerLength(g, l) <=> j = 4)
    BY <1>1, <2>1
  <2> QED BY <1>1, <2>1, <2>2
<1>3. hidden \in {"hidden_a", "hidden_b"} /\ StatesTyped(states) /\ DOMAIN rows = Buffer
  BY DEF TypeInv
<1>4. {"matmul_input", "projected", "intermediate_a", "intermediate_b", "hidden_a", "hidden_b"} \subseteq Buffer
  BY DEF Buffer
<1>11. CASE j = 1
  <2>1. Has(x, rows'["intermediate_a"], "swiglu", l) /\ Only("intermediate_a")
    BY <1>1, <1>11, SwigluEffect
  <2>2. hidden' = hidden /\ k.op = "swiglu" /\ k.layer = l
    BY <1>11 DEF Swiglu, Kernel, Swapped
  <2>3. Has(x, rows'[hidden'], "mixed_hidden", l)
    BY <1>3, <1>4, <2>1, <2>2 DEF Only
  <2>4. i + 1 = SwigluAt(g, l) + 2
    BY <1>1, <1>2, <1>11 DEF m
  <2>5. BackFacts(g, l, i + 1, x, rows', hidden')
    BY <2>1, <2>3, <2>4 DEF BackFacts
  <2>6. Recordable(k, x)
    <3>1. Recorded(k)[1] = "ffn_swiglu" /\ Recorded(k)[2] = "intermediate_a"
      BY <2>2 DEF Recorded
    <3> QED BY <2>1, <2>2, <3>1 DEF Recordable, After, StageOf
  <2> QED BY <1>2, <1>3, <1>11, <2>1, <2>2, <2>5, <2>6 DEF Moved, Only
<1>12. CASE j = 2
  <2>1. HasCast(x, rows'["matmul_input"], "swiglu", l) /\ Only("matmul_input")
    <3> DEFINE source == "swiglu"
    <3>1. Run(Cast("intermediate_a", l)) /\ Has(x, rows[Place("intermediate_a")], source, l)
      BY <1>12 DEF Place
    <3> HIDE DEF source
    <3>2. HasCast(x, rows'["matmul_input"], source, l) /\ Only("matmul_input")
      BY <3>1, CastEffect
    <3> QED BY <3>2 DEF source
  <2>2. hidden' = hidden /\ Recordable(k, x)
    <3>1. k.op = "cast"
      BY <1>12 DEF Cast, Kernel
    <3> QED BY <3>1 DEF Swapped, Recordable, Recorded
  <2>3. Has(x, rows'[hidden'], "mixed_hidden", l)
    BY <1>3, <1>4, <2>1, <2>2 DEF Only
  <2>4. i + 1 = SwigluAt(g, l) + 3
    BY <1>1, <1>2, <1>12 DEF m
  <2>5. BackFacts(g, l, i + 1, x, rows', hidden')
    BY <2>1, <2>3, <2>4 DEF BackFacts
  <2> QED BY <1>2, <1>3, <1>12, <2>1, <2>2, <2>5 DEF Moved, Only
<1>13. CASE j = 3
  <2>1. Has(x, rows'["projected"], "down", l) /\ Only("projected")
    <3> DEFINE source == "swiglu"
    <3>1. /\ Run(Product("ffn_down", l, "projected", "down")) /\ HasCast(x, rows["matmul_input"], source, l)
          /\ \A p : Made("down", l, p) = <<"matmul", "ffn_down", l, <<source, l, p>>>>
      BY <1>1, <1>13, MadeIsLater
    <3> HIDE DEF source
    <3> QED BY <1>4, <3>1, ProductEffect
  <2>2. hidden' = hidden /\ Recordable(k, x)
    <3>1. k.op = "matmul" /\ k.weight = "ffn_down"
      BY <1>13 DEF Product, Kernel
    <3> QED BY <3>1 DEF Swapped, Recordable, Recorded
  <2>3. Has(x, rows'[hidden'], "mixed_hidden", l)
    BY <1>3, <1>4, <2>1, <2>2 DEF Only
  <2>4. i + 1 = SwigluAt(g, l) + 4
    BY <1>1, <1>2, <1>13 DEF m
  <2>5. BackFacts(g, l, i + 1, x, rows', hidden')
    BY <2>1, <2>3, <2>4 DEF BackFacts
  <2> QED BY <1>2, <1>3, <1>13, <2>1, <2>2, <2>5 DEF Moved, Only
<1>14. CASE j = 4
  <2>1. Has(x, rows'[Other(hidden)], "hidden", l) /\ Only(Other(hidden))
    <3> DEFINE source == "mixed_hidden"
               part == "down"
    <3>1. /\ Run(Add(l, "hidden")) /\ Has(x, rows[hidden], source, l) /\ Has(x, rows["projected"], part, l)
          /\ \A p : Made("hidden", l, p) = <<"add", <<source, l, p>>, <<part, l, p>>>>
      BY <1>1, <1>14, MadeIs, ZenonT(40)
    <3> HIDE DEF source, part
    <3> QED BY <3>1, AddEffect
  <2>2. hidden' = Other(hidden) /\ k.op = "add" /\ k.stage[1] = "hidden" /\ k.layer = l
    BY <1>14 DEF Add, Kernel, Swapped
  <2>6. Recordable(k, x)
    <3>1. Recorded(k)[1] = "l_out" /\ Recorded(k)[2] = "hidden"
      BY <2>2 DEF Recorded
    <3> QED BY <2>1, <2>2, <3>1 DEF Recordable, After, StageOf
  <2> QED BY <1>2, <1>3, <1>14, <2>1, <2>2, <2>6, Places DEF Moved, Only
<1> QED BY <1>11, <1>12, <1>13, <1>14

\* Pairs of a stage and a buffer.
Pairs(ps, p) == ps \in Seq(Seq(Name)) /\ p = Len(ps) /\ \A m \in 1..p : Len(ps[m]) = 2

\* A kernel of a group, as its position says.
LEMMA GroupKernelIs ==
  ASSUME NEW g \in BOOLEAN, NEW l \in Nat, NEW ps, NEW p, Pairs(ps, p),
         NEW j \in 1..GroupLength(g, p), NEW k, k = Group(g, "scratch", l, ps)[j]
  PROVE  /\ IsCast(g, j) => k = Cast("scratch", l)
         /\ ~IsCast(g, j) =>
              k = Product(ps[Done(g, j) + 1][1], l, ps[Done(g, j) + 1][2], ps[Done(g, j) + 1][1])
<1> DEFINE source == "scratch"
<1>1. source \in Name
  BY DEF Name, source
<1>2. k = Group(g, source, l, ps)[j] /\ j \in 1..GroupLength(g, Len(ps))
  BY DEF Pairs
<1> HIDE DEF source
<1>3. ps \in Seq(Seq(Name)) /\ \A m \in 1..Len(ps) : Len(ps[m]) = 2
  BY DEF Pairs
<1>4. /\ IsCast(g, j) => k = Cast(source, l)
      /\ ~IsCast(g, j) =>
           k = Product(ps[Done(g, j) + 1][1], l, ps[Done(g, j) + 1][2], ps[Done(g, j) + 1][1])
  BY <1>1, <1>2, <1>3, GroupKernels
<1> QED BY <1>4 DEF source

\* A kernel up to the residual after the mixer, at its place.
LEMMA FrontStep ==
  ASSUME TypeInv, NEW x, x = <<log, chunk>>, NEW g \in BOOLEAN, NEW l \in 1..Len(Layers),
         NEW i, FrontFacts(g, l, i, x, rows, hidden), Kept(KeptBy(g, l, i), x, states),
         NEW k, k = Layer(g, l)[i], Run(k), hidden' = Swapped(k)
  PROVE  Moved(g, l, i, x, k)
<1> DEFINE ps == MixerProducts(l)
           n == GroupLength(g, Len(ps))
<1>1. Has(x, rows[hidden], "hidden", l - 1) /\ l \in Nat
  BY LayersCount DEF FrontFacts
<1>2. CASE i = 1
  <2>1. k = Norm("input_norm", l, "input")
    BY <1>2, LayerKernels
  <2> QED BY <1>1, <1>2, <2>1, StepInputNorm
<1>3. CASE \E j \in 1..n : i = 1 + j /\ GroupFacts(g, j, ps, "input", l, x, rows, hidden)
  <2>1. PICK j \in 1..n : i = 1 + j /\ GroupFacts(g, j, ps, "input", l, x, rows, hidden)
    BY <1>3
  <2>2. k = Group(g, "scratch", l, ps)[j]
    BY <2>1, LayerKernels
  <2>3. ps \in Seq(Seq(Name)) /\ \A m \in 1..Len(ps) : Len(ps[m]) = 2
    BY ProductsTyped DEF MixerProducts
  <2> HIDE DEF ps
  <2>4. /\ IsCast(g, j) => k = Cast("scratch", l)
        /\ ~IsCast(g, j) =>
             k = Product(ps[Done(g, j) + 1][1], l, ps[Done(g, j) + 1][2], ps[Done(g, j) + 1][1])
    <3>1. \E p : Pairs(ps, p) /\ j \in 1..GroupLength(g, p)
      BY <2>3 DEF Pairs
    <3>2. PICK p : Pairs(ps, p) /\ j \in 1..GroupLength(g, p)
      BY <3>1
    <3>3. g \in BOOLEAN /\ l \in Nat
      BY <1>1
    <3> HIDE DEF n
    <3>4. ASSUME NEW q PROVE q = Group(g, "scratch", l, ps)[j] =>
            /\ IsCast(g, j) => q = Cast("scratch", l)
            /\ ~IsCast(g, j) =>
                 q = Product(ps[Done(g, j) + 1][1], l, ps[Done(g, j) + 1][2], ps[Done(g, j) + 1][1])
      BY ONLY <3>2, <3>3, GroupKernelIs
    <3> QED BY ONLY <2>2, <3>4
  <2>5. ps = MixerProducts(l) /\ n = GroupLength(g, Len(ps))
    BY DEF ps
  <2> HIDE DEF n
  <2> QED BY <1>1, <2>1, <2>4, <2>5, StepMixerGroup
<1>4. CASE \E j \in 1..MixerLength(l) : i = Grouped(g, l) + j /\ MixerFacts(l, j, x, rows)
  <2>1. PICK j \in 1..MixerLength(l) : i = Grouped(g, l) + j /\ MixerFacts(l, j, x, rows)
    BY <1>4
  <2>2. k = MixerKernel(l, j)
    BY <2>1, LayerKernels
  <2>3. CASE Full(l)
    <3>1. j \in 1..5 /\ FullFacts(l, j, x, rows) /\ k = FullKernel(l, j)
      BY <2>1, <2>2, <2>3 DEF MixerLength, MixerFacts, MixerKernel
    <3> QED BY <1>1, <2>1, <2>3, <3>1, StepFull
  <2>4. CASE ~Full(l)
    <3>1. j \in 1..2 /\ LinearFacts(l, j, x, rows) /\ k = LinearKernel(l, j)
      BY <2>1, <2>2, <2>4 DEF MixerLength, MixerFacts, MixerKernel
    <3> QED BY <1>1, <2>1, <2>4, <3>1, StepLinear
  <2> QED BY <2>3, <2>4
<1>5. CASE \/ i = MixedAt(g, l) + 1 /\ Has(x, rows["attention_out"], Core(l), l)
           \/ i = MixedAt(g, l) + 2 /\ HasCast(x, rows["matmul_input"], Core(l), l)
           \/ i = MixedAt(g, l) + 3 /\ Has(x, rows["projected"], "mixed", l)
  <2>1. /\ Layer(g, l)[MixedAt(g, l) + 1] = Cast("attention_out", l)
        /\ Layer(g, l)[MixedAt(g, l) + 2] = Product("output", l, "projected", "mixed")
        /\ Layer(g, l)[MixedAt(g, l) + 3] = Add(l, "mixed_hidden")
    BY LayerKernels
  <2>2. PICK j \in 1..3 :
          /\ i = MixedAt(g, l) + j
          /\ j = 1 => Has(x, rows["attention_out"], Core(l), l) /\ k = Cast("attention_out", l)
          /\ j = 2 => HasCast(x, rows["matmul_input"], Core(l), l) /\ k = Product("output", l, "projected", "mixed")
          /\ j = 3 => Has(x, rows["projected"], "mixed", l) /\ k = Add(l, "mixed_hidden")
    BY <1>5, <2>1
  <2> QED BY <1>1, <2>2, StepOutput
<1> QED BY <1>2, <1>3, <1>4, <1>5 DEF FrontFacts

\* A kernel after it.
LEMMA BackStep ==
  ASSUME TypeInv, NEW x, x = <<log, chunk>>, NEW g \in BOOLEAN, NEW l \in 1..Len(Layers),
         NEW i, BackFacts(g, l, i, x, rows, hidden), Kept(KeptBy(g, l, i), x, states),
         NEW k, k = Layer(g, l)[i], Run(k), hidden' = Swapped(k)
  PROVE  Moved(g, l, i, x, k)
<1>1. Has(x, rows[hidden], "mixed_hidden", l) /\ l \in Nat
  BY LayersCount DEF BackFacts
<1>2. CASE i = MixedAt(g, l) + 4
  <2>1. k = Norm("post_norm", l, "post")
    BY <1>2, LayerKernels
  <2> QED BY <1>1, <1>2, <2>1, StepPostNorm
<1>3. CASE \E j \in 1..GroupLength(g, 2) :
             i = FfnAt(g, l) + j /\ GroupFacts(g, j, FfnProducts, "post", l, x, rows, hidden)
  <2> DEFINE ps == FfnProducts
             p == 2
             n == GroupLength(g, p)
  <2>1. PICK j \in 1..n : i = FfnAt(g, l) + j /\ GroupFacts(g, j, ps, "post", l, x, rows, hidden)
    BY <1>3
  <2>2. k = Group(g, "scratch", l, ps)[j]
    BY <2>1, LayerKernels
  <2>3. ps \in Seq(Seq(Name)) /\ p = Len(ps) /\ \A m \in 1..p : Len(ps[m]) = 2
    BY ProductsTyped
  <2>4. ps = FfnProducts /\ p = 2 /\ n = GroupLength(g, p) /\ j \in 1..GroupLength(g, p)
    OBVIOUS
  <2> HIDE DEF ps, p, n
  <2>5. /\ IsCast(g, j) => k = Cast("scratch", l)
        /\ ~IsCast(g, j) =>
             k = Product(ps[Done(g, j) + 1][1], l, ps[Done(g, j) + 1][2], ps[Done(g, j) + 1][1])
    <3>1. Pairs(ps, p)
      BY <2>3 DEF Pairs
    <3>2. g \in BOOLEAN /\ l \in Nat /\ j \in 1..GroupLength(g, p)
      BY <1>1, <2>4
    <3> QED BY ONLY <2>2, <3>1, <3>2, GroupKernelIs
  <2> QED BY <1>1, <2>1, <2>4, <2>5, StepFfnGroup
<1>4. CASE \/ /\ i = SwigluAt(g, l) + 1
              /\ Has(x, rows["intermediate_a"], "ffn_gate", l) /\ Has(x, rows["intermediate_b"], "ffn_up", l)
           \/ i = SwigluAt(g, l) + 2 /\ Has(x, rows["intermediate_a"], "swiglu", l)
           \/ i = SwigluAt(g, l) + 3 /\ HasCast(x, rows["matmul_input"], "swiglu", l)
           \/ i = SwigluAt(g, l) + 4 /\ Has(x, rows["projected"], "down", l)
  <2>1. /\ Layer(g, l)[SwigluAt(g, l) + 1] = Swiglu(l)
        /\ Layer(g, l)[SwigluAt(g, l) + 2] = Cast("intermediate_a", l)
        /\ Layer(g, l)[SwigluAt(g, l) + 3] = Product("ffn_down", l, "projected", "down")
        /\ Layer(g, l)[SwigluAt(g, l) + 4] = Add(l, "hidden")
    BY LayerKernels
  <2>2. PICK j \in 1..4 :
          /\ i = SwigluAt(g, l) + j
          /\ j = 1 => /\ Has(x, rows["intermediate_a"], "ffn_gate", l)
                      /\ Has(x, rows["intermediate_b"], "ffn_up", l) /\ k = Swiglu(l)
          /\ j = 2 => Has(x, rows["intermediate_a"], "swiglu", l) /\ k = Cast("intermediate_a", l)
          /\ j = 3 => HasCast(x, rows["matmul_input"], "swiglu", l) /\ k = Product("ffn_down", l, "projected", "down")
          /\ j = 4 => Has(x, rows["projected"], "down", l) /\ k = Add(l, "hidden")
    BY <1>4, <2>1
  <2> QED BY <1>1, <2>2, StepDown
<1> QED BY <1>2, <1>3, <1>4 DEF BackFacts
-----------------------------------------------------------------------------
(* The embedding and the end of a chunk *)

\* The embedding of a chunk's tokens makes the hidden rows of the first layer.
LEMMA EmbedStep ==
  ASSUME TypeInv, NEW x, x = <<log, chunk>>, \A nth \in 1..Len(x[2]) : rows["ids"][nth] = x[2][nth],
         NEW k, k = Embed, Run(k), hidden' = Swapped(k)
  PROVE  /\ Has(x, rows'[hidden], "hidden", 0) /\ Only(hidden) /\ hidden' = hidden
         /\ Recordable(k, x)
<1>1. /\ k.op = "embed" /\ k.single = FALSE /\ k.from[1] = "ids" /\ k.to[1] = "hidden"
      /\ k.stage[1] = "hidden" /\ k.layer = 0
  BY DEF Embed, Kernel
<1>2. Place(k.to[1]) = hidden /\ Place(k.from[1]) = "ids" /\ hidden \in Buffer
  BY <1>1, Places DEF Place
<1>3. Rowwise(k) /\ states' = states /\ hidden' = hidden
  BY <1>1 DEF Run, Swapped
<1>4. ASSUME NEW nth \in 1..Len(chunk) PROVE Term(k, nth) = Made("hidden", 0, Pre(x, nth))
  <2>1. Read(k, 1, nth) = chunk[nth]
    BY <1>2 DEF Read
  <2>2. Term(k, nth) = <<"embed", chunk[nth]>>
    BY <1>1, <2>1 DEF Term
  <2>3. Pre(x, nth)[Len(Pre(x, nth))] = chunk[nth]
    BY PrefixFacts DEF TypeInv
  <2>4. Made("hidden", 0, Pre(x, nth)) = <<"embed", Pre(x, nth)[Len(Pre(x, nth))]>>
    BY DEF Made
  <2> QED BY <2>2, <2>3, <2>4
<1>5. Has(x, rows'[Place(k.to[1])], k.stage[1], k.layer) /\ Only(Place(k.to[1]))
  <2>1. Place(k.to[1]) \in Buffer /\ k.single = FALSE
    BY <1>1, <1>2
  <2>2. \A nth \in 1..Len(chunk) : Term(k, nth) = Made(k.stage[1], k.layer, Pre(x, nth))
    BY <1>1, <1>4
  <2> QED BY <1>3, <2>1, <2>2, RowwiseEffect
<1>6. Recordable(k, x)
  <2>1. Recorded(k)[1] = "input_embed" /\ Recorded(k)[2] = "hidden"
    BY <1>1 DEF Recorded
  <2> QED BY <1>1, <1>2, <1>3, <1>5, <2>1 DEF Recordable, After, StageOf
<1> QED BY <1>1, <1>2, <1>3, <1>5, <1>6

\* A kernel about a single row makes it for the whole sequence.
LEMMA SingleEffect ==
  ASSUME TypeInv, NEW x, x = <<log, chunk>>, NEW k, Rowwise(k), k.single = TRUE, states' = states,
         Place(k.to[1]) \in Buffer,
         Term(k, 1) = Made(k.stage[1], k.layer, x[1] \o x[2])
  PROVE  /\ rows'[Place(k.to[1])][1] = <<k.stage[1], k.layer, x[1] \o x[2]>>
         /\ Only(Place(k.to[1]))
<1> DEFINE b == Place(k.to[1])
           made == [nth \in RowsOf(k) |-> Named(Term(k, nth), k.stage[1], k.layer, PrefixOf(k, nth))]
           over == Over(k.to[1], k, made)
<1>1. rows' = [rows EXCEPT ![b] = over] /\ DOMAIN rows = Buffer
  BY DEF Rowwise, TypeInv
<1>2. over[1] = <<k.stage[1], k.layer, x[1] \o x[2]>>
  <2>1. 1 \in 1..MaxChunk /\ 1 \in RowsOf(k)
    BY MaxChunkFacts DEF RowsOf
  <2>2. over[1] = made[1]
    BY <2>1 DEF Over
  <2>3. PrefixOf(k, 1) = x[1] \o x[2]
    BY DEF PrefixOf, Sequence
  <2>4. made[1] = Named(Term(k, 1), k.stage[1], k.layer, x[1] \o x[2])
    BY <2>1, <2>3
  <2> QED BY <2>2, <2>4 DEF Named
<1> HIDE DEF over
<1> QED BY <1>1, <1>2 DEF Only

\* What a kernel of the end leaves.
LEMMA HeadStep ==
  ASSUME TypeInv, phase = "busy", NEW x, x = <<log, chunk>>, NEW i \in 1..4,
         HeadFacts(i, x, rows, hidden), NEW k, k = HeadKernel(i), Run(k), hidden' = Swapped(k)
  PROVE  /\ DOMAIN rows' = Buffer /\ states' = states /\ hidden' = hidden
         /\ HeadFacts(i + 1, x, rows', hidden') /\ Recordable(k, x)
<1> DEFINE n == Len(Layers)
           s == x[1] \o x[2]
           value(tensor) == <<tensor, n, s>>
<1>1. n \in Nat
  BY LayersCount
<1>2. Len(chunk) \in Nat /\ Len(chunk) \in 1..Len(x[2]) /\ Pre(x, Len(chunk)) = s
  <2>1. Len(chunk) \in Nat /\ Len(chunk) > 0
    BY DEF TypeInv
  <2> QED BY <2>1, PrefixFacts DEF TypeInv
<1>3. /\ Made("final", n, s) = <<"norm", "output_norm", n, <<"hidden", n, s>>>>
      /\ Made("logits", n, s) = <<"matmul", "lm_head", n, value("final")>>
      /\ Made("token", n, s) = <<"argmax", value("logits")>>
  BY <1>1, MadeIsLater, ZenonT(40)
<1>4. {"matmul_input", "logits", "result"} \subseteq Buffer
  BY DEF Buffer
<1> HIDE DEF n, s
<1>11. CASE i = 1
  <2>1. /\ k.op = "last_norm" /\ k.single = TRUE /\ k.from[1] = "hidden" /\ k.to[1] = "scratch"
        /\ k.stage[1] = "final" /\ k.layer = n /\ k.weight = "output_norm"
    BY <1>11 DEF HeadKernel, One, Kernel, n
  <2>2. Place(k.to[1]) = Other(hidden) /\ Place(k.from[1]) = hidden /\ Other(hidden) \in Buffer
    BY <2>1, Places
  <2>3. Rowwise(k) /\ states' = states /\ hidden' = hidden /\ Recordable(k, x)
    BY <2>1 DEF Run, Swapped, Recordable, Recorded
  <2>4. Read(k, 1, LastRow) = <<"hidden", n, s>>
    <3>1. Has(x, rows[hidden], "hidden", n)
      BY <1>11 DEF HeadFacts, n
    <3> QED BY <1>2, <2>2, <3>1 DEF Has, Read, LastRow
  <2>5. Term(k, 1) = Made(k.stage[1], k.layer, s)
    BY <1>3, <2>1, <2>4 DEF Term
  <2>6. rows'[Other(hidden)][1] = <<"final", n, s>> /\ Only(Other(hidden))
    BY <2>1, <2>2, <2>3, <2>5, SingleEffect DEF s
  <2> QED BY <1>11, <2>3, <2>6 DEF HeadFacts, Only, n, s
<1>12. CASE i = 2
  <2>1. k.op = "cast" /\ k.single = TRUE /\ k.from[1] = "scratch"
    BY <1>12 DEF HeadKernel, One, Cast, Kernel
  <2>2. Place(k.from[1]) = Other(hidden)
    BY <2>1, Places
  <2>3. CastRows(k) /\ states' = states /\ hidden' = hidden /\ Recordable(k, x)
    BY <2>1 DEF Run, Swapped, Recordable, Recorded
  <2>4. Read(k, 1, 1) = value("final")
    BY <1>12, <2>2 DEF HeadFacts, Read, n, s
  <2> DEFINE made == [nth \in RowsOf(k) |-> <<"cast", Read(k, 1, nth)>>]
             over == Over("matmul_input", k, made)
  <2>5. rows' = [rows EXCEPT !["matmul_input"] = over] /\ DOMAIN rows = Buffer
    BY <2>3 DEF CastRows, TypeInv
  <2>6. over[1] = <<"cast", value("final")>>
    <3>1. 1 \in 1..MaxChunk /\ 1 \in RowsOf(k)
      BY <2>1, MaxChunkFacts DEF RowsOf
    <3>2. over[1] = made[1] /\ made[1] = <<"cast", Read(k, 1, 1)>>
      BY <3>1 DEF Over
    <3> QED BY <2>4, <3>2
  <2> HIDE DEF over
  <2>7. rows'["matmul_input"][1] = <<"cast", value("final")>> /\ DOMAIN rows' = Buffer
    BY <1>4, <2>5, <2>6
  <2> QED BY <1>12, <2>3, <2>7 DEF HeadFacts, n, s
<1>13. CASE i = 3
  <2>1. /\ k.op = "matmul" /\ k.single = TRUE /\ k.from[1] = "matmul_input" /\ k.to[1] = "logits"
        /\ k.stage[1] = "logits" /\ k.layer = n /\ k.weight = "lm_head"
    BY <1>13 DEF HeadKernel, One, Product, Kernel, n
  <2>2. Place(k.to[1]) = "logits" /\ Place(k.from[1]) = "matmul_input"
    BY <2>1 DEF Place
  <2>3. Rowwise(k) /\ states' = states /\ hidden' = hidden /\ Recordable(k, x)
    BY <2>1 DEF Run, Swapped, Recordable, Recorded
  <2>4. Read(k, 1, 1) = <<"cast", value("final")>>
    BY <1>13, <2>2 DEF HeadFacts, Read, n, s
  <2>5. Term(k, 1) = Made(k.stage[1], k.layer, s)
    <3>1. Read(k, 1, 1)[1] = "cast" /\ Read(k, 1, 1)[2] = value("final")
      BY <2>4
    <3> QED BY <1>3, <2>1, <3>1 DEF Term
  <2>6. rows'["logits"][1] = value("logits") /\ Only("logits")
    BY <1>4, <2>1, <2>2, <2>3, <2>5, SingleEffect DEF s
  <2> QED BY <1>13, <2>3, <2>6 DEF HeadFacts, Only, n, s
<1>14. CASE i = 4
  <2>1. /\ k.op = "argmax" /\ k.single = TRUE /\ k.from[1] = "logits" /\ k.to[1] = "result"
        /\ k.stage[1] = "token" /\ k.layer = n
    BY <1>14 DEF HeadKernel, One, Kernel, n
  <2>2. Place(k.to[1]) = "result" /\ Place(k.from[1]) = "logits"
    BY <2>1 DEF Place
  <2>3. Rowwise(k) /\ states' = states /\ hidden' = hidden /\ Recordable(k, x)
    BY <2>1 DEF Run, Swapped, Recordable, Recorded
  <2>4. rows["logits"][1] = value("logits")
    BY <1>14 DEF HeadFacts, n, s
  <2>5. Term(k, 1) = Made(k.stage[1], k.layer, s)
    BY <1>3, <2>1, <2>2, <2>4 DEF Term, Read
  <2>6. rows'["result"][1] = value("token") /\ Only("result")
    BY <1>4, <2>1, <2>2, <2>3, <2>5, SingleEffect DEF s
  <2>7. rows'["logits"][1] = value("logits")
    BY <1>4, <2>4, <2>6 DEF Only
  <2> QED BY <1>14, <2>3, <2>6, <2>7 DEF HeadFacts, Only, n, s
<1> QED BY <1>11, <1>12, <1>13, <1>14
-----------------------------------------------------------------------------
(* From kernel to kernel *)

\* When a layer has made its hidden rows, the next layer begins or the chunk ends.
LEMMA LayerBegins ==
  ASSUME NEW g \in BOOLEAN, NEW w \in BOOLEAN, NEW l \in 0..Len(Layers), NEW a, a = Offset(g, l) + 1,
         NEW x, NEW R, NEW h, NEW S, Has(x, R[h], "hidden", l), Kept(l, x, S)
  PROVE  InLayer(g, a, x, R, h, S) \/ AtEnd(g, w, a, x, R, h, S)
<1> DEFINE n == Len(Layers)
<1>1. n \in Nat /\ l \in 0..n
  BY LayersCount
<1> HIDE DEF n
<1>2. CASE l = n
  <2>1. HeadFacts(1, x, R, h)
    BY <1>2 DEF HeadFacts, n
  <2>2. 1 \in 1..(IF w THEN 5 ELSE 1)
    OBVIOUS
  <2> QED BY <1>2, <2>1, <2>2 DEF AtEnd, n
<1>3. CASE l # n
  <2>1. PICK m \in 1..n : m = l + 1
    BY <1>1, <1>3
  <2>2. m - 1 = l /\ m \in 1..Len(Layers)
    BY <1>1, <2>1 DEF n
  <2>3. LayerLength(g, m) \in Nat /\ LayerLength(g, m) >= 1 /\ KeptBy(g, m, 1) = m - 1
    <3>1. /\ Grouped(g, m) \in Nat /\ MixedAt(g, m) \in Nat /\ FfnAt(g, m) \in Nat /\ SwigluAt(g, m) \in Nat
          /\ LayerLength(g, m) = SwigluAt(g, m) + 4
          /\ \A i \in Nat : i <= Grouped(g, m) + 1 => KeptBy(g, m, i) = m - 1
      BY <2>2, LayerPlaces
    <3>2. 1 \in Nat /\ 1 <= Grouped(g, m) + 1
      BY <3>1
    <3> QED BY <3>1, <3>2
  <2>4. FrontFacts(g, m, 1, x, R, h)
    BY <2>2 DEF FrontFacts
  <2>5. 1 \in 1..LayerLength(g, m) /\ a = Offset(g, m - 1) + 1 /\ Kept(KeptBy(g, m, 1), x, S)
    BY <2>2, <2>3
  <2> QED BY <2>2, <2>4, <2>5 DEF InLayer
<1> QED BY <1>2, <1>3

\* A kernel of a layer leads to the next one.
LEMMA LayerGoesOn ==
  ASSUME TypeInv, NEW x, x = <<log, chunk>>, NEW g \in BOOLEAN, NEW w \in BOOLEAN,
         NEW l \in 1..Len(Layers), NEW i \in 1..LayerLength(g, l), NEW a, a = Offset(g, l - 1) + i,
         FrontFacts(g, l, i, x, rows, hidden) \/ BackFacts(g, l, i, x, rows, hidden),
         Kept(KeptBy(g, l, i), x, states),
         NEW k, k = Layer(g, l)[i], Run(k), hidden' = Swapped(k)
  PROVE  /\ DOMAIN rows' = Buffer /\ StatesTyped(states') /\ hidden' \in {"hidden_a", "hidden_b"}
         /\ Recordable(k, x)
         /\ InLayer(g, a + 1, x, rows', hidden', states') \/ AtEnd(g, w, a + 1, x, rows', hidden', states')
<1>1. Moved(g, l, i, x, k)
  BY FrontStep, BackStep
<1>2. /\ Offset(g, l) = Offset(g, l - 1) + LayerLength(g, l)
      /\ Offset(g, l - 1) \in Nat /\ LayerLength(g, l) \in Nat /\ l \in Nat /\ Len(Layers) \in Nat
  <2>1. l \in Nat /\ Len(Layers) \in Nat /\ l - 1 \in 0..Len(Layers)
    BY LayersCount
  <2>2. Offset(g, l - 1) \in Nat
    BY <2>1, ProgramKernels
  <2>3. SwigluAt(g, l) \in Nat /\ LayerLength(g, l) = SwigluAt(g, l) + 4
    BY LayerPlaces
  <2>4. LayerLength(g, l) \in Nat
    BY <2>3
  <2> QED BY <2>1, <2>2, <2>4, LayersInPlace
<1>3. CASE i = LayerLength(g, l)
  <2>1. a + 1 = Offset(g, l) + 1 /\ l \in 0..Len(Layers)
    BY <1>2, <1>3
  <2>2. Has(x, rows'[hidden'], "hidden", l) /\ Kept(l, x, states')
    BY <1>1, <1>3 DEF Moved
  <2>3. InLayer(g, a + 1, x, rows', hidden', states') \/ AtEnd(g, w, a + 1, x, rows', hidden', states')
    BY <2>1, <2>2, LayerBegins
  <2> QED BY <1>1, <2>3 DEF Moved
<1>4. CASE i # LayerLength(g, l)
  <2>1. i + 1 \in 1..LayerLength(g, l) /\ a + 1 = Offset(g, l - 1) + (i + 1)
    BY <1>2, <1>4
  <2>2. /\ FrontFacts(g, l, i + 1, x, rows', hidden') \/ BackFacts(g, l, i + 1, x, rows', hidden')
        /\ Kept(KeptBy(g, l, i + 1), x, states')
    BY <1>1, <1>4 DEF Moved
  <2>3. InLayer(g, a + 1, x, rows', hidden', states')
    BY <2>1, <2>2 DEF InLayer
  <2> QED BY <1>1, <2>3 DEF Moved
<1> QED BY <1>3, <1>4
\* The program of a chunk is the one for its choices.
LEMMA ProgramIs ==
  ASSUME grouped \in BOOLEAN, wanted \in BOOLEAN
  PROVE  Program = ProgramOf(grouped, wanted)
<1>1. <<grouped, wanted>> \in BOOLEAN \X BOOLEAN /\ <<grouped, wanted>>[1] = grouped /\ <<grouped, wanted>>[2] = wanted
  OBVIOUS
<1> QED BY <1>1 DEF Program, Programs

\* The next kernel does what is to be done next.
LEMMA LaunchGoesOn ==
  ASSUME TypeInv, phase = "busy", NEW x, x = <<log, chunk>>, NEW g \in BOOLEAN, g = grouped,
         NEW w \in BOOLEAN, w = wanted, NEW a \in Nat, a = at, a <= Len(Program),
         \/ a = 1 /\ Embedding(x, rows, states)
         \/ InLayer(g, a, x, rows, hidden, states)
         \/ AtEnd(g, w, a, x, rows, hidden, states),
         NEW k, k = Program[a], Run(k), hidden' = Swapped(k)
  PROVE  /\ DOMAIN rows' = Buffer /\ StatesTyped(states') /\ hidden' \in {"hidden_a", "hidden_b"}
         /\ Recordable(k, x)
         /\ InLayer(g, a + 1, x, rows', hidden', states') \/ AtEnd(g, w, a + 1, x, rows', hidden', states')
<1> DEFINE n == Len(Layers)
<1>1. Program = ProgramOf(g, w)
  BY ProgramIs
<1>2. /\ Len(ProgramOf(g, w)) = Offset(g, n) + (IF w THEN 4 ELSE 0)
      /\ ProgramOf(g, w)[1] = Embed /\ Offset(g, 0) = 1
      /\ \A l \in 0..n : Offset(g, l) \in Nat
      /\ \A l \in 1..n : \A i \in 1..LayerLength(g, l) :
           ProgramOf(g, w)[Offset(g, l - 1) + i] = Layer(g, l)[i]
      /\ w => \A i \in 1..4 : ProgramOf(g, w)[Offset(g, n) + i] = HeadKernel(i)
  BY ProgramKernels
<1>3. hidden \in {"hidden_a", "hidden_b"} /\ StatesTyped(states)
  BY DEF TypeInv
<1>4. n \in Nat
  BY LayersCount
<1>5. CASE a = 1 /\ Embedding(x, rows, states)
  <2>1. k = Embed /\ \A nth \in 1..Len(x[2]) : rows["ids"][nth] = x[2][nth]
    BY <1>1, <1>2, <1>5 DEF Embedding
  <2>2. Has(x, rows'[hidden], "hidden", 0) /\ Only(hidden) /\ hidden' = hidden /\ Recordable(k, x)
    BY <2>1, EmbedStep
  <2> DEFINE l == 0
  <2>3. /\ l \in 0..n /\ a + 1 = Offset(g, l) + 1 /\ Has(x, rows'[hidden'], "hidden", l)
        /\ Kept(l, x, states')
    BY <1>2, <1>4, <1>5, <2>2 DEF Only, Embedding
  <2> HIDE DEF l
  <2>4. InLayer(g, a + 1, x, rows', hidden', states') \/ AtEnd(g, w, a + 1, x, rows', hidden', states')
    BY <2>3, LayerBegins
  <2> QED BY <1>3, <2>2, <2>4 DEF Only
<1>6. CASE InLayer(g, a, x, rows, hidden, states)
  <2>a. PICK l \in 1..n : \E i \in 1..LayerLength(g, l) :
          /\ a = Offset(g, l - 1) + i
          /\ FrontFacts(g, l, i, x, rows, hidden) \/ BackFacts(g, l, i, x, rows, hidden)
          /\ Kept(KeptBy(g, l, i), x, states)
    BY <1>6 DEF InLayer
  <2>1. PICK i \in 1..LayerLength(g, l) :
          /\ a = Offset(g, l - 1) + i
          /\ FrontFacts(g, l, i, x, rows, hidden) \/ BackFacts(g, l, i, x, rows, hidden)
          /\ Kept(KeptBy(g, l, i), x, states)
    BY <2>a
  <2>2. k = Layer(g, l)[i]
    BY <1>1, <1>2, <2>1
  <2> QED BY <2>1, <2>2, LayerGoesOn
<1>7. CASE AtEnd(g, w, a, x, rows, hidden, states)
  <2>1. PICK i \in 1..(IF w THEN 5 ELSE 1) :
          a = Offset(g, n) + i /\ HeadFacts(i, x, rows, hidden) /\ Kept(n, x, states)
    BY <1>7 DEF AtEnd
  <2>2. w /\ i \in 1..4
    <3>1. a <= Offset(g, n) + (IF w THEN 4 ELSE 0) /\ Offset(g, n) \in Nat
      BY <1>1, <1>2, <1>4
    <3> HIDE DEF n
    <3> QED BY <2>1, <3>1
  <2>3. k = HeadKernel(i)
    BY <1>1, <1>2, <2>1, <2>2
  <2>4. /\ DOMAIN rows' = Buffer /\ states' = states /\ hidden' = hidden
        /\ HeadFacts(i + 1, x, rows', hidden') /\ Recordable(k, x)
    BY <2>1, <2>2, <2>3, HeadStep
  <2>5. a + 1 = Offset(g, n) + (i + 1) /\ i + 1 \in 1..(IF w THEN 5 ELSE 1)
    <3>1. Offset(g, n) \in Nat
      BY <1>2, <1>4, SMTT(30)
    <3> HIDE DEF n
    <3> QED BY <2>1, <2>2, <3>1
  <2>6. AtEnd(g, w, a + 1, x, rows', hidden', states')
    BY <2>1, <2>4, <2>5 DEF AtEnd
  <2> QED BY <1>3, <2>4, <2>6
<1> QED BY <1>5, <1>6, <1>7

\* A launch.
LEMMA LaunchPreserves ==
  ASSUME Inv, Launch
  PROVE  Inv'
<1>1. PICK x : x = <<log, chunk>>
  OBVIOUS
<1>2. PICK g \in BOOLEAN : g = grouped
  BY DEF Inv, TypeInv
<1>3. PICK w \in BOOLEAN : w = wanted
  BY DEF Inv, TypeInv
<1>4. PICK a \in Nat : a = at
  BY DEF Inv, TypeInv
<1>5. PICK k : k = Program[at]
  OBVIOUS
<1>6. /\ phase = "busy" /\ at <= Len(Program) /\ at' = at + 1 /\ Run(k) /\ hidden' = Swapped(k)
      /\ UNCHANGED <<grouped, traced, log, chunk, wanted, phase>>
  BY <1>5, LaunchRuns
<1>7. TypeInv /\ ProgressInv /\ TraceInv
  BY DEF Inv
<1>8. \/ a = 1 /\ Embedding(x, rows, states)
      \/ InLayer(g, a, x, rows, hidden, states)
      \/ AtEnd(g, w, a, x, rows, hidden, states)
  BY <1>1, <1>2, <1>3, <1>4, <1>6, <1>7 DEF ProgressInv
<1>9. /\ DOMAIN rows' = Buffer /\ StatesTyped(states') /\ hidden' \in {"hidden_a", "hidden_b"}
      /\ Recordable(k, x)
      /\ InLayer(g, a + 1, x, rows', hidden', states') \/ AtEnd(g, w, a + 1, x, rows', hidden', states')
  <2>1. a <= Len(Program) /\ k = Program[a]
    BY <1>4, <1>5, <1>6
  <2> QED BY <1>1, <1>2, <1>3, <1>4, <1>6, <1>7, <1>8, <2>1, LaunchGoesOn
<1>10. TypeInv'
  BY <1>4, <1>6, <1>7, <1>9 DEF TypeInv
<1>11. ProgressInv'
  <2>1. x = <<log', chunk'>> /\ g = grouped' /\ w = wanted' /\ a + 1 = at' /\ phase' = "busy"
    BY <1>1, <1>2, <1>3, <1>4, <1>6
  <2> QED BY <1>9, <2>1 DEF ProgressInv
<1>12. TraceInv'
  <2>1. TraceFacts(x, trace')
    <3>1. TraceFacts(x, trace) /\ Program[at] = k
      BY <1>1, <1>5, <1>7 DEF TraceInv
    <3> QED BY <1>1, <1>9, <3>1, TraceStep
  <2> QED BY <1>1, <1>6, <2>1 DEF TraceInv
<1> QED BY <1>10, <1>11, <1>12 DEF Inv
-----------------------------------------------------------------------------
(* Calls *)

\* Layers that keep a sequence keep it with a chunk that none has seen, whatever
\* the chunk.
LEMMA KeptNone ==
  ASSUME NEW x, NEW y, x[1] = y[1], NEW S, Kept(0, x, S)
  PROVE  Kept(0, y, S)
<1>1. \A l \in 1..Len(Layers) : ~(l <= 0)
  BY LayersCount
<1> QED BY <1>1 DEF Kept

\* What they keep of sequence and chunk they keep of the sequence made of both.
LEMMA KeptAll ==
  ASSUME NEW x, NEW y, y[1] = x[1] \o x[2], NEW S, Kept(Len(Layers), x, S)
  PROVE  Kept(0, y, S)
<1>1. \A l \in 1..Len(Layers) : ~(l <= 0) /\ l <= Len(Layers)
  BY LayersCount
<1> QED BY <1>1 DEF Kept

\* The states of a session that begins are those of the empty sequence.
LEMMA FreshFacts ==
  ASSUME NEW x, x[1] = <<>>
  PROVE  StatesTyped(Fresh) /\ Kept(0, x, Fresh)
<1>1. StatesTyped(Fresh)
  BY DEF StatesTyped, Fresh, Slots
<1>2. ASSUME NEW l \in 1..Len(Layers) PROVE Keeps(Fresh, l, <<>>) /\ ~(l <= 0)
  <2>1. CASE Full(l)
    BY <2>1, LayersCount DEF Keeps
  <2>2. CASE ~Full(l)
    <3>1. StateOf(l) \in 1..Slots("linear")
      BY <2>2, StateOfFacts
    <3>2. Fresh.linear[StateOf(l)] = Zero
      BY <3>1 DEF Fresh, Slots
    <3> QED BY <2>2, <3>2, LayersCount DEF Keeps, State
  <2> QED BY <2>1, <2>2
<1> QED BY <1>1, <1>2 DEF Kept

\* The invariant holds at first.
LEMMA InitInv == Init => Inv
<1> SUFFICES ASSUME Init PROVE Inv
  OBVIOUS
<1>1. /\ log = <<>> /\ chunk = <<>> /\ phase = "idle" /\ rows = Old /\ states = Fresh /\ trace = None
      /\ grouped \in BOOLEAN /\ traced \in BOOLEAN /\ wanted = FALSE /\ at = 0 /\ hidden = "hidden_a"
  BY DEF Init
<1>2. StatesTyped(Fresh) /\ Kept(0, <<log, chunk>>, Fresh)
  BY <1>1, FreshFacts
<1>3. DOMAIN Old = Buffer
  BY DEF Old
<1>4. TypeInv
  <2>1. <<>> \in Seq(Token) /\ Len(<<>>) = 0
    OBVIOUS
  <2>2. 0 + 0 <= MaxContext /\ 0 <= MaxChunk
    BY ContextAssumption, MaxChunkFacts
  <2>3. Len(log) + Len(chunk) <= MaxContext /\ Len(chunk) <= MaxChunk
    BY <1>1, <2>1, <2>2
  <2> QED BY <1>1, <1>2, <1>3, <2>1, <2>3 DEF TypeInv
<1>5. ProgressInv
  BY <1>1, <1>2 DEF ProgressInv
<1>6. TraceInv
  BY <1>1 DEF TraceInv, TraceFacts
<1> QED BY <1>4, <1>5, <1>6 DEF Inv

\* A call: the tokens are where the embedding reads them.
LEMMA CallPreserves ==
  ASSUME Inv, Call
  PROVE  Inv'
<1>1. TypeInv /\ ProgressInv /\ TraceInv
  BY DEF Inv
<1>2. /\ phase = "idle" /\ at' = 1 /\ phase' = "busy" /\ hidden' = "hidden_a"
      /\ UNCHANGED <<grouped, traced, log, states, trace>>
  BY DEF Call
<1>3. PICK n \in ChunkSizes, produce \in BOOLEAN : \E tokens \in [1..n -> Token] :
        /\ Position + n <= MaxContext
        /\ chunk' = tokens /\ wanted' = produce
        /\ rows' = [rows EXCEPT !["ids"] =
             [nth \in 1..MaxChunk |-> IF nth <= n THEN tokens[nth] ELSE @[nth]]]
  BY DEF Call
<1>4. PICK tokens \in [1..n -> Token] :
        /\ Position + n <= MaxContext
        /\ chunk' = tokens /\ wanted' = produce
        /\ rows' = [rows EXCEPT !["ids"] =
             [nth \in 1..MaxChunk |-> IF nth <= n THEN tokens[nth] ELSE @[nth]]]
  BY <1>3
<1>5. n \in Nat /\ n > 0 /\ n <= MaxChunk /\ MaxChunk \in Nat
  BY ChunkAssumption, MaxChunkFacts
<1>6. tokens \in Seq(Token) /\ Len(tokens) = n
  BY <1>5
<1>7. DOMAIN rows' = Buffer /\ rows'["ids"] = [nth \in 1..MaxChunk |-> IF nth <= n THEN tokens[nth] ELSE rows["ids"][nth]]
  <2>1. DOMAIN rows = Buffer /\ "ids" \in Buffer
    BY <1>1 DEF TypeInv, Buffer
  <2> QED BY <1>4, <2>1
<1>8. TypeInv'
  <2>1. /\ grouped \in BOOLEAN /\ traced \in BOOLEAN /\ log \in Seq(Token) /\ StatesTyped(states)
    BY <1>1 DEF TypeInv
  <2>2. Len(log) + Len(chunk') <= MaxContext /\ Len(chunk') <= MaxChunk /\ Len(chunk') > 0
    BY <1>4, <1>5, <1>6 DEF Position
  <2> QED BY <1>2, <1>4, <1>6, <1>7, <2>1, <2>2 DEF TypeInv
<1>9. ProgressInv'
  <2>1. PICK y : y = <<log', chunk'>>
    OBVIOUS
  <2>2. \A nth \in 1..Len(y[2]) : rows'["ids"][nth] = y[2][nth]
    <3>1. y[2] = tokens
      BY <1>4, <2>1
    <3> QED BY <1>5, <1>6, <1>7, <3>1
  <2>3. Kept(0, y, states')
    <3>1. Kept(0, <<log, chunk>>, states) /\ <<log, chunk>>[1] = y[1]
      BY <1>1, <1>2, <2>1 DEF ProgressInv
    <3>2. Kept(0, y, states)
      BY <3>1, KeptNone
    <3> QED BY <1>2, <3>2
  <2>4. Embedding(y, rows', states')
    BY <2>2, <2>3 DEF Embedding
  <2> QED BY <1>2, <2>1, <2>4 DEF ProgressInv
<1>10. TraceInv'
  BY <1>1, <1>2 DEF TraceInv, TraceFacts
<1> QED BY <1>8, <1>9, <1>10 DEF Inv

\* A launch that fails keeps the invariant: the executor is poisoned, and nothing
\* is promised until a reset.
LEMMA LaunchFailsPreserves ==
  ASSUME Inv, LaunchFails
  PROVE  Inv'
<1>1. TypeInv
  BY DEF Inv
<1>2. /\ phase' = "poisoned" /\ at' = 0 /\ chunk' = <<>> /\ wanted' = FALSE /\ rows' = Old
      /\ hidden' = "hidden_a" /\ trace' = None /\ UNCHANGED <<grouped, traced, log, states>>
  BY DEF LaunchFails
<1>3. DOMAIN Old = Buffer
  BY DEF Old
<1>4. TypeInv'
  <2>1. <<>> \in Seq(Token) /\ Len(<<>>) = 0 /\ log \in Seq(Token) /\ chunk \in Seq(Token)
        /\ Len(log) + Len(chunk) <= MaxContext
    BY <1>1 DEF TypeInv
  <2>2. Len(log') + Len(chunk') <= MaxContext /\ Len(chunk') <= MaxChunk
    BY <1>2, <2>1, ContextAssumption, MaxChunkFacts
  <2> QED BY <1>1, <1>2, <1>3, <2>1, <2>2 DEF TypeInv
<1>5. ProgressInv' /\ TraceInv'
  BY <1>2 DEF ProgressInv, TraceInv, TraceFacts
<1> QED BY <1>4, <1>5 DEF Inv
\* A chunk whose kernels have all run: every layer keeps the chunk, and if it was
\* to produce logits they are there.
LEMMA AfterAll ==
  ASSUME TypeInv, ProgressInv, phase = "busy", at > Len(Program)
  PROVE  /\ Kept(Len(Layers), <<log, chunk>>, states)
         /\ wanted => HeadFacts(5, <<log, chunk>>, rows, hidden)
<1> DEFINE n == Len(Layers)
<1>1. PICK x : x = <<log, chunk>>
  OBVIOUS
<1>2. PICK g \in BOOLEAN : g = grouped
  BY DEF TypeInv
<1>3. PICK w \in BOOLEAN : w = wanted
  BY DEF TypeInv
<1>4. n \in Nat
  BY LayersCount
<1>5. /\ Len(Program) = Offset(g, n) + (IF w THEN 4 ELSE 0)
      /\ \A l \in 0..n : Offset(g, l) \in Nat /\ Offset(g, l) > 0
  BY <1>2, <1>3, ProgramIs, ProgramKernels
<1>6. at \in Nat
  BY DEF TypeInv
<1>7. at # 1
  <2>1. Offset(g, n) \in Nat /\ Offset(g, n) > 0
    BY <1>4, <1>5
  <2> HIDE DEF n
  <2> QED BY <1>5, <1>6, <2>1
<1>8. ~InLayer(g, at, x, rows, hidden, states)
  <2> SUFFICES ASSUME NEW l \in 1..n, NEW i \in 1..LayerLength(g, l), at = Offset(g, l - 1) + i
               PROVE  FALSE
    BY DEF InLayer
  <2>1. Offset(g, l) = Offset(g, l - 1) + LayerLength(g, l) /\ Offset(g, l) <= Offset(g, n)
    BY LayersInPlace
  <2>2. Offset(g, l - 1) \in Nat /\ Offset(g, l) \in Nat /\ Offset(g, n) \in Nat
    <3>1. l - 1 \in 0..n /\ l \in 0..n /\ n \in 0..n
      BY <1>4
    <3> HIDE DEF n
    <3> QED BY <1>5, <3>1
  <2>3. LayerLength(g, l) \in Nat
    <3>1. SwigluAt(g, l) \in Nat /\ LayerLength(g, l) = SwigluAt(g, l) + 4
      BY LayerPlaces
    <3> QED BY <3>1
  <2> HIDE DEF n
  <2>4. i <= LayerLength(g, l) /\ i \in Nat /\ at > Offset(g, n) + (IF w THEN 4 ELSE 0)
    BY <1>5, <2>3
  <2>5. at > Offset(g, n)
    BY <1>6, <2>2, <2>4
  <2> QED BY <2>1, <2>2, <2>3, <2>4, <2>5
<1>9. AtEnd(g, w, at, x, rows, hidden, states)
  BY <1>1, <1>2, <1>3, <1>7, <1>8 DEF ProgressInv
<1>10. PICK i \in 1..(IF w THEN 5 ELSE 1) :
         at = Offset(g, n) + i /\ HeadFacts(i, x, rows, hidden) /\ Kept(n, x, states)
  BY <1>9 DEF AtEnd
<1>11. w => i = 5
  <2>1. Offset(g, n) \in Nat
    BY <1>4, <1>5
  <2> HIDE DEF n
  <2> QED BY <1>5, <1>10, <2>1
<1> QED BY <1>1, <1>3, <1>10, <1>11

\* The caller has its logits: the chunk becomes part of the sequence, which all
\* layers keep by then.
LEMMA ReturnPreserves ==
  ASSUME Inv, Return
  PROVE  Inv'
<1>1. TypeInv /\ ProgressInv
  BY DEF Inv
<1>2. /\ phase = "busy" /\ at > Len(Program) /\ phase' = "idle" /\ at' = 0
      /\ log' = Sequence /\ chunk' = <<>> /\ wanted' = FALSE /\ rows' = Old
      /\ hidden' = "hidden_a" /\ trace' = None /\ UNCHANGED <<grouped, traced, states>>
  BY DEF Return
<1>3. DOMAIN Old = Buffer
  BY DEF Old
<1>4. TypeInv'
  <2>1. /\ log \in Seq(Token) /\ chunk \in Seq(Token) /\ Len(log) + Len(chunk) <= MaxContext
        /\ Len(log) \in Nat /\ Len(chunk) \in Nat
    BY <1>1 DEF TypeInv
  <2>2. Sequence \in Seq(Token) /\ Len(Sequence) = Len(log) + Len(chunk)
    BY <2>1, InConcat DEF Sequence
  <2>3. <<>> \in Seq(Token) /\ Len(<<>>) = 0
    OBVIOUS
  <2>4. Len(log') + Len(chunk') <= MaxContext /\ Len(chunk') <= MaxChunk
    BY <1>2, <2>1, <2>2, <2>3, ContextAssumption, MaxChunkFacts
  <2> QED BY <1>1, <1>2, <1>3, <2>2, <2>3, <2>4 DEF TypeInv
<1>5. Kept(Len(Layers), <<log, chunk>>, states)
  BY <1>1, <1>2, AfterAll
<1>6. Kept(0, <<log', chunk'>>, states')
  <2>1. PICK x : x = <<log, chunk>>
    OBVIOUS
  <2>2. PICK y : y = <<log', chunk'>>
    OBVIOUS
  <2>3. y[1] = x[1] \o x[2]
    BY <1>2, <2>1, <2>2 DEF Sequence
  <2>4. Kept(Len(Layers), x, states)
    BY <1>5, <2>1
  <2>5. Kept(0, y, states)
    BY <2>3, <2>4, KeptAll
  <2> QED BY <1>2, <2>2, <2>5
<1>7. ProgressInv' /\ TraceInv'
  BY <1>2, <1>6 DEF ProgressInv, TraceInv, TraceFacts
<1> QED BY <1>4, <1>7 DEF Inv

\* A reset keeps the invariant, whatever was there before.
LEMMA ResetPreserves ==
  ASSUME Inv, Reset
  PROVE  Inv'
<1>1. TypeInv /\ TraceInv
  BY DEF Inv
<1>2. /\ phase # "busy" /\ states' = Fresh /\ log' = <<>> /\ phase' = "idle"
      /\ UNCHANGED <<grouped, traced, chunk, wanted, at, hidden, rows, trace>>
  BY DEF Reset
<1>3. chunk = <<>> /\ trace = None
  BY <1>1, <1>2 DEF TypeInv, TraceInv
<1>4. StatesTyped(Fresh) /\ Kept(0, <<log', chunk'>>, Fresh)
  BY <1>2, FreshFacts
<1>5. TypeInv'
  <2>1. <<>> \in Seq(Token) /\ Len(<<>>) = 0
    OBVIOUS
  <2>2. Len(log') + Len(chunk') <= MaxContext /\ Len(chunk') <= MaxChunk
    BY <1>2, <1>3, <2>1, ContextAssumption, MaxChunkFacts
  <2> QED BY <1>1, <1>2, <1>3, <1>4, <2>1, <2>2 DEF TypeInv
<1>6. ProgressInv' /\ TraceInv'
  BY <1>2, <1>3, <1>4 DEF ProgressInv, TraceInv, TraceFacts
<1> QED BY <1>5, <1>6 DEF Inv

\* Every step keeps the invariant.
LEMMA NextPreserves ==
  ASSUME Inv, [Next]_vars
  PROVE  Inv'
<1>1. CASE Next
  BY <1>1, CallPreserves, LaunchPreserves, LaunchFailsPreserves, ReturnPreserves, ResetPreserves DEF Next
<1>2. CASE UNCHANGED vars
  BY <1>2 DEF vars, Inv, TypeInv, ProgressInv, TraceInv
<1> QED BY <1>1, <1>2

-----------------------------------------------------------------------------
(* What follows *)

\* Everything above, in every state of the program.
THEOREM Invariant == Spec => []Inv
<1>1. Init => Inv
  BY InitInv
<1>2. Inv /\ [Next]_vars => Inv'
  BY NextPreserves
<1> QED BY <1>1, <1>2, PTL DEF Spec
\* What the invariant says at the end of a program is what is promised of rows.
LEMMA InvRowsMatch == Inv => RowsMatch
<1> SUFFICES ASSUME Inv PROVE RowsMatch
  OBVIOUS
<1>1. TypeInv /\ ProgressInv /\ TraceInv
  BY DEF Inv
<1>2. LogitsMatch
  <2> SUFFICES ASSUME phase = "busy", wanted, at > Len(Program)
               PROVE  /\ rows["logits"][1] = <<"logits", Len(Layers), Sequence>>
                      /\ rows["result"][1] = <<"token", Len(Layers), Sequence>>
    BY DEF LogitsMatch
  <2>1. PICK x : x = <<log, chunk>>
    OBVIOUS
  <2>2. HeadFacts(5, x, rows, hidden)
    BY <1>1, <2>1, AfterAll
  <2>3. x[1] \o x[2] = Sequence
    BY <2>1 DEF Sequence
  <2> QED BY <2>2, <2>3 DEF HeadFacts
<1>3. TraceIsTrue
  <2>1. TraceFacts(<<log, chunk>>, trace)
    BY <1>1 DEF TraceInv
  <2> QED BY <2>1 DEF TraceIsTrue, TraceFacts, Pre, Prefix, Sequence, Position
<1> QED BY <1>2, <1>3 DEF RowsMatch

\* What the invariant says between programs is what is promised of states.
LEMMA InvStatesMatch == Inv => StatesMatch
<1> SUFFICES ASSUME Inv, phase = "idle", NEW l \in 1..Len(Layers)
             PROVE  IF Layers[l] = "linear" THEN states.linear[StateOf(l)] = State(l, log)
                    ELSE \A p \in 1..Position :
                           Cache(l)[p] = <<<<"key_norm", l, Upto(log, p)>>, <<"value", l, Upto(log, p)>>>>
  BY DEF StatesMatch
<1>1. PICK x : x = <<log, chunk>>
  OBVIOUS
<1>2. Kept(0, x, states) /\ x[1] = log
  BY <1>1 DEF Inv, ProgressInv
<1>3. ~(l <= 0) /\ Layers[l] \in {"full", "linear"}
  BY LayersAssumption, LayersCount
<1>4. Keeps(states, l, log)
  BY <1>2, <1>3 DEF Kept
<1> QED BY <1>3, <1>4 DEF Keeps, Full, Cache, Position

\* The buffers, states and positions have their types in every state.
THEOREM WellTyped == Spec => []TypeInv
BY Invariant, PTL DEF Inv

\* Every chunk of every sequence, in whatever chunks it comes, with whatever mix of
\* layers, makes of its last row the logits and the token the reference makes of
\* the whole sequence, and every tensor it records is the one of its name: no
\* kernel reads a buffer that another layer, another chunk or another kernel of
\* its group has written since, and the two hidden buffers are never mistaken.
THEOREM RowsAreTheReferences == Spec => []RowsMatch
BY Invariant, InvRowsMatch, PTL

\* Between calls every layer keeps exactly what the reference has of it for the
\* whole sequence: no layer writes a cache or a state of another, none is left
\* behind by a chunk without logits, and a session that was reset begins anew.
THEOREM StatesAreTheReferences == Spec => []StatesMatch
BY Invariant, InvStatesMatch, PTL

-----------------------------------------------------------------------------
(* Argmax: the best of some logits *)

\* p is what is left of the logits at S: the first of the largest, if any of them is a
\* number above the infinity everything starts from.
Holds(p, S) ==
  /\ p \in Int \X Nat /\ p[1] # NaN
  /\ p = Nothing \/ \E i \in S : p = <<logits[i], i>>
  /\ ~Precedes(Nothing, p)
  /\ \A i \in S : ~Precedes(<<logits[i], i>>, p)

LogitsKnown == DOMAIN logits \subseteq Nat /\ \A i \in DOMAIN logits : logits[i] \in Int

LEMMA HoldsNothing == Holds(Nothing, {})
BY DEF Holds, Nothing, Infinite, NaN, Precedes

\* Of two that hold, the better holds for both.
LEMMA HoldsBoth ==
  ASSUME LogitsKnown, NEW S \in SUBSET DOMAIN logits, NEW T \in SUBSET DOMAIN logits,
         NEW p, NEW q, Holds(p, S), Holds(q, T)
  PROVE  Holds(Better(q, p), S \cup T)
<1> DEFINE r == Better(q, p)
<1>1. /\ p \in Int \X Nat /\ q \in Int \X Nat /\ p[1] # NaN /\ q[1] # NaN
      /\ ~Precedes(Nothing, p) /\ ~Precedes(Nothing, q)
  BY DEF Holds
<1>2. r \in {p, q} /\ ~Precedes(p, r) /\ ~Precedes(q, r)
  BY <1>1 DEF Better, Precedes
<1> HIDE DEF r
<1>3. ASSUME NEW x \in Int \X Nat, ~Precedes(x, p) \/ ~Precedes(x, q) PROVE ~Precedes(x, r)
  BY <1>1, <1>2, <1>3 DEF Precedes
<1>4. \A i \in S \cup T : <<logits[i], i>> \in Int \X Nat
  BY DEF LogitsKnown
<1>5. \A i \in S \cup T : ~Precedes(<<logits[i], i>>, r)
  <2> SUFFICES ASSUME NEW i \in S \cup T PROVE ~Precedes(<<logits[i], i>>, r)
    OBVIOUS
  <2>1. ~Precedes(<<logits[i], i>>, p) \/ ~Precedes(<<logits[i], i>>, q)
    BY DEF Holds
  <2> QED BY <1>3, <1>4, <2>1
<1>6. r \in Int \X Nat /\ r[1] # NaN /\ ~Precedes(Nothing, r)
  BY <1>1, <1>2
<1>7. r = Nothing \/ \E i \in S \cup T : r = <<logits[i], i>>
  BY <1>2 DEF Holds
<1> QED BY <1>5, <1>6, <1>7 DEF Holds, r

\* Another logit.
LEMMA HoldsMore ==
  ASSUME LogitsKnown, NEW S \in SUBSET DOMAIN logits, NEW i \in DOMAIN logits,
         NEW p, Holds(p, S)
  PROVE  Holds(Better(<<logits[i], i>>, p), S \cup {i})
<1> DEFINE x == <<logits[i], i>>
<1>1. /\ x \in Int \X Nat /\ x[1] = logits[i] /\ x[2] = i
      /\ p \in Int \X Nat /\ p[1] # NaN /\ ~Precedes(Nothing, p)
  BY DEF LogitsKnown, Holds
<1>2. CASE logits[i] = NaN
  <2>1. Better(x, p) = p /\ ~Precedes(x, p)
    BY <1>1, <1>2 DEF Better, Precedes
  <2> QED BY <2>1 DEF Holds
<1>3. CASE logits[i] # NaN /\ ~Precedes(Nothing, x)
  <2>1. ~Precedes(x, x)
    BY <1>1 DEF Precedes
  <2>2. Holds(x, {i})
    BY <1>1, <1>3, <2>1 DEF Holds
  <2> HIDE DEF x
  <2> QED BY <2>2, HoldsBoth DEF x
<1>4. CASE logits[i] # NaN /\ Precedes(Nothing, x)
  <2>1. Better(x, p) = p /\ ~Precedes(x, p)
    BY <1>1, <1>4 DEF Better, Precedes, Nothing, Infinite, NaN
  <2> QED BY <2>1 DEF Holds
<1> QED BY <1>2, <1>3, <1>4

\* The logits from the first on, one in every so many.
Every(first, stride) == {i \in DOMAIN logits : \E j \in Nat : i = first + j * stride}

LEMMA ScanHolds ==
  ASSUME LogitsKnown, Elements \in Nat \ {0}, DOMAIN logits = 0..(Elements - 1),
         NEW first \in Nat, NEW stride \in Nat \ {0}
  PROVE  Holds(Scanned(first, stride), Every(first, stride))
<1> DEFINE n == Elements
           q == (n - first - 1) \div stride
           count == IF first >= n THEN 0 ELSE q + 1
           At(k) == first + (k - 1) * stride
           seen == CHOOSE f : f = [k \in 0..count |->
                     IF k = 0 THEN Nothing ELSE Better(<<logits[At(k)], At(k)>>, f[k - 1])]
           Some(k) == {i \in DOMAIN logits : \E j \in 0..(k - 1) : i = first + j * stride}
           Cells == Int \X Nat
<1>1. Scanned(first, stride) = seen[count]
  BY DEF Scanned
<1>2. /\ count \in Nat
      /\ \A k \in 1..count : At(k) \in DOMAIN logits
      /\ \A j \in Nat : first + j * stride \in DOMAIN logits => j \in 0..(count - 1)
  <2>1. CASE first >= n
    <3>1. \A j \in Nat : j * stride \in Nat
      BY SMT
    <3> HIDE DEF n
    <3>2. \A j \in Nat : first + j * stride \notin 0..(n - 1)
      BY <2>1, <3>1 DEF n
    <3> QED BY <2>1, <3>2 DEF n
  <2>2. CASE first < n
    <3>1. /\ q \in Nat /\ (n - first - 1) % stride \in 0..(stride - 1)
          /\ n - first - 1 = stride * q + ((n - first - 1) % stride)
      <4>1. n - first - 1 \in Nat
        BY <2>2
      <4> QED BY <4>1, Division
    <3> DEFINE r == (n - first - 1) % stride
    <3> HIDE DEF r, q
    <3>2. count = q + 1 /\ count \in Nat
      BY <2>2, <3>1
    <3>3. ASSUME NEW k \in 1..count PROVE At(k) \in DOMAIN logits
      <4>1. k - 1 \in Nat /\ k - 1 <= q
        BY <3>1, <3>2
      <4>2. stride * (k - 1) <= stride * q /\ stride * (k - 1) \in Nat
        BY <3>1, <4>1, Grows
      <4>3. (k - 1) * stride = stride * (k - 1)
        BY <4>1, SMT
      <4>4. first + stride * (k - 1) <= n - 1
        BY <3>1, <4>2 DEF r
      <4> QED BY <4>2, <4>3, <4>4
    <3>4. ASSUME NEW j \in Nat, first + j * stride \in DOMAIN logits
          PROVE  j \in 0..(count - 1)
      <4> SUFFICES ASSUME q + 1 <= j PROVE FALSE
        BY <3>1, <3>2
      <4>1. stride * (q + 1) <= stride * j /\ stride * j \in Nat
        BY <3>1, Grows
      <4>2. j * stride = stride * j /\ stride * (q + 1) = stride * q + stride
        BY <3>1, SMT
      <4>3. first + stride * j <= n - 1
        BY <3>4, <4>1, <4>2
      <4> QED BY <3>1, <4>1, <4>2, <4>3 DEF r
    <3> QED BY <3>2, <3>3, <3>4
  <2> QED BY <2>1, <2>2
<1> HIDE DEF count
<1>3. \A k \in 1..count : logits[At(k)] \in Int /\ At(k) \in Nat
  BY <1>2 DEF LogitsKnown
<1>4. seen = [k \in 0..count |->
                IF k = 0 THEN Nothing ELSE Better(<<logits[At(k)], At(k)>>, seen[k - 1])]
  <2> DEFINE g == [k \in 1..count |-> [p \in Cells |-> Better(<<logits[At(k)], At(k)>>, p)]]
  <2>1. Nothing \in Cells /\ g \in [1..count -> [Cells -> Cells]]
    <3>1. \A k \in 1..count : \A p \in Cells : Better(<<logits[At(k)], At(k)>>, p) \in Cells
      BY <1>3 DEF Better
    <3>2. Nothing \in Cells
      BY DEF Nothing, Infinite
    <3> HIDE DEF Cells, At
    <3> QED BY <3>1, <3>2
  <2>2. PICK f \in [0..count -> Cells] : TakesSteps(f, count, Nothing, g)
    <3> HIDE DEF Cells, g
    <3> QED BY <1>2, <2>1, BoundedRecursion
  <2>3. ASSUME NEW k \in 0..count
        PROVE  f[k] = IF k = 0 THEN Nothing ELSE Better(<<logits[At(k)], At(k)>>, f[k - 1])
    <3> HIDE DEF Cells, At
    <3>1. k # 0 => k \in 1..count /\ k - 1 \in 0..count
      BY <1>2
    <3>2. k # 0 => f[k - 1] \in Cells
      BY <3>1
    <3>3. k # 0 => g[k][f[k - 1]] = Better(<<logits[At(k)], At(k)>>, f[k - 1])
      BY <3>1, <3>2
    <3> QED BY <2>2, <3>1, <3>3 DEF TakesSteps
  <2> HIDE DEF At, g, Cells
  <2>4. f = [k \in 0..count |->
               IF k = 0 THEN Nothing ELSE Better(<<logits[At(k)], At(k)>>, f[k - 1])]
    <3>1. f = [k \in 0..count |-> f[k]]
      OBVIOUS
    <3> QED BY <2>3, <3>1
  <2> QED BY <2>4
<1> HIDE DEF seen
<1> DEFINE P == {k \in 0..count : Holds(seen[k], Some(k))}
<1>5. 0 \in P
  <2>1. seen[0] = Nothing /\ Some(0) = {}
    BY <1>2, <1>4
  <2>2. Holds(seen[0], Some(0))
    <3> HIDE DEF Some
    <3> QED BY <2>1, HoldsNothing
  <2> HIDE DEF Some
  <2> QED BY <1>2, <2>2
<1>6. ASSUME NEW k \in 1..count, k - 1 \in P PROVE k \in P
  <2>1. seen[k] = Better(<<logits[At(k)], At(k)>>, seen[k - 1])
    BY <1>2, <1>4
  <2>2. Some(k) = Some(k - 1) \cup {At(k)}
    <3>1. 0..(k - 1) = (0..(k - 1 - 1)) \cup {k - 1} /\ At(k) \in DOMAIN logits
      BY <1>2
    <3> QED BY <3>1
  <2>3. Some(k - 1) \in SUBSET DOMAIN logits /\ Holds(seen[k - 1], Some(k - 1))
    BY <1>6
  <2> HIDE DEF At, Some
  <2>4. Holds(seen[k], Some(k))
    BY <1>2, <2>1, <2>2, <2>3, HoldsMore
  <2> QED BY <2>4
<1>7. count \in P
  <2> HIDE DEF P
  <2> QED BY <1>2, <1>5, <1>6, BoundedInduction, SMTT(30)
<1>8. Some(count) = Every(first, stride)
  <2>1. \A j \in 0..(count - 1) : j \in Nat
    OBVIOUS
  <2>2. ASSUME NEW i \in DOMAIN logits
        PROVE  (\E j \in 0..(count - 1) : i = first + j * stride)
                 <=> (\E j \in Nat : i = first + j * stride)
    BY <1>2, <2>1
  <2> QED BY <2>2 DEF Every
<1> QED BY <1>1, <1>7, <1>8

-----------------------------------------------------------------------------
(* Argmax: halving *)

LEMMA Halving ==
  ASSUME BlockAssumption
  PROVE  /\ LastStage = Levels + 2 /\ Levels \in Nat \ {0} /\ Stride(1) = BlockSize
         /\ Stride(LastStage - 1) = 1 /\ BlockSize \in Nat \ {0}
         /\ \A s \in 1..(LastStage - 1) : Stride(s) \in Nat \ {0} /\ Stride(s) <= BlockSize
         /\ \A s \in 2..(LastStage - 1) : Stride(s - 1) = 2 * Stride(s)
<1>1. /\ BlockSize \in Nat /\ Levels \in 1..BlockSize /\ Halved[Levels] = 1
      /\ \A k \in 1..Levels : Halved[k - 1] = 2 * Halved[k]
  BY DEF BlockAssumption
<1>2. Halved = [k \in 0..BlockSize |-> IF k = 0 THEN BlockSize ELSE Halved[k - 1] \div 2]
  <2> DEFINE g == [k \in 1..BlockSize |-> [n \in Nat |-> n \div 2]]
  <2>1. g \in [1..BlockSize -> [Nat -> Nat]]
    <3>1. \A n \in Nat : n \div 2 \in Nat
      BY SMT
    <3> QED BY <3>1
  <2>2. PICK f \in [0..BlockSize -> Nat] : TakesSteps(f, BlockSize, BlockSize, g)
    <3> HIDE DEF g
    <3> QED BY <1>1, <2>1, BoundedRecursion
  <2>3. ASSUME NEW k \in 0..BlockSize
        PROVE  f[k] = IF k = 0 THEN BlockSize ELSE f[k - 1] \div 2
    <3>1. k # 0 => k \in 1..BlockSize /\ k - 1 \in 0..BlockSize
      BY <1>1
    <3>2. k # 0 => f[k - 1] \in Nat
      BY <3>1
    <3>3. k # 0 => g[k][f[k - 1]] = f[k - 1] \div 2
      BY <3>1, <3>2
    <3> QED BY <2>2, <3>1, <3>3 DEF TakesSteps
  <2>4. f = [k \in 0..BlockSize |-> IF k = 0 THEN BlockSize ELSE f[k - 1] \div 2]
    <3>1. f = [k \in 0..BlockSize |-> f[k]]
      OBVIOUS
    <3> QED BY <2>3, <3>1
  <2> QED BY <2>4 DEF Halved
<1> DEFINE P == {j \in 0..Levels : Halved[Levels - j] \in Nat \ {0}}
<1>3. \A j \in 0..Levels : j \in P
  <2>1. 0 \in P
    BY <1>1
  <2>2. ASSUME NEW j \in 1..Levels, j - 1 \in P PROVE j \in P
    <3>1. /\ Levels - (j - 1) \in 1..Levels /\ Levels - (j - 1) - 1 = Levels - j
          /\ Halved[Levels - (j - 1)] \in Nat \ {0}
      BY <1>1, <2>2
    <3>2. Halved[Levels - j] = 2 * Halved[Levels - (j - 1)]
      BY <1>1, <3>1
    <3> QED BY <3>1, <3>2
  <2>3. Levels \in Nat
    BY <1>1
  <2> HIDE DEF P
  <2> QED BY <2>1, <2>2, <2>3, BoundedInduction
<1>4. \A k \in 0..Levels : Halved[k] \in Nat \ {0}
  <2> SUFFICES ASSUME NEW k \in 0..Levels PROVE Halved[k] \in Nat \ {0}
    OBVIOUS
  <2>1. Levels - k \in 0..Levels /\ Levels - (Levels - k) = k
    BY <1>1
  <2> QED BY <1>3, <2>1
<1>5. Halved[0] = BlockSize
  <2>1. 0 \in 0..BlockSize
    BY <1>1
  <2> QED BY ONLY <1>2, <2>1
<1> DEFINE Q == {k \in 0..Levels : Halved[k] <= BlockSize}
<1>6. \A k \in 0..Levels : k \in Q
  <2>1. 0 \in Q
    BY <1>1, <1>5
  <2>2. ASSUME NEW k \in 1..Levels, k - 1 \in Q PROVE k \in Q
    <3>1. Halved[k - 1] = 2 * Halved[k] /\ Halved[k] \in Nat /\ Halved[k - 1] <= BlockSize
      BY <1>1, <1>4, <2>2
    <3> QED BY <1>1, <3>1
  <2>3. Levels \in Nat
    BY <1>1
  <2> HIDE DEF Q
  <2> QED BY <2>1, <2>2, <2>3, BoundedInduction
<1>7. LastStage = Levels + 2 /\ Levels \in Nat \ {0} /\ BlockSize \in Nat \ {0}
  BY <1>1 DEF LastStage
<1>8. ASSUME NEW s \in 1..(LastStage - 1)
      PROVE  Stride(s) \in Nat \ {0} /\ Stride(s) <= BlockSize
  BY <1>4, <1>6, <1>7 DEF Stride
<1>9. ASSUME NEW s \in 2..(LastStage - 1) PROVE Stride(s - 1) = 2 * Stride(s)
  <2>1. s - 1 \in 1..Levels
    BY <1>7
  <2>2. Halved[s - 1 - 1] = 2 * Halved[s - 1]
    BY <1>1, <2>1
  <2> QED BY <2>2 DEF Stride
<1>10. Stride(1) = BlockSize /\ Stride(LastStage - 1) = 1
  BY <1>1, <1>5, <1>7 DEF Stride
<1> QED BY <1>7, <1>8, <1>9, <1>10

\* The threads whose finds thread t has once it is through with stage s.
Gathered(s, t) == {u \in Threads : \E k \in Nat : u = t + k * Stride(s)}

LEMMA GatheredAtFirst ==
  ASSUME BlockAssumption, NEW t \in Threads
  PROVE  Gathered(1, t) = {t}
<1>1. Stride(1) = BlockSize /\ BlockSize \in Nat \ {0}
  BY Halving
<1>2. t \in Nat /\ t < BlockSize
  BY <1>1 DEF Threads
<1>3. ASSUME NEW u \in Threads, NEW k \in Nat, u = t + k * BlockSize PROVE u = t
  <2>1. k >= 1 => k * BlockSize >= BlockSize
    BY <1>1, SMT
  <2>2. u < BlockSize /\ k * BlockSize \in Nat
    BY <1>1, SMT DEF Threads
  <2>3. k = 0
    BY <1>1, <1>2, <1>3, <2>1, <2>2
  <2> QED BY <1>1, <1>2, <1>3, <2>3
<1>4. t = t + 0 * BlockSize
  BY <1>1, <1>2
<1> QED BY <1>1, <1>3, <1>4 DEF Gathered

LEMMA GatheredInHalves ==
  ASSUME BlockAssumption, NEW s \in 2..(LastStage - 1), NEW t \in Nat
  PROVE  Gathered(s, t) = Gathered(s - 1, t) \cup Gathered(s - 1, t + Stride(s))
<1> DEFINE w == Stride(s)
<1>1. w \in Nat /\ Stride(s - 1) = 2 * w
  <2>1. s \in 1..(LastStage - 1)
    OBVIOUS
  <2> QED BY <2>1, Halving
<1> HIDE DEF w
<1>2. ASSUME NEW u, NEW k \in Nat, u = t + k * w
      PROVE  \E m \in Nat : u = t + m * (2 * w) \/ u = t + w + m * (2 * w)
  <2>1. PICK m \in Nat : k = 2 * m \/ k = 2 * m + 1
    <3> DEFINE q == k \div 2
               r == k % 2
    <3>1. q \in Nat /\ r \in 0..1 /\ k = 2 * q + r
      <4>1. 2 \in Nat \ {0} /\ 2 - 1 = 1
        OBVIOUS
      <4> QED BY <4>1, Division
    <3> HIDE DEF q, r
    <3> QED BY <3>1
  <2>2. 2 * m * w = m * (2 * w) /\ (2 * m + 1) * w = w + m * (2 * w) /\ m * (2 * w) \in Nat
    BY <1>1, SMT
  <2>3. t + (w + m * (2 * w)) = t + w + m * (2 * w)
    BY <1>1, <2>2
  <2> QED BY <1>2, <2>1, <2>2, <2>3
<1>3. ASSUME NEW u, NEW m \in Nat, u = t + m * (2 * w) \/ u = t + w + m * (2 * w)
      PROVE  \E k \in Nat : u = t + k * w
  <2>1. 2 * m * w = m * (2 * w) /\ (2 * m + 1) * w = w + m * (2 * w) /\ m * (2 * w) \in Nat
    BY <1>1, SMT
  <2>2. t + (w + m * (2 * w)) = t + w + m * (2 * w)
    BY <1>1, <2>1
  <2>3. 2 * m \in Nat /\ 2 * m + 1 \in Nat
    OBVIOUS
  <2> QED BY <1>3, <2>1, <2>2, <2>3
<1>4. \A u \in Threads :
        (\E k \in Nat : u = t + k * w)
          <=> (\E m \in Nat : u = t + m * (2 * w)) \/ (\E m \in Nat : u = t + w + m * (2 * w))
  BY <1>2, <1>3
<1> QED BY <1>1, <1>4 DEF Gathered, w

LEMMA GatheredAtLast ==
  ASSUME BlockAssumption PROVE Gathered(LastStage - 1, 0) = Threads
<1>1. Stride(LastStage - 1) = 1
  BY Halving
<1>2. \A u \in Threads : u \in Nat /\ u = 0 + u * 1
  BY Halving DEF Threads
<1> QED BY <1>1, <1>2 DEF Gathered

-----------------------------------------------------------------------------
(* Argmax: what falls to whom *)

\* The logits a block of the first kernel scans.
BlockShare(b) ==
  {i \in DOMAIN logits : \E t \in Threads :
     i \in Every(b * BlockSize + t, BlocksFor(Elements) * BlockSize)}

\* The logits a thread starts with.
StartShare(b, t) ==
  IF kernel = "partials" THEN Every(b * BlockSize + t, BlocksFor(Elements) * BlockSize)
  ELSE IF kernel = "typed" THEN Every(t, BlockSize)
  ELSE IF t < BlocksFor(Elements) THEN BlockShare(t) ELSE {}

\* Those of a set of threads.
Shares(b, U) == {i \in DOMAIN logits : \E u \in U : i \in StartShare(b, u)}

LEMMA LogitsTyped ==
  ASSUME LogitsAssumption, logits \in Vectors
  PROVE  LogitsKnown /\ Elements \in Nat \ {0} /\ DOMAIN logits = 0..(Elements - 1)
<1> DEFINE n == Cardinality(DOMAIN logits)
<1>1. /\ n \in Nat \ {0} /\ DOMAIN logits = 0..(n - 1)
      /\ \A i \in DOMAIN logits : logits[i] \in Nat \cup {NaN, Infinite}
  BY DEF LogitsAssumption
<1>3. DOMAIN logits \subseteq Nat
  <2> HIDE DEF n
  <2>1. DOMAIN logits = 0..(n - 1)
    BY <1>1 DEF n
  <2> QED BY <1>1, <2>1
<1>4. LogitsKnown
  BY <1>1, <1>3 DEF LogitsKnown, NaN, Infinite
<1> QED BY <1>1, <1>4 DEF Elements

LEMMA GridFacts ==
  ASSUME BlockAssumption, GridAssumption, Elements \in Nat \ {0}
  PROVE  /\ BlocksFor(Elements) \in 1..BlockSize
         /\ BlocksFor(Elements) * BlockSize \in Nat \ {0}
<1>1. BlockSize \in Nat \ {0} /\ MaxBlocks \in 1..BlockSize
  BY Halving DEF GridAssumption
<1> DEFINE q == (Elements + BlockSize - 1) \div BlockSize
           r == (Elements + BlockSize - 1) % BlockSize
<1>2. q \in Nat /\ r \in 0..(BlockSize - 1) /\ Elements + BlockSize - 1 = BlockSize * q + r
  <2>1. Elements + BlockSize - 1 \in Nat
    BY <1>1
  <2> QED BY <1>1, <2>1, Division
<1> HIDE DEF r
<1>3. q # 0
  <2> HIDE DEF q
  <2> SUFFICES ASSUME q = 0 PROVE FALSE
    OBVIOUS
  <2>1. BlockSize * q = 0
    BY <1>1
  <2> QED BY <1>1, <1>2, <2>1
<1>4. BlocksFor(Elements) \in 1..BlockSize
  <2>1. BlocksFor(Elements) = IF q < MaxBlocks THEN q ELSE MaxBlocks
    BY DEF BlocksFor
  <2> HIDE DEF q
  <2> QED BY <1>1, <1>2, <1>3, <2>1
<1>5. BlocksFor(Elements) * BlockSize \in Nat \ {0}
  <2> DEFINE f == BlocksFor(Elements)
  <2>1. f \in Nat \ {0}
    BY <1>1, <1>4
  <2> HIDE DEF f
  <2>2. f * BlockSize \in Nat \ {0}
    BY <1>1, <2>1, SMT
  <2> QED BY <2>2 DEF f
<1> QED BY <1>4, <1>5

\* No logit is left out.
LEMMA SharesAreAll ==
  ASSUME BlockAssumption, GridAssumption, LogitsAssumption, logits \in Vectors
  PROVE  /\ kernel = "partials" => \A b : Shares(b, Threads) = BlockShare(b)
         /\ kernel \in {"typed", "finalize"} => \A b : Shares(b, Threads) = DOMAIN logits
<1>1. /\ DOMAIN logits \subseteq Nat /\ BlockSize \in Nat \ {0}
      /\ BlocksFor(Elements) \in 1..BlockSize
      /\ BlocksFor(Elements) * BlockSize \in Nat \ {0}
  BY LogitsTyped, GridFacts, Halving DEF LogitsKnown
<1>2. kernel = "partials" => \A b : Shares(b, Threads) = BlockShare(b)
  BY DEF Shares, StartShare, BlockShare
<1>3. ASSUME kernel = "typed", NEW b PROVE Shares(b, Threads) = DOMAIN logits
  <2>1. ASSUME NEW i \in DOMAIN logits PROVE \E u \in Threads : i \in Every(u, BlockSize)
    <3> DEFINE u == i % BlockSize
               j == i \div BlockSize
    <3>1. j \in Nat /\ u \in Threads /\ i = BlockSize * j + u
      BY <1>1, Division DEF Threads
    <3> HIDE DEF u, j
    <3>2. u \in Nat
      BY <1>1, <3>1 DEF Threads
    <3>3. BlockSize * j = j * BlockSize /\ BlockSize * j \in Nat
      BY <1>1, <3>1, SMT
    <3>4. i = u + j * BlockSize
      BY <3>1, <3>2, <3>3
    <3> QED BY <3>1, <3>4 DEF Every
  <2> QED BY <1>3, <2>1 DEF Shares, StartShare
<1>4. ASSUME kernel = "finalize", NEW b PROVE Shares(b, Threads) = DOMAIN logits
  <2> DEFINE f == BlocksFor(Elements)
             w == f * BlockSize
  <2>1. ASSUME NEW i \in DOMAIN logits
        PROVE  \E u \in Threads : u < f /\ i \in BlockShare(u)
    <3> DEFINE r == i % w
               j == i \div w
               u == r \div BlockSize
               t == r % BlockSize
    <3>1. w \in Nat \ {0} /\ i \in Nat
      BY <1>1
    <3> HIDE DEF w
    <3>2. j \in Nat /\ r \in 0..(w - 1) /\ i = w * j + r
      BY <3>1, Division
    <3> HIDE DEF r, j
    <3>3. r \in Nat
      BY <3>1, <3>2
    <3>4. u \in Nat /\ t \in 0..(BlockSize - 1) /\ r = BlockSize * u + t
      BY <1>1, <3>3, Division
    <3> HIDE DEF u, t, f
    <3>5. f \in 1..BlockSize /\ w = f * BlockSize
      BY <1>1 DEF f, w
    <3>6. u < f
      <4> SUFFICES ASSUME f <= u PROVE FALSE
        BY <3>4, <3>5
      <4>1. BlockSize * f <= BlockSize * u /\ BlockSize * u \in Nat /\ BlockSize * f \in Nat
        BY <1>1, <3>4, <3>5, Grows
      <4>2. f * BlockSize = BlockSize * f
        BY <1>1, <3>5, SMT
      <4> QED BY <1>1, <3>1, <3>2, <3>4, <3>5, <4>1, <4>2
    <3>7. i = u * BlockSize + t + j * w
      <4>1. /\ BlockSize * u = u * BlockSize /\ w * j = j * w
            /\ u * BlockSize \in Nat /\ j * w \in Nat
        BY <1>1, <3>1, <3>2, <3>4, SMT
      <4> QED BY <1>1, <3>2, <3>4, <4>1
    <3>8. t \in Threads /\ u \in Threads
      BY <1>1, <3>4, <3>5, <3>6 DEF Threads
    <3>9. i \in Every(u * BlockSize + t, w)
      BY <3>2, <3>7 DEF Every
    <3>10. i \in BlockShare(u)
      BY <3>8, <3>9 DEF BlockShare, w, f
    <3> QED BY <3>6, <3>8, <3>10
  <2> QED BY <1>4, <2>1 DEF Shares, StartShare
<1> QED BY <1>2, <1>3, <1>4

-----------------------------------------------------------------------------
(* Argmax: the invariant *)

Find == Int \X Nat

ArgmaxTyped ==
  /\ logits \in Vectors /\ kernel \in {"partials", "typed", "finalize", "done"}
  /\ stage \in [Blocks(kernel) -> [Threads -> Nat \ {0}]]
  /\ shared \in [Blocks(kernel) -> [Threads -> Find]]
  /\ partials \in [0..(BlocksFor(Elements) - 1) -> Find]

\* Once a thread is through with stage j, its cell has the best of all that this stage
\* gathers there: until the next stage, or for good if the next one leaves the cell alone.
CellInv ==
  kernel # "done" =>
    \A b \in DOMAIN stage, t \in Threads, j \in 1..(LastStage - 1) :
      /\ j < stage[b][t] /\ t < Stride(j)
      /\ j = stage[b][t] - 1 \/ t >= Stride(j + 1)
      => Holds(shared[b][t], Shares(b, Gathered(j, t)))

\* A block that has written its partial has written the best of its share.
PartialInv ==
  \A b \in DOMAIN partials :
    kernel = "finalize" \/ (kernel = "partials" /\ stage[b][0] > LastStage)
    => Holds(partials[b], BlockShare(b))

\* The block that writes the token writes the place of the best of all.
ResultInv ==
  /\ kernel # "partials" /\ stage[0][0] > LastStage
       => \E p \in Find : Holds(p, DOMAIN logits) /\ result = p[2]
  /\ kernel = "done" => stage[0][0] > LastStage

ArgmaxInv == ArgmaxTyped /\ CellInv /\ PartialInv /\ ResultInv

ArgmaxAssumptions == BlockAssumption /\ GridAssumption /\ LogitsAssumption

LEMMA StridesShrink ==
  ASSUME BlockAssumption, NEW s \in 1..(LastStage - 1), NEW j \in 1..s
  PROVE  Stride(s) <= Stride(j)
<1> DEFINE n == LastStage - 2
           P == {k \in 0..n : \A i \in 1..(k + 1) : Stride(k + 1) <= Stride(i)}
<1>1. /\ n \in Nat /\ n = Levels /\ LastStage - 1 = n + 1 /\ LastStage \in Nat
      /\ \A i \in 1..(n + 1) : Stride(i) \in Nat
      /\ \A i \in 2..(n + 1) : Stride(i - 1) = 2 * Stride(i)
  <2>1. LastStage \in Nat /\ LastStage - 2 = Levels /\ LastStage - 1 = LastStage - 2 + 1
    BY Halving
  <2> QED BY <2>1, Halving
<1>2. 0 \in P
  BY <1>1
<1>3. ASSUME NEW k \in 1..n, k - 1 \in P PROVE k \in P
  <2>1. k + 1 \in 2..(n + 1) /\ k + 1 - 1 = k /\ k - 1 + 1 = k /\ k \in 1..(n + 1)
    BY <1>1
  <2>2. Stride(k) = 2 * Stride(k + 1) /\ Stride(k + 1) \in Nat
    <3>1. Stride(k + 1 - 1) = 2 * Stride(k + 1) /\ Stride(k + 1) \in Nat
      BY <1>1, <2>1
    <3> QED BY <2>1, <3>1
  <2>3. \A i \in 1..k : Stride(k) <= Stride(i)
    BY <1>3, <2>1
  <2> HIDE DEF n
  <2>4. \A i \in 1..k : i \in 1..(n + 1)
    BY <1>1, <2>1
  <2>5. \A i \in 1..(k + 1) : i = k + 1 \/ i \in 1..k
    BY <2>1
  <2>6. \A i \in 1..(k + 1) : Stride(k + 1) <= Stride(i)
    BY <1>1, <2>2, <2>3, <2>4, <2>5
  <2> QED BY <1>1, <2>6
<1>4. s - 1 \in 0..n /\ s - 1 + 1 = s
  BY <1>1
<1>5. s - 1 \in P
  <2> HIDE DEF P, n
  <2> QED BY <1>1, <1>2, <1>3, <1>4, BoundedInduction
<1> QED BY <1>4, <1>5

\* The blocks and the threads there are.
LEMMA BlocksThere ==
  ASSUME ArgmaxAssumptions, logits \in Vectors
  PROVE  /\ 0 \in Threads /\ 0 \in Blocks(kernel)
         /\ \A b \in Blocks(kernel) : b \in Nat
         /\ kernel = "partials" => Blocks(kernel) = 0..(BlocksFor(Elements) - 1)
         /\ kernel # "partials" => Blocks(kernel) = {0}
<1>1. BlockSize \in Nat \ {0} /\ BlocksFor(Elements) \in 1..BlockSize
  BY LogitsTyped, GridFacts, Halving DEF ArgmaxAssumptions
<1> QED BY <1>1 DEF Blocks, Threads

\* What a thread starts from is the best of its share.
LEMMA StartHolds ==
  ASSUME ArgmaxAssumptions, ArgmaxTyped, PartialInv, kernel # "done",
         NEW b \in Blocks(kernel), NEW t \in Threads
  PROVE  Holds(Start(b, t), Shares(b, {t}))
<1>1. /\ LogitsKnown /\ Elements \in Nat \ {0} /\ DOMAIN logits = 0..(Elements - 1)
      /\ BlockSize \in Nat \ {0} /\ BlocksFor(Elements) \in 1..BlockSize
      /\ BlocksFor(Elements) * BlockSize \in Nat \ {0} /\ t \in Nat /\ b \in Nat
  BY LogitsTyped, GridFacts, Halving, BlocksThere DEF ArgmaxAssumptions, ArgmaxTyped, Threads
<1>2. b * BlockSize + t \in Nat
  BY <1>1, SMT
<1>3. Shares(b, {t}) = StartShare(b, t)
  <2>1. \A i \in StartShare(b, t) : i \in DOMAIN logits
    BY DEF StartShare, Every, BlockShare
  <2> QED BY <2>1 DEF Shares
<1>4. CASE kernel = "partials"
  BY <1>1, <1>2, <1>3, <1>4, ScanHolds DEF Start, StartShare
<1>5. CASE kernel = "typed"
  BY <1>1, <1>3, <1>5, ScanHolds DEF Start, StartShare
<1>6. CASE kernel = "finalize"
  <2>1. CASE t < BlocksFor(Elements)
    <3>1. t \in DOMAIN partials
      BY <1>1, <2>1 DEF ArgmaxTyped
    <3>2. Holds(partials[t], BlockShare(t))
      BY <1>6, <3>1 DEF PartialInv
    <3> QED BY <1>3, <1>6, <2>1, <3>2 DEF Start, StartShare
  <2>2. CASE ~(t < BlocksFor(Elements))
    <3>1. Start(b, t) = Nothing /\ StartShare(b, t) = {}
      BY <1>6, <2>2 DEF Start, StartShare
    <3> QED BY <1>3, <3>1, HoldsNothing
  <2> QED BY <2>1, <2>2
<1> QED BY <1>4, <1>5, <1>6 DEF ArgmaxTyped

\* A turn of the loop leaves the best of what both cells had.
LEMMA HalvesHold ==
  ASSUME ArgmaxAssumptions, ArgmaxInv, kernel # "done",
         NEW b \in DOMAIN stage, NEW t \in Threads, NEW s \in 2..(LastStage - 1),
         Ready(b, t, s), t < Stride(s)
  PROVE  Holds(Better(shared[b][t + Stride(s)], shared[b][t]), Shares(b, Gathered(s, t)))
<1> DEFINE w == Stride(s)
           u == t + w
<1>1. /\ LastStage \in Nat /\ s - 1 \in 1..(LastStage - 1) /\ s - 1 + 1 = s /\ s \in Nat
      /\ w \in Nat \ {0} /\ Stride(s - 1) = 2 * w /\ 2 * w <= BlockSize /\ t \in Nat
  <2>1. LastStage \in Nat
    BY Halving DEF ArgmaxAssumptions
  <2>2. s \in 1..(LastStage - 1) /\ s - 1 \in 1..(LastStage - 1) /\ s - 1 + 1 = s /\ s \in Nat
    BY <2>1
  <2>3. Stride(s) \in Nat \ {0} /\ Stride(s - 1) <= BlockSize /\ Stride(s - 1) = 2 * Stride(s)
    BY <2>2, Halving DEF ArgmaxAssumptions
  <2> QED BY <2>1, <2>2, <2>3, Halving DEF ArgmaxAssumptions, Threads
<1> HIDE DEF w
<1>2. u \in Threads /\ u < Stride(s - 1) /\ u >= Stride(s) /\ t < Stride(s - 1)
  <2>1. BlockSize \in Nat /\ t < w
    BY Halving DEF ArgmaxAssumptions, w
  <2> QED BY <1>1, <2>1 DEF Threads, w
<1>3. stage[b][t] = s /\ stage[b][u] >= s /\ stage[b][u] \in Nat
  BY <1>2 DEF Ready, ArgmaxInv, ArgmaxTyped
<1> HIDE DEF u
<1>4. Holds(shared[b][t], Shares(b, Gathered(s - 1, t)))
  <2>1. s - 1 < stage[b][t] /\ s - 1 = stage[b][t] - 1
    BY <1>1, <1>3
  <2> QED BY <1>1, <1>2, <2>1 DEF ArgmaxInv, CellInv
<1>5. Holds(shared[b][u], Shares(b, Gathered(s - 1, u)))
  <2>1. s - 1 < stage[b][u] /\ u >= Stride(s - 1 + 1)
    BY <1>1, <1>2, <1>3
  <2> QED BY <1>1, <1>2, <2>1 DEF ArgmaxInv, CellInv
<1>6. Gathered(s, t) = Gathered(s - 1, t) \cup Gathered(s - 1, u)
  BY <1>1, GatheredInHalves DEF ArgmaxAssumptions, u, w
<1>7. /\ Shares(b, Gathered(s, t))
           = Shares(b, Gathered(s - 1, t)) \cup Shares(b, Gathered(s - 1, u))
      /\ Shares(b, Gathered(s - 1, t)) \in SUBSET DOMAIN logits
      /\ Shares(b, Gathered(s - 1, u)) \in SUBSET DOMAIN logits
  BY <1>6 DEF Shares
<1>8. LogitsKnown
  BY LogitsTyped DEF ArgmaxAssumptions, ArgmaxInv, ArgmaxTyped
<1>9. Holds(Better(shared[b][u], shared[b][t]), Shares(b, Gathered(s, t)))
  BY <1>4, <1>5, <1>7, <1>8, HoldsBoth
<1> QED BY <1>9 DEF u, w

\* The first thread ends with the best of all that its block has to go over.
LEMMA BlockIsThrough ==
  ASSUME ArgmaxAssumptions, ArgmaxInv, kernel # "done",
         NEW b \in DOMAIN stage, stage[b][0] = LastStage
  PROVE  /\ kernel = "partials" => Holds(shared[b][0], BlockShare(b))
         /\ kernel # "partials" => Holds(shared[b][0], DOMAIN logits)
<1>1. /\ LastStage - 1 \in 1..(LastStage - 1) /\ LastStage - 1 < LastStage
      /\ 0 < Stride(LastStage - 1) /\ 0 \in Threads
  BY Halving, BlocksThere DEF ArgmaxAssumptions, ArgmaxInv, ArgmaxTyped
<1>2. Holds(shared[b][0], Shares(b, Gathered(LastStage - 1, 0)))
  BY <1>1 DEF ArgmaxInv, CellInv
<1>3. Gathered(LastStage - 1, 0) = Threads
  BY GatheredAtLast DEF ArgmaxAssumptions
<1>4. kernel = "partials" => Shares(b, Threads) = BlockShare(b)
  BY SharesAreAll DEF ArgmaxAssumptions, ArgmaxInv, ArgmaxTyped
<1>5. kernel # "partials" => Shares(b, Threads) = DOMAIN logits
  BY SharesAreAll DEF ArgmaxAssumptions, ArgmaxInv, ArgmaxTyped
<1> QED BY <1>2, <1>3, <1>4, <1>5

\* What holds of the logits does not depend on what the threads do.
LEMMA HoldsAsBefore ==
  ASSUME logits' = logits
  PROVE  /\ \A p, S : Holds(p, S)' <=> Holds(p, S)
         /\ \A b : BlockShare(b)' = BlockShare(b)
         /\ BlocksFor(Elements)' = BlocksFor(Elements)
         /\ kernel' = kernel => \A b, U : Shares(b, U)' = Shares(b, U)
<1>1. Elements' = Elements
  BY DEF Elements
<1>2. BlocksFor(Elements)' = BlocksFor(Elements)
  BY <1>1 DEF BlocksFor
<1>3. \A first, stride : Every(first, stride)' = Every(first, stride)
  BY DEF Every
<1>4. \A b : BlockShare(b)' = BlockShare(b)
  BY <1>2, <1>3 DEF BlockShare
<1>5. \A p, S : Holds(p, S)' <=> Holds(p, S)
  BY DEF Holds
<1>6. ASSUME kernel' = kernel PROVE \A b, U : Shares(b, U)' = Shares(b, U)
  <2>1. \A b, t : StartShare(b, t)' = StartShare(b, t)
    BY <1>2, <1>3, <1>4, <1>6 DEF StartShare
  <2> QED BY <2>1 DEF Shares
<1> QED BY <1>2, <1>4, <1>5, <1>6

\* What a thread leaves in its cell keeps the invariant of the cells.
LEMMA CellsKeep ==
  ASSUME ArgmaxAssumptions, ArgmaxInv, kernel # "done", logits' = logits, kernel' = kernel,
         NEW b \in DOMAIN stage, NEW t \in Threads, NEW s \in 1..LastStage,
         Ready(b, t, s), Advance(b, t), NEW x,
         \/ shared' = [shared EXCEPT ![b][t] = x] /\ s < LastStage /\ t < Stride(s)
            /\ Holds(x, Shares(b, Gathered(s, t)))
         \/ shared' = shared /\ ~(s < LastStage /\ t < Stride(s))
  PROVE  CellInv'
<1> SUFFICES ASSUME NEW c \in DOMAIN stage, NEW u \in Threads, NEW j \in 1..(LastStage - 1),
                    j < stage'[c][u], u < Stride(j),
                    j = stage'[c][u] - 1 \/ u >= Stride(j + 1)
             PROVE  Holds(shared'[c][u], Shares(c, Gathered(j, u)))
  <2>1. DOMAIN stage' = DOMAIN stage
    BY DEF Advance
  <2>2. \A e, d, v, i : Holds(e, Shares(d, Gathered(i, v)))' <=> Holds(e, Shares(d, Gathered(i, v)))
    BY HoldsAsBefore DEF Gathered
  <2> QED BY <2>1, <2>2 DEF CellInv
<1>1. /\ DOMAIN stage = Blocks(kernel) /\ DOMAIN shared = Blocks(kernel)
      /\ \A d \in DOMAIN stage : DOMAIN stage[d] = Threads /\ DOMAIN shared[d] = Threads
      /\ \A d \in DOMAIN stage, v \in Threads : stage[d][v] \in Nat
      /\ LastStage \in Nat
  BY Halving DEF ArgmaxAssumptions, ArgmaxInv, ArgmaxTyped
<1>2. stage[b][t] = s /\ stage'[b][t] = s + 1
  BY <1>1 DEF Ready, Advance
<1>3. CASE c = b /\ u = t
  <2>1. CASE s < LastStage /\ t < Stride(s)
    <3>1. shared'[b][t] = x /\ Holds(x, Shares(b, Gathered(s, t)))
      BY <1>1, <2>1
    <3>2. j = s
      <4> SUFFICES ASSUME j < s, t >= Stride(j + 1) PROVE FALSE
        BY <1>2, <1>3
      <4>1. s \in 1..(LastStage - 1) /\ j + 1 \in 1..s /\ j + 1 \in 1..(LastStage - 1)
        BY <1>1, <2>1
      <4>2. Stride(s) <= Stride(j + 1) /\ Stride(s) \in Nat /\ Stride(j + 1) \in Nat
        BY <4>1, StridesShrink, Halving DEF ArgmaxAssumptions
      <4>3. t \in Nat
        BY Halving DEF ArgmaxAssumptions, Threads
      <4> QED BY <2>1, <4>2, <4>3
    <3> QED BY <1>3, <3>1, <3>2
  <2>2. CASE ~(s < LastStage /\ t < Stride(s))
    <3>1. shared' = shared /\ j # s
      BY <1>1, <1>3, <2>2
    <3>2. j < stage[c][u] /\ (j = stage[c][u] - 1 \/ u >= Stride(j + 1))
      BY <1>2, <1>3, <3>1
    <3> QED BY <3>1, <3>2 DEF ArgmaxInv, CellInv
  <2> QED BY <2>1, <2>2
<1>4. CASE ~(c = b /\ u = t)
  <2>1. stage'[c][u] = stage[c][u] /\ shared'[c][u] = shared[c][u]
    BY <1>1, <1>4 DEF Advance
  <2> QED BY <2>1 DEF ArgmaxInv, CellInv
<1> QED BY <1>3, <1>4

\* A thread that scans.
LEMMA ScanKeeps ==
  ASSUME ArgmaxAssumptions, ArgmaxInv, kernel # "done",
         NEW b \in DOMAIN stage, NEW t \in Threads, Scan(b, t)
  PROVE  ArgmaxInv'
<1>1. b \in Blocks(kernel) /\ 1 \in 1..LastStage /\ 1 < LastStage /\ t < Stride(1)
  BY Halving DEF ArgmaxAssumptions, ArgmaxInv, ArgmaxTyped, Threads
<1>2. Holds(Start(b, t), Shares(b, Gathered(1, t)))
  <2>1. Gathered(1, t) = {t}
    BY GatheredAtFirst DEF ArgmaxAssumptions
  <2> QED BY <1>1, <2>1, StartHolds DEF ArgmaxInv
<1>3. UNCHANGED <<logits, kernel, partials, result>>
  BY DEF Scan
<1>4. ArgmaxTyped'
  <2>1. BlocksFor(Elements)' = BlocksFor(Elements) /\ Blocks(kernel)' = Blocks(kernel)
    BY <1>3, HoldsAsBefore DEF Blocks
  <2>2. Start(b, t) \in Find
    BY <1>2 DEF Holds, Find
  <2> HIDE DEF Find
  <2> QED BY <1>3, <2>1, <2>2 DEF ArgmaxInv, ArgmaxTyped, Scan, Advance
<1>5. CellInv'
  BY <1>1, <1>2, <1>3, CellsKeep DEF Scan
<1>6. \A c \in DOMAIN stage : stage'[c][0] > LastStage => stage[c][0] > LastStage
  BY <1>1, Halving DEF ArgmaxAssumptions, ArgmaxInv, ArgmaxTyped, Scan, Ready, Advance
<1>7. PartialInv'
  <2>1. kernel = "partials" => DOMAIN stage = DOMAIN partials
    BY BlocksThere DEF ArgmaxInv, ArgmaxTyped
  <2> QED BY <1>3, <1>6, <2>1, HoldsAsBefore DEF ArgmaxInv, PartialInv
<1>8. ResultInv'
  <2>1. kernel # "partials" => 0 \in DOMAIN stage
    BY BlocksThere DEF ArgmaxInv, ArgmaxTyped
  <2> QED BY <1>3, <1>6, <2>1, HoldsAsBefore DEF ArgmaxInv, ResultInv
<1> QED BY <1>4, <1>5, <1>7, <1>8 DEF ArgmaxInv

\* A thread that takes a turn of the loop.
LEMMA HalveKeeps ==
  ASSUME ArgmaxAssumptions, ArgmaxInv, kernel # "done",
         NEW b \in DOMAIN stage, NEW t \in Threads, Halve(b, t)
  PROVE  ArgmaxInv'
<1>1. PICK s \in 2..(LastStage - 1) :
        /\ Ready(b, t, s) /\ Advance(b, t)
        /\ shared' = IF t < Stride(s)
                     THEN [shared EXCEPT ![b][t] = Better(shared[b][t + Stride(s)], @)] ELSE shared
        /\ UNCHANGED <<logits, kernel, partials, result>>
  BY DEF Halve
<1> DEFINE x == Better(shared[b][t + Stride(s)], shared[b][t])
<1>2. s \in 1..LastStage /\ s < LastStage /\ LastStage \in Nat
  BY Halving DEF ArgmaxAssumptions
<1>3. t < Stride(s) => Holds(x, Shares(b, Gathered(s, t)))
  BY <1>1, HalvesHold
<1>4. shared' = IF t < Stride(s) THEN [shared EXCEPT ![b][t] = x] ELSE shared
  BY <1>1 DEF ArgmaxInv, ArgmaxTyped
<1> HIDE DEF x
<1>5. ArgmaxTyped'
  <2>1. BlocksFor(Elements)' = BlocksFor(Elements) /\ Blocks(kernel)' = Blocks(kernel)
    BY <1>1, HoldsAsBefore DEF Blocks
  <2>2. t < Stride(s) => x \in Find
    BY <1>3 DEF Holds, Find
  <2> HIDE DEF Find
  <2>3. shared' \in [Blocks(kernel) -> [Threads -> Find]]
    BY <1>4, <2>2 DEF ArgmaxInv, ArgmaxTyped
  <2> QED BY <1>1, <2>1, <2>3 DEF ArgmaxInv, ArgmaxTyped, Advance
<1>6. CellInv'
  <2>1. CASE t < Stride(s)
    BY <1>1, <1>2, <1>3, <1>4, <2>1, CellsKeep
  <2>2. CASE ~(t < Stride(s))
    BY <1>1, <1>2, <1>4, <2>2, CellsKeep
  <2> QED BY <2>1, <2>2
<1>7. \A c \in DOMAIN stage : stage'[c][0] > LastStage => stage[c][0] > LastStage
  BY <1>1, <1>2 DEF ArgmaxInv, ArgmaxTyped, Ready, Advance
<1>8. PartialInv'
  <2>1. kernel = "partials" => DOMAIN stage = DOMAIN partials
    BY BlocksThere DEF ArgmaxInv, ArgmaxTyped
  <2> QED BY <1>1, <1>7, <2>1, HoldsAsBefore DEF ArgmaxInv, PartialInv
<1>9. ResultInv'
  <2>1. kernel # "partials" => 0 \in DOMAIN stage
    BY BlocksThere DEF ArgmaxInv, ArgmaxTyped
  <2> QED BY <1>1, <1>7, <2>1, HoldsAsBefore DEF ArgmaxInv, ResultInv
<1> QED BY <1>5, <1>6, <1>8, <1>9 DEF ArgmaxInv

\* A thread that is through: the first of a block writes what the block has.
LEMMA WriteKeeps ==
  ASSUME ArgmaxAssumptions, ArgmaxInv, kernel # "done",
         NEW b \in DOMAIN stage, NEW t \in Threads, Write(b, t)
  PROVE  ArgmaxInv'
<1>1. /\ Ready(b, t, LastStage) /\ Advance(b, t) /\ UNCHANGED <<logits, kernel, shared>>
      /\ partials' = IF t = 0 /\ kernel = "partials"
                     THEN [partials EXCEPT ![b] = shared[b][0]] ELSE partials
      /\ result' = IF t = 0 /\ kernel # "partials" THEN shared[b][0][2] ELSE result
  BY DEF Write
<1>2. LastStage \in 1..LastStage /\ LastStage \in Nat
  BY Halving DEF ArgmaxAssumptions
<1>3. 0 \in Threads /\ b \in Blocks(kernel) /\ shared[b][0] \in Find
  BY BlocksThere DEF ArgmaxInv, ArgmaxTyped
<1>4. ArgmaxTyped'
  <2>1. BlocksFor(Elements)' = BlocksFor(Elements) /\ Blocks(kernel)' = Blocks(kernel)
    BY <1>1, HoldsAsBefore DEF Blocks
  <2> HIDE DEF Find
  <2>2. partials' \in [0..(BlocksFor(Elements) - 1) -> Find]
    BY <1>1, <1>3 DEF ArgmaxInv, ArgmaxTyped
  <2>3. stage' \in [Blocks(kernel) -> [Threads -> Nat \ {0}]]
    BY <1>1 DEF ArgmaxInv, ArgmaxTyped, Advance
  <2> QED BY <1>1, <2>1, <2>2, <2>3 DEF ArgmaxInv, ArgmaxTyped
<1>5. CellInv'
  BY <1>1, <1>2, CellsKeep
<1>6. t = 0 => /\ kernel = "partials" => Holds(shared[b][0], BlockShare(b))
               /\ kernel # "partials" => Holds(shared[b][0], DOMAIN logits)
  BY <1>1, BlockIsThrough DEF Ready
<1>7. \A c \in DOMAIN stage :
        stage'[c][0] > LastStage => (c = b /\ t = 0) \/ stage[c][0] > LastStage
  BY <1>1, <1>2, <1>3 DEF ArgmaxInv, ArgmaxTyped, Ready, Advance
<1>8. PartialInv'
  <2> SUFFICES ASSUME NEW c \in DOMAIN partials,
                      kernel = "finalize" \/ (kernel = "partials" /\ stage'[c][0] > LastStage)
               PROVE  Holds(partials'[c], BlockShare(c))
    <3>1. DOMAIN partials' = DOMAIN partials
      BY <1>1
    <3>2. \A e, d : Holds(e, BlockShare(d))' <=> Holds(e, BlockShare(d))
      BY <1>1, HoldsAsBefore
    <3> QED BY <1>1, <3>1, <3>2 DEF PartialInv
  <2>1. kernel = "partials" => c \in DOMAIN stage
    BY BlocksThere DEF ArgmaxInv, ArgmaxTyped
  <2>2. CASE kernel = "partials" /\ c = b /\ t = 0
    BY <1>1, <1>6, <2>2
  <2>3. CASE ~(kernel = "partials" /\ c = b /\ t = 0)
    <3>1. partials'[c] = partials[c]
      BY <1>1, <2>3
    <3>2. kernel = "finalize" \/ (kernel = "partials" /\ stage[c][0] > LastStage)
      BY <1>7, <2>1, <2>3
    <3> QED BY <3>1, <3>2 DEF ArgmaxInv, PartialInv
  <2> QED BY <2>2, <2>3
<1>9. ResultInv'
  <2>1. kernel # "partials" => 0 \in DOMAIN stage /\ b = 0
    BY <1>3, BlocksThere DEF ArgmaxInv, ArgmaxTyped
  <2>2. ASSUME kernel # "partials", stage'[0][0] > LastStage
        PROVE  \E p \in Find : Holds(p, DOMAIN logits) /\ result' = p[2]
    <3>1. CASE t = 0
      BY <1>1, <1>3, <1>6, <2>1, <2>2, <3>1
    <3>2. CASE t # 0
      BY <1>1, <1>7, <2>1, <2>2, <3>2 DEF ArgmaxInv, ResultInv
    <3> QED BY <3>1, <3>2
  <2> QED BY <1>1, <2>2, HoldsAsBefore DEF ResultInv
<1> QED BY <1>4, <1>5, <1>8, <1>9 DEF ArgmaxInv

\* A kernel ends when all its threads are through; the last block takes over from the first.
LEMMA KernelEndsKeeps ==
  ASSUME ArgmaxAssumptions, ArgmaxInv, KernelEnds
  PROVE  ArgmaxInv'
<1>1. /\ kernel # "done" /\ UNCHANGED <<logits, partials, result>>
      /\ \A b \in DOMAIN stage, t \in Threads : stage[b][t] > LastStage
  BY DEF KernelEnds
<1>2. LastStage \in Nat /\ LastStage > 1 /\ 0 \in Threads
  BY Halving, BlocksThere DEF ArgmaxAssumptions, ArgmaxInv, ArgmaxTyped
<1>3. CASE kernel = "partials"
  <2>1. Begin("finalize")
    BY <1>3 DEF KernelEnds
  <2>2. /\ kernel' = "finalize" /\ Blocks("finalize")' = {0} /\ Blocks("finalize") = {0}
        /\ stage' = [b \in {0} |-> [t \in Threads |-> 1]]
        /\ shared' = [b \in {0} |-> [t \in Threads |-> Junk]]
    BY <2>1 DEF Begin, Blocks
  <2>3. ArgmaxTyped'
    <3>1. BlocksFor(Elements)' = BlocksFor(Elements)
      BY <1>1, HoldsAsBefore
    <3>2. Junk \in Find /\ Blocks(kernel)' = {0}
      BY <2>2 DEF Junk, Find, NaN, Blocks
    <3> HIDE DEF Find
    <3> QED BY <1>1, <2>2, <3>1, <3>2 DEF ArgmaxInv, ArgmaxTyped
  <2>4. CellInv'
    BY <2>2 DEF CellInv
  <2>5. PartialInv'
    <3>1. DOMAIN partials = DOMAIN stage
      BY <1>3, BlocksThere DEF ArgmaxInv, ArgmaxTyped
    <3>2. \A b \in DOMAIN partials : Holds(partials[b], BlockShare(b))
      BY <1>1, <1>2, <1>3, <3>1 DEF ArgmaxInv, PartialInv
    <3>3. \A e, d : Holds(e, BlockShare(d))' <=> Holds(e, BlockShare(d))
      BY <1>1, HoldsAsBefore
    <3> QED BY <1>1, <3>2, <3>3 DEF PartialInv
  <2>6. ResultInv'
    BY <1>2, <2>2 DEF ResultInv
  <2> QED BY <2>3, <2>4, <2>5, <2>6 DEF ArgmaxInv
<1>4. CASE kernel # "partials"
  <2>1. kernel' = "done" /\ UNCHANGED <<stage, shared>> /\ 0 \in DOMAIN stage
    BY <1>4, BlocksThere DEF KernelEnds, ArgmaxInv, ArgmaxTyped
  <2>2. ArgmaxTyped'
    <3>1. BlocksFor(Elements)' = BlocksFor(Elements) /\ Blocks(kernel)' = Blocks(kernel)
      BY <1>1, <1>4, <2>1, HoldsAsBefore DEF Blocks
    <3> QED BY <1>1, <2>1, <3>1 DEF ArgmaxInv, ArgmaxTyped
  <2>3. CellInv' /\ PartialInv'
    BY <2>1 DEF CellInv, PartialInv
  <2>4. ResultInv'
    <3>1. \E p \in Find : Holds(p, DOMAIN logits) /\ result = p[2]
      BY <1>1, <1>2, <1>4, <2>1 DEF ArgmaxInv, ResultInv
    <3> QED BY <1>1, <1>2, <2>1, <3>1, HoldsAsBefore DEF ResultInv
  <2> QED BY <2>2, <2>3, <2>4 DEF ArgmaxInv
<1> QED BY <1>3, <1>4

LEMMA ArgmaxStarts ==
  ASSUME ArgmaxAssumptions, ArgmaxInit PROVE ArgmaxInv
<1>1. LastStage \in Nat /\ LastStage > 1
  BY Halving DEF ArgmaxAssumptions
<1>2. Junk \in Find
  BY DEF Junk, Find, NaN
<1>3. /\ 0 \in Threads
      /\ kernel = "partials" => Blocks(kernel) = 0..(BlocksFor(Elements) - 1)
      /\ kernel # "partials" => Blocks(kernel) = {0}
  BY BlocksThere DEF ArgmaxInit
<1> HIDE DEF Find
<1>4. ArgmaxTyped
  BY <1>2 DEF ArgmaxInit, ArgmaxTyped
<1>5. \A b \in DOMAIN stage, t \in Threads : stage[b][t] = 1
  BY DEF ArgmaxInit
<1>6. CellInv
  BY <1>5 DEF CellInv
<1>7. PartialInv
  <2>1. kernel = "partials" => DOMAIN partials = DOMAIN stage
    BY <1>3 DEF ArgmaxInit
  <2>2. kernel # "finalize"
    BY DEF ArgmaxInit
  <2>3. \A b \in DOMAIN stage : ~(stage[b][0] > LastStage)
    BY <1>1, <1>3, <1>5
  <2> QED BY <2>1, <2>2, <2>3 DEF PartialInv
<1>8. ResultInv
  BY <1>1, <1>3, <1>5 DEF ArgmaxInit, ResultInv
<1> QED BY <1>4, <1>6, <1>7, <1>8 DEF ArgmaxInv

LEMMA ArgmaxStep ==
  ASSUME ArgmaxAssumptions, ArgmaxInv, [ArgmaxNext]_argmaxVars PROVE ArgmaxInv'
<1>1. CASE UNCHANGED argmaxVars
  <2>1. UNCHANGED <<logits, kernel, stage, shared, partials, result>>
    BY <1>1 DEF argmaxVars
  <2>2. BlocksFor(Elements)' = BlocksFor(Elements) /\ Blocks(kernel)' = Blocks(kernel)
    BY <2>1, HoldsAsBefore DEF Blocks
  <2>3. ArgmaxTyped'
    BY <2>1, <2>2 DEF ArgmaxInv, ArgmaxTyped
  <2>4. CellInv'
    <3>1. \A e, d, v, i :
            Holds(e, Shares(d, Gathered(i, v)))' <=> Holds(e, Shares(d, Gathered(i, v)))
      BY <2>1, HoldsAsBefore DEF Gathered
    <3> QED BY <2>1, <3>1 DEF ArgmaxInv, CellInv
  <2>5. PartialInv' /\ ResultInv'
    BY <2>1, HoldsAsBefore DEF ArgmaxInv, PartialInv, ResultInv
  <2> QED BY <2>3, <2>4, <2>5 DEF ArgmaxInv
<1>2. CASE KernelEnds
  BY <1>2, KernelEndsKeeps
<1>3. ASSUME kernel # "done", NEW b \in DOMAIN stage, NEW t \in Threads,
             Scan(b, t) \/ Halve(b, t) \/ Write(b, t)
      PROVE  ArgmaxInv'
  BY <1>3, ScanKeeps, HalveKeeps, WriteKeeps
<1> QED BY <1>1, <1>2, <1>3 DEF ArgmaxNext

-----------------------------------------------------------------------------
(* Argmax: what follows *)

\* b is the first of the largest of the logits up to k.
FirstUpTo(k, b) ==
  /\ b \in 0..k /\ logits[b] # NaN
  /\ \A i \in 0..k : logits[i] # NaN =>
       logits[i] < logits[b] \/ (logits[i] = logits[b] /\ b <= i)

LEMMA ReferenceIsFirst ==
  ASSUME LogitsKnown, Elements \in Nat \ {0}, DOMAIN logits = 0..(Elements - 1),
         logits[0] # NaN
  PROVE  FirstUpTo(Elements - 1, ReferenceArgmax)
<1> DEFINE n == Elements - 1
           Chosen(i, b) == IF logits[i] # NaN /\ logits[b] # NaN /\ logits[i] > logits[b]
                         THEN i ELSE b
           best == CHOOSE f : f = [i \in 0..n |-> IF i = 0 THEN 0 ELSE
                     IF logits[i] # NaN /\ logits[f[i - 1]] # NaN /\ logits[i] > logits[f[i - 1]]
                     THEN i ELSE f[i - 1]]
<1>1. ReferenceArgmax = best[n]
  BY DEF ReferenceArgmax
<1>2. n \in Nat /\ \A i \in 0..n : logits[i] \in Int
  BY DEF LogitsKnown
<1> HIDE DEF n
<1>3. best = [i \in 0..n |-> IF i = 0 THEN 0 ELSE
                IF logits[i] # NaN /\ logits[best[i - 1]] # NaN /\ logits[i] > logits[best[i - 1]]
                THEN i ELSE best[i - 1]]
  <2> DEFINE g == [k \in 1..n |-> [b \in 0..n |-> Chosen(k, b)]]
  <2>1. g \in [1..n -> [0..n -> 0..n]] /\ 0 \in 0..n
    BY <1>2
  <2>2. PICK f \in [0..n -> 0..n] : TakesSteps(f, n, 0, g)
    <3> HIDE DEF g
    <3> QED BY <1>2, <2>1, BoundedRecursion
  <2>3. ASSUME NEW k \in 0..n PROVE f[k] = IF k = 0 THEN 0 ELSE Chosen(k, f[k - 1])
    <3> HIDE DEF Chosen
    <3>1. k # 0 => k \in 1..n /\ k - 1 \in 0..n
      BY <1>2
    <3>2. k # 0 => f[k - 1] \in 0..n
      BY <3>1
    <3>3. k # 0 => g[k][f[k - 1]] = Chosen(k, f[k - 1])
      BY <3>1, <3>2
    <3> QED BY <2>2, <3>1, <3>3 DEF TakesSteps
  <2>4. f = [k \in 0..n |-> IF k = 0 THEN 0 ELSE Chosen(k, f[k - 1])]
    <3>1. f = [k \in 0..n |-> f[k]]
      OBVIOUS
    <3> HIDE DEF Chosen
    <3> QED BY <2>3, <3>1
  <2> QED BY <2>4
<1> HIDE DEF best
<1> DEFINE P == {k \in 0..n : FirstUpTo(k, best[k])}
<1>4. 0 \in P
  <2>1. best[0] = 0 /\ \A i \in 0..0 : i = 0
    BY <1>2, <1>3
  <2> QED BY <1>2, <2>1 DEF FirstUpTo
<1>5. ASSUME NEW k \in 1..n, k - 1 \in P PROVE k \in P
  <2> DEFINE b == best[k - 1]
  <2>1. best[k] = Chosen(k, b)
    BY <1>2, <1>3, SMTT(30)
  <2>2. /\ b \in 0..(k - 1) /\ logits[b] # NaN
        /\ \A i \in 0..(k - 1) : logits[i] # NaN =>
             logits[i] < logits[b] \/ (logits[i] = logits[b] /\ b <= i)
    BY <1>5 DEF FirstUpTo
  <2> HIDE DEF b
  <2>3. /\ b \in 0..n /\ logits[b] \in Int /\ logits[k] \in Int /\ b < k /\ b \in 0..k
        /\ \A i \in 0..k : logits[i] \in Int /\ (i \in 0..(k - 1) \/ i = k)
    BY <1>2, <2>2
  <2>4. CASE logits[k] # NaN /\ logits[k] > logits[b]
    <3>1. best[k] = k
      BY <2>1, <2>2, <2>4
    <3>2. \A i \in 0..k : logits[i] # NaN =>
            logits[i] < logits[k] \/ (logits[i] = logits[k] /\ k <= i)
      BY <2>2, <2>3, <2>4
    <3> QED BY <2>4, <3>1, <3>2 DEF FirstUpTo
  <2>5. CASE ~(logits[k] # NaN /\ logits[k] > logits[b])
    <3>1. best[k] = b
      BY <2>1, <2>5
    <3>2. \A i \in 0..k : logits[i] # NaN =>
            logits[i] < logits[b] \/ (logits[i] = logits[b] /\ b <= i)
      BY <2>2, <2>3, <2>5
    <3> QED BY <2>2, <2>3, <3>1, <3>2 DEF FirstUpTo
  <2> QED BY <2>4, <2>5
<1>6. n \in P
  <2> HIDE DEF P
  <2>1. n \in Nat /\ n \in 0..n
    BY <1>2
  <2>2. \A k \in 0..n : k \in P
    BY <1>4, <1>5, <2>1, BoundedInduction
  <2> QED BY <2>1, <2>2
<1> QED BY <1>1, <1>6 DEF n

LEMMA BestIsFirst ==
  ASSUME ArgmaxAssumptions, ArgmaxInv PROVE FirstOfLargest
<1> SUFFICES ASSUME kernel = "done" PROVE FirstOfLargest
  BY DEF FirstOfLargest
<1> DEFINE n == Elements - 1
<1>1. /\ LogitsKnown /\ n \in Nat /\ DOMAIN logits = 0..n /\ Elements \in Nat \ {0}
      /\ \A i \in 0..n : logits[i] \in Int
      /\ \A i \in 0..n : logits[i] \in Nat \cup {NaN, Infinite}
  BY LogitsTyped DEF ArgmaxAssumptions, ArgmaxInv, ArgmaxTyped, LogitsKnown, LogitsAssumption
<1>2. PICK p \in Find : Holds(p, DOMAIN logits) /\ result = p[2]
  BY DEF ArgmaxInv, ResultInv
<1> HIDE DEF n
<1>3. logits[0] # NaN => FirstUpTo(n, ReferenceArgmax)
  BY <1>1, ReferenceIsFirst DEF n
<1> DEFINE r == ReferenceArgmax
<1> HIDE DEF r
<1>4. CASE p = Nothing
  <2>1. result = 0 /\ \A i \in 0..n : logits[i] \in {NaN, Infinite}
    <3>1. ASSUME NEW i \in 0..n PROVE logits[i] \in {NaN, Infinite}
      <4>1. ~Precedes(<<logits[i], i>>, Nothing)
        BY <1>1, <1>2, <1>4 DEF Holds
      <4> QED BY <1>1, <4>1 DEF Precedes, Nothing, NaN, Infinite
    <3> QED BY <1>2, <1>4, <3>1 DEF Nothing
  <2>2. logits[0] # NaN => r = 0
    BY <1>1, <1>3, <2>1 DEF FirstUpTo, NaN, Infinite, r
  <2>3. 0 \in 0..n
    BY <1>1
  <2> QED BY <1>1, <2>1, <2>2, <2>3 DEF FirstOfLargest, NaN, Infinite, r
<1>5. CASE p # Nothing
  <2>1. PICK k \in 0..n : p = <<logits[k], k>>
    BY <1>1, <1>2, <1>5 DEF Holds
  <2>2. /\ result = k /\ logits[k] # NaN
        /\ \A i \in 0..n : logits[i] # NaN =>
             logits[i] < logits[k] \/ (logits[i] = logits[k] /\ k <= i)
    <3>1. result = k /\ logits[k] # NaN
      BY <1>2, <2>1 DEF Holds
    <3>2. ASSUME NEW i \in 0..n, logits[i] # NaN
          PROVE  logits[i] < logits[k] \/ (logits[i] = logits[k] /\ k <= i)
      <4>1. ~Precedes(<<logits[i], i>>, <<logits[k], k>>)
        BY <1>1, <1>2, <2>1 DEF Holds
      <4>2. logits[i] \in Int /\ logits[k] \in Int /\ i \in Int /\ k \in Int
        BY <1>1
      <4> QED BY <3>1, <3>2, <4>1, <4>2 DEF Precedes
    <3> QED BY <3>1, <3>2
  <2>3. logits[0] # NaN => r = k
    <3> SUFFICES ASSUME logits[0] # NaN PROVE r = k
      OBVIOUS
    <3>1. FirstUpTo(n, r)
      BY <1>3 DEF r
    <3> QED BY <1>1, <2>2, <3>1 DEF FirstUpTo
  <2>4. \A i \in 0..n : ~(logits[i] > logits[k])
    BY <1>1, <2>2 DEF NaN, Infinite
  <2> QED BY <1>1, <2>2, <2>3, <2>4 DEF FirstOfLargest, r
<1> QED BY <1>4, <1>5

\* Two threads of a block that both may run are at the same stage, and at no stage do two
\* threads reach into the same cell.
LEMMA ThreadsDoNotRace ==
  ASSUME ArgmaxAssumptions, ArgmaxInv PROVE NoRace
<1> SUFFICES ASSUME NEW b \in DOMAIN stage, NEW t \in Threads, NEW u \in Threads,
                    t # u, Ready(b, t, stage[b][t]), Ready(b, u, stage[b][u]),
                    stage[b][t] <= LastStage, stage[b][u] <= LastStage
             PROVE  Writes(t, stage[b][t])
                      \cap (Reads(u, stage[b][u]) \cup Writes(u, stage[b][u])) = {}
  BY DEF NoRace
<1>1. stage[b][t] \in Nat \ {0} /\ stage[b][u] \in Nat \ {0} /\ LastStage \in Nat /\ LastStage > 2
  BY Halving DEF ArgmaxAssumptions, ArgmaxInv, ArgmaxTyped
<1> DEFINE s == stage[b][t]
<1>2. stage[b][u] = s
  BY <1>1 DEF Ready
<1>3. t \in Nat /\ u \in Nat
  BY Halving DEF ArgmaxAssumptions, Threads
<1> HIDE DEF s
<1>4. Writes(t, s) \cap (Reads(u, s) \cup Writes(u, s)) = {}
  <2>1. CASE s = 1
    BY <1>1, <2>1 DEF Reads, Writes
  <2>2. CASE s \in 2..(LastStage - 1)
    <3>1. Stride(s) \in Nat
      BY <1>1, <2>2, Halving DEF ArgmaxAssumptions
    <3> QED BY <1>1, <1>3, <2>2, <3>1 DEF Reads, Writes
  <2>3. CASE s \notin 1..(LastStage - 1)
    <3>1. Writes(t, s) = {}
      BY <1>1, <2>3 DEF Writes, s
    <3> QED BY <3>1
  <2> QED BY <1>1, <2>1, <2>2, <2>3 DEF s
<1> QED BY <1>2, <1>4 DEF s

\* Whatever the order of the threads and of the blocks, and however many there are of
\* both, the token chosen is the first of the largest logits, and no thread of
\* argmax_finalize_kernel or of a kernel before it touches a cell another may write.
THEOREM ArgmaxChoosesFirst ==
  ASSUME BlockAssumption, GridAssumption, LogitsAssumption
  PROVE  ArgmaxSpec => []ArgmaxIsFirst
<1>1. ArgmaxAssumptions
  BY DEF ArgmaxAssumptions
<1>2. ArgmaxInit => ArgmaxInv
  BY <1>1, ArgmaxStarts
<1>3. ArgmaxInv /\ [ArgmaxNext]_argmaxVars => ArgmaxInv'
  BY <1>1, ArgmaxStep
<1>4. ArgmaxInv => ArgmaxIsFirst
  BY <1>1, BestIsFirst, ThreadsDoNotRace DEF ArgmaxIsFirst
<1> QED BY <1>2, <1>3, <1>4, PTL DEF ArgmaxSpec

-----------------------------------------------------------------------------
(* Norms: sums of elements, and the threads that have them *)

\* No thread is gathered from both halves.
LEMMA GatheredApart ==
  ASSUME BlockAssumption, NEW s \in 2..(LastStage - 1), NEW t \in Nat
  PROVE  Gathered(s - 1, t) \cap Gathered(s - 1, t + Stride(s)) = {}
<1> DEFINE w == Stride(s)
<1>1. w \in Nat \ {0} /\ Stride(s - 1) = 2 * w
  <2>1. s \in 1..(LastStage - 1)
    OBVIOUS
  <2> QED BY <2>1, Halving
<1> HIDE DEF w
<1> SUFFICES ASSUME NEW k \in Nat, NEW m \in Nat, t + k * (2 * w) = t + w + m * (2 * w)
             PROVE  FALSE
  BY <1>1 DEF Gathered, w
<1>2. k * (2 * w) = w * (2 * k) /\ m * (2 * w) = w * (2 * m)
  BY <1>1, SMT
<1>3. w * (2 * k) = w * (2 * m + 1)
  <2>1. w * (2 * m + 1) = w * (2 * m) + w /\ w * (2 * k) \in Nat /\ w * (2 * m) \in Nat
    BY <1>1, SMT
  <2> QED BY <1>1, <1>2, <2>1
<1>4. CASE k <= m
  <2>1. w * (2 * k) <= w * (2 * m) /\ w * (2 * m) \in Nat
    BY <1>1, <1>4, Grows
  <2>2. w * (2 * m + 1) = w * (2 * m) + w
    BY <1>1, SMT
  <2> QED BY <1>1, <1>3, <2>1, <2>2
<1>5. CASE m < k
  <2>1. w * (2 * m + 2) <= w * (2 * k) /\ w * (2 * k) \in Nat
    BY <1>1, <1>5, Grows
  <2>2. w * (2 * m + 2) = w * (2 * m + 1) + w
    BY <1>1, SMT
  <2> QED BY <1>1, <1>3, <2>1, <2>2
<1> QED BY <1>4, <1>5

\* The sum of some elements, each added once.
SumOf(I) == [x \in {Given(i) : i \in I} |-> 1]

\* The elements of some threads.
ElementsOf(U) == {i \in Indices : i % BlockSize \in U}

LEMMA SumsAdd ==
  ASSUME NEW I, NEW J, I \cap J = {}
  PROVE  Plus(SumOf(I), SumOf(J)) = SumOf(I \cup J)
<1>1. \A i, j : Given(i) = Given(j) => i = j
  BY DEF Given
<1>2. /\ DOMAIN SumOf(I) = {Given(i) : i \in I} /\ DOMAIN SumOf(J) = {Given(i) : i \in J}
      /\ \A x \in DOMAIN SumOf(I) : SumOf(I)[x] = 1
      /\ \A x \in DOMAIN SumOf(J) : SumOf(J)[x] = 1
  BY DEF SumOf
<1>3. DOMAIN SumOf(I) \cap DOMAIN SumOf(J) = {}
  BY <1>1, <1>2
<1>4. DOMAIN SumOf(I) \cup DOMAIN SumOf(J) = {Given(i) : i \in I \cup J}
  BY <1>2
<1>5. \A x \in {Given(i) : i \in I \cup J} : Count(SumOf(I), x) + Count(SumOf(J), x) = 1
  BY <1>2, <1>3, <1>4 DEF Count
<1>6. Plus(SumOf(I), SumOf(J))
        = [x \in {Given(i) : i \in I \cup J} |-> Count(SumOf(I), x) + Count(SumOf(J), x)]
  BY <1>4 DEF Plus
<1> HIDE DEF Given
<1>7. SumOf(I \cup J) = [x \in {Given(i) : i \in I \cup J} |-> 1]
  BY DEF SumOf
<1> QED BY <1>5, <1>6, <1>7

Givens == [i \in Indices |-> Given(i)]

NormTyped ==
  /\ kind \in {"norm", "turn", "in_place"} /\ size \in Sizes
  /\ stages \in [Threads -> Nat \ {0}]
  /\ cursor \in [Threads -> Nat] /\ \A t \in Threads : cursor[t] % BlockSize = t
  /\ DOMAIN sums = Threads /\ DOMAIN array = Indices /\ DOMAIN output = Indices

\* As CellInv of the argmax, for sums.
SumInv ==
  \A t \in Threads, j \in 1..(LastStage - 1) :
    /\ j < stages[t] /\ t < Stride(j)
    /\ j = stages[t] - 1 \/ t >= Stride(j + 1)
    => sums[t] = SumOf(ElementsOf(Gathered(j, t)))

\* Once the first thread has added everything, the sum stays.
WholeInv == stages[0] >= LastStage => sums[0] = SumOf(Indices)

\* Nothing is scaled in place while a thread may still read what was given.
GivenInv ==
  kind # "in_place" \/ (\E t \in Threads : stages[t] < LastStage) => array = Givens

\* What the cursor of its thread has passed is made, and nothing else is.
MadeInv ==
  /\ \A i \in Indices :
       IF i < cursor[i % BlockSize]
       THEN (IF kind = "in_place" THEN array ELSE output)[i] = ScaledAs(i, SumOf(Indices), Givens)
       ELSE array[i] = Given(i)
  /\ \A t \in Threads : stages[t] > LastStage => cursor[t] \notin Indices

NormInv == NormTyped /\ SumInv /\ WholeInv /\ GivenInv /\ MadeInv

NormAssumptions == BlockAssumption /\ SizeAssumption

\* The elements and the threads there are.
LEMMA NormFacts ==
  ASSUME NormAssumptions, size \in Sizes
  PROVE  /\ size \in Nat \ {0} /\ 0 \in Threads /\ BlockSize \in Nat \ {0}
         /\ Indices \subseteq Nat /\ \A i \in Nat : i \in Indices <=> i < size
         /\ \A i \in Nat : i % BlockSize \in Threads
         /\ Threads \subseteq Nat
<1>1. size \in Nat \ {0} /\ BlockSize \in Nat \ {0}
  BY Halving DEF NormAssumptions, SizeAssumption
<1>2. \A i \in Nat : i % BlockSize \in 0..(BlockSize - 1)
  BY <1>1, Division
<1> QED BY <1>1, <1>2 DEF Indices, Threads

\* The next element of a thread.
LEMMA NextElement ==
  ASSUME NEW b \in Nat \ {0}, NEW c \in Nat
  PROVE  /\ (c + b) % b = c % b
         /\ \A i \in Nat : i % b = c % b /\ c <= i /\ i < c + b => i = c
<1> DEFINE q == c \div b
           r == c % b
<1>1. q \in Nat /\ r \in 0..(b - 1) /\ c = b * q + r
  BY Division
<1> HIDE DEF q, r
<1>2. c + b = (q + 1) * b + r
  <2>1. (q + 1) * b = b * q + b /\ b * q \in Nat
    BY <1>1, SMT
  <2> QED BY <1>1, <2>1
<1>3. (c + b) % b = r
  BY <1>1, <1>2, DivisionUnique
<1>4. ASSUME NEW i \in Nat, i % b = r, c <= i, i < c + b PROVE i = c
  <2> DEFINE p == i \div b
  <2>1. p \in Nat /\ i = b * p + r
    BY <1>4, Division
  <2> HIDE DEF p
  <2>2. b * p \in Nat /\ b * q \in Nat /\ b * (q + 1) = b * q + b /\ b * (p + 1) = b * p + b
    BY <1>1, <2>1, SMT
  <2>3. CASE p < q
    <3>1. b * (p + 1) <= b * q
      BY <1>1, <2>1, <2>3, Grows
    <3> QED BY <1>1, <1>4, <2>1, <2>2, <3>1
  <2>4. CASE q < p
    <3>1. b * (q + 1) <= b * p
      BY <1>1, <2>1, <2>4, Grows
    <3> QED BY <1>1, <1>4, <2>1, <2>2, <3>1
  <2> QED BY <1>1, <2>1, <2>3, <2>4
<1> QED BY <1>3, <1>4 DEF r

\* What is given does not depend on what the threads do.
LEMMA GivensAsBefore ==
  ASSUME size' = size
  PROVE  /\ Indices' = Indices /\ Givens' = Givens
         /\ \A U : ElementsOf(U)' = ElementsOf(U)
         /\ \A t, j : Gathered(j, t)' = Gathered(j, t)
         /\ \A I : SumOf(I)' = SumOf(I)
         /\ kind' = kind => \A i : ScaledAs(i, SumOf(Indices), Givens)' = ScaledAs(i, SumOf(Indices), Givens)
<1>1. Indices' = Indices
  BY DEF Indices
<1>2. Givens' = Givens
  BY <1>1 DEF Givens, Given
<1>3. \A U : ElementsOf(U)' = ElementsOf(U)
  BY <1>1 DEF ElementsOf
<1>4. \A t, j : Gathered(j, t)' = Gathered(j, t)
  BY DEF Gathered
<1>5. \A I : SumOf(I)' = SumOf(I)
  BY DEF SumOf, Given
<1>6. SumOf(Indices)' = SumOf(Indices)
  BY <1>1 DEF SumOf, Given
<1>7. ASSUME kind' = kind, NEW i
      PROVE  ScaledAs(i, SumOf(Indices), Givens)' = ScaledAs(i, SumOf(Indices), Givens)
  <2>1. Partner(i)' = Partner(i)
    BY DEF Partner
  <2> QED BY <1>2, <1>6, <1>7, <2>1 DEF ScaledAs
<1> QED BY <1>1, <1>2, <1>3, <1>4, <1>5, <1>7

\* Adding up: what a thread leaves in its cell keeps the invariant.
LEMMA SumsKeep ==
  ASSUME NormAssumptions, NormInv, NEW t \in Threads, NEW s \in 1..(LastStage - 1),
         MayRun(t, s), Pass(t), UNCHANGED <<kind, size, cursor, array, output>>, NEW x,
         \/ sums' = [sums EXCEPT ![t] = x] /\ t < Stride(s) /\ x = SumOf(ElementsOf(Gathered(s, t)))
         \/ sums' = sums /\ ~(t < Stride(s))
  PROVE  NormInv'
<1>1. /\ stages \in [Threads -> Nat \ {0}] /\ DOMAIN sums = Threads /\ size \in Sizes
      /\ cursor \in [Threads -> Nat]
  BY DEF NormInv, NormTyped
<1>2. LastStage \in Nat /\ s \in Nat /\ s < LastStage
  BY Halving DEF NormAssumptions
<1>3. stages[t] = s /\ stages' = [stages EXCEPT ![t] = s + 1]
  BY DEF MayRun, Pass
<1>4. NormTyped'
  <2>1. stages' \in [Threads -> Nat \ {0}] /\ DOMAIN sums' = Threads
    BY <1>1, <1>2, <1>3
  <2> QED BY <2>1, GivensAsBefore DEF NormInv, NormTyped
<1>5. SumInv'
  <2> SUFFICES ASSUME NEW u \in Threads, NEW j \in 1..(LastStage - 1),
                      j < stages'[u], u < Stride(j), j = stages'[u] - 1 \/ u >= Stride(j + 1)
               PROVE  sums'[u] = SumOf(ElementsOf(Gathered(j, u)))
    <3>1. \A v, i : SumOf(ElementsOf(Gathered(i, v)))' = SumOf(ElementsOf(Gathered(i, v)))
      BY GivensAsBefore DEF SumOf, Given
    <3> QED BY <3>1 DEF SumInv
  <2>1. CASE u = t /\ t < Stride(s)
    <3>1. sums'[t] = SumOf(ElementsOf(Gathered(s, t)))
      BY <1>1, <2>1
    <3>2. j = s
      <4> SUFFICES ASSUME j < s, t >= Stride(j + 1) PROVE FALSE
        BY <1>1, <1>2, <1>3, <2>1
      <4>1. s \in 1..(LastStage - 1) /\ j + 1 \in 1..s /\ j + 1 \in 1..(LastStage - 1)
        BY <1>2
      <4>2. Stride(s) <= Stride(j + 1) /\ Stride(s) \in Nat /\ Stride(j + 1) \in Nat
        BY <4>1, StridesShrink, Halving DEF NormAssumptions
      <4>3. t \in Nat
        BY <1>1, NormFacts
      <4> QED BY <2>1, <4>2, <4>3
    <3> QED BY <2>1, <3>1, <3>2
  <2>2. CASE u = t /\ ~(t < Stride(s))
    <3>1. sums' = sums /\ j # s
      BY <2>2
    <3>2. j < stages[u] /\ (j = stages[u] - 1 \/ u >= Stride(j + 1))
      BY <1>1, <1>2, <1>3, <2>2, <3>1
    <3> QED BY <3>1, <3>2 DEF NormInv, SumInv
  <2>3. CASE u # t
    <3>1. stages'[u] = stages[u] /\ sums'[u] = sums[u]
      BY <1>1, <1>3, <2>3
    <3> QED BY <3>1 DEF NormInv, SumInv
  <2> QED BY <2>1, <2>2, <2>3
<1>6. WholeInv'
  <2>0. SumOf(Indices)' = SumOf(Indices) /\ 0 \in Threads
    BY <1>1, NormFacts, GivensAsBefore DEF SumOf, Given
  <2> SUFFICES ASSUME stages'[0] >= LastStage PROVE sums'[0] = SumOf(Indices)
    BY <2>0 DEF WholeInv
  <2>1. CASE t = 0
    <3>1. stages'[0] = LastStage /\ s = LastStage - 1
      BY <1>1, <1>2, <1>3, <2>1
    <3>2. 0 < Stride(LastStage - 1)
      BY Halving DEF NormAssumptions
    <3>3. x = SumOf(ElementsOf(Threads)) /\ sums'[0] = x
      BY <1>1, <2>1, <3>1, <3>2, GatheredAtLast DEF NormAssumptions
    <3>4. ElementsOf(Threads) = Indices
      BY <1>1, NormFacts DEF ElementsOf
    <3> QED BY <3>3, <3>4
  <2>2. CASE t # 0
    <3>1. stages'[0] = stages[0] /\ sums'[0] = sums[0]
      BY <1>1, <1>3, <2>0, <2>2
    <3> QED BY <3>1 DEF NormInv, WholeInv
  <2> QED BY <2>1, <2>2
<1>7. GivenInv'
  <2>1. array = Givens
    BY <1>1, <1>2, <1>3 DEF NormInv, GivenInv
  <2> QED BY <2>1, GivensAsBefore DEF GivenInv
<1>8. MadeInv'
  <2>1. \A u \in Threads : stages'[u] > LastStage => stages[u] > LastStage
    BY <1>1, <1>2, <1>3
  <2> QED BY <2>1, GivensAsBefore DEF NormInv, MadeInv, Given
<1> QED BY <1>4, <1>5, <1>6, <1>7, <1>8 DEF NormInv

LEMMA SquareKeeps ==
  ASSUME NormAssumptions, NormInv, NEW t \in Threads, Square(t) PROVE NormInv'
<1>1. 1 \in 1..(LastStage - 1) /\ t < Stride(1) /\ 1 < LastStage
  BY Halving DEF NormAssumptions, Threads
<1>2. array = Givens
  BY <1>1 DEF NormInv, GivenInv, Square, MayRun
<1>3. {array[i] : i \in Mine(t)} = {Given(i) : i \in ElementsOf({t})}
  BY <1>2 DEF Mine, ElementsOf, Givens
<1>4. Gathered(1, t) = {t}
  BY GatheredAtFirst DEF NormAssumptions
<1>5. sums' = [sums EXCEPT ![t] = SumOf(ElementsOf(Gathered(1, t)))]
  BY <1>3, <1>4 DEF Square, SumOf
<1> QED BY <1>1, <1>5, SumsKeep DEF Square

LEMMA AddHalfKeeps ==
  ASSUME NormAssumptions, NormInv, NEW t \in Threads, AddHalf(t) PROVE NormInv'
<1>1. PICK s \in 2..(LastStage - 1) :
        /\ MayRun(t, s) /\ Pass(t)
        /\ sums' = IF Adds(t, s) THEN [sums EXCEPT ![t] = Plus(@, sums[t + Stride(s)])] ELSE sums
        /\ UNCHANGED <<kind, size, cursor, array, output>>
  BY DEF AddHalf
<1>2. /\ LastStage \in Nat /\ s \in 1..(LastStage - 1) /\ s - 1 \in 1..(LastStage - 1)
      /\ s - 1 + 1 = s /\ s \in Nat
  <2>1. LastStage \in Nat
    BY Halving DEF NormAssumptions
  <2> QED BY <2>1
<1>3. CASE ~(t < Stride(s))
  BY <1>1, <1>2, <1>3, SumsKeep DEF Adds
<1>4. CASE t < Stride(s)
  <2> DEFINE w == Stride(s)
             u == t + w
  <2>1. w \in Nat \ {0} /\ Stride(s - 1) = 2 * w /\ 2 * w <= BlockSize /\ t \in Nat
    <3>1. Stride(s) \in Nat \ {0} /\ Stride(s - 1) <= BlockSize /\ Stride(s - 1) = 2 * Stride(s)
      BY <1>2, Halving DEF NormAssumptions
    <3> QED BY <3>1, NormFacts DEF NormInv, NormTyped
  <2> HIDE DEF w
  <2>2. u \in Threads /\ u < Stride(s - 1) /\ u >= Stride(s) /\ t < Stride(s - 1) /\ u # t
    <3>1. BlockSize \in Nat /\ t < w
      BY <1>4, Halving DEF NormAssumptions, w
    <3> QED BY <2>1, <3>1 DEF Threads, w
  <2> HIDE DEF u
  <2>3. stages[t] = s /\ stages[u] >= s /\ stages[u] \in Nat
    BY <1>1, <2>2 DEF MayRun, NormInv, NormTyped
  <2>4. sums[t] = SumOf(ElementsOf(Gathered(s - 1, t)))
    <3>1. s - 1 < stages[t] /\ s - 1 = stages[t] - 1
      BY <1>2, <2>3
    <3> QED BY <1>2, <2>2, <3>1 DEF NormInv, SumInv
  <2>5. sums[u] = SumOf(ElementsOf(Gathered(s - 1, u)))
    <3>1. s - 1 < stages[u] /\ u >= Stride(s - 1 + 1)
      BY <1>2, <2>2, <2>3
    <3> QED BY <1>2, <2>2, <3>1 DEF NormInv, SumInv
  <2>6. /\ Gathered(s, t) = Gathered(s - 1, t) \cup Gathered(s - 1, u)
        /\ Gathered(s - 1, t) \cap Gathered(s - 1, u) = {}
    BY <2>1, GatheredInHalves, GatheredApart DEF NormAssumptions, u, w
  <2>7. Plus(sums[t], sums[u]) = SumOf(ElementsOf(Gathered(s, t)))
    <3> DEFINE I == ElementsOf(Gathered(s - 1, t))
               J == ElementsOf(Gathered(s - 1, u))
    <3>1. I \cap J = {} /\ I \cup J = ElementsOf(Gathered(s, t))
      BY <2>6 DEF ElementsOf
    <3> HIDE DEF I, J
    <3>2. Plus(SumOf(I), SumOf(J)) = SumOf(I \cup J)
      BY <3>1, SumsAdd
    <3> QED BY <2>4, <2>5, <3>1, <3>2 DEF I, J
  <2>8. sums' = [sums EXCEPT ![t] = SumOf(ElementsOf(Gathered(s, t)))]
    <3>1. sums' = [sums EXCEPT ![t] = Plus(sums[t], sums[u])]
      BY <1>1, <1>4 DEF Adds, NormInv, NormTyped, u, w
    <3> QED BY <2>7, <3>1
  <2> QED BY <1>1, <1>2, <1>4, <2>8, SumsKeep
<1> QED BY <1>3, <1>4

\* Scaling: all threads have added up what they have, and each makes its own elements.
LEMMA ScaleKeeps ==
  ASSUME NormAssumptions, NormInv, NEW t \in Threads, Scale(t) PROVE NormInv'
<1> DEFINE c == cursor[t]
           made == ScaledAs(c, SumOf(Indices), Givens)
<1>1. /\ stages \in [Threads -> Nat \ {0}] /\ size \in Sizes /\ size \in Nat
      /\ cursor \in [Threads -> Nat] /\ c % BlockSize = t /\ c \in Nat
      /\ LastStage \in Nat /\ BlockSize \in Nat \ {0} /\ 0 \in Threads
      /\ DOMAIN array = Indices /\ DOMAIN output = Indices
      /\ \A i \in Indices : i \in Nat /\ i % BlockSize \in Threads
  BY NormFacts, Halving DEF NormInv, NormTyped, NormAssumptions
<1>2. /\ c \in Indices /\ UNCHANGED <<kind, size, stages, sums>>
      /\ cursor' = [cursor EXCEPT ![t] = c + BlockSize]
      /\ \A u \in Threads : stages[u] >= LastStage
  BY DEF Scale, MayRun
<1>3. sums[0] = SumOf(Indices)
  BY <1>1, <1>2 DEF NormInv, WholeInv
<1>4. array[c] = Given(c)
  <2>1. ~(c < cursor[c % BlockSize])
    BY <1>1
  <2> QED BY <1>2, <2>1 DEF NormInv, MadeInv
<1>5. ScaledAs(c, sums[0], array) = made
  <2>1. CASE kind = "turn"
    <3>1. array = Givens
      BY <2>1 DEF NormInv, GivenInv
    <3> QED BY <1>3, <3>1
  <2>2. CASE kind # "turn"
    <3>1. Givens[c] = Given(c)
      BY <1>2 DEF Givens
    <3> QED BY <1>3, <1>4, <2>2, <3>1 DEF ScaledAs
  <2> QED BY <2>1, <2>2
<1> HIDE DEF made
<1>6. IF kind = "in_place"
      THEN array' = [array EXCEPT ![c] = made] /\ output' = output
      ELSE output' = [output EXCEPT ![c] = made] /\ array' = array
  BY <1>5 DEF Scale, InPlace
<1> HIDE DEF c
<1>7. NormTyped'
  <2>1. (c + BlockSize) % BlockSize = t /\ c + BlockSize \in Nat
    <3>1. (c + BlockSize) % BlockSize = c % BlockSize
      BY <1>1, NextElement
    <3>2. c + BlockSize \in Nat
      BY <1>1
    <3> QED BY <1>1, <3>1, <3>2
  <2>2. cursor' \in [Threads -> Nat] /\ \A u \in Threads : cursor'[u] % BlockSize = u
    BY <1>1, <1>2, <2>1 DEF NormInv, NormTyped
  <2>3. DOMAIN array' = Indices /\ DOMAIN output' = Indices
    BY <1>1, <1>6
  <2> QED BY <1>2, <2>2, <2>3, GivensAsBefore DEF NormInv, NormTyped
<1>8. SumInv' /\ WholeInv'
  <2>1. \A v, i : SumOf(ElementsOf(Gathered(i, v)))' = SumOf(ElementsOf(Gathered(i, v)))
    BY <1>2, GivensAsBefore DEF SumOf, Given
  <2>2. SumOf(Indices)' = SumOf(Indices)
    BY <1>2, GivensAsBefore DEF SumOf, Given
  <2> QED BY <1>2, <2>1, <2>2 DEF NormInv, SumInv, WholeInv
<1>9. GivenInv'
  <2>1. ~ \E u \in Threads : stages[u] < LastStage
    BY <1>1, <1>2
  <2>2. kind # "in_place" => array' = Givens
    BY <1>6 DEF NormInv, GivenInv
  <2> QED BY <1>2, <2>1, <2>2, GivensAsBefore DEF GivenInv
<1>10. MadeInv'
  <2>1. ASSUME NEW i \in Indices
        PROVE  IF i < cursor'[i % BlockSize]
               THEN (IF kind = "in_place" THEN array' ELSE output')[i]
                      = ScaledAs(i, SumOf(Indices), Givens)
               ELSE array'[i] = Given(i)
    <3>1. IF i < cursor[i % BlockSize]
          THEN (IF kind = "in_place" THEN array ELSE output)[i] = ScaledAs(i, SumOf(Indices), Givens)
          ELSE array[i] = Given(i)
      BY DEF NormInv, MadeInv
    <3>2. CASE i = c
      <4>1. i < cursor'[i % BlockSize]
        BY <1>1, <1>2, <3>2
      <4>2. (IF kind = "in_place" THEN array' ELSE output')[i] = made
        BY <1>1, <1>2, <1>6, <3>2
      <4> QED BY <3>2, <4>1, <4>2 DEF made
    <3>3. CASE i # c
      <4>1. array'[i] = array[i] /\ output'[i] = output[i]
        BY <1>1, <1>6, <3>3
      <4>2. i < cursor'[i % BlockSize] <=> i < cursor[i % BlockSize]
        <5>1. CASE i % BlockSize # t
          BY <1>1, <1>2, <5>1
        <5>2. CASE i % BlockSize = t
          <6>1. cursor[t] = c /\ cursor'[t] = c + BlockSize
            BY <1>1, <1>2 DEF c
          <6>2. ~(c <= i /\ i < c + BlockSize)
            BY <1>1, <3>3, <5>2, NextElement
          <6> QED BY <1>1, <5>2, <6>1, <6>2
        <5> QED BY <5>1, <5>2
      <4> QED BY <3>1, <4>1, <4>2
    <3> QED BY <3>2, <3>3
  <2>2. \A u \in Threads : stages[u] > LastStage => cursor'[u] \notin Indices
    <3> SUFFICES ASSUME NEW u \in Threads, stages[u] > LastStage PROVE cursor'[u] \notin Indices
      OBVIOUS
    <3>1. cursor[u] \notin Indices
      BY DEF NormInv, MadeInv
    <3>2. u # t
      BY <1>2, <3>1 DEF c
    <3> QED BY <1>1, <1>2, <3>1, <3>2
  <2>3. \A i : Given(i)' = Given(i)
    BY DEF Given
  <2>4. Indices' = Indices /\ \A i : ScaledAs(i, SumOf(Indices), Givens)' = ScaledAs(i, SumOf(Indices), Givens)
    BY <1>2, GivensAsBefore
  <2> QED BY <1>2, <2>1, <2>2, <2>3, <2>4 DEF MadeInv
<1> QED BY <1>7, <1>8, <1>9, <1>10 DEF NormInv

LEMMA LeaveKeeps ==
  ASSUME NormAssumptions, NormInv, NEW t \in Threads, Leave(t) PROVE NormInv'
<1>1. /\ stages \in [Threads -> Nat \ {0}] /\ LastStage \in Nat /\ 0 \in Threads /\ size \in Sizes
  BY NormFacts, Halving DEF NormInv, NormTyped, NormAssumptions
<1>2. /\ stages' = [stages EXCEPT ![t] = LastStage + 1] /\ stages[t] = LastStage
      /\ \A u \in Threads : stages[u] >= LastStage
      /\ cursor[t] \notin Indices /\ UNCHANGED <<kind, size, cursor, sums, array, output>>
  BY DEF Leave, MayRun, Pass
<1>3. NormTyped'
  <2>1. stages' \in [Threads -> Nat \ {0}]
    BY <1>1, <1>2
  <2> QED BY <1>2, <2>1, GivensAsBefore DEF NormInv, NormTyped
<1>4. SumInv'
  <2> SUFFICES ASSUME NEW u \in Threads, NEW j \in 1..(LastStage - 1),
                      j < stages'[u], u < Stride(j), j = stages'[u] - 1 \/ u >= Stride(j + 1)
               PROVE  sums[u] = SumOf(ElementsOf(Gathered(j, u)))
    <3>1. \A v, i : SumOf(ElementsOf(Gathered(i, v)))' = SumOf(ElementsOf(Gathered(i, v)))
      BY <1>2, GivensAsBefore DEF SumOf, Given
    <3> QED BY <1>2, <3>1 DEF SumInv
  <2>1. j < stages[u] /\ (j = stages[u] - 1 \/ u >= Stride(j + 1))
    BY <1>1, <1>2
  <2> QED BY <2>1 DEF NormInv, SumInv
<1>5. WholeInv'
  <2>1. SumOf(Indices)' = SumOf(Indices)
    BY <1>2, GivensAsBefore DEF SumOf, Given
  <2> QED BY <1>1, <1>2, <2>1 DEF NormInv, WholeInv
<1>6. GivenInv'
  <2>1. ~ \E u \in Threads : stages'[u] < LastStage
    BY <1>1, <1>2
  <2> QED BY <1>2, <2>1, GivensAsBefore DEF NormInv, GivenInv
<1>7. MadeInv'
  <2>1. \A u \in Threads : stages'[u] > LastStage => cursor[u] \notin Indices
    BY <1>1, <1>2 DEF NormInv, MadeInv
  <2> QED BY <1>2, <2>1, GivensAsBefore DEF NormInv, MadeInv, Given
<1> QED BY <1>3, <1>4, <1>5, <1>6, <1>7 DEF NormInv

LEMMA NormStarts ==
  ASSUME NormAssumptions, NormInit PROVE NormInv
<1>1. /\ size \in Sizes /\ LastStage \in Nat /\ LastStage > 1 /\ 0 \in Threads
      /\ BlockSize \in Nat \ {0} /\ Threads \subseteq Nat /\ Indices \subseteq Nat
  BY NormFacts, Halving DEF NormInit, NormAssumptions
<1>2. \A t \in Threads : t % BlockSize = t
  <2> SUFFICES ASSUME NEW t \in Threads PROVE t % BlockSize = t
    OBVIOUS
  <2>1. t = 0 * BlockSize + t /\ t \in 0..(BlockSize - 1) /\ 0 \in Nat
    BY <1>1 DEF Threads
  <2> QED BY <1>1, <2>1, DivisionUnique
<1>3. NormTyped
  BY <1>1, <1>2 DEF NormInit, NormTyped
<1>4. SumInv /\ WholeInv
  BY <1>1 DEF NormInit, SumInv, WholeInv
<1>5. GivenInv
  BY DEF NormInit, GivenInv, Givens
<1>6. MadeInv
  <2>1. ASSUME NEW i \in Indices PROVE ~(i < cursor[i % BlockSize]) /\ array[i] = Given(i)
    <3>1. /\ i \in Nat /\ i \div BlockSize \in Nat /\ i % BlockSize \in Threads
          /\ i = BlockSize * (i \div BlockSize) + (i % BlockSize)
      BY <1>1, Division DEF Threads
    <3>2. BlockSize * (i \div BlockSize) \in Nat
      BY <1>1, <3>1, SMT
    <3>3. cursor[i % BlockSize] = i % BlockSize /\ i % BlockSize \in Nat
      BY <1>1, <3>1 DEF NormInit
    <3>4. i >= i % BlockSize
      BY <3>1, <3>2, <3>3
    <3> QED BY <3>1, <3>3, <3>4 DEF NormInit
  <2> QED BY <1>1, <2>1 DEF NormInit, MadeInv
<1> QED BY <1>3, <1>4, <1>5, <1>6 DEF NormInv

LEMMA NormScales ==
  ASSUME NormAssumptions, NormInv PROVE ScaledByWhole
<1> SUFFICES ASSUME NormDone, NEW i \in Indices
             PROVE  (IF kind = "in_place" THEN array ELSE output)[i] = ScaledAs(i, SumOf(Indices), Givens)
  BY DEF ScaledByWhole, SumOf, Givens
<1>1. /\ i \in Nat /\ i % BlockSize \in Threads /\ size \in Nat
      /\ \A k \in Nat : k \in Indices <=> k < size
  BY NormFacts DEF NormInv, NormTyped
<1>2. cursor[i % BlockSize] \in Nat /\ cursor[i % BlockSize] \notin Indices
  BY <1>1 DEF NormDone, NormInv, NormTyped, MadeInv
<1>3. i < cursor[i % BlockSize]
  BY <1>1, <1>2
<1> QED BY <1>3 DEF NormInv, MadeInv

\* Every norm is by the whole vector, whatever its size, however many threads there are
\* and whichever are ahead of others, also where the kernel works in place.
THEOREM NormsScaleByWhole ==
  ASSUME BlockAssumption, SizeAssumption
  PROVE  NormSpec => []ScaledByWhole
<1>1. NormAssumptions
  BY DEF NormAssumptions
<1>2. NormInit => NormInv
  BY <1>1, NormStarts
<1>3. NormInv /\ [NormNext]_normVars => NormInv'
  <2> SUFFICES ASSUME NormInv, [NormNext]_normVars PROVE NormInv'
    OBVIOUS
  <2>1. CASE UNCHANGED normVars
    <3>1. UNCHANGED <<kind, size, stages, cursor, sums, array, output>>
      BY <2>1 DEF normVars
    <3>2. \A v, i : SumOf(ElementsOf(Gathered(i, v)))' = SumOf(ElementsOf(Gathered(i, v)))
      BY <3>1, GivensAsBefore DEF SumOf, Given
    <3>3. SumOf(Indices)' = SumOf(Indices)
      BY <3>1, GivensAsBefore DEF SumOf, Given
    <3>4. NormTyped' /\ GivenInv'
      BY <3>1, GivensAsBefore DEF NormInv, NormTyped, GivenInv
    <3>5. SumInv' /\ WholeInv'
      BY <3>1, <3>2, <3>3 DEF NormInv, SumInv, WholeInv
    <3>6. MadeInv'
      BY <3>1, GivensAsBefore DEF NormInv, MadeInv, Given
    <3> QED BY <3>4, <3>5, <3>6 DEF NormInv
  <2>2. ASSUME NEW t \in Threads, Square(t) \/ AddHalf(t) \/ Scale(t) \/ Leave(t) PROVE NormInv'
    BY <1>1, <2>2, SquareKeeps, AddHalfKeeps, ScaleKeeps, LeaveKeeps
  <2> QED BY <2>1, <2>2 DEF NormNext
<1>4. NormInv => ScaledByWhole
  BY <1>1, NormScales
<1> QED BY <1>2, <1>3, <1>4, PTL DEF NormSpec

-----------------------------------------------------------------------------
(* Rows of attention *)

\* The warp that has an element, or a key.
Owner(d) == (d % (Warps * WarpSize)) \div WarpSize

\* What the logit of a key is made of, and the logits of the row.
Whole(k) == Logit(Products(k))
Keys == 0..(keys - 1)
AllLogits == {<<k, Whole(k)>> : k \in Keys}
Probability(k) == <<"p", Whole(k), AllLogits>>
Mixture == {<<k, Probability(k)>> : k \in Keys}

Logiting == {"add", "sum", "next", "end"}
Mixing == {"scan", "soften", "mix", "out"}

RowTyped ==
  /\ dims \in HeadDims /\ keys \in KeyCounts
  /\ warpAt \in [Warp -> Logiting] \cup [Warp -> Mixing]
  /\ key \in [Warp -> Keys] /\ barrier \in [Warp -> Nat]
  /\ DOMAIN cells = Warp /\ DOMAIN row = Keys /\ DOMAIN mixed = 0..(dims - 1)

\* How many barriers a warp has come to tells where it is; one that has gone on
\* from a barrier knows that all have come to it, and none has come to the one after.
BarrierInv ==
  /\ \A w \in Warp :
       /\ warpAt[w] = "add" => barrier[w] = 2 * key[w]
       /\ warpAt[w] = "sum" => barrier[w] = 2 * key[w] + 1
       /\ warpAt[w] \in {"next", "end"} => barrier[w] = 2 * key[w] + 2
       /\ warpAt[w] = "scan" => barrier[w] = 0
       /\ warpAt[w] = "soften" => barrier[w] = 1
       /\ warpAt[w] \in {"mix", "out"} => barrier[w] = 2
  /\ \A w, u \in Warp :
       /\ barrier[w] <= barrier[u] + 1
       /\ warpAt[w] \in {"add", "end"} => barrier[w] <= barrier[u]
  /\ \A w \in Warp : warpAt[w] = "end" => key[w] = keys - 1

\* What a warp has left for the first, and the logits that are stored.
LogitInv ==
  (\A w \in Warp : warpAt[w] \in Logiting) =>
    /\ \A w \in Warp : warpAt[w] \in {"sum", "next"} => cells[w] = {<<key[w], d>> : d \in MyDims(w)}
    /\ \A k \in Keys :
         k < key[0] \/ (k = key[0] /\ warpAt[0] \in {"next", "end"}) => row[k] = Whole(k)
    /\ \A d \in DOMAIN mixed : mixed[d] = {}

\* A logit is itself until its warp has made a probability of it.
MixInv ==
  (\A w \in Warp : warpAt[w] \in Mixing) =>
    /\ warpAt[0] # "scan" => cells[0] = AllLogits
    /\ \A k \in Keys :
         row[k] = IF warpAt[Owner(k)] \in {"mix", "out"} THEN Probability(k) ELSE Whole(k)
    /\ \A d \in DOMAIN mixed : mixed[d] \in {{}, Mixture}

RowInv == RowTyped /\ BarrierInv /\ LogitInv /\ MixInv

RowAssumptions == WarpAssumption /\ RowAssumption

\* Every element and every key is with one of the warps.
LEMMA Owned ==
  ASSUME WarpAssumption, NEW d \in Nat PROVE Owner(d) \in Warp
<1> DEFINE b == Warps * WarpSize
           r == d % b
           q == r \div WarpSize
<1>1. Warps \in Nat \ {0} /\ WarpSize \in Nat \ {0}
  BY DEF WarpAssumption
<1>2. b \in Nat \ {0}
  BY <1>1, SMT
<1> HIDE DEF b
<1>3. r \in 0..(b - 1)
  BY <1>2, Division
<1> HIDE DEF r
<1>4. r \in Nat
  BY <1>2, <1>3
<1>5. q \in Nat /\ r = WarpSize * q + (r % WarpSize) /\ r % WarpSize \in 0..(WarpSize - 1)
  BY <1>1, <1>4, Division
<1> DEFINE m == r % WarpSize
<1> HIDE DEF q, m
<1>6. q < Warps
  <2> SUFFICES ASSUME Warps <= q PROVE FALSE
    BY <1>1, <1>5
  <2>1. WarpSize * Warps <= WarpSize * q /\ WarpSize * Warps \in Nat /\ WarpSize * q \in Nat
    BY <1>1, <1>5, Grows
  <2>2. b = WarpSize * Warps
    BY <1>1, SMT DEF b
  <2>3. m \in Nat /\ r = WarpSize * q + m
    BY <1>1, <1>5 DEF m
  <2> QED BY <1>2, <1>3, <2>1, <2>2, <2>3
<1>7. q \in Warp
  BY <1>1, <1>5, <1>6 DEF Warp
<1> QED BY <1>7 DEF Owner, q, r, b

\* The warps there are, and who has what.
LEMMA RowFacts ==
  ASSUME RowAssumptions, RowTyped
  PROVE  /\ 0 \in Warp /\ dims \in Nat /\ keys \in Nat \ {0} /\ Keys \subseteq Nat
         /\ \A d \in 0..(dims - 1) : Owner(d) \in Warp
         /\ \A w \in Warp : \A d : d \in MyDims(w) <=> d \in 0..(dims - 1) /\ Owner(d) = w
         /\ \A k \in Keys : Owner(k) \in Warp
         /\ \A w \in Warp : \A k : k \in MyKeys(w) <=> k \in Keys /\ Owner(k) = w
         /\ \/ \A w \in Warp : warpAt[w] \in Logiting /\ warpAt[w] \notin Mixing
            \/ \A w \in Warp : warpAt[w] \in Mixing /\ warpAt[w] \notin Logiting
<1>1. dims \in Nat /\ keys \in Nat \ {0} /\ WarpAssumption
  BY DEF RowAssumptions, RowAssumption, RowTyped
<1>2. 0 \in Warp
  BY <1>1 DEF WarpAssumption, Warp
<1>3. \A d \in 0..(dims - 1) : d \in Nat
  BY <1>1
<1>4. \A k \in Keys : k \in Nat
  BY <1>1 DEF Keys
<1>5. /\ \A d \in 0..(dims - 1) : Owner(d) \in Warp
      /\ \A k \in Keys : Owner(k) \in Warp
  BY <1>1, <1>3, <1>4, Owned
<1>6. \A w \in Warp : \A d : d \in MyDims(w) <=> d \in 0..(dims - 1) /\ Owner(d) = w
  BY DEF MyDims, Owner
<1>7. \A w \in Warp : \A k : k \in MyKeys(w) <=> k \in Keys /\ Owner(k) = w
  BY DEF MyKeys, Owner, Keys
<1>8. \/ \A w \in Warp : warpAt[w] \in Logiting /\ warpAt[w] \notin Mixing
      \/ \A w \in Warp : warpAt[w] \in Mixing /\ warpAt[w] \notin Logiting
  BY DEF RowTyped, Logiting, Mixing
<1> QED BY <1>1, <1>2, <1>4, <1>5, <1>6, <1>7, <1>8

LEMMA RowStarts ==
  ASSUME RowAssumptions, RowInit PROVE RowInv
<1>1. dims \in Nat /\ keys \in Nat \ {0} /\ Warps \in Nat \ {0}
  BY DEF RowInit, RowAssumptions, RowAssumption, WarpAssumption
<1>2. 0 \in Keys /\ 0 \in Warp /\ \A k \in Keys : ~(k < 0)
  BY <1>1 DEF Keys, Warp
<1>3. RowTyped
  BY <1>2 DEF RowInit, RowTyped, Logiting, Keys
<1>4. BarrierInv
  BY DEF RowInit, BarrierInv
<1>5. LogitInv
  BY <1>2 DEF RowInit, LogitInv
<1>6. MixInv
  BY <1>2 DEF RowInit, MixInv, Mixing
<1> QED BY <1>3, <1>4, <1>5, <1>6 DEF RowInv

\* What is to be computed does not depend on what the warps do.
LEMMA RowAsBefore ==
  ASSUME UNCHANGED <<dims, keys>>
  PROVE  /\ Keys' = Keys /\ AllLogits' = AllLogits /\ Mixture' = Mixture
         /\ \A k : Whole(k)' = Whole(k) /\ Probability(k)' = Probability(k)
         /\ \A w : MyDims(w)' = MyDims(w) /\ MyKeys(w)' = MyKeys(w)
<1>1. Keys' = Keys
  BY DEF Keys
<1>2. \A k : Whole(k)' = Whole(k)
  BY DEF Whole, Logit, Products
<1>3. AllLogits' = AllLogits
  BY <1>1, <1>2 DEF AllLogits
<1>4. \A k : Probability(k)' = Probability(k)
  BY <1>2, <1>3 DEF Probability
<1>5. Mixture' = Mixture
  BY <1>1, <1>4 DEF Mixture
<1>6. \A w : MyDims(w)' = MyDims(w) /\ MyKeys(w)' = MyKeys(w)
  BY DEF MyDims, MyKeys
<1> QED BY <1>1, <1>2, <1>3, <1>4, <1>5, <1>6

LEMMA AddProductsKeeps ==
  ASSUME RowAssumptions, RowInv, NEW w \in Warp, AddProducts(w) PROVE RowInv'
<1>1. /\ warpAt[w] = "add" /\ \A u \in Warp : barrier[u] >= barrier[w]
      /\ cells' = [cells EXCEPT ![w] = {<<key[w], d>> : d \in MyDims(w)}]
      /\ barrier' = [barrier EXCEPT ![w] = @ + 1] /\ warpAt' = [warpAt EXCEPT ![w] = "sum"]
      /\ UNCHANGED <<dims, keys, key, row, mixed>>
  BY DEF AddProducts, Passed, Arrive, Goto
<1>2. /\ \A u \in Warp : key[u] \in Nat /\ barrier[u] \in Nat
      /\ \A u \in Warp : warpAt[u] \in Logiting
      /\ warpAt \in [Warp -> Logiting]
  BY <1>1, RowFacts DEF RowInv, RowTyped, Logiting, Mixing
<1>3. RowTyped'
  BY <1>1, <1>2, RowAsBefore DEF RowInv, RowTyped, Logiting
<1>4. BarrierInv'
  BY <1>1, <1>2 DEF RowInv, RowTyped, BarrierInv
<1>5. LogitInv'
  BY <1>1, <1>2, RowAsBefore DEF RowInv, RowTyped, LogitInv
<1>6. MixInv'
  BY <1>1, <1>2 DEF MixInv, Mixing
<1> QED BY <1>3, <1>4, <1>5, <1>6 DEF RowInv

\* When the first warp adds up, all warps have left what they have for its key.
LEMMA AllHaveAdded ==
  ASSUME RowAssumptions, RowInv, warpAt[0] = "sum", Passed(0)
  PROVE  \A u \in Warp : warpAt[u] \in {"sum", "next"} /\ key[u] = key[0]
<1> SUFFICES ASSUME NEW u \in Warp PROVE warpAt[u] \in {"sum", "next"} /\ key[u] = key[0]
  OBVIOUS
<1>1. /\ 0 \in Warp /\ warpAt[u] \in Logiting
      /\ key[u] \in Nat /\ key[0] \in Nat /\ barrier[u] \in Nat /\ barrier[0] \in Nat
  BY RowFacts DEF RowInv, RowTyped, Logiting, Mixing
<1>2. barrier[u] >= 2 * key[0] + 1 /\ barrier[u] <= 2 * key[0] + 2 /\ barrier[0] = 2 * key[0] + 1
  BY <1>1 DEF RowInv, BarrierInv, Passed
<1>3. CASE warpAt[u] = "add"
  <2>1. barrier[u] = 2 * key[u] /\ barrier[u] <= barrier[0]
    BY <1>1, <1>3 DEF RowInv, BarrierInv
  <2> QED BY <1>1, <1>2, <2>1
<1>4. CASE warpAt[u] = "end"
  <2>1. barrier[u] = 2 * key[u] + 2 /\ barrier[u] <= barrier[0]
    BY <1>1, <1>4 DEF RowInv, BarrierInv
  <2> QED BY <1>1, <1>2, <2>1
<1>5. CASE warpAt[u] = "sum"
  <2>1. barrier[u] = 2 * key[u] + 1
    BY <1>5 DEF RowInv, BarrierInv
  <2> QED BY <1>1, <1>2, <1>5, <2>1
<1>6. CASE warpAt[u] = "next"
  <2> DEFINE a == key[u]
             b == key[0]
  <2>1. a \in Nat /\ b \in Nat /\ 2 * a + 2 >= 2 * b + 1 /\ 2 * a + 2 <= 2 * b + 2
    BY <1>1, <1>2, <1>6 DEF RowInv, BarrierInv
  <2> HIDE DEF a, b
  <2>2. a = b
    BY <2>1
  <2> QED BY <1>6, <2>2 DEF a, b
<1> QED BY <1>1, <1>3, <1>4, <1>5, <1>6 DEF Logiting

LEMMA SumWarpsKeeps ==
  ASSUME RowAssumptions, RowInv, NEW w \in Warp, SumWarps(w) PROVE RowInv'
<1> DEFINE sum == Logit(UNION {cells[u] : u \in Warp})
<1>1. /\ warpAt[w] = "sum" /\ Passed(w) /\ \A u \in Warp : barrier[u] >= barrier[w]
      /\ row' = IF w = 0 THEN [row EXCEPT ![key[w]] = sum] ELSE row
      /\ barrier' = [barrier EXCEPT ![w] = @ + 1] /\ warpAt' = [warpAt EXCEPT ![w] = "next"]
      /\ UNCHANGED <<dims, keys, key, cells, mixed>>
  BY DEF SumWarps, LogitBarrier, Passed, Arrive, Goto
<1>2. /\ \A u \in Warp : key[u] \in Nat /\ barrier[u] \in Nat /\ key[u] \in Keys
      /\ \A u \in Warp : warpAt[u] \in Logiting
      /\ warpAt \in [Warp -> Logiting] /\ DOMAIN row = Keys /\ Keys \subseteq Nat /\ 0 \in Warp
  BY <1>1, RowFacts DEF RowInv, RowTyped, Logiting, Mixing
<1>3. w = 0 => sum = Whole(key[0])
  <2> SUFFICES ASSUME w = 0 PROVE UNION {cells[u] : u \in Warp} = Products(key[0])
    BY DEF Whole
  <2>1. ASSUME NEW u \in Warp PROVE cells[u] = {<<key[0], d>> : d \in MyDims(u)}
    <3>1. warpAt[u] \in {"sum", "next"} /\ key[u] = key[0]
      BY <1>1, AllHaveAdded
    <3>2. warpAt[u] \in {"sum", "next"} => cells[u] = {<<key[u], d>> : d \in MyDims(u)}
      BY <1>2 DEF RowInv, LogitInv
    <3> QED BY <3>1, <3>2
  <2>2. \A u \in Warp : \A d : d \in MyDims(u) <=> d \in 0..(dims - 1) /\ Owner(d) = u
    BY RowFacts DEF RowInv
  <2>3. UNION {cells[u] : u \in Warp} = {<<key[0], d>> : d \in 0..(dims - 1)}
    <3>1. ASSUME NEW d \in 0..(dims - 1) PROVE \E u \in Warp : <<key[0], d>> \in cells[u]
      <4>1. Owner(d) \in Warp
        BY RowFacts DEF RowInv
      <4>2. d \in MyDims(Owner(d))
        BY <2>2, <4>1
      <4> QED BY <2>1, <4>1, <4>2
    <3>2. ASSUME NEW u \in Warp, NEW p \in cells[u] PROVE p \in {<<key[0], d>> : d \in 0..(dims - 1)}
      <4>1. PICK d \in MyDims(u) : p = <<key[0], d>>
        BY <2>1
      <4>2. d \in 0..(dims - 1)
        BY <2>2
      <4> QED BY <4>1, <4>2
    <3> QED BY <3>1, <3>2
  <2> QED BY <2>3 DEF Products
<1> HIDE DEF sum
<1>4. RowTyped'
  BY <1>1, <1>2, RowAsBefore DEF RowInv, RowTyped, Logiting
<1>5. BarrierInv'
  <2>1. \A u \in Warp :
         /\ warpAt'[u] = "add" => barrier'[u] = 2 * key'[u]
         /\ warpAt'[u] = "sum" => barrier'[u] = 2 * key'[u] + 1
         /\ warpAt'[u] \in {"next", "end"} => barrier'[u] = 2 * key'[u] + 2
         /\ warpAt'[u] = "scan" => barrier'[u] = 0
         /\ warpAt'[u] = "soften" => barrier'[u] = 1
         /\ warpAt'[u] \in {"mix", "out"} => barrier'[u] = 2
         /\ warpAt'[u] = "end" => key'[u] = keys - 1
    BY <1>1, <1>2 DEF RowInv, RowTyped, BarrierInv
  <2>2. \A u, v \in Warp : barrier'[u] <= barrier'[v] + 1
    BY <1>1, <1>2, SMTT(30) DEF RowInv, RowTyped, BarrierInv
  <2>3. \A u, v \in Warp : warpAt'[u] \in {"add", "end"} => barrier'[u] <= barrier'[v]
    BY <1>1, <1>2 DEF RowInv, RowTyped, BarrierInv
  <2> QED BY <1>1, <2>1, <2>2, <2>3 DEF BarrierInv
<1>6. LogitInv'
  <2>1. \A u \in Warp : warpAt'[u] \in {"sum", "next"} => cells'[u] = {<<key'[u], d>> : d \in MyDims(u)}
    BY <1>1, <1>2 DEF RowInv, LogitInv
  <2>2. ASSUME NEW k \in Keys, k < key[0] \/ (k = key[0] /\ warpAt'[0] \in {"next", "end"})
        PROVE  row'[k] = Whole(k)
    <3>1. CASE w = 0 /\ k = key[0]
      BY <1>1, <1>2, <1>3, <3>1
    <3>2. CASE ~(w = 0 /\ k = key[0])
      <4>1. row'[k] = row[k] /\ (k < key[0] \/ (k = key[0] /\ warpAt[0] \in {"next", "end"}))
        BY <1>1, <1>2, <2>2, <3>2
      <4> QED BY <1>2, <4>1 DEF RowInv, LogitInv
    <3> QED BY <3>1, <3>2
  <2>3. \A d \in DOMAIN mixed : mixed[d] = {}
    BY <1>2 DEF RowInv, LogitInv
  <2> QED BY <1>1, <2>1, <2>2, <2>3, RowAsBefore DEF LogitInv
<1>7. MixInv'
  BY <1>1, <1>2 DEF MixInv, Mixing, RowInv, RowTyped
<1> QED BY <1>4, <1>5, <1>6, <1>7 DEF RowInv

LEMMA NextKeyKeeps ==
  ASSUME RowAssumptions, RowInv, NEW w \in Warp, NextKey(w) PROVE RowInv'
<1>1. /\ warpAt[w] = "next" /\ \A u \in Warp : barrier[u] >= barrier[w]
      /\ UNCHANGED <<dims, keys, barrier, cells, row, mixed>>
      /\ \/ /\ key[w] + 1 < keys /\ key' = [key EXCEPT ![w] = @ + 1]
            /\ warpAt' = [warpAt EXCEPT ![w] = "add"]
         \/ /\ ~(key[w] + 1 < keys) /\ key' = key /\ warpAt' = [warpAt EXCEPT ![w] = "end"]
  BY DEF NextKey, More, Passed, Goto
<1>2. /\ key \in [Warp -> Keys] /\ \A u \in Warp : key[u] \in Nat /\ barrier[u] \in Nat
      /\ \A u \in Warp : warpAt[u] \in Logiting /\ key[u] <= keys - 1
      /\ warpAt \in [Warp -> Logiting] /\ keys \in Nat \ {0} /\ Keys \subseteq Nat /\ 0 \in Warp
  <2>1. /\ key \in [Warp -> Keys] /\ \A u \in Warp : barrier[u] \in Nat
        /\ \A u \in Warp : warpAt[u] \in Logiting
        /\ warpAt \in [Warp -> Logiting] /\ keys \in Nat \ {0} /\ Keys \subseteq Nat /\ 0 \in Warp
    BY <1>1, RowFacts DEF RowInv, RowTyped, Logiting, Mixing
  <2>2. \A k \in Keys : k \in Nat /\ k <= keys - 1
    BY <2>1 DEF Keys
  <2> QED BY <2>1, <2>2
<1>3. CASE key[w] + 1 < keys
  <2>1. /\ key' = [key EXCEPT ![w] = @ + 1] /\ warpAt' = [warpAt EXCEPT ![w] = "add"]
        /\ key[w] + 1 \in Keys
    BY <1>1, <1>2, <1>3 DEF Keys
  <2>2. RowTyped'
    BY <1>1, <1>2, <2>1, RowAsBefore DEF RowInv, RowTyped, Logiting
  <2>3. BarrierInv'
    <3>1. \A u \in Warp :
           /\ warpAt'[u] = "add" => barrier'[u] = 2 * key'[u]
           /\ warpAt'[u] = "sum" => barrier'[u] = 2 * key'[u] + 1
           /\ warpAt'[u] \in {"next", "end"} => barrier'[u] = 2 * key'[u] + 2
           /\ warpAt'[u] = "scan" => barrier'[u] = 0
           /\ warpAt'[u] = "soften" => barrier'[u] = 1
           /\ warpAt'[u] \in {"mix", "out"} => barrier'[u] = 2
           /\ warpAt'[u] = "end" => key'[u] = keys - 1
      BY <1>1, <1>2, <2>1, SMTT(30) DEF RowInv, RowTyped, BarrierInv
    <3>2. \A u, v \in Warp : barrier'[u] <= barrier'[v] + 1
      BY <1>1, <1>2, <2>1 DEF RowInv, RowTyped, BarrierInv
    <3>3. \A u, v \in Warp : warpAt'[u] \in {"add", "end"} => barrier'[u] <= barrier'[v]
      BY <1>1, <1>2, <2>1 DEF RowInv, RowTyped, BarrierInv
    <3> QED BY <1>1, <3>1, <3>2, <3>3 DEF BarrierInv
  <2>4. LogitInv'
    <3>1. \A u \in Warp : warpAt'[u] \in {"sum", "next"} => cells[u] = {<<key'[u], d>> : d \in MyDims(u)}
      BY <1>1, <1>2, <2>1 DEF RowInv, LogitInv
    <3>2. \A k \in Keys : k < key'[0] \/ (k = key'[0] /\ warpAt'[0] \in {"next", "end"})
                            => row[k] = Whole(k)
      BY <1>1, <1>2, <2>1 DEF RowInv, LogitInv
    <3>3. \A d \in DOMAIN mixed : mixed[d] = {}
      BY <1>2 DEF RowInv, LogitInv
    <3> QED BY <1>1, <3>1, <3>2, <3>3, RowAsBefore DEF LogitInv
  <2>5. MixInv'
    BY <1>1, <1>2, <2>1 DEF MixInv, Mixing
  <2> QED BY <2>2, <2>3, <2>4, <2>5 DEF RowInv
<1>4. CASE ~(key[w] + 1 < keys)
  <2>1. key' = key /\ warpAt' = [warpAt EXCEPT ![w] = "end"] /\ key[w] = keys - 1
    BY <1>1, <1>2, <1>4
  <2>2. RowTyped'
    BY <1>1, <1>2, <2>1, RowAsBefore DEF RowInv, RowTyped, Logiting
  <2>3. BarrierInv'
    BY <1>1, <1>2, <2>1 DEF RowInv, RowTyped, BarrierInv
  <2>4. LogitInv'
    <3>1. \A u \in Warp : warpAt'[u] \in {"sum", "next"} => cells[u] = {<<key'[u], d>> : d \in MyDims(u)}
      BY <1>1, <1>2, <2>1 DEF RowInv, LogitInv
    <3>2. \A k \in Keys : k < key'[0] \/ (k = key'[0] /\ warpAt'[0] \in {"next", "end"})
                            => row[k] = Whole(k)
      BY <1>1, <1>2, <2>1 DEF RowInv, LogitInv
    <3>3. \A d \in DOMAIN mixed : mixed[d] = {}
      BY <1>2 DEF RowInv, LogitInv
    <3> QED BY <1>1, <3>1, <3>2, <3>3, RowAsBefore DEF LogitInv
  <2>5. MixInv'
    BY <1>1, <1>2, <2>1 DEF MixInv, Mixing
  <2> QED BY <2>2, <2>3, <2>4, <2>5 DEF RowInv
<1> QED BY <1>3, <1>4

\* At the end of the first kernel every logit is stored.
LEMMA AllStored ==
  ASSUME RowAssumptions, RowInv, \A w \in Warp : warpAt[w] = "end"
  PROVE  \A k \in Keys : row[k] = Whole(k)
<1>1. /\ 0 \in Warp /\ key[0] = keys - 1 /\ keys \in Nat
      /\ \A w \in Warp : warpAt[w] \in Logiting
  BY RowFacts DEF RowInv, BarrierInv, Logiting
<1>2. \A k \in Keys : k < key[0] \/ k = key[0]
  BY <1>1 DEF Keys
<1> QED BY <1>1, <1>2 DEF RowInv, LogitInv

LEMMA OutputStartsKeeps ==
  ASSUME RowAssumptions, RowInv, OutputStarts PROVE RowInv'
<1>1. /\ \A w \in Warp : warpAt[w] = "end" /\ warpAt'[w] = "scan" /\ barrier'[w] = 0
      /\ warpAt' = [w \in Warp |-> "scan"] /\ barrier' = [w \in Warp |-> 0]
      /\ cells' = [w \in Warp |-> {}] /\ UNCHANGED <<dims, keys, key, row, mixed>>
  BY DEF OutputStarts
<1>2. 0 \in Warp /\ \A w \in Warp : warpAt[w] \in Logiting
  BY <1>1, RowFacts DEF RowInv, Logiting
<1>3. RowTyped'
  BY <1>1, RowAsBefore DEF RowInv, RowTyped, Mixing
<1>4. BarrierInv'
  BY <1>1 DEF BarrierInv
<1>5. LogitInv'
  BY <1>1, <1>2 DEF LogitInv, Logiting
<1>6. MixInv'
  <2>1. \A k \in Keys : row[k] = Whole(k) /\ warpAt'[Owner(k)] = "scan"
    BY <1>1, AllStored, RowFacts DEF RowInv
  <2>2. \A d \in DOMAIN mixed : mixed[d] = {}
    BY <1>2 DEF RowInv, LogitInv
  <2>3. \A k : Owner(k)' = Owner(k)
    BY DEF Owner
  <2> QED BY <1>1, <1>2, <2>1, <2>2, <2>3, RowAsBefore DEF MixInv
<1> QED BY <1>3, <1>4, <1>5, <1>6 DEF RowInv

LEMMA ScanLogitsKeeps ==
  ASSUME RowAssumptions, RowInv, NEW w \in Warp, ScanLogits(w) PROVE RowInv'
<1>1. /\ warpAt[w] = "scan"
      /\ cells' = IF w = 0 THEN [cells EXCEPT ![0] = {<<k, row[k]>> : k \in DOMAIN row}] ELSE cells
      /\ barrier' = [barrier EXCEPT ![w] = @ + 1] /\ warpAt' = [warpAt EXCEPT ![w] = "soften"]
      /\ UNCHANGED <<dims, keys, key, row, mixed>>
  BY DEF ScanLogits, Arrive, Goto
<1>2. /\ \A u \in Warp : barrier[u] \in Nat /\ warpAt[u] \in Mixing
      /\ warpAt \in [Warp -> Mixing] /\ 0 \in Warp /\ DOMAIN cells = Warp /\ DOMAIN row = Keys
      /\ \A k \in Keys : Owner(k) \in Warp
  BY <1>1, RowFacts DEF RowInv, RowTyped, Logiting, Mixing
<1>3. w = 0 => {<<k, row[k]>> : k \in DOMAIN row} = AllLogits
  <2> SUFFICES ASSUME w = 0 PROVE \A k \in Keys : row[k] = Whole(k)
    BY <1>2 DEF AllLogits
  <2>1. \A u \in Warp : warpAt[u] \notin {"mix", "out"}
    <3> SUFFICES ASSUME NEW u \in Warp, warpAt[u] \in {"mix", "out"} PROVE FALSE
      OBVIOUS
    <3>1. barrier[0] = 0 /\ barrier[u] = 2 /\ barrier[u] <= barrier[0] + 1
      BY <1>1, <1>2 DEF RowInv, BarrierInv
    <3> QED BY <3>1
  <2> QED BY <1>2, <2>1 DEF RowInv, MixInv
<1>4. RowTyped'
  BY <1>1, <1>2, RowAsBefore DEF RowInv, RowTyped, Mixing
<1>5. BarrierInv'
  <2>1. \A u \in Warp :
         /\ warpAt'[u] \in Mixing
         /\ warpAt'[u] = "scan" => barrier'[u] = 0
         /\ warpAt'[u] = "soften" => barrier'[u] = 1
         /\ warpAt'[u] \in {"mix", "out"} => barrier'[u] = 2
    BY <1>1, <1>2 DEF RowInv, RowTyped, BarrierInv, Mixing
  <2>2. \A u, v \in Warp : barrier'[u] <= barrier'[v] + 1
    <3>1. barrier[w] = 0 /\ \A u, v \in Warp : barrier[u] <= barrier[v] + 1
      BY <1>1 DEF RowInv, BarrierInv
    <3>2. \A u \in Warp : barrier'[u] = IF u = w THEN 1 ELSE barrier[u]
      BY <1>1, <3>1 DEF RowInv, RowTyped
    <3>3. \A u \in Warp : barrier[u] >= 0
      BY <1>1, <1>2, <3>1
    <3> QED BY <1>2, <3>1, <3>2, <3>3
  <2>3. \A u, v \in Warp : warpAt'[u] \in {"add", "end"} => barrier'[u] <= barrier'[v]
    BY <1>1, <1>2 DEF RowInv, RowTyped, BarrierInv
  <2> QED BY <1>1, <2>1, <2>2, <2>3 DEF BarrierInv, Mixing
<1>6. LogitInv'
  BY <1>1, <1>2 DEF LogitInv, Logiting
<1>7. MixInv'
  <2>1. warpAt'[0] # "scan" => cells'[0] = AllLogits
    BY <1>1, <1>2, <1>3 DEF RowInv, MixInv
  <2>2. \A u \in Warp : warpAt'[u] \in {"mix", "out"} <=> warpAt[u] \in {"mix", "out"}
    BY <1>1, <1>2
  <2>3. \A k : Owner(k)' = Owner(k)
    BY DEF Owner
  <2>4. /\ \A k \in Keys :
             row[k] = IF warpAt'[Owner(k)] \in {"mix", "out"} THEN Probability(k) ELSE Whole(k)
        /\ \A d \in DOMAIN mixed : mixed[d] \in {{}, Mixture}
    BY <1>2, <2>2 DEF RowInv, MixInv
  <2> QED BY <1>1, <2>1, <2>3, <2>4, RowAsBefore DEF MixInv
<1> QED BY <1>4, <1>5, <1>6, <1>7 DEF RowInv

LEMMA SoftenKeeps ==
  ASSUME RowAssumptions, RowInv, NEW w \in Warp, Soften(w) PROVE RowInv'
<1>1. /\ warpAt[w] = "soften" /\ \A u \in Warp : barrier[u] >= barrier[w]
      /\ row' = [k \in DOMAIN row |->
                   IF k \in MyKeys(w) THEN <<"p", row[k], cells[0]>> ELSE row[k]]
      /\ barrier' = [barrier EXCEPT ![w] = @ + 1] /\ warpAt' = [warpAt EXCEPT ![w] = "mix"]
      /\ UNCHANGED <<dims, keys, key, cells, mixed>>
  BY DEF Soften, SoftenBarrier, Passed, Arrive, Goto
<1>2. /\ \A u \in Warp : barrier[u] \in Nat /\ warpAt[u] \in Mixing
      /\ warpAt \in [Warp -> Mixing] /\ 0 \in Warp /\ DOMAIN row = Keys
      /\ \A k \in Keys : Owner(k) \in Warp
  BY <1>1, RowFacts DEF RowInv, RowTyped, Logiting, Mixing
<1>3. cells[0] = AllLogits
  <2>1. barrier[w] = 1 /\ barrier[0] >= 1
    BY <1>1, <1>2 DEF RowInv, BarrierInv
  <2>2. warpAt[0] # "scan"
    BY <1>2, <2>1 DEF RowInv, BarrierInv
  <2> QED BY <1>2, <2>2 DEF RowInv, MixInv
<1>4. RowTyped'
  BY <1>1, <1>2, RowAsBefore DEF RowInv, RowTyped, Mixing
<1>5. BarrierInv'
  <2>1. \A u \in Warp :
         /\ warpAt'[u] \in Mixing
         /\ warpAt'[u] = "scan" => barrier'[u] = 0
         /\ warpAt'[u] = "soften" => barrier'[u] = 1
         /\ warpAt'[u] \in {"mix", "out"} => barrier'[u] = 2
    BY <1>1, <1>2 DEF RowInv, RowTyped, BarrierInv, Mixing
  <2>2. \A u, v \in Warp : barrier'[u] <= barrier'[v] + 1
    <3>1. barrier[w] = 1 /\ \A u, v \in Warp : barrier[u] <= barrier[v] + 1
      BY <1>1 DEF RowInv, BarrierInv
    <3>2. \A u \in Warp : barrier'[u] = IF u = w THEN 2 ELSE barrier[u]
      BY <1>1, <3>1 DEF RowInv, RowTyped
    <3>3. \A u \in Warp : barrier[u] >= 1
      BY <1>1, <1>2, <3>1
    <3> QED BY <1>2, <3>1, <3>2, <3>3
  <2>3. \A u, v \in Warp : warpAt'[u] \in {"add", "end"} => barrier'[u] <= barrier'[v]
    BY <1>1, <1>2 DEF RowInv, RowTyped, BarrierInv
  <2> QED BY <1>1, <2>1, <2>2, <2>3 DEF BarrierInv, Mixing
<1>6. LogitInv'
  BY <1>1, <1>2 DEF LogitInv, Logiting
<1>7. MixInv'
  <2>1. \A k \in Keys :
          row'[k] = IF warpAt'[Owner(k)] \in {"mix", "out"} THEN Probability(k) ELSE Whole(k)
    <3> SUFFICES ASSUME NEW k \in Keys
                 PROVE  row'[k] = IF warpAt'[Owner(k)] \in {"mix", "out"} THEN Probability(k) ELSE Whole(k)
      OBVIOUS
    <3>1. row[k] = IF warpAt[Owner(k)] \in {"mix", "out"} THEN Probability(k) ELSE Whole(k)
      BY <1>2 DEF RowInv, MixInv
    <3>2. k \in MyKeys(w) <=> Owner(k) = w
      BY RowFacts DEF RowInv
    <3>3. CASE Owner(k) = w
      <4>1. row'[k] = Probability(k)
        BY <1>1, <1>2, <1>3, <3>1, <3>2, <3>3 DEF Probability
      <4> QED BY <1>1, <1>2, <3>3, <4>1
    <3>4. CASE Owner(k) # w
      BY <1>1, <1>2, <3>1, <3>2, <3>4
    <3> QED BY <3>3, <3>4
  <2>2. \A k : Owner(k)' = Owner(k)
    BY DEF Owner
  <2>3. \A d \in DOMAIN mixed : mixed[d] \in {{}, Mixture}
    BY <1>2 DEF RowInv, MixInv
  <2> QED BY <1>1, <1>3, <2>1, <2>2, <2>3, RowAsBefore DEF MixInv
<1> QED BY <1>4, <1>5, <1>6, <1>7 DEF RowInv

LEMMA MixKeeps ==
  ASSUME RowAssumptions, RowInv, NEW w \in Warp, Mix(w) PROVE RowInv'
<1>1. /\ warpAt[w] = "mix" /\ \A u \in Warp : barrier[u] >= barrier[w]
      /\ mixed' = [d \in DOMAIN mixed |->
                     IF d \in MyDims(w) THEN {<<k, row[k]>> : k \in DOMAIN row} ELSE mixed[d]]
      /\ warpAt' = [warpAt EXCEPT ![w] = "out"]
      /\ UNCHANGED <<dims, keys, key, barrier, cells, row>>
  BY DEF Mix, Passed, Goto
<1>2. /\ \A u \in Warp : barrier[u] \in Nat /\ warpAt[u] \in Mixing
      /\ warpAt \in [Warp -> Mixing] /\ 0 \in Warp /\ DOMAIN row = Keys
      /\ \A k \in Keys : Owner(k) \in Warp
  BY <1>1, RowFacts DEF RowInv, RowTyped, Logiting, Mixing
<1>3. {<<k, row[k]>> : k \in DOMAIN row} = Mixture
  <2>1. \A u \in Warp : warpAt[u] \in {"mix", "out"}
    <3> SUFFICES ASSUME NEW u \in Warp PROVE warpAt[u] \in {"mix", "out"}
      OBVIOUS
    <3>1. barrier[w] = 2 /\ barrier[u] >= 2
      BY <1>1 DEF RowInv, BarrierInv
    <3> QED BY <1>2, <3>1 DEF RowInv, BarrierInv, Mixing
  <2>2. \A k \in Keys : row[k] = Probability(k)
    BY <1>2, <2>1 DEF RowInv, MixInv
  <2> QED BY <1>2, <2>2 DEF Mixture
<1>4. RowTyped'
  BY <1>1, <1>2, RowAsBefore DEF RowInv, RowTyped, Mixing
<1>5. BarrierInv'
  BY <1>1, <1>2 DEF RowInv, RowTyped, BarrierInv, Mixing
<1>6. LogitInv'
  BY <1>1, <1>2 DEF LogitInv, Logiting
<1>7. MixInv'
  <2>1. \A u \in Warp : warpAt'[u] \in {"mix", "out"} <=> warpAt[u] \in {"mix", "out"}
    BY <1>1, <1>2
  <2>2. \A k : Owner(k)' = Owner(k)
    BY DEF Owner
  <2>3. /\ \A k \in Keys :
             row[k] = IF warpAt'[Owner(k)] \in {"mix", "out"} THEN Probability(k) ELSE Whole(k)
        /\ cells[0] = AllLogits \/ warpAt[0] = "scan"
    BY <1>2, <2>1 DEF RowInv, MixInv
  <2>4. \A d \in DOMAIN mixed' : mixed'[d] \in {{}, Mixture}
    BY <1>1, <1>2, <1>3 DEF RowInv, MixInv
  <2>5. warpAt'[0] # "scan" => warpAt[0] # "scan"
    BY <1>1, <1>2
  <2> QED BY <1>1, <2>2, <2>3, <2>4, <2>5, RowAsBefore DEF MixInv
<1> QED BY <1>4, <1>5, <1>6, <1>7 DEF RowInv

\* However far some warps are ahead of others, with any number of warps, elements and
\* keys, the first kernel stores whole logits and the second mixes by probabilities.
THEOREM RowsAreWhole ==
  ASSUME WarpAssumption, RowAssumption
  PROVE  RowSpec => [](LogitsAreWhole /\ MixesProbabilities)
<1>1. RowAssumptions
  BY DEF RowAssumptions
<1>2. RowInit => RowInv
  BY <1>1, RowStarts
<1>3. RowInv /\ [RowNext]_rowVars => RowInv'
  <2> SUFFICES ASSUME RowInv, [RowNext]_rowVars PROVE RowInv'
    OBVIOUS
  <2>1. CASE UNCHANGED rowVars
    <3>1. UNCHANGED <<dims, keys, warpAt, key, barrier, cells, row, mixed>>
      BY <2>1 DEF rowVars
    <3>2. \A k : Owner(k)' = Owner(k)
      BY DEF Owner
    <3>3. RowTyped' /\ BarrierInv'
      BY <3>1, RowAsBefore DEF RowInv, RowTyped, BarrierInv
    <3>4. LogitInv'
      BY <3>1, RowAsBefore DEF RowInv, LogitInv
    <3>5. MixInv'
      BY <3>1, <3>2, RowAsBefore DEF RowInv, MixInv
    <3> QED BY <3>3, <3>4, <3>5 DEF RowInv
  <2>2. CASE OutputStarts
    BY <1>1, <2>2, OutputStartsKeeps
  <2>3. ASSUME NEW w \in Warp, Step(w) PROVE RowInv'
    BY <1>1, <2>3, AddProductsKeeps, SumWarpsKeeps, NextKeyKeeps, ScanLogitsKeeps, SoftenKeeps,
       MixKeeps DEF Step
  <2> QED BY <2>1, <2>2, <2>3 DEF RowNext
<1>4. RowInv => LogitsAreWhole /\ MixesProbabilities
  <2> SUFFICES ASSUME RowInv PROVE LogitsAreWhole /\ MixesProbabilities
    OBVIOUS
  <2>1. DOMAIN row = Keys
    BY DEF RowInv, RowTyped
  <2>2. LogitsAreWhole
    BY <1>1, <2>1, AllStored DEF LogitsAreWhole, Whole
  <2>3. MixesProbabilities
    <3>1. CASE \A w \in Warp : warpAt[w] \in Logiting
      BY <3>1 DEF MixesProbabilities, RowInv, LogitInv
    <3>2. CASE \A w \in Warp : warpAt[w] \in Mixing
      <4>1. \A d \in DOMAIN mixed : mixed[d] # {} => mixed[d] = Mixture
        BY <3>2 DEF RowInv, MixInv
      <4>2. Mixture = {<<k, <<"p", Logit(Products(k)),
                              {<<j, Logit(Products(j))>> : j \in DOMAIN row}>>>> : k \in DOMAIN row}
        BY <2>1 DEF Mixture, Probability, AllLogits, Whole
      <4> QED BY <4>1, <4>2 DEF MixesProbabilities
    <3> QED BY <1>1, <3>1, <3>2, RowFacts DEF RowInv
  <2> QED BY <2>2, <2>3
<1> QED BY <1>2, <1>3, <1>4, PTL DEF RowSpec

\* The barriers that the blocks of a norm and of a row of attention have are enough: in no
\* order of their threads or warps does one read what another has not left yet, or has
\* written over.
THEOREM BlocksWaitEnough ==
  ASSUME BlockAssumption, SizeAssumption, WarpAssumption, RowAssumption
  PROVE  NormSpec /\ RowSpec => []BarriersSuffice
<1>1. ScaledByWhole /\ (LogitsAreWhole /\ MixesProbabilities) => BarriersSuffice
  BY DEF BarriersSuffice
<1> QED BY <1>1, NormsScaleByWhole, RowsAreWhole, PTL

=============================================================================
