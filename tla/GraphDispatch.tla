---------------------------- MODULE GraphDispatch ----------------------------
(***************************************************************************)
(* CUDA graphs of the model runner (v1/worker/gpu/cudagraph_utils.py):     *)
(* which batch shapes are captured for a configuration, and which captured *)
(* graph a batch is run with.                                              *)
(*                                                                         *)
(* A shape has 0 where the code has None: no bound on requests, no uniform *)
(* number of tokens, no bound on the length of a query.                    *)
(***************************************************************************)
EXTENDS Integers, Sequences, FiniteSets, SequencesExt

CONSTANTS
  Configs,    \* [mode, sizes, lens, q, maxReqs, maxSize, loras, varlen]
  MaxTokens   \* bound on the tokens of a batch

(* What the constants may be.                                              *)
ConfigAssumption ==
  \A c \in Configs :
    /\ c.mode \in {"NONE", "PIECEWISE", "FULL", "FULL_DECODE_ONLY", "FULL_AND_PIECEWISE"}
    /\ c.sizes \subseteq Nat \ {0} /\ ToSet(c.lens) \subseteq 1 .. c.q
    /\ {c.q, c.maxReqs, c.maxSize} \subseteq Nat \ {0} /\ 0 \in c.loras /\ c.loras \subseteq Nat

VARIABLES
  config,
  shapes,      \* every shape to capture, in the order of the candidate lists
  todo,        \* shapes not captured yet, in the order of capture
  graphs, captured,
  batch, desc  \* a batch and the shape it is run with

dispatchVars == <<config, shapes, todo, graphs, captured, batch, desc>>

DecodeMode(m) == CASE m \in {"FULL", "FULL_DECODE_ONLY", "FULL_AND_PIECEWISE"} -> "FULL" [] OTHER -> m
MixedMode(m)  == CASE m = "FULL_AND_PIECEWISE" -> "PIECEWISE" [] m = "FULL_DECODE_ONLY" -> "NONE" [] OTHER -> m
Separate(m)   == m \in {"FULL_DECODE_ONLY", "FULL_AND_PIECEWISE"}

RoundUp(n, q) == ((n + q - 1) \div q) * q
Ascending(s)  == SetToSortSeq(s, <)
Shape(mode, tokens, reqs, uniform, maxq, loras) ==
  [mode |-> mode, tokens |-> tokens, reqs |-> reqs, uniform |-> uniform, maxq |-> maxq, loras |-> loras]

-----------------------------------------------------------------------------
(* What is captured.                                                       *)

VarlenShapes(c, n, k) ==
  IF n <= c.maxReqs * c.q
    THEN <<Shape(DecodeMode(c.mode), n, Min({n, c.maxReqs}), 0, c.q, k)>> ELSE <<>>

(* Rounded sizes that the batch or the buffers cannot hold are left out.   *)
Holds(c, n, q) == n <= c.maxReqs * c.q /\ n <= c.maxSize /\ n \div q <= c.maxReqs
UniformShapes(c, n, k) ==
  LET kept == SelectSeq(c.lens, LAMBDA q : Holds(c, RoundUp(n, q), q))
  IN  [i \in DOMAIN kept |->
         Shape(DecodeMode(c.mode), RoundUp(n, kept[i]), RoundUp(n, kept[i]) \div kept[i], kept[i], 0, k)]

DecodeShapes(c, n, k) ==
  IF ~Separate(c.mode) \/ DecodeMode(c.mode) = "NONE" THEN <<>>
  ELSE IF c.varlen THEN VarlenShapes(c, n, k) ELSE UniformShapes(c, n, k)

MixedShapes(c, n, k) ==
  IF MixedMode(c.mode) = "NONE" THEN <<>>
  ELSE <<Shape(MixedMode(c.mode), n, IF MixedMode(c.mode) = "FULL" THEN Min({n, c.maxReqs}) ELSE 0, 0, 0, k)>>

(* A rounded shape is met from several sizes, and taken once.  Mutant:     *)
(* every time.                                                             *)
EveryTime(acc, new) == acc \o new
Merged(acc, new) == acc \o SelectSeq(new, LAMBDA d : d \notin ToSet(acc))

ShapesOf(c) ==
  LET cases == FlattenSeq([i \in 1 .. Cardinality(c.sizes) |->
                 [j \in 1 .. Cardinality(c.loras) |-> <<Ascending(c.sizes)[i], Ascending(c.loras)[j]>>]])
      of(x) == DecodeShapes(c, x[1], x[2]) \o MixedShapes(c, x[1], x[2])
  IN  IF c.mode = "NONE" THEN <<>>
      ELSE FoldLeft(LAMBDA acc, x : Merged(acc, of(x)), <<>>, cases)

NoBatch == [tokens |-> 0, reqs |-> 0, maxq |-> 0, uniform |-> 0, loras |-> 0]

(* Piecewise graphs first, the largest first.  Mutant: full graphs only.   *)
OfMode(q, m) == SelectSeq(q, LAMBDA d : d.mode = m)
LargestFirst(q) ==
  FlattenSeq([i \in 1 .. MaxTokens + 8 |-> SelectSeq(q, LAMBDA d : d.tokens = MaxTokens + 9 - i)])
OnlyFull(q) == LargestFirst(OfMode(q, "FULL"))
CaptureOrder(q) == LargestFirst(OfMode(q, "PIECEWISE")) \o LargestFirst(OfMode(q, "FULL"))

Capture ==
  /\ todo # <<>> /\ batch = NoBatch
  /\ todo' = Tail(todo)
  /\ graphs' = graphs \union {Head(todo)}
  /\ captured' = (todo' = <<>>)
  /\ UNCHANGED <<config, shapes, batch, desc>>

-----------------------------------------------------------------------------
(* What a batch is run with.                                               *)

(* Adapters: the smallest captured case, or the largest there is.          *)
EffectiveLoras(c, k) ==
  LET cases == c.loras \ {0}
  IN  IF k = 0 \/ cases = {} THEN k
      ELSE IF \E x \in cases : x >= k THEN Min({x \in cases : x >= k}) ELSE Max(cases)

(* Shapes of the next larger captured number of tokens.  Mutants: the      *)
(* smallest of all, the largest of all.                                    *)
AnyCount(n) == LET s == {shapes[i].tokens : i \in DOMAIN shapes} IN IF s = {} THEN 0 ELSE Min(s)
LastCount(n) == LET s == {shapes[i].tokens : i \in DOMAIN shapes} IN IF s = {} THEN 0 ELSE Max(s)
NextCount(n) ==
  LET larger == {shapes[i].tokens : i \in {j \in DOMAIN shapes : shapes[j].tokens >= n}}
  IN  IF larger = {} THEN 0 ELSE Min(larger)
Candidates(n, k) == SelectSeq(shapes, LAMBDA d : d.tokens = NextCount(n) /\ d.loras = k)

(* Mutant: a decode graph takes any batch that is no larger.               *)
AnyQueries(d, b, k) == d.tokens >= b.tokens /\ (d.maxq = 0 \/ d.maxq >= b.maxq) /\ d.loras = k
Compatible(d, b, k) ==
  /\ d.uniform \in {0, b.uniform}
  /\ d.maxq = 0 \/ d.maxq >= b.maxq
  /\ d.reqs = 0 \/ d.reqs >= b.reqs
  /\ d.tokens >= b.tokens
  /\ d.loras = k

Eager(b, k) == Shape("NONE", b.tokens, b.reqs, 0, 0, k)
Dispatched(b) ==
  LET k  == EffectiveLoras(config, b.loras)
      ok == SelectSeq(Candidates(b.tokens, k), LAMBDA d : Compatible(d, b, k))
  IN  IF captured /\ ok # <<>> THEN Head(ok) ELSE Eager(b, k)

(* A uniform decode batch has one number of tokens for all requests and no *)
(* request in prefill.                                                     *)
UniformCount(reqs, tokens, maxq, prefill) ==
  IF ~prefill /\ maxq * reqs = tokens THEN maxq ELSE 0

Batches ==
  {b \in [tokens : 1 .. MaxTokens, reqs : 1 .. config.maxReqs, maxq : 1 .. MaxTokens,
          uniform : 0 .. MaxTokens, loras : 0 .. 3] :
     /\ b.maxq <= b.tokens - b.reqs + 1 /\ b.maxq * b.reqs >= b.tokens
     /\ b.uniform \in {UniformCount(b.reqs, b.tokens, b.maxq, p) : p \in BOOLEAN}}

DispatchInit ==
  /\ config \in Configs
  /\ shapes = ShapesOf(config)
  /\ todo = CaptureOrder(shapes)
  /\ graphs = {} /\ captured = (todo = <<>>)
  /\ batch = NoBatch /\ desc = Eager(NoBatch, 0)

Dispatch ==
  /\ batch = NoBatch
  /\ batch' \in Batches
  /\ desc' = Dispatched(batch')
  /\ UNCHANGED <<config, shapes, todo, graphs, captured>>

Done == batch # NoBatch /\ batch' = NoBatch /\ UNCHANGED <<config, shapes, todo, graphs, captured, desc>>

DispatchNext == Capture \/ Dispatch \/ Done
DispatchSpec == DispatchInit /\ [][DispatchNext]_dispatchVars

-----------------------------------------------------------------------------
DispatchTypeOK ==
  /\ config \in Configs /\ graphs \union ToSet(todo) = ToSet(shapes)
  /\ batch = NoBatch \/ batch \in Batches
  /\ desc.mode \in {"NONE", "PIECEWISE", "FULL"} /\ desc.tokens \in 0 .. MaxTokens + 8

(* The chosen graph exists and holds the batch: its tokens, its requests   *)
(* and its adapters, up to the largest captured case (dispatch,            *)
(* _is_compatible; run_fullgraph: "No cudagraph for").                     *)
GraphHolds ==
  desc.mode # "NONE" /\ batch # NoBatch =>
    /\ desc \in graphs
    /\ desc.tokens >= batch.tokens /\ (desc.reqs = 0 \/ desc.reqs >= batch.reqs)
    /\ batch.loras > 0 => desc.loras >= Min({batch.loras, Max(config.loras)}) \/ config.loras = {0}
    /\ desc.uniform > 0 => batch.uniform = desc.uniform

(* No captured graph of the same kind would hold it with less padding.     *)
LeastPadding ==
  desc.mode # "NONE" /\ batch # NoBatch =>
    ~ \E d \in graphs : /\ d.mode = desc.mode /\ d.tokens < desc.tokens
                        /\ Compatible(d, batch, EffectiveLoras(config, batch.loras))

(* A uniform decode batch gets a decode graph if one of its count holds    *)
(* it.  A batch that captured graphs hold is run eagerly only where each   *)
(* of them lies behind a token count captured for decode batches of        *)
(* another length alone, as rounding makes them between the sizes          *)
(* (_init_candidates: "priority-ordered"); the number of requests, the     *)
(* length of a query and the adapters never send it there.                 *)
OtherDecodes(c, b, k) ==
  LET there == {g \in graphs : g.tokens = c /\ g.loras = k}
  IN  there # {} /\ \A g \in there : g.uniform \notin {0, b.uniform}
EagerBetween ==
  captured /\ batch # NoBatch =>
    LET k == EffectiveLoras(config, batch.loras)
        holding == {d \in graphs : Compatible(d, batch, k)}
    IN  /\ (\E d \in holding : d.uniform > 0 /\ d.tokens = desc.tokens) => desc.uniform > 0
        /\ desc.mode = "NONE" =>
             \A d \in holding : \E c \in batch.tokens .. d.tokens - 1 : OtherDecodes(c, batch, k)

(* No shape is captured twice (capture: "Graph already captured").         *)
CapturedOnce ==
  /\ \A i \in DOMAIN todo : todo[i] \notin graphs
  /\ Cardinality(ToSet(todo)) = Len(todo)
=============================================================================
