----------------------------- MODULE GdnForward -----------------------------
(***************************************************************************)
(* One gated delta net layer (mamba/gdn/qwen_gdn_linear_attn.py): the      *)
(* convolution and the recurrent update of a batch, along the paths of     *)
(* _forward_core, and its packed and fused decode variants.  The recurrent *)
(* state of a speculative step is kept once per token, in the request's    *)
(* lines; the next step starts from the line of the last accepted token.   *)
(*                                                                         *)
(* A state is the token it was computed up to, <<request, position, ok>>;  *)
(* updated with any other than the next token it becomes Garbage.  The     *)
(* kernels and the metadata builder, which counts plain decodes beside     *)
(* speculative ones, and first chunks of one token, as prefills, are       *)
(* external.                                                               *)
(***************************************************************************)
EXTENDS SpecBatches

CONSTANTS
  PackedDecode,  \* enable_packed_recurrent_decode
  FusedDecode    \* enable_fused_gdn_decode, and the MTP kernel usable

(* What the constants may be.                                              *)
GdnAssumption == {PackedDecode, FusedDecode} \subseteq BOOLEAN

VARIABLES
  conv,   \* convolution state of each row, as read at offset 0
  ssm,    \* recurrent states of each row, one per line
  wrong   \* kept tokens of the last forward put out wrong
gdnVars == <<len, done, last, slot, restarts, conv, ssm, wrong>>

Garbage == <<0, 0, 0>>
Lines == 0 .. NumSpec
Start(r) == <<r, 0, 1>>

GdnInit ==
  /\ BatchInit /\ wrong = {}
  /\ conv = [s \in 1 .. NumSlots |-> Garbage]
  /\ ssm = [s \in 1 .. NumSlots |-> [l \in Lines |-> Garbage]]

-----------------------------------------------------------------------------
(* Metadata: groups 0 (speculative), 1 (decode), 2 (prefill), the requests *)
(* of each, and the rows of their tokens in that order.                    *)
HasSpec(b) == \E i \in DOMAIN b : b[i].spec
Group(b, i) ==
  IF HasSpec(b) THEN (IF b[i].spec THEN 0 ELSE 2)
  ELSE IF \E j \in 1 .. i : b[j].q > 1 \/ done[b[j].req] = 0 THEN 2 ELSE 1
Members(b, g) == SelectSeq([i \in DOMAIN b |-> i], LAMBDA i : Group(b, i) = g)
SpecRows(b) ==
  LET owners == OwnersOf(b)
  IN  SelectSeq([i \in DOMAIN owners |-> i], LAMBDA row : Group(b, owners[row]) = 0)
OtherRows(b) ==
  LET owners == OwnersOf(b)
  IN  SelectSeq([i \in DOMAIN owners |-> i], LAMBDA row : Group(b, owners[row]) # 0)
Picked(x, rows) == [k \in DOMAIN rows |-> x[rows[k]]]
SplitNonSpec(b) == ~HasSpec(b) /\ Members(b, 1) # <<>> /\ Members(b, 2) # <<>>

-----------------------------------------------------------------------------
(* Kernels.  A convolved token is the token if the convolution state ended *)
(* just before it.                                                         *)
Next1(state, x) == state[1] = x[1] /\ state[2] = x[2] - 1 /\ (x[3] = 1 => state[3] = 1)
Convolved(state, xs) ==
  [j \in DOMAIN xs |-> IF Next1(IF j = 1 THEN state ELSE xs[j - 1], xs[j]) THEN xs[j] ELSE Garbage]
Rolled(state, accepted) == <<state[1], state[2] + accepted - 1, state[3]>>

(* States after each token.  The gate is the token's row of a and b.       *)
Updated(state, xs, gates) ==
  LET f[j \in 0 .. Len(xs)] ==
        IF j = 0 THEN state
        ELSE IF Next1(f[j - 1], xs[j]) /\ gates[j] = xs[j] THEN xs[j] ELSE Garbage
  IN  [j \in DOMAIN xs |-> f[j]]

(* Line of the last accepted token.  Mutant: always the first.             *)
FirstLine(accepted) == 0
StartLine(accepted) == accepted - 1

(* A prefill starts from its row only if the request has computed tokens.  *)
(* Mutant: it always does.                                                 *)
AlwaysInitial(r) == TRUE
HasInitial(r) == done[r] > 0

(* Tokens whose gates are read.  Mutants: for speculative batches, rows    *)
(* in batch order; behind peeled-off decodes, from the first row on.       *)
BatchGates(x, rows) == SubSeq(x, 1, Len(rows))
GatesOf(x, rows) == Picked(x, rows)
FromFirst(x, peeled) == x
Tail1(x, peeled) == SubSeq(x, peeled + 1, Len(x))

(* Speculative part: xs and gates in the order of the group.               *)
SpecOf(b, k) == Members(b, 0)[k]
SpecStart(b) == Sums([k \in DOMAIN Members(b, 0) |-> b[SpecOf(b, k)].q])
SpecTokens(b, x, k) == SubSeq(x, SpecStart(b)[k] + 1, SpecStart(b)[k + 1])
SpecConv(b, x, k) ==
  LET e == b[SpecOf(b, k)]
  IN  Convolved(Rolled(conv[slot[e.req]], last[e.req]), SpecTokens(b, x, k))
SpecStates(b, x, gates, k) ==
  LET e == b[SpecOf(b, k)]
  IN  Updated(ssm[slot[e.req]][StartLine(last[e.req])], SpecConv(b, x, k), SpecTokens(b, gates, k))

(* The rest: requests of the groups in order, their tokens contiguous.     *)
Rest(b) == Members(b, 1) \o Members(b, 2)
RestStart(b) == Sums([k \in DOMAIN Rest(b) |-> b[Rest(b)[k]].q])
RestTokens(b, x, k) == SubSeq(x, RestStart(b)[k] + 1, RestStart(b)[k + 1])
RestConv(b, x, k) ==
  LET e == b[Rest(b)[k]]
  IN  Convolved(IF Group(b, Rest(b)[k]) = 1 \/ HasInitial(e.req) THEN conv[slot[e.req]] ELSE Start(e.req),
                RestTokens(b, x, k))
RestStates(b, x, gates, k) ==
  LET e == b[Rest(b)[k]]
      peeled == IF SplitNonSpec(b) THEN Len(Members(b, 1)) ELSE 0
      prefillGates == Tail1(gates, peeled)
      from == RestStart(b)[k] - peeled
  IN  IF Group(b, Rest(b)[k]) = 1
        THEN Updated(ssm[slot[e.req]][0], RestConv(b, x, k), RestTokens(b, gates, k))
        ELSE Updated(IF HasInitial(e.req) THEN ssm[slot[e.req]][0] ELSE Start(e.req), RestConv(b, x, k),
                     SubSeq(prefillGates, from + 1, from + e.q))

(* What is put out, in the rows of the batch.  Mutant: group after group.  *)
GroupOrder(b, outs) == outs
Merged(b, outs) ==
  LET order == SpecRows(b) \o OtherRows(b)
  IN  [row \in DOMAIN order |-> outs[CHOOSE k \in DOMAIN order : order[k] = row]]

Joined(ss) ==
  LET f[i \in 0 .. Len(ss)] == IF i = 0 THEN <<>> ELSE f[i - 1] \o ss[i] IN f[Len(ss)]

Written(b, outSpec, outRest, x) ==
  LET spec(s) == {k \in DOMAIN Members(b, 0) : slot[b[SpecOf(b, k)].req] = s}
      rest(s) == {k \in DOMAIN Rest(b) : slot[b[Rest(b)[k]].req] = s}
      ends(s) == LET k == Max(rest(s)) IN outRest[k][Len(outRest[k])]
  IN  /\ ssm' = [s \in 1 .. NumSlots |-> [l \in Lines |->
           IF spec(s) # {} /\ l + 1 \in DOMAIN outSpec[Max(spec(s))] THEN outSpec[Max(spec(s))][l + 1]
           ELSE IF rest(s) # {} /\ l = 0 THEN ends(s) ELSE ssm[s][l]]]
      /\ conv' = [s \in 1 .. NumSlots |->
           IF spec(s) # {} THEN SpecConv(b, Picked(x, SpecRows(b)), Max(spec(s)))[1]
           ELSE IF rest(s) # {}
             THEN LET c == RestConv(b, Picked(x, OtherRows(b)), Max(rest(s))) IN c[Len(c)]
           ELSE conv[s]]
      /\ wrong' = LET outs == Merged(b, Joined(outSpec) \o Joined(outRest))
                  IN  {x[i] : i \in {j \in DOMAIN x : x[j][3] = 1 /\ outs[j] # x[j]}}

(* _forward_core.                                                          *)
Core(b) ==
  LET x == RowsOf(b)
      specX == Picked(x, SpecRows(b))
      otherX == Picked(x, OtherRows(b))
      specGates == IF OtherRows(b) = <<>> THEN x ELSE GatesOf(x, SpecRows(b))
      otherGates == IF HasSpec(b) THEN GatesOf(x, OtherRows(b)) ELSE x
  IN  Written(b, [k \in DOMAIN Members(b, 0) |-> SpecStates(b, specX, specGates, k)],
                 [k \in DOMAIN Rest(b) |-> RestStates(b, otherX, otherGates, k)], x)

(* _forward_core_decode_non_spec: every request decodes one token.         *)
PackedCore(b) ==
  LET x == RowsOf(b)
  IN  Written(b, <<>>, [k \in DOMAIN b |-> Updated(ssm[slot[b[k].req]][0], RestConv(b, x, k), <<x[k]>>)], x)

(* _forward_core_decode_spec_fused_norm: every request is speculative.     *)
FusedCore(b) ==
  LET x == RowsOf(b)
  IN  Written(b, [k \in DOMAIN b |-> SpecStates(b, x, x, k)], <<>>, x)

UsesFused(b) == FusedDecode /\ HasSpec(b) /\ Members(b, 1) = <<>> /\ Members(b, 2) = <<>>
UsesPacked(b) == PackedDecode /\ ~HasSpec(b) /\ Members(b, 2) = <<>> /\ Members(b, 1) # <<>>

Forward(b) ==
  /\ IF UsesFused(b) THEN FusedCore(b) ELSE IF UsesPacked(b) THEN PackedCore(b) ELSE Core(b)
  /\ Advance(b)

Admit(r, s) == AdmitTo(r, s) /\ UNCHANGED <<conv, ssm, wrong>>
Preempt(r) == PreemptFrom(r) /\ UNCHANGED <<conv, ssm, wrong>>

GdnNext ==
  \/ \E b \in Batches : Forward(b)
  \/ \E r \in Requests : Preempt(r) \/ \E s \in 1 .. NumSlots : Admit(r, s)

GdnSpec == GdnInit /\ [][GdnNext]_gdnVars

-----------------------------------------------------------------------------
(* Every kept token is put out from the states after exactly the tokens    *)
(* before it, with its own gates, in its own row, on every path.           *)
OutputsExact == wrong = {}

(* The line the next step starts from holds the state after the request's  *)
(* computed tokens, and so does the convolution row.                       *)
StateExact ==
  \A r \in Requests :
    slot[r] # 0 /\ done[r] > 0 =>
      /\ ssm[slot[r]][last[r] - 1] = <<r, done[r], 1>>
      /\ Rolled(conv[slot[r]], last[r]) = <<r, done[r], 1>>
=============================================================================
