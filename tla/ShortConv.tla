------------------------------ MODULE ShortConv ------------------------------
(***************************************************************************)
(* The short convolution of the PLE layers: the metadata of a batch that   *)
(* mixes speculative decodes, plain decodes and prefills                   *)
(* (v1/attention/backends/short_conv_attn.py), and the convolution over    *)
(* the tokens before each one, kept per request in a row of the state      *)
(* cache (models/qwen3_8_flash_next/nvidia/ple_layer.py).                  *)
(* A convolution is the window of tokens it reads.                         *)
(***************************************************************************)
EXTENDS SpecBatches

CONSTANTS
  Reach,     \* conv_state_len
  MaxRows,   \* requests of the largest captured graph
  Sizes      \* requests of the captured graphs

(* What the constants may be.                                              *)
ConvAssumption ==
  {Reach, MaxRows} \subseteq Nat \ {0} /\ Sizes \subseteq 1 .. MaxRows

VARIABLES
  mem,        \* the state cache
  staged,     \* [slot, start, accepted, init]: buffers the graphs read
  wrong       \* kept tokens of the last forward put out with another window
convVars == <<len, done, last, slot, restarts, mem, staged, wrong>>

Null == 0  \* NULL_BLOCK_ID
Zero == <<0, 0, 1>>
Garbage == <<0, 0, 0>>
Capacity == Reach + NumSpec
True(r, p) == IF p <= 0 THEN Zero ELSE <<r, p, 1>>
Repeat(v, n) == [i \in 1 .. n |-> v]
NotStaged == [slot |-> Repeat(Null, MaxRows), start |-> Repeat(0, MaxRows + 1),
              accepted |-> Repeat(1, MaxRows), init |-> Repeat(FALSE, MaxRows)]

ConvInit ==
  /\ BatchInit /\ mem = [s \in 0 .. NumSlots |-> Repeat(Garbage, Capacity)]
  /\ staged = NotStaged /\ wrong = {}

-----------------------------------------------------------------------------
(* The metadata.  Requests are grouped by mask and query length, tokens    *)
(* follow their request's group in a stable sort.                          *)
HasSpec(b) == \E i \in DOMAIN b : b[i].spec
Group(b, i) ==
  IF ~HasSpec(b) THEN (IF \E j \in 1 .. i : b[j].q > 1 THEN 2 ELSE 1)
  ELSE IF b[i].spec THEN 0 ELSE IF b[i].q = 1 THEN 1 ELSE 2
Members(b, g) == SelectSeq([i \in DOMAIN b |-> i], LAMBDA i : Group(b, i) = g)
GroupRows(b, g) ==
  LET owners == OwnersOf(b)
  IN  SelectSeq([i \in DOMAIN owners |-> i], LAMBDA row : Group(b, owners[row]) = g)
PureSpec(b) == \A i \in DOMAIN b : b[i].spec

(* Accepted counts in the order of the state rows.  Mutant: in the order   *)
(* of the batch.                                                           *)
BatchOrder(b, i) == last[b[i].req]
AcceptedOf(b, i) == last[b[Members(b, 0)[i]].req]

SpecPart(b) ==
  LET ids == Members(b, 0)
  IN  [slot |-> [i \in DOMAIN ids |-> slot[b[ids[i]].req]],
       start |-> Sums([i \in DOMAIN ids |-> b[ids[i]].q]),
       accepted |-> [i \in DOMAIN ids |-> AcceptedOf(b, i)]]

(* Buffers of the graphs, for a batch padded to n rows.  Mutant: the rows  *)
(* of an earlier batch stay behind the padding.                            *)
KeptRows(old, new, n) == [i \in DOMAIN old |-> IF i <= Len(new) THEN new[i] ELSE old[i]]
NulledRows(old, new, n) ==
  [i \in DOMAIN old |-> IF i <= Len(new) THEN new[i] ELSE IF i <= n THEN Null ELSE old[i]]
Padded(old, new, n, v) ==
  [i \in DOMAIN old |-> IF i <= Len(new) THEN new[i] ELSE IF i <= n THEN v ELSE old[i]]

StagedSpec(part, n) ==
  [staged EXCEPT
     !.slot = NulledRows(@, part.slot, n),
     !.start = Padded(@, part.start, n + 1, part.start[Len(part.start)]),
     !.accepted = Padded(@, part.accepted, n, 1)]
StagedPlain(b, n) ==
  [staged EXCEPT
     !.slot = NulledRows(@, [i \in DOMAIN b |-> slot[b[i].req]], n),
     !.init = Padded(@, [i \in DOMAIN b |-> done[b[i].req] > 0], n, FALSE)]

-----------------------------------------------------------------------------
(* The convolution: each part gives the rows put out and the new state     *)
(* rows, as functions of the states it gathered.                           *)
Window(history, i) == SubSeq(history, i, i + Reach)
Written(state, new) == new \o SubSeq(state, Len(new) + 1, Capacity)
Blank == Repeat(Zero, Reach)
TrueWindow(x) == [j \in 1 .. Reach + 1 |-> True(x[1], x[2] - Reach - 1 + j)]
Wrong(xs, out) ==
  {xs[i] : i \in {k \in DOMAIN xs : xs[k][3] = 1 /\ (k \in DOMAIN out => out[k] # TrueWindow(xs[k]))}}

DecodeHistory(x, s, init) == (IF init /\ s # Null THEN SubSeq(mem[s], 1, Reach) ELSE Blank) \o <<x>>
DecodeState(x, s, init) ==
  IF s = Null THEN mem[s] ELSE Written(mem[s], SubSeq(DecodeHistory(x, s, init), 2, Reach + 1))

(* Mutant: whatever is in the row is the history of a first chunk.         *)
AlwaysInitial(r) == TRUE
HasInitial(r) == done[r] > 0
PrefillHistory(xs, r) == (IF HasInitial(r) THEN SubSeq(mem[slot[r]], 1, Reach) ELSE Blank) \o xs

(* Mutants: the last Reach columns of the packed batch; no rollback.       *)
LastColumns(history, q, width) == SubSeq(history \o Repeat(Zero, width - q), width + 1, width + Reach)
NextState(history, q, width) == SubSeq(history, q + 1, q + Reach)
NoRollback(accepted) == 0
Rollback(accepted) == IF accepted < 1 THEN 0 ELSE Smaller(accepted - 1, NumSpec)

(* Candidates stay in the row behind the state for the next rollback.      *)
SpecHistory(xs, s, accepted) ==
  (IF s = Null THEN Blank ELSE SubSeq(mem[s], Rollback(accepted) + 1, Rollback(accepted) + Reach)) \o xs
SpecState(xs, s, accepted) ==
  IF s = Null THEN mem[s] ELSE Written(mem[s], Tail(SpecHistory(xs, s, accepted)))

-----------------------------------------------------------------------------
(* A forward outside a FULL graph.                                         *)
Taken(x, part, i) == SubSeq(x, part.start[i] + 1, part.start[i + 1])

(* Mutant: outputs merged in the order of the groups.                      *)
GroupOrder(b, outs) == outs
Merged(b, outs) ==
  LET order == GroupRows(b, 0) \o GroupRows(b, 1) \o GroupRows(b, 2)
  IN  [row \in 1 .. Len(order) |-> outs[CHOOSE k \in DOMAIN order : order[k] = row]]

Dispatched(b) ==
  LET x == RowsOf(b)
      part == SpecPart(b)
      xspec == [k \in DOMAIN GroupRows(b, 0) |-> x[GroupRows(b, 0)[k]]]
      dec == Members(b, 1)
      pre == Members(b, 2)
      width == Max({0} \union {b[i].q : i \in ToSet(pre)})
      decToken(i) == TokensOf(b[dec[i]])[1]
      preHistory(i) == PrefillHistory(TokensOf(b[pre[i]]), b[pre[i]].req)
      decSlot(i) == slot[b[dec[i]].req]
      decInit(i) == done[b[dec[i]].req] > 0
      spec(i) == SpecHistory(Taken(xspec, part, i), part.slot[i], part.accepted[i])
      outs == FlattenSeq([i \in DOMAIN part.slot |->
                            [j \in 1 .. Len(Taken(xspec, part, i)) |-> Window(spec(i), j)]])
              \o [i \in DOMAIN dec |-> Window(DecodeHistory(decToken(i), decSlot(i), decInit(i)), 1)]
              \o FlattenSeq([i \in DOMAIN pre |-> [j \in 1 .. b[pre[i]].q |-> Window(preHistory(i), j)]])
  IN  /\ wrong' = Wrong(x, Merged(b, outs))
      /\ mem' = [s \in 0 .. NumSlots |->
           IF \E i \in DOMAIN part.slot : part.slot[i] = s
             THEN LET i == CHOOSE k \in DOMAIN part.slot : part.slot[k] = s
                  IN  SpecState(Taken(xspec, part, i), s, part.accepted[i])
           ELSE IF \E i \in DOMAIN dec : decSlot(i) = s
             THEN LET i == CHOOSE k \in DOMAIN dec : decSlot(k) = s
                  IN  DecodeState(decToken(i), s, decInit(i))
           ELSE IF \E i \in DOMAIN pre : slot[b[pre[i]].req] = s
             THEN LET i == CHOOSE k \in DOMAIN pre : slot[b[pre[k]].req] = s
                  IN  Written(mem[s], NextState(preHistory(i), b[pre[i]].q, width))
           ELSE mem[s]]

Forward(b) ==
  /\ Dispatched(b)
  /\ staged' = IF HasSpec(b) /\ PureSpec(b) /\ Len(b) <= MaxRows THEN StagedSpec(SpecPart(b), Len(b))
               ELSE IF ~HasSpec(b) /\ Members(b, 2) = <<>> /\ Len(b) <= MaxRows THEN StagedPlain(b, Len(b))
               ELSE staged
  /\ Advance(b)

(* A FULL graph for n requests reads what is staged, padding included.     *)
ReplaySpec(xs, st, n) ==
  LET history(i) == SpecHistory(SubSeq(xs, st.start[i] + 1, st.start[i + 1]), st.slot[i], st.accepted[i])
      qlen(i) == st.start[i + 1] - st.start[i]
  IN  /\ wrong' = Wrong(xs, FlattenSeq([i \in 1 .. n |-> [j \in 1 .. qlen(i) |-> Window(history(i), j)]]))
      /\ mem' = [s \in 0 .. NumSlots |->
           LET of == {i \in 1 .. n : st.slot[i] = s /\ s # Null}
           IN  IF of = {} THEN mem[s]
               ELSE SpecState(SubSeq(xs, st.start[Max(of)] + 1, st.start[Max(of) + 1]), s, st.accepted[Max(of)])]
ReplayPlain(xs, st, n) ==
  LET token(i) == IF i <= Len(xs) THEN xs[i] ELSE Garbage
  IN  /\ wrong' = Wrong(xs, [i \in 1 .. n |-> Window(DecodeHistory(token(i), st.slot[i], st.init[i]), 1)])
      /\ mem' = [s \in 0 .. NumSlots |->
           LET of == {i \in 1 .. n : st.slot[i] = s /\ s # Null}
           IN  IF of = {} THEN mem[s] ELSE DecodeState(token(Max(of)), s, st.init[Max(of)])]

Replay(b, n) ==
  /\ Len(b) <= n
  /\ \/ /\ NumSpec > 0 /\ PureSpec(b) /\ \A i \in DOMAIN b : b[i].q = NumSpec + 1
        /\ staged' = StagedSpec(SpecPart(b), n) /\ ReplaySpec(RowsOf(b), staged', n)
     \/ /\ NumSpec = 0 /\ Members(b, 2) = <<>>
        /\ staged' = StagedPlain(b, n) /\ ReplayPlain(RowsOf(b), staged', n)
  /\ Advance(b)

(* A dummy step replays a graph too; its rows are staged from the zeroed   *)
(* dummy block tables.  Mutant: they are not staged again.                 *)
NotRestaged(n) == staged
Restaged(n) ==
  IF NumSpec > 0
    THEN StagedSpec([slot |-> Repeat(Null, n), start |-> Sums(Repeat(NumSpec + 1, n)),
                     accepted |-> Repeat(NumSpec + 1, n)], n)
    ELSE [staged EXCEPT !.slot = NulledRows(@, Repeat(Null, n), n), !.init = Padded(@, Repeat(FALSE, n), n, FALSE)]

Dummy(n) ==
  /\ staged' = Restaged(n)
  /\ IF NumSpec > 0 THEN ReplaySpec(Repeat(Garbage, n * (NumSpec + 1)), staged', n)
     ELSE ReplayPlain(Repeat(Garbage, n), staged', n)
  /\ UNCHANGED batchVars

-----------------------------------------------------------------------------
Admit(r, s) == AdmitTo(r, s) /\ UNCHANGED <<mem, staged, wrong>>
Preempt(r) == PreemptFrom(r) /\ UNCHANGED <<mem, staged, wrong>>

ConvNext ==
  \/ \E b \in Batches :
       Forward(b) \/ \E n \in Sizes : Replay(b, n)
  \/ \E n \in Sizes : Dummy(n)
  \/ \E r \in Requests : Preempt(r) \/ \E s \in 1 .. NumSlots : Admit(r, s)

ConvSpec == ConvInit /\ [][ConvNext]_convVars

-----------------------------------------------------------------------------
(* A token that is kept reads the Reach tokens before it and itself, in    *)
(* whatever batch, chunk or graph it comes, and its row puts them out.     *)
WindowsExact == wrong = {}

(* Behind the rollback, a request's row holds its last Reach tokens.       *)
StateExact ==
  \A r \in Requests :
    slot[r] # 0 /\ done[r] > 0 =>
      SubSeq(mem[slot[r]], last[r], last[r] + Reach - 1)
        = [j \in 1 .. Reach |-> True(r, done[r] - Reach + j)]
=============================================================================
