---------------------------- MODULE SpecBatches -----------------------------
(***************************************************************************)
(* Batches a layer with a recurrent state sees: requests that prefill in   *)
(* chunks, decode one token, or verify drafts, each with a row of the      *)
(* state cache.  Used by ShortConv and GdnForward.                         *)
(*                                                                         *)
(* A token is <<request, position, ok>>; ok = 0 for a draft that will be   *)
(* rejected.                                                               *)
(***************************************************************************)
EXTENDS Integers, Sequences, FiniteSets, FiniteSetsExt, SequencesExt

CONSTANTS
  Requests, NumSlots,
  NumSpec,   \* speculative tokens
  Prompt,    \* length of each request's prompt
  MaxLen,    \* bound on a request
  MaxChunk,  \* tokens of a prefill chunk
  Restarts   \* bound on preemptions

(* What the constants may be.                                              *)
BatchAssumption ==
  /\ Requests \subseteq Nat \ {0} /\ Cardinality(Requests) <= NumSlots
  /\ {MaxLen, MaxChunk} \subseteq Nat \ {0} /\ {NumSpec, Restarts} \subseteq Nat
  /\ \A r \in Requests : Prompt[r] \in 1 .. MaxLen

VARIABLES
  len, done,  \* tokens known, tokens computed
  last,       \* accepted tokens of its last forward (num_accepted_tokens)
  slot,       \* row of the state cache, 0: none
  restarts
batchVars == <<len, done, last, slot, restarts>>

Smaller(a, b) == IF a <= b THEN a ELSE b
Sums(s) ==
  LET f[i \in 1 .. Len(s) + 1] == IF i = 1 THEN 0 ELSE f[i - 1] + s[i - 1]
  IN  [i \in 1 .. Len(s) + 1 |-> f[i]]

BatchInit ==
  /\ len = [r \in Requests |-> Prompt[r]] /\ done = [r \in Requests |-> 0]
  /\ last = [r \in Requests |-> 1] /\ slot = [r \in Requests |-> 0] /\ restarts = 0

(* Batches.  An entry has the tokens of the request, how many of them will *)
(* be accepted, and whether the runner counts it as speculative.  A decode *)
(* is plain only where its last step accepted one token.                   *)
Entry(r, q, kept, spec) == [req |-> r, q |-> q, kept |-> kept, spec |-> spec]
Prefills(r) == {Entry(r, q, q, FALSE) : q \in 1 .. Smaller(MaxChunk, len[r] - done[r])}
Decodes(r) ==
  (IF last[r] = 1 /\ done[r] < MaxLen THEN {Entry(r, 1, 1, FALSE)} ELSE {})
    \union (IF NumSpec > 0
              THEN {Entry(r, q, k, TRUE) : <<q, k>> \in
                      {x \in (1 .. NumSpec + 1) \X (1 .. NumSpec + 1) :
                         x[2] <= x[1] /\ done[r] + x[1] <= MaxLen}}
              ELSE {})
EntriesOf(r) ==
  IF slot[r] = 0 THEN {}
  ELSE IF done[r] > 0 /\ done[r] = len[r] - 1 THEN Decodes(r)
  ELSE Prefills(r)

(* Requests with the query length of a decode come first.                  *)
Batches ==
  UNION {{b \in [1 .. n -> UNION {EntriesOf(r) : r \in Requests}] :
            /\ \A i, j \in 1 .. n : i # j => b[i].req # b[j].req
            /\ \A i, j \in 1 .. n : i < j /\ b[i].q > NumSpec + 1 => b[j].q > NumSpec + 1
            /\ NumSpec = 0 => \A i, j \in 1 .. n : i < j /\ b[i].q > 1 => b[j].q > 1}
         : n \in 1 .. Cardinality(Requests)}

Lengths(b) == [i \in DOMAIN b |-> b[i].q]
TokensOf(e) == [j \in 1 .. e.q |-> <<e.req, done[e.req] + j, IF j <= e.kept THEN 1 ELSE 0>>]
OwnersOf(b) ==   \* of each row, the entry
  LET starts == Sums(Lengths(b))
  IN  [row \in 1 .. starts[Len(b) + 1] |->
         CHOOSE i \in DOMAIN b : starts[i] < row /\ row <= starts[i + 1]]
RowsOf(b) ==
  LET starts == Sums(Lengths(b))
      owners == OwnersOf(b)
  IN  [row \in DOMAIN owners |-> TokensOf(b[owners[row]])[row - starts[owners[row]]]]

(* A batch was computed.                                                   *)
Advance(b) ==
  /\ done' = [r \in Requests |->
       IF \E i \in DOMAIN b : b[i].req = r
         THEN done[r] + b[CHOOSE i \in DOMAIN b : b[i].req = r].kept ELSE done[r]]
  /\ len' = [r \in Requests |-> IF done'[r] >= len[r] THEN done'[r] + 1 ELSE len[r]]
  /\ last' = [r \in Requests |->
       IF \E i \in DOMAIN b : b[i].req = r
         THEN LET e == b[CHOOSE i \in DOMAIN b : b[i].req = r] IN IF e.spec THEN e.kept ELSE 1
         ELSE last[r]]
  /\ UNCHANGED <<slot, restarts>>

(* Rows of the state cache are handed out by the block manager.            *)
AdmitTo(r, s) ==
  /\ slot[r] = 0 /\ s = Min({t \in 1 .. NumSlots : \A q \in Requests : slot[q] # t})
  /\ slot' = [slot EXCEPT ![r] = s] /\ last' = [last EXCEPT ![r] = 1]
  /\ UNCHANGED <<len, done, restarts>>

PreemptFrom(r) ==
  /\ slot[r] # 0 /\ restarts < Restarts /\ restarts' = restarts + 1
  /\ slot' = [slot EXCEPT ![r] = 0] /\ done' = [done EXCEPT ![r] = 0]
  /\ UNCHANGED <<len, last>>
=============================================================================
