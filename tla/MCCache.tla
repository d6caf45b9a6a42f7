------------------------------- MODULE MCCache ------------------------------
(***************************************************************************)
(* Model checking of the KV cache: prefix lookups and what is put into the *)
(* cache, hits on partial blocks, managers that recycle blocks, and blocks *)
(* loaded by a KV connector.                                               *)
(*                                                                         *)
(* They do not interact in these models, so one behaviour runs one of      *)
(* them, `part'; the variables of the others are Off.                      *)
(***************************************************************************)
EXTENDS Integers, Sequences, FiniteSets

VARIABLES
  part,  \* the component that runs
  \* prefix-cache lookups
  layout, cached, limit, hit,
  \* blocks put into the prefix cache
  policy, reached, kept,
  \* PartialHits
  pool, content, phase, running, cursor, budget, step, preempted, req, attn,
  rec, fresh, copies, zero,
  \* WindowBlocks
  lists, computed, steps, windowHit, reserved,
  \* KvLoads
  loadReq, loadPool, loadContent, loadPhase, loadRunning, loadCursor,
  loadBudget, loadStep, inflight, received, failed, loadFresh, skip, zeroing,
  transfers, syncs, report, failures

Found(local, external) == [local |-> local, external |-> external]
FoundHits == {Found(0, 0), Found(2, 0), Found(6, 0), Found(0, 7), Found(4, 5)}

Off == "off"  \* value of the variables of components that do not run

lookupVars == <<layout, cached, limit, hit>>
lookupOff == layout = Off /\ cached = Off /\ limit = Off /\ hit = Off

retentionVars == <<policy, reached, kept>>
retentionOff == policy = Off /\ reached = Off /\ kept = Off

(* Three requests that share a prefix of six tokens, in blocks of four     *)
(* that are hashed by two.                                                 *)
Partial == INSTANCE PartialHits WITH Null <- 0, BlockSize <- 4, NumSpec <- 0,
  HashSize <- 2, Requests <- 1 .. 3, NumBlocks <- 8, MaxBatched <- 12,
  Prompt <- <<7, 7, 11>>, Common <- 6, MaxNew <- 3, MaxPreempt <- 2
partialVars == <<pool, content, phase, running, cursor, budget, step,
  preempted, req, attn, rec, fresh, copies, zero>>
partialOff == pool = Off /\ content = Off /\ phase = Off /\ running = Off
  /\ cursor = Off /\ budget = Off /\ step = Off /\ preempted = Off /\ req = Off
  /\ attn = Off /\ rec = Off /\ fresh = Off /\ copies = Off /\ zero = Off

(* All groups that recycle blocks, admitted with hits of several lengths;  *)
(* and, without chunked attention, which does not go with a drafter that   *)
(* looks ahead (find_longest_cache_hit asserts it), with a lookahead.      *)
Windows == INSTANCE WindowBlocks WITH Groups <- {"full", "window", "chunk",
  "rswa", "ring"}, BlockSize <- 2, Window <- 3, Extra <- 1, ChunkSize <- 4,
  RswaWindow <- 3, Prompt <- 11, MaxLen <- 24, NumSpec <- 2, MaxBatched <- 4,
  Lookahead <- 0, Depth <- 2, MaxInFlight <- 8, Hits <- FoundHits,
  hit <- windowHit
WindowsAhead == INSTANCE WindowBlocks WITH Groups <- {"full", "window",
  "rswa", "ring"}, BlockSize <- 2, Window <- 3, Extra <- 1, ChunkSize <- 4,
  RswaWindow <- 3, Prompt <- 7, MaxLen <- 20, NumSpec <- 2, MaxBatched <- 4,
  Lookahead <- 2, Depth <- 2, MaxInFlight <- 8, Hits <- {Found(0, 0), Found(4, 1)},
  hit <- windowHit
windowVars == <<lists, computed, steps, windowHit, reserved>>
windowOff == lists = Off /\ computed = Off /\ steps = Off /\ windowHit = Off
  /\ reserved = Off

(* Two requests load asynchronously, failed loads are computed again; one  *)
(* does, failed loads end it.                                              *)
Loads == INSTANCE KvLoads WITH Requests <- 1 .. 3, NumBlocks <- 6,
  MaxBatched <- 2, Common <- 1, Prompt <- <<3, 3, 2>>, Remote <- <<2, 3, 0>>,
  LoadAsync <- {1, 2}, Recompute <- TRUE, Failures <- 1, Aborts <- {1},
  MaxPreempt <- 1, req <- loadReq, pool <- loadPool, content <- loadContent,
  phase <- loadPhase, running <- loadRunning, cursor <- loadCursor,
  budget <- loadBudget, step <- loadStep, fresh <- loadFresh
LoadsFail == INSTANCE KvLoads WITH Requests <- 1 .. 3, NumBlocks <- 6,
  MaxBatched <- 2, Common <- 1, Prompt <- <<3, 3, 2>>, Remote <- <<2, 2, 0>>,
  LoadAsync <- {1}, Recompute <- FALSE, Failures <- 2, Aborts <- {1},
  MaxPreempt <- 1, req <- loadReq, pool <- loadPool, content <- loadContent,
  phase <- loadPhase, running <- loadRunning, cursor <- loadCursor,
  budget <- loadBudget, step <- loadStep, fresh <- loadFresh
loadVars == <<loadReq, loadPool, loadContent, loadPhase, loadRunning,
  loadCursor, loadBudget, loadStep, inflight, received, failed, loadFresh,
  skip, zeroing, transfers, syncs, report, failures>>
loadOff == loadReq = Off /\ loadPool = Off /\ loadContent = Off
  /\ loadPhase = Off /\ loadRunning = Off /\ loadCursor = Off
  /\ loadBudget = Off /\ loadStep = Off /\ inflight = Off /\ received = Off
  /\ failed = Off /\ loadFresh = Off /\ skip = Off /\ zeroing = Off
  /\ transfers = Off /\ syncs = Off /\ report = Off /\ failures = Off

-----------------------------------------------------------------------------
(* find_longest_cache_hit of every manager, with and without the drafter's *)
(* recomputation, on every content of the pool and for every limit.        *)
Hits == INSTANCE PrefixHits WITH BlockSize <- 3, Window <- 5, ChunkSize <- 6

Layout(kind, align, drop) == [kind |-> kind, align |-> align, drop |-> drop]
Layouts ==
  {Layout("full", a, d) : a \in {1, 3, 6}, d \in BOOLEAN}
    \union {Layout("window", 3, d) : d \in BOOLEAN} \union {Layout("window", 6, FALSE)}
    \union {Layout("chunk", 3, FALSE)}
    \union {Layout("mamba", a, FALSE) : a \in {1, 3, 6}}
LongestPrompt == 12

(* Partial tails are only cached where hits may be fine-grained.           *)
LookupInit ==
  /\ layout \in Layouts
  /\ cached \in SUBSET {n \in 1 .. LongestPrompt : n % 3 = 0 \/ Hits!Fine(layout.align)}
  /\ limit = 0 /\ hit = Hits!NoHit
Probe ==
  /\ limit < LongestPrompt /\ limit' = limit + 1
  /\ hit' = Hits!Lookup(layout.kind, cached, limit', layout.align, layout.drop)
  /\ UNCHANGED <<layout, cached>>

Candidates ==
  {n \in 0 .. limit :
     IF layout.drop THEN Hits!UsableDropped(layout.kind, cached, limit, layout.align, n)
     ELSE Hits!Usable(layout.kind, cached, limit, layout.align, n)}

(* A hit returns what the next token attends to, all of it cached, and the *)
(* unit the drafter needs recomputed is not part of it.                    *)
HitUsable ==
  hit.length \in Candidates /\ Hits!Needed(layout.kind, hit.length) \subseteq hit.blocks

(* No longer prefix could have been used ("Get the longest cache hit       *)
(* prefix of the blocks that is not longer than max_length").              *)
HitLongest == \A n \in Candidates : n <= hit.length

-----------------------------------------------------------------------------
(* cache_blocks of a sequence that grows in any steps, under every policy. *)
Mask == INSTANCE PrefixHits WITH BlockSize <- 2, Window <- 4, ChunkSize <- 4

Longest == 16
Policy(kind, align, eagle, interval, prompt, junction) ==
  [kind |-> kind, align |-> align, eagle |-> eagle, interval |-> interval,
   prompt |-> prompt, junction |-> junction]
Policies ==
  {p \in {Policy("window", a, e, i, n, j) :
            a \in {2, 4, 8}, e \in BOOLEAN, i \in {Mask!Dense, 0, 8}, n \in 1 .. Longest, j \in {0, 5}}
         \union {Policy("mamba", a, FALSE, i, n, j) :
            a \in {2, 4}, i \in {Mask!Dense, 0, 8}, n \in 1 .. Longest, j \in {0, 5}} :
     p.junction < p.prompt}

RetentionInit == policy \in Policies /\ reached = 0 /\ kept = {}
RetentionNext ==
  /\ reached' \in reached + 1 .. Longest
  /\ kept' = kept \union Mask!NewlyCached(policy, reached, reached')
  /\ UNCHANGED policy

AllCached == {n \in 1 .. reached : n % 2 = 0}
HitOf(blocks, n) == Mask!Lookup(policy.kind, blocks, n, policy.align, policy.eagle).length

(* Dense caching that skips blocks no hit can end on loses no hit          *)
(* (reachable_block_mask: "blocks that can never serve a hit"); sparse     *)
(* caching keeps every hit at the boundaries it promises: the segments,    *)
(* the replay of the prompt and the junction.                              *)
Promised(n) ==
  \/ policy.interval > 0 /\ n % policy.interval = 0
  \/ n \in {Mask!RoundDown(policy.prompt - 1, policy.align),
            Mask!RoundDown(policy.junction, policy.align)}
RetentionKeeps ==
  \A n \in 0 .. Longest :
    LET found == HitOf(kept, n)
        best  == HitOf(AllCached, n)
    IN  IF policy.interval = Mask!Dense THEN found = best
        ELSE \A k \in found + 1 .. best : ~Promised(k)

(* What is kept is kept however the prefill was cut into steps.            *)
CutIndependent == kept = Mask!NewlyCached(policy, 0, reached)

ASSUME Instances ==
  /\ Partial!PartialAssumption
  /\ Windows!WindowAssumption /\ WindowsAhead!WindowAssumption
  /\ Loads!LoadsAssumption
  /\ LoadsFail!LoadsAssumption

-----------------------------------------------------------------------------
Parts == {"lookup", "retention", "partial", "window", "window ahead", "loads", "loads fail"}

SuiteInit ==
  /\ part \in Parts
  /\ IF part = "lookup" THEN LookupInit ELSE lookupOff
  /\ IF part = "retention" THEN RetentionInit ELSE retentionOff
  /\ IF part = "partial" THEN Partial!PartialInit ELSE partialOff
  /\ CASE part = "window" -> Windows!WindowInit
       [] part = "window ahead" -> WindowsAhead!WindowInit
       [] OTHER -> windowOff
  /\ CASE part = "loads" -> Loads!LoadsInit
       [] part = "loads fail" -> LoadsFail!LoadsInit
       [] OTHER -> loadOff

SuiteNext ==
  /\ IF part = "lookup" THEN Probe ELSE UNCHANGED lookupVars
  /\ IF part = "retention" THEN RetentionNext ELSE UNCHANGED retentionVars
  /\ IF part = "partial" THEN Partial!PartialNext ELSE UNCHANGED partialVars
  /\ CASE part = "window" -> Windows!WindowNext
       [] part = "window ahead" -> WindowsAhead!WindowNext
       [] OTHER -> UNCHANGED windowVars
  /\ CASE part = "loads" -> Loads!LoadsNext
       [] part = "loads fail" -> LoadsFail!LoadsNext
       [] OTHER -> UNCHANGED loadVars
  /\ UNCHANGED part

suiteVars == <<part, lookupVars, retentionVars, partialVars, windowVars,
  loadVars>>
SuiteSpec == SuiteInit /\ [][SuiteNext]_suiteVars

-----------------------------------------------------------------------------
(* A hit of the prefix cache is the longest usable one, whatever the       *)
(* manager, the alignment and the drafter; the retention policies keep the *)
(* blocks such hits need, however the prefill was cut; and requests that   *)
(* hit partial blocks read their own tokens and states, although the tails *)
(* they hit are copied before the forward and written on behind it         *)
(* (find_longest_cache_hit, reachable_block_mask,                          *)
(* single_type_kv_cache_manager.py: "before forward overwrites             *)
(* source_block").                                                         *)
HitsExact ==
  /\ part = "lookup" => HitUsable /\ HitLongest
  /\ part = "retention" => RetentionKeeps /\ CutIndependent
  /\ part = "partial" => /\ Partial!RefsExact /\ Partial!ReadsExact
                         /\ Partial!HashesExact /\ Partial!EstimateSuffices

(* Managers that give back blocks behind their window keep what any step   *)
(* in flight attends to, whatever becomes of the drafts before it, hold no *)
(* more than the pool was sized for, and stay within what admission asked  *)
(* for (remove_skipped_blocks: "fully processed and committed tokens only  *)
(* (safe to free)").                                                       *)
WindowsHeld ==
  /\ part = "window" => /\ Windows!ReadsHeld /\ Windows!HeldBounded
                        /\ Windows!EstimateExact /\ Windows!PeakReserved
  /\ part = "window ahead" => /\ WindowsAhead!ReadsHeld /\ WindowsAhead!HeldBounded
                              /\ WindowsAhead!EstimateExact
                              /\ WindowsAhead!PeakReserved

(* A step attends only to blocks whose loads have succeeded or that were   *)
(* computed, and computes only over zeros or its own content, though loads *)
(* fail, overlap aborts and share blocks (scheduler.py:                    *)
(* _update_requests_with_invalid_blocks, _free_request: delay_free_blocks).*)
LoadsExact ==
  /\ part = "loads" => Loads!LoadsOwned /\ Loads!ReadsLoaded /\ Loads!ZeroedFirst
  /\ part = "loads fail" => LoadsFail!LoadsOwned /\ LoadsFail!ReadsLoaded
=============================================================================
