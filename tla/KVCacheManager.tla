--------------------------- MODULE KVCacheManager ---------------------------
(***************************************************************************)
(* The paged KV cache of vllm/v1/core: KVCacheManager, the coordinator and *)
(* FullAttentionManager for one KV-cache group, and the BlockPool below    *)
(* them.  Every operation is a single call made by the scheduler's thread, *)
(* so each is one action; what interleaves is the order of calls for       *)
(* different requests.                                                     *)
(*                                                                         *)
(* The free queue is the sequence that FreeKVCacheBlockQueue implements    *)
(* with a linked list (module FreeKVCacheBlockQueue).  Token counts are    *)
(* turned into block counts by the callers (module Scheduler): here an     *)
(* allocation asks for a total of num_blocks blocks, of which the first    *)
(* num_full hold only tokens that may be cached.                           *)
(***************************************************************************)
EXTENDS Integers, Sequences, FiniteSets

CONSTANTS
  Reqs,             \* request ids
  NumBlocks,        \* num_gpu_blocks, the null block included
  MaxReqBlocks,     \* cdiv(max_model_len, block_size)
  Hashes,           \* block hashes
  NoHash,           \* block_hash is None
  block_hashes,     \* Request.block_hashes of the request's final tokens
  EnableCaching,    \* enable_prefix_caching
  ConnectorEvicts   \* a KV connector may report blocks it failed to load

(* A block hash covers the whole prefix up to the end of its block and     *)
(* hash collisions are ignored: equal hashes stand for equal prefixes.     *)
ASSUME ConstAssumption ==
  /\ IsFiniteSet(Reqs)
  /\ NumBlocks \in Nat \ {0}
  /\ MaxReqBlocks \in Nat \ {0}
  /\ NoHash \notin Hashes
  /\ EnableCaching \in BOOLEAN /\ ConnectorEvicts \in BOOLEAN
ASSUME HashChainAssumption ==
  /\ block_hashes \in [Reqs -> [1 .. MaxReqBlocks -> Hashes]]
  /\ \A r, q \in Reqs : \A i, j \in 1 .. MaxReqBlocks :
       block_hashes[r][i] = block_hashes[q][j] =>
         i = j /\ \A k \in 1 .. i : block_hashes[r][k] = block_hashes[q][k]

NullBlock  == 0                     \* popped from the queue by __init__
Blocks     == 0 .. NumBlocks - 1
PoolBlocks == Blocks \ {NullBlock}

VARIABLES
  free_block_queue,   \* BlockPool.free_block_queue, in eviction order
  ref_cnt,            \* KVCacheBlock.ref_cnt
  block_hash,         \* KVCacheBlock._block_hash
  cached,             \* cached_block_hash_to_block: blocks by insertion order
  req_to_blocks,      \* SingleTypeKVCacheManager.req_to_blocks
  num_cached_block    \* SingleTypeKVCacheManager.num_cached_block (absent = 0)

kvars == <<free_block_queue, ref_cnt, block_hash, cached,
           req_to_blocks, num_cached_block>>

KVInit ==
  /\ free_block_queue = [i \in 1 .. NumBlocks - 1 |-> i]
  /\ ref_cnt = [b \in Blocks |-> 0]
  /\ block_hash = [b \in Blocks |-> NoHash]
  /\ cached = [h \in Hashes |-> <<>>]
  /\ req_to_blocks = [r \in Reqs |-> <<>>]
  /\ num_cached_block = [r \in Reqs |-> 0]

-----------------------------------------------------------------------------
(* Sequence helpers.  Keep(s, S) is SelectSeq(s, LAMBDA x : x \in S),      *)
(* without the recursion: element k is the one at the k-th index that      *)
(* qualifies.                                                              *)
Elems(s)   == {s[i] : i \in 1 .. Len(s)}
Rank(I, i) == Cardinality({j \in I : j <= i})
Keep(s, S) ==
  LET I == {i \in 1 .. Len(s) : s[i] \in S}
  IN  [k \in 1 .. Cardinality(I) |-> s[CHOOSE i \in I : Rank(I, i) = k]]

(* Faulty variant: blocks are freed in table order.                        *)
NotReversed(s) == s
Reversed(s) == [i \in 1 .. Len(s) |-> s[Len(s) + 1 - i]]

-----------------------------------------------------------------------------
(* get_computed_blocks and find_longest_cache_hit: the first cached block  *)
(* of every hash of the chain, up to the first miss and at most            *)
(* max_blocks.                                                             *)
HitLengths(r, max_blocks) ==
  {k \in 0 .. max_blocks : \A i \in 1 .. k : cached[block_hashes[r][i]] # <<>>}

find_longest_cache_hit(r, max_blocks) ==
  LET k == CHOOSE k \in HitLengths(r, max_blocks) :
             \A j \in HitLengths(r, max_blocks) : j <= k
  IN  [i \in 1 .. k |-> cached[block_hashes[r][i]][1]]

get_computed_blocks(r, max_blocks) ==
  IF EnableCaching THEN find_longest_cache_hit(r, max_blocks) ELSE <<>>

(* get_num_blocks_to_allocate: new blocks, plus the hits that are eviction *)
(* candidates and will leave the free queue when touched.                  *)
NumNew(r, hits, num_blocks) ==
  LET held == Len(req_to_blocks[r]) + Len(hits)
  IN  IF num_blocks > held THEN num_blocks - held ELSE 0
get_num_blocks_to_allocate(r, hits, num_blocks) ==
  NumNew(r, hits, num_blocks) + Cardinality({b \in Elems(hits) : ref_cnt[b] = 0})

CanAllocate(r, hits, num_blocks) ==
  get_num_blocks_to_allocate(r, hits, num_blocks) <= Len(free_block_queue)

(* _maybe_evict_cached_block for a set of blocks: those found in the map   *)
(* lose their hash and their entry.  Faulty variant: nothing is evicted.   *)
EvictNothing(S)  == {}
Evictable(S) == {b \in S : block_hash[b] # NoHash /\ b \in Elems(cached[block_hash[b]])}
HashAfterEvict(S)  ==
  [b \in Blocks |-> IF b \in Evictable(S) THEN NoHash ELSE block_hash[b]]
CacheAfterEvict(S) == [h \in Hashes |-> Keep(cached[h], Blocks \ Evictable(S))]

(* cache_full_blocks for the blocks at positions done + 1 .. num_full of a *)
(* request's table: set the hash, insert into the map.                     *)
HashAfterCaching(hash, r, table, done, num_full) ==
  [b \in Blocks |->
     IF \E i \in done + 1 .. num_full : table[i] = b
     THEN block_hashes[r][CHOOSE i \in done + 1 .. num_full : table[i] = b]
     ELSE hash[b]]
CacheAfterCaching(cache, r, table, done, num_full) ==
  [h \in Hashes |->
     IF \E i \in done + 1 .. num_full : block_hashes[r][i] = h
     THEN Append(cache[h], table[CHOOSE i \in done + 1 .. num_full : block_hashes[r][i] = h])
     ELSE cache[h]]

-----------------------------------------------------------------------------
(* allocate_slots when the free blocks suffice: touch the hits, take new   *)
(* blocks from the front of the queue (evicting what they cached), append  *)
(* both to the request's table and cache its full blocks.  Faulty variant: *)
(* the hits stay in the free queue.                                        *)
LeftInQueue(hits) == free_block_queue
touch(hits) == Keep(free_block_queue, Blocks \ Elems(hits))
get_new_blocks(r, hits, num_blocks) == SubSeq(touch(hits), 1, NumNew(r, hits, num_blocks))
TableAfter(r, hits, num_blocks) ==
  req_to_blocks[r] \o hits \o get_new_blocks(r, hits, num_blocks)
FullAfter(done, num_full) == IF EnableCaching /\ num_full > done THEN num_full ELSE done

allocate_slots(r, hits, num_blocks, num_full) ==
  LET new   == Elems(get_new_blocks(r, hits, num_blocks))
      table == TableAfter(r, hits, num_blocks)
      done  == num_cached_block[r] + Len(hits)
      full  == FullAfter(done, num_full)
  IN
  /\ CanAllocate(r, hits, num_blocks)
  /\ free_block_queue' = SubSeq(touch(hits), NumNew(r, hits, num_blocks) + 1, Len(touch(hits)))
  /\ ref_cnt' = [b \in Blocks |->
                   IF b \in Elems(hits) \cup new THEN ref_cnt[b] + 1 ELSE ref_cnt[b]]
  /\ block_hash' = HashAfterCaching(HashAfterEvict(new), r, table, done, full)
  /\ cached' = CacheAfterCaching(CacheAfterEvict(new), r, table, done, full)
  /\ req_to_blocks' = [req_to_blocks EXCEPT ![r] = table]
  /\ num_cached_block' = [num_cached_block EXCEPT ![r] = full]

(* cache_blocks called by the async scheduler once output tokens arrive.   *)
cache_blocks(r, num_full) ==
  LET done == num_cached_block[r] IN
  /\ EnableCaching /\ num_full > done
  /\ block_hash' = HashAfterCaching(block_hash, r, req_to_blocks[r], done, num_full)
  /\ cached' = CacheAfterCaching(cached, r, req_to_blocks[r], done, num_full)
  /\ num_cached_block' = [num_cached_block EXCEPT ![r] = num_full]
  /\ UNCHANGED <<free_block_queue, ref_cnt, req_to_blocks>>

(* free: the request's blocks, last first, drop a reference; those that    *)
(* reach zero join the end of the free queue in that order.                *)
free(r) ==
  LET table == req_to_blocks[r]
      zero  == {b \in Elems(table) : ref_cnt[b] = 1}
  IN
  /\ ref_cnt' = [b \in Blocks |-> IF b \in Elems(table) THEN ref_cnt[b] - 1 ELSE ref_cnt[b]]
  /\ free_block_queue' = free_block_queue \o Keep(Reversed(table), zero)
  /\ req_to_blocks' = [req_to_blocks EXCEPT ![r] = <<>>]
  /\ num_cached_block' = [num_cached_block EXCEPT ![r] = 0]
  /\ UNCHANGED <<block_hash, cached>>

evict_blocks(S) ==
  /\ block_hash' = HashAfterEvict(S)
  /\ cached' = CacheAfterEvict(S)
  /\ UNCHANGED <<free_block_queue, ref_cnt, req_to_blocks, num_cached_block>>

CanReset == NumBlocks - Len(free_block_queue) = 1

reset_prefix_cache ==
  /\ CanReset
  /\ cached' = [h \in Hashes |-> <<>>]
  /\ block_hash' = [b \in Blocks |-> NoHash]
  /\ UNCHANGED <<free_block_queue, ref_cnt, req_to_blocks, num_cached_block>>

-----------------------------------------------------------------------------
(* The calls the scheduler may make: a request that holds no blocks looks  *)
(* for a cached prefix first and needs at least one block beyond it; one   *)
(* that holds blocks only grows.                                           *)
Admit(r, max_hit, num_blocks, num_full) ==
  LET hits == get_computed_blocks(r, max_hit) IN
  /\ req_to_blocks[r] = <<>>
  /\ num_blocks > Len(hits)
  /\ allocate_slots(r, hits, num_blocks, num_full)

Grow(r, num_blocks, num_full) ==
  /\ req_to_blocks[r] # <<>>
  /\ num_blocks >= Len(req_to_blocks[r])
  /\ allocate_slots(r, <<>>, num_blocks, num_full)

Commit(r, num_full) ==
  /\ num_full <= Len(req_to_blocks[r])
  /\ cache_blocks(r, num_full)

KVNext ==
  \/ \E r \in Reqs : \E m \in 0 .. MaxReqBlocks - 1, n \in 1 .. MaxReqBlocks :
       \E f \in 0 .. n : Admit(r, m, n, f)
  \/ \E r \in Reqs : \E n \in 1 .. MaxReqBlocks : \E f \in 0 .. n : Grow(r, n, f)
  \/ \E r \in Reqs : \E f \in 0 .. MaxReqBlocks : Commit(r, f)
  \/ \E r \in Reqs : free(r)
  \/ ConnectorEvicts /\ \E S \in SUBSET Blocks : evict_blocks(S)
  \/ reset_prefix_cache

(* What the KV cache allows its caller; as a property of the scheduler it  *)
(* says that Scheduler calls it only that way: no request is admitted with *)
(* blocks, grows without, or asks for less than it holds.                  *)
KVSpec == KVInit /\ [][KVNext]_kvars

-----------------------------------------------------------------------------
KVTypeOK ==
  /\ free_block_queue \in Seq(PoolBlocks)
  /\ ref_cnt \in [Blocks -> Nat]
  /\ block_hash \in [Blocks -> Hashes \cup {NoHash}]
  /\ cached \in [Hashes -> Seq(Blocks)]
  /\ req_to_blocks \in [Reqs -> Seq(PoolBlocks)]
  /\ num_cached_block \in [Reqs -> Nat]
  /\ \A r \in Reqs : num_cached_block[r] <= Len(req_to_blocks[r])
                     /\ Len(req_to_blocks[r]) <= MaxReqBlocks

Distinct(s) == \A i, j \in 1 .. Len(s) : s[i] = s[j] => i = j
Holders(b)  == {r \in Reqs : b \in Elems(req_to_blocks[r])}

(* The free queue holds exactly the unreferenced blocks, each once, and    *)
(* ref_cnt is the number of block tables that name the block: no block is  *)
(* lost, freed twice, or handed out while a request still holds it.        *)
FreeIsUnreferenced ==
  /\ Distinct(free_block_queue)
  /\ Elems(free_block_queue) = {b \in PoolBlocks : ref_cnt[b] = 0}
RefCountsHolders ==
  /\ \A r \in Reqs : Distinct(req_to_blocks[r])
  /\ \A b \in PoolBlocks : ref_cnt[b] = Cardinality(Holders(b))

(* The prefix map and the blocks' own hashes agree, and the null block is  *)
(* never cached.                                                           *)
CacheMatchesHashes ==
  /\ block_hash[NullBlock] = NoHash
  /\ \A h \in Hashes : Distinct(cached[h])
  /\ \A h \in Hashes, b \in Blocks : b \in Elems(cached[h]) <=> block_hash[b] = h

(* A cached block of a request's table is cached for exactly that          *)
(* request's prefix; the blocks behind num_cached_block carry no hash (the *)
(* assertion in cache_full_blocks) and belong to no other request, so that *)
(* writing new tokens never touches KV data somebody else reads.           *)
TablesMatchPrefix ==
  \A r \in Reqs : \A i \in 1 .. Len(req_to_blocks[r]) :
    LET b == req_to_blocks[r][i] IN
    IF i <= num_cached_block[r]
    THEN block_hash[b] \in {block_hashes[r][i], NoHash}
    ELSE block_hash[b] = NoHash /\ Holders(b) = {r}

(* What every call of the scheduler may rely on, in any order of calls:    *)
(* block accounting, the prefix map and the block tables are consistent.   *)
KVInv ==
  /\ KVTypeOK /\ FreeIsUnreferenced /\ RefCountsHolders
  /\ CacheMatchesHashes /\ TablesMatchPrefix

(* find_longest_cache_hit stops at the first miss because "the following   *)
(* block hashes are not computed yet for sure": whenever a block of a      *)
(* prefix is cached, so is the block before it.  Eviction keeps this true  *)
(* only because free() returns a request's blocks last one first.          *)
PrefixClosed ==
  \A r \in Reqs : \A i \in 2 .. MaxReqBlocks :
    cached[block_hashes[r][i]] # <<>> => cached[block_hashes[r][i - 1]] # <<>>

(* "block tables are append-only": as long as a request keeps its blocks,  *)
(* its table is only extended, and a block that stays in use keeps its     *)
(* hash unless a connector disowns it.                                     *)
AppendOnly ==
  [][\A r \in Reqs :
       req_to_blocks'[r] # <<>> =>
         /\ Len(req_to_blocks[r]) <= Len(req_to_blocks'[r])
         /\ \A i \in 1 .. Len(req_to_blocks[r]) :
              /\ req_to_blocks'[r][i] = req_to_blocks[r][i]
              /\ ConnectorEvicts \/ block_hash[req_to_blocks[r][i]] \in
                   {NoHash, block_hash'[req_to_blocks[r][i]]}]_kvars
=============================================================================
