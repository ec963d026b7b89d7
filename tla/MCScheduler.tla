----------------------------- MODULE MCScheduler -----------------------------
(* Three requests in blocks of two tokens; r1 and r2 have the same prompt, *)
(* and with it their first block, r3 shares nothing with them.             *)
EXTENDS Scheduler

CONSTANTS r1, r2, r3

MCHashes == {"a", "ab", "abx", "ac", "acx", "d", "de", "dex"}
MCBlockHashes ==
  [r \in Reqs |-> CASE r = r1 -> <<"a", "ab", "abx">>
                    [] r = r2 -> <<"a", "ac", "acx">>
                    [] r = r3 -> <<"d", "de", "dex">>]
MCPromptLen == [r \in Reqs |-> IF r = r3 THEN 1 ELSE 3]
MCMaxTokens == [r \in Reqs |-> IF r = r3 THEN 2 ELSE 3]
MCMinTokens == [r \in Reqs |-> IF r = r1 THEN 2 ELSE 0]
MCPriorityKey == [r \in Reqs |-> CASE r = r1 -> 3 [] r = r2 -> 2 [] r = r3 -> 1]

(* One-token blocks: a prompt of six tokens, low priority, and a short,    *)
(* urgent request that arrives in the middle of its prefill.               *)
LongHashes == {<<r, i>> : r \in Reqs, i \in 1 .. MaxReqBlocks}
LongBlockHashes == [r \in Reqs |-> [i \in 1 .. MaxReqBlocks |-> <<r, i>>]]
LongPromptLen == [r \in Reqs |-> IF r = r1 THEN 6 ELSE 1]
LongMaxTokens == [r \in Reqs |-> 2]
LongMinTokens == [r \in Reqs |-> IF r = r1 THEN 1 ELSE 2]

(* Keep against the library's filter, for every short sequence.            *)
ASSUME KeepIsSelectSeq ==
  \A s \in UNION {[1 .. n -> 1 .. 3] : n \in 0 .. 4} : \A S \in SUBSET (1 .. 3) :
    LET InS(x) == x \in S IN Keep(s, S) = SelectSeq(s, InS)
==============================================================================
