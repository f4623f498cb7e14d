--------------------------- MODULE MCPrefixCache ---------------------------
(* Blocks of two tokens, and fewer slots than the prompts have blocks.     *)
EXTENDS PrefixCache

\* Two conversations that share their first block and part after it, and a third
\* that starts elsewhere; no two of their blocks or tails have the same tokens.
MCThree == {<<1, 1, 2, 2>>, <<1, 1, 3>>, <<5, 5, 6>>}

\* A conversation and another that shares nothing with it.
MCTwo == {<<1, 1, 2, 2, 3>>, <<4, 4, 6, 6, 5>>}

MCTight == [blk |-> 2, ck |-> 2]

\* The hypothesis of CacheServesThePrefix, for either set of prompts.
ASSUME MCTokensTell == TokensTellPrefixes
=============================================================================
