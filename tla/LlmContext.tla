----------------------------- MODULE LlmContext -----------------------------
(***************************************************************************)
(* The working memory of consciousness/runtime/llm.c: the tokens of AION's *)
(* life kept in context_tokens, and beside them the KV cache of llama.cpp, *)
(* which is external and is told of the tokens in batches.  Feeding a text *)
(* compacts the tokens when they come near the end of the array; thinking  *)
(* adds the model's own tokens one by one.                                 *)
(*                                                                         *)
(* A token is its serial number: what matters of it is when it came.       *)
(***************************************************************************)
EXTENDS Integers, Sequences

CONSTANTS
    CtxSize,    \* CTX_SIZE, 4096: the array and the cells of the cache
    Margin,     \* 128
    FeedMax,    \* 512, the size of new_tokens
    BatchSize,  \* BATCH_SIZE, 512: cp.n_batch
    ThinkMax,   \* max_tokens, 256
    OutSize,    \* out_sz, the bytes of the output buffer
    PieceLens,  \* the lengths of a token's text, 0 to 63
    MaxTokens   \* bound of the model: tokens in a life

Keep == (CtxSize * 3) \div 4

\* The values of llm.c satisfy the inequalities: a text too long to fit finds
\* more than Keep tokens, after a compaction the longest one fits, and a text
\* is one batch.
ASSUME ContextAssumption ==
    /\ CtxSize \in Nat \ {0} /\ Margin \in Nat \ {0} /\ FeedMax \in Nat \ {0}
    /\ BatchSize \in Nat /\ ThinkMax \in Nat /\ MaxTokens \in Nat
    /\ OutSize \in Nat \ {0}
    /\ PieceLens \subseteq Nat
    /\ Keep + FeedMax <= CtxSize - Margin
    /\ FeedMax <= BatchSize

VARIABLES
    context,    \* context_tokens[0 .. context_len - 1]
    kv,         \* the tokens in the KV cache
    born,       \* the tokens there have been
    pc,         \* "idle", or "think" inside the loop of llm_think
    generated,
    out_pos

vars == <<context, kv, born, pc, generated, out_pos>>

context_len == Len(context)

Init ==
    /\ context = <<>>
    /\ kv = <<>>
    /\ born = 0
    /\ pc = "idle"
    /\ generated = 0
    /\ out_pos = 0

\* llama_decode: a batch beyond n_batch or beyond the cells left is refused and
\* leaves the cache as it was.
Accepted(cache, tokens) ==
    Len(tokens) <= BatchSize /\ Len(cache) + Len(tokens) <= CtxSize

Decode(cache, tokens) ==
    IF Accepted(cache, tokens) THEN cache \o tokens ELSE cache

Newborn(n) == [i \in 1 .. n |-> born + i]

\* Mutation: the oldest tokens are kept.
CompactedOldest == SubSeq(context, 1, Keep)

\* Mutation: context_len is not set to Keep, so the tail is there twice.
CompactedTwice == SubSeq(context, context_len - Keep + 1, context_len)
                     \o SubSeq(context, Keep + 1, context_len)

\* memmove of the newest Keep tokens to the front.
Compacted == SubSeq(context, context_len - Keep + 1, context_len)

\* Mutation: the whole context is decoded again with every text.
FeedAll(n) ==
    /\ pc = "idle"
    /\ born + n <= MaxTokens
    /\ born' = born + n
    /\ \/ /\ context_len + n > CtxSize - Margin
          /\ context' = Compacted \o Newborn(n)
       \/ /\ context_len + n <= CtxSize - Margin
          /\ context' = context \o Newborn(n)
    /\ kv' = Decode(kv, context')
    /\ UNCHANGED <<pc, generated, out_pos>>

\* llm_feed of a text of n tokens; a text of more than FeedMax is refused by
\* llama_tokenize.  Neither decode's result is looked at before the end.
Feed(n) ==
    /\ pc = "idle"
    /\ born + n <= MaxTokens
    /\ born' = born + n
    /\ \/ /\ context_len + n > CtxSize - Margin
          /\ context' = Compacted \o Newborn(n)
          /\ kv' = Decode(Decode(<<>>, Compacted), Newborn(n))
       \/ /\ context_len + n <= CtxSize - Margin
          /\ context' = context \o Newborn(n)
          /\ kv' = Decode(kv, Newborn(n))
    /\ UNCHANGED <<pc, generated, out_pos>>

BeginThink ==
    /\ pc = "idle"
    /\ context_len # 0
    /\ pc' = "think"
    /\ generated' = 0
    /\ out_pos' = 0
    /\ UNCHANGED <<context, kv, born>>

\* Mutation: the token is recorded whether there is room or not.
RoomAlways == TRUE

\* A cell of context_tokens stays free.
HasRoom == context_len < CtxSize - 1

\* Mutation: the budget of a thought is checked one token late.
BudgetLate == generated <= ThinkMax

BudgetLeft == generated < ThinkMax

\* One pass of the loop: the piece is copied if it fits, the token recorded if
\* there is room, then decoded; a refused decode ends the loop.
ThinkToken(plen) ==
    /\ pc = "think"
    /\ BudgetLeft
    /\ born < MaxTokens
    /\ born' = born + 1
    /\ out_pos' = IF out_pos + plen < OutSize - 1 THEN out_pos + plen ELSE out_pos
    /\ context' = IF HasRoom THEN Append(context, born') ELSE context
    /\ kv' = Decode(kv, <<born'>>)
    /\ IF Accepted(kv, <<born'>>)
       THEN generated' = generated + 1 /\ UNCHANGED pc
       ELSE pc' = "idle" /\ UNCHANGED generated

\* The token budget is spent, the model ends its turn, or a token has no text.
EndThink ==
    /\ pc = "think"
    /\ pc' = "idle"
    /\ UNCHANGED <<context, kv, born, generated, out_pos>>

Next ==
    \/ \E n \in 1 .. FeedMax : Feed(n)
    \/ BeginThink
    \/ \E plen \in PieceLens : ThinkToken(plen)
    \/ EndThink

Spec == Init /\ [][Next]_vars

-----------------------------------------------------------------------------
\* Type invariant.
ContextTypeOK ==
    /\ context \in Seq(1 .. born)
    /\ kv \in Seq(1 .. born) /\ Len(kv) <= CtxSize
    /\ born \in Nat
    /\ pc \in {"idle", "think"}
    /\ generated \in 0 .. ThinkMax
    /\ out_pos \in Nat

\* Neither array is written out of bounds: a life of any length, fed and
\* thinking in any order, leaves a cell of context_tokens unused, and the
\* output keeps room for its terminator.
ArraysInBounds ==
    /\ context_len <= CtxSize - 1
    /\ out_pos = 0 \/ out_pos + 1 < OutSize

\* The context holds tokens in the order they came, each once, through every
\* compaction.
ContextOrdered ==
    \A i, j \in 1 .. context_len : i < j => context[i] < context[j]

ForgetStep ==
    /\ \A i \in 1 .. context_len :
          \/ \E j \in 1 .. Len(context') : context'[j] = context[i]
          \/ \A j \in 1 .. Len(context') : context[i] < context'[j]
    /\ pc = "idle" /\ born' # born => Len(context') <= CtxSize - Margin

\* A token is forgotten only together with every older one (llm.c:73, "se
\* olvidan las experiencias mas viejas"), and every feed leaves Margin cells
\* free for the thought that follows.
ForgetsOldest == [][ForgetStep]_vars

\* Until a token has been left out or the context has been compacted the cache
\* holds exactly the context: no earlier decode is refused.
CacheCurrent ==
    context_len = born => kv = context
=============================================================================
