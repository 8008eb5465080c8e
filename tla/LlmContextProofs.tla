-------------------------- MODULE LlmContextProofs --------------------------
(***************************************************************************)
(* Proofs about LlmContext, for every size of the array, margin, batch and *)
(* thought that ContextAssumption allows, and for a life of any length.    *)
(***************************************************************************)
EXTENDS LlmContext, SequenceTheorems, TLAPS

ContextInv ==
    /\ ContextTypeOK
    /\ ArraysInBounds
    /\ ContextOrdered
    /\ CacheCurrent
    /\ context_len <= born

LEMMA KeepNat == Keep \in Nat /\ Keep + FeedMax <= CtxSize - Margin
  BY ContextAssumption DEF Keep

LEMMA NewbornIs ==
    ASSUME NEW n \in Nat, born \in Nat
    PROVE  /\ Newborn(n) \in Seq(1 .. born + n)
           /\ Len(Newborn(n)) = n
           /\ \A i \in 1 .. n : Newborn(n)[i] = born + i
  BY DEF Newborn

\* What a compaction leaves: the newest Keep tokens.
LEMMA CompactedIs ==
    ASSUME ContextTypeOK, Keep <= context_len
    PROVE  /\ Compacted \in Seq(1 .. born)
           /\ Len(Compacted) = Keep
           /\ \A i \in 1 .. Keep : Compacted[i] = context[context_len - Keep + i]
  BY KeepNat DEF Compacted, ContextTypeOK, context_len

\* Tokens that come after all the others keep the order.
LEMMA AppendNewborn ==
    ASSUME born \in Nat, NEW n \in Nat, NEW s \in Seq(1 .. born),
           \A i, j \in 1 .. Len(s) : i < j => s[i] < s[j]
    PROVE  LET t == s \o Newborn(n)
           IN  /\ t \in Seq(1 .. born + n)
               /\ Len(t) = Len(s) + n
               /\ \A i, j \in 1 .. Len(t) : i < j => t[i] < t[j]
<1> DEFINE t == s \o Newborn(n)
<1>1. /\ Newborn(n) \in Seq(1 .. born + n) /\ Len(Newborn(n)) = n
      /\ \A i \in 1 .. n : Newborn(n)[i] = born + i
  BY NewbornIs
<1>2. s \in Seq(1 .. born + n)
  <2>1. 1 .. born \subseteq 1 .. born + n
    OBVIOUS
  <2> QED
    BY <2>1, SeqMonotonic
<1>3. t \in Seq(1 .. born + n) /\ Len(t) = Len(s) + n
  <2> DEFINE T == 1 .. born + n
  <2>1. s \in Seq(T) /\ Newborn(n) \in Seq(T)
    BY <1>1, <1>2
  <2> HIDE DEF T
  <2>2. t \in Seq(T) /\ Len(t) = Len(s) + Len(Newborn(n))
    BY <2>1, ConcatProperties
  <2> QED
    BY <2>2, <1>1 DEF T
<1>4. \A i \in 1 .. Len(t) :
         t[i] = IF i <= Len(s) THEN s[i] ELSE born + (i - Len(s))
  <2> SUFFICES ASSUME NEW i \in 1 .. Len(t)
               PROVE  t[i] = IF i <= Len(s) THEN s[i] ELSE born + (i - Len(s))
    OBVIOUS
  <2>1. t[i] = IF i <= Len(s) THEN s[i] ELSE Newborn(n)[i - Len(s)]
    BY <1>1, <1>2, <1>3, ConcatProperties
  <2>2. ~(i <= Len(s)) => i - Len(s) \in 1 .. n
    BY <1>3
  <2> QED
    BY <1>1, <2>1, <2>2
<1>5. \A i \in 1 .. Len(s) : s[i] \in 1 .. born
  OBVIOUS
<1>6. ASSUME NEW i \in 1 .. Len(t), NEW j \in 1 .. Len(t), i < j
      PROVE  t[i] < t[j]
  BY <1>3, <1>4, <1>5, <1>6
<1> QED
  BY <1>3, <1>6

LEMMA ContextInitInv == Init => ContextInv
  BY ContextAssumption
     DEF Init, ContextInv, ContextTypeOK, ArraysInBounds, ContextOrdered,
         CacheCurrent, context_len

\* What the cache becomes is a sequence of tokens and fits its cells.
LEMMA DecodeFits ==
    ASSUME NEW b \in Nat, NEW cache \in Seq(1 .. b), Len(cache) <= CtxSize,
           NEW tokens \in Seq(1 .. b)
    PROVE  /\ Decode(cache, tokens) \in Seq(1 .. b)
           /\ Len(Decode(cache, tokens)) <= CtxSize
<1>1. /\ cache \o tokens \in Seq(1 .. b)
      /\ Len(cache \o tokens) = Len(cache) + Len(tokens)
  BY ConcatProperties
<1> QED
  BY <1>1 DEF Decode, Accepted

LEMMA FeedInv ==
    ASSUME ContextInv, NEW n \in 1 .. FeedMax, Feed(n)
    PROVE  ContextInv'
<1> USE DEF context_len
<1>1. /\ n \in Nat /\ n >= 1 /\ n <= FeedMax /\ born \in Nat
      /\ born' = born + n /\ born' \in Nat
      /\ pc' = pc /\ generated' = generated /\ out_pos' = out_pos
  BY ContextAssumption DEF Feed, ContextInv, ContextTypeOK
<1>2. /\ Newborn(n) \in Seq(1 .. born') /\ Len(Newborn(n)) = n
  BY <1>1, NewbornIs
<1>3. \A s : s \in Seq(1 .. born) => s \in Seq(1 .. born')
  <2>1. 1 .. born \subseteq 1 .. born'
    BY <1>1
  <2> QED
    BY <2>1, SeqMonotonic
<1>4. kv \in Seq(1 .. born') /\ Len(kv) <= CtxSize
  BY <1>3 DEF ContextInv, ContextTypeOK
<1>5. CASE context_len + n > CtxSize - Margin
  <2>1. Keep < context_len /\ context_len \in Nat
    BY <1>1, <1>5, KeepNat, ContextAssumption DEF ContextInv, ContextTypeOK
  <2>2. /\ Compacted \in Seq(1 .. born) /\ Len(Compacted) = Keep
        /\ \A i \in 1 .. Keep : Compacted[i] = context[context_len - Keep + i]
    BY <2>1, CompactedIs, KeepNat DEF ContextInv
  <2>3. \A i, j \in 1 .. Len(Compacted) : i < j => Compacted[i] < Compacted[j]
    BY <2>1, <2>2, KeepNat DEF ContextInv, ContextOrdered
  <2>4. /\ context' = Compacted \o Newborn(n)
        /\ kv' = Decode(Decode(<<>>, Compacted), Newborn(n))
    BY <1>1, <1>5, <2>1, ContextAssumption DEF Feed
  <2>5. /\ context' \in Seq(1 .. born') /\ Len(context') = Keep + n
        /\ \A i, j \in 1 .. Len(context') : i < j => context'[i] < context'[j]
    BY <1>1, <2>2, <2>3, <2>4, AppendNewborn
  <2>6. kv' \in Seq(1 .. born') /\ Len(kv') <= CtxSize
    <3>1. <<>> \in Seq(1 .. born') /\ Len(<<>>) <= CtxSize
      BY ContextAssumption
    <3>2. Compacted \in Seq(1 .. born')
      BY <2>2, <1>3
    <3>3. /\ Decode(<<>>, Compacted) \in Seq(1 .. born')
          /\ Len(Decode(<<>>, Compacted)) <= CtxSize
      BY <1>1, <3>1, <3>2, DecodeFits
    <3> QED
      BY <1>1, <1>2, <2>4, <3>3, DecodeFits
  <2>7. Len(context') <= CtxSize - 1 /\ Len(context') < born'
    BY <1>1, <2>1, <2>5, KeepNat, ContextAssumption DEF ContextInv
  <2> QED
    BY <1>1, <2>5, <2>6, <2>7, ContextAssumption
       DEF ContextInv, ContextTypeOK, ArraysInBounds, ContextOrdered, CacheCurrent
<1>6. CASE context_len + n <= CtxSize - Margin
  <2>1. context \in Seq(1 .. born) /\ context_len \in Nat
    BY DEF ContextInv, ContextTypeOK
  <2>2. context' = context \o Newborn(n) /\ kv' = Decode(kv, Newborn(n))
    BY <1>1, <1>6, <2>1, ContextAssumption DEF Feed
  <2>3. /\ context' \in Seq(1 .. born') /\ Len(context') = context_len + n
        /\ \A i, j \in 1 .. Len(context') : i < j => context'[i] < context'[j]
    BY <1>1, <2>1, <2>2, AppendNewborn DEF ContextInv, ContextOrdered
  <2>4. kv' \in Seq(1 .. born') /\ Len(kv') <= CtxSize
    BY <1>1, <1>2, <1>4, <2>2, DecodeFits
  <2>5. Len(context') <= CtxSize - 1 /\ Len(context') <= born'
    BY <1>1, <1>6, <2>1, <2>3, ContextAssumption DEF ContextInv
  <2>6. Len(context') = born' => kv' = context'
    <3> SUFFICES ASSUME Len(context') = born' PROVE kv' = context'
      OBVIOUS
    <3>1. context_len = born
      BY <1>1, <2>1, <2>3
    <3>2. kv = context
      BY <3>1 DEF ContextInv, CacheCurrent
    <3>3. Accepted(kv, Newborn(n))
      BY <3>2, <1>1, <1>2, <1>6, <2>1, ContextAssumption DEF Accepted
    <3> QED
      BY <3>2, <3>3, <2>2 DEF Decode
  <2> QED
    BY <1>1, <2>3, <2>4, <2>5, <2>6, ContextAssumption
       DEF ContextInv, ContextTypeOK, ArraysInBounds, ContextOrdered, CacheCurrent
<1> QED
  <2>1. context_len \in Nat
    BY DEF ContextInv, ContextTypeOK
  <2> QED
    BY <1>1, <1>5, <1>6, <2>1, ContextAssumption

LEMMA ThinkTokenInv ==
    ASSUME ContextInv, NEW plen \in PieceLens, ThinkToken(plen)
    PROVE  ContextInv'
<1> USE DEF context_len
<1>1. /\ born \in Nat /\ born' = born + 1 /\ born' \in Nat
      /\ context \in Seq(1 .. born) /\ Len(context) \in Nat
      /\ kv \in Seq(1 .. born) /\ Len(kv) <= CtxSize
      /\ plen \in Nat
  BY ContextAssumption DEF ThinkToken, HasRoom, BudgetLeft, ContextInv, ContextTypeOK
<1>2. \A s : s \in Seq(1 .. born) => s \in Seq(1 .. born')
  <2>1. 1 .. born \subseteq 1 .. born'
    BY <1>1
  <2> QED
    BY <2>1, SeqMonotonic
<1>3. <<born'>> \in Seq(1 .. born') /\ Len(<<born'>>) = 1
  BY <1>1
<1>4. kv' = Decode(kv, <<born'>>)
  BY DEF ThinkToken, HasRoom, BudgetLeft
<1>5. kv' \in Seq(1 .. born') /\ Len(kv') <= CtxSize
  BY <1>1, <1>2, <1>3, <1>4, DecodeFits
<1>6. pc' \in {"idle", "think"} /\ generated' \in 0 .. ThinkMax
  BY ContextAssumption DEF ThinkToken, HasRoom, BudgetLeft, ContextInv, ContextTypeOK
<1>7. out_pos' \in Nat /\ (out_pos' = 0 \/ out_pos' + 1 < OutSize)
  BY <1>1, ContextAssumption
     DEF ThinkToken, HasRoom, BudgetLeft, ContextInv, ContextTypeOK, ArraysInBounds
<1>8. CASE context_len < CtxSize - 1
  <2>1. context' = Append(context, born')
    BY <1>8 DEF ThinkToken, HasRoom, BudgetLeft
  <2>2. /\ context' \in Seq(1 .. born') /\ Len(context') = Len(context) + 1
        /\ \A i \in 1 .. Len(context) : context'[i] = context[i]
        /\ context'[Len(context) + 1] = born'
    BY <1>1, <1>2, <2>1
  <2>3. \A i, j \in 1 .. Len(context') : i < j => context'[i] < context'[j]
    <3>1. \A i \in 1 .. Len(context) : context[i] \in Nat /\ context[i] < born'
      BY <1>1
    <3>2. \A i, j \in 1 .. Len(context) : i < j => context[i] < context[j]
      BY DEF ContextInv, ContextOrdered
    <3> SUFFICES ASSUME NEW i \in 1 .. Len(context'), NEW j \in 1 .. Len(context'),
                        i < j
                 PROVE  context'[i] < context'[j]
      OBVIOUS
    <3>3. Len(context') = Len(context) + 1 /\ Len(context) \in Nat
      BY <1>1, <2>2
    <3>4. i \in 1 .. Len(context) /\ j \in 1 .. Len(context) + 1
      BY <3>3
    <3>5. context'[i] = context[i]
      BY <2>2, <3>4
    <3>6. CASE j = Len(context) + 1
      BY <2>2, <3>1, <3>4, <3>5, <3>6
    <3>7. CASE j \in 1 .. Len(context)
      <4>1. context'[j] = context[j]
        BY <2>2, <3>7
      <4> QED
        BY <3>2, <3>4, <3>5, <3>7, <4>1
    <3> QED
      BY <3>3, <3>4, <3>6, <3>7
  <2>4. Len(context') <= CtxSize - 1 /\ Len(context') <= born'
    BY <1>1, <1>8, <2>2, ContextAssumption DEF ContextInv
  <2>5. Len(context') = born' => kv' = context'
    <3>1. CASE Len(context) = born
      <4>1. kv = context
        BY <3>1 DEF ContextInv, CacheCurrent
      <4>2. Accepted(kv, <<born'>>)
        BY <4>1, <1>1, <1>3, <1>8, ContextAssumption DEF Accepted
      <4> QED
        BY <4>1, <4>2, <1>1, <1>4, <2>1 DEF Decode
    <3> QED
      BY <3>1, <1>1, <2>2
  <2> QED
    BY <1>1, <1>5, <1>6, <1>7, <2>2, <2>3, <2>4, <2>5
       DEF ContextInv, ContextTypeOK, ArraysInBounds, ContextOrdered, CacheCurrent
<1>9. CASE ~(context_len < CtxSize - 1)
  <2>1. context' = context
    BY <1>9 DEF ThinkToken, HasRoom, BudgetLeft
  <2>2. context' \in Seq(1 .. born') /\ Len(context') < born'
    BY <1>1, <1>2, <2>1 DEF ContextInv
  <2> QED
    BY <1>1, <1>5, <1>6, <1>7, <2>1, <2>2
       DEF ContextInv, ContextTypeOK, ArraysInBounds, ContextOrdered, CacheCurrent
<1> QED
  BY <1>8, <1>9

LEMMA ContextStepInv == ContextInv /\ [Next]_vars => ContextInv'
<1> SUFFICES ASSUME ContextInv, [Next]_vars PROVE ContextInv'
  OBVIOUS
<1> USE DEF context_len, ContextInv, ContextTypeOK, ArraysInBounds,
            ContextOrdered, CacheCurrent
<1>1. ASSUME NEW n \in 1 .. FeedMax, Feed(n) PROVE ContextInv'
  BY <1>1, FeedInv
<1>2. CASE BeginThink
  BY <1>2, ContextAssumption DEF BeginThink
<1>3. ASSUME NEW plen \in PieceLens, ThinkToken(plen) PROVE ContextInv'
  BY <1>3, ThinkTokenInv
<1>4. CASE EndThink
  BY <1>4 DEF EndThink
<1>5. CASE UNCHANGED vars
  BY <1>5 DEF vars
<1> QED
  BY <1>1, <1>2, <1>3, <1>4, <1>5 DEF Next

THEOREM ContextInvariant == Spec => []ContextInv
  BY ContextInitInv, ContextStepInv, PTL DEF Spec

\* A feed forgets a prefix of the context and leaves the margin free.
LEMMA FeedForgets ==
    ASSUME ContextInv, NEW n \in 1 .. FeedMax, Feed(n)
    PROVE  ForgetStep
<1> USE DEF context_len
<1>1. /\ context \in Seq(1 .. born) /\ Len(context) \in Nat
      /\ born \in Nat /\ n \in Nat /\ n <= FeedMax
      /\ \A i \in 1 .. Len(context) : context[i] \in 1 .. born
  BY ContextAssumption DEF ContextInv, ContextTypeOK
<1>2. /\ Newborn(n) \in Seq(1 .. born + n) /\ Len(Newborn(n)) = n
      /\ \A i \in 1 .. n : Newborn(n)[i] = born + i
  BY <1>1, NewbornIs
<1> DEFINE T == 1 .. born + n
<1>3. 1 .. born \subseteq T
  BY <1>1
<1>4. CASE context_len + n > CtxSize - Margin
  <2>1. Keep <= context_len
    BY <1>1, <1>4, KeepNat, ContextAssumption
  <2>2. /\ Compacted \in Seq(1 .. born) /\ Len(Compacted) = Keep
        /\ \A i \in 1 .. Keep : Compacted[i] = context[context_len - Keep + i]
    BY <2>1, CompactedIs DEF ContextInv
  <2>3. context' = Compacted \o Newborn(n)
    BY <1>1, <1>4, ContextAssumption DEF Feed
  <2>4. Compacted \in Seq(T) /\ Newborn(n) \in Seq(T)
    BY <1>2, <1>3, <2>2, SeqMonotonic
  <2>5. /\ Len(context') = Keep + n
        /\ \A j \in 1 .. Keep + n : context'[j] =
              IF j <= Keep THEN Compacted[j] ELSE Newborn(n)[j - Keep]
    <3> HIDE DEF T
    <3>1. /\ Len(context') = Len(Compacted) + Len(Newborn(n))
          /\ \A j \in 1 .. Len(Compacted) + Len(Newborn(n)) : context'[j] =
                IF j <= Len(Compacted) THEN Compacted[j]
                ELSE Newborn(n)[j - Len(Compacted)]
      BY <2>3, <2>4, ConcatProperties
    <3> QED
      BY <1>2, <2>2, <3>1
  <2>6. \A j \in 1 .. Keep : context'[j] = context[context_len - Keep + j]
    BY <1>1, <2>2, <2>5, KeepNat
  <2>7. \A j \in 1 .. Keep + n : ~(j <= Keep) => context'[j] > born
    <3> SUFFICES ASSUME NEW j \in 1 .. Keep + n, ~(j <= Keep)
                 PROVE  context'[j] > born
      OBVIOUS
    <3>1. j - Keep \in 1 .. n
      BY <1>1, KeepNat
    <3> QED
      BY <1>1, <1>2, <2>5, <3>1
  <2>8. \A i \in 1 .. context_len :
           \/ \E j \in 1 .. Len(context') : context'[j] = context[i]
           \/ \A j \in 1 .. Len(context') : context[i] < context'[j]
    <3> SUFFICES ASSUME NEW i \in 1 .. context_len
                 PROVE  \/ \E j \in 1 .. Len(context') : context'[j] = context[i]
                        \/ \A j \in 1 .. Len(context') : context[i] < context'[j]
      OBVIOUS
    <3>1. CASE i > context_len - Keep
      <4>1. i - (context_len - Keep) \in 1 .. Keep
        BY <1>1, <3>1, KeepNat
      <4>2. context'[i - (context_len - Keep)] = context[i]
        BY <1>1, <2>6, <4>1, KeepNat
      <4>3. i - (context_len - Keep) \in 1 .. Len(context')
        BY <1>1, <2>5, <4>1, KeepNat
      <4> QED
        BY <4>2, <4>3
    <3>2. CASE i <= context_len - Keep
      <4> SUFFICES ASSUME NEW j \in 1 .. Len(context')
                   PROVE  context[i] < context'[j]
        OBVIOUS
      <4>1. j \in 1 .. Keep + n /\ context[i] \in 1 .. born
        BY <1>1, <2>5
      <4>2. CASE j <= Keep
        <5>1. /\ context_len - Keep + j \in 1 .. context_len
              /\ i < context_len - Keep + j
              /\ j \in 1 .. Keep
          BY <1>1, <3>2, <4>1, <4>2, <2>1, KeepNat
        <5> QED
          BY <5>1, <2>6 DEF ContextInv, ContextOrdered
      <4>3. CASE ~(j <= Keep)
        <5>1. j \in Nat /\ born + (j - Keep) > born
          BY <1>1, <4>1, <4>3, KeepNat
        <5>2. context'[j] = born + (j - Keep)
          <6>1. j - Keep \in 1 .. n
            BY <1>1, <4>1, <4>3, KeepNat
          <6> QED
            BY <1>2, <2>5, <4>1, <4>3, <6>1
        <5> QED
          BY <1>1, <4>1, <5>1, <5>2, KeepNat
      <4> QED
        BY <4>2, <4>3
    <3> QED
      BY <1>1, <3>1, <3>2, KeepNat
  <2>9. Len(context') <= CtxSize - Margin
    BY <1>1, <2>5, KeepNat, ContextAssumption
  <2> QED
    BY <2>8, <2>9 DEF ForgetStep
<1>5. CASE context_len + n <= CtxSize - Margin
  <2>1. context' = context \o Newborn(n)
    BY <1>1, <1>5, ContextAssumption DEF Feed
  <2>2. context \in Seq(T) /\ Newborn(n) \in Seq(T)
    BY <1>1, <1>2, <1>3, SeqMonotonic
  <2>3. /\ Len(context') = context_len + n
        /\ \A i \in 1 .. context_len : context'[i] = context[i]
    <3> HIDE DEF T
    <3>1. /\ Len(context') = Len(context) + Len(Newborn(n))
          /\ \A i \in 1 .. Len(context) + Len(Newborn(n)) : context'[i] =
                IF i <= Len(context) THEN context[i]
                ELSE Newborn(n)[i - Len(context)]
      BY <2>1, <2>2, ConcatProperties
    <3>2. \A i \in 1 .. Len(context) : i \in 1 .. Len(context) + Len(Newborn(n))
      BY <1>1, <1>2
    <3> QED
      BY <1>1, <1>2, <3>1, <3>2
  <2> QED
    BY <1>1, <1>5, <2>3 DEF ForgetStep
<1> QED
  BY <1>1, <1>4, <1>5, ContextAssumption

LEMMA StepForgets == ContextInv /\ [Next]_vars => [ForgetStep]_vars
<1> SUFFICES ASSUME ContextInv, Next PROVE ForgetStep
  OBVIOUS
<1> USE DEF context_len
<1>1. Len(context) \in Nat /\ context \in Seq(1 .. born)
  BY DEF ContextInv, ContextTypeOK
<1>2. ASSUME NEW n \in 1 .. FeedMax, Feed(n) PROVE ForgetStep
  BY <1>2, FeedForgets
<1>3. CASE BeginThink
  BY <1>3 DEF BeginThink, ForgetStep
<1>4. ASSUME NEW plen \in PieceLens, ThinkToken(plen) PROVE ForgetStep
  <2>1. /\ Len(context') = Len(context) \/ Len(context') = Len(context) + 1
        /\ \A i \in 1 .. Len(context) : context'[i] = context[i]
    BY <1>1, <1>4 DEF ThinkToken, HasRoom, BudgetLeft
  <2>2. pc # "idle"
    BY <1>4 DEF ThinkToken, HasRoom, BudgetLeft
  <2> QED
    BY <1>1, <2>1, <2>2 DEF ForgetStep
<1>5. CASE EndThink
  BY <1>5 DEF EndThink, ForgetStep
<1> QED
  BY <1>2, <1>3, <1>4, <1>5 DEF Next

\* Only the oldest tokens are ever forgotten, however long the life.
THEOREM OldestForgottenFirst == Spec => ForgetsOldest
  BY ContextInvariant, StepForgets, PTL DEF Spec, ForgetsOldest

\* The working memory keeps its types and the cache its size.
THEOREM ContextTypeCorrect == Spec => []ContextTypeOK
<1>1. ContextInv => ContextTypeOK
  BY DEF ContextInv
<1> QED
  BY <1>1, ContextInvariant, PTL

\* No feed or thought writes outside context_tokens or the output buffer.
THEOREM ArraysStayInBounds == Spec => []ArraysInBounds
<1>1. ContextInv => ArraysInBounds
  BY DEF ContextInv
<1> QED
  BY <1>1, ContextInvariant, PTL

\* The context is always in the order of the life it remembers.
THEOREM ContextStaysOrdered == Spec => []ContextOrdered
<1>1. ContextInv => ContextOrdered
  BY DEF ContextInv
<1> QED
  BY <1>1, ContextInvariant, PTL

\* The cache is the context for as long as nothing has been left out of it.
THEOREM CacheStaysCurrent == Spec => []CacheCurrent
<1>1. ContextInv => CacheCurrent
  BY DEF ContextInv
<1> QED
  BY <1>1, ContextInvariant, PTL
=============================================================================
