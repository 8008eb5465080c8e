----------------------------- MODULE MindProofs -----------------------------
(***************************************************************************)
(* Proofs about Mind, for any texts, any table of symbols, a heap and a    *)
(* window of any size: every scan runs the tokens of its text, experiences *)
(* come with the facts of their thought, and the loop only does to the     *)
(* memory what a durable log allows.                                       *)
(***************************************************************************)
EXTENDS Mind, Induction, SequenceTheorems

(* Texts and their tokens. *)

LEMMA ClosingIs ==
    ASSUME NEW text \in Seq(Symbols), NEW i \in DOMAIN text, Closings(text, i) # {}
    PROVE  /\ Closing(text, i) \in i + 1 .. Len(text)
           /\ text[Closing(text, i)] = ">"
<1> DEFINE C == Closings(text, i)
<1>1. i \in 1 .. Len(text) /\ Len(text) \in Nat
  BY LenProperties
<1>2. C \in SUBSET Nat /\ C # {}
  BY <1>1 DEF Closings
<1>3. Closing(text, i) \in C
  <2> HIDE DEF C
  <2>1. \E e \in C : \A f \in C : e <= f
    BY <1>2, LeastNatural
  <2> QED
    BY <2>1 DEF Closing, C
<1> QED
  BY <1>3 DEF Closings

\* No action begins like a closing bracket or a text without a bracket.
LEMMA TagIsOpen ==
    ASSUME NEW text, NEW i, IsTag(text, i)
    PROVE  IsOpen(text[i])
<1>1. PICK a \in DOMAIN actions : \/ actions[a] = text[i]
                                  \/ <<actions[a], text[i]>> \in Longer
  BY DEF IsTag, Matches
<1>2. \A b \in DOMAIN actions : actions[b] # ">" /\ actions[b] # "..."
  BY DEF actions
<1>3. \A x, y : <<x, y>> \in Longer => y # ">" /\ y # "..."
  BY DEF Longer, BadTone, NoData
<1> QED
  BY <1>1, <1>2, <1>3 DEF IsOpen

\* Some numbers lie inside others, none inside a larger one: S are those that lie
\* inside none of S.
Outermost(S, tags, Inside) ==
    \A i \in tags : i \in S <=> ~ \E j \in S : j < i /\ <<j, i>> \in Inside

LEMMA OutermostExist ==
    ASSUME NEW N \in Nat, NEW tags \in SUBSET (1 .. N), NEW Inside
    PROVE  \E S \in SUBSET tags : Outermost(S, tags, Inside)
<1> DEFINE UpTo(S, n) ==
             /\ \A i \in S : i <= n
             /\ \A i \in tags : i <= n =>
                   (i \in S <=> ~ \E j \in S : j < i /\ <<j, i>> \in Inside)
           Good == {n \in Int : \E S \in SUBSET tags : UpTo(S, n)}
<1>0. \A i \in tags : i \in Int /\ 1 <= i /\ i <= N
  OBVIOUS
<1>1. 0 \in Good
  <2>1. ~ \E i \in tags : i <= 0
    BY <1>0
  <2>2. UpTo({}, 0)
    BY <2>1
  <2>3. {} \in SUBSET tags /\ 0 \in Int
    OBVIOUS
  <2> HIDE DEF UpTo
  <2> QED
    BY <2>2, <2>3
<1>2. ASSUME NEW n \in Int, 0 <= n /\ n \in Good
      PROVE  n + 1 \in Good
  <2>1. PICK S \in SUBSET tags : UpTo(S, n)
    <3> HIDE DEF UpTo
    <3> QED
      BY <1>2
  <2> DEFINE inside == \E j \in S : <<j, n + 1>> \in Inside
             T == IF n + 1 \in tags /\ ~inside THEN S \cup {n + 1} ELSE S
  <2> HIDE DEF Good
  <2>2. \A j \in S : j \in tags /\ j \in Int /\ j <= n /\ j < n + 1
    <3> TAKE j \in S
    <3>1. j \in Int /\ j \in tags /\ j <= n
      BY <1>0, <2>1
    <3> QED
      BY <3>1
  <2>3. \A i \in tags : i <= n =>
           (i \in S <=> ~ \E j \in S : j < i /\ <<j, i>> \in Inside)
    BY <2>1
  <2>4. \A i \in T : i \in tags /\ i <= n + 1
    BY <2>2
  <2>5. ASSUME NEW i \in tags, i <= n + 1
        PROVE  i \in T <=> ~ \E j \in T : j < i /\ <<j, i>> \in Inside
    <3>1. i \in Int
      OBVIOUS
    <3>2. \A j \in T : j < i => j \in S
      BY <2>2, <2>5, <3>1
    <3>3. (\E j \in T : j < i /\ <<j, i>> \in Inside)
            <=> (\E j \in S : j < i /\ <<j, i>> \in Inside)
      BY <3>2
    <3>4. CASE i <= n
      <4>1. i # n + 1
        BY <3>1, <3>4
      <4>2. i \in T <=> i \in S
        BY <4>1
      <4> QED
        BY <2>3, <3>3, <3>4, <4>2
    <3>5. CASE i = n + 1
      <4>1. n + 1 \notin S
        BY <2>2
      <4>2. i \in T <=> ~inside
        BY <3>5, <4>1
      <4>3. (\E j \in S : j < i /\ <<j, i>> \in Inside) <=> inside
        BY <2>2, <3>5
      <4> QED
        BY <3>3, <4>2, <4>3
    <3>6. i <= n \/ i = n + 1
      BY <2>5, <3>1
    <3> QED
      BY <3>4, <3>5, <3>6
  <2> HIDE DEF T
  <2>6. UpTo(T, n + 1)
    BY <2>4, <2>5
  <2>7. T \in SUBSET tags /\ n + 1 \in Int
    BY <2>4
  <2> HIDE DEF UpTo
  <2> QED
    BY <2>6, <2>7 DEF Good
<1>3. N \in Good
  <2> HIDE DEF Good
  <2> QED
    BY <1>1, <1>2, IntervalInduction
<1>4. PICK S \in SUBSET tags : UpTo(S, N)
  <2> HIDE DEF UpTo
  <2> QED
    BY <1>3
<1>5. Outermost(S, tags, Inside)
  BY <1>0, <1>4 DEF Outermost
<1> QED
  BY <1>5

\* The tokens are what the description of Tokens says: there is such a set.
LEMMA TokensAre ==
    ASSUME NEW text \in Seq(Symbols)
    PROVE  /\ \A i \in Tokens(text) : i \in DOMAIN text /\ IsTag(text, i)
           /\ \A i \in DOMAIN text : IsTag(text, i) =>
                 (i \in Tokens(text)
                    <=> ~ \E j \in Tokens(text) : j < i /\ i < Closing(text, j))
<1> DEFINE tags == {i \in DOMAIN text : IsTag(text, i)}
           Inside == {q \in tags \X tags : q[2] < Closing(text, q[1])}
           Described(S) == \A i \in tags :
                              i \in S <=> ~ \E j \in S : j < i /\ i < Closing(text, j)
<1>1. Len(text) \in Nat /\ tags \in SUBSET (1 .. Len(text))
  BY LenProperties
<1>2. PICK S \in SUBSET tags : Outermost(S, tags, Inside)
  <2> HIDE DEF tags, Inside
  <2> QED
    BY <1>1, OutermostExist
<1>3. \A i, j \in tags : <<j, i>> \in Inside <=> i < Closing(text, j)
  <2> HIDE DEF tags
  <2> QED
    OBVIOUS
<1>4. Described(S)
  <2> HIDE DEF tags, Inside
  <2> QED
    BY <1>2, <1>3 DEF Outermost
<1>5. Tokens(text) = CHOOSE R \in SUBSET tags : Described(R)
  BY DEF Tokens
<1>6. Tokens(text) \in SUBSET tags /\ Described(Tokens(text))
  <2> HIDE DEF tags, Described
  <2> QED
    BY <1>2, <1>4, <1>5
<1> QED
  BY <1>6

-----------------------------------------------------------------------------
(* The scan. *)

\* What the scan has behind it are whole tokens.
ScanInv ==
    /\ output \in Seq(Symbols)
    /\ p \in 0 .. Len(output) + 1
    /\ executed \in Seq(DOMAIN output)
    /\ action_result_count \in 0 .. MaxResults
    /\ hung \in BOOLEAN
    /\ p > 0 => \A i \in Tokens(output) : i < p => Closing(output, i) < p
    /\ EachTagOnce

\* The bracket the scan comes to begins a token if it begins a tag, and no token
\* began since the last one ended.
LEMMA BracketIs ==
    ASSUME ScanInv, NEW i, AtBracket(i)
    PROVE  /\ i \in DOMAIN output /\ i \in Nat /\ p \in Nat /\ p > 0 /\ p <= i
           /\ \A k \in Tokens(output) : k \in Nat /\ IsOpen(output[k])
           /\ \A k \in Tokens(output) : k < i <=> k < p
           /\ i \in Tokens(output) <=> IsTag(output, i)
<1>1. /\ output \in Seq(Symbols) /\ DOMAIN output = 1 .. Len(output)
      /\ Len(output) \in Nat /\ p \in Nat /\ p > 0
      /\ i \in p .. Len(output) /\ \A j \in p .. i - 1 : ~IsOpen(output[j])
      /\ \A k \in Tokens(output) : k < p => Closing(output, k) < p
  BY LenProperties DEF ScanInv, AtBracket
<1>2. i \in DOMAIN output /\ i \in Nat /\ p <= i
  BY <1>1
<1>3. \A k \in Tokens(output) : /\ k \in DOMAIN output /\ k \in Nat
                                /\ IsTag(output, k) /\ IsOpen(output[k])
  <2>1. \A k \in Tokens(output) : k \in DOMAIN output /\ IsTag(output, k)
    BY <1>1, TokensAre
  <2> QED
    BY <1>1, <2>1, TagIsOpen
<1>4. \A k \in Tokens(output) : k < i <=> k < p
  <2> SUFFICES ASSUME NEW k \in Tokens(output), k < i, ~ (k < p)
               PROVE  FALSE
    BY <1>1, <1>2, <1>3
  <2>1. k \in p .. i - 1
    BY <1>1, <1>2, <1>3
  <2> QED
    BY <1>1, <1>3, <2>1
<1>5. i \in Tokens(output) <=> IsTag(output, i)
  <2> SUFFICES ASSUME IsTag(output, i) PROVE i \in Tokens(output)
    BY <1>3
  <2>1. ASSUME NEW j \in Tokens(output), j < i, i < Closing(output, j)
        PROVE  FALSE
    <3>1. j \in DOMAIN output /\ Closing(output, j) < p
      BY <1>1, <1>3, <1>4, <2>1
    <3>2. Closing(output, j) \in j + 1 .. Len(output)
      BY <1>1, <1>3, <3>1, ClosingIs DEF IsTag
    <3> QED
      BY <1>1, <1>2, <2>1, <3>1, <3>2
  <2> QED
    BY <1>1, <1>2, <2>1, TokensAre
<1> QED
  BY <1>1, <1>2, <1>3, <1>4, <1>5

LEMMA PassInv == ScanInv /\ Pass => ScanInv'
<1> SUFFICES ASSUME ScanInv, NEW i \in p .. Len(output),
                    AtBracket(i), ~IsTag(output, i), p' = i + 1,
                    UNCHANGED <<output, executed, action_result_count, hung>>
             PROVE  ScanInv'
  BY DEF Pass
<1>1. /\ i \in DOMAIN output /\ i \in Nat /\ p \in Nat /\ p > 0 /\ p <= i
      /\ \A k \in Tokens(output) : k \in Nat
      /\ \A k \in Tokens(output) : k < i <=> k < p
      /\ i \notin Tokens(output)
  BY BracketIs
<1>2. \A k \in Tokens(output) : k < i + 1 <=> k < p
  BY <1>1
<1>3. p' \in 0 .. Len(output) + 1 /\ p' # 0
  <2>1. DOMAIN output = 1 .. Len(output) /\ Len(output) \in Nat
    BY LenProperties DEF ScanInv
  <2> QED
    BY <1>1, <2>1
<1>4. \A k \in Tokens(output) : k < p' => Closing(output, k) < p'
  <2> SUFFICES ASSUME NEW k \in Tokens(output), k < p'
               PROVE  Closing(output, k) < i + 1
    OBVIOUS
  <2>1. k < p /\ Closing(output, k) < p
    BY <1>1, <1>2 DEF ScanInv
  <2>2. Closing(output, k) \in Int
    <3>1. k \in DOMAIN output /\ Closings(output, k) # {} /\ k \in Nat
      BY <1>1, TokensAre DEF ScanInv, IsTag
    <3>2. Closing(output, k) \in k + 1 .. Len(output)
      BY <3>1, ClosingIs DEF ScanInv
    <3> QED
      BY <3>2
  <2> QED
    BY <1>1, <2>1, <2>2
<1>5. EachTagOnce'
  <2>1. {k \in Tokens(output) : k < p'} = {k \in Tokens(output) : k < p}
    BY <1>2
  <2>2. ExecutedSet = {k \in Tokens(output) : k < p}
    BY <1>1 DEF ScanInv, EachTagOnce
  <2>3. ExecutedSet' = ExecutedSet
    BY DEF ExecutedSet
  <2>4. Tokens(output)' = Tokens(output)
    OBVIOUS
  <2> QED
    BY <1>3, <2>1, <2>2, <2>3, <2>4 DEF ScanInv, EachTagOnce
<1> QED
  BY <1>3, <1>4, <1>5 DEF ScanInv

LEMMA ExecuteInv ==
    ASSUME ScanInv, NEW i, Execute(i)
    PROVE  /\ ScanInv' /\ p' > 0
           /\ i \in DOMAIN output /\ ExecutedSet' = ExecutedSet \cup {i}
<1>1. /\ AtBracket(i) /\ IsTag(output, i)
      /\ p' = Closing(output, i) + 1 /\ executed' = Append(executed, i)
      /\ action_result_count' = IF Records(output[i]) /\ action_result_count < MaxResults
                                THEN action_result_count + 1 ELSE action_result_count
      /\ UNCHANGED <<output, hung>>
  BY DEF Execute
<1>2. /\ i \in DOMAIN output /\ i \in Nat /\ p \in Nat /\ p > 0 /\ p <= i
      /\ \A k \in Tokens(output) : k \in Nat /\ IsOpen(output[k])
      /\ \A k \in Tokens(output) : k < i <=> k < p
      /\ i \in Tokens(output)
  BY <1>1, BracketIs
<1>3. /\ output \in Seq(Symbols) /\ DOMAIN output = 1 .. Len(output)
      /\ Len(output) \in Nat
  BY LenProperties DEF ScanInv
<1> DEFINE c == Closing(output, i)
<1>4. c \in i + 1 .. Len(output) /\ output[c] = ">"
  BY <1>1, <1>2, <1>3, ClosingIs DEF IsTag
<1>5. p' = c + 1
  BY <1>1
<1> HIDE DEF c
<1>6. \A k \in Tokens(output) : k < p' <=> k < p \/ k = i
  <2> SUFFICES ASSUME NEW k \in Tokens(output)
               PROVE  k < c + 1 <=> k < p \/ k = i
    BY <1>5
  <2>1. k \in Nat /\ c \in Nat /\ i < c
    BY <1>2, <1>4
  <2>2. k # c
    BY <1>2, <1>4 DEF IsOpen
  <2>3. ~ (i < k /\ k < c)
    <3> SUFFICES ASSUME i < k, k < c PROVE FALSE
      OBVIOUS
    <3>1. k \in DOMAIN output /\ IsTag(output, k)
      BY <1>3, TokensAre
    <3> QED
      BY <1>2, <1>3, <3>1, TokensAre DEF c
  <2> QED
    BY <1>2, <2>1, <2>2, <2>3
<1>7. \A k \in Tokens(output) : k < p' => Closing(output, k) < p'
  <2> SUFFICES ASSUME NEW k \in Tokens(output), k < p'
               PROVE  Closing(output, k) < c + 1
    BY <1>5
  <2>1. CASE k = i
    BY <1>4, <2>1 DEF c
  <2>2. CASE k < p
    <3>1. Closing(output, k) < p
      BY <1>2, <2>2 DEF ScanInv
    <3>2. k \in DOMAIN output /\ Closings(output, k) # {} /\ k \in Nat
      BY <1>2, <1>3, TokensAre DEF IsTag
    <3>3. Closing(output, k) \in k + 1 .. Len(output)
      BY <1>3, <3>2, ClosingIs
    <3> QED
      BY <1>2, <1>4, <3>1, <3>2, <3>3
  <2> QED
    BY <1>6, <2>1, <2>2
<1>8. p' \in 0 .. Len(output) + 1 /\ p' > 0 /\ p' # 0
  BY <1>2, <1>3, <1>4, <1>5
<1>9. /\ executed \in Seq(DOMAIN output) /\ DOMAIN executed = 1 .. Len(executed)
      /\ Len(executed) \in Nat
  BY LenProperties DEF ScanInv
<1>10. /\ executed' \in Seq(DOMAIN output) /\ DOMAIN executed' = 1 .. Len(executed) + 1
       /\ \A n \in DOMAIN executed : executed'[n] = executed[n]
       /\ executed'[Len(executed) + 1] = i
  BY <1>1, <1>2, <1>9, AppendProperties, LenProperties
<1>11. ExecutedSet' = ExecutedSet \cup {i}
  <2>1. ExecutedSet' = {executed'[n] : n \in DOMAIN executed'}
    BY DEF ExecutedSet
  <2>2. DOMAIN executed' = DOMAIN executed \cup {Len(executed) + 1}
    BY <1>9, <1>10
  <2> QED
    BY <1>10, <2>1, <2>2 DEF ExecutedSet
<1>12. ExecutedSet = {k \in Tokens(output) : k < p}
  BY <1>2 DEF ScanInv, EachTagOnce
<1>13. EachTagOnce'
  <2>1. ExecutedSet' = {k \in Tokens(output) : k < p'}
    BY <1>2, <1>6, <1>11, <1>12
  <2>2. \A n \in DOMAIN executed : executed[n] < i
    <3> TAKE n \in DOMAIN executed
    <3>1. executed[n] \in ExecutedSet
      BY DEF ExecutedSet
    <3> QED
      BY <1>2, <1>12, <3>1
  <2>3. ASSUME NEW m \in DOMAIN executed', NEW n \in DOMAIN executed', m < n
        PROVE  executed'[m] < executed'[n]
    <3>1. m \in DOMAIN executed
      BY <1>9, <1>10, <2>3
    <3>2. CASE n \in DOMAIN executed
      BY <1>10, <2>3, <3>1, <3>2 DEF ScanInv, EachTagOnce
    <3>3. CASE n = Len(executed) + 1
      BY <1>10, <2>2, <3>1, <3>3
    <3> QED
      BY <1>9, <1>10, <3>2, <3>3
  <2>4. Tokens(output)' = Tokens(output)
    BY <1>1
  <2> QED
    BY <1>8, <2>1, <2>3, <2>4 DEF EachTagOnce
<1>14. action_result_count' \in 0 .. MaxResults
  BY <1>1, ActionsAssumption DEF ScanInv
<1> QED
  BY <1>1, <1>2, <1>7, <1>8, <1>10, <1>11, <1>13, <1>14 DEF ScanInv

LEMMA EndScanInv ==
    ScanInv /\ EndScan => ScanInv' /\ ExecutedSet = Tokens(output)
<1> SUFFICES ASSUME ScanInv, EndScan
             PROVE  ScanInv' /\ ExecutedSet = Tokens(output)
  OBVIOUS
<1>1. /\ output \in Seq(Symbols) /\ DOMAIN output = 1 .. Len(output)
      /\ Len(output) \in Nat /\ p \in Nat /\ p > 0 /\ p' = 0
      /\ \A i \in p .. Len(output) : ~IsOpen(output[i])
      /\ UNCHANGED <<output, executed, action_result_count, hung>>
  BY LenProperties DEF ScanInv, EndScan
<1>2. \A k \in Tokens(output) : k < p
  <2> TAKE k \in Tokens(output)
  <2>1. k \in DOMAIN output /\ IsOpen(output[k])
    BY <1>1, TokensAre, TagIsOpen
  <2> QED
    BY <1>1, <2>1
<1>3. ExecutedSet = {k \in Tokens(output) : k < p}
  BY <1>1 DEF ScanInv, EachTagOnce
<1>4. ExecutedSet = Tokens(output)
  BY <1>2, <1>3
<1>5. ExecutedSet' = ExecutedSet /\ Tokens(output)' = Tokens(output)
  BY <1>1 DEF ExecutedSet
<1>6. EachTagOnce'
  BY <1>1, <1>4, <1>5 DEF ScanInv, EachTagOnce
<1> QED
  BY <1>1, <1>4, <1>6 DEF ScanInv

\* A scan begins with nothing run.
LEMMA BeginScanInv ==
    ASSUME ScanInv, NEW text \in Texts, BeginScan(text)
    PROVE  ScanInv' /\ ExecutedSet' = {}
<1>1. /\ output' = text /\ p' = 1 /\ executed' = <<>>
      /\ UNCHANGED <<action_result_count, hung>>
  BY DEF BeginScan
<1>2. text \in Seq(Symbols) /\ DOMAIN text = 1 .. Len(text) /\ Len(text) \in Nat
  BY LenProperties, ActionsAssumption
<1>3. \A k \in Tokens(text) : ~ (k < 1)
  BY <1>2, TokensAre
<1>4. ExecutedSet' = {}
  BY <1>1 DEF ExecutedSet
<1>5. EachTagOnce'
  <2>1. {k \in Tokens(text) : k < 1} = {}
    BY <1>3
  <2>2. Tokens(output)' = Tokens(text)
    BY <1>1
  <2>3. DOMAIN executed' = {}
    BY <1>1
  <2> QED
    BY <1>1, <1>4, <2>1, <2>2, <2>3 DEF EachTagOnce
<1>6. executed' \in Seq(DOMAIN output') /\ p' \in 0 .. Len(output') + 1 /\ p' > 0
  BY <1>1, <1>2
<1> QED
  BY <1>1, <1>2, <1>3, <1>4, <1>5, <1>6 DEF ScanInv

\* Without a text there is nothing to run.
NoScan ==
    /\ output = <<>> /\ p = 0 /\ executed = <<>>
    /\ action_result_count = 0 /\ hung = FALSE

LEMMA NoScanInv == NoScan => ScanInv
<1> SUFFICES ASSUME NoScan PROVE ScanInv
  OBVIOUS
<1>1. output \in Seq(Symbols) /\ DOMAIN output = {} /\ Len(output) = 0
  BY DEF NoScan
<1>2. Tokens(output) = {}
  BY <1>1, TokensAre
<1>3. EachTagOnce
  BY <1>2 DEF NoScan, EachTagOnce, ExecutedSet
<1>4. executed \in Seq(DOMAIN output) /\ action_result_count \in 0 .. MaxResults
  BY ActionsAssumption DEF NoScan
<1>5. p \in 0 .. Len(output) + 1 /\ ~ (p > 0)
  <2>1. p = 0
    BY DEF NoScan
  <2> QED
    BY <1>1, <2>1
<1>6. hung \in BOOLEAN
  BY DEF NoScan
<1> QED
  BY <1>1, <1>3, <1>4, <1>5, <1>6 DEF ScanInv

LEMMA NoScanNext == NoScan' => ScanInv'
  BY NoScanInv, PTL

LEMMA ScanUnchanged == ScanInv /\ UNCHANGED actionVars => ScanInv'
<1> SUFFICES ASSUME ScanInv, UNCHANGED actionVars PROVE ScanInv'
  OBVIOUS
<1>1. UNCHANGED <<output, p, executed, action_result_count, hung>>
  BY DEF actionVars
<1>2. ExecutedSet' = ExecutedSet /\ Tokens(output)' = Tokens(output)
  BY <1>1 DEF ExecutedSet
<1>3. EachTagOnce'
  BY <1>1, <1>2 DEF ScanInv, EachTagOnce
<1> QED
  BY <1>1, <1>3 DEF ScanInv

LEMMA HangInv == ScanInv /\ Hang => ScanInv'
<1> SUFFICES ASSUME ScanInv, Hang PROVE ScanInv'
  OBVIOUS
<1>1. hung' = TRUE /\ UNCHANGED <<output, p, executed, action_result_count>>
  BY DEF Hang
<1>2. ExecutedSet' = ExecutedSet /\ Tokens(output)' = Tokens(output)
  BY <1>1 DEF ExecutedSet
<1>3. EachTagOnce'
  BY <1>1, <1>2 DEF ScanInv, EachTagOnce
<1> QED
  BY <1>1, <1>3 DEF ScanInv

-----------------------------------------------------------------------------
(* The memory. *)

\* The facts a log has of a thought.
FactsOf(log, t) ==
    UNION {log[k].facts : k \in {k \in DOMAIN log : log[k].thought = t}}

\* What ExperienceWithFacts says of one log.
InOrder(log) ==
    \A j \in DOMAIN log :
        /\ \A i \in 1 .. j - 1 : log[i].thought <= log[j].thought
        /\ log[j].type = MEM_EPISODIC =>
              /\ \A i \in j + 1 .. Len(log) : log[i].thought > log[j].thought
              /\ log[j].facts =
                    UNION {log[i].facts : i \in {k \in 1 .. j - 1 :
                                                log[k].thought = log[j].thought}}

\* The facts the tags run so far have stored.
Told == {i \in ExecutedSet : Handler(output[i]) = "ACT:MEMORY_STORE"}

\* Nothing is remembered of thoughts to come; while a thought is acted on its
\* experience is not there yet, and its facts are unless the heap is full.
MemoryInv ==
    /\ up \in BOOLEAN
    /\ live \in Seq(Contents) /\ saved \in Seq(Contents)
    /\ Len(live) <= HeapSlots /\ Len(saved) <= HeapSlots
    /\ thought \in 0 .. MaxThoughts
    /\ pc \in {"perceive", "think", "act", "store"}
    /\ ~up => pc = "perceive"
    /\ p > 0 <=> pc = "act"
    /\ output \in Texts \cup {<<>>}
    /\ InOrder(live) /\ InOrder(saved)
    /\ \A j \in DOMAIN live : live[j].thought <= thought
    /\ \A j \in DOMAIN saved : saved[j].thought <= thought
    /\ pc \in {"act", "store"} =>
          /\ thought >= 1 /\ output \in Texts
          /\ \A j \in DOMAIN live :
                live[j].type = MEM_EPISODIC => live[j].thought < thought
          /\ Len(live) < HeapSlots => FactsOf(live, thought) = Told

MindInv == ScanInv /\ MemoryInv

\* A fact of the newest thought, or its experience with the facts it has, goes on
\* in order.
LEMMA AppendInOrder ==
    ASSUME NEW log \in Seq(Contents), InOrder(log), NEW m \in Contents,
           \A j \in DOMAIN log : /\ log[j].thought <= m.thought
                                 /\ log[j].type = MEM_EPISODIC => log[j].thought < m.thought,
           m.type = MEM_EPISODIC => m.facts = FactsOf(log, m.thought)
    PROVE  /\ InOrder(Append(log, m))
           /\ FactsOf(Append(log, m), m.thought) = FactsOf(log, m.thought) \cup m.facts
<1> DEFINE N == Len(log)
           L == Append(log, m)
<1>1. DOMAIN log = 1 .. N /\ N \in Nat
  BY LenProperties
<1>2. /\ Len(L) = N + 1 /\ DOMAIN L = 1 .. N + 1
      /\ \A i \in 1 .. N : L[i] = log[i]
      /\ L[N + 1] = m
  BY <1>1, AppendProperties, LenProperties
<1>3. \A i \in 1 .. N : log[i].thought \in Nat
  <2> TAKE i \in 1 .. N
  <2>1. log[i] \in Contents
    BY <1>1, ElementOfSeq
  <2> QED
    BY <2>1, MindAssumption DEF Contents
<1>4. m.thought \in Nat
  BY MindAssumption DEF Contents
<1> HIDE DEF L, N
<1>5. ASSUME NEW j \in 1 .. N
      PROVE  /\ \A i \in 1 .. j - 1 : L[i].thought <= L[j].thought
             /\ L[j].type = MEM_EPISODIC =>
                  /\ \A i \in j + 1 .. N + 1 : L[i].thought > L[j].thought
                  /\ L[j].facts =
                       UNION {L[i].facts : i \in {k \in 1 .. j - 1 :
                                                L[k].thought = L[j].thought}}
  <2>1. j \in DOMAIN log /\ L[j] = log[j]
    BY <1>1, <1>2
  <2>2. \A i \in 1 .. j - 1 : L[i] = log[i]
    BY <1>1, <1>2
  <2>3. \A i \in 1 .. j - 1 : log[i].thought <= log[j].thought
    BY <2>1 DEF InOrder
  <2>4. ASSUME L[j].type = MEM_EPISODIC
        PROVE  /\ \A i \in j + 1 .. N + 1 : L[i].thought > L[j].thought
               /\ L[j].facts =
                    UNION {L[i].facts : i \in {k \in 1 .. j - 1 :
                                             L[k].thought = L[j].thought}}
    <3>1. /\ \A i \in j + 1 .. N : log[i].thought > log[j].thought
          /\ log[j].facts =
                UNION {log[i].facts : i \in {k \in 1 .. j - 1 :
                                            log[k].thought = log[j].thought}}
      BY <2>1, <2>4 DEF InOrder, N
    <3>2. ASSUME NEW i \in j + 1 .. N + 1
          PROVE  L[i].thought > L[j].thought
      <4>1. CASE i \in 1 .. N
        BY <1>1, <1>2, <2>1, <3>1, <4>1
      <4>2. CASE i = N + 1
        <5>1. log[j].thought < m.thought
          BY <2>1, <2>4
        <5> QED
          BY <1>2, <1>3, <1>4, <2>1, <4>2, <5>1
      <4> QED
        BY <1>1, <4>1, <4>2
    <3>3. {k \in 1 .. j - 1 : L[k].thought = L[j].thought}
            = {k \in 1 .. j - 1 : log[k].thought = log[j].thought}
      BY <2>1, <2>2
    <3>4. {L[i].facts : i \in {k \in 1 .. j - 1 : L[k].thought = L[j].thought}}
            = {log[i].facts : i \in {k \in 1 .. j - 1 : log[k].thought = log[j].thought}}
      BY <2>2, <3>3
    <3> QED
      BY <2>1, <3>1, <3>2, <3>4
  <2> QED
    BY <2>1, <2>2, <2>3, <2>4
<1>6. {k \in DOMAIN log : log[k].thought = m.thought}
        = {k \in 1 .. N : L[k].thought = m.thought}
  BY <1>1, <1>2
<1>7. FactsOf(log, m.thought)
        = UNION {L[i].facts : i \in {k \in 1 .. N : L[k].thought = m.thought}}
  <2>1. {log[i].facts : i \in {k \in DOMAIN log : log[k].thought = m.thought}}
          = {L[i].facts : i \in {k \in 1 .. N : L[k].thought = m.thought}}
    BY <1>2, <1>6
  <2> QED
    BY <2>1 DEF FactsOf
<1>8. InOrder(L)
  <2>1. /\ \A i \in 1 .. N : L[i].thought <= m.thought
        /\ \A i \in N + 2 .. N + 1 : FALSE
    BY <1>1, <1>2
  <2>2. (N + 1) - 1 = N /\ (N + 1) + 1 = N + 2
    BY <1>1
  <2>3. ASSUME NEW j \in 1 .. N + 1
        PROVE  /\ \A i \in 1 .. j - 1 : L[i].thought <= L[j].thought
               /\ L[j].type = MEM_EPISODIC =>
                    /\ \A i \in j + 1 .. N + 1 : L[i].thought > L[j].thought
                    /\ L[j].facts =
                         UNION {L[i].facts : i \in {k \in 1 .. j - 1 :
                                                  L[k].thought = L[j].thought}}
    <3>1. CASE j \in 1 .. N
      BY <1>5, <3>1
    <3>2. CASE j = N + 1
      BY <1>2, <1>7, <2>1, <2>2, <3>2
    <3> QED
      BY <1>1, <3>1, <3>2
  <2> QED
    BY <1>2, <2>3 DEF InOrder
<1>9. FactsOf(L, m.thought) = FactsOf(log, m.thought) \cup m.facts
  <2>1. {k \in DOMAIN L : L[k].thought = m.thought}
          = {k \in 1 .. N : L[k].thought = m.thought} \cup {N + 1}
    BY <1>1, <1>2
  <2>2. {L[i].facts : i \in {k \in DOMAIN L : L[k].thought = m.thought}}
          = {L[i].facts : i \in {k \in 1 .. N : L[k].thought = m.thought}} \cup {m.facts}
    BY <1>2, <2>1
  <2> QED
    BY <1>7, <2>2 DEF FactsOf
<1> QED
  BY <1>8, <1>9 DEF L

\* A store while a thought is acted on, or at its end.
LEMMA StoreIs ==
    ASSUME MemoryInv, pc \in {"act", "store"},
           NEW m \in Contents, m.thought = thought, Store(m),
           m.type = MEM_EPISODIC /\ Len(live) < HeapSlots => m.facts = FactsOf(live, thought)
    PROVE  /\ UNCHANGED <<up, saved>>
           /\ live' \in Seq(Contents) /\ Len(live') <= HeapSlots /\ InOrder(live')
           /\ \A j \in DOMAIN live' : /\ live'[j].thought <= thought
                                      /\ m.type # MEM_EPISODIC =>
                                           (live'[j].type = MEM_EPISODIC
                                              => live'[j].thought < thought)
           /\ Len(live') < HeapSlots =>
                 /\ Len(live) < HeapSlots
                 /\ FactsOf(live', thought) = FactsOf(live, thought) \cup m.facts
<1>1. /\ live \in Seq(Contents) /\ Len(live) <= HeapSlots /\ InOrder(live)
      /\ \A j \in DOMAIN live : /\ live[j].thought <= thought
                                /\ live[j].type = MEM_EPISODIC => live[j].thought < thought
      /\ HeapSlots \in Nat /\ thought \in Nat
  BY MindAssumption DEF MemoryInv
<1>2. /\ DOMAIN live = 1 .. Len(live) /\ Len(live) \in Nat
      /\ m.thought \in Nat /\ \A j \in DOMAIN live : live[j].thought \in Nat
  <2>1. \A c \in Contents : c.thought \in Nat
    BY MindAssumption DEF Contents
  <2>2. /\ DOMAIN live = 1 .. Len(live) /\ Len(live) \in Nat
        /\ \A j \in DOMAIN live : live[j] \in Contents
    BY <1>1, LenProperties, ElementOfSeq
  <2> QED
    BY <2>1, <2>2
<1>3. CASE Len(live) = HeapSlots /\ UNCHANGED logVars
  <2>1. UNCHANGED <<up, live, saved>>
    BY <1>3 DEF logVars
  <2> QED
    BY <1>1, <1>2, <1>3, <2>1
<1>4. CASE Len(live) < HeapSlots /\ Remember(m)
  <2>1. live' = Append(live, m) /\ UNCHANGED <<up, saved>>
    BY <1>4 DEF Remember
  <2>2. /\ live' \in Seq(Contents) /\ Len(live') = Len(live) + 1
        /\ DOMAIN live' = 1 .. Len(live) + 1
        /\ \A i \in 1 .. Len(live) : live'[i] = live[i]
        /\ live'[Len(live) + 1] = m
    BY <1>1, <2>1, AppendProperties, LenProperties
  <2>3. /\ InOrder(live')
        /\ FactsOf(live', thought) = FactsOf(live, thought) \cup m.facts
    <3>1. \A j \in DOMAIN live :
             /\ live[j].thought <= m.thought
             /\ live[j].type = MEM_EPISODIC => live[j].thought < m.thought
      <4> TAKE j \in DOMAIN live
      <4>1. /\ live[j].thought <= thought
            /\ live[j].type = MEM_EPISODIC => live[j].thought < thought
        BY <1>1
      <4> QED
        BY <4>1
    <3>2. m.type = MEM_EPISODIC => m.facts = FactsOf(live, m.thought)
      BY <1>4
    <3>3. /\ InOrder(Append(live, m))
          /\ FactsOf(Append(live, m), m.thought) = FactsOf(live, m.thought) \cup m.facts
      BY <1>1, <3>1, <3>2, AppendInOrder
    <3> QED
      BY <2>1, <3>3
  <2>4. ASSUME NEW j \in DOMAIN live'
        PROVE  /\ live'[j].thought <= thought
               /\ m.type # MEM_EPISODIC =>
                    (live'[j].type = MEM_EPISODIC => live'[j].thought < thought)
    <3>1. CASE j = Len(live) + 1
      <4>1. live'[j] = m /\ m.thought <= thought
        BY <1>1, <2>2, <3>1
      <4> QED
        BY <4>1
    <3>2. CASE j \in 1 .. Len(live)
      <4>1. live'[j] = live[j] /\ j \in DOMAIN live
        BY <1>2, <2>2, <3>2
      <4>2. /\ live[j].thought <= thought
            /\ live[j].type = MEM_EPISODIC => live[j].thought < thought
        BY <1>1, <4>1
      <4> QED
        BY <4>1, <4>2
    <3> QED
      BY <1>2, <2>2, <3>1, <3>2
  <2> QED
    BY <1>1, <1>2, <1>4, <2>1, <2>2, <2>3, <2>4
<1> QED
  BY <1>3, <1>4 DEF Store

\* What the loop stores is content of the thought it is at.
LEMMA ToldIsContent ==
    ASSUME ScanInv, MemoryInv, pc \in {"act", "store"}
    PROVE  /\ \A i \in DOMAIN output : /\ Fact(i) \in Contents
                                       /\ Fact(i).thought = thought
                                       /\ Fact(i).type # MEM_EPISODIC
                                       /\ Fact(i).facts = {i}
           /\ Experience \in Contents /\ Experience.thought = thought
           /\ Experience.facts = StoreTags(output)
<1>1. /\ output \in Texts /\ output \in Seq(Symbols)
      /\ thought \in 1 .. MaxThoughts
  BY MindAssumption DEF MemoryInv, ScanInv
<1>2. DOMAIN output \subseteq UNION {DOMAIN text : text \in Texts}
  BY <1>1
<1>3. StoreTags(output) \subseteq DOMAIN output
  BY <1>1, TokensAre DEF StoreTags
<1>4. \A i \in DOMAIN output : Fact(i) \in Contents
  BY <1>1, <1>2 DEF Fact, Contents, MEM_SEMANTIC
<1>5. Experience \in Contents
  BY <1>1, <1>2, <1>3 DEF Experience, Contents
<1>6. MEM_SEMANTIC # MEM_EPISODIC
  BY DEF MEM_SEMANTIC, MEM_EPISODIC
<1> QED
  BY <1>4, <1>5, <1>6 DEF Fact, Experience

\* A step outside the memory.
LEMMA MemoryUnchanged ==
    ASSUME MemoryInv, UNCHANGED <<logVars, output, executed, thought>>,
           pc' \in {"perceive", "think", "act", "store"},
           p' > 0 <=> pc' = "act", up,
           pc' \in {"act", "store"} => pc \in {"act", "store"}
    PROVE  MemoryInv'
<1>1. UNCHANGED <<up, live, saved, output, executed, thought>>
  BY DEF logVars
<1>2. Told' = Told
  BY <1>1 DEF Told, ExecutedSet
<1>3. InOrder(live)' /\ InOrder(saved)' /\ FactsOf(live, thought)' = FactsOf(live, thought)
  BY <1>1 DEF MemoryInv
<1> QED
  BY <1>1, <1>2, <1>3 DEF MemoryInv

LEMMA MindInitInv == Init => MindInv
<1> SUFFICES ASSUME Init PROVE MindInv
  OBVIOUS
<1>1. ScanInv
  BY NoScanInv DEF Init, ActionsInit, NoScan
<1>2. /\ up = FALSE /\ live = <<>> /\ saved = <<>> /\ pc = "perceive" /\ thought = 0
      /\ p = 0 /\ output = <<>>
  BY DEF Init, ActionsInit, LogInit
<1>3. DOMAIN live = {} /\ DOMAIN saved = {} /\ Len(live) = 0 /\ Len(saved) = 0
      /\ live \in Seq(Contents) /\ saved \in Seq(Contents)
  BY <1>2
<1>4. InOrder(live) /\ InOrder(saved)
  BY <1>3 DEF InOrder
<1>5. 0 <= HeapSlots /\ 0 \in 0 .. MaxThoughts
  BY MindAssumption
<1>6. ~ (p > 0) /\ pc # "act" /\ pc # "store"
  BY <1>2
<1>7. up \in BOOLEAN
  BY <1>2
<1>8. MemoryInv
  BY <1>2, <1>3, <1>4, <1>5, <1>6, <1>7 DEF MemoryInv
<1> QED
  BY <1>1, <1>8 DEF MindInv

LEMMA BootInv == MindInv /\ Boot => MindInv'
<1> SUFFICES ASSUME MindInv, Boot PROVE MindInv'
  OBVIOUS
<1>1. /\ ~up /\ up' = TRUE /\ live' = saved /\ saved' = saved
      /\ UNCHANGED actionVars /\ UNCHANGED <<pc, thought>>
  BY DEF Boot, Start
<1>2. ScanInv' /\ UNCHANGED <<output, p>>
  BY <1>1, ScanUnchanged DEF MindInv, actionVars
<1>3. pc = "perceive"
  BY <1>1 DEF MindInv, MemoryInv
<1>4. InOrder(live)' /\ InOrder(saved)'
  BY <1>1 DEF MindInv, MemoryInv
<1> QED
  BY <1>1, <1>2, <1>3, <1>4 DEF MindInv, MemoryInv

LEMMA PerceiveInv == MindInv /\ Perceive => MindInv'
<1> SUFFICES ASSUME MindInv, Perceive PROVE MindInv'
  OBVIOUS
<1>1. /\ up /\ pc = "perceive" /\ pc' = "think" /\ UNCHANGED actionVars
      /\ UNCHANGED logVars /\ UNCHANGED thought
  BY DEF Perceive, Running
<1>2. ScanInv' /\ UNCHANGED <<output, p, executed>>
  BY <1>1, ScanUnchanged DEF MindInv, actionVars
<1>3. MemoryInv'
  BY <1>1, <1>2, MemoryUnchanged DEF MindInv, MemoryInv
<1> QED
  BY <1>2, <1>3 DEF MindInv

LEMMA ThinkInv == MindInv /\ Think => MindInv'
<1> SUFFICES ASSUME MindInv, Think PROVE MindInv'
  OBVIOUS
<1>1. up /\ pc = "think" /\ UNCHANGED <<up, live, saved>> /\ UNCHANGED logVars
  BY DEF Think, Running, logVars
<1>2. CASE pc' = "perceive" /\ UNCHANGED <<actionVars, thought>>
  <2>1. ScanInv' /\ UNCHANGED <<output, p, executed>>
    BY <1>2, ScanUnchanged DEF MindInv, actionVars
  <2>2. MemoryInv'
    BY <1>1, <1>2, <2>1, MemoryUnchanged DEF MindInv, MemoryInv
  <2> QED
    BY <2>1, <2>2 DEF MindInv
<1>3. ASSUME thought < MaxThoughts, thought' = thought + 1, pc' = "act",
             NEW text \in Texts, BeginScan(text)
      PROVE  MindInv'
  <2>1. ScanInv' /\ ExecutedSet' = {}
    BY <1>3, BeginScanInv DEF MindInv
  <2>2. p' > 0 /\ output' \in Texts
    BY <1>3 DEF BeginScan
  <2>3. Told' = {}
    BY <2>1 DEF Told
  <2>4. /\ live \in Seq(Contents) /\ saved \in Seq(Contents) /\ thought \in Nat
        /\ \A j \in DOMAIN live : live[j].thought <= thought
        /\ \A j \in DOMAIN saved : saved[j].thought <= thought
    BY MindAssumption DEF MindInv, MemoryInv
  <2>5. /\ \A j \in DOMAIN live : live[j].thought \in Nat
        /\ \A j \in DOMAIN saved : saved[j].thought \in Nat
    <3>1. \A m \in Contents : m.thought \in Nat
      BY MindAssumption DEF Contents
    <3>2. /\ \A j \in DOMAIN live : live[j] \in Contents
          /\ \A j \in DOMAIN saved : saved[j] \in Contents
      BY <2>4, ElementOfSeq, LenProperties
    <3> QED
      BY <3>1, <3>2
  <2>6. /\ \A j \in DOMAIN live : live[j].thought < thought'
        /\ \A j \in DOMAIN saved : saved[j].thought < thought'
    BY <1>3, <2>4, <2>5
  <2>7. thought' \in 0 .. MaxThoughts /\ thought' >= 1 /\ thought' \in Nat
    BY <1>3, <2>4, MindAssumption
  <2>8. FactsOf(live, thought)' = {}
    <3>1. {k \in DOMAIN live : live[k].thought = thought'} = {}
      BY <2>5, <2>6, <2>7
    <3> QED
      BY <1>1, <3>1 DEF FactsOf
  <2>9. InOrder(live)' /\ InOrder(saved)'
    BY <1>1 DEF MindInv, MemoryInv
  <2>10. /\ \A j \in DOMAIN live' : live'[j].thought < thought' /\ live'[j].thought <= thought'
         /\ \A j \in DOMAIN saved' : saved'[j].thought <= thought'
    BY <1>1, <2>5, <2>6, <2>7
  <2>11. MemoryInv'
    BY <1>1, <1>3, <2>2, <2>3, <2>7, <2>8, <2>9, <2>10 DEF MindInv, MemoryInv
  <2> QED
    BY <2>1, <2>11 DEF MindInv
<1> QED
  BY <1>2, <1>3 DEF Think

LEMMA ActPassInv == MindInv /\ ActPass => MindInv'
<1> SUFFICES ASSUME MindInv, ActPass PROVE MindInv'
  OBVIOUS
<1>1. /\ up /\ pc = "act" /\ pc' = "act" /\ UNCHANGED logVars /\ UNCHANGED thought
      /\ p \in Nat /\ p > 0
  BY DEF ActPass, Running, MindInv, ScanInv, MemoryInv
<1>2. CASE Pass
  <2>1. ScanInv' /\ UNCHANGED <<output, executed>>
    BY <1>2, PassInv DEF MindInv, Pass
  <2>2. p' > 0
    BY <1>1, <1>2 DEF Pass
  <2>3. MemoryInv'
    BY <1>1, <2>1, <2>2, MemoryUnchanged DEF MindInv
  <2> QED
    BY <2>1, <2>3 DEF MindInv
<1>3. CASE Hang
  <2>1. ScanInv' /\ UNCHANGED <<output, p, executed>>
    BY <1>3, HangInv DEF MindInv, Hang
  <2>2. MemoryInv'
    BY <1>1, <2>1, MemoryUnchanged DEF MindInv
  <2> QED
    BY <2>1, <2>2 DEF MindInv
<1> QED
  BY <1>2, <1>3 DEF ActPass

LEMMA ActExecuteInv == MindInv /\ ActExecute => MindInv'
<1> SUFFICES ASSUME MindInv, NEW i \in p .. Len(output), Execute(i), ActExecute,
                    IF Handler(output[i]) = "ACT:MEMORY_STORE" THEN Store(Fact(i))
                    ELSE UNCHANGED logVars
             PROVE  MindInv'
  BY DEF ActExecute
<1>1. /\ up /\ pc = "act" /\ UNCHANGED <<pc, thought>>
  BY DEF ActExecute, Running
<1>2. /\ ScanInv' /\ p' > 0 /\ i \in DOMAIN output
      /\ ExecutedSet' = ExecutedSet \cup {i} /\ output' = output
  BY ExecuteInv DEF MindInv, Execute
<1>3. /\ MemoryInv /\ output \in Texts /\ thought >= 1
      /\ Len(live) < HeapSlots => FactsOf(live, thought) = Told
  BY <1>1 DEF MindInv, MemoryInv
<1>4. CASE Handler(output[i]) = "ACT:MEMORY_STORE"
  <2>1. Store(Fact(i))
    BY <1>4
  <2>2. /\ Fact(i) \in Contents /\ Fact(i).thought = thought
        /\ Fact(i).type # MEM_EPISODIC /\ Fact(i).facts = {i}
    BY <1>1, <1>2, <1>3, ToldIsContent DEF MindInv
  <2> DEFINE m == Fact(i)
  <2> HIDE DEF m
  <2>3. /\ m \in Contents /\ m.thought = thought
        /\ m.type # MEM_EPISODIC /\ m.facts = {i} /\ Store(m)
    BY <2>1, <2>2 DEF m
  <2>4. /\ UNCHANGED <<up, saved>>
        /\ live' \in Seq(Contents) /\ Len(live') <= HeapSlots /\ InOrder(live')
        /\ \A j \in DOMAIN live' : /\ live'[j].thought <= thought
                                   /\ live'[j].type = MEM_EPISODIC => live'[j].thought < thought
        /\ Len(live') < HeapSlots =>
              /\ Len(live) < HeapSlots
              /\ FactsOf(live', thought) = FactsOf(live, thought) \cup {i}
    BY <1>1, <1>3, <2>3, StoreIs
  <2>5. Told' = Told \cup {i}
    BY <1>2, <1>4 DEF Told
  <2>6. InOrder(live)' /\ InOrder(saved)' /\ FactsOf(live, thought)' = FactsOf(live', thought)
    BY <1>1, <1>3, <2>4 DEF InOrder, FactsOf, MemoryInv
  <2>7. Len(live') < HeapSlots => FactsOf(live, thought)' = Told'
    BY <1>3, <2>4, <2>5, <2>6
  <2>8. MemoryInv'
    BY <1>1, <1>2, <1>3, <2>4, <2>6, <2>7 DEF MemoryInv
  <2> QED
    BY <1>2, <2>8 DEF MindInv
<1>5. CASE Handler(output[i]) # "ACT:MEMORY_STORE"
  <2>1. UNCHANGED <<up, live, saved>>
    BY <1>5 DEF logVars
  <2>2. Told' = Told
    BY <1>2, <1>5 DEF Told
  <2>3. InOrder(live)' /\ InOrder(saved)' /\ FactsOf(live, thought)' = FactsOf(live, thought)
    BY <1>1, <1>3, <2>1 DEF MemoryInv
  <2>4. MemoryInv'
    BY <1>1, <1>2, <1>3, <2>1, <2>2, <2>3 DEF MemoryInv
  <2> QED
    BY <1>2, <2>4 DEF MindInv
<1> QED
  BY <1>4, <1>5

LEMMA ActEndInv == MindInv /\ ActEnd => MindInv'
<1> SUFFICES ASSUME MindInv, ActEnd PROVE MindInv'
  OBVIOUS
<1>1. /\ up /\ pc = "act" /\ pc' = "store" /\ UNCHANGED logVars /\ UNCHANGED thought
      /\ EndScan
  BY DEF ActEnd, Running
<1>2. ScanInv' /\ UNCHANGED <<output, executed>> /\ p' = 0
  BY <1>1, EndScanInv DEF MindInv, EndScan
<1>3. ~ (p' > 0)
  BY <1>2
<1>4. MemoryInv'
  BY <1>1, <1>2, <1>3, MemoryUnchanged DEF MindInv
<1> QED
  BY <1>2, <1>4 DEF MindInv

LEMMA StoreExperienceInv == MindInv /\ StoreExperience => MindInv'
<1> SUFFICES ASSUME MindInv, StoreExperience PROVE MindInv'
  OBVIOUS
<1>1. /\ up /\ pc = "store" /\ pc' = "perceive" /\ UNCHANGED thought
      /\ UNCHANGED actionVars /\ Store(Experience)
  BY DEF StoreExperience, Running
<1>2. ScanInv' /\ UNCHANGED <<output, p, executed>>
  BY <1>1, ScanUnchanged DEF MindInv, actionVars
<1>3. p = 0
  <2>1. ~ (p > 0) /\ p \in Nat
    BY <1>1 DEF MindInv, MemoryInv, ScanInv
  <2> QED
    BY <2>1
<1>4. Told = StoreTags(output)
  BY <1>3 DEF Told, StoreTags, MindInv, ScanInv, EachTagOnce
<1> DEFINE m == Experience
<1>5. m \in Contents /\ m.thought = thought /\ m.facts = StoreTags(output)
  BY <1>1, ToldIsContent DEF MindInv
<1> HIDE DEF m
<1>6. MemoryInv /\ (Len(live) < HeapSlots => m.facts = FactsOf(live, thought))
  BY <1>1, <1>4, <1>5 DEF MindInv, MemoryInv
<1>7. Store(m)
  BY <1>1 DEF m
<1>8. /\ UNCHANGED <<up, saved>>
      /\ live' \in Seq(Contents) /\ Len(live') <= HeapSlots /\ InOrder(live')
      /\ \A j \in DOMAIN live' : live'[j].thought <= thought
  BY <1>1, <1>5, <1>6, <1>7, StoreIs
<1>9. InOrder(live)' /\ InOrder(saved)'
  BY <1>6, <1>8 DEF InOrder, MemoryInv
<1>10. MemoryInv'
  BY <1>1, <1>2, <1>6, <1>8, <1>9 DEF MemoryInv
<1> QED
  BY <1>2, <1>10 DEF MindInv

LEMMA FlushInv == MindInv /\ Flush => MindInv'
<1> SUFFICES ASSUME MindInv, Flush PROVE MindInv'
  OBVIOUS
<1>1. /\ up /\ saved' = live /\ UNCHANGED <<up, live>>
      /\ UNCHANGED actionVars /\ UNCHANGED <<pc, thought>>
  BY DEF Flush, Sync
<1>2. ScanInv' /\ UNCHANGED <<output, p, executed>>
  BY <1>1, ScanUnchanged DEF MindInv, actionVars
<1>3. Told' = Told
  BY <1>2 DEF Told, ExecutedSet
<1>4. InOrder(live)' /\ InOrder(saved)' /\ FactsOf(live, thought)' = FactsOf(live, thought)
  BY <1>1 DEF MindInv, MemoryInv
<1>5. MemoryInv'
  BY <1>1, <1>2, <1>3, <1>4 DEF MindInv, MemoryInv
<1> QED
  BY <1>2, <1>5 DEF MindInv

LEMMA CrashInv == MindInv /\ Crash => MindInv'
<1> SUFFICES ASSUME MindInv, Crash PROVE MindInv'
  OBVIOUS
<1>1. /\ up' = FALSE /\ live' = <<>> /\ saved' = saved /\ thought' = thought
      /\ pc' = "perceive" /\ output' = <<>> /\ p' = 0 /\ NoScan'
  BY DEF Crash, PowerCut, NoScan
<1>2. ScanInv'
  BY <1>1, NoScanNext
<1>3. /\ live' \in Seq(Contents) /\ Len(live') = 0 /\ DOMAIN live' = {}
      /\ 0 <= HeapSlots /\ ~ (p' > 0) /\ ~ (pc' \in {"act", "store"})
  BY <1>1, MindAssumption
<1>4. InOrder(live)' /\ InOrder(saved)'
  BY <1>1, <1>3 DEF InOrder, MindInv, MemoryInv
<1>5. MemoryInv'
  BY <1>1, <1>3, <1>4 DEF MindInv, MemoryInv
<1> QED
  BY <1>2, <1>5 DEF MindInv

LEMMA MindStep == MindInv /\ [Next]_vars => MindInv'
<1> SUFFICES ASSUME MindInv, [Next]_vars PROVE MindInv'
  OBVIOUS
<1>1. CASE UNCHANGED vars
  <2>1. UNCHANGED actionVars /\ UNCHANGED <<up, live, saved, pc, thought>>
    BY <1>1 DEF vars, logVars
  <2>2. ScanInv' /\ UNCHANGED <<output, p, executed>>
    BY <2>1, ScanUnchanged DEF MindInv, actionVars
  <2>3. Told' = Told
    BY <2>2 DEF Told, ExecutedSet
  <2>4. InOrder(live)' /\ InOrder(saved)' /\ FactsOf(live, thought)' = FactsOf(live, thought)
    BY <2>1 DEF MindInv, MemoryInv
  <2>5. MemoryInv'
    BY <2>1, <2>2, <2>3, <2>4 DEF MindInv, MemoryInv
  <2> QED
    BY <2>2, <2>5 DEF MindInv
<1> QED
  BY <1>1, BootInv, PerceiveInv, ThinkInv, ActPassInv, ActExecuteInv, ActEndInv,
     StoreExperienceInv, FlushInv, CrashInv
  DEF Next, Act

\* Every step of the loop is a step of the log, or none.
LEMMA MindLogStep ==
    Contents \subseteq Memories /\ MindInv /\ [Next]_vars => [LogNext]_logVars
<1> SUFFICES ASSUME Contents \subseteq Memories, MindInv, [Next]_vars
             PROVE  [LogNext]_logVars
  OBVIOUS
<1>1. ASSUME NEW m \in Contents, Store(m)
      PROVE  [LogNext]_logVars
  BY <1>1 DEF Store, LogNext
<1>2. CASE ActExecute
  <2>1. PICK i \in p .. Len(output) :
           /\ Execute(i)
           /\ IF Handler(output[i]) = "ACT:MEMORY_STORE" THEN Store(Fact(i))
              ELSE UNCHANGED logVars
    BY <1>2 DEF ActExecute
  <2>2. i \in DOMAIN output
    BY <2>1, ExecuteInv DEF MindInv
  <2>3. Fact(i) \in Contents
    BY <1>2, <2>2, ToldIsContent DEF ActExecute, MindInv
  <2> QED
    BY <1>1, <2>1, <2>3
<1>3. CASE StoreExperience
  <2>1. Experience \in Contents /\ Store(Experience)
    BY <1>3, ToldIsContent DEF StoreExperience, MindInv
  <2> QED
    BY <1>1, <2>1
<1>4. CASE Boot \/ Flush \/ Crash
  BY <1>4 DEF Boot, Flush, Crash, LogNext
<1>5. CASE Perceive \/ Think \/ ActPass \/ ActEnd \/ UNCHANGED vars
  BY <1>5 DEF Perceive, Think, ActPass, ActEnd, vars
<1> QED
  BY <1>2, <1>3, <1>4, <1>5 DEF Next, Act

-----------------------------------------------------------------------------
\* The invariant the others follow from: what is behind the scan are whole
\* tokens, all run, and what is remembered of the thought acted on is what its
\* tags have stored so far.
THEOREM MindInvariant == Spec => []MindInv
  BY MindInitInv, MindStep, PTL DEF Spec

\* Type correctness of the loop, the scan and the memory.
THEOREM MindTypeCorrect == Spec => []MindTypeOK
<1>1. MindInv => MindTypeOK
  BY DEF MindInv, ScanInv, MemoryInv, MindTypeOK
<1> QED
  BY <1>1, MindInvariant, PTL

\* Whatever the text and however its tags are nested or cut off, the scan of
\* action_parse_and_execute (action.c:362-388) runs each token once and in order
\* and nothing else.
THEOREM TokensRunOnce == Spec => []EachTagOnce
<1>1. MindInv => EachTagOnce
  BY DEF MindInv, ScanInv
<1> QED
  BY <1>1, MindInvariant, PTL

\* An experience stands behind all the facts of its thought and in front of all
\* later thoughts, in RAM and on the drive, wherever the heap became full and
\* wherever power was cut.
THEOREM ExperiencesWithFacts == Spec => []ExperienceWithFacts
<1>1. MindInv => ExperienceWithFacts
  <2>1. MindInv => \A log \in {live, saved} : InOrder(log)
    BY DEF MindInv, MemoryInv
  <2>2. (\A log \in {live, saved} : InOrder(log)) <=> ExperienceWithFacts
    BY Zenon DEF ExperienceWithFacts, InOrder
  <2> QED
    BY <2>1, <2>2
<1> QED
  BY <1>1, MindInvariant, PTL

\* The loop does to its memory what a durable log allows and nothing else, so
\* what StoreIsLog promises of the store is all that it relies on.
THEOREM MindKeepsLog ==
    ASSUME Contents \subseteq Memories
    PROVE  Spec => LogInit /\ [][LogNext]_logVars
<1>1. Init => LogInit
  BY DEF Init
<1>2. MindInv /\ [Next]_vars => [LogNext]_logVars
  BY MindLogStep
<1> QED
  BY <1>1, <1>2, MindInvariant, PTL DEF Spec
=============================================================================
