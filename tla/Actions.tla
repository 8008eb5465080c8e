------------------------------ MODULE Actions ------------------------------
(***************************************************************************)
(* action_parse_and_execute of consciousness/core/action.c: a text is      *)
(* scanned for the tags of the table, and the handler of each is run.      *)
(*                                                                         *)
(* A text is a sequence of symbols.  "<" and ">" are brackets, "..." is    *)
(* anything without one, and any other symbol is a "<" and the words after *)
(* it, up to the next bracket.                                             *)
(***************************************************************************)
EXTENDS Integers, Sequences, FiniteSets

CONSTANTS
    Symbols,
    Texts,          \* what the model may say, sequences of symbols
    MaxResults,     \* MAX_ACTION_RESULTS
    AudioReady      \* hda_ready: a sound controller was found

ASSUME ActionsAssumption ==
    /\ Texts \subseteq Seq(Symbols)
    /\ MaxResults \in Nat
    /\ AudioReady \in BOOLEAN

VARIABLES
    output,                 \* the text scanned last
    p,                      \* where the scan stands in it, 0 between scans
    executed,               \* history: where the tags began that it has run
    action_result_count,
    hung                    \* a handler does not return

actionVars == <<output, p, executed, action_result_count, hung>>

\* The table, in the order it is searched.
actions == <<
    "ACT:DISPLAY", "ACT:DISPLAY_PIXEL", "ACT:DISPLAY_CLEAR",
    "ACT:AUDIO_FREQ", "ACT:AUDIO_PCM", "ACT:AUDIO_STOP",
    "ACT:MEMORY_STORE", "ACT:MEMORY_RECALL", "ACT:FILE_READ", "ACT:FILE_WRITE",
    "ACT:NET_FETCH", "ACT:CPU_FREQ_SET", "ACT:SLEEP_MS", "ACT:HARDWARE_QUERY" >>

\* A tone that divides by zero: 0 Hz, or a period of less than a sample.
BadTone == "ACT:AUDIO_FREQ hz=0"

\* A tag without the parameter its handler looks for first.
NoData == "ACT:AUDIO_PCM >"

\* The symbols that begin with the name of another.
Longer == {<<"ACT:DISPLAY", "ACT:DISPLAY_PIXEL">>, <<"ACT:DISPLAY", "ACT:DISPLAY_CLEAR">>,
           <<"ACT:AUDIO_FREQ", BadTone>>, <<"ACT:AUDIO_PCM", NoData>>}

Matches(symbol) ==
    {i \in DOMAIN actions : actions[i] = symbol \/ <<actions[i], symbol>> \in Longer}

\* The action run for a tag: the first that matches, by prefix.
Handler(symbol) ==
    actions[CHOOSE i \in Matches(symbol) : \A j \in Matches(symbol) : i <= j]

IsOpen(symbol) == symbol \notin {">", "..."}

\* strchr for '>'.
Closings(text, i) == {e \in i + 1 .. Len(text) : text[e] = ">"}
Closing(text, i)  == CHOOSE e \in Closings(text, i) : \A f \in Closings(text, i) : e <= f

\* The brackets that begin a tag the scan would run if it came there.
IsTag(text, i) == Matches(text[i]) # {} /\ Closings(text, i) # {}

\* The calls of record_result: none for a pixel, none without samples.
Records(symbol) == Handler(symbol) # "ACT:DISPLAY_PIXEL" /\ symbol # NoData

ActionsInit ==
    /\ output = <<>>
    /\ p = 0
    /\ executed = <<>>
    /\ action_result_count = 0
    /\ hung = FALSE

-----------------------------------------------------------------------------
BeginScan(text) ==
    /\ output' = text
    /\ p' = 1
    /\ executed' = <<>>
    /\ UNCHANGED <<action_result_count, hung>>

\* strchr for '<': the next bracket.
AtBracket(i) ==
    /\ p > 0 /\ ~hung
    /\ i \in p .. Len(output)
    /\ IsOpen(output[i])
    /\ \A j \in p .. i - 1 : ~IsOpen(output[j])

\* Mutation: a tag that is not closed stops the search but not the loop.
PassStuck ==
    \E i \in p .. Len(output) :
        /\ AtBracket(i)
        /\ ~IsTag(output, i)
        /\ p' = IF Matches(output[i]) = {} THEN i + 1 ELSE i
        /\ UNCHANGED <<output, executed, action_result_count, hung>>

\* No action has this name, or its token is not closed.
Pass ==
    \E i \in p .. Len(output) :
        /\ AtBracket(i)
        /\ ~IsTag(output, i)
        /\ p' = i + 1
        /\ UNCHANGED <<output, executed, action_result_count, hung>>

\* Mutation: the scan goes on after the bracket, inside the token.
ExecuteInside(i) ==
    /\ AtBracket(i)
    /\ IsTag(output, i)
    /\ ~ (AudioReady /\ output[i] = BadTone)
    /\ p' = i + 1
    /\ executed' = Append(executed, i)
    /\ action_result_count' = IF Records(output[i]) /\ action_result_count < MaxResults
                              THEN action_result_count + 1 ELSE action_result_count
    /\ UNCHANGED <<output, hung>>

\* Mutation: the bound of the results is off by one.
ExecuteRecordsMore(i) ==
    /\ AtBracket(i)
    /\ IsTag(output, i)
    /\ ~ (AudioReady /\ output[i] = BadTone)
    /\ p' = Closing(output, i) + 1
    /\ executed' = Append(executed, i)
    /\ action_result_count' = IF Records(output[i]) /\ action_result_count <= MaxResults
                              THEN action_result_count + 1 ELSE action_result_count
    /\ UNCHANGED <<output, hung>>

\* A handler is run with its token, and the scan goes on behind it.
Execute(i) ==
    /\ AtBracket(i)
    /\ IsTag(output, i)
    /\ ~ (AudioReady /\ output[i] = BadTone)
    /\ p' = Closing(output, i) + 1
    /\ executed' = Append(executed, i)
    /\ action_result_count' = IF Records(output[i]) /\ action_result_count < MaxResults
                              THEN action_result_count + 1 ELSE action_result_count
    /\ UNCHANGED <<output, hung>>

\* The division by zero of audio_play_tone: vector 0 has a stub and no handler,
\* so the processor comes back to the division for ever.
Hang ==
    \E i \in p .. Len(output) :
        /\ AtBracket(i)
        /\ IsTag(output, i)
        /\ AudioReady /\ output[i] = BadTone
        /\ hung' = TRUE
        /\ UNCHANGED <<output, p, executed, action_result_count>>

EndScan ==
    /\ p > 0 /\ ~hung
    /\ \A i \in p .. Len(output) : ~IsOpen(output[i])
    /\ p' = 0
    /\ UNCHANGED <<output, executed, action_result_count, hung>>

-----------------------------------------------------------------------------
\* The tokens of a text, without a scan: a tag is one unless it lies within a
\* token that began before it.
Tokens(text) ==
    LET tags == {i \in DOMAIN text : IsTag(text, i)}
    IN  CHOOSE S \in SUBSET tags :
            \A i \in tags : i \in S <=> ~ \E j \in S : j < i /\ i < Closing(text, j)

ExecutedSet == {executed[n] : n \in DOMAIN executed}

\* Each token of the text is run exactly once and in order, however tags are
\* nested, left open or cut off where the output buffer ended; and nothing else
\* is run (action.c:362-388).
EachTagOnce ==
    /\ \A m, n \in DOMAIN executed : m < n => executed[m] < executed[n]
    /\ ExecutedSet = IF p = 0 THEN Tokens(output) ELSE {i \in Tokens(output) : i < p}
=============================================================================
