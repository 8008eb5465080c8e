-------------------------------- MODULE Mind --------------------------------
(***************************************************************************)
(* The loop of consciousness/core/consciousness.c: perceive, think, act on *)
(* what was said, remember it; and what of this outlives a power cut.  It  *)
(* composes the actions of module Actions with the memory as DurableLog    *)
(* promises it, which MemoryStore implements as long as nothing is evicted.*)
(***************************************************************************)
EXTENDS Actions, DurableLog

CONSTANTS
    HeapSlots,      \* how many contents of memories the kernel heap holds
    MaxThoughts     \* bound of the model

VARIABLES
    pc,             \* where in its loop AION is
    thought         \* history: how many thoughts have said something

vars == <<actionVars, logVars, pc, thought>>

MEM_EPISODIC == "episodic"
MEM_SEMANTIC == "semantic"

StoreTags(text) == {i \in Tokens(text) : Handler(text[i]) = "ACT:MEMORY_STORE"}

\* What a tag stores, and what the end of a tick does: the content of an
\* experience is the text, of which this is what matters here.
Fact(i)    == [type |-> MEM_SEMANTIC, thought |-> thought, facts |-> {i}]
Experience == [type |-> MEM_EPISODIC, thought |-> thought, facts |-> StoreTags(output)]

\* The memories there may be.
Contents ==
    [type : {MEM_EPISODIC, MEM_SEMANTIC}, thought : 1 .. MaxThoughts,
     facts : SUBSET UNION {DOMAIN text : text \in Texts}]

ASSUME MindAssumption ==
    /\ HeapSlots \in Nat /\ MaxThoughts \in Nat /\ Window \in Nat \ {0}

Init ==
    /\ ActionsInit
    /\ LogInit
    /\ pc = "perceive"
    /\ thought = 0

\* A store that fills the window does not return before the flush has ended.
Running == up /\ Unsaved < Window

\* aion_memory_store: without heap for the content it stores nothing.
Store(m) ==
    \/ Len(live) < HeapSlots /\ Remember(m)
    \/ Len(live) = HeapSlots /\ UNCHANGED logVars

-----------------------------------------------------------------------------
\* consciousness_init, after the kernel's: the model is loaded, then what was saved.
\* A boot on which the model does not load halts (see WakeUp in Kernel) and loads
\* nothing: for the memory the machine is still off.
Boot ==
    /\ Start
    /\ UNCHANGED <<actionVars, pc, thought>>

\* llm_feed of what the senses give.
Perceive ==
    /\ Running
    /\ pc = "perceive"
    /\ pc' = "think"
    /\ UNCHANGED <<actionVars, logVars, thought>>

\* llm_think says nothing, or a text that is then scanned.
Think ==
    /\ Running
    /\ pc = "think"
    /\ \/ pc' = "perceive" /\ UNCHANGED <<actionVars, thought>>
       \/ /\ thought < MaxThoughts
          /\ thought' = thought + 1
          /\ pc' = "act"
          /\ \E text \in Texts : BeginScan(text)
    /\ UNCHANGED logVars

ActPass ==
    /\ Running
    /\ pc = "act"
    /\ Pass \/ Hang
    /\ UNCHANGED <<logVars, pc, thought>>

ActExecute ==
    /\ Running
    /\ pc = "act"
    /\ \E i \in p .. Len(output) :
          /\ Execute(i)
          /\ IF Handler(output[i]) = "ACT:MEMORY_STORE" THEN Store(Fact(i))
             ELSE UNCHANGED logVars
    /\ UNCHANGED <<pc, thought>>

\* Mutation: the search ends at the first action it has run.
ActEndEarly ==
    /\ Running
    /\ pc = "act"
    /\ p > 0 /\ ~hung
    /\ executed # <<>> \/ \A i \in p .. Len(output) : ~IsOpen(output[i])
    /\ p' = 0
    /\ pc' = "store"
    /\ UNCHANGED <<output, executed, action_result_count, hung, logVars, thought>>

ActEnd ==
    /\ Running
    /\ pc = "act"
    /\ EndScan
    /\ pc' = "store"
    /\ UNCHANGED <<logVars, thought>>

StoreExperience ==
    /\ Running
    /\ pc = "store"
    /\ Store(Experience)
    /\ pc' = "perceive"
    /\ UNCHANGED <<actionVars, thought>>

Flush ==
    /\ Sync
    /\ UNCHANGED <<actionVars, pc, thought>>

\* Everything but the drive is lost.
Crash ==
    /\ PowerCut
    /\ output' = <<>> /\ p' = 0 /\ executed' = <<>>
    /\ action_result_count' = 0 /\ hung' = FALSE
    /\ pc' = "perceive"
    /\ UNCHANGED thought

Act == ActPass \/ ActExecute \/ ActEnd \/ StoreExperience \/ Flush

Next == Boot \/ Perceive \/ Think \/ Act \/ Crash

\* A tick that has begun goes on while there is power.
Spec == Init /\ [][Next]_vars /\ WF_vars(Act)

-----------------------------------------------------------------------------
\* Type invariant of the loop, the scan and the memory.
MindTypeOK ==
    /\ output \in Texts \cup {<<>>}
    /\ p \in 0 .. Len(output) + 1
    /\ executed \in Seq(DOMAIN output)
    /\ action_result_count \in 0 .. MaxResults
    /\ hung \in BOOLEAN /\ up \in BOOLEAN
    /\ pc \in {"perceive", "think", "act", "store"}
    /\ p > 0 <=> pc = "act"
    /\ thought \in 0 .. MaxThoughts
    /\ live \in Seq(Contents) /\ saved \in Seq(Contents)
    /\ Len(live) <= HeapSlots

\* What is remembered tells AION's lives in order, and an experience comes with
\* all the facts its thought stored and no others, before it: in RAM, and on
\* the drive whenever power is cut (consciousness.c:137-146).
ExperienceWithFacts ==
    \A log \in {live, saved} : \A j \in DOMAIN log :
        /\ \A i \in 1 .. j - 1 : log[i].thought <= log[j].thought
        /\ log[j].type = MEM_EPISODIC =>
              /\ \A i \in j + 1 .. Len(log) : log[i].thought > log[j].thought
              /\ log[j].facts =
                    UNION {log[i].facts : i \in {k \in 1 .. j - 1 :
                                                log[k].thought = log[j].thought}}

\* Whatever was said is remembered, unless power is cut, the heap is full or a
\* handler does not return: every scan ends.
ThoughtIsKept ==
    \A t \in 1 .. MaxThoughts :
        (pc = "act" /\ thought = t) ~>
            \/ \E i \in DOMAIN live : live[i].type = MEM_EPISODIC /\ live[i].thought = t
            \/ ~up \/ hung \/ Len(live) = HeapSlots
=============================================================================
