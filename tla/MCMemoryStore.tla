--------------------------- MODULE MCMemoryStore ---------------------------
(***************************************************************************)
(* Instances of MemoryStore.  The callers store two types of entries: the  *)
(* experience of a tick, of importance 1 (consciousness.c:140-145), and    *)
(* the fact of a MEMORY_STORE action, whose importance is what its tag     *)
(* says, 1 if it says nothing (action.c:180-194): less than an             *)
(* experience's, the same, or any more.                                    *)
(***************************************************************************)
EXTENDS MemoryStore

MCKinds == {<<MEM_EPISODIC, 1>>, <<MEM_SEMANTIC, 0>>, <<MEM_SEMANTIC, 255>>}

\* Where no importance is looked at, nothing being evicted.
MCPlainKinds == {<<MEM_EPISODIC, 1>>, <<MEM_SEMANTIC, 1>>}

\* A drive that keeps what it is told, and one whose calls may fail, as every
\* call of fs.c does today.
Reliable   == {"written"}
Unreliable == {"written", "lost"}
ReadOnly   == {"read"}
ReadOrFail == {"read", "failed"}
=============================================================================
