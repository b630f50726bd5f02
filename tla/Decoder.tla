-------------------------------- MODULE Decoder --------------------------------
(***************************************************************************)
(* Decoder.h: how an entry of the LLC miss trace and the initial-state     *)
(* file become the accesses a controller serves and the table it starts    *)
(* from.  A uint16_t is the set of its set bits.                           *)
(***************************************************************************)
EXTENDS Naturals

WordBits == 16
Word == SUBSET (0 .. WordBits - 1)

\* The four tags of a data cacheline; the first is bit 3 (base = 8) of a word.
TagIndex == 0 .. 3
bitOf(i) == 3 - i
allKnown == {bitOf(i) : i \in TagIndex}

\* temp <<= 1 on a uint16_t.
shifted(w) == {b + 1 : b \in w} \ {WordBits}

\* The loop "make LSB the left-most bit": each round adds bit a of w to temp and
\* then shifts temp.
reversed(w) ==
    LET temp[a \in 0 .. WordBits] ==
            IF a = 0 THEN {} ELSE shifted(temp[a - 1] \cup (w \cap {a - 1}))
    IN  temp[WordBits]

\* An entry of the initial-state file: seven bits of type and the tag.
InitialTypes == {"instr", "load", "store", "cload", "cstore", "never"}
InitialEntry == [tag: BOOLEAN, type: InitialTypes]

assumeTag(entry) == entry.tag /\ entry.type \in {"cload", "cstore"}

\* getInitialTags: the tags of a cacheline, the first one left-most.
getInitialTags(entries) == {bitOf(i) : i \in {t \in TagIndex : assumeTag(entries[t])}}

\* Fault for the mutants: the entry of tag i is looked up at index 3 - i.
guessedBackwards(entries, known) ==
    {bitOf(i) : i \in {t \in TagIndex : bitOf(t) \notin known /\ assumeTag(entries[3 - t])}}

\* The tags of furnish that are not known, from the entries at miss.addr / 16.
guessed(entries, known) ==
    {bitOf(i) : i \in {t \in TagIndex : bitOf(t) \notin known /\ assumeTag(entries[t])}}

furnishedTags(entries, tags, known) ==
    IF known = allKnown THEN tags
    ELSE (tags \ (allKnown \ known)) \cup guessed(entries, known)

\* What readLLCMisses puts in the buffer for a trace entry.
access(initial, miss) ==
    [op   |-> miss.type,
     addr |-> miss.addr,
     tags |-> furnishedTags(initial[miss.addr], reversed(miss.tags), reversed(miss.known))]
===============================================================================
