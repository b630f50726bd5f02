------------------------------- MODULE LineBits -------------------------------
(***************************************************************************)
(* utils.h: how tags are kept in the 64 bytes of a cacheline.  A byte is   *)
(* the set of its set bits, bit 0 being the lowest; tags are counted from  *)
(* the highest bit of the first byte.  Four tags are a uint16_t with the   *)
(* first tag in bit 3.                                                     *)
(*                                                                         *)
(* The other modules have a leaf line as a function of granules and a root *)
(* line as a function of slots: the theorems of SetupProofs show that      *)
(* this is what the helpers make of a cacheline.                           *)
(***************************************************************************)
EXTENDS Integers

Byte      == SUBSET (0 .. 7)
Cacheline == [0 .. 63 -> Byte]
FourTags  == SUBSET (0 .. 3)

\* The place in its byte of the tag with this index.
place(bit_index) == 7 - (bit_index % 8)

isClear(line) == \A i \in 0 .. 63 : line[i] = {}

eightBytesClear(line, whichEight) ==
    \A i \in whichEight * 8 .. whichEight * 8 + 7 : line[i] = {}

getTag(line, bit_index) == place(bit_index) \in line[bit_index \div 8]

modifyTag(line, bit_index, tag) ==
    [line EXCEPT ![bit_index \div 8] =
        IF tag THEN @ \cup {place(bit_index)} ELSE @ \ {place(bit_index)}]

\* The four tags are taken from one byte, that of the first.
getTags(line, bit_index) ==
    {t \in 0 .. 3 : place(bit_index + (3 - t)) \in line[bit_index \div 8]}

modifyTags(line, bit_index, tags) ==
    [line EXCEPT ![bit_index \div 8] =
        (@ \ {place(bit_index + (3 - t)) : t \in 0 .. 3})
        \cup {place(bit_index + (3 - t)) : t \in 0 .. 3 \cap tags}]

\* A cacheline as the other modules have it.
Granule == 0 .. 127
Slot    == 0 .. 511
asLeaf(line) == [g \in Granule |-> getTags(line, 4 * g)]
asRoot(line) == [s \in Slot |-> getTag(line, s)]

Tables == INSTANCE TagTables WITH
    Page <- {0}, Slot <- Slot, Granule <- Granule, Tags <- FourTags, NoTags <- {}
===============================================================================
