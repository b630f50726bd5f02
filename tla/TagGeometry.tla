------------------------------ MODULE TagGeometry ------------------------------
(***************************************************************************)
(* The translate*Addr functions of the controllers and the table sizes of  *)
(* schema.h: where the tags of a data address are, in bytes and bits.      *)
(* The other modules see an address as a page, a slot and a granule; the   *)
(* theorems of SetupProofs show that the shifts agree with that for        *)
(* every address.                                                          *)
(* addr \div 2 ^ k is addr / 2^k and addr >> k.                            *)
(***************************************************************************)
EXTENDS Integers

MEMORY_SIZE     == 2147483648
ROOT_TABLE_SIZE == 32768     \* MEMORY_SIZE >> 16
TAG_TABLE_SIZE  == 16777216  \* MEMORY_SIZE >> 7

SUPERROOT_TABLE_SIZE   == 64   \* ROOT_TABLE_SIZE >> 9
S_SUPERROOT_TABLE_SIZE == 512  \* ROOT_TABLE_SIZE >> 6

\* translateToTagAddr, and translateToLeafAddr before the tables in front of the
\* leaf table are added: byte address of the line and bit index into it.
tagBase(addr)   == (((addr \div 128) \div 64) * 64)
tagOffset(addr) == ((addr \div 64) * 4) % 512

rootBase(addr)   == ((addr \div 65536) \div 64) * 64
rootOffset(addr) == (((addr \div 64) * 4) \div 512) % 512

\* PhoenixController and PhoenixSController.
superrootBase(addr)    == ((addr \div 33554432) \div 64) * 64
superrootOffset(addr)  == ((((addr \div 64) * 4) \div 512) \div 512) % 512
blockIndex(addr)       == ((addr \div 65536) \div 64) % 65536
sSuperrootBase(addr)   == ((addr \div 4194304) \div 64) * 64
sSuperrootOffset(addr) == ((((addr \div 64) * 4) \div 512) \div 64) % 512
sBlockIndex(addr)      == ((addr \div 8192) \div 64) % 65536

\* The line and bit isBlockClear of PhoenixSController looks at.
sBlockLine(index) == 64 * (index \div 512)
sBlockBit(index)  == index % 512

\* getTag: the bit of the table that bit offset of the line at base is, eight for
\* each byte.
bitNumber(base, offset) == 8 * base + offset

\* The memory the controllers set up: superroot, root and leaf tables in a row.
leafAddr(addr)  == tagBase(addr) + SUPERROOT_TABLE_SIZE + ROOT_TABLE_SIZE
rootAddr(addr)  == rootBase(addr) + SUPERROOT_TABLE_SIZE
sLeafAddr(addr) == tagBase(addr) + S_SUPERROOT_TABLE_SIZE + ROOT_TABLE_SIZE
sRootAddr(addr) == rootBase(addr) + S_SUPERROOT_TABLE_SIZE

DataAddr == {addr \in Nat : addr < MEMORY_SIZE}
===============================================================================
