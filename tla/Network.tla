------------------------------- MODULE Network -------------------------------
(* libcommon/network.cpp, the formatting of IPv4 addresses in string.cpp,    *)
(* and ByteSwap() of memory.h. A word has four bytes, the least significant  *)
(* one first in memory, as on every system Windows runs on.                  *)
EXTENDS Integers

CONSTANT ByteBits  \* bits of a byte, 8 in the code

ASSUME NetworkAssumption == ByteBits \in Nat \ {0}

Width == 4 * ByteBits

(* 1 << n *)
Bit[n \in 0 .. Width] == IF n = 0 THEN 1 ELSE 2 * Bit[n - 1]
Radix == Bit[ByteBits]

WordBytes == 1 .. 4
Address == [WordBytes -> 0 .. Radix - 1]
Word == 0 .. Bit[Width] - 1

(* What the byte at i is multiplied with in its word.                        *)
Weight(i) == Bit[(i - 1) * ByteBits]
Load(bytes) ==
  bytes[1] * Weight(1) + bytes[2] * Weight(2) + bytes[3] * Weight(3) + bytes[4] * Weight(4)
Memory(word) == [i \in WordBytes |-> (word \div Weight(i)) % Radix]
Reversed(bytes) == [i \in WordBytes |-> bytes[5 - i]]
Htonl(word) == Load(Reversed(Memory(word)))

(* Fault: the address is left as it was loaded. *)
LiteralAddressLoaded(address) == Load(address)
LiteralAddressToNetwork(address) == Htonl(Load(address))

(* ~((1 << (Width - prefix)) - 1)                                            *)
MaskFromRoutingPrefix(prefix) ==
  IF prefix = 0 THEN 0 ELSE Bit[Width] - Bit[Width - prefix]

(* FormatIpv4() in both orders: the numbers between the dots.                *)
FormatNetworkOrder(ip) == Memory(ip)
FormatHostOrder(ip) == FormatNetworkOrder(Htonl(ip))

(* Two of the bytes, as a 16-bit word. *)
ByteSwap(val) == ((val % Radix) * Radix) + ((val \div Radix) % Radix)
=============================================================================
