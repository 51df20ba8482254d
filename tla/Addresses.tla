------------------------------ MODULE Addresses ------------------------------
(***************************************************************************)
(* IPv6 and Ethernet addresses: their bytes, numbered from 0 as in the     *)
(* code, and their text.  A text is the sequence of its blocks, a block    *)
(* the sequence of its characters; ":" separates the blocks.               *)
(***************************************************************************)
EXTENDS Integers, Sequences, Bitwise

Byte == 0 .. 255
Digits == <<"0", "1", "2", "3", "4", "5", "6", "7", "8", "9", "a", "b", "c", "d", "e", "f">>
Capitals == <<"A", "B", "C", "D", "E", "F">>

numberToAscii(digit) == Digits[digit + 1]

\* A character that is no hexadecimal digit counts as 0.
numberFromAscii(c) ==
  IF \E d \in 1 .. 16 : c = Digits[d] THEN (CHOOSE d \in 1 .. 16 : c = Digits[d]) - 1
  ELSE IF \E d \in 1 .. 6 : c = Capitals[d] THEN (CHOOSE d \in 1 .. 6 : c = Capitals[d]) + 9
  ELSE 0

Nibbles(high, low) == high * 16 + low
TwoDigits(b) == <<numberToAscii(b \div 16), numberToAscii(b % 16)>>

-----------------------------------------------------------------------------
(* IPv6                                                                    *)

IPv6Addr == [0 .. 15 -> Byte]
Unspecified == [i \in 0 .. 15 |-> 0]

\* The mask test for 2000::/3 compares with 1 and never holds; byte 11 is
\* not tested for :0 and :1.
getIPv6AddressScope(a) ==
  CASE (a[0] & 48) = 1           -> "GLOBAL_UNICAST"
    [] a[0] = 255                -> "MULTICAST"
    [] a[0] = 254 /\ a[1] = 128  -> "LINKLOCAL"
    [] a[0] \in {252, 253}       -> "UNIQUE_LOCAL_UNICAST"
    [] OTHER ->
       IF \E i \in 0 .. 9 : a[i] # 0 THEN "NOT_RECOGNICED"
       ELSE IF a[10] = 255 /\ a[11] = 255 THEN "GLOBAL_UNICAST"
       ELSE IF \E i \in {10, 12, 13, 14} : a[i] # 0 THEN "NOT_RECOGNICED"
       ELSE CASE a[15] = 0 -> "NONDEFINED" [] a[15] = 1 -> "LOOPBACK" [] OTHER -> "NOT_RECOGNICED"

getIPv6AddressScopePrefixLength(s) ==
  CASE s = "LINKLOCAL" -> 64 [] s = "GLOBAL_UNICAST" -> 3 [] s = "MULTICAST" -> 8
    [] s = "UNIQUE_LOCAL_UNICAST" -> 7 [] OTHER -> 0

solicitedNode_multicast_addr(a) ==
  [i \in 0 .. 15 |-> CASE i \in {0, 12} -> 255 [] i = 1 -> 2 [] i = 11 -> 1 [] i >= 13 -> a[i] [] OTHER -> 0]

\* The interface with the addresses S belongs to the group m: only the first
\* two and the last three bytes are compared.
is_solicitedNode_multicast_addr(m, S) ==
  m[0] = 255 /\ m[1] = 2 /\ \E a \in S : \A i \in 13 .. 15 : a[i] = m[i]

\* Mutant: the last of the whole bytes is not compared.
comparePrefixShort(a, prefix, prefixlen) ==
  \A i \in 0 .. (prefixlen \div 8) - 2 : a[i] = prefix[i]

\* ~((2 xor (7 - rest)) - 1), the mask for the first rest bits of a byte.
prefixMask(rest) == 255 - (((2 ^^ (7 - rest)) - 1) % 256)

\* compare_ipv6_addr with a prefix length: whole bytes, then one byte under
\* the mask, unless no bit is left to compare.
comparePrefix(a, prefix, prefixlen) ==
  LET whole == prefixlen \div 8
      rest  == prefixlen % 8
  IN  /\ \A i \in 0 .. whole - 1 : a[i] = prefix[i]
      /\ whole < 16 /\ (rest > 0 \/ whole = 0) => (a[whole] & prefixMask(rest)) = (prefix[whole] & prefixMask(rest))

\* Mutant: a short block is taken for its leading digits.
parseLeftAligned(text, ipaddr) ==
  LET digit(b, k) == IF k <= Len(b) THEN numberFromAscii(b[k]) ELSE 0
      n == IF Len(text) < 8 THEN Len(text) ELSE 8
  IN  [ok   |-> n = 8,
       addr |-> [i \in 0 .. 15 |->
                   IF i \div 2 >= n THEN ipaddr[i]
                   ELSE LET b == text[i \div 2 + 1] IN
                        IF i % 2 = 0 THEN Nibbles(digit(b, 1), digit(b, 2))
                                     ELSE Nibbles(digit(b, 3), digit(b, 4))]]

\* Up to 8 blocks are written to ipaddr, right-aligned; fewer are a failure
\* that has overwritten the first bytes all the same.
parse_ipv6_addr(text, ipaddr) ==
  LET digit(b, k) == IF k < Len(b) THEN numberFromAscii(b[Len(b) - k]) ELSE 0
      n == IF Len(text) < 8 THEN Len(text) ELSE 8
  IN  [ok   |-> n = 8,
       addr |-> [i \in 0 .. 15 |->
                   IF i \div 2 >= n THEN ipaddr[i]
                   ELSE LET b == text[i \div 2 + 1] IN
                        IF i % 2 = 0 THEN Nibbles(digit(b, 3), digit(b, 2))
                                     ELSE Nibbles(digit(b, 1), digit(b, 0))]]

ipv6_addr_toString(a) == [k \in 1 .. 8 |-> TwoDigits(a[2 * k - 2]) \o TwoDigits(a[2 * k - 1])]

-----------------------------------------------------------------------------
(* Ethernet                                                                *)

\* The first digit is always 0: the high nibble is masked out before the shift.
ethernet_addr_tostring(a) ==
  [k \in 1 .. 6 |-> IF k = 1 THEN <<numberToAscii(0), numberToAscii(a[0] % 16)>> ELSE TwoDigits(a[k - 1])]

\* Six blocks of at most two characters, left-aligned.
parse_ethernet_addr(text, eth_addr) ==
  LET digit(b, k) == IF k <= Len(b) THEN numberFromAscii(b[k]) ELSE 0
  IN  [ok |-> Len(text) >= 6,
       addr |-> [i \in 0 .. 5 |-> IF i < Len(text) THEN Nibbles(digit(text[i + 1], 1), digit(text[i + 1], 2))
                                                    ELSE eth_addr[i]]]
=============================================================================
