------------------------------ MODULE Checksum ------------------------------
(***************************************************************************)
(* The Internet checksum of the router (skel.c: ip_checksum, icmp_checksum) *)
(* over 16-bit words.  ip_checksum reads blocks of 32 bits from aligned     *)
(* addresses and icmp_checksum reads words; both sum with deferred carries. *)
(*                                                                         *)
(* Word stands for 2^16, so that TLC can use narrow words.  Byte order is   *)
(* left out: the sum of words read in the other order is the sum with its   *)
(* bytes swapped, and what is stored is swapped in the same way.            *)
(***************************************************************************)
EXTENDS Naturals

CONSTANT Word   \* the number of values of a uint16_t
ASSUME WordOK == Word \in Nat /\ Word > 32

Words == 0 .. Word - 1
Header == [1 .. 10 -> Words]        \* an IP header without options
Message == [1 .. 4 -> Words]        \* an ICMP header
HeaderCheck == 6                    \* the positions of their checksums
MessageCheck == 2

(* A word is the high or the low half of its block.  The header of a        *)
(* received packet starts two bytes past an aligned address, so that its    *)
(* first word is a block of its own; that of a new packet is aligned.       *)
Received == 2
Fresh == 0
InHighHalf(k, offset) == (k + offset \div 2) % 2 = 1
Value(h, k, offset) == IF InHighHalf(k, offset) THEN Word * h[k] ELSE h[k]

Sum(h, offset) ==
  (Word - 1) + Value(h, 1, offset) + Value(h, 2, offset) + Value(h, 3, offset)
    + Value(h, 4, offset) + Value(h, 5, offset) + Value(h, 6, offset)
    + Value(h, 7, offset) + Value(h, 8, offset) + Value(h, 9, offset)
    + Value(h, 10, offset)

(* The carries out of 32 bits are added once, those out of 16 bits for as   *)
(* long as there are any: three rounds are enough (CarriesEnd).             *)
Fold(acc, base) == (acc % base) + (acc \div base)
Carry(acc) == IF acc >= Word THEN Fold(acc, Word) ELSE acc
Folded(acc) == Carry(Carry(Carry(Fold(acc, Word * Word))))

ip_checksum(h, offset) == Word - 1 - Folded(Sum(h, offset))

(* The words of an ICMP header, the carries added twice, and the complement *)
(* cut to a word.                                                           *)
icmp_checksum(m) ==
  LET cksum == Fold(m[1] + m[2] + m[3] + m[4], Word)
  IN  Word - 1 - ((cksum + cksum \div Word) % Word)

=============================================================================
