----------------------------- MODULE Encapsulate ----------------------------
(***************************************************************************)
(* The IP header EncapsulatePacket (srv_cpu/network/network.cpp) builds    *)
(* and the loop that sums it, on a little-endian machine.  A header is the *)
(* sequence of its 16-bit words as the loop reads them; the checksum field *)
(* is zero when the loop starts and is the variable the loop adds to.  The *)
(* loop is stepped, one word a step.                                       *)
(***************************************************************************)
EXTENDS Integers, Sequences, SequencesExt

CONSTANTS Addresses,  \* bound: sourceIP, destinationIP, 32 bits each
          DataLengths \* bound: data.length()

Word == 65536
htons(n) == ((n % 256) * 256) + ((n \div 256) % 256)
Complement(n) == Word - 1 - n  \* ~ on uint16_t

VARIABLES ipHeader, \* its ten words; the sixth is the checksum
          i         \* the loop's counter; 11 after the complement

encapVars == <<ipHeader, i>>

\* htonl, as the two words it leaves in memory.
HtonlWords(address) == <<htons(address \div Word), htons(address % Word)>>

\* sizeof(IPHeader) is 20, sizeof(UDPHeader) 8; version and length 0x45, time
\* to live 64, protocol 6.
EncapInit == \E source, destination \in Addresses, length \in DataLengths :
  /\ ipHeader = << 69, htons(20 + 8 + length), 0, 0, 64 + 256 * 6, 0 >>
                  \o HtonlWords(source) \o HtonlWords(destination)
  /\ i = 0

\* ipHeader.checksum += ipData[i], in 16 bits.
AddWord == /\ i < 10
           /\ ipHeader' = [ipHeader EXCEPT ![6] = (@ + ipHeader[i + 1]) % Word]
           /\ i' = i + 1

Invert == /\ i = 10
          /\ ipHeader' = [ipHeader EXCEPT ![6] = Complement(@)]
          /\ i' = 11

EncapNext == AddWord \/ Invert

EncapSpec == EncapInit /\ [][EncapNext]_encapVars

-----------------------------------------------------------------------------
\* The finished header carries an internet checksum: the one's complement sum of
\* all its words is all ones, in either byte order (network.cpp:24, "//
\* Calculate IP checksum").
IpChecksumVerifies ==
  i = 11 => FoldSeq(LAMBDA w, sum : w + sum, 0, ipHeader) % (Word - 1) = 0
=============================================================================
