-------------------------------- MODULE Ber --------------------------------
(***************************************************************************)
(* The BER encoding of snmp_mock/agent.js.  A buffer is a sequence of      *)
(* bytes; an OID is the sequence of its arcs.  A number that may need 32   *)
(* bits is a word <<high, low>> that stands for 2^16 * high + low, with an *)
(* unbounded high part: the agent counts in doubles.                       *)
(***************************************************************************)
EXTENDS Integers, SequencesExt

Byte == 0 .. 255

Word(n) == <<n \div 65536, n % 65536>>

Plus(w, n) == <<w[1] + (w[2] + n) \div 65536, (w[2] + n) % 65536>>

-----------------------------------------------------------------------------
(* Encoding.                                                               *)

EncLen(n) ==
  IF n < 128 THEN <<n>>
  ELSE IF n < 256 THEN <<129, n>>
  ELSE <<130, (n \div 256) % 256, n % 256>>

Tlv(tag, value) == <<tag>> \o EncLen(Len(value)) \o value

\* A leading bit that is set would make the number negative.
Padded(bytes) == IF bytes[1] >= 128 THEN <<0>> \o bytes ELSE bytes

\* n >>> 0 as four bytes.
UInt32BE(w) ==
  <<(w[1] \div 256) % 256, w[1] % 256, w[2] \div 256, w[2] % 256>>

\* The digits that are left without the leading zeros, at least one.
Significant(d) ==
  SubSeq(d, CHOOSE i \in 1 .. Len(d) : /\ d[i] # 0 \/ i = Len(d)
                                       /\ \A j \in 1 .. i - 1 : d[j] = 0,
         Len(d))

EncUnsigned(tag, w) == Tlv(tag, Padded(Significant(UInt32BE(w))))

\* encInt for the numbers it is called with, 0 <= n < 2^31.
EncInt(n) == EncUnsigned(2, Word(n))

\* An arc below 2^31 in digits of seven bits.
Septets(n) == <<(n \div 268435456) % 128, (n \div 2097152) % 128,
                (n \div 16384) % 128, (n \div 128) % 128, n % 128>>

\* All digits of an arc but the last have the top bit set.
EncArc(n) ==
  LET d == Significant(Septets(n)) IN
  [i \in 1 .. Len(d) |-> IF i < Len(d) THEN 128 + d[i] ELSE d[i]]

EncOID(parts) ==
  Tlv(6, <<40 * parts[1] + parts[2]>> \o
         FlattenSeq([i \in 1 .. Len(parts) - 2 |-> EncArc(parts[i + 2])]))

-----------------------------------------------------------------------------
(* Parsing of well-formed buffers.                                         *)

BigEndian(bytes) ==
  LET upTo[i \in 0 .. Len(bytes)] == IF i = 0 THEN 0 ELSE 256 * upTo[i - 1] + bytes[i]
  IN  upTo[Len(bytes)]

ReadLen(buf, off) ==
  LET first == buf[off]  n == first % 128 IN
  IF first < 128 THEN [len |-> first, consumed |-> 1]
  ELSE [len |-> BigEndian(SubSeq(buf, off + 1, off + n)), consumed |-> 1 + n]

ReadTLV(buf, off) ==
  LET l == ReadLen(buf, off + 1)
      from == off + 1 + l.consumed
  IN  [tag |-> buf[off], value |-> SubSeq(buf, from, from + l.len - 1),
       total |-> 1 + l.consumed + l.len]

\* Where the element after the one at off begins.
After(buf, off) == off + ReadTLV(buf, off).total

\* arc[i] is the arc that byte i belongs to, as far as that byte, and parts[i]
\* are the arcs that have ended by then: the last byte of an arc is below 128.
ParseOID(buf) ==
  LET arc[i \in 1 .. Len(buf)] ==
        (buf[i] % 128) + (IF i > 2 /\ buf[i - 1] >= 128 THEN 128 * arc[i - 1] ELSE 0)
      parts[i \in 1 .. Len(buf)] ==
        IF i = 1 THEN <<buf[1] \div 40, buf[1] % 40>>
        ELSE parts[i - 1] \o (IF buf[i] < 128 THEN <<arc[i]>> ELSE <<>>)
  IN  parts[Len(buf)]

\* The elements of a buffer, one after the other.
ReadAll(buf) ==
  LET from[off \in 1 .. Len(buf) + 1] ==
        IF off > Len(buf) THEN <<>>
        ELSE LET item == ReadTLV(buf, off) IN
             <<item>> \o (IF off + item.total \in off + 1 .. Len(buf) + 1
                            THEN from[off + item.total] ELSE <<>>)
  IN  from[1]

NotAGet == [version |-> <<>>, community |-> <<>>, reqIdBytes |-> <<>>, oids |-> <<>>]

\* parsePacket; NotAGet stands for its null.
ParsePacket(pkt) ==
  LET outer == ReadTLV(pkt, 1).value
      community == After(outer, 1)
      pdu == ReadTLV(outer, After(outer, community))
      errorStatus == After(pdu.value, 1)
      varbinds == ReadTLV(pdu.value, After(pdu.value, After(pdu.value, errorStatus)))
      list == ReadAll(varbinds.value)
  IN  IF pdu.tag # 160 THEN NotAGet
      ELSE [version |-> ReadTLV(outer, 1).value,
            community |-> ReadTLV(outer, community).value,
            reqIdBytes |-> ReadTLV(pdu.value, 1).value,
            oids |-> [v \in 1 .. Len(list) |-> ParseOID(ReadTLV(list[v].value, 1).value)]]
=============================================================================
