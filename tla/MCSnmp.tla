------------------------------- MODULE MCSnmp -------------------------------
(***************************************************************************)
(* Snmp on a small instance: an agent that has just started and one that   *)
(* has run for long, whose numbers are next to the ends of their ranges    *)
(* and of the lengths of their encodings.                                  *)
(***************************************************************************)
EXTENDS Snmp

\* Two numbers whose encoding needs a leading zero byte.
Young == [uptimeTicks |-> Word(8640000), ifInOctets |-> Word(50000000),
          ifOutOctets |-> Word(25000000), memUsed |-> 1024, cpuLoad |-> 15,
          diskUsed |-> 30]

\* Run for long: the time and the octets that came in are about to wrap, those
\* that went out to need a fifth byte; the loads are next to their upper limits.
Old == [uptimeTicks |-> <<65535, 64000>>, ifInOctets |-> <<65535, 36000>>,
        ifOutOctets |-> <<32767, 65000>>, memUsed |-> 3790, cpuLoad |-> 94,
        diskUsed |-> 98]

MCFresh == {Young}

MCRunning == {Old}

MCGrowths ==
  {[ifIn |-> 11999999, ifOut |-> 400000, mem |-> 199, cpu |-> 14, disk |-> 1]}

MCRequestIds == {<<0, 200, 17>>}

\* The mock agent, and a host without the rows of allocation units.
MCServed == {Range(OIDS), Range(OIDS) \ {hrStorageAlloc, hrMemAllocUnit}}

\* What is encoded is read back: lengths, numbers of 32 bits and arcs at the
\* ends of each number of bytes.
Edges == UNION {{2^k - 1, 2^k, 2^k + 1} : k \in 1 .. 30}

ASSUME CodecAssumption ==
  /\ \A n \in {e \in Edges : e < 65536} :
       ReadLen(EncLen(n), 1) = [len |-> n, consumed |-> Len(EncLen(n))]
  /\ \A n \in Edges : /\ Number(ReadTLV(EncInt(n), 1).value) = Word(n)
                      /\ ParseOID(ReadTLV(EncOID(<<1, 3, n, 0, n>>), 1).value)
                           = <<1, 3, n, 0, n>>
  /\ \A hi, lo \in {e \in Edges : e < 65536} :
       Number(ReadTLV(EncUnsigned(66, <<hi, lo>>), 1).value) = <<hi, lo>>
  /\ CodecExact({Young, Old} \cup
       {[uptimeTicks |-> <<hi, 65535>>, ifInOctets |-> <<65536 + hi, 0>>,
         ifOutOctets |-> <<0, hi % 65536>>, memUsed |-> Clamp(512, 3800, hi),
         cpuLoad |-> Clamp(5, 95, hi), diskUsed |-> Clamp(0, 99, hi)] : hi \in Edges})
=============================================================================
