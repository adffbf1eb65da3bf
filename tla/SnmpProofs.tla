----------------------------- MODULE SnmpProofs -----------------------------
(***************************************************************************)
(* What a collect over SNMP reports, for any samples, hosts, sockets and   *)
(* faults, by the exactness of the encoders and the parsers.               *)
(***************************************************************************)
EXTENDS BerProofs

-----------------------------------------------------------------------------
(* What is read of an answer.                                              *)

LEMMA Conversions ==
  /\ \A n \in Nat : ToInt(Word(n)) = n
  /\ \A n \in Nat : MB(n, MemAlloc) = n
  /\ ToInt(Word(MemAlloc)) = MemAlloc /\ ToInt(Word(DiskAlloc)) = DiskAlloc
  /\ ToInt(<<0, 0>>) = 0
  BY DEF ToInt, Word, MB, MemAlloc, DiskAlloc

\* vals[oid] is what the host has answered for oid.
LEMMA GotMeant ==
  ASSUME NEW known, NEW a, NEW oid \in Range(OIDS),
         oid \in known => Meant(known, oid, a) # NULL,
         oid \notin known => Meant(known, oid, a) = NULL
  PROVE  Got([v \in DOMAIN OIDS |-> <<OIDS[v], Meant(known, OIDS[v], a)>>], oid) =
           IF oid \in known THEN Meant(known, oid, a) ELSE <<0, 0>>
<1> DEFINE binds == [v \in DOMAIN OIDS |-> <<OIDS[v], Meant(known, OIDS[v], a)>>]
           found == {b \in Range(binds) : b[1] = oid /\ b[2] # NULL}
<1>1. PICK v \in DOMAIN OIDS : OIDS[v] = oid
  BY DEF Range
<1>2. \A b \in Range(binds) : b[1] = oid => b = <<oid, Meant(known, oid, a)>>
  BY DEF Range
<1>3. <<oid, Meant(known, oid, a)>> \in Range(binds)
  BY <1>1 DEF Range
<1> HIDE DEF binds
<1>4. CASE oid \in known
  <2>1. found = {<<oid, Meant(known, oid, a)>>}
    BY <1>2, <1>3, <1>4
  <2> DEFINE one == CHOOSE b \in found : TRUE
  <2>2. Got(binds, oid) = one[2]
    BY <2>1 DEF Got
  <2>3. one = <<oid, Meant(known, oid, a)>>
    BY <2>1
  <2> HIDE DEF one
  <2>4. Got(binds, oid) = Meant(known, oid, a)
    BY <2>2, <2>3
  <2> QED
    BY <1>4, <2>4 DEF binds
<1>5. CASE oid \notin known
  <2>1. found = {}
    BY <1>2, <1>5
  <2> QED
    BY <1>5, <2>1 DEF Got, binds
<1> QED
  BY <1>4, <1>5

LEMMA OidsAreAsked ==
  {sysUptime, ifInOctets, ifOutOctets, hrStorageUsed, hrStorageSize, hrStorageAlloc,
   hrMemUsed, hrMemTotal, hrMemAllocUnit, hrCpuLoad} \subseteq Range(OIDS)
<1>1. DOMAIN OIDS = 1 .. 10
  BY DEF OIDS
<1> QED
  BY <1>1 DEF OIDS, Range

\* The low part of a word is below 2^16, and all that is fits.
LEMMA LowPart ==
  /\ \A lo \in 0 .. Max16 : lo \in Nat /\ lo < 65536
  /\ \A lo \in Nat : lo < 65536 => lo \in 0 .. Max16
<1>1. Max16 \in Nat /\ Max16 < 65536
  BY SMT DEF Max16
<1>2. \A lo \in Nat : lo < 65536 => lo <= Max16
  BY SMT DEF Max16
<1>3. ASSUME NEW lo \in 0 .. Max16 PROVE lo \in Nat /\ lo <= Max16
  BY <1>1, SMT
<1>4. ASSUME NEW lo \in 0 .. Max16 PROVE lo < 65536
  BY <1>1, <1>3, SMT
<1>5. ASSUME NEW lo \in Nat, lo < 65536 PROVE lo \in 0 .. Max16
  BY <1>1, <1>2, <1>5, SMT
<1> QED
  BY <1>3, <1>4, <1>5

\* A conversion and back: nothing is lost.
LEMMA InMBExact ==
  ASSUME NEW w \in Counter
  PROVE  InMB(w) \in Nat \X (0 .. Max20) /\ Octets(InMB(w)) = w
<1>1. PICK hi \in Nat, lo \in 0 .. Max16 : w = <<hi, lo>>
  BY DEF Counter
<1>2. lo \in Nat /\ lo < 65536
  BY LowPart
<1> DEFINE mb == hi \div 16
           rest == (hi % 16) * 65536 + lo
<1>3. mb \in Nat /\ hi % 16 \in 0 .. 15 /\ hi = 16 * mb + (hi % 16)
  BY SMT
<1>4. rest \in Nat /\ rest < 1048576
  BY <1>2, <1>3, SMT
<1>5. rest \div 65536 = hi % 16 /\ rest % 65536 = lo
  BY <1>2, <1>3, SMT
<1>6. InMB(w) = <<mb, rest>>
  BY <1>1, SMT DEF InMB
<1> HIDE DEF mb, rest
<1>7. rest \in 0 .. Max20
  <2>1. Max20 \in Nat /\ \A n \in Nat : n < 1048576 => n <= Max20
    BY SMT DEF Max20
  <2> QED
    BY <1>4, <2>1, SMT
<1>8. Octets(<<mb, rest>>) = <<16 * mb + rest \div 65536, (0 + rest) % 65536>>
  BY <1>3, <1>4, SMT DEF Octets, Plus
<1>9. 16 * mb + rest \div 65536 = hi /\ (0 + rest) % 65536 = lo
  BY <1>3, <1>4, <1>5, SMT
<1> QED
  BY <1>1, <1>3, <1>6, <1>7, <1>8, <1>9, SMT

LEMMA HundredthExact ==
  ASSUME NEW w \in Counter
  PROVE  Hundredth(w) \in Nat /\ \E more \in 0 .. 99 : Ticks(Hundredth(w), more) = w
<1>1. PICK hi \in Nat, lo \in 0 .. Max16 : w = <<hi, lo>>
  BY DEF Counter
<1>2. lo \in Nat /\ lo < 65536
  BY LowPart
<1> DEFINE top == hi \div 100
           rest == (hi % 100) * 65536 + lo
           low == rest \div 100
           more == rest % 100
<1>3. top \in Nat /\ hi % 100 \in 0 .. 99 /\ hi = 100 * top + (hi % 100)
  BY SMT
<1>4. rest \in Nat /\ rest < 6553600
  BY <1>2, <1>3, SMT
<1>5. rest \div 65536 = hi % 100 /\ rest % 65536 = lo
  BY <1>2, <1>3, SMT
<1>6. Hundredth(w) = top * 65536 + low
  BY <1>1, SMT DEF Hundredth
<1> HIDE DEF rest
<1>7. low \in Nat /\ low < 65536 /\ more \in 0 .. 99 /\ 100 * low + more = rest
  BY <1>4, SMT
<1> HIDE DEF top, low, more
<1>8. /\ top * 65536 + low \in Nat
      /\ (top * 65536 + low) \div 65536 = top /\ (top * 65536 + low) % 65536 = low
  BY <1>3, <1>7, SMT
<1> DEFINE n == top * 65536 + low
<1> HIDE DEF n
<1>9. Ticks(n, more) = <<100 * (n \div 65536) + (0 + (100 * (n % 65536) + more)) \div 65536,
                         (0 + (100 * (n % 65536) + more)) % 65536>>
  BY SMT DEF Ticks, Plus
<1>10. n \div 65536 = top /\ n % 65536 = low /\ n \in Nat /\ Hundredth(w) = n
  BY <1>6, <1>8, SMT DEF n
<1>11. 0 + (100 * low + more) = rest
  BY <1>4, <1>7, SMT
<1>12. Ticks(n, more) = <<100 * top + rest \div 65536, rest % 65536>>
  BY <1>9, <1>10, <1>11, SMT
<1>13. Ticks(n, more) = w
  BY <1>1, <1>3, <1>5, <1>12, SMT
<1> QED
  BY <1>7, <1>10, <1>13, SMT

ReadingTyped(r) ==
  /\ r.uptimeSeconds \in Nat
  /\ {r.bandwidthInMB, r.bandwidthOutMB} \subseteq Nat \X (0 .. Max20)
  /\ r.cpuUsagePercent \in 0 .. 100
  /\ r.ramUsageMB \in 0 .. MemTotal /\ r.ramTotalMB \in 0 .. MemTotal
  /\ 0 <= r.diskUsagePercent[1]
  /\ r.diskUsagePercent[1] < 100 * r.diskUsagePercent[2]

\* What is collected from an exact answer.
LEMMA CollectedIsReading ==
  ASSUME NEW known, NEW a \in Sample
  PROVE  LET r == Collected([v \in DOMAIN OIDS |-> <<OIDS[v], Meant(known, OIDS[v], a)>>]) IN
         r.serviceUp = TRUE /\ IsReadingOf(r, known, a) /\ ReadingTyped(r)
<1> DEFINE binds == [v \in DOMAIN OIDS |-> <<OIDS[v], Meant(known, OIDS[v], a)>>]
<1>1. a.uptimeTicks \in Counter /\ a.ifInOctets \in Counter /\ a.ifOutOctets \in Counter
  BY DEF Sample
<1>2. a.memUsed \in MinMem .. MaxMem /\ a.cpuLoad \in 5 .. 95 /\ a.diskUsed \in 0 .. DiskSize - 1
  BY DEF Sample
<1>3. /\ a.memUsed \in Nat /\ a.memUsed > 0 /\ a.cpuLoad \in Nat /\ a.diskUsed \in Nat
      /\ DiskSize \in Nat /\ DiskAlloc \in Nat /\ MemTotal \in Nat /\ MemAlloc \in Nat
  <2>1. \A n \in MinMem .. MaxMem : n \in Nat /\ n > 0
    BY SMT DEF MinMem, MaxMem
  <2>2. \A n \in 5 .. 95 : n \in Nat
    BY SMT
  <2>3. \A n \in 0 .. DiskSize - 1 : n \in Nat
    BY SMT DEF DiskSize
  <2>4. DiskSize \in Nat /\ DiskAlloc \in Nat /\ MemTotal \in Nat /\ MemAlloc \in Nat
    BY SMT DEF DiskSize, DiskAlloc, MemTotal, MemAlloc
  <2> QED
    BY <1>2, <2>1, <2>2, <2>3, <2>4
<1>4. NULL \notin Counter
  BY SnmpAssumption
<1>5. Got(binds, sysUptime) = IF sysUptime \in known THEN Word32(a.uptimeTicks) ELSE <<0, 0>>
  BY <1>1, <1>4, Words, Meanings, GotMeant, OidsAreAsked
<1>6. Got(binds, ifInOctets) = IF ifInOctets \in known THEN Word32(a.ifInOctets) ELSE <<0, 0>>
  BY <1>1, <1>4, Words, Meanings, GotMeant, OidsAreAsked
<1>7. Got(binds, ifOutOctets) = IF ifOutOctets \in known THEN Word32(a.ifOutOctets) ELSE <<0, 0>>
  BY <1>1, <1>4, Words, Meanings, GotMeant, OidsAreAsked
<1>8. Got(binds, hrStorageUsed) = IF hrStorageUsed \in known THEN Word(a.diskUsed) ELSE <<0, 0>>
  BY <1>3, <1>4, Words, Meanings, GotMeant, OidsAreAsked
<1>9. Got(binds, hrStorageSize) = IF hrStorageSize \in known THEN Word(DiskSize) ELSE <<0, 0>>
  BY <1>3, <1>4, Words, Meanings, GotMeant, OidsAreAsked
<1>10. Got(binds, hrStorageAlloc) = IF hrStorageAlloc \in known THEN Word(DiskAlloc) ELSE <<0, 0>>
  BY <1>3, <1>4, Words, Meanings, GotMeant, OidsAreAsked
<1>11. Got(binds, hrMemUsed) = IF hrMemUsed \in known THEN Word(a.memUsed) ELSE <<0, 0>>
  BY <1>3, <1>4, Words, Meanings, GotMeant, OidsAreAsked
<1>12. Got(binds, hrMemTotal) = IF hrMemTotal \in known THEN Word(MemTotal) ELSE <<0, 0>>
  BY <1>3, <1>4, Words, Meanings, GotMeant, OidsAreAsked
<1>13. Got(binds, hrMemAllocUnit) = IF hrMemAllocUnit \in known THEN Word(MemAlloc) ELSE <<0, 0>>
  BY <1>3, <1>4, Words, Meanings, GotMeant, OidsAreAsked
<1>14. Got(binds, hrCpuLoad) = IF hrCpuLoad \in known THEN Word(a.cpuLoad) ELSE <<0, 0>>
  BY <1>3, <1>4, Words, Meanings, GotMeant, OidsAreAsked
<1> HIDE DEF binds
<1> DEFINE number(oid, value) == IF oid \in known THEN value ELSE 0
<1>15. /\ ToInt(Got(binds, hrStorageUsed)) = number(hrStorageUsed, a.diskUsed)
       /\ ToInt(Got(binds, hrStorageSize)) = number(hrStorageSize, DiskSize)
       /\ ToInt(Got(binds, hrStorageAlloc)) = number(hrStorageAlloc, DiskAlloc)
       /\ ToInt(Got(binds, hrMemUsed)) = number(hrMemUsed, a.memUsed)
       /\ ToInt(Got(binds, hrMemTotal)) = number(hrMemTotal, MemTotal)
       /\ ToInt(Got(binds, hrMemAllocUnit)) = number(hrMemAllocUnit, MemAlloc)
       /\ ToInt(Got(binds, hrCpuLoad)) = number(hrCpuLoad, a.cpuLoad)
  BY <1>3, <1>8, <1>9, <1>10, <1>11, <1>12, <1>13, <1>14, Conversions
<1> DEFINE memUsed == number(hrMemUsed, a.memUsed)
           memAlloc == number(hrMemAllocUnit, MemAlloc)
           ram(n) == IF memAlloc > 0 THEN MB(n, memAlloc)
                     ELSE IF memUsed > 0 THEN n \div 1024 ELSE 0
           inMB(n) == IF hrMemAllocUnit \in known THEN n
                           ELSE IF hrMemUsed \in known THEN n \div 1024 ELSE 0
<1>17. \A n \in Nat : ram(n) = inMB(n)
  <2>1. MemAlloc > 0 /\ a.memUsed > 0
    BY <1>3, SMT DEF MemAlloc
  <2>2. \A n \in Nat : MB(n, MemAlloc) = n
    BY Conversions
  <2>3. CASE hrMemAllocUnit \in known
    <3>1. memAlloc = MemAlloc /\ MemAlloc > 0
      BY <2>1, <2>3
    <3>2. \A n \in Nat : inMB(n) = n
      BY <2>3
    <3> HIDE DEF inMB, memAlloc, memUsed
    <3> QED
      BY <2>2, <3>1, <3>2
  <2>4. CASE hrMemAllocUnit \notin known
    <3>1. memAlloc = 0
      BY <2>4
    <3>2. memUsed > 0 <=> hrMemUsed \in known
      BY <2>1
    <3> HIDE DEF memAlloc, memUsed
    <3> QED
      BY <2>4, <3>1, <3>2
  <2> QED
    BY <2>3, <2>4
<1> DEFINE memTotal == number(hrMemTotal, MemTotal)
           disk == IF /\ number(hrStorageSize, DiskSize) > 0
                      /\ number(hrStorageAlloc, DiskAlloc) > 0
                     THEN Percent(number(hrStorageUsed, a.diskUsed),
                                  number(hrStorageSize, DiskSize))
                     ELSE <<0, 1>>
           r == Collected(binds)
<1>18. r = [serviceUp        |-> TRUE,
            uptimeSeconds    |-> Hundredth(Got(binds, sysUptime)),
            bandwidthInMB    |-> InMB(Got(binds, ifInOctets)),
            bandwidthOutMB   |-> InMB(Got(binds, ifOutOctets)),
            cpuUsagePercent  |-> number(hrCpuLoad, a.cpuLoad),
            ramUsageMB       |-> ram(memUsed),
            ramTotalMB       |-> ram(memTotal),
            diskUsagePercent |-> disk]
  BY <1>15 DEF Collected
<1> HIDE DEF r
<1>19. memUsed \in 0 .. MemTotal /\ memTotal \in 0 .. MemTotal
  <2>1. \A n \in MinMem .. MaxMem : n \in 0 .. MemTotal
    <3>1. MinMem \in Nat /\ MaxMem \in Nat /\ MemTotal \in Nat /\ MaxMem <= MemTotal
      BY SMT DEF MinMem, MaxMem, MemTotal
    <3> QED
      BY <3>1
  <2> QED
    BY <1>2, <1>3, <2>1
<1>20. \A n \in 0 .. MemTotal : n \in Nat /\ inMB(n) \in 0 .. MemTotal
  <2> SUFFICES ASSUME NEW n \in 0 .. MemTotal PROVE n \in Nat /\ inMB(n) \in 0 .. MemTotal
    OBVIOUS
  <2>1. n \in Nat /\ n \div 1024 \in 0 .. MemTotal
    BY <1>3
  <2> QED
    BY <1>3, <2>1
<1>21. ram(memUsed) = inMB(memUsed) /\ ram(memTotal) = inMB(memTotal)
  BY <1>17, <1>19, <1>20
<1>22. a.diskUsed < DiskSize /\ DiskSize > 0 /\ DiskAlloc > 0
  BY <1>2, <1>3, SMT DEF DiskSize, DiskAlloc
<1>23. /\ number(hrStorageUsed, a.diskUsed) \in Nat /\ number(hrStorageUsed, a.diskUsed) < DiskSize
       /\ number(hrCpuLoad, a.cpuLoad) \in 0 .. 100
  BY <1>2, <1>3, <1>22
<1>24. disk = IF {hrStorageSize, hrStorageAlloc} \subseteq known
                THEN <<100 * number(hrStorageUsed, a.diskUsed), DiskSize>> ELSE <<0, 1>>
  BY <1>22 DEF Percent
<1> HIDE DEF ram, memUsed, memTotal, disk
<1> DEFINE used == number(hrStorageUsed, a.diskUsed)
           word(oid, w) == IF oid \in known THEN w ELSE <<0, 0>>
<1>25. word(sysUptime, Word32(a.uptimeTicks)) \in Counter
       /\ word(ifInOctets, Word32(a.ifInOctets)) \in Counter
       /\ word(ifOutOctets, Word32(a.ifOutOctets)) \in Counter
  <2>1. <<0, 0>> \in Counter
    <3>1. 0 \in 0 .. Max16
      BY SMT DEF Max16
    <3> QED
      BY <3>1 DEF Counter
  <2> QED
    BY <1>1, <2>1, Words
<1>26. /\ \E more \in 0 .. 99 :
            Ticks(r.uptimeSeconds, more) = word(sysUptime, Word32(a.uptimeTicks))
       /\ r.uptimeSeconds \in Nat
  BY <1>5, <1>18, <1>25, HundredthExact
<1>27. /\ Octets(r.bandwidthInMB) = word(ifInOctets, Word32(a.ifInOctets))
       /\ Octets(r.bandwidthOutMB) = word(ifOutOctets, Word32(a.ifOutOctets))
       /\ {r.bandwidthInMB, r.bandwidthOutMB} \subseteq Nat \X (0 .. Max20)
  BY <1>6, <1>7, <1>18, <1>25, InMBExact
<1>28. /\ IF {hrStorageSize, hrStorageAlloc} \subseteq known
            THEN disk[1] * DiskSize = 100 * used * disk[2] ELSE disk[1] = 0
       /\ 0 <= disk[1] /\ disk[1] < 100 * disk[2]
  <2>1. used \in Nat /\ used < DiskSize /\ DiskSize \in Nat
    BY <1>3, <1>23
  <2> HIDE DEF used
  <2>2. CASE {hrStorageSize, hrStorageAlloc} \subseteq known
    <3>1. disk[1] = 100 * used /\ disk[2] = DiskSize
      BY <1>24, <2>2 DEF used
    <3> QED
      BY <2>1, <2>2, <3>1
  <2>3. CASE ~({hrStorageSize, hrStorageAlloc} \subseteq known)
    <3>1. disk[1] = 0 /\ disk[2] = 1
      BY <1>24, <2>3
    <3> QED
      BY <2>3, <3>1
  <2> QED
    BY <2>2, <2>3
<1>29. IsReadingOf(r, known, a)
  BY <1>18, <1>21, <1>26, <1>27, <1>28 DEF IsReadingOf, memUsed, memTotal
<1>30. ReadingTyped(r)
  BY <1>18, <1>19, <1>20, <1>21, <1>23, <1>26, <1>27, <1>28 DEF ReadingTyped
<1>31. r.serviceUp = TRUE
  BY <1>18
<1> QED
  BY <1>29, <1>30, <1>31 DEF r, binds

-----------------------------------------------------------------------------
(* The inductive invariant.                                                *)

\* What the host answers to the request id at a moment a.
AnswerOf(id, a) == BuildResponse(served, ParsePacket(GetRequest(id)), a)

\* A request, or the answer to it at one of the samples.
Fits(d, id, samples) ==
  \/ d.kind = "request" /\ d.bytes = GetRequest(id)
  \/ d.kind = "answer" /\ \E a \in samples : d.bytes = AnswerOf(id, a)

Datagrams == [kind : {"request", "answer"}, sock : Sockets, try : 0 .. 1, bytes : Seq(Byte)]

NetFits == \A d \in net : d \in Datagrams /\ \E id \in RequestIds : Fits(d, id, Sample)

\* What is on the way to the running session is its own, of the moments since it
\* began; what is not on the way any more has been missed.
SessionFits ==
  session # NULL =>
    /\ \A d \in OnTheWay : Fits(d, session.id, window)
    /\ s # NULL => s \in window
    /\ OnTheWay = {} \/ session.retries = 0 => misses >= 1
    /\ OnTheWay = {} /\ session.retries = 0 => misses = 2

Faults == [ticks : 0 .. MaxTicks, stops : 0 .. MaxStops, lost : 0 .. MaxLost,
           slow : 0 .. MaxSlow, dups : 0 .. MaxDups, errors : 0 .. MaxErrors]

ReadingFits == reading \in {NULL, Down} \/ ReadingTyped(reading)

\* The types, but for the ones of net and reading.
StateFits ==
  /\ s \in Sample \cup {NULL}
  /\ served \in Served
  /\ session \in Session \cup {NULL}
  /\ window \subseteq Sample
  /\ misses \in 0 .. 2
  /\ unsent \in BOOLEAN
  /\ faults \in Faults

IInv ==
  /\ StateFits /\ NetFits /\ SessionFits /\ ReadingFits
  /\ ReadingIsOneSample /\ DownHasCause

LEMMA Bounds ==
  /\ Fresh \subseteq Sample /\ Running \subseteq Sample
  /\ MaxTicks \in Nat /\ MaxStops \in Nat /\ MaxLost \in Nat /\ MaxSlow \in Nat
  /\ MaxDups \in Nat /\ MaxErrors \in Nat
  BY SnmpAssumption

LEMMA NullDiffers == NULL \notin Sample /\ NULL \notin Session /\ NULL # Down
  BY SnmpAssumption

LEMMA InitIInv == ASSUME Init PROVE IInv
<1>1. /\ s \in Sample /\ served \in Served /\ net = {} /\ session = NULL /\ reading = NULL
      /\ window = {} /\ misses = 0 /\ unsent = FALSE /\ reading # Down
  BY Bounds, NullDiffers DEF Init
<1>2. faults \in Faults
  BY Bounds DEF Init, Faults
<1>3. StateFits
  <2>1. misses \in 0 .. 2
    BY <1>1, SMT
  <2>2. unsent \in BOOLEAN /\ window \subseteq Sample
    BY <1>1
  <2> QED
    BY <1>1, <1>2, <2>1, <2>2 DEF StateFits
<1>4. NetFits /\ SessionFits
  BY <1>1 DEF NetFits, SessionFits
<1>5. ReadingFits /\ ReadingIsOneSample /\ DownHasCause
  BY <1>1 DEF ReadingFits, ReadingIsOneSample, DownHasCause
<1> QED
  BY <1>3, <1>4, <1>5 DEF IInv

\* What the answer to a request is read as.
LEMMA AnswerRead ==
  ASSUME served \in Served, NEW id \in RequestIds, NEW a \in Sample
  PROVE  \E binds :
           /\ ReadAnswer(AnswerOf(id, a)) = [id |-> id, binds |-> binds]
           /\ [v \in DOMAIN binds |-> binds[v][1]] = OIDS
           /\ Collected(binds).serviceUp = TRUE
           /\ IsReadingOf(Collected(binds), served, a)
           /\ ReadingTyped(Collected(binds))
<1> DEFINE binds == [v \in DOMAIN OIDS |-> <<OIDS[v], Meant(served, OIDS[v], a)>>]
<1>1. ReadAnswer(AnswerOf(id, a)) = [id |-> id, binds |-> binds]
  BY CodecIsExact DEF CodecExact, AnswerOf
<1>2. [v \in DOMAIN binds |-> binds[v][1]] = OIDS
  <2>1. DOMAIN binds = DOMAIN OIDS /\ \A v \in DOMAIN OIDS : binds[v][1] = OIDS[v]
    OBVIOUS
  <2>2. OIDS = [v \in DOMAIN OIDS |-> OIDS[v]]
    BY DEF OIDS
  <2> HIDE DEF binds
  <2> QED
    BY <2>1, <2>2
<1>3. /\ Collected(binds).serviceUp = TRUE
      /\ IsReadingOf(Collected(binds), served, a) /\ ReadingTyped(Collected(binds))
  BY CollectedIsReading
<1> HIDE DEF binds
<1> QED
  BY <1>1, <1>2, <1>3

-----------------------------------------------------------------------------
(* The steps of the collector.                                             *)

LEMMA CollectStep ==
  ASSUME IInv, NEW id \in RequestIds, Collect(id)
  PROVE  IInv'
<1> DEFINE k == CHOOSE sock \in FreeSockets : TRUE
           request == Datagram("request", k, 1, GetRequest(id))
<1>1. k \in Sockets /\ \A d \in net : d.sock # k
  BY DEF Collect, FreeSockets
<1>2. /\ session = NULL /\ session' = [sock |-> k, id |-> id, retries |-> 1]
      /\ net' = net \cup {request}
      /\ window' = {s} \ {NULL} /\ misses' = 0 /\ unsent' = FALSE
      /\ UNCHANGED <<s, served, reading, faults>>
  BY DEF Collect, Send
<1>3. GetRequest(id) \in Seq(Byte)
  BY CodecIsExact DEF CodecExact, IInv, StateFits
<1>4. /\ request \in Datagrams /\ request.kind = "request" /\ request.sock = k
      /\ request.bytes = GetRequest(id)
  BY <1>1, <1>3 DEF Datagram, Datagrams
<1> HIDE DEF k, request
<1>5. session' \in Session /\ session' # NULL /\ session'.sock = k /\ session'.id = id
      /\ session'.retries = 1
  BY <1>1, <1>2, NullDiffers DEF Session
<1>6. OnTheWay' = {request}
  BY <1>1, <1>2, <1>4, <1>5 DEF OnTheWay
<1>7. StateFits'
  <2>1. window' \subseteq Sample
    BY <1>2 DEF IInv, StateFits
  <2>2. misses' \in 0 .. 2
    BY <1>2, SMT
  <2>3. unsent' \in BOOLEAN
    BY <1>2
  <2> QED
    BY <1>2, <1>5, <2>1, <2>2, <2>3 DEF IInv, StateFits
<1>8. NetFits'
  BY <1>2, <1>4 DEF IInv, NetFits, Fits, AnswerOf
<1>9. SessionFits'
  BY <1>2, <1>4, <1>5, <1>6 DEF IInv, StateFits, SessionFits, Fits
<1>10. ReadingFits' /\ ReadingIsOneSample' /\ DownHasCause'
  BY <1>2, <1>5 DEF IInv, ReadingFits, ReadingIsOneSample, DownHasCause
<1> QED
  BY <1>7, <1>8, <1>9, <1>10 DEF IInv

\* A datagram delivered, once or twice, leaves the others.
LEMMA DeliveredLeaves ==
  ASSUME StateFits, NEW d, Delivered(d)
  PROVE  net' \subseteq net /\ faults' \in Faults
  BY Bounds DEF Delivered, StateFits, Faults

LEMMA ReceiveStep ==
  ASSUME IInv, NEW d \in net, Receive(d)
  PROVE  IInv'
<1>1. /\ session # NULL /\ d.kind = "answer" /\ d.sock = session.sock
      /\ session' = NULL
      /\ UNCHANGED <<s, served, window, misses, unsent>>
  BY DEF Receive
<1>2. net' \subseteq net /\ faults' \in Faults
  BY DeliveredLeaves DEF Receive, IInv
<1>3. session \in Session /\ session.id \in RequestIds /\ served \in Served /\ window \subseteq Sample
  BY <1>1 DEF IInv, StateFits, Session
<1>4. PICK a \in window : d.bytes = AnswerOf(session.id, a)
  BY <1>1 DEF IInv, SessionFits, OnTheWay, Fits
<1>5. reading'.serviceUp = TRUE /\ IsReadingOf(reading', served, a) /\ ReadingTyped(reading')
  <2>1. a \in Sample
    BY <1>3
  <2>2. PICK binds :
          /\ ReadAnswer(d.bytes) = [id |-> session.id, binds |-> binds]
          /\ [v \in DOMAIN binds |-> binds[v][1]] = OIDS
          /\ Collected(binds).serviceUp = TRUE
          /\ IsReadingOf(Collected(binds), served, a)
          /\ ReadingTyped(Collected(binds))
    BY <1>3, <1>4, <2>1, AnswerRead
  <2>3. \E answer \in {ReadAnswer(d.bytes)} :
          reading' = IF [v \in DOMAIN answer.binds |-> answer.binds[v][1]] = OIDS
                       THEN Collected(answer.binds) ELSE Down
    BY DEF Receive
  <2>4. reading' = IF [v \in DOMAIN binds |-> binds[v][1]] = OIDS
                     THEN Collected(binds) ELSE Down
    BY <2>2, <2>3
  <2> QED
    BY <2>2, <2>4
<1>6. ReadingFits'
  BY <1>5 DEF ReadingFits
<1>7. reading' # Down
  BY <1>5 DEF Down
<1>8. StateFits' /\ NetFits'
  BY <1>1, <1>2 DEF IInv, StateFits, NetFits, Fits, AnswerOf
<1>9. SessionFits'
  BY <1>1 DEF SessionFits
<1>10. ReadingIsOneSample'
  BY <1>1, <1>5 DEF ReadingIsOneSample
<1>11. DownHasCause'
  BY <1>7 DEF DownHasCause
<1> QED
  BY <1>6, <1>8, <1>9, <1>10, <1>11 DEF IInv

\* A timeout counts a datagram that is still on the way as missed.
LEMMA TimerCounts ==
  ASSUME IInv, TimerFires
  PROVE  /\ session # NULL /\ faults' \in Faults /\ misses' \in 0 .. 2
         /\ misses' >= 1 /\ (session.retries = 0 => misses' = 2)
<1>1. session # NULL
  BY DEF TimerFires
<1>2. CASE OnTheWay = {}
  BY <1>1, <1>2 DEF TimerFires, IInv, SessionFits, StateFits
<1>3. CASE OnTheWay # {}
  <2>1. faults' \in Faults
    BY <1>3, Bounds DEF TimerFires, IInv, StateFits, Faults
  <2>2. misses \in 0 .. 2 /\ misses' = IF misses < 2 THEN misses + 1 ELSE 2
    BY <1>3 DEF TimerFires, Missed, IInv, StateFits
  <2>3. session.retries = 0 => misses >= 1
    BY <1>1 DEF IInv, SessionFits
  <2> QED
    BY <1>1, <2>1, <2>2, <2>3
<1> QED
  BY <1>2, <1>3

LEMMA TimeoutStep ==
  ASSUME IInv, Timeout
  PROVE  IInv'
<1>1. TimerFires /\ UNCHANGED <<s, served, window, unsent>>
  BY DEF Timeout
<1>2. /\ session # NULL /\ faults' \in Faults /\ misses' \in 0 .. 2
      /\ misses' >= 1 /\ (session.retries = 0 => misses' = 2)
  BY <1>1, TimerCounts
<1>3. /\ session \in Session /\ session.sock \in Sockets /\ session.id \in RequestIds
      /\ session.retries \in 0 .. 1
  BY <1>2 DEF IInv, StateFits, Session
<1>4. CASE session.retries = 0
  <2>1. session' = NULL /\ reading' = Down /\ UNCHANGED net
    BY <1>4 DEF Timeout
  <2>2. StateFits' /\ NetFits'
    BY <1>1, <1>2, <2>1 DEF IInv, StateFits, NetFits, Fits, AnswerOf
  <2> QED
    BY <1>2, <1>4, <2>1, <2>2
    DEF IInv, SessionFits, ReadingFits, ReadingIsOneSample, DownHasCause
<1>5. CASE session.retries > 0
  <2> DEFINE again == [session EXCEPT !.retries = @ - 1]
             request == Datagram("request", session.sock, 0, GetRequest(session.id))
  <2>1. session.retries = 1
    BY <1>3, <1>5
  <2>2. /\ again \in Session /\ again # NULL /\ again.sock = session.sock
        /\ again.id = session.id /\ again.retries = 0
    BY <1>3, <2>1, NullDiffers DEF Session
  <2>3. session' = again /\ net' = net \cup {request} /\ UNCHANGED reading
    <3>1. Send(again) /\ UNCHANGED reading
      BY <1>5, <2>1 DEF Timeout
    <3> HIDE DEF again
    <3> QED
      BY <2>2, <3>1 DEF Send
  <2>4. GetRequest(session.id) \in Seq(Byte)
    BY <1>3, CodecIsExact DEF CodecExact, IInv, StateFits
  <2>5. /\ request \in Datagrams /\ request.kind = "request" /\ request.sock = session.sock
        /\ request.bytes = GetRequest(session.id)
    BY <1>3, <2>4 DEF Datagram, Datagrams
  <2> HIDE DEF again, request
  <2>6. OnTheWay' = OnTheWay \cup {request}
    BY <1>2, <2>2, <2>3, <2>5 DEF OnTheWay
  <2>7. StateFits'
    BY <1>1, <1>2, <2>2, <2>3 DEF IInv, StateFits
  <2>8. NetFits'
    BY <1>1, <1>3, <2>3, <2>5 DEF IInv, NetFits, Fits, AnswerOf
  <2>9. SessionFits'
    BY <1>1, <1>2, <2>2, <2>3, <2>5, <2>6 DEF IInv, SessionFits, Fits, AnswerOf
  <2>10. ReadingFits' /\ ReadingIsOneSample' /\ DownHasCause'
    BY <2>2, <2>3 DEF IInv, ReadingFits, ReadingIsOneSample, DownHasCause
  <2> QED
    BY <2>7, <2>8, <2>9, <2>10 DEF IInv
<1> QED
  BY <1>3, <1>4, <1>5

\* An error of its own sending ends the session; the other datagrams stay.
LEMMA SendErrorStep ==
  ASSUME IInv, SendError
  PROVE  IInv'
<1>1. /\ session' = NULL /\ reading' = Down /\ unsent' = TRUE /\ net' \subseteq net
      /\ UNCHANGED <<s, served, window, misses>>
  BY DEF SendError
<1>2. faults' \in Faults
  BY Bounds DEF SendError, IInv, StateFits, Faults
<1>3. StateFits' /\ NetFits'
  BY <1>1, <1>2 DEF IInv, StateFits, NetFits, Fits, AnswerOf
<1> QED
  BY <1>1, <1>3
  DEF IInv, SessionFits, ReadingFits, ReadingIsOneSample, DownHasCause

\* A datagram of a closed socket is read by nobody.
LEMMA DiscardStep ==
  ASSUME IInv, NEW d \in net, Discard(d)
  PROVE  IInv'
<1>1. /\ d \notin OnTheWay /\ net' = net \ {d}
      /\ UNCHANGED <<s, served, session, reading, window, misses, unsent, faults>>
  BY DEF Discard
<1>2. session # NULL => OnTheWay' = OnTheWay
  BY <1>1 DEF OnTheWay
<1>3. StateFits' /\ NetFits'
  BY <1>1 DEF IInv, StateFits, NetFits, Fits, AnswerOf
<1>4. SessionFits'
  BY <1>1, <1>2 DEF IInv, SessionFits, Fits, AnswerOf
<1>5. ReadingIsOneSample'
  BY <1>1 DEF IInv, ReadingIsOneSample
<1> QED
  BY <1>1, <1>3, <1>4, <1>5 DEF IInv, ReadingFits, DownHasCause

-----------------------------------------------------------------------------
(* The steps of the agent and of the network.                              *)

LEMMA AnswerStep ==
  ASSUME IInv, NEW d \in net, Answer(d)
  PROVE  IInv'
<1> DEFINE response == Datagram("answer", d.sock, d.try, BuildResponse(served, ParsePacket(d.bytes), s))
<1>1. PICK id \in RequestIds : Fits(d, id, Sample)
  BY DEF IInv, NetFits
<1>2. /\ s # NULL /\ d.kind = "request" /\ UNCHANGED <<s, served, session, reading, window, misses, unsent>>
  BY DEF Answer
<1>3. /\ s \in Sample /\ served \in Served /\ d \in Datagrams /\ d.bytes = GetRequest(id)
  BY <1>1, <1>2 DEF IInv, StateFits, NetFits, Fits
<1>4. ParsePacket(d.bytes) # NotAGet
  BY <1>3, CodecIsExact DEF CodecExact
<1>5. net' \in {(net \ {d}) \cup {response}, net \cup {response}} /\ faults' \in Faults
  BY <1>4, Bounds DEF Answer, IInv, StateFits, Faults
<1>6. /\ response \in Datagrams /\ response.kind = "answer" /\ response.sock = d.sock
      /\ response.bytes = AnswerOf(id, s)
  <2>1. AnswerOf(id, s) \in Seq(Byte)
    BY <1>3, CodecIsExact DEF CodecExact, AnswerOf
  <2> QED
    BY <1>3, <2>1 DEF Datagram, Datagrams, AnswerOf
<1> HIDE DEF response
<1>7. StateFits'
  BY <1>2, <1>5 DEF IInv, StateFits
<1>8. NetFits'
  <2>1. \A e \in net' : e \in net \/ e = response
    BY <1>5
  <2>2. Fits(response, id, Sample)
    BY <1>3, <1>6 DEF Fits
  <2>3. \A e \in net' : e \in Datagrams /\ \E i \in RequestIds : Fits(e, i, Sample)
    BY <1>6, <2>1, <2>2 DEF IInv, NetFits
  <2> QED
    BY <1>2, <2>3 DEF NetFits, Fits, AnswerOf
<1>9. SessionFits'
  <2> SUFFICES ASSUME session # NULL PROVE SessionFits'
    BY <1>2 DEF SessionFits
  <2>1. CASE d \in OnTheWay
    <3>1. Fits(d, session.id, window) /\ s \in window
      BY <1>2, <2>1 DEF IInv, SessionFits
    <3>2. response.bytes = AnswerOf(session.id, s)
      BY <1>2, <1>3, <1>6, <3>1 DEF Fits, AnswerOf
    <3>3. Fits(response, session.id, window)
      BY <1>6, <3>1, <3>2 DEF Fits
    <3>4. OnTheWay' \subseteq OnTheWay \cup {response} /\ response \in OnTheWay'
      BY <1>2, <1>5, <1>6, <2>1 DEF OnTheWay
    <3>5. \A e \in OnTheWay' : Fits(e, session.id, window)
      BY <3>3, <3>4 DEF IInv, SessionFits
    <3> QED
      BY <1>2, <2>1, <3>4, <3>5 DEF IInv, SessionFits, Fits, AnswerOf
  <2>2. CASE d \notin OnTheWay
    <3>1. OnTheWay' = OnTheWay
      BY <1>2, <1>5, <1>6, <2>2 DEF OnTheWay
    <3> QED
      BY <1>2, <3>1 DEF IInv, SessionFits, Fits, AnswerOf
  <2> QED
    BY <2>1, <2>2
<1>10. ReadingIsOneSample'
  BY <1>2 DEF IInv, ReadingIsOneSample
<1> QED
  BY <1>2, <1>7, <1>8, <1>9, <1>10 DEF IInv, ReadingFits, DownHasCause

\* The simulation keeps to the ranges of its loads.
LEMMA GrownIsSample ==
  ASSUME NEW a \in Sample, NEW g \in Growths
  PROVE  Grown(a, g) \in Sample
<1>1. /\ a.uptimeTicks \in Counter /\ a.ifInOctets \in Counter /\ a.ifOutOctets \in Counter
      /\ a.memUsed \in MinMem .. MaxMem /\ a.cpuLoad \in 5 .. 95 /\ a.diskUsed \in 0 .. DiskSize - 1
  BY DEF Sample
<1>2. g.ifIn \in Nat /\ g.ifOut \in Nat /\ g.mem \in Int /\ g.cpu \in Int /\ g.disk \in Int
  BY SnmpAssumption
<1>3. ASSUME NEW w \in Counter, NEW n \in Nat PROVE Plus(w, n) \in Counter
  <2>1. PICK hi \in Nat, lo \in 0 .. Max16 : w = <<hi, lo>>
    BY DEF Counter
  <2>3. lo \in Nat
    BY LowPart
  <2>4. hi + (lo + n) \div 65536 \in Nat /\ (lo + n) % 65536 \in Nat /\ (lo + n) % 65536 < 65536
    BY <2>3
  <2>5. (lo + n) % 65536 \in 0 .. Max16
    BY <2>4, LowPart
  <2> QED
    BY <2>1, <2>4, <2>5 DEF Plus, Counter
<1>4. ASSUME NEW low \in Int, NEW high \in Int, low <= high, NEW n \in Int
      PROVE  Clamp(low, high, n) \in low .. high
  BY <1>4 DEF Clamp
<1>5. MinMem \in Int /\ MaxMem \in Int /\ MinMem <= MaxMem /\ DiskSize \in Int /\ 0 <= DiskSize - 1
  BY SMT DEF MinMem, MaxMem, DiskSize
<1>6. a.memUsed \in Int /\ a.cpuLoad \in Int /\ a.diskUsed \in Int
  BY <1>1, <1>5
<1>7. /\ Plus(a.uptimeTicks, 3000) \in Counter
      /\ Plus(a.ifInOctets, g.ifIn) \in Counter /\ Plus(a.ifOutOctets, g.ifOut) \in Counter
  <2>1. 3000 \in Nat
    BY SMT
  <2> QED
    BY <1>1, <1>2, <1>3, <2>1
<1>8. /\ a.memUsed + g.mem \in Int /\ a.cpuLoad + g.cpu \in Int /\ a.diskUsed + g.disk \in Int
  BY <1>2, <1>6
<1>9. /\ Clamp(MinMem, MaxMem, a.memUsed + g.mem) \in MinMem .. MaxMem
      /\ Clamp(5, 95, a.cpuLoad + g.cpu) \in 5 .. 95
      /\ Clamp(0, DiskSize - 1, a.diskUsed + g.disk) \in 0 .. DiskSize - 1
  <2>1. Clamp(MinMem, MaxMem, a.memUsed + g.mem) \in MinMem .. MaxMem
    BY <1>4, <1>5, <1>8
  <2>2. Clamp(5, 95, a.cpuLoad + g.cpu) \in 5 .. 95
    BY <1>8 DEF Clamp
  <2>3. DiskSize - 1 \in Int
    BY <1>5
  <2> DEFINE last == DiskSize - 1
             used == a.diskUsed + g.disk
  <2>4. Clamp(0, last, used) \in 0 .. last
    <3>1. last \in Int /\ used \in Int /\ 0 <= last
      BY <1>5, <1>8, <2>3
    <3> HIDE DEF last, used
    <3> QED
      BY <3>1 DEF Clamp
  <2> QED
    BY <2>1, <2>2, <2>4
<1> QED
  BY <1>7, <1>9 DEF Grown, Sample

\* The host has moved on, or it has begun anew; the session's window with it.
LEMMA HostStep ==
  ASSUME IInv,
         s' \in Sample, window' = IF session = NULL THEN window ELSE window \cup {s'},
         faults' \in Faults,
         UNCHANGED <<served, net, session, reading, misses, unsent>>
  PROVE  IInv'
<1>1. window \subseteq window' /\ window' \subseteq Sample /\ OnTheWay' = OnTheWay
  BY DEF IInv, StateFits, OnTheWay
<1>2. StateFits' /\ NetFits'
  BY <1>1 DEF IInv, StateFits, NetFits, Fits, AnswerOf
<1>3. SessionFits'
  BY <1>1 DEF IInv, SessionFits, Fits, AnswerOf
<1>4. ReadingIsOneSample'
  BY DEF IInv, ReadingIsOneSample
<1> QED
  BY <1>2, <1>3, <1>4 DEF IInv, ReadingFits, DownHasCause

LEMMA TickStep ==
  ASSUME IInv, NEW g \in Growths, Tick(g)
  PROVE  IInv'
<1>1. s \in Sample /\ faults \in Faults /\ faults.ticks < MaxTicks
  BY DEF Tick, IInv, StateFits
<1>2. s' \in Sample
  BY <1>1, GrownIsSample DEF Tick
<1>3. faults' \in Faults
  BY <1>1, Bounds DEF Tick, Faults
<1> QED
  BY <1>2, <1>3, HostStep DEF Tick

LEMMA StartStep ==
  ASSUME IInv, Start
  PROVE  IInv'
<1>1. s' \in Sample
  BY Bounds DEF Start
<1>2. faults' \in Faults
  BY DEF Start, IInv, StateFits
<1> QED
  BY <1>1, <1>2, HostStep DEF Start

LEMMA StopStep ==
  ASSUME IInv, Stop
  PROVE  IInv'
<1>1. s' = NULL /\ UNCHANGED <<served, net, session, reading, window, misses, unsent>>
  BY DEF Stop
<1>2. faults' \in Faults
  BY Bounds DEF Stop, IInv, StateFits, Faults
<1>3. StateFits' /\ NetFits'
  BY <1>1, <1>2 DEF IInv, StateFits, NetFits, Fits, AnswerOf
<1>4. SessionFits'
  BY <1>1 DEF IInv, SessionFits, Fits, AnswerOf, OnTheWay
<1>5. ReadingIsOneSample'
  BY <1>1 DEF IInv, ReadingIsOneSample
<1> QED
  BY <1>1, <1>3, <1>4, <1>5 DEF IInv, ReadingFits, DownHasCause

LEMMA LoseStep ==
  ASSUME IInv, NEW d \in net, Lose(d)
  PROVE  IInv'
<1>1. net' = net \ {d} /\ UNCHANGED <<s, served, session, reading, window, unsent>>
  BY DEF Lose
<1>2. faults' \in Faults
  BY Bounds DEF Lose, IInv, StateFits, Faults
<1>3. misses' \in 0 .. 2 /\ misses \in 0 .. 2
      /\ misses' = IF d \in OnTheWay /\ misses < 2 THEN misses + 1 ELSE misses
  BY DEF Lose, Missed, IInv, StateFits
<1>4. StateFits' /\ NetFits'
  BY <1>1, <1>2, <1>3 DEF IInv, StateFits, NetFits, Fits, AnswerOf
<1>5. SessionFits'
  <2> SUFFICES ASSUME session # NULL PROVE SessionFits'
    BY <1>1 DEF SessionFits
  <2>1. OnTheWay' = OnTheWay \ {d}
    BY <1>1 DEF OnTheWay
  <2>2. \A e \in OnTheWay' : Fits(e, session.id, window)
    BY <2>1 DEF IInv, SessionFits
  <2>3. s # NULL => s \in window
    BY DEF IInv, SessionFits
  <2>4. /\ OnTheWay' = {} \/ session.retries = 0 => misses' >= 1
        /\ OnTheWay' = {} /\ session.retries = 0 => misses' = 2
    <3>1. /\ OnTheWay = {} \/ session.retries = 0 => misses >= 1
          /\ OnTheWay = {} /\ session.retries = 0 => misses = 2
      BY DEF IInv, SessionFits
    <3>2. CASE d \in OnTheWay
      BY <1>3, <3>1, <3>2
    <3>3. CASE d \notin OnTheWay
      <4>1. OnTheWay' = OnTheWay /\ misses' = misses
        BY <1>3, <2>1, <3>3
      <4> QED
        BY <3>1, <4>1
    <3> QED
      BY <3>2, <3>3
  <2> QED
    BY <1>1, <2>2, <2>3, <2>4 DEF SessionFits, Fits, AnswerOf
<1>6. ReadingIsOneSample'
  BY <1>1 DEF IInv, ReadingIsOneSample
<1>7. DownHasCause'
  BY <1>1, <1>3 DEF IInv, DownHasCause, OnTheWay
<1> QED
  BY <1>1, <1>4, <1>5, <1>6, <1>7 DEF IInv, ReadingFits

-----------------------------------------------------------------------------
LEMMA Invariance == Spec => []IInv
<1>1. IInv /\ [Next]_vars => IInv'
  <2> SUFFICES ASSUME IInv, [Next]_vars PROVE IInv'
    OBVIOUS
  <2>1. CASE System
    BY <2>1, CollectStep, TimeoutStep, ReceiveStep, DiscardStep, AnswerStep, LoseStep DEF System
  <2>2. ASSUME NEW g \in Growths, Tick(g) PROVE IInv'
    BY <2>2, TickStep
  <2>3. CASE Stop
    BY <2>3, StopStep
  <2>4. CASE Start
    BY <2>4, StartStep
  <2>5. ASSUME NEW d \in net, Lose(d) PROVE IInv'
    BY <2>5, LoseStep
  <2>6. CASE SendError
    BY <2>6, SendErrorStep
  <2>7. CASE UNCHANGED vars
    <3>1. UNCHANGED <<s, served, net, session, reading, window, misses, unsent, faults>>
      BY <2>7 DEF vars
    <3>2. StateFits' /\ NetFits'
      BY <3>1 DEF IInv, StateFits, NetFits, Fits, AnswerOf
    <3>3. SessionFits'
      BY <3>1 DEF IInv, SessionFits, Fits, AnswerOf, OnTheWay
    <3>4. ReadingIsOneSample'
      BY <3>1 DEF IInv, ReadingIsOneSample
    <3> QED
      BY <3>1, <3>2, <3>3, <3>4 DEF IInv, ReadingFits, DownHasCause
  <2> QED
    BY <2>1, <2>2, <2>3, <2>4, <2>5, <2>6, <2>7 DEF Next
<1> QED
  BY <1>1, InitIInv, PTL DEF Spec

\* The simulated host, the session, what is on the way and the reading keep to
\* their types and ranges.
THEOREM TypeCorrect == Spec => []TypeOK
<1>1. IInv => TypeOK
  BY DEF IInv, StateFits, NetFits, ReadingFits, ReadingTyped, TypeOK, Datagrams, Faults
<1> QED
  BY <1>1, Invariance, PTL

\* For any host, any number of sockets and any faults of the network: what a
\* collect returns is the reading of one moment of the host within it.
THEOREM ReadsOneSample == Spec => []ReadingIsOneSample
<1>1. IInv => ReadingIsOneSample
  BY DEF IInv
<1> QED
  BY <1>1, Invariance, PTL

\* A host is reported down only after two datagrams were lost or late, or after a
\* request could not be sent.
THEOREM DownOnlyWithCause == Spec => []DownHasCause
<1>1. IInv => DownHasCause
  BY DEF IInv
<1> QED
  BY <1>1, Invariance, PTL
=============================================================================
