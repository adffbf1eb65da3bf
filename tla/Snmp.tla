-------------------------------- MODULE Snmp --------------------------------
(***************************************************************************)
(* A collector reads a host over SNMP: collect of the Node collector       *)
(* (node_collector/src/collector/snmpCollector.js), the agent that answers *)
(* (snmp_mock/agent.js), and the network between them, which may lose,     *)
(* delay, duplicate and reorder datagrams.  The manager libraries (net-snmp*)
(* and gosnmp) are external: standard BER, one socket per session, one     *)
(* retry.                                                                  *)
(***************************************************************************)
EXTENDS Ber, FiniteSets

CONSTANTS
  NULL,
  Fresh,       \* states that the agent's simulation may start from
  Running,     \* states it is in when we begin to look
  Growths,     \* what one tick of the simulation may add
  RequestIds,  \* encoded request ids: 32-bit integers
  Served,      \* the sets of OIDs a host may know; the mock agent knows all
  Sockets,     \* bound: sockets of sessions, open or with datagrams on the way
  MaxTicks,    \* bound: ticks of the simulation
  MaxStops,    \* bound: stops of the agent
  MaxLost,     \* bound: datagrams lost on the way
  MaxSlow,     \* bound: timeouts that precede an answer still on the way
  MaxDups,     \* bound: datagrams delivered twice
  MaxErrors    \* bound: requests that cannot be sent

VARIABLES
  s,         \* the agent's simulated state; NULL while the agent is stopped
  served,    \* the OIDs the host knows
  net,       \* datagrams on their way
  session,   \* the collector's session, NULL when no collect is running
  reading,   \* what collect last resolved to
  window,    \* the states of the agent since the last collect began
  misses,    \* datagrams lost or late since then, as far as two
  unsent,    \* whether a request of that collect could not be sent
  faults     \* how many faults of each kind have happened

vars == <<s, served, net, session, reading, window, misses, unsent, faults>>

-----------------------------------------------------------------------------
(* The agent's simulation.                                                 *)

MemTotal == 4096
MinMem == 512
MaxMem == 3800
DiskSize == 100
DiskAlloc == 1073741824
MemAlloc == 1048576

\* A word whose low part has its 16 bits, and the largest number of 20.
Max16 == 65535
Max20 == 1048575
Counter == Nat \X (0 .. Max16)

Sample == [uptimeTicks : Counter, ifInOctets : Counter, ifOutOctets : Counter,
           memUsed : MinMem .. MaxMem, cpuLoad : 5 .. 95, diskUsed : 0 .. DiskSize - 1]

Clamp(low, high, n) == IF n < low THEN low ELSE IF n > high THEN high ELSE n

\* Mutant of Grown: the used disk may reach the size and more.
GrownUnlimited(a, g) ==
  [uptimeTicks |-> Plus(a.uptimeTicks, 3000),
   ifInOctets  |-> Plus(a.ifInOctets, g.ifIn),
   ifOutOctets |-> Plus(a.ifOutOctets, g.ifOut),
   memUsed     |-> a.memUsed + g.mem,
   cpuLoad     |-> a.cpuLoad + g.cpu,
   diskUsed    |-> a.diskUsed + g.disk]

\* One run of the agent's interval.
Grown(a, g) ==
  [uptimeTicks |-> Plus(a.uptimeTicks, 3000),
   ifInOctets  |-> Plus(a.ifInOctets, g.ifIn),
   ifOutOctets |-> Plus(a.ifOutOctets, g.ifOut),
   memUsed     |-> Clamp(MinMem, MaxMem, a.memUsed + g.mem),
   cpuLoad     |-> Clamp(5, 95, a.cpuLoad + g.cpu),
   diskUsed    |-> Clamp(0, DiskSize - 1, a.diskUsed + g.disk)]

Mib2 == <<1, 3, 6, 1, 2, 1>>

sysUptime      == Mib2 \o <<1, 3, 0>>
ifInOctets     == Mib2 \o <<2, 2, 1, 10, 1>>
ifOutOctets    == Mib2 \o <<2, 2, 1, 16, 1>>
hrStorageUsed  == Mib2 \o <<25, 2, 3, 1, 6, 1>>
hrStorageSize  == Mib2 \o <<25, 2, 3, 1, 5, 1>>
hrStorageAlloc == Mib2 \o <<25, 2, 3, 1, 4, 1>>
hrMemUsed      == Mib2 \o <<25, 2, 3, 1, 6, 2>>
hrMemTotal     == Mib2 \o <<25, 2, 3, 1, 5, 2>>
hrMemAllocUnit == Mib2 \o <<25, 2, 3, 1, 4, 2>>
hrCpuLoad      == Mib2 \o <<25, 3, 3, 1, 2, 1>>

\* In the order in which the collectors ask for them.
OIDS == <<sysUptime, ifInOctets, ifOutOctets, hrStorageUsed, hrStorageSize,
          hrStorageAlloc, hrMemUsed, hrMemTotal, hrMemAllocUnit, hrCpuLoad>>

EncTimeTicks(w) == EncUnsigned(67, w)
EncCounter32(w) == EncUnsigned(65, w)
EncGauge32(w) == EncUnsigned(66, w)

\* OID_VALUES[oid]() of a host that knows some OIDs, and the NULL of buildResponse
\* for any other OID.
OID_VALUES(known, oid, a) ==
  IF oid \notin known THEN Tlv(5, <<>>) ELSE
  CASE oid = sysUptime        -> EncTimeTicks(a.uptimeTicks)
    [] oid = ifInOctets       -> EncCounter32(a.ifInOctets)
    [] oid = ifOutOctets      -> EncCounter32(a.ifOutOctets)
    [] oid = hrStorageUsed    -> EncGauge32(Word(a.diskUsed))
    [] oid = hrStorageSize    -> EncGauge32(Word(DiskSize))
    [] oid = hrStorageAlloc   -> EncInt(DiskAlloc)
    [] oid = hrMemUsed        -> EncGauge32(Word(a.memUsed))
    [] oid = hrMemTotal       -> EncGauge32(Word(MemTotal))
    [] oid = hrMemAllocUnit   -> EncInt(MemAlloc)
    [] oid = hrCpuLoad        -> EncGauge32(Word(a.cpuLoad))

BuildResponse(known, parsed, a) ==
  LET varbinds == [v \in DOMAIN parsed.oids |->
                     Tlv(48, EncOID(parsed.oids[v]) \o OID_VALUES(known, parsed.oids[v], a))]
      pduContent == Tlv(2, parsed.reqIdBytes) \o EncInt(0) \o EncInt(0)
                    \o Tlv(48, FlattenSeq(varbinds))
  IN  Tlv(48, Tlv(2, parsed.version) \o Tlv(4, parsed.community)
              \o Tlv(162, pduContent))

-----------------------------------------------------------------------------
(* The manager library: how a request is encoded, how an answer is read.   *)

\* The standard's type, length and value, with a length of any size.
Item(tag, value) ==
  LET bytes == Significant(UInt32BE(Word(Len(value)))) IN
  <<tag>> \o (IF Len(value) < 128 THEN <<Len(value)>> ELSE <<128 + Len(bytes)>> \o bytes)
          \o value

GetRequest(id) ==
  LET varbind(oid) == Item(48, EncOID(oid) \o Item(5, <<>>)) IN
  Item(48, Item(2, <<1>>) \o Item(4, <<112, 117, 98>>)
           \o Item(160, Item(2, id) \o Item(2, <<0>>) \o Item(2, <<0>>)
                        \o Item(48, FlattenSeq([v \in DOMAIN OIDS |-> varbind(OIDS[v])]))))

\* The number that two's complement bytes stand for, as a word.
Number(bytes) ==
  LET n == Len(bytes)
      signed == [bytes EXCEPT ![1] = IF @ >= 128 THEN @ - 256 ELSE @]
  IN  IF n <= 2 THEN <<BigEndian(signed) \div 65536, BigEndian(signed) % 65536>>
      ELSE <<BigEndian(SubSeq(signed, 1, n - 2)), BigEndian(SubSeq(bytes, n - 1, n))>>

\* An OID and its value.
ReadBind(b) ==
  LET value == ReadTLV(b, After(b, 1)) IN
  <<ParseOID(ReadTLV(b, 1).value), IF value.tag = 5 THEN NULL ELSE Number(value.value)>>

\* The request id, and the OIDs with their values, of an answer.
ReadAnswer(pkt) ==
  LET outer == ReadTLV(pkt, 1).value
      pdu == ReadTLV(outer, After(outer, After(outer, 1))).value
      list == ReadAll(ReadTLV(pdu, After(pdu, After(pdu, After(pdu, 1)))).value)
  IN  [id    |-> ReadTLV(pdu, 1).value,
       binds |-> [v \in 1 .. Len(list) |-> ReadBind(list[v].value)]]

-----------------------------------------------------------------------------
(* What collect makes of an answer.                                        *)

Down == [serviceUp |-> FALSE]

\* A value below 2^31 as a number.
ToInt(w) == 65536 * w[1] + w[2]

\* floor(w / 100)
Hundredth(w) == (w[1] \div 100) * 65536 + ((w[1] % 100) * 65536 + w[2]) \div 100

\* floor(units * alloc / 2^20)
MB(units, alloc) ==
  (units * (alloc \div 1024) + (units * (alloc % 1024)) \div 1024) \div 1024

\* vals[oid] ?? 0
Got(binds, oid) ==
  LET found == {b \in Range(binds) : b[1] = oid /\ b[2] # NULL} IN
  IF found = {} THEN <<0, 0>> ELSE (CHOOSE b \in found : TRUE)[2]

\* Mutant of InMB: the octets are taken for kilobytes.
InKB(w) == <<64 * w[1] + w[2] \div 1024, w[2] % 1024>>

\* w / 2^20 as a mixed number: the whole part, and what is left in 2^20ths.
InMB(w) == <<w[1] \div 16, (w[1] % 16) * 65536 + w[2]>>

\* Mutant of Percent: the part of the whole.
Share(part, whole) == <<part, whole>>

\* (part / whole) * 100 as a fraction: numerator and denominator.
Percent(part, whole) == <<100 * part, whole>>

\* The quotients as exact numbers: the rounding of doubles is left out.
Collected(binds) ==
  LET get(oid) == Got(binds, oid)
      memUsed == ToInt(get(hrMemUsed))     memTotal == ToInt(get(hrMemTotal))
      memAlloc == ToInt(get(hrMemAllocUnit))
      storUsed == ToInt(get(hrStorageUsed))  storSize == ToInt(get(hrStorageSize))
      storAlloc == ToInt(get(hrStorageAlloc))
      ram(units) == IF memAlloc > 0 THEN MB(units, memAlloc)
                    ELSE IF memUsed > 0 THEN units \div 1024 ELSE 0
  IN  [serviceUp        |-> TRUE,
       uptimeSeconds    |-> Hundredth(get(sysUptime)),
       bandwidthInMB    |-> InMB(get(ifInOctets)),
       bandwidthOutMB   |-> InMB(get(ifOutOctets)),
       cpuUsagePercent  |-> ToInt(get(hrCpuLoad)),
       ramUsageMB       |-> ram(memUsed),
       ramTotalMB       |-> ram(memTotal),
       diskUsagePercent |-> IF storSize > 0 /\ storAlloc > 0
                              THEN Percent(storUsed, storSize) ELSE <<0, 1>>]

-----------------------------------------------------------------------------
Session == [sock : Sockets, id : RequestIds, retries : 0 .. 1]

ASSUME SnmpAssumption ==
  /\ Fresh \subseteq Sample /\ Running \subseteq Sample
  /\ \A id \in RequestIds : id \in Seq(Byte) /\ Len(id) <= 4
  /\ Growths \subseteq [ifIn : Nat, ifOut : Nat, mem : Int, cpu : Int, disk : Int]
  /\ MaxTicks \in Nat /\ MaxStops \in Nat
  /\ MaxLost \in Nat /\ MaxSlow \in Nat /\ MaxDups \in Nat /\ MaxErrors \in Nat
  /\ NULL \notin Sample /\ NULL \notin Session /\ NULL \notin Counter /\ NULL # Down

Datagram(kind, sock, try, bytes) ==
  [kind |-> kind, sock |-> sock, try |-> try, bytes |-> bytes]

\* The session sends its request, for the first time or again.
Send(sn) ==
  /\ session' = sn
  /\ \E request \in {Datagram("request", sn.sock, sn.retries, GetRequest(sn.id))} :
       net' = net \cup {request}

\* The datagrams that matter to the running collect.
OnTheWay == IF session = NULL THEN {} ELSE {d \in net : d.sock = session.sock}

TypeOK ==
  /\ s \in Sample \cup {NULL}
  /\ served \in Served
  /\ \A d \in net : d \in [kind : {"request", "answer"}, sock : Sockets, try : 0 .. 1,
                         bytes : Seq(Byte)]
  /\ session \in Session \cup {NULL}
  /\ \/ reading \in {NULL, Down}
     \/ /\ reading.uptimeSeconds \in Nat
        /\ {reading.bandwidthInMB, reading.bandwidthOutMB} \subseteq Nat \X (0 .. Max20)
        /\ reading.cpuUsagePercent \in 0 .. 100
        /\ reading.ramUsageMB \in 0 .. MemTotal /\ reading.ramTotalMB \in 0 .. MemTotal
        /\ 0 <= reading.diskUsagePercent[1]
        /\ reading.diskUsagePercent[1] < 100 * reading.diskUsagePercent[2]
  /\ window \subseteq Sample
  /\ misses \in 0 .. 2
  /\ unsent \in BOOLEAN
  /\ faults \in [ticks : 0 .. MaxTicks, stops : 0 .. MaxStops, lost : 0 .. MaxLost,
                 slow : 0 .. MaxSlow, dups : 0 .. MaxDups, errors : 0 .. MaxErrors]

Init ==
  /\ s \in Running
  /\ served \in Served
  /\ net = {}
  /\ session = NULL
  /\ reading = NULL
  /\ window = {}
  /\ misses = 0
  /\ unsent = FALSE
  /\ faults = [ticks |-> 0, stops |-> 0, lost |-> 0, slow |-> 0, dups |-> 0, errors |-> 0]

-----------------------------------------------------------------------------
(* The collector.                                                          *)

FreeSockets == Sockets \ {d.sock : d \in net}

\* A session of its own for each call; the request is sent.
Collect(id) ==
  /\ session = NULL
  /\ FreeSockets # {}
  /\ Send([sock |-> CHOOSE sock \in FreeSockets : TRUE, id |-> id, retries |-> 1])
  /\ window' = {s} \ {NULL}
  /\ misses' = 0
  /\ unsent' = FALSE
  /\ UNCHANGED <<s, served, reading, faults>>

\* The datagram is taken off the network, or a copy of it is left there.
Delivered(d) ==
  \/ net' = net \ {d} /\ UNCHANGED faults
  \/ /\ faults.dups < MaxDups
     /\ faults' = [faults EXCEPT !.dups = @ + 1]
     /\ UNCHANGED net

\* Mutant of Receive: one socket for all sessions.
ReceiveOnOneSocket(d) ==
  /\ session # NULL /\ d.kind = "answer"
  /\ Delivered(d)
  /\ \E answer \in {ReadAnswer(d.bytes)} :
     answer.id = session.id /\ reading' = Collected(answer.binds)
  /\ session' = NULL
  /\ UNCHANGED <<s, served, window, misses, unsent>>

\* session.get's callback: the session is closed, and collect resolves.
Receive(d) ==
  /\ session # NULL /\ d.kind = "answer" /\ d.sock = session.sock
  /\ Delivered(d)
  /\ \E answer \in {ReadAnswer(d.bytes)} :
     /\ answer.id = session.id
     /\ reading' = IF [v \in DOMAIN answer.binds |-> answer.binds[v][1]] = OIDS
                     THEN Collected(answer.binds) ELSE Down
  /\ session' = NULL
  /\ UNCHANGED <<s, served, window, misses, unsent>>

Missed == misses' = IF misses < 2 THEN misses + 1 ELSE 2

\* Five seconds have passed; a datagram still on the way is late.
TimerFires ==
  /\ session # NULL
  /\ IF OnTheWay = {} THEN UNCHANGED <<faults, misses>>
     ELSE /\ faults.slow < MaxSlow
          /\ faults' = [faults EXCEPT !.slow = @ + 1]
          /\ Missed

\* Mutant of Timeout: no retry.
TimeoutGivesUp ==
  /\ TimerFires
  /\ session' = NULL /\ reading' = Down
  /\ UNCHANGED <<s, served, net, window, unsent>>

\* Mutant of Timeout: every timeout is followed by another request.
TimeoutResends ==
  /\ TimerFires
  /\ Send(session)
  /\ UNCHANGED <<s, served, reading, window, unsent>>

\* The one retry, or the callback's error.
Timeout ==
  /\ TimerFires
  /\ \/ /\ session.retries > 0
        /\ Send([session EXCEPT !.retries = @ - 1])
        /\ UNCHANGED reading
     \/ /\ session.retries = 0
        /\ session' = NULL
        /\ reading' = Down
        /\ UNCHANGED net
  /\ UNCHANGED <<s, served, window, unsent>>

\* The session's newest request cannot be sent: no name server knows the host, or
\* the socket fails.  The callback has its error at once, without a retry.
SendError ==
  /\ session # NULL /\ faults.errors < MaxErrors
  /\ \E d \in OnTheWay :
       d.kind = "request" /\ d.try = session.retries /\ net' = net \ {d}
  /\ session' = NULL
  /\ reading' = Down
  /\ unsent' = TRUE
  /\ faults' = [faults EXCEPT !.errors = @ + 1]
  /\ UNCHANGED <<s, served, window, misses>>

\* An answer to a socket that has been closed.
Discard(d) ==
  /\ d.kind = "answer" /\ d \notin OnTheWay
  /\ net' = net \ {d}
  /\ UNCHANGED <<s, served, session, reading, window, misses, unsent, faults>>

-----------------------------------------------------------------------------
(* The agent.                                                              *)

\* Mutant of Answer: what is not a GET is answered, a GET is not.
AnswerNotAGet(d) ==
  /\ s # NULL /\ d.kind = "request"
  /\ \E parsed \in {ParsePacket(d.bytes)} :
     \E response \in
       {IF parsed # NotAGet THEN {}
        ELSE {Datagram("answer", d.sock, d.try, BuildResponse(served, parsed, s))}} :
          net' = (net \ {d}) \cup response
  /\ UNCHANGED <<s, served, session, reading, window, misses, unsent, faults>>

\* Its 'message' handler; what is not a GET is ignored.
Answer(d) ==
  /\ s # NULL /\ d.kind = "request"
  /\ \E parsed \in {ParsePacket(d.bytes)} :
     \E response \in
       {IF parsed = NotAGet THEN {}
        ELSE {Datagram("answer", d.sock, d.try, BuildResponse(served, parsed, s))}} :
          \/ net' = (net \ {d}) \cup response /\ UNCHANGED faults
          \/ /\ faults.dups < MaxDups
             /\ faults' = [faults EXCEPT !.dups = @ + 1]
             /\ net' = net \cup response
  /\ UNCHANGED <<s, served, session, reading, window, misses, unsent>>

Tick(g) ==
  /\ s # NULL /\ faults.ticks < MaxTicks
  /\ s' = Grown(s, g)
  /\ window' = IF session = NULL THEN window ELSE window \cup {s'}
  /\ faults' = [faults EXCEPT !.ticks = @ + 1]
  /\ UNCHANGED <<served, net, session, reading, misses, unsent>>

Stop ==
  /\ s # NULL /\ faults.stops < MaxStops
  /\ s' = NULL
  /\ faults' = [faults EXCEPT !.stops = @ + 1]
  /\ UNCHANGED <<served, net, session, reading, window, misses, unsent>>

\* The simulated state begins anew.
Start ==
  /\ s = NULL
  /\ s' \in Fresh
  /\ window' = IF session = NULL THEN window ELSE window \cup {s'}
  /\ UNCHANGED <<served, net, session, reading, misses, unsent, faults>>

\* A datagram is lost on the way, or arrives at a host without an agent.
Lose(d) ==
  /\ \/ /\ faults.lost < MaxLost
        /\ faults' = [faults EXCEPT !.lost = @ + 1]
     \/ s = NULL /\ d.kind = "request" /\ UNCHANGED faults
  /\ net' = net \ {d}
  /\ IF d \in OnTheWay THEN Missed ELSE UNCHANGED misses
  /\ UNCHANGED <<s, served, session, reading, window, unsent>>

-----------------------------------------------------------------------------
System ==
  \/ \E id \in RequestIds : Collect(id)
  \/ Timeout
  \/ \E d \in net : Receive(d) \/ Discard(d) \/ Answer(d) \/ (s = NULL /\ Lose(d))

Next ==
  \/ System
  \/ \E g \in Growths : Tick(g)
  \/ Stop \/ Start
  \/ SendError
  \/ \E d \in net : Lose(d)

Spec == Init /\ [][Next]_vars

\* The steps of Next that are System's: the others change s, lose something or
\* fail to send it.
BySystem == s' = s /\ faults'.lost = faults.lost /\ faults'.errors = faults.errors

\* Timers fire, datagrams that are not lost arrive, polls are repeated; the
\* agent need not be started again.  System is always enabled, so this is
\* WF_vars(System) without ENABLED, for which TLC would encode and parse anew.
FairSpec == Spec /\ []<><<BySystem>>_vars

-----------------------------------------------------------------------------
(* Properties.                                                             *)

\* What the host means its OID to stand for: a number of 32 bits, or nothing.
Word32(w) == <<w[1] % 65536, w[2]>>

Meant(known, oid, a) ==
  IF oid \notin known THEN NULL ELSE
  CASE oid = sysUptime       -> Word32(a.uptimeTicks)
    [] oid = ifInOctets      -> Word32(a.ifInOctets)
    [] oid = ifOutOctets     -> Word32(a.ifOutOctets)
    [] oid = hrStorageUsed   -> Word(a.diskUsed)
    [] oid = hrStorageSize   -> Word(DiskSize)
    [] oid = hrStorageAlloc  -> Word(DiskAlloc)
    [] oid = hrMemUsed       -> Word(a.memUsed)
    [] oid = hrMemTotal      -> Word(MemTotal)
    [] oid = hrMemAllocUnit  -> Word(MemAlloc)
    [] oid = hrCpuLoad       -> Word(a.cpuLoad)

\* No value is changed on its way through the encoders and the parsers.
CodecExact(samples) ==
  \A id \in RequestIds, known \in Served :
    LET parsed == ParsePacket(GetRequest(id)) IN
    /\ GetRequest(id) \in Seq(Byte)
    /\ parsed # NotAGet /\ parsed.oids = OIDS
    /\ \A a \in samples : LET answer == BuildResponse(known, parsed, a) IN
         /\ answer \in Seq(Byte)
         /\ ReadAnswer(answer) =
              [id    |-> id,
               binds |-> [v \in DOMAIN OIDS |-> <<OIDS[v], Meant(known, OIDS[v], a)>>]]

\* The octets that a mixed number of megabytes stands for, as a word.
Octets(mb) == Plus(<<16 * mb[1], 0>>, mb[2])

\* The hundredths in n seconds and some more, as a word.
Ticks(n, more) == Plus(<<100 * (n \div 65536), 0>>, 100 * (n % 65536) + more)

\* r gives in its own units what a moment of the host says; what the host does not
\* know counts as 0, units of memory it does not tell as 1 KiB.
IsReadingOf(r, known, a) ==
  LET word(oid, w) == IF oid \in known THEN w ELSE <<0, 0>>
      number(oid, n) == IF oid \in known THEN n ELSE 0
      megabytes(n) == IF hrMemAllocUnit \in known THEN n
                      ELSE IF hrMemUsed \in known THEN n \div 1024 ELSE 0
      percent == r.diskUsagePercent
  IN  /\ r.serviceUp
      /\ \E more \in 0 .. 99 :
           Ticks(r.uptimeSeconds, more) = word(sysUptime, Word32(a.uptimeTicks))
      /\ Octets(r.bandwidthInMB) = word(ifInOctets, Word32(a.ifInOctets))
      /\ Octets(r.bandwidthOutMB) = word(ifOutOctets, Word32(a.ifOutOctets))
      /\ r.cpuUsagePercent = number(hrCpuLoad, a.cpuLoad)
      /\ r.ramUsageMB = megabytes(number(hrMemUsed, a.memUsed))
      /\ r.ramTotalMB = megabytes(number(hrMemTotal, MemTotal))
      /\ IF {hrStorageSize, hrStorageAlloc} \subseteq known
           THEN percent[1] * DiskSize = 100 * number(hrStorageUsed, a.diskUsed) * percent[2]
           ELSE percent[1] = 0

\* What collect returns is the reading of one moment of the host within the
\* collect: nothing is mixed from two moments or left over from an earlier
\* collect, BER changes no value, and the conversion of units neither loses nor
\* doubles a factor.  The time and the octets are those of their 32 bits.
ReadingIsOneSample ==
  session = NULL /\ reading \notin {NULL, Down} =>
    \E a \in window : IsReadingOf(reading, served, a)

\* One lost or late datagram is not an outage: a collect that reports the host
\* down has missed two of them, or could not send a request of its own.
DownHasCause == session = NULL /\ reading = Down => misses = 2 \/ unsent

\* No collect waits for ever, whatever happens to host and network.
CollectEnds == session # NULL ~> session = NULL

\* Once the host stays up the collector reports it up, and keeps doing so.
UpAgain == <>[](s # NULL) => <>[](reading \notin {NULL, Down})
=============================================================================
