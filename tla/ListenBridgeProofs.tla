------------------------- MODULE ListenBridgeProofs -------------------------
(***************************************************************************)
(* The bridge never stops and never listens twice, and what it broadcasts  *)
(* is in the order of the table, for any number of rows, breaks and        *)
(* refused connections.                                                    *)
(***************************************************************************)
EXTENDS ListenBridge, FiniteSetTheorems, TLAPS

Ids == 1 .. Len(clients)

\* Only the last client handed out can still act, and a client whose LISTEN
\* was refused waits for the timer that drops it.
ClientsFit ==
  \A c \in Ids :
    /\ clients[c].phase \in {"setup", "ready", "failed"} => c = current
    /\ clients[c].phase = "failed" => timers = 1
    /\ clients[c].phase = "setup" => clients[c].listens < Len(Channels)

Busy == current # NULL /\ clients[current].phase \in {"setup", "ready"}

OneThing ==
  \/ timers = 1 /\ connecting = 0 /\ ~Busy
  \/ timers = 0 /\ connecting = 1 /\ ~Busy
  \/ timers = 0 /\ connecting = 0 /\ Busy

ActivityInv == TypeOK /\ ClientsFit /\ OneThing

-----------------------------------------------------------------------------
LEMMA InitActivity == Init => ActivityInv
  BY BridgeAssumption
  DEF Init, ActivityInv, TypeOK, ClientsFit, OneThing, Busy, Ids

FaultsOK == faults \in [breaks : 0 .. MaxBreaks, refusals : 0 .. MaxRefusals]

LEMMA RefuseStep ==
  ASSUME FaultsOK, Refuse
  PROVE  FaultsOK'
  BY BridgeAssumption DEF FaultsOK, Refuse

\* What replacing the entry of one client leaves of the others.
LEMMA OneClient ==
  ASSUME clients \in Seq(Client), NEW c \in Ids, NEW d \in Client,
         clients' = [clients EXCEPT ![c] = d]
  PROVE  /\ clients' \in Seq(Client)
         /\ Len(clients') = Len(clients) /\ Ids' = Ids
         /\ clients'[c] = d
         /\ \A b \in Ids \ {c} : clients'[b] = clients[b]
  BY DEF Ids

LEMMA TimerFiresActivity ==
  ASSUME ActivityInv, TimerFires
  PROVE  ActivityInv'
<1>1. timers = 1 /\ connecting = 0 /\ ~Busy /\ timers' = 0 /\ connecting' = 1 /\ current' = NULL
  BY DEF ActivityInv, OneThing, TypeOK, TimerFires
<1>2. /\ clients' \in Seq(Client) /\ Len(clients') = Len(clients)
      /\ \A c \in Ids : clients'[c].phase \notin {"setup", "ready", "failed"}
  <2>1. CASE current = NULL
    BY <2>1, BridgeAssumption DEF ActivityInv, TypeOK, ClientsFit, TimerFires, Ids
  <2>2. CASE current # NULL
    <3> DEFINE d == [clients[current] EXCEPT !.phase = "released"]
    <3>1. current \in Ids /\ clients[current] \in Client
      BY <2>2 DEF ActivityInv, TypeOK, Ids
    <3>2. d \in Client /\ d.phase = "released"
      BY <3>1 DEF Client, Phase
    <3>3. clients' = [clients EXCEPT ![current] = d]
      BY <2>2, <3>1 DEF TimerFires
    <3> HIDE DEF d
    <3>4. /\ clients' \in Seq(Client) /\ Len(clients') = Len(clients)
          /\ clients'[current] = d
          /\ \A b \in Ids \ {current} : clients'[b] = clients[b]
      BY <3>1, <3>2, <3>3, OneClient DEF ActivityInv, TypeOK
    <3> QED
      BY <3>2, <3>4 DEF ActivityInv, ClientsFit
  <2> QED
    BY <2>1, <2>2
<1>3. TypeOK'
  BY <1>1, <1>2 DEF ActivityInv, TypeOK, TimerFires
<1> QED
  BY <1>1, <1>2, <1>3 DEF ActivityInv, ClientsFit, OneThing, Busy, Ids

LEMMA ConnectedActivity ==
  ASSUME ActivityInv, Connected
  PROVE  ActivityInv'
<1> DEFINE d == [phase |-> "setup", alive |-> TRUE, listens |-> 0, wire |-> <<>>]
           n == Len(clients) + 1
<1>1. timers = 0 /\ connecting = 1 /\ ~Busy /\ timers' = 0 /\ connecting' = 0
  BY DEF ActivityInv, OneThing, TypeOK, Connected
<1>2. d \in Client /\ d.phase = "setup" /\ d.listens < Len(Channels)
  BY BridgeAssumption DEF Client, Phase
<1>3. clients' = Append(clients, d) /\ current' = n
  BY DEF Connected
<1> HIDE DEF d
<1>4. /\ clients' \in Seq(Client) /\ Len(clients') = n /\ n \in Nat
      /\ clients'[n] = d
      /\ \A c \in Ids : clients'[c] = clients[c]
  BY <1>2, <1>3 DEF ActivityInv, TypeOK, Ids
<1>5. \A c \in Ids : clients'[c].phase \notin {"setup", "ready", "failed"}
  <2> SUFFICES ASSUME NEW c \in Ids
               PROVE  clients[c].phase \notin {"setup", "ready", "failed"}
    BY <1>4
  <2>1. c # NULL
    BY BridgeAssumption DEF Ids
  <2> QED
    BY <1>1, <2>1 DEF ActivityInv, ClientsFit, Busy
<1>6. Ids' = Ids \cup {n} /\ n \in Ids' /\ n # NULL
  BY <1>4, BridgeAssumption DEF ActivityInv, TypeOK, Ids
<1>7. TypeOK'
  BY <1>1, <1>3, <1>4, <1>6 DEF ActivityInv, TypeOK, Connected, Ids
<1> HIDE DEF n
<1> QED
  BY <1>1, <1>2, <1>3, <1>4, <1>5, <1>6, <1>7 DEF ActivityInv, ClientsFit, OneThing, Busy

LEMMA ConnectRefusedActivity ==
  ASSUME ActivityInv, ConnectRefused
  PROVE  ActivityInv'
<1>1. timers = 0 /\ connecting = 1 /\ ~Busy /\ timers' = 1 /\ connecting' = 0
  BY DEF ActivityInv, OneThing, TypeOK, ConnectRefused, Scheduled
<1>2. TypeOK'
  BY <1>1, RefuseStep DEF ActivityInv, TypeOK, ConnectRefused, FaultsOK
<1> QED
  BY <1>1, <1>2 DEF ActivityInv, ClientsFit, OneThing, Busy, ConnectRefused, Ids

LEMMA ListenedActivity ==
  ASSUME ActivityInv, NEW c \in Ids, Listened(c)
  PROVE  ActivityInv'
<1> DEFINE phase == IF clients[c].listens + 1 = Len(Channels) THEN "ready" ELSE "setup"
           d == [clients[c] EXCEPT !.listens = @ + 1, !.phase = phase]
<1>1. clients[c] \in Client /\ clients[c].phase = "setup" /\ c = current /\ c # NULL
  BY BridgeAssumption DEF ActivityInv, TypeOK, ClientsFit, Listened, Ids
<1>2. timers = 0 /\ connecting = 0 /\ Busy
  BY <1>1 DEF ActivityInv, OneThing, Busy
<1>3. Len(Channels) \in Nat /\ clients[c].listens \in Nat
      /\ clients[c].listens < Len(Channels)
  BY <1>1, BridgeAssumption DEF ActivityInv, ClientsFit, Client
<1>4. /\ d \in Client /\ d.phase \in {"setup", "ready"}
      /\ d.phase = "setup" => d.listens < Len(Channels)
  <2>1. phase \in {"setup", "ready"} /\ phase \in Phase
    BY DEF Phase
  <2>2. /\ clients[c].listens + 1 \in 0 .. Len(Channels)
        /\ phase = "setup" => clients[c].listens + 1 < Len(Channels)
    BY <1>3
  <2> HIDE DEF phase
  <2> QED
    BY <1>1, <2>1, <2>2 DEF Client
<1>5. clients' = [clients EXCEPT ![c] = d]
  BY <1>1 DEF Listened, ActivityInv, TypeOK, Ids
<1> HIDE DEF d
<1>6. /\ clients' \in Seq(Client) /\ Len(clients') = Len(clients) /\ Ids' = Ids
      /\ clients'[c] = d
      /\ \A b \in Ids \ {c} : clients'[b] = clients[b]
  BY <1>4, <1>5, OneClient DEF ActivityInv, TypeOK
<1>7. TypeOK'
  BY <1>6 DEF ActivityInv, TypeOK, Listened
<1> QED
  BY <1>1, <1>2, <1>4, <1>6, <1>7 DEF ActivityInv, ClientsFit, OneThing, Busy, Listened

LEMMA ListenRefusedActivity ==
  ASSUME ActivityInv, NEW c \in Ids, ListenRefused(c)
  PROVE  ActivityInv'
<1> DEFINE d == [clients[c] EXCEPT !.phase = "failed"]
<1>1. clients[c] \in Client /\ clients[c].phase = "setup" /\ c = current /\ c # NULL
  BY BridgeAssumption DEF ActivityInv, TypeOK, ClientsFit, ListenRefused, Ids
<1>2. timers = 0 /\ connecting = 0 /\ timers' = 1 /\ connecting' = 0
  BY <1>1 DEF ActivityInv, OneThing, Busy, ListenRefused, Scheduled
<1>3. d \in Client /\ d.phase = "failed"
  BY <1>1 DEF Client, Phase
<1>4. clients' = [clients EXCEPT ![c] = d]
  BY <1>1 DEF ListenRefused, ActivityInv, TypeOK, Ids
<1> HIDE DEF d
<1>5. /\ clients' \in Seq(Client) /\ Len(clients') = Len(clients) /\ Ids' = Ids
      /\ clients'[c] = d
      /\ \A b \in Ids \ {c} : clients'[b] = clients[b]
  BY <1>3, <1>4, OneClient DEF ActivityInv, TypeOK
<1>6. TypeOK'
  BY <1>2, <1>5, RefuseStep DEF ActivityInv, TypeOK, ListenRefused, FaultsOK
<1> QED
  BY <1>1, <1>2, <1>3, <1>5, <1>6 DEF ActivityInv, ClientsFit, OneThing, Busy, ListenRefused

\* Whether a LISTEN was running, the listener was established or the timer is
\* already set: one timer is set afterwards.
LEMMA ErrorEventActivity ==
  ASSUME ActivityInv, NEW c \in Ids, ErrorEvent(c)
  PROVE  ActivityInv'
<1> DEFINE d == [clients[c] EXCEPT !.phase = "lost"]
<1>1. clients[c] \in Client /\ c = current /\ c # NULL
      /\ clients[c].phase \in {"setup", "ready", "failed"}
  BY BridgeAssumption DEF ActivityInv, TypeOK, ClientsFit, ErrorEvent, Ids
<1>2. connecting = 0 /\ (timers = 0 \/ timers = 1)
  BY <1>1 DEF ActivityInv, ClientsFit, OneThing, Busy
<1>3. timers' = 1 /\ connecting' = 0
  BY <1>2 DEF ErrorEvent, Scheduled
<1>4. d \in Client /\ d.phase = "lost"
  BY <1>1 DEF Client, Phase
<1>5. clients' = [clients EXCEPT ![c] = d]
  BY <1>1 DEF ErrorEvent, ActivityInv, TypeOK, Ids
<1> HIDE DEF d
<1>6. /\ clients' \in Seq(Client) /\ Len(clients') = Len(clients) /\ Ids' = Ids
      /\ clients'[c] = d
      /\ \A b \in Ids \ {c} : clients'[b] = clients[b]
  BY <1>4, <1>5, OneClient DEF ActivityInv, TypeOK
<1>7. TypeOK'
  BY <1>3, <1>6 DEF ActivityInv, TypeOK, ErrorEvent
<1> QED
  BY <1>1, <1>3, <1>4, <1>6, <1>7 DEF ActivityInv, ClientsFit, OneThing, Busy, ErrorEvent

\* Nothing else changes what a client is doing.
LEMMA SamePhases ==
  ASSUME ActivityInv, TypeOK', Len(clients') = Len(clients),
         UNCHANGED <<current, connecting, timers>>,
         \A c \in Ids : /\ clients'[c].phase = clients[c].phase
                        /\ clients'[c].listens = clients[c].listens
  PROVE  ActivityInv'
<1>1. Ids' = Ids /\ (current # NULL => current \in Ids)
  BY DEF ActivityInv, TypeOK, Ids
<1> QED
  BY <1>1 DEF ActivityInv, ClientsFit, OneThing, Busy

-----------------------------------------------------------------------------
(* The order of the rows.                                                  *)

Increasing(s) == \A i, j \in 1 .. Len(s) : i < j => s[i] < s[j]

\* Every row on the wire w comes after every row in s.
Above(w, s) == \A i \in 1 .. Len(s), j \in 1 .. Len(w) : s[i] < w[j]

OrderInv ==
  /\ \A c \in Ids :
       /\ clients[c].wire \in Seq(1 .. Len(rows))
       /\ Increasing(clients[c].wire)
       /\ clients[c].phase \in {"setup", "ready"} => Above(clients[c].wire, emitted)
  /\ Increasing(emitted)

IInv == ActivityInv /\ OrderInv

\* The next row is taken off the wire, and broadcast or not.
LEMMA TakeFromWire ==
  ASSUME NEW N \in Nat, NEW w \in Seq(1 .. N), w # <<>>, Increasing(w),
         NEW s \in Seq(1 .. N), Increasing(s)
  PROVE  /\ Head(w) \in 1 .. N /\ Tail(w) \in Seq(1 .. N) /\ Increasing(Tail(w))
         /\ Above(w, s) => /\ Above(Tail(w), s)
                           /\ Above(Tail(w), Append(s, Head(w)))
                           /\ Increasing(Append(s, Head(w)))
<1>1. /\ Head(w) = w[1] /\ Head(w) \in 1 .. N
      /\ Tail(w) \in Seq(1 .. N) /\ Len(Tail(w)) = Len(w) - 1
      /\ \A i \in 1 .. Len(Tail(w)) : Tail(w)[i] = w[i + 1]
      /\ Len(w) \in Nat \ {0}
  OBVIOUS
<1>2. /\ Len(s) \in Nat /\ Len(Append(s, Head(w))) = Len(s) + 1
      /\ \A i \in 1 .. Len(s) : Append(s, Head(w))[i] = s[i]
      /\ Append(s, Head(w))[Len(s) + 1] = Head(w)
  BY <1>1
<1>3. \A i \in 1 .. Len(Tail(w)) : i + 1 \in 1 .. Len(w) /\ 1 \in 1 .. Len(w)
  BY <1>1
<1>4. Increasing(Tail(w))
  BY <1>1, <1>3 DEF Increasing
<1>5. ASSUME Above(w, s)
      PROVE  /\ Above(Tail(w), s)
             /\ Above(Tail(w), Append(s, Head(w)))
             /\ Increasing(Append(s, Head(w)))
  <2>1. Above(Tail(w), s)
    BY <1>1, <1>3, <1>5 DEF Above
  <2>2. \A j \in 1 .. Len(Tail(w)) : Head(w) < Tail(w)[j]
    BY <1>1, <1>3 DEF Increasing
  <2>3. \A i \in 1 .. Len(s) : s[i] < Head(w)
    BY <1>1, <1>5 DEF Above
  <2>4. Above(Tail(w), Append(s, Head(w)))
    BY <1>2, <2>1, <2>2 DEF Above
  <2>5. Increasing(Append(s, Head(w)))
    <3> DEFINE new == Append(s, Head(w))
    <3> HIDE DEF new
    <3> SUFFICES ASSUME NEW i \in 1 .. (Len(s) + 1), NEW j \in 1 .. (Len(s) + 1), i < j
                 PROVE  new[i] < new[j]
      BY <1>2 DEF Increasing, new
    <3>1. CASE j \in 1 .. Len(s)
      <4>1. i \in 1 .. Len(s) /\ new[i] = s[i] /\ new[j] = s[j]
        BY <1>2, <3>1 DEF new
      <4> QED
        BY <3>1, <4>1 DEF Increasing
    <3>2. CASE j = Len(s) + 1
      <4>1. i \in 1 .. Len(s) /\ new[i] = s[i] /\ new[j] = Head(w)
        BY <1>2, <3>2 DEF new
      <4> QED
        BY <2>3, <4>1
    <3> QED
      BY <1>2, <3>1, <3>2
  <2> QED
    BY <2>1, <2>4, <2>5
<1> QED
  BY <1>1, <1>4, <1>5

\* A new row goes behind all others.
LEMMA PutOnWire ==
  ASSUME NEW N \in Nat, NEW w \in Seq(1 .. N), Increasing(w), NEW s \in Seq(1 .. N)
  PROVE  /\ Append(w, N + 1) \in Seq(1 .. (N + 1)) /\ Increasing(Append(w, N + 1))
         /\ Above(w, s) => Above(Append(w, N + 1), s)
<1>1. /\ Len(w) \in Nat /\ Len(Append(w, N + 1)) = Len(w) + 1
      /\ \A i \in 1 .. Len(w) : Append(w, N + 1)[i] = w[i]
      /\ Append(w, N + 1)[Len(w) + 1] = N + 1
  OBVIOUS
<1>2. (\A i \in 1 .. Len(w) : w[i] \in 1 .. N) /\ (\A i \in 1 .. Len(s) : s[i] \in 1 .. N)
  OBVIOUS
<1>3. Append(w, N + 1) \in Seq(1 .. (N + 1))
  <2>1. w \in Seq(1 .. (N + 1)) /\ N + 1 \in 1 .. (N + 1)
    OBVIOUS
  <2> QED
    BY <2>1
<1>4. Increasing(Append(w, N + 1))
  BY <1>1, <1>2 DEF Increasing
<1>5. Above(w, s) => Above(Append(w, N + 1), s)
  BY <1>1, <1>2 DEF Above
<1> QED
  BY <1>3, <1>4, <1>5

\* A step that broadcasts nothing and leaves the wires alone or drops them.
LEMMA OrderKept ==
  ASSUME IInv, UNCHANGED <<rows, emitted>>,
         \A c \in Ids' :
           \/ clients'[c].wire = <<>>
           \/ /\ c \in Ids /\ clients'[c].wire = clients[c].wire
              /\ clients'[c].phase \in {"setup", "ready"}
                   => clients[c].phase \in {"setup", "ready"}
  PROVE  OrderInv'
<1>1. <<>> \in Seq(1 .. Len(rows)) /\ Increasing(<<>>) /\ Above(<<>>, emitted)
  BY DEF Increasing, Above
<1>2. Increasing(emitted')
  BY DEF IInv, OrderInv, Increasing
<1>3. ASSUME NEW c \in Ids'
      PROVE  /\ clients'[c].wire \in Seq(1 .. Len(rows))
             /\ Increasing(clients'[c].wire)
             /\ clients'[c].phase \in {"setup", "ready"} => Above(clients'[c].wire, emitted)
  BY <1>1, <1>3 DEF IInv, OrderInv
<1> QED
  BY <1>2, <1>3 DEF OrderInv, Increasing, Above

LEMMA RowsAreNats ==
  ASSUME NEW N \in Nat, NEW s \in Seq(1 .. N)
  PROVE  s \in Seq(Nat)
  OBVIOUS

LEMMA ReceiveStep ==
  ASSUME IInv, NEW c \in Ids, Receive(c)
  PROVE  IInv'
<1> DEFINE w == clients[c].wire
           d == [clients[c] EXCEPT !.wire = Tail(w)]
<1>1. /\ clients \in Seq(Client) /\ clients[c] \in Client /\ Len(rows) \in Nat
      /\ emitted \in Seq(1 .. Len(rows)) /\ Increasing(emitted)
      /\ w \in Seq(1 .. Len(rows)) /\ Increasing(w) /\ w # <<>>
      /\ UNCHANGED <<rows, current, connecting, timers, faults>>
  BY DEF IInv, ActivityInv, TypeOK, OrderInv, Receive, Ids
<1>2. /\ Head(w) \in 1 .. Len(rows) /\ Tail(w) \in Seq(1 .. Len(rows)) /\ Increasing(Tail(w))
      /\ Above(w, emitted) => /\ Above(Tail(w), emitted)
                              /\ Above(Tail(w), Append(emitted, Head(w)))
                              /\ Increasing(Append(emitted, Head(w)))
  <2> HIDE DEF w
  <2> QED
    BY <1>1, TakeFromWire
<1>3. Tail(w) \in Seq(Nat)
  BY <1>1, <1>2, RowsAreNats
<1>4. /\ d \in Client /\ d.wire = Tail(w)
      /\ d.phase = clients[c].phase /\ d.listens = clients[c].listens
  BY <1>1, <1>3 DEF Client
<1>5. clients' = [clients EXCEPT ![c] = d]
  BY <1>1 DEF Receive, Ids
<1> HIDE DEF d
<1>6. /\ clients' \in Seq(Client) /\ Len(clients') = Len(clients) /\ Ids' = Ids
      /\ clients'[c] = d
      /\ \A b \in Ids \ {c} : clients'[b] = clients[b]
  BY <1>1, <1>4, <1>5, OneClient
<1>7. emitted' = IF clients[c].phase = "ready" THEN Append(emitted, Head(w)) ELSE emitted
  BY DEF Receive
<1> HIDE DEF w
<1>8. emitted' \in Seq(1 .. Len(rows))
  <2>1. Append(emitted, Head(w)) \in Seq(1 .. Len(rows))
    BY <1>1, <1>2
  <2> QED
    BY <1>1, <1>7, <2>1
<1>9. ActivityInv'
  <2>1. TypeOK'
    BY <1>1, <1>6, <1>8 DEF IInv, ActivityInv, TypeOK
  <2>2. \A b \in Ids : /\ clients'[b].phase = clients[b].phase
                       /\ clients'[b].listens = clients[b].listens
    BY <1>4, <1>6
  <2> QED
    BY <1>1, <1>6, <2>1, <2>2, SamePhases DEF IInv
<1>10. clients[c].phase \in {"setup", "ready"} => Above(w, emitted)
  BY DEF IInv, OrderInv, w
<1>11. \A b \in Ids \ {c} :
         clients[c].phase = "ready" => clients[b].phase \notin {"setup", "ready"}
  BY DEF IInv, ActivityInv, ClientsFit
<1>12. Increasing(emitted')
  BY <1>1, <1>2, <1>7, <1>10
<1>13. ASSUME NEW b \in Ids
       PROVE  /\ clients'[b].wire \in Seq(1 .. Len(rows)) /\ Increasing(clients'[b].wire)
              /\ clients'[b].phase \in {"setup", "ready"} => Above(clients'[b].wire, emitted')
  <2>1. CASE b = c
    BY <1>2, <1>4, <1>6, <1>7, <1>10, <2>1
  <2>2. CASE b # c
    BY <1>6, <1>7, <1>11, <2>2 DEF IInv, OrderInv
  <2> QED
    BY <2>1, <2>2
<1>14. OrderInv'
  BY <1>1, <1>6, <1>12, <1>13 DEF OrderInv, Increasing, Above
<1> QED
  BY <1>9, <1>14 DEF IInv

LEMMA InsertRowStep ==
  ASSUME IInv, NEW ch \in Range(Channels), InsertRow(ch)
  PROVE  IInv'
<1> DEFINE n == Len(rows)
           told(c) == clients[c].alive /\ Listens(c, ch) /\ clients[c].phase \in {"setup", "ready"}
<1>1. /\ clients \in Seq(Client) /\ n \in Nat /\ Ids = 1 .. Len(clients)
      /\ emitted \in Seq(1 .. n) /\ Increasing(emitted)
      /\ UNCHANGED <<current, connecting, timers, emitted, faults>>
  BY DEF IInv, ActivityInv, TypeOK, OrderInv, InsertRow, Ids
<1>2. rows' \in Seq(Range(Channels)) /\ Len(rows') = n + 1
  BY DEF IInv, ActivityInv, TypeOK, InsertRow
<1>3. clients' = [c \in Ids |->
         IF told(c) THEN [clients[c] EXCEPT !.wire = Append(clients[c].wire, n + 1)]
         ELSE clients[c]]
  BY DEF InsertRow, Ids
<1> HIDE DEF n, told
<1>4. ASSUME NEW c \in Ids
      PROVE  /\ clients'[c] \in Client
             /\ clients'[c].phase = clients[c].phase /\ clients'[c].listens = clients[c].listens
             /\ clients'[c].wire \in {clients[c].wire, Append(clients[c].wire, n + 1)}
  <2>1. clients[c] \in Client
    BY <1>1
  <2>2. Append(clients[c].wire, n + 1) \in Seq(Nat)
    BY <1>1, <2>1 DEF Client
  <2> QED
    BY <1>3, <2>1, <2>2 DEF Client
<1>5. clients' \in Seq(Client) /\ Len(clients') = Len(clients) /\ Ids' = Ids
  <2>1. clients' \in [1 .. Len(clients) -> Client] /\ Len(clients) \in Nat
    <3>1. clients' = [c \in Ids |-> clients'[c]]
      BY <1>3
    <3>2. clients' \in [Ids -> Client]
      BY <1>4, <3>1
    <3> QED
      BY <1>1, <3>2
  <2>2. clients' \in Seq(Client) /\ Len(clients') = Len(clients)
    BY <2>1
  <2> QED
    BY <2>2 DEF Ids
<1>6. emitted \in Seq(1 .. (n + 1))
  BY <1>1
<1>7. TypeOK'
  BY <1>1, <1>2, <1>5, <1>6 DEF IInv, ActivityInv, TypeOK
<1>8. ActivityInv'
  BY <1>1, <1>4, <1>5, <1>7, SamePhases DEF IInv
<1>9. ASSUME NEW c \in Ids
      PROVE  /\ clients'[c].wire \in Seq(1 .. (n + 1)) /\ Increasing(clients'[c].wire)
             /\ clients'[c].phase \in {"setup", "ready"} => Above(clients'[c].wire, emitted)
  <2> DEFINE w == clients[c].wire
  <2>1. /\ w \in Seq(1 .. n) /\ Increasing(w)
        /\ clients[c].phase \in {"setup", "ready"} => Above(w, emitted)
    BY DEF IInv, OrderInv, n
  <2>2. clients'[c].phase = clients[c].phase /\ clients'[c].wire \in {w, Append(w, n + 1)}
    BY <1>4
  <2> HIDE DEF w
  <2>3. /\ Append(w, n + 1) \in Seq(1 .. (n + 1)) /\ Increasing(Append(w, n + 1))
        /\ Above(w, emitted) => Above(Append(w, n + 1), emitted)
    BY <1>1, <2>1, PutOnWire
  <2>4. w \in Seq(1 .. (n + 1))
    BY <1>1, <2>1
  <2> QED
    BY <2>1, <2>2, <2>3, <2>4
<1>10. OrderInv'
  BY <1>1, <1>2, <1>5, <1>9 DEF OrderInv, Increasing, Above
<1> QED
  BY <1>8, <1>10 DEF IInv

LEMMA BreakFaults ==
  ASSUME FaultsOK, faults.breaks < MaxBreaks,
         faults' = [faults EXCEPT !.breaks = @ + 1]
  PROVE  FaultsOK'
  BY BridgeAssumption DEF FaultsOK

LEMMA BreakStep ==
  ASSUME IInv, NEW c \in Ids, Break(c)
  PROVE  IInv'
<1> DEFINE d == [clients[c] EXCEPT !.alive = FALSE, !.wire = <<>>]
<1>1. /\ clients \in Seq(Client) /\ clients[c] \in Client
      /\ UNCHANGED <<rows, current, connecting, timers, emitted>>
  BY DEF IInv, ActivityInv, TypeOK, Break, Ids
<1>2. /\ d \in Client /\ d.wire = <<>>
      /\ d.phase = clients[c].phase /\ d.listens = clients[c].listens
  <2>1. <<>> \in Seq(Nat) /\ FALSE \in BOOLEAN
    OBVIOUS
  <2> QED
    BY <1>1, <2>1 DEF Client
<1>3. clients' = [clients EXCEPT ![c] = d]
  BY <1>1 DEF Break, Ids
<1> HIDE DEF d
<1>4. /\ clients' \in Seq(Client) /\ Len(clients') = Len(clients) /\ Ids' = Ids
      /\ clients'[c] = d
      /\ \A b \in Ids \ {c} : clients'[b] = clients[b]
  BY <1>1, <1>2, <1>3, OneClient
<1>5. FaultsOK'
  BY BreakFaults DEF IInv, ActivityInv, TypeOK, FaultsOK, Break
<1>6. TypeOK'
  BY <1>1, <1>4, <1>5 DEF IInv, ActivityInv, TypeOK, FaultsOK
<1>7. ActivityInv'
  BY <1>1, <1>2, <1>4, <1>6, SamePhases DEF IInv
<1>8. OrderInv'
  BY <1>1, <1>2, <1>4, OrderKept
<1> QED
  BY <1>7, <1>8 DEF IInv

-----------------------------------------------------------------------------
LEMMA InitIInv == Init => IInv
<1>1. Init => OrderInv
  BY DEF Init, OrderInv, Increasing, Ids
<1> QED
  BY <1>1, InitActivity DEF IInv

\* The callbacks that change what the bridge is doing.
LEMMA CallbackStep ==
  ASSUME IInv,
         \/ TimerFires \/ Connected \/ ConnectRefused
         \/ \E c \in Ids : Listened(c) \/ ListenRefused(c) \/ ErrorEvent(c)
  PROVE  IInv'
<1>1. ActivityInv'
  BY TimerFiresActivity, ConnectedActivity, ConnectRefusedActivity, ListenedActivity,
     ListenRefusedActivity, ErrorEventActivity DEF IInv
<1>2. clients \in Seq(Client) /\ (current # NULL => current \in Ids)
  BY DEF IInv, ActivityInv, TypeOK, Ids
<1>3. CASE TimerFires
  <2>1. /\ Ids' = Ids
        /\ \A c \in Ids : /\ clients'[c].wire = clients[c].wire
                          /\ clients'[c].phase \in {"released", clients[c].phase}
    BY <1>2, <1>3 DEF TimerFires, Ids, Client
  <2> QED
    BY <1>1, <1>3, <2>1, OrderKept DEF TimerFires, IInv
<1>4. CASE Connected
  <2> DEFINE d == [phase |-> "setup", alive |-> TRUE, listens |-> 0, wire |-> <<>>]
             n == Len(clients) + 1
  <2>1. \A c \in Ids' : clients'[c].wire = <<>> \/ (c \in Ids /\ clients'[c] = clients[c])
    <3>1. clients' = Append(clients, d) /\ d.wire = <<>>
      BY <1>4 DEF Connected
    <3> HIDE DEF d
    <3>2. /\ Len(clients') = n /\ n \in Nat /\ clients'[n] = d
          /\ \A c \in Ids : clients'[c] = clients[c]
      BY <1>2, <3>1 DEF Ids
    <3>3. Ids' = Ids \cup {n}
      BY <1>2, <3>2 DEF Ids
    <3> HIDE DEF n
    <3> SUFFICES ASSUME NEW c \in Ids'
                 PROVE  clients'[c].wire = <<>> \/ (c \in Ids /\ clients'[c] = clients[c])
      OBVIOUS
    <3>4. CASE c = n
      BY <3>1, <3>2, <3>4
    <3>5. CASE c \in Ids
      BY <3>2, <3>5
    <3> QED
      BY <3>3, <3>4, <3>5
  <2> QED
    BY <1>1, <1>4, <2>1, OrderKept DEF Connected, IInv
<1>5. CASE ConnectRefused
  BY <1>1, <1>5, OrderKept DEF ConnectRefused, IInv, Ids
<1>6. ASSUME NEW c \in Ids, Listened(c) \/ ListenRefused(c) \/ ErrorEvent(c)
      PROVE  IInv'
  <2>1. /\ Ids' = Ids
        /\ \A b \in Ids : /\ clients'[b].wire = clients[b].wire
                          /\ b # c => clients'[b] = clients[b]
        /\ clients'[c].phase \in {"setup", "ready"} => clients[c].phase = "setup"
    <3>1. clients[c] \in Client /\ Ids = 1 .. Len(clients)
      BY <1>2 DEF Ids
    <3>2. CASE Listened(c)
      BY <1>2, <3>1, <3>2 DEF Listened, Ids, Client
    <3>3. CASE ListenRefused(c)
      BY <1>2, <3>1, <3>3 DEF ListenRefused, Ids, Client
    <3>4. CASE ErrorEvent(c)
      BY <1>2, <3>1, <3>4 DEF ErrorEvent, Ids, Client
    <3> QED
      BY <1>6, <3>2, <3>3, <3>4
  <2> QED
    BY <1>1, <1>6, <2>1, OrderKept DEF Listened, ListenRefused, ErrorEvent, IInv
<1> QED
  BY <1>3, <1>4, <1>5, <1>6

LEMMA Invariance == Spec => []IInv
<1>1. IInv /\ [Next]_vars => IInv'
  <2> SUFFICES ASSUME IInv, [Next]_vars PROVE IInv'
    OBVIOUS
  <2>1. CASE UNCHANGED vars
    BY <2>1 DEF vars, IInv, ActivityInv, TypeOK, ClientsFit, OneThing, Busy, OrderInv, Increasing, Above, Ids
  <2>2. ASSUME NEW c \in Ids, Receive(c) \/ Break(c) PROVE IInv'
    BY <2>2, ReceiveStep, BreakStep
  <2>3. ASSUME NEW ch \in Range(Channels), InsertRow(ch) PROVE IInv'
    BY <2>3, InsertRowStep
  <2>4. CASE \/ TimerFires \/ Connected \/ ConnectRefused
             \/ \E c \in Ids : Listened(c) \/ ListenRefused(c) \/ ErrorEvent(c)
    BY <2>4, CallbackStep
  <2> QED
    BY <2>1, <2>2, <2>3, <2>4 DEF Next, Ids
<1> QED
  BY <1>1, InitIInv, PTL DEF Spec

\* Every variable of the bridge keeps its type, whatever breaks or is refused.
THEOREM TypeCorrect == Spec => []TypeOK
<1>1. IInv => TypeOK
  BY DEF IInv, ActivityInv
<1> QED
  BY <1>1, Invariance, PTL

\* The bridge is always doing exactly one thing: it never stops for good and
\* never has two listeners, however error events and rejections coincide.
THEOREM ExactlyOneActivity == Spec => []OneActivity
<1>1. IInv => OneActivity
  <2> SUFFICES ASSUME IInv PROVE OneActivity
    OBVIOUS
  <2>1. /\ \A c \in Ids : clients[c].phase \in {"setup", "ready"} => c = current
        /\ current # NULL => current \in Ids
        /\ OneThing
    BY DEF IInv, ActivityInv, TypeOK, ClientsFit, Ids
  <2>2. CASE Busy
    <3>1. CASE clients[current].phase = "setup"
      <4>1. SettingUp = {current} /\ Established = {}
        BY <2>1, <2>2, <3>1 DEF Busy, SettingUp, Established, Ids
      <4> QED
        <5>1. Cardinality(SettingUp) = 1 /\ Cardinality(Established) = 0
          BY <4>1, FS_Singleton, FS_EmptySet
        <5> QED
          BY <2>1, <2>2, <5>1 DEF OneThing, OneActivity
    <3>2. CASE clients[current].phase = "ready"
      <4>1. SettingUp = {} /\ Established = {current}
        BY <2>1, <2>2, <3>2 DEF Busy, SettingUp, Established, Ids
      <4> QED
        <5>1. Cardinality(SettingUp) = 0 /\ Cardinality(Established) = 1
          BY <4>1, FS_Singleton, FS_EmptySet
        <5> QED
          BY <2>1, <2>2, <5>1 DEF OneThing, OneActivity
    <3> QED
      BY <2>2, <3>1, <3>2 DEF Busy
  <2>3. CASE ~Busy
    <3>1. SettingUp = {} /\ Established = {}
      <4> SUFFICES ASSUME NEW c \in Ids PROVE clients[c].phase \notin {"setup", "ready"}
        BY DEF SettingUp, Established, Ids
      <4>1. c # NULL
        BY BridgeAssumption DEF Ids
      <4> QED
        BY <2>1, <2>3, <4>1 DEF Busy
    <3> QED
      BY <2>1, <2>3, <3>1, FS_EmptySet DEF OneThing, OneActivity
  <2> QED
    BY <2>2, <2>3
<1> QED
  BY <1>1, Invariance, PTL

\* Rows are broadcast in the order of the table and none twice, across any
\* number of reconnections.
THEOREM BroadcastInOrder == Spec => []EmittedInOrder
<1>1. IInv => EmittedInOrder
  BY DEF IInv, OrderInv, Increasing, EmittedInOrder
<1> QED
  BY <1>1, Invariance, PTL
=============================================================================
