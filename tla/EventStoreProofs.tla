-------------------------- MODULE EventStoreProofs --------------------------
(***************************************************************************)
(* What the statements of EventStore do to the rows of a table.  Rows may  *)
(* be a larger set than Row: the Node collector's tables have gaps in them,*)
(* where a fail-over has lost a row.                                       *)
(***************************************************************************)
EXTENDS EventStore, WellFoundedInduction, TLAPS

-----------------------------------------------------------------------------
(* Numbers.                                                                *)

Below == {ss \in Nat \X Nat : ss[1] < ss[2]}

\* A set of natural numbers has a least element.
LEMMA Least ==
  ASSUME NEW S \in SUBSET Nat, S # {}
  PROVE  \E n \in S : \A m \in S : n <= m
<1>1. IsWellFoundedOn(Below, Nat)
  BY NatLessThanWellFounded DEF OpToRel, Below
<1>2. PICK n \in S : \A m \in S : <<m, n>> \notin Below
  BY <1>1, WFMin
<1>3. \A m \in S : ~(m < n)
  BY <1>2 DEF Below
<1> QED
  BY <1>3

\* A set of numbers up to n has a greatest element.
LEMMA Greatest ==
  ASSUME NEW n \in Nat, NEW S \in SUBSET (1 .. n), S # {}
  PROVE  \E m \in S : \A k \in S : k <= m
<1> DEFINE T == {n - k : k \in S}
<1>1. /\ \A k \in S : k \in 1 .. n /\ n - k \in T
      /\ \A t \in T : \E k \in S : t = n - k
  OBVIOUS
<1> HIDE DEF T
<1>2. T \in SUBSET Nat /\ T # {}
  <2>1. \A t \in T : t \in Nat
    BY <1>1
  <2> QED
    BY <1>1, <2>1
<1>3. PICK t \in T : \A u \in T : t <= u
  BY <1>2, Least
<1>4. PICK m \in S : t = n - m
  BY <1>1
<1>5. ASSUME NEW k \in S PROVE k <= m
  <2>1. n - m <= n - k
    BY <1>1, <1>3, <1>4
  <2> QED
    BY <1>1, <2>1
<1> QED
  BY <1>5

-----------------------------------------------------------------------------
(* Tables.                                                                 *)

TableWith(Gaps) == Seq(Row \cup Gaps)

\* What an INSERT of any row adds.
LEMMA AppendAny ==
  ASSUME NEW Rows, NEW tbl \in Seq(Rows), NEW r \in Rows
  PROVE  /\ Append(tbl, r) \in Seq(Rows)
         /\ Len(tbl) \in Nat
         /\ Len(Append(tbl, r)) = Len(tbl) + 1
         /\ 1 .. Len(Append(tbl, r)) = (1 .. Len(tbl)) \cup {Len(tbl) + 1}
         /\ \A e \in 1 .. Len(tbl) : Append(tbl, r)[e] = tbl[e]
         /\ Append(tbl, r)[Len(tbl) + 1] = r
  OBVIOUS

\* What appending r adds to the rows of service u of a type.
Added(tbl, r, u, type) ==
  IF r.service = u /\ r.type = type THEN {Len(tbl) + 1} ELSE {}

\* The kinds of rows of service u after a row was appended.
LEMMA AppendKinds ==
  ASSUME NEW Rows, NEW tbl \in Seq(Rows), NEW r \in Rows, NEW u \in Services
  PROVE  /\ DownRows(Append(tbl, r), u) = DownRows(tbl, u) \cup Added(tbl, r, u, "down")
         /\ RecoveredRows(Append(tbl, r), u) =
              RecoveredRows(tbl, u) \cup Added(tbl, r, u, "recovered")
         /\ r.ended = NULL =>
              OpenRows(Append(tbl, r), u) = OpenRows(tbl, u) \cup Added(tbl, r, u, "down")
<1> DEFINE new == Append(tbl, r)
           n == Len(tbl) + 1
           added(type) == IF r.service = u /\ r.type = type THEN {n} ELSE {}
<1>1. /\ Len(tbl) \in Nat
      /\ 1 .. Len(new) = (1 .. Len(tbl)) \cup {n}
      /\ \A e \in 1 .. Len(tbl) : new[e] = tbl[e]
      /\ new[n] = r
  BY AppendAny
<1>2. n \notin 1 .. Len(tbl)
  BY <1>1
<1> HIDE DEF new, n
<1>3. DownRows(new, u) = DownRows(tbl, u) \cup added("down")
  BY <1>1 DEF DownRows
<1>4. RecoveredRows(new, u) = RecoveredRows(tbl, u) \cup added("recovered")
  BY <1>1 DEF RecoveredRows
<1>5. ASSUME r.ended = NULL
      PROVE  OpenRows(new, u) = OpenRows(tbl, u) \cup added("down")
  BY <1>1, <1>2, <1>3, <1>5 DEF OpenRows, DownRows
<1> QED
  BY <1>3, <1>4, <1>5 DEF Added, new, n

\* The id that an INSERT for service s adds to the rows of service u.
New(tbl, u, s) == IF u = s THEN {Len(tbl) + 1} ELSE {}

\* How tbl becomes new: the INSERT of an outage of s, of an announcement of its
\* recovery, and the UPDATE that closes the row e.
DownAdded(new, tbl, s, now) ==
  /\ Len(tbl) \in Nat /\ Len(new) = Len(tbl) + 1
  /\ \A e \in 1 .. Len(tbl) : new[e] = tbl[e]
  /\ new[Len(tbl) + 1].started = now /\ new[Len(tbl) + 1].ended = NULL
  /\ \A u \in Services :
       /\ DownRows(new, u) = DownRows(tbl, u) \cup New(tbl, u, s)
       /\ OpenRows(new, u) = OpenRows(tbl, u) \cup New(tbl, u, s)
       /\ RecoveredRows(new, u) = RecoveredRows(tbl, u)

RecoveredAdded(new, tbl, s, now) ==
  /\ Len(tbl) \in Nat /\ Len(new) = Len(tbl) + 1
  /\ \A e \in 1 .. Len(tbl) : new[e] = tbl[e]
  /\ new[Len(tbl) + 1].started = now /\ new[Len(tbl) + 1].ended = NULL
  /\ \A u \in Services :
       /\ DownRows(new, u) = DownRows(tbl, u)
       /\ OpenRows(new, u) = OpenRows(tbl, u)
       /\ RecoveredRows(new, u) = RecoveredRows(tbl, u) \cup New(tbl, u, s)

RowEnded(new, tbl, e, now) ==
  /\ Len(tbl) \in Nat /\ Len(new) = Len(tbl)
  /\ \A f \in 1 .. Len(tbl) : f # e => new[f] = tbl[f]
  /\ new[e].service = tbl[e].service /\ new[e].type = tbl[e].type
  /\ new[e].started = tbl[e].started
  /\ new[e].ended = now /\ new[e].resolved = TRUE
  /\ \A u \in Services :
       /\ DownRows(new, u) = DownRows(tbl, u)
       /\ OpenRows(new, u) = OpenRows(tbl, u) \ {e}
       /\ RecoveredRows(new, u) = RecoveredRows(tbl, u)

\* The outage RecordDown inserts is the new last row, open, and changes no other.
LEMMA InsertDownAny ==
  ASSUME NEW Gaps, NEW tbl \in TableWith(Gaps), NEW s \in Services, NEW now \in Nat
  PROVE  /\ InsertDown(tbl, s, now) \in TableWith(Gaps)
         /\ DownAdded(InsertDown(tbl, s, now), tbl, s, now)
<1> DEFINE r == [service |-> s, type |-> "down", started |-> now,
                 ended |-> NULL, resolved |-> FALSE]
           new == InsertDown(tbl, s, now)
<1>1. r \in Row \cup Gaps
  BY DEF Row
<1>2. new = Append(tbl, r)
  BY DEF InsertDown
<1>3. r.service = s /\ r.type = "down" /\ r.started = now /\ r.ended = NULL
  OBVIOUS
<1> HIDE DEF r, new
<1>4. /\ new \in TableWith(Gaps) /\ Len(tbl) \in Nat /\ Len(new) = Len(tbl) + 1
      /\ \A e \in 1 .. Len(tbl) : new[e] = tbl[e]
      /\ new[Len(tbl) + 1] = r
  BY <1>1, <1>2, AppendAny DEF TableWith
<1>5. ASSUME NEW u \in Services
      PROVE  /\ DownRows(new, u) =
                  DownRows(tbl, u) \cup New(tbl, u, s)
             /\ OpenRows(new, u) =
                  OpenRows(tbl, u) \cup New(tbl, u, s)
             /\ RecoveredRows(new, u) = RecoveredRows(tbl, u)
  <2>1. /\ DownRows(new, u) = DownRows(tbl, u) \cup Added(tbl, r, u, "down")
        /\ OpenRows(new, u) = OpenRows(tbl, u) \cup Added(tbl, r, u, "down")
        /\ RecoveredRows(new, u) =
             RecoveredRows(tbl, u) \cup Added(tbl, r, u, "recovered")
    BY <1>1, <1>2, <1>3, AppendKinds DEF TableWith
  <2> QED
    BY <1>3, <2>1 DEF Added, New
<1> QED
  BY <1>3, <1>4, <1>5 DEF new, DownAdded

\* The announcement RecordRecovered inserts is no outage.
LEMMA InsertRecoveredAny ==
  ASSUME NEW Gaps, NEW tbl \in TableWith(Gaps), NEW s \in Services, NEW now \in Nat
  PROVE  /\ InsertRecovered(tbl, s, now) \in TableWith(Gaps)
         /\ RecoveredAdded(InsertRecovered(tbl, s, now), tbl, s, now)
<1> DEFINE r == [service |-> s, type |-> "recovered", started |-> now,
                 ended |-> NULL, resolved |-> TRUE]
           new == InsertRecovered(tbl, s, now)
<1>1. r \in Row \cup Gaps
  BY DEF Row
<1>2. new = Append(tbl, r)
  BY DEF InsertRecovered
<1>3. r.service = s /\ r.type = "recovered" /\ r.started = now /\ r.ended = NULL
  OBVIOUS
<1> HIDE DEF r, new
<1>4. /\ new \in TableWith(Gaps) /\ Len(tbl) \in Nat /\ Len(new) = Len(tbl) + 1
      /\ \A e \in 1 .. Len(tbl) : new[e] = tbl[e]
      /\ new[Len(tbl) + 1] = r
  BY <1>1, <1>2, AppendAny DEF TableWith
<1>5. ASSUME NEW u \in Services
      PROVE  /\ DownRows(new, u) = DownRows(tbl, u)
             /\ OpenRows(new, u) = OpenRows(tbl, u)
             /\ RecoveredRows(new, u) =
                  RecoveredRows(tbl, u) \cup New(tbl, u, s)
  <2>1. /\ DownRows(new, u) = DownRows(tbl, u) \cup Added(tbl, r, u, "down")
        /\ OpenRows(new, u) = OpenRows(tbl, u) \cup Added(tbl, r, u, "down")
        /\ RecoveredRows(new, u) =
             RecoveredRows(tbl, u) \cup Added(tbl, r, u, "recovered")
    BY <1>1, <1>2, <1>3, AppendKinds DEF TableWith
  <2> QED
    BY <1>3, <2>1 DEF Added, New
<1> QED
  BY <1>3, <1>4, <1>5 DEF new, RecoveredAdded

\* The UPDATE of RecordRecovered sets the end and the mark of one row.
LEMMA CloseRowAny ==
  ASSUME NEW Gaps, NEW tbl \in TableWith(Gaps),
         NEW e \in 1 .. Len(tbl), tbl[e] \in Row, NEW now \in Nat
  PROVE  /\ CloseRow(tbl, e, now) \in TableWith(Gaps)
         /\ RowEnded(CloseRow(tbl, e, now), tbl, e, now)
<1> DEFINE r == [tbl[e] EXCEPT !.ended = now, !.resolved = TRUE]
           new == CloseRow(tbl, e, now)
<1>1. r \in Row
  BY DEF Row
<1>2. new = [tbl EXCEPT ![e] = r]
  BY DEF CloseRow
<1>3. /\ r.started = tbl[e].started /\ r.ended = now /\ r.resolved = TRUE
      /\ r.service = tbl[e].service /\ r.type = tbl[e].type
  BY DEF Row
<1> HIDE DEF r, new
<1>4. /\ new \in TableWith(Gaps) /\ Len(new) = Len(tbl) /\ Len(tbl) \in Nat
      /\ \A f \in 1 .. Len(tbl) : f # e => new[f] = tbl[f]
      /\ new[e] = r
  BY <1>1, <1>2 DEF TableWith
<1>5. now # NULL
  BY NullAssumption
<1>6. ASSUME NEW u \in Services
      PROVE  /\ DownRows(new, u) = DownRows(tbl, u)
             /\ OpenRows(new, u) = OpenRows(tbl, u) \ {e}
             /\ RecoveredRows(new, u) = RecoveredRows(tbl, u)
  <2>1. DownRows(new, u) = DownRows(tbl, u)
    BY <1>3, <1>4 DEF DownRows
  <2>2. OpenRows(new, u) = OpenRows(tbl, u) \ {e}
    BY <1>3, <1>4, <1>5, <2>1 DEF OpenRows, DownRows
  <2>3. RecoveredRows(new, u) = RecoveredRows(tbl, u)
    BY <1>3, <1>4 DEF RecoveredRows
  <2> QED
    BY <2>1, <2>2, <2>3
<1> QED
  BY <1>3, <1>4, <1>6 DEF new, RowEnded

\* The lookup of RecordDown and of syncActiveEvent returns the last open row,
\* or NoEvent if there is none.
LEMMA ActiveEventAny ==
  ASSUME NEW Rows, NEW tbl \in Seq(Rows), NEW s \in Services
  PROVE  /\ ActiveEvent(tbl, s) \in Nat
         /\ ActiveEvent(tbl, s) = NoEvent <=> OpenRows(tbl, s) = {}
         /\ ActiveEvent(tbl, s) # NoEvent =>
              /\ ActiveEvent(tbl, s) \in OpenRows(tbl, s)
              /\ \A f \in OpenRows(tbl, s) : f <= ActiveEvent(tbl, s)
<1>1. /\ Len(tbl) \in Nat
      /\ OpenRows(tbl, s) \in SUBSET (1 .. Len(tbl))
      /\ NoEvent \notin 1 .. Len(tbl)
  BY DEF OpenRows, DownRows, NoEvent
<1>2. CASE OpenRows(tbl, s) = {}
  BY <1>2 DEF ActiveEvent, NoEvent
<1>3. CASE OpenRows(tbl, s) # {}
  <2> DEFINE P(e) == e \in OpenRows(tbl, s) /\ \A f \in OpenRows(tbl, s) : f <= e
  <2>1. \E e \in OpenRows(tbl, s) : P(e)
    BY <1>1, <1>3, Greatest
  <2>2. P(CHOOSE x : P(x))
    BY <2>1
  <2>3. P(ActiveEvent(tbl, s))
    BY <1>3, <2>2 DEF ActiveEvent
  <2> QED
    BY <1>1, <1>3, <2>3
<1> QED
  BY <1>2, <1>3

-----------------------------------------------------------------------------
(* Tables without gaps.                                                    *)

LEMMA NoGaps == TableWith({}) = Table
<1>1. Row \cup {} = Row
  OBVIOUS
<1> QED
  BY <1>1 DEF TableWith, Table

\* What the columns of a row hold.
LEMMA RowColumns ==
  ASSUME NEW tbl \in Table, NEW e \in 1 .. Len(tbl)
  PROVE  /\ tbl[e] \in Row
         /\ tbl[e].service \in Services
         /\ tbl[e].started \in Nat
         /\ tbl[e].ended \in Nat \cup {NULL}
<1>1. tbl[e] \in Row
  BY DEF Table
<1> QED
  BY <1>1 DEF Row

LEMMA InsertDownRows ==
  ASSUME NEW tbl \in Table, NEW s \in Services, NEW now \in Nat
  PROVE  /\ InsertDown(tbl, s, now) \in Table
         /\ DownAdded(InsertDown(tbl, s, now), tbl, s, now)
  BY NoGaps, InsertDownAny

LEMMA InsertRecoveredRows ==
  ASSUME NEW tbl \in Table, NEW s \in Services, NEW now \in Nat
  PROVE  /\ InsertRecovered(tbl, s, now) \in Table
         /\ RecoveredAdded(InsertRecovered(tbl, s, now), tbl, s, now)
  BY NoGaps, InsertRecoveredAny

LEMMA CloseRowRows ==
  ASSUME NEW tbl \in Table, NEW e \in 1 .. Len(tbl), NEW now \in Nat
  PROVE  /\ CloseRow(tbl, e, now) \in Table
         /\ RowEnded(CloseRow(tbl, e, now), tbl, e, now)
  BY NoGaps, RowColumns, CloseRowAny

\* The lookup in such a table.
LEMMA ActiveEventRow ==
  ASSUME NEW tbl \in Table, NEW s \in Services
  PROVE  /\ ActiveEvent(tbl, s) \in Nat
         /\ ActiveEvent(tbl, s) = NoEvent <=> OpenRows(tbl, s) = {}
         /\ ActiveEvent(tbl, s) # NoEvent => ActiveEvent(tbl, s) \in OpenRows(tbl, s)
<1>1. tbl \in Seq(Row)
  BY DEF Table
<1> QED
  BY <1>1, ActiveEventAny

-----------------------------------------------------------------------------
(* The log of outages that a table stands for.                             *)

Outages(tbl) == [s \in Services |-> DownRows(tbl, s)]

Opens(tbl) == [s \in Services |-> OpenRows(tbl, s)]

Announced(tbl) == [s \in Services |-> RecoveredRows(tbl, s)]

\* An INSERT takes an id that the log does not know.
LEMMA IdIsNew ==
  ASSUME NEW tbl, Len(tbl) \in Nat
  PROVE  Len(tbl) + 1 \notin UNION {Outages(tbl)[s] \cup Announced(tbl)[s] : s \in Services}
<1>1. \A s \in Services :
        Outages(tbl)[s] = DownRows(tbl, s) /\ Announced(tbl)[s] = RecoveredRows(tbl, s)
  BY DEF Outages, Announced
<1>2. \A s \in Services :
        Len(tbl) + 1 \notin DownRows(tbl, s) /\ Len(tbl) + 1 \notin RecoveredRows(tbl, s)
  BY DEF DownRows, RecoveredRows
<1> QED
  BY <1>1, <1>2

LEMMA DownAddedLog ==
  ASSUME NEW tbl, NEW new, NEW s \in Services, NEW now,
         DownAdded(new, tbl, s, now), OpenRows(tbl, s) = {}
  PROVE  /\ Outages(new) = [Outages(tbl) EXCEPT ![s] = @ \cup {Len(tbl) + 1}]
         /\ Opens(new) = [Opens(tbl) EXCEPT ![s] = {Len(tbl) + 1}]
         /\ Announced(new) = Announced(tbl)
<1> DEFINE n == Len(tbl) + 1
<1> HIDE DEF n
<1>1. \A u \in Services :
        /\ DownRows(new, u) = IF u = s THEN DownRows(tbl, s) \cup {n} ELSE DownRows(tbl, u)
        /\ OpenRows(new, u) = IF u = s THEN {n} ELSE OpenRows(tbl, u)
        /\ RecoveredRows(new, u) = RecoveredRows(tbl, u)
  BY DEF DownAdded, New, n
<1>2. Outages(new) = [Outages(tbl) EXCEPT ![s] = @ \cup {n}]
  BY <1>1 DEF Outages
<1>3. Opens(new) = [Opens(tbl) EXCEPT ![s] = {n}]
  BY <1>1 DEF Opens
<1>4. Announced(new) = Announced(tbl)
  BY <1>1 DEF Announced
<1> QED
  BY <1>2, <1>3, <1>4 DEF n

LEMMA RecoveredAddedLog ==
  ASSUME NEW tbl, NEW new, NEW s \in Services, NEW now,
         RecoveredAdded(new, tbl, s, now)
  PROVE  /\ Outages(new) = Outages(tbl) /\ Opens(new) = Opens(tbl)
         /\ Announced(new) = [Announced(tbl) EXCEPT ![s] = @ \cup {Len(tbl) + 1}]
<1> DEFINE n == Len(tbl) + 1
<1> HIDE DEF n
<1>1. \A u \in Services :
        /\ DownRows(new, u) = DownRows(tbl, u)
        /\ OpenRows(new, u) = OpenRows(tbl, u)
        /\ RecoveredRows(new, u) =
             IF u = s THEN RecoveredRows(tbl, s) \cup {n} ELSE RecoveredRows(tbl, u)
  BY DEF RecoveredAdded, New, n
<1>2. Outages(new) = Outages(tbl) /\ Opens(new) = Opens(tbl)
  BY <1>1 DEF Outages, Opens
<1>3. Announced(new) = [Announced(tbl) EXCEPT ![s] = @ \cup {n}]
  BY <1>1 DEF Announced
<1> QED
  BY <1>2, <1>3 DEF n

\* The UPDATE ends the outage if it was the open one, and otherwise changes
\* nothing that the log knows.
LEMMA RowEndedLog ==
  ASSUME NEW tbl, NEW new, NEW s \in Services, NEW e \in DownRows(tbl, s), NEW now,
         RowEnded(new, tbl, e, now), OpenRows(tbl, s) \subseteq {e}
  PROVE  /\ Outages(new) = Outages(tbl) /\ Announced(new) = Announced(tbl)
         /\ \/ OpenRows(tbl, s) # {} /\ Opens(new) = [Opens(tbl) EXCEPT ![s] = {}]
            \/ Opens(new) = Opens(tbl)
<1>1. \A u \in Services : u # s => e \notin OpenRows(tbl, u)
  BY DEF OpenRows, DownRows
<1>2. \A u \in Services :
        /\ DownRows(new, u) = DownRows(tbl, u)
        /\ OpenRows(new, u) = IF u = s THEN {} ELSE OpenRows(tbl, u)
        /\ RecoveredRows(new, u) = RecoveredRows(tbl, u)
  BY <1>1 DEF RowEnded
<1>3. Outages(new) = Outages(tbl) /\ Announced(new) = Announced(tbl)
  BY <1>2 DEF Outages, Announced
<1>4. CASE OpenRows(tbl, s) = {}
  BY <1>2, <1>3, <1>4 DEF Opens
<1>5. CASE OpenRows(tbl, s) # {}
  <2>1. Opens(new) = [Opens(tbl) EXCEPT ![s] = {}]
    BY <1>2 DEF Opens
  <2> QED
    BY <1>3, <1>5, <2>1
<1> QED
  BY <1>4, <1>5
=============================================================================
