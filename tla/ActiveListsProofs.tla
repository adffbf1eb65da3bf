-------------------------- MODULE ActiveListsProofs --------------------------
(***************************************************************************)
(* The lists never exceed their LIMIT, and what the resolve requests of    *)
(* ActiveLists guarantee, for any number of admins, alerts, overlapping    *)
(* reads and errors.                                                       *)
(***************************************************************************)
EXTENDS ActiveLists, FiniteSetTheorems, WellFoundedInduction, TLAPS

Winning == {"updated", "read", "200"}

\* A request that got past its UPDATE has resolved its alert, and nothing
\* makes a resolved alert active again.
WinnerResolved ==
  \A q \in Requests : request[q].stage \in Winning =>
    request[q].alert \in Alerts /\ status[request[q].alert] = "resolved"

IInv ==
  /\ TypeOK
  /\ WinnerResolved
  /\ ResolvedByOne
  /\ PushExcludesResolved

-----------------------------------------------------------------------------
(* The LIMIT.                                                              *)

Below == {ss \in Nat \X Nat : ss[1] < ss[2]}

\* A set of natural numbers has a least element.
LEMMA Least ==
  ASSUME NEW S \in SUBSET Nat, S # {}
  PROVE  \E n \in S : \A m \in S : n <= m
<1>1. IsWellFoundedOn(Below, Nat)
  BY NatLessThanWellFounded DEF OpToRel, Below
<1>2. PICK n \in S : \A m \in S : <<m, n>> \notin Below
  BY <1>1, WFMin
<1>3. \A m \in S : ~(m < n)
  BY <1>2 DEF Below
<1> QED
  BY <1>3

\* The oldest alert of the list has fewer than Limit newer ones, and the rest
\* of the list is among these.
LEMMA ListWithinLimit ==
  /\ ActiveList \in Lists
  /\ Cardinality(ActiveList) <= Limit
<1>1. ActiveList \in Lists /\ Active \in Lists
  BY DEF ActiveList, Active, Lists
<1>2. /\ IsFiniteSet(ActiveList) /\ IsFiniteSet(Active)
      /\ Limit \in Nat /\ Alerts \subseteq Nat
  BY <1>1, ListsAssumption, FS_Subset DEF Lists
<1>3. CASE ActiveList = {}
  BY <1>1, <1>2, <1>3, FS_EmptySet
<1>4. CASE ActiveList # {}
  <2>1. PICK m \in ActiveList : \A a \in ActiveList : m <= a
    BY <1>1, <1>2, <1>4, Least DEF Lists
  <2> DEFINE Newer == {b \in Active : b > m}
  <2>2. Cardinality(Newer) < Limit /\ IsFiniteSet(Newer)
    BY <1>2, <2>1, FS_Subset DEF ActiveList
  <2>3. ActiveList \ {m} \in SUBSET Newer
    <3>1. \A a \in ActiveList : a \in Active /\ a \in Nat /\ m <= a
      BY <1>1, <1>2, <2>1 DEF ActiveList, Lists
    <3>2. \A a \in ActiveList \ {m} : a \in Active /\ a > m
      BY <2>1, <3>1
    <3> QED
      BY <3>2
  <2>4. Cardinality(ActiveList \ {m}) <= Cardinality(Newer)
    BY <2>2, <2>3, FS_Subset
  <2>5. Cardinality(ActiveList \ {m}) = Cardinality(ActiveList) - 1
    BY <1>2, <2>1, FS_RemoveElement
  <2>6. Cardinality(ActiveList) \in Nat /\ Cardinality(Newer) \in Nat
    BY <1>2, <2>2, FS_CardinalityType
  <2> HIDE DEF Newer
  <2> QED
    BY <1>1, <1>2, <2>2, <2>4, <2>5, <2>6
<1> QED
  BY <1>3, <1>4

\* Short(L): a list that may be on its way.
Short(L) == L \in Lists /\ Cardinality(L) <= Limit

LEMMA ShortLists == Short(ActiveList) /\ Short({})
  BY ListWithinLimit, FS_EmptySet, ListsAssumption DEF Short, Lists

\* The lists part of TypeOK, one list at a time.
LEMMA PendingShort ==
  TypeOK => /\ \A r \in Runs : Short(run[r].list)
            /\ \A q \in Requests : Short(request[q].list)
  BY DEF TypeOK, Pending, Short, Run, Request

-----------------------------------------------------------------------------
LEMMA InitIInv == Init => IInv
<1> SUFFICES ASSUME Init PROVE IInv
  OBVIOUS
<1>1. TypeOK
  <2>1. \A L \in Pending : L = {}
    BY DEF Init, Pending
  <2>2. \A L \in Pending : Cardinality(L) <= Limit
    BY <2>1, ShortLists DEF Short
  <2> QED
    BY <2>2, ListsAssumption DEF Init, TypeOK, Request, Run, Lists
<1> QED
  BY <1>1 DEF Init, IInv, WinnerResolved, Winning, ResolvedByOne, PushExcludesResolved

\* The steps of a run: what it reads is within the limit.
LEMMA ReadStep ==
  ASSUME IInv, NEW r \in Runs, Read(r)
  PROVE  IInv'
<1>1. TypeOK /\ run \in [Runs -> Run] /\ run[r] \in Run /\ run[r].list \in Lists
  BY DEF IInv, TypeOK, Run
<1>2. /\ run' \in [Runs -> Run]
      /\ run'[r].list \in {run[r].list, ActiveList, {}}
      /\ \A p \in Runs \ {r} : run'[p] = run[p]
  <2>1. CASE Ask(r) \/ AnswerError(r)
    BY <1>1, <2>1 DEF Ask, AnswerError, Run
  <2>2. CASE Answer(r)
    BY <1>1, <2>2, ListWithinLimit DEF Answer, Run
  <2>3. CASE Emit(r)
    BY <1>1, <2>3 DEF Emit, Run, Lists
  <2> QED
    BY <2>1, <2>2, <2>3 DEF Read
<1>3. UNCHANGED <<status, request, joined, joins>>
  BY DEF Read, Ask, Answer, AnswerError, Emit
<1>4. shown' \in [Apps -> Lists \cup {NULL}]
  BY <1>1 DEF TypeOK, Read, Ask, Answer, AnswerError, Emit, Shown
<1>5. errors' \in 0 .. MaxErrors
  BY <1>1, ListsAssumption DEF TypeOK, Read, Ask, Answer, AnswerError, Emit, Failing
<1>6. \A L \in Pending' : Cardinality(L) <= Limit
  BY <1>1, <1>2, <1>3, ShortLists, PendingShort DEF Pending, Short
<1>7. TypeOK'
  BY <1>1, <1>2, <1>3, <1>4, <1>5, <1>6 DEF TypeOK
<1> QED
  BY <1>3, <1>7 DEF IInv, WinnerResolved, ResolvedByOne, PushExcludesResolved

\* The apps come and go.
LEMMA AppStep ==
  ASSUME IInv, NEW c \in Apps, Join(c) \/ Leave(c)
  PROVE  IInv'
<1>1. UNCHANGED <<status, run, request, errors>> /\ TypeOK
  BY DEF IInv, Join, Leave
<1>2. /\ joined' \subseteq Apps /\ joins' \in 0 .. MaxJoins
      /\ shown' \in [Apps -> Lists \cup {NULL}]
  BY <1>1, ListsAssumption DEF TypeOK, Join, Leave
<1>3. Pending' = Pending
  BY <1>1 DEF Pending
<1>4. TypeOK'
  BY <1>1, <1>2, <1>3 DEF TypeOK
<1> QED
  BY <1>1, <1>4 DEF IInv, WinnerResolved, ResolvedByOne, PushExcludesResolved

LEMMA Stutter ==
  ASSUME IInv, UNCHANGED vars
  PROVE  IInv'
<1>1. TypeOK'
  BY DEF IInv, TypeOK, Pending, vars
<1> QED
  BY <1>1 DEF IInv, WinnerResolved, ResolvedByOne, PushExcludesResolved, vars

LEMMA TriggerStep ==
  ASSUME IInv, NEW a \in Alerts, Trigger(a)
  PROVE  IInv'
<1>1. /\ status' \in [Alerts -> {"absent", "active", "resolved"}]
      /\ \A b \in Alerts : status[b] = "resolved" => status'[b] = "resolved"
  BY DEF IInv, TypeOK, Trigger
<1>2. UNCHANGED <<run, request, joined, shown, errors, joins>> /\ Pending' = Pending
  BY DEF Trigger, Pending
<1>3. TypeOK'
  BY <1>1, <1>2 DEF IInv, TypeOK
<1> QED
  BY <1>1, <1>2, <1>3 DEF IInv, WinnerResolved, ResolvedByOne, PushExcludesResolved

\* The three outcomes of the UPDATE.
LEMMA ResolveStep ==
  ASSUME IInv, NEW q \in Requests, NEW a \in Alerts, Resolve(q, a)
  PROVE  IInv'
<1>1. /\ status' \in [Alerts -> {"absent", "active", "resolved"}]
      /\ \A b \in Alerts : status[b] = "resolved" => status'[b] = "resolved"
  BY DEF IInv, TypeOK, Resolve, Resolved
<1>2. \E stage \in {"updated", "404", "500"} :
        /\ request' = [request EXCEPT ![q].stage = stage, ![q].alert = a]
        /\ stage = "updated" => status[a] = "active" /\ status'[a] = "resolved"
  BY DEF IInv, TypeOK, Resolve, Resolved
<1>3. PICK stage \in {"updated", "404", "500"} :
        /\ request' = [request EXCEPT ![q].stage = stage, ![q].alert = a]
        /\ stage = "updated" => status[a] = "active" /\ status'[a] = "resolved"
  BY <1>2
<1>4. request' \in [Requests -> Request]
  BY <1>3 DEF IInv, TypeOK, Request
<1>5. /\ request'[q].stage = stage /\ request'[q].alert = a
      /\ \A p \in Requests \ {q} : request'[p] = request[p]
      /\ request'[q].list = request[q].list
  BY <1>3 DEF IInv, TypeOK, Request
<1>6. WinnerResolved'
  BY <1>1, <1>3, <1>5 DEF IInv, WinnerResolved, Winning
<1>7. ResolvedByOne'
  <2> SUFFICES ASSUME NEW p1 \in Requests, NEW p2 \in Requests, p1 # p2,
                      request'[p1].alert = request'[p2].alert,
                      request'[p1].stage \in Winning
               PROVE  request'[p2].stage \in {"new", "404", "500"}
    BY DEF ResolvedByOne, Winning
  <2>1. CASE p1 # q /\ p2 # q
    BY <1>5, <2>1 DEF IInv, ResolvedByOne, Winning
  <2>2. CASE p1 = q
    <3>1. status[a] = "active" /\ p2 # q
      BY <1>3, <1>5, <2>2 DEF Winning
    <3>2. request[p2].alert = a /\ request[p2].stage \notin Winning
      BY <1>5, <2>2, <3>1 DEF IInv, WinnerResolved
    <3> QED
      BY <1>5, <3>1, <3>2 DEF IInv, TypeOK, Request, Winning
  <2>3. CASE p2 = q
    <3>1. /\ request[p1].alert = a /\ request[p1].stage \in Winning
      BY <1>5, <2>3
    <3>2. status[a] = "resolved"
      BY <3>1 DEF IInv, WinnerResolved
    <3> QED
      BY <1>3, <1>5, <2>3, <3>2
  <2> QED
    BY <2>1, <2>2, <2>3
<1>8. PushExcludesResolved'
  BY <1>3, <1>5 DEF IInv, PushExcludesResolved
<1>9. TypeOK'
  <2>1. /\ UNCHANGED <<run, joined, shown, joins>> /\ Pending' = Pending
        /\ errors' \in 0 .. MaxErrors
    BY <1>5, ListsAssumption DEF IInv, TypeOK, Resolve, Failing, Pending
  <2> QED
    BY <1>1, <1>4, <2>1 DEF IInv, TypeOK
<1> QED
  BY <1>6, <1>7, <1>8, <1>9 DEF IInv

\* The SELECT that follows no longer finds the alert.
LEMMA ServeStep ==
  ASSUME IInv, NEW q \in Requests, Serve(q)
  PROVE  IInv'
<1>1. status' = status
  BY DEF Serve, ReadBack, Push
<1>2. request[q].stage \in Winning
  BY DEF Serve, ReadBack, Push, Winning
<1>3. /\ request[q].alert \in Alerts
      /\ status[request[q].alert] = "resolved"
  BY <1>2 DEF IInv, WinnerResolved
<1>4. ActiveList \in Lists /\ request[q].alert \notin ActiveList
  BY <1>3 DEF ActiveList, Active, Lists
<1>5. /\ request' \in [Requests -> Request]
      /\ request'[q].stage \in {"read", "200", "500"}
      /\ request'[q].stage = "read" => request'[q].list = ActiveList
      /\ request'[q].list \in {request[q].list, ActiveList, {}}
      /\ \A p \in Requests : request'[p].alert = request[p].alert
      /\ \A p \in Requests \ {q} : request'[p] = request[p]
  <2>1. request \in [Requests -> Request] /\ request[q] \in Request
    BY DEF IInv, TypeOK
  <2>2. CASE ReadBack(q)
    <3>1. CASE request' = [request EXCEPT ![q].stage = "read", ![q].list = ActiveList]
      BY <1>4, <2>1, <3>1 DEF Request
    <3>2. CASE request' = [request EXCEPT ![q].stage = "500"]
      BY <2>1, <3>2 DEF Request
    <3> QED
      BY <2>2, <3>1, <3>2 DEF ReadBack
  <2>3. CASE Push(q)
    BY <2>1, <2>3 DEF Push, Request, Lists
  <2> QED
    BY <2>2, <2>3 DEF Serve
<1>6. WinnerResolved'
  BY <1>1, <1>3, <1>5 DEF IInv, WinnerResolved
<1>7. ResolvedByOne'
  <2> SUFFICES ASSUME NEW p1 \in Requests, NEW p2 \in Requests, p1 # p2,
                      request[p1].alert = request[p2].alert,
                      request'[p1].stage \in Winning
               PROVE  request'[p2].stage \in {"new", "404", "500"}
    BY <1>5 DEF ResolvedByOne, Winning
  <2>1. request[p1].stage \in Winning
    BY <1>2, <1>5
  <2>2. request[p2].stage \in {"new", "404", "500"}
    BY <2>1 DEF IInv, ResolvedByOne, Winning
  <2> QED
    BY <1>2, <1>5, <2>2 DEF Winning
<1>8. PushExcludesResolved'
  BY <1>4, <1>5 DEF IInv, PushExcludesResolved
<1>9. TypeOK'
  <2>1. UNCHANGED <<run, joined, joins>> /\ TypeOK
    BY DEF IInv, Serve, ReadBack, Push
  <2>2. shown' \in [Apps -> Lists \cup {NULL}]
    BY <2>1 DEF TypeOK, Serve, ReadBack, Push, Shown, Request
  <2>3. errors' \in 0 .. MaxErrors
    BY <2>1, ListsAssumption DEF TypeOK, Serve, ReadBack, Push, Failing
  <2>4. \A L \in Pending' : Cardinality(L) <= Limit
    BY <1>5, <2>1, ShortLists, PendingShort DEF Pending, Short
  <2> QED
    BY <1>1, <1>5, <2>1, <2>2, <2>3, <2>4 DEF TypeOK
<1> QED
  BY <1>6, <1>7, <1>8, <1>9 DEF IInv

LEMMA NextIInv == IInv /\ [Next]_vars => IInv'
<1> SUFFICES ASSUME IInv, [Next]_vars PROVE IInv'
  OBVIOUS
<1>1. ASSUME NEW q \in Requests, NEW a \in Alerts, Resolve(q, a) PROVE IInv'
  BY <1>1, ResolveStep
<1>2. ASSUME NEW q \in Requests, Serve(q) PROVE IInv'
  BY <1>2, ServeStep
<1>3. ASSUME NEW a \in Alerts, Trigger(a) PROVE IInv'
  BY <1>3, TriggerStep
<1>4. ASSUME NEW r \in Runs, Read(r) PROVE IInv'
  BY <1>4, ReadStep
<1>5. ASSUME NEW c \in Apps, Join(c) \/ Leave(c) PROVE IInv'
  BY <1>5, AppStep
<1>6. CASE UNCHANGED vars
  BY <1>6, Stutter
<1> QED
  BY <1>1, <1>2, <1>3, <1>4, <1>5, <1>6 DEF Next

LEMMA Invariance == Spec => []IInv
  BY InitIInv, NextIInv, PTL DEF Spec

-----------------------------------------------------------------------------
\* Every variable keeps its type; no list on its way to an app, read by a run
\* of emitActiveAlerts or by a request, is longer than the LIMIT.
THEOREM TypeCorrect == Spec => []TypeOK
<1>1. IInv => TypeOK
  BY DEF IInv
<1> QED
  BY <1>1, Invariance, PTL

\* An alert is resolved by one request: the others get 404, or 500 if their
\* query failed, however many there are and however they interleave.
THEOREM OneResolver == Spec => []ResolvedByOne
<1>1. IInv => ResolvedByOne
  BY DEF IInv
<1> QED
  BY <1>1, Invariance, PTL

\* The list a resolve request pushes never contains the alert it resolved.
THEOREM PushIsUpToDate == Spec => []PushExcludesResolved
<1>1. IInv => PushExcludesResolved
  BY DEF IInv
<1> QED
  BY <1>1, Invariance, PTL
=============================================================================
