-------------------------- MODULE ClientStoreProofs --------------------------
(***************************************************************************)
(* Theorems about ClientStore, for any number of requests under way, any   *)
(* accounts and any bounds.                                                *)
(***************************************************************************)
EXTENDS ClientStore, FiniteSetTheorems, TLAPS

-----------------------------------------------------------------------------
(* Typing.                                                                 *)

LedgerType ==
  ledger \in [Numbers -> Seq(BOOLEAN)] /\ \A n \in Numbers : Newest(n) <= MaxVersion

\* For every account a version.
Versions == [Numbers -> 0 .. MaxVersion]

\* A slot in use holds a request.
CallsInUse == \A r \in Slots : stage[r] # "idle" => call[r] \in Calls

TypeInv == TypeOK /\ CallsInUse

LEMMA RowFields ==
  ASSUME NEW row \in Rows
  PROVE  row.version \in 1 .. MaxVersion /\ row.active \in BOOLEAN
BY DEF Rows

LEMMA NewestType ==
  ASSUME LedgerType, NEW n \in Numbers
  PROVE  /\ Newest(n) \in Nat /\ Newest(n) <= MaxVersion
         /\ \A v \in 1 .. Newest(n) : ledger[n][v] \in BOOLEAN /\ Row(n, v) \in Rows
<1>1. ledger[n] \in Seq(BOOLEAN) /\ Newest(n) <= MaxVersion
  BY DEF LedgerType
<1>2. Newest(n) \in Nat
  BY <1>1 DEF Newest
<1>3. ASSUME NEW v \in 1 .. Newest(n) PROVE ledger[n][v] \in BOOLEAN
  BY <1>1, <1>3 DEF Newest
<1>4. ASSUME NEW v \in 1 .. Newest(n) PROVE Row(n, v) \in Rows
  <2>1. v \in 1 .. MaxVersion
    BY <1>1, <1>2, StoreAssumption
  <2> QED  BY <1>3, <2>1 DEF Row, Rows
<1> QED  BY <1>1, <1>2, <1>3, <1>4

\* A list shows versions of moments of their own.
LEMMA FetchOutcome ==
  ASSUME LedgerType, NEW c \in Calls, NEW from \in Versions, NEW a \in Outcomes(c, from),
         c.op = "fetch"
  PROVE  \E v \in Moments(from) :
           /\ DOMAIN a = {m \in Numbers : v[m] # 0 /\ ledger[m][v[m]]}
           /\ \A n \in DOMAIN a : v[n] \in 1 .. Newest(n) /\ a[n] = Row(n, v[n])
<1>1. PICK v \in Moments(from) :
        a = [n \in {m \in Numbers : v[m] # 0 /\ ledger[m][v[m]]} |-> Row(n, v[n])]
  BY DEF Outcomes
<1>2. ASSUME NEW n \in Numbers, v[n] # 0 PROVE v[n] \in 1 .. Newest(n)
  <2>1. v[n] \in 0 .. MaxVersion /\ v[n] \in from[n] .. Newest(n)
    BY DEF Moments
  <2> QED  BY <1>2, <2>1, NewestType
<1> QED  BY <1>1, <1>2

\* An order opens a number that is free.
LEMMA CreateOutcome ==
  ASSUME NEW c \in Calls, NEW from \in Versions, NEW a \in Outcomes(c, from), c.op = "create"
  PROVE  \E n \in Numbers :
           Newest(n) = 0 /\ a = [m \in {n} |-> [version |-> 1, active |-> TRUE]]
BY DEF Outcomes

\* A write adds a version to an account that has one.
LEMMA WriteOutcome ==
  ASSUME LedgerType, NEW c \in Calls, NEW from \in Versions, NEW a \in Outcomes(c, from),
         c.op \in {"update", "close"}
  PROVE  /\ c.number \in Numbers
         /\ Newest(c.number) # 0 /\ Newest(c.number) < MaxVersion
         /\ from[c.number] <= Newest(c.number)
         /\ \E active \in BOOLEAN :
              a = [m \in {c.number} |-> [version |-> Newest(c.number) + 1, active |-> active]]
<1> DEFINE n == c.number
<1>1. n \in Numbers
  BY StoreAssumption DEF Calls
<1>2. PICK v \in Bases(n, from[n]) :
        /\ Newest(n) < MaxVersion
        /\ a = [m \in {n} |-> [version |-> Newest(m) + 1,
                               active |-> c.op = "update" /\ ledger[m][v]]]
  BY DEF Outcomes
<1>3. PICK u \in from[n] .. v : u # 0
  BY <1>2 DEF Bases
<1>4. from[n] \in Nat /\ Newest(n) \in Nat /\ v \in from[n] .. Newest(n)
  BY <1>1, <1>2, NewestType DEF Bases, Versions
<1>5. Newest(n) # 0 /\ from[n] <= Newest(n)
  BY <1>3, <1>4
<1> DEFINE active == c.op = "update" /\ ledger[n][v]
<1>6. active \in BOOLEAN
  OBVIOUS
<1>7. a = [m \in {n} |-> [version |-> Newest(n) + 1, active |-> active]]
  BY <1>2
<1> HIDE DEF active, n
<1>8. \E b \in BOOLEAN : a = [m \in {n} |-> [version |-> Newest(n) + 1, active |-> b]]
  BY <1>6, <1>7
<1> QED  BY <1>1, <1>2, <1>5, <1>8 DEF n

\* What a request can be answered with is well typed.
LEMMA OutcomeType ==
  ASSUME LedgerType, NEW c \in Calls, NEW from \in Versions, NEW a \in Outcomes(c, from)
  PROVE  a \in Answers /\ DOMAIN a \subseteq Numbers /\ \A n \in DOMAIN a : a[n] \in Rows
<1>1. CASE c.op = "fetch"
  <2>1. PICK v \in Moments(from) :
          /\ DOMAIN a = {m \in Numbers : v[m] # 0 /\ ledger[m][v[m]]}
          /\ \A n \in DOMAIN a : v[n] \in 1 .. Newest(n) /\ a[n] = Row(n, v[n])
    BY <1>1, FetchOutcome
  <2>2. DOMAIN a \subseteq Numbers /\ \A n \in DOMAIN a : a[n] \in Rows
    BY <2>1, NewestType
  <2>3. a = [n \in DOMAIN a |-> a[n]]
    BY <1>1 DEF Outcomes
  <2>4. a \in [DOMAIN a -> Rows]
    BY <2>2, <2>3
  <2> QED  BY <2>2, <2>4 DEF Answers
<1>2. CASE c.op = "create"
  <2>1. PICK n \in Numbers : a = [m \in {n} |-> [version |-> 1, active |-> TRUE]]
    BY <1>2, CreateOutcome
  <2>2. a \in [{n} -> Rows]
    BY <2>1, StoreAssumption DEF Rows
  <2> QED  BY <2>2 DEF Answers
<1>3. CASE c.op \in {"update", "close"}
  <2> DEFINE n == c.number
  <2>1. n \in Numbers /\ Newest(n) \in Nat /\ Newest(n) < MaxVersion
    BY <1>3, WriteOutcome, NewestType
  <2>2. PICK active \in BOOLEAN :
          a = [m \in {n} |-> [version |-> Newest(n) + 1, active |-> active]]
    BY <1>3, WriteOutcome
  <2>3. a \in [{n} -> Rows]
    BY <2>1, <2>2, StoreAssumption DEF Rows
  <2> QED  BY <2>1, <2>3 DEF Answers
<1> QED  BY <1>1, <1>2, <1>3 DEF Calls

LEMMA AnswerFields ==
  ASSUME NEW a \in Answers
  PROVE  DOMAIN a \subseteq Numbers /\ \A n \in DOMAIN a : a[n] \in Rows
BY DEF Answers

\* What a request stores: the version it is answered with, and nothing that was
\* stored before is touched.
LEMMA StoreAppends ==
  ASSUME LedgerType, NEW c \in Calls, NEW from \in Versions, NEW a \in Outcomes(c, from),
         Store(c.op, a), NEW n \in Numbers
  PROVE  IF c.op # "fetch" /\ n \in DOMAIN a
         THEN /\ a[n] \in Rows /\ a[n].version = Newest(n) + 1
              /\ ledger'[n] = Append(ledger[n], a[n].active)
         ELSE ledger'[n] = ledger[n]
<1>1. CASE c.op # "fetch" /\ n \in DOMAIN a
  <2>1. a[n] \in Rows
    BY <1>1, OutcomeType
  <2>2. a[n].version = Newest(n) + 1
    <3>1. CASE c.op = "create"
      <4>1. PICK k \in Numbers :
              Newest(k) = 0 /\ a = [m \in {k} |-> [version |-> 1, active |-> TRUE]]
        BY <3>1, CreateOutcome
      <4>2. n = k /\ a[n].version = 1 /\ Newest(n) = 0
        BY <1>1, <4>1
      <4> QED  BY <4>2
    <3>2. CASE c.op \in {"update", "close"}
      <4>1. PICK active \in BOOLEAN :
              a = [m \in {c.number} |-> [version |-> Newest(c.number) + 1, active |-> active]]
        BY <3>2, WriteOutcome
      <4>2. n = c.number
        BY <1>1, <4>1
      <4> QED  BY <4>1, <4>2
    <3> QED  BY <1>1, <3>1, <3>2 DEF Calls
  <2> QED  BY <1>1, <2>1, <2>2 DEF Store
<1>2. CASE ~(c.op # "fetch" /\ n \in DOMAIN a)
  BY <1>2 DEF Store
<1> QED  BY <1>1, <1>2

LEMMA StoreType ==
  ASSUME LedgerType, NEW c \in Calls, NEW from \in Versions, NEW a \in Outcomes(c, from),
         Store(c.op, a)
  PROVE  LedgerType'
<1>1. ASSUME NEW n \in Numbers
      PROVE  ledger'[n] \in Seq(BOOLEAN) /\ Newest(n)' <= MaxVersion
  <2>1. ledger[n] \in Seq(BOOLEAN) /\ Newest(n) <= MaxVersion
    BY DEF LedgerType
  <2>2. CASE c.op # "fetch" /\ n \in DOMAIN a
    <3>1. /\ a[n] \in Rows /\ a[n].version = Newest(n) + 1
          /\ ledger'[n] = Append(ledger[n], a[n].active)
      BY <2>2, StoreAppends
    <3>2. a[n].active \in BOOLEAN /\ a[n].version <= MaxVersion
      BY <3>1, RowFields, StoreAssumption
    <3>3. ledger'[n] \in Seq(BOOLEAN) /\ Len(ledger'[n]) = Len(ledger[n]) + 1
      BY <2>1, <3>1, <3>2
    <3> QED  BY <3>1, <3>2, <3>3 DEF Newest
  <2>3. CASE ~(c.op # "fetch" /\ n \in DOMAIN a)
    <3>1. ledger'[n] = ledger[n]
      BY <2>3, StoreAppends
    <3> QED  BY <2>1, <3>1 DEF Newest
  <2> QED  BY <2>2, <2>3
<1>2. ledger' = [n \in Numbers |-> ledger'[n]]
  BY DEF Store
<1> QED  BY <1>1, <1>2 DEF LedgerType

LEMMA FulfilType ==
  ASSUME TypeOK, NEW op, NEW a \in Answers, Fulfil(op, a)
  PROVE  items' \in [Numbers -> Seq(Rows)] /\ loading' \in BOOLEAN /\ error' \in BOOLEAN
<1>1. Replaced(a) \in [Numbers -> Seq(Rows)]
  BY AnswerFields DEF Replaced
<1>2. Pushed(a) \in [Numbers -> Seq(Rows)]
  BY AnswerFields DEF Pushed, TypeOK
<1>3. Updated(a) \in [Numbers -> Seq(Rows)]
  <2> SUFFICES ASSUME NEW n \in Numbers, n \in DOMAIN a, items[n] # << >>
               PROVE  [items[n] EXCEPT ![1] = a[n]] \in Seq(Rows)
    BY DEF Updated, TypeOK
  <2>1. items[n] \in Seq(Rows) /\ a[n] \in Rows
    BY AnswerFields DEF TypeOK
  <2> QED  BY <2>1
<1> QED  BY <1>1, <1>2, <1>3 DEF Fulfil, TypeOK

LEMMA ReleaseType ==
  ASSUME TypeInv, NEW r \in Slots, Release(r)
  PROVE  /\ stage' \in [Slots -> {"idle", "sent", "answered", "abandoned"}]
         /\ call' \in [Slots -> Calls \cup {NoCall}]
         /\ since' \in [Slots -> Versions]
         /\ answer' \in [Slots -> Answers \cup {Null}]
         /\ CallsInUse'
<1>1. [n \in Numbers |-> 0] \in Versions
  BY StoreAssumption DEF Versions
<1>2. since' \in [Slots -> Versions]
  BY <1>1 DEF Release, TypeInv, TypeOK, Versions
<1> QED  BY <1>2 DEF Release, TypeInv, TypeOK, CallsInUse

LEMMA TypeInit == Init => TypeInv
<1> SUFFICES ASSUME Init PROVE TypeInv
  OBVIOUS
<1>1. items \in [Numbers -> Seq(Rows)]
  BY DEF Init
<1>2. dispatched \in 0 .. MaxDispatches /\ orders \in 0 .. dispatched
  BY StoreAssumption DEF Init
<1>3. CallsInUse
  BY DEF Init, CallsInUse
<1>4. ledger \in [Numbers -> Seq(BOOLEAN)] /\ \A n \in Numbers : Newest(n) <= MaxVersion
  <2>1. \A n \in Numbers : ledger[n] = << >>
    BY DEF Init
  <2>2. Len(<< >>) = 0
    OBVIOUS
  <2> QED  BY <2>1, <2>2, StoreAssumption DEF Init, Newest
<1>5. since \in [Slots -> [Numbers -> 0 .. MaxVersion]]
  BY StoreAssumption DEF Init
<1> QED  BY <1>1, <1>2, <1>3, <1>4, <1>5 DEF Init, TypeInv, TypeOK

\* The parts of the type invariant this section speaks of.
LEMMA LedgerTyped ==
  ASSUME TypeInv
  PROVE  LedgerType /\ \A r \in Slots : since[r] \in Versions
BY DEF TypeInv, TypeOK, LedgerType, Versions

LEMMA DispatchType ==
  ASSUME TypeInv, NEW r \in Slots, NEW c \in Calls, Dispatch(r, c)
  PROVE  TypeInv'
<1>1. dispatched' \in 0 .. MaxDispatches /\ orders' \in 0 .. dispatched'
  BY StoreAssumption DEF Dispatch, TypeInv, TypeOK
<1>2. /\ stage' \in [Slots -> {"idle", "sent", "answered", "abandoned"}]
      /\ call' \in [Slots -> Calls \cup {NoCall}] /\ CallsInUse'
  BY DEF Dispatch, TypeInv, TypeOK, CallsInUse
<1>3. loading' \in BOOLEAN /\ error' \in BOOLEAN /\ tangled' \in BOOLEAN
  BY DEF Dispatch, Loads, TypeInv, TypeOK
<1>4. UNCHANGED <<ledger, answer, items>>
  BY DEF Dispatch
<1>5. since' \in [Slots -> [Numbers -> 0 .. MaxVersion]]
  <2>1. \A n \in Numbers : Newest(n) \in 0 .. MaxVersion
    BY LedgerTyped, NewestType, StoreAssumption
  <2>2. [n \in Numbers |-> Newest(n)] \in [Numbers -> 0 .. MaxVersion]
    BY <2>1
  <2> QED  BY <2>2 DEF Dispatch, TypeInv, TypeOK
<1> QED  BY <1>1, <1>2, <1>3, <1>4, <1>5 DEF TypeInv, TypeOK, Newest

LEMMA ServeType ==
  ASSUME TypeInv, NEW r \in Slots, Serve(r)
  PROVE  TypeInv'
<1>1. call[r] \in Calls /\ since[r] \in Versions /\ LedgerType
  BY LedgerTyped DEF Serve, TypeInv, CallsInUse
<1>2. PICK a \in Outcomes(call[r], since[r]) :
        /\ Store(call[r].op, a)
        /\ \E lost \in BOOLEAN : answer' = [answer EXCEPT ![r] = IF lost THEN Null ELSE a]
  BY DEF Serve
<1>3. a \in Answers /\ LedgerType'
  BY <1>1, <1>2, OutcomeType, StoreType
<1>4. answer' \in [Slots -> Answers \cup {Null}]
  BY <1>2, <1>3 DEF TypeInv, TypeOK
<1> QED  BY <1>3, <1>4 DEF Serve, TypeInv, TypeOK, CallsInUse, LedgerType

LEMMA SettleType ==
  ASSUME TypeInv, NEW r \in Slots, Settle(r)
  PROVE  TypeInv'
<1>1. items' \in [Numbers -> Seq(Rows)] /\ loading' \in BOOLEAN /\ error' \in BOOLEAN
  <2>1. CASE answer[r] # Null
    BY <2>1, FulfilType DEF Settle, TypeInv, TypeOK
  <2>2. CASE answer[r] = Null
    BY <2>2 DEF Settle, Reject, TypeInv, TypeOK
  <2> QED  BY <2>1, <2>2
<1> QED  BY <1>1, ReleaseType DEF Settle, TypeInv, TypeOK, Newest, Versions

LEMMA GiveUpType ==
  ASSUME TypeInv, NEW r \in Slots, GiveUp(r)
  PROVE  TypeInv'
<1>1. CASE stage[r] = "answered"
  BY <1>1, ReleaseType DEF GiveUp, Reject, TypeInv, TypeOK, Newest, Versions
<1>2. CASE stage[r] # "answered"
  BY <1>2 DEF GiveUp, Pending, Reject, TypeInv, TypeOK, CallsInUse, Newest
<1> QED  BY <1>1, <1>2

LEMMA ServeLateType ==
  ASSUME TypeInv, NEW r \in Slots, ServeLate(r)
  PROVE  TypeInv'
<1>1. LedgerType'
  <2>1. call[r] \in Calls /\ since[r] \in Versions /\ LedgerType
    BY LedgerTyped DEF ServeLate, TypeInv, CallsInUse
  <2>2. CASE \E a \in Outcomes(call[r], since[r]) : Store(call[r].op, a)
    BY <2>1, <2>2, StoreType
  <2>3. CASE UNCHANGED ledger
    BY <2>1, <2>3 DEF LedgerType, Newest
  <2> QED  BY <2>2, <2>3 DEF ServeLate
<1> QED  BY <1>1, ReleaseType DEF ServeLate, TypeInv, TypeOK, LedgerType, Versions

\* What another session asks for is a request like any other.
LEMMA ElsewhereCall ==
  ASSUME TypeInv, NEW n \in Numbers, ChangeElsewhere(n)
  PROVE  \E c \in Calls, from \in Versions :
           c.op # "create" /\ \E a \in Outcomes(c, from) : Store(c.op, a)
<1> DEFINE from == [m \in Numbers |-> 1]
<1>1. from \in Versions
  BY StoreAssumption DEF Versions
<1> HIDE DEF from
<1>2. PICK op \in {"update", "close"} :
        \E a \in Outcomes([op |-> op, number |-> n], from) : Store(op, a)
  BY DEF ChangeElsewhere, from
<1> DEFINE c == [op |-> op, number |-> n]
<1>3. c \in Calls /\ c.op = op
  BY DEF Calls
<1> HIDE DEF c
<1>4. \E a \in Outcomes(c, from) : Store(c.op, a)
  BY <1>2, <1>3 DEF c
<1> QED  BY <1>1, <1>3, <1>4

LEMMA ElsewhereType ==
  ASSUME TypeInv, NEW n \in Numbers, ChangeElsewhere(n)
  PROVE  TypeInv'
<1>1. LedgerType'
  BY ElsewhereCall, LedgerTyped, StoreType
<1> QED  BY <1>1 DEF ChangeElsewhere, TypeInv, TypeOK, CallsInUse, LedgerType

LEMMA TypeStep == TypeInv /\ [Next]_vars => TypeInv'
<1> SUFFICES ASSUME TypeInv, [Next]_vars PROVE TypeInv'
  OBVIOUS
<1>1. ASSUME NEW r \in Slots, Fail(r) PROVE TypeInv'
  BY <1>1 DEF Fail, TypeInv, TypeOK, CallsInUse, Newest
<1>2. CASE UNCHANGED vars
  BY <1>2 DEF vars, TypeInv, TypeOK, CallsInUse, Newest
<1> QED
  BY <1>1, <1>2, DispatchType, ServeType, SettleType, GiveUpType, ServeLateType, ElsewhereType
  DEF Next, Quiescent

\* Every variable of the slice, of its requests and of the ledger has its type, for
\* any number of requests and accounts (accountsSlice.ts, accountService.ts).
THEOREM TypeCorrect == Spec => []TypeOK
<1> QED  BY TypeInit, TypeStep, PTL DEF Spec, TypeInv

-----------------------------------------------------------------------------
(* The spinner.                                                            *)

\* A step of one request leaves the others under way.
LEMMA OthersPending ==
  ASSUME TypeInv, NEW r \in Slots, NEW t \in Slots, t # r, Pending(t), call[t].op = "fetch",
         Serve(r) \/ Fail(r) \/ Settle(r) \/ GiveUp(r) \/ ServeLate(r)
  PROVE  Pending(t)' /\ call'[t].op = "fetch"
BY DEF Serve, Fail, Settle, GiveUp, ServeLate, Release, Pending, TypeInv, TypeOK

LEMMA LoadingStep == TypeInv /\ LoadingMeansFetching /\ [Next]_vars => LoadingMeansFetching'
<1> SUFFICES ASSUME TypeInv, LoadingMeansFetching, [Next]_vars, loading'
             PROVE  \E t \in Slots : Pending(t)' /\ call'[t].op = "fetch"
  BY DEF LoadingMeansFetching
<1>1. ASSUME NEW r \in Slots, NEW c \in Calls, Dispatch(r, c)
      PROVE  \E t \in Slots : Pending(t)' /\ call'[t].op = "fetch"
  <2>1. CASE c.op = "fetch"
    <3>1. Pending(r)' /\ call'[r].op = "fetch"
      BY <1>1, <2>1 DEF Dispatch, Pending, TypeInv, TypeOK
    <3> QED  BY <3>1
  <2>2. CASE c.op # "fetch"
    <3>1. PICK t \in Slots : Pending(t) /\ call[t].op = "fetch"
      BY <1>1, <2>2 DEF Dispatch, Loads, LoadingMeansFetching
    <3>2. t # r
      BY <1>1, <3>1 DEF Dispatch, Pending
    <3>3. Pending(t)' /\ call'[t].op = "fetch"
      BY <1>1, <3>1, <3>2 DEF Dispatch, Pending, TypeInv, TypeOK
    <3> QED  BY <3>3
  <2> QED  BY <2>1, <2>2
<1>2. ASSUME NEW r \in Slots, Serve(r) \/ Fail(r) \/ Settle(r) \/ GiveUp(r) \/ ServeLate(r)
      PROVE  \E t \in Slots : Pending(t)' /\ call'[t].op = "fetch"
  <2>1. loading
    BY <1>2 DEF Serve, Fail, Settle, Fulfil, Reject, GiveUp, ServeLate
  <2>2. PICK t \in Slots : Pending(t) /\ call[t].op = "fetch"
    BY <2>1 DEF LoadingMeansFetching
  <2>3. CASE t # r
    BY <1>2, <2>2, <2>3, OthersPending
  <2>4. CASE t = r
    <3>1. CASE Serve(r) \/ Fail(r)
      <4>1. Pending(r)' /\ call'[r].op = "fetch"
        BY <2>2, <2>4, <3>1 DEF Serve, Fail, Pending, TypeInv, TypeOK
      <4> QED  BY <4>1
    <3>2. CASE Settle(r) \/ GiveUp(r)
      BY <2>2, <2>4, <3>2 DEF Settle, GiveUp, Fulfil, Reject
    <3>3. CASE ServeLate(r)
      BY <2>2, <2>4, <3>3 DEF ServeLate, Pending
    <3> QED  BY <1>2, <3>1, <3>2, <3>3
  <2> QED  BY <2>3, <2>4
<1>3. ASSUME UNCHANGED <<stage, call, loading>>
      PROVE  \E t \in Slots : Pending(t)' /\ call'[t].op = "fetch"
  BY <1>3 DEF LoadingMeansFetching, Pending
<1>4. ASSUME NEW n \in Numbers, ChangeElsewhere(n) PROVE UNCHANGED <<stage, call, loading>>
  BY <1>4 DEF ChangeElsewhere
<1> QED  BY <1>1, <1>2, <1>3, <1>4 DEF Next, Quiescent, vars

\* The spinner of the account list is on only while a list is being fetched, whatever
\* the number of requests and the order of their answers (accountsSlice.ts).
THEOREM SpinnerMeansFetching == Spec => []LoadingMeansFetching
<1>1. Init => LoadingMeansFetching
  BY DEF Init, LoadingMeansFetching
<1> QED  BY <1>1, TypeInit, TypeStep, LoadingStep, PTL DEF Spec

-----------------------------------------------------------------------------
(* Rows and answers show what was stored.                                  *)

\* Version row.version of account n was stored as row shows it.
Stored(l, n, row) == row.version \in 1 .. Len(l[n]) /\ row.active = l[n][row.version]

AnswersWereStored ==
  \A r \in Slots : answer[r] # Null => \A n \in DOMAIN answer[r] : Stored(ledger, n, answer[r][n])

StoredInv == AnswersWereStored /\ RowsWereStored

\* The ledger only grows: what was stored stays.
LEMMA LedgerGrows ==
  ASSUME LedgerType, NEW c \in Calls, NEW from \in Versions, NEW a \in Outcomes(c, from),
         Store(c.op, a), NEW n \in Numbers
  PROVE  /\ Newest(n) <= Newest(n)'
         /\ \A v \in 1 .. Newest(n) : ledger'[n][v] = ledger[n][v]
<1>1. ledger[n] \in Seq(BOOLEAN)
  BY DEF LedgerType
<1>2. CASE c.op # "fetch" /\ n \in DOMAIN a
  <2>1. a[n] \in Rows /\ ledger'[n] = Append(ledger[n], a[n].active)
    BY <1>2, StoreAppends
  <2>2. a[n].active \in BOOLEAN
    BY <2>1, RowFields
  <2> QED  BY <1>1, <2>1, <2>2 DEF Newest
<1>3. CASE ~(c.op # "fetch" /\ n \in DOMAIN a)
  <2>1. ledger'[n] = ledger[n]
    BY <1>3, StoreAppends
  <2> QED  BY <1>1, <2>1 DEF Newest
<1> QED  BY <1>2, <1>3

LEMMA StaysStored ==
  ASSUME LedgerType, NEW c \in Calls, NEW from \in Versions, NEW a \in Outcomes(c, from),
         Store(c.op, a), NEW n \in Numbers, NEW row \in Rows, Stored(ledger, n, row)
  PROVE  Stored(ledger', n, row)
<1>1. row.version \in 1 .. Newest(n) /\ Newest(n) \in Nat
  BY NewestType DEF Stored, Newest
<1>2. Newest(n) <= Newest(n)' /\ ledger'[n][row.version] = ledger[n][row.version]
  BY <1>1, LedgerGrows
<1>3. Newest(n)' \in Nat
  <2>1. ledger'[n] \in Seq(BOOLEAN)
    BY StoreType DEF LedgerType
  <2> QED  BY <2>1 DEF Newest
<1>4. row.version \in 1 .. Len(ledger'[n])
  BY <1>1, <1>2, <1>3 DEF Newest
<1> QED  BY <1>2, <1>4 DEF Stored

\* What the server answers with was stored, or is.
LEMMA AnswerIsStored ==
  ASSUME LedgerType, NEW c \in Calls, NEW from \in Versions, NEW a \in Outcomes(c, from),
         Store(c.op, a), NEW n \in DOMAIN a
  PROVE  /\ n \in Numbers /\ a[n] \in Rows /\ Stored(ledger', n, a[n])
         /\ c.op # "fetch" => Newest(n)' = a[n].version
<1>1. n \in Numbers /\ a[n] \in Rows
  BY OutcomeType
<1>2. ledger[n] \in Seq(BOOLEAN)
  BY <1>1 DEF LedgerType
<1>3. CASE c.op = "fetch"
  <2>1. PICK v \in Moments(from) :
          \A m \in DOMAIN a : v[m] \in 1 .. Newest(m) /\ a[m] = Row(m, v[m])
    BY <1>3, FetchOutcome
  <2>2. a[n].version = v[n] /\ a[n].active = ledger[n][v[n]]
    BY <2>1 DEF Row
  <2>3. Stored(ledger, n, a[n])
    BY <2>1, <2>2 DEF Stored, Newest
  <2> QED  BY <1>1, <1>3, <2>3, StaysStored
<1>4. CASE c.op # "fetch"
  <2>1. a[n].version = Newest(n) + 1 /\ ledger'[n] = Append(ledger[n], a[n].active)
    BY <1>1, <1>4, StoreAppends
  <2>2. a[n].active \in BOOLEAN
    BY <1>1, RowFields
  <2>3. /\ Len(ledger'[n]) = Len(ledger[n]) + 1 /\ Len(ledger[n]) \in Nat
        /\ ledger'[n][Len(ledger[n]) + 1] = a[n].active
    BY <1>2, <2>1, <2>2
  <2>4. a[n].version = Len(ledger'[n]) /\ a[n].version \in 1 .. Len(ledger'[n])
    BY <2>1, <2>3 DEF Newest
  <2>5. ledger'[n][a[n].version] = a[n].active
    BY <2>1, <2>3 DEF Newest
  <2> QED  BY <1>1, <2>4, <2>5 DEF Stored, Newest
<1> QED  BY <1>3, <1>4

\* Whoever writes the ledger, answers and rows that stay show what was stored.
LEMMA OldStaysStored ==
  ASSUME TypeInv, StoredInv, NEW c \in Calls, NEW from \in Versions,
         NEW a \in Outcomes(c, from), Store(c.op, a)
  PROVE  /\ \A r \in Slots : answer[r] # Null =>
              \A n \in DOMAIN answer[r] : Stored(ledger', n, answer[r][n])
         /\ items' = items => RowsWereStored'
<1>1. ASSUME NEW r \in Slots, answer[r] # Null, NEW n \in DOMAIN answer[r]
      PROVE  Stored(ledger', n, answer[r][n])
  <2>1. n \in Numbers /\ answer[r][n] \in Rows
    BY <1>1, AnswerFields DEF TypeInv, TypeOK
  <2>2. Stored(ledger, n, answer[r][n])
    BY <1>1 DEF StoredInv, AnswersWereStored
  <2> QED  BY <2>1, <2>2, LedgerTyped, StaysStored
<1>2. ASSUME items' = items, NEW n \in Numbers, NEW i \in 1 .. Len(items[n])
      PROVE  Stored(ledger', n, items[n][i])
  <2>1. items[n][i] \in Rows
    BY <1>2 DEF TypeInv, TypeOK
  <2>2. Stored(ledger, n, items[n][i])
    BY <1>2 DEF StoredInv, RowsWereStored, Stored, Newest
  <2> QED  BY <1>2, <2>1, <2>2, LedgerTyped, StaysStored
<1>3. items' = items => RowsWereStored'
  BY <1>2 DEF RowsWereStored, Stored, Newest
<1> QED  BY <1>1, <1>3

\* What a reducer makes of the rows of a number.
LEMMA RowsAfter ==
  ASSUME NEW op, NEW a, Fulfil(op, a), NEW n \in Numbers
  PROVE  \/ op = "fetch" /\ n \in DOMAIN a /\ items'[n] = <<a[n]>>
         \/ op = "fetch" /\ n \notin DOMAIN a /\ items'[n] = << >>
         \/ op # "fetch" /\ n \in DOMAIN a /\ items'[n] = Append(items[n], a[n])
         \/ op # "fetch" /\ n \in DOMAIN a /\ items[n] # << >>
            /\ items'[n] = [items[n] EXCEPT ![1] = a[n]]
         \/ op # "fetch" /\ items'[n] = items[n]
<1>1. CASE op = "fetch"
  BY <1>1 DEF Fulfil, Replaced
<1>2. CASE op = "create"
  BY <1>2 DEF Fulfil, Pushed
<1>3. CASE op \notin {"fetch", "create"}
  BY <1>3 DEF Fulfil, Updated
<1> QED  BY <1>1, <1>2, <1>3

\* The reducers put only rows of the answer among the rows.
LEMMA FulfilKeepsStored ==
  ASSUME TypeInv, StoredInv, NEW r \in Slots, answer[r] # Null,
         Fulfil(call[r].op, answer[r]), ledger' = ledger
  PROVE  RowsWereStored'
<1> DEFINE a == answer[r]
<1>1. \A n \in DOMAIN a : n \in Numbers /\ a[n] \in Rows /\ Stored(ledger, n, a[n])
  BY AnswerFields DEF TypeInv, TypeOK, StoredInv, AnswersWereStored
<1>2. SUFFICES ASSUME NEW n \in Numbers, NEW i \in 1 .. Len(items'[n])
               PROVE  Stored(ledger, n, items'[n][i])
  BY DEF RowsWereStored, Stored, Newest
<1>3. items[n] \in Seq(Rows) /\ \A j \in 1 .. Len(items[n]) : Stored(ledger, n, items[n][j])
  BY DEF TypeInv, TypeOK, StoredInv, RowsWereStored, Stored, Newest
<1>4. \/ n \in DOMAIN a /\ items'[n] = <<a[n]>>
      \/ items'[n] = << >>
      \/ n \in DOMAIN a /\ items'[n] = Append(items[n], a[n])
      \/ items'[n] = items[n]
      \/ n \in DOMAIN a /\ items[n] # << >> /\ items'[n] = [items[n] EXCEPT ![1] = a[n]]
  BY RowsAfter
<1>5. CASE n \in DOMAIN a /\ items'[n] = <<a[n]>>
  BY <1>1, <1>2, <1>5
<1>6. CASE items'[n] = << >>
  BY <1>2, <1>6
<1>7. CASE n \in DOMAIN a /\ items'[n] = Append(items[n], a[n])
  <2>1. \/ i \in 1 .. Len(items[n]) /\ items'[n][i] = items[n][i]
        \/ items'[n][i] = a[n]
    BY <1>1, <1>2, <1>3, <1>7
  <2> QED  BY <1>1, <1>3, <1>7, <2>1
<1>8. CASE items'[n] = items[n]
  BY <1>2, <1>3, <1>8
<1>9. CASE n \in DOMAIN a /\ items[n] # << >> /\ items'[n] = [items[n] EXCEPT ![1] = a[n]]
  <2>1. i \in 1 .. Len(items[n]) /\ (items'[n][i] = items[n][i] \/ items'[n][i] = a[n])
    BY <1>1, <1>2, <1>3, <1>9
  <2> QED  BY <1>1, <1>3, <1>9, <2>1
<1> QED  BY <1>4, <1>5, <1>6, <1>7, <1>8, <1>9

LEMMA StoredStep == TypeInv /\ StoredInv /\ [Next]_vars => StoredInv'
<1> SUFFICES ASSUME TypeInv, StoredInv, [Next]_vars PROVE StoredInv'
  OBVIOUS
\* Nothing is added while the ledger stands still.
<1>1. ASSUME ledger' = ledger, items' = items,
             \A r \in Slots : answer'[r] \in {answer[r], Null}
      PROVE  StoredInv'
  <2>1. AnswersWereStored'
    BY <1>1 DEF StoredInv, AnswersWereStored, Stored
  <2>2. RowsWereStored'
    BY <1>1 DEF StoredInv, RowsWereStored, Newest
  <2> QED  BY <2>1, <2>2 DEF StoredInv
\* The ledger grows and no answer is added.
<1>2. ASSUME NEW c \in Calls, NEW from \in Versions, NEW a \in Outcomes(c, from),
             Store(c.op, a), items' = items,
             \A r \in Slots : answer'[r] \in {answer[r], Null}
      PROVE  StoredInv'
  <2>1. AnswersWereStored'
    <3> SUFFICES ASSUME NEW t \in Slots, answer'[t] # Null, NEW n \in DOMAIN answer'[t]
                 PROVE  Stored(ledger', n, answer'[t][n])
      BY DEF AnswersWereStored, Stored
    <3> QED  BY <1>2, OldStaysStored
  <2> QED  BY <1>2, <2>1, OldStaysStored DEF StoredInv
<1>3. ASSUME NEW r \in Slots,
             (\E c \in Calls : Dispatch(r, c)) \/ Fail(r) \/ GiveUp(r)
      PROVE  StoredInv'
  <2>1. ledger' = ledger /\ items' = items
    BY <1>3 DEF Dispatch, Fail, GiveUp, Reject
  <2>2. \A t \in Slots : answer'[t] \in {answer[t], Null}
    BY <1>3 DEF Dispatch, Fail, GiveUp, Release, TypeInv, TypeOK
  <2> QED  BY <1>1, <2>1, <2>2
<1>4. ASSUME NEW r \in Slots, Serve(r) PROVE StoredInv'
  <2>1. call[r] \in Calls /\ since[r] \in Versions /\ items' = items
    BY <1>4, LedgerTyped DEF Serve, TypeInv, CallsInUse
  <2>2. PICK a \in Outcomes(call[r], since[r]) :
          /\ Store(call[r].op, a)
          /\ \E lost \in BOOLEAN : answer' = [answer EXCEPT ![r] = IF lost THEN Null ELSE a]
    BY <1>4 DEF Serve
  <2>3. \A t \in Slots : answer'[t] # Null =>
           \/ answer'[t] = answer[t]
           \/ answer'[t] = a
    BY <2>2 DEF TypeInv, TypeOK
  <2>4. AnswersWereStored'
    <3> SUFFICES ASSUME NEW t \in Slots, answer'[t] # Null, NEW n \in DOMAIN answer'[t]
                 PROVE  Stored(ledger', n, answer'[t][n])
      BY DEF AnswersWereStored, Stored
    <3>1. CASE answer'[t] = answer[t]
      BY <2>1, <2>2, <3>1, OldStaysStored
    <3>2. CASE answer'[t] = a
      BY <2>1, <2>2, <3>2, LedgerTyped, AnswerIsStored
    <3> QED  BY <2>3, <3>1, <3>2
  <2> QED  BY <2>1, <2>2, <2>4, OldStaysStored DEF StoredInv
<1>5. ASSUME NEW r \in Slots, Settle(r) PROVE StoredInv'
  <2>1. ledger' = ledger /\ \A t \in Slots : answer'[t] \in {answer[t], Null}
    BY <1>5 DEF Settle, Release, TypeInv, TypeOK
  <2>2. AnswersWereStored'
    BY <2>1 DEF StoredInv, AnswersWereStored, Stored
  <2>3. CASE answer[r] # Null
    BY <1>5, <2>1, <2>2, <2>3, FulfilKeepsStored DEF Settle, StoredInv
  <2>4. CASE answer[r] = Null
    BY <1>1, <1>5, <2>1, <2>4 DEF Settle, Reject
  <2> QED  BY <2>3, <2>4
<1>6. ASSUME NEW r \in Slots, ServeLate(r) PROVE StoredInv'
  <2>1. items' = items /\ \A t \in Slots : answer'[t] \in {answer[t], Null}
    BY <1>6 DEF ServeLate, Release, TypeInv, TypeOK
  <2>2. CASE ledger' = ledger
    BY <1>1, <2>1, <2>2
  <2>3. CASE \E a \in Outcomes(call[r], since[r]) : Store(call[r].op, a)
    <3>1. call[r] \in Calls /\ since[r] \in Versions
      BY <1>6, LedgerTyped DEF ServeLate, TypeInv, CallsInUse
    <3> QED  BY <1>2, <2>1, <2>3, <3>1
  <2> QED  BY <1>6, <2>2, <2>3 DEF ServeLate
<1>7. ASSUME NEW n \in Numbers, ChangeElsewhere(n) PROVE StoredInv'
  <2>1. items' = items /\ \A t \in Slots : answer'[t] \in {answer[t], Null}
    BY <1>7 DEF ChangeElsewhere
  <2> QED  BY <1>2, <1>7, <2>1, ElsewhereCall
<1>8. CASE UNCHANGED vars
  BY <1>1, <1>8 DEF vars
<1> QED  BY <1>3, <1>4, <1>5, <1>6, <1>7, <1>8 DEF Next, Quiescent

LEMMA StoredInit == Init => StoredInv
BY DEF Init, StoredInv, AnswersWereStored, RowsWereStored

\* In whatever order requests are processed, writes overlap and answers arrive, every
\* row of the page shows a version the server stored as it stored it
\* (accountsSlice.ts, cosmos_account_repository.py).
THEOREM RowsStayStored == Spec => []RowsWereStored
BY StoredInit, TypeInit, TypeStep, StoredStep, PTL DEF Spec, StoredInv

-----------------------------------------------------------------------------
(* Only answers that were overtaken turn the page back.                    *)

\* What the answer in slot r says of account n was so after the request was sent.
Fresh(r, n) ==
  IF n \in DOMAIN answer[r] THEN answer[r][n].version >= since[r][n]
  ELSE call[r].op = "fetch" /\ since[r][n] # 0 =>
         \E v \in since[r][n] .. Newest(n) : ~ledger[n][v]

AnswersAreFresh ==
  \A r \in Slots : stage[r] = "answered" /\ answer[r] # Null => \A n \in Numbers : Fresh(r, n)

SentBefore == \A r \in Slots, n \in Numbers : since[r][n] <= Newest(n)

FreshInv == TypeInv /\ AnswersAreFresh

\* Whatever writes the ledger is the processing of a request.
LEMMA RequestsWrite ==
  ASSUME TypeInv, [Next]_vars
  PROVE  \/ ledger' = ledger
         \/ \E c \in Calls, from \in Versions : \E a \in Outcomes(c, from) : Store(c.op, a)
<1>1. ASSUME NEW r \in Slots
      PROVE  /\ \A c \in Calls : Dispatch(r, c) => ledger' = ledger
             /\ Fail(r) \/ Settle(r) \/ GiveUp(r) => ledger' = ledger
  BY DEF Dispatch, Fail, Settle, GiveUp
<1>2. Quiescent \/ UNCHANGED vars => ledger' = ledger
  BY DEF Quiescent, vars
<1>3. ASSUME NEW r \in Slots, Serve(r) \/ ServeLate(r), ledger' # ledger
      PROVE  \E c \in Calls, from \in Versions : \E a \in Outcomes(c, from) : Store(c.op, a)
  <2>1. call[r] \in Calls /\ since[r] \in Versions
    BY <1>3, LedgerTyped DEF Serve, ServeLate, TypeInv, CallsInUse
  <2>2. \E a \in Outcomes(call[r], since[r]) : Store(call[r].op, a)
    BY <1>3 DEF Serve, ServeLate
  <2> QED  BY <2>1, <2>2
<1> QED  BY <1>1, <1>2, <1>3, ElsewhereCall DEF Next

\* An answer that was fresh when it was sent stays so.
LEMMA StaysFresh ==
  ASSUME LedgerType, NEW r \in Slots, NEW n \in Numbers, since[r] \in Versions, Fresh(r, n),
         call'[r] = call[r], since'[r] = since[r], answer'[r] = answer[r],
         \/ ledger' = ledger
         \/ \E c \in Calls, from \in Versions : \E a \in Outcomes(c, from) : Store(c.op, a)
  PROVE  Fresh(r, n)'
<1>1. CASE ledger' = ledger
  BY <1>1 DEF Fresh, Newest
<1>2. ASSUME NEW c \in Calls, NEW from \in Versions, NEW a \in Outcomes(c, from),
             Store(c.op, a)
      PROVE  Fresh(r, n)'
  <2>1. /\ Newest(n) <= Newest(n)' /\ Newest(n) \in Nat
        /\ \A v \in 1 .. Newest(n) : ledger'[n][v] = ledger[n][v]
    BY <1>2, LedgerGrows, NewestType
  <2>2. Newest(n)' \in Nat
    <3>1. ledger'[n] \in Seq(BOOLEAN)
      BY <1>2, StoreType DEF LedgerType
    <3> QED  BY <3>1 DEF Newest
  <2>3. CASE n \in DOMAIN answer[r]
    BY <2>3 DEF Fresh
  <2>4. ASSUME n \notin DOMAIN answer[r], call[r].op = "fetch", since[r][n] # 0
        PROVE  \E v \in since[r][n] .. Newest(n)' : ~ledger'[n][v]
    <3>1. PICK v \in since[r][n] .. Newest(n) : ~ledger[n][v]
      BY <2>4 DEF Fresh
    <3>2. since[r][n] \in Nat
      BY DEF Versions
    <3>3. v \in 1 .. Newest(n) /\ v \in since[r][n] .. Newest(n)'
      BY <2>1, <2>2, <2>4, <3>1, <3>2
    <3> QED  BY <2>1, <3>1, <3>3
  <2> QED  BY <2>3, <2>4 DEF Fresh, Newest
<1> QED  BY <1>1, <1>2

\* What the server answers with is fresh.
LEMMA ServesFresh ==
  ASSUME TypeInv, NEW r \in Slots, stage[r] = "sent",
         NEW a \in Outcomes(call[r], since[r]), Store(call[r].op, a),
         answer'[r] = a, call' = call, since' = since, SentBefore, NEW n \in Numbers
  PROVE  Fresh(r, n)'
<1> DEFINE c == call[r]
           from == since[r]
<1>1. c \in Calls /\ from \in Versions /\ LedgerType /\ from[n] \in Nat
  BY LedgerTyped DEF TypeInv, CallsInUse, Versions
<1>2. CASE c.op = "fetch"
  <2>1. PICK v \in Moments(from) :
          /\ DOMAIN a = {m \in Numbers : v[m] # 0 /\ ledger[m][v[m]]}
          /\ \A m \in DOMAIN a : v[m] \in 1 .. Newest(m) /\ a[m] = Row(m, v[m])
    BY <1>1, <1>2, FetchOutcome
  <2>2. v[n] \in from[n] .. Newest(n) /\ Newest(n) \in Nat
    BY <1>1, NewestType DEF Moments
  <2>3. CASE n \in DOMAIN a
    <3>1. a[n].version = v[n]
      <4>1. a[n] = [version |-> v[n], active |-> ledger[n][v[n]]]
        BY <2>1, <2>3 DEF Row
      <4> QED  BY <4>1
    <3> QED  BY <1>1, <2>2, <2>3, <3>1 DEF Fresh
  <2>4. ASSUME n \notin DOMAIN a, from[n] # 0
        PROVE  \E w \in from[n] .. Newest(n)' : ~ledger'[n][w]
    <3>1. v[n] # 0 /\ ~ledger[n][v[n]]
      BY <1>1, <2>1, <2>2, <2>4
    <3>2. ledger'[n] = ledger[n]
      BY <1>1, <1>2, StoreAppends
    <3> QED  BY <2>2, <3>1, <3>2 DEF Newest
  <2> QED  BY <2>3, <2>4 DEF Fresh, Newest
<1>3. CASE c.op # "fetch"
  <2>1. CASE n \in DOMAIN a
    <3>1. a[n].version = Newest(n) + 1
      BY <1>1, <1>3, <2>1, StoreAppends
    <3>2. Newest(n) \in Nat /\ from[n] <= Newest(n)
      BY <1>1, NewestType DEF SentBefore
    <3> QED  BY <1>1, <2>1, <3>1, <3>2 DEF Fresh
  <2>2. CASE n \notin DOMAIN a
    BY <1>3, <2>2 DEF Fresh
  <2> QED  BY <2>1, <2>2
<1> QED  BY <1>2, <1>3

\* A request was sent when the ledger was no longer than it is.
LEMMA SentBeforeStep ==
  ASSUME TypeInv, SentBefore, [Next]_vars
  PROVE  SentBefore'
<1> SUFFICES ASSUME NEW r \in Slots, NEW n \in Numbers PROVE since'[r][n] <= Newest(n)'
  BY DEF SentBefore
<1>1. Newest(n) \in Nat /\ Newest(n)' \in Nat /\ since[r][n] \in Nat /\ since[r][n] <= Newest(n)
  <2>1. LedgerType /\ LedgerType' /\ since[r] \in Versions
    BY LedgerTyped, TypeStep DEF TypeInv, TypeOK, LedgerType
  <2>2. ledger[n] \in Seq(BOOLEAN) /\ ledger'[n] \in Seq(BOOLEAN)
    BY <2>1 DEF LedgerType
  <2> QED  BY <2>1, <2>2 DEF SentBefore, Newest, Versions
<1>2. Newest(n) <= Newest(n)'
  <2>1. CASE ledger' = ledger
    BY <1>1, <2>1 DEF Newest
  <2>2. CASE \E c \in Calls, from \in Versions : \E a \in Outcomes(c, from) : Store(c.op, a)
    BY <2>2, LedgerTyped, LedgerGrows
  <2> QED  BY <2>1, <2>2, RequestsWrite
<1>3. \/ since'[r] = since[r]
      \/ since'[r][n] = 0
      \/ since'[r][n] = Newest(n)
  <2>1. ASSUME NEW t \in Slots, Release(t)
        PROVE  since'[r] = since[r] \/ since'[r][n] = 0
    BY <2>1 DEF Release, TypeInv, TypeOK
  <2>2. ASSUME NEW t \in Slots, NEW c \in Calls, Dispatch(t, c)
        PROVE  since'[r] = since[r] \/ since'[r][n] = Newest(n)
    BY <2>2 DEF Dispatch, TypeInv, TypeOK
  <2>3. ASSUME NEW t \in Slots, Serve(t) \/ Fail(t) \/ Settle(t) \/ GiveUp(t) \/ ServeLate(t)
        PROVE  Release(t) \/ since' = since
    BY <2>3 DEF Serve, Fail, Settle, GiveUp, ServeLate
  <2>4. ASSUME NEW m \in Numbers, ChangeElsewhere(m) PROVE since' = since
    BY <2>4 DEF ChangeElsewhere
  <2>5. CASE UNCHANGED vars
    BY <2>5 DEF vars
  <2> QED  BY <2>1, <2>2, <2>3, <2>4, <2>5 DEF Next, Quiescent
<1> QED  BY <1>1, <1>2, <1>3

LEMMA AnswersFreshStep ==
  ASSUME TypeInv, SentBefore, AnswersAreFresh, [Next]_vars
  PROVE  AnswersAreFresh'
<1> SUFFICES ASSUME NEW r \in Slots, stage'[r] = "answered", answer'[r] # Null,
                    NEW n \in Numbers
             PROVE  Fresh(r, n)'
  BY DEF AnswersAreFresh
\* An answer that was under way already.
<1>1. ASSUME stage[r] = "answered", call'[r] = call[r], since'[r] = since[r],
             answer'[r] = answer[r]
      PROVE  Fresh(r, n)'
  <2>1. Fresh(r, n)
    BY <1>1 DEF AnswersAreFresh
  <2> QED  BY <1>1, <2>1, LedgerTyped, RequestsWrite, StaysFresh
<1>2. ASSUME NEW t \in Slots, NEW c \in Calls, Dispatch(t, c) PROVE Fresh(r, n)'
  <2>1. t # r
    BY <1>2 DEF Dispatch, TypeInv, TypeOK
  <2>2. stage[r] = "answered" /\ call'[r] = call[r] /\ since'[r] = since[r] /\ answer' = answer
    BY <1>2, <2>1 DEF Dispatch, TypeInv, TypeOK
  <2> QED  BY <1>1, <2>2
<1>3. ASSUME NEW t \in Slots, Settle(t) \/ GiveUp(t) \/ ServeLate(t) \/ Fail(t)
      PROVE  Fresh(r, n)'
  <2>1. t # r
    BY <1>3 DEF Settle, GiveUp, ServeLate, Fail, Release, Pending, TypeInv, TypeOK
  <2>2. /\ stage[r] = "answered" /\ call'[r] = call[r] /\ since'[r] = since[r]
        /\ answer'[r] = answer[r]
    BY <1>3, <2>1 DEF Settle, GiveUp, ServeLate, Fail, Release, TypeInv, TypeOK
  <2> QED  BY <1>1, <2>2
<1>4. ASSUME NEW t \in Slots, Serve(t) PROVE Fresh(r, n)'
  <2>1. PICK a \in Outcomes(call[t], since[t]) :
          /\ Store(call[t].op, a)
          /\ \E lost \in BOOLEAN : answer' = [answer EXCEPT ![t] = IF lost THEN Null ELSE a]
    BY <1>4 DEF Serve
  <2>2. CASE t # r
    <3>1. /\ stage[r] = "answered" /\ call'[r] = call[r] /\ since'[r] = since[r]
          /\ answer'[r] = answer[r]
      BY <1>4, <2>1, <2>2 DEF Serve, TypeInv, TypeOK
    <3> QED  BY <1>1, <3>1
  <2>3. CASE t = r
    <3>1. stage[r] = "sent" /\ call' = call /\ since' = since /\ answer'[r] = a
      BY <1>4, <2>1, <2>3 DEF Serve, TypeInv, TypeOK
    <3> QED  BY <2>1, <2>3, <3>1, ServesFresh
  <2> QED  BY <2>2, <2>3
<1>5. ASSUME NEW m \in Numbers, ChangeElsewhere(m) PROVE Fresh(r, n)'
  <2>1. stage' = stage /\ call' = call /\ since' = since /\ answer' = answer
    BY <1>5 DEF ChangeElsewhere
  <2> QED  BY <1>1, <2>1
<1>6. CASE UNCHANGED vars
  BY <1>1, <1>6 DEF vars
<1> QED  BY <1>2, <1>3, <1>4, <1>5, <1>6 DEF Next, Quiescent

\* A fresh answer does not turn the page back.
LEMMA FreshAnswerKeepsPage ==
  ASSUME FreshInv, NEW r \in Slots, NEW n \in Numbers, [Next]_vars, Arrives(r),
         items[n] # << >>, items[n][1].version <= since[r][n]
  PROVE  IF items'[n] = << >>
         THEN \E v \in since[r][n] .. Newest(n) : ~ledger[n][v]
         ELSE items'[n][1].version >= items[n][1].version
<1> DEFINE a == answer[r]
<1> USE DEF FreshInv
<1>1. Settle(r)
  <2>1. ASSUME NEW t \in Slots, t # r, Settle(t) PROVE FALSE
    BY <2>1 DEF Settle, Release, Arrives, TypeInv, TypeOK
  <2>2. ASSUME NEW t \in Slots,
               (\E c \in Calls : Dispatch(t, c)) \/ Serve(t) \/ Fail(t) \/ GiveUp(t) \/ ServeLate(t)
        PROVE  items' = items
    BY <2>2 DEF Dispatch, Serve, Fail, GiveUp, Reject, ServeLate
  <2>3. ASSUME NEW m \in Numbers, ChangeElsewhere(m) PROVE items' = items
    BY <2>3 DEF ChangeElsewhere
  <2> QED  BY <2>1, <2>2, <2>3 DEF Arrives, Next, Quiescent, vars
<1>2. a # Null /\ Fulfil(call[r].op, a)
  BY <1>1 DEF Settle, Reject, Arrives
<1>3. Fresh(r, n) /\ a \in Answers
  BY <1>2 DEF Arrives, AnswersAreFresh, TypeInv, TypeOK
<1>4. items[n] \in Seq(Rows) /\ items[n][1] \in Rows /\ since[r][n] \in Nat
  BY DEF TypeInv, TypeOK
<1>5. items[n][1].version \in 1 .. MaxVersion /\ items[n][1].version \in Nat
  BY <1>4, RowFields, StoreAssumption
<1>6. since[r][n] # 0
  BY <1>4, <1>5
<1>7. n \in DOMAIN a => a[n] \in Rows /\ a[n].version \in Nat /\ a[n].version >= items[n][1].version
  BY <1>3, <1>4, <1>5, AnswerFields, RowFields, StoreAssumption DEF Fresh
<1>8. CASE call[r].op = "fetch" /\ n \in DOMAIN a /\ items'[n] = <<a[n]>>
  BY <1>7, <1>8
<1>9. CASE call[r].op = "fetch" /\ n \notin DOMAIN a /\ items'[n] = << >>
  BY <1>3, <1>6, <1>9 DEF Fresh
<1>10. CASE n \in DOMAIN a /\ items'[n] = Append(items[n], a[n])
  <2>1. items'[n] # << >> /\ items'[n][1] = items[n][1]
    BY <1>4, <1>7, <1>10
  <2> QED  BY <1>5, <2>1
<1>11. CASE n \in DOMAIN a /\ items'[n] = [items[n] EXCEPT ![1] = a[n]]
  <2>1. items'[n] # << >> /\ items'[n][1] = a[n]
    BY <1>4, <1>7, <1>11
  <2> QED  BY <1>7, <1>11, <2>1
<1>12. CASE items'[n] = items[n]
  BY <1>5, <1>12
<1> QED  BY <1>2, <1>8, <1>9, <1>10, <1>11, <1>12, RowsAfter

\* A row gives way to an older one, or a usable account disappears, only when the
\* newer version was stored after the request was sent that brings the answer: no
\* answer but one that was overtaken turns the page back (accountsSlice.ts).
THEOREM OvertakenOnlyTurnBack == Spec => OnlyOvertakenTurnBack
<1> DEFINE Step ==
      \A r \in Slots, n \in Numbers :
        Arrives(r) /\ items[n] # << >> /\ items[n][1].version <= since[r][n] =>
          IF items'[n] = << >>
          THEN \E v \in since[r][n] .. Newest(n) : ~ledger[n][v]
          ELSE items'[n][1].version >= items[n][1].version
<1>1. Init => FreshInv /\ SentBefore
  <2> SUFFICES ASSUME Init PROVE AnswersAreFresh /\ SentBefore
    BY TypeInit DEF FreshInv
  <2>1. \A n \in Numbers : Newest(n) = 0
    BY DEF Init, Newest
  <2> QED  BY <2>1 DEF Init, AnswersAreFresh, SentBefore
<1>2. FreshInv /\ SentBefore /\ [Next]_vars => (FreshInv /\ SentBefore)'
  BY TypeStep, AnswersFreshStep, SentBeforeStep DEF FreshInv
<1>3. FreshInv /\ [Next]_vars => Step
  BY FreshAnswerKeepsPage
<1>4. [Step]_vars <=> Step \/ UNCHANGED vars
  OBVIOUS
<1>5. FreshInv /\ [Next]_vars => [Step]_vars
  BY <1>3, <1>4
<1>6. Spec => [][Step]_vars
  BY <1>1, <1>2, <1>5, PTL DEF Spec
<1> QED  BY <1>6 DEF OnlyOvertakenTurnBack

-----------------------------------------------------------------------------
(* Orders.                                                                 *)

\* The server opens at most one account at a time, and only for an order.
LEMMA StoreOpens ==
  ASSUME LedgerType, NEW c \in Calls, NEW from \in Versions, NEW a \in Outcomes(c, from),
         Store(c.op, a)
  PROVE  \/ Opened' = Opened
         \/ c.op = "create" /\ \E n \in Numbers : n \notin Opened /\ Opened' = Opened \cup {n}
<1>1. \A n \in Numbers :
        /\ Newest(n) \in Nat
        /\ Newest(n)' = IF c.op # "fetch" /\ n \in DOMAIN a THEN Newest(n) + 1 ELSE Newest(n)
  <2> SUFFICES ASSUME NEW n \in Numbers
               PROVE  /\ Newest(n) \in Nat
                      /\ Newest(n)' = IF c.op # "fetch" /\ n \in DOMAIN a
                                      THEN Newest(n) + 1 ELSE Newest(n)
    OBVIOUS
  <2>1. CASE c.op # "fetch" /\ n \in DOMAIN a
    BY <2>1, NewestType, AnswerIsStored, StoreAppends
  <2>2. CASE ~(c.op # "fetch" /\ n \in DOMAIN a)
    BY <2>2, NewestType, StoreAppends DEF Newest
  <2> QED  BY <2>1, <2>2
<1>2. CASE c.op = "create"
  <2>1. PICK k \in Numbers :
          Newest(k) = 0 /\ a = [m \in {k} |-> [version |-> 1, active |-> TRUE]]
    BY <1>2, CreateOutcome
  <2>2. DOMAIN a = {k}
    BY <2>1
  <2>3. Opened' = Opened \cup {k} /\ k \notin Opened
    BY <1>1, <1>2, <2>1, <2>2 DEF Opened
  <2> QED  BY <1>2, <2>3
<1>3. CASE c.op \in {"update", "close"}
  <2>1. Newest(c.number) # 0 /\ DOMAIN a = {c.number}
    BY <1>3, WriteOutcome
  <2>2. Opened' = Opened
    BY <1>1, <2>1 DEF Opened
  <2> QED  BY <2>2
<1>4. CASE c.op = "fetch"
  BY <1>1, <1>4 DEF Opened
<1> QED  BY <1>2, <1>3, <1>4 DEF Calls

LEMMA FiniteCounts ==
  /\ IsFiniteSet(Opened) /\ IsFiniteSet(Opened')
  /\ IsFiniteSet(OpenOrders) /\ IsFiniteSet(OpenOrders')
  /\ Cardinality(Opened) \in Nat /\ Cardinality(Opened') \in Nat
  /\ Cardinality(OpenOrders) \in Nat /\ Cardinality(OpenOrders') \in Nat
<1>1. /\ Opened \subseteq Numbers /\ Opened' \subseteq Numbers
      /\ OpenOrders \subseteq Slots /\ OpenOrders' \subseteq Slots
  BY DEF Opened, OpenOrders
<1>2. /\ IsFiniteSet(Opened) /\ IsFiniteSet(Opened')
      /\ IsFiniteSet(OpenOrders) /\ IsFiniteSet(OpenOrders')
  BY <1>1, StoreAssumption, FS_Subset
<1> QED  BY <1>2, FS_CardinalityType

\* Nothing is opened, and no order is given.
LEMMA FewerOrders ==
  ASSUME TypeInv, OneAccountPerOrder, Opened' = Opened, orders' = orders,
         OpenOrders' \subseteq OpenOrders
  PROVE  OneAccountPerOrder'
<1>1. Cardinality(OpenOrders') <= Cardinality(OpenOrders)
  BY FiniteCounts, FS_Subset
<1> QED  BY <1>1, FiniteCounts DEF OneAccountPerOrder, TypeInv, TypeOK

\* The server processes the request of slot r.
LEMMA ServingKeepsCount ==
  ASSUME TypeInv, OneAccountPerOrder, NEW r \in Slots, call[r] \in Calls,
         stage[r] \in {"sent", "abandoned"}, stage'[r] \in {"idle", "answered"},
         \A t \in Slots \ {r} : stage'[t] = stage[t] /\ call'[t] = call[t],
         orders' = orders, NEW a \in Outcomes(call[r], since[r]), Store(call[r].op, a)
  PROVE  OneAccountPerOrder'
<1>1. OpenOrders' = OpenOrders \ {r}
  BY DEF OpenOrders
<1>2. CASE Opened' = Opened
  BY <1>1, <1>2, FewerOrders
<1>3. ASSUME call[r].op = "create", NEW n \in Numbers, n \notin Opened, Opened' = Opened \cup {n}
      PROVE  OneAccountPerOrder'
  <2>1. r \in OpenOrders
    BY <1>3 DEF OpenOrders
  <2>2. Cardinality(Opened') = Cardinality(Opened) + 1
    BY <1>3, FiniteCounts, FS_AddElement
  <2>3. Cardinality(OpenOrders') = Cardinality(OpenOrders) - 1
    BY <1>1, <2>1, FiniteCounts, FS_RemoveElement
  <2> QED  BY <2>2, <2>3, FiniteCounts DEF OneAccountPerOrder, TypeInv, TypeOK
<1>4. LedgerType /\ since[r] \in Versions
  BY LedgerTyped
<1> QED  BY <1>2, <1>3, <1>4, StoreOpens

LEMMA OrdersStep == TypeInv /\ OneAccountPerOrder /\ [Next]_vars => OneAccountPerOrder'
<1> SUFFICES ASSUME TypeInv, OneAccountPerOrder, [Next]_vars PROVE OneAccountPerOrder'
  OBVIOUS
<1>1. ASSUME NEW r \in Slots, NEW c \in Calls, Dispatch(r, c) PROVE OneAccountPerOrder'
  <2>1. /\ Opened' = Opened /\ r \notin OpenOrders
        /\ OpenOrders' = IF c.op = "create" THEN OpenOrders \cup {r} ELSE OpenOrders
    BY <1>1 DEF Dispatch, Opened, Newest, OpenOrders, TypeInv, TypeOK
  <2>2. CASE c.op = "create"
    <3>1. Cardinality(OpenOrders') = Cardinality(OpenOrders) + 1
      BY <2>1, <2>2, FiniteCounts, FS_AddElement
    <3>2. orders' = orders + 1
      BY <1>1, <2>2 DEF Dispatch
    <3> QED  BY <2>1, <3>1, <3>2, FiniteCounts DEF OneAccountPerOrder, TypeInv, TypeOK
  <2>3. CASE c.op # "create"
    BY <1>1, <2>1, <2>3, FewerOrders DEF Dispatch
  <2> QED  BY <2>2, <2>3
<1>2. ASSUME NEW r \in Slots, Fail(r) \/ Settle(r) \/ GiveUp(r) PROVE OneAccountPerOrder'
  <2>1. Opened' = Opened /\ orders' = orders
    BY <1>2 DEF Fail, Settle, GiveUp, Opened, Newest
  <2>2. OpenOrders' \subseteq OpenOrders
    BY <1>2 DEF Fail, Settle, GiveUp, Release, Pending, OpenOrders, TypeInv, TypeOK
  <2> QED  BY <2>1, <2>2, FewerOrders
<1>3. ASSUME NEW r \in Slots, Serve(r) PROVE OneAccountPerOrder'
  <2>1. /\ call[r] \in Calls /\ stage[r] = "sent" /\ stage'[r] = "answered" /\ orders' = orders
        /\ \A t \in Slots \ {r} : stage'[t] = stage[t] /\ call'[t] = call[t]
    BY <1>3 DEF Serve, TypeInv, TypeOK, CallsInUse
  <2>2. PICK a \in Outcomes(call[r], since[r]) : Store(call[r].op, a)
    BY <1>3 DEF Serve
  <2> QED  BY <2>1, <2>2, ServingKeepsCount
<1>4. ASSUME NEW r \in Slots, ServeLate(r) PROVE OneAccountPerOrder'
  <2>1. /\ call[r] \in Calls /\ stage[r] = "abandoned" /\ stage'[r] = "idle" /\ orders' = orders
        /\ \A t \in Slots \ {r} : stage'[t] = stage[t] /\ call'[t] = call[t]
    BY <1>4 DEF ServeLate, Release, TypeInv, TypeOK, CallsInUse
  <2>2. CASE ledger' = ledger
    <3>1. Opened' = Opened /\ OpenOrders' \subseteq OpenOrders
      BY <2>1, <2>2 DEF Opened, Newest, OpenOrders
    <3> QED  BY <2>1, <3>1, FewerOrders
  <2>3. CASE \E a \in Outcomes(call[r], since[r]) : Store(call[r].op, a)
    BY <2>1, <2>3, ServingKeepsCount
  <2> QED  BY <1>4, <2>2, <2>3 DEF ServeLate
<1>5. ASSUME NEW n \in Numbers, ChangeElsewhere(n) PROVE OneAccountPerOrder'
  <2>1. Opened' = Opened
    <3>1. PICK c \in Calls, from \in Versions :
            c.op # "create" /\ \E a \in Outcomes(c, from) : Store(c.op, a)
      BY <1>5, ElsewhereCall
    <3> QED  BY <3>1, LedgerTyped, StoreOpens
  <2>2. OpenOrders' = OpenOrders /\ orders' = orders
    BY <1>5 DEF ChangeElsewhere, OpenOrders
  <2> QED  BY <2>1, <2>2, FewerOrders
<1>6. CASE UNCHANGED vars
  <2>1. Opened' = Opened /\ OpenOrders' = OpenOrders /\ orders' = orders
    BY <1>6 DEF vars, Opened, Newest, OpenOrders
  <2> QED  BY <2>1, FewerOrders
<1> QED  BY <1>1, <1>2, <1>3, <1>4, <1>5, <1>6 DEF Next, Quiescent

\* However many orders fail, time out and are processed late, every account stems
\* from an order of its own (accountsSlice.ts createAccount, api.ts).
THEOREM OrdersOpenOneAccount == Spec => []OneAccountPerOrder
<1>1. Init => OneAccountPerOrder
  <2> SUFFICES ASSUME Init PROVE OneAccountPerOrder
    OBVIOUS
  <2>1. \A n \in Numbers : Newest(n) = 0
    BY DEF Init, Newest
  <2>2. Opened = {} /\ OpenOrders = {} /\ orders = 0
    BY <2>1 DEF Init, Opened, OpenOrders
  <2> QED  BY <2>2, FS_EmptySet DEF OneAccountPerOrder
<1> QED  BY <1>1, TypeInit, TypeStep, OrdersStep, PTL DEF Spec

-----------------------------------------------------------------------------
(* A quiet page.                                                           *)

CurrentAt(n) ==
  IF items[n] = << >> THEN ~Active(n)
  ELSE Newest(n) # 0 /\ items[n] = <<Row(n, Newest(n))>>

Current == \A n \in Numbers : CurrentAt(n)

\* The answer in slot r makes the rows current when it arrives.
ReplyFits(r) ==
  \A n \in Numbers :
    IF n \in DOMAIN answer[r]
    THEN /\ Newest(n) # 0 /\ answer[r][n] = Row(n, Newest(n))
         /\ call[r].op = "create" => items[n] = << >>
         /\ call[r].op \in {"update", "close"} => Len(items[n]) = 1
    ELSE IF call[r].op = "fetch" THEN ~Active(n) ELSE CurrentAt(n)

\* Until something is tangled, at most one request is under way.
Alone == \A r, t \in Slots : stage[r] # "idle" /\ stage[t] # "idle" => r = t

\* What that one request finds at the server and brings back.
OnCourse(r) ==
  /\ stage[r] # "abandoned"
  /\ stage[r] = "sent" => \A n \in Numbers : since[r][n] = Newest(n)
  /\ stage[r] = "sent" /\ call[r].op # "fetch" => Current
  /\ stage[r] = "sent" /\ call[r].op \in {"update", "close"} => items[call[r].number] # << >>
  /\ stage[r] = "answered" /\ answer[r] # Null => ReplyFits(r)

QuietInv ==
  ~tangled =>
    /\ Alone
    /\ ~error => (AllIdle => Current) /\ \A r \in Slots : OnCourse(r)

\* With a single request under way the others are idle, before and after it ends.
LEMMA DispatchQuiet ==
  ASSUME TypeInv, QuietInv, NEW r \in Slots, NEW c \in Calls, Dispatch(r, c)
  PROVE  QuietInv'
<1> SUFFICES ASSUME ~tangled'
             PROVE  Alone' /\ (~error' => ~AllIdle' /\ \A t \in Slots : OnCourse(t)')
  BY DEF QuietInv
<1>1. AllIdle /\ (tangled => c.op = "fetch")
  BY DEF Dispatch
<1>2. \A t \in Slots : stage'[t] = IF t = r THEN "sent" ELSE "idle"
  BY <1>1 DEF Dispatch, AllIdle, TypeInv, TypeOK
<1>3. Alone' /\ ~AllIdle'
  BY <1>2 DEF Alone, AllIdle
<1>4. call'[r] = c /\ items' = items /\ ledger' = ledger
  BY DEF Dispatch, TypeInv, TypeOK
<1>5. ASSUME ~error', NEW t \in Slots PROVE OnCourse(t)'
  <2>1. CASE t # r
    BY <1>2, <2>1 DEF OnCourse
  <2>2. CASE t = r
    <3>1. c.op # "fetch" => Current'
      BY <1>1, <1>4, <1>5 DEF Dispatch, QuietInv, Current, CurrentAt, Active, Newest, Row
    <3>2. c.op \in {"update", "close"} => items[c.number] # << >>
      BY StoreAssumption DEF Dispatch, Calls
    <3>3. \A n \in Numbers : since'[r][n] = Newest(n)'
      BY <1>4 DEF Dispatch, Newest, TypeInv, TypeOK
    <3> QED  BY <1>2, <1>4, <2>2, <3>1, <3>2, <3>3 DEF OnCourse, Newest
  <2> QED  BY <2>1, <2>2
<1> QED  BY <1>3, <1>5

LEMMA SingleRow ==
  ASSUME NEW x
  PROVE  Len(<<x>>) = 1 /\ <<x>>[1] = x
OBVIOUS

\* What the server does for a request sent on its own fits the rows of the page.
LEMMA ServeFits ==
  ASSUME TypeInv, NEW r \in Slots, stage[r] = "sent", OnCourse(r),
         NEW a \in Outcomes(call[r], since[r]), Store(call[r].op, a), answer'[r] = a,
         call' = call, items' = items
  PROVE  ReplyFits(r)'
<1> DEFINE c == call[r]
<1>1. /\ c \in Calls /\ items \in [Numbers -> Seq(Rows)] /\ LedgerType /\ since[r] \in Versions
      /\ \A n \in Numbers : since[r][n] = Newest(n)
  BY LedgerTyped DEF TypeInv, TypeOK, CallsInUse, OnCourse
<1>2. ASSUME NEW n \in Numbers, ledger'[n] = ledger[n]
      PROVE  /\ Newest(n)' = Newest(n) /\ Row(n, Newest(n))' = Row(n, Newest(n))
             /\ Active(n)' = Active(n)
             /\ CurrentAt(n) => CurrentAt(n)'
  BY <1>2 DEF Newest, Row, Active, CurrentAt
<1>3. CASE c.op = "fetch"
  <2>1. PICK v \in Moments(since[r]) :
          /\ DOMAIN a = {m \in Numbers : v[m] # 0 /\ ledger[m][v[m]]}
          /\ \A m \in DOMAIN a : v[m] \in 1 .. Newest(m) /\ a[m] = Row(m, v[m])
    BY <1>1, <1>3, FetchOutcome
  <2>2. \A m \in Numbers : v[m] = Newest(m)
    <3> SUFFICES ASSUME NEW m \in Numbers PROVE v[m] = Newest(m)
      OBVIOUS
    <3>1. v[m] \in Newest(m) .. Newest(m) /\ Newest(m) \in Nat
      BY <1>1, NewestType DEF Moments
    <3> QED  BY <3>1
  <2>3. \A n \in Numbers : ledger'[n] = ledger[n]
    BY <1>1, <1>3, StoreAppends
  <2>4. ASSUME NEW n \in Numbers, n \in DOMAIN a
        PROVE  Newest(n)' # 0 /\ a[n] = Row(n, Newest(n))'
    BY <1>2, <2>1, <2>2, <2>3, <2>4
  <2>5. ASSUME NEW n \in Numbers, n \notin DOMAIN a PROVE ~Active(n)'
    BY <1>2, <2>1, <2>2, <2>3, <2>5 DEF Active
  <2> QED  BY <1>3, <2>4, <2>5 DEF ReplyFits
<1>4. ASSUME c.op # "fetch", NEW n \in Numbers, n \notin DOMAIN a
      PROVE  CurrentAt(n)'
  <2>1. ledger'[n] = ledger[n] /\ CurrentAt(n)
    BY <1>1, <1>4, StoreAppends DEF OnCourse, Current
  <2> QED  BY <1>2, <2>1
<1>5. ASSUME c.op # "fetch", NEW n \in DOMAIN a
      PROVE  n \in Numbers /\ Newest(n)' # 0 /\ a[n] = Row(n, Newest(n))'
  <2>1. /\ n \in Numbers /\ a[n] \in Rows /\ Stored(ledger', n, a[n])
        /\ Newest(n)' = a[n].version
    BY <1>1, <1>5, AnswerIsStored
  <2>2. a[n].version \in 1 .. MaxVersion
    BY <2>1, RowFields
  <2>3. a[n] = [version |-> a[n].version, active |-> a[n].active]
    BY <2>1 DEF Rows
  <2>4. a[n].active = ledger'[n][a[n].version]
    BY <2>1 DEF Stored
  <2> QED  BY <2>1, <2>2, <2>3, <2>4 DEF Row
<1>6. CASE c.op = "create"
  <2>1. PICK k \in Numbers :
          Newest(k) = 0 /\ a = [m \in {k} |-> [version |-> 1, active |-> TRUE]]
    BY <1>1, <1>6, CreateOutcome
  <2>2. DOMAIN a = {k}
    BY <2>1
  <2>3. CurrentAt(k)
    BY <1>6 DEF OnCourse, Current
  <2>4. items[k] = << >>
    BY <2>1, <2>3 DEF CurrentAt
  <2> QED  BY <1>4, <1>5, <1>6, <2>2, <2>4 DEF ReplyFits
<1>7. CASE c.op \in {"update", "close"}
  <2>1. DOMAIN a = {c.number} /\ c.number \in Numbers
    <3>1. PICK active \in BOOLEAN :
            a = [m \in {c.number} |-> [version |-> Newest(c.number) + 1, active |-> active]]
      BY <1>1, <1>7, WriteOutcome
    <3>2. DOMAIN a = {c.number}
      BY <3>1
    <3> QED  BY <1>1, <1>7, <3>2, WriteOutcome
  <2>2. CurrentAt(c.number) /\ items[c.number] # << >>
    BY <1>7, <2>1 DEF OnCourse, Current
  <2>3. Len(items[c.number]) = 1
    BY <2>2, SingleRow DEF CurrentAt
  <2> QED  BY <1>4, <1>5, <1>7, <2>1, <2>3 DEF ReplyFits
<1> QED  BY <1>1, <1>3, <1>6, <1>7 DEF Calls

\* The reducers bring the rows up to date.
LEMMA FulfilQuiet ==
  ASSUME TypeInv, NEW r \in Slots, call[r] \in Calls, answer[r] \in Answers, ReplyFits(r),
         Fulfil(call[r].op, answer[r]), ledger' = ledger
  PROVE  Current'
<1> SUFFICES ASSUME NEW n \in Numbers PROVE CurrentAt(n)'
  BY DEF Current
<1> DEFINE a == answer[r]
           now == Row(n, Newest(n))
<1>1. items[n] \in Seq(Rows)
  BY DEF TypeInv, TypeOK
<1>2. /\ items'[n] = << >> /\ ~Active(n) => CurrentAt(n)'
      /\ Newest(n) # 0 /\ items'[n] = <<now>> => CurrentAt(n)'
      /\ items'[n] = items[n] /\ CurrentAt(n) => CurrentAt(n)'
  <2>1. Newest(n)' = Newest(n) /\ Row(n, Newest(n))' = now /\ Active(n)' = Active(n)
    BY DEF Newest, Row, Active
  <2>2. <<now>> # << >>
    BY SingleRow
  <2> HIDE DEF now
  <2>3. CurrentAt(n) <=> IF items[n] = << >> THEN ~Active(n)
                         ELSE Newest(n) # 0 /\ items[n] = <<now>>
    BY DEF CurrentAt, now
  <2>4. CurrentAt(n)' <=> IF items'[n] = << >> THEN ~Active(n)
                          ELSE Newest(n) # 0 /\ items'[n] = <<now>>
    BY <2>1 DEF CurrentAt
  <2>5. items'[n] = << >> /\ ~Active(n) => CurrentAt(n)'
    BY <2>4, Zenon
  <2>6. Newest(n) # 0 /\ items'[n] = <<now>> => CurrentAt(n)'
    BY <2>2, <2>4, Zenon
  <2>7. items'[n] = items[n] /\ CurrentAt(n) => CurrentAt(n)'
    BY <2>3, <2>4, Zenon
  <2> QED  BY <2>5, <2>6, <2>7
<1>3. n \in DOMAIN a =>
        /\ Newest(n) # 0 /\ a[n] = now /\ now \in Rows
        /\ call[r].op = "create" => items[n] = << >>
        /\ call[r].op \in {"update", "close"} => Len(items[n]) = 1
  BY AnswerFields DEF ReplyFits
<1>4. n \notin DOMAIN a => IF call[r].op = "fetch" THEN ~Active(n) ELSE CurrentAt(n)
  BY DEF ReplyFits
<1> HIDE DEF now, a
<1>5. CASE call[r].op = "fetch"
  <2>1. items'[n] = IF n \in DOMAIN a THEN <<a[n]>> ELSE << >>
    BY <1>5 DEF Fulfil, Replaced, a
  <2> QED  BY <1>2, <1>3, <1>4, <1>5, <2>1
<1>6. CASE call[r].op = "create"
  <2>1. items'[n] = IF n \in DOMAIN a THEN Append(items[n], a[n]) ELSE items[n]
    BY <1>6 DEF Fulfil, Pushed, a
  <2>2. Append(<< >>, now) = <<now>>
    OBVIOUS
  <2> QED  BY <1>2, <1>3, <1>4, <1>6, <2>1, <2>2
<1>7. CASE call[r].op \in {"update", "close"}
  <2>1. items'[n] = IF n \in DOMAIN a /\ items[n] # << >>
                    THEN [items[n] EXCEPT ![1] = a[n]] ELSE items[n]
    BY <1>7 DEF Fulfil, Updated, a
  <2>2. CASE n \in DOMAIN a
    <3>1. items'[n] = [items[n] EXCEPT ![1] = now] /\ Len(items[n]) = 1
      BY <1>1, <1>3, <1>7, <2>1, <2>2
    <3>2. items'[n] = <<now>>
      BY <1>1, <1>3, <2>2, <3>1
    <3> QED  BY <1>2, <1>3, <2>2, <3>2
  <2>3. CASE n \notin DOMAIN a
    BY <1>2, <1>4, <1>7, <2>1, <2>3
  <2> QED  BY <2>2, <2>3
<1> QED  BY <1>5, <1>6, <1>7 DEF Calls

LEMMA QuietStep == TypeInv /\ QuietInv /\ [Next]_vars => QuietInv'
<1> SUFFICES ASSUME TypeInv, QuietInv, [Next]_vars PROVE QuietInv'
  OBVIOUS
\* A step of a request that ends with an error, or leaves one shown.
<1>1. ASSUME tangled' = tangled, error', Alone => Alone' PROVE QuietInv'
  BY <1>1 DEF QuietInv
\* A request under way stays the only one, or there is none any more.
<1>2. ASSUME NEW r \in Slots, stage[r] # "idle",
             \A t \in Slots \ {r} : stage'[t] = stage[t]
      PROVE  Alone => Alone'
  BY <1>2 DEF Alone
<1>3. ASSUME NEW r \in Slots, Serve(r) PROVE QuietInv'
  <2>1. tangled' = tangled /\ error' = error /\ call' = call /\ items' = items
    BY <1>3 DEF Serve
  <2>2. /\ stage[r] = "sent" /\ stage'[r] = "answered"
        /\ \A t \in Slots \ {r} : stage'[t] = stage[t]
    BY <1>3 DEF Serve, TypeInv, TypeOK
  <2> SUFFICES ASSUME ~tangled, ~error, Alone
               PROVE  ~AllIdle' /\ \A t \in Slots : OnCourse(t)'
    BY <1>2, <2>1, <2>2 DEF QuietInv
  <2>3. ASSUME NEW t \in Slots \ {r} PROVE OnCourse(t)'
    BY <2>2, <2>3 DEF OnCourse, Alone
  <2>4. OnCourse(r)'
    <3>1. PICK a \in Outcomes(call[r], since[r]) :
            /\ Store(call[r].op, a)
            /\ \E lost \in BOOLEAN : answer' = [answer EXCEPT ![r] = IF lost THEN Null ELSE a]
      BY <1>3 DEF Serve
    <3>2. answer'[r] = a \/ answer'[r] = Null
      BY <3>1 DEF TypeInv, TypeOK
    <3>3. OnCourse(r)
      BY DEF QuietInv
    <3>4. answer'[r] = a => ReplyFits(r)'
      BY <2>1, <2>2, <3>1, <3>3, ServeFits
    <3> QED  BY <2>2, <3>2, <3>4 DEF OnCourse
  <2> QED  BY <2>2, <2>3, <2>4 DEF AllIdle
<1>4. ASSUME NEW r \in Slots, Fail(r) PROVE QuietInv'
  <2>1. tangled' = tangled /\ error' = error
    BY <1>4 DEF Fail
  <2>2. /\ stage[r] = "sent" /\ stage'[r] = "answered" /\ answer'[r] = Null
        /\ \A t \in Slots \ {r} : stage'[t] = stage[t]
    BY <1>4 DEF Fail, TypeInv, TypeOK
  <2>3. ASSUME Alone, NEW t \in Slots PROVE OnCourse(t)'
    BY <2>2, <2>3 DEF OnCourse, Alone
  <2> QED  BY <1>2, <2>1, <2>2, <2>3 DEF QuietInv, AllIdle
<1>5. ASSUME NEW r \in Slots, Settle(r) PROVE QuietInv'
  <2>1. tangled' = tangled /\ ledger' = ledger
    BY <1>5 DEF Settle
  <2>2. /\ stage[r] = "answered" /\ stage'[r] = "idle"
        /\ \A t \in Slots \ {r} : stage'[t] = stage[t]
    BY <1>5 DEF Settle, Release, TypeInv, TypeOK
  <2>3. CASE answer[r] = Null
    BY <1>1, <1>2, <1>5, <2>1, <2>2, <2>3 DEF Settle, Reject
  <2>4. CASE answer[r] # Null
    <3>1. error' = error /\ Fulfil(call[r].op, answer[r])
      BY <1>5, <2>4 DEF Settle, Fulfil
    <3> SUFFICES ASSUME ~tangled, ~error, Alone
                 PROVE  Current' /\ \A t \in Slots : OnCourse(t)'
      BY <1>2, <2>1, <2>2, <3>1 DEF QuietInv
    <3>2. ReplyFits(r)
      BY <2>2, <2>4 DEF QuietInv, OnCourse
    <3>3. call[r] \in Calls /\ answer[r] \in Answers
      BY <2>2, <2>4 DEF TypeInv, TypeOK, CallsInUse
    <3>4. ASSUME NEW t \in Slots PROVE OnCourse(t)'
      BY <2>2, <3>4 DEF OnCourse, Alone
    <3> QED  BY <2>1, <3>1, <3>2, <3>3, <3>4, FulfilQuiet
  <2> QED  BY <2>3, <2>4
<1>6. ASSUME NEW r \in Slots, GiveUp(r) PROVE QuietInv'
  <2>1. stage[r] # "idle" /\ \A t \in Slots \ {r} : stage'[t] = stage[t]
    BY <1>6 DEF GiveUp, Release, Pending, TypeInv, TypeOK
  <2> QED  BY <1>1, <1>2, <1>6, <2>1 DEF GiveUp, Reject
<1>7. ASSUME NEW r \in Slots, ServeLate(r) PROVE QuietInv'
  <2>1. /\ stage[r] = "abandoned" /\ tangled' = tangled /\ error' = error
        /\ \A t \in Slots \ {r} : stage'[t] = stage[t]
    BY <1>7 DEF ServeLate, Release, TypeInv, TypeOK
  <2>2. tangled \/ error
    BY <2>1 DEF QuietInv, OnCourse
  <2>3. CASE tangled
    BY <2>1, <2>3 DEF QuietInv
  <2>4. CASE error
    BY <1>1, <1>2, <2>1, <2>4
  <2> QED  BY <2>2, <2>3, <2>4
<1>8. ASSUME NEW n \in Numbers, ChangeElsewhere(n) PROVE QuietInv'
  BY <1>8 DEF ChangeElsewhere, QuietInv
<1>9. CASE UNCHANGED vars
  BY <1>9 DEF vars, QuietInv, Alone, AllIdle, Current, CurrentAt, OnCourse, ReplyFits, Active, Newest, Row
<1> QED  BY <1>3, <1>4, <1>5, <1>6, <1>7, <1>8, <1>9, DispatchQuiet DEF Next, Quiescent

\* After a list fetched on its own, and as long as requests follow one another without
\* an error, the page shows exactly what the server stores (accountsSlice.ts).
THEOREM QuietPageIsCurrent == Spec => []QuietMeansCurrent
<1>1. Init => QuietInv
  BY DEF Init, QuietInv
<1>2. QuietInv => QuietMeansCurrent
  BY DEF QuietInv, QuietMeansCurrent, Current, CurrentAt
<1> QED  BY <1>1, <1>2, TypeInit, TypeStep, QuietStep, PTL DEF Spec

=============================================================================
