----------------------------- MODULE ClientStore -----------------------------
(***************************************************************************)
(* The accounts slice of the user interface (ui/src/store/accountsSlice.ts *)
(* with ui/src/services and the dialogs that dispatch its thunks) in one   *)
(* browser session, and the account component behind it.                   *)
(*                                                                         *)
(* The component is AccountService for the accounts of the signed-in user, *)
(* with strongly consistent reads: every change gives an account a new     *)
(* version.  Its reads change nothing, so they are no steps here.  What    *)
(* they returned is chosen when the request commits or is answered: any    *)
(* version that was the newest at some moment since the request was sent.  *)
(* Writes that overlap undo each other, and reopen a closed account, as    *)
(* they do there.  Requests and answers overtake each other; the client    *)
(* gives up after its timeout, and the server may process the request      *)
(* afterwards.                                                             *)
(***************************************************************************)
EXTENDS Naturals, Sequences, FiniteSets

CONSTANTS
  Slots,          \* slots for requests under way at the same time
  Numbers,        \* account numbers
  Null,           \* the absence of a value
  MaxVersion,     \* bound: how often an account is written
  MaxDispatches   \* bound: how many thunks are dispatched

ASSUME StoreAssumption ==
  /\ MaxVersion \in Nat \ {0} /\ MaxDispatches \in Nat
  /\ Null \notin [version: 1 .. MaxVersion, active: BOOLEAN] /\ Null \notin Numbers
  /\ IsFiniteSet(Slots) /\ IsFiniteSet(Numbers)

VARIABLES
  ledger,      \* for every account number, whether each of its versions is active
  stage,       \* how far the request in each slot has come
  call,        \* what the thunk in the slot asks for
  since,       \* the newest versions when the request in the slot was sent
  answer,      \* the answer under way to the client, Null for an error
  items,       \* the rows of the slice for every number, in their order
  loading,     \* the spinner of the account list
  error,       \* whether an error is shown
  dispatched,  \* the number of thunks dispatched so far
  tangled,     \* history variable, see Dispatch
  orders       \* history variable: how many accounts the user has ordered

vars ==
  <<ledger, stage, call, since, answer, items, loading, error, dispatched, tangled, orders>>

-----------------------------------------------------------------------------
(* Rows, requests and answers.                                             *)

Rows == [version: 1 .. MaxVersion, active: BOOLEAN]

Calls ==
  [op: {"fetch", "create"}, number: {Null}] \cup [op: {"update", "close"}, number: Numbers]

NoCall == [op |-> "none", number |-> Null]

\* An answer shows some accounts: the list the active ones, a write one.
Answers == UNION {[S -> Rows] : S \in SUBSET Numbers}

\* The request is under way to the server, or its answer to the client.
Pending(r) == stage[r] \in {"sent", "answered"}

\* Nothing is under way, not even a request the client no longer waits for.
AllIdle == \A r \in Slots : stage[r] = "idle"

\* The number of the newest version of an account, 0 if there is none.
Newest(n) == Len(ledger[n])

Active(n) == Newest(n) # 0 /\ ledger[n][Newest(n)]

\* What an answer shows of a version.
Row(n, v) == [version |-> v, active |-> ledger[n][v]]

-----------------------------------------------------------------------------
(* The reducers of fulfilled and rejected thunks.                          *)

\* state.items = action.payload
Replaced(a) ==
  [n \in Numbers |-> IF n \in DOMAIN a THEN <<a[n]>> ELSE << >>]

\* Mutant: a new account is not added to the list.
NotPushed(a) == items

\* state.items.push(action.payload)
Pushed(a) ==
  [n \in Numbers |-> IF n \in DOMAIN a THEN Append(items[n], a[n]) ELSE items[n]]

\* Mutant: the row to replace is not looked for by its number.
UpdatedAnyRow(a) ==
  [n \in Numbers |-> IF items[n] # << >>
                     THEN [items[n] EXCEPT ![1] = a[CHOOSE m \in DOMAIN a : TRUE]]
                     ELSE items[n]]

\* The first row with the number is replaced, if there is one (findIndex).
Updated(a) ==
  [n \in Numbers |-> IF n \in DOMAIN a /\ items[n] # << >>
                     THEN [items[n] EXCEPT ![1] = a[n]] ELSE items[n]]

Fulfil(op, a) ==
  /\ items' = CASE op = "fetch" -> Replaced(a)
                [] op = "create" -> Pushed(a)
                [] OTHER -> Updated(a)
  /\ loading' = (loading /\ op # "fetch")
  /\ UNCHANGED error

Reject(op) ==
  /\ error' = TRUE
  /\ loading' = (loading /\ op # "fetch")
  /\ UNCHANGED items

-----------------------------------------------------------------------------
(* Actions.                                                                *)

Init ==
  /\ ledger = [n \in Numbers |-> << >>]
  /\ stage = [r \in Slots |-> "idle"]
  /\ call = [r \in Slots |-> NoCall]
  /\ since = [r \in Slots |-> [n \in Numbers |-> 0]]
  /\ answer = [r \in Slots |-> Null]
  /\ items = [n \in Numbers |-> << >>]
  /\ loading = FALSE /\ error = FALSE
  /\ dispatched = 0 /\ tangled = TRUE /\ orders = 0

\* Mutant: every thunk shows the spinner of the list.
EveryThunkLoads(c) == TRUE

\* fetchAccounts is the only thunk with a reducer for its pending action.
Loads(c) == c.op = "fetch"

\* A page is opened or a dialog confirmed; an update or a close is about a row
\* shown (no page dispatches updateAccount yet).  Things are tangled from a
\* request that meets another one under way until a fetch is sent on its own.
Dispatch(r, c) ==
  /\ stage[r] = "idle" /\ dispatched < MaxDispatches
  /\ c.number # Null => items[c.number] # << >>
  /\ stage' = [stage EXCEPT ![r] = "sent"]
  /\ call' = [call EXCEPT ![r] = c]
  /\ since' = [since EXCEPT ![r] = [n \in Numbers |-> Newest(n)]]
  /\ dispatched' = dispatched + 1
  /\ loading' = (loading \/ Loads(c))
  /\ error' = (error /\ c.op # "fetch")
  /\ tangled' = (IF AllIdle THEN tangled /\ c.op # "fetch" ELSE TRUE)
  /\ orders' = (IF c.op = "create" THEN orders + 1 ELSE orders)
  /\ UNCHANGED <<ledger, answer, items>>

\* Mutant: lists are answered from a copy the server keeps.
OldMoments(from) == {v \in [Numbers -> 0 .. MaxVersion] : \A n \in Numbers : v[n] <= Newest(n)}

\* The versions a query meets: each account at a moment of its own.
Moments(from) ==
  {v \in [Numbers -> 0 .. MaxVersion] : \A n \in Numbers : v[n] \in from[n] .. Newest(n)}

\* The versions repo.update may base its replacement on: the check was passed by
\* a version read before, or by the same one.
Bases(n, from) ==
  {v \in from .. Newest(n) : \E u \in from .. v : u # 0 /\ ledger[n][u]}

\* What a request sent when the versions were from can be answered with now.  A
\* list shows the accounts that are active.  A write stores a new version: the
\* one it read last, with its own change.
Outcomes(c, from) ==
  IF c.op = "fetch"
  THEN {[n \in {m \in Numbers : v[m] # 0 /\ ledger[m][v[m]]} |-> Row(n, v[n])] :
          v \in Moments(from)}
  ELSE IF c.op = "create"
  THEN {[m \in {n} |-> [version |-> 1, active |-> TRUE]] :
          n \in {m \in Numbers : Newest(m) = 0}}
  ELSE {[m \in {c.number} |-> [version |-> Newest(m) + 1,
                              active |-> c.op = "update" /\ ledger[m][v]]] :
          v \in {b \in Bases(c.number, from[c.number]) : Newest(c.number) < MaxVersion}}

\* What a request but a fetch is answered with is stored.
Store(op, a) ==
  ledger' = [n \in Numbers |-> IF op # "fetch" /\ n \in DOMAIN a
                               THEN Append(ledger[n], a[n].active) ELSE ledger[n]]

\* The answer is what the request did, or an error although it was done.
Serve(r) ==
  /\ stage[r] = "sent"
  /\ \E a \in Outcomes(call[r], since[r]) :
       /\ Store(call[r].op, a)
       /\ \E lost \in BOOLEAN :
            answer' = [answer EXCEPT ![r] = IF lost THEN Null ELSE a]
  /\ stage' = [stage EXCEPT ![r] = "answered"]
  /\ UNCHANGED <<call, since, items, loading, error, dispatched, tangled, orders>>

\* The server refuses the request or fails.
Fail(r) ==
  /\ stage[r] = "sent"
  /\ stage' = [stage EXCEPT ![r] = "answered"]
  /\ answer' = [answer EXCEPT ![r] = Null]
  /\ UNCHANGED <<ledger, call, since, items, loading, error, dispatched, tangled, orders>>

\* The slot is free again.
Release(r) ==
  /\ stage' = [stage EXCEPT ![r] = "idle"]
  /\ call' = [call EXCEPT ![r] = NoCall]
  /\ since' = [since EXCEPT ![r] = [n \in Numbers |-> 0]]
  /\ answer' = [answer EXCEPT ![r] = Null]

\* Mutant: an error is taken for an account.
SettleAnything(r) ==
  /\ stage[r] = "answered"
  /\ IF answer[r] # Null THEN Fulfil(call[r].op, answer[r])
     ELSE Fulfil(call[r].op, [n \in Numbers |-> Null])
  /\ Release(r)
  /\ UNCHANGED <<ledger, dispatched, tangled, orders>>

\* The answer arrives and the thunk is fulfilled or rejected.
Settle(r) ==
  /\ stage[r] = "answered"
  /\ IF answer[r] # Null THEN Fulfil(call[r].op, answer[r]) ELSE Reject(call[r].op)
  /\ Release(r)
  /\ UNCHANGED <<ledger, dispatched, tangled, orders>>

\* Mutant: the API client repeats a request that has timed out.
GiveUpAndSendAgain(r) ==
  /\ Pending(r)
  /\ stage' = [stage EXCEPT ![r] = "sent"]
  /\ answer' = [answer EXCEPT ![r] = Null]
  /\ UNCHANGED <<ledger, call, since, items, loading, error, dispatched, tangled, orders>>

\* The client's timeout, or a network error: the thunk is rejected.  A request
\* that has not been processed yet stays under way.
GiveUp(r) ==
  /\ Pending(r)
  /\ Reject(call[r].op)
  /\ IF stage[r] = "answered"
     THEN Release(r)
     ELSE stage' = [stage EXCEPT ![r] = "abandoned"] /\ UNCHANGED <<call, since, answer>>
  /\ UNCHANGED <<ledger, dispatched, tangled, orders>>

\* The server processes a request the client has given up, or never gets it.
ServeLate(r) ==
  /\ stage[r] = "abandoned"
  /\ \/ \E a \in Outcomes(call[r], since[r]) : Store(call[r].op, a)
     \/ UNCHANGED ledger
  /\ Release(r)
  /\ UNCHANGED <<items, loading, error, dispatched, tangled, orders>>

\* A request of another session of the same user amends or closes an account.  It
\* may have been under way for any time.
ChangeElsewhere(n) ==
  /\ \E op \in {"update", "close"} :
       \E a \in Outcomes([op |-> op, number |-> n], [m \in Numbers |-> 1]) : Store(op, a)
  /\ tangled' = TRUE
  /\ UNCHANGED <<stage, call, since, answer, items, loading, error, dispatched, orders>>

\* All thunks the bound allows have been settled.
Quiescent ==
  /\ dispatched = MaxDispatches /\ AllIdle
  /\ UNCHANGED vars

Next ==
  \/ \E r \in Slots :
       \/ \E c \in Calls : Dispatch(r, c)
       \/ Serve(r) \/ Fail(r) \/ Settle(r) \/ GiveUp(r) \/ ServeLate(r)
  \/ \E n \in Numbers : ChangeElsewhere(n)
  \/ Quiescent

Spec == Init /\ [][Next]_vars

\* A pending thunk is settled at the latest by the timeout of the client.
FairSpec == Spec /\ \A r \in Slots : WF_vars(Settle(r) \/ GiveUp(r))

-----------------------------------------------------------------------------
(* Properties.                                                             *)

\* Every variable holds values of the kind its code counterpart holds.
TypeOK ==
  /\ ledger \in [Numbers -> Seq(BOOLEAN)] /\ \A n \in Numbers : Newest(n) <= MaxVersion
  /\ stage \in [Slots -> {"idle", "sent", "answered", "abandoned"}]
  /\ call \in [Slots -> Calls \cup {NoCall}]
  /\ since \in [Slots -> [Numbers -> 0 .. MaxVersion]]
  /\ answer \in [Slots -> Answers \cup {Null}]
  /\ items \in [Numbers -> Seq(Rows)]
  /\ loading \in BOOLEAN /\ error \in BOOLEAN /\ tangled \in BOOLEAN
  /\ dispatched \in 0 .. MaxDispatches /\ orders \in 0 .. dispatched

\* The spinner is shown only while a list is being fetched: no order of answers,
\* errors and timeouts leaves it on.
LoadingMeansFetching ==
  loading => \E r \in Slots : Pending(r) /\ call[r].op = "fetch"

\* When nothing is under way, no error is shown and no two requests have met
\* since the last list was fetched, the page shows what the server stores: every
\* active account once and as it is, a closed account as closed or not at all.
QuietMeansCurrent ==
  AllIdle /\ ~error /\ ~tangled =>
    \A n \in Numbers :
      IF items[n] = << >> THEN ~Active(n)
      ELSE Newest(n) # 0 /\ items[n] = <<Row(n, Newest(n))>>

\* Every row shows a version the server has stored, as it was stored: no row runs
\* ahead of the server, and an account is shown as closed only if it has been
\* closed, be it reopened since by a write that overlapped.
RowsWereStored ==
  \A n \in Numbers : \A i \in 1 .. Len(items[n]) :
    LET v == items[n][i].version
    IN  v \in 1 .. Newest(n) /\ items[n][i].active = ledger[n][v]

\* The answer to the request in slot r arrives and changes the rows.
Arrives(r) == stage[r] = "answered" /\ stage'[r] = "idle" /\ items' # items

\* Only answers that were overtaken turn the page back: a row shown gives way to an
\* older one, or an account that has not been closed since disappears, only if the
\* newer version was stored after the request was sent.
OnlyOvertakenTurnBack ==
  [][\A r \in Slots, n \in Numbers :
       Arrives(r) /\ items[n] # << >> /\ items[n][1].version <= since[r][n] =>
         IF items'[n] = << >>
         THEN \E v \in since[r][n] .. Newest(n) : ~ledger[n][v]
         ELSE items'[n][1].version >= items[n][1].version]_vars

\* Orders under way of which it is open whether they succeed.
OpenOrders == {r \in Slots : call[r].op = "create" /\ stage[r] \in {"sent", "abandoned"}}

Opened == {n \in Numbers : Newest(n) # 0}

\* However requests fail, time out and are processed late, every account stems from
\* an order of its own, and an order still under way has not opened one: a second
\* account appears only where the user repeats an order after an error.
OneAccountPerOrder == Cardinality(Opened) + Cardinality(OpenOrders) <= orders

=============================================================================
