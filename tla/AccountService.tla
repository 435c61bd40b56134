--------------------------- MODULE AccountService ---------------------------
(***************************************************************************)
(* The account component: the routes of api/accounts.py, the service of    *)
(* services/account_service.py and the repository of                       *)
(* repository/cosmos_account_repository.py, over one Cosmos DB container.  *)
(*                                                                         *)
(* A handler is the coroutine that serves one request, in any of the       *)
(* running replicas.  It gives up control at every await of a Cosmos call, *)
(* so the lookup, the checks that use its result, the repository's own     *)
(* read and the replacement are separate steps, and other handlers run in  *)
(* between.  A reply with status 500 stands for every failure the client   *)
(* cannot tell apart: an error of Cosmos DB, an unexpected exception, a    *)
(* replica that stops while it serves the request.                         *)
(***************************************************************************)
EXTENDS VersionedContainer

CONSTANTS
  Handlers,     \* slots for requests being served at the same time
  Numbers,      \* account numbers _generate_account_number may draw
  Users,        \* JWT subjects
  Employees,    \* the users with role "bank_employee"
  Types,        \* account types
  Currencies,   \* currency codes, in upper case
  Deposits,     \* initial deposits
  Reasons,      \* closure reasons
  Null,         \* the absence of a value (Python's None)
  Ops,          \* the operations the clients use
  MaxRequests   \* bound: how many requests are accepted in all

Operations ==
  {"create", "update", "close", "get", "list", "balance", "adminGet", "adminList"}

ASSUME AccountAssumption ==
  /\ Employees \subseteq Users
  /\ Ops \subseteq Operations
  /\ MaxRequests \in Nat
  /\ Null \notin Nat \cup Numbers \cup Currencies \cup Reasons

VARIABLES
  container,    \* the versions committed for every account number
  clock,        \* the value datetime.now(timezone.utc) last returned
  accepted,     \* the number of requests accepted so far
  pc,           \* what each handler will do next
  call,         \* the request each handler serves or served last
  target,       \* the account number that request works on
  seen,         \* the version the handler last read of that account
  stamp,        \* the "now" the handler captured
  scanned,      \* the <<number, version>> pairs a query has visited
  since,        \* history variable: the newest versions when a query began
  reply         \* the answer to the last request of each handler

vars == <<container, clock, accepted, pc, call, target, seen, stamp, scanned,
          since, reply>>

-----------------------------------------------------------------------------
(* Requests, documents and replies.                                        *)

CreateCall == [op: {"create"}, caller: Users, type: Types,
               currency: Currencies, deposit: Deposits]
UpdateCall == [op: {"update"}, caller: Users, number: Numbers,
               currency: Currencies \cup {Null}]
CloseCall == [op: {"close"}, caller: Users, number: Numbers, reason: Reasons]
GetCall == [op: {"get", "adminGet"}, caller: Users, number: Numbers]
BalanceCall == [op: {"balance"}, caller: Users, type: Types]
ListCall == [op: {"list"}, caller: Users]
AdminListCall == [op: {"adminList"}, caller: Users, includeClosed: BOOLEAN]

Calls == CreateCall \cup UpdateCall \cup CloseCall \cup GetCall \cup BalanceCall
           \cup ListCall \cup AdminListCall

\* A handler that has not served a request yet.
NoCall == [op |-> "none"]

KeyedOps == {"update", "close", "get", "adminGet"}
WriteOps == {"update", "close"}
AdminOps == {"adminGet", "adminList"}

Documents ==
  [number: Numbers, owner: Users, type: Types, status: {"ACTIVE", "CLOSED"},
   balance: Deposits, currency: Currencies, createdAt: Nat, updatedAt: Nat,
   closedAt: Nat \cup {Null}, reason: Reasons \cup {Null}, isDeleted: BOOLEAN]

\* The document create_account builds.
NewAccount(n, c, t) ==
  [number |-> n, owner |-> c.caller, type |-> c.type, status |-> "ACTIVE",
   balance |-> c.deposit, currency |-> c.currency, createdAt |-> t,
   updatedAt |-> t, closedAt |-> Null, reason |-> Null, isDeleted |-> FALSE]

\* Mutant: a payload without currency writes None.
ApplyUpdateWithNone(doc, c, t) ==
  [doc EXCEPT !.updatedAt = t, !.currency = c.currency]

\* Mutant: the document is rebuilt from the defaults of a new account.
ApplyUpdateFromDefaults(doc, c, t) ==
  [doc EXCEPT !.updatedAt = t, !.status = "ACTIVE", !.isDeleted = FALSE,
              !.closedAt = Null, !.reason = Null]

\* The fields update_account changes: the currency only if the payload has one.
ApplyUpdate(doc, c, t) ==
  [doc EXCEPT !.updatedAt = t,
              !.currency = IF c.currency = Null THEN @ ELSE c.currency]

\* Mutant: is_deleted is missing from the repository's field map.
ApplyCloseKeepsFlag(doc, c, t) ==
  [doc EXCEPT !.status = "CLOSED", !.closedAt = t, !.reason = c.reason,
              !.updatedAt = t]

\* Mutant: the closing time is not written to updated_at.
ApplyCloseOldStamp(doc, c, t) ==
  [doc EXCEPT !.status = "CLOSED", !.isDeleted = TRUE, !.closedAt = t,
              !.reason = c.reason, !.updatedAt = doc.createdAt]

\* The fields close_account changes.
ApplyClose(doc, c, t) ==
  [doc EXCEPT !.status = "CLOSED", !.isDeleted = TRUE, !.closedAt = t,
              !.reason = c.reason, !.updatedAt = t]

\* existing.update(cosmos_updates): the document the repository writes back.
Merged(existing, c, t) ==
  IF c.op = "close" THEN ApplyClose(existing, c, t) ELSE ApplyUpdate(existing, c, t)

\* A reply carries the <<number, version>> pairs of the documents it shows.
NoReply == [status |-> 0, body |-> {}]
Statuses == {0, 200, 201, 403, 404, 409, 500}

\* The document a <<number, version>> pair stands for.
Doc(row) == container[row[1]][row[2]]

-----------------------------------------------------------------------------
(* Helpers of the actions.                                                 *)

\* datetime.now(): the clock may or may not have moved since the last call.
ReadClock(t) == t \in {clock, clock + 1} /\ clock' = t

\* The first step of the service method that serves an operation.
FirstStep(op) ==
  CASE op = "create" -> "generate"
    [] op \in KeyedOps -> "lookup"
    [] OTHER -> "scan"

\* The response of a route, after which the handler forgets its local variables.
Respond(h, status, body) ==
  /\ pc' = [pc EXCEPT ![h] = "idle"]
  /\ reply' = [reply EXCEPT ![h] = [status |-> status, body |-> body]]
  /\ target' = [target EXCEPT ![h] = Null]
  /\ seen' = [seen EXCEPT ![h] = 0]
  /\ stamp' = [stamp EXCEPT ![h] = 0]
  /\ scanned' = [scanned EXCEPT ![h] = {}]
  /\ since' = [since EXCEPT ![h] = [n \in Numbers |-> 0]]

Goto(h, step) == pc' = [pc EXCEPT ![h] = step]

\* Mutants: a check of the service is missing.
VerdictIgnoresDeleted(c, n, i) ==
  IF i = 0 THEN 404
  ELSE IF c.op = "adminGet" THEN 200
  ELSE IF Doc(<<n, i>>).owner # c.caller THEN 403
  ELSE IF c.op \in WriteOps /\ Doc(<<n, i>>).status = "CLOSED" THEN 409
  ELSE 200

VerdictIgnoresOwner(c, n, i) ==
  IF i = 0 THEN 404
  ELSE IF c.op = "adminGet" THEN 200
  ELSE IF Doc(<<n, i>>).isDeleted THEN 404
  ELSE IF c.op \in WriteOps /\ Doc(<<n, i>>).status = "CLOSED" THEN 409
  ELSE 200

\* The status _raise_http gives the outcome of the service's checks on the
\* document it looked up, in the order they are made; 200 when all pass.
Verdict(c, n, i) ==
  IF i = 0 THEN 404
  ELSE IF c.op = "adminGet" THEN 200
  ELSE IF Doc(<<n, i>>).isDeleted THEN 404
  ELSE IF Doc(<<n, i>>).owner # c.caller THEN 403
  ELSE IF c.op \in WriteOps /\ Doc(<<n, i>>).status = "CLOSED" THEN 409
  ELSE 200

\* Mutant: the query does not filter by owner.
SelectsAnyOwner(c, doc) ==
  (c.op = "adminList" /\ c.includeClosed) \/ ~doc.isDeleted

\* Whether the query of list_by_owner or list_all selects a document.
Selects(c, doc) ==
  IF c.op = "adminList" THEN c.includeClosed \/ ~doc.isDeleted
  ELSE doc.owner = c.caller /\ ~doc.isDeleted

Rows(h) == {row \in scanned[h] : row[2] # 0 /\ Selects(call[h], Doc(row))}

\* The rows get_balance_by_type keeps, and those its max may pick.
Matching(h) == {row \in Rows(h) : Doc(row).type = call[h].type}
MostRecent(rows) ==
  {row \in rows : \A other \in rows : Doc(other).updatedAt <= Doc(row).updatedAt}

-----------------------------------------------------------------------------
(* Actions.                                                                *)

Init ==
  /\ container = [n \in Numbers |-> EmptyHistory]
  /\ clock = 1
  /\ accepted = 0
  /\ pc = [h \in Handlers |-> "idle"]
  /\ call = [h \in Handlers |-> NoCall]
  /\ target = [h \in Handlers |-> Null]
  /\ seen = [h \in Handlers |-> 0]
  /\ stamp = [h \in Handlers |-> 0]
  /\ scanned = [h \in Handlers |-> {}]
  /\ since = [h \in Handlers |-> [n \in Numbers |-> 0]]
  /\ reply = [h \in Handlers |-> NoReply]

\* A request for an operation its caller may use reaches its service method.
Accept(h, c) ==
  /\ pc[h] = "idle" /\ accepted < MaxRequests /\ c.op \in Ops
  /\ c.op \in AdminOps => c.caller \in Employees
  /\ accepted' = accepted + 1
  /\ call' = [call EXCEPT ![h] = c]
  /\ Goto(h, FirstStep(c.op))
  /\ target' = [target EXCEPT ![h] = IF c.op \in KeyedOps THEN c.number ELSE Null]
  /\ since' = [since EXCEPT ![h] =
                 [n \in Numbers |-> IF FirstStep(c.op) = "scan"
                                    THEN Newest(container[n]) ELSE 0]]
  /\ reply' = [reply EXCEPT ![h] = NoReply]
  /\ UNCHANGED <<container, clock, seen, stamp, scanned>>

\* require_bank_employee turns an admin request of anyone else away.
RefuseNonEmployee(h, c) ==
  /\ pc[h] = "idle" /\ accepted < MaxRequests /\ c.op \in Ops \cap AdminOps
  /\ c.caller \notin Employees
  /\ accepted' = accepted + 1
  /\ call' = [call EXCEPT ![h] = c]
  /\ Respond(h, 403, {})
  /\ UNCHANGED <<container, clock>>

\* create_account draws a number, which may be taken, and captures "now".
GenerateNumber(h) ==
  /\ pc[h] = "generate"
  /\ \E n \in Numbers, t \in {clock, clock + 1} :
       /\ ReadClock(t)
       /\ target' = [target EXCEPT ![h] = n]
       /\ stamp' = [stamp EXCEPT ![h] = t]
  /\ Goto(h, "insert")
  /\ UNCHANGED <<container, accepted, call, seen, scanned, since, reply>>

\* Mutant: upsert_item instead of create_item.
UpsertAccount(h) ==
  /\ pc[h] = "insert"
  /\ container' = Commit(container, target[h],
                         NewAccount(target[h], call[h], stamp[h]))
  /\ Respond(h, 201, {<<target[h], 1>>})
  /\ UNCHANGED <<clock, accepted, call>>

\* create_item: a number in use is a 409 of Cosmos DB, which reaches the client
\* as 500; a committed item whose answer is lost does so too.
InsertAccount(h) ==
  /\ pc[h] = "insert"
  /\ IF CanCreate(container[target[h]])
     THEN /\ container' = Commit(container, target[h],
                                 NewAccount(target[h], call[h], stamp[h]))
          /\ Respond(h, 201, {<<target[h], 1>>}) \/ Respond(h, 500, {})
     ELSE /\ Respond(h, 500, {})
          /\ UNCHANGED container
  /\ UNCHANGED <<clock, accepted, call>>

\* get_by_account_number on behalf of the service.
LookupAccount(h) ==
  /\ pc[h] = "lookup"
  /\ \E i \in Visible(container[target[h]]) : seen' = [seen EXCEPT ![h] = i]
  /\ Goto(h, "decide")
  /\ UNCHANGED <<container, clock, accepted, call, target, stamp, scanned, since,
                 reply>>

\* The checks fail, or the operation only reads: the route answers.
AnswerLookup(h) ==
  /\ pc[h] = "decide"
  /\ LET verdict == Verdict(call[h], target[h], seen[h])
     IN  /\ verdict # 200 \/ call[h].op \notin WriteOps
         /\ Respond(h, verdict,
                    IF verdict = 200 THEN {<<target[h], seen[h]>>} ELSE {})
  /\ UNCHANGED <<container, clock, accepted, call>>

\* The checks of a write pass: "now" is captured and repo.update is called.
StartUpdate(h) ==
  /\ pc[h] = "decide"
  /\ call[h].op \in WriteOps
  /\ Verdict(call[h], target[h], seen[h]) = 200
  /\ \E t \in {clock, clock + 1} :
       /\ ReadClock(t)
       /\ stamp' = [stamp EXCEPT ![h] = t]
  /\ Goto(h, "reread")
  /\ UNCHANGED <<container, accepted, call, target, seen, scanned, since, reply>>

\* repo.update reads the item again; a stale 404 is AccountNotFoundException.
RereadAccount(h) ==
  /\ pc[h] = "reread"
  /\ \E i \in Visible(container[target[h]]) :
       IF i = 0
       THEN Respond(h, 404, {})
       ELSE /\ seen' = [seen EXCEPT ![h] = i]
            /\ Goto(h, "replace")
            /\ UNCHANGED <<target, stamp, scanned, since, reply>>
  /\ UNCHANGED <<container, clock, accepted, call>>

\* replace_item with the whole merged document and no etag: it overwrites the
\* newest version, read or not.  The answer may be lost after the commit.
ReplaceAccount(h) ==
  /\ pc[h] = "replace"
  /\ container' = Commit(container, target[h],
                         Merged(Doc(<<target[h], seen[h]>>), call[h], stamp[h]))
  /\ \/ Respond(h, 200, {<<target[h], Newest(container[target[h]]) + 1>>})
     \/ Respond(h, 500, {})
  /\ UNCHANGED <<clock, accepted, call>>

\* A cross-partition query reaches the partition of one more account.
ScanPartition(h, n) ==
  /\ pc[h] = "scan"
  /\ \A row \in scanned[h] : row[1] # n
  /\ \E i \in Visible(container[n]) :
       scanned' = [scanned EXCEPT ![h] = @ \cup {<<n, i>>}]
  /\ UNCHANGED <<container, clock, accepted, pc, call, target, seen, stamp, since,
                 reply>>

\* Mutant: only the first page of the query is read.
OnePageScanned(h) == scanned[h] # {}

\* Mutant: an account number without a document keeps the query waiting.
ScanAwaitsDocuments(h) ==
  \A n \in Numbers : \E row \in scanned[h] : row[1] = n /\ row[2] # 0

\* The query has delivered its last page.
ScanComplete(h) == \A n \in Numbers : \E row \in scanned[h] : row[1] = n

\* list_accounts and admin_list_all_accounts answer with every selected row.
AnswerList(h) ==
  /\ pc[h] = "scan" /\ call[h].op \in {"list", "adminList"} /\ ScanComplete(h)
  /\ Respond(h, 200, Rows(h))
  /\ UNCHANGED <<container, clock, accepted, call>>

\* get_balance_by_type answers with the most recently updated match, if any.
AnswerBalance(h) ==
  /\ pc[h] = "scan" /\ call[h].op = "balance" /\ ScanComplete(h)
  /\ \/ Matching(h) = {} /\ Respond(h, 404, {})
     \/ \E row \in MostRecent(Matching(h)) : Respond(h, 200, {row})
  /\ UNCHANGED <<container, clock, accepted, call>>

\* A Cosmos call fails before it takes effect, or the replica stops.
FailRequest(h) ==
  /\ pc[h] \in {"insert", "lookup", "reread", "replace", "scan"}
  /\ Respond(h, 500, {})
  /\ UNCHANGED <<container, clock, accepted, call>>

\* All the requests of the bounded instance have been answered.
Quiescent ==
  /\ accepted = MaxRequests /\ \A h \in Handlers : pc[h] = "idle"
  /\ UNCHANGED vars

Serve(h) ==
  \/ GenerateNumber(h) \/ InsertAccount(h)
  \/ LookupAccount(h) \/ AnswerLookup(h)
  \/ StartUpdate(h) \/ RereadAccount(h) \/ ReplaceAccount(h)
  \/ \E n \in Numbers : ScanPartition(h, n)
  \/ AnswerList(h) \/ AnswerBalance(h)

HandlerStep(h) == Serve(h) \/ FailRequest(h)

Next ==
  \/ \E h \in Handlers :
       \/ \E c \in Calls : Accept(h, c) \/ RefuseNonEmployee(h, c)
       \/ HandlerStep(h)
  \/ Quiescent

Spec == Init /\ [][Next]_vars

\* The event loop runs every ready coroutine, and each await of a Cosmos call
\* ends, for the SDK's retries and timeouts are bounded.  No failure is ever
\* forced; one that happens ends the request.
FairSpec == Spec /\ \A h \in Handlers : WF_vars(Serve(h))

\* Requests that write one account do not overlap: each client waits for the
\* answer to a write before it sends the next one, and nobody else writes.
Writing(h) == pc[h] # "idle" /\ call[h].op \in WriteOps
OneWriter ==
  \A g, h \in Handlers :
    Writing(g) /\ Writing(h) /\ target[g] = target[h] => g = h

SerialSpec == Init /\ [][Next /\ OneWriter']_vars

-----------------------------------------------------------------------------
(* Properties.                                                             *)

Steps == {"idle", "generate", "insert", "lookup", "decide", "reread", "replace",
          "scan"}

\* Every variable holds values of the kind its code counterpart holds, the
\* versions a handler has in hand exist, and a step is only ever taken by a
\* request it belongs to.
TypeOK ==
  /\ container \in [Numbers -> Seq(Documents)]
  /\ clock \in Nat /\ accepted \in 0 .. MaxRequests
  /\ pc \in [Handlers -> Steps]
  /\ call \in [Handlers -> Calls \cup {NoCall}]
  /\ target \in [Handlers -> Numbers \cup {Null}]
  /\ seen \in [Handlers -> Nat] /\ stamp \in [Handlers -> Nat]
  /\ scanned \in [Handlers -> SUBSET (Numbers \X Nat)]
  /\ since \in [Handlers -> [Numbers -> Nat]]
  /\ reply \in [Handlers -> [status: Statuses, body: SUBSET (Numbers \X Nat)]]

\* The documents an account number has had, and the one it has now.
Versions(n) == 1 .. Newest(container[n])
Current(n) == container[n][Newest(container[n])]

\* The four fields that say an account is closed always agree.
ClosureFieldsAgree(doc) ==
  /\ doc.isDeleted <=> doc.status = "CLOSED"
  /\ doc.closedAt # Null <=> doc.status = "CLOSED"
  /\ doc.reason # Null <=> doc.status = "CLOSED"

\* In every document ever stored, status, is_deleted, closed_at and
\* closure_reason agree, although updates and closes of one account race and
\* each writes only some of these fields: what saves them is that replace_item
\* writes a whole merged document.
DocumentsConsistent ==
  \A n \in Numbers : \A i \in Versions(n) : ClosureFieldsAgree(container[n][i])

\* What a document says about which account it is.
Identity(doc) ==
  <<doc.number, doc.owner, doc.type, doc.balance, doc.createdAt>>

\* Owner, type, balance and creation time of an account number never change,
\* even if _generate_account_number draws a number that is in use: create_item
\* refuses it.
IdentityNeverChanges ==
  \A n \in Numbers : \A i \in Versions(n) :
    Identity(container[n][i]) = Identity(container[n][1])

\* Nobody but its owner writes an account: the owner is checked on one read of
\* the document and the write is based on another one, of a later version.
OnlyOwnersWrite ==
  [][\A n \in Numbers :
       container'[n] # container[n] =>
         \E h \in Handlers :
           /\ pc[h] \in {"insert", "replace"} /\ pc'[h] = "idle" /\ target[h] = n
           /\ \A i \in 1 .. Len(container'[n]) :
                container'[n][i].owner = call[h].caller]_vars

\* The answers to a customer show only that customer's own accounts.
RepliesRespectOwner ==
  \A h \in Handlers :
    call[h].op \notin AdminOps =>
      \A row \in reply[h].body : Doc(row).owner = call[h].caller

\* What a customer is shown by a read is ACTIVE, although the checks and the
\* queries test is_deleted and never the status.
CustomersReadActive ==
  \A h \in Handlers :
    call[h].op \in {"get", "list", "balance"} =>
      \A row \in reply[h].body : Doc(row).status = "ACTIVE"

\* A request of its owner to change an account that is found CLOSED is answered 409,
\* as the docstrings of update_account and close_account and the tests of both routes
\* have it.
ClosedAccountsConflict ==
  [][\A h \in Handlers :
       /\ pc[h] = "decide" /\ pc'[h] = "idle" /\ call[h].op \in WriteOps /\ seen[h] # 0
       /\ Doc(<<target[h], seen[h]>>).status = "CLOSED"
       /\ Doc(<<target[h], seen[h]>>).owner = call[h].caller
       => reply'[h].status = 409]_vars

\* Why that fails: no request is ever answered 409, for a CLOSED account is
\* soft-deleted as well, and that check comes first.
ConflictUnreachable == \A h \in Handlers : reply[h].status # 409

\* In this step handler h commits a replacement.
Replacing(h) ==
  pc[h] = "replace" /\ pc'[h] = "idle" /\ container'[target[h]] # container[target[h]]

\* Had repo.update based its replacement on the newest version, as an etag would
\* ensure, then no replacement would make a closed account active again.
FreshReplaceNeverReopens ==
  [][\A h \in Handlers :
       LET n == target[h]
       IN  Replacing(h) /\ seen[h] = Newest(container[n])
           /\ Current(n).status = "CLOSED"
           => container'[n][seen[h] + 1].status = "CLOSED"]_vars

\* An account of the caller that was active all the time a query took, and in the
\* versions a stale read may still return when it begins, is not missed by it: it
\* is listed, and if it has the type asked for, the balance request finds an
\* account.
NoActiveAccountMissed ==
  [][\A h \in Handlers, n \in Numbers :
       /\ pc[h] = "scan" /\ pc'[h] = "idle" /\ reply'[h].status # 500
       /\ since[h][n] > MaxLag
       /\ \A i \in since[h][n] - MaxLag .. Newest(container[n]) :
            container[n][i].owner = call[h].caller /\ ~container[n][i].isDeleted
       => CASE call[h].op = "balance" ->
                 container[n][1].type = call[h].type => reply'[h].body # {}
            [] OTHER -> \E row \in reply'[h].body : row[1] = n]_vars

\* Every request is answered in the end, however the others interfere.
EveryRequestAnswered == \A h \in Handlers : pc[h] # "idle" ~> pc[h] = "idle"

\* Once an account is CLOSED it stays CLOSED ("This action cannot be reversed
\* via this API").
ClosedForGood ==
  \A n \in Numbers : \A i, j \in Versions(n) :
    i < j /\ container[n][i].status = "CLOSED" => container[n][j].status = "CLOSED"

\* updated_at, by which get_balance_by_type chooses, never goes back.
UpdatedAtNeverGoesBack ==
  \A n \in Numbers : \A i, j \in Versions(n) :
    i < j => container[n][i].updatedAt <= container[n][j].updatedAt

\* An account that is CLOSED already is not closed again: the docstring of
\* close_account has AccountAlreadyClosedException for it.
NotClosedTwice ==
  [][\A h \in Handlers :
       Replacing(h) /\ call[h].op = "close" => Current(target[h]).status # "CLOSED"]_vars

-----------------------------------------------------------------------------
(* Refinement.                                                             *)

\* The ledger entry of a document.
Entry(doc) ==
  [owner |-> doc.owner, type |-> doc.type, balance |-> doc.balance,
   currency |-> doc.currency, status |-> doc.status, reason |-> doc.reason]

LedgerView ==
  [n \in Numbers |-> IF container[n] = EmptyHistory THEN Null ELSE Entry(Current(n))]

Ledger == INSTANCE AccountLedger WITH ledger <- LedgerView

\* Without overlapping writes, and with strongly consistent reads, the service
\* is a ledger in which accounts are opened once and closed for good.
ImplementsLedger == Ledger!LedgerSpec

=============================================================================
