------------------------ MODULE AccountServiceProofs ------------------------
(***************************************************************************)
(* Theorems about AccountService for every value of its constants.         *)
(*                                                                         *)
(* TypeOK is not inductive: that a replacement stores a document needs to  *)
(* know which request a handler at "replace" serves and that the version   *)
(* it read exists.  HandlerOK adds both; HandlersInv is inductive.         *)
(***************************************************************************)
EXTENDS AccountService, TLAPS

KeyedCall == UpdateCall \cup CloseCall \cup GetCall
WriteCall == UpdateCall \cup CloseCall

\* What the step a handler is at says about its request and its local variables.
HandlerOK(h) ==
  /\ pc[h] \in {"generate", "insert"} => call[h] \in CreateCall
  /\ pc[h] = "insert" => target[h] \in Numbers
  /\ pc[h] \in {"lookup", "decide"} =>
       call[h] \in KeyedCall /\ target[h] = call[h].number
  /\ pc[h] = "decide" => seen[h] \in 0 .. Len(container[target[h]])
  /\ pc[h] \in {"reread", "replace"} =>
       /\ call[h] \in WriteCall /\ target[h] = call[h].number
       /\ seen[h] \in 1 .. Len(container[target[h]])

HandlersInv == TypeOK /\ \A h \in Handlers : HandlerOK(h)

-----------------------------------------------------------------------------
(* Lemmas about documents and containers.                                  *)

\* A commit appends one version to one history and keeps all the others.
LEMMA CommitAppends ==
  ASSUME NEW c \in [Numbers -> Seq(Documents)], NEW n \in Numbers,
         NEW doc \in Documents
  PROVE  /\ Commit(c, n, doc) \in [Numbers -> Seq(Documents)]
         /\ Len(Commit(c, n, doc)[n]) = Len(c[n]) + 1
         /\ Commit(c, n, doc)[n][Len(c[n]) + 1] = doc
         /\ \A m \in Numbers : m # n => Commit(c, n, doc)[m] = c[m]
         /\ \A m \in Numbers : \A i \in 1 .. Len(c[m]) :
              Commit(c, n, doc)[m][i] = c[m][i]
         /\ \A m \in Numbers : Len(c[m]) <= Len(Commit(c, n, doc)[m])
  BY DEF Commit

\* create_account builds a well-formed document.
LEMMA NewAccountIsDocument ==
  ASSUME NEW n \in Numbers, NEW c \in CreateCall, NEW t \in Nat
  PROVE  NewAccount(n, c, t) \in Documents
  BY DEF NewAccount, CreateCall, Documents

\* Merging the fields of an update or of a close into a document yields one.
LEMMA MergedIsDocument ==
  ASSUME NEW doc \in Documents, NEW c \in WriteCall, NEW t \in Nat
  PROVE  Merged(doc, c, t) \in Documents
<1>1. CASE c \in CloseCall
  BY <1>1 DEF Merged, ApplyClose, CloseCall, Documents
<1>2. CASE c \in UpdateCall
  <2>1. c.op = "update" /\ c.currency \in Currencies \cup {Null}
    BY <1>2 DEF UpdateCall
  <2>2. Merged(doc, c, t) = ApplyUpdate(doc, c, t)
    BY <2>1 DEF Merged
  <2>3. ApplyUpdate(doc, c, t) \in Documents
    BY <2>1 DEF ApplyUpdate, Documents
  <2> QED  BY <2>2, <2>3
<1> QED  BY <1>1, <1>2 DEF WriteCall

\* A version index that a read returns is within the history it was read from.
LEMMA VisibleBounds ==
  ASSUME NEW s, Len(s) \in Nat, NEW i \in Visible(s)
  PROVE  i \in Nat /\ i \in 0 .. Len(s)
  BY DEF Visible

-----------------------------------------------------------------------------
(* HandlersInv is inductive: one lemma per kind of step.                   *)

\* What a step of handler h leaves alone: the local state of all the others.
OthersKept(h) ==
  \A g \in Handlers \ {h} :
    pc'[g] = pc[g] /\ call'[g] = call[g] /\ target'[g] = target[g]
    /\ seen'[g] = seen[g]

\* Histories only grow.
Grows ==
  /\ container' \in [Numbers -> Seq(Documents)]
  /\ \A n \in Numbers : Len(container[n]) <= Len(container'[n])

\* The handlers that do not take the step stay as HandlerOK requires.
LEMMA OthersStayOK ==
  ASSUME HandlersInv, NEW h \in Handlers, OthersKept(h), Grows
  PROVE  \A g \in Handlers \ {h} : HandlerOK(g)'
<1> SUFFICES ASSUME NEW g \in Handlers \ {h} PROVE HandlerOK(g)'
  OBVIOUS
<1>1. /\ HandlerOK(g)
      /\ pc'[g] = pc[g] /\ call'[g] = call[g] /\ target'[g] = target[g]
      /\ seen'[g] = seen[g]
  BY DEF HandlersInv, OthersKept
<1>2. \A n \in Numbers : /\ Len(container[n]) \in Nat
                        /\ Len(container'[n]) \in Nat
                        /\ Len(container[n]) <= Len(container'[n])
  BY DEF HandlersInv, TypeOK, Grows
<1>3. pc[g] \in {"decide", "reread", "replace"} => target[g] \in Numbers
  BY <1>1 DEF HandlerOK, KeyedCall, WriteCall, UpdateCall, CloseCall, GetCall
<1>4. seen[g] \in Nat
  BY DEF HandlersInv, TypeOK
<1> QED  BY <1>1, <1>2, <1>3, <1>4 DEF HandlerOK

\* A response keeps the types of the variables it assigns, and the handler is
\* idle after it.
LEMMA RespondKeepsTypes ==
  ASSUME TypeOK, NEW h \in Handlers, NEW s \in Statuses,
         NEW b \in SUBSET (Numbers \X Nat), Respond(h, s, b)
  PROVE  /\ pc' \in [Handlers -> Steps]
         /\ target' \in [Handlers -> Numbers \cup {Null}]
         /\ seen' \in [Handlers -> Nat] /\ stamp' \in [Handlers -> Nat]
         /\ scanned' \in [Handlers -> SUBSET (Numbers \X Nat)]
         /\ since' \in [Handlers -> [Numbers -> Nat]]
         /\ reply' \in [Handlers -> [status: Statuses,
                                      body: SUBSET (Numbers \X Nat)]]
         /\ pc'[h] = "idle"
         /\ \A g \in Handlers \ {h} :
              pc'[g] = pc[g] /\ target'[g] = target[g] /\ seen'[g] = seen[g]
  BY DEF TypeOK, Respond, Steps

\* After a response that leaves the requests alone HandlersInv holds again.
LEMMA RespondKeepsInv ==
  ASSUME HandlersInv, NEW h \in Handlers, NEW s \in Statuses,
         NEW b \in SUBSET (Numbers \X Nat), Respond(h, s, b), Grows,
         UNCHANGED <<clock, accepted, call>>
  PROVE  HandlersInv'
<1>1. TypeOK
  BY DEF HandlersInv
<1>2. TypeOK'
  BY <1>1, RespondKeepsTypes DEF TypeOK, Grows
<1>3. pc'[h] = "idle" /\ OthersKept(h)
  BY <1>1, RespondKeepsTypes DEF OthersKept
<1>4. HandlerOK(h)'
  BY <1>3 DEF HandlerOK
<1> QED  BY <1>2, <1>3, <1>4, OthersStayOK DEF HandlersInv

\* A step that leaves the container alone does not shrink it.
LEMMA SameContainerGrows == TypeOK /\ UNCHANGED container => Grows
  BY DEF TypeOK, Grows

\* A step that commits a document does not shrink it either.
LEMMA CommitGrows ==
  ASSUME NEW n \in Numbers, NEW doc \in Documents,
         container \in [Numbers -> Seq(Documents)],
         container' = Commit(container, n, doc)
  PROVE  Grows
  BY CommitAppends DEF Grows

LEMMA AcceptKeepsInv ==
  ASSUME HandlersInv, NEW h \in Handlers, NEW c \in Calls, Accept(h, c)
  PROVE  HandlersInv'
<1> USE DEF HandlersInv
<1>1. Grows
  BY SameContainerGrows DEF Accept
<1>2. c.op \in Operations
  BY AccountAssumption DEF Accept
<1>3. FirstStep(c.op) \in {"generate", "lookup", "scan"}
  BY DEF FirstStep
<1>4. c.op \in KeyedOps => c \in KeyedCall /\ c.number \in Numbers
  BY DEF Calls, KeyedCall, KeyedOps, CreateCall, UpdateCall, CloseCall, GetCall,
         BalanceCall, ListCall, AdminListCall
<1>5. c.op = "create" => c \in CreateCall
  BY DEF Calls, CreateCall, UpdateCall, CloseCall, GetCall, BalanceCall, ListCall,
         AdminListCall
<1>6. pc' \in [Handlers -> Steps] /\ call' \in [Handlers -> Calls \cup {NoCall}]
  BY <1>3 DEF Accept, Goto, TypeOK, Steps
<1>7. target' \in [Handlers -> Numbers \cup {Null}]
  BY <1>4 DEF Accept, TypeOK
<1>8. since' \in [Handlers -> [Numbers -> Nat]]
  BY DEF Accept, TypeOK, Newest
<1>9. reply' \in [Handlers -> [status: Statuses, body: SUBSET (Numbers \X Nat)]]
  BY DEF Accept, TypeOK, NoReply, Statuses
<1>10. accepted' \in 0 .. MaxRequests
  BY AccountAssumption DEF Accept, TypeOK
<1>11. TypeOK'
  BY <1>1, <1>6, <1>7, <1>8, <1>9, <1>10 DEF Accept, TypeOK, Grows
<1>12. OthersKept(h)
  BY DEF Accept, Goto, TypeOK, OthersKept
<1>13. HandlerOK(h)'
  <2>1. /\ pc'[h] = FirstStep(c.op) /\ call'[h] = c
        /\ c.op \in KeyedOps => target'[h] = c.number
    BY DEF Accept, Goto, TypeOK
  <2>2. pc'[h] = "generate" => c.op = "create"
    BY <2>1 DEF FirstStep
  <2>3. pc'[h] = "lookup" => c.op \in KeyedOps
    BY <2>1, <1>2 DEF FirstStep
  <2> QED  BY <1>3, <1>4, <1>5, <2>1, <2>2, <2>3 DEF HandlerOK
<1> QED  BY <1>1, <1>11, <1>12, <1>13, OthersStayOK

LEMMA RefuseKeepsInv ==
  ASSUME HandlersInv, NEW h \in Handlers, NEW c \in Calls, RefuseNonEmployee(h, c)
  PROVE  HandlersInv'
<1>1. TypeOK /\ Grows
  BY SameContainerGrows DEF RefuseNonEmployee, HandlersInv
<1>2. /\ 403 \in Statuses /\ {} \in SUBSET (Numbers \X Nat)
      /\ Respond(h, 403, {})
  BY DEF Statuses, RefuseNonEmployee
<1>3. accepted' \in 0 .. MaxRequests /\ call' \in [Handlers -> Calls \cup {NoCall}]
  BY <1>1, AccountAssumption DEF RefuseNonEmployee, TypeOK
<1>4. TypeOK'
  BY <1>1, <1>2, <1>3, RespondKeepsTypes DEF TypeOK, Grows, RefuseNonEmployee
<1>5. pc'[h] = "idle" /\ OthersKept(h)
  BY <1>1, <1>2, RespondKeepsTypes DEF OthersKept, RefuseNonEmployee, TypeOK
<1>6. HandlerOK(h)'
  BY <1>5 DEF HandlerOK
<1> QED  BY <1>1, <1>4, <1>5, <1>6, OthersStayOK DEF HandlersInv

LEMMA GenerateKeepsInv ==
  ASSUME HandlersInv, NEW h \in Handlers, GenerateNumber(h)
  PROVE  HandlersInv'
<1>1. TypeOK /\ Grows
  BY SameContainerGrows DEF GenerateNumber, HandlersInv
<1>2. PICK n \in Numbers, t \in {clock, clock + 1} :
        /\ ReadClock(t)
        /\ target' = [target EXCEPT ![h] = n]
        /\ stamp' = [stamp EXCEPT ![h] = t]
  BY DEF GenerateNumber
<1>3. TypeOK'
  BY <1>1, <1>2 DEF GenerateNumber, ReadClock, Goto, TypeOK, Steps
<1>4. OthersKept(h)
  BY <1>1, <1>2 DEF GenerateNumber, Goto, TypeOK, OthersKept
<1>5. HandlerOK(h)'
  BY <1>1, <1>2 DEF GenerateNumber, Goto, TypeOK, HandlersInv, HandlerOK
<1> QED  BY <1>1, <1>3, <1>4, <1>5, OthersStayOK DEF HandlersInv

LEMMA InsertKeepsInv ==
  ASSUME HandlersInv, NEW h \in Handlers, InsertAccount(h)
  PROVE  HandlersInv'
<1>1. TypeOK /\ call[h] \in CreateCall /\ target[h] \in Numbers
  BY DEF HandlersInv, HandlerOK, InsertAccount
<1>2. NewAccount(target[h], call[h], stamp[h]) \in Documents
  BY <1>1, NewAccountIsDocument DEF TypeOK
<1>3. \/ container' = Commit(container, target[h],
                             NewAccount(target[h], call[h], stamp[h]))
      \/ UNCHANGED container
  BY DEF InsertAccount
<1>4. Grows
  BY <1>1, <1>2, <1>3, CommitGrows, SameContainerGrows DEF TypeOK
<1>5. \E s \in Statuses, b \in SUBSET (Numbers \X Nat) : Respond(h, s, b)
  <2>1. /\ 201 \in Statuses /\ 500 \in Statuses
        /\ {<<target[h], 1>>} \in SUBSET (Numbers \X Nat)
        /\ {} \in SUBSET (Numbers \X Nat)
    BY <1>1 DEF Statuses
  <2> QED  BY <2>1 DEF InsertAccount
<1> QED  BY <1>4, <1>5, RespondKeepsInv DEF InsertAccount

LEMMA LookupKeepsInv ==
  ASSUME HandlersInv, NEW h \in Handlers, LookupAccount(h)
  PROVE  HandlersInv'
<1>1. TypeOK /\ Grows
  BY SameContainerGrows DEF LookupAccount, HandlersInv
<1>2. call[h] \in KeyedCall /\ target[h] = call[h].number /\ target[h] \in Numbers
  BY DEF LookupAccount, HandlersInv, HandlerOK, KeyedCall, UpdateCall, CloseCall,
         GetCall
<1>3. PICK i \in Visible(container[target[h]]) : seen' = [seen EXCEPT ![h] = i]
  BY DEF LookupAccount
<1>4. i \in Nat /\ i \in 0 .. Len(container[target[h]])
  BY <1>1, <1>2, VisibleBounds DEF TypeOK
<1>5. TypeOK'
  BY <1>1, <1>3, <1>4 DEF LookupAccount, Goto, TypeOK, Steps
<1>6. OthersKept(h)
  BY <1>1, <1>3 DEF LookupAccount, Goto, TypeOK, OthersKept
<1>7. HandlerOK(h)'
  BY <1>1, <1>2, <1>3, <1>4 DEF LookupAccount, Goto, TypeOK, HandlerOK
<1> QED  BY <1>1, <1>5, <1>6, <1>7, OthersStayOK DEF HandlersInv

LEMMA AnswerLookupKeepsInv ==
  ASSUME HandlersInv, NEW h \in Handlers, AnswerLookup(h)
  PROVE  HandlersInv'
<1> DEFINE verdict == Verdict(call[h], target[h], seen[h])
           body == IF verdict = 200 THEN {<<target[h], seen[h]>>} ELSE {}
<1>1. TypeOK /\ Grows
  BY SameContainerGrows DEF AnswerLookup, HandlersInv
<1>2. target[h] \in Numbers
  BY DEF AnswerLookup, HandlersInv, HandlerOK, KeyedCall, UpdateCall, CloseCall,
         GetCall
<1>3. verdict \in Statuses
  BY DEF Verdict, Statuses
<1>4. body \in SUBSET (Numbers \X Nat)
  BY <1>1, <1>2 DEF TypeOK
<1>5. Respond(h, verdict, body)
  BY DEF AnswerLookup
<1> QED  BY <1>1, <1>3, <1>4, <1>5, RespondKeepsInv DEF AnswerLookup

LEMMA StartUpdateKeepsInv ==
  ASSUME HandlersInv, NEW h \in Handlers, StartUpdate(h)
  PROVE  HandlersInv'
<1>1. TypeOK /\ Grows
  BY SameContainerGrows DEF StartUpdate, HandlersInv
<1>2. PICK t \in {clock, clock + 1} : ReadClock(t) /\ stamp' = [stamp EXCEPT ![h] = t]
  BY DEF StartUpdate
<1>3. TypeOK'
  BY <1>1, <1>2 DEF StartUpdate, ReadClock, Goto, TypeOK, Steps
<1>4. OthersKept(h)
  BY <1>1, <1>2 DEF StartUpdate, Goto, TypeOK, OthersKept
<1>5. HandlerOK(h)'
  <2>1. /\ call[h] \in KeyedCall /\ call[h].op \in WriteOps
        /\ target[h] = call[h].number /\ seen[h] \in 0 .. Len(container[target[h]])
    BY DEF StartUpdate, HandlersInv, HandlerOK
  <2>2. call[h] \in WriteCall /\ target[h] \in Numbers
    BY <2>1 DEF KeyedCall, WriteCall, WriteOps, GetCall, UpdateCall, CloseCall
  <2>3. seen[h] # 0
    BY DEF StartUpdate, Verdict
  <2>4. seen[h] \in 1 .. Len(container[target[h]])
    BY <1>1, <2>1, <2>2, <2>3 DEF TypeOK
  <2>5. /\ pc'[h] = "reread"
        /\ UNCHANGED <<call, target, seen, container>>
    BY <1>1 DEF StartUpdate, Goto, TypeOK
  <2> QED  BY <2>1, <2>2, <2>4, <2>5 DEF HandlerOK
<1> QED  BY <1>1, <1>3, <1>4, <1>5, OthersStayOK DEF HandlersInv

LEMMA RereadKeepsInv ==
  ASSUME HandlersInv, NEW h \in Handlers, RereadAccount(h)
  PROVE  HandlersInv'
<1>1. TypeOK /\ Grows
  BY SameContainerGrows DEF RereadAccount, HandlersInv
<1>2. /\ call[h] \in WriteCall /\ target[h] = call[h].number
      /\ target[h] \in Numbers
  BY DEF RereadAccount, HandlersInv, HandlerOK, WriteCall, UpdateCall, CloseCall
<1>3. PICK i \in Visible(container[target[h]]) :
        IF i = 0 THEN Respond(h, 404, {})
        ELSE /\ seen' = [seen EXCEPT ![h] = i]
             /\ Goto(h, "replace")
             /\ UNCHANGED <<target, stamp, scanned, since, reply>>
  BY DEF RereadAccount
<1>4. i \in Nat /\ i \in 0 .. Len(container[target[h]])
  BY <1>1, <1>2, VisibleBounds DEF TypeOK
<1>5. CASE i = 0
  <2>1. 404 \in Statuses /\ {} \in SUBSET (Numbers \X Nat)
    BY DEF Statuses
  <2> QED  BY <1>1, <1>3, <1>5, <2>1, RespondKeepsInv DEF RereadAccount
<1>6. CASE i # 0
  <2>1. TypeOK'
    <3>1. pc' = [pc EXCEPT ![h] = "replace"] /\ seen' = [seen EXCEPT ![h] = i]
      BY <1>3, <1>6 DEF Goto
    <3>2. UNCHANGED <<container, clock, accepted, call, target, stamp, scanned, since,
                      reply>>
      BY <1>3, <1>6 DEF RereadAccount
    <3>3. pc' \in [Handlers -> Steps] /\ seen' \in [Handlers -> Nat]
      BY <1>1, <1>4, <3>1 DEF TypeOK, Steps
    <3> QED  BY <1>1, <3>2, <3>3 DEF TypeOK
  <2>2. OthersKept(h)
    BY <1>1, <1>3, <1>6 DEF RereadAccount, Goto, TypeOK, OthersKept
  <2>3. /\ pc'[h] = "replace" /\ seen'[h] = i
        /\ UNCHANGED <<call, target, container>>
    BY <1>1, <1>3, <1>6 DEF RereadAccount, Goto, TypeOK
  <2>4. i \in 1 .. Len(container[target[h]])
    BY <1>1, <1>2, <1>4, <1>6 DEF TypeOK
  <2>5. HandlerOK(h)'
    BY <1>2, <2>3, <2>4 DEF HandlerOK
  <2> QED  BY <1>1, <2>1, <2>2, <2>5, OthersStayOK DEF HandlersInv
<1> QED  BY <1>5, <1>6

\* The version a handler at "replace" merges into, and what it commits.
LEMMA ReplacementIsDocument ==
  ASSUME HandlersInv, NEW h \in Handlers, pc[h] = "replace"
  PROVE  /\ target[h] \in Numbers /\ call[h] \in WriteCall
         /\ seen[h] \in 1 .. Len(container[target[h]])
         /\ Doc(<<target[h], seen[h]>>) = container[target[h]][seen[h]]
         /\ Doc(<<target[h], seen[h]>>) \in Documents
         /\ Merged(Doc(<<target[h], seen[h]>>), call[h], stamp[h]) \in Documents
<1>1. /\ call[h] \in WriteCall /\ target[h] \in Numbers
      /\ seen[h] \in 1 .. Len(container[target[h]])
  BY DEF HandlersInv, HandlerOK, WriteCall, UpdateCall, CloseCall
<1>2. container[target[h]] \in Seq(Documents) /\ stamp[h] \in Nat
  BY <1>1 DEF HandlersInv, TypeOK
<1>3. Doc(<<target[h], seen[h]>>) = container[target[h]][seen[h]]
  BY DEF Doc
<1>4. Doc(<<target[h], seen[h]>>) \in Documents
  BY <1>1, <1>2, <1>3
<1> QED  BY <1>1, <1>2, <1>3, <1>4, MergedIsDocument

LEMMA ReplaceKeepsInv ==
  ASSUME HandlersInv, NEW h \in Handlers, ReplaceAccount(h)
  PROVE  HandlersInv'
<1>1. TypeOK /\ target[h] \in Numbers
  BY ReplacementIsDocument DEF HandlersInv, ReplaceAccount
<1>2. Grows
  BY <1>1, CommitGrows, ReplacementIsDocument DEF TypeOK, ReplaceAccount
<1>3. \E s \in Statuses, b \in SUBSET (Numbers \X Nat) : Respond(h, s, b)
  <2>1. /\ 200 \in Statuses /\ 500 \in Statuses
        /\ {<<target[h], Newest(container[target[h]]) + 1>>}
             \in SUBSET (Numbers \X Nat)
        /\ {} \in SUBSET (Numbers \X Nat)
    BY <1>1 DEF Statuses, TypeOK, Newest
  <2> QED  BY <2>1 DEF ReplaceAccount
<1> QED  BY <1>2, <1>3, RespondKeepsInv DEF ReplaceAccount

LEMMA ScanKeepsInv ==
  ASSUME HandlersInv, NEW h \in Handlers, NEW n \in Numbers, ScanPartition(h, n)
  PROVE  HandlersInv'
<1>1. TypeOK /\ Grows
  BY SameContainerGrows DEF ScanPartition, HandlersInv
<1>2. PICK i \in Visible(container[n]) :
        scanned' = [scanned EXCEPT ![h] = @ \cup {<<n, i>>}]
  BY DEF ScanPartition
<1>3. i \in Nat
  BY <1>1, VisibleBounds DEF TypeOK
<1>4. scanned' \in [Handlers -> SUBSET (Numbers \X Nat)]
  BY <1>1, <1>2, <1>3 DEF TypeOK
<1>5. TypeOK'
  BY <1>1, <1>4 DEF ScanPartition, TypeOK
<1>6. \A g \in Handlers : HandlerOK(g)'
  BY DEF ScanPartition, HandlersInv, HandlerOK
<1> QED  BY <1>5, <1>6 DEF HandlersInv

\* A query answers with rows it has visited.
LEMMA RowsAreScanned ==
  ASSUME TypeOK, NEW h \in Handlers
  PROVE  /\ Rows(h) \in SUBSET (Numbers \X Nat)
         /\ \A row \in MostRecent(Matching(h)) : {row} \in SUBSET (Numbers \X Nat)
  BY DEF TypeOK, Rows, Matching, MostRecent

LEMMA QueriesKeepInv ==
  ASSUME HandlersInv, NEW h \in Handlers, AnswerList(h) \/ AnswerBalance(h)
  PROVE  HandlersInv'
<1>1. TypeOK /\ Grows
  BY SameContainerGrows DEF AnswerList, AnswerBalance, HandlersInv
<1>2. \E s \in Statuses, b \in SUBSET (Numbers \X Nat) : Respond(h, s, b)
  <2>1. 200 \in Statuses /\ 404 \in Statuses /\ {} \in SUBSET (Numbers \X Nat)
    BY DEF Statuses
  <2>2. Rows(h) \in SUBSET (Numbers \X Nat)
    BY <1>1, RowsAreScanned
  <2>3. \A row \in MostRecent(Matching(h)) : {row} \in SUBSET (Numbers \X Nat)
    BY <1>1, RowsAreScanned
  <2>4. CASE AnswerList(h)
    BY <2>1, <2>2, <2>4 DEF AnswerList
  <2>5. CASE AnswerBalance(h)
    <3>1. CASE Respond(h, 404, {})
      BY <2>1, <3>1
    <3>2. CASE \E row \in MostRecent(Matching(h)) : Respond(h, 200, {row})
      BY <2>1, <2>3, <3>2
    <3> QED  BY <2>5, <3>1, <3>2 DEF AnswerBalance
  <2> QED  BY <2>4, <2>5
<1> QED  BY <1>1, <1>2, RespondKeepsInv DEF AnswerList, AnswerBalance

LEMMA FailKeepsInv ==
  ASSUME HandlersInv, NEW h \in Handlers, FailRequest(h)
  PROVE  HandlersInv'
<1>1. Grows /\ 500 \in Statuses /\ {} \in SUBSET (Numbers \X Nat)
  BY SameContainerGrows DEF FailRequest, HandlersInv, Statuses
<1> QED  BY <1>1, RespondKeepsInv DEF FailRequest

LEMMA StutterKeepsInv == HandlersInv /\ UNCHANGED vars => HandlersInv'
  BY DEF HandlersInv, TypeOK, HandlerOK, vars

-----------------------------------------------------------------------------

LEMMA HandlersInvStep == HandlersInv /\ [Next]_vars => HandlersInv'
<1> SUFFICES ASSUME HandlersInv, [Next]_vars PROVE HandlersInv'
  OBVIOUS
<1>1. ASSUME NEW h \in Handlers, NEW c \in Calls, Accept(h, c) PROVE HandlersInv'
  BY <1>1, AcceptKeepsInv
<1>2. ASSUME NEW h \in Handlers, NEW c \in Calls, RefuseNonEmployee(h, c)
      PROVE  HandlersInv'
  BY <1>2, RefuseKeepsInv
<1>3. ASSUME NEW h \in Handlers, HandlerStep(h) PROVE HandlersInv'
  BY <1>3, GenerateKeepsInv, InsertKeepsInv, LookupKeepsInv, AnswerLookupKeepsInv,
     StartUpdateKeepsInv, RereadKeepsInv, ReplaceKeepsInv, ScanKeepsInv,
     QueriesKeepInv, FailKeepsInv DEF HandlerStep, Serve
<1>4. CASE Quiescent \/ UNCHANGED vars
  BY <1>4, StutterKeepsInv DEF Quiescent
<1> QED  BY <1>1, <1>2, <1>3, <1>4 DEF Next

LEMMA HandlersInvInit == Init => HandlersInv
<1> SUFFICES ASSUME Init PROVE HandlersInv
  OBVIOUS
<1>1. EmptyHistory \in Seq(Documents)
  BY DEF EmptyHistory
<1>2. TypeOK
  BY <1>1, AccountAssumption DEF Init, TypeOK, Steps, NoReply, Statuses
<1>3. \A h \in Handlers : HandlerOK(h)
  BY DEF Init, HandlerOK
<1> QED  BY <1>2, <1>3 DEF HandlersInv

\* Every variable always has values of the kind its code counterpart has, and a
\* handler only ever works on versions that exist.
THEOREM TypeCorrect == Spec => []TypeOK
<1>1. HandlersInv => TypeOK
  BY DEF HandlersInv
<1> QED  BY <1>1, HandlersInvInit, HandlersInvStep, PTL DEF Spec

-----------------------------------------------------------------------------
(* What the documents of an account number have in common.                 *)

\* The two steps that write: they commit a new account or a merged document.
Inserts(h) ==
  /\ pc[h] = "insert" /\ pc'[h] = "idle"
  /\ container[target[h]] = EmptyHistory
  /\ container' = Commit(container, target[h],
                         NewAccount(target[h], call[h], stamp[h]))

Replaces(h) ==
  /\ pc[h] = "replace" /\ pc'[h] = "idle"
  /\ container' = Commit(container, target[h],
                         Merged(Doc(<<target[h], seen[h]>>), call[h], stamp[h]))

LEMMA WritesAreInsertsOrReplaces ==
  ASSUME HandlersInv, [Next]_vars
  PROVE  \/ UNCHANGED container
         \/ \E h \in Handlers : Inserts(h) \/ Replaces(h)
<1>1. ASSUME NEW h \in Handlers, InsertAccount(h)
      PROVE  Inserts(h) \/ UNCHANGED container
  BY <1>1 DEF InsertAccount, Inserts, CanCreate, Respond, HandlersInv, TypeOK
<1>2. ASSUME NEW h \in Handlers, ReplaceAccount(h) PROVE Replaces(h)
  BY <1>2 DEF ReplaceAccount, Replaces, Respond, HandlersInv, TypeOK
<1>3. ASSUME NEW h \in Handlers, HandlerStep(h)
      PROVE  UNCHANGED container \/ Inserts(h) \/ Replaces(h)
  BY <1>1, <1>2, <1>3
     DEF HandlerStep, Serve, GenerateNumber, LookupAccount, AnswerLookup, StartUpdate,
         RereadAccount, ScanPartition, AnswerList, AnswerBalance, FailRequest
<1>4. ASSUME NEW h \in Handlers, NEW c \in Calls, Accept(h, c) \/ RefuseNonEmployee(h, c)
      PROVE  UNCHANGED container
  BY <1>4 DEF Accept, RefuseNonEmployee
<1>5. CASE Quiescent \/ UNCHANGED vars
  BY <1>5 DEF Quiescent, vars
<1> QED  BY <1>3, <1>4, <1>5 DEF Next

\* A predicate on documents that a new account has and a merge keeps holds of
\* every version: what the next two invariants have in common.
LEMMA InsertedDocument ==
  ASSUME HandlersInv, NEW h \in Handlers, Inserts(h)
  PROVE  /\ target[h] \in Numbers /\ call[h] \in CreateCall /\ stamp[h] \in Nat
         /\ Len(container[target[h]]) = 0
         /\ container'[target[h]][1] = NewAccount(target[h], call[h], stamp[h])
         /\ Len(container'[target[h]]) = 1
         /\ \A n \in Numbers : n # target[h] => container'[n] = container[n]
<1>1. target[h] \in Numbers /\ call[h] \in CreateCall /\ stamp[h] \in Nat
  BY DEF HandlersInv, HandlerOK, TypeOK, Inserts
<1>2. NewAccount(target[h], call[h], stamp[h]) \in Documents
  BY <1>1, NewAccountIsDocument
<1>3. Len(container[target[h]]) = 0
  BY DEF Inserts, EmptyHistory
<1>4. container \in [Numbers -> Seq(Documents)]
  BY DEF HandlersInv, TypeOK
<1>5. container' = Commit(container, target[h],
                         NewAccount(target[h], call[h], stamp[h]))
  BY DEF Inserts
<1>6. /\ Len(container'[target[h]]) = Len(container[target[h]]) + 1
      /\ container'[target[h]][Len(container[target[h]]) + 1]
           = NewAccount(target[h], call[h], stamp[h])
      /\ \A n \in Numbers : n # target[h] => container'[n] = container[n]
  BY <1>1, <1>2, <1>4, <1>5, CommitAppends
<1> QED  BY <1>1, <1>3, <1>6

LEMMA ReplacedDocument ==
  ASSUME HandlersInv, NEW h \in Handlers, Replaces(h)
  PROVE  /\ target[h] \in Numbers /\ call[h] \in WriteCall /\ stamp[h] \in Nat
         /\ seen[h] \in 1 .. Len(container[target[h]])
         /\ container[target[h]][seen[h]] \in Documents
         /\ Len(container[target[h]]) \in Nat
         /\ Len(container'[target[h]]) = Len(container[target[h]]) + 1
         /\ container'[target[h]][Len(container[target[h]]) + 1]
              = Merged(container[target[h]][seen[h]], call[h], stamp[h])
         /\ \A i \in 1 .. Len(container[target[h]]) :
              container'[target[h]][i] = container[target[h]][i]
         /\ \A n \in Numbers : n # target[h] => container'[n] = container[n]
<1>1. pc[h] = "replace" /\ container \in [Numbers -> Seq(Documents)]
      /\ stamp[h] \in Nat
  BY DEF Replaces, HandlersInv, TypeOK
<1> DEFINE doc == Merged(container[target[h]][seen[h]], call[h], stamp[h])
<1>2. /\ target[h] \in Numbers /\ call[h] \in WriteCall /\ doc \in Documents
      /\ seen[h] \in 1 .. Len(container[target[h]])
      /\ container[target[h]][seen[h]] \in Documents
      /\ container' = Commit(container, target[h], doc)
  BY <1>1, ReplacementIsDocument DEF Replaces
<1> HIDE DEF doc
<1> DEFINE n == target[h]
           next == Commit(container, n, doc)
<1>3. /\ Len(next[n]) = Len(container[n]) + 1
      /\ next[n][Len(container[n]) + 1] = doc
      /\ \A i \in 1 .. Len(container[n]) : next[n][i] = container[n][i]
      /\ \A m \in Numbers : m # n => next[m] = container[m]
  BY <1>1, <1>2, CommitAppends
<1> HIDE DEF next
<1>4. Len(container[target[h]]) \in Nat
  <2>1. container[target[h]] \in Seq(Documents)
    BY <1>1, <1>2
  <2> QED  BY <2>1
<1>5. container' = next
  BY <1>2 DEF next
<1> QED  BY <1>1, <1>2, <1>3, <1>4, <1>5 DEF doc

\* Neither a new account nor a merge ever separates the four closure fields.
LEMMA MergeKeepsClosureFields ==
  ASSUME NEW doc \in Documents, NEW c \in WriteCall, NEW t \in Nat,
         ClosureFieldsAgree(doc)
  PROVE  ClosureFieldsAgree(Merged(doc, c, t))
<1>1. CASE c \in CloseCall
  <2>1. c.op = "close" /\ c.reason # Null /\ t # Null
    BY <1>1, AccountAssumption DEF CloseCall
  <2>2. Merged(doc, c, t) = ApplyClose(doc, c, t)
    BY <2>1 DEF Merged
  <2>3. ClosureFieldsAgree(ApplyClose(doc, c, t))
    BY <2>1 DEF ApplyClose, ClosureFieldsAgree, Documents
  <2> QED  BY <2>2, <2>3
<1>2. CASE c \in UpdateCall
  <2>1. Merged(doc, c, t) = ApplyUpdate(doc, c, t)
    BY <1>2 DEF Merged, UpdateCall
  <2>2. ClosureFieldsAgree(ApplyUpdate(doc, c, t))
    BY DEF ApplyUpdate, ClosureFieldsAgree, Documents
  <2> QED  BY <2>1, <2>2
<1> QED  BY <1>1, <1>2 DEF WriteCall

LEMMA DocumentsConsistentStep ==
  ASSUME HandlersInv, DocumentsConsistent, [Next]_vars
  PROVE  DocumentsConsistent'
<1>1. CASE UNCHANGED container
  BY <1>1 DEF DocumentsConsistent, Versions, Newest
<1>2. ASSUME NEW h \in Handlers, Inserts(h) PROVE DocumentsConsistent'
  <2>1. ClosureFieldsAgree(NewAccount(target[h], call[h], stamp[h]))
    BY DEF NewAccount, ClosureFieldsAgree
  <2> QED  BY <1>2, <2>1, InsertedDocument DEF DocumentsConsistent, Versions, Newest
<1>3. ASSUME NEW h \in Handlers, Replaces(h) PROVE DocumentsConsistent'
  <2>1. ClosureFieldsAgree(container[target[h]][seen[h]])
    BY <1>3, ReplacedDocument DEF DocumentsConsistent, Versions, Newest
  <2>2. ClosureFieldsAgree(Merged(container[target[h]][seen[h]], call[h], stamp[h]))
    BY <1>3, <2>1, ReplacedDocument, MergeKeepsClosureFields
  <2> DEFINE n == target[h]
  <2>3. /\ n \in Numbers /\ Len(container[n]) \in Nat
        /\ Len(container'[n]) = Len(container[n]) + 1
        /\ container'[n][Len(container[n]) + 1]
             = Merged(container[n][seen[h]], call[h], stamp[h])
        /\ \A i \in 1 .. Len(container[n]) : container'[n][i] = container[n][i]
        /\ \A m \in Numbers : m # n => container'[m] = container[m]
    BY <1>3, ReplacedDocument
  <2> SUFFICES ASSUME NEW m \in Numbers, NEW i \in 1 .. Len(container'[m])
               PROVE  ClosureFieldsAgree(container'[m][i])
    BY DEF DocumentsConsistent, ClosureFieldsAgree, Versions, Newest
  <2>4. CASE m # n
    BY <2>3, <2>4 DEF DocumentsConsistent, Versions, Newest
  <2>5. CASE m = n /\ i \in 1 .. Len(container[n])
    BY <2>3, <2>5 DEF DocumentsConsistent, Versions, Newest
  <2>6. CASE m = n /\ i = Len(container[n]) + 1
    BY <2>2, <2>3, <2>6
  <2> QED  BY <2>3, <2>4, <2>5, <2>6
<1> QED  BY <1>1, <1>2, <1>3, WritesAreInsertsOrReplaces

\* However requests race, fail or read stale versions: in every document ever
\* stored status, is_deleted, closed_at and closure_reason agree.
THEOREM AlwaysConsistent == Spec => []DocumentsConsistent
<1>1. Init => DocumentsConsistent
  BY DEF Init, DocumentsConsistent, Versions, Newest, EmptyHistory
<1>2. HandlersInv /\ DocumentsConsistent /\ [Next]_vars => DocumentsConsistent'
  BY DocumentsConsistentStep
<1> QED  BY <1>1, <1>2, HandlersInvInit, HandlersInvStep, PTL DEF Spec

LEMMA MergeKeepsIdentity ==
  ASSUME NEW doc \in Documents, NEW c, NEW t
  PROVE  Identity(Merged(doc, c, t)) = Identity(doc)
  BY DEF Identity, Merged, ApplyClose, ApplyUpdate, Documents

LEMMA IdentityStep ==
  ASSUME HandlersInv, IdentityNeverChanges, [Next]_vars
  PROVE  IdentityNeverChanges'
<1>1. CASE UNCHANGED container
  BY <1>1 DEF IdentityNeverChanges, Identity, Versions, Newest
<1>2. ASSUME NEW h \in Handlers, Inserts(h) PROVE IdentityNeverChanges'
  BY <1>2, InsertedDocument DEF IdentityNeverChanges, Identity, Versions, Newest
<1>3. ASSUME NEW h \in Handlers, Replaces(h) PROVE IdentityNeverChanges'
  <2> DEFINE n == target[h]
  <2>1. /\ n \in Numbers /\ seen[h] \in 1 .. Len(container[n])
        /\ 1 \in 1 .. Len(container[n])
    BY <1>3, ReplacedDocument
  <2>2. Identity(container[n][seen[h]]) = Identity(container[n][1])
    BY <2>1 DEF IdentityNeverChanges, Versions, Newest
  <2>3. Identity(container'[n][Len(container[n]) + 1]) = Identity(container[n][1])
    BY <1>3, <2>2, ReplacedDocument, MergeKeepsIdentity
  <2>4. \A i \in 1 .. Len(container'[n]) :
          Identity(container'[n][i]) = Identity(container'[n][1])
    <3>1. /\ Len(container[n]) \in Nat
          /\ Len(container'[n]) = Len(container[n]) + 1
          /\ \A i \in 1 .. Len(container[n]) : container'[n][i] = container[n][i]
      BY <1>3, ReplacedDocument
    <3>2. \A i \in 1 .. Len(container[n]) :
            Identity(container[n][i]) = Identity(container[n][1])
      BY <2>1 DEF IdentityNeverChanges, Versions, Newest
    <3>3. container'[n][1] = container[n][1]
      BY <2>1, <3>1
    <3>4. \A i \in 1 .. Len(container[n]) :
            Identity(container'[n][i]) = Identity(container'[n][1])
      BY <3>1, <3>2, <3>3
    <3>5. Identity(container'[n][Len(container[n]) + 1]) = Identity(container'[n][1])
      BY <2>3, <3>3
    <3>6. \A i \in 1 .. Len(container'[n]) :
            i \in 1 .. Len(container[n]) \/ i = Len(container[n]) + 1
      BY <3>1
    <3> QED  BY <3>4, <3>5, <3>6
  <2>5. \A m \in Numbers : m # n =>
          \A i \in 1 .. Len(container'[m]) :
            Identity(container'[m][i]) = Identity(container'[m][1])
    BY <1>3, ReplacedDocument DEF IdentityNeverChanges, Versions, Newest
  <2> QED  BY <2>4, <2>5 DEF IdentityNeverChanges, Identity, Versions, Newest
<1> QED  BY <1>1, <1>2, <1>3, WritesAreInsertsOrReplaces

\* An account number keeps its owner, type, balance and creation time for ever,
\* even if a later create_account draws the same number.
THEOREM IdentityPreserved == Spec => []IdentityNeverChanges
<1>1. Init => IdentityNeverChanges
  BY DEF Init, IdentityNeverChanges, Versions, Newest, EmptyHistory
<1>2. HandlersInv /\ IdentityNeverChanges /\ [Next]_vars => IdentityNeverChanges'
  BY IdentityStep
<1> QED  BY <1>1, <1>2, HandlersInvInit, HandlersInvStep, PTL DEF Spec

-----------------------------------------------------------------------------
(* Who writes.                                                             *)

\* A handler that has passed the checks serves the owner of the account.  The
\* owner was compared on another version than the one the write is based on.
WriterIsOwner ==
  \A h \in Handlers :
    pc[h] \in {"reread", "replace"} =>
      container[target[h]][1].owner = call[h].caller

\* How a handler comes to "decide", "reread" and "replace": by the read or the
\* checks before it, for the same request, or because it was there already.
LEMMA MovesToWork ==
  ASSUME HandlersInv, [Next]_vars, NEW g \in Handlers,
         pc'[g] \in {"decide", "reread", "replace"}
  PROVE  /\ call'[g] = call[g] /\ target'[g] = target[g]
         /\ \/ pc'[g] = pc[g] /\ seen'[g] = seen[g]
            \/ pc'[g] = "decide" /\ LookupAccount(g)
            \/ pc'[g] = "reread" /\ StartUpdate(g)
            \/ pc'[g] = "replace" /\ RereadAccount(g)
<1> DEFINE Kept == /\ call'[g] = call[g] /\ target'[g] = target[g]
                   /\ pc'[g] = pc[g] /\ seen'[g] = seen[g]
           Goal == /\ call'[g] = call[g] /\ target'[g] = target[g]
                   /\ \/ pc'[g] = pc[g] /\ seen'[g] = seen[g]
                      \/ pc'[g] = "decide" /\ LookupAccount(g)
                      \/ pc'[g] = "reread" /\ StartUpdate(g)
                      \/ pc'[g] = "replace" /\ RereadAccount(g)
<1>1. TypeOK
  BY DEF HandlersInv
<1>2. ASSUME NEW h \in Handlers, NEW c \in Calls, Accept(h, c) PROVE Kept
  BY <1>1, <1>2 DEF Accept, FirstStep, Goto, TypeOK
<1>3. ASSUME NEW h \in Handlers, NEW s, NEW b, Respond(h, s, b)
      PROVE  pc'[g] = pc[g] /\ target'[g] = target[g] /\ seen'[g] = seen[g] /\ g # h
  BY <1>1, <1>3 DEF Respond, TypeOK
<1>4. ASSUME NEW h \in Handlers, NEW c \in Calls, RefuseNonEmployee(h, c) PROVE Kept
  BY <1>1, <1>3, <1>4 DEF RefuseNonEmployee, TypeOK
<1>5. ASSUME NEW h \in Handlers, HandlerStep(h) PROVE Goal
  <2>1. CASE GenerateNumber(h)
    BY <1>1, <2>1 DEF GenerateNumber, Goto, TypeOK
  <2>2. CASE LookupAccount(h) \/ StartUpdate(h)
    <3>1. CASE g = h
      BY <1>1, <2>2, <3>1 DEF LookupAccount, StartUpdate, Goto, TypeOK
    <3>2. CASE g # h
      BY <1>1, <2>2, <3>2 DEF LookupAccount, StartUpdate, Goto, TypeOK
    <3> QED  BY <3>1, <3>2
  <2>3. CASE RereadAccount(h)
    <3>1. call' = call
      BY <2>3 DEF RereadAccount
    <3>2. CASE Respond(h, 404, {})
      BY <1>3, <3>1, <3>2
    <3>3. CASE ~Respond(h, 404, {})
      <4>1. PICK i : seen' = [seen EXCEPT ![h] = i] /\ Goto(h, "replace")
                     /\ UNCHANGED target
        BY <2>3, <3>3 DEF RereadAccount
      <4>2. CASE g = h
        BY <1>1, <2>3, <3>1, <4>1, <4>2 DEF Goto, TypeOK
      <4>3. CASE g # h
        BY <1>1, <3>1, <4>1, <4>3 DEF Goto, TypeOK
      <4> QED  BY <4>2, <4>3
    <3> QED  BY <3>2, <3>3
  <2>4. CASE InsertAccount(h) \/ AnswerLookup(h) \/ ReplaceAccount(h)
             \/ AnswerList(h) \/ AnswerBalance(h) \/ FailRequest(h)
    <3>1. call' = call
      BY <2>4 DEF InsertAccount, AnswerLookup, ReplaceAccount, AnswerList,
                  AnswerBalance, FailRequest
    <3>2. pc'[g] = pc[g] /\ target'[g] = target[g] /\ seen'[g] = seen[g]
      <4>1. CASE InsertAccount(h)
        BY <1>3, <4>1 DEF InsertAccount
      <4>2. CASE AnswerLookup(h)
        BY <1>3, <4>2 DEF AnswerLookup
      <4>3. CASE ReplaceAccount(h)
        BY <1>3, <4>3 DEF ReplaceAccount
      <4>4. CASE AnswerList(h)
        BY <1>3, <4>4 DEF AnswerList
      <4>5. CASE FailRequest(h)
        BY <1>3, <4>5 DEF FailRequest
      <4>6. CASE AnswerBalance(h)
        <5>1. Respond(h, 404, {})
                \/ \E row \in MostRecent(Matching(h)) : Respond(h, 200, {row})
          BY <4>6 DEF AnswerBalance
        <5>2. CASE Respond(h, 404, {})
          BY <1>3, <5>2
        <5>3. CASE \E row \in MostRecent(Matching(h)) : Respond(h, 200, {row})
          <6>1. PICK row : Respond(h, 200, {row})
            BY <5>3
          <6> QED  BY <1>3, <6>1
        <5> QED  BY <5>1, <5>2, <5>3
      <4> QED  BY <2>4, <4>1, <4>2, <4>3, <4>4, <4>5, <4>6
    <3> QED  BY <3>1, <3>2
  <2>5. CASE \E n \in Numbers : ScanPartition(h, n)
    BY <2>5 DEF ScanPartition
  <2> QED  BY <1>5, <2>1, <2>2, <2>3, <2>4, <2>5 DEF HandlerStep, Serve
<1>6. CASE Quiescent \/ UNCHANGED vars
  BY <1>6 DEF Quiescent, vars
<1> QED  BY <1>2, <1>4, <1>5, <1>6 DEF Next

\* No step changes the first version of an account that exists.
LEMMA FirstVersionStays ==
  ASSUME HandlersInv, [Next]_vars, NEW n \in Numbers, container[n] # EmptyHistory
  PROVE  container'[n][1] = container[n][1]
<1>1. ASSUME NEW h \in Handlers, Inserts(h) PROVE container'[n][1] = container[n][1]
  BY <1>1, InsertedDocument DEF Inserts
<1>2. ASSUME NEW h \in Handlers, Replaces(h) PROVE container'[n][1] = container[n][1]
  BY <1>2, ReplacedDocument
<1> QED  BY <1>1, <1>2, WritesAreInsertsOrReplaces

LEMMA WriterIsOwnerStep ==
  ASSUME HandlersInv, HandlersInv', IdentityNeverChanges, WriterIsOwner, [Next]_vars
  PROVE  WriterIsOwner'
<1> SUFFICES ASSUME NEW g \in Handlers, pc'[g] \in {"reread", "replace"}
             PROVE  container'[target'[g]][1].owner = call'[g].caller
  BY DEF WriterIsOwner
<1>1. /\ call'[g] = call[g] /\ target'[g] = target[g]
      /\ pc[g] \in {"reread", "replace"} \/ StartUpdate(g)
  BY MovesToWork DEF RereadAccount
<1>2. /\ target[g] \in Numbers
      /\ seen[g] \in 1 .. Len(container[target[g]])
      /\ container[target[g]][1].owner = call[g].caller
  <2>1. CASE pc[g] \in {"reread", "replace"}
    BY <2>1 DEF HandlersInv, HandlerOK, WriterIsOwner, WriteCall, UpdateCall,
                CloseCall
  <2>2. CASE StartUpdate(g)
    <3>1. /\ target[g] \in Numbers /\ seen[g] \in 0 .. Len(container[target[g]])
          /\ call[g].op \in WriteOps
      BY <2>2 DEF StartUpdate, HandlersInv, HandlerOK, KeyedCall, UpdateCall,
                  CloseCall, GetCall
    <3>2. seen[g] # 0 /\ Doc(<<target[g], seen[g]>>).owner = call[g].caller
      BY <2>2, <3>1 DEF StartUpdate, Verdict, WriteOps
    <3>3. seen[g] \in 1 .. Len(container[target[g]])
      BY <3>1, <3>2 DEF HandlersInv, TypeOK
    <3>4. container[target[g]][seen[g]].owner = container[target[g]][1].owner
      BY <3>1, <3>3 DEF IdentityNeverChanges, Identity, Versions, Newest
    <3> QED  BY <3>1, <3>2, <3>3, <3>4 DEF Doc
  <2> QED  BY <1>1, <2>1, <2>2
<1>3. container[target[g]] # EmptyHistory
  BY <1>2 DEF EmptyHistory
<1> QED  BY <1>1, <1>2, <1>3, FirstVersionStays

\* What a committed document says about its owner, step by step.
LEMMA OwnerStep ==
  ASSUME HandlersInv, IdentityNeverChanges, IdentityNeverChanges', WriterIsOwner,
         [Next]_vars, NEW n \in Numbers, container'[n] # container[n]
  PROVE  \E h \in Handlers :
           /\ pc[h] \in {"insert", "replace"} /\ pc'[h] = "idle" /\ target[h] = n
           /\ \A i \in 1 .. Len(container'[n]) :
                container'[n][i].owner = call[h].caller
<1>0. PICK h \in Handlers : Inserts(h) \/ Replaces(h)
  BY WritesAreInsertsOrReplaces
<1>1. \A i \in 1 .. Len(container'[n]) :
        container'[n][i].owner = container'[n][1].owner
  BY DEF IdentityNeverChanges, Identity, Versions, Newest
<1>2. CASE Inserts(h)
  <2>1. target[h] = n /\ pc[h] = "insert" /\ pc'[h] = "idle"
    BY <1>2, InsertedDocument DEF Inserts
  <2>2. container'[n][1].owner = call[h].caller
    <3>1. NewAccount(target[h], call[h], stamp[h]).owner = call[h].caller
      BY DEF NewAccount
    <3> QED  BY <1>2, <2>1, <3>1, InsertedDocument
  <2> QED  BY <1>1, <2>1, <2>2
<1>3. CASE Replaces(h)
  <2>1. target[h] = n /\ pc[h] = "replace" /\ pc'[h] = "idle"
    BY <1>3, ReplacedDocument DEF Replaces
  <2>2. container'[n][1] = container[n][1]
    BY <1>3, <2>1, ReplacedDocument
  <2>3. container'[n][1].owner = call[h].caller
    BY <2>1, <2>2 DEF WriterIsOwner
  <2> QED  BY <1>1, <2>1, <2>3
<1> QED  BY <1>0, <1>2, <1>3

\* Nobody but its owner ever writes an account, although the owner is compared
\* on one version and the write is based on another.
THEOREM OwnersWriteOnly == Spec => OnlyOwnersWrite
<1> DEFINE IInv == HandlersInv /\ IdentityNeverChanges /\ WriterIsOwner
<1>1. Init => IInv
  <2>1. Init => IdentityNeverChanges /\ WriterIsOwner
    BY DEF Init, IdentityNeverChanges, Versions, Newest, EmptyHistory, WriterIsOwner
  <2> QED  BY <2>1, HandlersInvInit
<1>2. IInv /\ [Next]_vars => IInv'
  BY HandlersInvStep, IdentityStep, WriterIsOwnerStep
<1>3. IInv /\ IInv' /\ [Next]_vars =>
        [\A n \in Numbers :
           container'[n] # container[n] =>
             \E h \in Handlers :
               /\ pc[h] \in {"insert", "replace"} /\ pc'[h] = "idle" /\ target[h] = n
               /\ \A i \in 1 .. Len(container'[n]) :
                    container'[n][i].owner = call[h].caller]_vars
  BY OwnerStep
<1> QED  BY <1>1, <1>2, <1>3, PTL DEF Spec, OnlyOwnersWrite

-----------------------------------------------------------------------------
(* The unreachable 409.                                                    *)

\* On a consistent document the test of is_deleted anticipates that of status.
LEMMA VerdictIsNeverConflict ==
  ASSUME HandlersInv, DocumentsConsistent, NEW h \in Handlers, pc[h] = "decide"
  PROVE  Verdict(call[h], target[h], seen[h]) # 409
<1>1. target[h] \in Numbers /\ seen[h] \in 0 .. Len(container[target[h]])
  BY DEF HandlersInv, HandlerOK, KeyedCall, UpdateCall, CloseCall, GetCall
<1>2. CASE seen[h] = 0
  BY <1>2 DEF Verdict
<1>3. CASE seen[h] # 0
  <2>1. seen[h] \in Versions(target[h])
    BY <1>1, <1>3 DEF Versions, Newest, HandlersInv, TypeOK
  <2>2. Doc(<<target[h], seen[h]>>).isDeleted
          <=> Doc(<<target[h], seen[h]>>).status = "CLOSED"
    BY <1>1, <2>1 DEF DocumentsConsistent, ClosureFieldsAgree, Doc
  <2> QED  BY <2>2 DEF Verdict
<1> QED  BY <1>2, <1>3

LEMMA ConflictStep ==
  ASSUME HandlersInv, DocumentsConsistent, ConflictUnreachable, [Next]_vars
  PROVE  ConflictUnreachable'
<1>1. ASSUME NEW h \in Handlers, NEW s, NEW b, s # 409, Respond(h, s, b)
      PROVE  ConflictUnreachable'
  BY <1>1 DEF Respond, ConflictUnreachable, HandlersInv, TypeOK
<1>2. ASSUME NEW h \in Handlers, NEW c \in Calls, Accept(h, c)
      PROVE  ConflictUnreachable'
  BY <1>2 DEF Accept, NoReply, ConflictUnreachable, HandlersInv, TypeOK
<1>3. ASSUME NEW h \in Handlers, NEW c \in Calls, RefuseNonEmployee(h, c)
      PROVE  ConflictUnreachable'
  BY <1>1, <1>3 DEF RefuseNonEmployee
<1>4. ASSUME NEW h \in Handlers, HandlerStep(h) PROVE ConflictUnreachable'
  <2>1. CASE GenerateNumber(h) \/ LookupAccount(h) \/ StartUpdate(h)
             \/ \E n \in Numbers : ScanPartition(h, n)
    BY <2>1 DEF GenerateNumber, LookupAccount, StartUpdate, ScanPartition,
                ConflictUnreachable
  <2>2. CASE AnswerLookup(h)
    BY <1>1, <2>2, VerdictIsNeverConflict DEF AnswerLookup
  <2>3. CASE RereadAccount(h)
    <3>1. Respond(h, 404, {}) \/ UNCHANGED reply
      BY <2>3 DEF RereadAccount
    <3> QED  BY <1>1, <3>1 DEF ConflictUnreachable
  <2>4. CASE InsertAccount(h) \/ ReplaceAccount(h) \/ AnswerList(h)
             \/ AnswerBalance(h) \/ FailRequest(h)
    <3>1. CASE InsertAccount(h)
      BY <1>1, <3>1 DEF InsertAccount
    <3>2. CASE ReplaceAccount(h)
      BY <1>1, <3>2 DEF ReplaceAccount
    <3>3. CASE AnswerList(h) \/ AnswerBalance(h)
      <4>1. CASE AnswerList(h)
        BY <1>1, <4>1 DEF AnswerList
      <4>2. CASE AnswerBalance(h)
        <5>1. CASE Respond(h, 404, {})
          BY <1>1, <5>1
        <5>2. CASE \E row \in MostRecent(Matching(h)) : Respond(h, 200, {row})
          <6>1. PICK row \in MostRecent(Matching(h)) : Respond(h, 200, {row})
            BY <5>2
          <6> QED  BY <1>1, <6>1
        <5> QED  BY <4>2, <5>1, <5>2 DEF AnswerBalance
      <4> QED  BY <3>3, <4>1, <4>2
    <3>4. CASE FailRequest(h)
      BY <1>1, <3>4 DEF FailRequest
    <3> QED  BY <2>4, <3>1, <3>2, <3>3, <3>4
  <2> QED  BY <1>4, <2>1, <2>2, <2>3, <2>4 DEF HandlerStep, Serve
<1>5. CASE Quiescent \/ UNCHANGED vars
  BY <1>5 DEF Quiescent, vars, ConflictUnreachable
<1> QED  BY <1>2, <1>3, <1>4, <1>5 DEF Next

\* The answer 409, which the service, the routes and their tests provide for,
\* is never given.
THEOREM NoConflictReply == Spec => []ConflictUnreachable
<1>1. Init => ConflictUnreachable
  BY DEF Init, ConflictUnreachable, NoReply
<1>2. Init => DocumentsConsistent
  BY DEF Init, DocumentsConsistent, Versions, Newest, EmptyHistory
<1>3. HandlersInv /\ DocumentsConsistent /\ ConflictUnreachable /\ [Next]_vars
        => HandlersInv' /\ DocumentsConsistent' /\ ConflictUnreachable'
  BY HandlersInvStep, DocumentsConsistentStep, ConflictStep
<1> QED  BY <1>1, <1>2, <1>3, HandlersInvInit, PTL DEF Spec

-----------------------------------------------------------------------------
(* What the replies show.                                                  *)

\* A document shows that a write was carried out: every field it asks for is there.
Honours(doc, c) ==
  /\ c.op = "create" =>
       /\ doc.owner = c.caller /\ doc.type = c.type /\ doc.balance = c.deposit
       /\ doc.currency = c.currency /\ doc.status = "ACTIVE"
  /\ c.op = "update" /\ c.currency # Null => doc.currency = c.currency
  /\ c.op = "close" => doc.status = "CLOSED" /\ doc.isDeleted /\ doc.reason = c.reason

\* What a document that is shown in the answer to a request has to be.
Presentable(con, c, row) ==
  /\ row[1] \in Numbers /\ row[2] \in 1 .. Len(con[row[1]])
  /\ c.op \notin AdminOps => con[row[1]][row[2]].owner = c.caller
  /\ c.op \in {"get", "list", "balance"} => con[row[1]][row[2]].status = "ACTIVE"
  /\ Honours(con[row[1]][row[2]], c)

RepliesPresentable ==
  \A h \in Handlers : \A row \in reply[h].body : Presentable(container, call[h], row)

\* The versions a query has visited exist.
ScansExist ==
  \A h \in Handlers : \A row \in scanned[h] :
    row[1] \in Numbers /\ row[2] \in 0 .. Len(container[row[1]])

RepliesInv ==
  /\ HandlersInv /\ DocumentsConsistent /\ IdentityNeverChanges /\ WriterIsOwner
  /\ ScansExist /\ RepliesPresentable

\* No step changes or removes a version that exists.
LEMMA VersionsStay ==
  ASSUME HandlersInv, [Next]_vars
  PROVE  \A n \in Numbers :
           /\ Len(container[n]) \in Nat /\ Len(container'[n]) \in Nat
           /\ Len(container[n]) <= Len(container'[n])
           /\ \A i \in 1 .. Len(container[n]) : container'[n][i] = container[n][i]
<1>1. \A n \in Numbers : Len(container[n]) \in Nat
  BY DEF HandlersInv, TypeOK
<1>2. CASE UNCHANGED container
  BY <1>1, <1>2
<1>3. ASSUME NEW h \in Handlers, Inserts(h), NEW n \in Numbers
      PROVE  /\ Len(container'[n]) \in Nat
             /\ Len(container[n]) <= Len(container'[n])
             /\ \A i \in 1 .. Len(container[n]) : container'[n][i] = container[n][i]
  BY <1>1, <1>3, InsertedDocument
<1>4. ASSUME NEW h \in Handlers, Replaces(h), NEW n \in Numbers
      PROVE  /\ Len(container'[n]) \in Nat
             /\ Len(container[n]) <= Len(container'[n])
             /\ \A i \in 1 .. Len(container[n]) : container'[n][i] = container[n][i]
  BY <1>1, <1>4, ReplacedDocument
<1> QED  BY <1>1, <1>2, <1>3, <1>4, WritesAreInsertsOrReplaces

\* What a reply shows stays as it was shown.
LEMMA PresentableStays ==
  ASSUME HandlersInv, [Next]_vars, NEW c, NEW row, Presentable(container, c, row)
  PROVE  Presentable(container', c, row)
<1>1. row[1] \in Numbers /\ row[2] \in 1 .. Len(container[row[1]])
  BY DEF Presentable
<1>2. /\ row[2] \in 1 .. Len(container'[row[1]])
      /\ container'[row[1]][row[2]] = container[row[1]][row[2]]
  BY <1>1, VersionsStay
<1> QED  BY <1>1, <1>2 DEF Presentable, Doc

\* A response that shows presentable documents keeps the invariant.
LEMMA ResponsePresentable ==
  ASSUME HandlersInv, RepliesPresentable, [Next]_vars,
         NEW h \in Handlers, NEW s, NEW b, Respond(h, s, b), call' = call,
         \A row \in b : Presentable(container', call[h], row)
  PROVE  RepliesPresentable'
<1>1. /\ reply'[h].body = b
      /\ \A g \in Handlers \ {h} : reply'[g] = reply[g]
  BY DEF Respond, HandlersInv, TypeOK
<1>2. ASSUME NEW g \in Handlers, NEW row \in reply'[g].body
      PROVE  Presentable(container', call'[g], row)
  <2>1. CASE g = h
    BY <1>1, <1>2, <2>1 DEF Presentable, Doc
  <2>2. CASE g # h
    <3>1. Presentable(container, call[g], row)
      BY <1>1, <1>2, <2>2 DEF RepliesPresentable
    <3> QED  BY <3>1, PresentableStays
  <2> QED  BY <2>1, <2>2
<1> QED  BY <1>2 DEF RepliesPresentable, Presentable, Doc

\* A step that only takes a reply away, or changes none, keeps it.
LEMMA NoNewReply ==
  ASSUME HandlersInv, RepliesPresentable, [Next]_vars,
         \A g \in Handlers : \/ reply'[g].body = {}
                             \/ reply'[g] = reply[g] /\ call'[g] = call[g]
  PROVE  RepliesPresentable'
<1>1. ASSUME NEW g \in Handlers, NEW row \in reply'[g].body
      PROVE  Presentable(container', call'[g], row)
  <2>1. Presentable(container, call[g], row) /\ call'[g] = call[g]
    BY <1>1 DEF RepliesPresentable
  <2>2. Presentable(container', call[g], row)
    BY <2>1, PresentableStays
  <2> QED  BY <2>1, <2>2
<1> QED  BY <1>1 DEF RepliesPresentable, Presentable, Doc

\* What the checks of a read let through, and what the queries select.
LEMMA LookupPresentable ==
  ASSUME RepliesInv, NEW h \in Handlers, pc[h] = "decide",
         call[h].op \notin WriteOps, Verdict(call[h], target[h], seen[h]) = 200
  PROVE  Presentable(container, call[h], <<target[h], seen[h]>>)
<1>1. /\ target[h] \in Numbers /\ seen[h] \in 0 .. Len(container[target[h]])
      /\ call[h].op \in {"get", "adminGet"}
  BY DEF RepliesInv, HandlersInv, HandlerOK, KeyedCall, UpdateCall, CloseCall,
         GetCall, WriteOps
<1>2. seen[h] # 0
  BY DEF Verdict
<1>3. /\ Len(container[target[h]]) \in Nat
      /\ container[target[h]] \in Seq(Documents)
  BY <1>1 DEF RepliesInv, HandlersInv, TypeOK
<1>4. seen[h] \in 1 .. Len(container[target[h]])
  BY <1>1, <1>2, <1>3
<1> DEFINE doc == container[target[h]][seen[h]]
<1>5. doc \in Documents /\ ClosureFieldsAgree(doc)
  BY <1>1, <1>3, <1>4 DEF RepliesInv, DocumentsConsistent, Versions, Newest
<1>6. call[h].op # "adminGet" => ~doc.isDeleted /\ doc.owner = call[h].caller
  BY <1>2 DEF Verdict, Doc
<1>7. ~doc.isDeleted => doc.status = "ACTIVE"
  BY <1>5 DEF Documents, ClosureFieldsAgree
<1> QED  BY <1>1, <1>4, <1>6, <1>7 DEF Presentable, AdminOps, Honours

LEMMA RowsPresentable ==
  ASSUME RepliesInv, NEW h \in Handlers, NEW row \in Rows(h),
         call[h].op \in {"list", "balance", "adminList"}
  PROVE  Presentable(container, call[h], row)
<1>1. /\ row[1] \in Numbers /\ row[2] \in 0 .. Len(container[row[1]])
      /\ row[2] # 0 /\ Selects(call[h], Doc(row))
  BY DEF Rows, RepliesInv, ScansExist
<1>2. /\ Len(container[row[1]]) \in Nat
      /\ container[row[1]] \in Seq(Documents)
  BY <1>1 DEF RepliesInv, HandlersInv, TypeOK
<1>3. row[2] \in 1 .. Len(container[row[1]])
  BY <1>1, <1>2
<1>4. Doc(row) \in Documents /\ ClosureFieldsAgree(Doc(row))
  BY <1>1, <1>2, <1>3 DEF RepliesInv, DocumentsConsistent, Versions, Newest, Doc
<1>5. ~Doc(row).isDeleted => Doc(row).status = "ACTIVE"
  BY <1>4 DEF Documents, ClosureFieldsAgree
<1>6. call[h].op # "adminList" => ~Doc(row).isDeleted /\ Doc(row).owner = call[h].caller
  BY <1>1 DEF Selects
<1> QED  BY <1>1, <1>3, <1>5, <1>6 DEF Presentable, AdminOps, Doc, Honours

\* What a create or a replacement shows is the version it has just committed.
LEMMA InsertPresentable ==
  ASSUME HandlersInv, NEW h \in Handlers, Inserts(h)
  PROVE  Presentable(container', call[h], <<target[h], 1>>)
<1> DEFINE doc == NewAccount(target[h], call[h], stamp[h])
<1>1. /\ target[h] \in Numbers /\ call[h].op = "create"
      /\ Len(container'[target[h]]) = 1 /\ container'[target[h]][1] = doc
  BY InsertedDocument DEF CreateCall
<1>2. doc.owner = call[h].caller /\ Honours(doc, call[h])
  BY <1>1 DEF NewAccount, Honours
<1> HIDE DEF doc
<1> QED  BY <1>1, <1>2 DEF Presentable

LEMMA ReplacePresentable ==
  ASSUME RepliesInv, NEW h \in Handlers, Replaces(h)
  PROVE  Presentable(container', call[h], <<target[h], Newest(container[target[h]]) + 1>>)
<1> DEFINE n == target[h]
           doc == Merged(container[n][seen[h]], call[h], stamp[h])
<1>1. /\ n \in Numbers /\ call[h] \in WriteCall /\ container[n][seen[h]] \in Documents
      /\ seen[h] \in 1 .. Len(container[n]) /\ Len(container[n]) \in Nat
      /\ Len(container'[n]) = Len(container[n]) + 1
      /\ container'[n][Len(container[n]) + 1] = doc
  BY ReplacedDocument DEF RepliesInv
<1>2. call[h].op \in {"update", "close"}
  BY <1>1 DEF WriteCall, UpdateCall, CloseCall
<1>3. doc.owner = container[n][seen[h]].owner
  BY <1>1, MergeKeepsIdentity DEF Identity
<1>4. container[n][seen[h]].owner = container[n][1].owner
  BY <1>1 DEF RepliesInv, IdentityNeverChanges, Identity, Versions, Newest
<1>5. container[n][1].owner = call[h].caller
  BY DEF RepliesInv, WriterIsOwner, Replaces
<1>6. Honours(doc, call[h])
  BY <1>1 DEF Honours, Merged, ApplyUpdate, ApplyClose, Documents, WriteCall,
              UpdateCall, CloseCall
<1> HIDE DEF doc
<1> QED  BY <1>1, <1>2, <1>3, <1>4, <1>5, <1>6 DEF Presentable, Newest

LEMMA RepliesStep ==
  ASSUME RepliesInv, [Next]_vars
  PROVE  RepliesPresentable'
<1>1. HandlersInv /\ RepliesPresentable
  BY DEF RepliesInv
<1>2. ASSUME NEW h \in Handlers, NEW s, NEW b, Respond(h, s, b), call' = call,
             \A row \in b : Presentable(container', call[h], row)
      PROVE  RepliesPresentable'
  BY <1>1, <1>2, ResponsePresentable
<1>3. CASE reply' = reply /\ call' = call
  BY <1>1, <1>3, NoNewReply
<1>4. ASSUME NEW h \in Handlers, NEW c \in Calls, Accept(h, c) \/ RefuseNonEmployee(h, c)
      PROVE  RepliesPresentable'
  <2>1. \A g \in Handlers : \/ reply'[g].body = {}
                            \/ reply'[g] = reply[g] /\ call'[g] = call[g]
    BY <1>1, <1>4 DEF Accept, RefuseNonEmployee, Respond, NoReply, HandlersInv, TypeOK
  <2> QED  BY <1>1, <2>1, NoNewReply
<1>5. ASSUME NEW h \in Handlers, HandlerStep(h) PROVE RepliesPresentable'
  <2>1. CASE GenerateNumber(h) \/ LookupAccount(h) \/ StartUpdate(h)
             \/ \E n \in Numbers : ScanPartition(h, n)
    BY <1>3, <2>1 DEF GenerateNumber, LookupAccount, StartUpdate, ScanPartition
  <2>2. CASE InsertAccount(h)
    <3>1. CASE Respond(h, 201, {<<target[h], 1>>})
      <4>1. Inserts(h)
        BY <1>1, <2>2, <3>1 DEF InsertAccount, Inserts, CanCreate, Respond,
                                HandlersInv, TypeOK
      <4>2. Presentable(container', call[h], <<target[h], 1>>)
        BY <1>1, <4>1, InsertPresentable
      <4> QED  BY <1>2, <2>2, <3>1, <4>2 DEF InsertAccount
    <3>2. CASE Respond(h, 500, {})
      BY <1>2, <2>2, <3>2 DEF InsertAccount
    <3> QED  BY <2>2, <3>1, <3>2 DEF InsertAccount
  <2>3. CASE AnswerLookup(h)
    <3> DEFINE verdict == Verdict(call[h], target[h], seen[h])
               body == IF verdict = 200 THEN {<<target[h], seen[h]>>} ELSE {}
    <3>1. /\ Respond(h, verdict, body) /\ call' = call /\ container' = container
      BY <2>3 DEF AnswerLookup
    <3>2. ASSUME verdict = 200
          PROVE  Presentable(container', call[h], <<target[h], seen[h]>>)
      BY <2>3, <3>1, <3>2, LookupPresentable DEF AnswerLookup
    <3>3. \A row \in body : Presentable(container', call[h], row)
      BY <3>2
    <3> HIDE DEF verdict, body
    <3> QED  BY <1>2, <3>1, <3>3
  <2>4. CASE RereadAccount(h)
    <3>1. Respond(h, 404, {}) \/ reply' = reply
      BY <2>4 DEF RereadAccount
    <3> QED  BY <1>2, <1>3, <2>4, <3>1 DEF RereadAccount
  <2>5. CASE ReplaceAccount(h)
    <3> DEFINE row == <<target[h], Newest(container[target[h]]) + 1>>
    <3>1. Replaces(h)
      BY <1>1, <2>5 DEF ReplaceAccount, Replaces, Respond, HandlersInv, TypeOK
    <3>2. Presentable(container', call[h], row)
      BY <3>1, ReplacePresentable
    <3>3. Respond(h, 200, {row}) \/ Respond(h, 500, {})
      BY <2>5 DEF ReplaceAccount
    <3> HIDE DEF row
    <3> QED  BY <1>2, <2>5, <3>2, <3>3 DEF ReplaceAccount
  <2>6. CASE AnswerList(h)
    <3>1. \A row \in Rows(h) : Presentable(container', call[h], row)
      BY <2>6, RowsPresentable DEF AnswerList
    <3> QED  BY <1>2, <2>6, <3>1 DEF AnswerList
  <2>7. CASE AnswerBalance(h)
    <3>1. CASE Respond(h, 404, {})
      BY <1>2, <2>7, <3>1 DEF AnswerBalance
    <3>2. ASSUME NEW row \in MostRecent(Matching(h)), Respond(h, 200, {row})
          PROVE  RepliesPresentable'
      <4>1. row \in Rows(h)
        BY <3>2 DEF MostRecent, Matching
      <4>2. Presentable(container', call[h], row)
        BY <2>7, <4>1, RowsPresentable DEF AnswerBalance
      <4> QED  BY <1>2, <2>7, <3>2, <4>2 DEF AnswerBalance
    <3> QED  BY <2>7, <3>1, <3>2 DEF AnswerBalance
  <2>8. CASE FailRequest(h)
    BY <1>2, <2>8 DEF FailRequest
  <2> QED  BY <1>5, <2>1, <2>2, <2>3, <2>4, <2>5, <2>6, <2>7, <2>8
           DEF HandlerStep, Serve
<1>6. CASE Quiescent \/ UNCHANGED vars
  BY <1>3, <1>6 DEF Quiescent, vars
<1> QED  BY <1>4, <1>5, <1>6 DEF Next

\* Only the query that visits a partition adds to what has been visited.
LEMMA ScansStep ==
  ASSUME HandlersInv, ScansExist, [Next]_vars
  PROVE  ScansExist'
<1> DEFINE Fits(h, con) == \A row \in scanned'[h] :
             row[1] \in Numbers /\ row[2] \in 0 .. Len(con[row[1]])
<1>1. ASSUME \A h \in Handlers : scanned'[h] = {} \/ scanned'[h] = scanned[h]
      PROVE  \A h \in Handlers : Fits(h, container)
  BY <1>1 DEF ScansExist
<1>2. ASSUME NEW h \in Handlers, NEW s, NEW b, Respond(h, s, b)
      PROVE  \A g \in Handlers : Fits(g, container)
  BY <1>1, <1>2 DEF Respond, HandlersInv, TypeOK
<1>3. \A h \in Handlers : Fits(h, container)
  <2>1. CASE scanned' = scanned
    BY <1>1, <2>1
  <2>2. ASSUME NEW h \in Handlers, NEW n \in Numbers, ScanPartition(h, n)
        PROVE  \A g \in Handlers : Fits(g, container)
    <3>1. PICK i \in Visible(container[n]) :
            scanned' = [scanned EXCEPT ![h] = @ \cup {<<n, i>>}]
      BY <2>2 DEF ScanPartition
    <3>2. Len(container[n]) \in Nat
      BY DEF HandlersInv, TypeOK
    <3>3. i \in 0 .. Len(container[n])
      BY <3>2, VisibleBounds
    <3>4. \A g \in Handlers : \A row \in scanned'[g] : row \in scanned[g] \/ row = <<n, i>>
      BY <3>1 DEF HandlersInv, TypeOK
    <3> QED  BY <3>3, <3>4 DEF ScansExist
  <2>3. ASSUME NEW h \in Handlers, NEW c \in Calls, Accept(h, c) \/ RefuseNonEmployee(h, c)
        PROVE  \A g \in Handlers : Fits(g, container)
    BY <1>2, <2>1, <2>3 DEF Accept, RefuseNonEmployee
  <2>4. ASSUME NEW h \in Handlers, HandlerStep(h)
        PROVE  \A g \in Handlers : Fits(g, container)
    <3>1. CASE GenerateNumber(h) \/ LookupAccount(h) \/ StartUpdate(h)
      BY <2>1, <3>1 DEF GenerateNumber, LookupAccount, StartUpdate
    <3>2. CASE InsertAccount(h) \/ ReplaceAccount(h) \/ FailRequest(h)
      BY <1>2, <3>2 DEF InsertAccount, ReplaceAccount, FailRequest
    <3>3. CASE AnswerLookup(h) \/ AnswerList(h)
      BY <1>2, <3>3 DEF AnswerLookup, AnswerList
    <3>4. CASE RereadAccount(h)
      <4>1. Respond(h, 404, {}) \/ scanned' = scanned
        BY <3>4 DEF RereadAccount
      <4> QED  BY <1>2, <2>1, <4>1
    <3>5. CASE AnswerBalance(h)
      <4>1. \E s, b : Respond(h, s, b)
        <5>1. CASE Respond(h, 404, {})
          BY <5>1
        <5>2. CASE \E row \in MostRecent(Matching(h)) : Respond(h, 200, {row})
          BY <5>2
        <5> QED  BY <3>5, <5>1, <5>2 DEF AnswerBalance
      <4> QED  BY <1>2, <4>1
    <3>6. CASE \E n \in Numbers : ScanPartition(h, n)
      BY <2>2, <3>6
    <3> QED  BY <2>4, <3>1, <3>2, <3>3, <3>4, <3>5, <3>6 DEF HandlerStep, Serve
  <2>5. CASE Quiescent \/ UNCHANGED vars
    BY <2>1, <2>5 DEF Quiescent, vars
  <2> QED  BY <2>3, <2>4, <2>5 DEF Next
<1>4. \A n \in Numbers : /\ Len(container[n]) \in Nat /\ Len(container'[n]) \in Nat
                         /\ Len(container[n]) <= Len(container'[n])
  BY VersionsStay
<1> QED  BY <1>3, <1>4 DEF ScansExist

LEMMA RepliesInvInit == Init => RepliesInv
<1> SUFFICES ASSUME Init PROVE RepliesInv
  OBVIOUS
<1>1. HandlersInv
  BY HandlersInvInit
<1>2. DocumentsConsistent /\ IdentityNeverChanges /\ WriterIsOwner
  BY DEF Init, DocumentsConsistent, IdentityNeverChanges, WriterIsOwner, Versions,
         Newest, EmptyHistory
<1>3. ScansExist /\ RepliesPresentable
  BY DEF Init, ScansExist, RepliesPresentable, NoReply
<1> QED  BY <1>1, <1>2, <1>3 DEF RepliesInv

LEMMA RepliesInvStep == RepliesInv /\ [Next]_vars => RepliesInv'
<1> SUFFICES ASSUME RepliesInv, [Next]_vars PROVE RepliesInv'
  OBVIOUS
<1>1. HandlersInv' /\ DocumentsConsistent' /\ IdentityNeverChanges' /\ WriterIsOwner'
  BY HandlersInvStep, DocumentsConsistentStep, IdentityStep, WriterIsOwnerStep
     DEF RepliesInv
<1>2. ScansExist' /\ RepliesPresentable'
  BY ScansStep, RepliesStep DEF RepliesInv
<1> QED  BY <1>1, <1>2 DEF RepliesInv

\* However stale the reads and however writes overtake a query: a customer is
\* shown documents of no other owner.
THEOREM RepliesAreOwn == Spec => []RepliesRespectOwner
<1>1. RepliesInv => RepliesRespectOwner
  BY DEF RepliesInv, RepliesPresentable, Presentable, RepliesRespectOwner, Doc
<1> QED  BY <1>1, RepliesInvInit, RepliesInvStep, PTL DEF Spec

\* And what a read shows a customer is ACTIVE, although no code path of a read
\* tests the status.
THEOREM ReadsAreActive == Spec => []CustomersReadActive
<1>1. RepliesInv => CustomersReadActive
  BY DEF RepliesInv, RepliesPresentable, Presentable, CustomersReadActive, Doc
<1> QED  BY <1>1, RepliesInvInit, RepliesInvStep, PTL DEF Spec

\* A write that is answered with success shows an account.
SuccessShows ==
  \A h \in Handlers :
    call[h].op \in {"create", "update", "close"} /\ reply[h].status \in {200, 201}
      => reply[h].body # {}

LEMMA SuccessShowsStep ==
  ASSUME HandlersInv, SuccessShows, [Next]_vars
  PROVE  SuccessShows'
<1>1. ASSUME NEW h \in Handlers, NEW s, NEW b, Respond(h, s, b), call' = call,
             \/ s \notin {200, 201} \/ b # {}
             \/ call[h].op \notin {"create", "update", "close"}
      PROVE  SuccessShows'
  BY <1>1 DEF Respond, SuccessShows, HandlersInv, TypeOK
<1>2. ASSUME NEW h \in Handlers, NEW c \in Calls, Accept(h, c) \/ RefuseNonEmployee(h, c)
      PROVE  SuccessShows'
  <2>1. /\ reply'[h].status \notin {200, 201}
        /\ \A g \in Handlers \ {h} : reply'[g] = reply[g] /\ call'[g] = call[g]
    BY <1>2 DEF Accept, RefuseNonEmployee, Respond, NoReply, HandlersInv, TypeOK
  <2> QED  BY <2>1 DEF SuccessShows
<1>3. CASE UNCHANGED <<call, reply>>
  BY <1>3 DEF SuccessShows
<1>4. ASSUME NEW h \in Handlers, HandlerStep(h) PROVE SuccessShows'
  <2>1. CASE GenerateNumber(h) \/ LookupAccount(h) \/ StartUpdate(h)
             \/ \E n \in Numbers : ScanPartition(h, n)
    BY <1>3, <2>1 DEF GenerateNumber, LookupAccount, StartUpdate, ScanPartition
  <2>2. CASE InsertAccount(h)
    <3> DEFINE row == <<target[h], 1>>
    <3>1. Respond(h, 201, {row}) \/ Respond(h, 500, {})
      BY <2>2 DEF InsertAccount
    <3> HIDE DEF row
    <3> QED  BY <1>1, <2>2, <3>1 DEF InsertAccount
  <2>3. CASE AnswerLookup(h)
    <3> DEFINE verdict == Verdict(call[h], target[h], seen[h])
               body == IF verdict = 200 THEN {<<target[h], seen[h]>>} ELSE {}
    <3>1. Respond(h, verdict, body) /\ call' = call
      BY <2>3 DEF AnswerLookup
    <3>2. verdict \in {200, 403, 404, 409}
      BY DEF Verdict
    <3>3. verdict \notin {200, 201} \/ body # {}
      <4>1. CASE verdict = 200
        <5>1. body = {<<target[h], seen[h]>>}
          BY <4>1
        <5> HIDE DEF body
        <5> QED  BY <5>1
      <4> HIDE DEF verdict
      <4>2. CASE verdict # 200
        BY <3>2, <4>2
      <4> QED  BY <4>1, <4>2
    <3> HIDE DEF verdict, body
    <3> QED  BY <1>1, <3>1, <3>3
  <2>4. CASE RereadAccount(h)
    <3>1. call' = call /\ (Respond(h, 404, {}) \/ reply' = reply)
      BY <2>4 DEF RereadAccount
    <3> QED  BY <1>1, <1>3, <3>1
  <2>5. CASE ReplaceAccount(h)
    <3> DEFINE row == <<target[h], Newest(container[target[h]]) + 1>>
    <3>1. Respond(h, 200, {row}) \/ Respond(h, 500, {})
      BY <2>5 DEF ReplaceAccount
    <3> HIDE DEF row
    <3> QED  BY <1>1, <2>5, <3>1 DEF ReplaceAccount
  <2>6. CASE AnswerList(h)
    BY <1>1, <2>6 DEF AnswerList
  <2>7. CASE AnswerBalance(h)
    <3>1. call' = call /\ call[h].op = "balance"
      BY <2>7 DEF AnswerBalance
    <3>2. CASE Respond(h, 404, {})
      BY <1>1, <3>1, <3>2
    <3>3. ASSUME NEW row \in MostRecent(Matching(h)), Respond(h, 200, {row})
          PROVE  SuccessShows'
      BY <1>1, <3>1, <3>3
    <3> QED  BY <2>7, <3>2, <3>3 DEF AnswerBalance
  <2>8. CASE FailRequest(h)
    BY <1>1, <2>8 DEF FailRequest
  <2> QED  BY <1>4, <2>1, <2>2, <2>3, <2>4, <2>5, <2>6, <2>7, <2>8
           DEF HandlerStep, Serve
<1>5. CASE Quiescent \/ UNCHANGED vars
  BY <1>3, <1>5 DEF Quiescent, vars
<1> QED  BY <1>2, <1>4, <1>5 DEF Next

\* A write answered with success shows a version that is stored and that has every
\* field the request asked for, whoever overwrites it afterwards.
AnsweredWritesAreStored ==
  /\ SuccessShows
  /\ \A h \in Handlers : \A row \in reply[h].body :
       row[1] \in Numbers /\ row[2] \in Versions(row[1]) /\ Honours(Doc(row), call[h])

\* No create, update or close is answered with success and then not stored as it
\* was asked for, under all interleavings, lost answers and any staleness of reads
\* (src/services/account_service.py).
THEOREM WritesAreStored == Spec => []AnsweredWritesAreStored
<1>1. RepliesInv /\ SuccessShows => AnsweredWritesAreStored
  BY DEF RepliesInv, RepliesPresentable, Presentable, AnsweredWritesAreStored, Doc,
         Versions, Newest
<1>2. Init => SuccessShows
  BY DEF Init, SuccessShows, NoReply
<1>3. RepliesInv /\ SuccessShows /\ [Next]_vars => SuccessShows'
  BY SuccessShowsStep DEF RepliesInv
<1> QED  BY <1>1, <1>2, <1>3, RepliesInvInit, RepliesInvStep, PTL DEF Spec

-----------------------------------------------------------------------------
(* What a query does not miss.                                             *)

\* The versions a query of handler h has visited are no older than its reads may
\* be; a handler that runs no query has visited none.
QueryOK(h, con) ==
  /\ pc[h] # "scan" => scanned[h] = {}
  /\ \A n \in Numbers : since[h][n] <= Len(con[n])
  /\ \A row \in scanned[h] : since[h][row[1]] <= row[2] + MaxLag

QueriesOK == \A h \in Handlers : QueryOK(h, container)

QueriesInv == RepliesInv /\ QueriesOK

\* What a step does to the query of handler g: it ends, waits, begins or visits.
LEMMA QueryMoves ==
  ASSUME HandlersInv, [Next]_vars, NEW g \in Handlers
  PROVE  \/ /\ pc'[g] = "idle" /\ scanned'[g] = {}
            /\ since'[g] = [n \in Numbers |-> 0]
         \/ /\ pc'[g] = "scan" <=> pc[g] = "scan"
            /\ scanned'[g] = scanned[g] /\ since'[g] = since[g]
         \/ \E c \in Calls : Accept(g, c)
         \/ \E n \in Numbers : ScanPartition(g, n)
<1> DEFINE Ends == /\ pc'[g] = "idle" /\ scanned'[g] = {}
                   /\ since'[g] = [n \in Numbers |-> 0]
           Waits == /\ pc'[g] = "scan" <=> pc[g] = "scan"
                    /\ scanned'[g] = scanned[g] /\ since'[g] = since[g]
           Begins == \E c \in Calls : Accept(g, c)
           Visits == \E n \in Numbers : ScanPartition(g, n)
<1>1. TypeOK
  BY DEF HandlersInv
<1>2. ASSUME NEW h \in Handlers, NEW s, NEW b, Respond(h, s, b)
      PROVE  Ends \/ Waits
  BY <1>1, <1>2 DEF Respond, TypeOK
<1>3. ASSUME NEW h \in Handlers, NEW c \in Calls, Accept(h, c)
      PROVE  Begins \/ Waits
  <2>1. CASE g = h
    BY <1>3, <2>1
  <2>2. CASE g # h
    BY <1>1, <1>3, <2>2 DEF Accept, Goto, TypeOK
  <2> QED  BY <2>1, <2>2
<1>4. ASSUME NEW h \in Handlers, NEW c \in Calls, RefuseNonEmployee(h, c)
      PROVE  Ends \/ Waits
  BY <1>2, <1>4 DEF RefuseNonEmployee
<1>5. ASSUME NEW h \in Handlers, HandlerStep(h) PROVE Ends \/ Waits \/ Visits
  <2>1. CASE GenerateNumber(h) \/ LookupAccount(h) \/ StartUpdate(h)
    BY <1>1, <2>1 DEF GenerateNumber, LookupAccount, StartUpdate, Goto, TypeOK
  <2>2. CASE InsertAccount(h) \/ ReplaceAccount(h) \/ FailRequest(h)
    BY <1>2, <2>2 DEF InsertAccount, ReplaceAccount, FailRequest
  <2>3. CASE AnswerLookup(h) \/ AnswerList(h)
    BY <1>2, <2>3 DEF AnswerLookup, AnswerList
  <2>4. CASE RereadAccount(h)
    <3>1. CASE Respond(h, 404, {})
      BY <1>2, <3>1
    <3>2. CASE ~Respond(h, 404, {})
      <4>1. Goto(h, "replace") /\ UNCHANGED <<scanned, since>> /\ pc[h] = "reread"
        BY <2>4, <3>2 DEF RereadAccount
      <4> QED  BY <1>1, <4>1 DEF Goto, TypeOK
    <3> QED  BY <3>1, <3>2
  <2>5. CASE AnswerBalance(h)
    <3>1. CASE Respond(h, 404, {})
      BY <1>2, <3>1
    <3>2. CASE \E row \in MostRecent(Matching(h)) : Respond(h, 200, {row})
      BY <1>2, <3>2
    <3> QED  BY <2>5, <3>1, <3>2 DEF AnswerBalance
  <2>6. ASSUME NEW n \in Numbers, ScanPartition(h, n) PROVE Visits \/ Waits
    <3>1. CASE g = h
      BY <2>6, <3>1
    <3>2. CASE g # h
      BY <1>1, <2>6, <3>2 DEF ScanPartition, TypeOK
    <3> QED  BY <3>1, <3>2
  <2> QED  BY <1>5, <2>1, <2>2, <2>3, <2>4, <2>5, <2>6 DEF HandlerStep, Serve
<1>6. CASE Quiescent \/ UNCHANGED vars
  BY <1>6 DEF Quiescent, vars
<1> QED  BY <1>3, <1>4, <1>5, <1>6 DEF Next

LEMMA QueriesStep ==
  ASSUME HandlersInv, ScansExist, QueriesOK, [Next]_vars
  PROVE  QueriesOK'
<1> SUFFICES ASSUME NEW g \in Handlers PROVE QueryOK(g, container)'
  BY DEF QueriesOK
<1>1. /\ \A n \in Numbers : Len(container[n]) \in Nat /\ since[g][n] \in Nat
      /\ MaxLag \in Nat /\ TypeOK
  BY MaxLagAssumption DEF HandlersInv, TypeOK
<1>2. \A n \in Numbers : /\ Len(container'[n]) \in Nat
                         /\ Len(container[n]) <= Len(container'[n])
  BY VersionsStay
<1>3. QueryOK(g, container)
  BY DEF QueriesOK
<1>4. CASE /\ pc'[g] = "idle" /\ scanned'[g] = {}
           /\ since'[g] = [n \in Numbers |-> 0]
  BY <1>2, <1>4 DEF QueryOK
<1>5. CASE /\ pc'[g] = "scan" <=> pc[g] = "scan"
           /\ scanned'[g] = scanned[g] /\ since'[g] = since[g]
  BY <1>1, <1>2, <1>3, <1>5 DEF QueryOK
<1>6. ASSUME NEW c \in Calls, Accept(g, c) PROVE QueryOK(g, container)'
  <2>1. scanned'[g] = {} /\ container' = container
    BY <1>3, <1>6 DEF Accept, QueryOK
  <2>2. since'[g] = [n \in Numbers |-> IF FirstStep(c.op) = "scan"
                                       THEN Newest(container[n]) ELSE 0]
    BY <1>1, <1>6 DEF Accept, TypeOK
  <2> QED  BY <1>1, <2>1, <2>2 DEF QueryOK, Newest
<1>7. ASSUME NEW n \in Numbers, ScanPartition(g, n) PROVE QueryOK(g, container)'
  <2>1. PICK i \in Visible(container[n]) :
          scanned' = [scanned EXCEPT ![g] = @ \cup {<<n, i>>}]
    BY <1>7 DEF ScanPartition
  <2>2. /\ pc'[g] = "scan" /\ since' = since /\ container' = container
        /\ scanned'[g] = scanned[g] \cup {<<n, i>>}
    BY <1>1, <1>7, <2>1 DEF ScanPartition, TypeOK
  <2>3. i \in Nat /\ Len(container[n]) <= i + MaxLag
    BY <1>1 DEF Visible
  <2>4. since[g][n] <= i + MaxLag
    BY <1>1, <1>3, <2>3 DEF QueryOK
  <2> QED  BY <1>3, <2>2, <2>4 DEF QueryOK
<1> QED  BY <1>4, <1>5, <1>6, <1>7, QueryMoves

\* A row that a complete query has of an account that was active all the time.
LEMMA ActiveRowSelected ==
  ASSUME QueriesInv, NEW h \in Handlers, NEW n \in Numbers, ScanComplete(h),
         since[h][n] > MaxLag,
         \A i \in since[h][n] - MaxLag .. Newest(container[n]) :
           container[n][i].owner = call[h].caller /\ ~container[n][i].isDeleted
  PROVE  \E row \in Rows(h) : row[1] = n /\ row[2] \in 1 .. Len(container[n])
<1>1. PICK row \in scanned[h] : row[1] = n
  BY DEF ScanComplete
<1>2. /\ row[2] \in 0 .. Len(container[n]) /\ Len(container[n]) \in Nat
      /\ since[h][n] <= row[2] + MaxLag /\ since[h][n] \in Nat /\ MaxLag \in Nat
  BY <1>1, MaxLagAssumption DEF QueriesInv, QueriesOK, QueryOK, RepliesInv,
     ScansExist, HandlersInv, TypeOK
<1>3. /\ row[2] # 0 /\ row[2] \in 1 .. Len(container[n])
      /\ row[2] \in since[h][n] - MaxLag .. Newest(container[n])
  BY <1>2 DEF Newest
<1>4. Selects(call[h], Doc(row))
  BY <1>1, <1>3 DEF Selects, Doc
<1> QED  BY <1>1, <1>3, <1>4 DEF Rows

\* A query that is answered otherwise than with 500 has delivered its last page.
LEMMA QueryEnds ==
  ASSUME TypeOK, [Next]_vars, NEW h \in Handlers, pc[h] = "scan", pc'[h] = "idle",
         reply'[h].status # 500
  PROVE  AnswerList(h) \/ AnswerBalance(h)
<1>1. ASSUME NEW k \in Handlers, NEW s, pc' = [pc EXCEPT ![k] = s] PROVE k = h
  BY <1>1 DEF TypeOK
<1>2. ASSUME NEW k \in Handlers, NEW s, NEW b, Respond(k, s, b)
      PROVE  k = h /\ s # 500
  <2>1. k = h
    BY <1>1, <1>2 DEF Respond
  <2> QED  BY <1>2, <2>1 DEF Respond, TypeOK
<1>3. ASSUME NEW k \in Handlers, NEW c \in Calls,
             Accept(k, c) \/ RefuseNonEmployee(k, c)
      PROVE  FALSE
  <2>1. pc[k] = "idle"
    BY <1>3 DEF Accept, RefuseNonEmployee
  <2>2. CASE Accept(k, c)
    BY <1>1, <2>1, <2>2 DEF Accept, Goto
  <2>3. CASE RefuseNonEmployee(k, c)
    BY <1>2, <2>1, <2>3 DEF RefuseNonEmployee
  <2> QED  BY <1>3, <2>2, <2>3
<1>4. ASSUME NEW k \in Handlers, HandlerStep(k) PROVE AnswerList(h) \/ AnswerBalance(h)
  <2>1. CASE GenerateNumber(k) \/ LookupAccount(k) \/ StartUpdate(k)
    BY <1>1, <2>1 DEF GenerateNumber, LookupAccount, StartUpdate, Goto
  <2>2. CASE InsertAccount(k) \/ ReplaceAccount(k) \/ FailRequest(k)
    BY <1>2, <2>2 DEF InsertAccount, ReplaceAccount, FailRequest
  <2>3. CASE AnswerLookup(k)
    BY <1>2, <2>3 DEF AnswerLookup
  <2>4. CASE RereadAccount(k)
    BY <1>1, <2>4 DEF RereadAccount, Respond, Goto
  <2>5. CASE AnswerList(k)
    BY <1>2, <2>5 DEF AnswerList
  <2>6. CASE AnswerBalance(k)
    <3>1. CASE Respond(k, 404, {})
      BY <1>2, <2>6, <3>1
    <3>2. CASE \E row \in MostRecent(Matching(k)) : Respond(k, 200, {row})
      BY <1>2, <2>6, <3>2
    <3> QED  BY <2>6, <3>1, <3>2 DEF AnswerBalance
  <2>7. CASE \E n \in Numbers : ScanPartition(k, n)
    BY <2>7 DEF ScanPartition
  <2> QED  BY <1>4, <2>1, <2>2, <2>3, <2>4, <2>5, <2>6, <2>7 DEF HandlerStep, Serve
<1>5. CASE Quiescent \/ UNCHANGED vars
  BY <1>5 DEF Quiescent, vars
<1> QED  BY <1>3, <1>4, <1>5 DEF Next

\* An account of the caller that was active all the time a query took, and in the
\* versions a stale read may still return when it begins, is in the answer.
THEOREM ActiveAccountsAreFound == Spec => NoActiveAccountMissed
<1> DEFINE Missing(h, n) ==
      /\ pc[h] = "scan" /\ pc'[h] = "idle" /\ reply'[h].status # 500
      /\ since[h][n] > MaxLag
      /\ \A i \in since[h][n] - MaxLag .. Newest(container[n]) :
           container[n][i].owner = call[h].caller /\ ~container[n][i].isDeleted
           Found(h, n) ==
      CASE call[h].op = "balance" ->
             container[n][1].type = call[h].type => reply'[h].body # {}
        [] OTHER -> \E row \in reply'[h].body : row[1] = n
<1>1. Init => QueriesInv
  <2>1. Init => QueriesOK
    BY MaxLagAssumption DEF Init, QueriesOK, QueryOK, EmptyHistory
  <2> QED  BY <2>1, RepliesInvInit DEF QueriesInv
<1>2. QueriesInv /\ [Next]_vars => QueriesInv'
  BY RepliesInvStep, QueriesStep DEF QueriesInv, RepliesInv
<1>3. ASSUME QueriesInv, [Next]_vars, NEW h \in Handlers, NEW n \in Numbers,
             Missing(h, n)
      PROVE  Found(h, n)
  <2>1. HandlersInv /\ TypeOK
    BY <1>3 DEF QueriesInv, RepliesInv, HandlersInv
  <2>2. AnswerList(h) \/ AnswerBalance(h)
    BY <1>3, <2>1, QueryEnds
  <2>3. PICK row \in Rows(h) : row[1] = n /\ row[2] \in 1 .. Len(container[n])
    BY <1>3, <2>2, ActiveRowSelected DEF AnswerList, AnswerBalance
  <2>4. CASE AnswerList(h)
    <3>1. reply'[h].body = Rows(h) /\ call[h].op # "balance"
      BY <2>1, <2>4 DEF AnswerList, Respond, TypeOK
    <3> QED  BY <2>3, <3>1
  <2>5. CASE AnswerBalance(h)
    <3>1. call[h].op = "balance"
      BY <2>5 DEF AnswerBalance
    <3>2. ASSUME container[n][1].type = call[h].type PROVE reply'[h].body # {}
      <4>1. container[n][row[2]].type = container[n][1].type
        BY <1>3, <2>3 DEF QueriesInv, RepliesInv, IdentityNeverChanges, Identity,
                          Versions, Newest
      <4>2. row \in Matching(h)
        BY <2>3, <3>2, <4>1 DEF Matching, Doc
      <4>3. PICK shown : Respond(h, 200, {shown})
        BY <2>5, <4>2 DEF AnswerBalance
      <4> QED  BY <2>1, <4>3 DEF Respond, TypeOK
    <3> QED  BY <3>1, <3>2
  <2> QED  BY <2>2, <2>4, <2>5
<1>4. QueriesInv /\ [Next]_vars =>
        [\A h \in Handlers, n \in Numbers : Missing(h, n) => Found(h, n)]_vars
  BY <1>3
<1> QED  BY <1>1, <1>2, <1>4, PTL DEF Spec, NoActiveAccountMissed

-----------------------------------------------------------------------------
(* Refinement: without overlapping writes and with strongly consistent     *)
(* reads the service implements AccountLedger.                             *)

\* A writer works on the newest version, and once it has passed the checks that
\* version is ACTIVE.  A lookup that found nothing may be overtaken by a create.
WritersAreCurrent ==
  \A h \in Handlers :
    /\ pc[h] = "decide" /\ call[h].op \in WriteOps =>
         seen[h] \in {0, Len(container[target[h]])}
    /\ pc[h] \in {"reread", "replace"} =>
         /\ seen[h] = Len(container[target[h]])
         /\ Doc(<<target[h], seen[h]>>).status = "ACTIVE"

\* What the service does on behalf of writers that do not overlap.
SerialNext == Next /\ OneWriter'

SerialInv == HandlersInv /\ DocumentsConsistent /\ OneWriter /\ WritersAreCurrent

\* With MaxLag = 0 a read returns the newest version.
LEMMA StrongRead ==
  ASSUME MaxLag = 0, NEW s, Len(s) \in Nat, NEW i \in Visible(s)
  PROVE  i = Len(s)
  BY DEF Visible

\* While a write is under way nobody else commits a version of its account.
LEMMA WriterIsAlone ==
  ASSUME SerialInv, [SerialNext]_vars, NEW h \in Handlers,
         pc[h] \in {"decide", "reread", "replace"}, call[h].op \in WriteOps,
         pc'[h] # "idle"
  PROVE  \/ container'[target[h]] = container[target[h]]
         \/ pc[h] = "decide" /\ container[target[h]] = EmptyHistory
<1>1. [Next]_vars /\ HandlersInv
  BY DEF SerialNext, SerialInv
<1>2. target[h] \in Numbers
  BY <1>1 DEF HandlersInv, HandlerOK, KeyedCall, WriteCall, UpdateCall, CloseCall,
              GetCall
<1>3. pc[h] # "decide" => container[target[h]] # EmptyHistory
  BY <1>1, <1>2 DEF HandlersInv, HandlerOK, EmptyHistory
<1>4. ASSUME NEW g \in Handlers, Inserts(g), target[g] = target[h]
      PROVE  pc[h] = "decide" /\ container[target[h]] = EmptyHistory
  BY <1>3, <1>4 DEF Inserts
<1>5. ASSUME NEW g \in Handlers, Replaces(g), target[g] = target[h] PROVE FALSE
  <2>1. g # h
    BY <1>5 DEF Replaces
  <2>2. pc[g] = "replace" /\ call[g] \in WriteCall
    BY <1>1, <1>5, ReplacedDocument DEF Replaces
  <2>3. Writing(g) /\ Writing(h)
    BY <2>2 DEF Writing, WriteCall, WriteOps, UpdateCall, CloseCall
  <2> QED  BY <1>5, <2>1, <2>3 DEF SerialInv, OneWriter
<1>6. ASSUME NEW g \in Handlers, Inserts(g) \/ Replaces(g), target[g] # target[h]
      PROVE  container'[target[h]] = container[target[h]]
  BY <1>1, <1>2, <1>6, InsertedDocument, ReplacedDocument
<1> QED  BY <1>1, <1>4, <1>5, <1>6, WritesAreInsertsOrReplaces

LEMMA WritersAreCurrentStep ==
  ASSUME MaxLag = 0, SerialInv, HandlersInv', [SerialNext]_vars
  PROVE  WritersAreCurrent'
<1> SUFFICES ASSUME NEW h \in Handlers, call'[h].op \in WriteOps,
                    pc'[h] \in {"decide", "reread", "replace"}
             PROVE  /\ pc'[h] = "decide" =>
                         seen'[h] \in {0, Len(container'[target'[h]])}
                    /\ pc'[h] \in {"reread", "replace"} =>
                         /\ seen'[h] = Len(container'[target'[h]])
                         /\ container'[target'[h]][seen'[h]].status = "ACTIVE"
  BY DEF WritersAreCurrent, HandlersInv, HandlerOK, WriteCall, WriteOps, UpdateCall,
         CloseCall, Doc
<1>1. HandlersInv /\ [Next]_vars
  BY DEF SerialInv, SerialNext
<1>2. /\ call'[h] = call[h] /\ target'[h] = target[h]
      /\ \/ pc'[h] = pc[h] /\ seen'[h] = seen[h]
         \/ pc'[h] = "decide" /\ LookupAccount(h)
         \/ pc'[h] = "reread" /\ StartUpdate(h)
         \/ pc'[h] = "replace" /\ RereadAccount(h)
  BY <1>1, MovesToWork
<1>3. /\ target[h] \in Numbers
      /\ Len(container[target[h]]) \in Nat
      /\ pc[h] = "decide" => seen[h] \in {0, Len(container[target[h]])}
      /\ pc[h] \in {"reread", "replace"} =>
           /\ seen[h] = Len(container[target[h]])
           /\ container[target[h]][seen[h]].status = "ACTIVE"
           /\ seen[h] \in 1 .. Len(container[target[h]])
  <2>1. target[h] \in Numbers
    BY <1>1, <1>2 DEF HandlersInv, HandlerOK, KeyedCall, WriteCall, UpdateCall,
       CloseCall, GetCall, LookupAccount
  <2>2. Len(container[target[h]]) \in Nat
    BY <1>1, <2>1 DEF HandlersInv, TypeOK
  <2>3. pc[h] = "decide" => seen[h] \in {0, Len(container[target[h]])}
    BY <1>2 DEF SerialInv, WritersAreCurrent
  <2>4. pc[h] \in {"reread", "replace"} =>
          /\ seen[h] = Len(container[target[h]])
          /\ container[target[h]][seen[h]].status = "ACTIVE"
          /\ seen[h] \in 1 .. Len(container[target[h]])
    BY <1>1 DEF SerialInv, WritersAreCurrent, Doc, HandlersInv, HandlerOK
  <2> QED  BY <2>1, <2>2, <2>3, <2>4
<1>4. CASE pc'[h] = pc[h] /\ seen'[h] = seen[h]
  <2>1. \/ container'[target[h]] = container[target[h]]
        \/ pc[h] = "decide" /\ container[target[h]] = EmptyHistory
    BY <1>2, <1>4, WriterIsAlone
  <2>2. CASE container'[target[h]] = container[target[h]]
    BY <1>2, <1>3, <1>4, <2>2
  <2>3. CASE pc[h] = "decide" /\ container[target[h]] = EmptyHistory
    <3>1. seen[h] = 0
      BY <1>3, <2>3 DEF EmptyHistory
    <3> QED  BY <1>4, <2>3, <3>1
  <2> QED  BY <2>1, <2>2, <2>3
<1>5. CASE pc'[h] = "decide" /\ LookupAccount(h)
  <2>1. container' = container
    BY <1>5 DEF LookupAccount
  <2>2. seen'[h] \in Visible(container[target[h]])
    BY <1>1, <1>5 DEF LookupAccount, HandlersInv, TypeOK
  <2>3. seen'[h] = Len(container[target[h]])
    BY <1>3, <2>2, StrongRead
  <2> QED  BY <1>2, <1>5, <2>1, <2>3
<1>6. CASE pc'[h] = "reread" /\ StartUpdate(h)
  <2>1. /\ container' = container /\ seen' = seen /\ pc[h] = "decide"
        /\ Verdict(call[h], target[h], seen[h]) = 200
    BY <1>6 DEF StartUpdate
  <2>2. /\ seen[h] # 0
        /\ call[h].op \in WriteOps
        /\ Doc(<<target[h], seen[h]>>).status # "CLOSED"
    BY <1>2, <2>1 DEF Verdict, WriteOps
  <2>3. seen[h] = Len(container[target[h]])
    BY <1>3, <2>1, <2>2
  <2>4. container[target[h]][seen[h]] \in Documents
    BY <1>1, <1>3, <2>2, <2>3 DEF HandlersInv, TypeOK
  <2>5. container[target[h]][seen[h]].status = "ACTIVE"
    BY <2>2, <2>4 DEF Doc, Documents
  <2> QED  BY <1>2, <1>6, <2>1, <2>3, <2>5
<1>7. CASE pc'[h] = "replace" /\ RereadAccount(h)
  <2>1. container' = container /\ pc[h] = "reread"
    BY <1>7 DEF RereadAccount
  <2>2. seen'[h] \in Visible(container[target[h]])
    BY <1>1, <1>7 DEF RereadAccount, Respond, HandlersInv, TypeOK
  <2>3. seen'[h] = Len(container[target[h]])
    BY <1>3, <2>2, StrongRead
  <2>4. seen'[h] = seen[h]
    BY <1>3, <2>1, <2>3
  <2> QED  BY <1>2, <1>3, <1>7, <2>1, <2>3, <2>4
<1> QED  BY <1>2, <1>4, <1>5, <1>6, <1>7

LEMMA SerialInvStep ==
  ASSUME MaxLag = 0, SerialInv, [SerialNext]_vars
  PROVE  SerialInv'
<1>1. HandlersInv' /\ DocumentsConsistent'
  BY HandlersInvStep, DocumentsConsistentStep DEF SerialInv, SerialNext
<1>2. OneWriter'
  BY DEF SerialInv, SerialNext, OneWriter, Writing, vars
<1>3. WritersAreCurrent'
  BY <1>1, WritersAreCurrentStep
<1> QED  BY <1>1, <1>2, <1>3 DEF SerialInv

LEMMA SerialInvInit == Init => SerialInv
<1> SUFFICES ASSUME Init PROVE SerialInv
  OBVIOUS
<1>1. HandlersInv
  BY HandlersInvInit
<1> QED  BY <1>1 DEF Init, SerialInv, DocumentsConsistent, Versions, Newest,
            EmptyHistory, OneWriter, Writing, WritersAreCurrent

\* A document that is not CLOSED maps to an active entry.
LEMMA ActiveDocumentEntry ==
  ASSUME NEW doc \in Documents, ClosureFieldsAgree(doc), doc.status = "ACTIVE"
  PROVE  Entry(doc) \in Ledger!ActiveEntry
  BY DEF Documents, ClosureFieldsAgree, Entry, Ledger!ActiveEntry

\* A change of one history is a change of one entry of the ledger.
LEMMA ViewUpdate ==
  ASSUME container \in [Numbers -> Seq(Documents)],
         container' \in [Numbers -> Seq(Documents)], NEW n \in Numbers,
         \A m \in Numbers : m # n => container'[m] = container[m],
         Len(container'[n]) # 0, NEW doc, container'[n][Len(container'[n])] = doc
  PROVE  LedgerView' = [LedgerView EXCEPT ![n] = Entry(doc)]
<1>1. container'[n] # EmptyHistory
  BY DEF EmptyHistory
<1>2. \A m \in Numbers : m # n => LedgerView'[m] = LedgerView[m]
  BY DEF LedgerView, Current, Newest
<1>3. LedgerView'[n] = Entry(doc)
  BY <1>1 DEF LedgerView, Current, Newest
<1> QED  BY <1>2, <1>3 DEF LedgerView

\* The two changes of an active entry.
Amended(e, cur) == [e EXCEPT !.currency = cur]
ClosedAs(e, r) == [e EXCEPT !.status = "CLOSED", !.reason = r]

\* What a merge does to the entry of an active document.
LEMMA MergedEntry ==
  ASSUME NEW doc \in Documents, doc.status = "ACTIVE", NEW c \in WriteCall,
         NEW t \in Nat
  PROVE  \/ \E cur \in Currencies :
              Entry(Merged(doc, c, t)) = Amended(Entry(doc), cur)
         \/ \E r \in Reasons :
              Entry(Merged(doc, c, t)) = ClosedAs(Entry(doc), r)
<1>1. CASE c \in UpdateCall
  <2> DEFINE cur == IF c.currency = Null THEN doc.currency ELSE c.currency
  <2>1. cur \in Currencies
    BY <1>1 DEF UpdateCall, Documents
  <2>2. Merged(doc, c, t) = ApplyUpdate(doc, c, t)
    BY <1>1 DEF Merged, UpdateCall
  <2>3. Entry(ApplyUpdate(doc, c, t)) = Amended(Entry(doc), cur)
    BY DEF ApplyUpdate, Entry, Documents, Amended
  <2> QED  BY <2>1, <2>2, <2>3
<1>2. CASE c \in CloseCall
  <2>1. c.reason \in Reasons
    BY <1>2 DEF CloseCall
  <2>2. Merged(doc, c, t) = ApplyClose(doc, c, t)
    BY <1>2 DEF Merged, CloseCall
  <2>3. Entry(ApplyClose(doc, c, t)) = ClosedAs(Entry(doc), c.reason)
    <3> DEFINE closed == ApplyClose(doc, c, t)
    <3>1. /\ closed.owner = doc.owner /\ closed.type = doc.type
          /\ closed.balance = doc.balance /\ closed.currency = doc.currency
          /\ closed.status = "CLOSED" /\ closed.reason = c.reason
      BY DEF ApplyClose, Documents
    <3> DEFINE entry == [owner |-> doc.owner, type |-> doc.type,
                         balance |-> doc.balance, currency |-> doc.currency,
                         status |-> "CLOSED", reason |-> c.reason]
    <3>2. Entry(closed) = entry
      BY <3>1 DEF Entry
    <3> DEFINE half == [owner |-> doc.owner, type |-> doc.type,
                        balance |-> doc.balance, currency |-> doc.currency,
                        status |-> "CLOSED", reason |-> doc.reason]
    <3>3. [Entry(doc) EXCEPT !.status = "CLOSED"] = half
      BY DEF Entry
    <3>4. [half EXCEPT !.reason = c.reason] = entry
      OBVIOUS
    <3> QED  BY <3>2, <3>3, <3>4 DEF ClosedAs
  <2> QED  BY <2>1, <2>2, <2>3
<1> QED  BY <1>1, <1>2 DEF WriteCall

LEMMA LedgerStep ==
  ASSUME MaxLag = 0, SerialInv, [SerialNext]_vars
  PROVE  [Ledger!LedgerNext]_LedgerView
<1>1. HandlersInv /\ HandlersInv' /\ [Next]_vars
  BY HandlersInvStep DEF SerialInv, SerialNext
<1>2. /\ container \in [Numbers -> Seq(Documents)]
      /\ container' \in [Numbers -> Seq(Documents)]
  BY <1>1 DEF HandlersInv, TypeOK
<1>3. CASE UNCHANGED container
  BY <1>3 DEF LedgerView, Current, Newest
<1>4. ASSUME NEW h \in Handlers, Inserts(h) PROVE Ledger!LedgerNext
  <2> DEFINE n == target[h]
             doc == NewAccount(n, call[h], stamp[h])
  <2>1. /\ n \in Numbers /\ call[h] \in CreateCall /\ stamp[h] \in Nat
        /\ container[n] = EmptyHistory /\ container'[n][1] = doc
        /\ Len(container'[n]) = 1
        /\ \A m \in Numbers : m # n => container'[m] = container[m]
    BY <1>1, <1>4, InsertedDocument DEF Inserts
  <2>2. LedgerView[n] = Null
    BY <2>1 DEF LedgerView
  <2>3. LedgerView' = [LedgerView EXCEPT ![n] = Entry(doc)]
    <3>1. /\ n \in Numbers /\ Len(container'[n]) # 0
          /\ container'[n][Len(container'[n])] = doc
          /\ \A m \in Numbers : m # n => container'[m] = container[m]
      BY <2>1
    <3> HIDE DEF n, doc
    <3> QED  BY <1>2, <3>1, ViewUpdate
  <2>4. doc \in Documents /\ ClosureFieldsAgree(doc) /\ doc.status = "ACTIVE"
    BY <2>1, NewAccountIsDocument DEF NewAccount, ClosureFieldsAgree
  <2>5. Entry(doc) \in Ledger!ActiveEntry
    BY <2>4, ActiveDocumentEntry
  <2>6. Ledger!Open(n)
    BY <2>2, <2>3, <2>5 DEF Ledger!Open
  <2> QED  BY <2>1, <2>6 DEF Ledger!LedgerNext
<1>5. ASSUME NEW h \in Handlers, Replaces(h) PROVE Ledger!LedgerNext
  <2> DEFINE n == target[h]
             doc == container[n][seen[h]]
             merged == Merged(doc, call[h], stamp[h])
  <2>1. /\ n \in Numbers /\ call[h] \in WriteCall /\ stamp[h] \in Nat
        /\ seen[h] \in 1 .. Len(container[n]) /\ doc \in Documents
        /\ Len(container[n]) \in Nat
        /\ Len(container'[n]) = Len(container[n]) + 1
        /\ container'[n][Len(container[n]) + 1] = merged
        /\ \A m \in Numbers : m # n => container'[m] = container[m]
    BY <1>1, <1>5, ReplacedDocument
  <2>2. seen[h] = Len(container[n]) /\ doc.status = "ACTIVE"
    BY <1>5 DEF SerialInv, WritersAreCurrent, Replaces, Doc
  <2>3. LedgerView[n] = Entry(doc)
    BY <2>1, <2>2 DEF LedgerView, Current, Newest, EmptyHistory
  <2>4. LedgerView' = [LedgerView EXCEPT ![n] = Entry(merged)]
    <3>1. /\ n \in Numbers /\ Len(container'[n]) # 0
          /\ container'[n][Len(container'[n])] = merged
          /\ \A m \in Numbers : m # n => container'[m] = container[m]
      BY <2>1
    <3> HIDE DEF n, merged
    <3> QED  BY <1>2, <3>1, ViewUpdate
  <2>5. ClosureFieldsAgree(doc)
    BY <2>1 DEF SerialInv, DocumentsConsistent, Versions, Newest
  <2>6. LedgerView[n] \in Ledger!ActiveEntry
    BY <2>1, <2>2, <2>3, <2>5, ActiveDocumentEntry
  <2>7. CASE \E cur \in Currencies : Entry(merged) = Amended(Entry(doc), cur)
    <3>1. Ledger!Amend(n)
      BY <2>3, <2>4, <2>6, <2>7 DEF Ledger!Amend, Amended
    <3> QED  BY <2>1, <3>1 DEF Ledger!LedgerNext
  <2>8. CASE \E r \in Reasons : Entry(merged) = ClosedAs(Entry(doc), r)
    <3>1. PICK r \in Reasons : Entry(merged) = ClosedAs(Entry(doc), r)
      BY <2>8
    <3>2. LedgerView' = [LedgerView EXCEPT ![n].status = "CLOSED", ![n].reason = r]
      BY <2>1, <2>3, <2>4, <3>1 DEF LedgerView, ClosedAs
    <3>3. Ledger!Close(n)
      BY <2>6, <3>2 DEF Ledger!Close
    <3> QED  BY <2>1, <3>3 DEF Ledger!LedgerNext
  <2>9. \/ \E cur \in Currencies : Entry(merged) = Amended(Entry(doc), cur)
        \/ \E r \in Reasons : Entry(merged) = ClosedAs(Entry(doc), r)
    BY <2>1, <2>2, MergedEntry
  <2> QED  BY <2>7, <2>8, <2>9
<1>6. UNCHANGED container \/ \E h \in Handlers : Inserts(h) \/ Replaces(h)
  BY <1>1, WritesAreInsertsOrReplaces
<1> QED  BY <1>3, <1>4, <1>5, <1>6

\* With strongly consistent reads, and if nobody sends a write for an account
\* before the previous one was answered, the service implements the ledger, in
\* which an account is opened once and closed for good.
THEOREM SerialRefinesLedger ==
  ASSUME MaxLag = 0
  PROVE  SerialSpec => ImplementsLedger
<1>1. Init => Ledger!LedgerInit
  BY DEF Init, Ledger!LedgerInit, LedgerView
<1>2. Init => SerialInv
  BY SerialInvInit
<1>3. SerialInv /\ [Next /\ OneWriter']_vars => SerialInv'
  BY SerialInvStep DEF SerialNext
<1>4. SerialInv /\ [Next /\ OneWriter']_vars => [Ledger!LedgerNext]_LedgerView
  BY LedgerStep DEF SerialNext
<1> QED  BY <1>1, <1>2, <1>3, <1>4, PTL DEF SerialSpec, ImplementsLedger,
            Ledger!LedgerSpec

\* With strongly consistent reads and without overlapping writes a CLOSED account
\* stays CLOSED: in the histories themselves, not only in the ledger's view.
THEOREM SerialClosedForGood ==
  ASSUME MaxLag = 0
  PROVE  SerialSpec => []ClosedForGood
<1>1. Init => SerialInv /\ ClosedForGood
  <2>1. Init => ClosedForGood
    BY DEF Init, ClosedForGood, Versions, Newest, EmptyHistory
  <2> QED  BY <2>1, SerialInvInit
<1>2. ASSUME SerialInv, ClosedForGood, [SerialNext]_vars PROVE ClosedForGood'
  <2>1. HandlersInv /\ [Next]_vars
    BY <1>2 DEF SerialInv, SerialNext
  <2>2. CASE UNCHANGED container
    BY <1>2, <2>2 DEF ClosedForGood, Versions, Newest
  <2>3. ASSUME NEW h \in Handlers, Inserts(h) PROVE ClosedForGood'
    BY <1>2, <2>1, <2>3, InsertedDocument DEF ClosedForGood, Versions, Newest
  <2>4. ASSUME NEW h \in Handlers, Replaces(h) PROVE ClosedForGood'
    <3> DEFINE n == target[h]
    <3>1. /\ n \in Numbers /\ seen[h] \in 1 .. Len(container[n])
          /\ Len(container[n]) \in Nat
          /\ Len(container'[n]) = Len(container[n]) + 1
          /\ \A i \in 1 .. Len(container[n]) : container'[n][i] = container[n][i]
          /\ \A m \in Numbers : m # n => container'[m] = container[m]
      BY <2>1, <2>4, ReplacedDocument
    <3>2. seen[h] = Len(container[n]) /\ container[n][seen[h]].status = "ACTIVE"
      BY <1>2, <2>4 DEF SerialInv, WritersAreCurrent, Replaces, Doc
    <3>3. \A i \in 1 .. Len(container[n]) : container[n][i].status # "CLOSED"
      BY <1>2, <3>1, <3>2 DEF ClosedForGood, Versions, Newest
    <3> SUFFICES ASSUME NEW m \in Numbers, NEW i \in 1 .. Len(container'[m]),
                        NEW j \in 1 .. Len(container'[m]), i < j,
                        container'[m][i].status = "CLOSED"
                 PROVE  container'[m][j].status = "CLOSED"
      BY DEF ClosedForGood, Versions, Newest
    <3>4. CASE m = n
      <4>1. i \in 1 .. Len(container[n])
        BY <3>1, <3>4
      <4>2. container'[n][i].status # "CLOSED"
        BY <3>1, <3>3, <4>1
      <4> QED  BY <3>4, <4>2
    <3>5. CASE m # n
      BY <1>2, <3>1, <3>5 DEF ClosedForGood, Versions, Newest
    <3> QED  BY <3>4, <3>5
  <2> QED  BY <2>1, <2>2, <2>3, <2>4, WritesAreInsertsOrReplaces
<1>3. SerialInv /\ ClosedForGood /\ [Next /\ OneWriter']_vars
        => SerialInv' /\ ClosedForGood'
  BY <1>2, SerialInvStep DEF SerialNext
<1> QED  BY <1>1, <1>3, PTL DEF SerialSpec

-----------------------------------------------------------------------------
(* Serial writes and the clock.                                            *)

\* No time stamp is ahead of the clock, and the one a writer has captured is not
\* behind the version it works on.
StampsFollowClock ==
  /\ \A n \in Numbers : \A i \in Versions(n) : container[n][i].updatedAt <= clock
  /\ \A h \in Handlers : stamp[h] <= clock
  /\ \A h \in Handlers :
       pc[h] \in {"reread", "replace"} =>
         container[target[h]][seen[h]].updatedAt <= stamp[h]

\* The clock never goes back, "now" is captured from it or forgotten, and a
\* handler at "reread" or "replace" captured it in StartUpdate.
LEMMA StampMoves ==
  ASSUME HandlersInv, [Next]_vars
  PROVE  /\ clock <= clock'
         /\ \A g \in Handlers :
              /\ \/ stamp'[g] \in {0, stamp[g]}
                 \/ clock <= stamp'[g] /\ stamp'[g] <= clock'
              /\ pc'[g] \in {"reread", "replace"} =>
                   \/ stamp'[g] = stamp[g]
                   \/ StartUpdate(g) /\ clock <= stamp'[g]
<1> DEFINE Goal ==
      /\ clock <= clock'
      /\ \A g \in Handlers :
           /\ \/ stamp'[g] \in {0, stamp[g]}
              \/ clock <= stamp'[g] /\ stamp'[g] <= clock'
           /\ pc'[g] \in {"reread", "replace"} =>
                \/ stamp'[g] = stamp[g]
                \/ StartUpdate(g) /\ clock <= stamp'[g]
<1>1. /\ clock \in Nat /\ stamp \in [Handlers -> Nat] /\ pc \in [Handlers -> Steps]
  BY DEF HandlersInv, TypeOK
<1>2. ASSUME NEW h \in Handlers, NEW s, NEW b, Respond(h, s, b), clock' = clock
      PROVE  Goal
  <2>1. pc'[h] = "idle" /\ stamp'[h] = 0
        /\ \A g \in Handlers \ {h} : stamp'[g] = stamp[g]
    BY <1>1, <1>2 DEF Respond
  <2> QED  BY <1>1, <1>2, <2>1
<1>3. CASE stamp' = stamp /\ clock' = clock
  BY <1>1, <1>3
<1>4. ASSUME NEW h \in Handlers, NEW c \in Calls, Accept(h, c) \/ RefuseNonEmployee(h, c)
      PROVE  Goal
  BY <1>2, <1>3, <1>4 DEF Accept, RefuseNonEmployee
<1>5. ASSUME NEW h \in Handlers, HandlerStep(h) PROVE Goal
  <2>1. CASE GenerateNumber(h)
    <3>1. PICK t \in {clock, clock + 1} :
            ReadClock(t) /\ stamp' = [stamp EXCEPT ![h] = t]
      BY <2>1 DEF GenerateNumber
    <3>2. clock <= t /\ clock' = t /\ stamp'[h] = t /\ pc'[h] = "insert"
          /\ \A g \in Handlers \ {h} : stamp'[g] = stamp[g]
      BY <1>1, <2>1, <3>1 DEF GenerateNumber, Goto, ReadClock
    <3> QED  BY <1>1, <3>2
  <2>2. CASE StartUpdate(h)
    <3>1. PICK t \in {clock, clock + 1} :
            ReadClock(t) /\ stamp' = [stamp EXCEPT ![h] = t]
      BY <2>2 DEF StartUpdate
    <3>2. clock <= t /\ clock' = t /\ stamp'[h] = t
          /\ \A g \in Handlers \ {h} : stamp'[g] = stamp[g]
      BY <1>1, <2>2, <3>1 DEF ReadClock
    <3> QED  BY <1>1, <2>2, <3>2
  <2>3. CASE InsertAccount(h) \/ ReplaceAccount(h) \/ FailRequest(h)
    BY <1>2, <2>3 DEF InsertAccount, ReplaceAccount, FailRequest
  <2>4. CASE AnswerLookup(h) \/ AnswerList(h)
    BY <1>2, <2>4 DEF AnswerLookup, AnswerList
  <2>5. CASE RereadAccount(h)
    <3>1. Respond(h, 404, {}) \/ stamp' = stamp
      BY <2>5 DEF RereadAccount
    <3> QED  BY <1>2, <1>3, <2>5, <3>1 DEF RereadAccount
  <2>6. CASE AnswerBalance(h)
    <3>1. CASE Respond(h, 404, {})
      BY <1>2, <2>6, <3>1 DEF AnswerBalance
    <3>2. ASSUME NEW row \in MostRecent(Matching(h)), Respond(h, 200, {row}) PROVE Goal
      BY <1>2, <2>6, <3>2 DEF AnswerBalance
    <3> QED  BY <2>6, <3>1, <3>2 DEF AnswerBalance
  <2>7. CASE LookupAccount(h) \/ \E n \in Numbers : ScanPartition(h, n)
    BY <1>3, <2>7 DEF LookupAccount, ScanPartition
  <2> QED  BY <1>5, <2>1, <2>2, <2>3, <2>4, <2>5, <2>6, <2>7 DEF HandlerStep, Serve
<1>6. CASE Quiescent \/ UNCHANGED vars
  BY <1>3, <1>6 DEF Quiescent, vars
<1> QED  BY <1>4, <1>5, <1>6 DEF Next

\* Both kinds of commit write "now" into updated_at.
LEMMA CommitsStamp ==
  ASSUME NEW doc \in Documents, NEW c, NEW t
  PROVE  Merged(doc, c, t).updatedAt = t
  BY DEF Merged, ApplyClose, ApplyUpdate, Documents

LEMMA StampsStep ==
  ASSUME MaxLag = 0, SerialInv, StampsFollowClock, UpdatedAtNeverGoesBack,
         [SerialNext]_vars
  PROVE  StampsFollowClock' /\ UpdatedAtNeverGoesBack'
<1>1. HandlersInv /\ HandlersInv' /\ SerialInv' /\ [Next]_vars
  BY SerialInvStep, HandlersInvStep DEF SerialInv, SerialNext
<1>2. /\ clock \in Nat /\ clock' \in Nat /\ clock <= clock'
      /\ \A g \in Handlers : stamp[g] \in Nat /\ stamp'[g] \in Nat
      /\ \A n \in Numbers : Len(container[n]) \in Nat
      /\ \A n \in Numbers : \A i \in 1 .. Len(container[n]) :
           container[n][i].updatedAt \in Nat
  <2>1. \A n \in Numbers : container[n] \in Seq(Documents)
    BY <1>1 DEF HandlersInv, TypeOK
  <2>2. \A n \in Numbers : \A i \in 1 .. Len(container[n]) :
          container[n][i].updatedAt \in Nat
    <3> SUFFICES ASSUME NEW n \in Numbers, NEW i \in 1 .. Len(container[n])
                 PROVE  container[n][i].updatedAt \in Nat
      OBVIOUS
    <3>1. container[n][i] \in Documents
      BY <2>1
    <3> QED  BY <3>1 DEF Documents
  <2> QED  BY <1>1, <2>1, <2>2, StampMoves DEF HandlersInv, TypeOK
<1>3. \A h \in Handlers : stamp'[h] <= clock'
  BY <1>1, <1>2, StampMoves DEF StampsFollowClock
<1>4. ASSUME NEW h \in Handlers, pc'[h] \in {"reread", "replace"}
      PROVE  container'[target'[h]][seen'[h]].updatedAt <= stamp'[h]
  <2>1. /\ call'[h] = call[h] /\ target'[h] = target[h]
        /\ \/ pc'[h] = pc[h] /\ seen'[h] = seen[h]
           \/ StartUpdate(h)
           \/ RereadAccount(h)
    BY <1>1, <1>4, MovesToWork
  <2>2. /\ target[h] \in Numbers
        /\ pc[h] \in {"reread", "replace"} =>
             seen[h] = Len(container[target[h]])
    BY <1>1, <1>4, <2>1 DEF SerialInv, WritersAreCurrent, HandlersInv, HandlerOK,
       WriteCall, UpdateCall, CloseCall
  <2>3. seen'[h] = Len(container'[target[h]]) /\ seen'[h] \in 1 .. Len(container'[target[h]])
    BY <1>1, <1>4, <2>1 DEF SerialInv, WritersAreCurrent, HandlersInv, HandlerOK
  <2>4. CASE StartUpdate(h)
    <3>1. container' = container
      BY <2>4 DEF StartUpdate
    <3>2. container[target[h]][seen'[h]].updatedAt <= clock
      BY <2>2, <2>3, <3>1 DEF StampsFollowClock, Versions, Newest
    <3>3. clock <= stamp'[h]
      BY <1>1, <1>2, <2>4 DEF StartUpdate, HandlersInv, TypeOK
    <3> QED  BY <1>2, <2>1, <2>2, <2>3, <3>1, <3>2, <3>3
  <2>5. CASE ~StartUpdate(h)
    <3>1. pc[h] \in {"reread", "replace"} /\ stamp'[h] = stamp[h]
      BY <1>1, <1>4, <2>1, <2>5, StampMoves DEF RereadAccount
    <3>2. call[h].op \in WriteOps
      BY <1>1, <3>1 DEF HandlersInv, HandlerOK, WriteCall, WriteOps, UpdateCall,
                        CloseCall
    <3>3. container'[target[h]] = container[target[h]]
      BY <1>4, <3>1, <3>2, WriterIsAlone
    <3> QED  BY <2>1, <2>2, <2>3, <3>1, <3>3 DEF StampsFollowClock
  <2> QED  BY <2>4, <2>5
<1>5. CASE UNCHANGED container
  BY <1>2, <1>3, <1>4, <1>5
     DEF StampsFollowClock, UpdatedAtNeverGoesBack, Versions, Newest
<1>6. ASSUME NEW h \in Handlers, Inserts(h)
      PROVE  StampsFollowClock' /\ UpdatedAtNeverGoesBack'
  <2> DEFINE n == target[h]
  <2>1. /\ n \in Numbers /\ Len(container'[n]) = 1
        /\ container'[n][1] = NewAccount(n, call[h], stamp[h])
        /\ \A m \in Numbers : m # n => container'[m] = container[m]
    BY <1>1, <1>6, InsertedDocument
  <2>2. container'[n][1].updatedAt = stamp[h]
    BY <2>1 DEF NewAccount
  <2>3. \A m \in Numbers : \A i \in 1 .. Len(container'[m]) :
          container'[m][i].updatedAt <= clock'
    BY <1>2, <2>1, <2>2 DEF StampsFollowClock, Versions, Newest
  <2>4. UpdatedAtNeverGoesBack'
    BY <2>1 DEF UpdatedAtNeverGoesBack, Versions, Newest
  <2> QED  BY <1>3, <1>4, <2>3, <2>4 DEF StampsFollowClock, Versions, Newest
<1>7. ASSUME NEW h \in Handlers, Replaces(h)
      PROVE  StampsFollowClock' /\ UpdatedAtNeverGoesBack'
  <2> DEFINE n == target[h]
             last == Len(container[n])
  <2>1. /\ n \in Numbers /\ last \in Nat /\ seen[h] \in 1 .. last
        /\ container[n][seen[h]] \in Documents
        /\ Len(container'[n]) = last + 1
        /\ container'[n][last + 1] = Merged(container[n][seen[h]], call[h], stamp[h])
        /\ \A i \in 1 .. last : container'[n][i] = container[n][i]
        /\ \A m \in Numbers : m # n => container'[m] = container[m]
    BY <1>1, <1>7, ReplacedDocument
  <2>2. container'[n][last + 1].updatedAt = stamp[h]
    BY <2>1, CommitsStamp
  <2>3. seen[h] = last /\ container[n][last].updatedAt <= stamp[h]
    BY <1>7 DEF SerialInv, WritersAreCurrent, StampsFollowClock, Replaces
  <2>4. \A i \in 1 .. last : container[n][i].updatedAt <= stamp[h]
    <3> SUFFICES ASSUME NEW i \in 1 .. last
                 PROVE  container[n][i].updatedAt <= stamp[h]
      OBVIOUS
    <3>1. i = last \/ i < last
      BY <2>1
    <3>2. container[n][i].updatedAt <= container[n][last].updatedAt
      BY <1>2, <2>1, <2>3, <3>1 DEF UpdatedAtNeverGoesBack, Versions, Newest
    <3>3. container[n][i].updatedAt \in Nat /\ container[n][last].updatedAt \in Nat
      BY <1>2, <2>1, <2>3
    <3> QED  BY <1>2, <2>3, <3>2, <3>3
  <2>5. \A m \in Numbers : \A i \in 1 .. Len(container'[m]) :
          container'[m][i].updatedAt <= clock'
    <3> SUFFICES ASSUME NEW m \in Numbers, NEW i \in 1 .. Len(container'[m])
                 PROVE  container'[m][i].updatedAt <= clock'
      OBVIOUS
    <3>1. CASE m # n
      BY <1>2, <2>1, <3>1 DEF StampsFollowClock, Versions, Newest
    <3>2. CASE m = n /\ i \in 1 .. last
      <4>1. container'[m][i] = container[n][i]
        BY <2>1, <3>2
      <4>2. container[n][i].updatedAt <= clock /\ container[n][i].updatedAt \in Nat
        BY <1>2, <2>1, <3>2 DEF StampsFollowClock, Versions, Newest
      <4> HIDE DEF n, last
      <4> QED  BY <1>2, <4>1, <4>2
    <3>3. CASE m = n /\ i = last + 1
      BY <1>2, <2>1, <2>2, <3>3 DEF StampsFollowClock
    <3> QED  BY <2>1, <3>1, <3>2, <3>3
  <2>6. \A m \in Numbers : \A i, j \in 1 .. Len(container'[m]) :
          i < j => container'[m][i].updatedAt <= container'[m][j].updatedAt
    <3> SUFFICES ASSUME NEW m \in Numbers, NEW i \in 1 .. Len(container'[m]),
                        NEW j \in 1 .. Len(container'[m]), i < j
                 PROVE  container'[m][i].updatedAt <= container'[m][j].updatedAt
      OBVIOUS
    <3>1. CASE m # n
      BY <2>1, <3>1 DEF UpdatedAtNeverGoesBack, Versions, Newest
    <3>2. CASE m = n /\ j \in 1 .. last
      <4>1. i \in 1 .. last
        BY <2>1, <3>2
      <4> QED  BY <2>1, <3>2, <4>1 DEF UpdatedAtNeverGoesBack, Versions, Newest
    <3>3. CASE m = n /\ j = last + 1
      <4>1. i \in 1 .. last
        BY <2>1, <3>3
      <4> QED  BY <2>1, <2>2, <2>4, <3>3, <4>1
    <3> QED  BY <2>1, <3>1, <3>2, <3>3
  <2> QED  BY <1>3, <1>4, <2>5, <2>6
           DEF StampsFollowClock, UpdatedAtNeverGoesBack, Versions, Newest
<1> QED  BY <1>1, <1>5, <1>6, <1>7, WritesAreInsertsOrReplaces

\* With strongly consistent reads and without overlapping writes the updated_at of
\* an account, by which get_balance_by_type chooses, never goes back.
THEOREM SerialUpdatedAtGrows ==
  ASSUME MaxLag = 0
  PROVE  SerialSpec => []UpdatedAtNeverGoesBack
<1>1. Init => SerialInv /\ StampsFollowClock /\ UpdatedAtNeverGoesBack
  <2>1. Init => StampsFollowClock /\ UpdatedAtNeverGoesBack
    BY DEF Init, StampsFollowClock, UpdatedAtNeverGoesBack, Versions, Newest,
           EmptyHistory
  <2> QED  BY <2>1, SerialInvInit
<1>2. SerialInv /\ StampsFollowClock /\ UpdatedAtNeverGoesBack
        /\ [Next /\ OneWriter']_vars
      => SerialInv' /\ StampsFollowClock' /\ UpdatedAtNeverGoesBack'
  BY StampsStep, SerialInvStep DEF SerialNext
<1> QED  BY <1>1, <1>2, PTL DEF SerialSpec

-----------------------------------------------------------------------------
(* What an etag would change.                                              *)

\* At most one handler leaves its step.
LEMMA OneHandlerMoves ==
  ASSUME HandlersInv, [Next]_vars, NEW g \in Handlers, NEW h \in Handlers,
         pc'[g] # pc[g], pc'[h] # pc[h]
  PROVE  g = h
<1>1. ASSUME NEW k \in Handlers, NEW s, pc' = [pc EXCEPT ![k] = s] PROVE g = h
  BY <1>1 DEF HandlersInv, TypeOK
<1>2. ASSUME NEW k \in Handlers, NEW c \in Calls, Accept(k, c) PROVE g = h
  BY <1>1, <1>2 DEF Accept, Goto
<1>3. ASSUME NEW k \in Handlers, NEW c \in Calls, RefuseNonEmployee(k, c) PROVE g = h
  BY <1>1, <1>3 DEF RefuseNonEmployee, Respond
<1>4. ASSUME NEW k \in Handlers, HandlerStep(k) PROVE g = h
  <2>1. CASE GenerateNumber(k) \/ LookupAccount(k) \/ StartUpdate(k)
    BY <1>1, <2>1 DEF GenerateNumber, LookupAccount, StartUpdate, Goto
  <2>2. CASE RereadAccount(k)
    BY <1>1, <2>2 DEF RereadAccount, Goto, Respond
  <2>3. CASE InsertAccount(k) \/ AnswerLookup(k) \/ ReplaceAccount(k)
    BY <1>1, <2>3 DEF InsertAccount, AnswerLookup, ReplaceAccount, Respond
  <2>4. ASSUME NEW status, NEW body, Respond(k, status, body) PROVE g = h
    BY <1>1, <2>4 DEF Respond
  <2>5. CASE AnswerList(k) \/ FailRequest(k)
    BY <2>4, <2>5 DEF AnswerList, FailRequest
  <2>6. CASE AnswerBalance(k)
    <3>1. CASE Respond(k, 404, {})
      BY <2>4, <3>1
    <3>2. CASE \E row \in MostRecent(Matching(k)) : Respond(k, 200, {row})
      BY <2>4, <3>2
    <3> QED  BY <2>6, <3>1, <3>2 DEF AnswerBalance
  <2>7. CASE \E n \in Numbers : ScanPartition(k, n)
    BY <2>7 DEF ScanPartition
  <2> QED  BY <1>4, <2>1, <2>2, <2>3, <2>5, <2>6, <2>7 DEF HandlerStep, Serve
<1>5. CASE Quiescent \/ UNCHANGED vars
  BY <1>5 DEF Quiescent, vars
<1> QED  BY <1>2, <1>3, <1>4, <1>5 DEF Next

\* A replacement that is based on the newest version never makes a closed account
\* active: the stale base, which an etag would refuse, is the only cause.
THEOREM FreshReplaceIsSafe == Spec => FreshReplaceNeverReopens
<1>1. ASSUME HandlersInv, [Next]_vars, NEW h \in Handlers, Replacing(h),
             seen[h] = Newest(container[target[h]]),
             Current(target[h]).status = "CLOSED"
      PROVE  container'[target[h]][seen[h] + 1].status = "CLOSED"
  <2> DEFINE n == target[h]
  <2>1. /\ n \in Numbers /\ seen[h] \in 1 .. Len(container[n])
        /\ seen[h] = Len(container[n]) /\ container[n][seen[h]].status = "CLOSED"
    BY <1>1, ReplacementIsDocument DEF Replacing, Current, Newest
  <2>2. PICK g \in Handlers : Inserts(g) \/ Replaces(g)
    BY <1>1, WritesAreInsertsOrReplaces DEF Replacing
  <2>3. g = h
    BY <1>1, <2>2, OneHandlerMoves DEF Replacing, Inserts, Replaces
  <2>4. Replaces(h)
    BY <1>1, <2>2, <2>3 DEF Replacing, Inserts
  <2>5. /\ container'[n][seen[h] + 1] = Merged(container[n][seen[h]], call[h], stamp[h])
        /\ container[n][seen[h]] \in Documents
    BY <1>1, <2>1, <2>4, ReplacedDocument
  <2>6. Merged(container[n][seen[h]], call[h], stamp[h]).status = "CLOSED"
    BY <2>1, <2>5 DEF Merged, ApplyClose, ApplyUpdate, Documents
  <2> QED  BY <2>5, <2>6
<1>2. HandlersInv /\ [Next]_vars =>
        [\A h \in Handlers :
           LET n == target[h]
           IN  Replacing(h) /\ seen[h] = Newest(container[n])
               /\ Current(n).status = "CLOSED"
               => container'[n][seen[h] + 1].status = "CLOSED"]_vars
  BY <1>1
<1> QED  BY <1>2, HandlersInvInit, HandlersInvStep, PTL
         DEF Spec, FreshReplaceNeverReopens

-----------------------------------------------------------------------------
(* What other components may rely on: the accounts as histories of owner   *)
(* and activity, whatever races there are.                                 *)

\* What StatementService reads of an account.
Ownership(doc) == [owner |-> doc.owner, active |-> ~doc.isDeleted]

OwnershipView ==
  [n \in Numbers |-> [i \in 1 .. Len(container[n]) |-> Ownership(container[n][i])]]

Accounts == [owner: Users, active: BOOLEAN]

Histories == INSTANCE DocumentHistory WITH
  Ids <- Numbers, First <- {doc \in Accounts : doc.active},
  Later <- {pair \in Accounts \X Accounts : pair[1].owner = pair[2].owner},
  history <- OwnershipView

\* A commit of a document is a commit of its ownership.
LEMMA OwnershipCommit ==
  ASSUME HandlersInv, NEW n \in Numbers,
         Len(container'[n]) = Len(container[n]) + 1,
         \A i \in 1 .. Len(container[n]) : container'[n][i] = container[n][i],
         \A m \in Numbers : m # n => container'[m] = container[m],
         NEW doc, container'[n][Len(container[n]) + 1] = doc
  PROVE  OwnershipView' = [OwnershipView EXCEPT ![n] = Append(@, Ownership(doc))]
<1> DEFINE k == Len(container[n])
           old == OwnershipView[n]
           new == OwnershipView'[n]
<1>1. k \in Nat
  BY DEF HandlersInv, TypeOK
<1>2. old = [i \in 1 .. k |-> Ownership(container[n][i])]
  BY DEF OwnershipView
<1>3. new = [i \in 1 .. k + 1 |-> Ownership(container'[n][i])]
  BY DEF OwnershipView, Ownership
<1>4. \A i \in 1 .. k : container'[n][i] = container[n][i]
  OBVIOUS
<1>5. container'[n][k + 1] = doc
  OBVIOUS
<1>6. \A m \in Numbers : m # n => OwnershipView'[m] = OwnershipView[m]
  BY DEF OwnershipView, Ownership
<1>7. /\ OwnershipView = [m \in Numbers |-> OwnershipView[m]]
      /\ OwnershipView' = [m \in Numbers |-> OwnershipView'[m]]
  BY DEF OwnershipView, Ownership
<1> HIDE DEF k, old, new
<1>8. new = Append(old, Ownership(doc))
  <2>1. Len(old) = k
    BY <1>1, <1>2
  <2>2. Append(old, Ownership(doc))
          = [i \in 1 .. k + 1 |-> IF i = k + 1 THEN Ownership(doc) ELSE old[i]]
    BY <1>1, <1>2, <2>1
  <2>3. \A i \in 1 .. k + 1 :
          Ownership(container'[n][i]) = IF i = k + 1 THEN Ownership(doc) ELSE old[i]
    BY <1>1, <1>2, <1>4, <1>5
  <2> QED  BY <1>3, <2>2, <2>3
<1> QED  BY <1>6, <1>7, <1>8 DEF old, new

LEMMA HistoryStep ==
  ASSUME HandlersInv, IdentityNeverChanges, [Next]_vars
  PROVE  [Histories!HistoryNext]_OwnershipView
<1>1. CASE UNCHANGED container
  BY <1>1 DEF OwnershipView, Ownership
<1>2. ASSUME NEW doc \in Documents PROVE Ownership(doc) \in Accounts
  BY DEF Ownership, Documents, Accounts
<1>3. ASSUME NEW h \in Handlers, Inserts(h) PROVE Histories!HistoryNext
  <2> DEFINE n == target[h]
             doc == NewAccount(n, call[h], stamp[h])
  <2>1. /\ n \in Numbers /\ call[h] \in CreateCall /\ stamp[h] \in Nat
        /\ Len(container[n]) = 0 /\ Len(container'[n]) = 1
        /\ container'[n][1] = doc
        /\ \A m \in Numbers : m # n => container'[m] = container[m]
    BY <1>3, InsertedDocument
  <2>2. doc \in Documents /\ Ownership(doc).active
    BY <2>1, NewAccountIsDocument DEF Ownership, NewAccount
  <2> HIDE DEF n, doc
  <2>3. OwnershipView' = [OwnershipView EXCEPT ![n] = Append(@, Ownership(doc))]
    <3>1. /\ Len(container'[n]) = Len(container[n]) + 1
          /\ container'[n][Len(container[n]) + 1] = doc
          /\ \A i \in 1 .. Len(container[n]) : container'[n][i] = container[n][i]
      BY <2>1
    <3> QED  BY <2>1, <3>1, OwnershipCommit
  <2>4. OwnershipView[n] = << >>
    BY <2>1 DEF OwnershipView
  <2>5. Ownership(doc) \in {d \in Accounts : d.active}
    BY <1>2, <2>2
  <2>6. Histories!Record(n, Ownership(doc))
    BY <2>3, <2>4, <2>5 DEF Histories!Record, Histories!MayFollow
  <2> QED  BY <2>1, <2>5, <2>6 DEF Histories!HistoryNext
<1>4. ASSUME NEW h \in Handlers, Replaces(h) PROVE Histories!HistoryNext
  <2> DEFINE n == target[h]
             k == Len(container[n])
             doc == Merged(container[n][seen[h]], call[h], stamp[h])
             first == container[n][1]
  <2>1. /\ n \in Numbers /\ call[h] \in WriteCall /\ stamp[h] \in Nat /\ k \in Nat
        /\ seen[h] \in 1 .. k /\ container[n][seen[h]] \in Documents
        /\ Len(container'[n]) = k + 1
        /\ container'[n][k + 1] = doc
        /\ \A i \in 1 .. k : container'[n][i] = container[n][i]
        /\ \A m \in Numbers : m # n => container'[m] = container[m]
    BY <1>4, ReplacedDocument
  <2>2. k >= 1 /\ first \in Documents
    <3>1. container[n] \in Seq(Documents)
      BY <2>1 DEF HandlersInv, TypeOK
    <3> QED  BY <2>1, <3>1
  <2>3. doc \in Documents
    BY <2>1, MergedIsDocument
  <2>4. doc.owner = first.owner
    <3>1. Identity(doc) = Identity(container[n][seen[h]])
      BY <2>1, MergeKeepsIdentity
    <3>2. Identity(container[n][seen[h]]) = Identity(first)
      BY <2>1 DEF IdentityNeverChanges, Versions, Newest
    <3> QED  BY <3>1, <3>2 DEF Identity
  <2> HIDE DEF n, doc
  <2>5. OwnershipView' = [OwnershipView EXCEPT ![n] = Append(@, Ownership(doc))]
    BY <2>1, OwnershipCommit
  <2>6. OwnershipView[n] # << >> /\ OwnershipView[n][1] = Ownership(first)
    BY <2>1, <2>2 DEF OwnershipView
  <2> HIDE DEF first
  <2>7. /\ Ownership(first) \in Accounts /\ Ownership(doc) \in Accounts
        /\ Ownership(first).owner = Ownership(doc).owner
    BY <1>2, <2>2, <2>3, <2>4 DEF Ownership
  <2> DEFINE L == {pair \in Accounts \X Accounts : pair[1].owner = pair[2].owner}
  <2>8. <<Ownership(first), Ownership(doc)>> \in L
    BY <2>7
  <2>9. Ownership(doc) \in {pair[2] : pair \in L}
    BY <2>8
  <2>10. Histories!Record(n, Ownership(doc))
    BY <2>5, <2>6, <2>8 DEF Histories!Record, Histories!MayFollow
  <2> QED  BY <2>1, <2>9, <2>10 DEF Histories!HistoryNext
<1> QED  BY <1>1, <1>3, <1>4, WritesAreInsertsOrReplaces

\* Whatever races and however stale the reads: to whoever reads the container an
\* account begins active and keeps its owner, and no version ever disappears.
THEOREM AccountsAreHistories == Spec => Histories!HistorySpec
<1>1. Init => Histories!HistoryInit
  BY DEF Init, Histories!HistoryInit, OwnershipView, EmptyHistory
<1>2. RepliesInv /\ [Next]_vars => [Histories!HistoryNext]_OwnershipView
  BY HistoryStep DEF RepliesInv
<1> QED  BY <1>1, <1>2, RepliesInvInit, RepliesInvStep, PTL
         DEF Spec, Histories!HistorySpec

\* With strongly consistent reads and without overlapping writes no account is
\* closed twice: close_account's check of the status is then up to date.
THEOREM SerialClosesOnce ==
  ASSUME MaxLag = 0
  PROVE  SerialSpec => NotClosedTwice
<1>1. ASSUME SerialInv, [SerialNext]_vars, NEW h \in Handlers, Replacing(h)
      PROVE  Current(target[h]).status # "CLOSED"
  BY <1>1 DEF Replacing, SerialInv, WritersAreCurrent, Current, Newest, Doc
<1>2. SerialInv /\ [Next /\ OneWriter']_vars
        => [\A h \in Handlers :
              Replacing(h) /\ call[h].op = "close" => Current(target[h]).status # "CLOSED"]_vars
  BY <1>1 DEF SerialNext
<1>3. SerialInv /\ MaxLag = 0 /\ [Next /\ OneWriter']_vars => SerialInv'
  BY SerialInvStep DEF SerialNext
<1> QED  BY <1>2, <1>3, SerialInvInit, PTL DEF SerialSpec, NotClosedTwice

-----------------------------------------------------------------------------
(* What the abstract ledger is worth: every entry is typed, and nothing of *)
(* a closed account ever changes.                                          *)

LEMMA LedgerKeepsPromise ==
  ASSUME Ledger!LedgerTypeOK, [Ledger!LedgerNext]_LedgerView
  PROVE  /\ Ledger!LedgerTypeOK'
         /\ \A n \in Numbers :
              LedgerView[n] \in Ledger!ClosedEntry \ {Null} => LedgerView'[n] = LedgerView[n]
<1> DEFINE view == LedgerView
           new == LedgerView'
           A == Ledger!ActiveEntry
           C == Ledger!ClosedEntry
<1>1. \A e \in A : e \notin C
  BY DEF Ledger!ActiveEntry, Ledger!ClosedEntry
<1>2. /\ view \in [Numbers -> A \cup C \cup {Null}]
      /\ Ledger!LedgerTypeOK' <=> new \in [Numbers -> A \cup C \cup {Null}]
  BY DEF Ledger!LedgerTypeOK, Ledger!ActiveEntry, Ledger!ClosedEntry
<1>3. SUFFICES /\ new \in [Numbers -> A \cup C \cup {Null}]
               /\ \A n \in Numbers : view[n] \in C \ {Null} => new[n] = view[n]
  BY <1>2
<1>4. CASE UNCHANGED LedgerView
  BY <1>2, <1>4
<1>5. ASSUME NEW n \in Numbers, NEW e \in A \cup C,
             view[n] = Null \/ view[n] \in A, new = [view EXCEPT ![n] = e]
      PROVE  /\ new \in [Numbers -> A \cup C \cup {Null}]
             /\ \A m \in Numbers : view[m] \in C \ {Null} => new[m] = view[m]
  <2> HIDE DEF view, new, A, C
  <2> QED  BY <1>1, <1>2, <1>5
<1>6. ASSUME NEW n \in Numbers, Ledger!Open(n)
      PROVE  \E e \in A \cup C : view[n] = Null /\ new = [view EXCEPT ![n] = e]
  BY <1>6 DEF Ledger!Open
<1>7. ASSUME NEW n \in Numbers, Ledger!Amend(n)
      PROVE  \E e \in A \cup C : view[n] \in A /\ new = [view EXCEPT ![n] = e]
  <2>1. PICK c \in Currencies : new = [view EXCEPT ![n] = Amended(view[n], c)]
    BY <1>7 DEF Ledger!Amend, Amended
  <2>2. view[n] \in A
    BY <1>7 DEF Ledger!Amend
  <2>3. Amended(view[n], c) \in A
    <3> DEFINE old == view[n]
    <3> HIDE DEF view
    <3> QED  BY <2>2 DEF Amended, Ledger!ActiveEntry
  <2> QED  BY <2>1, <2>2, <2>3
<1>8. ASSUME NEW n \in Numbers, Ledger!Close(n)
      PROVE  \E e \in A \cup C : view[n] \in A /\ new = [view EXCEPT ![n] = e]
  <2>1. PICK r \in Reasons : new = [view EXCEPT ![n] = ClosedAs(view[n], r)]
    BY <1>8 DEF Ledger!Close, ClosedAs
  <2>2. view[n] \in A
    BY <1>8 DEF Ledger!Close
  <2>3. ClosedAs(view[n], r) \in C
    <3> DEFINE old == view[n]
               half == [old EXCEPT !.status = "CLOSED"]
    <3>1. old \in A
      BY <2>2
    <3> HIDE DEF old
    <3>2. half \in [owner: Users, type: Types, balance: Deposits, currency: Currencies,
                    status: {"CLOSED"}, reason: {Null}]
      BY <3>1 DEF Ledger!ActiveEntry
    <3> HIDE DEF half
    <3>3. [half EXCEPT !.reason = r] \in C
      BY <3>2 DEF Ledger!ClosedEntry
    <3> QED  BY <3>3 DEF half, old, ClosedAs
  <2> QED  BY <2>1, <2>2, <2>3
<1> HIDE DEF view, new, A, C
<1>9. ASSUME Ledger!LedgerNext
      PROVE  \E n \in Numbers, e \in A \cup C :
               (view[n] = Null \/ view[n] \in A) /\ new = [view EXCEPT ![n] = e]
  BY <1>6, <1>7, <1>8, <1>9 DEF Ledger!LedgerNext
<1> QED  BY <1>4, <1>5, <1>9

\* Closing is final: with strongly consistent reads and without overlapping writes
\* nothing that is known of a closed account, its reason too, ever changes, and
\* every account is at any time either active without a reason or closed with one.
THEOREM SerialClosingIsFinal ==
  ASSUME MaxLag = 0
  PROVE  SerialSpec => Ledger!ClosedIsFinal /\ []Ledger!LedgerTypeOK
<1>1. Ledger!LedgerInit => Ledger!LedgerTypeOK
  BY DEF Ledger!LedgerInit, Ledger!LedgerTypeOK
<1>2. Ledger!LedgerTypeOK /\ [Ledger!LedgerNext]_LedgerView
        => /\ Ledger!LedgerTypeOK'
           /\ [\A n \in Numbers :
                 LedgerView[n] \in Ledger!ClosedEntry \ {Null}
                   => LedgerView'[n] = LedgerView[n]]_LedgerView
  BY LedgerKeepsPromise
<1> QED  BY <1>1, <1>2, SerialRefinesLedger, PTL
         DEF ImplementsLedger, Ledger!LedgerSpec, Ledger!ClosedIsFinal

=============================================================================
