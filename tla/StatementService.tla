-------------------------- MODULE StatementService --------------------------
(***************************************************************************)
(* The statement component: the route of api/statements.py and the service *)
(* of services/statement_service.py, which reads a profile and the         *)
(* accounts of its caller and hands a mail to an SMTP server.              *)
(*                                                                         *)
(* The two containers are written by the other components while a          *)
(* statement is being prepared.  WriteProfile and WriteAccount stand for   *)
(* everything they may do there: a profile may get or lose its e-mail      *)
(* address, an account keeps its owner, may be closed and, by overlapping  *)
(* writes, reopened (StatementServiceProofs, The environment).             *)
(***************************************************************************)
EXTENDS VersionedContainer, Integers

CONSTANTS
  Handlers,     \* slots for requests being served at the same time
  Users,        \* JWT subjects
  Numbers,      \* account numbers
  Emails,       \* e-mail addresses
  LastDay,      \* the last day of the calendar (date.max); the first is 0
  Period,       \* _DEFAULT_PERIOD_DAYS
  Dates,        \* the days requests name
  Todays,       \* the days datetime.now() may show
  Null,         \* the absence of a value (Python's None)
  MaxRequests,  \* bound: how many requests are accepted in all
  MaxWrites     \* bound: how many writes the other components make

Days == 0 .. LastDay

ASSUME StatementAssumption ==
  /\ LastDay \in Nat /\ Period \in Nat
  /\ Dates \subseteq Days /\ Todays \subseteq Days
  /\ MaxRequests \in Nat /\ MaxWrites \in Nat
  /\ Null \notin Days \cup Emails

VARIABLES
  profiles,     \* for every user the versions of the profile's e-mail address
  accounts,     \* for every number the versions of its owner and activity
  writes,       \* the number of writes of the other components so far
  mails,        \* the mails the SMTP server has taken over, in order
  accepted,     \* the number of requests accepted so far
  pc,           \* what each handler will do next
  call,         \* the request each handler serves or served last
  id,           \* the number of that request
  period,       \* the period the handler resolved
  recipient,    \* the address it resolved
  scanned,      \* the <<number, version>> pairs its query has visited
  since,        \* history variable: the newest versions when it was accepted
  reply         \* the answer to the last request of each handler

vars == <<profiles, accounts, writes, mails, accepted, pc, call, id,
          period, recipient, scanned, since, reply>>

-----------------------------------------------------------------------------
(* Requests, periods and mails.                                            *)

Calls == [caller: Users, email: Emails \cup {Null},
          start: Dates \cup {Null}, end: Dates \cup {Null}]

NoCall == [caller |-> Null]

Periods == [start: Days, end: Days]
NoPeriod == [start |-> 0, end |-> 0]

Accounts == [owner: Users, active: BOOLEAN]

\* Mutant: an end date alone is taken for the start of the period.
BoundsFromEnd(c, today) ==
  CASE c.start = Null /\ c.end = Null -> <<today - Period, today>>
    [] c.start # Null /\ c.end = Null -> <<c.start, c.start + Period>>
    [] c.start = Null /\ c.end # Null -> <<c.end, c.end + Period>>
    [] OTHER -> <<c.start, c.end>>

\* The dates _resolve_date_range computes; they may lie outside the calendar.
Bounds(c, today) ==
  CASE c.start = Null /\ c.end = Null -> <<today - Period, today>>
    [] c.start # Null /\ c.end = Null -> <<c.start, c.start + Period>>
    [] c.start = Null /\ c.end # Null -> <<c.end - Period, c.end>>
    [] OTHER -> <<c.start, c.end>>

\* Mutant: the arithmetic on dates leaves the calendar unnoticed.
RangeStatusUnchecked(c, today) ==
  IF Bounds(c, today)[1] > Bounds(c, today)[2] THEN 400 ELSE 200

\* The outcome of _resolve_date_range: a day outside the calendar is an
\* OverflowError, which reaches the client as 500; a start after the end is a
\* ValidationException, 400.
RangeStatus(c, today) ==
  LET b == Bounds(c, today)
  IN  IF b[1] \notin Days \/ b[2] \notin Days THEN 500
      ELSE IF b[1] > b[2] THEN 400
      ELSE 200

ResolvedPeriod(c, today) ==
  [start |-> Bounds(c, today)[1], end |-> Bounds(c, today)[2]]

Mails == [id: Nat, owner: Users, to: Emails, period: Periods,
          rows: SUBSET (Numbers \X Nat)]

Nowhere == [profile |-> 0, accounts |-> [n \in Numbers |-> 0]]

NoReply == [status |-> 0, to |-> Null, period |-> NoPeriod]
Statuses == {0, 200, 400, 500}

-----------------------------------------------------------------------------
(* Helpers of the actions.                                                 *)

\* The address in a version of a user's profile, Null if there is none.
EmailAt(u, i) == IF i = 0 THEN Null ELSE profiles[u][i]

\* The response of the route, after which the handler forgets its request and
\* its local variables.
Respond(h, status, to, p) ==
  /\ pc' = [pc EXCEPT ![h] = "idle"]
  /\ reply' = [reply EXCEPT ![h] = [status |-> status, to |-> to, period |-> p]]
  /\ call' = [call EXCEPT ![h] = NoCall]
  /\ period' = [period EXCEPT ![h] = NoPeriod]
  /\ recipient' = [recipient EXCEPT ![h] = Null]
  /\ scanned' = [scanned EXCEPT ![h] = {}]
  /\ since' = [since EXCEPT ![h] = Nowhere]

Refuse(h, status) == Respond(h, status, Null, NoPeriod)

\* Mutant: include_closed is passed the wrong way round.
SelectsClosedToo(u, doc) == doc.owner = u

\* Whether list_by_owner(owner_id, include_closed=False) selects an account.
Selects(u, doc) == doc.owner = u /\ doc.active

Rows(h) ==
  {row \in scanned[h] :
     row[2] # 0 /\ Selects(call[h].caller, accounts[row[1]][row[2]])}

\* The query has delivered its last page.
ScanComplete(h) == \A n \in Numbers : \E row \in scanned[h] : row[1] = n

-----------------------------------------------------------------------------
(* Actions.                                                                *)

Init ==
  /\ profiles = [u \in Users |-> EmptyHistory]
  /\ accounts = [n \in Numbers |-> EmptyHistory]
  /\ writes = 0
  /\ mails = << >>
  /\ accepted = 0
  /\ pc = [h \in Handlers |-> "idle"]
  /\ call = [h \in Handlers |-> NoCall]
  /\ id = [h \in Handlers |-> 0]
  /\ period = [h \in Handlers |-> NoPeriod]
  /\ recipient = [h \in Handlers |-> Null]
  /\ scanned = [h \in Handlers |-> {}]
  /\ since = [h \in Handlers |-> Nowhere]
  /\ reply = [h \in Handlers |-> NoReply]

\* A write of the profile component: the document may or may not have an
\* e-mail address.
WriteProfile(u, email) ==
  /\ writes < MaxWrites
  /\ writes' = writes + 1
  /\ profiles' = Commit(profiles, u, email)
  /\ UNCHANGED <<accounts, mails, accepted, pc, call, id, period,
                 recipient, scanned, since, reply>>

\* A write of the account component: a new account is active, a later version
\* has the same owner.
WriteAccount(n, doc) ==
  /\ writes < MaxWrites
  /\ IF accounts[n] = EmptyHistory THEN doc.active ELSE doc.owner = accounts[n][1].owner
  /\ writes' = writes + 1
  /\ accounts' = Commit(accounts, n, doc)
  /\ UNCHANGED <<profiles, mails, accepted, pc, call, id, period,
                 recipient, scanned, since, reply>>

\* A request is accepted and its period resolved before the first await.  An
\* address in the request is taken as it is; otherwise the profile is read.
Accept(h, c, today) ==
  /\ pc[h] = "idle" /\ accepted < MaxRequests
  /\ RangeStatus(c, today) = 200
  /\ accepted' = accepted + 1
  /\ pc' = [pc EXCEPT ![h] = IF c.email = Null THEN "recipient" ELSE "scan"]
  /\ call' = [call EXCEPT ![h] = c]
  /\ id' = [id EXCEPT ![h] = accepted + 1]
  /\ period' = [period EXCEPT ![h] = ResolvedPeriod(c, today)]
  /\ recipient' = [recipient EXCEPT ![h] = c.email]
  /\ since' = [since EXCEPT ![h] =
                 [profile |-> Newest(profiles[c.caller]),
                  accounts |-> [n \in Numbers |-> Newest(accounts[n])]]]
  /\ reply' = [reply EXCEPT ![h] = NoReply]
  /\ UNCHANGED <<profiles, accounts, writes, mails, scanned>>

\* The dates of a request are refused before anything is read.
RefuseDates(h, c, today) ==
  /\ pc[h] = "idle" /\ accepted < MaxRequests
  /\ RangeStatus(c, today) # 200
  /\ accepted' = accepted + 1
  /\ call' = [call EXCEPT ![h] = c]
  /\ id' = [id EXCEPT ![h] = accepted + 1]
  /\ reply' = [reply EXCEPT ![h] = [NoReply EXCEPT !.status = RangeStatus(c, today)]]
  /\ UNCHANGED <<profiles, accounts, writes, mails, pc, period, recipient,
                 scanned, since>>

\* Mutant: the address of any user's profile is taken.
ReadSomeRecipient(h) ==
  /\ pc[h] = "recipient"
  /\ \E u \in Users, i \in 0 .. MaxWrites :
       /\ i \in Visible(profiles[u]) /\ EmailAt(u, i) # Null
       /\ recipient' = [recipient EXCEPT ![h] = EmailAt(u, i)]
  /\ pc' = [pc EXCEPT ![h] = "scan"]
  /\ UNCHANGED <<profiles, accounts, writes, mails, accepted, call, id,
                 period, scanned, since, reply>>

\* _resolve_recipient reads the caller's profile; without an address there the
\* request is answered 400.
ReadRecipient(h) ==
  /\ pc[h] = "recipient"
  /\ \E i \in Visible(profiles[call[h].caller]) :
       LET email == EmailAt(call[h].caller, i)
       IN  IF email = Null
           THEN Refuse(h, 400)
           ELSE /\ recipient' = [recipient EXCEPT ![h] = email]
                /\ pc' = [pc EXCEPT ![h] = "scan"]
                /\ UNCHANGED <<call, period, scanned, since, reply>>
  /\ UNCHANGED <<profiles, accounts, writes, mails, accepted, id>>

\* The query of _build_statement_payload reaches one more account.
ScanPartition(h, n) ==
  /\ pc[h] = "scan"
  /\ \A row \in scanned[h] : row[1] # n
  /\ \E i \in Visible(accounts[n]) :
       scanned' = [scanned EXCEPT ![h] = @ \cup {<<n, i>>}]
  /\ UNCHANGED <<profiles, accounts, writes, mails, accepted, pc, call,
                 id, period, recipient, since, reply>>

\* _load_smtp_config finds a variable missing or malformed: 400.  Replicas of
\* different revisions, with different environments, may serve the requests.
RefuseUnconfigured(h) ==
  /\ pc[h] = "scan" /\ ScanComplete(h)
  /\ Refuse(h, 400)
  /\ UNCHANGED <<profiles, accounts, writes, mails, accepted, id>>

\* The mail handler h composes.
Mail(h) ==
  [id |-> id[h], owner |-> call[h].caller, to |-> recipient[h],
   period |-> period[h], rows |-> Rows(h)]

\* Mutant: the answer does not depend on what the server said.
SendAndHope(h) ==
  /\ pc[h] = "scan" /\ ScanComplete(h)
  /\ mails' \in {mails, Append(mails, Mail(h))}
  /\ Respond(h, 200, recipient[h], period[h])
  /\ UNCHANGED <<profiles, accounts, writes, accepted, id>>

\* Mutant: a dialogue that fails is tried again, whatever the server has done.
SendUntilAnswered(h) ==
  /\ pc[h] = "scan" /\ ScanComplete(h) /\ Len(mails) < MaxRequests
  /\ mails' = Append(mails, Mail(h))
  /\ \/ Respond(h, 200, recipient[h], period[h])
     \/ UNCHANGED <<pc, call, period, recipient, scanned, since, reply>>
  /\ UNCHANGED <<profiles, accounts, writes, accepted, id>>

\* The SMTP dialogue, during which the event loop of the replica stands still.
\* It fails before the server takes the mail over, or after it: the server's
\* answer to the text is lost, it answers QUIT with an error, or the replica
\* stops before the client has its answer.
SendEmail(h) ==
  /\ pc[h] = "scan" /\ ScanComplete(h)
  /\ \/ /\ mails' = Append(mails, Mail(h))
        /\ Respond(h, 200, recipient[h], period[h]) \/ Refuse(h, 500)
     \/ /\ Refuse(h, 500)
        /\ UNCHANGED mails
  /\ UNCHANGED <<profiles, accounts, writes, accepted, id>>

\* A Cosmos call fails, or the replica stops.
FailRequest(h) ==
  /\ pc[h] \in {"recipient", "scan"}
  /\ Refuse(h, 500)
  /\ UNCHANGED <<profiles, accounts, writes, mails, accepted, id>>

\* Everything the bounds allow has happened.
Quiescent ==
  /\ accepted = MaxRequests /\ writes = MaxWrites
  /\ \A h \in Handlers : pc[h] = "idle"
  /\ UNCHANGED vars

HandlerStep(h) ==
  \/ ReadRecipient(h)
  \/ \E n \in Numbers : ScanPartition(h, n)
  \/ RefuseUnconfigured(h) \/ SendEmail(h)
  \/ FailRequest(h)

Next ==
  \/ \E u \in Users, email \in Emails \cup {Null} : WriteProfile(u, email)
  \/ \E n \in Numbers, doc \in Accounts : WriteAccount(n, doc)
  \/ \E h \in Handlers :
       \/ \E c \in Calls, today \in Todays :
            Accept(h, c, today) \/ RefuseDates(h, c, today)
       \/ HandlerStep(h)
  \/ Quiescent

Spec == Init /\ [][Next]_vars

-----------------------------------------------------------------------------
(* Properties.                                                             *)

\* Every variable holds values of the kind its code counterpart holds.
TypeOK ==
  /\ profiles \in [Users -> Seq(Emails \cup {Null})]
  /\ accounts \in [Numbers -> Seq(Accounts)]
  /\ writes \in 0 .. MaxWrites /\ accepted \in 0 .. MaxRequests
  /\ mails \in Seq(Mails)
  /\ pc \in [Handlers -> {"idle", "recipient", "scan"}]
  /\ call \in [Handlers -> Calls \cup {NoCall}]
  /\ id \in [Handlers -> Nat]
  /\ period \in [Handlers -> Periods]
  /\ recipient \in [Handlers -> Emails \cup {Null}]
  /\ scanned \in [Handlers -> SUBSET (Numbers \X Nat)]
  /\ since \in [Handlers -> [profile: Nat, accounts: [Numbers -> Nat]]]
  /\ reply \in [Handlers -> [status: Statuses, to: Emails \cup {Null}, period: Periods]]

\* What a request for a statement means: the periods within the calendar that
\* have the bounds it names and, if it names one or none, the default length.
Meant(c, today) ==
  {p \in Periods :
     /\ p.start <= p.end
     /\ c.start # Null => p.start = c.start
     /\ c.end # Null => p.end = c.end
     /\ c.start = Null \/ c.end = Null => p.end - p.start = Period
     /\ c.start = Null /\ c.end = Null => p.end = today}

\* A statement reports the one period its request means, and a request is turned
\* away for its dates only if it means none: not even next to the ends of the
\* calendar does the arithmetic of _resolve_date_range wrap or slip.
PeriodsAreMeant ==
  [][\A h \in Handlers :
       id'[h] # id[h] =>
         \E today \in Todays :
           Meant(call'[h], today) = IF pc'[h] = "idle" THEN {} ELSE {period'[h]}]_vars

\* In this step handler h hands over a mail.
Sends(h) == mails' # mails /\ pc[h] = "scan" /\ pc'[h] = "idle"

\* A mail goes to the address its request names or to one that was in the
\* caller's own profile while the request was served or at most MaxLag versions
\* before, although the profile may change after it is read.
RecipientWasCurrent ==
  [][\A h \in Handlers :
       Sends(h) =>
         LET mail == mails'[Len(mails')]
             u == call[h].caller
         IN  IF call[h].email # Null THEN mail.to = call[h].email
             ELSE \E i \in 1 .. Newest(profiles[u]) :
                    since[h].profile <= i + MaxLag /\ mail.to = profiles[u][i]]_vars

\* Whether version i of an account is an active account of user u.
ActiveAccount(u, n, i) ==
  i # 0 /\ accounts[n][i] = [owner |-> u, active |-> TRUE]

\* The versions of an account the query of handler h may have seen.
Seeable(h, n) ==
  {i \in 0 .. Newest(accounts[n]) : since[h].accounts[n] <= i + MaxLag}

\* A mail counts only accounts its owner had active, in a version no older than
\* the start of the request or MaxLag before it; and it misses no account that
\* was the owner's and active in all versions the query could have seen.
StatementCoversActive ==
  [][\A h \in Handlers, n \in Numbers :
       Sends(h) =>
         LET rows == mails'[Len(mails')].rows
             u == call[h].caller
         IN  /\ \A row \in rows :
                  row[1] = n => row[2] \in Seeable(h, n) /\ ActiveAccount(u, n, row[2])
             /\ (\A i \in Seeable(h, n) : ActiveAccount(u, n, i))
                  => \E row \in rows : row[1] = n]_vars

\* The mails sent for the last request of a handler.
MailsOf(h) == {i \in 1 .. Len(mails) : mails[i].id = id[h]}

\* An answer 200 means that one mail with the recipient and the period of the
\* answer has been handed over, 400 that none has; and no request, whatever the
\* failures, sends two.
AnswerAgreesWithMail ==
  \A h \in Handlers :
    /\ \A i, j \in MailsOf(h) : i = j
    /\ reply[h].status = 200 =>
         \E i \in MailsOf(h) : mails[i].to = reply[h].to /\ mails[i].period = reply[h].period
    /\ reply[h].status = 400 => MailsOf(h) = {}

\* No mail has been sent for a request that was answered 500: the service raises
\* its exception "If SMTP delivery fails." and the page that requests statements
\* then says "Failed to send statement. Please try again."
FailedMeansUnsent ==
  \A h \in Handlers : reply[h].status = 500 => MailsOf(h) = {}

-----------------------------------------------------------------------------
(* Refinement.                                                             *)

ASSUME RequestAssumption ==
  Null \notin [id: 1 .. MaxRequests, owner: Users, named: Emails \cup {Null}]

OutboxView ==
  [i \in 1 .. Len(mails) |->
     [id |-> mails[i].id, owner |-> mails[i].owner, to |-> mails[i].to]]

AwaitingView ==
  [h \in Handlers |-> IF pc[h] = "idle" THEN Null
                      ELSE [id |-> id[h], owner |-> call[h].caller, named |-> call[h].email]]

Told(status) ==
  CASE status = 200 -> "sent" [] status = 400 -> "refused"
    [] status = 500 -> "failed" [] OTHER -> "none"

OutcomeView == [h \in Handlers |-> Told(reply[h].status)]

Box == INSTANCE Mailbox WITH
  Clients <- Handlers, Ids <- 1 .. MaxRequests, Owners <- Users,
  outbox <- OutboxView, awaiting <- AwaitingView, outcome <- OutcomeView

\* However the dialogue with the SMTP server fails and whatever is written to the
\* containers meanwhile, a request is mailed at most once, in the step that answers
\* it, and to the address it names.
ImplementsMailbox == Box!MailboxSpec

=============================================================================
