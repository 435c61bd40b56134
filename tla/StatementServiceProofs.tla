----------------------- MODULE StatementServiceProofs -----------------------
(***************************************************************************)
(* Theorems about StatementService for every value of its constants.       *)
(*                                                                         *)
(* First the pure part: _resolve_date_range computes the period a request  *)
(* means.  The other theorems rest on HandlersInv, which says what the     *)
(* step a handler is at knows of its request and of what it has read; the  *)
(* last one adds MailInv, which relates mails to the requests and answers. *)
(***************************************************************************)
EXTENDS StatementService, TLAPS

-----------------------------------------------------------------------------
(* The period.                                                             *)

\* The bounds as numbers, one case per combination of given dates.
LEMMA BoundsCases ==
  ASSUME NEW c, c.start \in Days \cup {Null}, c.end \in Days \cup {Null},
         NEW today \in Days
  PROVE  /\ Bounds(c, today)[1] \in Int /\ Bounds(c, today)[2] \in Int
         /\ c.start # Null => c.start \in Days /\ Bounds(c, today)[1] = c.start
         /\ c.end # Null => c.end \in Days /\ Bounds(c, today)[2] = c.end
         /\ c.start = Null \/ c.end = Null
              => Bounds(c, today)[2] - Bounds(c, today)[1] = Period
         /\ c.start = Null /\ c.end = Null => Bounds(c, today)[2] = today
  BY StatementAssumption DEF Bounds, Days

\* _resolve_date_range answers with the one period a request means, and refuses
\* a request only if it means none, up to the ends of the calendar.
THEOREM PeriodResolution ==
  ASSUME NEW c, c.start \in Days \cup {Null}, c.end \in Days \cup {Null},
         NEW today \in Days
  PROVE  Meant(c, today) = IF RangeStatus(c, today) = 200
                           THEN {ResolvedPeriod(c, today)} ELSE {}
<1> DEFINE b == Bounds(c, today)
<1>1. /\ b[1] \in Int /\ b[2] \in Int
      /\ c.start # Null => c.start \in Days /\ b[1] = c.start
      /\ c.end # Null => c.end \in Days /\ b[2] = c.end
      /\ c.start = Null \/ c.end = Null => b[2] - b[1] = Period
      /\ c.start = Null /\ c.end = Null => b[2] = today
  BY BoundsCases
<1>2. RangeStatus(c, today) = 200 <=> b[1] \in Days /\ b[2] \in Days /\ b[1] <= b[2]
  BY <1>1 DEF RangeStatus, Days
<1>3. ASSUME NEW p \in Meant(c, today) PROVE p.start = b[1] /\ p.end = b[2]
  <2>1. /\ p.start \in Int /\ p.end \in Int
        /\ c.start # Null => p.start = c.start
        /\ c.end # Null => p.end = c.end
        /\ c.start = Null \/ c.end = Null => p.end - p.start = Period
        /\ c.start = Null /\ c.end = Null => p.end = today
    BY StatementAssumption DEF Meant, Periods, Days
  <2> HIDE DEF b
  <2> QED  BY <1>1, <2>1, StatementAssumption
<1>4. ASSUME NEW p \in Meant(c, today)
      PROVE  p = ResolvedPeriod(c, today) /\ RangeStatus(c, today) = 200
  <2>1. p \in Periods /\ p.start <= p.end
    BY DEF Meant
  <2> QED  BY <1>2, <1>3, <2>1 DEF Periods, ResolvedPeriod
<1>5. ASSUME RangeStatus(c, today) = 200
      PROVE  ResolvedPeriod(c, today) \in Meant(c, today)
  <2> DEFINE p == ResolvedPeriod(c, today)
  <2>1. p \in Periods /\ p.start = b[1] /\ p.end = b[2] /\ p.start <= p.end
    BY <1>2, <1>5 DEF ResolvedPeriod, Periods
  <2> HIDE DEF b, p
  <2>2. p \in Meant(c, today)
    BY <1>1, <2>1 DEF Meant
  <2> QED  BY <2>2 DEF p
<1> QED  BY <1>4, <1>5

\* A period that is not refused lies within the calendar.
LEMMA ResolvedPeriodIsPeriod ==
  ASSUME NEW c \in Calls, NEW today \in Todays, RangeStatus(c, today) = 200
  PROVE  ResolvedPeriod(c, today) \in Periods
  BY DEF RangeStatus, ResolvedPeriod, Periods

\* Every request that may arrive names days of the calendar.
LEMMA CallFields ==
  ASSUME NEW c \in Calls
  PROVE  /\ c.caller \in Users /\ c.email \in Emails \cup {Null}
         /\ c.start \in Days \cup {Null} /\ c.end \in Days \cup {Null}
  BY StatementAssumption DEF Calls

\* RangeStatus is a status.
LEMMA RangeStatusIsStatus ==
  ASSUME NEW c, NEW today
  PROVE  RangeStatus(c, today) \in {200, 400, 500}
  BY DEF RangeStatus

-----------------------------------------------------------------------------
(* The handlers.                                                           *)

\* The address handler h works with is the one its request names, or one of its
\* caller's profile that is not too old.
RecipientOK(h) ==
  IF call[h].email # Null THEN recipient[h] = call[h].email
  ELSE \E i \in 1 .. Newest(profiles[call[h].caller]) :
         /\ since[h].profile <= i + MaxLag
         /\ recipient[h] = profiles[call[h].caller][i]

\* What a handler that serves a request knows.
HandlerOK(h) ==
  IF pc[h] = "idle" THEN scanned[h] = {} ELSE
    /\ call[h] \in Calls
    /\ since[h].profile <= Newest(profiles[call[h].caller])
    /\ \A n \in Numbers : since[h].accounts[n] <= Newest(accounts[n])
    /\ \A row \in scanned[h] : row[2] \in Seeable(h, row[1])
    /\ pc[h] = "recipient" => call[h].email = Null
    /\ pc[h] = "scan" => recipient[h] \in Emails /\ RecipientOK(h)

HandlersInv == TypeOK /\ \A h \in Handlers : HandlerOK(h)

LEMMA HandlersInvInit == Init => HandlersInv
  BY StatementAssumption
  DEF Init, HandlersInv, HandlerOK, TypeOK, EmptyHistory, NoReply, Statuses, NoPeriod,
      Periods, Days, Nowhere

\* A response keeps HandlersInv, whether or not a mail was handed over.
LEMMA RespondKeepsInv ==
  ASSUME HandlersInv, NEW h \in Handlers, NEW status \in Statuses,
         NEW to \in Emails \cup {Null}, NEW p \in Periods,
         Respond(h, status, to, p), mails' \in Seq(Mails),
         UNCHANGED <<profiles, accounts, writes, accepted, id>>
  PROVE  HandlersInv'
<1>a. /\ NoPeriod \in Periods
      /\ Nowhere \in [profile: Nat, accounts: [Numbers -> Nat]]
  BY StatementAssumption DEF NoPeriod, Periods, Days, Nowhere
<1>b. [status |-> status, to |-> to, period |-> p]
        \in [status: Statuses, to: Emails \cup {Null}, period: Periods]
  OBVIOUS
<1>1. TypeOK'
  <2>1. /\ pc' \in [Handlers -> {"idle", "recipient", "scan"}]
        /\ call' \in [Handlers -> Calls \cup {NoCall}]
        /\ period' \in [Handlers -> Periods]
        /\ recipient' \in [Handlers -> Emails \cup {Null}]
    BY <1>a DEF HandlersInv, TypeOK, Respond
  <2>2. scanned' \in [Handlers -> SUBSET (Numbers \X Nat)]
    BY DEF HandlersInv, TypeOK, Respond
  <2>3. since' \in [Handlers -> [profile: Nat, accounts: [Numbers -> Nat]]]
    BY <1>a DEF HandlersInv, TypeOK, Respond
  <2>4. reply' \in [Handlers -> [status: Statuses, to: Emails \cup {Null},
                                period: Periods]]
    BY <1>b DEF HandlersInv, TypeOK, Respond
  <2> QED  BY <2>1, <2>2, <2>3, <2>4 DEF HandlersInv, TypeOK
<1>2. ASSUME NEW g \in Handlers PROVE HandlerOK(g)'
  <2>1. CASE g = h
    BY <2>1 DEF HandlerOK, HandlersInv, TypeOK, Respond
  <2>2. CASE g # h
    BY <2>2 DEF HandlerOK, HandlersInv, TypeOK, Respond, RecipientOK, Seeable
  <2> QED  BY <2>1, <2>2
<1> QED  BY <1>1, <1>2 DEF HandlersInv

LEMMA RefuseKeepsInv ==
  ASSUME HandlersInv, NEW h \in Handlers, NEW status \in Statuses,
         Refuse(h, status), mails' \in Seq(Mails),
         UNCHANGED <<profiles, accounts, writes, accepted, id>>
  PROVE  HandlersInv'
<1>1. NoPeriod \in Periods
  BY StatementAssumption DEF NoPeriod, Periods, Days
<1> QED  BY <1>1, RespondKeepsInv DEF Refuse

\* What a handler at "scan" may put into a mail.
LEMMA MailIsMail ==
  ASSUME HandlersInv, NEW h \in Handlers, pc[h] = "scan"
  PROVE  Mail(h) \in Mails /\ recipient[h] \in Emails /\ period[h] \in Periods
<1>1. /\ id[h] \in Nat /\ call[h] \in Calls /\ recipient[h] \in Emails
      /\ period[h] \in Periods /\ scanned[h] \in SUBSET (Numbers \X Nat)
  BY DEF HandlersInv, HandlerOK, TypeOK
<1>2. call[h].caller \in Users
  BY <1>1, CallFields
<1>3. Rows(h) \in SUBSET (Numbers \X Nat)
  BY <1>1 DEF Rows
<1> QED  BY <1>1, <1>2, <1>3 DEF Mail, Mails

\* A write of another component appends a version and keeps HandlersInv.
LEMMA WriteProfileKeepsInv ==
  ASSUME HandlersInv, NEW u \in Users, NEW email \in Emails \cup {Null},
         WriteProfile(u, email)
  PROVE  HandlersInv'
<1>1. /\ profiles \in [Users -> Seq(Emails \cup {Null})]
      /\ profiles[u] \in Seq(Emails \cup {Null})
      /\ profiles' = [profiles EXCEPT ![u] = Append(@, email)]
      /\ UNCHANGED <<accounts, mails, accepted, pc, call, id, period, recipient,
                     scanned, since, reply>>
  BY DEF HandlersInv, TypeOK, WriteProfile, Commit
<1>2. profiles' \in [Users -> Seq(Emails \cup {Null})]
  BY <1>1
<1>3. TypeOK'
  BY <1>1, <1>2, StatementAssumption DEF HandlersInv, TypeOK, WriteProfile
<1>4. ASSUME NEW v \in Users
      PROVE  /\ Newest(profiles[v]) \in Nat /\ Newest(profiles'[v]) \in Nat
             /\ Newest(profiles[v]) <= Newest(profiles'[v])
             /\ \A i \in 1 .. Newest(profiles[v]) : profiles'[v][i] = profiles[v][i]
  <2>1. CASE v = u
    BY <1>1, <2>1 DEF Newest
  <2>2. CASE v # u
    BY <1>1, <2>2 DEF Newest
  <2> QED  BY <2>1, <2>2
<1>5. ASSUME NEW h \in Handlers PROVE HandlerOK(h)'
  <2> SUFFICES ASSUME pc[h] # "idle" PROVE HandlerOK(h)'
    BY <1>1 DEF HandlerOK, HandlersInv
  <2>1. HandlerOK(h) /\ call[h].caller \in Users /\ since[h].profile \in Nat
    BY CallFields DEF HandlersInv, HandlerOK, TypeOK
  <2>2. RecipientOK(h) => RecipientOK(h)'
    <3>1. PICK v \in Users : v = call[h].caller
      BY <2>1
    <3>2. /\ Newest(profiles[v]) \in Nat /\ Newest(profiles'[v]) \in Nat
          /\ Newest(profiles[v]) <= Newest(profiles'[v])
          /\ \A i \in 1 .. Newest(profiles[v]) : profiles'[v][i] = profiles[v][i]
      BY <1>4
    <3>3. 1 .. Newest(profiles[v]) \subseteq 1 .. Newest(profiles'[v])
      BY <3>2
    <3> QED  BY <1>1, <3>1, <3>2, <3>3 DEF RecipientOK, Newest
  <2>3. \A n \in Numbers : Seeable(h, n)' = Seeable(h, n)
    BY <1>1 DEF Seeable
  <2>4. since[h].profile <= Newest(profiles'[call[h].caller])
    BY <1>4, <2>1 DEF HandlerOK
  <2>5. \A row \in scanned[h] : row[1] \in Numbers
    BY DEF HandlersInv, TypeOK
  <2> QED  BY <1>1, <2>1, <2>2, <2>3, <2>4, <2>5 DEF HandlerOK
<1> QED  BY <1>3, <1>5 DEF HandlersInv

LEMMA WriteAccountKeepsInv ==
  ASSUME HandlersInv, NEW n \in Numbers, NEW doc \in Accounts, WriteAccount(n, doc)
  PROVE  HandlersInv'
<1>1. /\ accounts \in [Numbers -> Seq(Accounts)] /\ accounts[n] \in Seq(Accounts)
      /\ accounts' = [accounts EXCEPT ![n] = Append(@, doc)]
      /\ UNCHANGED <<profiles, mails, accepted, pc, call, id, period, recipient,
                     scanned, since, reply>>
  BY DEF HandlersInv, TypeOK, WriteAccount, Commit
<1>2. accounts' \in [Numbers -> Seq(Accounts)]
  BY <1>1
<1>3. TypeOK'
  BY <1>1, <1>2, StatementAssumption DEF HandlersInv, TypeOK, WriteAccount
<1>4. ASSUME NEW m \in Numbers
      PROVE  /\ Newest(accounts[m]) \in Nat /\ Newest(accounts'[m]) \in Nat
             /\ Newest(accounts[m]) <= Newest(accounts'[m])
  <2>1. CASE m = n
    BY <1>1, <2>1 DEF Newest
  <2>2. CASE m # n
    BY <1>1, <2>2 DEF Newest
  <2> QED  BY <2>1, <2>2
<1>5. ASSUME NEW h \in Handlers PROVE HandlerOK(h)'
  <2> SUFFICES ASSUME pc[h] # "idle" PROVE HandlerOK(h)'
    BY <1>1 DEF HandlerOK, HandlersInv
  <2>1. HandlerOK(h) /\ \A m \in Numbers : since[h].accounts[m] \in Nat
    BY DEF HandlersInv, TypeOK
  <2>2. RecipientOK(h) => RecipientOK(h)'
    BY <1>1 DEF RecipientOK
  <2>3. \A m \in Numbers : Seeable(h, m) \subseteq Seeable(h, m)'
    BY <1>1, <1>4 DEF Seeable
  <2>4. \A m \in Numbers : since[h].accounts[m] <= Newest(accounts'[m])
    BY <1>4, <2>1 DEF HandlerOK
  <2>5. \A row \in scanned[h] : row[1] \in Numbers
    BY DEF HandlersInv, TypeOK
  <2> QED  BY <1>1, <2>1, <2>2, <2>3, <2>4, <2>5 DEF HandlerOK
<1> QED  BY <1>3, <1>5 DEF HandlersInv

LEMMA AcceptKeepsInv ==
  ASSUME HandlersInv, NEW h \in Handlers, NEW c \in Calls, NEW today \in Todays,
         Accept(h, c, today)
  PROVE  HandlersInv'
<1> DEFINE s == [profile |-> Newest(profiles[c.caller]),
                 accounts |-> [n \in Numbers |-> Newest(accounts[n])]]
           p == ResolvedPeriod(c, today)
<1>1. p \in Periods
  BY ResolvedPeriodIsPeriod DEF Accept
<1>2. c.caller \in Users /\ c.email \in Emails \cup {Null}
  BY CallFields
<1>3. s \in [profile: Nat, accounts: [Numbers -> Nat]]
  BY <1>2 DEF HandlersInv, TypeOK, Newest
<1>4. NoReply \in [status: Statuses, to: Emails \cup {Null}, period: Periods]
  BY StatementAssumption DEF NoReply, Statuses, NoPeriod, Periods, Days
<1> HIDE DEF s, p
<1>5. /\ pc' = [pc EXCEPT ![h] = IF c.email = Null THEN "recipient" ELSE "scan"]
      /\ call' = [call EXCEPT ![h] = c] /\ id' = [id EXCEPT ![h] = accepted + 1]
      /\ period' = [period EXCEPT ![h] = p]
      /\ recipient' = [recipient EXCEPT ![h] = c.email]
      /\ since' = [since EXCEPT ![h] = s] /\ reply' = [reply EXCEPT ![h] = NoReply]
      /\ accepted' = accepted + 1 /\ accepted < MaxRequests
      /\ UNCHANGED <<profiles, accounts, writes, mails, scanned>>
  BY DEF Accept, s, p
<1>6. TypeOK'
  <2>1. /\ pc' \in [Handlers -> {"idle", "recipient", "scan"}]
        /\ call' \in [Handlers -> Calls \cup {NoCall}]
        /\ period' \in [Handlers -> Periods]
        /\ recipient' \in [Handlers -> Emails \cup {Null}]
    BY <1>1, <1>2, <1>5 DEF HandlersInv, TypeOK
  <2>2. since' \in [Handlers -> [profile: Nat, accounts: [Numbers -> Nat]]]
    BY <1>3, <1>5 DEF HandlersInv, TypeOK
  <2>3. reply' \in [Handlers -> [status: Statuses, to: Emails \cup {Null},
                                period: Periods]]
    BY <1>4, <1>5 DEF HandlersInv, TypeOK
  <2>4. id' \in [Handlers -> Nat] /\ accepted' \in 0 .. MaxRequests
    BY <1>5, StatementAssumption DEF HandlersInv, TypeOK
  <2> QED  BY <1>5, <2>1, <2>2, <2>3, <2>4 DEF HandlersInv, TypeOK
<1>7. ASSUME NEW g \in Handlers PROVE HandlerOK(g)'
  <2>1. CASE g # h
    BY <1>5, <2>1 DEF HandlersInv, HandlerOK, TypeOK, RecipientOK, Seeable
  <2>2. CASE g = h
    <3>1. /\ call'[h] = c /\ since'[h] = s /\ recipient'[h] = c.email
          /\ scanned'[h] = scanned[h] /\ profiles' = profiles /\ accounts' = accounts
          /\ pc'[h] = IF c.email = Null THEN "recipient" ELSE "scan"
      BY <1>5 DEF HandlersInv, TypeOK
    <3>2. s.profile = Newest(profiles[c.caller]) /\ s.profile \in Nat
      BY <1>3 DEF s
    <3>3. \A n \in Numbers : s.accounts[n] = Newest(accounts[n]) /\ s.accounts[n] \in Nat
      BY <1>3 DEF s
    <3>4. scanned[h] = {}
      BY DEF HandlersInv, HandlerOK, Accept
    <3>5. pc'[h] = "scan" => recipient'[h] \in Emails /\ RecipientOK(h)'
      BY <1>2, <3>1 DEF RecipientOK
    <3> QED  BY <2>2, <3>1, <3>2, <3>3, <3>4, <3>5 DEF HandlerOK, Newest
  <2> QED  BY <2>1, <2>2
<1> QED  BY <1>6, <1>7 DEF HandlersInv

LEMMA RefuseDatesKeepsInv ==
  ASSUME HandlersInv, NEW h \in Handlers, NEW c \in Calls, NEW today \in Todays,
         RefuseDates(h, c, today)
  PROVE  HandlersInv'
<1> DEFINE r == [NoReply EXCEPT !.status = RangeStatus(c, today)]
<1>1. r \in [status: Statuses, to: Emails \cup {Null}, period: Periods]
  BY RangeStatusIsStatus, StatementAssumption
  DEF NoReply, Statuses, NoPeriod, Periods, Days
<1> HIDE DEF r
<1>2. /\ pc[h] = "idle" /\ call' = [call EXCEPT ![h] = c]
      /\ id' = [id EXCEPT ![h] = accepted + 1] /\ reply' = [reply EXCEPT ![h] = r]
      /\ accepted' = accepted + 1 /\ accepted < MaxRequests
      /\ UNCHANGED <<profiles, accounts, writes, mails, pc, period, recipient, scanned,
                     since>>
  BY DEF RefuseDates, r
<1>3. TypeOK'
  <2>1. reply' \in [Handlers -> [status: Statuses, to: Emails \cup {Null},
                                period: Periods]]
    BY <1>1, <1>2 DEF HandlersInv, TypeOK
  <2>2. id' \in [Handlers -> Nat] /\ accepted' \in 0 .. MaxRequests
    BY <1>2, StatementAssumption DEF HandlersInv, TypeOK
  <2>3. call' \in [Handlers -> Calls \cup {NoCall}]
    BY <1>2 DEF HandlersInv, TypeOK
  <2> QED  BY <1>2, <2>1, <2>2, <2>3 DEF HandlersInv, TypeOK
<1>4. ASSUME NEW g \in Handlers PROVE HandlerOK(g)'
  <2>1. CASE g = h
    BY <1>2, <2>1 DEF HandlersInv, HandlerOK
  <2>2. CASE g # h
    BY <1>2, <2>2 DEF HandlersInv, HandlerOK, TypeOK, RecipientOK, Seeable
  <2> QED  BY <2>1, <2>2
<1> QED  BY <1>3, <1>4 DEF HandlersInv

\* The address read is not too old, for the read missed at most MaxLag versions.
LEMMA ReadRecipientKeepsInv ==
  ASSUME HandlersInv, NEW h \in Handlers, ReadRecipient(h), mails' = mails
  PROVE  HandlersInv'
<1> DEFINE u == call[h].caller
<1>1. /\ pc[h] = "recipient" /\ call[h] \in Calls /\ u \in Users
      /\ profiles[u] \in Seq(Emails \cup {Null}) /\ Newest(profiles[u]) \in Nat
      /\ since[h].profile \in Nat /\ since[h].profile <= Newest(profiles[u])
      /\ UNCHANGED <<profiles, accounts, writes, mails, accepted, id>>
  BY CallFields DEF ReadRecipient, HandlersInv, HandlerOK, TypeOK, Newest
<1>2. PICK i \in Visible(profiles[u]) :
        LET email == EmailAt(u, i)
        IN  IF email = Null
            THEN Refuse(h, 400)
            ELSE /\ recipient' = [recipient EXCEPT ![h] = email]
                 /\ pc' = [pc EXCEPT ![h] = "scan"]
                 /\ UNCHANGED <<call, period, scanned, since, reply>>
  BY DEF ReadRecipient
<1>3. /\ i \in 0 .. Newest(profiles[u]) /\ Newest(profiles[u]) <= i + MaxLag
  BY <1>2 DEF Visible, Newest
<1>4. CASE EmailAt(u, i) = Null
  <2>1. Refuse(h, 400)
    BY <1>2, <1>4
  <2>2. 400 \in Statuses /\ mails' \in Seq(Mails)
    BY DEF Statuses, HandlersInv, TypeOK
  <2> QED  BY <1>1, <2>1, <2>2, RefuseKeepsInv
<1>5. CASE EmailAt(u, i) # Null
  <2>1. i \in 1 .. Newest(profiles[u]) /\ EmailAt(u, i) = profiles[u][i]
    BY <1>1, <1>3, <1>5 DEF EmailAt
  <2>2. EmailAt(u, i) \in Emails
    BY <1>1, <1>5, <2>1 DEF Newest
  <2>3. since[h].profile <= i + MaxLag
    BY <1>1, <1>3, MaxLagAssumption
  <2>4. /\ recipient' = [recipient EXCEPT ![h] = EmailAt(u, i)]
        /\ pc' = [pc EXCEPT ![h] = "scan"]
        /\ UNCHANGED <<profiles, accounts, writes, mails, accepted, id, call, period,
                       scanned, since, reply>>
    BY <1>1, <1>2, <1>5
  <2>5. TypeOK'
    BY <2>2, <2>4 DEF HandlersInv, TypeOK
  <2>6. ASSUME NEW g \in Handlers PROVE HandlerOK(g)'
    <3>1. CASE g # h
      BY <2>4, <3>1 DEF HandlersInv, HandlerOK, TypeOK, RecipientOK, Seeable
    <3>2. CASE g = h
      <4>1. recipient'[h] = EmailAt(u, i) /\ pc'[h] = "scan" /\ HandlerOK(h)
        BY <2>4 DEF HandlersInv, TypeOK
      <4>2. call[h].email = Null
        BY <1>1 DEF HandlersInv, HandlerOK
      <4>3. RecipientOK(h)'
        BY <2>1, <2>3, <2>4, <4>1, <4>2 DEF RecipientOK
      <4> QED  BY <1>1, <2>2, <2>4, <3>2, <4>1, <4>3 DEF HandlerOK, Seeable
    <3> QED  BY <3>1, <3>2
  <2> QED  BY <2>5, <2>6 DEF HandlersInv
<1> QED  BY <1>4, <1>5

\* So is every row a query adds.
LEMMA ScanKeepsInv ==
  ASSUME HandlersInv, NEW h \in Handlers, NEW n \in Numbers, ScanPartition(h, n)
  PROVE  HandlersInv'
<1>1. PICK i \in Visible(accounts[n]) : scanned' = [scanned EXCEPT ![h] = @ \cup {<<n, i>>}]
  BY DEF ScanPartition
<1>2. /\ pc[h] = "scan" /\ HandlerOK(h) /\ Newest(accounts[n]) \in Nat
      /\ since[h].accounts[n] \in Nat /\ since[h].accounts[n] <= Newest(accounts[n])
      /\ UNCHANGED <<profiles, accounts, writes, mails, accepted, pc, call, id, period,
                     recipient, since, reply>>
  BY DEF ScanPartition, HandlersInv, HandlerOK, TypeOK, Newest
<1>3. /\ i \in 0 .. Newest(accounts[n]) /\ Newest(accounts[n]) <= i + MaxLag
  BY <1>1 DEF Visible, Newest
<1>4. i \in Seeable(h, n)
  BY <1>2, <1>3, MaxLagAssumption DEF Seeable
<1>5. i \in Nat
  BY <1>2, <1>3
<1>6. TypeOK'
  BY <1>1, <1>2, <1>5 DEF HandlersInv, TypeOK
<1>7. ASSUME NEW g \in Handlers PROVE HandlerOK(g)'
  <2>1. \A m \in Numbers : Seeable(g, m)' = Seeable(g, m)
    BY <1>2 DEF Seeable
  <2>2. HandlerOK(g) /\ RecipientOK(g)' = RecipientOK(g)
    BY <1>2 DEF HandlersInv, RecipientOK
  <2>3. \A row \in scanned[g] : row[1] \in Numbers
    BY DEF HandlersInv, TypeOK
  <2>4. CASE g # h
    <3>1. scanned'[g] = scanned[g]
      BY <1>1, <2>4 DEF HandlersInv, TypeOK
    <3> QED  BY <1>2, <2>1, <2>2, <2>3, <3>1 DEF HandlerOK
  <2>5. CASE g = h
    <3>1. scanned'[g] = scanned[g] \cup {<<n, i>>}
      BY <1>1, <2>5 DEF HandlersInv, TypeOK
    <3>2. \A row \in scanned'[g] : row[2] \in Seeable(g, row[1])'
      BY <1>2, <1>4, <2>1, <2>3, <2>5, <3>1 DEF HandlerOK
    <3> QED  BY <1>2, <2>2, <2>5, <3>2 DEF HandlerOK
  <2> QED  BY <2>4, <2>5
<1> QED  BY <1>6, <1>7 DEF HandlersInv

\* HandlersInv is kept by every step.
LEMMA HandlersInvStep == HandlersInv /\ [Next]_vars => HandlersInv'
<1> SUFFICES ASSUME HandlersInv, [Next]_vars PROVE HandlersInv'
  OBVIOUS
<1>1. CASE UNCHANGED vars
  BY <1>1 DEF vars, HandlersInv, HandlerOK, TypeOK, RecipientOK, Seeable
<1>2. ASSUME NEW u \in Users, NEW email \in Emails \cup {Null}, WriteProfile(u, email)
      PROVE  HandlersInv'
  BY <1>2, WriteProfileKeepsInv
<1>3. ASSUME NEW n \in Numbers, NEW doc \in Accounts, WriteAccount(n, doc)
      PROVE  HandlersInv'
  BY <1>3, WriteAccountKeepsInv
<1>4. ASSUME NEW h \in Handlers, NEW c \in Calls, NEW today \in Todays,
             Accept(h, c, today) \/ RefuseDates(h, c, today)
      PROVE  HandlersInv'
  BY <1>4, AcceptKeepsInv, RefuseDatesKeepsInv
<1>5. ASSUME NEW h \in Handlers, HandlerStep(h) PROVE HandlersInv'
  <2>1. mails \in Seq(Mails) /\ {400, 500, 200} \subseteq Statuses
    BY DEF HandlersInv, TypeOK, Statuses
  <2>2. CASE ReadRecipient(h)
    BY <2>2, ReadRecipientKeepsInv DEF ReadRecipient
  <2>3. CASE \E n \in Numbers : ScanPartition(h, n)
    BY <2>3, ScanKeepsInv
  <2>4. CASE RefuseUnconfigured(h) \/ FailRequest(h)
    BY <2>1, <2>4, RefuseKeepsInv DEF RefuseUnconfigured, FailRequest
  <2>5. CASE SendEmail(h)
    <3>1. Mail(h) \in Mails /\ recipient[h] \in Emails /\ period[h] \in Periods
      BY <2>5, MailIsMail DEF SendEmail
    <3>2. mails' \in Seq(Mails)
      BY <2>1, <2>5, <3>1 DEF SendEmail
    <3>3. CASE Respond(h, 200, recipient[h], period[h])
      BY <2>1, <2>5, <3>1, <3>2, <3>3, RespondKeepsInv DEF SendEmail
    <3>4. CASE Refuse(h, 500)
      BY <2>1, <2>5, <3>2, <3>4, RefuseKeepsInv DEF SendEmail
    <3> QED  BY <2>5, <3>3, <3>4 DEF SendEmail
  <2> QED  BY <1>5, <2>2, <2>3, <2>4, <2>5 DEF HandlerStep
<1>6. CASE Quiescent
  BY <1>1, <1>6 DEF Quiescent
<1> QED  BY <1>1, <1>2, <1>3, <1>4, <1>5, <1>6 DEF Next

LEMMA AlwaysHandlersInv == Spec => []HandlersInv
  BY HandlersInvInit, HandlersInvStep, PTL DEF Spec

\* Every variable always has its type; in particular every mail handed to the
\* SMTP server has an address and reports a period within the calendar.
THEOREM TypeCorrect == Spec => []TypeOK
<1>1. HandlersInv => TypeOK
  BY DEF HandlersInv
<1> QED  BY <1>1, AlwaysHandlersInv, PTL

-----------------------------------------------------------------------------
(* What a mail says.                                                       *)

\* A handler that sends appends the mail it composed after its query ended.
LEMMA SendsMail ==
  ASSUME HandlersInv, [Next]_vars, NEW h \in Handlers, Sends(h)
  PROVE  /\ pc[h] = "scan" /\ ScanComplete(h) /\ HandlerOK(h)
         /\ mails \in Seq(Mails) /\ Mail(h) \in Mails
         /\ mails' = Append(mails, Mail(h))
         /\ mails'[Len(mails')] = Mail(h)
<1>1. PICK g \in Handlers : SendEmail(g)
  BY DEF Sends, Next, HandlerStep, WriteProfile, WriteAccount, Accept, RefuseDates,
     ReadRecipient, ScanPartition, RefuseUnconfigured, FailRequest, Quiescent, vars
<1>2. pc' = [pc EXCEPT ![g] = "idle"]
  BY <1>1 DEF SendEmail, Refuse, Respond
<1>3. g = h
  BY <1>2 DEF Sends, HandlersInv, TypeOK
<1>4. mails \in Seq(Mails) /\ mails' = Append(mails, Mail(h)) /\ ScanComplete(h)
  BY <1>1, <1>3 DEF SendEmail, Sends, HandlersInv, TypeOK
<1>5. Mail(h) \in Mails
  BY MailIsMail DEF Sends
<1>6. mails'[Len(mails')] = Mail(h)
  <2> DEFINE m == Mail(h)
  <2> HIDE DEF m
  <2>1. mails \in Seq(Mails) /\ m \in Mails /\ mails' = Append(mails, m)
    BY <1>4, <1>5 DEF m
  <2>2. mails'[Len(mails')] = m
    BY <2>1
  <2> QED  BY <2>2 DEF m
<1> QED  BY <1>4, <1>5, <1>6 DEF Sends, HandlersInv

\* A mail goes to the address the request names or to a recent one of the
\* caller's own profile, whatever is written to the profile in the meantime.
THEOREM RecipientsAreCurrent == Spec => RecipientWasCurrent
<1> DEFINE R(h) == LET mail == mails'[Len(mails')]
                       u == call[h].caller
                   IN  IF call[h].email # Null THEN mail.to = call[h].email
                       ELSE \E i \in 1 .. Newest(profiles[u]) :
                              since[h].profile <= i + MaxLag /\ mail.to = profiles[u][i]
<1>1. ASSUME HandlersInv, [Next]_vars, NEW h \in Handlers, Sends(h) PROVE R(h)
  <2>1. RecipientOK(h) /\ mails'[Len(mails')] = Mail(h)
    BY <1>1, SendsMail DEF HandlerOK
  <2>2. Mail(h).to = recipient[h]
    BY DEF Mail
  <2> QED  BY <2>1, <2>2 DEF RecipientOK
<1>2. HandlersInv /\ [Next]_vars => [\A h \in Handlers : Sends(h) => R(h)]_vars
  BY <1>1
<1> QED  BY <1>2, AlwaysHandlersInv, PTL DEF Spec, RecipientWasCurrent

\* An account selected for a user is an active account of that user.
LEMMA SelectedAccount ==
  ASSUME NEW doc \in Accounts, NEW u
  PROVE  Selects(u, doc) <=> doc = [owner |-> u, active |-> TRUE]
<1>1. doc = [owner |-> doc.owner, active |-> doc.active] /\ doc.active \in BOOLEAN
  BY DEF Accounts
<1>2. ASSUME Selects(u, doc) PROVE doc = [owner |-> u, active |-> TRUE]
  <2>1. doc.owner = u /\ doc.active = TRUE
    BY <1>1, <1>2 DEF Selects
  <2> QED  BY <1>1, <2>1
<1>3. ASSUME doc = [owner |-> u, active |-> TRUE] PROVE Selects(u, doc)
  BY <1>3 DEF Selects
<1> QED  BY <1>2, <1>3

\* A mail counts only accounts that were recently the owner's and active, and
\* all that were so throughout.
THEOREM StatementsCoverActive == Spec => StatementCoversActive
<1> DEFINE Q(h, n) ==
      LET rows == mails'[Len(mails')].rows
          u == call[h].caller
      IN  /\ \A row \in rows :
               row[1] = n => row[2] \in Seeable(h, n) /\ ActiveAccount(u, n, row[2])
          /\ (\A i \in Seeable(h, n) : ActiveAccount(u, n, i))
               => \E row \in rows : row[1] = n
<1>1. ASSUME HandlersInv, [Next]_vars, NEW h \in Handlers, NEW n \in Numbers, Sends(h)
      PROVE  Q(h, n)
  <2>1. /\ ScanComplete(h) /\ HandlerOK(h) /\ pc[h] = "scan"
        /\ mails'[Len(mails')] = Mail(h)
    BY <1>1, SendsMail
  <2>2. Mail(h).rows = Rows(h)
    BY DEF Mail
  <2>3. accounts[n] \in Seq(Accounts)
    BY <1>1 DEF HandlersInv, TypeOK
  <2>4. ASSUME NEW row \in scanned[h], row[1] = n
        PROVE  /\ row[2] \in Seeable(h, n)
               /\ row \in Rows(h) <=> ActiveAccount(call[h].caller, n, row[2])
    <3>1. row[2] \in Seeable(h, n)
      BY <2>1, <2>4 DEF HandlerOK
    <3>2. row[2] # 0 => accounts[n][row[2]] \in Accounts
      BY <2>3, <3>1 DEF Seeable, Newest
    <3>3. row[2] # 0 =>
            (Selects(call[h].caller, accounts[n][row[2]])
               <=> accounts[n][row[2]] = [owner |-> call[h].caller, active |-> TRUE])
      BY <3>2, SelectedAccount
    <3> QED  BY <2>4, <3>1, <3>3 DEF Rows, ActiveAccount
  <2>5. \A row \in Rows(h) : row \in scanned[h]
    BY DEF Rows
  <2>6. \E row \in scanned[h] : row[1] = n
    BY <2>1 DEF ScanComplete
  <2> QED  BY <2>1, <2>2, <2>4, <2>5, <2>6
<1>2. HandlersInv /\ [Next]_vars
        => [\A h \in Handlers, n \in Numbers : Sends(h) => Q(h, n)]_vars
  BY <1>1
<1> QED  BY <1>2, AlwaysHandlersInv, PTL DEF Spec, StatementCoversActive

\* The period resolved for a request is the one it means, and only requests that
\* mean none are refused for their dates.
THEOREM PeriodsMeant == Spec => PeriodsAreMeant
<1> DEFINE D(h, today) ==
      Meant(call'[h], today) = IF pc'[h] = "idle" THEN {} ELSE {period'[h]}
<1>1. ASSUME HandlersInv, [Next]_vars, NEW h \in Handlers, id'[h] # id[h]
      PROVE  \E today \in Todays : D(h, today)
  <2>1. PICK g \in Handlers, c \in Calls, today \in Todays :
          Accept(g, c, today) \/ RefuseDates(g, c, today)
    BY <1>1
    DEF Next, HandlerStep, WriteProfile, WriteAccount, ReadRecipient, ScanPartition,
        RefuseUnconfigured, SendEmail, FailRequest, Quiescent, vars
  <2>2. id' = [id EXCEPT ![g] = accepted + 1] /\ call' = [call EXCEPT ![g] = c]
    BY <2>1 DEF Accept, RefuseDates
  <2>3. g = h /\ call'[h] = c
    BY <1>1, <2>2 DEF HandlersInv, TypeOK
  <2>4. Meant(c, today) = IF RangeStatus(c, today) = 200
                          THEN {ResolvedPeriod(c, today)} ELSE {}
    BY CallFields, PeriodResolution, StatementAssumption
  <2>5. CASE Accept(h, c, today)
    <3>1. /\ RangeStatus(c, today) = 200 /\ pc'[h] # "idle"
          /\ period'[h] = ResolvedPeriod(c, today)
      BY <1>1, <2>5 DEF Accept, HandlersInv, TypeOK
    <3> QED  BY <2>3, <2>4, <3>1
  <2>6. CASE RefuseDates(h, c, today)
    <3>1. RangeStatus(c, today) # 200 /\ pc'[h] = "idle"
      BY <2>6 DEF RefuseDates
    <3> QED  BY <2>3, <2>4, <3>1
  <2> QED  BY <2>1, <2>3, <2>5, <2>6
<1> HIDE DEF D
<1>2. HandlersInv /\ [Next]_vars
        => [\A h \in Handlers : id'[h] # id[h] => \E today \in Todays : D(h, today)]_vars
  BY <1>1
<1> QED  BY <1>2, AlwaysHandlersInv, PTL DEF Spec, PeriodsAreMeant, D

-----------------------------------------------------------------------------
(* Mails and answers.                                                      *)

\* Request numbers tell requests apart, and no two mails have the same.
NumbersOK ==
  /\ \A h \in Handlers : id[h] \in 0 .. accepted
  /\ \A g, h \in Handlers : id[g] = id[h] /\ id[h] # 0 => g = h
  /\ \A i \in 1 .. Len(mails) : mails[i].id \in 1 .. accepted
  /\ \A i, j \in 1 .. Len(mails) : mails[i].id = mails[j].id => i = j

\* No mail has been sent for a request that is still being served.
ServedOK(h) ==
  pc[h] # "idle" => id[h] # 0 /\ MailsOf(h) = {} /\ reply[h].status = 0

AnswerOK(h) ==
  /\ reply[h].status = 200 =>
       \E i \in MailsOf(h) : mails[i].to = reply[h].to /\ mails[i].period = reply[h].period
  /\ reply[h].status = 400 => MailsOf(h) = {}

MailInv == NumbersOK /\ \A h \in Handlers : ServedOK(h) /\ AnswerOK(h)

LEMMA MailInvInit == Init => MailInv
  BY DEF Init, MailInv, NumbersOK, ServedOK, AnswerOK, MailsOf, NoReply

\* A step that neither sends nor answers nor accepts keeps MailInv.
LEMMA QuietKeepsMailInv ==
  ASSUME MailInv, UNCHANGED <<mails, accepted, id, reply>>,
         \A h \in Handlers : pc'[h] # "idle" => pc[h] # "idle"
  PROVE  MailInv'
  BY DEF MailInv, NumbersOK, ServedOK, AnswerOK, MailsOf

\* A request that arrives gets a number no mail has.
LEMMA ArrivalKeepsMailInv ==
  ASSUME HandlersInv, MailInv, NEW h \in Handlers, NEW r,
         id' = [id EXCEPT ![h] = accepted + 1], accepted' = accepted + 1,
         reply' = [reply EXCEPT ![h] = r], mails' = mails,
         r.status \in {0, 400, 500}, pc'[h] # "idle" => r.status = 0,
         \A g \in Handlers : g # h => pc'[g] = pc[g]
  PROVE  MailInv'
<1>1. /\ accepted \in Nat /\ id'[h] = accepted + 1 /\ reply'[h] = r
      /\ \A g \in Handlers : g # h => id'[g] = id[g] /\ reply'[g] = reply[g]
  BY DEF HandlersInv, TypeOK
<1>2. \A i \in 1 .. Len(mails) : mails[i].id # accepted + 1
  BY <1>1 DEF MailInv, NumbersOK
<1>3. MailsOf(h)' = {}
  BY <1>1, <1>2 DEF MailsOf
<1>4. \A g \in Handlers : g # h => MailsOf(g)' = MailsOf(g)
  BY <1>1 DEF MailsOf
<1>5. NumbersOK'
  BY <1>1 DEF MailInv, NumbersOK
<1>6. ASSUME NEW g \in Handlers PROVE ServedOK(g)' /\ AnswerOK(g)'
  <2>1. CASE g = h
    BY <1>1, <1>3, <2>1 DEF ServedOK, AnswerOK
  <2>2. CASE g # h
    BY <1>1, <1>4, <2>2 DEF MailInv, ServedOK, AnswerOK
  <2> QED  BY <2>1, <2>2
<1> QED  BY <1>5, <1>6 DEF MailInv

\* An answer without a mail is a failure.
LEMMA RefuseKeepsMailInv ==
  ASSUME HandlersInv, MailInv, NEW h \in Handlers, NEW status \in {400, 500},
         Refuse(h, status), pc[h] # "idle", UNCHANGED <<mails, accepted, id>>
  PROVE  MailInv'
<1>1. /\ reply'[h].status = status /\ pc'[h] = "idle"
      /\ \A g \in Handlers : g # h => reply'[g] = reply[g] /\ pc'[g] = pc[g]
  BY DEF Refuse, Respond, HandlersInv, TypeOK
<1>2. MailsOf(h) = {} /\ \A g \in Handlers : MailsOf(g)' = MailsOf(g)
  BY DEF MailInv, ServedOK, MailsOf
<1>3. NumbersOK'
  BY DEF MailInv, NumbersOK
<1>4. ASSUME NEW g \in Handlers PROVE ServedOK(g)' /\ AnswerOK(g)'
  <2>1. CASE g = h
    BY <1>1, <1>2, <2>1 DEF ServedOK, AnswerOK
  <2>2. CASE g # h
    BY <1>1, <1>2, <2>2 DEF MailInv, ServedOK, AnswerOK
  <2> QED  BY <2>1, <2>2
<1> QED  BY <1>3, <1>4 DEF MailInv

\* A mail is the only one of its request, and the answer agrees with it.
LEMMA SendKeepsMailInv ==
  ASSUME HandlersInv, MailInv, NEW h \in Handlers, SendEmail(h),
         mails' = Append(mails, Mail(h))
  PROVE  MailInv'
<1> DEFINE m == Mail(h)
           k == Len(mails) + 1
<1>1. m \in Mails /\ m.id = id[h] /\ m.to = recipient[h] /\ m.period = period[h]
  BY MailIsMail DEF SendEmail, Mail
<1> HIDE DEF m
<1>2. mails \in Seq(Mails) /\ mails' = Append(mails, m) /\ Len(mails) \in Nat
  BY DEF m, HandlersInv, TypeOK
<1>3. /\ Len(mails') = k /\ mails'[k] = m
      /\ \A i \in 1 .. Len(mails) : mails'[i] = mails[i]
      /\ 1 .. k = (1 .. Len(mails)) \cup {k} /\ k \notin 1 .. Len(mails)
  BY <1>1, <1>2
<1>4. /\ pc'[h] = "idle" /\ pc[h] = "scan" /\ UNCHANGED <<id, accepted>>
      /\ \/ reply'[h].status = 500
         \/ /\ reply'[h].status = 200
            /\ reply'[h].to = recipient[h] /\ reply'[h].period = period[h]
      /\ \A g \in Handlers : g # h => reply'[g] = reply[g] /\ pc'[g] = pc[g]
  BY DEF SendEmail, Refuse, Respond, HandlersInv, TypeOK
<1>5. /\ id[h] \in 1 .. accepted /\ accepted \in Nat
      /\ \A i \in 1 .. Len(mails) : mails[i].id # id[h]
  <2>1. accepted \in Nat /\ id[h] \in 0 .. accepted
    BY StatementAssumption DEF MailInv, NumbersOK, HandlersInv, TypeOK
  <2>2. id[h] # 0 /\ MailsOf(h) = {}
    BY <1>4 DEF MailInv, ServedOK
  <2> QED  BY <2>1, <2>2 DEF MailsOf
<1> HIDE DEF k
<1>6. MailsOf(h)' = {k}
  BY <1>1, <1>3, <1>4, <1>5 DEF MailsOf
<1>7. ASSUME NEW g \in Handlers, g # h
      PROVE  MailsOf(g)' = MailsOf(g) /\ \A i \in MailsOf(g) : mails'[i] = mails[i]
  <2>1. id[g] # id[h]
    BY <1>5, <1>7 DEF MailInv, NumbersOK
  <2> QED  BY <1>1, <1>3, <1>4, <2>1 DEF MailsOf
<1>8. NumbersOK'
  <2>1. \A i \in 1 .. Len(mails') : mails'[i].id \in 1 .. accepted'
    BY <1>1, <1>3, <1>4, <1>5 DEF MailInv, NumbersOK
  <2>2. \A i, j \in 1 .. Len(mails') : mails'[i].id = mails'[j].id => i = j
    BY <1>1, <1>3, <1>5 DEF MailInv, NumbersOK
  <2> QED  BY <1>4, <2>1, <2>2 DEF MailInv, NumbersOK
<1>9. ASSUME NEW g \in Handlers PROVE ServedOK(g)' /\ AnswerOK(g)'
  <2>1. CASE g = h
    <3>1. reply'[h].status = 200 =>
            k \in MailsOf(h)' /\ mails'[k].to = reply'[h].to
              /\ mails'[k].period = reply'[h].period
      BY <1>1, <1>3, <1>4, <1>6
    <3>2. reply'[h].status # 400 /\ pc'[h] = "idle"
      BY <1>4
    <3>3. ServedOK(h)'
      BY <3>2 DEF ServedOK
    <3>4. AnswerOK(h)'
      <4> DEFINE P(i) == mails'[i].to = reply'[h].to /\ mails'[i].period = reply'[h].period
      <4>1. reply'[h].status = 200 => \E i \in MailsOf(h)' : P(i)
        BY <3>1
      <4> QED  BY <3>2, <4>1 DEF AnswerOK
    <3> QED  BY <2>1, <3>3, <3>4
  <2>2. CASE g # h
    <3>1. /\ pc'[g] = pc[g] /\ reply'[g] = reply[g] /\ id'[g] = id[g]
          /\ MailsOf(g)' = MailsOf(g) /\ \A i \in MailsOf(g) : mails'[i] = mails[i]
      BY <1>4, <1>7, <2>2
    <3>2. ServedOK(g)'
      BY <3>1 DEF MailInv, ServedOK
    <3>3. AnswerOK(g)'
      <4> DEFINE P(i) == mails'[i].to = reply'[g].to /\ mails'[i].period = reply'[g].period
      <4>1. AnswerOK(g)
        BY DEF MailInv
      <4>2. ASSUME reply'[g].status = 200 PROVE \E i \in MailsOf(g)' : P(i)
        <5>1. PICK i \in MailsOf(g) : mails[i].to = reply[g].to
                                      /\ mails[i].period = reply[g].period
          BY <3>1, <4>1, <4>2 DEF AnswerOK
        <5>2. i \in MailsOf(g)' /\ P(i)
          BY <3>1, <5>1
        <5> QED  BY <5>2
      <4>3. reply'[g].status = 400 => MailsOf(g)' = {}
        BY <3>1, <4>1 DEF AnswerOK
      <4> QED  BY <4>2, <4>3 DEF AnswerOK
    <3> QED  BY <3>2, <3>3
  <2> QED  BY <2>1, <2>2
<1> QED  BY <1>8, <1>9 DEF MailInv

LEMMA MailInvStep == HandlersInv /\ MailInv /\ [Next]_vars => MailInv'
<1> SUFFICES ASSUME HandlersInv, MailInv, [Next]_vars PROVE MailInv'
  OBVIOUS
<1>1. CASE UNCHANGED vars
  BY <1>1, QuietKeepsMailInv DEF vars
<1>2. ASSUME NEW u \in Users, NEW email \in Emails \cup {Null}, WriteProfile(u, email)
      PROVE  MailInv'
  BY <1>2, QuietKeepsMailInv DEF WriteProfile
<1>3. ASSUME NEW n \in Numbers, NEW doc \in Accounts, WriteAccount(n, doc)
      PROVE  MailInv'
  BY <1>3, QuietKeepsMailInv DEF WriteAccount
<1>4. ASSUME NEW h \in Handlers, NEW c \in Calls, NEW today \in Todays,
             Accept(h, c, today)
      PROVE  MailInv'
  <2>1. NoReply.status = 0 /\ \A g \in Handlers : g # h => pc'[g] = pc[g]
    BY <1>4 DEF NoReply, Accept, HandlersInv, TypeOK
  <2>2. /\ id' = [id EXCEPT ![h] = accepted + 1] /\ accepted' = accepted + 1
        /\ reply' = [reply EXCEPT ![h] = NoReply] /\ mails' = mails
    BY <1>4 DEF Accept
  <2> QED  BY <2>1, <2>2, ArrivalKeepsMailInv
<1>5. ASSUME NEW h \in Handlers, NEW c \in Calls, NEW today \in Todays,
             RefuseDates(h, c, today)
      PROVE  MailInv'
  <2> DEFINE r == [NoReply EXCEPT !.status = RangeStatus(c, today)]
  <2>1. r.status \in {0, 400, 500}
    BY <1>5, RangeStatusIsStatus DEF NoReply, RefuseDates
  <2>2. /\ id' = [id EXCEPT ![h] = accepted + 1] /\ accepted' = accepted + 1
        /\ reply' = [reply EXCEPT ![h] = r] /\ mails' = mails
        /\ pc[h] = "idle" /\ pc' = pc
    BY <1>5 DEF RefuseDates
  <2> HIDE DEF r
  <2> QED  BY <2>1, <2>2, ArrivalKeepsMailInv
<1>6. ASSUME NEW h \in Handlers, HandlerStep(h) PROVE MailInv'
  <2>1. CASE ReadRecipient(h)
    <3>1. CASE Refuse(h, 400)
      BY <2>1, <3>1, RefuseKeepsMailInv DEF ReadRecipient
    <3>2. CASE ~Refuse(h, 400)
      <4>1. pc' = [pc EXCEPT ![h] = "scan"] /\ UNCHANGED <<mails, accepted, id, reply>>
        BY <2>1, <3>2 DEF ReadRecipient
      <4>2. \A g \in Handlers : pc'[g] # "idle" => pc[g] # "idle"
        BY <2>1, <4>1 DEF ReadRecipient, HandlersInv, TypeOK
      <4> QED  BY <4>1, <4>2, QuietKeepsMailInv
    <3> QED  BY <3>1, <3>2
  <2>2. CASE \E n \in Numbers : ScanPartition(h, n)
    BY <2>2, QuietKeepsMailInv DEF ScanPartition
  <2>3. CASE RefuseUnconfigured(h) \/ FailRequest(h)
    BY <2>3, RefuseKeepsMailInv DEF RefuseUnconfigured, FailRequest
  <2>4. CASE SendEmail(h)
    BY <2>4, SendKeepsMailInv, RefuseKeepsMailInv DEF SendEmail
  <2> QED  BY <1>6, <2>1, <2>2, <2>3, <2>4 DEF HandlerStep
<1>7. CASE Quiescent
  BY <1>1, <1>7 DEF Quiescent
<1> QED  BY <1>1, <1>2, <1>3, <1>4, <1>5, <1>6, <1>7 DEF Next

\* An answer 200 means that exactly one mail, with the recipient and the period
\* of the answer, was handed over; 400 that none was; no request sends two.
THEOREM AnswersAgreeWithMails == Spec => []AnswerAgreesWithMail
<1>1. MailInv => AnswerAgreesWithMail
  BY DEF MailInv, NumbersOK, AnswerOK, AnswerAgreesWithMail, MailsOf
<1>2. Spec => []MailInv
  BY MailInvInit, MailInvStep, AlwaysHandlersInv, PTL DEF Spec
<1> QED  BY <1>1, <1>2, PTL

-----------------------------------------------------------------------------
(* Refinement of Mailbox.                                                  *)

\* What the mailbox knows of the status of a response.
LEMMA ToldIs ==
  /\ Told(0) = "none" /\ Told(200) = "sent"
  /\ \A s \in {400, 500} : Told(s) \in {"refused", "failed"}
BY DEF Told

\* A request under way is one of the mailbox's requests, never Null.
LEMMA AwaitedRequest ==
  ASSUME HandlersInv, MailInv, NEW h \in Handlers, pc[h] # "idle"
  PROVE  /\ AwaitingView[h] # Null
         /\ AwaitingView[h] = [id |-> id[h], owner |-> call[h].caller,
                               named |-> call[h].email]
<1>1. id[h] \in 1 .. MaxRequests
  BY StatementAssumption DEF HandlersInv, TypeOK, MailInv, NumbersOK, ServedOK
<1>2. call[h].caller \in Users /\ call[h].email \in Emails \cup {Null}
  BY DEF HandlersInv, HandlerOK, Calls
<1> QED  BY <1>1, <1>2, RequestAssumption DEF AwaitingView

\* The mailbox does not see a step after which the same requests are under way,
\* with the same mails and replies.
LEMMA MailboxRests ==
  ASSUME UNCHANGED <<mails, id, call, reply>>,
         \A g \in Handlers : pc'[g] = "idle" <=> pc[g] = "idle"
  PROVE  UNCHANGED Box!mailboxVars
<1>1. OutboxView' = OutboxView
  BY DEF OutboxView
<1>2. AwaitingView' = AwaitingView
  BY DEF AwaitingView
<1>3. OutcomeView' = OutcomeView
  BY DEF OutcomeView
<1> QED  BY <1>1, <1>2, <1>3 DEF Box!mailboxVars

\* A number not yet given out is new to the mailbox.
LEMMA NextNumberIsUnused ==
  ASSUME HandlersInv, MailInv
  PROVE  Box!Unused(accepted + 1)
<1>1. accepted \in Nat
  BY StatementAssumption DEF HandlersInv, TypeOK
<1>2. ASSUME NEW k \in 1 .. Len(OutboxView) PROVE OutboxView[k].id # accepted + 1
  <2>1. Len(mails) \in Nat
    BY DEF HandlersInv, TypeOK
  <2>2. k \in 1 .. Len(mails) /\ OutboxView[k].id = mails[k].id
    BY <1>2, <2>1 DEF OutboxView
  <2> QED  BY <1>1, <2>2 DEF MailInv, NumbersOK
<1>3. ASSUME NEW h \in Handlers, AwaitingView[h] # Null
      PROVE  AwaitingView[h].id # accepted + 1
  <2>1. AwaitingView[h].id = id[h]
    BY <1>3 DEF AwaitingView
  <2> QED  BY <1>1, <2>1 DEF MailInv, NumbersOK
<1> QED  BY <1>2, <1>3 DEF Box!Unused

\* A response takes the request of its handler out of the mailbox's sight.
LEMMA RespondAnswers ==
  ASSUME HandlersInv, NEW h \in Handlers, NEW s, NEW to, NEW p, Respond(h, s, to, p),
         id' = id
  PROVE  /\ AwaitingView' = [AwaitingView EXCEPT ![h] = Null]
         /\ OutcomeView' = [OutcomeView EXCEPT ![h] = Told(s)]
<1>1. /\ pc'[h] = "idle" /\ reply'[h].status = s
      /\ \A g \in Handlers : g # h => /\ pc'[g] = pc[g] /\ call'[g] = call[g]
                                      /\ reply'[g] = reply[g]
  BY DEF Respond, HandlersInv, TypeOK
<1> QED  BY <1>1 DEF AwaitingView, OutcomeView

\* A request that ends without a mail is turned away.
LEMMA RefusalTurnsAway ==
  ASSUME HandlersInv, NEW h \in Handlers, NEW s \in {400, 500}, Refuse(h, s),
         UNCHANGED <<mails, id>>
  PROVE  Box!TurnAway(h)
<1>1. /\ AwaitingView' = [AwaitingView EXCEPT ![h] = Null]
      /\ OutcomeView' = [OutcomeView EXCEPT ![h] = Told(s)]
  BY RespondAnswers DEF Refuse
<1>2. Told(s) \in {"refused", "failed"}
  BY ToldIs
<1>3. OutboxView' = OutboxView
  BY DEF OutboxView
<1> QED  BY <1>1, <1>2, <1>3 DEF Box!TurnAway

\* A mail is delivered for the request under way, to the address it names.
LEMMA SendingDelivers ==
  ASSUME HandlersInv, MailInv, NEW h \in Handlers, SendEmail(h),
         mails' = Append(mails, Mail(h))
  PROVE  Box!MailboxNext
<1> DEFINE m == Mail(h)
           to == recipient[h]
<1>1. /\ pc[h] = "scan" /\ call[h].email \in Emails \cup {Null} /\ to \in Emails
      /\ call[h].email # Null => to = call[h].email
  BY DEF SendEmail, HandlersInv, HandlerOK, RecipientOK, Calls
<1>2. /\ AwaitingView[h] # Null
      /\ AwaitingView[h] = [id |-> id[h], owner |-> call[h].caller,
                            named |-> call[h].email]
  BY <1>1, AwaitedRequest
<1>3. OutboxView' = Append(OutboxView, [id |-> id[h], owner |-> call[h].caller, to |-> to])
  <2> DEFINE V(x) == [id |-> x.id, owner |-> x.owner, to |-> x.to]
             k == Len(mails)
  <2>1. k \in Nat /\ Len(mails') = k + 1 /\ mails'[k + 1] = m
        /\ \A i \in 1 .. k : mails'[i] = mails[i]
    BY DEF HandlersInv, TypeOK
  <2>2. OutboxView = [i \in 1 .. k |-> V(mails[i])]
    BY DEF OutboxView
  <2>3. OutboxView' = [i \in 1 .. k + 1 |-> V(mails'[i])]
    BY <2>1 DEF OutboxView
  <2>4. V(m) = [id |-> id[h], owner |-> call[h].caller, to |-> to]
    BY DEF Mail
  <2> HIDE DEF V, m
  <2>5. Len(OutboxView) = k
    BY <2>1, <2>2
  <2>6. Append(OutboxView, V(m))
          = [i \in 1 .. k + 1 |-> IF i = k + 1 THEN V(m) ELSE OutboxView[i]]
    BY <2>1, <2>2, <2>5
  <2> HIDE DEF k
  <2> QED  BY <2>1, <2>2, <2>3, <2>4, <2>6
<1>4. /\ AwaitingView' = [AwaitingView EXCEPT ![h] = Null]
      /\ \E told \in {"sent", "failed"} : OutcomeView' = [OutcomeView EXCEPT ![h] = told]
  <2>1. CASE Respond(h, 200, recipient[h], period[h])
    BY <2>1, RespondAnswers DEF SendEmail, Told
  <2>2. CASE Refuse(h, 500)
    BY <2>2, RespondAnswers DEF SendEmail, Refuse, Told
  <2> QED  BY <2>1, <2>2 DEF SendEmail
<1>5. AwaitingView[h].named \in {Null, to}
  BY <1>1, <1>2
<1>6. /\ AwaitingView[h].id = id[h] /\ AwaitingView[h].owner = call[h].caller
  BY <1>2
<1>7. OutboxView' = Append(OutboxView, [id |-> AwaitingView[h].id,
                                        owner |-> AwaitingView[h].owner, to |-> to])
  BY <1>3, <1>6
<1> HIDE DEF to
<1>8. Box!Deliver(h, to)
  BY <1>2, <1>7, <1>4, <1>5 DEF Box!Deliver
<1> QED  BY <1>1, <1>8 DEF Box!MailboxNext

LEMMA MailboxStep ==
  ASSUME HandlersInv, MailInv, [Next]_vars
  PROVE  [Box!MailboxNext]_(Box!mailboxVars)
<1>1. CASE UNCHANGED vars \/ Quiescent
  BY <1>1, MailboxRests DEF vars, Quiescent
<1>2. ASSUME NEW u \in Users, NEW email \in Emails \cup {Null}, WriteProfile(u, email)
      PROVE  UNCHANGED Box!mailboxVars
  BY <1>2, MailboxRests DEF WriteProfile
<1>3. ASSUME NEW n \in Numbers, NEW doc \in Accounts, WriteAccount(n, doc)
      PROVE  UNCHANGED Box!mailboxVars
  BY <1>3, MailboxRests DEF WriteAccount
<1>4. ASSUME NEW h \in Handlers, NEW c \in Calls, NEW today \in Todays,
             Accept(h, c, today)
      PROVE  Box!MailboxNext
  <2> DEFINE r == [id |-> accepted + 1, owner |-> c.caller, named |-> c.email]
  <2>1. r \in Box!Requests
    BY <1>4, StatementAssumption DEF Accept, HandlersInv, TypeOK, Calls, Box!Requests
  <2>2. Box!Unused(r.id)
    BY NextNumberIsUnused
  <2>3. /\ pc[h] = "idle" /\ pc'[h] # "idle" /\ call'[h] = c /\ id'[h] = accepted + 1
        /\ reply'[h] = NoReply
        /\ \A g \in Handlers : g # h =>
             /\ pc'[g] = pc[g] /\ call'[g] = call[g] /\ id'[g] = id[g]
             /\ reply'[g] = reply[g]
    BY <1>4 DEF Accept, HandlersInv, TypeOK
  <2>4. AwaitingView[h] = Null /\ AwaitingView' = [AwaitingView EXCEPT ![h] = r]
    BY <2>3 DEF AwaitingView
  <2>5. OutcomeView' = [OutcomeView EXCEPT ![h] = "none"]
    <3>1. reply'[h].status = 0
      BY <2>3 DEF NoReply
    <3>2. OutcomeView' = [OutcomeView EXCEPT ![h] = Told(0)]
      BY <2>3, <3>1 DEF OutcomeView
    <3>3. Told(0) = "none"
      BY ToldIs
    <3> QED  BY <3>2, <3>3, Zenon
  <2>6. OutboxView' = OutboxView
    BY <1>4 DEF Accept, OutboxView
  <2>7. Box!Submit(h, r)
    BY <2>2, <2>4, <2>5, <2>6 DEF Box!Submit
  <2> QED  BY <2>1, <2>7 DEF Box!MailboxNext
<1>5. ASSUME NEW h \in Handlers, NEW c \in Calls, NEW today \in Todays,
             RefuseDates(h, c, today)
      PROVE  Box!MailboxNext
  <2>1. RangeStatus(c, today) \in {400, 500}
    BY <1>5, RangeStatusIsStatus DEF RefuseDates
  <2>2. /\ pc[h] = "idle" /\ pc' = pc /\ reply'[h].status = RangeStatus(c, today)
        /\ \A g \in Handlers : g # h =>
             call'[g] = call[g] /\ id'[g] = id[g] /\ reply'[g] = reply[g]
    BY <1>5 DEF RefuseDates, HandlersInv, TypeOK, NoReply
  <2>3. AwaitingView' = [AwaitingView EXCEPT ![h] = Null]
    BY <2>2 DEF AwaitingView
  <2>4. \E told \in {"refused", "failed"} : OutcomeView' = [OutcomeView EXCEPT ![h] = told]
    <3>1. OutcomeView' = [OutcomeView EXCEPT ![h] = Told(RangeStatus(c, today))]
      BY <2>2 DEF OutcomeView
    <3>2. Told(RangeStatus(c, today)) \in {"refused", "failed"}
      BY <2>1, ToldIs
    <3> QED  BY <3>1, <3>2, Zenon
  <2>5. OutboxView' = OutboxView
    BY <1>5 DEF RefuseDates, OutboxView
  <2> QED  BY <2>3, <2>4, <2>5 DEF Box!TurnAway, Box!MailboxNext
<1>6. ASSUME NEW h \in Handlers, HandlerStep(h) PROVE [Box!MailboxNext]_(Box!mailboxVars)
  <2>1. ASSUME NEW s \in {400, 500}, Refuse(h, s), UNCHANGED <<mails, id>>
        PROVE  Box!MailboxNext
    BY <2>1, RefusalTurnsAway DEF Box!MailboxNext
  <2>2. CASE ReadRecipient(h)
    <3>1. CASE Refuse(h, 400)
      BY <2>1, <2>2, <3>1 DEF ReadRecipient
    <3>2. CASE ~Refuse(h, 400)
      <4>1. /\ pc[h] = "recipient" /\ pc' = [pc EXCEPT ![h] = "scan"]
            /\ UNCHANGED <<mails, id, call, reply>>
        BY <2>2, <3>2 DEF ReadRecipient
      <4>2. \A g \in Handlers : pc'[g] = "idle" <=> pc[g] = "idle"
        BY <4>1 DEF HandlersInv, TypeOK
      <4> QED  BY <4>1, <4>2, MailboxRests
    <3> QED  BY <3>1, <3>2
  <2>3. CASE \E n \in Numbers : ScanPartition(h, n)
    BY <2>3, MailboxRests DEF ScanPartition
  <2>4. CASE RefuseUnconfigured(h) \/ FailRequest(h)
    BY <2>1, <2>4 DEF RefuseUnconfigured, FailRequest
  <2>5. CASE SendEmail(h)
    BY <2>1, <2>5, SendingDelivers DEF SendEmail
  <2> QED  BY <1>6, <2>2, <2>3, <2>4, <2>5 DEF HandlerStep
<1> QED  BY <1>1, <1>2, <1>3, <1>4, <1>5, <1>6 DEF Next

\* Whatever fails and whatever is written to the containers meanwhile, the
\* component is a mailbox: a request is mailed at most once, in the step that
\* answers it, and to the address it names.
THEOREM ServiceIsMailbox == Spec => ImplementsMailbox
<1>1. Init => Box!MailboxInit
  BY DEF Init, Box!MailboxInit, OutboxView, AwaitingView, OutcomeView, Told, NoReply
<1>2. HandlersInv /\ MailInv /\ [Next]_vars => [Box!MailboxNext]_(Box!mailboxVars)
  BY MailboxStep
<1>3. Spec => []MailInv
  BY MailInvInit, MailInvStep, AlwaysHandlersInv, PTL DEF Spec
<1> QED  BY <1>1, <1>2, <1>3, AlwaysHandlersInv, PTL DEF Spec, ImplementsMailbox, Box!MailboxSpec

-----------------------------------------------------------------------------
(* The environment.  AccountServiceProofs and UserProfileServiceProofs     *)
(* show that the other components write histories; here, that histories    *)
(* are all the service relies on, and that it is checked against every     *)
(* history the bound on the writes admits.                                 *)

AccountHistories == INSTANCE DocumentHistory WITH
  Ids <- Numbers, First <- {doc \in Accounts : doc.active},
  Later <- {pair \in Accounts \X Accounts : pair[1].owner = pair[2].owner},
  history <- accounts

ProfileHistories == INSTANCE DocumentHistory WITH
  Ids <- Users, First <- Emails \cup {Null},
  Later <- (Emails \cup {Null}) \X (Emails \cup {Null}),
  history <- profiles

\* What the other actions leave alone.
LEMMA HandlersOnlyRead ==
  ASSUME NEW h \in Handlers,
         \/ \E c \in Calls, today \in Todays : Accept(h, c, today) \/ RefuseDates(h, c, today)
         \/ HandlerStep(h)
  PROVE  UNCHANGED <<accounts, profiles, writes>>
BY DEF Accept, RefuseDates, HandlerStep, ReadRecipient, ScanPartition,
       RefuseUnconfigured, SendEmail, FailRequest

\* A version that has the owner of the first one may follow it.
LEMMA SameOwnerIsLater ==
  ASSUME NEW versions \in Seq(Accounts), NEW doc \in Accounts
  PROVE  AccountHistories!MayFollow(versions, doc)
           <=> IF versions = EmptyHistory THEN doc.active
                                          ELSE doc.owner = versions[1].owner
<1>1. versions # << >> => versions[1] \in Accounts
  OBVIOUS
<1> QED  BY <1>1 DEF AccountHistories!MayFollow, EmptyHistory

LEMMA AccountWriteIsRecord ==
  ASSUME TypeOK, NEW n \in Numbers, NEW doc \in Accounts
  PROVE  AccountHistories!Record(n, doc)
           <=> /\ IF accounts[n] = EmptyHistory THEN doc.active
                                                ELSE doc.owner = accounts[n][1].owner
               /\ accounts' = Commit(accounts, n, doc)
<1>1. accounts[n] \in Seq(Accounts)
  BY DEF TypeOK
<1> QED  BY <1>1, SameOwnerIsLater DEF AccountHistories!Record, Commit

LEMMA ProfileWriteIsRecord ==
  ASSUME TypeOK, NEW u \in Users, NEW email \in Emails \cup {Null}
  PROVE  ProfileHistories!Record(u, email) <=> profiles' = Commit(profiles, u, email)
<1> DEFINE E == Emails \cup {Null}
<1>1. profiles[u] \in Seq(E)
  BY DEF TypeOK
<1> HIDE DEF E
<1>2. profiles[u] # << >> => profiles[u][1] \in E
  BY <1>1
<1> QED  BY <1>2 DEF ProfileHistories!Record, ProfileHistories!MayFollow, Commit, E

LEMMA AccountsStep ==
  ASSUME TypeOK, [Next]_vars
  PROVE  [AccountHistories!HistoryNext]_accounts
<1>1. ASSUME NEW n \in Numbers, NEW doc \in Accounts, WriteAccount(n, doc)
      PROVE  AccountHistories!HistoryNext
  <2> DEFINE first == {d \in Accounts : d.active}
             later == {pair \in Accounts \X Accounts : pair[1].owner = pair[2].owner}
  <2>1. AccountHistories!Record(n, doc)
    BY <1>1, AccountWriteIsRecord DEF WriteAccount
  <2>2. <<doc, doc>> \in later
    OBVIOUS
  <2>3. doc \in first \cup {pair[2] : pair \in later}
    BY <2>2
  <2> QED  BY <2>1, <2>3 DEF AccountHistories!HistoryNext
<1>2. ASSUME NEW u \in Users, NEW email \in Emails \cup {Null}, WriteProfile(u, email)
      PROVE  UNCHANGED accounts
  BY <1>2 DEF WriteProfile
<1>3. Quiescent \/ UNCHANGED vars => UNCHANGED accounts
  BY DEF Quiescent, vars
<1> QED  BY <1>1, <1>2, <1>3, HandlersOnlyRead DEF Next

LEMMA ProfilesStep ==
  ASSUME TypeOK, [Next]_vars
  PROVE  [ProfileHistories!HistoryNext]_profiles
<1>1. ASSUME NEW u \in Users, NEW email \in Emails \cup {Null}, WriteProfile(u, email)
      PROVE  ProfileHistories!HistoryNext
  <2>1. ProfileHistories!Record(u, email)
    BY <1>1, ProfileWriteIsRecord DEF WriteProfile
  <2> QED  BY <2>1 DEF ProfileHistories!HistoryNext
<1>2. ASSUME NEW n \in Numbers, NEW doc \in Accounts, WriteAccount(n, doc)
      PROVE  UNCHANGED profiles
  BY <1>2 DEF WriteAccount
<1>3. Quiescent \/ UNCHANGED vars => UNCHANGED profiles
  BY DEF Quiescent, vars
<1> QED  BY <1>1, <1>2, <1>3, HandlersOnlyRead DEF Next

\* The service writes neither container, and what it assumes of those who do is
\* no more than that accounts and profiles are histories.
THEOREM ReadsHistories ==
  Spec => AccountHistories!HistorySpec /\ ProfileHistories!HistorySpec
<1>1. Init => AccountHistories!HistoryInit /\ ProfileHistories!HistoryInit
  BY DEF Init, AccountHistories!HistoryInit, ProfileHistories!HistoryInit, EmptyHistory
<1>2. TypeOK /\ [Next]_vars
        => /\ [AccountHistories!HistoryNext]_accounts
           /\ [ProfileHistories!HistoryNext]_profiles
  BY AccountsStep, ProfilesStep
<1> QED  BY <1>1, <1>2, TypeCorrect, PTL
         DEF Spec, AccountHistories!HistorySpec, ProfileHistories!HistorySpec

\* Everything the service does not share with the components that write.
ownVars == <<mails, accepted, pc, call, id, period, recipient, scanned, since, reply>>

\* Nor does it assume less: within the bound on the writes, every step of either
\* history, at any moment of a request, is a step of the service's environment.
THEOREM EnvironmentIsGeneral ==
  ASSUME TypeOK, writes < MaxWrites, writes' = writes + 1, UNCHANGED ownVars,
         \/ AccountHistories!HistoryNext /\ UNCHANGED profiles
         \/ ProfileHistories!HistoryNext /\ UNCHANGED accounts
  PROVE  Next
<1>1. ASSUME AccountHistories!HistoryNext, UNCHANGED profiles PROVE Next
  <2>1. PICK n \in Numbers,
             doc \in {d \in Accounts : d.active}
                     \cup {pair[2] : pair \in {pair \in Accounts \X Accounts :
                                                 pair[1].owner = pair[2].owner}} :
               AccountHistories!Record(n, doc)
    BY <1>1 DEF AccountHistories!HistoryNext
  <2>2. doc \in Accounts
    BY <2>1
  <2>3. WriteAccount(n, doc)
    BY <1>1, <2>1, <2>2, AccountWriteIsRecord DEF WriteAccount, ownVars
  <2> QED  BY <2>2, <2>3 DEF Next
<1>2. ASSUME ProfileHistories!HistoryNext, UNCHANGED accounts PROVE Next
  <2>1. PICK u \in Users,
             email \in (Emails \cup {Null})
                       \cup {pair[2] : pair \in (Emails \cup {Null}) \X (Emails \cup {Null})} :
               ProfileHistories!Record(u, email)
    BY <1>2 DEF ProfileHistories!HistoryNext
  <2>2. email \in Emails \cup {Null}
    BY <2>1
  <2>3. WriteProfile(u, email)
    BY <1>2, <2>1, <2>2, ProfileWriteIsRecord DEF WriteProfile, ownVars
  <2> QED  BY <2>2, <2>3 DEF Next
<1> QED  BY <1>1, <1>2

-----------------------------------------------------------------------------
(* What the mailbox is worth: no request is mailed twice.  A request that  *)
(* waits for its answer has a number of its own, which no mail has.        *)

NumbersApart ==
  /\ \A h \in Handlers : AwaitingView[h] # Null =>
       \A k \in 1 .. Len(OutboxView) : OutboxView[k].id # AwaitingView[h].id
  /\ \A g, h \in Handlers :
       AwaitingView[g] # Null /\ AwaitingView[h] # Null
         /\ AwaitingView[g].id = AwaitingView[h].id => g = h

BoxInv == Box!MailboxTypeOK /\ Box!MailedOnce /\ NumbersApart

LEMMA BoxStep ==
  ASSUME BoxInv, [Box!MailboxNext]_(Box!mailboxVars)
  PROVE  BoxInv'
<1> DEFINE out == OutboxView
           out1 == OutboxView'
           wait == AwaitingView
           wait1 == AwaitingView'
           told == OutcomeView
           told1 == OutcomeView'
           R == Box!Requests
           M == Box!Outgoing
           T == {"none", "sent", "refused", "failed"}
           Once(o) == \A j, k \in 1 .. Len(o) : o[j].id = o[k].id => j = k
           Apart(o, w) ==
             /\ \A h \in Handlers : w[h] # Null => \A k \in 1 .. Len(o) : o[k].id # w[h].id
             /\ \A g, h \in Handlers :
                  w[g] # Null /\ w[h] # Null /\ w[g].id = w[h].id => g = h
           Good(o, w, t) ==
             /\ o \in Seq(M) /\ w \in [Handlers -> R \cup {Null}] /\ t \in [Handlers -> T]
             /\ Once(o) /\ Apart(o, w)
<1>1. (BoxInv <=> Good(out, wait, told)) /\ (BoxInv' <=> Good(out1, wait1, told1))
  BY DEF BoxInv, NumbersApart, Box!MailboxTypeOK, Box!MailedOnce, Box!Requests, Box!Outgoing
<1>2. R = [id: 1 .. MaxRequests, owner: Users, named: Emails \cup {Null}]
      /\ M = [id: 1 .. MaxRequests, owner: Users, to: Emails]
  BY DEF Box!Requests, Box!Outgoing
<1>3. \A r \in R : r.id \in 1 .. MaxRequests /\ r.owner \in Users
  BY <1>2
<1>4. ASSUME NEW h \in Handlers, NEW r \in R, Box!Submit(h, r)
      PROVE  Good(out1, wait1, told1)
  <2>1. /\ wait[h] = Null /\ out1 = out
        /\ wait1 = [wait EXCEPT ![h] = r] /\ told1 = [told EXCEPT ![h] = "none"]
        /\ \A k \in 1 .. Len(out) : out[k].id # r.id
        /\ \A g \in Handlers : wait[g] # Null => wait[g].id # r.id
    BY <1>4 DEF Box!Submit, Box!Unused
  <2> HIDE DEF out, wait, told, out1, wait1, told1, R, M
  <2>2. Good(out, wait, told)
    BY <1>1
  <2>3. wait1 \in [Handlers -> R \cup {Null}] /\ told1 \in [Handlers -> T]
    BY <2>1, <2>2
  <2>4. \A g \in Handlers : wait1[g] = IF g = h THEN r ELSE wait[g]
    BY <2>1, <2>2
  <2>5. Apart(out, wait1)
    BY <2>1, <2>2, <2>4
  <2> QED  BY <2>1, <2>2, <2>3, <2>5
<1>5. ASSUME NEW h \in Handlers, NEW to \in Emails, Box!Deliver(h, to)
      PROVE  Good(out1, wait1, told1)
  <2> DEFINE mail == [id |-> wait[h].id, owner |-> wait[h].owner, to |-> to]
  <2>1. /\ wait[h] # Null /\ out1 = Append(out, mail)
        /\ wait1 = [wait EXCEPT ![h] = Null]
        /\ \E s \in {"sent", "failed"} : told1 = [told EXCEPT ![h] = s]
    BY <1>5 DEF Box!Deliver
  <2> HIDE DEF out, wait, told, out1, wait1, told1, R, M
  <2>2. Good(out, wait, told)
    BY <1>1
  <2>3. mail \in M /\ mail.id = wait[h].id
    <3>1. wait[h] \in R
      BY <2>1, <2>2
    <3> QED  BY <1>2, <1>3, <3>1
  <2> HIDE DEF mail
  <2>4. /\ out1 \in Seq(M) /\ Len(out) \in Nat /\ Len(out1) = Len(out) + 1
        /\ out1[Len(out) + 1] = mail /\ \A k \in 1 .. Len(out) : out1[k] = out[k]
    BY <2>1, <2>2, <2>3
  <2>5. wait1 \in [Handlers -> R \cup {Null}] /\ told1 \in [Handlers -> T]
    BY <2>1, <2>2
  <2>6. \A g \in Handlers : wait1[g] = IF g = h THEN Null ELSE wait[g]
    BY <2>1, <2>2
  <2> DEFINE n == Len(out)
  <2>7. \A k \in 1 .. Len(out1) : k \in 1 .. n \/ k = n + 1
    BY <2>4
  <2>8. \A k \in 1 .. n : out[k].id # mail.id
    BY <2>1, <2>2, <2>3
  <2> HIDE DEF n
  <2>9. Once(out1)
    BY <2>2, <2>4, <2>7, <2>8 DEF n
  <2>10. Apart(out1, wait1)
    <3>1. ASSUME NEW g \in Handlers, wait1[g] # Null, NEW k \in 1 .. Len(out1)
          PROVE  out1[k].id # wait1[g].id
      <4>1. g # h /\ wait1[g] = wait[g] /\ wait[g].id # mail.id
        BY <2>1, <2>2, <2>3, <2>6, <3>1
      <4> QED  BY <2>2, <2>4, <2>7, <3>1, <4>1 DEF n
    <3>2. \A f, g \in Handlers :
            wait1[f] # Null /\ wait1[g] # Null /\ wait1[f].id = wait1[g].id => f = g
      BY <2>2, <2>6
    <3> QED  BY <3>1, <3>2
  <2> QED  BY <2>4, <2>5, <2>9, <2>10
<1>6. ASSUME NEW h \in Handlers, Box!TurnAway(h)
      PROVE  Good(out1, wait1, told1)
  <2>1. /\ out1 = out /\ wait1 = [wait EXCEPT ![h] = Null]
        /\ \E s \in {"refused", "failed"} : told1 = [told EXCEPT ![h] = s]
    BY <1>6 DEF Box!TurnAway
  <2> HIDE DEF out, wait, told, out1, wait1, told1, R, M
  <2>2. Good(out, wait, told)
    BY <1>1
  <2>3. wait1 \in [Handlers -> R \cup {Null}] /\ told1 \in [Handlers -> T]
    BY <2>1, <2>2
  <2>4. \A g \in Handlers : wait1[g] = IF g = h THEN Null ELSE wait[g]
    BY <2>1, <2>2
  <2> QED  BY <2>1, <2>2, <2>3, <2>4
<1>7. CASE UNCHANGED (Box!mailboxVars)
  <2>1. out1 = out /\ wait1 = wait /\ told1 = told
    BY <1>7 DEF Box!mailboxVars
  <2> HIDE DEF out, wait, told, out1, wait1, told1, R, M
  <2> QED  BY <1>1, <2>1
<1> QED
  <2> HIDE DEF Good
  <2> QED  BY <1>1, <1>4, <1>5, <1>6, <1>7 DEF Box!MailboxNext

\* However the dialogue fails and whatever else is written, no two mails stem from
\* one request: the mailbox keeps what its name promises, and the service is one.
THEOREM MailedAtMostOnce ==
  /\ Box!MailboxSpec => []Box!MailedOnce
  /\ Spec => []Box!MailedOnce
<1>1. Box!MailboxInit => BoxInv
  <2>1. OutboxView = << >> => Len(OutboxView) = 0
    OBVIOUS
  <2> QED  BY <2>1 DEF Box!MailboxInit, BoxInv, NumbersApart, Box!MailboxTypeOK, Box!MailedOnce
<1>2. BoxInv /\ [Box!MailboxNext]_(Box!mailboxVars) => BoxInv'
  BY BoxStep
<1>3. BoxInv => Box!MailedOnce
  BY DEF BoxInv
<1>4. Box!MailboxSpec => []Box!MailedOnce
  BY <1>1, <1>2, <1>3, PTL DEF Box!MailboxSpec
<1> QED  BY <1>4, ServiceIsMailbox, PTL DEF ImplementsMailbox

=============================================================================
