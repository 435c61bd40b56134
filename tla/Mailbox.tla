------------------------------- MODULE Mailbox -------------------------------
(***************************************************************************)
(* What POST /statements/email promises: a request is answered once, a     *)
(* mail is handed over in the step that answers it or never, and only to   *)
(* the address the request names, if it names one.  "sent" is answered     *)
(* with the mail, "refused" without it; "failed" says nothing about it.    *)
(* How dates, profile and accounts are read is left out: StatementService  *)
(* implements this, whatever else happens to its containers.               *)
(***************************************************************************)
EXTENDS Naturals, Sequences

CONSTANTS
  Clients,   \* slots for requests being served at the same time
  Ids,       \* numbers that tell requests apart
  Owners,    \* JWT subjects
  Emails,    \* e-mail addresses
  Null       \* the absence of an address or of a request

VARIABLES
  outbox,    \* the mails handed over so far, in order
  awaiting,  \* the request each client waits for, or Null
  outcome    \* what each client was told last

mailboxVars == <<outbox, awaiting, outcome>>

Requests == [id: Ids, owner: Owners, named: Emails \cup {Null}]

\* No mail and no request under way has this number.
Unused(i) ==
  /\ \A k \in 1 .. Len(outbox) : outbox[k].id # i
  /\ \A h \in Clients : awaiting[h] # Null => awaiting[h].id # i

-----------------------------------------------------------------------------

MailboxInit ==
  /\ outbox = << >>
  /\ awaiting = [h \in Clients |-> Null]
  /\ outcome = [h \in Clients |-> "none"]

Submit(h, r) ==
  /\ awaiting[h] = Null /\ Unused(r.id)
  /\ awaiting' = [awaiting EXCEPT ![h] = r]
  /\ outcome' = [outcome EXCEPT ![h] = "none"]
  /\ UNCHANGED outbox

\* The mail is handed over, and its client learns of it or not.
Deliver(h, to) ==
  /\ awaiting[h] # Null /\ awaiting[h].named \in {Null, to}
  /\ outbox' = Append(outbox, [id |-> awaiting[h].id, owner |-> awaiting[h].owner,
                               to |-> to])
  /\ awaiting' = [awaiting EXCEPT ![h] = Null]
  /\ \E told \in {"sent", "failed"} : outcome' = [outcome EXCEPT ![h] = told]

\* The request ends without a mail; it may be turned away as soon as it arrives.
TurnAway(h) ==
  /\ awaiting' = [awaiting EXCEPT ![h] = Null]
  /\ \E told \in {"refused", "failed"} : outcome' = [outcome EXCEPT ![h] = told]
  /\ UNCHANGED outbox

MailboxNext ==
  \E h \in Clients :
    \/ \E r \in Requests : Submit(h, r)
    \/ \E to \in Emails : Deliver(h, to)
    \/ TurnAway(h)

MailboxSpec == MailboxInit /\ [][MailboxNext]_mailboxVars

Outgoing == [id: Ids, owner: Owners, to: Emails]

MailboxTypeOK ==
  /\ outbox \in Seq(Outgoing) /\ awaiting \in [Clients -> Requests \cup {Null}]
  /\ outcome \in [Clients -> {"none", "sent", "refused", "failed"}]

\* No request is mailed twice.
MailedOnce == \A j, k \in 1 .. Len(outbox) : outbox[j].id = outbox[k].id => j = k

=============================================================================
