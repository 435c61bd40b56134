---------------------------- MODULE AccountLedger ----------------------------
(***************************************************************************)
(* What the account endpoints promise about one account: it is opened      *)
(* once, its currency may be changed while it is active, and closing it is *)
(* final.  Owner, type and balance never change after the account was      *)
(* opened.  Requests, reads, stamps and failures are left out:             *)
(* AccountService implements this ledger when no two writing requests for  *)
(* the same account overlap.                                               *)
(***************************************************************************)
EXTENDS Naturals

CONSTANTS
  Numbers,     \* account numbers
  Users,       \* JWT subjects
  Types,       \* account types
  Currencies,  \* currency codes
  Deposits,    \* initial deposits
  Reasons,     \* closure reasons
  Null         \* the absence of a value (Python's None)

VARIABLE ledger    \* the entry of every account number, Null before it is opened

ActiveEntry ==
  [owner: Users, type: Types, balance: Deposits, currency: Currencies,
   status: {"ACTIVE"}, reason: {Null}]

ClosedEntry ==
  [owner: Users, type: Types, balance: Deposits, currency: Currencies,
   status: {"CLOSED"}, reason: Reasons]

LedgerTypeOK == ledger \in [Numbers -> ActiveEntry \cup ClosedEntry \cup {Null}]

-----------------------------------------------------------------------------

LedgerInit == ledger = [n \in Numbers |-> Null]

\* An unused number gets an active account.
Open(n) ==
  /\ ledger[n] = Null
  /\ \E e \in ActiveEntry : ledger' = [ledger EXCEPT ![n] = e]

\* The owner changes the currency of an active account.
Amend(n) ==
  /\ ledger[n] \in ActiveEntry
  /\ \E c \in Currencies : ledger' = [ledger EXCEPT ![n].currency = c]

\* The owner closes an active account, for a reason that stays on record.
Close(n) ==
  /\ ledger[n] \in ActiveEntry
  /\ \E r \in Reasons :
       ledger' = [ledger EXCEPT ![n].status = "CLOSED", ![n].reason = r]

LedgerNext == \E n \in Numbers : Open(n) \/ Amend(n) \/ Close(n)

LedgerSpec == LedgerInit /\ [][LedgerNext]_ledger

\* What is known of a closed account, its reason too, never changes.
ClosedIsFinal ==
  [][\A n \in Numbers : ledger[n] \in ClosedEntry \ {Null} => ledger'[n] = ledger[n]]_ledger

=============================================================================
