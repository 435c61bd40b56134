--------------------------- MODULE DocumentHistory ---------------------------
(***************************************************************************)
(* What a component that reads a container may rely on, and what the       *)
(* component that writes it guarantees, however its requests race: every   *)
(* id has a history of documents that only grows, one document at a time,  *)
(* from a document it may begin with to documents that may come later.     *)
(* AccountService and UserProfileService implement this with the part of   *)
(* their documents that StatementService reads, and StatementService's     *)
(* environment takes every step it allows.                                 *)
(***************************************************************************)
EXTENDS Naturals, Sequences

CONSTANTS
  Ids,     \* document ids
  First,   \* the documents a history may begin with
  Later    \* the pairs of a first document and one that may come after it

VARIABLE history    \* the versions committed for every id

HistoryInit == history = [i \in Ids |-> << >>]

MayFollow(versions, doc) ==
  IF versions = << >> THEN doc \in First ELSE <<versions[1], doc>> \in Later

Record(i, doc) ==
  /\ MayFollow(history[i], doc)
  /\ history' = [history EXCEPT ![i] = Append(@, doc)]

HistoryNext ==
  \E i \in Ids, doc \in First \cup {pair[2] : pair \in Later} : Record(i, doc)

HistorySpec == HistoryInit /\ [][HistoryNext]_history

=============================================================================
