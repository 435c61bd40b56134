------------------------- MODULE VersionedContainer -------------------------
(***************************************************************************)
(* The Azure Cosmos DB container as the repositories of this program use   *)
(* it: point reads, create_item, replace_item / upsert_item, and queries   *)
(* that visit one logical partition after another.                         *)
(*                                                                         *)
(* A container maps each document id (which is also its partition key) to  *)
(* the sequence of versions committed for it, oldest first; an id without  *)
(* versions has no document.  A version index stands for the document it   *)
(* selects, and index 0 for "404 Not Found".  Nothing is ever removed: no  *)
(* code path of the program calls delete_item.                             *)
(*                                                                         *)
(* Every repository call opens a client of its own, so no session token    *)
(* survives from one call to the next and, at the account's default        *)
(* "Session" consistency, a read may miss the newest versions.  MaxLag     *)
(* bounds how many: 0 is strong consistency.                               *)
(***************************************************************************)
EXTENDS Naturals, Sequences

CONSTANT MaxLag    \* how many of the newest versions a read may miss

ASSUME MaxLagAssumption == MaxLag \in Nat

\* No document has been created under this id.
EmptyHistory == << >>

\* The index of the newest committed version of a history; 0 if there is none.
Newest(history) == Len(history)

\* The versions a read of this history may return.
Visible(history) == {i \in 0 .. Len(history) : Len(history) <= i + MaxLag}

\* create_item: commits the first version; a second creation is a conflict.
CanCreate(history) == history = EmptyHistory

\* create_item, replace_item and upsert_item without an etag all commit the
\* document they are given, whatever the newest version has become meanwhile.
Commit(container, id, document) ==
  [container EXCEPT ![id] = Append(@, document)]

=============================================================================
