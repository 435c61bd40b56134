------------------------- MODULE UserProfileService -------------------------
(***************************************************************************)
(* The user profile component: the routes of api/profile.py, the service   *)
(* of services/user_profile_service.py and the repository of               *)
(* repository/cosmos_user_profile_repository.py, over one Cosmos DB        *)
(* container whose ids and partition keys are the owners' JWT subjects.    *)
(*                                                                         *)
(* As in AccountService, a handler is the coroutine that serves one        *)
(* request and gives up control at every await; a reply with status 500    *)
(* stands for every failure the client cannot tell apart.                  *)
(*                                                                         *)
(* line1, city, state, postal_code and country of an address are required, *)
(* so a patch supplies all five of them or none: they are one value here,  *)
(* the place.  line2 is optional.                                          *)
(***************************************************************************)
EXTENDS VersionedContainer

CONSTANTS
  Handlers,     \* slots for requests being served at the same time
  Users,        \* JWT subjects
  Emails,       \* e-mail addresses
  Mobiles,      \* mobile numbers
  Places,       \* the required lines of an address
  Lines,        \* second address lines
  Null,         \* the absence of a value (Python's None)
  MaxRequests   \* bound: how many requests are accepted in all

Addresses == [place: Places, line2: Lines \cup {Null}]

ASSUME ProfileAssumption ==
  /\ MaxRequests \in Nat
  /\ Null \notin Emails \cup Mobiles \cup Places \cup Lines \cup Addresses

VARIABLES
  container,    \* the versions committed of every user's profile
  clock,        \* the value datetime.now(timezone.utc) last returned
  accepted,     \* the number of requests accepted so far
  pc,           \* what each handler will do next
  call,         \* the request each handler serves or served last
  seen,         \* the version the handler read; 0 if it found no profile
  stamp,        \* the "now" the handler captured
  reply         \* the answer to the last request of each handler

vars == <<container, clock, accepted, pc, call, seen, stamp, reply>>

-----------------------------------------------------------------------------
(* Requests, documents and replies.                                        *)

PatchCall == [op: {"patch"}, caller: Users, email: Emails \cup {Null},
              mobile: Mobiles \cup {Null}, address: Addresses \cup {Null}]
GetCall == [op: {"get"}, caller: Users]

Calls == PatchCall \cup GetCall

\* A handler that has not served a request yet.
NoCall == [op |-> "none"]

Documents ==
  [owner: Users, email: Emails \cup {Null}, mobile: Mobiles \cup {Null},
   address: Addresses \cup {Null}, createdAt: Nat, updatedAt: Nat]

\* Mutant: the skeleton has no created_at yet.
SkeletonWithoutCreation(u, t) ==
  [owner |-> u, email |-> Null, mobile |-> Null, address |-> Null,
   createdAt |-> Null, updatedAt |-> t]

\* The skeleton update_profile starts from when it finds no profile.
Skeleton(u, t) ==
  [owner |-> u, email |-> Null, mobile |-> Null, address |-> Null,
   createdAt |-> t, updatedAt |-> t]

\* A scalar field of the payload replaces the stored one only if it is given.
MergedField(old, new) == IF new = Null THEN old ELSE new

\* Mutant: the address of the payload replaces the stored one as a whole.
ClobberedAddress(old, new) == IF new = Null THEN old ELSE new

\* Mutant: an address that is stored already is kept.
KeptAddress(old, new) == IF old = Null THEN new ELSE old

\* The address is merged field by field; only line2 can be left out.
MergedAddress(old, new) ==
  IF new = Null THEN old
  ELSE [place |-> new.place,
        line2 |-> IF old = Null THEN new.line2 ELSE MergedField(old.line2, new.line2)]

\* The document update_profile writes back.
Merged(doc, c, t) ==
  [doc EXCEPT !.email = MergedField(@, c.email), !.mobile = MergedField(@, c.mobile),
              !.address = MergedAddress(@, c.address), !.updatedAt = t]

\* UserProfileResponse requires an e-mail address and a mobile number.
Complete(doc) == doc.email # Null /\ doc.mobile # Null

\* A reply names the version of the caller's profile it shows.
NoReply == [status |-> 0, version |-> 0]
Statuses == {0, 200, 404, 500}

Doc(u, i) == container[u][i]

-----------------------------------------------------------------------------
(* Actions.                                                                *)

Init ==
  /\ container = [u \in Users |-> EmptyHistory]
  /\ clock = 1
  /\ accepted = 0
  /\ pc = [h \in Handlers |-> "idle"]
  /\ call = [h \in Handlers |-> NoCall]
  /\ seen = [h \in Handlers |-> 0]
  /\ stamp = [h \in Handlers |-> 0]
  /\ reply = [h \in Handlers |-> NoReply]

\* The response of a route, after which the handler forgets its local variables.
Respond(h, status, version) ==
  /\ pc' = [pc EXCEPT ![h] = "idle"]
  /\ reply' = [reply EXCEPT ![h] = [status |-> status, version |-> version]]
  /\ seen' = [seen EXCEPT ![h] = 0]
  /\ stamp' = [stamp EXCEPT ![h] = 0]

\* A request reaches its service method, which runs to its first await.
\* update_profile captures "now" on the way, before it reads the profile.
Accept(h, c) ==
  /\ pc[h] = "idle" /\ accepted < MaxRequests
  /\ accepted' = accepted + 1
  /\ call' = [call EXCEPT ![h] = c]
  /\ pc' = [pc EXCEPT ![h] = "read"]
  /\ \/ c.op = "get" /\ UNCHANGED <<clock, stamp>>
     \/ c.op = "patch" /\ \E t \in {clock, clock + 1} :
          clock' = t /\ stamp' = [stamp EXCEPT ![h] = t]
  /\ reply' = [reply EXCEPT ![h] = NoReply]
  /\ UNCHANGED <<container, seen>>

\* get_profile: the profile, if it is there and UserProfileResponse takes it.
AnswerGet(h) ==
  /\ pc[h] = "read" /\ call[h].op = "get"
  /\ \E i \in Visible(container[call[h].caller]) :
       \/ i = 0 /\ Respond(h, 404, 0)
       \/ /\ i # 0
          /\ IF Complete(Doc(call[h].caller, i)) THEN Respond(h, 200, i)
                                                 ELSE Respond(h, 500, 0)
  /\ UNCHANGED <<container, clock, accepted, call>>

\* update_profile reads the profile it is going to merge the payload into.
ReadProfile(h) ==
  /\ pc[h] = "read" /\ call[h].op = "patch"
  /\ \E i \in Visible(container[call[h].caller]) : seen' = [seen EXCEPT ![h] = i]
  /\ pc' = [pc EXCEPT ![h] = "upsert"]
  /\ UNCHANGED <<container, clock, accepted, call, stamp, reply>>

\* What update_profile merges the payload into.
Base(h) == IF seen[h] = 0 THEN Skeleton(call[h].caller, stamp[h])
                          ELSE Doc(call[h].caller, seen[h])

\* upsert_item: the whole document, without an etag.  The document is stored
\* before UserProfileResponse refuses it, or its answer is lost.
UpsertProfile(h) ==
  /\ pc[h] = "upsert"
  /\ LET u == call[h].caller
         doc == Merged(Base(h), call[h], stamp[h])
     IN  /\ container' = Commit(container, u, doc)
         /\ \/ Complete(doc) /\ Respond(h, 200, Newest(container[u]) + 1)
            \/ Respond(h, 500, 0)
  /\ UNCHANGED <<clock, accepted, call>>

\* A Cosmos call fails before it takes effect, or the replica stops.
FailRequest(h) ==
  /\ pc[h] \in {"read", "upsert"}
  /\ Respond(h, 500, 0)
  /\ UNCHANGED <<container, clock, accepted, call>>

\* All the requests of the bounded instance have been answered.
Quiescent ==
  /\ accepted = MaxRequests /\ \A h \in Handlers : pc[h] = "idle"
  /\ UNCHANGED vars

HandlerStep(h) ==
  AnswerGet(h) \/ ReadProfile(h) \/ UpsertProfile(h) \/ FailRequest(h)

Next ==
  \/ \E h \in Handlers : (\E c \in Calls : Accept(h, c)) \/ HandlerStep(h)
  \/ Quiescent

Spec == Init /\ [][Next]_vars

\* The patches of one user do not overlap: the client waits for the answer to
\* one before it sends the next.
Patching(h) == pc[h] # "idle" /\ call[h].op = "patch"
OneWriter ==
  \A g, h \in Handlers :
    Patching(g) /\ Patching(h) /\ call[g].caller = call[h].caller => g = h

SerialSpec == Init /\ [][Next /\ OneWriter']_vars

-----------------------------------------------------------------------------
(* Properties.                                                             *)

\* Every variable holds values of the kind its code counterpart holds.
TypeOK ==
  /\ container \in [Users -> Seq(Documents)]
  /\ clock \in Nat /\ accepted \in 0 .. MaxRequests
  /\ pc \in [Handlers -> {"idle", "read", "upsert"}]
  /\ call \in [Handlers -> Calls \cup {NoCall}]
  /\ seen \in [Handlers -> Nat] /\ stamp \in [Handlers -> Nat]
  /\ reply \in [Handlers -> [status: Statuses, version: Nat]]

Versions(u) == 1 .. Newest(container[u])

\* The fields of a document or of a patch, the address taken apart.
FieldsOf(r) ==
  [email |-> r.email, mobile |-> r.mobile,
   place |-> IF r.address = Null THEN Null ELSE r.address.place,
   line2 |-> IF r.address = Null THEN Null ELSE r.address.line2]

\* Those that have a value, and their values.
Given(r) ==
  [f \in {g \in DOMAIN FieldsOf(r) : FieldsOf(r)[g] # Null} |-> FieldsOf(r)[f]]

\* In this step handler h commits a document.
Upserting(h) ==
  /\ pc[h] = "upsert" /\ pc'[h] = "idle"
  /\ container'[call[h].caller] # container[call[h].caller]

\* No other patch of the profile was committed since handler h read it, and h did
\* not read an old version.
BasedOnNewest(h) == seen[h] = Newest(container[call[h].caller])

\* The fields a step of h must leave alone: they have a value in the newest
\* version and the patch does not supply them.
Omitted(h) ==
  LET current == container[call[h].caller][Newest(container[call[h].caller])]
  IN  DOMAIN Given(current) \ DOMAIN Given(call[h])

\* "Only supplied (non-null) fields are merged; omitted fields are unchanged."
OmittedKept(h) ==
  LET history == container'[call[h].caller]
      last == Newest(history)
  IN  last > 1 => \A f \in Omitted(h) :
        /\ f \in DOMAIN Given(history[last])
        /\ Given(history[last])[f] = Given(history[last - 1])[f]

\* A patch leaves the fields it omits as they are, whatever other patches of the
\* same profile are being served ("omitted fields are unchanged").
OmittedFieldsUnchanged == [][\A h \in Handlers : Upserting(h) => OmittedKept(h)]_vars

\* It does so at least when it read the newest version: the merge itself, of the
\* nested address too, never drops a field.
FreshPatchKeepsOmitted ==
  [][\A h \in Handlers :
       Upserting(h) /\ BasedOnNewest(h) => OmittedKept(h)]_vars

\* What a patch answered 200 supplied is in the version the answer shows, and
\* that version is stored, whoever overwrites it later.
AnsweredPatchIsStored ==
  \A h \in Handlers :
    call[h].op = "patch" /\ reply[h].status = 200 =>
      /\ reply[h].version \in Versions(call[h].caller)
      /\ LET stored == Given(Doc(call[h].caller, reply[h].version))
             supplied == Given(call[h])
         IN  \A f \in DOMAIN supplied : f \in DOMAIN stored /\ stored[f] = supplied[f]

\* Every profile that is stored can be shown to its owner: a patch "creates the
\* profile if it does not yet exist".
StoredProfilesAreServed == \A u \in Users : \A i \in Versions(u) : Complete(Doc(u, i))

\* created_at is the time of the creation: "set created_at only when creating".
CreatedAtNeverChanges ==
  \A u \in Users : \A i \in Versions(u) : Doc(u, i).createdAt = Doc(u, 1).createdAt

-----------------------------------------------------------------------------
(* Refinement.                                                             *)

\* The fields a patch or a document may give, and a patch as the record sees it.
GivenFields ==
  UNION {[S -> Emails \cup Mobiles \cup Places \cup Lines] :
           S \in SUBSET {"email", "mobile", "place", "line2"}}
PatchOf(c) == [user |-> c.caller, given |-> Given(c)]
Patches == {PatchOf(c) : c \in PatchCall}

ASSUME NullAssumption == Null \notin GivenFields \cup [user: Users, given: GivenFields]

ProfilesView ==
  [u \in Users |-> IF container[u] = EmptyHistory THEN Null
                   ELSE Given(Doc(u, Newest(container[u])))]

PendingView ==
  [h \in Handlers |-> IF Patching(h) THEN PatchOf(call[h]) ELSE Null]

Record == INSTANCE ProfileRecord WITH
  Clients <- Handlers, profiles <- ProfilesView, pending <- PendingView

\* When the patches of one user do not overlap and reads are strongly consistent,
\* each patch is one atomic merge of the fields it supplies, or nothing.
ImplementsRecord == Record!RecordSpec

\* Whatever overlaps and however old the reads are, the only steps that are not
\* atomic merges of the supplied fields, or nothing, are those that commit a
\* document based on a version replaced meanwhile: a lost answer, a failed call, a
\* profile that is being created or a stale read of another handler spoils nothing.
PatchesRefineRecord ==
  [][(\A h \in Handlers : Upserting(h) => BasedOnNewest(h))
       => UNCHANGED Record!recordVars \/ Record!RecordNext]_vars

=============================================================================
