---------------------- MODULE UserProfileServiceProofs ----------------------
(***************************************************************************)
(* Theorems about UserProfileService for every value of its constants.     *)
(*                                                                         *)
(* TypeOK is not inductive: that an upsert stores a document needs to know *)
(* that the handler serves a patch and that the version it read exists.    *)
(***************************************************************************)
EXTENDS UserProfileService, TLAPS

\* What the step a handler is at says about its request and what it read.
HandlerOK(h) ==
  /\ pc[h] = "read" => call[h] \in Calls
  /\ pc[h] = "upsert" => /\ call[h] \in PatchCall
                         /\ seen[h] \in 0 .. Len(container[call[h].caller])

HandlersInv == TypeOK /\ \A h \in Handlers : HandlerOK(h)

-----------------------------------------------------------------------------
(* Lemmas about requests and documents.                                    *)

\* The two kinds of request are told apart by their operation.
LEMMA CallKinds ==
  ASSUME NEW c \in Calls
  PROVE  /\ c.caller \in Users
         /\ c.op = "patch" => c \in PatchCall
         /\ c.op # "patch" => c \in GetCall
  BY DEF Calls, PatchCall, GetCall

\* Merging an address into none or into another one yields an address.
LEMMA MergedAddressIsAddress ==
  ASSUME NEW old \in Addresses \cup {Null}, NEW new \in Addresses \cup {Null}
  PROVE  MergedAddress(old, new) \in Addresses \cup {Null}
<1>1. CASE new = Null
  BY <1>1 DEF MergedAddress
<1>2. CASE new \in Addresses /\ new # Null
  <2>1. new.place \in Places /\ new.line2 \in Lines \cup {Null}
    BY <1>2 DEF Addresses
  <2>2. old # Null => old.line2 \in Lines \cup {Null}
    BY DEF Addresses
  <2> QED  BY <1>2, <2>1, <2>2 DEF MergedAddress, MergedField, Addresses
<1> QED  BY <1>1, <1>2

\* What update_profile writes is a document.
LEMMA MergedIsDocument ==
  ASSUME NEW doc \in Documents, NEW c \in PatchCall, NEW t \in Nat
  PROVE  Merged(doc, c, t) \in Documents
<1>1. MergedAddress(doc.address, c.address) \in Addresses \cup {Null}
  BY MergedAddressIsAddress DEF Documents, PatchCall
<1>2. /\ MergedField(doc.email, c.email) \in Emails \cup {Null}
      /\ MergedField(doc.mobile, c.mobile) \in Mobiles \cup {Null}
  BY DEF MergedField, Documents, PatchCall
<1> QED  BY <1>1, <1>2 DEF Merged, Documents

\* What it merges into is a document too.
LEMMA BaseIsDocument ==
  ASSUME HandlersInv, NEW h \in Handlers, pc[h] = "upsert"
  PROVE  /\ call[h] \in PatchCall /\ call[h].caller \in Users /\ stamp[h] \in Nat
         /\ container[call[h].caller] \in Seq(Documents)
         /\ Base(h) \in Documents
<1>1. /\ call[h] \in PatchCall /\ call[h].caller \in Users /\ stamp[h] \in Nat
      /\ container[call[h].caller] \in Seq(Documents)
      /\ seen[h] \in 0 .. Len(container[call[h].caller])
  BY DEF HandlersInv, HandlerOK, TypeOK, PatchCall
<1>2. CASE seen[h] = 0
  BY <1>1, <1>2 DEF Base, Skeleton, Documents
<1>3. CASE seen[h] # 0
  BY <1>1, <1>3 DEF Base, Doc
<1> QED  BY <1>1, <1>2, <1>3

-----------------------------------------------------------------------------
(* HandlersInv is inductive: one step per action.                          *)

LEMMA HandlersInvInit == Init => HandlersInv
  BY ProfileAssumption DEF Init, HandlersInv, HandlerOK, TypeOK, EmptyHistory, NoReply,
     Statuses

\* A response that leaves requests and documents alone keeps HandlersInv.
LEMMA RespondKeepsInv ==
  ASSUME HandlersInv, NEW h \in Handlers, NEW s \in Statuses, NEW i \in Nat,
         Respond(h, s, i), UNCHANGED <<container, clock, accepted, call>>
  PROVE  HandlersInv'
<1>1. TypeOK'
  BY DEF HandlersInv, TypeOK, Respond
<1>2. ASSUME NEW g \in Handlers PROVE HandlerOK(g)'
  BY <1>2 DEF HandlersInv, HandlerOK, TypeOK, Respond
<1> QED  BY <1>1, <1>2 DEF HandlersInv

\* A document is committed for the caller of handler h, which answers.
LEMMA UpsertEffect ==
  ASSUME HandlersInv, NEW h \in Handlers, UpsertProfile(h)
  PROVE  /\ call[h] \in PatchCall /\ call[h].caller \in Users
         /\ Base(h) \in Documents /\ stamp[h] \in Nat
         /\ Merged(Base(h), call[h], stamp[h]) \in Documents
         /\ container' \in [Users -> Seq(Documents)]
         /\ Len(container[call[h].caller]) \in Nat
         /\ container'[call[h].caller]
              = Append(container[call[h].caller], Merged(Base(h), call[h], stamp[h]))
         /\ \A u \in Users : u # call[h].caller => container'[u] = container[u]
<1> DEFINE doc == Merged(Base(h), call[h], stamp[h])
           u == call[h].caller
<1>1. /\ pc[h] = "upsert" /\ container' = Commit(container, u, doc)
      /\ container \in [Users -> Seq(Documents)]
  BY DEF UpsertProfile, HandlersInv, TypeOK
<1>2. /\ call[h] \in PatchCall /\ u \in Users /\ stamp[h] \in Nat
      /\ container[u] \in Seq(Documents) /\ Base(h) \in Documents
  BY <1>1, BaseIsDocument
<1>3. doc \in Documents
  BY <1>2, MergedIsDocument
<1>4. Len(container[u]) \in Nat
  BY <1>2
<1> HIDE DEF doc, u
<1>5. /\ container' \in [Users -> Seq(Documents)]
      /\ container'[u] = Append(container[u], doc)
      /\ \A v \in Users : v # u => container'[v] = container[v]
  BY <1>1, <1>2, <1>3 DEF Commit
<1> QED  BY <1>2, <1>3, <1>4, <1>5 DEF doc, u

\* HandlersInv is kept by every step.
LEMMA HandlersInvStep == HandlersInv /\ [Next]_vars => HandlersInv'
<1> SUFFICES ASSUME HandlersInv, [Next]_vars PROVE HandlersInv'
  OBVIOUS
<1>1. ASSUME NEW h \in Handlers, NEW c \in Calls, Accept(h, c) PROVE HandlersInv'
  <2>1. pc' = [pc EXCEPT ![h] = "read"] /\ call' = [call EXCEPT ![h] = c]
        /\ UNCHANGED <<container, seen>>
    BY <1>1 DEF Accept
  <2>2. clock' \in Nat /\ stamp' \in [Handlers -> Nat]
    <3>1. clock \in Nat /\ stamp \in [Handlers -> Nat]
      BY DEF HandlersInv, TypeOK
    <3>2. CASE UNCHANGED <<clock, stamp>>
      BY <3>1, <3>2
    <3>3. CASE \E t \in {clock, clock + 1} :
                 clock' = t /\ stamp' = [stamp EXCEPT ![h] = t]
      BY <3>1, <3>3
    <3> QED  BY <1>1, <3>2, <3>3 DEF Accept
  <2>3. accepted' \in 0 .. MaxRequests
    BY <1>1, ProfileAssumption DEF Accept, HandlersInv, TypeOK
  <2>4. reply' \in [Handlers -> [status: Statuses, version: Nat]]
    BY <1>1 DEF Accept, HandlersInv, TypeOK, NoReply, Statuses
  <2>5. TypeOK'
    BY <2>1, <2>2, <2>3, <2>4 DEF HandlersInv, TypeOK
  <2>6. ASSUME NEW g \in Handlers PROVE HandlerOK(g)'
    BY <2>1, <2>6 DEF HandlersInv, HandlerOK, TypeOK
  <2> QED  BY <2>5, <2>6 DEF HandlersInv
<1>2. ASSUME NEW h \in Handlers, AnswerGet(h) PROVE HandlersInv'
  <2>1. call[h] \in Calls /\ container[call[h].caller] \in Seq(Documents)
    BY <1>2, CallKinds DEF AnswerGet, HandlersInv, HandlerOK, TypeOK
  <2>2. PICK i \in Visible(container[call[h].caller]), s \in {200, 404, 500} :
          Respond(h, s, 0) \/ Respond(h, s, i)
    BY <1>2 DEF AnswerGet
  <2>3. i \in Nat /\ s \in Statuses
    BY <2>1 DEF Visible, Statuses
  <2> QED  BY <1>2, <2>2, <2>3, RespondKeepsInv DEF AnswerGet
<1>3. ASSUME NEW h \in Handlers, ReadProfile(h) PROVE HandlersInv'
  <2>1. /\ call[h] \in PatchCall /\ call[h].caller \in Users
        /\ container[call[h].caller] \in Seq(Documents)
    BY <1>3, CallKinds DEF ReadProfile, HandlersInv, HandlerOK, TypeOK
  <2>2. PICK i \in Visible(container[call[h].caller]) :
          seen' = [seen EXCEPT ![h] = i]
    BY <1>3 DEF ReadProfile
  <2>3. i \in Nat /\ i \in 0 .. Len(container[call[h].caller])
    BY <2>1 DEF Visible
  <2>4. pc' = [pc EXCEPT ![h] = "upsert"]
        /\ UNCHANGED <<container, clock, accepted, call, stamp, reply>>
    BY <1>3 DEF ReadProfile
  <2>5. TypeOK'
    BY <2>2, <2>3, <2>4 DEF HandlersInv, TypeOK
  <2>6. ASSUME NEW g \in Handlers PROVE HandlerOK(g)'
    BY <2>1, <2>2, <2>3, <2>4, <2>6 DEF HandlersInv, HandlerOK, TypeOK
  <2> QED  BY <2>5, <2>6 DEF HandlersInv
<1>4. ASSUME NEW h \in Handlers, UpsertProfile(h) PROVE HandlersInv'
  <2> DEFINE u == call[h].caller
             doc == Merged(Base(h), call[h], stamp[h])
  <2>1. /\ call[h] \in PatchCall /\ u \in Users /\ Len(container[u]) \in Nat
        /\ container' \in [Users -> Seq(Documents)]
        /\ \A v \in Users : v # u => container'[v] = container[v]
    BY <1>4, UpsertEffect
  <2>2. Len(container'[u]) = Len(container[u]) + 1
    <3>1. container'[u] = Append(container[u], doc) /\ doc \in Documents
      BY <1>4, UpsertEffect
    <3>2. container[u] \in Seq(Documents)
      BY <2>1 DEF HandlersInv, TypeOK
    <3> HIDE DEF doc, u
    <3> QED  BY <3>1, <3>2
  <2>3. PICK s \in Statuses, i \in Nat : Respond(h, s, i)
    BY <1>4, <2>1 DEF UpsertProfile, Statuses, Newest
  <2>4. UNCHANGED <<clock, accepted, call>>
    BY <1>4 DEF UpsertProfile
  <2>5. TypeOK'
    BY <2>1, <2>3, <2>4 DEF HandlersInv, TypeOK, Respond
  <2>6. ASSUME NEW g \in Handlers PROVE HandlerOK(g)'
    <3>1. CASE g = h
      BY <2>3, <3>1 DEF HandlersInv, TypeOK, HandlerOK, Respond
    <3>2. CASE g # h
      <4>1. pc'[g] = pc[g] /\ seen'[g] = seen[g] /\ call'[g] = call[g] /\ HandlerOK(g)
        BY <2>3, <2>4, <3>2 DEF HandlersInv, TypeOK, Respond
      <4>2. ASSUME pc[g] = "upsert"
            PROVE  Len(container[call[g].caller]) <= Len(container'[call[g].caller])
                   /\ Len(container'[call[g].caller]) \in Nat
                   /\ Len(container[call[g].caller]) \in Nat
        <5>1. call[g].caller \in Users
          BY <4>1, <4>2 DEF HandlerOK, PatchCall
        <5>2. CASE call[g].caller = u
          BY <2>1, <2>2, <5>2
        <5>3. CASE call[g].caller # u
          BY <2>1, <5>1, <5>3 DEF HandlersInv, TypeOK
        <5> QED  BY <5>2, <5>3
      <4>3. seen[g] \in Nat
        BY DEF HandlersInv, TypeOK
      <4> QED  BY <4>1, <4>2, <4>3 DEF HandlerOK
    <3> QED  BY <3>1, <3>2
  <2> QED  BY <2>5, <2>6 DEF HandlersInv
<1>5. ASSUME NEW h \in Handlers, FailRequest(h) PROVE HandlersInv'
  BY <1>5, RespondKeepsInv DEF FailRequest, Statuses
<1>6. CASE Quiescent \/ UNCHANGED vars
  BY <1>6 DEF Quiescent, vars, HandlersInv, HandlerOK, TypeOK
<1> QED  BY <1>1, <1>2, <1>3, <1>4, <1>5, <1>6 DEF Next, HandlerStep

\* Every variable always has its type: in particular every stored profile is a
\* document, whatever patches it was merged from.
THEOREM TypeCorrect == Spec => []TypeOK
<1>1. HandlersInv => TypeOK
  BY DEF HandlersInv
<1> QED  BY <1>1, HandlersInvInit, HandlersInvStep, PTL DEF Spec

-----------------------------------------------------------------------------
(* The merge, field by field.                                              *)

\* After a merge a field has the value the patch supplies, or else the one it
\* had: the nested address included.
LEMMA MergedFields ==
  ASSUME NEW doc \in Documents, NEW c \in PatchCall, NEW t \in Nat
  PROVE  /\ DOMAIN FieldsOf(Merged(doc, c, t)) = DOMAIN FieldsOf(doc)
         /\ DOMAIN FieldsOf(c) = DOMAIN FieldsOf(doc)
         /\ \A f \in DOMAIN FieldsOf(doc) :
              FieldsOf(Merged(doc, c, t))[f] =
                IF FieldsOf(c)[f] = Null THEN FieldsOf(doc)[f] ELSE FieldsOf(c)[f]
<1> DEFINE m == Merged(doc, c, t)
<1>1. /\ m.email = MergedField(doc.email, c.email)
      /\ m.mobile = MergedField(doc.mobile, c.mobile)
      /\ m.address = MergedAddress(doc.address, c.address)
  BY DEF Merged, Documents
<1>2. /\ c.address \in Addresses \cup {Null} /\ doc.address \in Addresses \cup {Null}
  BY DEF PatchCall, Documents
<1>3. \A a \in Addresses : a # Null /\ a.place \in Places /\ a.place # Null
  BY ProfileAssumption DEF Addresses
<1>4. m.address = Null <=> doc.address = Null /\ c.address = Null
  <2>1. CASE c.address = Null
    BY <1>1, <2>1 DEF MergedAddress
  <2>2. CASE c.address # Null
    <3>1. m.address = [place |-> c.address.place, line2 |-> m.address.line2]
      BY <1>1, <2>2 DEF MergedAddress
    <3>2. c.address.place \in Places /\ m.address.line2 \in Lines \cup {Null}
      BY <1>1, <1>2, <1>3, <2>2, <3>1 DEF MergedAddress, MergedField, Addresses
    <3>3. m.address \in Addresses
      BY <3>1, <3>2 DEF Addresses
    <3> QED  BY <1>3, <2>2, <3>3
  <2> QED  BY <2>1, <2>2
<1>5. c.address # Null =>
        /\ m.address.place = c.address.place
        /\ m.address.line2 = IF c.address.line2 # Null THEN c.address.line2
                             ELSE IF doc.address = Null THEN Null ELSE doc.address.line2
  BY <1>1 DEF MergedAddress, MergedField
<1>6. c.address = Null => m.address = doc.address
  BY <1>1 DEF MergedAddress
<1> HIDE DEF m
<1>7. /\ FieldsOf(m).email = IF FieldsOf(c).email = Null THEN FieldsOf(doc).email
                             ELSE FieldsOf(c).email
      /\ FieldsOf(m).mobile = IF FieldsOf(c).mobile = Null THEN FieldsOf(doc).mobile
                              ELSE FieldsOf(c).mobile
  BY <1>1 DEF FieldsOf, MergedField
<1>8. FieldsOf(m).place = IF FieldsOf(c).place = Null THEN FieldsOf(doc).place
                          ELSE FieldsOf(c).place
  BY <1>2, <1>3, <1>4, <1>5, <1>6 DEF FieldsOf
<1>9. FieldsOf(m).line2 = IF FieldsOf(c).line2 = Null THEN FieldsOf(doc).line2
                          ELSE FieldsOf(c).line2
  BY <1>4, <1>5, <1>6 DEF FieldsOf
<1>10. \A r : DOMAIN FieldsOf(r) = {"email", "mobile", "place", "line2"}
  BY DEF FieldsOf
<1> QED  BY <1>7, <1>8, <1>9, <1>10 DEF m

\* So the fields given after a merge are those of the document, overridden by
\* those of the patch.
LEMMA GivenMerged ==
  ASSUME NEW doc \in Documents, NEW c \in PatchCall, NEW t \in Nat
  PROVE  Given(Merged(doc, c, t)) = Record!Override(Given(doc), Given(c))
<1> DEFINE m == Merged(doc, c, t)
           D == DOMAIN FieldsOf(doc)
<1>1. /\ DOMAIN FieldsOf(m) = D /\ DOMAIN FieldsOf(c) = D
      /\ \A f \in D : FieldsOf(m)[f] = IF FieldsOf(c)[f] = Null THEN FieldsOf(doc)[f]
                                        ELSE FieldsOf(c)[f]
  BY MergedFields
<1> HIDE DEF m, D
<1>2. DOMAIN Given(m) = DOMAIN Given(doc) \cup DOMAIN Given(c)
  BY <1>1 DEF Given, D
<1>3. \A f \in DOMAIN Given(m) :
        Given(m)[f] = IF f \in DOMAIN Given(c) THEN Given(c)[f] ELSE Given(doc)[f]
  BY <1>1 DEF Given, D
<1>4. Given(m) = [f \in DOMAIN Given(m) |-> Given(m)[f]]
  BY DEF Given
<1> QED  BY <1>2, <1>3, <1>4 DEF Record!Override, m

\* A patch of a missing profile gives it the fields it supplies and no others.
LEMMA GivenCreated ==
  ASSUME NEW u \in Users, NEW c \in PatchCall, NEW t \in Nat
  PROVE  Given(Merged(Skeleton(u, t), c, t)) = Given(c)
<1>1. Skeleton(u, t) \in Documents
  BY DEF Skeleton, Documents
<1>2. DOMAIN Given(Skeleton(u, t)) = {}
  BY DEF Given, FieldsOf, Skeleton
<1>3. Given(c) = [f \in DOMAIN Given(c) |-> Given(c)[f]]
  BY DEF Given
<1>4. Given(Merged(Skeleton(u, t), c, t)) = Record!Override(Given(Skeleton(u, t)), Given(c))
  BY <1>1, GivenMerged
<1> QED  BY <1>2, <1>3, <1>4 DEF Record!Override

-----------------------------------------------------------------------------
(* Commits.                                                                *)

\* Only an upsert changes the container, and a handler that commits a document
\* takes its upsert step.
LEMMA WritesAreUpserts ==
  ASSUME HandlersInv, [Next]_vars, container' # container
  PROVE  \E h \in Handlers : UpsertProfile(h)
<1>1. ASSUME NEW h \in Handlers
      PROVE  /\ \A c \in Calls : Accept(h, c) => UNCHANGED container
             /\ AnswerGet(h) \/ ReadProfile(h) \/ FailRequest(h) => UNCHANGED container
  BY DEF Accept, AnswerGet, ReadProfile, FailRequest
<1>2. ~Quiescent /\ ~UNCHANGED vars
  BY DEF Quiescent, vars
<1> QED  BY <1>1, <1>2 DEF Next, HandlerStep

\* What an upsert appends, and that the handler becomes idle.
LEMMA CommittedDocument ==
  ASSUME HandlersInv, NEW h \in Handlers, UpsertProfile(h)
  PROVE  LET u == call[h].caller
             n == Len(container[u])
         IN  /\ u \in Users /\ call[h] \in PatchCall /\ n \in Nat
             /\ stamp[h] \in Nat /\ Base(h) \in Documents
             /\ Len(container'[u]) = n + 1
             /\ container'[u][n + 1] = Merged(Base(h), call[h], stamp[h])
             /\ \A i \in 1 .. n : container'[u][i] = container[u][i]
             /\ \A v \in Users : v # u => container'[v] = container[v]
             /\ pc[h] = "upsert" /\ pc' = [pc EXCEPT ![h] = "idle"]
<1> DEFINE u == call[h].caller
           doc == Merged(Base(h), call[h], stamp[h])
<1>1. /\ u \in Users /\ call[h] \in PatchCall /\ doc \in Documents
      /\ stamp[h] \in Nat /\ Base(h) \in Documents
      /\ container'[u] = Append(container[u], doc)
      /\ \A v \in Users : v # u => container'[v] = container[v]
  BY UpsertEffect
<1>2. container[u] \in Seq(Documents)
  BY <1>1 DEF HandlersInv, TypeOK
<1>3. pc[h] = "upsert" /\ pc' = [pc EXCEPT ![h] = "idle"]
  BY DEF UpsertProfile, Respond
<1> HIDE DEF u, doc
<1>4. /\ Len(container[u]) \in Nat /\ Len(container'[u]) = Len(container[u]) + 1
      /\ container'[u][Len(container[u]) + 1] = doc
      /\ \A i \in 1 .. Len(container[u]) : container'[u][i] = container[u][i]
  BY <1>1, <1>2
<1> QED  BY <1>1, <1>3, <1>4 DEF u, doc

\* A merge of the fields of a patch keeps the fields the patch omits.
LEMMA MergeKeepsOmitted ==
  ASSUME NEW doc \in Documents, NEW c \in PatchCall, NEW t \in Nat,
         NEW f \in DOMAIN Given(doc) \ DOMAIN Given(c)
  PROVE  /\ f \in DOMAIN Given(Merged(doc, c, t))
         /\ Given(Merged(doc, c, t))[f] = Given(doc)[f]
<1> DEFINE old == Given(doc)
           new == Given(c)
<1>1. Given(Merged(doc, c, t)) = Record!Override(old, new)
  BY GivenMerged
<1> HIDE DEF old, new
<1>2. f \in DOMAIN old /\ f \notin DOMAIN new
  BY DEF old, new
<1>3. f \in DOMAIN Record!Override(old, new) /\ Record!Override(old, new)[f] = old[f]
  BY <1>2 DEF Record!Override
<1> QED  BY <1>1, <1>3 DEF old

\* The merge of an upsert that read the newest version drops no field.
LEMMA FreshUpsertKeeps ==
  ASSUME HandlersInv, [Next]_vars, NEW h \in Handlers, Upserting(h), BasedOnNewest(h)
  PROVE  OmittedKept(h)
<1> DEFINE u == call[h].caller
           n == Len(container[u])
<1>1. PICK k \in Handlers : UpsertProfile(k)
  BY WritesAreUpserts DEF Upserting
<1>2. k = h
  BY <1>1, CommittedDocument DEF Upserting, HandlersInv, TypeOK
<1>3. /\ u \in Users /\ call[h] \in PatchCall /\ n \in Nat
      /\ stamp[h] \in Nat /\ Base(h) \in Documents
      /\ Len(container'[u]) = n + 1
      /\ container'[u][n + 1] = Merged(Base(h), call[h], stamp[h])
      /\ \A i \in 1 .. n : container'[u][i] = container[u][i]
  BY <1>1, <1>2, CommittedDocument
<1>4. UNCHANGED call
  BY <1>1 DEF UpsertProfile
<1>5. SUFFICES ASSUME n + 1 > 1,
                      NEW f \in DOMAIN Given(container[u][n]) \ DOMAIN Given(call[h])
               PROVE  /\ f \in DOMAIN Given(container'[u][n + 1])
                      /\ Given(container'[u][n + 1])[f] = Given(container'[u][n])[f]
  <2> HIDE DEF u, n
  <2>1. n + 1 - 1 = n
    BY <1>3
  <2>2. Omitted(h) = DOMAIN Given(container[u][n]) \ DOMAIN Given(call[h])
    BY DEF Omitted, Newest, u, n
  <2>3. OmittedKept(h) <=>
          (n + 1 > 1 => \A f \in Omitted(h) :
             /\ f \in DOMAIN Given(container'[u][n + 1])
             /\ Given(container'[u][n + 1])[f] = Given(container'[u][n + 1 - 1])[f])
    BY <1>3 DEF OmittedKept, Newest, u
  <2> QED  BY <2>1, <2>2, <2>3
<1>6. Base(h) = container[u][n] /\ container'[u][n] = container[u][n]
  <2>1. seen[h] = n
    BY DEF BasedOnNewest, Newest
  <2>2. Base(h) = container[u][n]
    BY <1>3, <1>5, <2>1 DEF Base, Doc
  <2> HIDE DEF u, n
  <2>3. n \in 1 .. n
    BY <1>3, <1>5
  <2> QED  BY <1>3, <2>2, <2>3
<1> QED  BY <1>3, <1>5, <1>6, MergeKeepsOmitted

\* A patch that read the newest version keeps every field it omits: the merge is
\* right, and the missing etag the only cause of a lost field.
THEOREM FreshPatchIsSafe == Spec => FreshPatchKeepsOmitted
<1>1. HandlersInv /\ [Next]_vars =>
        [\A h \in Handlers :
           Upserting(h) /\ BasedOnNewest(h) => OmittedKept(h)]_vars
  BY FreshUpsertKeeps
<1> QED  BY <1>1, HandlersInvInit, HandlersInvStep, PTL
         DEF Spec, FreshPatchKeepsOmitted

-----------------------------------------------------------------------------
(* What an answered patch has stored.                                      *)

\* Version i of the profile of the patch's sender holds what the patch supplied.
Holds(con, c, i) ==
  /\ c.caller \in Users /\ i \in 1 .. Len(con[c.caller])
  /\ \A f \in DOMAIN Given(c) :
       /\ f \in DOMAIN Given(con[c.caller][i])
       /\ Given(con[c.caller][i])[f] = Given(c)[f]

PatchesStored ==
  \A h \in Handlers :
    call[h].op = "patch" /\ reply[h].status = 200 =>
      Holds(container, call[h], reply[h].version)

\* After a merge the document has every value the patch supplies.
LEMMA MergeStoresSupplied ==
  ASSUME NEW doc \in Documents, NEW c \in PatchCall, NEW t \in Nat,
         NEW f \in DOMAIN Given(c)
  PROVE  /\ f \in DOMAIN Given(Merged(doc, c, t))
         /\ Given(Merged(doc, c, t))[f] = Given(c)[f]
<1> DEFINE old == Given(doc)
           new == Given(c)
<1>1. Given(Merged(doc, c, t)) = Record!Override(old, new)
  BY GivenMerged
<1> HIDE DEF old, new
<1>2. f \in DOMAIN new
  BY DEF new
<1>3. f \in DOMAIN Record!Override(old, new) /\ Record!Override(old, new)[f] = new[f]
  BY <1>2 DEF Record!Override
<1> QED  BY <1>1, <1>3 DEF new

\* A version that is stored stays, whoever writes the next one.
LEMMA HoldsOn ==
  ASSUME HandlersInv, [Next]_vars, NEW c, NEW i, Holds(container, c, i)
  PROVE  Holds(container', c, i)
<1>1. CASE container' = container
  BY <1>1 DEF Holds
<1>2. CASE container' # container
  <2> DEFINE v == c.caller
  <2>1. PICK h \in Handlers : UpsertProfile(h)
    BY <1>2, WritesAreUpserts
  <2> DEFINE u == call[h].caller
  <2>2. /\ u \in Users /\ Len(container[u]) \in Nat
        /\ Len(container'[u]) = Len(container[u]) + 1
        /\ \A j \in 1 .. Len(container[u]) : container'[u][j] = container[u][j]
        /\ \A w \in Users : w # u => container'[w] = container[w]
    BY <2>1, CommittedDocument
  <2>3. v \in Users /\ i \in 1 .. Len(container[v])
    BY DEF Holds
  <2> HIDE DEF u, v
  <2>4. i \in 1 .. Len(container'[v]) /\ container'[v][i] = container[v][i]
    BY <2>2, <2>3
  <2> QED  BY <2>3, <2>4 DEF Holds, v
<1> QED  BY <1>1, <1>2

LEMMA PatchesStoredStep ==
  ASSUME HandlersInv, PatchesStored, [Next]_vars
  PROVE  PatchesStored'
<1> DEFINE Stored(g) ==
      call'[g].op = "patch" /\ reply'[g].status = 200 =>
        Holds(container', call'[g], reply'[g].version)
<1> SUFFICES ASSUME NEW g \in Handlers PROVE Stored(g)
  BY DEF PatchesStored, Holds
<1>1. ASSUME call'[g] = call[g], reply'[g] = reply[g] PROVE Stored(g)
  BY <1>1, HoldsOn DEF PatchesStored
<1>2. ASSUME NEW h \in Handlers, NEW s, NEW i, Respond(h, s, i), call' = call,
             h = g => s # 200 \/ call[g].op # "patch"
      PROVE  Stored(g)
  <2>1. CASE g = h
    BY <1>2, <2>1 DEF Respond, HandlersInv, TypeOK
  <2>2. CASE g # h
    BY <1>1, <1>2, <2>2 DEF Respond, HandlersInv, TypeOK
  <2> QED  BY <2>1, <2>2
<1>3. ASSUME NEW h \in Handlers, NEW c \in Calls, Accept(h, c) PROVE Stored(g)
  <2>1. CASE g = h
    BY <1>3, <2>1 DEF Accept, NoReply, HandlersInv, TypeOK
  <2>2. CASE g # h
    BY <1>1, <1>3, <2>2 DEF Accept, HandlersInv, TypeOK
  <2> QED  BY <2>1, <2>2
<1>4. ASSUME NEW h \in Handlers, AnswerGet(h) PROVE Stored(g)
  <2>1. PICK i : Respond(h, 404, 0) \/ Respond(h, 200, i) \/ Respond(h, 500, 0)
    BY <1>4 DEF AnswerGet
  <2>2. call[h].op # "patch" /\ call' = call
    BY <1>4 DEF AnswerGet
  <2> QED  BY <1>2, <2>1, <2>2
<1>5. ASSUME NEW h \in Handlers, UpsertProfile(h) PROVE Stored(g)
  <2> DEFINE u == call[h].caller
             n == Len(container[u])
  <2>1. /\ u \in Users /\ call[h] \in PatchCall /\ n \in Nat
        /\ stamp[h] \in Nat /\ Base(h) \in Documents
        /\ Len(container'[u]) = n + 1
        /\ container'[u][n + 1] = Merged(Base(h), call[h], stamp[h])
    BY <1>5, CommittedDocument
  <2>2. call' = call /\ (Respond(h, 200, n + 1) \/ Respond(h, 500, 0))
    BY <1>5 DEF UpsertProfile, Newest
  <2>3. CASE Respond(h, 500, 0)
    BY <1>2, <2>2, <2>3
  <2>4. CASE Respond(h, 200, n + 1)
    <3>1. CASE g = h
      <4>1. reply'[g].version = n + 1 /\ call'[g] = call[h]
        BY <2>2, <2>4, <3>1 DEF Respond, HandlersInv, TypeOK
      <4>2. n + 1 \in 1 .. Len(container'[u])
        BY <2>1
      <4>3. \A f \in DOMAIN Given(call[h]) :
              /\ f \in DOMAIN Given(container'[u][n + 1])
              /\ Given(container'[u][n + 1])[f] = Given(call[h])[f]
        BY <2>1, MergeStoresSupplied
      <4>4. Holds(container', call[h], n + 1)
        BY <2>1, <4>2, <4>3 DEF Holds
      <4> QED  BY <4>1, <4>4
    <3>2. CASE g # h
      BY <1>1, <2>2, <2>4, <3>2 DEF Respond, HandlersInv, TypeOK
    <3> QED  BY <3>1, <3>2
  <2> QED  BY <2>2, <2>3, <2>4
<1>6. ASSUME NEW h \in Handlers, ReadProfile(h) \/ FailRequest(h) PROVE Stored(g)
  BY <1>1, <1>2, <1>6 DEF ReadProfile, FailRequest
<1>7. CASE Quiescent \/ UNCHANGED vars
  BY <1>1, <1>7 DEF Quiescent, vars
<1> QED  BY <1>3, <1>4, <1>5, <1>6, <1>7 DEF Next, HandlerStep

\* What a patch answered 200 supplied is in the version the answer names, and that
\* version stays in the history, however many patches overlap.
THEOREM AnsweredPatchesAreStored == Spec => []AnsweredPatchIsStored
<1>1. Init => PatchesStored
  BY DEF Init, PatchesStored, NoReply
<1>2. HandlersInv /\ PatchesStored /\ [Next]_vars => HandlersInv' /\ PatchesStored'
  BY HandlersInvStep, PatchesStoredStep
<1>3. ASSUME PatchesStored PROVE AnsweredPatchIsStored
  <2>1. ASSUME NEW h \in Handlers, call[h].op = "patch" /\ reply[h].status = 200
        PROVE  /\ reply[h].version \in Versions(call[h].caller)
               /\ \A f \in DOMAIN Given(call[h]) :
                    /\ f \in DOMAIN Given(Doc(call[h].caller, reply[h].version))
                    /\ Given(Doc(call[h].caller, reply[h].version))[f]
                         = Given(call[h])[f]
    <3> DEFINE stored == container[call[h].caller][reply[h].version]
    <3>1. Doc(call[h].caller, reply[h].version) = stored
      BY DEF Doc
    <3>2. Holds(container, call[h], reply[h].version)
      BY <1>3, <2>1 DEF PatchesStored
    <3>3. /\ reply[h].version \in 1 .. Len(container[call[h].caller])
          /\ \A f \in DOMAIN Given(call[h]) :
               f \in DOMAIN Given(stored) /\ Given(stored)[f] = Given(call[h])[f]
      BY <3>2, Zenon DEF Holds
    <3>4. reply[h].version \in Versions(call[h].caller)
      BY <3>3 DEF Versions, Newest
    <3> HIDE DEF stored
    <3> QED  BY <3>1, <3>3, <3>4, Zenon
  <2> HIDE DEF Given
  <2> QED  BY <2>1, Zenon DEF AnsweredPatchIsStored
<1> QED  BY <1>1, <1>2, <1>3, HandlersInvInit, PTL DEF Spec

-----------------------------------------------------------------------------
(* The service without overlapping patches implements the record.  The     *)
(* invariant that makes the step go through: the version a patch has read  *)
(* is still the newest one when it is about to write.                      *)

SerialNext == Next /\ OneWriter'

WritersAreCurrent ==
  \A h \in Handlers :
    pc[h] = "upsert" => seen[h] = Newest(container[call[h].caller])

SerialInv == HandlersInv /\ OneWriter /\ WritersAreCurrent

LEMMA SerialInvInit == Init => SerialInv
  BY HandlersInvInit DEF Init, SerialInv, OneWriter, Patching, WritersAreCurrent

\* A handler about to upsert serves a patch, which nobody else does for this user.
LEMMA WriterIsAlone ==
  ASSUME SerialInv, NEW g \in Handlers, NEW h \in Handlers,
         pc[g] = "upsert", pc[h] = "upsert", call[g].caller = call[h].caller
  PROVE  g = h
<1>1. call[g].op = "patch" /\ call[h].op = "patch"
  BY DEF SerialInv, HandlersInv, HandlerOK, PatchCall
<1> QED  BY <1>1 DEF SerialInv, OneWriter, Patching

LEMMA WritersAreCurrentStep ==
  ASSUME MaxLag = 0, SerialInv, [Next]_vars
  PROVE  WritersAreCurrent'
<1> SUFFICES ASSUME NEW g \in Handlers, pc'[g] = "upsert"
             PROVE  seen'[g] = Newest(container'[call'[g].caller])
  BY DEF WritersAreCurrent
<1>1. HandlersInv /\ TypeOK
  BY DEF SerialInv, HandlersInv
<1>2. ASSUME NEW h \in Handlers, NEW c \in Calls, Accept(h, c)
      PROVE  seen'[g] = Newest(container'[call'[g].caller])
  <2>1. g # h /\ pc'[g] = pc[g] /\ call'[g] = call[g] /\ UNCHANGED <<seen, container>>
    BY <1>1, <1>2 DEF Accept, TypeOK
  <2> QED  BY <2>1 DEF SerialInv, WritersAreCurrent
<1>3. ASSUME NEW h \in Handlers, NEW s, NEW i, Respond(h, s, i),
             UNCHANGED <<container, call>>
      PROVE  seen'[g] = Newest(container'[call'[g].caller])
  <2>1. g # h /\ pc'[g] = pc[g] /\ seen'[g] = seen[g]
    BY <1>1, <1>3 DEF Respond, TypeOK
  <2> QED  BY <1>3, <2>1 DEF SerialInv, WritersAreCurrent
<1>4. ASSUME NEW h \in Handlers, AnswerGet(h)
      PROVE  \E s, i : Respond(h, s, i) /\ UNCHANGED <<container, call>>
  BY <1>4 DEF AnswerGet
<1>5. ASSUME NEW h \in Handlers, ReadProfile(h)
      PROVE  seen'[g] = Newest(container'[call'[g].caller])
  <2>1. /\ pc' = [pc EXCEPT ![h] = "upsert"] /\ UNCHANGED <<container, call>>
        /\ call[h].caller \in Users
    BY <1>1, <1>5, CallKinds DEF ReadProfile, HandlersInv, HandlerOK
  <2>2. PICK i \in Visible(container[call[h].caller]) : seen' = [seen EXCEPT ![h] = i]
    BY <1>5 DEF ReadProfile
  <2>3. i = Len(container[call[h].caller])
    <3>1. Len(container[call[h].caller]) \in Nat
      BY <1>1, <2>1 DEF TypeOK
    <3> QED  BY <3>1 DEF Visible
  <2>4. CASE g = h
    BY <1>1, <2>1, <2>2, <2>3, <2>4 DEF TypeOK, Newest
  <2>5. CASE g # h
    BY <1>1, <2>1, <2>2, <2>5 DEF TypeOK, SerialInv, WritersAreCurrent
  <2> QED  BY <2>4, <2>5
<1>6. ASSUME NEW h \in Handlers, UpsertProfile(h)
      PROVE  seen'[g] = Newest(container'[call'[g].caller])
  <2>1. /\ pc[h] = "upsert" /\ pc' = [pc EXCEPT ![h] = "idle"]
        /\ \A v \in Users : v # call[h].caller => container'[v] = container[v]
    BY <1>1, <1>6, CommittedDocument
  <2>2. g # h /\ pc[g] = "upsert"
    BY <1>1, <2>1 DEF TypeOK
  <2>3. call'[g] = call[g] /\ seen'[g] = seen[g]
    <3>1. PICK s, i : Respond(h, s, i)
      BY <1>6 DEF UpsertProfile
    <3> QED  BY <1>1, <1>6, <2>2, <3>1 DEF UpsertProfile, Respond, TypeOK
  <2>4. call[g].caller # call[h].caller
    BY <2>1, <2>2, WriterIsAlone
  <2>5. call[g].caller \in Users
    BY <1>1, <2>2 DEF HandlersInv, HandlerOK, PatchCall
  <2> QED  BY <2>1, <2>2, <2>3, <2>4, <2>5 DEF SerialInv, WritersAreCurrent
<1>7. ASSUME NEW h \in Handlers, FailRequest(h)
      PROVE  seen'[g] = Newest(container'[call'[g].caller])
  BY <1>3, <1>7 DEF FailRequest
<1>8. CASE Quiescent \/ UNCHANGED vars
  BY <1>8 DEF Quiescent, vars, SerialInv, WritersAreCurrent
<1> QED  BY <1>2, <1>3, <1>4, <1>5, <1>6, <1>7, <1>8 DEF Next, HandlerStep

LEMMA SerialInvStep ==
  ASSUME MaxLag = 0, SerialInv, [SerialNext]_vars
  PROVE  SerialInv'
<1>1. [Next]_vars
  BY DEF SerialNext
<1>2. HandlersInv' /\ WritersAreCurrent'
  BY <1>1, HandlersInvStep, WritersAreCurrentStep DEF SerialInv
<1>3. OneWriter'
  BY DEF SerialNext, SerialInv, OneWriter, Patching, vars
<1> QED  BY <1>2, <1>3 DEF SerialInv

\* The fields given by a document or a patch, and a patch, are never Null.
LEMMA GivenIsNotNull ==
  ASSUME NEW r \in Documents \cup PatchCall
  PROVE  Given(r) \in GivenFields /\ Given(r) # Null
<1>1. /\ r.email \in Emails \cup {Null} /\ r.mobile \in Mobiles \cup {Null}
      /\ r.address \in Addresses \cup {Null}
  BY DEF Documents, PatchCall
<1>2. r.address # Null =>
        r.address.place \in Places /\ r.address.line2 \in Lines \cup {Null}
  BY <1>1 DEF Addresses
<1> DEFINE V == Emails \cup Mobiles \cup Places \cup Lines
           F == FieldsOf(r)
           S == {f \in DOMAIN F : F[f] # Null}
<1>3. /\ F.email \in V \cup {Null} /\ F.mobile \in V \cup {Null}
      /\ F.place \in V \cup {Null} /\ F.line2 \in V \cup {Null}
  BY <1>1, <1>2 DEF FieldsOf
<1>4. DOMAIN F = {"email", "mobile", "place", "line2"}
  BY DEF FieldsOf
<1> HIDE DEF F, V
<1>5. S \in SUBSET {"email", "mobile", "place", "line2"} /\ \A f \in S : F[f] \in V
  BY <1>3, <1>4
<1>6. Given(r) = [f \in S |-> F[f]]
  BY DEF Given, F
<1>7. Given(r) \in [S -> V]
  BY <1>5, <1>6
<1>8. Given(r) \in GivenFields
  BY <1>5, <1>7 DEF GivenFields, V
<1> QED  BY <1>8, NullAssumption

LEMMA PatchIsNotNull ==
  ASSUME NEW c \in PatchCall
  PROVE  PatchOf(c) # Null
<1>1. c.caller \in Users /\ Given(c) \in GivenFields
  BY GivenIsNotNull DEF PatchCall
<1> QED  BY <1>1, NullAssumption DEF PatchOf

\* A step of one handler changes what that handler alone waits for.
LEMMA PendingOfOne ==
  ASSUME NEW h \in Handlers,
         \A g \in Handlers \ {h} : pc'[g] = pc[g] /\ call'[g] = call[g]
  PROVE  PendingView' = [PendingView EXCEPT
                          ![h] = IF Patching(h)' THEN PatchOf(call'[h]) ELSE Null]
  BY DEF PendingView, Patching, PatchOf

\* If it was and is not waiting for a patch, or still is, nothing changes.
LEMMA PendingUnchanged ==
  ASSUME NEW h \in Handlers,
         \A g \in Handlers \ {h} : pc'[g] = pc[g] /\ call'[g] = call[g],
         Patching(h)' = Patching(h), Patching(h) => call'[h] = call[h]
  PROVE  PendingView' = PendingView
  BY DEF PendingView, Patching, PatchOf

LEMMA SameProfiles == UNCHANGED container => UNCHANGED ProfilesView
  BY DEF ProfilesView, Doc, Newest

\* An upsert based on the newest version is the atomic patch of the record.
LEMMA UpsertAppliesPatch ==
  ASSUME HandlersInv, NEW h \in Handlers, UpsertProfile(h), BasedOnNewest(h)
  PROVE  Record!ApplyPatch(h)
<1> DEFINE u == call[h].caller
           n == Len(container[u])
<1>1. /\ u \in Users /\ call[h] \in PatchCall /\ n \in Nat
      /\ stamp[h] \in Nat /\ Base(h) \in Documents
      /\ Len(container'[u]) = n + 1
      /\ container'[u][n + 1] = Merged(Base(h), call[h], stamp[h])
      /\ \A v \in Users : v # u => container'[v] = container[v]
      /\ pc[h] = "upsert" /\ pc' = [pc EXCEPT ![h] = "idle"]
  BY CommittedDocument
<1>2. UNCHANGED call
  BY DEF UpsertProfile
<1>3. pc \in [Handlers -> {"idle", "read", "upsert"}] /\ container[u] \in Seq(Documents)
  BY <1>1 DEF HandlersInv, TypeOK
<1>4. PendingView[h] = PatchOf(call[h])
  BY <1>1 DEF PendingView, Patching, PatchCall
<1>5. PendingView' = [PendingView EXCEPT ![h] = Null]
  <2>1. \A g \in Handlers \ {h} : pc'[g] = pc[g] /\ call'[g] = call[g]
    BY <1>1, <1>2
  <2>2. ~Patching(h)'
    BY <1>1, <1>3 DEF Patching
  <2> QED  BY <2>1, <2>2, PendingOfOne
<1>6. seen[h] = n
  BY <1>1 DEF BasedOnNewest, Newest
<1>7. ProfilesView'[u] = Given(Merged(Base(h), call[h], stamp[h]))
  <2>1. container'[u] # EmptyHistory
    <3>1. Len(EmptyHistory) = 0
      BY DEF EmptyHistory
    <3> QED  BY <1>1, <3>1
  <2> HIDE DEF u, n
  <2> QED  BY <1>1, <2>1 DEF ProfilesView, Doc, Newest
<1>8. ProfilesView'[u] = IF ProfilesView[u] = Null THEN Given(call[h])
                         ELSE Record!Override(ProfilesView[u], Given(call[h]))
  <2>1. CASE n = 0
    <3>1. container[u] = EmptyHistory
      BY <1>3, <2>1 DEF EmptyHistory
    <3>2. ProfilesView[u] = Null
      BY <1>1, <3>1 DEF ProfilesView
    <3>3. Base(h) = Skeleton(u, stamp[h])
      BY <1>6, <2>1 DEF Base
    <3> QED  BY <1>1, <1>7, <3>2, <3>3, GivenCreated
  <2>2. CASE n # 0
    <3>1. container[u] # EmptyHistory
      BY <2>2 DEF EmptyHistory
    <3>2. Base(h) = container[u][n]
      BY <1>6, <2>2 DEF Base, Doc
    <3>3. ProfilesView[u] = Given(Base(h))
      BY <1>1, <3>1, <3>2 DEF ProfilesView, Doc, Newest
    <3>4. ProfilesView[u] # Null
      BY <1>1, <3>3, GivenIsNotNull
    <3> QED  BY <1>1, <1>7, <3>3, <3>4, GivenMerged
  <2> QED  BY <2>1, <2>2
<1>9. \A v \in Users : v # u => ProfilesView'[v] = ProfilesView[v]
  BY <1>1 DEF ProfilesView, Doc, Newest
<1>10. /\ ProfilesView = [v \in Users |-> ProfilesView[v]]
       /\ ProfilesView' = [v \in Users |-> ProfilesView'[v]]
  BY DEF ProfilesView
<1>11. PendingView[h].user = u /\ PendingView[h].given = Given(call[h])
  BY <1>4 DEF PatchOf
<1>12. PendingView[h] # Null
  BY <1>1, <1>4, PatchIsNotNull
<1>13. ProfilesView' = [ProfilesView EXCEPT ![u] =
                          IF @ = Null THEN Given(call[h])
                          ELSE Record!Override(@, Given(call[h]))]
  <2> DEFINE P == ProfilesView
             Q == ProfilesView'
             N == IF P[u] = Null THEN Given(call[h])
                  ELSE Record!Override(P[u], Given(call[h]))
  <2>1. Q[u] = N /\ (\A v \in Users : v # u => Q[v] = P[v])
    BY <1>8, <1>9
  <2>2. P = [v \in Users |-> P[v]] /\ Q = [v \in Users |-> Q[v]]
    BY <1>10
  <2> HIDE DEF P, Q, N
  <2>3. Q = [P EXCEPT ![u] = N]
    BY <1>1, <2>1, <2>2
  <2> QED  BY <2>3 DEF P, Q, N
<1> QED  BY <1>5, <1>11, <1>12, <1>13 DEF Record!ApplyPatch

LEMMA FreshRecordStep ==
  ASSUME HandlersInv, [Next]_vars,
         \A h \in Handlers : UpsertProfile(h) => BasedOnNewest(h)
  PROVE  [Record!RecordNext]_(Record!recordVars)
<1>1. TypeOK
  BY DEF HandlersInv
<1>2. ASSUME NEW h \in Handlers, NEW c \in Calls, Accept(h, c)
      PROVE  Record!RecordNext \/ UNCHANGED Record!recordVars
  <2>1. /\ pc[h] = "idle" /\ pc' = [pc EXCEPT ![h] = "read"]
        /\ call' = [call EXCEPT ![h] = c] /\ UNCHANGED container
    BY <1>2 DEF Accept
  <2>2. /\ \A g \in Handlers \ {h} : pc'[g] = pc[g] /\ call'[g] = call[g]
        /\ pc'[h] = "read" /\ call'[h] = c
    BY <1>1, <2>1 DEF TypeOK
  <2>3. ~Patching(h) /\ PendingView[h] = Null
    BY <2>1 DEF Patching, PendingView
  <2>4. UNCHANGED ProfilesView
    BY <2>1, SameProfiles
  <2>5. CASE c.op = "patch"
    <3>1. Patching(h)' /\ c \in PatchCall
      BY <2>2, <2>5, CallKinds DEF Patching
    <3>2. PendingView' = [PendingView EXCEPT ![h] = PatchOf(c)]
      BY <2>2, <3>1, PendingOfOne
    <3>3. Record!SubmitPatch(h)
      BY <2>3, <2>4, <3>1, <3>2 DEF Record!SubmitPatch, Patches
    <3> QED  BY <3>3 DEF Record!RecordNext
  <2>6. CASE c.op # "patch"
    <3>1. ~Patching(h)'
      BY <2>2, <2>6 DEF Patching
    <3>2. Patching(h)' = Patching(h)
      BY <2>3, <3>1 DEF Patching
    <3>3. PendingView' = PendingView
      BY <2>2, <2>3, <3>2, PendingUnchanged
    <3> QED  BY <2>4, <3>3 DEF Record!recordVars
  <2> QED  BY <2>5, <2>6
<1>3. ASSUME NEW h \in Handlers, NEW s, NEW i, Respond(h, s, i),
             UNCHANGED <<container, call>>
      PROVE  Record!RecordNext \/ UNCHANGED Record!recordVars
  <2>1. /\ \A g \in Handlers \ {h} : pc'[g] = pc[g] /\ call'[g] = call[g]
        /\ pc'[h] = "idle"
    BY <1>1, <1>3 DEF Respond, TypeOK
  <2>2. ~Patching(h)' /\ UNCHANGED ProfilesView
    BY <1>3, <2>1, SameProfiles DEF Patching
  <2>3. CASE Patching(h)
    <3>1. PendingView' = [PendingView EXCEPT ![h] = Null]
      BY <2>1, <2>2, PendingOfOne
    <3>2. call[h] \in PatchCall
      BY <1>1, <2>3, CallKinds DEF HandlersInv, HandlerOK, Patching, TypeOK
    <3>3. PendingView[h] # Null
      BY <2>3, <3>2, PatchIsNotNull DEF PendingView
    <3>4. Record!DropPatch(h)
      BY <2>2, <3>1, <3>3 DEF Record!DropPatch
    <3> QED  BY <3>4 DEF Record!RecordNext
  <2>4. CASE ~Patching(h)
    <3>1. Patching(h)' = Patching(h)
      BY <2>2, <2>4 DEF Patching
    <3>2. PendingView' = PendingView
      BY <2>1, <2>4, <3>1, PendingUnchanged
    <3> QED  BY <2>2, <3>2 DEF Record!recordVars
  <2> QED  BY <2>3, <2>4
<1>4. ASSUME NEW h \in Handlers, AnswerGet(h) \/ FailRequest(h)
      PROVE  \E s, i : Respond(h, s, i) /\ UNCHANGED <<container, call>>
  BY <1>4 DEF AnswerGet, FailRequest
<1>5. ASSUME NEW h \in Handlers, ReadProfile(h)
      PROVE  UNCHANGED Record!recordVars
  <2>1. /\ pc[h] = "read" /\ pc' = [pc EXCEPT ![h] = "upsert"]
        /\ UNCHANGED <<container, call>>
    BY <1>5 DEF ReadProfile
  <2>2. /\ \A g \in Handlers \ {h} : pc'[g] = pc[g] /\ call'[g] = call[g]
        /\ pc'[h] = "upsert"
    BY <1>1, <2>1 DEF TypeOK
  <2>3. Patching(h)' = Patching(h) /\ call'[h] = call[h]
    BY <2>1, <2>2 DEF Patching
  <2>4. PendingView' = PendingView
    BY <2>2, <2>3, PendingUnchanged
  <2> QED  BY <2>1, <2>4, SameProfiles DEF Record!recordVars
<1>6. ASSUME NEW h \in Handlers, UpsertProfile(h) PROVE Record!RecordNext
  BY <1>6, UpsertAppliesPatch DEF Record!RecordNext
<1>7. CASE Quiescent \/ UNCHANGED vars
  BY <1>7, SameProfiles DEF Quiescent, vars, Record!recordVars, PendingView, Patching,
     PatchOf
<1> QED  BY <1>2, <1>3, <1>4, <1>5, <1>6, <1>7 DEF Next, HandlerStep

\* An upsert is a step that commits a document.
LEMMA UpsertsAreUpserting ==
  ASSUME HandlersInv, NEW h \in Handlers, UpsertProfile(h)
  PROVE  Upserting(h)
<1>1. /\ Len(container[call[h].caller]) \in Nat
      /\ Len(container'[call[h].caller]) = Len(container[call[h].caller]) + 1
      /\ pc[h] = "upsert" /\ pc' = [pc EXCEPT ![h] = "idle"]
  BY CommittedDocument
<1>2. pc'[h] = "idle"
  BY <1>1 DEF HandlersInv, TypeOK
<1> QED  BY <1>1, <1>2 DEF Upserting

\* Whatever overlaps and however old the reads are, a step that commits nothing
\* based on a replaced version is a step of the record or changes nothing of it.
THEOREM FreshPatchesRefineRecord == Spec => PatchesRefineRecord
<1>1. ASSUME HandlersInv, [Next]_vars,
             \A h \in Handlers : Upserting(h) => BasedOnNewest(h)
      PROVE  UNCHANGED Record!recordVars \/ Record!RecordNext
  <2>1. \A h \in Handlers : UpsertProfile(h) => BasedOnNewest(h)
    BY <1>1, UpsertsAreUpserting
  <2>2. [Record!RecordNext]_(Record!recordVars)
    BY <1>1, <2>1, FreshRecordStep
  <2> QED  BY <2>2
<1>2. HandlersInv /\ [Next]_vars
        => [(\A h \in Handlers : Upserting(h) => BasedOnNewest(h))
              => UNCHANGED Record!recordVars \/ Record!RecordNext]_vars
  BY <1>1
<1> QED  BY <1>2, HandlersInvInit, HandlersInvStep, PTL DEF Spec, PatchesRefineRecord

\* Without overlapping patches and stale reads every step is one.
LEMMA RecordStep ==
  ASSUME SerialInv, [Next]_vars
  PROVE  [Record!RecordNext]_(Record!recordVars)
<1>1. HandlersInv
  BY DEF SerialInv
<1>2. ASSUME NEW h \in Handlers, UpsertProfile(h) PROVE BasedOnNewest(h)
  BY <1>2 DEF UpsertProfile, SerialInv, WritersAreCurrent, BasedOnNewest
<1> QED  BY <1>1, <1>2, FreshRecordStep

\* With strongly consistent reads, and if no user sends a patch before the one
\* before it was answered, every patch is one atomic merge of the fields it
\* supplies, or changes nothing.
THEOREM SerialRefinesRecord ==
  ASSUME MaxLag = 0
  PROVE  SerialSpec => ImplementsRecord
<1>1. Init => Record!RecordInit
  BY DEF Init, Record!RecordInit, ProfilesView, PendingView, Patching
<1>2. SerialInv /\ [Next /\ OneWriter']_vars => SerialInv'
  BY SerialInvStep DEF SerialNext
<1>3. SerialInv /\ [Next /\ OneWriter']_vars => [Record!RecordNext]_(Record!recordVars)
  BY RecordStep
<1> QED  BY <1>1, <1>2, <1>3, SerialInvInit, PTL
         DEF SerialSpec, ImplementsRecord, Record!RecordSpec

\* Under the same conditions created_at stays the time of the creation, although
\* every patch that finds no profile sets it.
THEOREM SerialCreatedAt ==
  ASSUME MaxLag = 0
  PROVE  SerialSpec => []CreatedAtNeverChanges
<1>1. Init => SerialInv /\ CreatedAtNeverChanges
  BY SerialInvInit DEF Init, CreatedAtNeverChanges, Versions, Newest, EmptyHistory
<1>2. ASSUME SerialInv, CreatedAtNeverChanges, [SerialNext]_vars
      PROVE  CreatedAtNeverChanges'
  <2>1. CASE UNCHANGED container
    BY <1>2, <2>1 DEF CreatedAtNeverChanges, Versions, Newest, Doc
  <2>2. ASSUME NEW h \in Handlers, UpsertProfile(h) PROVE CreatedAtNeverChanges'
    <3> DEFINE u == call[h].caller
               n == Len(container[u])
    <3>1. /\ u \in Users /\ n \in Nat /\ Len(container'[u]) = n + 1
          /\ Base(h) \in Documents
          /\ container'[u][n + 1] = Merged(Base(h), call[h], stamp[h])
          /\ \A i \in 1 .. n : container'[u][i] = container[u][i]
          /\ \A v \in Users : v # u => container'[v] = container[v]
          /\ pc[h] = "upsert"
      BY <1>2, <2>2, CommittedDocument DEF SerialInv
    <3>2. container'[u][n + 1].createdAt = Base(h).createdAt
      BY <3>1 DEF Merged, Documents
    <3>3. n # 0 => Base(h) = container[u][n]
      BY <1>2, <3>1 DEF SerialInv, WritersAreCurrent, Newest, Base, Doc
    <3> HIDE DEF u, n
    <3>4. \A i \in 1 .. n : container[u][i].createdAt = container[u][1].createdAt
      BY <1>2, <3>1 DEF CreatedAtNeverChanges, Versions, Newest, Doc, n
    <3>5. \A i \in 1 .. n + 1 : container'[u][i].createdAt = container'[u][1].createdAt
      <4>1. CASE n = 0
        BY <3>1, <4>1
      <4>2. CASE n # 0
        <5>1. /\ 1 \in 1 .. n /\ n \in 1 .. n
              /\ \A i \in 1 .. n + 1 : i \in 1 .. n \/ i = n + 1
          BY <3>1, <4>2
        <5>2. container'[u][n + 1].createdAt = container[u][1].createdAt
          BY <3>2, <3>3, <3>4, <4>2, <5>1
        <5>3. \A i \in 1 .. n : container'[u][i].createdAt = container[u][1].createdAt
          BY <3>1, <3>4
        <5> QED  BY <5>1, <5>2, <5>3
      <4> QED  BY <4>1, <4>2
    <3>6. ASSUME NEW v \in Users, v # u
          PROVE  \A i \in 1 .. Len(container'[v]) :
                   container'[v][i].createdAt = container'[v][1].createdAt
      BY <1>2, <3>1, <3>6 DEF CreatedAtNeverChanges, Versions, Newest, Doc
    <3> QED  BY <3>1, <3>5, <3>6 DEF CreatedAtNeverChanges, Versions, Newest, Doc
  <2>3. HandlersInv /\ [Next]_vars
    BY <1>2 DEF SerialInv, SerialNext
  <2> QED  BY <2>1, <2>2, <2>3, WritesAreUpserts
<1>3. SerialInv /\ CreatedAtNeverChanges /\ MaxLag = 0 /\ [Next /\ OneWriter']_vars
        => SerialInv' /\ CreatedAtNeverChanges'
  BY <1>2, SerialInvStep DEF SerialNext
<1> QED  BY <1>1, <1>3, PTL DEF SerialSpec

\* Under the same conditions the two losses that overlapping or stale patches
\* cause do not happen: no patch drops a field it omits.
THEOREM SerialKeepsOmitted ==
  ASSUME MaxLag = 0
  PROVE  SerialSpec => OmittedFieldsUnchanged
<1>1. ASSUME SerialInv, [SerialNext]_vars, NEW h \in Handlers, Upserting(h)
      PROVE  OmittedKept(h)
  <2>1. BasedOnNewest(h)
    BY <1>1 DEF SerialInv, WritersAreCurrent, Upserting, BasedOnNewest
  <2>2. HandlersInv /\ [Next]_vars
    BY <1>1 DEF SerialInv, SerialNext
  <2> QED  BY <1>1, <2>1, <2>2, FreshUpsertKeeps
<1>2. SerialInv /\ [Next /\ OneWriter']_vars
        => [\A h \in Handlers : Upserting(h) => OmittedKept(h)]_vars
  BY <1>1 DEF SerialNext
<1>3. SerialInv /\ MaxLag = 0 /\ [Next /\ OneWriter']_vars => SerialInv'
  BY SerialInvStep DEF SerialNext
<1> QED  BY <1>2, <1>3, SerialInvInit, PTL DEF SerialSpec, OmittedFieldsUnchanged

\* Once a profile can be shown to its owner, every later version of it can.
CompleteStaysComplete ==
  \A u \in Users : \A i, j \in Versions(u) :
    i <= j /\ Complete(Doc(u, i)) => Complete(Doc(u, j))

\* The merge of a complete document is complete.
LEMMA MergeKeepsComplete ==
  ASSUME NEW doc \in Documents, NEW c \in PatchCall, NEW t, Complete(doc)
  PROVE  Complete(Merged(doc, c, t))
<1>1. /\ Merged(doc, c, t).email = MergedField(doc.email, c.email)
      /\ Merged(doc, c, t).mobile = MergedField(doc.mobile, c.mobile)
  BY DEF Merged, Documents
<1> QED  BY <1>1 DEF Complete, MergedField

\* Under the same conditions a profile that was shown once is shown for ever: it
\* is only before its first e-mail address and mobile number that it is refused.
THEOREM SerialStaysComplete ==
  ASSUME MaxLag = 0
  PROVE  SerialSpec => []CompleteStaysComplete
<1>1. Init => SerialInv /\ CompleteStaysComplete
  BY SerialInvInit DEF Init, CompleteStaysComplete, Versions, Newest, EmptyHistory
<1>2. ASSUME SerialInv, CompleteStaysComplete, [SerialNext]_vars
      PROVE  CompleteStaysComplete'
  <2>1. CASE UNCHANGED container
    BY <1>2, <2>1 DEF CompleteStaysComplete, Versions, Newest, Doc
  <2>2. ASSUME NEW h \in Handlers, UpsertProfile(h) PROVE CompleteStaysComplete'
    <3> DEFINE u == call[h].caller
               n == Len(container[u])
               doc == Merged(Base(h), call[h], stamp[h])
    <3>1. /\ u \in Users /\ call[h] \in PatchCall /\ n \in Nat
          /\ Base(h) \in Documents
          /\ Len(container'[u]) = n + 1 /\ container'[u][n + 1] = doc
          /\ \A i \in 1 .. n : container'[u][i] = container[u][i]
          /\ \A v \in Users : v # u => container'[v] = container[v]
          /\ pc[h] = "upsert"
      BY <1>2, <2>2, CommittedDocument DEF SerialInv
    <3>2. n # 0 => Base(h) = container[u][n]
      BY <1>2, <3>1 DEF SerialInv, WritersAreCurrent, Newest, Base, Doc
    <3>3. Complete(Base(h)) => Complete(doc)
      BY <3>1, MergeKeepsComplete
    <3> HIDE DEF u, n, doc
    <3>4. \A i, j \in 1 .. n :
            i <= j /\ Complete(container[u][i]) => Complete(container[u][j])
      BY <1>2, <3>1 DEF CompleteStaysComplete, Versions, Newest, Doc, n
    <3>5. ASSUME NEW i \in 1 .. n + 1, NEW j \in 1 .. n + 1,
                 i <= j, Complete(container'[u][i])
          PROVE  Complete(container'[u][j])
      <4>1. CASE j = n + 1 /\ i = n + 1
        BY <3>5, <4>1
      <4>2. CASE j = n + 1 /\ i # n + 1
        <5>1. i \in 1 .. n /\ n \in 1 .. n /\ i <= n /\ n # 0
          BY <3>1, <4>2
        <5>2. Complete(container[u][n])
          BY <3>1, <3>4, <3>5, <5>1
        <5> QED  BY <3>1, <3>2, <3>3, <4>2, <5>1, <5>2
      <4>3. CASE j # n + 1
        <5>1. i \in 1 .. n /\ j \in 1 .. n
          BY <3>1, <3>5, <4>3
        <5> QED  BY <3>1, <3>4, <3>5, <5>1
      <4> QED  BY <4>1, <4>2, <4>3
    <3>6. ASSUME NEW v \in Users, v # u,
                 NEW i \in 1 .. Len(container'[v]), NEW j \in 1 .. Len(container'[v]),
                 i <= j, Complete(container'[v][i])
          PROVE  Complete(container'[v][j])
      BY <1>2, <3>1, <3>6 DEF CompleteStaysComplete, Versions, Newest, Doc
    <3> QED  BY <3>1, <3>5, <3>6 DEF CompleteStaysComplete, Versions, Newest, Doc
  <2>3. HandlersInv /\ [Next]_vars
    BY <1>2 DEF SerialInv, SerialNext
  <2> QED  BY <2>1, <2>2, <2>3, WritesAreUpserts
<1>3. SerialInv /\ CompleteStaysComplete /\ MaxLag = 0 /\ [Next /\ OneWriter']_vars
        => SerialInv' /\ CompleteStaysComplete'
  BY <1>2, SerialInvStep DEF SerialNext
<1> QED  BY <1>1, <1>3, PTL DEF SerialSpec

-----------------------------------------------------------------------------
(* What a reader of the container may rely on: the e-mail address of every *)
(* version of a profile, which is all StatementService reads of it.        *)

EmailsView ==
  [u \in Users |-> [i \in 1 .. Len(container[u]) |-> container[u][i].email]]

Histories == INSTANCE DocumentHistory WITH
  Ids <- Users, First <- Emails \cup {Null},
  Later <- (Emails \cup {Null}) \X (Emails \cup {Null}),
  history <- EmailsView

LEMMA HistoryStep ==
  ASSUME HandlersInv, [Next]_vars
  PROVE  [Histories!HistoryNext]_EmailsView
<1>1. CASE UNCHANGED container
  BY <1>1 DEF EmailsView
<1>2. ASSUME NEW h \in Handlers, UpsertProfile(h) PROVE Histories!HistoryNext
  <2> DEFINE u == call[h].caller
             n == Len(container[u])
             doc == Merged(Base(h), call[h], stamp[h])
             E == Emails \cup {Null}
             old == EmailsView[u]
             new == EmailsView'[u]
  <2>1. /\ u \in Users /\ call[h] \in PatchCall /\ n \in Nat
        /\ Len(container'[u]) = n + 1 /\ container'[u][n + 1] = doc
        /\ \A i \in 1 .. n : container'[u][i] = container[u][i]
        /\ \A v \in Users : v # u => container'[v] = container[v]
        /\ doc \in Documents
    BY <1>2, CommittedDocument, MergedIsDocument
  <2>2. doc.email \in E
    BY <2>1 DEF Documents
  <2>3. /\ old = [i \in 1 .. n |-> container[u][i].email]
        /\ new = [i \in 1 .. n + 1 |-> container'[u][i].email]
        /\ \A v \in Users : v # u => EmailsView'[v] = EmailsView[v]
        /\ EmailsView = [v \in Users |-> EmailsView[v]]
        /\ EmailsView' = [v \in Users |-> EmailsView'[v]]
    BY <2>1 DEF EmailsView
  <2>4. container[u] \in Seq(Documents)
    BY <2>1 DEF HandlersInv, TypeOK
  <2> HIDE DEF u, n, doc
  <2>5. \A i \in 1 .. n : container[u][i].email \in E
    <3>1. \A d \in Documents : d.email \in E
      BY DEF Documents
    <3> HIDE DEF E
    <3> QED  BY <2>4, <3>1 DEF n
  <2> HIDE DEF old, new, E
  <2>6. Len(old) = n
    BY <2>1, <2>3
  <2>7. new = Append(old, doc.email)
    <3>1. Append(old, doc.email)
            = [i \in 1 .. n + 1 |-> IF i = n + 1 THEN doc.email ELSE old[i]]
      BY <2>1, <2>3, <2>6
    <3>2. \A i \in 1 .. n + 1 :
            container'[u][i].email = IF i = n + 1 THEN doc.email ELSE old[i]
      BY <2>1, <2>3
    <3> QED  BY <2>3, <3>1, <3>2
  <2>8. EmailsView' = [EmailsView EXCEPT ![u] = Append(@, doc.email)]
    <3>1. u \in Users
      BY <2>1
    <3> QED  BY <2>3, <2>7, <3>1 DEF old, new
  <2>9. old # << >> => old[1] \in E
    BY <2>1, <2>3, <2>5
  <2>10. Histories!Record(u, doc.email)
    BY <2>2, <2>8, <2>9 DEF Histories!Record, Histories!MayFollow, old, E
  <2> QED  BY <2>1, <2>2, <2>10 DEF Histories!HistoryNext, E
<1> QED  BY <1>1, <1>2, WritesAreUpserts

\* However patches race: to whoever reads the container no version of a profile
\* ever disappears or changes, and each has an e-mail address or none.
THEOREM ProfilesAreHistories == Spec => Histories!HistorySpec
<1>1. Init => Histories!HistoryInit
  BY DEF Init, Histories!HistoryInit, EmailsView, EmptyHistory
<1>2. HandlersInv /\ [Next]_vars => [Histories!HistoryNext]_EmailsView
  BY HistoryStep
<1> QED  BY <1>1, <1>2, HandlersInvInit, HandlersInvStep, PTL
         DEF Spec, Histories!HistorySpec

-----------------------------------------------------------------------------
\* What the abstract record is worth, and so the service under the same conditions:
\* no patch, answered or not, ever takes a value away without giving another one.
THEOREM FieldsAreNeverLost ==
  /\ Record!RecordSpec => Record!FieldsStay
  /\ MaxLag = 0 => (SerialSpec => Record!FieldsStay)
<1>1. ASSUME [Record!RecordNext]_(Record!recordVars), NEW u \in Users,
             ProfilesView[u] # Null
      PROVE  DOMAIN ProfilesView[u] \subseteq DOMAIN ProfilesView'[u]
  <2> DEFINE view == ProfilesView
             new == ProfilesView'
  <2>1. view = [v \in Users |-> view[v]]
    BY DEF ProfilesView
  <2>2. CASE new = view
    BY <2>2
  <2>3. ASSUME NEW h \in Handlers, Record!ApplyPatch(h)
        PROVE  DOMAIN view[u] \subseteq DOMAIN new[u]
    <3> DEFINE patch == PendingView[h]
               value == IF view[patch.user] = Null THEN patch.given
                        ELSE Record!Override(view[patch.user], patch.given)
    <3>1. new = [view EXCEPT ![patch.user] = value]
      BY <2>3 DEF Record!ApplyPatch
    <3> HIDE DEF view, new, patch
    <3>2. CASE u = patch.user
      <4>1. new[u] = Record!Override(view[u], patch.given)
        BY <1>1, <2>1, <3>1, <3>2 DEF view
      <4> QED  BY <4>1 DEF Record!Override
    <3>3. CASE u # patch.user
      <4> HIDE DEF value
      <4> QED  BY <2>1, <3>1, <3>3
    <3> QED  BY <3>2, <3>3
  <2>4. Record!RecordNext => new = view \/ \E h \in Handlers : Record!ApplyPatch(h)
    BY DEF Record!RecordNext, Record!SubmitPatch, Record!DropPatch
  <2> QED  BY <1>1, <2>2, <2>3, <2>4 DEF Record!recordVars
<1>2. [Record!RecordNext]_(Record!recordVars)
        => [\A u \in Users :
              ProfilesView[u] # Null
                => DOMAIN ProfilesView[u] \subseteq DOMAIN ProfilesView'[u]]_(Record!recordVars)
  BY <1>1
<1>3. Record!RecordSpec => Record!FieldsStay
  BY <1>2, PTL DEF Record!RecordSpec, Record!FieldsStay
<1>4. ASSUME MaxLag = 0 PROVE SerialSpec => Record!FieldsStay
  BY <1>3, <1>4, SerialRefinesRecord, PTL DEF ImplementsRecord
<1> QED  BY <1>3, <1>4

=============================================================================
