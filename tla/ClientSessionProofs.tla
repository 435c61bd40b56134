------------------------- MODULE ClientSessionProofs -------------------------
(***************************************************************************)
(* Theorems about ProfileStore, for any number of requests, any fields and *)
(* any values, and about a session with both slices.                       *)
(***************************************************************************)
EXTENDS ClientSession, ClientStoreProofs

-----------------------------------------------------------------------------
(* Typing of the profile slice, its page and its requests.                 *)

\* A form that is open holds a profile; a page that saves has its form open.
ProfileTypeInv ==
  /\ ProfileTypeOK
  /\ editing => form \in Profiles
  /\ saving => editing

LEMMA ProfileFields ==
  ASSUME NEW p \in Profiles
  PROVE  p = [f \in Fields |-> p[f]] /\ \A f \in Fields : p[f] \in Values[f]
BY DEF Profiles

LEMMA FieldTyped ==
  ASSUME NEW p \in Profiles, NEW f \in Fields, NEW v \in Values[f]
  PROVE  [p EXCEPT ![f] = v] \in Profiles
BY DEF Profiles

\* Only a save asks for a save.
LEMMA SavesAsked ==
  ASSUME ProfileTypeOK, NEW r \in Thunks, asked[r].op = "save"
  PROVE  asked[r] \in SaveRequests
BY DEF ProfileTypeOK, NoRequest, FetchRequest

LEMMA DisownedType ==
  ASSUME ProfileTypeOK
  PROVE  Disowned \in [Thunks -> {NoRequest, FetchRequest} \cup SaveRequests]
<1> SUFFICES ASSUME NEW t \in Thunks, asked[t].op = "save"
             PROVE  [asked[t] EXCEPT !.own = FALSE] \in SaveRequests
  BY DEF Disowned, ProfileTypeOK
<1> QED  BY SavesAsked DEF SaveRequests

LEMMA SendType ==
  ASSUME ProfileTypeOK, NEW r \in Thunks, NEW request, Send(r, request)
  PROVE  /\ progress' \in [Thunks -> {"idle", "sent", "answered", "abandoned"}]
         /\ thunks' \in 0 .. MaxThunks /\ muddled' \in BOOLEAN
<1>1. thunks' \in 0 .. MaxThunks
  BY ProfileStoreAssumption DEF Send, ProfileTypeOK
<1> QED  BY <1>1 DEF Send, ProfileTypeOK

LEMMA ForgetType ==
  ASSUME ProfileTypeOK, NEW r \in Thunks, Forget(r)
  PROVE  /\ progress' \in [Thunks -> {"idle", "sent", "answered", "abandoned"}]
         /\ asked' \in [Thunks -> {NoRequest, FetchRequest} \cup SaveRequests]
         /\ body' \in [Thunks -> Profiles \cup {NoProfile}]
BY DEF Forget, ProfileTypeOK

LEMMA PerformType ==
  ASSUME NEW request, NEW p, Perform(request, p)
  PROVE  p \in Profiles /\ stored' = p
BY DEF Perform

LEMMA ResumeType ==
  ASSUME ProfileTypeInv, NEW r \in Thunks, NEW ok \in BOOLEAN, ResumeSave(r, ok)
  PROVE  /\ saving' \in BOOLEAN /\ editing' \in BOOLEAN
         /\ saving' => editing'
         /\ editing' => editing
         /\ UNCHANGED <<form, edited, calm>>
BY DEF ResumeSave, ProfileTypeInv

LEMMA ProfileTypeInit == ProfileInit => ProfileTypeInv
<1> SUFFICES ASSUME ProfileInit PROVE ProfileTypeInv
  OBVIOUS
<1>1. thunks \in 0 .. MaxThunks
  BY ProfileStoreAssumption DEF ProfileInit
<1> QED  BY <1>1 DEF ProfileInit, ProfileTypeInv, ProfileTypeOK

LEMMA VisitType ==
  ASSUME ProfileTypeInv, NEW r \in Thunks, NEW p \in {"dashboard", "profile"}, Visit(r, p)
  PROVE  ProfileTypeInv'
<1>1. asked' \in [Thunks -> {NoRequest, FetchRequest} \cup SaveRequests]
  BY DisownedType DEF Visit, ProfileTypeInv
<1> QED  BY <1>1, SendType DEF Visit, Leave, ProfileTypeInv, ProfileTypeOK

\* A request to save, with its history flag named.
LEMMA SaveFields ==
  ASSUME ProfileTypeInv, NEW r \in Thunks, Save(r)
  PROVE  \E undisturbed \in BOOLEAN :
           LET request == [op |-> "save", form |-> form, edited |-> edited,
                           calm |-> undisturbed, own |-> TRUE]
           IN  /\ undisturbed => calm /\ Settled /\ ~muddled /\ ~failed
               /\ request \in SaveRequests
               /\ Send(r, request) /\ asked' = [asked EXCEPT ![r] = request]
<1>1. form \in Profiles /\ edited \in SUBSET Fields
  BY DEF Save, ProfileTypeInv, ProfileTypeOK
<1>2. CASE calm /\ Settled /\ ~muddled /\ ~failed
  <2> DEFINE request == [op |-> "save", form |-> form, edited |-> edited,
                         calm |-> TRUE, own |-> TRUE]
  <2>1. request \in SaveRequests
    BY <1>1 DEF SaveRequests
  <2>2. (calm /\ Settled /\ ~muddled /\ ~failed) = TRUE
    BY <1>2
  <2>3. Send(r, request) /\ asked' = [asked EXCEPT ![r] = request]
    BY <2>2, Zenon DEF Save
  <2> QED  BY <1>2, <2>1, <2>3
<1>3. CASE ~(calm /\ Settled /\ ~muddled /\ ~failed)
  <2> DEFINE request == [op |-> "save", form |-> form, edited |-> edited,
                         calm |-> FALSE, own |-> TRUE]
  <2>1. request \in SaveRequests
    BY <1>1 DEF SaveRequests
  <2>2. (calm /\ Settled /\ ~muddled /\ ~failed) = FALSE
    BY <1>3
  <2>3. Send(r, request) /\ asked' = [asked EXCEPT ![r] = request]
    BY <2>2, Zenon DEF Save
  <2> QED  BY <2>1, <2>3
<1> QED  BY <1>2, <1>3

LEMMA SaveFrame ==
  ASSUME NEW r \in Thunks, Save(r)
  PROVE  /\ editing /\ ~saving /\ saving' = TRUE
         /\ UNCHANGED <<stored, body, sliceVars, page, editing, form, edited, calm>>
BY Zenon DEF Save

LEMMA SaveType ==
  ASSUME ProfileTypeInv, NEW r \in Thunks, Save(r)
  PROVE  ProfileTypeInv'
<1>1. PICK request \in SaveRequests :
        Send(r, request) /\ asked' = [asked EXCEPT ![r] = request]
  BY SaveFields
<1>2. asked' \in [Thunks -> {NoRequest, FetchRequest} \cup SaveRequests]
  BY <1>1 DEF ProfileTypeInv, ProfileTypeOK
<1> QED  BY <1>1, <1>2, SaveFrame, SendType DEF sliceVars, ProfileTypeInv, ProfileTypeOK

LEMMA ProcessType ==
  ASSUME ProfileTypeInv, NEW r \in Thunks, Process(r)
  PROVE  ProfileTypeInv'
<1>1. PICK p \in Profiles :
        /\ Perform(asked[r], p)
        /\ \E lost \in BOOLEAN : body' = [body EXCEPT ![r] = IF lost THEN NoProfile ELSE p]
  BY DEF Process
<1>2. body' \in [Thunks -> Profiles \cup {NoProfile}] /\ stored' \in Profiles
  BY <1>1, PerformType DEF ProfileTypeInv, ProfileTypeOK
<1> QED  BY <1>2 DEF Process, pageVars, sliceVars, ProfileTypeInv, ProfileTypeOK

LEMMA DeliverType ==
  ASSUME ProfileTypeInv, NEW r \in Thunks, Deliver(r)
  PROVE  ProfileTypeInv'
<1>1. data' \in Profiles \cup {NoProfile} /\ fetching' \in BOOLEAN /\ failed' \in BOOLEAN
  BY DEF Deliver, Fulfilled, Rejected, ProfileTypeInv, ProfileTypeOK
<1>2. /\ saving' \in BOOLEAN /\ editing' \in BOOLEAN /\ (saving' => editing')
      /\ (editing' => editing) /\ UNCHANGED <<form, edited, calm>>
  BY ResumeType DEF Deliver
<1> QED  BY <1>1, <1>2, ForgetType DEF Deliver, ProfileTypeInv, ProfileTypeOK

LEMMA TimeOutType ==
  ASSUME ProfileTypeInv, NEW r \in Thunks, TimeOut(r)
  PROVE  ProfileTypeInv'
<1>1. data' \in Profiles \cup {NoProfile} /\ fetching' \in BOOLEAN /\ failed' \in BOOLEAN
  BY DEF TimeOut, Rejected, ProfileTypeInv, ProfileTypeOK
<1>2. /\ saving' \in BOOLEAN /\ editing' \in BOOLEAN /\ (saving' => editing')
      /\ (editing' => editing) /\ UNCHANGED <<form, edited, calm>>
  BY ResumeType DEF TimeOut
<1>3. /\ progress' \in [Thunks -> {"idle", "sent", "answered", "abandoned"}]
      /\ asked' \in [Thunks -> {NoRequest, FetchRequest} \cup SaveRequests]
      /\ body' \in [Thunks -> Profiles \cup {NoProfile}]
  <2>1. CASE progress[r] = "answered"
    BY <2>1, ForgetType DEF TimeOut, ProfileTypeInv
  <2>2. CASE progress[r] # "answered"
    BY <2>2 DEF TimeOut, ProfileTypeInv, ProfileTypeOK
  <2> QED  BY <2>1, <2>2
<1> QED  BY <1>1, <1>2, <1>3 DEF TimeOut, ProfileTypeInv, ProfileTypeOK

LEMMA ProcessLateType ==
  ASSUME ProfileTypeInv, NEW r \in Thunks, ProcessLate(r)
  PROVE  ProfileTypeInv'
<1>1. stored' \in Profiles \cup {NoProfile}
  BY PerformType DEF ProcessLate, ProfileTypeInv, ProfileTypeOK
<1> QED  BY <1>1, ForgetType DEF ProcessLate, sliceVars, pageVars, ProfileTypeInv, ProfileTypeOK

LEMMA FormType ==
  ASSUME ProfileTypeInv,
         StartEdit \/ Cancel \/ \E f \in Fields : \E v \in Values[f] \ {Absent} : Type(f, v)
  PROVE  ProfileTypeInv'
<1>1. CASE StartEdit
  BY <1>1 DEF StartEdit, networkVars, sliceVars, ProfileTypeInv, ProfileTypeOK
<1>2. CASE Cancel
  BY <1>2 DEF Cancel, networkVars, sliceVars, ProfileTypeInv, ProfileTypeOK
<1>3. ASSUME NEW f \in Fields, NEW v \in Values[f] \ {Absent}, Type(f, v) PROVE ProfileTypeInv'
  <2>1. form' \in Profiles /\ edited' \subseteq Fields
    BY <1>3, FieldTyped DEF Type, ProfileTypeInv, ProfileTypeOK
  <2> QED  BY <1>3, <2>1 DEF Type, networkVars, sliceVars, ProfileTypeInv, ProfileTypeOK
<1> QED  BY <1>1, <1>2, <1>3

LEMMA ProfileTypeStep == ProfileTypeInv /\ [ProfileNext]_profileVars => ProfileTypeInv'
<1> SUFFICES ASSUME ProfileTypeInv, [ProfileNext]_profileVars PROVE ProfileTypeInv'
  OBVIOUS
<1>1. ASSUME NEW r \in Thunks, Deny(r) PROVE ProfileTypeInv'
  BY <1>1 DEF Deny, sliceVars, pageVars, ProfileTypeInv, ProfileTypeOK
<1>2. CASE VisitOther
  BY <1>2, DisownedType DEF VisitOther, Leave, sliceVars, ProfileTypeInv, ProfileTypeOK
<1>3. CASE AmendElsewhere
  BY <1>3 DEF AmendElsewhere, networkVars, sliceVars, pageVars, ProfileTypeInv, ProfileTypeOK
<1>4. CASE UNCHANGED profileVars
  BY <1>4 DEF profileVars, networkVars, sliceVars, pageVars, ProfileTypeInv, ProfileTypeOK
<1> QED
  BY <1>1, <1>2, <1>3, <1>4, VisitType, SaveType, ProcessType, DeliverType, TimeOutType,
     ProcessLateType, FormType
  DEF ProfileNext

\* Every variable of the profile slice, its page and its requests has its type, for
\* any fields and values and any number of requests (profileSlice.ts, ProfilePage.tsx).
THEOREM ProfileTyped == ProfileSpec => []ProfileTypeOK
<1> QED  BY ProfileTypeInit, ProfileTypeStep, PTL DEF ProfileSpec, ProfileTypeInv

-----------------------------------------------------------------------------
(* The form and the save it has sent.                                      *)

\* The open form is the one the save of slot r has sent, typed on since.
SentFromForm(r) ==
  /\ asked[r].edited \subseteq edited
  /\ \A f \in Fields : form[f] = asked[r].form[f] \/ f \in edited \ asked[r].edited

\* The page waits for its own save, and for one only.
OwnInv ==
  /\ \A r \in Thunks : OwnSave(r) => saving /\ SentFromForm(r)
  /\ \A r, t \in Thunks : OwnSave(r) /\ OwnSave(t) => r = t

\* A page that is left owns no save.
LEMMA NoneOwned ==
  ASSUME ProfileTypeInv, VisitOther \/ \E r \in Thunks : \E p \in {"dashboard", "profile"} : Visit(r, p)
  PROVE  \A t \in Thunks : ~OwnSave(t)'
<1>1. \A t \in Thunks : Disowned[t].op = "save" => Disowned[t].own = FALSE
  <2> SUFFICES ASSUME NEW t \in Thunks, asked[t].op = "save"
               PROVE  [asked[t] EXCEPT !.own = FALSE].own = FALSE
    BY DEF Disowned
  <2> QED  BY SavesAsked DEF SaveRequests, ProfileTypeInv
<1>2. CASE VisitOther
  BY <1>1, <1>2 DEF VisitOther, OwnSave
<1>3. ASSUME NEW r \in Thunks, NEW p \in {"dashboard", "profile"}, Visit(r, p)
      PROVE  \A t \in Thunks : ~OwnSave(t)'
  <2>1. Disowned \in [Thunks -> {NoRequest, FetchRequest} \cup SaveRequests]
    BY DisownedType DEF ProfileTypeInv
  <2>2. \A t \in Thunks : asked'[t] = IF t = r THEN FetchRequest ELSE Disowned[t]
    BY <1>3, <2>1 DEF Visit
  <2> QED  BY <1>1, <2>2 DEF OwnSave, FetchRequest
<1> QED  BY <1>2, <1>3

\* A request whose answer ends is no longer in flight; the others are as they were.
LEMMA EndOfRequest ==
  ASSUME ProfileTypeInv, NEW r \in Thunks, Deliver(r) \/ TimeOut(r)
  PROVE  /\ InFlight(r) /\ ~InFlight(r)'
         /\ \A t \in Thunks \ {r} : progress'[t] = progress[t] /\ asked'[t] = asked[t]
         /\ saving' = (saving /\ ~OwnSave(r))
         /\ UNCHANGED <<form, edited, page>>
<1>1. CASE Deliver(r)
  BY <1>1 DEF Deliver, Forget, ResumeSave, InFlight, ProfileTypeInv, ProfileTypeOK
<1>2. CASE TimeOut(r)
  BY <1>2 DEF TimeOut, Forget, ResumeSave, InFlight, ProfileTypeInv, ProfileTypeOK
<1> QED  BY <1>1, <1>2

LEMMA OwnStep == ProfileTypeInv /\ OwnInv /\ [ProfileNext]_profileVars => OwnInv'
<1> SUFFICES ASSUME ProfileTypeInv, OwnInv, [ProfileNext]_profileVars PROVE OwnInv'
  OBVIOUS
\* The form stays as it is, and no save becomes the page's own.
<1>1. ASSUME UNCHANGED <<saving, form, edited>>,
             \A t \in Thunks : OwnSave(t)' => OwnSave(t) /\ asked'[t] = asked[t]
      PROVE  OwnInv'
  BY <1>1 DEF OwnInv, SentFromForm
<1>2. ASSUME VisitOther \/ \E r \in Thunks : \E p \in {"dashboard", "profile"} : Visit(r, p)
      PROVE  OwnInv'
  BY <1>2, NoneOwned DEF OwnInv
<1>3. ASSUME NEW r \in Thunks, Save(r) PROVE OwnInv'
  <2>1. PICK request \in SaveRequests :
          /\ request.form = form /\ request.edited = edited
          /\ Send(r, request) /\ asked' = [asked EXCEPT ![r] = request]
    BY <1>3, SaveFields
  <2>2. \A t \in Thunks : ~OwnSave(t)
    BY <1>3, SaveFrame DEF OwnInv
  <2>3. \A t \in Thunks \ {r} : ~OwnSave(t)'
    BY <2>1, <2>2 DEF Send, OwnSave, InFlight, ProfileTypeInv, ProfileTypeOK
  <2>4. asked'[r] = request
    BY <2>1 DEF ProfileTypeInv, ProfileTypeOK
  <2>5. saving' /\ UNCHANGED <<form, edited>>
    BY <1>3, SaveFrame
  <2> QED  BY <2>1, <2>3, <2>4, <2>5 DEF OwnInv, SentFromForm
<1>4. ASSUME NEW r \in Thunks, Process(r) \/ Deny(r) PROVE OwnInv'
  <2>1. UNCHANGED <<saving, form, edited, asked>>
    BY <1>4 DEF Process, Deny, pageVars
  <2>2. \A t \in Thunks : InFlight(t)' => InFlight(t)
    BY <1>4 DEF Process, Deny, InFlight, ProfileTypeInv, ProfileTypeOK
  <2> QED  BY <1>1, <2>1, <2>2 DEF OwnSave
<1>5. ASSUME NEW r \in Thunks, Deliver(r) \/ TimeOut(r) PROVE OwnInv'
  <2>1. \A t \in Thunks : OwnSave(t)' => t # r /\ OwnSave(t) /\ asked'[t] = asked[t]
    BY <1>5, EndOfRequest DEF OwnSave, InFlight
  <2>2. \A t \in Thunks : OwnSave(t)' => saving'
    BY <1>5, <2>1, EndOfRequest DEF OwnInv
  <2> QED  BY <1>5, <2>1, <2>2, EndOfRequest DEF OwnInv, SentFromForm
<1>6. ASSUME NEW r \in Thunks, ProcessLate(r) PROVE OwnInv'
  <2>1. \A t \in Thunks : InFlight(t)' => t # r /\ InFlight(t) /\ asked'[t] = asked[t]
    BY <1>6 DEF ProcessLate, Forget, InFlight, ProfileTypeInv, ProfileTypeOK
  <2> QED  BY <1>1, <1>6, <2>1 DEF OwnSave, ProcessLate, pageVars
<1>7. CASE StartEdit \/ Cancel
  <2>1. ~saving /\ UNCHANGED <<asked, progress>>
    BY <1>7 DEF StartEdit, Cancel, networkVars, ProfileTypeInv
  <2> QED  BY <2>1 DEF OwnInv, OwnSave, InFlight
<1>8. ASSUME NEW f \in Fields, NEW v \in Values[f] \ {Absent}, Type(f, v) PROVE OwnInv'
  <2>1. /\ UNCHANGED <<asked, progress, saving>>
        /\ edited' = edited \cup {f} /\ f \notin edited
    BY <1>8 DEF Type, networkVars
  <2>2. \A g \in Fields : g # f => form'[g] = form[g]
    <3>1. form \in Profiles /\ form' = [form EXCEPT ![f] = v]
      BY <1>8 DEF Type, ProfileTypeInv
    <3> QED  BY <3>1, ProfileFields
  <2>3. ASSUME NEW t \in Thunks, SentFromForm(t) PROVE SentFromForm(t)'
    BY <2>1, <2>2, <2>3 DEF SentFromForm
  <2> QED  BY <2>1, <2>3 DEF OwnInv, OwnSave, InFlight
<1>9. CASE AmendElsewhere \/ UNCHANGED profileVars
  <2>1. UNCHANGED <<saving, form, edited, asked, progress>>
    BY <1>9 DEF AmendElsewhere, profileVars, networkVars, pageVars
  <2> QED  BY <1>1, <2>1 DEF OwnSave, InFlight
<1> QED  BY <1>2, <1>3, <1>4, <1>5, <1>6, <1>7, <1>8, <1>9 DEF ProfileNext

LEMMA OwnEnds ==
  ASSUME ProfileTypeInv, OwnInv, [ProfileNext]_profileVars,
         (editing /\ ~editing') \/ (saving /\ ~saving'), page' = page, progress' # progress
  PROVE  \E r \in Thunks :
           /\ OwnSave(r) /\ ~InFlight(r)'
           /\ \A f \in Fields : form[f] = asked[r].form[f] \/ f \in edited \ asked[r].edited
\* Only the end of a request can do it.
<1>1. PICK r \in Thunks : Deliver(r) \/ TimeOut(r)
  <2>1. ASSUME NEW r \in Thunks, Save(r) \/ Process(r) \/ Deny(r) \/ ProcessLate(r) PROVE FALSE
    BY <2>1, SaveFrame DEF Process, Deny, ProcessLate, pageVars
  <2>2. ASSUME VisitOther \/ \E r \in Thunks : \E p \in {"dashboard", "profile"} : Visit(r, p)
        PROVE  FALSE
    BY <2>2 DEF VisitOther, Visit, Leave
  <2>3. ASSUME StartEdit \/ Cancel \/ AmendElsewhere \/ UNCHANGED profileVars
               \/ \E f \in Fields : \E v \in Values[f] \ {Absent} : Type(f, v)
        PROVE  FALSE
    BY <2>3 DEF StartEdit, Cancel, AmendElsewhere, Type, profileVars, networkVars
  <2> QED  BY <2>1, <2>2, <2>3 DEF ProfileNext
<1>2. OwnSave(r)
  BY <1>1 DEF Deliver, TimeOut, ResumeSave, ProfileTypeInv, ProfileTypeOK
<1> QED  BY <1>1, <1>2, EndOfRequest DEF OwnInv, SentFromForm

\* Whatever the number of saves, pages and late answers, only a page's own save
\* closes or frees its form, and what the form holds then was sent or typed since
\* (handleSave in ProfilePage.tsx).
THEOREM OwnSavesOnly == ProfileSpec => SavesEndTheirOwnForm
<1>1. ProfileInit => OwnInv
  BY DEF ProfileInit, OwnInv, OwnSave, InFlight
<1>2. ProfileTypeInv /\ OwnInv /\ [ProfileNext]_profileVars =>
        [/\ (editing /\ ~editing') \/ (saving /\ ~saving')
         /\ page' = page /\ progress' # progress
         => \E r \in Thunks :
              /\ OwnSave(r) /\ ~InFlight(r)'
              /\ \A f \in Fields : form[f] = asked[r].form[f] \/ f \in edited \ asked[r].edited
        ]_profileVars
  BY OwnEnds
<1> QED
  BY <1>1, <1>2, ProfileTypeInit, ProfileTypeStep, OwnStep, PTL
  DEF ProfileSpec, SavesEndTheirOwnForm

-----------------------------------------------------------------------------
(* A quiet slice.                                                          *)

\* Only an answer under way has contents.
BodyInv == \A r \in Thunks : progress[r] # "answered" => body[r] = NoProfile

\* At most one request is under way.
OneRequest == \A r, t \in Thunks : progress[r] # "idle" /\ progress[t] # "idle" => r = t

\* Without an error, that one request brings what is stored, or the slice has it.
NothingMissed ==
  /\ Settled => data = stored
  /\ \A r \in Thunks : progress[r] # "abandoned" /\ body[r] \in {NoProfile, stored}

ProfileQuietInv ==
  /\ BodyInv
  /\ ~muddled => OneRequest /\ (~failed => NothingMissed)

\* A request sent on its own is the only one.
LEMMA SentAlone ==
  ASSUME ProfileTypeInv, NEW r \in Thunks, NEW request, Send(r, request), ~muddled'
  PROVE  /\ Settled /\ (muddled => request.op = "fetch")
         /\ \A t \in Thunks : progress'[t] = IF t = r THEN "sent" ELSE "idle"
BY DEF Send, Settled, ProfileTypeInv, ProfileTypeOK

LEMMA BodyStep == ProfileTypeInv /\ BodyInv /\ [ProfileNext]_profileVars => BodyInv'
<1> SUFFICES ASSUME ProfileTypeInv, BodyInv, [ProfileNext]_profileVars PROVE BodyInv'
  OBVIOUS
<1>1. ASSUME NEW r \in Thunks, NEW request, Send(r, request), body' = body PROVE BodyInv'
  BY <1>1 DEF Send, BodyInv, ProfileTypeInv, ProfileTypeOK
<1>2. ASSUME NEW r \in Thunks, Save(r) PROVE BodyInv'
  BY <1>1, <1>2, SaveFields, SaveFrame
<1>3. ASSUME NEW r \in Thunks, NEW p \in {"dashboard", "profile"}, Visit(r, p) PROVE BodyInv'
  BY <1>1, <1>3 DEF Visit
<1>4. ASSUME NEW r \in Thunks, Process(r) \/ Deny(r) \/ Deliver(r) \/ TimeOut(r) \/ ProcessLate(r)
      PROVE  BodyInv'
  BY <1>4 DEF Process, Deny, Deliver, TimeOut, ProcessLate, Forget, InFlight, BodyInv,
              ProfileTypeInv, ProfileTypeOK
<1>5. ASSUME UNCHANGED <<progress, body>> PROVE BodyInv'
  BY <1>5 DEF BodyInv
<1> QED
  BY <1>2, <1>3, <1>4, <1>5
  DEF ProfileNext, VisitOther, StartEdit, Cancel, Type, AmendElsewhere, networkVars, profileVars

LEMMA ProfileQuietStep ==
  ProfileTypeInv /\ ProfileQuietInv /\ [ProfileNext]_profileVars => ProfileQuietInv'
<1> SUFFICES ASSUME ProfileTypeInv, ProfileQuietInv, [ProfileNext]_profileVars, ~muddled'
             PROVE  OneRequest' /\ (~failed' => NothingMissed')
  BY BodyStep DEF ProfileQuietInv
\* A request is sent.
<1>1. ASSUME NEW r \in Thunks, NEW request, Send(r, request), UNCHANGED <<stored, body, data>>
      PROVE  OneRequest' /\ NothingMissed'
  <2>1. \A t \in Thunks : progress'[t] = IF t = r THEN "sent" ELSE "idle"
    BY <1>1, SentAlone
  <2>2. \A t \in Thunks : body[t] = NoProfile
    BY <1>1, SentAlone DEF Settled, ProfileQuietInv, BodyInv
  <2> QED  BY <1>1, <2>1, <2>2 DEF Settled, OneRequest, NothingMissed
<1>2. ASSUME NEW r \in Thunks, Save(r) PROVE OneRequest' /\ NothingMissed'
  BY <1>1, <1>2, SaveFields, SaveFrame DEF sliceVars
<1>3. ASSUME NEW r \in Thunks, NEW p \in {"dashboard", "profile"}, Visit(r, p)
      PROVE  OneRequest' /\ NothingMissed'
  BY <1>1, <1>3 DEF Visit
\* A step of one request.
<1>4. ASSUME NEW r \in Thunks, ~muddled, progress[r] # "idle",
             \A t \in Thunks \ {r} : progress'[t] = progress[t]
      PROVE  OneRequest' /\ \A t \in Thunks \ {r} : progress'[t] = "idle"
  BY <1>4 DEF ProfileQuietInv, OneRequest
<1>5. ASSUME NEW r \in Thunks, Process(r) \/ Deny(r)
      PROVE  OneRequest' /\ (~failed' => NothingMissed')
  <2>1. /\ progress[r] = "sent" /\ progress'[r] = "answered"
        /\ \A t \in Thunks \ {r} : progress'[t] = progress[t] /\ body'[t] = body[t]
        /\ ~muddled /\ failed' = failed
    BY <1>5 DEF Process, Deny, sliceVars, ProfileTypeInv, ProfileTypeOK
  <2>2. body'[r] \in {NoProfile, stored'}
    <3>1. CASE Process(r)
      <4>1. PICK p \in Profiles :
              /\ Perform(asked[r], p)
              /\ \E lost \in BOOLEAN : body' = [body EXCEPT ![r] = IF lost THEN NoProfile ELSE p]
        BY <3>1 DEF Process
      <4>2. stored' = p
        BY <4>1, PerformType
      <4> QED  BY <4>1, <4>2 DEF ProfileTypeInv, ProfileTypeOK
    <3>2. CASE Deny(r)
      BY <2>1, <3>2 DEF Deny, ProfileQuietInv, BodyInv
    <3> QED  BY <1>5, <3>1, <3>2
  <2>3. \A t \in Thunks \ {r} : progress'[t] = "idle" /\ body'[t] = NoProfile
    BY <1>4, <2>1 DEF ProfileQuietInv, BodyInv
  <2> QED  BY <1>4, <2>1, <2>2, <2>3 DEF NothingMissed, Settled
<1>6. ASSUME NEW r \in Thunks, Deliver(r)
      PROVE  OneRequest' /\ (~failed' => NothingMissed')
  <2>1. /\ progress[r] = "answered" /\ progress'[r] = "idle" /\ body'[r] = NoProfile
        /\ \A t \in Thunks \ {r} : progress'[t] = progress[t] /\ body'[t] = body[t]
        /\ ~muddled /\ stored' = stored
    BY <1>6 DEF Deliver, Forget, ProfileTypeInv, ProfileTypeOK
  <2>2. \A t \in Thunks \ {r} : progress'[t] = "idle" /\ body'[t] = NoProfile
    BY <1>4, <2>1 DEF ProfileQuietInv, BodyInv
  <2>3. ~failed' => ~failed /\ body[r] # NoProfile /\ data' = body[r]
    BY <1>6 DEF Deliver, Fulfilled, Rejected
  <2>4. ~failed' => data' = stored
    BY <2>1, <2>3 DEF ProfileQuietInv, NothingMissed
  <2> QED  BY <1>4, <2>1, <2>2, <2>4 DEF NothingMissed
<1>7. ASSUME NEW r \in Thunks, TimeOut(r) PROVE OneRequest' /\ failed'
  <2>1. /\ progress[r] # "idle" /\ ~muddled /\ failed'
        /\ \A t \in Thunks \ {r} : progress'[t] = progress[t]
    BY <1>7 DEF TimeOut, Forget, InFlight, Rejected, ProfileTypeInv, ProfileTypeOK
  <2> QED  BY <1>4, <2>1
<1>8. ASSUME NEW r \in Thunks, ProcessLate(r) PROVE OneRequest' /\ failed'
  <2>1. /\ progress[r] = "abandoned" /\ ~muddled /\ failed' = failed
        /\ \A t \in Thunks \ {r} : progress'[t] = progress[t]
    BY <1>8 DEF ProcessLate, Forget, sliceVars, ProfileTypeInv, ProfileTypeOK
  <2>2. failed
    BY <2>1 DEF ProfileQuietInv, NothingMissed
  <2> QED  BY <1>4, <2>1, <2>2 DEF ProfileTypeInv, ProfileTypeOK
<1>9. ASSUME UNCHANGED <<stored, progress, body, data, failed, muddled>>
      PROVE  OneRequest' /\ (~failed' => NothingMissed')
  BY <1>9 DEF ProfileQuietInv, OneRequest, NothingMissed, Settled
<1> QED
  BY <1>2, <1>3, <1>5, <1>6, <1>7, <1>8, <1>9
  DEF ProfileNext, VisitOther, StartEdit, Cancel, Type, AmendElsewhere, networkVars, sliceVars,
      profileVars

LEMMA ProfileQuietInit == ProfileInit => ProfileQuietInv
BY DEF ProfileInit, ProfileQuietInv, BodyInv

\* After a fetch on its own, and as long as requests follow one another without an
\* error, the slice holds the stored profile (profileSlice.ts).
THEOREM QuietSliceIsCurrent == ProfileSpec => []ProfileQuietMeansCurrent
<1>1. ProfileQuietInv => ProfileQuietMeansCurrent
  BY DEF ProfileQuietInv, NothingMissed, ProfileQuietMeansCurrent
<1> QED
  BY <1>1, ProfileTypeInit, ProfileTypeStep, ProfileQuietInit, ProfileQuietStep, PTL
  DEF ProfileSpec

-----------------------------------------------------------------------------
(* Saves of calm forms.                                                    *)

\* What the user has not changed in a calm form is what is stored.
FormIsFresh ==
  editing /\ calm /\ ~failed /\ ~muddled =>
    /\ \A r \in Thunks : progress[r] # "idle" => OwnSave(r)
    /\ \A f \in Fields \ edited : form[f] = stored[f]

\* So it is in a save on its way.
SaveIsFresh(r) ==
  progress[r] = "sent" /\ asked[r].op = "save" /\ asked[r].calm /\ ~muddled =>
    \A f \in Fields \ asked[r].edited : asked[r].form[f] = stored[f]

CalmInv == FormIsFresh /\ \A r \in Thunks : SaveIsFresh(r)

SliceInv == ProfileTypeInv /\ OwnInv /\ ProfileQuietInv

\* A page that is left takes nothing from its save but the owner.
LEMMA DisownedSave ==
  ASSUME ProfileTypeOK, NEW t \in Thunks, Disowned[t].op = "save"
  PROVE  /\ asked[t].op = "save" /\ Disowned[t].calm = asked[t].calm
         /\ Disowned[t].form = asked[t].form /\ Disowned[t].edited = asked[t].edited
<1>1. asked[t].op = "save"
  BY DEF Disowned
<1> QED  BY <1>1, SavesAsked DEF Disowned, SaveRequests

LEMMA CalmSave ==
  ASSUME SliceInv, CalmInv, NEW r \in Thunks, Save(r)
  PROVE  CalmInv'
<1>1. PICK request \in SaveRequests :
        /\ request.form = form /\ request.edited = edited /\ request.op = "save"
        /\ request.own = TRUE
        /\ request.calm => calm /\ Settled /\ ~muddled /\ ~failed
        /\ Send(r, request) /\ asked' = [asked EXCEPT ![r] = request]
  <2>1. PICK undisturbed \in BOOLEAN :
          LET request == [op |-> "save", form |-> form, edited |-> edited,
                          calm |-> undisturbed, own |-> TRUE]
          IN  /\ undisturbed => calm /\ Settled /\ ~muddled /\ ~failed
              /\ request \in SaveRequests
              /\ Send(r, request) /\ asked' = [asked EXCEPT ![r] = request]
    BY SaveFields DEF SliceInv
  <2> DEFINE request == [op |-> "save", form |-> form, edited |-> edited,
                         calm |-> undisturbed, own |-> TRUE]
  <2>2. /\ request.form = form /\ request.edited = edited /\ request.op = "save"
        /\ request.own = TRUE /\ request.calm = undisturbed
    OBVIOUS
  <2> HIDE DEF request
  <2>3. request \in SaveRequests /\ (request.calm => calm /\ Settled /\ ~muddled /\ ~failed)
    BY <2>1, <2>2 DEF request
  <2>4. Send(r, request) /\ asked' = [asked EXCEPT ![r] = request]
    BY <2>1 DEF request
  <2> QED  BY <2>2, <2>3, <2>4
<1>2. UNCHANGED <<form, edited, calm, editing, stored, failed>> /\ editing
  BY SaveFrame DEF sliceVars
<1>3. asked'[r] = request /\ progress'[r] = "sent"
  BY <1>1 DEF Send, SliceInv, ProfileTypeInv, ProfileTypeOK
<1> SUFFICES ASSUME ~muddled' PROVE CalmInv'
  BY DEF CalmInv, FormIsFresh, SaveIsFresh
<1>4. /\ Settled /\ ~muddled
      /\ \A t \in Thunks : progress'[t] = IF t = r THEN "sent" ELSE "idle"
  BY <1>1, SentAlone DEF SliceInv
<1>5. FormIsFresh'
  BY <1>1, <1>2, <1>3, <1>4 DEF CalmInv, FormIsFresh, OwnSave, InFlight
<1>6. SaveIsFresh(r)'
  BY <1>1, <1>2, <1>3 DEF CalmInv, FormIsFresh, SaveIsFresh
<1> QED  BY <1>4, <1>5, <1>6 DEF CalmInv, SaveIsFresh

\* The server processes the request of slot r.
LEMMA CalmProcess ==
  ASSUME SliceInv, CalmInv, NEW r \in Thunks, Process(r)
  PROVE  CalmInv'
<1>1. /\ progress[r] = "sent" /\ UNCHANGED <<asked, form, edited, calm, editing, failed, muddled>>
      /\ progress' = [progress EXCEPT ![r] = "answered"]
  BY DEF Process, sliceVars, pageVars
<1>2. \A t \in Thunks : progress'[t] = IF t = r THEN "answered" ELSE progress[t]
  BY <1>1 DEF SliceInv, ProfileTypeInv, ProfileTypeOK
<1> SUFFICES ASSUME ~muddled PROVE CalmInv'
  BY <1>1 DEF CalmInv, FormIsFresh, SaveIsFresh
<1>3. \A t \in Thunks \ {r} : progress[t] = "idle"
  BY <1>1 DEF SliceInv, ProfileQuietInv, OneRequest
<1>4. FormIsFresh'
  <2> SUFFICES ASSUME editing, calm, ~failed
               PROVE  /\ OwnSave(r)'
                      /\ \A f \in Fields \ edited : form[f] = stored'[f]
    BY <1>1, <1>2, <1>3 DEF FormIsFresh
  <2>1. OwnSave(r) /\ \A f \in Fields \ edited : form[f] = stored[f]
    BY <1>1 DEF CalmInv, FormIsFresh
  <2>2. asked[r].op = "save" /\ \A f \in Fields \ edited : form[f] = asked[r].form[f]
    BY <2>1 DEF OwnSave, SliceInv, OwnInv, SentFromForm
  <2>3. \A f \in Fields : stored'[f] \in {stored[f], asked[r].form[f]}
    BY <2>2 DEF Process, Perform
  <2> QED  BY <1>1, <1>2, <2>1, <2>2, <2>3 DEF OwnSave, InFlight
<1> QED  BY <1>2, <1>3, <1>4 DEF CalmInv, SaveIsFresh

LEMMA CalmStep == SliceInv /\ CalmInv /\ [ProfileNext]_profileVars => CalmInv'
<1> SUFFICES ASSUME SliceInv, CalmInv, [ProfileNext]_profileVars PROVE CalmInv'
  OBVIOUS
\* No request is sent, and those on their way are what they were.
<1>1. ASSUME UNCHANGED <<stored, muddled>>,
             \A t \in Thunks : progress'[t] = "sent" => progress[t] = "sent" /\ asked'[t] = asked[t]
      PROVE  \A t \in Thunks : SaveIsFresh(t)'
  BY <1>1 DEF CalmInv, SaveIsFresh
<1>2. ASSUME NEW r \in Thunks, NEW p \in {"dashboard", "profile"}, Visit(r, p) PROVE CalmInv'
  <2>1. ~editing'
    BY <1>2 DEF Visit, Leave
  <2>2. ASSUME NEW t \in Thunks, ~muddled', progress'[t] = "sent" PROVE asked'[t].op = "fetch"
    <3>1. t = r
      BY <1>2, <2>2, SentAlone DEF Visit, SliceInv
    <3>2. asked'[r] = FetchRequest
      BY <1>2, DisownedType DEF Visit, SliceInv, ProfileTypeInv
    <3> QED  BY <3>1, <3>2 DEF FetchRequest
  <2> QED  BY <2>1, <2>2 DEF CalmInv, FormIsFresh, SaveIsFresh
<1>3. CASE VisitOther
  <2>1. ~editing' /\ asked' = Disowned /\ UNCHANGED <<stored, progress, muddled>>
    BY <1>3 DEF VisitOther, Leave
  <2> QED
    BY <2>1, DisownedSave DEF CalmInv, FormIsFresh, SaveIsFresh, SliceInv, ProfileTypeInv
<1>4. CASE StartEdit
  <2>1. /\ UNCHANGED <<stored, progress, asked, failed, muddled>> /\ form' = data
        /\ calm' => Settled /\ ~muddled /\ ~failed
    BY <1>4 DEF StartEdit, networkVars, sliceVars
  <2>2. FormIsFresh'
    BY <2>1 DEF FormIsFresh, Settled, SliceInv, ProfileQuietInv, NothingMissed
  <2> QED  BY <1>1, <2>1, <2>2 DEF CalmInv
<1>5. CASE Cancel
  <2>1. ~editing' /\ UNCHANGED <<stored, progress, asked, muddled>>
    BY <1>5 DEF Cancel, networkVars
  <2> QED  BY <1>1, <2>1 DEF CalmInv, FormIsFresh
<1>6. ASSUME NEW f \in Fields, NEW v \in Values[f] \ {Absent}, Type(f, v) PROVE CalmInv'
  <2>1. /\ UNCHANGED <<stored, progress, asked, editing, calm, failed, muddled>>
        /\ edited' = edited \cup {f}
    BY <1>6 DEF Type, networkVars, sliceVars
  <2>2. \A g \in Fields : g # f => form'[g] = form[g]
    <3>1. form \in Profiles /\ form' = [form EXCEPT ![f] = v]
      BY <1>6 DEF Type, SliceInv, ProfileTypeInv
    <3> QED  BY <3>1, ProfileFields
  <2>3. FormIsFresh'
    BY <2>1, <2>2 DEF CalmInv, FormIsFresh, OwnSave, InFlight
  <2> QED  BY <1>1, <2>1, <2>3 DEF CalmInv
<1>7. ASSUME NEW r \in Thunks, Deny(r) PROVE CalmInv'
  <2>1. UNCHANGED <<stored, asked, form, edited, calm, editing, failed, muddled>>
    BY <1>7 DEF Deny, sliceVars, pageVars
  <2>2. /\ progress[r] = "sent"
        /\ \A t \in Thunks : progress'[t] = IF t = r THEN "answered" ELSE progress[t]
    BY <1>7 DEF Deny, SliceInv, ProfileTypeInv, ProfileTypeOK
  <2>3. FormIsFresh'
    BY <2>1, <2>2 DEF CalmInv, FormIsFresh, OwnSave, InFlight
  <2> QED  BY <1>1, <2>1, <2>2, <2>3 DEF CalmInv
<1>8. ASSUME NEW r \in Thunks, Deliver(r) PROVE CalmInv'
  <2>1. /\ UNCHANGED <<stored, form, edited, calm, muddled>> /\ progress[r] = "answered"
        /\ progress'[r] = "idle"
        /\ \A t \in Thunks \ {r} : progress'[t] = progress[t] /\ asked'[t] = asked[t]
    BY <1>8 DEF Deliver, Forget, ResumeSave, SliceInv, ProfileTypeInv, ProfileTypeOK
  <2>2. FormIsFresh'
    <3> SUFFICES ASSUME editing', calm', ~failed', ~muddled' PROVE FALSE
      BY DEF FormIsFresh
    <3>1. body[r] # NoProfile /\ ~failed /\ editing /\ ~OwnSave(r)
      BY <1>8 DEF Deliver, Fulfilled, Rejected, ResumeSave
    <3> QED  BY <2>1, <3>1 DEF CalmInv, FormIsFresh
  <2> QED  BY <1>1, <2>1, <2>2 DEF CalmInv
<1>9. ASSUME NEW r \in Thunks, TimeOut(r) PROVE CalmInv'
  <2>1. /\ UNCHANGED <<stored, muddled>> /\ failed' /\ progress'[r] # "sent"
        /\ \A t \in Thunks \ {r} : progress'[t] = progress[t] /\ asked'[t] = asked[t]
    BY <1>9 DEF TimeOut, Forget, Rejected, SliceInv, ProfileTypeInv, ProfileTypeOK
  <2> QED  BY <1>1, <2>1 DEF CalmInv, FormIsFresh
<1>10. ASSUME NEW r \in Thunks, ProcessLate(r) PROVE CalmInv'
  <2>1. /\ progress[r] = "abandoned" /\ progress'[r] = "idle"
        /\ UNCHANGED <<failed, muddled, editing, calm>>
        /\ \A t \in Thunks \ {r} : progress'[t] = progress[t] /\ asked'[t] = asked[t]
    BY <1>10 DEF ProcessLate, Forget, sliceVars, pageVars, SliceInv, ProfileTypeInv, ProfileTypeOK
  <2>2. muddled \/ (failed /\ \A t \in Thunks \ {r} : progress[t] = "idle")
    BY <2>1 DEF SliceInv, ProfileQuietInv, OneRequest, NothingMissed
  <2> QED  BY <2>1, <2>2 DEF CalmInv, FormIsFresh, SaveIsFresh
<1>11. CASE AmendElsewhere
  BY <1>11 DEF AmendElsewhere, CalmInv, FormIsFresh, SaveIsFresh
<1>12. CASE UNCHANGED profileVars
  BY <1>12 DEF profileVars, networkVars, sliceVars, pageVars, CalmInv, FormIsFresh, SaveIsFresh,
               OwnSave, InFlight
<1> QED
  BY <1>2, <1>3, <1>4, <1>5, <1>6, <1>7, <1>8, <1>9, <1>10, <1>11, <1>12, CalmSave, CalmProcess
  DEF ProfileNext

LEMMA CalmSaveKeeps ==
  ASSUME SliceInv, CalmInv, [ProfileNext]_profileVars, NEW r \in Thunks,
         progress[r] = "sent", progress'[r] = "answered", stored' # stored,
         asked[r].op = "save", asked[r].calm, ~muddled
  PROVE  \A f \in Fields \ asked[r].edited : stored'[f] = stored[f]
<1>1. Process(r)
  <2>1. ASSUME NEW t \in Thunks, Save(t) PROVE FALSE
    BY <2>1, SaveFrame
  <2>2. ASSUME NEW t \in Thunks, Process(t) PROVE t = r
    BY <2>2 DEF Process, SliceInv, ProfileTypeInv, ProfileTypeOK
  <2>3. ASSUME NEW t \in Thunks, ProcessLate(t) PROVE FALSE
    BY <2>3 DEF ProcessLate, Forget, SliceInv, ProfileTypeInv, ProfileTypeOK
  <2>4. ASSUME NEW t \in Thunks,
               Deny(t) \/ Deliver(t) \/ TimeOut(t) \/ \E p \in {"dashboard", "profile"} : Visit(t, p)
        PROVE  FALSE
    BY <2>4 DEF Deny, Deliver, TimeOut, Visit
  <2>5. ASSUME \/ VisitOther \/ StartEdit \/ Cancel \/ AmendElsewhere \/ UNCHANGED profileVars
               \/ \E f \in Fields : \E v \in Values[f] \ {Absent} : Type(f, v)
        PROVE  FALSE
    BY <2>5 DEF VisitOther, StartEdit, Cancel, Type, AmendElsewhere, networkVars, profileVars
  <2> QED  BY <2>1, <2>2, <2>3, <2>4, <2>5 DEF ProfileNext
<1>2. \A f \in Fields : stored'[f] \in {stored[f], asked[r].form[f]}
  BY <1>1 DEF Process, Perform
<1> QED  BY <1>2 DEF CalmInv, SaveIsFresh

\* The save of a form that was opened on settled data writes back nothing but what
\* the user has changed, however many fields and requests there are (startEdit and
\* handleSave in ProfilePage.tsx).
THEOREM CalmSavesAreHarmless == ProfileSpec => CalmSavesKeepTheRest
<1>1. ProfileInit => OwnInv /\ CalmInv
  BY DEF ProfileInit, OwnInv, OwnSave, InFlight, CalmInv, FormIsFresh, SaveIsFresh
<1>2. ProfileTypeInv /\ OwnInv /\ ProfileQuietInv /\ CalmInv /\ [ProfileNext]_profileVars => CalmInv'
  BY CalmStep DEF SliceInv
<1>3. ProfileTypeInv /\ OwnInv /\ ProfileQuietInv /\ CalmInv /\ [ProfileNext]_profileVars =>
        [\A r \in Thunks :
           /\ progress[r] = "sent" /\ progress'[r] = "answered" /\ stored' # stored
           /\ asked[r].op = "save" /\ asked[r].calm /\ ~muddled
           => \A f \in Fields \ asked[r].edited : stored'[f] = stored[f]]_profileVars
  BY CalmSaveKeeps DEF SliceInv
<1> QED
  BY <1>1, <1>2, <1>3, ProfileTypeInit, ProfileTypeStep, OwnStep, ProfileQuietInit,
     ProfileQuietStep, PTL
  DEF ProfileSpec, CalmSavesKeepTheRest

-----------------------------------------------------------------------------
(* A session with both slices.                                             *)

LEMMA SessionStep ==
  [SessionNext]_sessionVars => [Next]_vars /\ [ProfileNext]_profileVars
BY DEF SessionNext, UseAccounts, UseProfile, sessionVars

\* A session is one of the accounts slice and one of the profile slice: what is proved
\* of each slice holds of both together (store/index.ts).
THEOREM SessionComposes == SessionSpec => Spec /\ ProfileSpec
<1>1. SessionInit => Init /\ ProfileInit
  BY DEF SessionInit
<1> QED  BY <1>1, SessionStep, PTL DEF SessionSpec, Spec, ProfileSpec

\* Types of the whole session, for any number of requests in either slice.
THEOREM SessionTyped == SessionSpec => []SessionTypeOK
<1> QED  BY SessionComposes, TypeCorrect, ProfileTyped, PTL DEF SessionTypeOK

\* In the whole session, the accounts page is current when it is quiet, shows only what
\* was stored and is turned back by overtaken answers only, its spinner stands for a
\* fetch, and every account has an order of its own.
THEOREM SessionAccounts ==
  SessionSpec => []LoadingMeansFetching /\ []QuietMeansCurrent /\ []RowsWereStored
                 /\ OnlyOvertakenTurnBack /\ []OneAccountPerOrder
BY SessionComposes, SpinnerMeansFetching, QuietPageIsCurrent, RowsStayStored,
   OvertakenOnlyTurnBack, OrdersOpenOneAccount, PTL

\* In the whole session, the profile is current when the slice is quiet, a save ends
\* its own form only, and one of a calm form changes what the user changed.
THEOREM SessionProfile ==
  SessionSpec => []ProfileQuietMeansCurrent /\ SavesEndTheirOwnForm /\ CalmSavesKeepTheRest
BY SessionComposes, QuietSliceIsCurrent, OwnSavesOnly, CalmSavesAreHarmless, PTL

=============================================================================
