---------------------------- MODULE ProfileStore ----------------------------
(***************************************************************************)
(* The profile slice of the user interface (ui/src/store/profileSlice.ts)  *)
(* and the two pages that use it: the dashboard, which fetches the         *)
(* profile, and ProfilePage.tsx, which also edits it in a form of its own. *)
(*                                                                         *)
(* The component behind it is the one ProfileRecord promises: a patch      *)
(* gives values to the fields it supplies, in one step, or fails.  The     *)
(* form supplies all of them but an address the profile has not got.       *)
(* Requests and answers overtake each other, and the user walks from page  *)
(* to page without waiting for them.  (Patches that overlap may do more    *)
(* harm than this, see UserProfileService; what is said of saves here is   *)
(* about saves that overlap with nothing.)                                 *)
(***************************************************************************)
EXTENDS Naturals

CONSTANTS
  Thunks,      \* slots for profile thunks under way at the same time
  Fields,      \* the fields of a profile
  Values,      \* the values each field may have
  Absent,      \* the value of a field the profile lacks
  NoProfile,   \* the absence of a profile, or of an answer
  MaxThunks    \* bound: how many profile thunks are dispatched

Profiles ==
  {p \in [Fields -> UNION {Values[f] : f \in Fields}] : \A f \in Fields : p[f] \in Values[f]}

\* A form without contents; it is never shown.
EmptyForm == [f \in Fields |-> Absent]

ASSUME ProfileStoreAssumption ==
  /\ MaxThunks \in Nat /\ DOMAIN Values = Fields
  /\ NoProfile \notin Profiles /\ EmptyForm \notin Profiles

VARIABLES
  stored,     \* the profile the server stores
  progress,   \* how far the request of each thunk has come
  asked,      \* what the thunk asks for
  body,       \* the answer under way to the client, NoProfile for an error
  data,       \* the profile of the slice
  fetching,   \* the slice's loading flag
  failed,     \* whether the slice has an error
  page,       \* the page that is open
  editing,    \* whether its form is
  form,       \* the contents of the form
  saving,     \* whether its buttons are disabled for a save
  edited,     \* history variable: the fields the user has changed in the form
  calm,       \* history variable: whether the form was copied from settled data
  muddled,    \* history variable, see Send
  thunks      \* the number of thunks dispatched so far

sliceVars == <<data, fetching, failed>>
pageVars == <<editing, form, saving, edited, calm>>
networkVars == <<progress, asked, body>>
profileVars == <<stored, networkVars, sliceVars, page, pageVars, muddled, thunks>>

-----------------------------------------------------------------------------
(* Requests.                                                               *)

NoRequest == [op |-> "none"]
FetchRequest == [op |-> "fetch"]

\* A save sends the form.  It belongs to the page that sent it until the user
\* leaves that page.
SaveRequests ==
  [op: {"save"}, form: Profiles, edited: SUBSET Fields, calm: BOOLEAN, own: BOOLEAN]

InFlight(r) == progress[r] \in {"sent", "answered"}
OwnSave(r) == InFlight(r) /\ asked[r].op = "save" /\ asked[r].own
Settled == \A r \in Thunks : progress[r] = "idle"

\* A thunk is dispatched.  Things are muddled from a request that meets another
\* one under way until a fetch is sent on its own.
Send(r, request) ==
  /\ progress[r] = "idle" /\ thunks < MaxThunks
  /\ progress' = [progress EXCEPT ![r] = "sent"]
  /\ thunks' = thunks + 1
  /\ muddled' = (IF Settled THEN muddled /\ request.op # "fetch" ELSE TRUE)

Forget(r) ==
  /\ progress' = [progress EXCEPT ![r] = "idle"]
  /\ asked' = [asked EXCEPT ![r] = NoRequest]
  /\ body' = [body EXCEPT ![r] = NoProfile]

-----------------------------------------------------------------------------
(* The reducers, and what handleSave does after its await.                 *)

\* Mutant: no reducer for the fulfilled update.
KeepProfile(r) ==
  /\ data' = (IF asked[r].op = "fetch" THEN body[r] ELSE data)
  /\ fetching' = (fetching /\ asked[r].op # "fetch")
  /\ UNCHANGED failed

Fulfilled(r) ==
  /\ data' = body[r]
  /\ fetching' = (fetching /\ asked[r].op # "fetch")
  /\ UNCHANGED failed

Rejected(r) ==
  /\ failed' = TRUE
  /\ fetching' = (fetching /\ asked[r].op # "fetch")
  /\ UNCHANGED data

\* Mutant: whichever page is open is told.
ResumeAnySave(r, ok) ==
  /\ saving' = (saving /\ asked[r].op # "save")
  /\ editing' = (editing /\ ~(asked[r].op = "save" /\ ok))
  /\ UNCHANGED <<form, edited, calm>>

\* Mutant: an error leaves the buttons disabled.
ResumeIfSaved(r, ok) ==
  /\ saving' = (saving /\ ~(OwnSave(r) /\ ok))
  /\ editing' = (editing /\ ~(OwnSave(r) /\ ok))
  /\ UNCHANGED <<form, edited, calm>>

\* A page that has been left is not told of the end of its save.
ResumeSave(r, ok) ==
  /\ saving' = (saving /\ ~OwnSave(r))
  /\ editing' = (editing /\ ~(OwnSave(r) /\ ok))
  /\ UNCHANGED <<form, edited, calm>>

-----------------------------------------------------------------------------
(* The user.                                                               *)

ProfileInit ==
  /\ stored \in Profiles \cup {NoProfile}
  /\ progress = [r \in Thunks |-> "idle"]
  /\ asked = [r \in Thunks |-> NoRequest]
  /\ body = [r \in Thunks |-> NoProfile]
  /\ data = NoProfile /\ fetching = FALSE /\ failed = FALSE
  /\ page = "other" /\ editing = FALSE /\ saving = FALSE
  /\ form = EmptyForm
  /\ edited = {} /\ calm = FALSE
  /\ muddled = TRUE /\ thunks = 0

\* The page left loses its form, and its save goes on without it.
Leave(p) ==
  /\ page # p /\ page' = p
  /\ editing' = FALSE /\ saving' = FALSE /\ edited' = {} /\ calm' = FALSE
  /\ form' = EmptyForm

Disowned ==
  [t \in Thunks |->
     IF asked[t].op = "save" THEN [asked[t] EXCEPT !.own = FALSE] ELSE asked[t]]

\* The dashboard and the profile page fetch the profile when they are opened.
Visit(r, p) ==
  /\ Leave(p)
  /\ Send(r, FetchRequest)
  /\ asked' = [Disowned EXCEPT ![r] = FetchRequest]
  /\ fetching' = TRUE /\ failed' = FALSE
  /\ UNCHANGED <<stored, body, data>>

\* No other page uses the slice.
VisitOther ==
  /\ Leave("other") /\ asked' = Disowned
  /\ UNCHANGED <<stored, progress, body, sliceVars, muddled, thunks>>

\* Mutant: what an abandoned form held is still in it.
ReopenForm ==
  /\ page = "profile" /\ ~editing /\ data # NoProfile
  /\ editing' = TRUE
  /\ edited' = {} /\ calm' = (Settled /\ ~muddled /\ ~failed)
  /\ UNCHANGED <<stored, networkVars, sliceVars, page, form, saving, muddled, thunks>>

\* startEdit: the form is a copy of the profile shown, even of one that is being
\* fetched again.
StartEdit ==
  /\ page = "profile" /\ ~editing /\ data # NoProfile
  /\ editing' = TRUE /\ form' = data
  /\ edited' = {} /\ calm' = (Settled /\ ~muddled /\ ~failed)
  /\ UNCHANGED <<stored, networkVars, sliceVars, page, saving, muddled, thunks>>

\* The user types, even while a save is under way.  Bound: a field of a form is
\* changed once.
Type(f, v) ==
  /\ editing /\ f \notin edited /\ v # form[f]
  /\ form' = [form EXCEPT ![f] = v]
  /\ edited' = edited \cup {f}
  /\ UNCHANGED <<stored, networkVars, sliceVars, page, editing, saving, calm, muddled,
                 thunks>>

Cancel ==
  /\ editing /\ ~saving
  /\ editing' = FALSE
  /\ UNCHANGED <<stored, networkVars, sliceVars, page, form, saving, edited, calm, muddled,
                 thunks>>

\* handleSave, to its await.
Save(r) ==
  /\ editing /\ ~saving
  /\ saving' = TRUE
  /\ LET request == [op |-> "save", form |-> form, edited |-> edited,
                     calm |-> calm /\ Settled /\ ~muddled /\ ~failed, own |-> TRUE]
     IN  Send(r, request) /\ asked' = [asked EXCEPT ![r] = request]
  /\ UNCHANGED <<stored, body, sliceVars, page, editing, form, edited, calm>>

-----------------------------------------------------------------------------
(* The server and the network.                                             *)

\* What the request does, and the profile it answers with.
Perform(request, profile) ==
  /\ profile \in Profiles
  /\ \/ request.op = "fetch" /\ profile = stored
     \/ /\ request.op = "save" /\ stored # NoProfile
        /\ profile = [f \in Fields |-> IF request.form[f] = Absent THEN stored[f]
                                      ELSE request.form[f]]
  /\ stored' = profile

\* The answer is what the request did, or an error although it was done.
Process(r) ==
  /\ progress[r] = "sent"
  /\ \E p \in Profiles :
       /\ Perform(asked[r], p)
       /\ \E lost \in BOOLEAN : body' = [body EXCEPT ![r] = IF lost THEN NoProfile ELSE p]
  /\ progress' = [progress EXCEPT ![r] = "answered"]
  /\ UNCHANGED <<asked, sliceVars, page, pageVars, muddled, thunks>>

\* The server refuses the request or fails.
Deny(r) ==
  /\ progress[r] = "sent"
  /\ progress' = [progress EXCEPT ![r] = "answered"]
  /\ UNCHANGED <<stored, asked, body, sliceVars, page, pageVars, muddled, thunks>>

\* The answer arrives, and the thunk is fulfilled or rejected.
Deliver(r) ==
  /\ progress[r] = "answered"
  /\ IF body[r] # NoProfile THEN Fulfilled(r) ELSE Rejected(r)
  /\ ResumeSave(r, body[r] # NoProfile)
  /\ Forget(r)
  /\ UNCHANGED <<stored, page, muddled, thunks>>

\* The client's timeout, or a network error.  A request that has not been
\* processed yet stays under way.
TimeOut(r) ==
  /\ InFlight(r)
  /\ Rejected(r) /\ ResumeSave(r, FALSE)
  /\ IF progress[r] = "answered" THEN Forget(r)
     ELSE progress' = [progress EXCEPT ![r] = "abandoned"] /\ UNCHANGED <<asked, body>>
  /\ UNCHANGED <<stored, page, muddled, thunks>>

\* The server processes a request the client has given up, or never gets it.
ProcessLate(r) ==
  /\ progress[r] = "abandoned"
  /\ (\E p \in Profiles : Perform(asked[r], p)) \/ UNCHANGED stored
  /\ Forget(r)
  /\ UNCHANGED <<sliceVars, page, pageVars, muddled, thunks>>

\* Another session of the same user changes a field, or creates the profile.
AmendElsewhere ==
  /\ stored' \in Profiles \ {stored}
  /\ stored # NoProfile => \E f \in Fields : \A g \in Fields \ {f} : stored'[g] = stored[g]
  /\ muddled' = TRUE
  /\ UNCHANGED <<networkVars, sliceVars, page, pageVars, thunks>>

ProfileNext ==
  \/ \E r \in Thunks :
       \/ \E p \in {"dashboard", "profile"} : Visit(r, p)
       \/ Save(r) \/ Process(r) \/ Deny(r) \/ Deliver(r) \/ TimeOut(r) \/ ProcessLate(r)
  \/ VisitOther \/ StartEdit \/ Cancel \/ \E f \in Fields : \E v \in Values[f] \ {Absent} : Type(f, v)
  \/ AmendElsewhere

ProfileSpec == ProfileInit /\ [][ProfileNext]_profileVars

-----------------------------------------------------------------------------
(* Properties.                                                             *)

\* Every variable holds values of the kind its code counterpart holds.
ProfileTypeOK ==
  /\ stored \in Profiles \cup {NoProfile} /\ data \in Profiles \cup {NoProfile}
  /\ progress \in [Thunks -> {"idle", "sent", "answered", "abandoned"}]
  /\ asked \in [Thunks -> {NoRequest, FetchRequest} \cup SaveRequests]
  /\ body \in [Thunks -> Profiles \cup {NoProfile}]
  /\ page \in {"other", "dashboard", "profile"} /\ form \in Profiles \cup {EmptyForm}
  /\ {fetching, failed, editing, saving, calm, muddled} \subseteq BOOLEAN
  /\ edited \subseteq Fields /\ thunks \in 0 .. MaxThunks

\* The end of a save closes or frees the form that sent it and no other: whoever
\* leaves a page while it saves, comes back and opens its form again keeps what is
\* typed there, whenever the answer to the first save arrives.
SavesEndTheirOwnForm ==
  [][/\ (editing /\ ~editing') \/ (saving /\ ~saving')
     /\ page' = page /\ progress' # progress
     => \E r \in Thunks :
          /\ OwnSave(r) /\ ~InFlight(r)'
          /\ \A f \in Fields : form[f] = asked[r].form[f] \/ f \in edited \ asked[r].edited
    ]_profileVars

\* When nothing is under way, no error is shown and no two requests have met since
\* the last lone fetch, the slice holds the profile that is stored.
ProfileQuietMeansCurrent == Settled /\ ~failed /\ ~muddled => data = stored

\* A save that goes undisturbed, of a form that was opened on settled data, changes
\* no field the user did not change, although it sends all of them.  (With the
\* refetch of the page still under way, or another session, it does: the form
\* writes back what it was opened with.)
CalmSavesKeepTheRest ==
  [][\A r \in Thunks :
       /\ progress[r] = "sent" /\ progress'[r] = "answered" /\ stored' # stored
       /\ asked[r].op = "save" /\ asked[r].calm /\ ~muddled
       => \A f \in Fields \ asked[r].edited : stored'[f] = stored[f]]_profileVars

=============================================================================
