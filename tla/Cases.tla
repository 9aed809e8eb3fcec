--------------------------------- MODULE Cases ---------------------------------
(***************************************************************************)
(* Customer requests of one store: submitSupportCase and its helpers in    *)
(* packages/db/src/notify, the photo upload of apps/api/src/routes/care.ts,*)
(* the owner's actions of the dashboard and the nightly purge of photos.   *)
(*                                                                         *)
(* The processes share three stores and nothing else: the rows of          *)
(* support_cases, the rows of case_attachments and the photos in R2.  No   *)
(* statement runs in a transaction with another, so every await is a step  *)
(* of its own.  Case ids grow with creation, so the latest case of a       *)
(* session is the one with the greatest id.  Requests without a session,   *)
(* which are neither searched for nor given photos, are left out.          *)
(***************************************************************************)
EXTENDS Naturals, FiniteSets, FiniteSetsExt, Sequences

CONSTANTS
  Talks,           \* conversations (session ids) of the store
  Types,           \* types of request a conversation can submit (CASE_TYPES of case.ts)
  Consult,         \* the type a consultation is mirrored as
  Requests,        \* calls of submitSupportCase
  TalkOf,          \* the conversation of a request
  TypeOf,          \* its type
  Photos,          \* uploads; also the key and the row of the photo
  PhotoTalk,       \* the conversation a photo is uploaded in
  Replies,         \* the owner's replies from the dashboard
  Casts,           \* which of these calls happen: a behaviour has one cast
  MaxPhotos,       \* MAX_PHOTOS_PER_HOUR
  RepeatWindow,    \* 30 minutes, in ticks of the clock
  PhotoWindow,     \* one hour
  Retention,       \* CARE_PHOTO_RETENTION_DAYS
  LastTick,        \* bound on the clock
  LastCase,        \* bound on the rows of support_cases
  MaxStatusChanges \* bound on setCaseStatus

ASSUME CasesAssumption ==
  /\ TalkOf \in [Requests -> Talks] /\ TypeOf \in [Requests -> Types]
  /\ PhotoTalk \in [Photos -> Talks] /\ Consult \notin Types
  /\ Casts \subseteq SUBSET (Requests \cup Photos \cup Replies)
  /\ {MaxPhotos, RepeatWindow, PhotoWindow, Retention} \subseteq Nat \ {0}
  /\ RepeatWindow <= PhotoWindow /\ PhotoWindow <= Retention
  /\ {LastTick, LastCase, MaxStatusChanges} \subseteq Nat

VARIABLES
  now,             \* the clock
  cases,           \* support_cases, by id
  photo,           \* case_attachments and R2, by photo
  request,         \* the calls of submitSupportCase
  reply,           \* the calls of sendCaseReply
  purge,           \* purgeCarePhotos: its batch, and the rows whose object is gone
  changes,         \* calls of setCaseStatus so far
  parted           \* photos that the linking of a request could not reach (history)

caseVars == <<now, cases, photo, request, reply, purge, changes, parted>>

Statuses == {"open", "in_progress", "resolved"}
CaseIds  == 1..LastCase
Case == [talk : Talks, type : Types \cup {Consult}, status : Statuses, at : 0..LastTick]
Photo == [pc     : {"absent", "new", "putting", "saving", "saved", "refused", "broken"},
          found  : 0..LastCase,                 \* existing
          object : BOOLEAN,                     \* it is in R2
          row    : BOOLEAN,
          kase   : 0..LastCase,                 \* caseId, 0 for null
          at     : 0..LastTick]                 \* createdAt of the row
Request == [pc    : {"absent", "new", "updating", "inserting", "linking", "ok", "failed"},
            kase  : 0..LastCase,                \* prev, then the request it made
            known : SUBSET CaseIds,             \* unhandled requests it repeats, when called (history)
            moved : SUBSET CaseIds]             \* the owner moved them since (history)
Reply == [pc : {"absent", "new", "mailing", "done"}, kase : 0..LastCase,
          status : Statuses]                    \* the status it read
Purge == [pc : {"idle", "deleting"}, batch : SUBSET Photos, done : SUBSET Photos]

CaseInit ==
  \E cast \in Casts :
    LET call(c) == IF c \in cast THEN "new" ELSE "absent" IN
    /\ photo = [p \in Photos |-> [pc |-> call(p), found |-> 0, object |-> FALSE,
                                  row |-> FALSE, kase |-> 0, at |-> 0]]
    /\ request = [r \in Requests |-> [pc |-> call(r), kase |-> 0, known |-> {}, moved |-> {}]]
    /\ reply = [o \in Replies |-> [pc |-> call(o), kase |-> 0, status |-> "open"]]
    /\ now = 0 /\ cases = <<>> /\ changes = 0 /\ parted = {}
    /\ purge = [pc |-> "idle", batch |-> {}, done |-> {}]

-------------------------------------------------------------------------------
(* The queries *)

CreatedWithin(window, at) == now - at < window

\* The same need, in the same conversation, still open, of the last 30 minutes.
HandledRepeats(talk, type) ==                                         \* mutant
  {i \in DOMAIN cases : /\ cases[i].talk = talk /\ cases[i].type = type
                        /\ CreatedWithin(RepeatWindow, cases[i].at)}
Repeats(talk, type) ==
  {i \in DOMAIN cases : /\ cases[i].talk = talk /\ cases[i].type = type
                        /\ cases[i].status # "resolved"
                        /\ CreatedWithin(RepeatWindow, cases[i].at)}

\* The requests a customer of the conversation would call the same (for the history only).
Unhandled(talk, type) ==
  {i \in DOMAIN cases : cases[i].talk = talk /\ cases[i].type = type /\ cases[i].status # "resolved"}

MaxOrNone(ids) == IF ids = {} THEN 0 ELSE Max(ids)

LatestOpenCase(talk) ==                                               \* mutant
  MaxOrNone({i \in DOMAIN cases : /\ cases[i].talk = talk /\ cases[i].status # "resolved"
                                  /\ CreatedWithin(PhotoWindow, cases[i].at)})
\* latestSessionCase: whatever its type and its status.
LatestSessionCase(talk) ==
  MaxOrNone({i \in DOMAIN cases : cases[i].talk = talk /\ CreatedWithin(PhotoWindow, cases[i].at)})

\* The photos of a conversation that no request has taken yet.
Unlinked(talk) ==
  {p \in Photos : photo[p].row /\ PhotoTalk[p] = talk /\ photo[p].kase = 0
                  /\ CreatedWithin(PhotoWindow, photo[p].at)}

HourOf(talk) ==
  {p \in Photos : photo[p].row /\ PhotoTalk[p] = talk /\ CreatedWithin(PhotoWindow, photo[p].at)}

-------------------------------------------------------------------------------
(* submitSupportCase *)

\* The call and its first statement, the search for a request that it repeats.
SubmitSupportCase(r) ==
  /\ request[r].pc = "new"
  /\ LET prev == MaxOrNone(Repeats(TalkOf[r], TypeOf[r])) IN
     request' = [request EXCEPT ![r].kase = prev,
                                ![r].moved = {}, ![r].known = Unhandled(TalkOf[r], TypeOf[r]),
                                ![r].pc = IF prev = 0 THEN "inserting" ELSE "updating"]
  /\ UNCHANGED <<now, cases, photo, reply, purge, changes, parted>>

\* The update names the id alone: the request may have been handled meanwhile.  What the
\* customer says is left out of the rows.
UpdateRepeat(r) ==
  /\ request[r].pc = "updating"
  /\ request' = [request EXCEPT ![r].pc = "ok", ![r].known = {}, ![r].moved = {}]
  /\ UNCHANGED <<now, cases, photo, reply, purge, changes, parted>>

NewCase(talk, type) == [talk |-> talk, type |-> type, status |-> "open", at |-> now]

InsertCase(r) ==
  /\ request[r].pc = "inserting" /\ Len(cases) < LastCase
  /\ cases' = Append(cases, NewCase(TalkOf[r], TypeOf[r]))
  /\ request' = [request EXCEPT ![r].pc = "linking", ![r].kase = Len(cases) + 1,
                                ![r].known = {}, ![r].moved = {}]
  /\ UNCHANGED <<now, photo, reply, purge, changes, parted>>

\* The database fails: 'could not save the request'.
SubmitFails(r) ==
  /\ request[r].pc \in {"new", "updating", "inserting"}
  /\ request' = [request EXCEPT ![r].pc = "failed", ![r].known = {}, ![r].moved = {}]
  /\ UNCHANGED <<now, cases, photo, reply, purge, changes, parted>>

\* linkSessionPhotos; its failure is caught and the request stands without photos.
LinkSessionPhotos(r) ==
  LET talk   == TalkOf[r]
      all    == {p \in Photos : PhotoTalk[p] = talk /\ photo[p].row /\ photo[p].kase = 0}
      coming == {p \in Photos : PhotoTalk[p] = talk /\ photo[p].pc = "saving" /\ photo[p].found = 0}
  IN /\ request[r].pc = "linking"
     /\ \/ /\ photo' = [p \in Photos |-> IF p \in Unlinked(talk)
                                         THEN [photo[p] EXCEPT !.kase = request[r].kase] ELSE photo[p]]
           /\ parted' = parted \cup coming \cup (all \ Unlinked(talk))
        \/ /\ parted' = parted \cup coming \cup all
           /\ UNCHANGED photo
     /\ request' = [request EXCEPT ![r].pc = "ok"]
     /\ UNCHANGED <<now, cases, reply, purge, changes>>

\* submitConsultationRequest mirrors a saved consultation into the inbox, unseen and unchecked.
MirrorConsultation(talk) ==
  /\ Len(cases) < LastCase
  /\ cases' = Append(cases, NewCase(talk, Consult))
  /\ UNCHANGED <<now, photo, request, reply, purge, changes, parted>>

-------------------------------------------------------------------------------
(* POST /v1/care/upload, after the checks of store, origin and conversation *)

HourHasRoom(talk)  == Cardinality(HourOf(talk)) < MaxPhotos

Upload(p) ==
  LET talk == PhotoTalk[p] IN
  /\ photo[p].pc = "new"
  /\ photo' = [photo EXCEPT ![p].pc = IF HourHasRoom(talk) THEN "putting" ELSE "refused"]
  /\ UNCHANGED <<now, cases, request, reply, purge, changes, parted>>

\* The object is stored, then the request of the conversation is looked up; nothing
\* sees the object in between, and a failure there is a failure before the row.
PutObject(p) ==
  /\ photo[p].pc = "putting"
  /\ photo' = [photo EXCEPT ![p].pc = "saving", ![p].object = TRUE,
                            ![p].found = LatestSessionCase(PhotoTalk[p])]
  /\ UNCHANGED <<now, cases, request, reply, purge, changes, parted>>

SavePhoto(p) ==
  /\ photo[p].pc = "saving"
  /\ photo' = [photo EXCEPT ![p].pc = "saved", ![p].row = TRUE, ![p].kase = photo[p].found,
                            ![p].at = now]
  /\ UNCHANGED <<now, cases, request, reply, purge, changes, parted>>

\* R2 or the database fails, or the server stops: nothing that was done is undone.
UploadBreaks(p) ==
  /\ photo[p].pc \in {"new", "putting", "saving"}
  /\ photo' = [photo EXCEPT ![p].pc = "broken"]
  /\ UNCHANGED <<now, cases, request, reply, purge, changes, parted>>

-------------------------------------------------------------------------------
(* The dashboard *)

\* setCaseStatus; setting the status a request has changes nothing.
SetCaseStatus(i, status) ==
  /\ changes < MaxStatusChanges /\ status # cases[i].status
  /\ cases' = [cases EXCEPT ![i].status = status]
  /\ request' = [r \in Requests |-> [request[r] EXCEPT !.moved = @ \cup (request[r].known \cap {i})]]
  /\ changes' = changes + 1
  /\ UNCHANGED <<now, photo, reply, purge, parted>>

\* sendCaseReply reads the request; one without an email address only gets a note.
SendCaseReply(o, i) ==
  /\ reply[o].pc = "new"
  /\ \E next \in {"mailing", "done"} :
       reply' = [reply EXCEPT ![o] = [pc |-> next, kase |-> i, status |-> cases[i].status]]
  /\ UNCHANGED <<now, cases, photo, request, purge, changes, parted>>

\* The mail may fail.  If it went out, only the status read before it decides whether
\* the request moves to "in_progress".
ReplySent(o) ==
  /\ reply[o].pc = "mailing"
  /\ \/ UNCHANGED cases
     \/ /\ reply[o].status = "open"
        /\ cases' = [cases EXCEPT ![reply[o].kase].status = "in_progress"]
  /\ reply' = [reply EXCEPT ![o].pc = "done"]
  /\ UNCHANGED <<now, photo, request, purge, changes, parted>>

-------------------------------------------------------------------------------
(* purgeCarePhotos *)

Expired == {p \in Photos : photo[p].row /\ now - photo[p].at > Retention}

SelectBatch ==
  /\ purge.pc = "idle" /\ Expired # {}
  /\ purge' = [pc |-> "deleting", batch |-> Expired, done |-> {}]
  /\ UNCHANGED <<now, cases, photo, request, reply, changes, parted>>

\* One object of the batch; a failed delete leaves its row for the next night.
DeleteObject(p) ==
  /\ purge.pc = "deleting" /\ p \in purge.batch
  /\ \/ /\ photo' = [photo EXCEPT ![p].object = FALSE]
        /\ purge' = [purge EXCEPT !.batch = @ \ {p}, !.done = @ \cup {p}]
     \/ /\ purge' = [purge EXCEPT !.batch = @ \ {p}]
        /\ UNCHANGED photo
  /\ UNCHANGED <<now, cases, request, reply, changes, parted>>

WholeBatch == Expired                                                 \* mutant
Deleted    == purge.done

DeleteRows ==
  /\ purge.pc = "deleting" /\ purge.batch = {}
  /\ photo' = [p \in Photos |-> IF p \in Deleted THEN [photo[p] EXCEPT !.row = FALSE] ELSE photo[p]]
  /\ purge' = [pc |-> "idle", batch |-> {}, done |-> {}]
  /\ UNCHANGED <<now, cases, request, reply, changes, parted>>

\* The worker stops between the objects and the rows.
PurgeStops ==
  /\ purge.pc = "deleting"
  /\ purge' = [pc |-> "idle", batch |-> {}, done |-> {}]
  /\ UNCHANGED <<now, cases, photo, request, reply, changes, parted>>

Tick ==
  /\ now < LastTick
  /\ now' = now + 1
  /\ UNCHANGED <<cases, photo, request, reply, purge, changes, parted>>

-------------------------------------------------------------------------------
RequestStep(r) == \/ SubmitSupportCase(r) \/ UpdateRepeat(r) \/ InsertCase(r)
                  \/ SubmitFails(r) \/ LinkSessionPhotos(r)
UploadStep(p) == \/ Upload(p) \/ PutObject(p) \/ SavePhoto(p) \/ UploadBreaks(p)
ReplyStep(o) == (\E i \in DOMAIN cases : SendCaseReply(o, i)) \/ ReplySent(o)
PurgeStep == SelectBatch \/ (\E p \in Photos : DeleteObject(p)) \/ DeleteRows \/ PurgeStops

CaseNext ==
  \/ \E r \in Requests : RequestStep(r)
  \/ \E p \in Photos : UploadStep(p)
  \/ \E o \in Replies : ReplyStep(o)
  \/ \E i \in DOMAIN cases, s \in Statuses : SetCaseStatus(i, s)
  \/ \E t \in Talks : MirrorConsultation(t)
  \/ PurgeStep
  \/ Tick

CaseSpec == CaseInit /\ [][CaseNext]_caseVars

-------------------------------------------------------------------------------
(* Properties *)

CaseTypeOK ==
  /\ now \in 0..LastTick /\ changes \in 0..MaxStatusChanges
  /\ cases \in Seq(Case) /\ Len(cases) <= LastCase
  /\ photo \in [Photos -> Photo]
  /\ request \in [Requests -> Request]
  /\ reply \in [Replies -> Reply]
  /\ purge \in Purge
  /\ parted \subseteq Photos

\* A need that is already in the inbox, unhandled and no older than 30 minutes, is
\* never filed a second time: only calls that were under way together can both insert.
\* And a correction never lands in a request that was handled before the customer
\* made it: if it does land in a handled one, the owner handled it during the call.
RepeatsGoTogether ==
  [][\A r \in Requests :
       /\ request[r].pc = "inserting" /\ request'[r].pc = "linking" =>
            \A i \in request[r].known \ request[r].moved : ~CreatedWithin(RepeatWindow, cases[i].at)
       /\ request[r].pc = "updating" /\ request'[r].pc = "ok" =>
            \/ cases[request[r].kase].status # "resolved"
            \/ request[r].kase \in request[r].known]_caseVars

\* A photo hangs on a case of its own conversation.  One that found a case when it was
\* uploaded, the latest of the conversation, stays with that one, be it a consultation's
\* mirror: a request that comes later does not get it.  One that found none is taken by a
\* request, and is not left alone by a request of its conversation made within the hour
\* before it or after it.  The exceptions (parted) are a photo that had looked for its
\* case and was not saved yet when the request linked its photos, and a link that failed.
PhotosAreFiled ==
  \A p \in Photos : photo[p].row =>
    /\ photo[p].kase # 0 => cases[photo[p].kase].talk = PhotoTalk[p]
    /\ photo[p].found # 0 => photo[p].kase = photo[p].found
    /\ photo[p].found = 0 /\ photo[p].kase # 0 => cases[photo[p].kase].type # Consult
    /\ photo[p].kase = 0 =>
         \A r \in Requests :
           /\ request[r].pc = "ok" /\ request[r].kase # 0 /\ TalkOf[r] = PhotoTalk[p]
           /\ \A q \in Requests : request[q].pc # "linking"
           /\ photo[p].at - cases[request[r].kase].at < PhotoWindow
           => p \in parted

\* The photo and its row go together.  The row of a photo that is not past its time
\* has its object in R2 (the upload stores the object first, the purge deletes it
\* first), and a saved photo never outlives its row: an object that could not be
\* deleted keeps the row, by which the next night finds it.
PhotoAndRow ==
  \A p \in Photos :
    /\ photo[p].row /\ now - photo[p].at <= Retention => photo[p].object
    /\ photo[p].pc = "saved" /\ ~photo[p].row => ~photo[p].object
===============================================================================
