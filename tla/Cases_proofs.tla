------------------------------ MODULE Cases_proofs ------------------------------
(***************************************************************************)
(* Proofs about Cases, for any conversations, requests, photos and windows.*)
(*                                                                         *)
(* None of the three properties is inductive.  RepeatsGoTogether needs     *)
(* what a request remembers of its search (RequestMeans); PhotoAndRow      *)
(* needs that the purge only holds photos past their time, and has deleted *)
(* what it says it has (PurgeMeans); PhotosAreFiled needs what a photo has *)
(* found (PhotoMeans) and, for every request that has linked its photos,   *)
(* that no photo under way is left (LinksMade).                            *)
(***************************************************************************)
EXTENDS Cases, TLAPS, WellFoundedInduction

-------------------------------------------------------------------------------
(* The latest request *)

Below == {pair \in Nat \X Nat : pair[1] < pair[2]}

LEMMA BelowWellFounded == IsWellFoundedOn(Below, Nat)
BY NatLessThanWellFounded DEF OpToRel, Below

\* The greatest id of a nonempty set of ids is one of them.
LEMMA MaxOfIds ==
  ASSUME NEW S \in SUBSET (1..LastCase), S # {}
  PROVE  MaxOrNone(S) \in S
<1>. LastCase \in Nat BY CasesAssumption DEF CasesAssumption
<1>. DEFINE Left == {LastCase - i : i \in S}
<1>1. Left \subseteq Nat /\ Left # {}
  <2>1. \A i \in S : i \in 1..LastCase OBVIOUS
  <2>2. \A i \in 1..LastCase : LastCase - i \in Nat OBVIOUS
  <2>. QED BY <2>1, <2>2
<1>2. PICK x \in Left : \A y \in Left : ~ (<<y, x>> \in Below)
  <2>. HIDE DEF Left
  <2>. QED BY <1>1, WFMin, BelowWellFounded
<1>3. \A y \in Left : x <= y
  <2>. HIDE DEF Left
  <2>. TAKE y \in Left
  <2>1. x \in Nat /\ y \in Nat BY <1>1
  <2>2. ~ (y < x) BY <2>1, <1>2 DEF Below
  <2>. QED BY <2>1, <2>2
<1>4. PICK m \in S : x = LastCase - m OBVIOUS
<1>5. \A i \in S : m >= i
  <2>. TAKE i \in S
  <2>1. LastCase - i \in Left OBVIOUS
  <2>2. LastCase - m <= LastCase - i BY <2>1, <1>3, <1>4
  <2>3. m \in 1..LastCase /\ i \in 1..LastCase OBVIOUS
  <2>. QED BY <2>2, <2>3
<1>6. Max(S) \in S BY <1>5, Zenon DEF Max
<1>. QED BY <1>6 DEF MaxOrNone

LEMMA MaxOrNoneType ==
  ASSUME NEW S \in SUBSET (1..LastCase)
  PROVE  /\ MaxOrNone(S) \in 0..LastCase
         /\ MaxOrNone(S) = 0 <=> S = {}
         /\ MaxOrNone(S) # 0 => MaxOrNone(S) \in S
<1>. LastCase \in Nat BY CasesAssumption DEF CasesAssumption
<1>1. CASE S = {} BY <1>1 DEF MaxOrNone
<1>2. CASE S # {}
  <2>1. MaxOrNone(S) \in S BY <1>2, MaxOfIds
  <2>2. MaxOrNone(S) \in 1..LastCase BY <2>1
  <2>. HIDE DEF MaxOrNone
  <2>. QED BY <1>2, <2>1, <2>2
<1>. QED BY <1>1, <1>2

-------------------------------------------------------------------------------
(* Types *)

LEMMA Bounds ==
  /\ LastCase \in Nat /\ LastTick \in Nat /\ MaxStatusChanges \in Nat
  /\ RepeatWindow \in Nat \ {0} /\ PhotoWindow \in Nat \ {0} /\ Retention \in Nat \ {0}
  /\ RepeatWindow <= PhotoWindow
BY CasesAssumption DEF CasesAssumption

LEMMA CallTypes ==
  /\ \A r \in Requests : TalkOf[r] \in Talks /\ TypeOf[r] \in Types /\ TypeOf[r] # Consult
  /\ \A p \in Photos : PhotoTalk[p] \in Talks
BY CasesAssumption DEF CasesAssumption

LEMMA CaseIdTypes == ASSUME CaseTypeOK PROVE DOMAIN cases = 1..Len(cases) /\ DOMAIN cases \subseteq CaseIds
BY Bounds DEF CaseTypeOK, CaseIds

LEMMA CaseFields ==
  ASSUME CaseTypeOK, NEW i \in DOMAIN cases
  PROVE  /\ cases[i] \in Case /\ cases[i].talk \in Talks /\ cases[i].type \in Types \cup {Consult}
         /\ cases[i].status \in Statuses /\ cases[i].at \in 0..LastTick
<1>1. cases[i] \in Case BY DEF CaseTypeOK
<1>. QED BY <1>1 DEF Case

\* What a new request adds: one case at the end, the others as they are.
LEMMA AppendCase ==
  ASSUME CaseTypeOK, Len(cases) < LastCase, NEW c \in Case, cases' = Append(cases, c)
  PROVE  /\ cases' \in Seq(Case) /\ Len(cases') = Len(cases) + 1 /\ Len(cases') <= LastCase
         /\ DOMAIN cases' = DOMAIN cases \cup {Len(cases) + 1}
         /\ cases'[Len(cases) + 1] = c
         /\ \A i \in DOMAIN cases : cases'[i] = cases[i]
BY Bounds DEF CaseTypeOK

LEMMA StatusCase ==
  ASSUME CaseTypeOK, NEW i \in 0..LastCase, NEW s \in Statuses,
         cases' = [cases EXCEPT ![i].status = s]
  PROVE  /\ cases' \in Seq(Case) /\ Len(cases') = Len(cases)
         /\ DOMAIN cases' = DOMAIN cases
         /\ \A k \in DOMAIN cases : /\ cases'[k].talk = cases[k].talk
                                    /\ cases'[k].type = cases[k].type
                                    /\ cases'[k].at = cases[k].at
<1>1. \A k \in DOMAIN cases : cases[k] \in Case BY CaseFields
<1>2. CASE i \in DOMAIN cases
  <2>1. [cases[i] EXCEPT !.status = s] \in Case BY <1>1, <1>2 DEF Case
  <2>2. cases' = [cases EXCEPT ![i] = [cases[i] EXCEPT !.status = s]] OBVIOUS
  <2>3. cases' \in Seq(Case) /\ Len(cases') = Len(cases) /\ DOMAIN cases' = DOMAIN cases
    BY <1>2, <2>1, <2>2 DEF CaseTypeOK
  <2>4. \A k \in DOMAIN cases : /\ cases'[k].talk = cases[k].talk
                                /\ cases'[k].type = cases[k].type
                                /\ cases'[k].at = cases[k].at
    BY <1>1 DEF Case, CaseTypeOK
  <2>. QED BY <2>3, <2>4
<1>3. CASE i \notin DOMAIN cases
  <2>1. cases' = cases BY <1>3 DEF CaseTypeOK
  <2>. QED BY <2>1 DEF CaseTypeOK
<1>. QED BY <1>2, <1>3

LEMMA NewCaseType ==
  ASSUME CaseTypeOK, NEW talk \in Talks, NEW type \in Types \cup {Consult}
  PROVE  /\ NewCase(talk, type) \in Case
         /\ NewCase(talk, type).talk = talk /\ NewCase(talk, type).type = type
         /\ NewCase(talk, type).at = now
BY DEF NewCase, Case, Statuses, CaseTypeOK

\* The ids the queries find, and that the latest of them is one of them.
LEMMA Found ==
  ASSUME CaseTypeOK, NEW talk, NEW type
  PROVE  /\ MaxOrNone(Repeats(talk, type)) \in 0..LastCase
         /\ MaxOrNone(Repeats(talk, type)) = 0 <=> Repeats(talk, type) = {}
         /\ MaxOrNone(Repeats(talk, type)) # 0 =>
              MaxOrNone(Repeats(talk, type)) \in Repeats(talk, type)
         /\ Unhandled(talk, type) \subseteq CaseIds
<1>1. DOMAIN cases \subseteq 1..LastCase BY CaseIdTypes DEF CaseIds
<1>2. Repeats(talk, type) \in SUBSET (1..LastCase) BY <1>1 DEF Repeats
<1>3. Unhandled(talk, type) \subseteq CaseIds BY <1>1 DEF Unhandled, CaseIds
<1>. QED BY <1>2, <1>3, MaxOrNoneType

LEMMA FoundByPhoto ==
  ASSUME CaseTypeOK, NEW talk
  PROVE  /\ LatestSessionCase(talk) \in 0..LastCase
         /\ LatestSessionCase(talk) = 0 =>
              \A i \in DOMAIN cases : cases[i].talk = talk => ~CreatedWithin(PhotoWindow, cases[i].at)
<1>. DEFINE S == {i \in DOMAIN cases : cases[i].talk = talk /\ CreatedWithin(PhotoWindow, cases[i].at)}
<1>1. S \in SUBSET (1..LastCase) BY CaseIdTypes DEF CaseIds
<1>2. LatestSessionCase(talk) = MaxOrNone(S) BY DEF LatestSessionCase
<1>3. MaxOrNone(S) \in 0..LastCase /\ (MaxOrNone(S) = 0 => S = {})
  <2>. HIDE DEF S
  <2>. QED BY <1>1, MaxOrNoneType
<1>. QED BY <1>2, <1>3

LEMMA FoundIsOfTheTalk ==
  ASSUME CaseTypeOK, NEW talk, LatestSessionCase(talk) # 0
  PROVE  LatestSessionCase(talk) \in DOMAIN cases /\ cases[LatestSessionCase(talk)].talk = talk
<1>. DEFINE S == {i \in DOMAIN cases : cases[i].talk = talk /\ CreatedWithin(PhotoWindow, cases[i].at)}
<1>1. S \in SUBSET (1..LastCase) BY CaseIdTypes DEF CaseIds
<1>2. LatestSessionCase(talk) = MaxOrNone(S) BY DEF LatestSessionCase
<1>3. MaxOrNone(S) # 0 => MaxOrNone(S) \in S
  <2>. HIDE DEF S
  <2>. QED BY <1>1, MaxOrNoneType
<1>. QED BY <1>2, <1>3

LEMMA RequestTypes ==
  ASSUME CaseTypeOK, NEW r \in Requests, RequestStep(r)
  PROVE  CaseTypeOK'
<1>. USE Bounds DEF CaseTypeOK
<1>1. CASE SubmitSupportCase(r)
  <2>. DEFINE prev == MaxOrNone(Repeats(TalkOf[r], TypeOf[r]))
              known == Unhandled(TalkOf[r], TypeOf[r])
  <2>1. prev \in 0..LastCase /\ known \subseteq CaseIds BY Found
  <2>2. request' = [request EXCEPT ![r].kase = prev, ![r].moved = {}, ![r].known = known,
                                   ![r].pc = IF prev = 0 THEN "inserting" ELSE "updating"]
    BY <1>1 DEF SubmitSupportCase
  <2>. HIDE DEF prev, known
  <2>. DEFINE new == [request[r] EXCEPT !.kase = prev, !.moved = {}, !.known = known,
                                        !.pc = IF prev = 0 THEN "inserting" ELSE "updating"]
  <2>3. new \in Request
    <3>1. request[r] \in Request OBVIOUS
    <3>. QED BY <2>1, <3>1 DEF Request
  <2>4. request' \in [Requests -> Request]
    <3>1. request' = [request EXCEPT ![r] = new] BY <2>2
    <3>. HIDE DEF new
    <3>. QED BY <2>3, <3>1
  <2>. QED BY <1>1, <2>4 DEF SubmitSupportCase
<1>2. CASE UpdateRepeat(r) BY ZenonT(30), <1>2 DEF UpdateRepeat, Request
<1>3. CASE InsertCase(r)
  <2>1. NewCase(TalkOf[r], TypeOf[r]) \in Case BY CallTypes, NewCaseType
  <2>2. cases' \in Seq(Case) /\ Len(cases') <= LastCase BY <1>3, <2>1, AppendCase DEF InsertCase
  <2>3. Len(cases) + 1 \in 0..LastCase BY <1>3 DEF InsertCase
  <2>. DEFINE new == [request[r] EXCEPT !.pc = "linking", !.kase = Len(cases) + 1,
                                        !.known = {}, !.moved = {}]
  <2>4. new \in Request
    <3>1. request[r] \in Request OBVIOUS
    <3>. QED BY <2>3, <3>1 DEF Request
  <2>5. request' \in [Requests -> Request]
    <3>1. request' = [request EXCEPT ![r] = new] BY <1>3 DEF InsertCase
    <3>. HIDE DEF new
    <3>. QED BY <2>4, <3>1
  <2>. QED BY <1>3, <2>2, <2>5 DEF InsertCase
<1>4. CASE SubmitFails(r) BY ZenonT(30), <1>4 DEF SubmitFails, Request
<1>5. CASE LinkSessionPhotos(r)
  <2>1. request' \in [Requests -> Request] BY ZenonT(30), <1>5 DEF LinkSessionPhotos, Request
  <2>2. request[r].kase \in 0..LastCase BY DEF Request
  <2>3. photo' \in [Photos -> Photo]
    <3>1. \A p \in Photos : [photo[p] EXCEPT !.kase = request[r].kase] \in Photo BY <2>2 DEF Photo
    <3>. QED BY <1>5, <3>1 DEF LinkSessionPhotos
  <2>4. parted' \subseteq Photos BY <1>5 DEF LinkSessionPhotos
  <2>. QED BY <1>5, <2>1, <2>3, <2>4 DEF LinkSessionPhotos
<1>. QED BY <1>1, <1>2, <1>3, <1>4, <1>5 DEF RequestStep

LEMMA UploadTypes ==
  ASSUME CaseTypeOK, NEW p \in Photos, UploadStep(p)
  PROVE  CaseTypeOK'
<1>. USE Bounds DEF CaseTypeOK
<1>1. CASE Upload(p)
  <2>. DEFINE to  == IF HourHasRoom(PhotoTalk[p]) THEN "putting" ELSE "refused"
              new == [photo[p] EXCEPT !.pc = to]
  <2>1. new \in Photo
    <3>1. photo[p] \in Photo /\ to \in {"putting", "refused"} OBVIOUS
    <3>. HIDE DEF to
    <3>. QED BY <3>1 DEF Photo
  <2>2. photo' \in [Photos -> Photo]
    <3>1. photo' = [photo EXCEPT ![p] = new] BY <1>1 DEF Upload
    <3>. HIDE DEF new
    <3>. QED BY <2>1, <3>1
  <2>. QED BY <1>1, <2>2 DEF Upload
<1>2. CASE PutObject(p)
  <2>. DEFINE latest == LatestSessionCase(PhotoTalk[p])
              new == [photo[p] EXCEPT !.pc = "saving", !.object = TRUE, !.found = latest]
  <2>1. latest \in 0..LastCase BY FoundByPhoto
  <2>2. new \in Photo
    <3>1. photo[p] \in Photo OBVIOUS
    <3>. HIDE DEF latest
    <3>. QED BY <2>1, <3>1 DEF Photo
  <2>3. photo' \in [Photos -> Photo]
    <3>1. photo' = [photo EXCEPT ![p] = new] BY <1>2 DEF PutObject
    <3>. HIDE DEF new
    <3>. QED BY <2>2, <3>1
  <2>. QED BY <1>2, <2>3 DEF PutObject
<1>3. CASE SavePhoto(p)
  <2>. DEFINE new == [photo[p] EXCEPT !.pc = "saved", !.row = TRUE, !.kase = photo[p].found, !.at = now]
  <2>2. new \in Photo
    <3>1. photo[p] \in Photo OBVIOUS
    <3>. QED BY <3>1 DEF Photo
  <2>3. photo' \in [Photos -> Photo]
    <3>1. photo' = [photo EXCEPT ![p] = new] BY <1>3 DEF SavePhoto
    <3>. HIDE DEF new
    <3>. QED BY <2>2, <3>1
  <2>. QED BY <1>3, <2>3 DEF SavePhoto
<1>4. CASE UploadBreaks(p) BY ZenonT(30), <1>4 DEF UploadBreaks, Photo
<1>. QED BY <1>1, <1>2, <1>3, <1>4 DEF UploadStep

LEMMA OwnerTypes ==
  ASSUME CaseTypeOK,
         \/ \E o \in Replies : ReplyStep(o)
         \/ \E i \in DOMAIN cases, s \in Statuses : SetCaseStatus(i, s)
         \/ \E t \in Talks : MirrorConsultation(t)
  PROVE  CaseTypeOK'
<1>. USE Bounds DEF CaseTypeOK
<1>1. ASSUME NEW o \in Replies, NEW i \in DOMAIN cases, SendCaseReply(o, i) PROVE CaseTypeOK'
  <2>1. i \in 0..LastCase /\ cases[i].status \in Statuses BY CaseIdTypes, CaseFields DEF CaseIds
  <2>2. reply' \in [Replies -> Reply] BY <1>1, <2>1 DEF SendCaseReply, Reply
  <2>. QED BY <1>1, <2>2 DEF SendCaseReply
<1>2. ASSUME NEW o \in Replies, ReplySent(o) PROVE CaseTypeOK'
  <2>1. reply' \in [Replies -> Reply] BY <1>2 DEF ReplySent, Reply
  <2>2. reply[o].kase \in 0..LastCase BY DEF Reply
  <2>3. cases' \in Seq(Case) /\ Len(cases') <= LastCase
    <3>1. CASE UNCHANGED cases BY <3>1
    <3>2. CASE cases' = [cases EXCEPT ![reply[o].kase].status = "in_progress"]
      <4>1. "in_progress" \in Statuses BY DEF Statuses
      <4>. QED BY <2>2, <3>2, <4>1, StatusCase
    <3>. QED BY <1>2, <3>1, <3>2 DEF ReplySent
  <2>. QED BY <1>2, <2>1, <2>3 DEF ReplySent
<1>3. ASSUME NEW i \in DOMAIN cases, NEW s \in Statuses, SetCaseStatus(i, s) PROVE CaseTypeOK'
  <2>1. i \in 0..LastCase BY CaseIdTypes DEF CaseIds
  <2>2. cases' \in Seq(Case) /\ Len(cases') <= LastCase BY <1>3, <2>1, StatusCase DEF SetCaseStatus
  <2>3. i \in CaseIds BY CaseIdTypes
  <2>4. request' \in [Requests -> Request] BY ZenonT(30), <1>3, <2>3 DEF SetCaseStatus, Request
  <2>5. UNCHANGED <<now, photo, reply, purge, parted>> /\ changes' = changes + 1
        /\ changes < MaxStatusChanges BY <1>3 DEF SetCaseStatus
  <2>6. changes' \in 0..MaxStatusChanges BY <2>5
  <2>. QED BY <2>2, <2>4, <2>5, <2>6
<1>4. ASSUME NEW t \in Talks, MirrorConsultation(t) PROVE CaseTypeOK'
  <2>1. NewCase(t, Consult) \in Case BY NewCaseType
  <2>2. cases' \in Seq(Case) /\ Len(cases') <= LastCase
    BY <1>4, <2>1, AppendCase DEF MirrorConsultation
  <2>. QED BY <1>4, <2>2 DEF MirrorConsultation
<1>. QED BY <1>1, <1>2, <1>3, <1>4 DEF ReplyStep

LEMMA PurgeTypes ==
  ASSUME CaseTypeOK, PurgeStep \/ Tick
  PROVE  CaseTypeOK'
<1>. USE Bounds DEF CaseTypeOK
<1>1. CASE SelectBatch BY <1>1 DEF SelectBatch, Expired, Purge
<1>2. ASSUME NEW p \in Photos, DeleteObject(p) PROVE CaseTypeOK'
  <2>1. photo' \in [Photos -> Photo]
    <3>1. [photo[p] EXCEPT !.object = FALSE] \in Photo BY DEF Photo
    <3>2. photo' = photo \/ photo' = [photo EXCEPT ![p] = [photo[p] EXCEPT !.object = FALSE]]
      BY <1>2 DEF DeleteObject
    <3>. QED BY <3>1, <3>2
  <2>2. purge' \in Purge
    <3>1. /\ purge.pc \in {"idle", "deleting"}
          /\ purge.batch \subseteq Photos /\ purge.done \subseteq Photos
      BY DEF Purge
    <3>2. \/ purge' = [purge EXCEPT !.batch = purge.batch \ {p}, !.done = purge.done \cup {p}]
          \/ purge' = [purge EXCEPT !.batch = purge.batch \ {p}]
      BY <1>2 DEF DeleteObject
    <3>3. CASE purge' = [purge EXCEPT !.batch = purge.batch \ {p}, !.done = purge.done \cup {p}]
      <4>1. purge.batch \ {p} \subseteq Photos /\ purge.done \cup {p} \subseteq Photos BY <3>1
      <4>. DEFINE batch == purge.batch \ {p}
                  done  == purge.done \cup {p}
      <4>. HIDE DEF batch, done
      <4>2. purge' = [purge EXCEPT !.batch = batch, !.done = done] BY <3>3 DEF batch, done
      <4>3. batch \subseteq Photos /\ done \subseteq Photos BY <4>1 DEF batch, done
      <4>. QED BY <3>1, <4>2, <4>3 DEF Purge
    <3>4. CASE purge' = [purge EXCEPT !.batch = purge.batch \ {p}]
      BY <3>1, <3>4 DEF Purge
    <3>. QED BY <3>2, <3>3, <3>4
  <2>. QED BY <1>2, <2>1, <2>2 DEF DeleteObject
<1>3. CASE DeleteRows
  <2>1. photo' \in [Photos -> Photo] BY ZenonT(30), <1>3 DEF DeleteRows, Photo
  <2>. QED BY <1>3, <2>1 DEF DeleteRows, Purge
<1>4. CASE PurgeStops BY <1>4 DEF PurgeStops, Purge
<1>5. CASE Tick BY <1>5 DEF Tick
<1>. QED BY <1>1, <1>2, <1>3, <1>4, <1>5 DEF PurgeStep

LEMMA CaseTypes == CaseTypeOK /\ [CaseNext]_caseVars => CaseTypeOK'
<1>1. CaseTypeOK /\ UNCHANGED caseVars => CaseTypeOK' BY DEF CaseTypeOK, caseVars
<1>2. CaseTypeOK /\ CaseNext => CaseTypeOK'
  BY RequestTypes, UploadTypes, OwnerTypes, PurgeTypes DEF CaseNext
<1>. QED BY <1>1, <1>2

-------------------------------------------------------------------------------
(* The photos and the purge *)

Past(p) == photo[p].row /\ now - photo[p].at > Retention

PurgeMeans ==
  /\ \A p \in Photos :
       /\ photo[p].row => photo[p].pc = "saved" /\ photo[p].at <= now
       /\ photo[p].pc = "saving" => photo[p].object
  /\ \A p \in purge.batch \cup purge.done : p \in Photos /\ Past(p)
  /\ \A p \in purge.done : ~photo[p].object

PurgeInv == PurgeMeans /\ PhotoAndRow

\* A step that touches one photo before its row is saved, or saves it.
LEMMA UploadKeepsPurge ==
  ASSUME CaseTypeOK, PurgeInv, NEW p \in Photos, UploadStep(p)
  PROVE  PurgeInv'
<1>. USE Bounds DEF CaseTypeOK, PurgeInv, PurgeMeans, PhotoAndRow, Past
<1>1. now' = now /\ purge' = purge
  BY DEF UploadStep, Upload, PutObject, SavePhoto, UploadBreaks
<1>2. \A q \in Photos \ {p} : photo'[q] = photo[q]
  BY DEF UploadStep, Upload, PutObject, SavePhoto, UploadBreaks
<1>3. photo[p].pc # "saved" /\ ~photo[p].row
  BY DEF UploadStep, Upload, PutObject, SavePhoto, UploadBreaks
<1>4. now \in Nat OBVIOUS
<1>5. /\ photo'[p].row => photo'[p].pc = "saved" /\ photo'[p].at = now /\ photo'[p].object
      /\ photo'[p].pc = "saving" => photo'[p].object
      /\ photo'[p].pc = "saved" => photo'[p].row
  <2>1. CASE Upload(p) BY <2>1, <1>3 DEF Upload, Photo
  <2>2. CASE PutObject(p) BY <2>2, <1>3 DEF PutObject, Photo
  <2>3. CASE SavePhoto(p) BY <2>3, <1>3 DEF SavePhoto, Photo
  <2>4. CASE UploadBreaks(p) BY <2>4, <1>3 DEF UploadBreaks, Photo
  <2>. QED BY <2>1, <2>2, <2>3, <2>4 DEF UploadStep
<1>6. p \notin purge.batch \cup purge.done BY <1>3
<1>. QED BY <1>1, <1>2, <1>4, <1>5, <1>6

\* Linking photos to a request changes neither photos nor rows.
LEMMA LinkKeepsPurge ==
  ASSUME CaseTypeOK, PurgeInv, NEW r \in Requests, LinkSessionPhotos(r)
  PROVE  PurgeInv'
<1>. USE DEF CaseTypeOK, PurgeInv, PurgeMeans, PhotoAndRow, Past
<1>1. now' = now /\ purge' = purge BY DEF LinkSessionPhotos
<1>2. \A p \in Photos : /\ photo'[p].pc = photo[p].pc /\ photo'[p].row = photo[p].row
                        /\ photo'[p].object = photo[p].object /\ photo'[p].at = photo[p].at
  <2>1. CASE UNCHANGED photo BY <2>1
  <2>2. CASE photo' = [p \in Photos |-> IF p \in Unlinked(TalkOf[r])
                                        THEN [photo[p] EXCEPT !.kase = request[r].kase] ELSE photo[p]]
    BY <2>2 DEF Photo
  <2>. QED BY <2>1, <2>2 DEF LinkSessionPhotos
<1>3. \A p \in purge'.batch \cup purge'.done : p \in Photos /\ Past(p)' BY <1>1, <1>2
<1>. QED BY <1>1, <1>2, <1>3

LEMMA PurgeKeepsPurge ==
  ASSUME CaseTypeOK, PurgeInv, PurgeStep \/ Tick
  PROVE  PurgeInv'
<1>. USE Bounds DEF CaseTypeOK, PurgeInv, PurgeMeans, PhotoAndRow, Past
<1>0. /\ now \in Nat /\ \A p \in Photos : photo[p].at \in Nat
      /\ purge.batch \subseteq Photos /\ purge.done \subseteq Photos
  BY DEF Photo, Purge
<1>1. CASE SelectBatch BY <1>1 DEF SelectBatch, Expired
<1>2. ASSUME NEW p \in Photos, DeleteObject(p) PROVE PurgeInv'
  <2>1. now' = now /\ Past(p) BY <1>2 DEF DeleteObject
  <2>2. \/ /\ photo' = [photo EXCEPT ![p].object = FALSE]
           /\ purge'.batch = purge.batch \ {p} /\ purge'.done = purge.done \cup {p}
        \/ photo' = photo /\ purge'.batch = purge.batch \ {p} /\ purge'.done = purge.done
    BY <1>2 DEF DeleteObject, Purge
  <2>3. \A q \in Photos : /\ photo'[q].pc = photo[q].pc /\ photo'[q].row = photo[q].row
                          /\ photo'[q].at = photo[q].at
                          /\ q # p => photo'[q].object = photo[q].object
    BY SMTT(30), <2>2 DEF Photo
  <2>4. photo'[p].object = photo[p].object \/ ~photo'[p].object BY <2>2 DEF Photo
  <2>5. \A q \in purge'.done : ~photo'[q].object BY SMTT(30), <1>0, <2>2, <2>3 DEF Photo
  <2>6. photo[p].pc = "saved" BY <2>1
  <2>7. \A q \in purge'.batch \cup purge'.done : q \in Photos /\ Past(q)'
    BY <1>0, <1>2, <2>1, <2>2, <2>3 DEF DeleteObject
  <2>8. PurgeMeans' BY <2>1, <2>3, <2>4, <2>5, <2>6, <2>7
  <2>9. PhotoAndRow' BY SMTT(30), <1>0, <2>1, <2>3, <2>4
  <2>. QED BY <2>8, <2>9
<1>3. CASE DeleteRows
  <2>1. now' = now /\ purge'.batch = {} /\ purge'.done = {} BY <1>3 DEF DeleteRows
  <2>2. \A p \in Photos : /\ photo'[p].pc = photo[p].pc /\ photo'[p].at = photo[p].at
                          /\ photo'[p].object = photo[p].object
                          /\ photo'[p].row = (photo[p].row /\ p \notin purge.done)
    BY ZenonT(30), <1>3 DEF DeleteRows, Deleted, Photo
  <2>. QED BY ZenonT(30), <1>0, <2>1, <2>2
<1>4. CASE PurgeStops BY <1>4 DEF PurgeStops
<1>5. CASE Tick BY <1>0, <1>5 DEF Tick
<1>. QED BY <1>1, <1>2, <1>3, <1>4, <1>5 DEF PurgeStep

LEMMA PurgeInvStep == CaseTypeOK /\ PurgeInv /\ [CaseNext]_caseVars => PurgeInv'
<1>. SUFFICES ASSUME CaseTypeOK, PurgeInv, [CaseNext]_caseVars PROVE PurgeInv' OBVIOUS
<1>1. CASE UNCHANGED <<now, photo, purge>>
  BY <1>1 DEF PurgeInv, PurgeMeans, PhotoAndRow, Past
<1>2. ASSUME NEW r \in Requests, RequestStep(r) PROVE PurgeInv'
  <2>1. CASE LinkSessionPhotos(r) BY <2>1, LinkKeepsPurge
  <2>2. CASE ~LinkSessionPhotos(r)
    BY <1>1, <1>2, <2>2 DEF RequestStep, SubmitSupportCase, UpdateRepeat, InsertCase, SubmitFails
  <2>. QED BY <2>1, <2>2
<1>3. CASE \/ \E o \in Replies : ReplyStep(o)
           \/ \E i \in DOMAIN cases, s \in Statuses : SetCaseStatus(i, s)
           \/ \E t \in Talks : MirrorConsultation(t)
  BY <1>1, <1>3 DEF ReplyStep, SendCaseReply, ReplySent, SetCaseStatus, MirrorConsultation
<1>4. CASE UNCHANGED caseVars BY <1>1, <1>4 DEF caseVars
<1>. QED BY <1>2, <1>3, <1>4, UploadKeepsPurge, PurgeKeepsPurge DEF CaseNext

-------------------------------------------------------------------------------
(* The requests *)

\* Rows of support_cases are never deleted, and keep their talk, type and time.
LEMMA CasesStay ==
  ASSUME CaseTypeOK, CaseNext
  PROVE  /\ DOMAIN cases \subseteq DOMAIN cases'
         /\ \A i \in DOMAIN cases : /\ cases'[i].talk = cases[i].talk
                                    /\ cases'[i].type = cases[i].type
                                    /\ cases'[i].at = cases[i].at
         /\ now \in Nat /\ now' \in Nat /\ now <= now'
<1>. DEFINE Stay == /\ DOMAIN cases \subseteq DOMAIN cases'
                    /\ \A i \in DOMAIN cases : /\ cases'[i].talk = cases[i].talk
                                               /\ cases'[i].type = cases[i].type
                                               /\ cases'[i].at = cases[i].at
<1>1. now \in Nat /\ now' \in {now, now + 1}
  <2>1. now \in Nat BY Bounds DEF CaseTypeOK
  <2>2. CASE Tick BY <2>1, <2>2 DEF Tick
  <2>3. CASE UNCHANGED now BY <2>1, <2>3
  <2>4. CASE \/ \E r \in Requests : RequestStep(r)
             \/ \E p \in Photos : UploadStep(p)
    BY <2>3, <2>4 DEF RequestStep, UploadStep, SubmitSupportCase, UpdateRepeat, InsertCase,
       SubmitFails, LinkSessionPhotos, Upload, PutObject, SavePhoto, UploadBreaks
  <2>5. CASE \/ \E o \in Replies : ReplyStep(o)
             \/ \E i \in DOMAIN cases, s \in Statuses : SetCaseStatus(i, s)
             \/ \E t \in Talks : MirrorConsultation(t)
             \/ PurgeStep
    BY <2>3, <2>5 DEF ReplyStep, SendCaseReply, ReplySent, SetCaseStatus, MirrorConsultation,
       PurgeStep, SelectBatch, DeleteObject, DeleteRows, PurgeStops
  <2>. QED BY <2>2, <2>4, <2>5 DEF CaseNext
<1>2. UNCHANGED cases => Stay OBVIOUS
<1>3. ASSUME NEW talk \in Talks, NEW type \in Types \cup {Consult},
             Len(cases) < LastCase, cases' = Append(cases, NewCase(talk, type))
      PROVE  Stay
  <2>1. NewCase(talk, type) \in Case BY <1>3, NewCaseType
  <2>. QED BY <1>3, <2>1, AppendCase
<1>4. ASSUME NEW i \in 0..LastCase, NEW s \in Statuses, cases' = [cases EXCEPT ![i].status = s]
      PROVE  Stay
  BY <1>4, StatusCase
<1>5. ASSUME NEW r \in Requests, RequestStep(r) PROVE Stay
  <2>1. CASE InsertCase(r) BY <2>1, <1>3, CallTypes DEF InsertCase
  <2>2. CASE ~InsertCase(r)
    BY <1>2, <1>5, <2>2 DEF RequestStep, SubmitSupportCase, UpdateRepeat, SubmitFails, LinkSessionPhotos
  <2>. QED BY <2>1, <2>2
<1>6. ASSUME NEW t \in Talks, MirrorConsultation(t) PROVE Stay
  BY <1>3, <1>6 DEF MirrorConsultation
<1>7. ASSUME NEW i \in DOMAIN cases, NEW s \in Statuses, SetCaseStatus(i, s) PROVE Stay
  <2>1. i \in 0..LastCase BY CaseIdTypes DEF CaseIds
  <2>. QED BY <1>4, <1>7, <2>1 DEF SetCaseStatus
<1>8. ASSUME NEW o \in Replies, ReplyStep(o) PROVE Stay
  <2>1. reply[o].kase \in 0..LastCase /\ "in_progress" \in Statuses BY DEF CaseTypeOK, Reply, Statuses
  <2>. QED BY <1>2, <1>4, <1>8, <2>1 DEF ReplyStep, SendCaseReply, ReplySent
<1>9. ASSUME \/ \E p \in Photos : UploadStep(p)
             \/ PurgeStep \/ Tick
      PROVE  Stay
  BY <1>2, <1>9 DEF UploadStep, PurgeStep, Upload, PutObject, SavePhoto, UploadBreaks,
                    SelectBatch, DeleteObject, DeleteRows, PurgeStops, Tick
<1>10. Stay BY <1>5, <1>6, <1>7, <1>8, <1>9 DEF CaseNext
<1>. QED BY <1>1, <1>10

\* What a request remembers, and what its case is.
RequestMeans(r) ==
  /\ request[r].pc = "inserting" =>
       \A i \in request[r].known : i \in DOMAIN cases /\ ~CreatedWithin(RepeatWindow, cases[i].at)
  /\ request[r].pc = "updating" => request[r].kase \in request[r].known
  /\ request[r].kase # 0 => /\ request[r].kase \in DOMAIN cases
                            /\ cases[request[r].kase].talk = TalkOf[r]
                            /\ cases[request[r].kase].type = TypeOf[r]
  /\ request[r].pc = "linking" => request[r].kase # 0

RequestInv == \A r \in Requests : RequestMeans(r)

\* A request that does not move keeps what it means; the owner's moves are only remembered.
LEMMA RequestWaits ==
  ASSUME CaseTypeOK, CaseNext, NEW r \in Requests, RequestMeans(r),
         request'[r].pc = request[r].pc, request'[r].kase = request[r].kase,
         request'[r].known = request[r].known
  PROVE  RequestMeans(r)'
<1>1. \A i \in DOMAIN cases : cases[i].at \in Nat
  <2>. TAKE i \in DOMAIN cases
  <2>1. cases[i].at \in 0..LastTick BY CaseFields
  <2>. QED BY <2>1, Bounds
<1>2. /\ DOMAIN cases \subseteq DOMAIN cases'
      /\ \A i \in DOMAIN cases : /\ cases'[i].talk = cases[i].talk
                                 /\ cases'[i].type = cases[i].type
                                 /\ cases'[i].at = cases[i].at
      /\ now \in Nat /\ now' \in Nat /\ now <= now'
  BY CasesStay
<1>3. RepeatWindow \in Nat BY Bounds
<1>. QED BY <1>1, <1>2, <1>3 DEF RequestMeans, CreatedWithin

LEMMA RequestMoves ==
  ASSUME CaseTypeOK, CaseNext, NEW r \in Requests, RequestMeans(r), RequestStep(r)
  PROVE  RequestMeans(r)'
<1>. USE DEF RequestMeans
<1>0. request \in [Requests -> Request] BY DEF CaseTypeOK
<1>1. CASE SubmitSupportCase(r)
  <2>. DEFINE prev == MaxOrNone(Repeats(TalkOf[r], TypeOf[r]))
              known == Unhandled(TalkOf[r], TypeOf[r])
  <2>1. /\ request'[r].kase = prev /\ request'[r].known = known
        /\ request'[r].pc = IF prev = 0 THEN "inserting" ELSE "updating"
        /\ cases' = cases /\ now' = now
    BY <1>0, <1>1 DEF SubmitSupportCase, Request
  <2>2. CASE prev = 0
    <3>1. Repeats(TalkOf[r], TypeOf[r]) = {} BY <2>2, Found
    <3>2. \A i \in known : i \in DOMAIN cases /\ ~CreatedWithin(RepeatWindow, cases[i].at)
      BY <3>1 DEF Repeats, Unhandled
    <3>. HIDE DEF prev, known
    <3>. QED BY <2>1, <2>2, <3>2 DEF CreatedWithin
  <2>3. CASE prev # 0
    <3>1. prev \in Repeats(TalkOf[r], TypeOf[r]) BY <2>3, Found
    <3>2. prev \in known /\ prev \in DOMAIN cases
          /\ cases[prev].talk = TalkOf[r] /\ cases[prev].type = TypeOf[r]
      BY <3>1 DEF Repeats, Unhandled
    <3>. HIDE DEF prev, known
    <3>. QED BY <2>1, <2>3, <3>2
  <2>. QED BY <2>2, <2>3
<1>2. CASE UpdateRepeat(r) BY <1>0, <1>2, CasesStay DEF UpdateRepeat, Request
<1>3. CASE InsertCase(r)
  <2>1. /\ NewCase(TalkOf[r], TypeOf[r]) \in Case
        /\ NewCase(TalkOf[r], TypeOf[r]).talk = TalkOf[r] /\ NewCase(TalkOf[r], TypeOf[r]).type = TypeOf[r]
    BY CallTypes, NewCaseType
  <2>2. Len(cases) + 1 \in DOMAIN cases' /\ cases'[Len(cases) + 1] = NewCase(TalkOf[r], TypeOf[r])
    BY <1>3, <2>1, AppendCase DEF InsertCase
  <2>3. request'[r].pc = "linking" /\ request'[r].kase = Len(cases) + 1
    BY <1>0, <1>3 DEF InsertCase, Request
  <2>4. Len(cases) + 1 # 0 BY DEF CaseTypeOK
  <2>. QED BY <2>1, <2>2, <2>3, <2>4
<1>4. CASE SubmitFails(r) BY <1>0, <1>4, CasesStay DEF SubmitFails, Request
<1>5. CASE LinkSessionPhotos(r) BY <1>0, <1>5, CasesStay DEF LinkSessionPhotos, Request
<1>. QED BY <1>1, <1>2, <1>3, <1>4, <1>5 DEF RequestStep

LEMMA RequestInvStep == CaseTypeOK /\ RequestInv /\ [CaseNext]_caseVars => RequestInv'
<1>1. ASSUME CaseTypeOK, RequestInv, CaseNext PROVE RequestInv'
  <2>. SUFFICES ASSUME NEW r \in Requests PROVE RequestMeans(r)' BY DEF RequestInv
  <2>1. RequestMeans(r) BY <1>1 DEF RequestInv
  <2>2. CASE RequestStep(r) BY <1>1, <2>1, <2>2, RequestMoves
  <2>3. CASE ~RequestStep(r)
    <3>1. /\ request'[r].pc = request[r].pc /\ request'[r].kase = request[r].kase
          /\ request'[r].known = request[r].known
      <4>0. request \in [Requests -> Request] BY <1>1 DEF CaseTypeOK
      <4>1. CASE UNCHANGED request BY <4>1
      <4>2. ASSUME NEW q \in Requests, RequestStep(q) PROVE request'[r] = request[r]
        <5>1. q # r BY <2>3, <4>2
        <5>. QED BY <4>0, <4>2, <5>1 DEF RequestStep, SubmitSupportCase, UpdateRepeat, InsertCase,
                    SubmitFails, LinkSessionPhotos
      <4>3. ASSUME NEW i \in DOMAIN cases, NEW s \in Statuses, SetCaseStatus(i, s)
            PROVE  /\ request'[r].pc = request[r].pc /\ request'[r].kase = request[r].kase
                   /\ request'[r].known = request[r].known
        BY <4>0, <4>3 DEF SetCaseStatus, Request
      <4>4. CASE \/ \E o \in Replies : ReplyStep(o)
                 \/ \E p \in Photos : UploadStep(p)
                 \/ \E t \in Talks : MirrorConsultation(t)
                 \/ PurgeStep \/ Tick
        BY <4>1, <4>4 DEF ReplyStep, UploadStep, PurgeStep, SendCaseReply, ReplySent,
           MirrorConsultation, Upload, PutObject, SavePhoto, UploadBreaks, SelectBatch, DeleteObject,
           DeleteRows, PurgeStops, Tick
      <4>. QED BY <1>1, <4>2, <4>3, <4>4 DEF CaseNext
    <3>. QED BY <1>1, <2>1, <3>1, RequestWaits
  <2>. QED BY <2>2, <2>3
<1>2. ASSUME RequestInv, UNCHANGED caseVars PROVE RequestInv'
  BY <1>2 DEF RequestInv, RequestMeans, CreatedWithin, caseVars
<1>. QED BY <1>1, <1>2

-------------------------------------------------------------------------------
(* Photos and their requests *)

\* No photo of case k's conversation is left behind: whoever is not linked is in parted,
\* or was too late for it.
Linked(k) ==
  \A p \in Photos : PhotoTalk[p] = cases[k].talk =>
    /\ photo[p].row /\ photo[p].kase = 0 /\ photo[p].at - cases[k].at < PhotoWindow => p \in parted
    /\ photo[p].pc = "saving" /\ photo[p].found = 0 /\ now - cases[k].at < PhotoWindow => p \in parted

LinksMade ==
  \A k \in DOMAIN cases : cases[k].type # Consult =>
    (\E r \in Requests : request[r].pc = "linking" /\ request[r].kase = k) \/ Linked(k)

\* A photo that is not the one linked: every upload step keeps Linked.
LEMMA UploadKeepsLinked ==
  ASSUME CaseTypeOK, NEW k \in DOMAIN cases, Linked(k), NEW p \in Photos, UploadStep(p)
  PROVE  Linked(k)'
<1>. USE DEF CaseTypeOK
<1>1. now' = now /\ cases' = cases /\ parted' = parted
  BY DEF UploadStep, Upload, PutObject, SavePhoto, UploadBreaks
<1>2. \A q \in Photos \ {p} : photo'[q] = photo[q]
  BY DEF UploadStep, Upload, PutObject, SavePhoto, UploadBreaks
<1>3. SUFFICES ASSUME PhotoTalk[p] = cases[k].talk
      PROVE /\ photo'[p].row /\ photo'[p].kase = 0 /\ photo'[p].at - cases[k].at < PhotoWindow => p \in parted
            /\ photo'[p].pc = "saving" /\ photo'[p].found = 0 /\ now - cases[k].at < PhotoWindow => p \in parted
  BY <1>1, <1>2 DEF Linked
<1>4. /\ photo[p].row /\ photo[p].kase = 0 /\ photo[p].at - cases[k].at < PhotoWindow => p \in parted
      /\ photo[p].pc = "saving" /\ photo[p].found = 0 /\ now - cases[k].at < PhotoWindow => p \in parted
  BY <1>3 DEF Linked
<1>5. CASE Upload(p)
  <2>1. photo'[p].row = photo[p].row /\ photo'[p].kase = photo[p].kase /\ photo'[p].at = photo[p].at
        /\ photo'[p].pc # "saving"
    BY <1>5 DEF Upload, Photo
  <2>. QED BY <1>4, <2>1
<1>6. CASE PutObject(p)
  <2>1. photo'[p].row = photo[p].row /\ photo'[p].kase = photo[p].kase /\ photo'[p].at = photo[p].at
        /\ photo'[p].found = LatestSessionCase(PhotoTalk[p])
    BY <1>6 DEF PutObject, Photo
  <2>2. LatestSessionCase(PhotoTalk[p]) = 0 => ~ (now - cases[k].at < PhotoWindow)
    BY <1>3, FoundByPhoto DEF CreatedWithin
  <2>. QED BY <1>4, <2>1, <2>2
<1>7. CASE SavePhoto(p)
  <2>1. /\ photo[p].pc = "saving" /\ photo'[p].pc = "saved"
        /\ photo'[p].kase = photo[p].found /\ photo'[p].at = now
    BY <1>7 DEF SavePhoto, Photo
  <2>. QED BY <1>4, <2>1
<1>8. CASE UploadBreaks(p)
  <2>1. photo'[p].row = photo[p].row /\ photo'[p].kase = photo[p].kase /\ photo'[p].at = photo[p].at
        /\ photo'[p].pc = "broken"
    BY <1>8 DEF UploadBreaks, Photo
  <2>. QED BY <1>4, <2>1
<1>. QED BY <1>5, <1>6, <1>7, <1>8 DEF UploadStep

\* The linking of any request keeps Linked, and makes it true of the request's own case.
LEMMA LinkKeepsLinked ==
  ASSUME CaseTypeOK, NEW r \in Requests, LinkSessionPhotos(r), request[r].kase # 0,
         NEW k \in DOMAIN cases, Linked(k) \/ cases[k].talk = TalkOf[r]
  PROVE  Linked(k)'
<1>. USE DEF CaseTypeOK
<1>1. now' = now /\ cases' = cases /\ parted \subseteq parted' BY DEF LinkSessionPhotos
<1>. SUFFICES ASSUME NEW p \in Photos, PhotoTalk[p] = cases[k].talk
     PROVE /\ photo'[p].row /\ photo'[p].kase = 0 /\ photo'[p].at - cases[k].at < PhotoWindow => p \in parted'
           /\ photo'[p].pc = "saving" /\ photo'[p].found = 0 /\ now - cases[k].at < PhotoWindow => p \in parted'
  BY <1>1 DEF Linked
<1>2. /\ photo'[p].pc = photo[p].pc /\ photo'[p].row = photo[p].row
      /\ photo'[p].found = photo[p].found /\ photo'[p].at = photo[p].at
      /\ photo'[p].kase = 0 => photo[p].kase = 0
  <2>1. CASE UNCHANGED photo BY <2>1
  <2>2. CASE photo' = [q \in Photos |-> IF q \in Unlinked(TalkOf[r])
                                        THEN [photo[q] EXCEPT !.kase = request[r].kase] ELSE photo[q]]
    BY <2>2 DEF Photo
  <2>. QED BY <2>1, <2>2 DEF LinkSessionPhotos
<1>3. CASE Linked(k) BY <1>1, <1>2, <1>3 DEF Linked
<1>4. CASE cases[k].talk = TalkOf[r]
  <2>1. photo[p].pc = "saving" /\ photo[p].found = 0 => p \in parted'
    BY <1>4 DEF LinkSessionPhotos
  <2>2. photo[p].row /\ photo'[p].kase = 0 => p \in parted'
    <3>1. CASE photo' = photo /\ UNCHANGED photo
               /\ parted' = parted \cup {q \in Photos : PhotoTalk[q] = TalkOf[r] /\ photo[q].pc = "saving" /\ photo[q].found = 0}
                                   \cup {q \in Photos : PhotoTalk[q] = TalkOf[r] /\ photo[q].row /\ photo[q].kase = 0}
      BY <1>4, <3>1
    <3>2. CASE /\ photo' = [q \in Photos |-> IF q \in Unlinked(TalkOf[r])
                                             THEN [photo[q] EXCEPT !.kase = request[r].kase] ELSE photo[q]]
               /\ parted' = parted \cup {q \in Photos : PhotoTalk[q] = TalkOf[r] /\ photo[q].pc = "saving" /\ photo[q].found = 0}
                                   \cup ({q \in Photos : PhotoTalk[q] = TalkOf[r] /\ photo[q].row /\ photo[q].kase = 0}
                                         \ Unlinked(TalkOf[r]))
      <4>1. CASE p \in Unlinked(TalkOf[r])
        <5>1. photo'[p].kase = request[r].kase BY <3>2, <4>1 DEF Photo
        <5>. QED BY <5>1
      <4>2. CASE p \notin Unlinked(TalkOf[r])
        <5>1. photo'[p] = photo[p] BY <3>2, <4>2
        <5>. QED BY <1>4, <3>2, <4>2, <5>1
      <4>. QED BY <4>1, <4>2
    <3>. QED BY <3>1, <3>2 DEF LinkSessionPhotos
  <2>. QED BY <1>2, <2>1, <2>2
<1>. QED BY <1>3, <1>4

\* The purge only takes rows away, and time only takes requests out of reach.
LEMMA PurgeKeepsLinked ==
  ASSUME CaseTypeOK, NEW k \in DOMAIN cases, Linked(k), PurgeStep \/ Tick
  PROVE  Linked(k)'
<1>. USE DEF CaseTypeOK
<1>1. cases' = cases /\ parted' = parted
  BY DEF PurgeStep, SelectBatch, DeleteObject, DeleteRows, PurgeStops, Tick
<1>2. now' = now \/ now' = now + 1
  BY DEF PurgeStep, SelectBatch, DeleteObject, DeleteRows, PurgeStops, Tick
<1>3. \A p \in Photos : /\ photo'[p].pc = photo[p].pc /\ photo'[p].found = photo[p].found
                        /\ photo'[p].kase = photo[p].kase /\ photo'[p].at = photo[p].at
                        /\ photo'[p].row => photo[p].row
  <2>1. CASE UNCHANGED photo BY <2>1
  <2>2. ASSUME NEW q \in Photos, DeleteObject(q)
        PROVE  \A p \in Photos : /\ photo'[p].pc = photo[p].pc /\ photo'[p].found = photo[p].found
                                 /\ photo'[p].kase = photo[p].kase /\ photo'[p].at = photo[p].at
                                 /\ photo'[p].row => photo[p].row
    <3>1. CASE photo' = photo BY <3>1
    <3>2. CASE photo' = [photo EXCEPT ![q].object = FALSE]
      <4>1. \A p \in Photos : photo'[p] = IF p = q THEN [photo[q] EXCEPT !.object = FALSE] ELSE photo[p]
        BY <3>2
      <4>2. \A p \in Photos : photo[p] \in Photo OBVIOUS
      <4>. QED BY ZenonT(30), <4>1, <4>2 DEF Photo
    <3>. QED BY <2>2, <3>1, <3>2 DEF DeleteObject
  <2>3. CASE DeleteRows BY <2>3 DEF DeleteRows, Photo
  <2>4. CASE SelectBatch \/ PurgeStops \/ Tick
    BY <2>1, <2>4 DEF SelectBatch, PurgeStops, Tick
  <2>. QED BY <2>2, <2>3, <2>4 DEF PurgeStep
<1>4. now \in Nat /\ cases[k].at \in Nat /\ PhotoWindow \in Nat
  <2>1. cases[k].at \in 0..LastTick BY CaseFields
  <2>. QED BY <2>1, Bounds
<1>. QED BY <1>1, <1>2, <1>3, <1>4 DEF Linked

\* Steps that leave photos and the clock alone.
LEMMA StillLinked ==
  ASSUME CaseTypeOK, CaseNext, NEW k \in DOMAIN cases, Linked(k), UNCHANGED <<now, photo, parted>>
  PROVE  Linked(k)'
BY CasesStay DEF Linked

LEMMA LinkedStays ==
  ASSUME CaseTypeOK, RequestInv, CaseNext, NEW k \in DOMAIN cases, Linked(k)
  PROVE  Linked(k)'
<1>1. ASSUME NEW r \in Requests, RequestStep(r) PROVE Linked(k)'
  <2>1. CASE LinkSessionPhotos(r)
    <3>1. request[r].kase # 0 BY <2>1 DEF LinkSessionPhotos, RequestInv, RequestMeans
    <3>. QED BY <2>1, <3>1, LinkKeepsLinked
  <2>2. CASE ~LinkSessionPhotos(r)
    <3>1. UNCHANGED <<now, photo, parted>>
      BY <1>1, <2>2 DEF RequestStep, SubmitSupportCase, UpdateRepeat, InsertCase, SubmitFails
    <3>. QED BY <3>1, StillLinked
  <2>. QED BY <2>1, <2>2
<1>2. CASE \/ \E o \in Replies : ReplyStep(o)
           \/ \E i \in DOMAIN cases, s \in Statuses : SetCaseStatus(i, s)
           \/ \E t \in Talks : MirrorConsultation(t)
  <2>1. UNCHANGED <<now, photo, parted>>
    BY <1>2 DEF ReplyStep, SendCaseReply, ReplySent, SetCaseStatus, MirrorConsultation
  <2>. QED BY <2>1, StillLinked
<1>. QED BY <1>1, <1>2, UploadKeepsLinked, PurgeKeepsLinked DEF CaseNext

LEMMA LinksStep == CaseTypeOK /\ RequestInv /\ LinksMade /\ [CaseNext]_caseVars => LinksMade'
<1>1. ASSUME CaseTypeOK, RequestInv, LinksMade, CaseNext PROVE LinksMade'
  <2>. SUFFICES ASSUME NEW k \in DOMAIN cases', cases'[k].type # Consult
       PROVE  (\E r \in Requests : request'[r].pc = "linking" /\ request'[r].kase = k) \/ Linked(k)'
    BY DEF LinksMade
  <2>0. request \in [Requests -> Request] BY <1>1 DEF CaseTypeOK
  <2>1. CASE k \in DOMAIN cases
    <3>1. cases[k].type # Consult BY <1>1, <2>1, CasesStay
    <3>2. CASE Linked(k) BY <1>1, <2>1, <3>2, LinkedStays
    <3>3. CASE \E r \in Requests : request[r].pc = "linking" /\ request[r].kase = k
      <4>1. PICK r \in Requests : request[r].pc = "linking" /\ request[r].kase = k BY <3>3
      <4>2. CASE LinkSessionPhotos(r)
        <5>1. request[r].kase # 0 /\ cases[k].talk = TalkOf[r]
          BY <1>1, <4>1 DEF RequestInv, RequestMeans
        <5>. QED BY <1>1, <2>1, <4>2, <5>1, LinkKeepsLinked
      <4>3. CASE ~LinkSessionPhotos(r)
        <5>1. request'[r].pc = "linking" /\ request'[r].kase = k
          <6>1. ASSUME NEW q \in Requests, RequestStep(q) PROVE request'[r] = request[r]
            <7>1. q # r
              BY <4>1, <4>3, <6>1 DEF RequestStep, SubmitSupportCase, UpdateRepeat, InsertCase, SubmitFails
            <7>. QED BY <2>0, <6>1, <7>1 DEF RequestStep, SubmitSupportCase, UpdateRepeat, InsertCase,
                        SubmitFails, LinkSessionPhotos
          <6>2. ASSUME NEW i \in DOMAIN cases, NEW s \in Statuses, SetCaseStatus(i, s)
                PROVE  request'[r].pc = request[r].pc /\ request'[r].kase = request[r].kase
            BY <2>0, <6>2 DEF SetCaseStatus, Request
          <6>3. CASE UNCHANGED request BY <4>1, <6>3
          <6>4. CASE \/ \E o \in Replies : ReplyStep(o)
                     \/ \E p \in Photos : UploadStep(p)
                     \/ \E t \in Talks : MirrorConsultation(t)
                     \/ PurgeStep \/ Tick
            BY <6>3, <6>4 DEF ReplyStep, UploadStep, PurgeStep, SendCaseReply, ReplySent,
               MirrorConsultation, Upload, PutObject, SavePhoto, UploadBreaks, SelectBatch,
               DeleteObject, DeleteRows, PurgeStops, Tick
          <6>. QED BY <1>1, <4>1, <6>1, <6>2, <6>4 DEF CaseNext
        <5>. QED BY <5>1
      <4>. QED BY <4>2, <4>3
    <3>. QED BY <1>1, <2>1, <3>1, <3>2, <3>3 DEF LinksMade
  <2>2. CASE k \notin DOMAIN cases
    <3>1. ASSUME NEW r \in Requests, InsertCase(r)
          PROVE  request'[r].pc = "linking" /\ request'[r].kase = k
      <4>1. NewCase(TalkOf[r], TypeOf[r]) \in Case BY <1>1, CallTypes, NewCaseType
      <4>2. k = Len(cases) + 1 BY <1>1, <2>2, <3>1, <4>1, AppendCase DEF InsertCase
      <4>. QED BY <2>0, <3>1, <4>2 DEF InsertCase, Request
    <3>2. ASSUME NEW t \in Talks, MirrorConsultation(t) PROVE FALSE
      <4>1. NewCase(t, Consult) \in Case /\ NewCase(t, Consult).type = Consult BY <1>1, NewCaseType
      <4>2. k = Len(cases) + 1 /\ cases'[k] = NewCase(t, Consult)
        BY <1>1, <2>2, <3>2, <4>1, AppendCase DEF MirrorConsultation
      <4>. QED BY <4>1, <4>2
    <3>3. ASSUME DOMAIN cases' = DOMAIN cases PROVE FALSE BY <2>2, <3>3
    <3>4. ASSUME NEW i \in 0..LastCase, NEW s \in Statuses, cases' = [cases EXCEPT ![i].status = s]
          PROVE  FALSE
      BY <1>1, <3>3, <3>4, StatusCase
    <3>5. ASSUME NEW i \in DOMAIN cases, NEW s \in Statuses, SetCaseStatus(i, s) PROVE FALSE
      <4>1. i \in 0..LastCase BY <1>1, CaseIdTypes DEF CaseIds
      <4>. QED BY <3>4, <3>5, <4>1 DEF SetCaseStatus
    <3>6. ASSUME NEW o \in Replies, ReplyStep(o) PROVE FALSE
      <4>1. reply[o].kase \in 0..LastCase /\ "in_progress" \in Statuses
        BY <1>1 DEF CaseTypeOK, Reply, Statuses
      <4>. QED BY <3>3, <3>4, <3>6, <4>1 DEF ReplyStep, SendCaseReply, ReplySent
    <3>7. ASSUME NEW r \in Requests, RequestStep(r), ~InsertCase(r) PROVE FALSE
      BY <3>3, <3>7 DEF RequestStep, SubmitSupportCase, UpdateRepeat, SubmitFails, LinkSessionPhotos
    <3>8. CASE (\E p \in Photos : UploadStep(p)) \/ PurgeStep \/ Tick
      BY <3>3, <3>8 DEF UploadStep, PurgeStep, Upload, PutObject, SavePhoto, UploadBreaks, SelectBatch,
         DeleteObject, DeleteRows, PurgeStops, Tick
    <3>. QED BY <1>1, <3>1, <3>2, <3>5, <3>6, <3>7, <3>8 DEF CaseNext
  <2>. QED BY <2>1, <2>2
<1>2. ASSUME LinksMade, UNCHANGED caseVars PROVE LinksMade'
  BY <1>2 DEF LinksMade, Linked, caseVars
<1>. QED BY <1>1, <1>2

-------------------------------------------------------------------------------
(* The case a photo hangs on *)

\* A case of the photo's conversation.
OfItsTalk(p, k) == k \in DOMAIN cases /\ cases[k].talk = PhotoTalk[p]

PhotoMeans(p) ==
  /\ photo[p].row => photo[p].pc = "saved"
  /\ photo[p].found # 0 => OfItsTalk(p, photo[p].found)
  /\ photo[p].row /\ photo[p].found # 0 => photo[p].kase = photo[p].found
  /\ photo[p].row /\ photo[p].found = 0 /\ photo[p].kase # 0 =>
       OfItsTalk(p, photo[p].kase) /\ cases[photo[p].kase].type # Consult

PhotosMean == \A p \in Photos : PhotoMeans(p)

\* A photo whose row, labels and finds stay, or whose row goes, means what it meant.
LEMMA PhotoWaits ==
  ASSUME CaseTypeOK, CaseNext, NEW p \in Photos, PhotoMeans(p),
         photo'[p].pc = photo[p].pc \/ ~photo'[p].row, photo'[p].row => photo[p].row,
         photo'[p].found = photo[p].found, photo'[p].kase = photo[p].kase
  PROVE  PhotoMeans(p)'
BY CasesStay DEF PhotoMeans, OfItsTalk

LEMMA PhotoUploads ==
  ASSUME CaseTypeOK, CaseNext, NEW p \in Photos, PhotoMeans(p), UploadStep(p)
  PROVE  PhotoMeans(p)'
<1>. USE DEF CaseTypeOK
<1>1. CASE Upload(p)
  <2>1. /\ photo'[p].row = photo[p].row /\ photo'[p].found = photo[p].found
        /\ photo'[p].kase = photo[p].kase /\ photo[p].pc = "new"
    BY <1>1 DEF Upload, Photo
  <2>2. ~photo[p].row BY <2>1 DEF PhotoMeans
  <2>. QED BY <2>1, <2>2, PhotoWaits
<1>2. CASE PutObject(p)
  <2>1. /\ photo'[p].row = photo[p].row /\ photo'[p].found = LatestSessionCase(PhotoTalk[p])
        /\ photo[p].pc = "putting" /\ cases' = cases
    BY <1>2 DEF PutObject, Photo
  <2>2. ~photo[p].row BY <2>1 DEF PhotoMeans
  <2>3. LatestSessionCase(PhotoTalk[p]) # 0 => OfItsTalk(p, LatestSessionCase(PhotoTalk[p]))
    BY FoundIsOfTheTalk DEF OfItsTalk
  <2>. QED BY <2>1, <2>2, <2>3 DEF PhotoMeans, OfItsTalk
<1>3. CASE SavePhoto(p)
  <2>1. /\ photo'[p].pc = "saved" /\ photo'[p].found = photo[p].found
        /\ photo'[p].kase = photo[p].found /\ cases' = cases
    BY <1>3 DEF SavePhoto, Photo
  <2>. QED BY <2>1 DEF PhotoMeans, OfItsTalk
<1>4. CASE UploadBreaks(p)
  <2>1. /\ photo'[p].row = photo[p].row /\ photo'[p].found = photo[p].found
        /\ photo'[p].kase = photo[p].kase /\ photo[p].pc # "saved"
    BY <1>4 DEF UploadBreaks, Photo
  <2>2. ~photo[p].row BY <2>1 DEF PhotoMeans
  <2>. QED BY <2>1, <2>2, PhotoWaits
<1>. QED BY <1>1, <1>2, <1>3, <1>4 DEF UploadStep

LEMMA PhotosStep == CaseTypeOK /\ RequestInv /\ PhotosMean /\ [CaseNext]_caseVars => PhotosMean'
<1>1. ASSUME CaseTypeOK, RequestInv, PhotosMean, CaseNext PROVE PhotosMean'
  <2>. SUFFICES ASSUME NEW p \in Photos PROVE PhotoMeans(p)' BY DEF PhotosMean
  <2>. USE <1>1 DEF CaseTypeOK
  <2>0. PhotoMeans(p) BY DEF PhotosMean
  <2>1. ASSUME UNCHANGED photo PROVE PhotoMeans(p)' BY <2>0, <2>1, PhotoWaits
  <2>2. ASSUME NEW q \in Photos, UploadStep(q) PROVE PhotoMeans(p)'
    <3>1. CASE q = p BY <2>0, <2>2, <3>1, PhotoUploads
    <3>2. CASE q # p
      <4>1. photo'[p] = photo[p]
        BY <2>2, <3>2 DEF UploadStep, Upload, PutObject, SavePhoto, UploadBreaks
      <4>. QED BY <2>0, <4>1, PhotoWaits
    <3>. QED BY <3>1, <3>2
  <2>3. ASSUME NEW r \in Requests, LinkSessionPhotos(r) PROVE PhotoMeans(p)'
    <3>1. CASE photo'[p] = photo[p] BY <2>0, <3>1, PhotoWaits
    <3>2. CASE photo'[p] # photo[p]
      <4>1. p \in Unlinked(TalkOf[r]) /\ photo'[p] = [photo[p] EXCEPT !.kase = request[r].kase]
            /\ cases' = cases /\ request[r].pc = "linking"
        BY <2>3, <3>2 DEF LinkSessionPhotos
      <4>2. photo[p].row /\ photo[p].kase = 0 /\ PhotoTalk[p] = TalkOf[r]
        BY <4>1 DEF Unlinked
      <4>3. /\ photo'[p].row = photo[p].row /\ photo'[p].pc = photo[p].pc
            /\ photo'[p].found = photo[p].found /\ photo'[p].kase = request[r].kase
        BY <4>1 DEF Photo
      <4>4. photo[p].found = 0 BY <2>0, <4>2 DEF PhotoMeans
      <4>5. OfItsTalk(p, request[r].kase) /\ cases[request[r].kase].type # Consult
        BY <4>1, <4>2, CallTypes DEF RequestInv, RequestMeans, OfItsTalk
      <4>. QED BY <2>0, <4>1, <4>3, <4>4, <4>5 DEF PhotoMeans, OfItsTalk
    <3>. QED BY <3>1, <3>2
  <2>4. ASSUME PurgeStep \/ Tick PROVE PhotoMeans(p)'
    <3>1. /\ photo'[p].row => photo[p].row
          /\ photo'[p].pc = photo[p].pc /\ photo'[p].found = photo[p].found
          /\ photo'[p].kase = photo[p].kase
      <4>1. ASSUME NEW q \in Photos, DeleteObject(q)
            PROVE  /\ photo'[p].row = photo[p].row /\ photo'[p].pc = photo[p].pc
                   /\ photo'[p].found = photo[p].found /\ photo'[p].kase = photo[p].kase
        <5>1. CASE photo' = photo BY <5>1
        <5>2. CASE photo' = [photo EXCEPT ![q].object = FALSE]
          <6>1. photo[p] \in Photo OBVIOUS
          <6>. QED BY ZenonT(30), <5>2, <6>1 DEF Photo
        <5>. QED BY <4>1, <5>1, <5>2 DEF DeleteObject
      <4>2. CASE DeleteRows BY <4>2 DEF DeleteRows, Photo
      <4>3. CASE SelectBatch \/ PurgeStops \/ Tick BY <4>3 DEF SelectBatch, PurgeStops, Tick
      <4>. QED BY <2>4, <4>1, <4>2, <4>3 DEF PurgeStep
    <3>. QED BY <2>0, <3>1, PhotoWaits
  <2>5. ASSUME NEW r \in Requests, RequestStep(r) PROVE PhotoMeans(p)'
    <3>1. ~LinkSessionPhotos(r) => UNCHANGED photo
      BY <2>5 DEF RequestStep, SubmitSupportCase, UpdateRepeat, InsertCase, SubmitFails
    <3>. QED BY <2>1, <2>3, <3>1
  <2>6. CASE \/ \E o \in Replies : ReplyStep(o)
             \/ \E i \in DOMAIN cases, s \in Statuses : SetCaseStatus(i, s)
             \/ \E t \in Talks : MirrorConsultation(t)
    BY <2>1, <2>6 DEF ReplyStep, SendCaseReply, ReplySent, SetCaseStatus, MirrorConsultation
  <2>. QED BY <2>2, <2>4, <2>5, <2>6 DEF CaseNext
<1>2. ASSUME PhotosMean, UNCHANGED caseVars PROVE PhotosMean'
  BY <1>2 DEF PhotosMean, PhotoMeans, OfItsTalk, caseVars
<1>. QED BY <1>1, <1>2

-------------------------------------------------------------------------------
(* The theorems *)

CasesInv == CaseTypeOK /\ PurgeInv /\ RequestInv /\ LinksMade /\ PhotosMean

LEMMA CasesInvariant == CaseSpec => []CasesInv
<1>1. CaseInit => CasesInv
  <2>. SUFFICES ASSUME CaseInit PROVE CasesInv OBVIOUS
  <2>1. CaseTypeOK
    <3>1. now \in 0..LastTick /\ changes \in 0..MaxStatusChanges BY Bounds DEF CaseInit
    <3>2. cases \in Seq(Case) /\ Len(cases) <= LastCase BY Bounds DEF CaseInit
    <3>3. photo \in [Photos -> Photo] BY Bounds DEF CaseInit, Photo
    <3>4. request \in [Requests -> Request] BY Bounds DEF CaseInit, Request
    <3>5. reply \in [Replies -> Reply] BY Bounds DEF CaseInit, Reply, Statuses
    <3>6. purge \in Purge /\ parted \subseteq Photos BY DEF CaseInit, Purge
    <3>. QED BY <3>1, <3>2, <3>3, <3>4, <3>5, <3>6 DEF CaseTypeOK
  <2>2. PurgeInv BY DEF CaseInit, PurgeInv, PurgeMeans, PhotoAndRow, Past
  <2>3. RequestInv BY DEF CaseInit, RequestInv, RequestMeans
  <2>4. LinksMade BY DEF CaseInit, LinksMade
  <2>5. PhotosMean BY DEF CaseInit, PhotosMean, PhotoMeans
  <2>. QED BY <2>1, <2>2, <2>3, <2>4, <2>5 DEF CasesInv
<1>2. CasesInv /\ [CaseNext]_caseVars => CasesInv'
  BY CaseTypes, PurgeInvStep, RequestInvStep, LinksStep, PhotosStep DEF CasesInv
<1>. QED BY <1>1, <1>2, PTL DEF CaseSpec

\* The rows of requests and photos keep their types.
THEOREM TypeCorrect == CaseSpec => []CaseTypeOK
<1>1. CasesInv => CaseTypeOK BY DEF CasesInv
<1>. QED BY <1>1, CasesInvariant, PTL

\* The upload and the nightly purge, stopped anywhere, never leave a row without its
\* photo before its time, nor a saved photo without its row.
THEOREM PhotosKept == CaseSpec => []PhotoAndRow
<1>1. CasesInv => PhotoAndRow BY DEF CasesInv, PurgeInv
<1>. QED BY <1>1, CasesInvariant, PTL

\* A photo hangs on a case of its own conversation, stays with the one it found at upload,
\* and is left without one by no request of its conversation, outside the two windows that
\* the code leaves open (parted).
THEOREM PhotosFindTheirCases == CaseSpec => []PhotosAreFiled
<1>1. CasesInv => PhotosAreFiled
  <2>. SUFFICES ASSUME CasesInv, NEW p \in Photos, photo[p].row
                PROVE  /\ photo[p].kase # 0 => cases[photo[p].kase].talk = PhotoTalk[p]
                       /\ photo[p].found # 0 => photo[p].kase = photo[p].found
                       /\ photo[p].found = 0 /\ photo[p].kase # 0 => cases[photo[p].kase].type # Consult
                       /\ photo[p].kase = 0 =>
                            \A r \in Requests :
                              /\ request[r].pc = "ok" /\ request[r].kase # 0 /\ TalkOf[r] = PhotoTalk[p]
                              /\ \A q \in Requests : request[q].pc # "linking"
                              /\ photo[p].at - cases[request[r].kase].at < PhotoWindow
                              => p \in parted
    BY DEF PhotosAreFiled
  <2>1. PhotoMeans(p) BY DEF CasesInv, PhotosMean
  <2>2. ASSUME photo[p].kase = 0, NEW r \in Requests, request[r].pc = "ok" /\ request[r].kase # 0,
               TalkOf[r] = PhotoTalk[p], \A q \in Requests : request[q].pc # "linking",
               photo[p].at - cases[request[r].kase].at < PhotoWindow
        PROVE  p \in parted
    <3>1. /\ request[r].kase \in DOMAIN cases /\ cases[request[r].kase].talk = PhotoTalk[p]
          /\ cases[request[r].kase].type = TypeOf[r]
      BY <2>2 DEF CasesInv, RequestInv, RequestMeans
    <3>2. Linked(request[r].kase) BY <2>2, <3>1, CallTypes DEF CasesInv, LinksMade
    <3>. QED BY <2>2, <3>1, <3>2 DEF Linked
  <2>. QED BY <2>1, <2>2 DEF PhotoMeans, OfItsTalk
<1>. QED BY <1>1, CasesInvariant, PTL

\* A repeat of an unhandled request is never filed twice within the half hour, and never
\* lands in a request that was handled before it was made.
THEOREM RepeatsMeet == CaseSpec => RepeatsGoTogether
<1>1. CasesInv /\ [CaseNext]_caseVars =>
        [\A r \in Requests :
           /\ request[r].pc = "inserting" /\ request'[r].pc = "linking" =>
                \A i \in request[r].known \ request[r].moved : ~CreatedWithin(RepeatWindow, cases[i].at)
           /\ request[r].pc = "updating" /\ request'[r].pc = "ok" =>
                \/ cases[request[r].kase].status # "resolved"
                \/ request[r].kase \in request[r].known]_caseVars
  BY DEF CasesInv, RequestInv, RequestMeans
<1>. QED BY <1>1, CasesInvariant, PTL DEF CaseSpec, RepeatsGoTogether
===============================================================================
