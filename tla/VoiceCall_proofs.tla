---------------------------- MODULE VoiceCall_proofs ----------------------------
(***************************************************************************)
(* Proofs about a voice call: about its flows (CallFlows), for any         *)
(* utterances, narrations and callers, and about how it starts and ends    *)
(* (CallLife).  The two share no variable, and no proof uses both.         *)
(***************************************************************************)
EXTENDS CallFlows, CallLife, TLAPS

-------------------------------------------------------------------------------
(* The flows of a call *)


\* A completion that starts keeps the types of what Launch writes.
LEMMA LaunchType ==
  ASSUME FlowTypeOK, NEW starts \in SUBSET Jobs, Launch(starts)
  PROVE  /\ job' \in [Jobs -> Stages] /\ busy' \subseteq Jobs \cup {"form"}
         /\ crossed' \in BOOLEAN
<1>1. CASE UNCHANGED <<job, busy, crossed>> BY <1>1 DEF FlowTypeOK
<1>2. ASSUME NEW j \in starts,
             job' = [job EXCEPT ![j] = "extracting"],
             busy' = busy \cup {FlagOf(j)},
             crossed' = (crossed \/ (j = "consult" /\ InFlight # {}))
      PROVE  /\ job' \in [Jobs -> Stages] /\ busy' \subseteq Jobs \cup {"form"}
             /\ crossed' \in BOOLEAN
  <2>1. job' \in [Jobs -> Stages] BY <1>2 DEF FlowTypeOK, Stages
  <2>2. FlagOf(j) \in Jobs \cup {"form"} BY DEF FlagOf, Jobs
  <2>. QED BY <1>2, <2>1, <2>2 DEF FlowTypeOK
<1>. QED BY <1>1, <1>2 DEF Launch

LEMMA FormOfJobs == \A modes : FormOf(modes) \in SUBSET Jobs
BY DEF FormOf, Jobs

\* Every step keeps the types.
LEMMA FlowTypes ==
  ASSUME FlowTypeOK, [FlowNext]_flowVars
  PROVE  FlowTypeOK'
<1>. USE DEF FlowTypeOK
<1>1. CASE UNCHANGED flowVars BY <1>1 DEF flowVars
<1>2. ASSUME NEW j \in Jobs, JobStep(j) PROVE FlowTypeOK'
  <2>1. CASE NotExtracted(j) BY <2>1 DEF NotExtracted, End, OnReturn, Release, Stages
  <2>2. CASE Extracted(j) BY <2>2 DEF Extracted, Stages
  <2>3. CASE Navigated(j) BY <2>3 DEF Navigated, Stages
  <2>4. CASE Filled(j) BY <2>4 DEF Filled, End, OnReturn, Release, Stages
  <2>5. CASE FillFails(j) BY <2>5 DEF FillFails, End, OnReturn, Release, Stages
  <2>6. ASSUME NEW ok \in BOOLEAN, ConsultSaved(ok) PROVE FlowTypeOK'
    <3>1. saved' \in Nat BY <2>6 DEF ConsultSaved
    <3>2. completed' \subseteq Jobs BY <2>6 DEF ConsultSaved, Jobs
    <3>3. job' \in [Jobs -> Stages] /\ busy' \subseteq Jobs \cup {"form"}
      BY <2>6 DEF ConsultSaved, End, OnReturn, Release, Stages
    <3>. QED BY <2>6, <3>1, <3>2, <3>3 DEF ConsultSaved
  <2>. QED BY <1>2, <2>1, <2>2, <2>3, <2>4, <2>5, <2>6 DEF JobStep
<1>3. ASSUME NEW p \in Paths, OnceCalled(p) PROVE FlowTypeOK'
  BY <1>3 DEF OnceCalled
<1>4. ASSUME NEW p \in Paths, NEW ok \in BOOLEAN, OnceSaved(p, ok) PROVE FlowTypeOK'
  BY <1>4 DEF OnceSaved, AfterBooking, Marked, Jobs
<1>5. ASSUME NEW said \in Said, HearVisitor(said) PROVE FlowTypeOK'
  <2>1. said \subseteq Intents BY FlowAssumption
  <2>2. heard' \in 0..LastUtterance /\ heard + 1 \in Utterances
    BY <1>5, FlowAssumption DEF HearVisitor, Utterances
  <2>3. mode' \subseteq {"consult", "contact", "checkout"} BY <1>5 DEF HearVisitor
  <2>4. act' \in [Utterances -> {"none", "adding", "tool", "turn", "done"}]
    BY <1>5, <2>2 DEF HearVisitor
  <2>5. gate' \in [Utterances -> {"none", "waiting", "reading", "going"}]
    BY <1>5, <2>2 DEF HearVisitor
  <2>6. PICK starts \in SUBSET Jobs : Launch(starts)
    BY <1>5, FormOfJobs DEF HearVisitor, Jobs
  <2>. QED BY <1>5, <2>2, <2>3, <2>4, <2>5, <2>6, LaunchType DEF HearVisitor
<1>6. ASSUME NEW said \in Narrated, HearOlivia(said) PROVE FlowTypeOK'
  <2>1. PICK starts \in SUBSET Jobs : Launch(starts)
    BY <1>6, FormOfJobs DEF HearOlivia, Jobs
  <2>. QED BY <1>6, <2>1, LaunchType DEF HearOlivia
<1>7. CASE CheckoutReached BY <1>7 DEF CheckoutReached
<1>8. CASE ToolsOff BY <1>8 DEF ToolsOff
<1>9. ASSUME NEW u \in Utterances,
             TurnDone(u) \/ ReadCart(u) \/ CheckoutShown(u)
             \/ \E ok \in BOOLEAN : Added(u, ok) \/ CartRead(u, ok)
      PROVE  FlowTypeOK'
  <2>1. CASE TurnDone(u) BY <2>1 DEF TurnDone
  <2>2. CASE ReadCart(u) BY <2>2 DEF ReadCart
  <2>3. CASE CheckoutShown(u) BY <2>3 DEF CheckoutShown
  <2>4. ASSUME NEW ok \in BOOLEAN, Added(u, ok) PROVE FlowTypeOK' BY <2>4 DEF Added
  <2>5. ASSUME NEW ok \in BOOLEAN, CartRead(u, ok) PROVE FlowTypeOK' BY <2>5 DEF CartRead
  <2>. QED BY <1>9, <2>1, <2>2, <2>3, <2>4, <2>5
<1>. QED BY <1>1, <1>2, <1>3, <1>4, <1>5, <1>6, <1>7, <1>8, <1>9 DEF FlowNext

LEMMA FlowInitTypes == FlowInit => FlowTypeOK
<1>. SUFFICES ASSUME FlowInit PROVE FlowTypeOK OBVIOUS
<1>1. job \in [Jobs -> Stages] BY DEF FlowInit, Stages
<1>2. once \in [Paths -> {"idle", "saving"}] BY DEF FlowInit
<1>3. act \in [Utterances -> {"none", "adding", "tool", "turn", "done"}] BY DEF FlowInit
<1>4. gate \in [Utterances -> {"none", "waiting", "reading", "going"}] BY DEF FlowInit
<1>5. heard \in 0..LastUtterance BY FlowAssumption DEF FlowInit
<1>. QED BY <1>1, <1>2, <1>3, <1>4, <1>5 DEF FlowInit, FlowTypeOK

\* Every variable has its type.
THEOREM FlowTypeCorrect == FlowSpec => []FlowTypeOK
<1>1. FlowInit => FlowTypeOK BY FlowInitTypes
<1>2. FlowTypeOK /\ [FlowNext]_flowVars => FlowTypeOK' BY FlowTypes
<1>. QED BY <1>1, <1>2, PTL DEF FlowSpec

-------------------------------------------------------------------------------
(* Consultations *)

\* As long as no two attempts have been under way together: there is at most one, it
\* began with nothing saved, and what was saved is marked as booked.
BookInv ==
  /\ FlowTypeOK
  /\ ~crossed =>
       /\ \A x, y \in InFlight : x = y
       /\ saved = 0 \/ (saved = 1 /\ InFlight = {} /\ "consult" \in completed)

\* A step that starts no attempt and saves nothing keeps BookInv.
LEMMA NothingBooked ==
  ASSUME BookInv, FlowTypeOK', crossed => crossed', saved' = saved,
         completed \subseteq completed', InFlight' \subseteq InFlight
  PROVE  BookInv'
BY DEF BookInv

LEMMA LaunchBooks ==
  ASSUME BookInv, FlowTypeOK', NEW starts \in SUBSET Jobs, Launch(starts),
         UNCHANGED <<once, saved, completed>>
  PROVE  BookInv'
<1>1. CASE UNCHANGED <<job, busy, crossed>>
  BY <1>1, NothingBooked DEF InFlight
<1>2. ASSUME NEW j \in starts, MayStart(j),
             job' = [job EXCEPT ![j] = "extracting"],
             crossed' = (crossed \/ (j = "consult" /\ InFlight # {}))
      PROVE  BookInv'
  <2>0. job \in [Jobs -> Stages] /\ "consult" \in Jobs BY DEF BookInv, FlowTypeOK, Jobs
  <2>1. CASE j # "consult"
    <3>1. job'["consult"] = job["consult"] BY <1>2, <2>0, <2>1
    <3>. QED BY <1>2, <2>1, <3>1, NothingBooked DEF InFlight
  <2>2. CASE j = "consult"
    <3>1. InFlight' \subseteq InFlight \cup {"consult"} BY <1>2 DEF InFlight
    <3>2. "consult" \notin completed BY <1>2, <2>2 DEF MayStart
    <3>. QED BY <1>2, <2>2, <3>1, <3>2 DEF BookInv
  <2>. QED BY <2>1, <2>2
<1>. QED BY <1>1, <1>2 DEF Launch

LEMMA BookStep ==
  ASSUME BookInv, [FlowNext]_flowVars
  PROVE  BookInv'
<1>0. FlowTypeOK /\ FlowTypeOK' BY FlowTypes DEF BookInv
<1>1. CASE UNCHANGED flowVars BY <1>0, <1>1, NothingBooked DEF flowVars, InFlight
<1>2. ASSUME NEW j \in Jobs, JobStep(j) PROVE BookInv'
  <2>0. job \in [Jobs -> Stages] /\ "consult" \in Jobs BY <1>0 DEF FlowTypeOK, Jobs
  <2>1. ASSUME job[j] # "idle", NEW s, job' = [job EXCEPT ![j] = s],
               UNCHANGED <<once, saved, crossed>>, completed \subseteq completed'
        PROVE  BookInv'
    <3>1. job'["consult"] # "idle" => job["consult"] # "idle" BY <2>0, <2>1
    <3>. QED BY <1>0, <2>1, <3>1, NothingBooked DEF InFlight
  <2>2. CASE NotExtracted(j) BY <2>1, <2>2 DEF NotExtracted, End
  <2>3. CASE Extracted(j) BY <2>1, <2>3 DEF Extracted
  <2>4. CASE Navigated(j) BY <2>1, <2>4 DEF Navigated
  <2>5. CASE Filled(j) BY <2>1, <2>5 DEF Filled, End
  <2>6. CASE FillFails(j)
    <3>1. CASE job[j] = "filling" /\ job' = [job EXCEPT ![j] = "refilling"]
      BY <2>1, <2>6, <3>1 DEF FillFails
    <3>2. CASE job[j] = "refilling" /\ End(j) BY <2>1, <2>6, <3>2 DEF FillFails, End
    <3>. QED BY <2>6, <3>1, <3>2 DEF FillFails
  <2>7. ASSUME NEW ok \in BOOLEAN, ConsultSaved(ok) PROVE BookInv'
    <3>1. job' = [job EXCEPT !["consult"] = "idle"] /\ once' = once /\ crossed' = crossed
      BY <2>7 DEF ConsultSaved, End
    <3>2. "consult" \in InFlight BY <2>7 DEF ConsultSaved, InFlight
    <3>3. InFlight' = {p \in Paths : once[p] = "saving"} BY <2>0, <3>1 DEF InFlight
    <3>4. ~crossed => InFlight' = {} /\ saved = 0
      BY <3>2, <3>3, FlowAssumption DEF BookInv, InFlight
    <3>. QED BY <1>0, <2>7, <3>1, <3>3, <3>4 DEF BookInv, ConsultSaved
  <2>. QED BY <1>2, <2>2, <2>3, <2>4, <2>5, <2>6, <2>7 DEF JobStep
<1>3. ASSUME NEW p \in Paths, OnceCalled(p) PROVE BookInv'
  <2>1. InFlight' \subseteq InFlight \cup {p} BY <1>3 DEF OnceCalled, InFlight
  <2>. QED BY <1>0, <1>3, <2>1 DEF BookInv, OnceCalled
<1>4. ASSUME NEW p \in Paths, NEW ok \in BOOLEAN, OnceSaved(p, ok) PROVE BookInv'
  <2>1. p \in InFlight BY <1>4 DEF OnceSaved, InFlight
  <2>2. once \in [Paths -> {"idle", "saving"}] BY <1>0 DEF FlowTypeOK
  <2>3. InFlight' = {q \in Paths : q # p /\ once[q] = "saving"}
                    \cup {j \in {"consult"} : job[j] # "idle"}
    BY <1>4, <2>2 DEF OnceSaved, InFlight
  <2>4. ~crossed => InFlight' = {} /\ saved = 0
    BY <2>1, <2>3, FlowAssumption DEF BookInv, InFlight
  <2>5. crossed' = crossed BY <1>4 DEF OnceSaved
  <2>. QED BY <1>0, <1>4, <2>4, <2>5 DEF BookInv, OnceSaved, AfterBooking, Marked
<1>5. ASSUME NEW said \in Said, HearVisitor(said) PROVE BookInv'
  <2>1. PICK starts \in SUBSET Jobs : Launch(starts)
    BY <1>5, FormOfJobs DEF HearVisitor, Jobs
  <2>. QED BY <1>0, <1>5, <2>1, LaunchBooks DEF HearVisitor
<1>6. ASSUME NEW said \in Narrated, HearOlivia(said) PROVE BookInv'
  <2>1. PICK starts \in SUBSET Jobs : Launch(starts)
    BY <1>6, FormOfJobs DEF HearOlivia, Jobs
  <2>. QED BY <1>0, <1>6, <2>1, LaunchBooks DEF HearOlivia
<1>7. CASE CheckoutReached \/ ToolsOff
  BY <1>0, <1>7, NothingBooked DEF CheckoutReached, ToolsOff, InFlight
<1>8. ASSUME NEW u \in Utterances,
             TurnDone(u) \/ ReadCart(u) \/ CheckoutShown(u)
             \/ \E ok \in BOOLEAN : Added(u, ok) \/ CartRead(u, ok)
      PROVE  BookInv'
  <2>1. UNCHANGED <<job, once, saved, completed, crossed>>
    BY <1>8 DEF TurnDone, ReadCart, CheckoutShown, Added, CartRead
  <2>. QED BY <1>0, <2>1, NothingBooked DEF InFlight
<1>. QED BY <1>1, <1>2, <1>3, <1>4, <1>5, <1>6, <1>7, <1>8 DEF FlowNext

\* A consultation is saved twice only by attempts that were under way together: the
\* flag consultBooked keeps every later attempt from starting.
THEOREM BookedOnce == FlowSpec => []BookedTwiceOnlyTogether
<1>1. FlowInit => BookInv
  <2>1. FlowInit => InFlight = {} BY DEF FlowInit, InFlight, Jobs
  <2>. QED BY <2>1, FlowInitTypes DEF FlowInit, BookInv
<1>2. BookInv /\ [FlowNext]_flowVars => BookInv' BY BookStep
<1>3. BookInv => BookedTwiceOnlyTogether BY DEF BookInv, BookedTwiceOnlyTogether
<1>. QED BY <1>1, <1>2, <1>3, PTL DEF FlowSpec

-------------------------------------------------------------------------------
(* Forms *)

\* A completion that runs has its flag up, and one form at most runs.
FormInv ==
  /\ FlowTypeOK
  /\ \A j \in Jobs : job[j] # "idle" => FlagOf(j) \in busy
  /\ job["order"] = "idle" \/ job["contact"] = "idle"

\* A step that leaves the completions and their flags alone keeps FormInv.
LEMMA NothingFilled ==
  ASSUME FormInv, FlowTypeOK', UNCHANGED <<job, busy>>
  PROVE  FormInv'
BY DEF FormInv, FlagOf

LEMMA LaunchForms ==
  ASSUME FormInv, FlowTypeOK', NEW starts \in SUBSET Jobs, Launch(starts)
  PROVE  FormInv'
<1>1. CASE UNCHANGED <<job, busy, crossed>> BY <1>1, NothingFilled
<1>2. ASSUME NEW j \in starts, MayStart(j), job' = [job EXCEPT ![j] = "extracting"],
             busy' = busy \cup {FlagOf(j)}
      PROVE  FormInv'
  <2>1. job \in [Jobs -> Stages] /\ j \in Jobs BY DEF FormInv, FlowTypeOK
  <2>2. \A i \in Jobs : i # j => job'[i] = job[i] BY <1>2, <2>1
  <2>3. \A i \in Jobs : job'[i] # "idle" => FlagOf(i) \in busy'
    BY <1>2, <2>2 DEF FormInv
  <2>4. FlagOf(j) \notin busy BY <1>2 DEF MayStart
  <2>5. \A i \in Jobs : FlagOf(i) = FlagOf(j) => job[i] = "idle" BY <2>4 DEF FormInv
  <2>6. FlagOf("order") = "form" /\ FlagOf("contact") = "form" BY DEF FlagOf
  <2>7. job'["order"] = "idle" \/ job'["contact"] = "idle"
    BY <2>1, <2>2, <2>5, <2>6 DEF FormInv, Jobs
  <2>. QED BY <2>3, <2>7 DEF FormInv, FlagOf
<1>. QED BY <1>1, <1>2 DEF Launch

LEMMA FormStep ==
  ASSUME FormInv, [FlowNext]_flowVars
  PROVE  FormInv'
<1>0. FlowTypeOK /\ FlowTypeOK' BY FlowTypes DEF FormInv
<1>1. CASE UNCHANGED flowVars BY <1>0, <1>1, NothingFilled DEF flowVars
<1>2. ASSUME NEW j \in Jobs, JobStep(j) PROVE FormInv'
  <2>0. job \in [Jobs -> Stages] BY <1>0 DEF FlowTypeOK
  <2>1. ASSUME NEW i \in Jobs, job[i] # "idle", End(i) PROVE FormInv'
    <3>1. job' = [job EXCEPT ![i] = "idle"] /\ busy' = busy \ {FlagOf(i)}
      BY <2>1 DEF End, OnReturn, Release
    <3>2. \A k \in Jobs : k # i => job'[k] = job[k] BY <2>0, <3>1
    <3>3. job'[i] = "idle" BY <2>0, <3>1
    <3>4. \A k \in Jobs : k # i /\ FlagOf(k) = FlagOf(i) => job[k] = "idle"
      BY <2>1 DEF FormInv, FlagOf, Jobs
    <3>5. \A k \in Jobs : job'[k] # "idle" => FlagOf(k) \in busy'
      BY <3>1, <3>2, <3>3, <3>4 DEF FormInv
    <3>6. job'["order"] = "idle" \/ job'["contact"] = "idle"
      BY <3>2, <3>3 DEF FormInv, Jobs
    <3>. QED BY <1>0, <3>5, <3>6 DEF FormInv, FlagOf
  <2>2. ASSUME job[j] # "idle", NEW s, job' = [job EXCEPT ![j] = s], busy' = busy
        PROVE  FormInv'
    <3>1. \A k \in Jobs : job'[k] # "idle" => job[k] # "idle" BY <2>0, <2>2
    <3>. QED BY <1>0, <2>2, <3>1 DEF FormInv, FlagOf, Jobs
  <2>3. CASE NotExtracted(j) BY <1>2, <2>1, <2>3 DEF NotExtracted
  <2>4. CASE Extracted(j) BY <2>2, <2>4 DEF Extracted
  <2>5. CASE Navigated(j) BY <2>2, <2>5 DEF Navigated
  <2>6. CASE Filled(j) BY <1>2, <2>1, <2>6 DEF Filled
  <2>7. CASE FillFails(j)
    <3>1. CASE job[j] = "filling" /\ job' = [job EXCEPT ![j] = "refilling"] /\ busy' = busy
      BY <2>2, <3>1
    <3>2. CASE job[j] = "refilling" /\ End(j) BY <1>2, <2>1, <3>2
    <3>. QED BY <2>7, <3>1, <3>2 DEF FillFails
  <2>8. ASSUME NEW ok \in BOOLEAN, ConsultSaved(ok) PROVE FormInv'
    BY <2>1, <2>8 DEF ConsultSaved, Jobs
  <2>. QED BY <1>2, <2>3, <2>4, <2>5, <2>6, <2>7, <2>8 DEF JobStep
<1>3. ASSUME NEW said \in Said, HearVisitor(said) PROVE FormInv'
  <2>1. PICK starts \in SUBSET Jobs : Launch(starts)
    BY <1>3, FormOfJobs DEF HearVisitor, Jobs
  <2>. QED BY <1>0, <2>1, LaunchForms
<1>4. ASSUME NEW said \in Narrated, HearOlivia(said) PROVE FormInv'
  <2>1. PICK starts \in SUBSET Jobs : Launch(starts)
    BY <1>4, FormOfJobs DEF HearOlivia, Jobs
  <2>. QED BY <1>0, <2>1, LaunchForms
<1>5. ASSUME NEW p \in Paths, OnceCalled(p) \/ \E ok \in BOOLEAN : OnceSaved(p, ok)
      PROVE  FormInv'
  BY <1>0, <1>5, NothingFilled DEF OnceCalled, OnceSaved
<1>6. CASE CheckoutReached \/ ToolsOff
  BY <1>0, <1>6, NothingFilled DEF CheckoutReached, ToolsOff
<1>7. ASSUME NEW u \in Utterances,
             TurnDone(u) \/ ReadCart(u) \/ CheckoutShown(u)
             \/ \E ok \in BOOLEAN : Added(u, ok) \/ CartRead(u, ok)
      PROVE  FormInv'
  <2>1. UNCHANGED <<job, busy>>
    BY <1>7 DEF TurnDone, ReadCart, CheckoutShown, Added, CartRead
  <2>. QED BY <1>0, <2>1, NothingFilled
<1>. QED BY <1>1, <1>2, <1>3, <1>4, <1>5, <1>6, <1>7 DEF FlowNext

\* The order and the contact form are never filled at the same time.
THEOREM OneFormAtATime == FlowSpec => []FillsNeverInterleave
<1>1. FlowInit => FormInv
  BY FlowInitTypes DEF FlowInit, FormInv, Jobs
<1>2. FormInv /\ [FlowNext]_flowVars => FormInv' BY FormStep
<1>3. FormInv => FillsNeverInterleave BY DEF FormInv, FillsNeverInterleave, OnThePage
<1>. QED BY <1>1, <1>2, <1>3, PTL DEF FlowSpec

-------------------------------------------------------------------------------
(* The life of a call *)


LineStates == {"none", "connecting", "open", "closed"}

-------------------------------------------------------------------------------
(* Types *)

LEMMA StoppedType ==
  ASSUME NEW m \in Mode, NEW a \in {"no", "opening", "asking"}
  PROVE  /\ Stopped(m) \in Mode /\ [Stopped(m) EXCEPT !.ask = a] \in Mode
         /\ Starting(m) \in Mode
<1>1. [m EXCEPT !.ui = "idle"] \in Mode BY DEF Mode
<1>2. \A x \in Mode : [x EXCEPT !.started = FALSE] \in Mode BY DEF Mode
<1>3. \A x \in Mode : [x EXCEPT !.mic = FALSE] \in Mode BY DEF Mode
<1>4. Stopped(m) = [[[m EXCEPT !.ui = "idle"] EXCEPT !.started = FALSE] EXCEPT !.mic = FALSE]
  BY DEF Stopped, Mode
<1>5. Stopped(m) \in Mode BY <1>1, <1>2, <1>3, <1>4
<1>6. \A x \in Mode : [x EXCEPT !.ask = a] \in Mode BY DEF Mode
<1>7. [m EXCEPT !.ui = "connecting"] \in Mode BY DEF Mode
<1>8. \A x \in Mode : [x EXCEPT !.ask = "opening"] \in Mode BY DEF Mode
<1>9. Starting(m) = [[m EXCEPT !.ui = "connecting"] EXCEPT !.ask = "opening"]
  BY DEF Starting, Mode
<1>. QED BY <1>5, <1>6, <1>7, <1>8, <1>9

LEMMA ModeAt ==
  ASSUME voiceMode \in [Lines -> Mode], NEW t \in Lines, NEW m \in Mode
  PROVE  [voiceMode EXCEPT ![t] = m] \in [Lines -> Mode]
OBVIOUS

LEMMA HungUpType ==
  ASSUME LifeTypeOK, NEW t \in Lines
  PROVE  HungUp(t) \in [Lines -> LineStates]
BY DEF LifeTypeOK, HungUp, LineStates

LEMMA ClientTypes ==
  ASSUME NEW c \in Client
  PROVE  /\ \A w \in {"off", "on", "over"} : [c EXCEPT !.watch = w] \in Client
         /\ \A w \in {"off", "on", "over"} : [c EXCEPT !.active = "livekit", !.watch = w] \in Client
         /\ \A h \in BOOLEAN : [c EXCEPT !.heard = h, !.watch = "over"] \in Client
BY DEF Client, Lines

LEMMA SwitchType ==
  ASSUME LifeTypeOK, NEW a \in {"no", "opening", "asking"}, NEW l \in LineStates, Switch(a, l)
  PROVE  /\ line' \in [Lines -> LineStates] /\ client' \in Client
         /\ voiceMode' \in [Lines -> Mode]
<1>1. line' \in [Lines -> LineStates] BY DEF LifeTypeOK, Switch, LineStates
<1>2. client' \in Client BY ClientTypes DEF LifeTypeOK, Switch
<1>3. [Stopped(voiceMode["ws"]) EXCEPT !.ask = a] \in Mode
      /\ Starting(voiceMode["livekit"]) \in Mode
  BY StoppedType DEF LifeTypeOK, Lines
<1>4. voiceMode' = [[voiceMode EXCEPT !["ws"] = [Stopped(voiceMode["ws"]) EXCEPT !.ask = a]]
                     EXCEPT !["livekit"] = Starting(voiceMode["livekit"])]
  BY DEF Switch, LifeTypeOK, Lines
<1>. QED BY <1>1, <1>2, <1>3, <1>4 DEF LifeTypeOK, Lines

LEMMA OnCloseType ==
  ASSUME LifeTypeOK, NEW t \in Lines, OnClose(t)
  PROVE  /\ line' \in [Lines -> LineStates] /\ client' \in Client
         /\ voiceMode' \in [Lines -> Mode]
<1>1. CASE Switch(voiceMode[t].ask, "closed")
  BY <1>1, SwitchType DEF LifeTypeOK, Mode, LineStates
<1>2. CASE /\ voiceMode' = [voiceMode EXCEPT ![t] = Stopped(@)]
           /\ line' = HungUp(t) /\ UNCHANGED client
  BY <1>2, HungUpType, StoppedType DEF LifeTypeOK
<1>3. CASE line' = HungUp(t) /\ UNCHANGED <<client, voiceMode>>
  BY <1>3, HungUpType DEF LifeTypeOK
<1>. QED BY <1>1, <1>2, <1>3 DEF OnClose

\* Each field of a worker can be replaced.
LEMMA WorkerFields ==
  ASSUME NEW w \in Worker
  PROVE  /\ \A x \in {"none", "loading", "preparing", "opening", "on", "over"} :
              [w EXCEPT !.pc = x] \in Worker
         /\ \A x \in {"pending", "go", "late"} : [w EXCEPT !.gate = x] \in Worker
         /\ \A x \in BOOLEAN : /\ [w EXCEPT !.live = x] \in Worker
                               /\ [w EXCEPT !.ticker = x] \in Worker
                               /\ [w EXCEPT !.gemini = x] \in Worker
                               /\ [w EXCEPT !.said = x] \in Worker
         /\ \A x \in {"none", "writing", "done"} : [w EXCEPT !.record = x] \in Worker
BY DEF Worker

LEMMA DisconnectedType ==
  ASSUME NEW w \in Worker
  PROVE  OnDisconnected(w) \in Worker
<1>. DEFINE a == [w EXCEPT !.ticker = FALSE]
            b == [a EXCEPT !.gemini = FALSE]
            c == [b EXCEPT !.record = RecordOf(w)]
<1>1. a \in Worker BY WorkerFields
<1>2. b \in Worker
  <2>. HIDE DEF a
  <2>. QED BY <1>1, WorkerFields
<1>3. RecordOf(w) \in {"none", "writing", "done"} BY DEF RecordOf, Worker
<1>4. c \in Worker
  <2>. HIDE DEF b
  <2>. QED BY <1>2, <1>3, WorkerFields
<1>5. OnDisconnected(w) = IF w.pc # "on" THEN w ELSE c BY DEF OnDisconnected, Worker
<1>. QED BY <1>4, <1>5

LEMMA ToldType ==
  ASSUME LifeTypeOK, NEW t \in Lines
  PROVE  Told(t) \in [Lines -> Worker]
<1>1. worker[t] \in Worker /\ OnDisconnected(worker[t]) \in Worker
  BY DisconnectedType DEF LifeTypeOK
<1>. QED BY <1>1 DEF Told, LifeTypeOK

\* Every step keeps the types.
LEMMA LifeTypes ==
  ASSUME LifeTypeOK, [LifeNext]_lifeVars
  PROVE  LifeTypeOK'
<1>0. /\ line \in [Lines -> LineStates] /\ client \in Client
      /\ voiceMode \in [Lines -> Mode] /\ worker \in [Lines -> Worker]
  BY DEF LifeTypeOK, LineStates
<1>s. SUFFICES /\ line' \in [Lines -> LineStates] /\ client' \in Client
               /\ voiceMode' \in [Lines -> Mode] /\ worker' \in [Lines -> Worker]
  BY DEF LifeTypeOK, LineStates
<1>l. \A t \in Lines, l \in LineStates : [line EXCEPT ![t] = l] \in [Lines -> LineStates]
  BY <1>0
<1>m. \A t \in Lines, m \in Mode : [voiceMode EXCEPT ![t] = m] \in [Lines -> Mode]
  BY <1>0
<1>w. \A t \in Lines, w \in Worker : [worker EXCEPT ![t] = w] \in [Lines -> Worker]
  BY <1>0
<1>c. /\ \A w \in {"off", "on", "over"} : [client EXCEPT !.watch = w] \in Client
      /\ \A h \in BOOLEAN : [client EXCEPT !.heard = h, !.watch = "over"] \in Client
  BY <1>0, ClientTypes
<1>1. CASE UNCHANGED lifeVars BY <1>0, <1>1 DEF lifeVars
<1>2. CASE Warm BY <1>0, <1>2, <1>l DEF Warm, LineStates, Lines
<1>3. CASE WarmIdle BY <1>0, <1>3, HungUpType, ToldType DEF WarmIdle, Lines
<1>4. CASE Tap
  <2>1. Starting(voiceMode["ws"]) \in Mode BY <1>0, StoppedType DEF Lines
  <2>2. voiceMode' \in [Lines -> Mode] BY <1>4, <1>m, <2>1 DEF Tap, Lines
  <2>3. line' \in [Lines -> LineStates] BY <1>0, <1>4, <1>l DEF Tap, LineStates, Lines
  <2>4. client' \in Client BY <1>4, <1>c DEF Tap
  <2>. QED BY <1>0, <1>4, <2>2, <2>3, <2>4 DEF Tap
<1>5. CASE EndCall
  <2>1. client.active \in Lines BY <1>0 DEF Client
  <2>2. Stopped(voiceMode[client.active]) \in Mode BY <1>0, <2>1, StoppedType
  <2>3. voiceMode' \in [Lines -> Mode] BY <1>5, <1>m, <2>1, <2>2 DEF EndCall
  <2>4. client' \in Client BY <1>5, <1>c DEF EndCall
  <2>. QED BY <1>5, <2>1, <2>3, <2>4, HungUpType, ToldType DEF EndCall
<1>6. CASE NoAudioTimer
  <2>1. CASE Switch(voiceMode["ws"].ask, HungUp("ws")["ws"]) /\ worker' = Told("ws")
    <3>1. voiceMode["ws"].ask \in {"no", "opening", "asking"} BY <1>0 DEF Mode, Lines
    <3>2. HungUp("ws")["ws"] \in LineStates BY HungUpType DEF Lines
    <3>. QED BY <2>1, <3>1, <3>2, SwitchType, ToldType DEF Lines
  <2>2. CASE client' = [client EXCEPT !.watch = "over"] /\ UNCHANGED <<line, voiceMode, worker>>
    BY <1>0, <1>c, <2>2
  <2>. QED BY <1>6, <2>1, <2>2 DEF NoAudioTimer
<1>7. CASE JobEnds
  <2>. DEFINE w == worker["livekit"]
              a == [w EXCEPT !.pc = "over"]
              b == [a EXCEPT !.live = FALSE]
              c == [b EXCEPT !.ticker = FALSE]
              d == [c EXCEPT !.gemini = FALSE]
  <2>1. w \in Worker BY <1>0 DEF Lines
  <2>2. a \in Worker BY <2>1, WorkerFields
  <2>3. b \in Worker
    <3>. HIDE DEF a
    <3>. QED BY <2>2, WorkerFields
  <2>4. c \in Worker
    <3>. HIDE DEF b
    <3>. QED BY <2>3, WorkerFields
  <2>5. d \in Worker
    <3>. HIDE DEF c
    <3>. QED BY <2>4, WorkerFields
  <2>6. d = [w EXCEPT !.pc = "over", !.live = FALSE, !.ticker = FALSE, !.gemini = FALSE]
    BY <2>1 DEF Worker
  <2>7. worker' = [worker EXCEPT !["livekit"] = d] BY <1>0, <1>7, <2>6 DEF JobEnds, Lines
  <2>. HIDE DEF d
  <2>. QED BY <1>0, <1>7, <1>w, <2>5, <2>7 DEF JobEnds, Lines
<1>8. ASSUME NEW t \in Lines,
             \/ LineOpens(t) \/ LineFails(t) \/ AskForMic(t) \/ MicOn(t) \/ MicDenied(t)
             \/ Audible(t) \/ LineDrops(t)
             \/ WorkerStep(t) \/ WarmWatchdog(t) \/ RecordWritten(t)
      PROVE  /\ line' \in [Lines -> LineStates] /\ client' \in Client
             /\ voiceMode' \in [Lines -> Mode] /\ worker' \in [Lines -> Worker]
  <2>w. /\ worker[t] \in Worker
        /\ \A x \in {"none", "loading", "preparing", "opening", "on", "over"} :
             [worker EXCEPT ![t].pc = x] \in [Lines -> Worker]
        /\ \A x \in {"pending", "go", "late"} : [worker EXCEPT ![t].gate = x] \in [Lines -> Worker]
        /\ [worker EXCEPT ![t].said = TRUE] \in [Lines -> Worker]
        /\ [worker EXCEPT ![t].record = "done"] \in [Lines -> Worker]
    BY <1>0, <1>w, WorkerFields
  <2>m. /\ voiceMode[t] \in Mode /\ Stopped(voiceMode[t]) \in Mode
        /\ [Stopped(voiceMode[t]) EXCEPT !.ask = "no"] \in Mode
    BY <1>0, StoppedType
  <2>1. CASE LineOpens(t) BY <1>0, <1>l, <2>1, <2>w DEF LineOpens, LineStates
  <2>2. CASE LineFails(t)
    <3>1. CASE Switch("no", "closed") BY <1>0, <2>2, <3>1, SwitchType DEF LineFails, LineStates
    <3>2. CASE /\ line' = [line EXCEPT ![t] = "closed"]
               /\ voiceMode' = [voiceMode EXCEPT ![t] = IF voiceMode[t].ask = "opening"
                                                        THEN [Stopped(@) EXCEPT !.ask = "no"] ELSE @]
               /\ UNCHANGED client
      BY <1>0, <1>l, <1>m, <2>2, <2>m, <3>2 DEF LineFails, LineStates
    <3>. QED BY <2>2, <3>1, <3>2 DEF LineFails
  <2>3. CASE AskForMic(t)
    <3>1. [voiceMode[t] EXCEPT !.ask = "asking"] \in Mode BY <2>m DEF Mode
    <3>. QED BY <1>0, <1>m, <2>3, <3>1 DEF AskForMic
  <2>4. CASE MicOn(t)
    <3>. DEFINE m == [voiceMode[t] EXCEPT !.ask = "no"]
                n == [m EXCEPT !.mic = TRUE]
                o == [n EXCEPT !.started = TRUE]
                v == [worker[t] EXCEPT !.gate = "go"]
                w == [v EXCEPT !.live = (worker[t].pc = "on")]
    <3>1. m \in Mode BY <2>m DEF Mode
    <3>2. n \in Mode
      <4>. HIDE DEF m
      <4>. QED BY <3>1 DEF Mode
    <3>3. o \in Mode
      <4>. HIDE DEF n
      <4>. QED BY <3>2 DEF Mode
    <3>4. voiceMode' = [voiceMode EXCEPT ![t] = o] BY <1>0, <2>4 DEF MicOn, Mode
    <3>5. v \in Worker BY <2>w, WorkerFields
    <3>6. w \in Worker
      <4>. HIDE DEF v
      <4>. QED BY <3>5, WorkerFields
    <3>7. worker' = [worker EXCEPT ![t] = w] \/ worker' = worker
      BY <1>0, <2>4 DEF MicOn, Worker
    <3>. HIDE DEF m, n, o, v, w
    <3>8. voiceMode' \in [Lines -> Mode] BY <1>m, <3>3, <3>4
    <3>9. worker' \in [Lines -> Worker] BY <1>0, <1>w, <3>6, <3>7
    <3>10. UNCHANGED <<line, client>> BY <2>4 DEF MicOn
    <3>. QED BY <1>0, <3>8, <3>9, <3>10
  <2>5. CASE MicDenied(t) BY <1>0, <1>m, <2>5, <2>m DEF MicDenied
  <2>6. CASE Audible(t)
    <3>1. [voiceMode[t] EXCEPT !.ui = "on"] \in Mode BY <2>m DEF Mode
    <3>2. client' \in Client
      <4>1. (client.heard \/ client.active = "ws") \in BOOLEAN OBVIOUS
      <4>2. \/ client' = [client EXCEPT !.heard = (client.heard \/ client.active = "ws"), !.watch = "over"]
            \/ client' = client
        BY <2>6 DEF Audible
      <4>. QED BY <1>0, <1>c, <4>1, <4>2
    <3>. QED BY <1>0, <1>m, <2>6, <2>w, <3>1, <3>2 DEF Audible
  <2>7. CASE LineDrops(t) BY <2>7, OnCloseType, ToldType DEF LineDrops
  <2>8. CASE Loads(t)
    <3>. DEFINE v == [worker[t] EXCEPT !.pc = "preparing"]
                w == [v EXCEPT !.ticker = TRUE]
    <3>1. v \in Worker BY <2>w, WorkerFields
    <3>2. w \in Worker
      <4>. HIDE DEF v
      <4>. QED BY <3>1, WorkerFields
    <3>3. worker' = [worker EXCEPT ![t] = w] BY <1>0, <2>8 DEF Loads, Worker
    <3>. HIDE DEF v, w
    <3>4. worker' \in [Lines -> Worker] BY <1>w, <3>2, <3>3
    <3>5. UNCHANGED <<line, client, voiceMode>> BY <2>8 DEF Loads
    <3>. QED BY <1>0, <3>4, <3>5
  <2>9. CASE Prepares(t) BY <1>0, <2>9, <2>w DEF Prepares
  <2>10. CASE Opens(t)
    <3>. DEFINE v == [worker[t] EXCEPT !.pc = "on"]
                w == [v EXCEPT !.ticker = FALSE]
                x == [v EXCEPT !.gemini = TRUE]
                y == [x EXCEPT !.live = (worker[t].gate = "go")]
    <3>1. v \in Worker BY <2>w, WorkerFields
    <3>2. w \in Worker /\ x \in Worker
      <4>. HIDE DEF v
      <4>. QED BY <3>1, WorkerFields
    <3>3. y \in Worker
      <4>. HIDE DEF x
      <4>. QED BY <3>2, WorkerFields
    <3>4. CASE /\ worker' = [worker EXCEPT ![t].pc = "on", ![t].ticker = FALSE]
               /\ AtLate(t)
      <4>1. worker' = [worker EXCEPT ![t] = w] BY <1>0, <3>4 DEF Worker
      <4>. HIDE DEF w
      <4>. QED BY ZenonT(30), <1>w, <3>2, <3>4, <4>1, OnCloseType DEF AtLate, Disconnects
    <3>5. CASE /\ worker' = [worker EXCEPT ![t].pc = "on", ![t].gemini = TRUE,
                                           ![t].live = worker[t].gate = "go"]
               /\ UNCHANGED <<line, client, voiceMode>>
      <4>1. worker' = [worker EXCEPT ![t] = y] BY <1>0, <3>5 DEF Worker
      <4>. HIDE DEF v, x, y
      <4>2. worker' \in [Lines -> Worker] BY <1>w, <3>3, <4>1
      <4>3. UNCHANGED <<line, client, voiceMode>> BY <3>5
      <4>. QED BY <1>0, <4>2, <4>3
    <3>. QED BY <2>10, <3>4, <3>5 DEF Opens
  <2>11. CASE SetupFails(t) BY <2>11, <2>w, OnCloseType DEF SetupFails
  <2>12. CASE WarmWatchdog(t)
    <3>. DEFINE v == [worker[t] EXCEPT !.gate = "late"]
                w == [v EXCEPT !.ticker = FALSE]
                x == [w EXCEPT !.gemini = FALSE]
    <3>1. v \in Worker BY <2>w, WorkerFields
    <3>2. w \in Worker
      <4>. HIDE DEF v
      <4>. QED BY <3>1, WorkerFields
    <3>3. x \in Worker
      <4>. HIDE DEF w
      <4>. QED BY <3>2, WorkerFields
    <3>4. CASE /\ worker' = [worker EXCEPT ![t].gate = "late", ![t].ticker = FALSE, ![t].gemini = FALSE]
               /\ AtLate(t)
      <4>1. worker' = [worker EXCEPT ![t] = x] BY <1>0, <3>4 DEF Worker
      <4>. HIDE DEF v, w, x
      <4>2. worker' \in [Lines -> Worker] BY <1>w, <3>3, <4>1
      <4>3. OnClose(t) BY <3>4 DEF AtLate, Disconnects
      <4>. QED BY <4>2, <4>3, OnCloseType
    <3>5. CASE /\ worker' = [worker EXCEPT ![t].gate = "late"]
               /\ UNCHANGED <<line, client, voiceMode>>
      BY <1>0, <2>w, <3>5
    <3>. QED BY <2>12, <3>4, <3>5 DEF WarmWatchdog
  <2>13. CASE RecordWritten(t) BY <1>0, <2>13, <2>w DEF RecordWritten
  <2>. QED BY <1>8, <2>1, <2>2, <2>3, <2>4, <2>5, <2>6, <2>7, <2>8, <2>9, <2>10, <2>11, <2>12,
           <2>13 DEF WorkerStep
<1>. QED BY <1>1, <1>2, <1>3, <1>4, <1>5, <1>6, <1>7, <1>8 DEF LifeNext

LEMMA LifeInitTypes == LifeInit => LifeTypeOK
<1>. SUFFICES ASSUME LifeInit PROVE LifeTypeOK OBVIOUS
<1>1. [ui |-> "idle", ask |-> "no", started |-> FALSE, mic |-> FALSE] \in Mode BY DEF Mode
<1>2. [pc |-> "none", gate |-> "pending", live |-> FALSE, ticker |-> FALSE,
       gemini |-> FALSE, said |-> FALSE, record |-> "none"] \in Worker BY DEF Worker
<1>3. client \in Client BY DEF LifeInit, Client, Lines
<1>. QED BY <1>1, <1>2, <1>3 DEF LifeInit, LifeTypeOK

\* Every variable has its type.
THEOREM LifeTypeCorrect == LifeSpec => []LifeTypeOK
<1>1. LifeInit => LifeTypeOK BY LifeInitTypes
<1>2. LifeTypeOK /\ [LifeNext]_lifeVars => LifeTypeOK' BY LifeTypes
<1>. QED BY <1>1, <1>2, PTL DEF LifeSpec

-------------------------------------------------------------------------------
(* The record of a call *)

\* What holds of a line and its worker together: the worker comes with the line, nothing
\* was said before it came to run, it is live from then on, and when the line closed the
\* record was begun.
Kept(l, w) ==
  /\ l \in {"none", "connecting"} => w.pc = "none"
  /\ w.said => w.pc \in {"on", "over"}
  /\ w.live => w.pc = "on" /\ w.gate = "go"
  /\ w.said /\ w.pc = "on" => w.live
  /\ w.said /\ l = "closed" => w.record # "none"
  /\ w.said /\ w.pc = "over" => w.record = "done"

\* While the WebSocket is in use nothing has happened on LiveKit.
NotYet == client.active = "ws" => line["livekit"] = "none"

RecordInv ==
  /\ LifeTypeOK
  /\ NotYet
  /\ \A t \in Lines : Kept(line[t], worker[t])

\* A line that closes with its worker told.
LEMMA ClosingKeeps ==
  ASSUME NEW l \in LineStates, NEW w \in Worker, Kept(l, w)
  PROVE  Kept(IF l = "open" THEN "closed" ELSE l, IF l = "open" THEN OnDisconnected(w) ELSE w)
<1>1. CASE l = "open" /\ w.pc = "on"
  <2>. DEFINE v == OnDisconnected(w)
  <2>1. /\ v.said = w.said /\ v.live = w.live /\ v.pc = w.pc /\ v.gate = w.gate
        /\ v.record = RecordOf(w)
    BY <1>1 DEF OnDisconnected, Worker
  <2>. HIDE DEF v
  <2>2. w.said => v.record = "writing" BY <1>1, <2>1 DEF Kept, RecordOf
  <2>3. Kept("closed", v) BY <1>1, <2>1, <2>2 DEF Kept
  <2>. QED BY <1>1, <2>3 DEF v
<1>2. CASE l = "open" /\ w.pc # "on"
  <2>1. OnDisconnected(w) = w BY <1>2 DEF OnDisconnected
  <2>2. w.said => w.record = "done" BY <1>2 DEF Kept
  <2>3. Kept("closed", w) BY <1>2, <2>2 DEF Kept
  <2>. QED BY <1>2, <2>1, <2>3
<1>3. CASE l # "open" BY <1>3
<1>. QED BY <1>1, <1>2, <1>3

\* All other lines stay as they are, or LiveKit begins to connect.
OthersStay(t) ==
  \A s \in Lines \ {t} : /\ worker'[s] = worker[s]
                         /\ line'[s] = line[s] \/ (line[s] = "none" /\ line'[s] = "connecting")

LEMMA OneLineMoves ==
  ASSUME RecordInv, LifeTypeOK', NotYet', NEW t \in Lines, OthersStay(t), Kept(line'[t], worker'[t])
  PROVE  RecordInv'
<1>1. ASSUME NEW s \in Lines \ {t} PROVE Kept(line'[s], worker'[s])
  BY <1>1 DEF OthersStay, RecordInv, Kept
<1>. QED BY <1>1 DEF RecordInv

\* The line of the worker that hears of it closes.
LEMMA TellingKeeps ==
  ASSUME RecordInv, NEW t \in Lines
  PROVE  /\ Kept(HungUp(t)[t], Told(t)[t])
         /\ \A s \in Lines \ {t} : HungUp(t)[s] = line[s] /\ Told(t)[s] = worker[s]
<1>1. line \in [Lines -> LineStates] /\ worker \in [Lines -> Worker]
  BY DEF RecordInv, LifeTypeOK, LineStates
<1>2. /\ HungUp(t)[t] = IF line[t] = "open" THEN "closed" ELSE line[t]
      /\ Told(t)[t] = IF line[t] = "open" THEN OnDisconnected(worker[t]) ELSE worker[t]
      /\ \A s \in Lines \ {t} : HungUp(t)[s] = line[s] /\ Told(t)[s] = worker[s]
  BY <1>1 DEF HungUp, Told
<1>3. Kept(line[t], worker[t]) BY DEF RecordInv
<1>. QED BY <1>1, <1>2, <1>3, ClosingKeeps

LEMMA SwitchMoves ==
  ASSUME RecordInv, NEW a, NEW l, client.active = "ws", Switch(a, l)
  PROVE  /\ line'["ws"] = l /\ NotYet'
         /\ line["livekit"] = "none" /\ line'["livekit"] = "connecting"
<1>1. line \in [Lines -> LineStates] /\ client \in Client
  BY DEF RecordInv, LifeTypeOK, LineStates
<1>2. client'.active = "livekit" BY <1>1 DEF Switch, Client
<1>. QED BY <1>1, <1>2 DEF RecordInv, NotYet, Switch, Lines

\* What closes a line on the widget's side touches no other line that is in use.
LEMMA OnCloseMoves ==
  ASSUME RecordInv, NEW t \in Lines, OnClose(t)
  PROVE  /\ line'[t] = HungUp(t)[t] /\ NotYet'
         /\ \A s \in Lines \ {t} :
              line'[s] = line[s] \/ (line[s] = "none" /\ line'[s] = "connecting")
<1>1. line \in [Lines -> LineStates] /\ client \in Client
  BY DEF RecordInv, LifeTypeOK, LineStates
<1>2. CASE t = "ws" /\ line[t] = "open" /\ MaySwitch /\ Switch(voiceMode[t].ask, "closed")
  <2>1. HungUp(t)[t] = "closed" BY <1>1, <1>2 DEF HungUp
  <2>2. client.active = "ws" BY <1>2 DEF MaySwitch
  <2>. QED BY <1>2, <2>1, <2>2, SwitchMoves DEF Lines
<1>3. CASE line' = HungUp(t) /\ UNCHANGED client
  BY <1>1, <1>3 DEF HungUp, RecordInv, NotYet, Lines
<1>. QED BY <1>2, <1>3 DEF OnClose

\* A worker to which nobody has spoken keeps everything, once its line was made.
LEMMA SilentKeeps ==
  ASSUME NEW l, NEW w, l \notin {"none", "connecting"}, ~w.said, w.live => w.pc = "on" /\ w.gate = "go"
  PROVE  Kept(l, w)
BY DEF Kept

\* Every step keeps the invariant.
LEMMA RecordSteps ==
  ASSUME RecordInv, [LifeNext]_lifeVars
  PROVE  RecordInv'
<1>0. LifeTypeOK' BY LifeTypes DEF RecordInv
<1>t. /\ line \in [Lines -> LineStates] /\ client \in Client
      /\ voiceMode \in [Lines -> Mode] /\ worker \in [Lines -> Worker]
  BY DEF RecordInv, LifeTypeOK, LineStates
<1>k. \A t \in Lines : Kept(line[t], worker[t]) BY DEF RecordInv
<1>1. CASE UNCHANGED lifeVars
  BY <1>1 DEF lifeVars, RecordInv, LifeTypeOK, NotYet, Kept
<1>2. CASE Warm
  <2>1. NotYet' /\ OthersStay("ws") BY <1>2, <1>t DEF Warm, NotYet, RecordInv, OthersStay, Lines
  <2>2. Kept(line'["ws"], worker'["ws"])
    BY <1>2, <1>t, <1>k DEF Warm, Kept, Lines
  <2>. QED BY <1>0, <2>1, <2>2, OneLineMoves DEF Lines
<1>3. CASE WarmIdle
  <2>1. line' = HungUp("ws") /\ worker' = Told("ws") /\ UNCHANGED client BY <1>3 DEF WarmIdle
  <2>2. OthersStay("ws") /\ Kept(line'["ws"], worker'["ws"])
    BY <2>1, TellingKeeps DEF OthersStay, Lines
  <2>3. NotYet' BY <1>t, <2>1 DEF HungUp, NotYet, RecordInv, Lines
  <2>. QED BY <1>0, <2>2, <2>3, OneLineMoves DEF Lines
<1>4. CASE Tap
  <2>1. OthersStay("ws") BY <1>4, <1>t DEF Tap, OthersStay, Lines
  <2>2. NotYet' BY <1>4, <1>t DEF Tap, NotYet, RecordInv, Lines, Client
  <2>3. Kept(line'["ws"], worker'["ws"]) BY <1>4, <1>t, <1>k DEF Tap, Kept, Lines
  <2>. QED BY <1>0, <2>1, <2>2, <2>3, OneLineMoves DEF Lines
<1>5. CASE EndCall
  <2>. DEFINE t == client.active
  <2>1. t \in Lines BY <1>t DEF Client
  <2>2. line' = HungUp(t) /\ worker' = Told(t) /\ client'.active = client.active
    BY <1>5, <1>t DEF EndCall, Client
  <2>3. OthersStay(t) /\ Kept(line'[t], worker'[t])
    BY <2>1, <2>2, TellingKeeps DEF OthersStay
  <2>4. NotYet' BY <1>t, <2>2 DEF HungUp, NotYet, RecordInv, Lines
  <2>. QED BY <1>0, <2>1, <2>3, <2>4, OneLineMoves
<1>6. CASE NoAudioTimer
  <2>1. CASE MaySwitch /\ Switch(voiceMode["ws"].ask, HungUp("ws")["ws"]) /\ worker' = Told("ws")
    <3>1. client.active = "ws" BY <2>1 DEF MaySwitch
    <3>2. /\ line'["ws"] = HungUp("ws")["ws"] /\ NotYet'
          /\ line["livekit"] = "none" /\ line'["livekit"] = "connecting"
      BY <2>1, <3>1, SwitchMoves
    <3>3. OthersStay("ws") /\ Kept(line'["ws"], worker'["ws"])
      BY <2>1, <3>2, TellingKeeps DEF OthersStay, Lines
    <3>. QED BY <1>0, <3>2, <3>3, OneLineMoves DEF Lines
  <2>2. CASE client' = [client EXCEPT !.watch = "over"] /\ UNCHANGED <<line, voiceMode, worker>>
    BY <1>0, <1>t, <2>2 DEF RecordInv, NotYet, Client, Kept
  <2>. QED BY <1>6, <2>1, <2>2 DEF NoAudioTimer
<1>7. CASE JobEnds
  <2>. DEFINE t == "livekit"
  <2>1. line[t] = "closed" /\ worker[t].record # "writing" /\ Kept(line[t], worker[t])
    BY <1>7, <1>k DEF JobEnds, MayExit, WaitsForRecord, Lines
  <2>2. /\ worker'[t].pc = "over" /\ worker'[t].live = FALSE
        /\ worker'[t].said = worker[t].said /\ worker'[t].record = worker[t].record
        /\ worker'["ws"] = worker["ws"] /\ UNCHANGED <<line, client>>
    BY <1>7, <1>t DEF JobEnds, Lines, Worker
  <2>3. worker[t].record \in {"none", "writing", "done"} BY <1>t DEF Worker, Lines
  <2>4. Kept(line'[t], worker'[t]) BY <2>1, <2>2, <2>3 DEF Kept
  <2>5. OthersStay(t) /\ NotYet' BY <2>2 DEF OthersStay, Lines, NotYet, RecordInv
  <2>. QED BY <1>0, <2>4, <2>5, OneLineMoves DEF Lines
<1>8. ASSUME NEW t \in Lines,
             \/ LineOpens(t) \/ LineFails(t) \/ AskForMic(t) \/ MicOn(t) \/ MicDenied(t)
             \/ Audible(t) \/ LineDrops(t)
             \/ WorkerStep(t) \/ WarmWatchdog(t) \/ RecordWritten(t)
      PROVE  RecordInv'
  <2>k. Kept(line[t], worker[t]) BY <1>k
  <2>a. worker[t] \in Worker BY <1>t
  <2>s. SUFFICES NotYet' /\ OthersStay(t) /\ Kept(line'[t], worker'[t]) BY <1>0, OneLineMoves
  \* A step on line t that only changes its worker.
  <2>w. ASSUME NEW w, worker' = [worker EXCEPT ![t] = w], Kept(line[t], w), UNCHANGED <<line, client>>
        PROVE  NotYet' /\ OthersStay(t) /\ Kept(line'[t], worker'[t])
    BY <1>t, <2>w DEF NotYet, RecordInv, OthersStay
  \* A step on line t that closes it on the side of the widget, and was spoken to by nobody.
  <2>c. ASSUME NEW w, worker' = [worker EXCEPT ![t] = w], OnClose(t),
               line[t] \notin {"none", "connecting"}, ~w.said, w.live => w.pc = "on" /\ w.gate = "go"
        PROVE  NotYet' /\ OthersStay(t) /\ Kept(line'[t], worker'[t])
    <3>1. line'[t] = HungUp(t)[t] /\ NotYet'
          /\ \A s \in Lines \ {t} :
               line'[s] = line[s] \/ (line[s] = "none" /\ line'[s] = "connecting")
      BY <2>c, OnCloseMoves
    <3>2. HungUp(t)[t] \notin {"none", "connecting"} BY <1>t, <2>c DEF HungUp
    <3>3. worker'[t] = w /\ OthersStay(t) BY <1>t, <2>c, <3>1 DEF OthersStay
    <3>. QED BY <2>c, <3>1, <3>2, <3>3, SilentKeeps
  <2>u. ASSUME UNCHANGED <<line, worker>>, client'.active = client.active
        PROVE  NotYet' /\ OthersStay(t) /\ Kept(line'[t], worker'[t])
    BY <2>k, <2>u DEF NotYet, RecordInv, OthersStay
  <2>1. CASE LineOpens(t)
    <3>1. /\ line[t] = "connecting" /\ line' = [line EXCEPT ![t] = "open"]
          /\ worker' = [worker EXCEPT ![t].pc = "loading"] /\ UNCHANGED client
      BY <2>1 DEF LineOpens
    <3>2. ~worker[t].said /\ ~worker[t].live BY <2>k, <3>1 DEF Kept
    <3>3. Kept(line'[t], worker'[t])
      BY <1>t, <2>a, <3>1, <3>2 DEF Kept, Worker
    <3>. QED BY <1>t, <3>1, <3>3 DEF NotYet, RecordInv, OthersStay, Lines
  <2>2. CASE LineFails(t)
    <3>1. line[t] = "connecting" /\ UNCHANGED worker BY <2>2 DEF LineFails
    <3>2. ~worker[t].said /\ ~worker[t].live BY <2>k, <3>1 DEF Kept
    <3>3. Kept("closed", worker'[t]) BY <3>1, <3>2, SilentKeeps
    <3>4. CASE t = "ws" /\ MaySwitch /\ Switch("no", "closed")
      <4>1. client.active = "ws" BY <3>4 DEF MaySwitch
      <4>2. /\ line'["ws"] = "closed" /\ NotYet'
            /\ line["livekit"] = "none" /\ line'["livekit"] = "connecting"
        BY <3>4, <4>1, SwitchMoves
      <4>. QED BY <3>1, <3>3, <3>4, <4>2 DEF OthersStay, Lines
    <3>5. CASE line' = [line EXCEPT ![t] = "closed"] /\ UNCHANGED client
      BY <1>t, <3>1, <3>3, <3>5 DEF NotYet, RecordInv, OthersStay, Lines
    <3>. QED BY <2>2, <3>4, <3>5 DEF LineFails
  <2>3. CASE AskForMic(t) BY <2>3, <2>u DEF AskForMic
  <2>4. CASE MicOn(t)
    <3>1. CASE Hears(t) /\ worker' = [worker EXCEPT ![t].gate = "go", ![t].live = worker[t].pc = "on"]
      <4>. DEFINE v == [worker[t] EXCEPT !.gate = "go"]
                  w == [v EXCEPT !.live = (worker[t].pc = "on")]
      <4>1. worker' = [worker EXCEPT ![t] = w] BY <1>t, <3>1 DEF Worker
      <4>2. /\ w.pc = worker[t].pc /\ w.gate = "go" /\ w.live = (worker[t].pc = "on")
            /\ w.said = worker[t].said /\ w.record = worker[t].record
        BY <2>a DEF Worker
      <4>. HIDE DEF v, w
      <4>3. Kept(line[t], w) BY <2>k, <3>1, <4>2 DEF Kept, Hears
      <4>4. UNCHANGED <<line, client>> BY <2>4 DEF MicOn
      <4>. QED BY <2>w, <4>1, <4>3, <4>4
    <3>2. CASE UNCHANGED worker BY <2>4, <2>u, <3>2 DEF MicOn
    <3>. QED BY <2>4, <3>1, <3>2 DEF MicOn
  <2>5. CASE MicDenied(t) BY <2>5, <2>u DEF MicDenied
  <2>6. CASE Audible(t)
    <3>1. /\ line[t] = "open" /\ worker[t].live /\ line' = line
          /\ worker' = [worker EXCEPT ![t] = [worker[t] EXCEPT !.said = TRUE]]
          /\ client'.active = client.active
      BY <1>t, <2>6 DEF Audible, Client
    <3>2. worker'[t] = [worker[t] EXCEPT !.said = TRUE] /\ OthersStay(t)
      BY <1>t, <3>1 DEF OthersStay
    <3>3. Kept(line'[t], worker'[t]) BY <2>a, <2>k, <3>1, <3>2 DEF Kept, Worker
    <3>. QED BY <3>1, <3>2, <3>3 DEF NotYet, RecordInv
  <2>7. CASE LineDrops(t)
    <3>1. /\ line'[t] = HungUp(t)[t] /\ NotYet'
          /\ \A s \in Lines \ {t} :
               line'[s] = line[s] \/ (line[s] = "none" /\ line'[s] = "connecting")
      BY <2>7, OnCloseMoves DEF LineDrops
    <3>2. worker' = Told(t) BY <2>7 DEF LineDrops
    <3>. QED BY <3>1, <3>2, TellingKeeps DEF OthersStay
  <2>8. CASE Loads(t)
    <3>. DEFINE v == [worker[t] EXCEPT !.pc = "preparing"]
                w == [v EXCEPT !.ticker = TRUE]
    <3>1. worker' = [worker EXCEPT ![t] = w] BY <1>t, <2>8 DEF Loads, Worker
    <3>2. /\ w.pc = "preparing" /\ w.live = worker[t].live /\ w.said = worker[t].said
      BY <2>a DEF Worker
    <3>. HIDE DEF v, w
    <3>3. worker[t].pc = "loading" /\ UNCHANGED <<line, client>> BY <2>8 DEF Loads
    <3>4. Kept(line[t], w) BY <2>k, <3>2, <3>3 DEF Kept
    <3>. QED BY <2>w, <3>1, <3>3, <3>4
  <2>9. CASE Prepares(t)
    <3>. DEFINE w == [worker[t] EXCEPT !.pc = "opening"]
    <3>1. worker' = [worker EXCEPT ![t] = w] BY <1>t, <2>9 DEF Prepares, Worker
    <3>2. /\ w.pc = "opening" /\ w.live = worker[t].live /\ w.said = worker[t].said
      BY <2>a DEF Worker
    <3>. HIDE DEF w
    <3>3. worker[t].pc = "preparing" /\ UNCHANGED <<line, client>> BY <2>9 DEF Prepares
    <3>4. Kept(line[t], w) BY <2>k, <3>2, <3>3 DEF Kept
    <3>. QED BY <2>w, <3>1, <3>3, <3>4
  <2>10. CASE Opens(t)
    <3>0. /\ worker[t].pc = "opening" /\ ~worker[t].said /\ ~worker[t].live
          /\ line[t] \notin {"none", "connecting"}
      BY <2>10, <2>k DEF Opens, Kept
    <3>. DEFINE v == [worker[t] EXCEPT !.pc = "on"]
                w == [v EXCEPT !.ticker = FALSE]
                x == [v EXCEPT !.gemini = TRUE]
                y == [x EXCEPT !.live = (worker[t].gate = "go")]
    <3>1. /\ w.said = worker[t].said /\ w.live = worker[t].live
          /\ y.said = worker[t].said /\ y.live = (worker[t].gate = "go") /\ y.pc = "on"
          /\ y.gate = worker[t].gate
      BY <2>a DEF Worker
    <3>2. CASE worker' = [worker EXCEPT ![t].pc = "on", ![t].ticker = FALSE] /\ AtLate(t)
      <4>1. worker' = [worker EXCEPT ![t] = w] BY <1>t, <3>2 DEF Worker
      <4>2. OnClose(t) BY <3>2 DEF AtLate, Disconnects
      <4>. HIDE DEF v, w, x, y
      <4>. QED BY <2>c, <3>0, <3>1, <4>1, <4>2
    <3>3. CASE /\ worker' = [worker EXCEPT ![t].pc = "on", ![t].gemini = TRUE,
                                           ![t].live = worker[t].gate = "go"]
               /\ UNCHANGED <<line, client, voiceMode>>
      <4>1. worker' = [worker EXCEPT ![t] = y] BY <1>t, <3>3 DEF Worker
      <4>2. UNCHANGED <<line, client>> BY <3>3
      <4>. HIDE DEF v, w, x, y
      <4>3. Kept(line[t], y) BY <3>0, <3>1, SilentKeeps
      <4>. QED BY <2>w, <4>1, <4>2, <4>3
    <3>. QED BY <2>10, <3>2, <3>3 DEF Opens
  <2>11. CASE SetupFails(t)
    <3>. DEFINE w == [worker[t] EXCEPT !.pc = "over"]
    <3>0. /\ ~worker[t].said /\ ~worker[t].live /\ line[t] \notin {"none", "connecting"}
      BY <2>11, <2>k DEF SetupFails, Kept
    <3>1. worker' = [worker EXCEPT ![t] = w] /\ OnClose(t) BY <1>t, <2>11 DEF SetupFails, Worker
    <3>2. w.said = worker[t].said /\ w.live = worker[t].live BY <2>a DEF Worker
    <3>. HIDE DEF w
    <3>. QED BY <2>c, <3>0, <3>1, <3>2
  <2>12. CASE WarmWatchdog(t)
    <3>0. /\ ~worker[t].said /\ ~worker[t].live /\ line[t] \notin {"none", "connecting"}
      BY <2>12, <2>k DEF WarmWatchdog, Kept
    <3>. DEFINE v == [worker[t] EXCEPT !.gate = "late"]
                w == [v EXCEPT !.ticker = FALSE]
                x == [w EXCEPT !.gemini = FALSE]
    <3>1. /\ v.said = worker[t].said /\ v.live = worker[t].live
          /\ x.said = worker[t].said /\ x.live = worker[t].live
      BY <2>a DEF Worker
    <3>2. CASE /\ worker' = [worker EXCEPT ![t].gate = "late", ![t].ticker = FALSE, ![t].gemini = FALSE]
               /\ AtLate(t)
      <4>1. worker' = [worker EXCEPT ![t] = x] BY <1>t, <3>2 DEF Worker
      <4>2. OnClose(t) BY <3>2 DEF AtLate, Disconnects
      <4>. HIDE DEF v, w, x
      <4>. QED BY <2>c, <3>0, <3>1, <4>1, <4>2
    <3>3. CASE worker' = [worker EXCEPT ![t].gate = "late"] /\ UNCHANGED <<line, client, voiceMode>>
      <4>1. worker' = [worker EXCEPT ![t] = v] BY <1>t, <3>3 DEF Worker
      <4>2. UNCHANGED <<line, client>> BY <3>3
      <4>. HIDE DEF v, w, x
      <4>3. Kept(line[t], v) BY <3>0, <3>1, SilentKeeps
      <4>. QED BY <2>w, <4>1, <4>2, <4>3
    <3>. QED BY <2>12, <3>2, <3>3 DEF WarmWatchdog
  <2>13. CASE RecordWritten(t)
    <3>. DEFINE w == [worker[t] EXCEPT !.record = "done"]
    <3>1. worker' = [worker EXCEPT ![t] = w] BY <1>t, <2>13 DEF RecordWritten, Worker
    <3>2. /\ w.pc = worker[t].pc /\ w.live = worker[t].live /\ w.said = worker[t].said
          /\ w.gate = worker[t].gate /\ w.record = "done"
      BY <2>a DEF Worker
    <3>. HIDE DEF w
    <3>3. Kept(line[t], w) /\ UNCHANGED <<line, client>> BY <2>k, <2>13, <3>2 DEF Kept, RecordWritten
    <3>. QED BY <2>w, <3>1, <3>3
  <2>. QED BY <1>8, <2>1, <2>2, <2>3, <2>4, <2>5, <2>6, <2>7, <2>8, <2>9, <2>10, <2>11, <2>12,
           <2>13 DEF WorkerStep
<1>. QED BY <1>1, <1>2, <1>3, <1>4, <1>5, <1>6, <1>7, <1>8 DEF LifeNext

LEMMA RecordBegins == LifeInit => RecordInv
<1>. SUFFICES ASSUME LifeInit PROVE RecordInv OBVIOUS
<1>1. LifeTypeOK BY LifeInitTypes
<1>2. NotYet BY DEF LifeInit, NotYet, Lines
<1>3. \A t \in Lines : Kept(line[t], worker[t]) BY DEF LifeInit, Kept
<1>. QED BY <1>1, <1>2, <1>3 DEF RecordInv

\* The record of a call in which something was said outlives the worker, whatever closes
\* the line and whichever end notices first.
THEOREM RecordKept == LifeSpec => []RecordSurvives
<1>1. LifeInit => RecordInv BY RecordBegins
<1>2. RecordInv /\ [LifeNext]_lifeVars => RecordInv' BY RecordSteps
<1>3. RecordInv => RecordSurvives BY DEF RecordInv, Kept, RecordSurvives
<1>. QED BY <1>1, <1>2, <1>3, PTL DEF LifeSpec
===============================================================================
